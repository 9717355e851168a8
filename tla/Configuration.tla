--------------------------- MODULE Configuration ---------------------------
(***************************************************************************)
(* What internal/multicluster/krypton_operator.go makes of its flags and   *)
(* environment variables: pure operators, without state.                   *)
(***************************************************************************)
EXTENDS Integers, FiniteSets, Sequences

CONSTANTS
    Largest,   \* the largest time.Duration (2^63 - 1)
    Second     \* time.Second (10^9)

ASSUME DurationAssumption ==
    Largest \in Nat /\ Second \in Nat \ {0} /\ 60 * Second <= Largest

\* The empty string: a variable or flag that is not set.
Empty == ""

\* The first of several settings that is set.
FirstSet(settings) ==
    LET set == {i \in DOMAIN settings : settings[i] # Empty}
    IN  IF set = {} THEN Empty ELSE settings[CHOOSE i \in set : \A j \in set : i <= j]

-----------------------------------------------------------------------------
(* The settings of one process: the flags, and the variables in capitals.   *)

\* The namespace of the kubeconfig Secrets: the variables, the service account's
\* file and only then the flag.
Namespace(e) == FirstSet(<<e.WATCH_NAMESPACE, e.POD_NAMESPACE, e.serviceaccount, e.namespace>>)

\* Mutation: the default is taken before the environment is read.
DefaultFromFlag(e) == FirstSet(<<e.watchSecretNs, e.namespace>>)

\* The namespace of the Secret with the kubeconfig of the watched cluster.
WatchSecretNs(e) == FirstSet(<<e.watchSecretNs, Namespace(e)>>)

\* Where the configuration of the watched cluster comes from.
Source(e) ==
    IF e.watchSecret # Empty THEN "secret"
    ELSE IF FirstSet(<<e.WATCH_KUBECONFIG, e.WATCH_CLUSTER_KUBECONFIG>>) # Empty THEN "file"
    ELSE "default"

\* The variable can only turn the flag on.
Ensures(e) == e.ensure \/ e.ENSURE_WATCH_CRDS \in {"true", "1", "yes"}

\* The namespaces the home manager's cache covers: parts are the trimmed parts
\* of the comma-separated list.
Scope(parts, all) ==
    LET named == {parts[i] : i \in DOMAIN parts} \ {Empty}
    IN  IF parts = <<"*">> \/ named = {} THEN all ELSE named

-----------------------------------------------------------------------------
(* getCheckInterval.                                                        *)

\* time.Duration is a signed integer: it wraps from Largest to -Largest - 1.
Integer == (-Largest - 1)..Largest
Wrapped(n) == ((n + Largest + 1) % (2 * (Largest + 1))) - Largest - 1

Default == 60 * Second

\* KRYPTON_CHECK_INTERVAL holds a duration, an integer, or neither.
Intervals == {"duration", "integer"} \X Integer \cup {<<"neither", 0>>}

\* Mutation: any duration will do.
AnyDuration(v) == v[1] = "duration"
\* "0" is both a duration and an integer, and taken as neither.
IsDuration(v) == v[1] = "duration" /\ v[2] > 0
IsSeconds(v) == v[1] = "integer" /\ v[2] > 0

CheckInterval(v) ==
    IF IsDuration(v) THEN v[2]
    ELSE IF IsSeconds(v) THEN Wrapped(v[2] * Second)
    ELSE Default

\* The interval is positive and the one asked for, whatever the variable holds, but
\* for an integer that does not fit when counted in the units of time.Duration.
EveryIntervalIsUsable ==
    \A v \in Intervals :
        LET i == CheckInterval(v)
        IN  \/ v[1] = "integer" /\ v[2] * Second > Largest
            \/ i > 0 /\ (v[2] > 0 => i = IF v[1] = "duration" THEN v[2] ELSE v[2] * Second)
=============================================================================
