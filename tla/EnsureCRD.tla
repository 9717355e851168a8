----------------------------- MODULE EnsureCRD -----------------------------
(***************************************************************************)
(* internal/multicluster/crd_watch.go: EnsureKryptonDeploymentCRD, run at  *)
(* startup by every operator process told to (-ensure-watch-crds).  Several *)
(* processes may run it at once; an answer may be lost after the API server *)
(* has created the CRD.                                                    *)
(***************************************************************************)
EXTENDS Integers

CONSTANTS
    Processes    \* operator processes starting up

Attempts == 5
MaxSeen == Attempts + 1

VARIABLES
    crd,      \* the CRD exists
    created,  \* how often the API server has created it
    pc,       \* "get", "create", or the outcome
    attempt,  \* the loop variable
    lastErr,  \* whether lastErr is set
    seen,     \* transient errors this process has met, counted up to MaxSeen
    other     \* processes that have met an error of another kind

vars == <<crd, created, pc, attempt, lastErr, seen, other>>

Outcomes == {"nil", "transient", "fatal", "exhausted"}

TypeOK ==
    /\ crd \in BOOLEAN
    /\ created \in Nat
    /\ pc \in [Processes -> {"get", "create"} \cup Outcomes]
    /\ attempt \in [Processes -> 0..(Attempts - 1)]
    /\ lastErr \in [Processes -> BOOLEAN]
    /\ seen \in [Processes -> 0..MaxSeen]
    /\ other \subseteq Processes

Init ==
    /\ crd = FALSE /\ created = 0
    /\ pc = [p \in Processes |-> "get"]
    /\ attempt = [p \in Processes |-> 0]
    /\ lastErr = [p \in Processes |-> FALSE]
    /\ seen = [p \in Processes |-> 0]
    /\ other = {}

Goto(p, l) ==
    /\ pc' = [pc EXCEPT ![p] = l]
    /\ UNCHANGED <<attempt, lastErr, seen>>

\* Mutation: one attempt more.
OneMore == 6
Limit == Attempts

\* Mutation: the same attempt again.
SameAttempt(p) == attempt[p]
NextAttempt(p) == attempt[p] + 1

\* Mutation: falling out of the loop is no error.
NoError(p) == "nil"
AfterLoop(p) == IF lastErr'[p] THEN "transient" ELSE "exhausted"

\* A transient error (refused, canceled, timed out): remember it, sleep, and go
\* round the loop, or fall out of it.
Transient(p) ==
    /\ seen' = [seen EXCEPT ![p] = IF @ < MaxSeen THEN @ + 1 ELSE @]
    /\ lastErr' = [lastErr EXCEPT ![p] = TRUE]
    /\ IF NextAttempt(p) < Limit
       THEN /\ attempt' = [attempt EXCEPT ![p] = NextAttempt(p)]
            /\ pc' = [pc EXCEPT ![p] = "get"]
       ELSE /\ pc' = [pc EXCEPT ![p] = AfterLoop(p)]
            /\ UNCHANGED attempt

Fatal(p) == other' = other \cup {p} /\ Goto(p, "fatal")

Get(p) ==
    /\ pc[p] = "get"
    /\ \/ Goto(p, IF crd THEN "nil" ELSE "create") /\ UNCHANGED other
       \/ Transient(p) /\ UNCHANGED other
       \/ Fatal(p)
    /\ UNCHANGED <<crd, created>>

\* Mutation: AlreadyExists is an error like any other.
ConflictIsFatal == "fatal"
\* Either way the CRD is there.
OnAlreadyExists == "nil"

\* The API server handles the request; with the answer lost the process cannot
\* tell whether it did.
ServerCreates ==
    /\ crd' = TRUE
    /\ created' = IF crd THEN created ELSE created + 1

Create(p) ==
    /\ pc[p] = "create"
    /\ \/ /\ ServerCreates /\ UNCHANGED other
          /\ \/ Goto(p, IF crd THEN OnAlreadyExists ELSE "nil")
             \/ Transient(p)
       \/ Transient(p) /\ UNCHANGED <<crd, created, other>>
       \/ Fatal(p) /\ UNCHANGED <<crd, created>>

-----------------------------------------------------------------------------
\* Startup goes on only with the CRD in place, whoever created it and whichever
\* answers were lost: the informer of the home controller needs it.
NilMeansPresent == \A p \in Processes : pc[p] = "nil" => crd

\* Racing processes and lost answers never turn into an error: only an error of
\* its own that is not transient, or five transient ones, end a process's startup.
\* The last return (line 74) is never reached.
GivesUpOnlyWhenEntitled ==
    \A p \in Processes :
        /\ pc[p] = "fatal" => p \in other
        /\ pc[p] = "transient" => seen[p] = Attempts
        /\ pc[p] # "exhausted"
=============================================================================
