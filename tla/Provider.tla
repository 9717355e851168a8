------------------------------ MODULE Provider ------------------------------
(***************************************************************************)
(* multicluster/secretprovider/provider.go: cluster handles made from      *)
(* kubeconfig Secrets on first use.  Get and List may be called by any     *)
(* goroutine of the process; one mutex is held from the first line of each *)
(* to the return, the read of the Secret from the API server included.     *)
(***************************************************************************)
EXTENDS Integers, FiniteSets

CONSTANTS
    Callers,    \* goroutines
    Free,       \* nobody holds the mutex
    Parts,      \* what may stand before and after a slash in a cluster name
    Empty,      \* the empty string
    Namespace,  \* the provider's own namespace
    Contents,   \* kubeconfigs that yield a cluster
    Broken,     \* a Secret without the key, or one that does not parse
    NoSecret,
    Asked,      \* the names callers ask for
    MaxHandles, \* bound on the handles ever made
    MaxChanges  \* bound on the changes made to Secrets

ASSUME ProviderAssumption ==
    /\ MaxHandles \in Nat /\ MaxChanges \in Nat
    /\ Free \notin Callers /\ Empty \notin Parts /\ Namespace \in Parts
    /\ Broken \notin Contents /\ NoSecret \notin Contents

\* A cluster name "l/r" or, without a slash, "r".
Names == [slash : {TRUE}, l : Parts \cup {Empty}, r : Parts \cup {Empty}]
         \cup [slash : {FALSE}, l : {Empty}, r : Parts]

ASSUME AskedAssumption == Asked \subseteq Names

\* Mutation: the namespace part is ignored.
OwnNamespace(n) == [ns |-> Namespace, name |-> [slash |-> FALSE, l |-> Empty, r |-> n.r]]

\* "ns/name" when both parts are there, else all of it is a name in the
\* provider's own namespace, the slash included.
SecretOf(n) ==
    IF n.slash /\ n.l # Empty /\ n.r # Empty
    THEN [ns |-> n.l, name |-> [slash |-> FALSE, l |-> Empty, r |-> n.r]]
    ELSE [ns |-> Namespace, name |-> n]

\* Kubernetes allows no slash in the name of a Secret.
SecretKeys == [ns : Parts, name : [slash : {FALSE}, l : {Empty}, r : Parts]]
Stored(sec, s) == IF s \in SecretKeys THEN sec[s] ELSE NoSecret

Handle == [id : 1..MaxHandles, from : SecretKeys, content : Contents]

VARIABLES
    secrets,   \* the API server's Secrets
    changes,
    mu,        \* p.mu
    made,      \* number of handles made
    table,     \* p.clusters
    pc, arg,   \* each caller's place in Get or List, and the name it asks for
    handle,    \* the handle it has just made
    returned   \* the names and handles Get has returned without an error

vars == <<secrets, changes, mu, made, table, pc, arg, handle, returned>>

NoName == [slash |-> FALSE, l |-> Empty, r |-> Empty]
NoHandle == [id |-> 0, from |-> NoSecret, content |-> NoSecret]

TypeOK ==
    /\ secrets \in [SecretKeys -> Contents \cup {Broken, NoSecret}]
    /\ changes \in 0..MaxChanges
    /\ mu \in Callers \cup {Free}
    /\ made \in 0..MaxHandles
    /\ table \in [Names -> Handle \cup {NoHandle}]
    /\ pc \in [Callers -> {"idle", "get", "read", "store", "list"}]
    /\ arg \in [Callers -> Names \cup {NoName}]
    /\ handle \in [Callers -> Handle \cup {NoHandle}]
    /\ returned \subseteq [name : Names, handle : Handle]

Init ==
    /\ secrets = [s \in SecretKeys |-> NoSecret]
    /\ changes = 0 /\ mu = Free /\ made = 0
    /\ table = [n \in Names |-> NoHandle]
    /\ pc = [c \in Callers |-> "idle"]
    /\ arg = [c \in Callers |-> NoName]
    /\ handle = [c \in Callers |-> NoHandle]
    /\ returned = {}

Goto(c, l) == pc' = [pc EXCEPT ![c] = l]

CallGet(c, n) ==
    /\ pc[c] = "idle" /\ Goto(c, "get")
    /\ arg' = [arg EXCEPT ![c] = n]
    /\ UNCHANGED <<secrets, changes, mu, made, table, handle, returned>>

CallList(c) ==
    /\ pc[c] = "idle" /\ Goto(c, "list")
    /\ UNCHANGED <<secrets, changes, mu, made, table, arg, handle, returned>>

\* Mutation: the mutex is not held while the Secret is read.
UnlockedRead(c) == Free
HolderWhileReading(c) == c

\* Mutation: no deferred Unlock.
StillHeld(c) == c
Released(c) == Free

\* Return from Get, the deferred Unlock included.
Return(c, results) ==
    /\ returned' = returned \cup results
    /\ Goto(c, "idle")
    /\ arg' = [arg EXCEPT ![c] = NoName]
    /\ handle' = [handle EXCEPT ![c] = NoHandle]
    /\ mu' = Released(c)

Found(n, h) == {[name |-> n, handle |-> h]}

\* Lock, and look the name up.
GetLocked(c) ==
    /\ pc[c] = "get" /\ mu = Free
    /\ IF table[arg[c]] # NoHandle
       THEN Return(c, Found(arg[c], table[arg[c]]))
       ELSE /\ mu' = HolderWhileReading(c) /\ Goto(c, "read")
            /\ UNCHANGED <<arg, handle, returned>>
    /\ UNCHANGED <<secrets, changes, made, table>>

\* Mutation: whatever the Secret holds is taken for a kubeconfig.
AnyContent(x) == x # NoSecret

\* The Secret has the key, and the kubeconfig parses.
Usable(x) == x \in Contents

\* client.Get, buildConfig and cluster.New; any of them may fail.
ReadSecret(c) ==
    LET s == SecretOf(arg[c])
    IN  /\ pc[c] = "read"
        /\ \/ /\ Usable(Stored(secrets, s)) /\ made < MaxHandles
              /\ made' = made + 1
              /\ handle' = [handle EXCEPT ![c] =
                    [id |-> made + 1, from |-> s, content |-> Stored(secrets, s)]]
              /\ Goto(c, "store")
              /\ UNCHANGED <<mu, arg, returned>>
           \/ Return(c, {}) /\ UNCHANGED made
        /\ UNCHANGED <<secrets, changes, table>>

Store(c) ==
    /\ pc[c] = "store"
    /\ table' = [table EXCEPT ![arg[c]] = handle[c]]
    /\ Return(c, Found(arg[c], handle[c]))
    /\ UNCHANGED <<secrets, changes, made>>

\* List copies the names under the same mutex.
List(c) ==
    /\ pc[c] = "list" /\ mu = Free
    /\ Goto(c, "idle")
    /\ UNCHANGED <<secrets, changes, mu, made, table, arg, handle, returned>>

ChangeSecret(s) ==
    /\ changes < MaxChanges /\ changes' = changes + 1
    /\ \E x \in Contents \cup {Broken, NoSecret} :
          x # secrets[s] /\ secrets' = [secrets EXCEPT ![s] = x]
    /\ UNCHANGED <<mu, made, table, pc, arg, handle, returned>>

Step(c) == GetLocked(c) \/ ReadSecret(c) \/ Store(c) \/ List(c)

Next ==
    \/ \E c \in Callers : Step(c) \/ CallList(c) \/ \E n \in Asked : CallGet(c, n)
    \/ \E n \in Asked : SecretOf(n) \in SecretKeys /\ ChangeSecret(SecretOf(n))

Spec == Init /\ [][Next]_vars

\* API calls return; sync.Mutex hands itself over to a waiter in the end.
Fairness == \A c \in Callers : SF_vars(GetLocked(c)) /\ SF_vars(List(c))
                               /\ WF_vars(ReadSecret(c) \/ Store(c))
FairSpec == Spec /\ Fairness

-----------------------------------------------------------------------------
\* A cluster name stands for one handle for the life of the process: the
\* connections and caches behind a handle are never duplicated, whoever asks
\* first (the check of p.clusters at line 41 and the store at line 73 are one
\* critical section).
OneHandlePerName ==
    \A a, b \in returned : a.name = b.name => a.handle = b.handle

\* A handle leads where the name says: names in different namespaces never
\* share one, whatever the short forms (lines 45 to 53).
HandleMatchesName ==
    \A a \in returned :
        /\ a.handle.from.ns = IF a.name.slash THEN a.name.l ELSE Namespace
        /\ a.handle.from.name.r = a.name.r

\* To its callers the provider is a table filled on first use, each Get a
\* single step, though it reads a Secret and builds a cluster in between
\* (lines 39 to 74).
Table == INSTANCE ClusterTable WITH
            Keys <- Names, NoEntry <- NoHandle,
            EntriesFor <- [n \in Names |-> {h \in Handle : h.from = SecretOf(n)}]
ActsLikeATable == Table!Spec

\* No Get is kept waiting for ever by the others' reads of Secrets.
EveryCallReturns == \A c \in Callers : pc[c] # "idle" ~> pc[c] = "idle"
=============================================================================
