--------------------------- MODULE ProviderProofs ---------------------------
(***************************************************************************)
(* Proofs about Provider, for any number of goroutines, names, Secrets and *)
(* changes of Secrets: one critical section makes Get atomic.              *)
(***************************************************************************)
EXTENDS Provider, TLAPS

\* A caller in the critical section holds the mutex and has found no handle.
Exclusive ==
    \A c \in Callers : pc[c] \in {"read", "store"} =>
        mu = c /\ arg[c] \in Names /\ table[arg[c]] = NoHandle

\* What it is about to store was made last, from the name's Secret.
Fresh ==
    \A c \in Callers : pc[c] = "store" =>
        /\ handle[c] \in Handle /\ handle[c].from = SecretOf(arg[c])
        /\ handle[c].id = made
        /\ \A n \in Names : table[n] # NoHandle => table[n].id < made

\* What is in the table leads where its name says.
Rooted ==
    \A n \in Names : table[n] # NoHandle =>
        table[n] \in Handle /\ table[n].from = SecretOf(n) /\ table[n].id <= made

\* What was returned is in the table.
Kept == \A a \in returned : a.handle # NoHandle /\ table[a.name] = a.handle

Asking == \A c \in Callers : pc[c] = "get" => arg[c] \in Names

Inv == TypeOK /\ Exclusive /\ Fresh /\ Rooted /\ Kept /\ Asking

\* A handle is never the mark of a missing one: ids start at 1.
LEMMA HandlesAreHandles == NoHandle \notin Handle
  BY DEF NoHandle, Handle

\* A Secret that can be used is one the API server may hold.
LEMMA UsableStored ==
    ASSUME TypeOK, NEW s, Usable(Stored(secrets, s))
    PROVE  s \in SecretKeys /\ Stored(secrets, s) \in Contents
  BY ProviderAssumption DEF Usable, Stored

-----------------------------------------------------------------------------
(* Each step keeps the invariant.                                           *)

\* Entering Get or List.
LEMMA CallStep ==
    ASSUME Inv, NEW c \in Callers, CallList(c) \/ \E n \in Asked : CallGet(c, n)
    PROVE  Inv'
<1>1. CASE CallList(c)
  BY <1>1 DEF CallList, Goto, Inv, TypeOK, Exclusive, Fresh, Rooted, Kept, Asking
<1>2. ASSUME NEW n \in Asked, CallGet(c, n) PROVE Inv'
  <2>1. n \in Names
    BY AskedAssumption
  <2> QED
    BY <1>2, <2>1 DEF CallGet, Goto, Inv, TypeOK, Exclusive, Fresh, Rooted, Kept, Asking
<1> QED
  BY <1>1, <1>2

\* Returning with results that are in the table by then, which is left alone.
LEMMA ReturnStep ==
    ASSUME Inv, NEW c \in Callers, NEW results \in SUBSET [name : Names, handle : Handle],
           Return(c, results), UNCHANGED <<secrets, changes, made, table>>,
           mu = Free \/ mu = c,
           \A a \in results : table[a.name] = a.handle
    PROVE  Inv'
<1>1. /\ pc' = [pc EXCEPT ![c] = "idle"] /\ arg' = [arg EXCEPT ![c] = NoName]
      /\ handle' = [handle EXCEPT ![c] = NoHandle] /\ mu' = Free
      /\ returned' = returned \cup results
  BY DEF Return, Goto, Released
<1>2. TypeOK'
  BY <1>1 DEF Inv, TypeOK
<1>3. \A d \in Callers : pc[d] \in {"read", "store"} => d = c
  BY ProviderAssumption DEF Inv, Exclusive
<1>4. \A d \in Callers : pc'[d] \notin {"read", "store"}
  BY <1>1, <1>3 DEF Inv, TypeOK
<1>5. Exclusive' /\ Fresh'
  BY <1>4 DEF Exclusive, Fresh
<1>6. Rooted'
  BY DEF Inv, Rooted
<1>7. Kept'
  BY <1>1, HandlesAreHandles DEF Inv, Kept
<1>8. Asking'
  BY <1>1 DEF Inv, TypeOK, Asking
<1> QED
  BY <1>2, <1>5, <1>6, <1>7, <1>8 DEF Inv

\* Taking the mutex and looking the name up.
LEMMA LockedStep ==
    ASSUME Inv, NEW c \in Callers, GetLocked(c)
    PROVE  Inv'
<1> DEFINE n == arg[c]
<1>1. pc[c] = "get" /\ mu = Free /\ n \in Names
  BY DEF GetLocked, Inv, Asking
<1>2. CASE table[n] # NoHandle
  <2>1. table[n] \in Handle
    BY <1>1, <1>2 DEF Inv, Rooted
  <2>2. Found(n, table[n]) \in SUBSET [name : Names, handle : Handle]
    BY <1>1, <2>1 DEF Found
  <2>3. \A a \in Found(n, table[n]) : table[a.name] = a.handle
    BY DEF Found
  <2>4. Return(c, Found(n, table[n])) /\ UNCHANGED <<secrets, changes, made, table>>
    BY <1>2 DEF GetLocked
  <2> QED
    BY <1>1, <2>2, <2>3, <2>4, ReturnStep
<1>3. CASE table[n] = NoHandle
  <2>1. /\ mu' = c /\ pc' = [pc EXCEPT ![c] = "read"]
        /\ UNCHANGED <<secrets, changes, made, table, arg, handle, returned>>
    BY <1>3 DEF GetLocked, HolderWhileReading, Goto
  <2>2. TypeOK'
    BY <2>1 DEF Inv, TypeOK
  <2>3. \A d \in Callers : pc[d] \notin {"read", "store"}
    BY <1>1, ProviderAssumption DEF Inv, Exclusive
  <2>4. Exclusive' /\ Fresh' /\ Asking'
    BY <1>1, <1>3, <2>1, <2>3 DEF Inv, TypeOK, Exclusive, Fresh, Asking
  <2>5. Rooted' /\ Kept'
    BY <2>1 DEF Inv, Rooted, Kept
  <2> QED
    BY <2>2, <2>4, <2>5 DEF Inv
<1> QED
  BY <1>2, <1>3

\* Reading the Secret and making the handle, or failing.
LEMMA ReadStep ==
    ASSUME Inv, NEW c \in Callers, ReadSecret(c)
    PROVE  Inv'
<1> DEFINE s == SecretOf(arg[c])
           new == [id |-> made + 1, from |-> s, content |-> Stored(secrets, s)]
<1>1. pc[c] = "read" /\ mu = c /\ arg[c] \in Names /\ table[arg[c]] = NoHandle
  BY DEF ReadSecret, Inv, Exclusive
<1>2. CASE Return(c, {}) /\ UNCHANGED made
  BY <1>1, <1>2, ReturnStep DEF ReadSecret
<1>3. CASE /\ Usable(Stored(secrets, s)) /\ made < MaxHandles /\ made' = made + 1
           /\ handle' = [handle EXCEPT ![c] = new] /\ Goto(c, "store")
           /\ UNCHANGED <<mu, arg, returned>>
  <2>1. made \in Nat /\ made + 1 \in 1..MaxHandles /\ UNCHANGED <<secrets, changes, table>>
    BY <1>3, ProviderAssumption DEF ReadSecret, Inv, TypeOK
  <2>2. s \in SecretKeys /\ Stored(secrets, s) \in Contents
    BY <1>3, UsableStored DEF Inv
  <2>3. new \in Handle /\ new.from = s /\ new.id = made + 1
    BY <2>1, <2>2 DEF Handle
  <2> HIDE DEF new, s
  <2>4. TypeOK'
    BY <1>3, <2>1, <2>3, ProviderAssumption DEF Inv, TypeOK, Goto
  <2>5. \A d \in Callers \ {c} : pc[d] \notin {"read", "store"}
    BY <1>1 DEF Inv, Exclusive
  <2>6. pc' = [pc EXCEPT ![c] = "store"] /\ pc \in [Callers -> {"idle", "get", "read", "store", "list"}]
        /\ handle \in [Callers -> Handle \cup {NoHandle}]
    BY <1>3 DEF Goto, Inv, TypeOK
  <2>7. Exclusive' /\ Asking'
    BY <1>1, <1>3, <2>1, <2>5, <2>6 DEF Inv, Exclusive, Asking
  <2>8. \A n \in Names : table[n] # NoHandle => table[n].id \in Nat /\ table[n].id <= made
    BY DEF Inv, Rooted, Handle
  <2>9. Fresh'
    <3>1. handle'[c] = new /\ arg'[c] = arg[c] /\ UNCHANGED table
      BY <1>3, <2>1, <2>6
    <3> QED
      BY <1>3, <2>1, <2>3, <2>5, <2>6, <2>8, <3>1 DEF Fresh, s
  <2>10. Rooted' /\ Kept'
    BY <1>3, <2>1, <2>8 DEF Inv, Rooted, Kept
  <2> QED
    BY <2>4, <2>7, <2>9, <2>10 DEF Inv
<1> QED
  BY <1>2, <1>3 DEF ReadSecret

\* Storing the handle and returning it.
LEMMA StoreStep ==
    ASSUME Inv, NEW c \in Callers, Store(c)
    PROVE  Inv'
<1> DEFINE n == arg[c]
<1>1. pc[c] = "store" /\ mu = c /\ n \in Names /\ table[n] = NoHandle
  BY DEF Store, Inv, Exclusive
<1>2. handle[c] \in Handle /\ handle[c].from = SecretOf(n) /\ handle[c].id = made
  BY <1>1 DEF Inv, Fresh
<1>3. /\ table' = [table EXCEPT ![n] = handle[c]]
      /\ pc' = [pc EXCEPT ![c] = "idle"] /\ arg' = [arg EXCEPT ![c] = NoName]
      /\ handle' = [handle EXCEPT ![c] = NoHandle] /\ mu' = Free
      /\ returned' = returned \cup Found(n, handle[c])
      /\ UNCHANGED <<secrets, changes, made>>
  BY DEF Store, Return, Goto, Released
<1>4. Found(n, handle[c]) = {[name |-> n, handle |-> handle[c]]}
  BY DEF Found
<1>5. TypeOK'
  BY <1>1, <1>2, <1>3, <1>4 DEF Inv, TypeOK
<1>6. \A d \in Callers : pc'[d] \notin {"read", "store"}
  <2>1. \A d \in Callers \ {c} : pc[d] \notin {"read", "store"}
    BY <1>1 DEF Inv, Exclusive
  <2> QED
    BY <1>3, <2>1 DEF Inv, TypeOK
<1>7. Exclusive' /\ Fresh'
  BY <1>6 DEF Exclusive, Fresh
<1>8. Rooted'
  <2>1. made \in Nat /\ table \in [Names -> Handle \cup {NoHandle}]
    BY ProviderAssumption DEF Inv, TypeOK
  <2> QED
    BY <1>1, <1>2, <1>3, <2>1 DEF Inv, Rooted
<1>9. Kept'
  <2>1. table \in [Names -> Handle \cup {NoHandle}]
        /\ returned \subseteq [name : Names, handle : Handle]
    BY DEF Inv, TypeOK
  <2>2. \A a \in returned : a.name # n
    BY <1>1 DEF Inv, Kept
  <2>3. \A a \in returned : a.handle # NoHandle /\ table'[a.name] = a.handle
    BY <1>3, <2>1, <2>2 DEF Inv, Kept
  <2>4. \A a \in Found(n, handle[c]) : a.handle # NoHandle /\ table'[a.name] = a.handle
    BY <1>1, <1>2, <1>3, <1>4, <2>1, HandlesAreHandles
  <2> QED
    BY <1>3, <2>3, <2>4 DEF Kept
<1>10. Asking'
  BY <1>3 DEF Inv, TypeOK, Asking
<1> QED
  BY <1>5, <1>7, <1>8, <1>9, <1>10 DEF Inv

\* Listing the names, and changes of Secrets.
LEMMA OtherStep ==
    ASSUME Inv, \/ \E c \in Callers : List(c)
                \/ \E n \in Asked : SecretOf(n) \in SecretKeys /\ ChangeSecret(SecretOf(n))
    PROVE  Inv'
<1>1. ASSUME NEW c \in Callers, List(c) PROVE Inv'
  BY <1>1 DEF List, Goto, Inv, TypeOK, Exclusive, Fresh, Rooted, Kept, Asking
<1>2. ASSUME NEW s \in SecretKeys, ChangeSecret(s) PROVE Inv'
  <2>1. changes + 1 \in 0..MaxChanges /\ changes' = changes + 1
    BY <1>2, ProviderAssumption DEF ChangeSecret, Inv, TypeOK
  <2>2. TypeOK'
    BY <1>2, <2>1 DEF ChangeSecret, Inv, TypeOK
  <2>3. UNCHANGED <<mu, made, table, pc, arg, handle, returned>>
    BY <1>2 DEF ChangeSecret
  <2> QED
    BY <2>2, <2>3 DEF Inv, Exclusive, Fresh, Rooted, Kept, Asking
<1> QED
  BY <1>1, <1>2

\* Inv is inductive.
LEMMA InvStep == Inv /\ [Next]_vars => Inv'
<1> SUFFICES ASSUME Inv, [Next]_vars PROVE Inv'
  OBVIOUS
<1>1. CASE UNCHANGED vars
  BY <1>1 DEF vars, Inv, TypeOK, Exclusive, Fresh, Rooted, Kept, Asking
<1>2. CASE Next
  BY <1>2, CallStep, LockedStep, ReadStep, StoreStep, OtherStep DEF Next, Step
<1> QED
  BY <1>1, <1>2

\* Inv holds before the first call.
LEMMA InvInit == Init => Inv
  BY ProviderAssumption DEF Init, Inv, TypeOK, Exclusive, Fresh, Rooted, Kept, Asking

-----------------------------------------------------------------------------
(* What follows.                                                            *)

\* The type invariant of the provider.
THEOREM ProviderTyped == Spec => []TypeOK
<1>1. Inv => TypeOK
  BY DEF Inv
<1> QED
  BY <1>1, InvInit, InvStep, PTL DEF Spec

\* Whoever asks first, a name stands for one handle.
THEOREM HandlesAreUnique == Spec => []OneHandlePerName
<1>1. Inv => OneHandlePerName
  BY DEF Inv, Kept, OneHandlePerName
<1> QED
  BY <1>1, InvInit, InvStep, PTL DEF Spec

\* A handle leads to the Secret its name stands for.
THEOREM HandlesLeadHome == Spec => []HandleMatchesName
<1>1. Inv => HandleMatchesName
  <2> SUFFICES ASSUME Inv, NEW a \in returned
               PROVE  /\ a.handle.from.ns = IF a.name.slash THEN a.name.l ELSE Namespace
                      /\ a.handle.from.name.r = a.name.r
    BY DEF HandleMatchesName
  <2>1. a.name \in Names /\ a.handle \in Handle /\ a.handle.from = SecretOf(a.name)
    BY DEF Inv, TypeOK, Kept, Rooted
  <2>2. SecretOf(a.name) \in SecretKeys
    BY <2>1 DEF Handle
  <2>3. ~a.name.slash => a.name = [slash |-> FALSE, l |-> Empty, r |-> a.name.r]
    BY <2>1 DEF Names
  <2>4. CASE a.name.slash /\ a.name.l # Empty /\ a.name.r # Empty
    BY <2>1, <2>4 DEF SecretOf
  <2>5. CASE ~(a.name.slash /\ a.name.l # Empty /\ a.name.r # Empty)
    <3>1. SecretOf(a.name) = [ns |-> Namespace, name |-> a.name]
      BY <2>5 DEF SecretOf
    <3>2. SecretOf(a.name).name = a.name
      BY <3>1
    <3>3. a.name \in [slash : {FALSE}, l : {Empty}, r : Parts]
      BY <2>2, <3>2 DEF SecretKeys
    <3>4. ~a.name.slash
      BY <3>3
    <3> QED
      BY <2>1, <3>1, <3>4
  <2> QED
    BY <2>4, <2>5
<1> QED
  BY <1>1, InvInit, InvStep, PTL DEF Spec

\* Every step of the provider is a step of the table or invisible in it.
LEMMA TableStep == Inv /\ [Next]_vars => [Table!Next]_<<table, returned>>
<1> SUFFICES ASSUME Inv, [Next]_vars PROVE [Table!Next]_<<table, returned>>
  OBVIOUS
<1> DEFINE from == [n \in Names |-> {h \in Handle : h.from = SecretOf(n)}]
<1>1. ASSUME NEW c \in Callers, GetLocked(c) PROVE [Table!Next]_<<table, returned>>
  <2>1. arg[c] \in Names /\ UNCHANGED table
    BY <1>1 DEF GetLocked, Inv, Asking
  <2>2. CASE table[arg[c]] # NoHandle
    <3>1. Table!Answer(arg[c])
      BY <1>1, <2>1, <2>2 DEF GetLocked, Return, Found, Table!Answer, Table!Return
    <3> QED
      BY <2>1, <3>1 DEF Table!Next
  <2>3. CASE table[arg[c]] = NoHandle
    BY <1>1, <2>1, <2>3 DEF GetLocked
  <2> QED
    BY <2>2, <2>3
<1>2. ASSUME NEW c \in Callers, ReadSecret(c) PROVE UNCHANGED <<table, returned>>
  BY <1>2 DEF ReadSecret, Return
<1>3. ASSUME NEW c \in Callers, Store(c) PROVE Table!Next
  <2> DEFINE n == arg[c]
  <2>1. n \in Names /\ table[n] = NoHandle /\ handle[c] \in from[n]
    BY <1>3 DEF Store, Inv, Exclusive, Fresh
  <2>2. \A m \in Names : table[m] # handle[c]
    <3>1. handle[c] # NoHandle /\ handle[c].id = made /\ made \in Nat
      BY <1>3, HandlesAreHandles, ProviderAssumption DEF Store, Inv, Fresh, TypeOK
    <3>2. \A m \in Names : table[m] # NoHandle => table[m].id < made
      BY <1>3 DEF Store, Inv, Fresh
    <3> QED
      BY <3>1, <3>2
  <2>3. Table!Make(n, handle[c])
    BY <1>3, <2>1, <2>2 DEF Store, Return, Found, Table!Make, Table!Return
  <2> QED
    BY <2>1, <2>3 DEF Table!Next
<1>4. Next => \/ \E c \in Callers : GetLocked(c) \/ ReadSecret(c) \/ Store(c)
              \/ UNCHANGED <<table, returned>>
  BY DEF Next, Step, List, CallList, CallGet, ChangeSecret
<1>5. UNCHANGED vars => UNCHANGED <<table, returned>>
  BY DEF vars
<1> QED
  BY <1>1, <1>2, <1>3, <1>4, <1>5

\* To its callers the provider is the table: the mutex makes every Get a single
\* step, for any number of goroutines.
THEOREM ProviderImplementsTable == Spec => ActsLikeATable
<1>1. Init => Table!Init
  BY DEF Init, Table!Init
<1> QED
  BY <1>1, InvInit, InvStep, TableStep, PTL DEF Spec, ActsLikeATable, Table!Spec
=============================================================================
