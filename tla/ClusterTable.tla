---------------------------- MODULE ClusterTable ----------------------------
(***************************************************************************)
(* What secretprovider.Provider promises its callers: a table from cluster *)
(* names to handles that is filled on first use and never changed, every   *)
(* Get taking effect at one instant.  A Get that fails leaves no trace.    *)
(***************************************************************************)
CONSTANTS
    Keys,        \* cluster names
    NoEntry,
    EntriesFor   \* [Keys -> sets of handles]: those made from the name's Secret

VARIABLES
    table,       \* [Keys -> handles, or NoEntry]
    returned     \* the names and handles Get has returned

Init == table = [n \in Keys |-> NoEntry] /\ returned = {}

Return(n, h) == returned' = returned \cup {[name |-> n, handle |-> h]}

\* The first Get of a name makes a handle nobody else has.
Make(n, h) ==
    /\ table[n] = NoEntry /\ h \in EntriesFor[n]
    /\ \A m \in Keys : table[m] # h
    /\ table' = [table EXCEPT ![n] = h]
    /\ Return(n, h)

\* Every later one returns that handle.
Answer(n) ==
    /\ table[n] # NoEntry /\ Return(n, table[n])
    /\ UNCHANGED table

Next == \E n \in Keys : Answer(n) \/ \E h \in EntriesFor[n] : Make(n, h)

Spec == Init /\ [][Next]_<<table, returned>>
=============================================================================
