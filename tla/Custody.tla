------------------------------ MODULE Custody ------------------------------
(***************************************************************************)
(* What the finalizer is for: the operator takes an object into custody    *)
(* before it puts anything on an edge cluster for it, and lets go of it    *)
(* only when nothing is left there.                                        *)
(***************************************************************************)
CONSTANTS
    KD, Edges, Names,
    NameOf    \* [KD -> Names]

VARIABLES
    held,     \* objects that exist and bear the finalizer
    occupied  \* <<edge, name>>: something of a release is there to stay

Init == held = {} /\ occupied = {}

Take(k) == held' = held \cup {k} /\ UNCHANGED occupied

LetGo(k) ==
    /\ \A e \in Edges : <<e, NameOf[k]>> \notin occupied
    /\ held' = held \ {k}
    /\ UNCHANGED occupied

Occupy(e, n) ==
    /\ \E k \in held : NameOf[k] = n
    /\ occupied' = occupied \cup {<<e, n>>}
    /\ UNCHANGED held

Vacate(e, n) == occupied' = occupied \ {<<e, n>>} /\ UNCHANGED held

Next ==
    \/ \E k \in KD : Take(k) \/ LetGo(k)
    \/ \E e \in Edges, n \in Names : Occupy(e, n) \/ Vacate(e, n)

Spec == Init /\ [][Next]_<<held, occupied>>

-----------------------------------------------------------------------------
\* Nothing is on an edge without an object to account for it.
Accounted == \A e \in Edges, n \in Names :
                <<e, n>> \in occupied => \E k \in held : NameOf[k] = n
=============================================================================
