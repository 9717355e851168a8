----------------------------- MODULE MCProvider -----------------------------
(* An instance of Provider for TLC.                                         *)
EXTENDS Provider

Short(r) == [slash |-> FALSE, l |-> Empty, r |-> r]
Long(l, r) == [slash |-> TRUE, l |-> l, r |-> r]

\* "krypton/kc" and "kc" lead to one Secret, "team/kc" to another; "/kc" to none.
MCAsked == {Long("krypton", "kc"), Short("kc"), Long("team", "kc"), Long(Empty, "kc")}
=============================================================================
