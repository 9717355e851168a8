------------------------------ MODULE Krypton ------------------------------
(***************************************************************************)
(* What the home cluster, the edge clusters and the operator have in       *)
(* common: the charts an operator can be configured to deploy and the edge *)
(* clusters it can deploy them to.                                         *)
(***************************************************************************)
CONSTANTS
    Charts,         \* chart references repo/name:version
    NoChart,        \* no chart
    Edges           \* edge clusters

ASSUME ChartAssumption == NoChart \notin Charts
=============================================================================
