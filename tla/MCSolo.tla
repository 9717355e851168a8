------------------------------- MODULE MCSolo -------------------------------
(* The instance of run Solo meets every hypothesis of the theorems that have *)
(* one: what they say is not said of nothing.                               *)
EXTENDS MCReconciler

\* One process, one edge cluster, a clean-up without failing calls, and nobody
\* who takes anything away by hand.
ASSUME SoloCircumstances == Custodial /\ Undisturbed
=============================================================================
