-------------------------- MODULE MCReconciliation --------------------------
(* Instances of Reconciliation for TLC.                                     *)
EXTENDS Reconciliation

CONSTANTS r1, r2, w1, s1, s2
=============================================================================
