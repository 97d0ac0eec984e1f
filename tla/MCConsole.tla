----------------------------- MODULE MCConsole -----------------------------
(* Instances of Console for TLC.                                            *)
EXTENDS Console, TLC

CONSTANTS u1, u2

\* Users are interchangeable: the runs check invariants only.
Perms == Permutations(Users)
=============================================================================
