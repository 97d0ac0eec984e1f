---------------------------- MODULE MCBootstrap ----------------------------
(* Instances of Bootstrap for TLC.                                          *)
EXTENDS Bootstrap

CONSTANTS a1, a2, w1
=============================================================================
