----------------------------- MODULE MCTrading -----------------------------
(* Instances of Trading for TLC.  With a 2% limit, a paper equity of 1000    *)
(* and a price of 10, a quantity of 2 is exactly at the limit of a dry run   *)
(* and 3 is beyond it; 3 is exactly at the limit of a live account worth     *)
(* 1500, and an account worth 0 passes the capital check with anything.      *)
EXTENDS Trading

CONSTANTS p1, p2, r1, r2, s1

\* Three bars, the last two against all three, or windows that are too alike.
MCWindows == {[short |-> 2, long |-> 3]}
MCWindowsOrNot == MCWindows \cup {[short |-> 3, long |-> 3]}

\* A market that rises, falls, stays, and one that has just opened.  The last
\* bar alone, or the first two, would say something else.
MCMarket == {<<9, 11, 10>>, <<11, 9, 10>>, <<10, 10, 10>>, <<9, 10>>}
MCDemoBase == [s \in Symbols |-> 8]

\* Requests differ in nothing but their name, and so do processes: permuting
\* them is sound for the safety properties.
RequestSymmetry == Permutations(Requests)
ProcessAndRequestSymmetry == Permutations(Procs) \cup Permutations(Requests)
=============================================================================
