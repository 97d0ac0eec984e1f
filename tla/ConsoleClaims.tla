--------------------------- MODULE ConsoleClaims ---------------------------
(* What the user guide says of the logged-out console and the page does not  *)
(* keep: the run that checks it finds a counterexample.                      *)
EXTENDS Console

CONSTANT u1

\* Logged out, with nothing under way any more, the protected panels show the
\* prompt to log in.
LoggedOutPanelsAreReset ==
    token = {} /\ tasks = EmptyBag => \A p \in ProtectedPanels : panel[p] = {}
=============================================================================
