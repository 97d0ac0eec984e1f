-------------------------------- MODULE MCApi --------------------------------
(* One client logs in, reads its own data and the status, with a key beside   *)
(* its token; the other, with a token from before the server came up, pages   *)
(* through the list and asks for readiness.                                   *)
EXTENDS Api, TLC

CONSTANTS c1, c2, u1

MCUses == c1 :> {"login", "status", "me"} @@ c2 :> {"list", "ready"}
MCKey == c1 :> "admin-key" @@ c2 :> "operator-key"
MCSeededRole == u1 :> "ADMIN"
MCKept == c1 :> None @@ c2 :> [sub |-> u1, role |-> "ADMIN", exp |-> 0]

\* Either the table grows or the accounts and the time change: what a page
\* shows does not depend on who may read it.
MCBudgets == {[rows |-> 3, edits |-> 0, ticks |-> 0], [rows |-> 0, edits |-> 1, ticks |-> 2]}
=============================================================================
