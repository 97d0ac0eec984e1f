--------------------------- MODULE TradeLifecycle ---------------------------
(***************************************************************************)
(* What the trading endpoint promises about one trade request, whatever it *)
(* takes to keep the promise: the request is approved or rejected, a live  *)
(* order reaches the market at most once and only after approval, and the  *)
(* audit trail follows in step.  The trail may stop early - a write error  *)
(* silences it for good - but it never skips a milestone, and an order is  *)
(* never sent while the trail is still being kept and lacks the approval.  *)
(***************************************************************************)
EXTENDS Integers, Sequences

CONSTANT Requests

VARIABLES
    live,       \* requests that ask for a live order
    stage,      \* how far each request is
    market,     \* live orders sent on behalf of each request
    trail,      \* what the operator can read about it
    recording   \* requests whose trail is still being kept

vars == <<live, stage, market, trail, recording>>

Stages == {"new", "open", "approved", "settled", "rejected", "finished", "closed", "lost"}
Milestones == <<"RECEIVED", "STRATEGY_EVALUATED", "RISK_APPROVED", "EXECUTED">>

Init ==
    /\ live \in SUBSET Requests
    /\ stage = [r \in Requests |-> "new"]
    /\ market = [r \in Requests |-> 0]
    /\ trail = [r \in Requests |-> <<>>]
    /\ recording = Requests

\* The trail holds the first n milestones, unless it has gone silent.
Recorded(r, n) == r \in recording => Len(trail[r]) = n

\* One more entry, or silence, or an entry and then silence.
Record(r, status) ==
    \/ /\ r \in recording
       /\ trail' = [trail EXCEPT ![r] = Append(@, status)]
       /\ recording' \in {recording, recording \ {r}}
    \/ /\ trail' = trail
       /\ recording' = recording \ {r}

Move(r, from, to) == stage[r] \in from /\ stage' = [stage EXCEPT ![r] = to]

Receive(r) ==
    /\ Move(r, {"new"}, "open")
    /\ UNCHANGED <<live, market, trail, recording>>

\* The next milestone of a request that has not been settled.
Note(r) ==
    LET n == Len(trail[r]) + 1
    IN  /\ \/ n <= 2 /\ stage[r] = "open"
           \/ n = 3 /\ stage[r] = "approved" /\ market[r] = 0
        /\ Record(r, Milestones[n])
        /\ UNCHANGED <<live, stage, market>>

Silence(r) ==
    /\ recording' = recording \ {r}
    /\ UNCHANGED <<live, stage, market, trail>>

Approve(r) ==
    /\ Recorded(r, 2)
    /\ Move(r, {"open"}, "approved")
    /\ UNCHANGED <<live, market, trail, recording>>

\* The order of an approved live request goes out.
Submit(r) ==
    /\ stage[r] = "approved" /\ r \in live /\ market[r] = 0
    /\ Recorded(r, 3)
    /\ market' = [market EXCEPT ![r] = 1]
    /\ UNCHANGED <<live, stage, trail, recording>>

\* Execution is over: sent for a live request, simulated for a dry run.
Settle(r) ==
    /\ market[r] = IF r \in live THEN 1 ELSE 0
    /\ Recorded(r, 3)
    /\ Move(r, {"approved"}, "settled")
    /\ UNCHANGED <<live, market, trail, recording>>

Reject(r) ==
    /\ Move(r, {"open", "approved"}, "rejected")
    /\ UNCHANGED <<live, market, trail, recording>>

Finish(r) ==
    /\ Move(r, {"settled"}, "finished")
    /\ Record(r, "EXECUTED")
    /\ UNCHANGED <<live, market>>

Close(r) ==
    /\ Move(r, {"rejected"}, "closed")
    /\ Record(r, "FAILED")
    /\ UNCHANGED <<live, market>>

\* The process serving these requests is gone, and they with it.
Lose(rs) ==
    /\ \A r \in rs : stage[r] \in {"open", "approved", "settled", "rejected"}
    /\ stage' = [r \in Requests |-> IF r \in rs THEN "lost" ELSE stage[r]]
    /\ UNCHANGED <<live, market, trail, recording>>

Next ==
    \/ \E r \in Requests :
           \/ Receive(r) \/ Note(r) \/ Silence(r) \/ Approve(r) \/ Submit(r)
           \/ Settle(r) \/ Reject(r) \/ Finish(r) \/ Close(r)
    \/ \E rs \in SUBSET Requests : Lose(rs)

Spec == Init /\ [][Next]_vars
=============================================================================
