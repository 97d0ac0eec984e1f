------------------------ MODULE TradingRecordsProofs ------------------------
(* Proofs about what a trade request leaves behind: its audit trail, the    *)
(* rows the trail stands on, and the position that its trades add up to.    *)
EXTENDS TradingProofs

USE DEF requestVars, loopVars, brokerVars, tableVars, dbVars, inputVars, vars

\* How many milestones a request at a label should have recorded.
Due(label) ==
    IF label \in {"idle", "received"} THEN 0
    ELSE IF label \in {"snapshot", "pf_connecting", "pf_summary", "bars", "record_run",
                       "audit_strategy"} THEN 1
    ELSE IF label \in {"validate", "audit_risk"} THEN 2
    ELSE IF label = "done" THEN 4 ELSE 3

Upto == [n \in 0..4 |-> SubSeq(Milestones, 1, n)]

\* The n milestones recorded so far: as many as are due while every write has
\* succeeded, and then perhaps FAILED.
MilestonesOf(r, n) ==
    /\ audit[r] = Upto[n]
    /\ n =< Due(pc[r])
    /\ session[r] = "clean" /\ pc[r] \notin {"audit_failed", "failed", "lost"} =>
           n = Due(pc[r])
    /\ session[r] = "clean" /\ pc[r] = "audit_failed" /\ placed[r] > 0 => n = 3

FailedAfter(r, n) ==
    /\ pc[r] = "failed" /\ n =< 3
    /\ audit[r] = Append(Upto[n], "FAILED")
    /\ placed[r] > 0 => n = 3

TrailOf(r) ==
    \E n \in 0..4 :
        /\ n >= 2 => r \in runs
        /\ n = 4 => orders[r] # None
        /\ MilestonesOf(r, n) \/ FailedAfter(r, n)

\* The labels at which a request with a clean session has its run and its order.
RunWritten ==
    {"audit_strategy", "validate", "audit_risk", "execute", "ex_connecting", "ex_sleeping",
     "record_order", "select_position", "commit_position", "audit_executed"}
OrderWritten == {"select_position", "commit_position", "audit_executed"}

EvidenceOf(r) ==
    session[r] = "clean" =>
        /\ pc[r] \in RunWritten => r \in runs
        /\ pc[r] \in OrderWritten => orders[r] # None

TrailInv == \A r \in Requests : TrailOf(r) /\ EvidenceOf(r)

-----------------------------------------------------------------------------
\* The first n milestones, element by element.
LEMMA UptoElements ==
    /\ Milestones \in Seq(Statuses) /\ Len(Milestones) = 4
    /\ \A n \in 0..4 : /\ Upto[n] \in Seq(Statuses) /\ Len(Upto[n]) = n
                       /\ \A i \in 1..n : Upto[n][i] = Milestones[i]
  <1>1. Len(Milestones) = 4
    BY DEF Milestones
  <1>2. Milestones \in Seq(Statuses)
    BY DEF Milestones, Statuses
  <1>3. \A i \in 1..4 : Milestones[i] \in Statuses
    BY <1>1, <1>2, ElementOfSeq
  <1>4. ASSUME NEW n \in 0..4
        PROVE  /\ Upto[n] \in Seq(Statuses) /\ Len(Upto[n]) = n
               /\ \A i \in 1..n : Upto[n][i] = Milestones[i]
    <2>1. Upto[n] = SubSeq(Milestones, 1, n)
      BY DEF Upto
    <2>2. \A i \in 1..n : Milestones[i] \in Statuses
      BY <1>3
    <2>3. /\ SubSeq(Milestones, 1, n) \in Seq(Statuses)
          /\ Len(SubSeq(Milestones, 1, n)) = IF 1 <= n THEN n - 1 + 1 ELSE 0
          /\ \A i \in 1..(n - 1 + 1) : SubSeq(Milestones, 1, n)[i] = Milestones[1 + i - 1]
      BY <2>2, SubSeqProperties
    <2> QED BY <2>1, <2>3
  <1> QED BY <1>1, <1>2, <1>4

\* A sequence made longer by one element.
LEMMA AppendElements ==
    ASSUME NEW S, NEW seq \in Seq(S), NEW n \in Nat, Len(seq) = n, NEW elt \in S
    PROVE  /\ Append(seq, elt) \in Seq(S) /\ Len(Append(seq, elt)) = n + 1
           /\ \A i \in 1..n : Append(seq, elt)[i] = seq[i]
           /\ Append(seq, elt)[n + 1] = elt
  BY AppendProperties

\* The first milestones, one after the other.
LEMMA UptoGrows ==
    /\ Upto[0] = <<>>
    /\ \A n \in 0..3 : Append(Upto[n], Milestones[n + 1]) = Upto[n + 1]
  <1>1. Upto[0] = <<>>
    BY UptoElements
  <1>2. ASSUME NEW n \in 0..3
        PROVE  Append(Upto[n], Milestones[n + 1]) = Upto[n + 1]
    <2> DEFINE longer == Append(Upto[n], Milestones[n + 1])
    <2>1. n \in 0..4 /\ n + 1 \in 0..4 /\ Milestones[n + 1] \in Statuses
      BY UptoElements, ElementOfSeq
    <2>2. /\ Upto[n] \in Seq(Statuses) /\ Len(Upto[n]) = n
          /\ \A i \in 1..n : Upto[n][i] = Milestones[i]
          /\ Upto[n + 1] \in Seq(Statuses) /\ Len(Upto[n + 1]) = n + 1
          /\ \A i \in 1..(n + 1) : Upto[n + 1][i] = Milestones[i]
      BY <2>1, UptoElements
    <2>3. /\ longer \in Seq(Statuses) /\ Len(longer) = n + 1
          /\ \A i \in 1..n : longer[i] = Upto[n][i]
          /\ longer[n + 1] = Milestones[n + 1]
      BY <2>1, <2>2, AppendElements
    <2> HIDE DEF longer
    <2>4. \A i \in 1..(n + 1) : longer[i] = Upto[n + 1][i]
      BY <2>2, <2>3
    <2>5. longer = Upto[n + 1]
      BY <2>2, <2>3, <2>4, SeqEqual
    <2> QED BY <2>5 DEF longer
  <1> QED BY <1>1, <1>2

\* What recording a status leaves: a row more, or silence, or a row and silence.
LEMMA RecordAuditOutcome ==
    ASSUME TypeOK, NEW r \in Requests, NEW status, RecordAudit(r, status)
    PROVE  /\ runs' = runs /\ orders' = orders
           /\ session'[r] = "clean" => session[r] = "clean"
           /\ \/ session[r] = "clean" /\ audit'[r] = Append(audit[r], status)
              \/ session'[r] = "poisoned" /\ audit'[r] = audit[r]
  <1>1. PICK o \in CommitOutcomes(r) :
            /\ Commit(r, o)
            /\ audit' = IF Durable(o) THEN [audit EXCEPT ![r] = Append(@, status)] ELSE audit
            /\ UNCHANGED <<runs, orders, positions>>
    BY DEF RecordAudit
  <1>2. session'[r] = IF o = "committed" THEN session[r] ELSE "poisoned"
    BY <1>1 DEF Commit, TypeOK
  <1>3. CASE o = "committed"
    BY <1>1, <1>2, <1>3 DEF CommitOutcomes, Durable, TypeOK
  <1>4. CASE o = "refused"
    BY <1>1, <1>2, <1>4 DEF CommitOutcomes, Durable, TypeOK
  <1>5. CASE o = "rolled_back"
    BY <1>1, <1>2, <1>5 DEF CommitOutcomes, Durable, TypeOK
  <1>6. CASE o = "unconfirmed"
    <2>1. session[r] = "clean"
      BY <1>6 DEF CommitOutcomes, TypeOK
    <2> QED BY <1>1, <1>2, <1>6, <2>1 DEF Durable, TypeOK
  <1> QED BY <1>3, <1>4, <1>5, <1>6 DEF CommitOutcomes

\* A step that writes no audit row: no milestone falls due by it, and a request
\* that fails with an order out has the three milestones before an order.
LEMMA QuietTrail ==
    ASSUME NEW r \in Requests, TrailOf(r), pc[r] \notin Ended \cup {"audit_failed"},
           audit'[r] = audit[r],
           r \in runs => r \in runs',
           orders[r] # None => orders'[r] # None,
           session'[r] = "clean" => session[r] = "clean",
           \/ Due(pc'[r]) = Due(pc[r]) /\ pc'[r] \notin {"audit_failed", "failed", "lost"}
           \/ pc'[r] = "lost"
           \/ /\ pc'[r] = "audit_failed"
              /\ session'[r] = "clean" /\ placed'[r] > 0 => Due(pc[r]) = 3
    PROVE  TrailOf(r)'
  <1>1. PICK n \in 0..4 :
            (n >= 2 => r \in runs) /\ (n = 4 => orders[r] # None) /\ MilestonesOf(r, n)
    BY DEF TrailOf, FailedAfter, Ended
  <1>2. Due(pc[r]) \in 0..3
    BY DEF Due, Ended
  <1>3. MilestonesOf(r, n)'
    <2>1. CASE pc'[r] = "lost"
      BY <1>1, <1>2, <2>1 DEF MilestonesOf, Due
    <2>2. CASE pc'[r] = "audit_failed"
      BY <1>1, <1>2, <2>2 DEF MilestonesOf, Due, Ended
    <2>3. CASE Due(pc'[r]) = Due(pc[r]) /\ pc'[r] \notin {"audit_failed", "failed", "lost"}
      BY <1>1, <2>3 DEF MilestonesOf, Ended
    <2> QED BY <2>1, <2>2, <2>3
  <1> QED BY <1>1, <1>3, Zenon DEF TrailOf

\* A step that records the milestone that is due.
LEMMA NotedTrail ==
    ASSUME TypeOK, NEW r \in Requests, TrailOf(r), pc[r] \notin Ended \cup {"audit_failed"},
           RecordAudit(r, Milestones[Due(pc[r]) + 1]),
           Due(pc'[r]) = Due(pc[r]) + 1, pc'[r] \notin {"audit_failed", "failed", "lost"},
           session[r] = "clean" /\ Due(pc[r]) >= 1 => r \in runs,
           session[r] = "clean" /\ Due(pc[r]) = 3 => orders[r] # None
    PROVE  TrailOf(r)'
  <1>1. PICK n \in 0..4 :
            (n >= 2 => r \in runs) /\ (n = 4 => orders[r] # None) /\ MilestonesOf(r, n)
    BY DEF TrailOf, FailedAfter, Ended
  <1>2. Due(pc[r]) \in 0..3
    BY DEF Due, Ended
  <1>3. runs' = runs /\ orders' = orders
    BY RecordAuditOutcome
  <1>4. CASE session[r] = "clean" /\ audit'[r] = Append(audit[r], Milestones[Due(pc[r]) + 1])
    <2>1. n = Due(pc[r])
      BY <1>1, <1>4 DEF MilestonesOf, Ended
    <2>2. audit'[r] = Upto[n + 1]
      BY <1>1, <1>2, <1>4, <2>1, UptoGrows DEF MilestonesOf
    <2>3. MilestonesOf(r, n + 1)'
      BY <2>1, <2>2 DEF MilestonesOf
    <2>4. n + 1 \in 0..4 /\ (n + 1 >= 2 => r \in runs') /\ (n + 1 = 4 => orders'[r] # None)
      BY <1>2, <1>3, <1>4, <2>1
    <2> QED BY <2>3, <2>4, Zenon DEF TrailOf
  <1>5. CASE session'[r] = "poisoned" /\ audit'[r] = audit[r]
    <2>1. MilestonesOf(r, n)'
      BY <1>1, <1>2, <1>5 DEF MilestonesOf
    <2> QED BY <1>1, <1>3, <2>1, Zenon DEF TrailOf
  <1> QED BY <1>4, <1>5, RecordAuditOutcome

\* The step that ends a failed request.
LEMMA FailedTrail ==
    ASSUME TypeOK, NEW r \in Requests, TrailOf(r), pc[r] = "audit_failed",
           RecordAudit(r, "FAILED"), pc'[r] = "failed", placed'[r] = placed[r]
    PROVE  TrailOf(r)'
  <1>1. PICK n \in 0..4 :
            (n >= 2 => r \in runs) /\ (n = 4 => orders[r] # None) /\ MilestonesOf(r, n)
    BY DEF TrailOf, FailedAfter
  <1>2. n =< 3
    BY <1>1 DEF MilestonesOf, Due
  <1>3. runs' = runs /\ orders' = orders
    BY RecordAuditOutcome
  <1>4. CASE session[r] = "clean" /\ audit'[r] = Append(audit[r], "FAILED")
    <2>1. FailedAfter(r, n)'
      BY <1>1, <1>2, <1>4 DEF MilestonesOf, FailedAfter
    <2> QED BY <1>1, <1>3, <2>1, Zenon DEF TrailOf
  <1>5. CASE session'[r] = "poisoned" /\ audit'[r] = audit[r]
    <2>1. MilestonesOf(r, n)'
      BY <1>1, <1>2, <1>5 DEF MilestonesOf, Due
    <2> QED BY <1>1, <1>3, <2>1, Zenon DEF TrailOf
  <1> QED BY <1>4, <1>5, RecordAuditOutcome

\* A step that only moves the request and writes no row.
LEMMA QuietStep ==
    ASSUME NEW r \in Requests, TrailOf(r), EvidenceOf(r), pc[r] \notin Ended \cup {"audit_failed"},
           UNCHANGED <<audit, runs, orders, session>>,
           \/ Due(pc'[r]) = Due(pc[r]) /\ pc'[r] \notin {"audit_failed", "failed", "lost"}
           \/ pc'[r] = "audit_failed" /\ (placed'[r] > 0 => Due(pc[r]) = 3),
           pc'[r] \in RunWritten => pc[r] \in RunWritten,
           pc'[r] \in OrderWritten => pc[r] \in OrderWritten
    PROVE  TrailOf(r)' /\ EvidenceOf(r)'
  BY QuietTrail DEF EvidenceOf

LEMMA StepTrail ==
    ASSUME TypeInv, NEW r \in Requests, RiskOf(r), TrailOf(r), EvidenceOf(r), Step(r)
    PROVE  TrailOf(r)' /\ EvidenceOf(r)'
  <1> USE DEF Goto, Raise, Return
  <1>0. /\ TypeOK
        /\ pc \in [Requests -> Labels]
        /\ session \in [Requests -> {"clean", "poisoned"}]
        /\ orders \in [Requests -> Order \cup {None}]
        /\ placed \in [Requests -> Nat]
    BY DEF TypeInv, TypeOK
  <1>1. CASE RecordReceived(r)
    <2>1. /\ pc[r] = "received" /\ pc'[r] = "snapshot"
          /\ RecordAudit(r, "RECEIVED")
      BY <1>0, <1>1 DEF RecordReceived
    <2>2. Due(pc[r]) = 0 /\ Due(pc'[r]) = 1 /\ Milestones[0 + 1] = "RECEIVED"
      BY <2>1 DEF Due, Milestones
    <2>3. TrailOf(r)'
      BY <1>0, <2>1, <2>2, NotedTrail DEF Ended, EvidenceOf, RunWritten, OrderWritten
    <2>4. EvidenceOf(r)'
      BY <1>0, <2>1, RecordAuditOutcome DEF EvidenceOf, RunWritten, OrderWritten
    <2> QED BY <2>3, <2>4
  <1>2. CASE TakePaperSnapshot(r)
    <2>1. /\ pc[r] = "snapshot" /\ pc'[r] = "bars"
          /\ UNCHANGED <<audit, runs, orders, session>>
      BY <1>0, <1>2 DEF TakePaperSnapshot
    <2> QED BY <2>1, QuietStep DEF Due, Ended, RunWritten, OrderWritten
  <1>3. CASE ConnectForSnapshot(r)
    <2>1. /\ pc[r] = "snapshot" /\ pc'[r] \in {"pf_connecting", "audit_failed"}
          /\ UNCHANGED <<audit, runs, orders, session>>
          /\ placed' = placed
      BY <1>0, <1>3 DEF ConnectForSnapshot
    <2>2. placed[r] > 0 => Due(pc[r]) = 3
      BY <2>1 DEF RiskOf, NoOrderYet, BeforeOrder, Due, BrokerCalls, Connecting
    <2> QED BY <2>1, <2>2, QuietStep DEF Due, Ended, RunWritten, OrderWritten
  <1>4. CASE ReadAccount(r)
    <2>1. /\ pc[r] = "pf_connecting" /\ pc'[r] = "pf_summary"
          /\ UNCHANGED <<audit, runs, orders, session>>
      BY <1>0, <1>4 DEF ReadAccount
    <2> QED BY <2>1, QuietStep DEF Due, Ended, RunWritten, OrderWritten
  <1>5. CASE FinishSnapshot(r)
    <2>1. /\ pc[r] = "pf_summary" /\ pc'[r] = "bars"
          /\ UNCHANGED <<audit, runs, orders, session>>
      BY <1>0, <1>5 DEF FinishSnapshot
    <2> QED BY <2>1, QuietStep DEF Due, Ended, RunWritten, OrderWritten
  <1>6. CASE EvaluateStrategy(r)
    <2>1. /\ pc[r] = "bars" /\ pc'[r] = "record_run"
          /\ UNCHANGED <<audit, runs, orders, session>>
      BY <1>0, <1>6 DEF EvaluateStrategy
    <2> QED BY <2>1, QuietStep DEF Due, Ended, RunWritten, OrderWritten
  <1>7. CASE StrategyUnavailable(r)
    <2>1. /\ pc[r] = "bars" /\ pc'[r] = "audit_failed"
          /\ UNCHANGED <<audit, runs, orders, session>>
          /\ placed' = placed
      BY <1>0, <1>7 DEF StrategyUnavailable
    <2>2. placed[r] > 0 => Due(pc[r]) = 3
      BY <2>1 DEF RiskOf, NoOrderYet, BeforeOrder, Due, BrokerCalls, Connecting
    <2> QED BY <2>1, <2>2, QuietStep DEF Due, Ended, RunWritten, OrderWritten
  <1>8. CASE RecordStrategyRun(r)
    <2>1. PICK o \in CommitOutcomes(r) :
              /\ Commit(r, o)
              /\ runs' = IF Durable(o) THEN runs \cup {r} ELSE runs
      BY <1>8 DEF RecordStrategyRun
    <2>2. /\ pc[r] = "record_run" /\ pc'[r] = "audit_strategy"
          /\ UNCHANGED <<audit, orders, placed>>
      BY <1>0, <1>8 DEF RecordStrategyRun
    <2>4. /\ session'[r] = IF o = "committed" THEN session[r] ELSE "poisoned"
          /\ r \in runs => r \in runs'
          /\ session'[r] = "clean" => r \in runs'
      BY <1>0, <2>1 DEF Commit, Durable, CommitOutcomes
    <2>5. TrailOf(r)'
      BY <1>0, <2>2, <2>4, QuietTrail DEF Due, Ended
    <2>6. EvidenceOf(r)'
      BY <2>2, <2>4 DEF EvidenceOf, RunWritten, OrderWritten
    <2> QED BY <2>5, <2>6
  <1>9. CASE RecordStrategyEvaluated(r)
    <2>1. /\ pc[r] = "audit_strategy" /\ pc'[r] = "validate"
          /\ RecordAudit(r, "STRATEGY_EVALUATED")
      BY <1>0, <1>9 DEF RecordStrategyEvaluated
    <2>2. Due(pc[r]) = 1 /\ Due(pc'[r]) = 2 /\ Milestones[1 + 1] = "STRATEGY_EVALUATED"
      BY <2>1 DEF Due, Milestones
    <2>3. TrailOf(r)'
      BY <1>0, <2>1, <2>2, NotedTrail DEF Ended, EvidenceOf, RunWritten, OrderWritten
    <2>4. EvidenceOf(r)'
      BY <1>0, <2>1, RecordAuditOutcome DEF EvidenceOf, RunWritten, OrderWritten
    <2> QED BY <2>3, <2>4
  <1>10. CASE ValidateTrade(r)
    <2>1. /\ pc[r] = "validate" /\ pc'[r] \in {"audit_risk", "audit_failed"}
          /\ UNCHANGED <<audit, runs, orders, session>>
          /\ placed' = placed
      BY <1>0, <1>10 DEF ValidateTrade
    <2>2. placed[r] > 0 => Due(pc[r]) = 3
      BY <2>1 DEF RiskOf, NoOrderYet, BeforeOrder, Due, BrokerCalls, Connecting
    <2> QED BY <2>1, <2>2, QuietStep DEF Due, Ended, RunWritten, OrderWritten
  <1>11. CASE RecordRiskApproved(r)
    <2>1. /\ pc[r] = "audit_risk" /\ pc'[r] = "execute"
          /\ RecordAudit(r, "RISK_APPROVED")
      BY <1>0, <1>11 DEF RecordRiskApproved
    <2>2. Due(pc[r]) = 2 /\ Due(pc'[r]) = 3 /\ Milestones[2 + 1] = "RISK_APPROVED"
      BY <2>1 DEF Due, Milestones
    <2>3. TrailOf(r)'
      BY <1>0, <2>1, <2>2, NotedTrail DEF Ended, EvidenceOf, RunWritten, OrderWritten
    <2>4. EvidenceOf(r)'
      BY <1>0, <2>1, RecordAuditOutcome DEF EvidenceOf, RunWritten, OrderWritten
    <2> QED BY <2>3, <2>4
  <1>12. CASE ExecuteOrder(r)
    <2>1. /\ pc[r] = "execute" /\ pc'[r] \in {"record_order", "ex_connecting", "audit_failed"}
          /\ UNCHANGED <<audit, runs, orders, session>>
          /\ placed' = placed
      BY <1>0, <1>12 DEF ExecuteOrder
    <2>2. placed[r] > 0 => Due(pc[r]) = 3
      BY <2>1 DEF RiskOf, NoOrderYet, BeforeOrder, Due, BrokerCalls, Connecting
    <2> QED BY <2>1, <2>2, QuietStep DEF Due, Ended, RunWritten, OrderWritten
  <1>13. CASE PlaceOrder(r)
    <2>1. /\ pc[r] = "ex_connecting" /\ pc'[r] = "ex_sleeping"
          /\ UNCHANGED <<audit, runs, orders, session>>
      BY <1>0, <1>13 DEF PlaceOrder
    <2> QED BY <2>1, QuietStep DEF Due, Ended, RunWritten, OrderWritten
  <1>14. CASE ConfirmOrder(r)
    <2>1. /\ pc[r] = "ex_sleeping" /\ pc'[r] = "record_order"
          /\ UNCHANGED <<audit, runs, orders, session>>
      BY <1>0, <1>14 DEF ConfirmOrder
    <2> QED BY <2>1, QuietStep DEF Due, Ended, RunWritten, OrderWritten
  <1>15. CASE BrokerCallRaises(r)
    <2>1. /\ pc[r] \in BrokerCalls /\ pc'[r] = "audit_failed"
          /\ UNCHANGED <<audit, runs, orders, session>>
          /\ placed' = placed
      BY <1>0, <1>15 DEF BrokerCallRaises, Disconnect
    <2>2. placed[r] > 0 => Due(pc[r]) = 3
      BY <2>1 DEF RiskOf, NoOrderYet, BeforeOrder, Due, BrokerCalls, Connecting
    <2> QED BY <2>1, <2>2, QuietStep DEF Due, Ended, RunWritten, OrderWritten,
                  BrokerCalls, Connecting
  <1>16. CASE RecordTradeOrder(r)
    <2>1. PICK o \in CommitOutcomes(r) :
              /\ Commit(r, o)
              /\ orders' = IF Durable(o) THEN [orders EXCEPT ![r] = OrderRow(r)] ELSE orders
      BY <1>16 DEF RecordTradeOrder
    <2>2. /\ pc[r] = "record_order" /\ pc'[r] = "select_position"
          /\ UNCHANGED <<audit, runs, placed>>
      BY <1>0, <1>16 DEF RecordTradeOrder
    <2>3. OrderRow(r) # None
      <3>1. OrderRow(r) \in Order
        BY <2>2 DEF OrderRow, Order, TypeInv, DecisionMade, Decided, Decision
      <3> QED BY <3>1, NoneIsNothing
    <2>4. /\ session'[r] = IF o = "committed" THEN session[r] ELSE "poisoned"
          /\ orders[r] # None => orders'[r] # None
          /\ session'[r] = "clean" => orders'[r] # None
      BY <1>0, <2>1, <2>3 DEF Commit, Durable, CommitOutcomes
    <2>5. TrailOf(r)'
      BY <1>0, <2>2, <2>4, QuietTrail DEF Due, Ended
    <2>6. EvidenceOf(r)'
      BY <2>2, <2>4 DEF EvidenceOf, RunWritten, OrderWritten
    <2> QED BY <2>5, <2>6
  <1>17. CASE SelectPosition(r)
    <2>1. /\ pc[r] = "select_position" /\ pc'[r] = "commit_position"
          /\ UNCHANGED <<audit, runs, orders, session>>
      BY <1>0, <1>17 DEF SelectPosition
    <2> QED BY <2>1, QuietStep DEF Due, Ended, RunWritten, OrderWritten
  <1>18. CASE SelectPositionFails(r)
    <2>1. /\ pc[r] = "select_position" /\ pc'[r] = "audit_executed"
          /\ UNCHANGED <<audit, runs, orders, placed>>
      BY <1>0, <1>18 DEF SelectPositionFails
    <2>2. session'[r] = "clean" => session[r] = "clean"
      BY <1>0, <1>18 DEF SelectPositionFails
    <2>3. TrailOf(r)'
      BY <2>1, <2>2, QuietTrail DEF Due, Ended
    <2>4. EvidenceOf(r)'
      BY <2>1, <2>2 DEF EvidenceOf, RunWritten, OrderWritten
    <2> QED BY <2>3, <2>4
  <1>19. CASE CommitPosition(r)
    <2>1. /\ pc[r] = "commit_position" /\ pc'[r] = "audit_executed"
          /\ UNCHANGED <<audit, runs, orders, placed>>
      BY <1>0, <1>19 DEF CommitPosition
    <2>2. session'[r] = "clean" => session[r] = "clean"
      BY <1>0, <1>19 DEF CommitPosition, Commit
    <2>3. TrailOf(r)'
      BY <2>1, <2>2, QuietTrail DEF Due, Ended
    <2>4. EvidenceOf(r)'
      BY <2>1, <2>2 DEF EvidenceOf, RunWritten, OrderWritten
    <2> QED BY <2>3, <2>4
  <1>20. CASE RecordExecuted(r)
    <2>1. /\ pc[r] = "audit_executed" /\ pc'[r] = "done"
          /\ RecordAudit(r, "EXECUTED")
      BY <1>0, <1>20 DEF RecordExecuted
    <2>2. Due(pc[r]) = 3 /\ Due(pc'[r]) = 4 /\ Milestones[3 + 1] = "EXECUTED"
      BY <2>1 DEF Due, Milestones
    <2>3. TrailOf(r)'
      BY <1>0, <2>1, <2>2, NotedTrail DEF Ended, EvidenceOf, RunWritten, OrderWritten
    <2>4. EvidenceOf(r)'
      BY <1>0, <2>1, RecordAuditOutcome DEF EvidenceOf, RunWritten, OrderWritten
    <2> QED BY <2>3, <2>4
  <1>21. CASE RecordFailed(r)
    <2>1. /\ pc[r] = "audit_failed" /\ pc'[r] = "failed"
          /\ RecordAudit(r, "FAILED") /\ placed' = placed
      BY <1>0, <1>21 DEF RecordFailed
    <2>2. TrailOf(r)'
      BY <1>0, <2>1, FailedTrail
    <2>3. EvidenceOf(r)'
      BY <2>1 DEF EvidenceOf, RunWritten, OrderWritten
    <2> QED BY <2>2, <2>3
  <1> QED
    BY <1>1, <1>2, <1>3, <1>4, <1>5, <1>6, <1>7, <1>8, <1>9, <1>10, <1>11, <1>12, <1>13, <1>14, <1>15, <1>16, <1>17, <1>18, <1>19, <1>20, <1>21 DEF Step

\* A step of one request leaves the records of every other one alone.
LEMMA StepWritesItsOwn ==
    ASSUME TypeOK, NEW r \in Requests, Step(r), NEW q \in Requests, q # r
    PROVE  /\ session'[q] = session[q] /\ audit'[q] = audit[q] /\ orders'[q] = orders[q]
           /\ q \in runs' <=> q \in runs
           /\ result'[q] = result[q] /\ loaded'[q] = loaded[q]
  <1>0. /\ session \in [Requests -> {"clean", "poisoned"}]
        /\ audit \in [Requests -> Seq(Statuses)]
        /\ orders \in [Requests -> Order \cup {None}]
        /\ result \in [Requests -> {"none", "skipped", "simulated", "submitted"}]
        /\ loaded \in [Requests -> Position \cup {None}]
    BY DEF TypeOK
  <1>1. CASE RecordReceived(r)
    BY <1>0, <1>1 DEF RecordReceived, RecordAudit, Commit
  <1>2. CASE TakePaperSnapshot(r)
    BY <1>0, <1>2 DEF TakePaperSnapshot
  <1>3. CASE ConnectForSnapshot(r)
    BY <1>0, <1>3 DEF ConnectForSnapshot
  <1>4. CASE ReadAccount(r)
    BY <1>0, <1>4 DEF ReadAccount
  <1>5. CASE FinishSnapshot(r)
    BY <1>0, <1>5 DEF FinishSnapshot
  <1>6. CASE EvaluateStrategy(r)
    BY <1>0, <1>6 DEF EvaluateStrategy
  <1>7. CASE StrategyUnavailable(r)
    BY <1>0, <1>7 DEF StrategyUnavailable
  <1>8. CASE RecordStrategyRun(r)
    BY <1>0, <1>8 DEF RecordStrategyRun, Commit
  <1>9. CASE RecordStrategyEvaluated(r)
    BY <1>0, <1>9 DEF RecordStrategyEvaluated, RecordAudit, Commit
  <1>10. CASE ValidateTrade(r)
    BY <1>0, <1>10 DEF ValidateTrade
  <1>11. CASE RecordRiskApproved(r)
    BY <1>0, <1>11 DEF RecordRiskApproved, RecordAudit, Commit
  <1>12. CASE ExecuteOrder(r)
    BY <1>0, <1>12 DEF ExecuteOrder
  <1>13. CASE PlaceOrder(r)
    BY <1>0, <1>13 DEF PlaceOrder
  <1>14. CASE ConfirmOrder(r)
    BY <1>0, <1>14 DEF ConfirmOrder
  <1>15. CASE BrokerCallRaises(r)
    BY <1>0, <1>15 DEF BrokerCallRaises
  <1>16. CASE RecordTradeOrder(r)
    BY <1>0, <1>16 DEF RecordTradeOrder, Commit
  <1>17. CASE SelectPosition(r)
    BY <1>0, <1>17 DEF SelectPosition
  <1>18. CASE SelectPositionFails(r)
    BY <1>0, <1>18 DEF SelectPositionFails
  <1>19. CASE CommitPosition(r)
    BY <1>0, <1>19 DEF CommitPosition, Commit
  <1>20. CASE RecordExecuted(r)
    BY <1>0, <1>20 DEF RecordExecuted, RecordAudit, Commit
  <1>21. CASE RecordFailed(r)
    BY <1>0, <1>21 DEF RecordFailed, RecordAudit, Commit
  <1> QED
    BY <1>1, <1>2, <1>3, <1>4, <1>5, <1>6, <1>7, <1>8, <1>9, <1>10, <1>11, <1>12, <1>13, <1>14, <1>15, <1>16, <1>17, <1>18, <1>19, <1>20, <1>21 DEF Step

LEMMA UntouchedTrail ==
    ASSUME NEW q \in Requests, TrailOf(q), EvidenceOf(q), pc'[q] = pc[q], placed'[q] = placed[q],
           session'[q] = session[q], audit'[q] = audit[q], orders'[q] = orders[q],
           q \in runs' <=> q \in runs
    PROVE  TrailOf(q)' /\ EvidenceOf(q)'
  BY DEF TrailOf, EvidenceOf, MilestonesOf, FailedAfter

LEMMA InitTrailInv == Init => TrailInv
  <1> SUFFICES ASSUME Init, NEW r \in Requests PROVE TrailOf(r) /\ EvidenceOf(r)
    BY DEF TrailInv
  <1>1. pc[r] = "idle" /\ audit[r] = <<>> /\ Due("idle") = 0
    BY DEF Init, Due
  <1>2. MilestonesOf(r, 0)
    BY <1>1, UptoGrows DEF MilestonesOf
  <1>3. TrailOf(r)
    BY <1>2 DEF TrailOf
  <1> QED BY <1>1, <1>3 DEF EvidenceOf, RunWritten, OrderWritten

\* A crash leaves the trail as it stands; whatever else happens around the
\* handlers writes nothing.
LEMMA EnvironmentTrailInv ==
    ASSUME TypeInv, TrailInv, EnvironmentStep
    PROVE  TrailInv'
  <1>0. pc \in [Requests -> Labels]
    BY DEF TypeInv, TypeOK
  <1>1. ASSUME NEW r \in Requests, GatewayAccepts(r) PROVE TrailInv'
    BY <1>1, UntouchedTrail DEF GatewayAccepts, TrailInv
  <1>2. ASSUME NEW r \in Requests, BrokerCallCompletes(r) PROVE TrailInv'
    BY <1>2, UntouchedTrail DEF BrokerCallCompletes, TrailInv
  <1>3. ASSUME NEW r \in Requests, BrokerCallFails(r) PROVE TrailInv'
    BY <1>3, UntouchedTrail DEF BrokerCallFails, TrailInv
  <1>4. ASSUME NEW p \in Procs, Crash(p), NEW q \in Requests
        PROVE  TrailOf(q)' /\ EvidenceOf(q)'
    <2>1. /\ UNCHANGED <<placed, audit, runs, orders, session>>
          /\ \/ pc'[q] = pc[q]
             \/ pc[q] \notin Ended /\ pc'[q] = "lost"
      BY <1>4 DEF Crash
    <2>2. TrailOf(q) /\ EvidenceOf(q)
      BY DEF TrailInv
    <2>3. CASE pc'[q] = pc[q]
      BY <2>1, <2>2, <2>3, UntouchedTrail
    <2>4. CASE pc[q] \notin Ended \cup {"audit_failed"} /\ pc'[q] = "lost"
      BY <2>1, <2>2, <2>4, QuietTrail DEF EvidenceOf, RunWritten, OrderWritten
    <2>5. CASE pc[q] = "audit_failed" /\ pc'[q] = "lost"
      <3>1. PICK n \in 0..4 :
                (n >= 2 => q \in runs) /\ (n = 4 => orders[q] # None) /\ MilestonesOf(q, n)
        BY <2>2, <2>5 DEF TrailOf, FailedAfter
      <3>2. MilestonesOf(q, n)'
        BY <2>1, <2>5, <3>1 DEF MilestonesOf, Due
      <3>3. TrailOf(q)'
        BY <2>1, <3>1, <3>2, Zenon DEF TrailOf
      <3> QED BY <2>5, <3>3 DEF EvidenceOf, RunWritten, OrderWritten
    <2> QED BY <2>1, <2>3, <2>4, <2>5
  <1>5. ASSUME NEW p \in Procs, NEW r \in Requests, Arrive(p, r), NEW q \in Requests
        PROVE  TrailOf(q)' /\ EvidenceOf(q)'
    <2>1. /\ UNCHANGED <<placed, audit, runs, orders, session>>
          /\ pc[r] = "idle" /\ pc'[r] = "received"
          /\ q # r => pc'[q] = pc[q]
      BY <1>0, <1>5 DEF Arrive, Goto
    <2>2. TrailOf(q) /\ EvidenceOf(q)
      BY DEF TrailInv
    <2>3. CASE q # r
      BY <2>1, <2>2, <2>3, UntouchedTrail
    <2>4. CASE q = r
      BY <2>1, <2>2, <2>4, QuietStep DEF Due, Ended, RunWritten, OrderWritten
    <2> QED BY <2>3, <2>4
  <1>6. CASE UNCHANGED vars
    BY <1>6, UntouchedTrail DEF TrailInv
  <1> QED
    BY <1>1, <1>2, <1>3, <1>4, <1>5, <1>6, Zenon DEF EnvironmentStep, BrokerReturns, TrailInv

LEMMA NextTrailInv == TypeInv /\ RiskInv /\ TrailInv /\ [Next]_vars => TrailInv'
  <1> SUFFICES ASSUME TypeInv, RiskInv, TrailInv, [Next]_vars PROVE TrailInv'
    OBVIOUS
  <1>1. ASSUME NEW r \in Requests, Step(r), NEW q \in Requests
        PROVE  TrailOf(q)' /\ EvidenceOf(q)'
    <2>1. CASE q = r
      BY <1>1, <2>1, StepTrail DEF RiskInv, TrailInv
    <2>2. CASE q # r
      BY <1>1, <2>2, StepTouchesItsOwn, StepWritesItsOwn, UntouchedTrail DEF TrailInv, TypeInv
    <2> QED BY <2>1, <2>2
  <1> QED
    BY <1>1, NextCases, EnvironmentTrailInv DEF TrailInv

-----------------------------------------------------------------------------
\* What a trail of n milestones contains.
LEMMA UptoContents ==
    ASSUME NEW n \in 0..4
    PROVE  /\ IsPrefix(Upto[n], Milestones)
           /\ Upto[n] = Milestones => n = 4
           /\ "FAILED" \notin ToSet(Upto[n])
           /\ "STRATEGY_EVALUATED" \in ToSet(Upto[n]) => n >= 2
           /\ n >= 3 => "RISK_APPROVED" \in ToSet(Upto[n])
           /\ "EXECUTED" \in ToSet(Upto[n]) => n = 4
  <1>1. /\ Upto[n] \in Seq(Statuses) /\ Len(Upto[n]) = n
        /\ \A i \in 1..n : Upto[n][i] = Milestones[i]
        /\ Len(Milestones) = 4
    BY UptoElements
  <1>2. /\ Milestones[1] = "RECEIVED" /\ Milestones[2] = "STRATEGY_EVALUATED"
        /\ Milestones[3] = "RISK_APPROVED" /\ Milestones[4] = "EXECUTED"
    BY DEF Milestones
  <1>3. ToSet(Upto[n]) = {Milestones[i] : i \in 1..n}
    <2>1. DOMAIN Upto[n] = 1..n
      BY <1>1, LenProperties
    <2> QED BY <1>1, <2>1 DEF ToSet
  <1>4. IsPrefix(Upto[n], Milestones)
    <2>1. \A i \in 1..n : Upto[n][i] \in Statuses
      BY <1>1, ElementOfSeq
    <2>2. /\ SubSeq(Upto[n], 1, n) \in Seq(Statuses)
          /\ Len(SubSeq(Upto[n], 1, n)) = IF 1 <= n THEN n - 1 + 1 ELSE 0
          /\ \A i \in 1..(n - 1 + 1) : SubSeq(Upto[n], 1, n)[i] = Upto[n][1 + i - 1]
      BY <2>1, SubSeqProperties
    <2>3. /\ Len(SubSeq(Upto[n], 1, n)) = n
          /\ \A i \in 1..n : SubSeq(Upto[n], 1, n)[i] = Upto[n][i]
      BY <2>2
    <2>4. SubSeq(Upto[n], 1, n) = Upto[n]
      BY <1>1, <2>2, <2>3, SeqEqual
    <2>5. Upto[n] = SubSeq(Milestones, 1, n)
      BY DEF Upto
    <2> QED BY <1>1, <2>4, <2>5 DEF IsPrefix
  <1>5. Upto[n] = Milestones => n = 4
    BY <1>1
  <1>6. "FAILED" \notin ToSet(Upto[n])
    <2>1. \A i \in 1..4 : Milestones[i] # "FAILED"
      BY <1>2
    <2> QED BY <1>3, <2>1
  <1>7. "STRATEGY_EVALUATED" \in ToSet(Upto[n]) => n >= 2
    <2>1. \A i \in 1..1 : Milestones[i] # "STRATEGY_EVALUATED"
      BY <1>2
    <2> QED BY <1>3, <2>1
  <1>8. n >= 3 => "RISK_APPROVED" \in ToSet(Upto[n])
    BY <1>2, <1>3
  <1>9. "EXECUTED" \in ToSet(Upto[n]) => n = 4
    <2>1. \A i \in 1..3 : Milestones[i] # "EXECUTED"
      BY <1>2
    <2> QED BY <1>3, <2>1
  <1> QED
    BY <1>4, <1>5, <1>6, <1>7, <1>8, <1>9

\* What such a trail contains once FAILED has been added.
LEMMA FailedContents ==
    ASSUME NEW n \in 0..3
    PROVE  LET trail == Append(Upto[n], "FAILED")
           IN  /\ trail # <<>> /\ Last(trail) = "FAILED"
               /\ Front(trail) = Upto[n]
               /\ ToSet(trail) = ToSet(Upto[n]) \cup {"FAILED"}
  <1> DEFINE trail == Append(Upto[n], "FAILED")
  <1>1. /\ Upto[n] \in Seq(Statuses) /\ Len(Upto[n]) = n
    <2>1. n \in 0..4
      OBVIOUS
    <2> QED BY <2>1, UptoElements
  <1>2. "FAILED" \in Statuses /\ n \in Nat
    BY DEF Statuses
  <1>3. /\ trail \in Seq(Statuses) /\ Len(trail) = n + 1
        /\ \A i \in 1..n : trail[i] = Upto[n][i]
        /\ trail[n + 1] = "FAILED"
    BY <1>1, <1>2, AppendElements
  <1> HIDE DEF trail
  <1>4. trail # <<>> /\ Last(trail) = "FAILED"
    BY <1>2, <1>3 DEF Last
  <1>5. Front(trail) = Upto[n]
    <2>1. \A i \in 1..n : trail[i] \in Statuses
      BY <1>3, ElementOfSeq
    <2>2. /\ SubSeq(trail, 1, n) \in Seq(Statuses)
          /\ Len(SubSeq(trail, 1, n)) = IF 1 <= n THEN n - 1 + 1 ELSE 0
          /\ \A i \in 1..(n - 1 + 1) : SubSeq(trail, 1, n)[i] = trail[1 + i - 1]
      BY <2>1, SubSeqProperties
    <2>3. /\ Len(SubSeq(trail, 1, n)) = n
          /\ \A i \in 1..n : SubSeq(trail, 1, n)[i] = Upto[n][i]
      BY <1>3, <2>2
    <2>4. SubSeq(trail, 1, n) = Upto[n]
      BY <1>1, <2>2, <2>3, SeqEqual
    <2> QED BY <1>3, <2>4 DEF Front
  <1>6. ToSet(trail) = ToSet(Upto[n]) \cup {"FAILED"}
    <2>1. DOMAIN Upto[n] = 1..n /\ DOMAIN trail = 1..(n + 1)
      BY <1>1, <1>3, LenProperties
    <2> QED BY <1>3, <2>1 DEF ToSet
  <1> QED BY <1>4, <1>5, <1>6 DEF trail

\* The trail of a request is its milestones in order, with none missing below
\* another, and FAILED at most once and last - whatever writes are lost and
\* whatever process dies.
THEOREM TrailsHaveNoGaps == Spec => []TrailHasNoGaps
  <1>1. ASSUME TrailInv, NEW r \in Requests
        PROVE  \/ IsPrefix(audit[r], Milestones)
               \/ /\ audit[r] # <<>>
                  /\ Last(audit[r]) = "FAILED"
                  /\ IsStrictPrefix(Front(audit[r]), Milestones)
    <2>1. PICK n \in 0..4 : MilestonesOf(r, n) \/ FailedAfter(r, n)
      BY <1>1 DEF TrailInv, TrailOf
    <2>2. CASE MilestonesOf(r, n)
      BY <2>2, UptoContents DEF MilestonesOf
    <2>3. CASE FailedAfter(r, n)
      <3>1. n \in 0..3 /\ audit[r] = Append(Upto[n], "FAILED")
        BY <2>3 DEF FailedAfter
      <3>2. audit[r] # <<>> /\ Last(audit[r]) = "FAILED" /\ Front(audit[r]) = Upto[n]
        BY <3>1, FailedContents
      <3>3. IsStrictPrefix(Upto[n], Milestones)
        BY <3>1, UptoContents DEF IsStrictPrefix
      <3> QED BY <3>2, <3>3
    <2> QED BY <2>1, <2>2, <2>3
  <1>2. TrailInv => TrailHasNoGaps
    BY <1>1, Zenon DEF TrailHasNoGaps
  <1> QED
    BY <1>2, InitTrailInv, NextTrailInv, InitRiskInv, NextRiskInv, InitTypeInv, NextTypeInv,
       PTL DEF Spec

\* A trail that ends in FAILED without RISK_APPROVED proves that no order was
\* handed to the broker.
THEOREM FailedUnapprovedMeansNoOrder == Spec => []FailedBeforeApprovalMeansNoOrder
  <1>1. ASSUME TypeInv, TrailInv, NEW r \in Requests, "FAILED" \in ToSet(audit[r]),
               "RISK_APPROVED" \notin ToSet(audit[r])
        PROVE  placed[r] = 0
    <2>1. PICK n \in 0..4 : MilestonesOf(r, n) \/ FailedAfter(r, n)
      BY <1>1 DEF TrailInv, TrailOf
    <2>2. FailedAfter(r, n)
      BY <1>1, <2>1, UptoContents DEF MilestonesOf
    <2>3. n \in 0..3 /\ audit[r] = Append(Upto[n], "FAILED") /\ (placed[r] > 0 => n = 3)
      BY <2>2 DEF FailedAfter
    <2>4. "RISK_APPROVED" \notin ToSet(Upto[n])
      BY <1>1, <2>3, FailedContents
    <2>5. n # 3 /\ placed[r] \in Nat
      BY <1>1, <2>4, UptoContents DEF TypeInv, TypeOK
    <2> QED BY <2>3, <2>5
  <1>2. TypeInv /\ TrailInv => FailedBeforeApprovalMeansNoOrder
    BY <1>1 DEF FailedBeforeApprovalMeansNoOrder
  <1> QED
    BY <1>2, InitTrailInv, NextTrailInv, InitRiskInv, NextRiskInv, InitTypeInv, NextTypeInv,
       PTL DEF Spec

-----------------------------------------------------------------------------
(* The order row and the decision it records.                              *)

\* An order row is written last, after the broker has had its say.
OrderRowOf(r) ==
    /\ pc[r] = "ex_sleeping" => placed[r] = 1
    /\ pc[r] = "record_order" => (result[r] = "simulated" <=> placed[r] = 0)
    /\ orders[r] # None => pc[r] \in OrderWritten \cup {"done", "lost"}
    /\ orders[r] # None => (orders[r].status = "SUBMITTED" <=> placed[r] = 1)

\* What is ordered, or written down as ordered, is what was decided, and what
\* was decided is what the engine made of the closes.
DecisionOf(r) ==
    /\ decision[r] # None =>
           /\ Evaluable(decision[r].closes, request[r].windows)
           /\ decision[r].action = Crossover(decision[r].closes, request[r].windows)
           /\ decision[r].price = Last(decision[r].closes)
    /\ placed[r] > 0 \/ orders[r] # None \/ pc[r] = "record_order" =>
           decision[r] # None /\ decision[r].action # "HOLD"
    /\ orders[r] # None => orders[r].action = decision[r].action

BookInv == \A r \in Requests : OrderRowOf(r) /\ DecisionOf(r)

LEMMA StepBook ==
    ASSUME TypeInv, NEW r \in Requests, RiskOf(r), OrderRowOf(r), DecisionOf(r), Step(r)
    PROVE  OrderRowOf(r)' /\ DecisionOf(r)'
  <1> USE DEF Goto, Raise, Return, OrderRowOf, DecisionOf, OrderWritten
  <1>0. /\ TypeOK
        /\ pc \in [Requests -> Labels]
        /\ decision \in [Requests -> Decision \cup {None}]
        /\ result \in [Requests -> {"none", "skipped", "simulated", "submitted"}]
        /\ orders \in [Requests -> Order \cup {None}]
        /\ placed \in [Requests -> Nat]
    BY DEF TypeInv, TypeOK
  <1>1. CASE RecordReceived(r)
    BY <1>0, <1>1 DEF RecordReceived, RecordAudit
  <1>2. CASE TakePaperSnapshot(r)
    BY <1>0, <1>2 DEF TakePaperSnapshot
  <1>3. CASE ConnectForSnapshot(r)
    BY <1>0, <1>3 DEF ConnectForSnapshot
  <1>4. CASE ReadAccount(r)
    BY <1>0, <1>4 DEF ReadAccount
  <1>5. CASE FinishSnapshot(r)
    BY <1>0, <1>5 DEF FinishSnapshot, Disconnect
  <1>6. CASE EvaluateStrategy(r)
    <2>1. PICK closes \in RecentBars(r) :
              /\ Evaluable(closes, request[r].windows)
              /\ decision' = [decision EXCEPT ![r] =
                     [action |-> Crossover(closes, request[r].windows),
                      closes |-> closes,
                      price  |-> closes[Len(closes)]]]
      BY <1>6 DEF EvaluateStrategy
    <2>2. /\ pc[r] = "bars" /\ pc'[r] = "record_run"
          /\ UNCHANGED <<request, result, orders, placed>>
      BY <1>0, <1>6 DEF EvaluateStrategy
    <2>3. placed[r] = 0 /\ orders[r] = None
      BY <2>2 DEF RiskOf, NoOrderYet, BeforeOrder
    <2>4. /\ decision'[r].closes = closes
          /\ decision'[r].action = Crossover(closes, request[r].windows)
          /\ decision'[r].price = closes[Len(closes)]
      BY <1>0, <2>1, Zenon
    <2> QED BY <2>1, <2>2, <2>3, <2>4 DEF Last
  <1>7. CASE StrategyUnavailable(r)
    BY <1>0, <1>7 DEF StrategyUnavailable
  <1>8. CASE RecordStrategyRun(r)
    BY <1>0, <1>8 DEF RecordStrategyRun
  <1>9. CASE RecordStrategyEvaluated(r)
    BY <1>0, <1>9 DEF RecordStrategyEvaluated, RecordAudit
  <1>10. CASE ValidateTrade(r)
    BY <1>0, <1>10 DEF ValidateTrade
  <1>11. CASE RecordRiskApproved(r)
    BY <1>0, <1>11 DEF RecordRiskApproved, RecordAudit
  <1>12. CASE ExecuteOrder(r)
    <2>1. /\ pc[r] = "execute" /\ UNCHANGED <<request, decision, orders, placed>>
          /\ placed[r] = 0 /\ orders[r] = None
          /\ decision[r].action # "HOLD" /\ decision[r] # None
      <3>1. pc[r] = "execute" /\ UNCHANGED <<request, decision, orders, placed>>
        BY <1>12 DEF ExecuteOrder
      <3>2. decision[r] # None
        BY <3>1, NoneIsNothing DEF TypeInv, DecisionMade, Decided
      <3>3. placed[r] = 0 /\ orders[r] = None /\ decision[r].action # "HOLD"
        BY <3>1 DEF RiskOf, NoOrderYet, BeforeOrder, StillApproved, Cleared, RiskApproves
      <3> QED BY <3>1, <3>2, <3>3
    <2>2. \/ pc'[r] = "record_order" /\ result'[r] = "simulated"
          \/ pc'[r] \in {"ex_connecting", "audit_failed"}
      BY <1>0, <1>12, <2>1 DEF ExecuteOrder
    <2> QED BY <1>0, <2>1, <2>2
  <1>13. CASE PlaceOrder(r)
    <2>1. /\ pc[r] = "ex_connecting" /\ pc'[r] = "ex_sleeping"
          /\ UNCHANGED <<request, decision, orders, result>>
      BY <1>0, <1>13 DEF PlaceOrder
    <2>2. placed[r] = 0 /\ orders[r] = None /\ decision[r].action # "HOLD"
      BY <2>1 DEF RiskOf, NoOrderYet, BeforeOrder, StillApproved, Cleared, RiskApproves
    <2>3. decision[r] # None
      BY <2>1, NoneIsNothing DEF TypeInv, DecisionMade, Decided
    <2>4. placed'[r] = 1
      BY <1>0, <1>13, <2>2 DEF PlaceOrder
    <2> QED BY <2>1, <2>2, <2>3, <2>4
  <1>14. CASE ConfirmOrder(r)
    <2>1. /\ pc[r] = "ex_sleeping" /\ pc'[r] = "record_order" /\ result'[r] = "submitted"
          /\ UNCHANGED <<request, decision, orders, placed>>
      BY <1>0, <1>14 DEF ConfirmOrder, Disconnect
    <2> QED BY <2>1
  <1>15. CASE BrokerCallRaises(r)
    BY <1>0, <1>15 DEF BrokerCallRaises, Disconnect, BrokerCalls, Connecting
  <1>16. CASE RecordTradeOrder(r)
    <2>1. PICK o \in CommitOutcomes(r) :
              orders' = IF Durable(o) THEN [orders EXCEPT ![r] = OrderRow(r)] ELSE orders
      BY <1>16 DEF RecordTradeOrder
    <2>2. /\ pc[r] = "record_order" /\ pc'[r] = "select_position"
          /\ UNCHANGED <<request, decision, result, placed>>
      BY <1>0, <1>16 DEF RecordTradeOrder
    <2>3. /\ OrderRow(r).action = decision[r].action
          /\ OrderRow(r).status = "SUBMITTED" <=> placed[r] = 1
      BY <1>0, <2>2 DEF OrderRow, RiskOf, OrderWithinRisk
    <2>4. orders'[r] = orders[r] \/ orders'[r] = OrderRow(r)
      BY <1>0, <2>1
    <2> QED BY <2>2, <2>3, <2>4
  <1>17. CASE SelectPosition(r)
    BY <1>0, <1>17 DEF SelectPosition
  <1>18. CASE SelectPositionFails(r)
    BY <1>0, <1>18 DEF SelectPositionFails
  <1>19. CASE CommitPosition(r)
    BY <1>0, <1>19 DEF CommitPosition
  <1>20. CASE RecordExecuted(r)
    BY <1>0, <1>20 DEF RecordExecuted, RecordAudit
  <1>21. CASE RecordFailed(r)
    BY <1>0, <1>21 DEF RecordFailed, RecordAudit
  <1> QED
    BY <1>1, <1>2, <1>3, <1>4, <1>5, <1>6, <1>7, <1>8, <1>9, <1>10, <1>11, <1>12, <1>13, <1>14, <1>15, <1>16, <1>17, <1>18, <1>19, <1>20, <1>21 DEF Step

LEMMA UntouchedBook ==
    ASSUME NEW q \in Requests, OrderRowOf(q), DecisionOf(q), request' = request,
           pc'[q] = pc[q] \/ (pc[q] \notin Ended /\ pc'[q] = "lost")
                         \/ (pc[q] = "idle" /\ pc'[q] = "received"),
           decision'[q] = decision[q], result'[q] = result[q], placed'[q] = placed[q],
           orders'[q] = orders[q]
    PROVE  OrderRowOf(q)' /\ DecisionOf(q)'
  BY DEF OrderRowOf, DecisionOf, OrderWritten, Ended

LEMMA InitBookInv == Init => BookInv
  BY DEF Init, BookInv, OrderRowOf, DecisionOf

LEMMA EnvironmentBookInv ==
    ASSUME TypeInv, BookInv, EnvironmentStep
    PROVE  BookInv'
  <1> USE DEF BookInv
  <1>0. pc \in [Requests -> Labels]
    BY DEF TypeInv, TypeOK
  <1>1. ASSUME NEW r \in Requests, GatewayAccepts(r) PROVE BookInv'
    BY <1>1, UntouchedBook DEF GatewayAccepts
  <1>2. ASSUME NEW r \in Requests, BrokerCallCompletes(r) PROVE BookInv'
    BY <1>2, UntouchedBook DEF BrokerCallCompletes
  <1>3. ASSUME NEW r \in Requests, BrokerCallFails(r) PROVE BookInv'
    BY <1>3, UntouchedBook DEF BrokerCallFails
  <1>4. ASSUME NEW p \in Procs, Crash(p) PROVE BookInv'
    BY <1>4, UntouchedBook DEF Crash
  <1>5. ASSUME NEW p \in Procs, NEW r \in Requests, Arrive(p, r) PROVE BookInv'
    BY <1>0, <1>5, UntouchedBook DEF Arrive, Goto
  <1>6. CASE UNCHANGED vars
    BY <1>6, UntouchedBook
  <1> QED
    BY <1>1, <1>2, <1>3, <1>4, <1>5, <1>6 DEF EnvironmentStep, BrokerReturns

LEMMA NextBookInv == TypeInv /\ RiskInv /\ BookInv /\ [Next]_vars => BookInv'
  <1> SUFFICES ASSUME TypeInv, RiskInv, BookInv, [Next]_vars PROVE BookInv'
    OBVIOUS
  <1>1. ASSUME NEW r \in Requests, Step(r), NEW q \in Requests
        PROVE  OrderRowOf(q)' /\ DecisionOf(q)'
    <2>1. CASE q = r
      BY <1>1, <2>1, StepBook DEF RiskInv, BookInv
    <2>2. CASE q # r
      BY <1>1, <2>2, StepTouchesItsOwn, StepWritesItsOwn, UntouchedBook DEF BookInv, TypeInv
    <2> QED BY <2>1, <2>2
  <1> QED
    BY <1>1, NextCases, EnvironmentBookInv DEF BookInv

\* An order row says SUBMITTED exactly when an order was handed to the broker.
THEOREM OrderRowsTellTheTruth == Spec => []OrderRowsAgreeWithBroker
  <1>1. BookInv => OrderRowsAgreeWithBroker
    BY DEF BookInv, OrderRowOf, OrderRowsAgreeWithBroker
  <1> QED
    BY <1>1, InitBookInv, NextBookInv, InitRiskInv, NextRiskInv, InitTypeInv, NextTypeInv,
       PTL DEF Spec

\* An order follows the closes its request was evaluated on: a buy when the
\* latest stand above those before them, a sale when below, at the last close.
THEOREM OrdersReadTheMarket == Spec => []OrdersFollowTheMarket
  <1>1. ASSUME TypeInv, BookInv, NEW r \in Requests, placed[r] > 0 \/ orders[r] # None
        PROVE  LET edge == Edge(decision[r].closes, request[r].windows)
               IN  /\ edge # 0
                   /\ decision[r].action = IF edge > 0 THEN "BUY" ELSE "SELL"
                   /\ orders[r] # None => orders[r].action = decision[r].action
                   /\ decision[r].price = Last(decision[r].closes)
    <2> DEFINE closes == decision[r].closes
               windows == request[r].windows
               edge == Edge(closes, windows)
    <2>1. /\ decision[r] # None /\ decision[r].action # "HOLD"
          /\ orders[r] # None => orders[r].action = decision[r].action
          /\ Evaluable(closes, windows)
          /\ decision[r].action = Crossover(closes, windows)
          /\ decision[r].price = Last(closes)
      BY <1>1 DEF BookInv, DecisionOf
    <2>2. decision[r] \in Decision /\ request[r] \in Request
      BY <1>1, <2>1 DEF TypeInv, TypeOK
    <2>3. closes \in Seq(Int)
      <3>1. closes \in Seq(Prices) /\ Prices \subseteq Int
        BY <2>2, NumbersAssumption DEF Decision
      <3>2. Len(closes) \in Nat /\ closes \in [1..Len(closes) -> Prices]
        BY <3>1
      <3>3. closes \in [1..Len(closes) -> Int]
        BY <3>1, <3>2
      <3> QED BY <3>2, <3>3
    <2>4. windows.short \in Nat \ {0} /\ windows.long \in Nat
      <3>1. windows \in Windows
        BY <2>2 DEF Request
      <3>2. windows \in [short: 2..100, long: 3..200]
        BY <3>1, NumbersAssumption, Zenon
      <3>3. windows.short \in 2..100 /\ windows.long \in 3..200
        BY <3>2
      <3> QED BY <3>3
    <2>5. Crossover(closes, windows) \in {"BUY", "SELL", "HOLD"}
      BY Zenon DEF Crossover
    <2> HIDE DEF closes, windows
    <2>6. /\ Crossover(closes, windows) = "BUY" <=> edge > 0
          /\ Crossover(closes, windows) = "SELL" <=> edge < 0
          /\ edge \in Int
      BY <2>1, <2>3, <2>4, CrossoverReadsTheEdge
    <2> HIDE DEF edge
    <2>7. edge # 0 /\ decision[r].action = IF edge > 0 THEN "BUY" ELSE "SELL"
      BY <2>1, <2>5, <2>6
    <2> QED BY <2>1, <2>7 DEF closes, windows, edge
  <1>2. TypeInv /\ BookInv => OrdersFollowTheMarket
    BY <1>1 DEF OrdersFollowTheMarket
  <1> QED
    BY <1>2, InitBookInv, NextBookInv, InitRiskInv, NextRiskInv, InitTypeInv, NextTypeInv,
       PTL DEF Spec

-----------------------------------------------------------------------------
(* The position rows.                                                      *)

Columns == {"side", "quantity", "price", "dry_run"}

\* The trades of a symbol: requests for it whose order row was written.
TradesOf(s) == {q \in Requests : request[q].symbol = s /\ orders[q] # None}

\* Each column of a position row was written by a trade of the symbol.
PositionsInv ==
    \A s \in Symbols : positions[s] # None =>
        \A column \in Columns :
            \E q \in TradesOf(s) : positions[s][column] = PositionRecord(q)[column]

\* Once its order row is there, what a request would write in a position is
\* settled, and the row stays.
LEMMA TradesStand ==
    ASSUME TypeInv, BookInv, [Next]_vars, NEW q \in Requests, orders[q] # None
    PROVE  /\ orders'[q] # None /\ request' = request
           /\ PositionRecord(q)' = PositionRecord(q)
  <1>0. /\ TypeOK
        /\ decision \in [Requests -> Decision \cup {None}]
        /\ orders \in [Requests -> Order \cup {None}]
        /\ pc[q] \in OrderWritten \cup {"done", "lost"}
    BY DEF TypeInv, TypeOK, BookInv, OrderRowOf
  <1> SUFFICES orders'[q] # None /\ request' = request /\ decision'[q] = decision[q]
    BY DEF PositionRecord
  <1>1. ASSUME NEW r \in Requests, Step(r), q # r
        PROVE  orders'[q] # None /\ request' = request /\ decision'[q] = decision[q]
    BY <1>0, <1>1, StepTouchesItsOwn, StepWritesItsOwn
  <1>2. ASSUME Step(q)
        PROVE  orders'[q] # None /\ request' = request /\ decision'[q] = decision[q]
    BY <1>0, <1>2 DEF Step, RecordReceived, TakePaperSnapshot, ConnectForSnapshot, ReadAccount,
       FinishSnapshot, EvaluateStrategy, StrategyUnavailable, RecordStrategyRun,
       RecordStrategyEvaluated, ValidateTrade, RecordRiskApproved, ExecuteOrder, PlaceOrder,
       ConfirmOrder, BrokerCallRaises, RecordTradeOrder, SelectPosition, SelectPositionFails,
       CommitPosition, RecordExecuted, RecordFailed, RecordAudit, OrderWritten, BrokerCalls,
       Connecting
  <1>3. ASSUME EnvironmentStep
        PROVE  orders'[q] # None /\ request' = request /\ decision'[q] = decision[q]
    BY <1>3 DEF EnvironmentStep, BrokerReturns, GatewayAccepts, BrokerCallCompletes,
       BrokerCallFails, Crash, Arrive
  <1> QED BY <1>1, <1>2, <1>3, NextCases

\* A position is written by an upsert only.
LEMMA PositionsChange ==
    ASSUME [Next]_vars, positions' # positions
    PROVE  \E r \in Requests : Step(r) /\ CommitPosition(r)
  <1>1. ~EnvironmentStep
    BY DEF EnvironmentStep, BrokerReturns, GatewayAccepts, BrokerCallCompletes,
       BrokerCallFails, Crash, Arrive
  <1>2. PICK r \in Requests : Step(r)
    BY <1>1, NextCases
  <1>3. CommitPosition(r)
    BY <1>2 DEF Step, RecordReceived, TakePaperSnapshot, ConnectForSnapshot, ReadAccount,
       FinishSnapshot, EvaluateStrategy, StrategyUnavailable, RecordStrategyRun,
       RecordStrategyEvaluated, ValidateTrade, RecordRiskApproved, ExecuteOrder, PlaceOrder,
       ConfirmOrder, BrokerCallRaises, RecordTradeOrder, SelectPosition, SelectPositionFails,
       RecordExecuted, RecordFailed, RecordAudit
  <1> QED BY <1>2, <1>3

\* The row an upsert leaves: every column from the row before or from the trade
\* whose order row is there, because a session that commits has lost no write.
LEMMA UpsertColumns ==
    ASSUME TypeInv, TrailInv, NEW r \in Requests, CommitPosition(r), positions' # positions
    PROVE  LET s == request[r].symbol
           IN  /\ s \in Symbols /\ r \in TradesOf(s)
               /\ positions' = [positions EXCEPT ![s] =
                                   Upserted(@, loaded[r], PositionRecord(r))]
               /\ positions[s] = None => positions'[s] = PositionRecord(r)
               /\ \A column \in Columns :
                      \/ positions'[s][column] = PositionRecord(r)[column]
                      \/ positions[s] # None /\ positions'[s][column] = positions[s][column]
  <1> DEFINE s == request[r].symbol
  <1>1. PICK o \in IF InsertLost(r) THEN {"conflict"} ELSE CommitOutcomes(r) :
            positions' = IF Durable(o)
                         THEN [positions EXCEPT ![s] = Upserted(@, loaded[r], PositionRecord(r))]
                         ELSE positions
    BY DEF CommitPosition
  <1>2. Durable(o) /\ o \in CommitOutcomes(r) /\ ~InsertLost(r)
    BY <1>1 DEF Durable
  <1>3. session[r] = "clean"
    BY <1>2 DEF Durable, CommitOutcomes, TypeInv, TypeOK
  <1>4. s \in Symbols /\ r \in TradesOf(s)
    <2>1. request[r] \in Request
      BY DEF TypeInv, TypeOK
    <2>2. orders[r] # None
      BY <1>3 DEF TrailInv, EvidenceOf, OrderWritten, CommitPosition
    <2> QED BY <2>1, <2>2 DEF Request, TradesOf
  <1>5. positions' = [positions EXCEPT ![s] = Upserted(@, loaded[r], PositionRecord(r))]
    BY <1>1, <1>2
  <1>6. positions'[s] = Upserted(positions[s], loaded[r], PositionRecord(r))
    BY <1>4, <1>5 DEF TypeInv, TypeOK
  <1>7. CASE loaded[r] = None
    <2>1. positions'[s] = PositionRecord(r)
      BY <1>6, <1>7 DEF Upserted
    <2> QED BY <1>4, <1>5, <2>1
  <1>8. CASE loaded[r] # None
    <2>1. positions[s] # None
      BY <1>8 DEF TypeInv, LoadedRowExists
    <2>2. \A column \in Columns :
              \/ positions'[s][column] = PositionRecord(r)[column]
              \/ positions'[s][column] = positions[s][column]
      BY <1>6, <1>8 DEF Upserted, Columns, PositionRecord
    <2> QED BY <1>4, <1>5, <2>1, <2>2
  <1> QED BY <1>7, <1>8

LEMMA NextPositionsInv ==
    TypeInv /\ TrailInv /\ BookInv /\ PositionsInv /\ [Next]_vars => PositionsInv'
  <1> SUFFICES ASSUME TypeInv, TrailInv, BookInv, PositionsInv, [Next]_vars,
                      NEW t \in Symbols, positions'[t] # None, NEW column \in Columns
               PROVE  \E q \in TradesOf(t)' :
                          positions'[t][column] = PositionRecord(q)'[column]
    BY DEF PositionsInv
  <1>1. \A q \in TradesOf(t) :
            q \in TradesOf(t)' /\ PositionRecord(q)' = PositionRecord(q)
    BY TradesStand DEF TradesOf
  <1>2. CASE positions'[t] = positions[t]
    <2>1. PICK q \in TradesOf(t) : positions[t][column] = PositionRecord(q)[column]
      BY <1>2 DEF PositionsInv
    <2> QED BY <1>1, <1>2, <2>1
  <1>3. CASE positions'[t] # positions[t]
    <2>1. PICK r \in Requests : CommitPosition(r)
      BY <1>3, PositionsChange
    <2>2. /\ positions' = [positions EXCEPT ![request[r].symbol] =
                               Upserted(@, loaded[r], PositionRecord(r))]
          /\ r \in TradesOf(request[r].symbol)
          /\ \/ positions'[request[r].symbol][column] = PositionRecord(r)[column]
             \/ /\ positions[request[r].symbol] # None
                /\ positions'[request[r].symbol][column]
                      = positions[request[r].symbol][column]
      BY <1>3, <2>1, UpsertColumns
    <2>3. t = request[r].symbol
      BY <1>3, <2>2 DEF TypeInv, TypeOK
    <2>4. CASE positions'[t][column] = PositionRecord(r)[column]
      BY <1>1, <2>2, <2>3, <2>4
    <2>5. CASE positions[t] # None /\ positions'[t][column] = positions[t][column]
      <3>1. PICK q \in TradesOf(t) : positions[t][column] = PositionRecord(q)[column]
        BY <2>5 DEF PositionsInv
      <3> QED BY <1>1, <2>5, <3>1
    <2> QED BY <2>2, <2>3, <2>4, <2>5
  <1> QED BY <1>2, <1>3

LEMMA InitPositionsInv == Init => PositionsInv
  BY DEF Init, PositionsInv

\* However the upserts of several replicas interleave, each column of a position
\* row is that of a trade of the symbol whose order row was written.
THEOREM PositionColumnsAreOfTrades == Spec => []PositionColumnsComeFromTrades
  <1>1. ASSUME TypeInv, PositionsInv, NEW s \in Symbols, positions[s] # None
        PROVE  LET trades == {PositionRecord(r) : r \in {q \in Requests :
                                 request[q].symbol = s /\ orders[q] # None}}
               IN  \A column \in DOMAIN positions[s] :
                       \E t \in trades : t[column] = positions[s][column]
    <2>1. DOMAIN positions[s] = Columns
      <3>1. positions[s] \in Position
        BY <1>1 DEF TypeInv, TypeOK
      <3> QED BY <3>1 DEF Position, Columns
    <2>2. \A column \in Columns :
              \E q \in TradesOf(s) : positions[s][column] = PositionRecord(q)[column]
      BY <1>1 DEF PositionsInv
    <2> QED BY <2>1, <2>2 DEF TradesOf
  <1>2. TypeInv /\ PositionsInv => PositionColumnsComeFromTrades
    BY <1>1 DEF PositionColumnsComeFromTrades
  <1> QED
    BY <1>2, InitPositionsInv, NextPositionsInv, InitBookInv, NextBookInv, InitTrailInv,
       NextTrailInv, InitRiskInv, NextRiskInv, InitTypeInv, NextTypeInv, PTL DEF Spec

\* Each milestone stands on the row it speaks of, and each position on an order.
THEOREM MilestonesHaveEvidence == Spec => []EvidenceBehindMilestones
  <1>1. ASSUME TrailInv, NEW r \in Requests
        PROVE  /\ "STRATEGY_EVALUATED" \in ToSet(audit[r]) => r \in runs
               /\ "EXECUTED" \in ToSet(audit[r]) => orders[r] # None
    <2>1. PICK n \in 0..4 : /\ n >= 2 => r \in runs
                            /\ n = 4 => orders[r] # None
                            /\ MilestonesOf(r, n) \/ FailedAfter(r, n)
      BY <1>1 DEF TrailInv, TrailOf
    <2>2. CASE MilestonesOf(r, n)
      BY <2>1, <2>2, UptoContents DEF MilestonesOf
    <2>3. CASE FailedAfter(r, n)
      <3>1. n \in 0..3 /\ ToSet(audit[r]) = ToSet(Upto[n]) \cup {"FAILED"}
        BY <2>3, FailedContents DEF FailedAfter
      <3> QED BY <2>1, <3>1, UptoContents
    <2> QED BY <2>1, <2>2, <2>3
  <1>2. ASSUME PositionsInv, NEW s \in Symbols, positions[s] # None
        PROVE  \E r \in Requests : request[r].symbol = s /\ orders[r] # None
    <2>1. "side" \in Columns
      BY DEF Columns
    <2> QED BY <1>2, <2>1 DEF PositionsInv, TradesOf
  <1>3. TrailInv /\ PositionsInv => EvidenceBehindMilestones
    BY <1>1, <1>2 DEF EvidenceBehindMilestones
  <1> QED
    BY <1>3, InitPositionsInv, NextPositionsInv, InitBookInv, NextBookInv, InitTrailInv,
       NextTrailInv, InitRiskInv, NextRiskInv, InitTypeInv, NextTypeInv, PTL DEF Spec

-----------------------------------------------------------------------------
(* One process.                                                            *)

OneProcess == \A p, q \in Procs : p = q

\* A request has no process before it arrives; from then to its end it is on top
\* of its process's stack, or has left the top from inside a broker call.
OnStack(r) ==
    /\ pc[r] = "idle" => home[r] = None
    /\ pc[r] \notin {"idle"} \cup Ended =>
           home[r] # None /\ (active[home[r]] = r \/ pc[r] \in BrokerCalls)

StackInv == \A r \in Requests : OnStack(r)

LEMMA InitStackInv == Init => StackInv
  BY DEF Init, StackInv, OnStack

LEMMA StepStackInv ==
    ASSUME TypeInv, StackInv, NEW r \in Requests, Step(r)
    PROVE  StackInv'
  <1> USE DEF Goto, Raise
  <1>0. /\ TypeOK
        /\ pc \in [Requests -> Labels]
        /\ home \in [Requests -> Procs \cup {None}]
        /\ active \in [Procs -> Requests \cup {None}]
        /\ home[r] # None /\ active[home[r]] = r
    BY DEF TypeInv, TypeOK, Step, Running
  <1>1. ASSUME NEW label \in Labels \ {"idle"}, pc' = [pc EXCEPT ![r] = label],
               UNCHANGED <<home, active>>
        PROVE  StackInv'
    BY <1>0, <1>1 DEF StackInv, OnStack
  <1>2. ASSUME NEW label \in Ended, Return(r, label)
        PROVE  StackInv'
    <2> SUFFICES ASSUME NEW q \in Requests PROVE OnStack(q)'
      BY DEF StackInv
    <2>1. home' = home /\ pc' = [pc EXCEPT ![r] = label]
          /\ active' = [active EXCEPT ![home[r]] = caller[r]]
      BY <1>2 DEF Return
    <2>2. CASE q = r
      BY <1>0, <1>2, <2>1, <2>2 DEF OnStack, Ended
    <2>3. CASE q # r
      <3>1. pc'[q] = pc[q] /\ OnStack(q)
        BY <1>0, <2>1, <2>3 DEF StackInv
      <3>2. home[q] # None /\ active[home[q]] = q => active'[home[q]] = q
        BY <1>0, <2>1, <2>3
      <3> QED BY <2>1, <3>1, <3>2 DEF OnStack
    <2> QED BY <2>2, <2>3
  <1>3. CASE RecordReceived(r)
    BY <1>1, <1>3 DEF RecordReceived, Labels
  <1>4. CASE TakePaperSnapshot(r)
    BY <1>1, <1>4 DEF TakePaperSnapshot, Labels
  <1>5. CASE ConnectForSnapshot(r)
    <2>1. PICK label \in Labels \ {"idle"} : pc' = [pc EXCEPT ![r] = label]
      BY <1>5, Zenon DEF ConnectForSnapshot, Labels
    <2> QED BY <1>1, <1>5, <2>1 DEF ConnectForSnapshot
  <1>6. CASE ReadAccount(r)
    BY <1>1, <1>6 DEF ReadAccount, Labels
  <1>7. CASE FinishSnapshot(r)
    BY <1>1, <1>7 DEF FinishSnapshot, Labels
  <1>8. CASE EvaluateStrategy(r)
    BY <1>1, <1>8 DEF EvaluateStrategy, Labels
  <1>9. CASE StrategyUnavailable(r)
    BY <1>1, <1>9 DEF StrategyUnavailable, Labels
  <1>10. CASE RecordStrategyRun(r)
    BY <1>1, <1>10 DEF RecordStrategyRun, Labels
  <1>11. CASE RecordStrategyEvaluated(r)
    BY <1>1, <1>11 DEF RecordStrategyEvaluated, Labels
  <1>12. CASE ValidateTrade(r)
    <2>1. PICK label \in Labels \ {"idle"} : pc' = [pc EXCEPT ![r] = label]
      BY <1>12, Zenon DEF ValidateTrade, Labels
    <2> QED BY <1>1, <1>12, <2>1 DEF ValidateTrade
  <1>13. CASE RecordRiskApproved(r)
    BY <1>1, <1>13 DEF RecordRiskApproved, Labels
  <1>14. CASE ExecuteOrder(r)
    <2>1. PICK label \in Labels \ {"idle"} : pc' = [pc EXCEPT ![r] = label]
      BY <1>14, Zenon DEF ExecuteOrder, Labels
    <2> QED BY <1>1, <1>14, <2>1 DEF ExecuteOrder
  <1>15. CASE PlaceOrder(r)
    BY <1>1, <1>15 DEF PlaceOrder, Labels
  <1>16. CASE ConfirmOrder(r)
    BY <1>1, <1>16 DEF ConfirmOrder, Labels
  <1>17. CASE BrokerCallRaises(r)
    BY <1>1, <1>17 DEF BrokerCallRaises, Labels
  <1>18. CASE RecordTradeOrder(r)
    BY <1>1, <1>18 DEF RecordTradeOrder, Labels
  <1>19. CASE SelectPosition(r)
    BY <1>1, <1>19 DEF SelectPosition, Labels
  <1>20. CASE SelectPositionFails(r)
    BY <1>1, <1>20 DEF SelectPositionFails, Labels
  <1>21. CASE CommitPosition(r)
    BY <1>1, <1>21 DEF CommitPosition, Labels
  <1>22. CASE RecordExecuted(r)
    BY <1>2, <1>22 DEF RecordExecuted, Ended
  <1>23. CASE RecordFailed(r)
    BY <1>2, <1>23 DEF RecordFailed, Ended
  <1> QED
    BY <1>3, <1>4, <1>5, <1>6, <1>7, <1>8, <1>9, <1>10, <1>11, <1>12, <1>13, <1>14, <1>15, <1>16, <1>17, <1>18, <1>19, <1>20, <1>21, <1>22, <1>23 DEF Step

LEMMA EnvironmentStackInv ==
    ASSUME TypeInv, StackInv, EnvironmentStep
    PROVE  StackInv'
  <1> USE DEF StackInv, OnStack
  <1>0. /\ pc \in [Requests -> Labels]
        /\ home \in [Requests -> Procs \cup {None}]
        /\ active \in [Procs -> Requests \cup {None}]
    BY DEF TypeInv, TypeOK
  <1>1. ASSUME NEW r \in Requests, GatewayAccepts(r) PROVE StackInv'
    BY <1>1 DEF GatewayAccepts
  <1>2. ASSUME NEW r \in Requests, BrokerCallCompletes(r) PROVE StackInv'
    BY <1>2 DEF BrokerCallCompletes
  <1>3. ASSUME NEW r \in Requests, BrokerCallFails(r) PROVE StackInv'
    BY <1>3 DEF BrokerCallFails
  <1>4. ASSUME NEW p \in Procs, Crash(p), NEW q \in Requests PROVE OnStack(q)'
    <2>1. /\ home' = home /\ active' = [active EXCEPT ![p] = None]
          /\ home[q] = p /\ pc[q] \notin Ended => pc'[q] = "lost"
          /\ ~(home[q] = p /\ pc[q] \notin Ended) => pc'[q] = pc[q]
      BY <1>4 DEF Crash
    <2>2. CASE pc'[q] = "lost"
      BY <2>2 DEF Ended
    <2>3. CASE pc'[q] = pc[q] /\ pc[q] \in Ended
      BY <2>3 DEF Ended
    <2>4. CASE pc'[q] = pc[q] /\ home[q] # p
      BY <1>0, <2>1, <2>4
    <2> QED BY <2>1, <2>2, <2>3, <2>4
  <1>5. ASSUME NEW p \in Procs, NEW r \in Requests, Arrive(p, r), NEW q \in Requests
        PROVE  OnStack(q)'
    <2>1. /\ pc' = [pc EXCEPT ![r] = "received"] /\ pc[r] = "idle" /\ LoopRuns(p)
          /\ home' = [home EXCEPT ![r] = p] /\ active' = [active EXCEPT ![p] = r]
      BY <1>5 DEF Arrive, Goto
    <2>2. CASE q = r
      BY <1>0, <2>1, <2>2, NoneIsNothing
    <2>3. CASE q # r
      <3>1. pc'[q] = pc[q] /\ home'[q] = home[q]
        BY <1>0, <2>1, <2>3
      <3>2. home[q] # None /\ active[home[q]] = q => active'[home[q]] = q \/ pc[q] \in BrokerCalls
        BY <1>0, <2>1, <2>3, NoneIsNothing DEF LoopRuns, Blocked
      <3> QED BY <3>1, <3>2
    <2> QED BY <2>2, <2>3
  <1>6. CASE UNCHANGED vars
    BY <1>6
  <1> QED
    BY <1>1, <1>2, <1>3, <1>4, <1>5, <1>6, Zenon DEF EnvironmentStep, BrokerReturns

LEMMA NextStackInv == TypeInv /\ StackInv /\ [Next]_vars => StackInv'
  BY NextCases, StepStackInv, EnvironmentStackInv

\* The row an upsert loaded is the row it will write over.
LoadedIsCurrent ==
    \A r \in Requests :
        pc[r] = "commit_position" => loaded[r] = positions[request[r].symbol]

\* A position row is the record of one trade of the symbol.
RowsAreTrades ==
    \A s \in Symbols : positions[s] # None =>
        \E q \in TradesOf(s) : positions[s] = PositionRecord(q)

\* Only the request on top of the one stack can be between the SELECT and the
\* write of an upsert: neither is a broker call.
LEMMA OneUpsertAtATime ==
    ASSUME OneProcess, TypeInv, StackInv, NEW r \in Requests, Running(r),
           NEW q \in Requests, pc[q] = "commit_position"
    PROVE  q = r
  <1>1. home[q] # None /\ active[home[q]] = q
    BY DEF StackInv, OnStack, Ended, BrokerCalls, Connecting
  <1>2. home[q] \in Procs /\ home[r] \in Procs
    BY <1>1 DEF Running, TypeInv, TypeOK
  <1> QED BY <1>1, <1>2 DEF OneProcess, Running

LEMMA NextLoadedIsCurrent ==
    ASSUME OneProcess, TypeInv, StackInv, LoadedIsCurrent, [Next]_vars
    PROVE  LoadedIsCurrent'
  <1>0. /\ pc \in [Requests -> Labels]
        /\ loaded \in [Requests -> Position \cup {None}]
    BY DEF TypeInv, TypeOK
  <1>1. ASSUME NEW r \in Requests, Step(r), NEW q \in Requests, q # r,
               pc'[q] = "commit_position"
        PROVE  FALSE
    <2>1. pc[q] = "commit_position" /\ Running(r)
      BY <1>1, StepTouchesItsOwn DEF TypeInv, Step
    <2> QED BY <1>1, <2>1, OneUpsertAtATime
  <1>2. ASSUME NEW r \in Requests, Step(r), pc'[r] = "commit_position"
        PROVE  loaded'[r] = positions'[request'[r].symbol]
    <2>1. SelectPosition(r)
      BY <1>0, <1>2 DEF Step, RecordReceived, TakePaperSnapshot, ConnectForSnapshot, ReadAccount,
         FinishSnapshot, EvaluateStrategy, StrategyUnavailable, RecordStrategyRun,
         RecordStrategyEvaluated, ValidateTrade, RecordRiskApproved, ExecuteOrder, PlaceOrder,
         ConfirmOrder, BrokerCallRaises, RecordTradeOrder, SelectPositionFails, CommitPosition,
         RecordExecuted, RecordFailed, Goto, Raise, Return
    <2> QED BY <1>0, <2>1 DEF SelectPosition
  <1>3. ASSUME EnvironmentStep, NEW q \in Requests, pc'[q] = "commit_position"
        PROVE  loaded'[q] = positions'[request'[q].symbol]
    <2>1. /\ UNCHANGED <<loaded, positions, request>>
          /\ pc[q] = "commit_position"
      BY <1>0, <1>3 DEF EnvironmentStep, BrokerReturns, GatewayAccepts, BrokerCallCompletes,
         BrokerCallFails, Crash, Arrive, Goto
    <2> QED BY <2>1 DEF LoadedIsCurrent
  <1> QED BY <1>1, <1>2, <1>3, NextCases DEF LoadedIsCurrent

LEMMA NextRowsAreTrades ==
    ASSUME TypeInv, TrailInv, BookInv, LoadedIsCurrent, RowsAreTrades, [Next]_vars
    PROVE  RowsAreTrades'
  <1> SUFFICES ASSUME NEW t \in Symbols, positions'[t] # None
               PROVE  \E q \in TradesOf(t)' : positions'[t] = PositionRecord(q)'
    BY DEF RowsAreTrades
  <1>1. \A q \in TradesOf(t) :
            q \in TradesOf(t)' /\ PositionRecord(q)' = PositionRecord(q)
    BY TradesStand DEF TradesOf
  <1>2. CASE positions'[t] = positions[t]
    <2>1. PICK q \in TradesOf(t) : positions[t] = PositionRecord(q)
      BY <1>2 DEF RowsAreTrades
    <2> QED BY <1>1, <1>2, <2>1
  <1>3. CASE positions'[t] # positions[t]
    <2>1. PICK r \in Requests : CommitPosition(r)
      BY <1>3, PositionsChange
    <2> DEFINE s == request[r].symbol
    <2>2. /\ positions' = [positions EXCEPT ![s] = Upserted(@, loaded[r], PositionRecord(r))]
          /\ s \in Symbols /\ r \in TradesOf(s)
      BY <1>3, <2>1, UpsertColumns
    <2>3. loaded[r] = positions[s]
      BY <2>1 DEF LoadedIsCurrent, CommitPosition
    <2>4. positions'[s] = Upserted(positions[s], positions[s], PositionRecord(r))
      BY <2>2, <2>3 DEF TypeInv, TypeOK
    <2>5. positions'[s] = PositionRecord(r)
      BY <2>4 DEF Upserted, PositionRecord
    <2>6. t = s
      BY <1>3, <2>2 DEF TypeInv, TypeOK
    <2> QED BY <1>1, <2>2, <2>5, <2>6
  <1> QED BY <1>2, <1>3

LEMMA InitLoadedAndRows == Init => LoadedIsCurrent /\ RowsAreTrades
  BY DEF Init, LoadedIsCurrent, RowsAreTrades

\* With one API process a position row is the record of one whole trade: the
\* SELECT and the write of an upsert are never interleaved with another's.  With
\* several processes this is not so.
THEOREM OneProcessKeepsRowsWhole ==
    ASSUME OneProcess
    PROVE  Spec => []PositionRowIsOneTrade
  <1>1. TypeInv /\ BookInv /\ RowsAreTrades => PositionRowIsOneTrade
    BY DEF RowsAreTrades, TradesOf, PositionRowIsOneTrade, BookInv, DecisionOf
  <1>2. TypeInv /\ StackInv /\ LoadedIsCurrent /\ [Next]_vars => LoadedIsCurrent'
    BY NextLoadedIsCurrent
  <1>3. TypeInv /\ TrailInv /\ BookInv /\ LoadedIsCurrent /\ RowsAreTrades /\ [Next]_vars
            => RowsAreTrades'
    BY NextRowsAreTrades
  <1> QED
    BY <1>1, <1>2, <1>3, InitLoadedAndRows, InitStackInv, NextStackInv, InitBookInv,
       NextBookInv, InitTrailInv, NextTrailInv, InitRiskInv, NextRiskInv, InitTypeInv,
       NextTypeInv, PTL DEF Spec
=============================================================================
