--------------------------- MODULE LifecycleProofs ---------------------------
(* The proof that Trading keeps the promise of TradeLifecycle: its initial  *)
(* states are initial states of TradeLifecycle, and each of its steps is    *)
(* one step of TradeLifecycle or leaves what that module sees unchanged.    *)
EXTENDS TradingRecordsProofs

USE DEF requestVars, loopVars, brokerVars, tableVars, dbVars, inputVars, vars

\* The variables of TradeLifecycle, as Lifecycle maps them.
Live == {r \in Requests : ~request[r].dry_run}
Stage == [r \in Requests |-> StageOf(pc[r])]
Recording == {r \in Requests : session[r] = "clean"}

LEMMA InitLifecycle == Init => Lifecycle!Init
  <1> SUFFICES ASSUME Init PROVE Lifecycle!Init
    OBVIOUS
  <1>1. Stage = [r \in Requests |-> "new"]
    BY DEF Init, Stage, StageOf
  <1>2. Recording = Requests
    BY DEF Init, Recording
  <1> QED
    BY <1>1, <1>2 DEF Init, Lifecycle!Init, Stage, Recording

\* A request that goes to a label moves to the stage of that label.
LEMMA StageFollows ==
    ASSUME TypeOK, NEW r \in Requests, NEW label \in Labels, pc' = [pc EXCEPT ![r] = label]
    PROVE  Stage' = [Stage EXCEPT ![r] = StageOf(label)]
  BY DEF TypeOK, Stage

LEMMA StageUnmoved ==
    ASSUME TypeOK, NEW r \in Requests, NEW label \in Labels, pc' = [pc EXCEPT ![r] = label],
           StageOf(label) = StageOf(pc[r])
    PROVE  Stage' = Stage
  BY DEF TypeOK, Stage

\* While every write of a request has succeeded its trail has what is due.
LEMMA CleanTrailIsComplete ==
    ASSUME NEW r \in Requests, TrailOf(r), pc[r] \notin {"audit_failed", "failed", "lost"}
    PROVE  Lifecycle!Recorded(r, Due(pc[r]))
  <1> SUFFICES ASSUME session[r] = "clean" PROVE Len(audit[r]) = Due(pc[r])
    BY DEF Lifecycle!Recorded
  <1>1. PICK n \in 0..4 : MilestonesOf(r, n)
    BY DEF TrailOf, FailedAfter
  <1>2. n = Due(pc[r]) /\ audit[r] = Upto[n]
    BY <1>1 DEF MilestonesOf
  <1> QED BY <1>2, UptoElements

\* A commit leaves the set of requests that still record alone, or takes one out.
LEMMA CommitMaySilence ==
    ASSUME TypeOK, NEW r \in Requests, NEW o, Commit(r, o)
    PROVE  Recording' = IF o = "committed" THEN Recording ELSE Recording \ {r}
  BY DEF TypeOK, Commit, Recording

\* Recording an audit event is what TradeLifecycle means by Record.
LEMMA RecordAuditRecords ==
    ASSUME TypeOK, NEW r \in Requests, NEW status, RecordAudit(r, status)
    PROVE  Lifecycle!Record(r, status)
  <1>1. PICK o \in CommitOutcomes(r) :
            /\ Commit(r, o)
            /\ audit' = IF Durable(o) THEN [audit EXCEPT ![r] = Append(@, status)] ELSE audit
    BY DEF RecordAudit
  <1>2. Recording' = IF o = "committed" THEN Recording ELSE Recording \ {r}
    BY <1>1, CommitMaySilence
  <1>3. CASE Durable(o)
    <2>1. r \in Recording
      BY <1>3 DEF Recording, Durable, CommitOutcomes, TypeOK
    <2>2. audit' = [audit EXCEPT ![r] = Append(@, status)]
      BY <1>1, <1>3
    <2>3. Recording' \in {Recording, Recording \ {r}}
      BY <1>2
    <2> QED BY <2>1, <2>2, <2>3 DEF Lifecycle!Record, Recording
  <1>4. CASE ~Durable(o)
    <2>1. o # "committed"
      BY <1>4 DEF Durable
    <2>2. audit' = audit /\ Recording' = Recording \ {r}
      BY <1>1, <1>2, <1>4, <2>1
    <2> QED BY <2>2 DEF Lifecycle!Record, Recording
  <1> QED BY <1>3, <1>4

-----------------------------------------------------------------------------
(* The steps of a handler.                                                 *)

LifecycleStep == Lifecycle!Next \/ UNCHANGED Lifecycle!vars

\* What the actions of TradeLifecycle have in common: one of them suffices.
LEMMA OneAction ==
    ASSUME NEW r \in Requests,
           \/ Lifecycle!Receive(r) \/ Lifecycle!Note(r) \/ Lifecycle!Silence(r)
           \/ Lifecycle!Approve(r) \/ Lifecycle!Submit(r) \/ Lifecycle!Settle(r)
           \/ Lifecycle!Reject(r) \/ Lifecycle!Finish(r) \/ Lifecycle!Close(r)
    PROVE  LifecycleStep
  BY Zenon DEF LifecycleStep, Lifecycle!Next

\* A step inside a stage that sends nothing and writes nothing is not seen.
LEMMA UnseenStep ==
    ASSUME TypeOK, NEW r \in Requests, NEW label \in Labels, pc' = [pc EXCEPT ![r] = label],
           StageOf(label) = StageOf(pc[r]), UNCHANGED <<request, placed, audit, session>>
    PROVE  LifecycleStep
  <1>1. Stage' = Stage
    BY StageUnmoved
  <1> QED BY <1>1 DEF LifecycleStep, Lifecycle!vars, Stage

\* An exception before the outcome of execution is a rejection.
LEMMA RaiseRejects ==
    ASSUME TypeOK, NEW r \in Requests, Raise(r), StageOf(pc[r]) \in {"open", "approved"},
           UNCHANGED <<request, placed, audit, session>>
    PROVE  LifecycleStep
  <1>1. Stage' = [Stage EXCEPT ![r] = "rejected"]
    BY StageFollows DEF Raise, Goto, Labels, StageOf
  <1>2. Lifecycle!Reject(r)
    BY <1>1 DEF Lifecycle!Reject, Lifecycle!Move, Stage
  <1> QED BY <1>2, OneAction

\* A write other than to the trail is seen only if it silences the trail.
LEMMA WriteMaySilence ==
    ASSUME TypeOK, NEW r \in Requests, NEW label \in Labels, pc' = [pc EXCEPT ![r] = label],
           StageOf(label) = StageOf(pc[r]), UNCHANGED <<request, placed, audit>>,
           Recording' \in {Recording, Recording \ {r}}
    PROVE  LifecycleStep
  <1>1. Stage' = Stage
    BY StageUnmoved
  <1>2. CASE Recording' = Recording
    BY <1>1, <1>2 DEF LifecycleStep, Lifecycle!vars, Stage, Recording
  <1>3. CASE Recording' = Recording \ {r}
    <2>1. Lifecycle!Silence(r)
      BY <1>1, <1>3 DEF Lifecycle!Silence, Stage, Recording
    <2> QED BY <2>1, OneAction
  <1> QED BY <1>2, <1>3

\* The next milestone, or a refused write in a session that is poisoned.
LEMMA MilestoneIsNoted ==
    ASSUME TypeOK, NEW r \in Requests, TrailOf(r), pc[r] \notin {"audit_failed", "failed", "lost"},
           NEW status, RecordAudit(r, status), status = Lifecycle!Milestones[Due(pc[r]) + 1],
           NEW label \in Labels, pc' = [pc EXCEPT ![r] = label], StageOf(label) = StageOf(pc[r]),
           \/ Due(pc[r]) \in {0, 1} /\ StageOf(pc[r]) = "open"
           \/ Due(pc[r]) = 2 /\ StageOf(pc[r]) = "approved" /\ placed[r] = 0,
           UNCHANGED <<request, placed>>
    PROVE  LifecycleStep
  <1>1. Stage' = Stage /\ Stage[r] = StageOf(pc[r])
    <2>1. Stage' = Stage
      BY StageUnmoved
    <2> QED BY <2>1 DEF Stage
  <1>2. CASE session[r] = "clean"
    <2>1. Len(audit[r]) = Due(pc[r])
      BY <1>2, CleanTrailIsComplete DEF Lifecycle!Recorded
    <2>2. Lifecycle!Record(r, Lifecycle!Milestones[Len(audit[r]) + 1])
      <3>1. Lifecycle!Record(r, status)
        BY RecordAuditRecords
      <3>2. status = Lifecycle!Milestones[Len(audit[r]) + 1]
        BY <2>1
      <3> QED BY <3>1, <3>2 DEF Lifecycle!Record
    <2>3. \/ Len(audit[r]) + 1 <= 2 /\ Stage[r] = "open"
          \/ Len(audit[r]) + 1 = 3 /\ Stage[r] = "approved" /\ placed[r] = 0
      BY <1>1, <2>1
    <2>4. Lifecycle!Note(r)
      BY <1>1, <2>2, <2>3 DEF Lifecycle!Note, Stage
    <2> QED BY <2>4, OneAction
  <1>3. CASE session[r] = "poisoned"
    <2>1. audit' = audit /\ session' = session
      BY <1>3 DEF RecordAudit, CommitOutcomes, Commit, Durable, TypeOK
    <2> QED BY <1>1, <2>1 DEF LifecycleStep, Lifecycle!vars, Stage
  <1> QED BY <1>2, <1>3 DEF TypeOK

LEMMA StepIsLifecycleStep ==
    ASSUME TypeInv, NEW r \in Requests, RiskOf(r), TrailOf(r), OrderRowOf(r), Step(r)
    PROVE  LifecycleStep
  <1> USE DEF Goto
  <1>0. TypeOK /\ session \in [Requests -> {"clean", "poisoned"}]
    BY DEF TypeInv, TypeOK
  <1>1. CASE RecordReceived(r)
    <2>1. /\ pc[r] = "received" /\ pc' = [pc EXCEPT ![r] = "snapshot"] /\ "snapshot" \in Labels
          /\ RecordAudit(r, "RECEIVED") /\ UNCHANGED <<request, placed>>
      BY <1>1 DEF RecordReceived, Labels
    <2>2. Due(pc[r]) = 0
      BY <2>1 DEF Due
    <2>3. Lifecycle!Milestones[Due(pc[r]) + 1] = "RECEIVED"
      BY <2>2 DEF Lifecycle!Milestones
    <2>4. StageOf(pc[r]) = "open" /\ StageOf("snapshot") = "open"
      BY <2>1 DEF StageOf
    <2> QED BY <1>0, <2>1, <2>2, <2>3, <2>4, MilestoneIsNoted
  <1>2. CASE TakePaperSnapshot(r)
    <2>1. /\ pc[r] = "snapshot" /\ pc' = [pc EXCEPT ![r] = "bars"] /\ "bars" \in Labels
          /\ UNCHANGED <<request, placed, audit, session>>
      BY <1>2 DEF TakePaperSnapshot, Labels
    <2> QED BY <1>0, <2>1, UnseenStep DEF StageOf
  <1>3. CASE ConnectForSnapshot(r)
    <2>1. /\ pc[r] = "snapshot" /\ (Goto(r, "pf_connecting") \/ Raise(r))
          /\ UNCHANGED <<request, placed, audit, session>>
      BY <1>3 DEF ConnectForSnapshot
    <2>2. CASE Raise(r)
      BY <1>0, <2>1, <2>2, RaiseRejects DEF StageOf
    <2>3. CASE Goto(r, "pf_connecting")
      <3>1. "pf_connecting" \in Labels
        BY DEF Labels
      <3> QED BY <1>0, <2>1, <2>3, <3>1, UnseenStep DEF StageOf, Goto
    <2> QED BY <2>1, <2>2, <2>3
  <1>4. CASE ReadAccount(r)
    <2>1. /\ pc[r] = "pf_connecting" /\ pc' = [pc EXCEPT ![r] = "pf_summary"] /\ "pf_summary" \in Labels
          /\ UNCHANGED <<request, placed, audit, session>>
      BY <1>4 DEF ReadAccount, Labels
    <2> QED BY <1>0, <2>1, UnseenStep DEF StageOf
  <1>5. CASE FinishSnapshot(r)
    <2>1. /\ pc[r] = "pf_summary" /\ pc' = [pc EXCEPT ![r] = "bars"] /\ "bars" \in Labels
          /\ UNCHANGED <<request, placed, audit, session>>
      BY <1>5 DEF FinishSnapshot, Disconnect, Labels
    <2> QED BY <1>0, <2>1, UnseenStep DEF StageOf
  <1>6. CASE EvaluateStrategy(r)
    <2>1. /\ pc[r] = "bars" /\ pc' = [pc EXCEPT ![r] = "record_run"] /\ "record_run" \in Labels
          /\ UNCHANGED <<request, placed, audit, session>>
      BY <1>6 DEF EvaluateStrategy, Labels
    <2> QED BY <1>0, <2>1, UnseenStep DEF StageOf
  <1>7. CASE StrategyUnavailable(r)
    <2>1. pc[r] = "bars" /\ Raise(r) /\ UNCHANGED <<request, placed, audit, session>>
      BY <1>7 DEF StrategyUnavailable
    <2> QED BY <1>0, <2>1, RaiseRejects DEF StageOf
  <1>8. CASE RecordStrategyRun(r)
    <2>1. /\ pc[r] = "record_run" /\ pc' = [pc EXCEPT ![r] = "audit_strategy"] /\ "audit_strategy" \in Labels
          /\ UNCHANGED <<request, placed, audit>>
          /\ \E o : Commit(r, o)
      BY <1>8 DEF RecordStrategyRun, Labels
    <2>2. Recording' \in {Recording, Recording \ {r}}
      BY <1>0, <2>1, CommitMaySilence
    <2> QED BY <1>0, <2>1, <2>2, WriteMaySilence DEF StageOf
  <1>9. CASE RecordStrategyEvaluated(r)
    <2>1. /\ pc[r] = "audit_strategy" /\ pc' = [pc EXCEPT ![r] = "validate"] /\ "validate" \in Labels
          /\ RecordAudit(r, "STRATEGY_EVALUATED") /\ UNCHANGED <<request, placed>>
      BY <1>9 DEF RecordStrategyEvaluated, Labels
    <2>2. Due(pc[r]) = 1
      BY <2>1 DEF Due
    <2>3. Lifecycle!Milestones[Due(pc[r]) + 1] = "STRATEGY_EVALUATED"
      BY <2>2 DEF Lifecycle!Milestones
    <2>4. StageOf(pc[r]) = "open" /\ StageOf("validate") = "open"
      BY <2>1 DEF StageOf
    <2> QED BY <1>0, <2>1, <2>2, <2>3, <2>4, MilestoneIsNoted
  <1>10. CASE ValidateTrade(r)
    <2>1. /\ pc[r] = "validate" /\ (Goto(r, "audit_risk") \/ Raise(r))
          /\ UNCHANGED <<request, placed, audit, session>>
      BY <1>10 DEF ValidateTrade
    <2>2. CASE Raise(r)
      BY <1>0, <2>1, <2>2, RaiseRejects DEF StageOf
    <2>3. CASE Goto(r, "audit_risk")
      <3>1. Stage' = [Stage EXCEPT ![r] = "approved"] /\ Stage[r] = "open"
        BY <1>0, <2>1, <2>3, StageFollows DEF Goto, Labels, StageOf, Stage
      <3>2. Lifecycle!Recorded(r, 2)
        BY <2>1, CleanTrailIsComplete DEF Due
      <3>3. Lifecycle!Approve(r)
        BY <2>1, <3>1, <3>2 DEF Lifecycle!Approve, Lifecycle!Move, Stage
      <3> QED BY <3>3, OneAction
    <2> QED BY <2>1, <2>2, <2>3
  <1>11. CASE RecordRiskApproved(r)
    <2>1. /\ pc[r] = "audit_risk" /\ pc' = [pc EXCEPT ![r] = "execute"] /\ "execute" \in Labels
          /\ RecordAudit(r, "RISK_APPROVED") /\ UNCHANGED <<request, placed>>
      BY <1>11 DEF RecordRiskApproved, Labels
    <2>2. Due(pc[r]) = 2
      BY <2>1 DEF Due
    <2>3. Lifecycle!Milestones[Due(pc[r]) + 1] = "RISK_APPROVED"
      BY <2>2 DEF Lifecycle!Milestones
    <2>4. placed[r] = 0
      BY <2>1 DEF RiskOf, NoOrderYet, BeforeOrder
    <2>5. StageOf(pc[r]) = "approved" /\ StageOf("execute") = "approved"
      BY <2>1 DEF StageOf
    <2> QED BY <1>0, <2>1, <2>2, <2>3, <2>4, <2>5, MilestoneIsNoted
  <1>12. CASE ExecuteOrder(r)
    <2>1. /\ pc[r] = "execute" /\ UNCHANGED <<request, placed, audit, session>>
          /\ \/ request[r].dry_run /\ Goto(r, "record_order")
             \/ Goto(r, "ex_connecting")
             \/ Raise(r)
      <3>1. pc[r] = "execute" /\ decision[r].action # "HOLD"
        BY <1>12 DEF ExecuteOrder, RiskOf, StillApproved, Cleared, RiskApproves
      <3> QED BY <1>12, <3>1 DEF ExecuteOrder
    <2>2. CASE Raise(r)
      BY <1>0, <2>1, <2>2, RaiseRejects DEF StageOf
    <2>3. CASE Goto(r, "ex_connecting")
      <3>1. "ex_connecting" \in Labels
        BY DEF Labels
      <3> QED BY <1>0, <2>1, <2>3, <3>1, UnseenStep DEF StageOf, Goto
    <2>4. CASE request[r].dry_run /\ Goto(r, "record_order")
      <3>1. Stage' = [Stage EXCEPT ![r] = "settled"] /\ Stage[r] = "approved"
        BY <1>0, <2>1, <2>4, StageFollows DEF Goto, Labels, StageOf, Stage
      <3>2. Lifecycle!Recorded(r, 3)
        BY <2>1, CleanTrailIsComplete DEF Due
      <3>3. placed[r] = 0
        BY <2>1 DEF RiskOf, NoOrderYet, BeforeOrder
      <3>4. Lifecycle!Settle(r)
        BY <2>1, <2>4, <3>1, <3>2, <3>3 DEF Lifecycle!Settle, Lifecycle!Move, Stage
      <3> QED BY <3>4, OneAction
    <2> QED BY <2>1, <2>2, <2>3, <2>4
  <1>13. CASE PlaceOrder(r)
    <2>1. /\ pc[r] = "ex_connecting" /\ pc' = [pc EXCEPT ![r] = "ex_sleeping"]
          /\ placed' = [placed EXCEPT ![r] = @ + 1]
          /\ UNCHANGED <<request, audit, session>>
      BY <1>13 DEF PlaceOrder
    <2>2. placed[r] = 0 /\ ~request[r].dry_run
      BY <2>1 DEF RiskOf, NoOrderYet, BeforeOrder, StillApproved
    <2>3. Stage' = Stage /\ Stage[r] = "approved"
      BY <1>0, <2>1, StageUnmoved DEF Labels, StageOf, Stage
    <2>4. Lifecycle!Recorded(r, 3)
      BY <2>1, CleanTrailIsComplete DEF Due
    <2>5. placed' = [placed EXCEPT ![r] = 1]
      BY <2>1, <2>2 DEF TypeOK
    <2>6. Lifecycle!Submit(r)
      BY <2>1, <2>2, <2>3, <2>4, <2>5 DEF Lifecycle!Submit, Stage
    <2> QED BY <2>6, OneAction
  <1>14. CASE ConfirmOrder(r)
    <2>1. /\ pc[r] = "ex_sleeping" /\ pc' = [pc EXCEPT ![r] = "record_order"]
          /\ UNCHANGED <<request, placed, audit, session>>
      BY <1>14 DEF ConfirmOrder, Disconnect
    <2>2. placed[r] = 1 /\ ~request[r].dry_run
      BY <2>1 DEF RiskOf, OrderWithinRisk, OrderRowOf
    <2>3. Stage' = [Stage EXCEPT ![r] = "settled"] /\ Stage[r] = "approved"
      BY <1>0, <2>1, StageFollows DEF Labels, StageOf, Stage
    <2>4. Lifecycle!Recorded(r, 3)
      BY <2>1, CleanTrailIsComplete DEF Due
    <2>5. Lifecycle!Settle(r)
      BY <2>1, <2>2, <2>3, <2>4 DEF Lifecycle!Settle, Lifecycle!Move, Stage
    <2> QED BY <2>5, OneAction
  <1>15. CASE BrokerCallRaises(r)
    <2>1. /\ pc[r] \in BrokerCalls /\ Raise(r)
          /\ UNCHANGED <<request, placed, audit, session>>
      BY <1>15 DEF BrokerCallRaises, Disconnect
    <2>2. StageOf(pc[r]) \in {"open", "approved"}
      BY <2>1 DEF BrokerCalls, Connecting, StageOf
    <2> QED BY <1>0, <2>1, <2>2, RaiseRejects
  <1>16. CASE RecordTradeOrder(r)
    <2>1. /\ pc[r] = "record_order" /\ pc' = [pc EXCEPT ![r] = "select_position"] /\ "select_position" \in Labels
          /\ UNCHANGED <<request, placed, audit>>
          /\ \E o : Commit(r, o)
      BY <1>16 DEF RecordTradeOrder, Labels
    <2>2. Recording' \in {Recording, Recording \ {r}}
      BY <1>0, <2>1, CommitMaySilence
    <2> QED BY <1>0, <2>1, <2>2, WriteMaySilence DEF StageOf
  <1>17. CASE SelectPosition(r)
    <2>1. /\ pc[r] = "select_position" /\ pc' = [pc EXCEPT ![r] = "commit_position"] /\ "commit_position" \in Labels
          /\ UNCHANGED <<request, placed, audit, session>>
      BY <1>17 DEF SelectPosition, Labels
    <2> QED BY <1>0, <2>1, UnseenStep DEF StageOf
  <1>18. CASE SelectPositionFails(r)
    <2>1. /\ pc[r] = "select_position" /\ pc' = [pc EXCEPT ![r] = "audit_executed"]
          /\ "audit_executed" \in Labels
          /\ UNCHANGED <<request, placed, audit>>
          /\ session' = session \/ \E s \in {"clean", "poisoned"} :
                                       session' = [session EXCEPT ![r] = s]
          /\ session' = session \/ session[r] = "clean"
      BY <1>0, <1>18 DEF SelectPositionFails, Labels
    <2>2. Recording' \in {Recording, Recording \ {r}}
      BY <1>0, <2>1 DEF Recording
    <2> QED BY <1>0, <2>1, <2>2, WriteMaySilence DEF StageOf
  <1>19. CASE CommitPosition(r)
    <2>1. /\ pc[r] = "commit_position" /\ pc' = [pc EXCEPT ![r] = "audit_executed"] /\ "audit_executed" \in Labels
          /\ UNCHANGED <<request, placed, audit>>
          /\ \E o : Commit(r, o)
      BY <1>19 DEF CommitPosition, Labels
    <2>2. Recording' \in {Recording, Recording \ {r}}
      BY <1>0, <2>1, CommitMaySilence
    <2> QED BY <1>0, <2>1, <2>2, WriteMaySilence DEF StageOf
  <1>20. CASE RecordExecuted(r)
    <2>1. /\ pc[r] = "audit_executed" /\ pc' = [pc EXCEPT ![r] = "done"]
          /\ RecordAudit(r, "EXECUTED") /\ UNCHANGED <<request, placed>>
      BY <1>20 DEF RecordExecuted, Return
    <2>2. Stage' = [Stage EXCEPT ![r] = "finished"] /\ Stage[r] = "settled"
      BY <1>0, <2>1, StageFollows DEF Labels, StageOf, Stage
    <2>3. Lifecycle!Finish(r)
      BY <1>0, <2>1, <2>2, RecordAuditRecords DEF Lifecycle!Finish, Lifecycle!Move, Stage
    <2> QED BY <2>3, OneAction
  <1>21. CASE RecordFailed(r)
    <2>1. /\ pc[r] = "audit_failed" /\ pc' = [pc EXCEPT ![r] = "failed"]
          /\ RecordAudit(r, "FAILED") /\ UNCHANGED <<request, placed>>
      BY <1>21 DEF RecordFailed, Return
    <2>2. Stage' = [Stage EXCEPT ![r] = "closed"] /\ Stage[r] = "rejected"
      BY <1>0, <2>1, StageFollows DEF Labels, StageOf, Stage
    <2>3. Lifecycle!Close(r)
      BY <1>0, <2>1, <2>2, RecordAuditRecords DEF Lifecycle!Close, Lifecycle!Move, Stage
    <2> QED BY <2>3, OneAction
  <1> QED
    BY <1>1, <1>2, <1>3, <1>4, <1>5, <1>6, <1>7, <1>8, <1>9, <1>10, <1>11, <1>12, <1>13, <1>14, <1>15, <1>16, <1>17, <1>18, <1>19, <1>20, <1>21 DEF Step

\* Arrivals are received, a crash loses what it takes with it, and what the
\* gateway answers is not seen.
LEMMA EnvironmentIsLifecycleStep ==
    ASSUME TypeInv, StackInv, EnvironmentStep
    PROVE  LifecycleStep
  <1>0. TypeOK
    BY DEF TypeInv
  <1>1. ASSUME UNCHANGED <<request, pc, placed, audit, session>> PROVE LifecycleStep
    BY <1>1 DEF LifecycleStep, Lifecycle!vars
  <1>2. ASSUME NEW r \in Requests, BrokerReturns(r) PROVE LifecycleStep
    BY <1>1, <1>2 DEF BrokerReturns, GatewayAccepts, BrokerCallCompletes, BrokerCallFails
  <1>3. ASSUME NEW p \in Procs, Crash(p) PROVE LifecycleStep
    <2> DEFINE victims == {r \in Requests : home[r] = p /\ pc[r] \notin Ended}
    <2>1. /\ pc' = [r \in Requests |-> IF r \in victims THEN "lost" ELSE pc[r]]
          /\ UNCHANGED <<request, placed, audit, session>>
      BY <1>3 DEF Crash
    <2>2. \A r \in victims : Stage[r] \in {"open", "approved", "settled", "rejected"}
      <3> SUFFICES ASSUME NEW r \in victims
                   PROVE  StageOf(pc[r]) \in {"open", "approved", "settled", "rejected"}
        BY DEF Stage
      <3>1. pc[r] \in Labels \ Ended /\ pc[r] # "idle"
        BY NoneIsNothing DEF StackInv, OnStack, TypeInv, TypeOK
      <3> QED BY <3>1 DEF Labels, Ended, StageOf
    <2>3. Stage' = [r \in Requests |-> IF r \in victims THEN "lost" ELSE Stage[r]]
      <3>1. StageOf("lost") = "lost"
        BY DEF StageOf
      <3>2. \A r \in Requests :
                StageOf(pc'[r]) = IF r \in victims THEN "lost" ELSE StageOf(pc[r])
        BY <2>1, <3>1
      <3> QED BY <3>2 DEF Stage
    <2>4. Lifecycle!Lose(victims)
      BY <2>1, <2>2, <2>3 DEF Lifecycle!Lose, Stage
    <2>5. victims \in SUBSET Requests
      OBVIOUS
    <2> QED BY <2>4, <2>5, Zenon DEF LifecycleStep, Lifecycle!Next
  <1>4. ASSUME NEW p \in Procs, NEW r \in Requests, Arrive(p, r) PROVE LifecycleStep
    <2>1. /\ pc[r] = "idle" /\ pc' = [pc EXCEPT ![r] = "received"]
          /\ UNCHANGED <<request, placed, audit, session>>
      BY <1>4 DEF Arrive, Goto
    <2>2. Stage' = [Stage EXCEPT ![r] = "open"] /\ Stage[r] = "new"
      BY <1>0, <2>1, StageFollows DEF Labels, StageOf, Stage
    <2>3. Lifecycle!Receive(r)
      BY <2>1, <2>2 DEF Lifecycle!Receive, Lifecycle!Move, Stage
    <2> QED BY <2>3, OneAction
  <1> QED
    BY <1>1, <1>2, <1>3, <1>4, Zenon DEF EnvironmentStep

LEMMA NextIsLifecycleStep ==
    TypeInv /\ RiskInv /\ TrailInv /\ BookInv /\ StackInv /\ [Next]_vars
        => [Lifecycle!Next]_(Lifecycle!vars)
  BY NextCases, StepIsLifecycleStep, EnvironmentIsLifecycleStep
     DEF RiskInv, TrailInv, BookInv, LifecycleStep

\* process_signal keeps the promise of TradeLifecycle, however requests interleave
\* and whatever fails: approval before the order, one order at most, none while
\* the trail is kept and lacks the approval.
THEOREM TradingImplementsLifecycle == Spec => ImplementsLifecycle
  <1> QED
    BY InitLifecycle, NextIsLifecycleStep, InitStackInv, NextStackInv, InitBookInv, NextBookInv,
       InitTrailInv, NextTrailInv, InitRiskInv, NextRiskInv, InitTypeInv, NextTypeInv,
       PTL DEF Spec, ImplementsLifecycle, Lifecycle!Spec
==============================================================================
