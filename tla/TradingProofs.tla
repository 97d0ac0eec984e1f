---------------------------- MODULE TradingProofs ----------------------------
(* What is proved of Trading for every set of processes, requests, symbols,  *)
(* quantities, prices and account values, and any number of faults.          *)
EXTENDS Trading, PolicyProofs

USE DEF requestVars, loopVars, brokerVars, tableVars, dbVars, inputVars, vars

\* The strategy's decision is there from the moment it is made until the end.
Decided ==
    {"record_run", "audit_strategy", "validate", "audit_risk", "execute", "ex_connecting",
     "ex_sleeping", "record_order", "select_position", "commit_position", "audit_executed"}

DecisionMade == \A r \in Requests : pc[r] \in Decided => decision[r] \in Decision

\* No step deletes a position row, so the row an upsert loaded still exists.
LoadedRowExists ==
    \A r \in Requests : loaded[r] # None => positions[request[r].symbol] # None

\* TypeOK is not inductive alone: a row's type rests on the decision being made,
\* and the type of an updated row on the row being there.
TypeInv == TypeOK /\ DecisionMade /\ LoadedRowExists

LEMMA InitTypeInv == Init => TypeInv
  <1> SUFFICES ASSUME Init PROVE TypeInv
    OBVIOUS
  <1>1. TypeOK
    BY NumbersAssumption, EmptySeq DEF Init, TypeOK, Labels
  <1>2. DecisionMade /\ LoadedRowExists
    BY DEF Init, DecisionMade, LoadedRowExists, Decided
  <1> QED
    BY <1>1, <1>2 DEF TypeInv

\* A commit keeps the session and the fault counter in their ranges.
LEMMA CommitType ==
    ASSUME TypeOK, NEW r \in Requests, NEW o \in CommitOutcomes(r), Commit(r, o)
    PROVE  /\ session' \in [Requests -> {"clean", "poisoned"}]
           /\ dbFaults' \in 0..MaxDbFaults
  BY NumbersAssumption DEF TypeOK, Commit, CommitOutcomes

LEMMA RecordAuditType ==
    ASSUME TypeOK, NEW r \in Requests, NEW status \in Statuses, RecordAudit(r, status)
    PROVE  /\ session' \in [Requests -> {"clean", "poisoned"}]
           /\ dbFaults' \in 0..MaxDbFaults
           /\ audit' \in [Requests -> Seq(Statuses)]
           /\ UNCHANGED <<runs, orders, positions>>
  <1>1. PICK o \in CommitOutcomes(r) :
            /\ Commit(r, o)
            /\ audit' = IF Durable(o) THEN [audit EXCEPT ![r] = Append(@, status)] ELSE audit
            /\ UNCHANGED <<runs, orders, positions>>
    BY DEF RecordAudit
  <1>2. Append(audit[r], status) \in Seq(Statuses)
    BY AppendProperties DEF TypeOK
  <1>3. audit' \in [Requests -> Seq(Statuses)]
    BY <1>1, <1>2 DEF TypeOK
  <1> QED
    BY <1>1, <1>3, CommitType

\* An upsert leaves the table alone or puts a proper row in the symbol's place.
LEMMA UpsertWritesRow ==
    ASSUME TypeInv, NEW r \in Requests, CommitPosition(r)
    PROVE  /\ session' \in [Requests -> {"clean", "poisoned"}]
           /\ dbFaults' \in 0..MaxDbFaults
           /\ \/ positions' = positions
              \/ \E row \in Position :
                     positions' = [positions EXCEPT ![request[r].symbol] = row]
  <1> USE DEF TypeInv, TypeOK
  <1>1. PositionRecord(r) \in Position
    BY DEF CommitPosition, PositionRecord, Position, DecisionMade, Decided, Decision,
           Request, Sides
  <1>2. PICK o \in IF InsertLost(r) THEN {"conflict"} ELSE CommitOutcomes(r) :
            /\ Commit(r, o)
            /\ positions' =
                   IF Durable(o)
                   THEN [positions EXCEPT ![request[r].symbol] =
                             Upserted(@, loaded[r], PositionRecord(r))]
                   ELSE positions
    BY DEF CommitPosition
  <1>3. /\ session' \in [Requests -> {"clean", "poisoned"}]
        /\ dbFaults' \in 0..MaxDbFaults
    <2>1. CASE InsertLost(r)
      BY <1>2, <2>1, NumbersAssumption DEF Commit
    <2>2. CASE ~InsertLost(r)
      BY <1>2, <2>2, CommitType
    <2> QED BY <2>1, <2>2
  <1>4. Upserted(positions[request[r].symbol], loaded[r], PositionRecord(r)) \in Position
    BY <1>1 DEF Upserted, Position, LoadedRowExists, Request
  <1> QED BY <1>2, <1>3, <1>4

\* Whatever the bars, the engine's decision is a proper one.
LEMMA EvaluationDecides ==
    ASSUME TypeInv, NEW r \in Requests, EvaluateStrategy(r)
    PROVE  \E d \in Decision : decision' = [decision EXCEPT ![r] = d]
  <1>1. PICK closes \in RecentBars(r) :
            /\ Evaluable(closes, request[r].windows)
            /\ decision' = [decision EXCEPT ![r] =
                   [action |-> Crossover(closes, request[r].windows),
                    closes |-> closes,
                    price  |-> closes[Len(closes)]]]
    BY DEF EvaluateStrategy
  <1>2. request[r] \in Request
    BY DEF TypeInv, TypeOK
  <1>3. /\ request[r].symbol \in Symbols /\ request[r].windows \in Windows
        /\ request[r].windows.long \in 3..200
    BY <1>2, NumbersAssumption DEF Request
  <1>4. closes \in Seq(Prices)
    BY <1>1, <1>3, NumbersAssumption DEF RecentBars
  <1>5. Len(closes) \in 1..Len(closes)
    <2>1. Len(closes) \in Nat
      BY <1>4, LenProperties
    <2>2. Len(closes) >= request[r].windows.long
      BY <1>1, Zenon DEF Evaluable
    <2>3. request[r].windows.long >= 3 /\ request[r].windows.long \in Int
      BY <1>3
    <2> QED
      BY <2>1, <2>2, <2>3
  <1>6. closes[Len(closes)] \in Prices
    BY <1>4, <1>5, ElementOfSeq
  <1>7. Crossover(closes, request[r].windows) \in Actions
    BY DEF Crossover, Actions
  <1> QED
    BY <1>1, <1>4, <1>6, <1>7 DEF Decision

LEMMA StepTypeOK ==
    ASSUME TypeInv, NEW r \in Requests, Step(r)
    PROVE  TypeOK'
  <1> USE DEF TypeInv, TypeOK, Goto, Raise, Return, Labels
  <1>1. CASE RecordReceived(r)
    <2>1. "RECEIVED" \in Statuses BY DEF Statuses
    <2> QED BY <1>1, <2>1, RecordAuditType DEF RecordReceived
  <1>2. CASE TakePaperSnapshot(r)
    BY <1>2 DEF TakePaperSnapshot, PaperSnapshot, Snapshot, Sources
  <1>3. CASE ConnectForSnapshot(r)
    BY <1>3 DEF ConnectForSnapshot
  <1>4. CASE ReadAccount(r)
    BY <1>4 DEF ReadAccount
  <1>5. CASE FinishSnapshot(r)
    BY <1>5 DEF FinishSnapshot, Disconnect, LiveSnapshot, Snapshot, Sources
  <1>6. CASE EvaluateStrategy(r)
    <2>1. PICK d \in Decision : decision' = [decision EXCEPT ![r] = d]
      BY <1>6, EvaluationDecides
    <2> QED BY <1>6, <2>1 DEF EvaluateStrategy
  <1>7. CASE StrategyUnavailable(r)
    BY <1>7 DEF StrategyUnavailable
  <1>8. CASE RecordStrategyRun(r)
    BY <1>8, CommitType DEF RecordStrategyRun
  <1>9. CASE RecordStrategyEvaluated(r)
    <2>1. "STRATEGY_EVALUATED" \in Statuses BY DEF Statuses
    <2> QED BY <1>9, <2>1, RecordAuditType DEF RecordStrategyEvaluated
  <1>10. CASE ValidateTrade(r)
    BY <1>10 DEF ValidateTrade
  <1>11. CASE RecordRiskApproved(r)
    <2>1. "RISK_APPROVED" \in Statuses BY DEF Statuses
    <2> QED BY <1>11, <2>1, RecordAuditType DEF RecordRiskApproved
  <1>12. CASE ExecuteOrder(r)
    <2>0. PICK label \in {"record_order", "ex_connecting", "audit_failed"} :
              pc' = [pc EXCEPT ![r] = label]
      BY <1>12, Zenon DEF ExecuteOrder
    <2>1. pc' \in [Requests -> Labels]
      BY <2>0
    <2>2. result' \in [Requests -> {"none", "skipped", "simulated", "submitted"}]
      BY <1>12 DEF ExecuteOrder
    <2> QED BY <1>12, <2>1, <2>2 DEF ExecuteOrder
  <1>13. CASE PlaceOrder(r)
    BY <1>13 DEF PlaceOrder
  <1>14. CASE ConfirmOrder(r)
    BY <1>14 DEF ConfirmOrder, Disconnect
  <1>15. CASE BrokerCallRaises(r)
    BY <1>15 DEF BrokerCallRaises, Disconnect
  <1>16. CASE RecordTradeOrder(r)
    <2>1. OrderRow(r) \in Order
      BY <1>16 DEF RecordTradeOrder, OrderRow, Order, DecisionMade, Decided, Decision
    <2> QED BY <1>16, <2>1, CommitType DEF RecordTradeOrder
  <1>17. CASE SelectPosition(r)
    <2>1. positions[request[r].symbol] \in Position \cup {None}
      BY DEF Request
    <2> QED BY <1>17, <2>1 DEF SelectPosition
  <1>18. CASE SelectPositionFails(r)
    <2>1. CASE session[r] = "poisoned"
      BY <1>18, <2>1 DEF SelectPositionFails
    <2>2. CASE session[r] # "poisoned"
      <3>1. PICK s \in {"clean", "poisoned"} : session' = [session EXCEPT ![r] = s]
        BY <1>18, <2>2 DEF SelectPositionFails
      <3>2. dbFaults' \in 0..MaxDbFaults
        BY <1>18, <2>2, NumbersAssumption DEF SelectPositionFails
      <3> QED BY <1>18, <3>1, <3>2 DEF SelectPositionFails
    <2> QED BY <2>1, <2>2
  <1>19. CASE CommitPosition(r)
    <2>1. positions' \in [Symbols -> Position \cup {None}]
      BY <1>19, UpsertWritesRow, Zenon DEF TypeInv, TypeOK
    <2>2. session' \in [Requests -> {"clean", "poisoned"}] /\ dbFaults' \in 0..MaxDbFaults
      BY <1>19, UpsertWritesRow, Zenon
    <2>3. pc' \in [Requests -> Labels]
      BY <1>19 DEF CommitPosition
    <2> QED BY <1>19, <2>1, <2>2, <2>3 DEF CommitPosition
  <1>20. CASE RecordExecuted(r)
    <2>1. "EXECUTED" \in Statuses BY DEF Statuses
    <2> QED BY <1>20, <2>1, RecordAuditType DEF RecordExecuted
  <1>21. CASE RecordFailed(r)
    <2>1. "FAILED" \in Statuses BY DEF Statuses
    <2> QED BY <1>21, <2>1, RecordAuditType DEF RecordFailed
  <1> QED
    BY <1>1, <1>2, <1>3, <1>4, <1>5, <1>6, <1>7, <1>8, <1>9, <1>10, <1>11, <1>12, <1>13, <1>14, <1>15, <1>16, <1>17, <1>18, <1>19, <1>20, <1>21 DEF Step

LEMMA StepDecisionMade ==
    ASSUME TypeInv, NEW r \in Requests, Step(r)
    PROVE  DecisionMade'
  <1> USE DEF TypeInv, TypeOK, DecisionMade, Decided, Goto, Raise, Return
  <1>1. CASE RecordReceived(r)
    BY <1>1 DEF RecordReceived
  <1>2. CASE TakePaperSnapshot(r)
    BY <1>2 DEF TakePaperSnapshot
  <1>3. CASE ConnectForSnapshot(r)
    BY <1>3 DEF ConnectForSnapshot
  <1>4. CASE ReadAccount(r)
    BY <1>4 DEF ReadAccount
  <1>5. CASE FinishSnapshot(r)
    BY <1>5 DEF FinishSnapshot
  <1>6. CASE EvaluateStrategy(r)
    <2>1. PICK d \in Decision : decision' = [decision EXCEPT ![r] = d]
      BY <1>6, EvaluationDecides
    <2> QED BY <1>6, <2>1 DEF EvaluateStrategy
  <1>7. CASE StrategyUnavailable(r)
    BY <1>7 DEF StrategyUnavailable
  <1>8. CASE RecordStrategyRun(r)
    BY <1>8 DEF RecordStrategyRun
  <1>9. CASE RecordStrategyEvaluated(r)
    BY <1>9 DEF RecordStrategyEvaluated
  <1>10. CASE ValidateTrade(r)
    BY <1>10 DEF ValidateTrade
  <1>11. CASE RecordRiskApproved(r)
    BY <1>11 DEF RecordRiskApproved
  <1>12. CASE ExecuteOrder(r)
    BY <1>12 DEF ExecuteOrder
  <1>13. CASE PlaceOrder(r)
    BY <1>13 DEF PlaceOrder
  <1>14. CASE ConfirmOrder(r)
    BY <1>14 DEF ConfirmOrder
  <1>15. CASE BrokerCallRaises(r)
    BY <1>15 DEF BrokerCallRaises
  <1>16. CASE RecordTradeOrder(r)
    BY <1>16 DEF RecordTradeOrder
  <1>17. CASE SelectPosition(r)
    BY <1>17 DEF SelectPosition
  <1>18. CASE SelectPositionFails(r)
    BY <1>18 DEF SelectPositionFails
  <1>19. CASE CommitPosition(r)
    BY <1>19 DEF CommitPosition
  <1>20. CASE RecordExecuted(r)
    BY <1>20 DEF RecordExecuted
  <1>21. CASE RecordFailed(r)
    BY <1>21 DEF RecordFailed
  <1> QED
    BY <1>1, <1>2, <1>3, <1>4, <1>5, <1>6, <1>7, <1>8, <1>9, <1>10, <1>11, <1>12, <1>13, <1>14, <1>15, <1>16, <1>17, <1>18, <1>19, <1>20, <1>21 DEF Step

LEMMA StepLoadedRowExists ==
    ASSUME TypeInv, NEW r \in Requests, Step(r)
    PROVE  LoadedRowExists'
  <1> USE DEF TypeInv, TypeOK, LoadedRowExists, Request
  <1>1. CASE RecordReceived(r)
    BY <1>1 DEF RecordReceived, RecordAudit
  <1>2. CASE TakePaperSnapshot(r)
    BY <1>2 DEF TakePaperSnapshot
  <1>3. CASE ConnectForSnapshot(r)
    BY <1>3 DEF ConnectForSnapshot
  <1>4. CASE ReadAccount(r)
    BY <1>4 DEF ReadAccount
  <1>5. CASE FinishSnapshot(r)
    BY <1>5 DEF FinishSnapshot
  <1>6. CASE EvaluateStrategy(r)
    BY <1>6 DEF EvaluateStrategy
  <1>7. CASE StrategyUnavailable(r)
    BY <1>7 DEF StrategyUnavailable
  <1>8. CASE RecordStrategyRun(r)
    BY <1>8 DEF RecordStrategyRun
  <1>9. CASE RecordStrategyEvaluated(r)
    BY <1>9 DEF RecordStrategyEvaluated, RecordAudit
  <1>10. CASE ValidateTrade(r)
    BY <1>10 DEF ValidateTrade
  <1>11. CASE RecordRiskApproved(r)
    BY <1>11 DEF RecordRiskApproved, RecordAudit
  <1>12. CASE ExecuteOrder(r)
    BY <1>12 DEF ExecuteOrder
  <1>13. CASE PlaceOrder(r)
    BY <1>13 DEF PlaceOrder
  <1>14. CASE ConfirmOrder(r)
    BY <1>14 DEF ConfirmOrder
  <1>15. CASE BrokerCallRaises(r)
    BY <1>15 DEF BrokerCallRaises
  <1>16. CASE RecordTradeOrder(r)
    BY <1>16 DEF RecordTradeOrder
  <1>17. CASE SelectPosition(r)
    BY <1>17 DEF SelectPosition
  <1>18. CASE SelectPositionFails(r)
    BY <1>18 DEF SelectPositionFails
  <1>19. CASE CommitPosition(r)
    <2>1. loaded' = loaded /\ request' = request
      BY <1>19 DEF CommitPosition
    <2>2. CASE positions' = positions
      BY <2>1, <2>2
    <2>3. ASSUME NEW row \in Position,
                 positions' = [positions EXCEPT ![request[r].symbol] = row]
          PROVE  LoadedRowExists'
      <3>1. row # None
        BY NoneIsNothing
      <3> QED BY <2>1, <2>3, <3>1
    <2> QED BY <1>19, <2>2, <2>3, UpsertWritesRow
  <1>20. CASE RecordExecuted(r)
    BY <1>20 DEF RecordExecuted, RecordAudit
  <1>21. CASE RecordFailed(r)
    BY <1>21 DEF RecordFailed, RecordAudit
  <1> QED
    BY <1>1, <1>2, <1>3, <1>4, <1>5, <1>6, <1>7, <1>8, <1>9, <1>10, <1>11, <1>12, <1>13, <1>14, <1>15, <1>16, <1>17, <1>18, <1>19, <1>20, <1>21 DEF Step

\* The broker's answers, arrivals and crashes touch no data of the platform.
EnvironmentStep ==
    \/ \E r \in Requests : BrokerReturns(r)
    \/ \E p \in Procs : Crash(p) \/ \E r \in Requests : Arrive(p, r)
    \/ UNCHANGED vars

LEMMA EnvironmentTypeInv ==
    ASSUME TypeInv, EnvironmentStep
    PROVE  TypeInv'
  <1> USE DEF TypeInv, TypeOK, DecisionMade, LoadedRowExists, Labels, Decided
  <1>1. ASSUME NEW r \in Requests, GatewayAccepts(r) PROVE TypeInv'
    BY <1>1 DEF GatewayAccepts
  <1>2. ASSUME NEW r \in Requests, BrokerCallCompletes(r) PROVE TypeInv'
    BY <1>2 DEF BrokerCallCompletes
  <1>3. ASSUME NEW r \in Requests, BrokerCallFails(r) PROVE TypeInv'
    BY <1>3 DEF BrokerCallFails
  <1>4. ASSUME NEW p \in Procs, Crash(p) PROVE TypeInv'
    BY <1>4, NumbersAssumption DEF Crash
  <1>5. ASSUME NEW p \in Procs, NEW r \in Requests, Arrive(p, r) PROVE TypeInv'
    BY <1>5 DEF Arrive, Goto
  <1>6. CASE UNCHANGED vars
    BY <1>6
  <1> QED
    BY <1>1, <1>2, <1>3, <1>4, <1>5, <1>6 DEF EnvironmentStep, BrokerReturns

\* Every step is a step of a handler or one of its environment.
LEMMA NextCases ==
    ASSUME [Next]_vars
    PROVE  (\E r \in Requests : Step(r)) \/ EnvironmentStep
  BY DEF Next, EnvironmentStep, AllServed

LEMMA NextTypeInv == TypeInv /\ [Next]_vars => TypeInv'
  BY NextCases, StepTypeOK, StepDecisionMade, StepLoadedRowExists, EnvironmentTypeInv DEF TypeInv

\* Type correctness, for any number of processes, requests and faults: the
\* tables hold only rows their columns mean and no request leaves the steps of
\* process_signal.
THEOREM TypeCorrect == Spec => []TypeOK
  <1>1. TypeInv => TypeOK
    BY DEF TypeInv
  <1> QED
    BY <1>1, InitTypeInv, NextTypeInv, PTL DEF Spec

-----------------------------------------------------------------------------
(* The client id.                                                          *)

LEMMA InitClientId == Init => ClientIdHeldOnlyInsideCall
  BY NoneIsNothing DEF Init, ClientIdHeldOnlyInsideCall

LEMMA StepClientId ==
    ASSUME TypeOK, ClientIdHeldOnlyInsideCall, NEW r \in Requests, Step(r)
    PROVE  ClientIdHeldOnlyInsideCall'
  <1> USE NoneIsNothing DEF TypeOK, ClientIdHeldOnlyInsideCall, BrokerCalls, Connecting,
                           Goto, Raise, Return, Disconnect
  <1>1. CASE RecordReceived(r)
    BY <1>1 DEF RecordReceived
  <1>2. CASE TakePaperSnapshot(r)
    BY <1>2 DEF TakePaperSnapshot
  <1>3. CASE ConnectForSnapshot(r)
    BY <1>3 DEF ConnectForSnapshot
  <1>4. CASE ReadAccount(r)
    BY <1>4 DEF ReadAccount
  <1>5. CASE FinishSnapshot(r)
    BY <1>5 DEF FinishSnapshot
  <1>6. CASE EvaluateStrategy(r)
    BY <1>6 DEF EvaluateStrategy
  <1>7. CASE StrategyUnavailable(r)
    BY <1>7 DEF StrategyUnavailable
  <1>8. CASE RecordStrategyRun(r)
    BY <1>8 DEF RecordStrategyRun
  <1>9. CASE RecordStrategyEvaluated(r)
    BY <1>9 DEF RecordStrategyEvaluated
  <1>10. CASE ValidateTrade(r)
    BY <1>10 DEF ValidateTrade
  <1>11. CASE RecordRiskApproved(r)
    BY <1>11 DEF RecordRiskApproved
  <1>12. CASE ExecuteOrder(r)
    BY <1>12 DEF ExecuteOrder
  <1>13. CASE PlaceOrder(r)
    BY <1>13 DEF PlaceOrder
  <1>14. CASE ConfirmOrder(r)
    BY <1>14 DEF ConfirmOrder
  <1>15. CASE BrokerCallRaises(r)
    BY <1>15 DEF BrokerCallRaises
  <1>16. CASE RecordTradeOrder(r)
    BY <1>16 DEF RecordTradeOrder
  <1>17. CASE SelectPosition(r)
    BY <1>17 DEF SelectPosition
  <1>18. CASE SelectPositionFails(r)
    BY <1>18 DEF SelectPositionFails
  <1>19. CASE CommitPosition(r)
    BY <1>19 DEF CommitPosition
  <1>20. CASE RecordExecuted(r)
    BY <1>20 DEF RecordExecuted
  <1>21. CASE RecordFailed(r)
    BY <1>21 DEF RecordFailed
  <1> QED
    BY <1>1, <1>2, <1>3, <1>4, <1>5, <1>6, <1>7, <1>8, <1>9, <1>10, <1>11, <1>12, <1>13, <1>14, <1>15, <1>16, <1>17, <1>18, <1>19, <1>20, <1>21 DEF Step

LEMMA EnvironmentClientId ==
    ASSUME TypeOK, ClientIdHeldOnlyInsideCall, EnvironmentStep
    PROVE  ClientIdHeldOnlyInsideCall'
  <1> USE NoneIsNothing DEF TypeOK, ClientIdHeldOnlyInsideCall, BrokerCalls, Connecting
  <1>1. ASSUME NEW r \in Requests, GatewayAccepts(r) PROVE ClientIdHeldOnlyInsideCall'
    BY <1>1 DEF GatewayAccepts
  <1>2. ASSUME NEW r \in Requests, BrokerCallCompletes(r) PROVE ClientIdHeldOnlyInsideCall'
    BY <1>2 DEF BrokerCallCompletes
  <1>3. ASSUME NEW r \in Requests, BrokerCallFails(r) PROVE ClientIdHeldOnlyInsideCall'
    BY <1>3 DEF BrokerCallFails
  <1>4. ASSUME NEW p \in Procs, Crash(p) PROVE ClientIdHeldOnlyInsideCall'
    BY <1>4 DEF Crash
  <1>5. ASSUME NEW p \in Procs, NEW r \in Requests, Arrive(p, r) PROVE ClientIdHeldOnlyInsideCall'
    BY <1>5 DEF Arrive, Goto
  <1>6. CASE UNCHANGED vars
    BY <1>6
  <1> QED
    BY <1>1, <1>2, <1>3, <1>4, <1>5, <1>6 DEF EnvironmentStep, BrokerReturns

\* However a broker call ends - answered, refused, timed out, dropped, or with
\* the process - its request no longer holds the gateway's only client id.
THEOREM ClientIdReleased == Spec => []ClientIdHeldOnlyInsideCall
  <1>1. TypeOK /\ ClientIdHeldOnlyInsideCall /\ [Next]_vars => ClientIdHeldOnlyInsideCall'
    BY NextCases, StepClientId, EnvironmentClientId
  <1> QED
    BY <1>1, InitClientId, TypeCorrect, PTL DEF Spec

-----------------------------------------------------------------------------
(* Live orders.                                                            *)

\* The steps before an order can exist, those that read the snapshot, and those
\* between the approval and the order.
BeforeOrder ==
    {"idle", "received", "snapshot", "pf_connecting", "pf_summary", "bars", "record_run",
     "audit_strategy", "validate", "audit_risk", "execute", "ex_connecting"}
Assessing ==
    {"bars", "record_run", "audit_strategy", "validate", "audit_risk", "execute",
     "ex_connecting"}
Cleared == {"audit_risk", "execute", "ex_connecting"}

NoOrderYet(r) == pc[r] \in BeforeOrder => placed[r] = 0

\* A live request is assessed against figures that came from the gateway.
SnapshotIsLive(r) ==
    pc[r] \in Assessing /\ ~request[r].dry_run =>
        \E net \in Equities : snapshot[r] = LiveSnapshot(net)

\* What was approved is what is about to be sent.
StillApproved(r) ==
    /\ pc[r] \in Cleared =>
           RiskApproves(decision[r].action, request[r].quantity, decision[r].price, snapshot[r])
    /\ pc[r] = "ex_connecting" => ~request[r].dry_run

\* LiveOrdersWithinRisk, of one request.
OrderWithinRisk(r) ==
    placed[r] > 0 =>
        /\ placed[r] = 1
        /\ ~request[r].dry_run
        /\ decision[r].action # "HOLD"
        /\ WithinLimits(request[r].quantity, decision[r].price, snapshot[r].net)

\* That property is about the past of an order; to be inductive it needs what
\* holds on the way there.
RiskOf(r) == NoOrderYet(r) /\ SnapshotIsLive(r) /\ StillApproved(r) /\ OrderWithinRisk(r)
RiskInv == \A r \in Requests : RiskOf(r)

LEMMA InputsAreIntegers ==
    Quantities \subseteq Int /\ Prices \subseteq Int /\ Equities \subseteq Int
  BY NumbersAssumption

LEMMA InitRiskInv == Init => RiskInv
  BY DEF Init, RiskInv, RiskOf, NoOrderYet, SnapshotIsLive, StillApproved, OrderWithinRisk,
         Assessing, Cleared

\* The facts of a request rest on its own variables only.
LEMMA UntouchedRisk ==
    ASSUME NEW q \in Requests, RiskOf(q), request' = request, pc'[q] = pc[q],
           snapshot'[q] = snapshot[q], decision'[q] = decision[q], placed'[q] = placed[q]
    PROVE  RiskOf(q)'
  BY DEF RiskOf, NoOrderYet, SnapshotIsLive, StillApproved, OrderWithinRisk

LEMMA StepTouchesItsOwn ==
    ASSUME TypeOK, NEW r \in Requests, Step(r), NEW q \in Requests, q # r
    PROVE  /\ request' = request /\ pc'[q] = pc[q] /\ snapshot'[q] = snapshot[q]
           /\ decision'[q] = decision[q] /\ placed'[q] = placed[q]
  <1> USE DEF TypeOK, Goto, Raise, Return, Disconnect
  <1>1. CASE RecordReceived(r)
    BY <1>1 DEF RecordReceived
  <1>2. CASE TakePaperSnapshot(r)
    BY <1>2 DEF TakePaperSnapshot
  <1>3. CASE ConnectForSnapshot(r)
    BY <1>3 DEF ConnectForSnapshot
  <1>4. CASE ReadAccount(r)
    BY <1>4 DEF ReadAccount
  <1>5. CASE FinishSnapshot(r)
    BY <1>5 DEF FinishSnapshot
  <1>6. CASE EvaluateStrategy(r)
    BY <1>6 DEF EvaluateStrategy
  <1>7. CASE StrategyUnavailable(r)
    BY <1>7 DEF StrategyUnavailable
  <1>8. CASE RecordStrategyRun(r)
    BY <1>8 DEF RecordStrategyRun
  <1>9. CASE RecordStrategyEvaluated(r)
    BY <1>9 DEF RecordStrategyEvaluated
  <1>10. CASE ValidateTrade(r)
    BY <1>10 DEF ValidateTrade
  <1>11. CASE RecordRiskApproved(r)
    BY <1>11 DEF RecordRiskApproved
  <1>12. CASE ExecuteOrder(r)
    BY <1>12 DEF ExecuteOrder
  <1>13. CASE PlaceOrder(r)
    BY <1>13 DEF PlaceOrder
  <1>14. CASE ConfirmOrder(r)
    BY <1>14 DEF ConfirmOrder
  <1>15. CASE BrokerCallRaises(r)
    BY <1>15 DEF BrokerCallRaises
  <1>16. CASE RecordTradeOrder(r)
    BY <1>16 DEF RecordTradeOrder
  <1>17. CASE SelectPosition(r)
    BY <1>17 DEF SelectPosition
  <1>18. CASE SelectPositionFails(r)
    BY <1>18 DEF SelectPositionFails
  <1>19. CASE CommitPosition(r)
    BY <1>19 DEF CommitPosition
  <1>20. CASE RecordExecuted(r)
    BY <1>20 DEF RecordExecuted
  <1>21. CASE RecordFailed(r)
    BY <1>21 DEF RecordFailed
  <1> QED
    BY <1>1, <1>2, <1>3, <1>4, <1>5, <1>6, <1>7, <1>8, <1>9, <1>10, <1>11, <1>12, <1>13, <1>14, <1>15, <1>16, <1>17, <1>18, <1>19, <1>20, <1>21 DEF Step

LEMMA StepRiskOf ==
    ASSUME TypeInv, NEW r \in Requests, RiskOf(r), Step(r)
    PROVE  RiskOf(r)'
  <1> USE DEF TypeInv, TypeOK, RiskOf, NoOrderYet, SnapshotIsLive, StillApproved,
              OrderWithinRisk, BeforeOrder, Assessing, Cleared, Goto, Raise, Return
  <1>1. CASE RecordReceived(r)
    BY <1>1 DEF RecordReceived
  <1>2. CASE TakePaperSnapshot(r)
    BY <1>2 DEF TakePaperSnapshot
  <1>3. CASE ConnectForSnapshot(r)
    BY <1>3 DEF ConnectForSnapshot
  <1>4. CASE ReadAccount(r)
    BY <1>4 DEF ReadAccount
  <1>5. CASE FinishSnapshot(r)
    BY <1>5 DEF FinishSnapshot, Disconnect
  <1>6. CASE EvaluateStrategy(r)
    BY <1>6 DEF EvaluateStrategy
  <1>7. CASE StrategyUnavailable(r)
    BY <1>7 DEF StrategyUnavailable
  <1>8. CASE RecordStrategyRun(r)
    BY <1>8 DEF RecordStrategyRun
  <1>9. CASE RecordStrategyEvaluated(r)
    BY <1>9 DEF RecordStrategyEvaluated
  <1>10. CASE ValidateTrade(r)
    BY <1>10 DEF ValidateTrade
  <1>11. CASE RecordRiskApproved(r)
    BY <1>11 DEF RecordRiskApproved
  <1>12. CASE ExecuteOrder(r)
    BY <1>12 DEF ExecuteOrder
  <1>13. CASE PlaceOrder(r)
    <2>1. PICK net \in Equities : snapshot[r] = LiveSnapshot(net)
      BY <1>13 DEF PlaceOrder
    <2>2. /\ decision[r].action \in Actions /\ decision[r].action # "HOLD"
          /\ request[r].quantity \in Int /\ decision[r].price \in Int /\ net \in Int
      <3>1. decision[r] \in Decision /\ request[r] \in Request
        BY <1>13 DEF PlaceOrder, DecisionMade, Decided
      <3>2. decision[r].action # "HOLD"
        BY <1>13 DEF PlaceOrder, RiskApproves
      <3>3. decision[r].action \in Actions /\ decision[r].price \in Prices
        BY <3>1 DEF Decision
      <3>4. request[r].quantity \in Quantities
        BY <3>1 DEF Request
      <3> QED BY <3>2, <3>3, <3>4, InputsAreIntegers
    <2>3. WithinLimits(request[r].quantity, decision[r].price, snapshot[r].net)
      BY <1>13, <2>1, <2>2, ApprovalMeansWithinLimits DEF PlaceOrder, LiveSnapshot
    <2>4. placed[r] = 0 /\ ~request[r].dry_run
      BY <1>13 DEF PlaceOrder
    <2>5. /\ pc'[r] = "ex_sleeping" /\ placed'[r] = 1
          /\ UNCHANGED <<request, decision, snapshot>>
      BY <1>13, <2>4 DEF PlaceOrder
    <2>6. OrderWithinRisk(r)'
      BY <2>2, <2>3, <2>4, <2>5
    <2>7. NoOrderYet(r)' /\ SnapshotIsLive(r)' /\ StillApproved(r)'
      BY <2>5
    <2> QED BY <2>6, <2>7
  <1>14. CASE ConfirmOrder(r)
    BY <1>14 DEF ConfirmOrder, Disconnect
  <1>15. CASE BrokerCallRaises(r)
    BY <1>15 DEF BrokerCallRaises, BrokerCalls, Connecting, Disconnect
  <1>16. CASE RecordTradeOrder(r)
    BY <1>16 DEF RecordTradeOrder
  <1>17. CASE SelectPosition(r)
    BY <1>17 DEF SelectPosition
  <1>18. CASE SelectPositionFails(r)
    BY <1>18 DEF SelectPositionFails
  <1>19. CASE CommitPosition(r)
    BY <1>19 DEF CommitPosition
  <1>20. CASE RecordExecuted(r)
    BY <1>20 DEF RecordExecuted
  <1>21. CASE RecordFailed(r)
    BY <1>21 DEF RecordFailed
  <1> QED
    BY <1>1, <1>2, <1>3, <1>4, <1>5, <1>6, <1>7, <1>8, <1>9, <1>10, <1>11, <1>12, <1>13, <1>14, <1>15, <1>16, <1>17, <1>18, <1>19, <1>20, <1>21 DEF Step

LEMMA EnvironmentRiskInv ==
    ASSUME TypeInv, RiskInv, EnvironmentStep
    PROVE  RiskInv'
  <1> USE DEF TypeInv, TypeOK, RiskInv
  <1>1. ASSUME NEW r \in Requests, GatewayAccepts(r) PROVE RiskInv'
    BY <1>1, UntouchedRisk DEF GatewayAccepts
  <1>2. ASSUME NEW r \in Requests, BrokerCallCompletes(r) PROVE RiskInv'
    BY <1>2, UntouchedRisk DEF BrokerCallCompletes
  <1>3. ASSUME NEW r \in Requests, BrokerCallFails(r) PROVE RiskInv'
    BY <1>3, UntouchedRisk DEF BrokerCallFails
  <1>4. ASSUME NEW p \in Procs, Crash(p), NEW q \in Requests PROVE RiskOf(q)'
    <2>1. /\ request' = request /\ snapshot' = snapshot /\ decision' = decision
          /\ placed' = placed
      BY <1>4 DEF Crash
    <2>2. CASE pc'[q] = pc[q]
      BY <2>1, <2>2, UntouchedRisk
    <2>3. CASE pc'[q] = "lost"
      BY <2>1, <2>3 DEF RiskOf, NoOrderYet, SnapshotIsLive, StillApproved, OrderWithinRisk,
                        BeforeOrder, Assessing, Cleared
    <2> QED BY <1>4, <2>2, <2>3 DEF Crash
  <1>5. ASSUME NEW p \in Procs, NEW r \in Requests, Arrive(p, r), NEW q \in Requests
        PROVE  RiskOf(q)'
    <2>1. /\ request' = request /\ snapshot' = snapshot /\ decision' = decision
          /\ placed' = placed
      BY <1>5 DEF Arrive
    <2>2. CASE q # r
      BY <1>5, <2>1, <2>2, UntouchedRisk DEF Arrive, Goto
    <2>3. CASE q = r
      BY <1>5, <2>1, <2>3 DEF Arrive, Goto, RiskOf, NoOrderYet, SnapshotIsLive, StillApproved,
                        OrderWithinRisk, BeforeOrder, Assessing, Cleared
    <2> QED BY <2>2, <2>3
  <1>6. CASE UNCHANGED vars
    BY <1>6, UntouchedRisk
  <1> QED
    BY <1>1, <1>2, <1>3, <1>4, <1>5, <1>6 DEF EnvironmentStep, BrokerReturns

LEMMA NextRiskInv == TypeInv /\ RiskInv /\ [Next]_vars => RiskInv'
  <1> SUFFICES ASSUME TypeInv, RiskInv, [Next]_vars PROVE RiskInv'
    OBVIOUS
  <1>1. ASSUME NEW r \in Requests, Step(r), NEW q \in Requests PROVE RiskOf(q)'
    <2>1. CASE q = r
      BY <1>1, <2>1, StepRiskOf DEF RiskInv
    <2>2. CASE q # r
      BY <1>1, <2>2, StepTouchesItsOwn, UntouchedRisk DEF RiskInv, TypeInv
    <2> QED BY <2>1, <2>2
  <1> QED
    BY <1>1, NextCases, EnvironmentRiskInv DEF RiskInv

\* Every order at the broker was asked for live, is alone, and keeps within the
\* capital and drawdown limits for the account value read from the gateway.
THEOREM LiveOrdersStayWithinRisk == Spec => []LiveOrdersWithinRisk
  <1>1. RiskInv => LiveOrdersWithinRisk
    BY DEF RiskInv, RiskOf, OrderWithinRisk, LiveOrdersWithinRisk
  <1> QED
    BY <1>1, InitRiskInv, NextRiskInv, InitTypeInv, NextTypeInv, PTL DEF Spec
=============================================================================
