------------------------------- MODULE Trading -------------------------------
(***************************************************************************)
(* POST /api/v1/trading/signal from the moment the handler runs to its      *)
(* response: TradingOrchestrator.process_signal with the portfolio,         *)
(* execution and risk services, the repositories it writes through, the     *)
(* database session it holds and the IBKR gateway it calls.                 *)
(*                                                                         *)
(* A request is a small program with a program counter.  Several requests   *)
(* run on one event loop, and several API processes on one database and one *)
(* gateway.  The blocking broker calls pump the event loop (nest_asyncio),  *)
(* so another request can start inside them; it is then stacked on its      *)
(* caller, which resumes only when the one above has returned.              *)
(***************************************************************************)
EXTENDS RiskPolicy, StrategyEngine

CONSTANTS
    Procs,        \* API processes
    Requests,     \* trade requests that clients send, each once
    Symbols,
    Quantities,   \* positive integers (TradeSignalRequest.quantity)
    Prices,       \* closing prices
    Windows,      \* the short and long windows a request may name
    Market,       \* series of closes the provider may return
    DemoBase,     \* the first close of each symbol's demo series
    Equities,     \* net liquidation values the gateway may report
    None,         \* the value of "nothing here"
    MaxDbFaults,  \* bound: database calls that fail on their own
    MaxCrashes    \* bound: process crashes

ASSUME NumbersAssumption ==
    /\ Quantities \subseteq Nat \ {0}
    /\ Prices \subseteq Nat \ {0}
    /\ Equities \subseteq Int
    /\ Windows \subseteq [short: 2..100, long: 3..200]
    /\ Market \subseteq Seq(Prices)
    /\ DemoBase \in [Symbols -> Prices] /\ DemoStep \in Nat
    /\ \A s \in Symbols, w \in Windows : SyntheticBars(DemoBase[s], w.long) \in Seq(Prices)
    /\ MaxDbFaults \in Nat
    /\ MaxCrashes \in Nat

Actions == {"BUY", "SELL", "HOLD"}
Sides == {"LONG", "SHORT"}

\* TradeLifecycleStatus: the milestones of a request, in order, and FAILED.
Milestones == <<"RECEIVED", "STRATEGY_EVALUATED", "RISK_APPROVED", "EXECUTED">>
Statuses == {"RECEIVED", "STRATEGY_EVALUATED", "RISK_APPROVED", "EXECUTED", "FAILED"}

\* The steps of process_signal, named for the call that comes next.
Labels ==
    {"idle", "received", "snapshot", "pf_connecting", "pf_summary", "bars", "record_run",
     "audit_strategy", "validate", "audit_risk", "execute", "ex_connecting", "ex_sleeping",
     "record_order", "select_position", "commit_position", "audit_executed",
     "audit_failed", "done", "failed", "lost"}

Request  == [symbol: Symbols, quantity: Quantities, dry_run: BOOLEAN, windows: Windows]
Decision == [action: Actions, closes: Seq(Prices), price: Prices]
Snapshot == [source: Sources, net: Equities \cup {PaperAccountEquity}]
Order    == [action: Actions, status: {"SIMULATED", "SUBMITTED"}]
Position == [side: Sides, quantity: Quantities, price: Prices, dry_run: BOOLEAN]

ASSUME NoneIsNothing ==
    None \notin Procs \cup Requests \cup Decision \cup Snapshot \cup Order \cup Position

VARIABLES
    request,      \* what each client asks for; the client sets it, no step does
    brokerReady,  \* ib_insync is importable, configured and the loop is patched
    feed,         \* "alpaca", or "synthetic" without its keys on a local machine
    pc,           \* where each request is
    snapshot,     \* portfolio_snapshot
    decision,     \* the strategy's action, the closes of its bars and the last of them
    result,       \* execution_result.status
    loaded,       \* the position row upsert_position's SELECT returned
    session,      \* the request's SQLAlchemy session: "clean" or "poisoned"
    home,         \* the process that serves the request
    caller,       \* the request whose broker call was pumping when it started
    active,       \* the request on top of each process's stack
    reply,        \* how the broker call in progress ended, "none" until it does
    clientHolder, \* the request whose connection holds the gateway's client id
    placed,       \* orders each request handed to the gateway
    audit,        \* trade_audit_logs, the rows of each request in order
    runs,         \* requests with a row in strategy_runs
    orders,       \* the row of each request in trade_orders
    positions,    \* the row of each symbol in positions
    dbFaults, crashes

requestVars == <<snapshot, decision, result, loaded>>
loopVars    == <<home, caller, active>>
brokerVars  == <<clientHolder, reply, placed>>
tableVars   == <<audit, runs, orders, positions>>
dbVars      == <<tableVars, session, dbFaults>>
inputVars   == <<request, brokerReady, feed, crashes>>
vars == <<pc, requestVars, loopVars, brokerVars, dbVars, inputVars>>

Init ==
    /\ request \in [Requests -> Request]
    /\ brokerReady \in BOOLEAN
    /\ feed \in {"alpaca", "synthetic"}
    /\ pc = [r \in Requests |-> "idle"]
    /\ snapshot = [r \in Requests |-> None]
    /\ decision = [r \in Requests |-> None]
    /\ result = [r \in Requests |-> "none"]
    /\ loaded = [r \in Requests |-> None]
    /\ session = [r \in Requests |-> "clean"]
    /\ home = [r \in Requests |-> None]
    /\ caller = [r \in Requests |-> None]
    /\ active = [p \in Procs |-> None]
    /\ reply = [r \in Requests |-> "none"]
    /\ clientHolder = None
    /\ placed = [r \in Requests |-> 0]
    /\ audit = [r \in Requests |-> <<>>]
    /\ runs = {}
    /\ orders = [r \in Requests |-> None]
    /\ positions = [s \in Symbols |-> None]
    /\ dbFaults = 0
    /\ crashes = 0

-----------------------------------------------------------------------------
(* The event loop.                                                         *)

Connecting == {"pf_connecting", "ex_connecting"}
BrokerCalls == Connecting \cup {"pf_summary", "ex_sleeping"}
Ended == {"done", "failed", "lost"}

\* A broker call of r is in progress and its process pumps the loop from it.
Blocked(r) == pc[r] \in BrokerCalls /\ reply[r] = "none"

\* The process can take in new events: nothing runs on it, or what runs on
\* top is inside a broker call.
LoopRuns(p) == active[p] # None => Blocked(active[p])

\* r is on top of its process's stack and not waiting for the broker.
Running(r) == home[r] # None /\ active[home[r]] = r

Goto(r, label) == pc' = [pc EXCEPT ![r] = label]

\* An exception leaves the body of process_signal.
Raise(r) == Goto(r, "audit_failed")

\* The handler answers and the request beneath it, if any, resumes.
Return(r, label) ==
    /\ Goto(r, label)
    /\ active' = [active EXCEPT ![home[r]] = caller[r]]
    /\ UNCHANGED <<home, caller>>

\* A request reaches its handler, perhaps inside a broker call of another.
Arrive(p, r) ==
    /\ pc[r] = "idle"
    /\ LoopRuns(p)
    /\ Goto(r, "received")
    /\ home' = [home EXCEPT ![r] = p]
    /\ caller' = [caller EXCEPT ![r] = active[p]]
    /\ active' = [active EXCEPT ![p] = r]
    /\ UNCHANGED <<requestVars, brokerVars, dbVars, inputVars>>

-----------------------------------------------------------------------------
(* Writing to the database.  Each repository call adds one row and commits. *)
(* Nothing rolls the session back, so after one failure every later commit  *)
(* of the request is refused.  A commit that fails may have happened.       *)

\* Mutant: each write rolls the session back first, so a failure is not final.
CommitOutcomesAfterRollback(r) ==
    {"committed"} \cup {o \in {"rolled_back", "unconfirmed"} : dbFaults < MaxDbFaults}

CommitOutcomes(r) ==
    IF session[r] = "poisoned"
    THEN {"refused"}
    ELSE {"committed"} \cup
         {o \in {"rolled_back", "unconfirmed"} : dbFaults < MaxDbFaults}

Durable(outcome) == outcome \in {"committed", "unconfirmed"}

\* The effect of a commit on the session; the caller swallows the exception.
Commit(r, outcome) ==
    /\ session' = [session EXCEPT ![r] = IF outcome = "committed" THEN @ ELSE "poisoned"]
    /\ dbFaults' = IF outcome \in {"rolled_back", "unconfirmed"} THEN dbFaults + 1 ELSE dbFaults

\* _record_audit_event.
RecordAudit(r, status) ==
    \E o \in CommitOutcomes(r) :
        /\ Commit(r, o)
        /\ audit' = IF Durable(o) THEN [audit EXCEPT ![r] = Append(@, status)] ELSE audit
        /\ UNCHANGED <<runs, orders, positions>>

-----------------------------------------------------------------------------
(* process_signal, one action per call it makes.                           *)

RecordReceived(r) ==
    /\ pc[r] = "received"
    /\ RecordAudit(r, "RECEIVED")
    /\ Goto(r, "snapshot")
    /\ UNCHANGED <<requestVars, loopVars, brokerVars, inputVars>>

TakePaperSnapshot(r) ==
    /\ pc[r] = "snapshot"
    /\ request[r].dry_run
    /\ snapshot' = [snapshot EXCEPT ![r] = PaperSnapshot]
    /\ Goto(r, "bars")
    /\ UNCHANGED <<decision, result, loaded, loopVars, brokerVars, dbVars, inputVars>>

\* _build_live_snapshot up to its connect; without a usable broker it raises.
ConnectForSnapshot(r) ==
    /\ pc[r] = "snapshot"
    /\ ~request[r].dry_run
    /\ IF brokerReady THEN Goto(r, "pf_connecting") ELSE Raise(r)
    /\ UNCHANGED <<requestVars, loopVars, brokerVars, dbVars, inputVars>>

\* Connected: ask for the account summary.
ReadAccount(r) ==
    /\ pc[r] = "pf_connecting"
    /\ reply[r] = "ok"
    /\ reply' = [reply EXCEPT ![r] = "none"]
    /\ Goto(r, "pf_summary")
    /\ UNCHANGED <<requestVars, loopVars, clientHolder, placed, dbVars, inputVars>>

\* Mutant: the finally block is missing.
DisconnectForgotten(r) ==
    /\ reply' = [reply EXCEPT ![r] = "none"]
    /\ UNCHANGED <<clientHolder, placed>>

\* The finally blocks of the broker services: disconnect if connected.
Disconnect(r) ==
    /\ clientHolder' = IF clientHolder = r THEN None ELSE clientHolder
    /\ reply' = [reply EXCEPT ![r] = "none"]
    /\ placed' = placed

FinishSnapshot(r) ==
    /\ pc[r] = "pf_summary"
    /\ reply[r] = "ok"
    /\ \E net \in Equities : snapshot' = [snapshot EXCEPT ![r] = LiveSnapshot(net)]
    /\ Disconnect(r)
    /\ Goto(r, "bars")
    /\ UNCHANGED <<decision, result, loaded, loopVars, dbVars, inputVars>>

\* get_recent_bars, asked for as many bars as the long window has: the provider
\* may have fewer.
RecentBars(r) ==
    LET limit == request[r].windows.long
    IN  IF feed = "alpaca" THEN {closes \in Market : Len(closes) =< limit}
        ELSE {SyntheticBars(DemoBase[request[r].symbol], limit)}

EvaluateStrategy(r) ==
    /\ pc[r] = "bars"
    /\ \E closes \in RecentBars(r) :
           /\ Evaluable(closes, request[r].windows)
           /\ decision' = [decision EXCEPT ![r] =
                  [action |-> Crossover(closes, request[r].windows),
                   closes |-> closes,
                   price  |-> closes[Len(closes)]]]
    /\ Goto(r, "record_run")
    /\ UNCHANGED <<snapshot, result, loaded, loopVars, brokerVars, dbVars, inputVars>>

\* No keys, provider down, too few bars, or windows in the wrong order.
StrategyUnavailable(r) ==
    /\ pc[r] = "bars"
    /\ feed = "alpaca" \/ request[r].windows.long =< request[r].windows.short
    /\ Raise(r)
    /\ UNCHANGED <<requestVars, loopVars, brokerVars, dbVars, inputVars>>

RecordStrategyRun(r) ==
    /\ pc[r] = "record_run"
    /\ \E o \in CommitOutcomes(r) :
           /\ Commit(r, o)
           /\ runs' = IF Durable(o) THEN runs \cup {r} ELSE runs
    /\ Goto(r, "audit_strategy")
    /\ UNCHANGED <<requestVars, loopVars, brokerVars, audit, orders, positions, inputVars>>

RecordStrategyEvaluated(r) ==
    /\ pc[r] = "audit_strategy"
    /\ RecordAudit(r, "STRATEGY_EVALUATED")
    /\ Goto(r, "validate")
    /\ UNCHANGED <<requestVars, loopVars, brokerVars, inputVars>>

ValidateTrade(r) ==
    /\ pc[r] = "validate"
    /\ IF RiskApproves(decision[r].action, request[r].quantity, decision[r].price, snapshot[r])
       THEN Goto(r, "audit_risk")
       ELSE Raise(r)
    /\ UNCHANGED <<requestVars, loopVars, brokerVars, dbVars, inputVars>>

RecordRiskApproved(r) ==
    /\ pc[r] = "audit_risk"
    /\ RecordAudit(r, "RISK_APPROVED")
    /\ Goto(r, "execute")
    /\ UNCHANGED <<requestVars, loopVars, brokerVars, inputVars>>

\* execute_order up to its connect.
ExecuteOrder(r) ==
    /\ pc[r] = "execute"
    /\ IF decision[r].action = "HOLD" \/ request[r].dry_run
       THEN /\ result' = [result EXCEPT ![r] =
                              IF decision[r].action = "HOLD" THEN "skipped" ELSE "simulated"]
            /\ Goto(r, "record_order")
       ELSE /\ result' = result
            /\ IF brokerReady THEN Goto(r, "ex_connecting") ELSE Raise(r)
    /\ UNCHANGED <<snapshot, decision, loaded, loopVars, brokerVars, dbVars, inputVars>>

\* Connected: hand the order to the gateway, then sleep a second.
PlaceOrder(r) ==
    /\ pc[r] = "ex_connecting"
    /\ reply[r] = "ok"
    /\ placed' = [placed EXCEPT ![r] = @ + 1]
    /\ reply' = [reply EXCEPT ![r] = "none"]
    /\ Goto(r, "ex_sleeping")
    /\ UNCHANGED <<requestVars, loopVars, clientHolder, dbVars, inputVars>>

ConfirmOrder(r) ==
    /\ pc[r] = "ex_sleeping"
    /\ reply[r] = "ok"
    /\ result' = [result EXCEPT ![r] = "submitted"]
    /\ Disconnect(r)
    /\ Goto(r, "record_order")
    /\ UNCHANGED <<snapshot, decision, loaded, loopVars, dbVars, inputVars>>

\* Mutant: a failed broker call is made again from its connect.
BrokerCallRetries(r) ==
    /\ pc[r] \in BrokerCalls
    /\ reply[r] = "error"
    /\ Disconnect(r)
    /\ Goto(r, IF pc[r] \in {"pf_connecting", "pf_summary"}
               THEN "pf_connecting" ELSE "ex_connecting")
    /\ UNCHANGED <<requestVars, loopVars, dbVars, inputVars>>

\* The except and finally blocks of both broker services.
BrokerCallRaises(r) ==
    /\ pc[r] \in BrokerCalls
    /\ reply[r] = "error"
    /\ Disconnect(r)
    /\ Raise(r)
    /\ UNCHANGED <<requestVars, loopVars, dbVars, inputVars>>

\* The order row process_signal writes; only "simulated" is told apart.
OrderRow(r) ==
    [action |-> decision[r].action,
     status |-> IF result[r] = "simulated" THEN "SIMULATED" ELSE "SUBMITTED"]

RecordTradeOrder(r) ==
    /\ pc[r] = "record_order"
    /\ \E o \in CommitOutcomes(r) :
           /\ Commit(r, o)
           /\ orders' = IF Durable(o) THEN [orders EXCEPT ![r] = OrderRow(r)] ELSE orders
    /\ Goto(r, "select_position")
    /\ UNCHANGED <<requestVars, loopVars, brokerVars, audit, runs, positions, inputVars>>

\* Mutant: the action is stored where the side belongs.
PositionRecordWithAction(r) ==
    [side     |-> decision[r].action,
     quantity |-> request[r].quantity,
     price    |-> decision[r].price,
     dry_run  |-> request[r].dry_run]

\* The record handed to upsert_position: this trade alone.
PositionRecord(r) ==
    [side     |-> IF decision[r].action = "BUY" THEN "LONG" ELSE "SHORT",
     quantity |-> request[r].quantity,
     price    |-> decision[r].price,
     dry_run  |-> request[r].dry_run]

\* upsert_position's SELECT.
SelectPosition(r) ==
    /\ pc[r] = "select_position"
    /\ session[r] = "clean"
    /\ loaded' = [loaded EXCEPT ![r] = positions[request[r].symbol]]
    /\ Goto(r, "commit_position")
    /\ UNCHANGED <<snapshot, decision, result, loopVars, brokerVars, dbVars, inputVars>>

\* The SELECT raises: always in a poisoned session, else by a fault, which
\* leaves the session usable (SQLite) or not (a transaction it aborts).
SelectPositionFails(r) ==
    /\ pc[r] = "select_position"
    /\ IF session[r] = "poisoned"
       THEN UNCHANGED <<session, dbFaults>>
       ELSE /\ dbFaults < MaxDbFaults
            /\ dbFaults' = dbFaults + 1
            /\ \E s \in {"clean", "poisoned"} : session' = [session EXCEPT ![r] = s]
    /\ Goto(r, "audit_executed")
    /\ UNCHANGED <<requestVars, loopVars, brokerVars, tableVars, inputVars>>

\* Mutants: an update that forgets the side, and one that adds the quantity up.
UpsertedKeepingSide(now, seen, record) ==
    IF seen = None THEN record ELSE [record EXCEPT !.side = now.side]

UpsertedAdding(now, seen, record) ==
    IF seen = None THEN record ELSE [record EXCEPT !.quantity = @ + now.quantity]

\* The row after the flush: an INSERT of the record, or an UPDATE of the columns
\* that differ from the row as it was loaded, over the row as it is now.
Upserted(now, seen, record) ==
    IF seen = None
    THEN record
    ELSE [side     |-> IF record.side = seen.side THEN now.side ELSE record.side,
          quantity |-> IF record.quantity = seen.quantity THEN now.quantity ELSE record.quantity,
          price    |-> IF record.price = seen.price THEN now.price ELSE record.price,
          dry_run  |-> IF record.dry_run = seen.dry_run THEN now.dry_run ELSE record.dry_run]

\* An INSERT that loses to another replica's violates the unique symbol.
InsertLost(r) == loaded[r] = None /\ positions[request[r].symbol] # None

CommitPosition(r) ==
    /\ pc[r] = "commit_position"
    /\ \E o \in IF InsertLost(r) THEN {"conflict"} ELSE CommitOutcomes(r) :
           /\ Commit(r, o)
           /\ positions' =
                  IF Durable(o)
                  THEN [positions EXCEPT ![request[r].symbol] =
                            Upserted(@, loaded[r], PositionRecord(r))]
                  ELSE positions
    /\ Goto(r, "audit_executed")
    /\ UNCHANGED <<requestVars, loopVars, brokerVars, audit, runs, orders, inputVars>>

RecordExecuted(r) ==
    /\ pc[r] = "audit_executed"
    /\ RecordAudit(r, "EXECUTED")
    /\ Return(r, "done")
    /\ UNCHANGED <<requestVars, brokerVars, inputVars>>

RecordFailed(r) ==
    /\ pc[r] = "audit_failed"
    /\ RecordAudit(r, "FAILED")
    /\ Return(r, "failed")
    /\ UNCHANGED <<requestVars, brokerVars, inputVars>>

-----------------------------------------------------------------------------
(* The gateway, as the code meets it: one connection per client id.        *)

\* The gateway grants the client id to a connection attempt.
GatewayAccepts(r) ==
    /\ pc[r] \in Connecting
    /\ reply[r] = "none"
    /\ LoopRuns(home[r])
    /\ clientHolder = None
    /\ clientHolder' = r
    /\ reply' = [reply EXCEPT ![r] = "ok"]
    /\ UNCHANGED <<pc, requestVars, loopVars, placed, dbVars, inputVars>>

\* The account summary arrives, or the second of sleep is over.
BrokerCallCompletes(r) ==
    /\ pc[r] \in BrokerCalls \ Connecting
    /\ reply[r] = "none"
    /\ LoopRuns(home[r])
    /\ reply' = [reply EXCEPT ![r] = "ok"]
    /\ UNCHANGED <<pc, requestVars, loopVars, clientHolder, placed, dbVars, inputVars>>

\* The client id is taken, the connect times out, or the gateway drops the
\* connection during a call or right after accepting it.  The connection may
\* or may not survive the error.
BrokerCallFails(r) ==
    /\ pc[r] \in BrokerCalls
    /\ \/ reply[r] = "none"
       \/ reply[r] = "ok" /\ pc[r] \in Connecting
    /\ LoopRuns(home[r])
    /\ reply' = [reply EXCEPT ![r] = "error"]
    /\ clientHolder' \in {clientHolder, IF clientHolder = r THEN None ELSE clientHolder}
    /\ UNCHANGED <<pc, requestVars, loopVars, placed, dbVars, inputVars>>

\* A process dies with everything on its stack; its connection goes with it.
Crash(p) ==
    LET victims == {r \in Requests : home[r] = p /\ pc[r] \notin Ended}
    IN  /\ crashes < MaxCrashes
        /\ victims # {}
        /\ pc' = [r \in Requests |-> IF r \in victims THEN "lost" ELSE pc[r]]
        /\ active' = [active EXCEPT ![p] = None]
        /\ clientHolder' = IF clientHolder \in victims THEN None ELSE clientHolder
        /\ crashes' = crashes + 1
        /\ UNCHANGED <<request, brokerReady, feed, requestVars, home, caller, reply, placed, dbVars>>

-----------------------------------------------------------------------------
\* What the handler of r does when it runs.
Step(r) ==
    /\ Running(r)
    /\ \/ RecordReceived(r)
       \/ TakePaperSnapshot(r)
       \/ ConnectForSnapshot(r)
       \/ ReadAccount(r)
       \/ FinishSnapshot(r)
       \/ EvaluateStrategy(r)
       \/ StrategyUnavailable(r)
       \/ RecordStrategyRun(r)
       \/ RecordStrategyEvaluated(r)
       \/ ValidateTrade(r)
       \/ RecordRiskApproved(r)
       \/ ExecuteOrder(r)
       \/ PlaceOrder(r)
       \/ ConfirmOrder(r)
       \/ BrokerCallRaises(r)
       \/ RecordTradeOrder(r)
       \/ SelectPosition(r)
       \/ SelectPositionFails(r)
       \/ CommitPosition(r)
       \/ RecordExecuted(r)
       \/ RecordFailed(r)

\* A broker call of r ends, one way or the other.
BrokerReturns(r) ==
    \/ GatewayAccepts(r)
    \/ BrokerCallCompletes(r)
    \/ BrokerCallFails(r)

\* Every client has had its answer; the server goes on waiting for more.
AllServed == (\A r \in Requests : pc[r] \in Ended) /\ UNCHANGED vars

Next ==
    \/ \E r \in Requests : Step(r) \/ BrokerReturns(r)
    \/ \E p \in Procs : Crash(p) \/ \E r \in Requests : Arrive(p, r)
    \/ AllServed

\* The handler keeps running, and a broker call ends.  Clients need not come.
Fairness ==
    \A r \in Requests : WF_vars(Step(r)) /\ WF_vars(BrokerReturns(r))

Spec == Init /\ [][Next]_vars /\ Fairness
-----------------------------------------------------------------------------
(* Properties.                                                             *)

\* Every variable stays in its range: a request never leaves the steps of
\* process_signal, and no row holds a value its column cannot mean.
TypeOK ==
    /\ request \in [Requests -> Request]
    /\ brokerReady \in BOOLEAN
    /\ feed \in {"alpaca", "synthetic"}
    /\ pc \in [Requests -> Labels]
    /\ snapshot \in [Requests -> Snapshot \cup {None}]
    /\ decision \in [Requests -> Decision \cup {None}]
    /\ result \in [Requests -> {"none", "skipped", "simulated", "submitted"}]
    /\ loaded \in [Requests -> Position \cup {None}]
    /\ session \in [Requests -> {"clean", "poisoned"}]
    /\ home \in [Requests -> Procs \cup {None}]
    /\ caller \in [Requests -> Requests \cup {None}]
    /\ active \in [Procs -> Requests \cup {None}]
    /\ reply \in [Requests -> {"none", "ok", "error"}]
    /\ clientHolder \in Requests \cup {None}
    /\ placed \in [Requests -> Nat]
    /\ audit \in [Requests -> Seq(Statuses)]
    /\ runs \subseteq Requests
    /\ orders \in [Requests -> Order \cup {None}]
    /\ positions \in [Symbols -> Position \cup {None}]
    /\ dbFaults \in 0..MaxDbFaults
    /\ crashes \in 0..MaxCrashes

\* The gateway's one client id is held only by a request inside a broker call:
\* however the call ends, the request has let go of it before it does anything
\* else.  A leaked connection would refuse every later live trade.
ClientIdHeldOnlyInsideCall ==
    \A r \in Requests : clientHolder = r => pc[r] \in BrokerCalls

\* An order at the broker was asked for live, sent once, and kept within both
\* limits for the account value that was read from the gateway - including an
\* account worth nothing or less, which validate_trade's capital check lets pass.
LiveOrdersWithinRisk ==
    \A r \in Requests : placed[r] > 0 =>
        /\ placed[r] = 1
        /\ ~request[r].dry_run
        /\ decision[r].action # "HOLD"
        /\ WithinLimits(request[r].quantity, decision[r].price, snapshot[r].net)

\* Nothing is ordered, and no order row says anything, but what the bars of the
\* request show: a BUY when its short window stands above the bars before it, a
\* SELL when below, nothing in a flat market, at the price of the last bar.
OrdersFollowTheMarket ==
    \A r \in Requests : placed[r] > 0 \/ orders[r] # None =>
        LET edge == Edge(decision[r].closes, request[r].windows)
        IN  /\ edge # 0
            /\ decision[r].action = IF edge > 0 THEN "BUY" ELSE "SELL"
            /\ orders[r] # None => orders[r].action = decision[r].action
            /\ decision[r].price = Last(decision[r].closes)

\* The audit trail of a request is its milestones in order, FAILED at most once
\* and last: whatever writes are lost, no milestone is missing below another.
TrailHasNoGaps ==
    \A r \in Requests :
        \/ IsPrefix(audit[r], Milestones)
        \/ /\ audit[r] # <<>>
           /\ Last(audit[r]) = "FAILED"
           /\ IsStrictPrefix(Front(audit[r]), Milestones)

\* A trail that ends in FAILED without RISK_APPROVED proves that no order was
\* sent: an operator need not look for one at the broker.
FailedBeforeApprovalMeansNoOrder ==
    \A r \in Requests :
        "FAILED" \in ToSet(audit[r]) /\ "RISK_APPROVED" \notin ToSet(audit[r])
            => placed[r] = 0

\* Each milestone stands on the row it speaks of - STRATEGY_EVALUATED on the
\* strategy run, EXECUTED on the order - and each position on an order, although
\* every write may fail and every failure is swallowed.
EvidenceBehindMilestones ==
    /\ \A r \in Requests :
           /\ "STRATEGY_EVALUATED" \in ToSet(audit[r]) => r \in runs
           /\ "EXECUTED" \in ToSet(audit[r]) => orders[r] # None
    /\ \A s \in Symbols : positions[s] # None =>
           \E r \in Requests : request[r].symbol = s /\ orders[r] # None

\* An order row says SUBMITTED exactly when an order was handed to the broker.
\* execution_service's "skipped" would be stored as SUBMITTED; the risk rule
\* keeps a HOLD from getting that far.
OrderRowsAgreeWithBroker ==
    \A r \in Requests : orders[r] # None =>
        (orders[r].status = "SUBMITTED" <=> placed[r] = 1)

\* With one API process, a position row is the record of one whole trade: the
\* SELECT and the write of an upsert are never interleaved with another's.
PositionRowIsOneTrade ==
    \A s \in Symbols : positions[s] # None =>
        \E r \in Requests :
            /\ request[r].symbol = s
            /\ decision[r] # None
            /\ positions[s] = PositionRecord(r)

\* With several, a row may mix columns of several trades, but each column is
\* that of some trade of the symbol whose order row was written.
PositionColumnsComeFromTrades ==
    \A s \in Symbols : positions[s] # None =>
        LET trades == {PositionRecord(r) : r \in {q \in Requests :
                           request[q].symbol = s /\ orders[q] # None}}
        IN  \A column \in DOMAIN positions[s] :
                \E t \in trades : t[column] = positions[s][column]

\* A request that has reached its handler gets an answer, or its process dies:
\* requests stacked inside each other's broker calls do not wait for each other.
EveryRequestEnds ==
    \A r \in Requests : (pc[r] = "received") ~> (pc[r] \in Ended)

\* The stage of a request as TradeLifecycle sees it.
StageOf(label) ==
    CASE label = "idle" -> "new"
      [] label \in {"received", "snapshot", "pf_connecting", "pf_summary", "bars",
                    "record_run", "audit_strategy", "validate"} -> "open"
      [] label \in {"audit_risk", "execute", "ex_connecting", "ex_sleeping"} -> "approved"
      [] label \in {"record_order", "select_position", "commit_position",
                    "audit_executed"} -> "settled"
      [] label = "audit_failed" -> "rejected"
      [] label = "done" -> "finished"
      [] label = "failed" -> "closed"
      [] label = "lost" -> "lost"

Lifecycle == INSTANCE TradeLifecycle WITH
    live      <- {r \in Requests : ~request[r].dry_run},
    stage     <- [r \in Requests |-> StageOf(pc[r])],
    market    <- placed,
    trail     <- audit,
    recording <- {r \in Requests : session[r] = "clean"}

\* process_signal keeps the promise of TradeLifecycle.
ImplementsLifecycle == Lifecycle!Spec
=============================================================================
