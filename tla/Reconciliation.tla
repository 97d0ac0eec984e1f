--------------------------- MODULE Reconciliation ---------------------------
(***************************************************************************)
(* ReconciliationService.reconcile_positions, reached in three ways: an     *)
(* operator's POST /reconciliation/run, a task an operator queues, and the  *)
(* task Celery beat queues.  A run reads the positions at the broker, then  *)
(* the positions table, compares them and stores one row.                   *)
(*                                                                         *)
(* Trades go on while it reads.  They are those of process_signal (Trading  *)
(* has them in full), reduced to the two effects a run can see: the fill at *)
(* the broker and, later or never, the row of the positions table.          *)
(***************************************************************************)
EXTENDS Integers, Sequences, SequencesExt

CONSTANTS
    Runs,         \* reconciliations asked for, each once
    Workers,      \* child processes of the Celery worker
    Symbols,
    Quantities,   \* positive integers
    Prices,       \* positive, in whole units: prices that differ do so by over a cent
    None,         \* the value of "nothing here"
    EntriesPriced, \* whether an entry of ib.positions() has the fields the code
                   \* reads off it: TRUE is what the service takes it for, FALSE
                   \* is ib_insync's (account, contract, position, avgCost)
    GatewayFails, \* whether the gateway may refuse a client id or drop a connection
    MaxTrades,    \* bound: trades that go on meanwhile
    MaxDbFaults,  \* bound: database calls that fail on their own
    MaxCrashes    \* bound: processes that die

ASSUME NumbersAssumption ==
    /\ Quantities \subseteq Nat \ {0}
    /\ Prices \subseteq Nat \ {0}
    /\ EntriesPriced \in SUBSET BOOLEAN \ {{}}
    /\ GatewayFails \in BOOLEAN
    /\ MaxTrades \in Nat
    /\ MaxDbFaults \in Nat
    /\ MaxCrashes \in Nat

Sides == {"LONG", "SHORT"}
Statuses == {"MATCHED", "MISMATCHED", "FAILED"}
Sources == {"paper", "ibkr"}

\* How a run is asked for: POST /run, POST /run/background, or the beat schedule.
Origins == {"route", "background", "beat"}
Asked == [origin: Origins, live: BOOLEAN]

Trade == [symbol: Symbols, side: Sides, quantity: Quantities, price: Prices]

BookRow == [side: Sides, quantity: Quantities, price: Prices]
BrokerPosition == [quantity: Int \ {0}, cost: Prices]
RunRow == [status: Statuses, source: Sources,
           checked: SUBSET Symbols, mismatched: SUBSET Symbols]

ASSUME NoneIsNothing == None \notin Runs \cup BookRow \cup BrokerPosition \cup RunRow

Labels == {"idle", "queued", "snapshot", "positions", "record_result", "record_failed",
           "done", "raised", "lost"}

VARIABLES
    asked,      \* how each run is asked for; no step changes it
    pc,         \* where each run is
    snapshot,   \* portfolio_snapshot.positions, by symbol
    verdict,    \* the record of the run, None before the comparison
    session,    \* the run's SQLAlchemy session: "clean" or "poisoned"
    rows,       \* the rows of reconciliation_runs each run has inserted
    queue,      \* the Celery queue
    task,       \* what each worker child executes
    broker,     \* the positions at the broker
    book,       \* the positions table
    unbooked,   \* fills at the broker that the book does not have yet
    trades, dbFaults, crashes

readVars  == <<snapshot, verdict>>
taskVars  == <<queue, task>>
dbVars    == <<session, rows, dbFaults>>
tradeVars == <<broker, book, unbooked, trades>>
vars == <<asked, pc, readVars, taskVars, dbVars, tradeVars, crashes>>

NoPositions == [s \in Symbols |-> None]

Init ==
    /\ asked \in [Runs -> {a \in Asked : a.origin = "beat" => ~a.live}]
    /\ pc = [r \in Runs |-> "idle"]
    /\ snapshot = [r \in Runs |-> NoPositions]
    /\ verdict = [r \in Runs |-> None]
    /\ session = [r \in Runs |-> "clean"]
    /\ rows = [r \in Runs |-> <<>>]
    /\ queue = <<>>
    /\ task = [w \in Workers |-> None]
    /\ broker = NoPositions
    /\ book = NoPositions
    /\ unbooked = {}
    /\ trades = 0
    /\ dbFaults = 0
    /\ crashes = 0

Goto(r, label) == pc' = [pc EXCEPT ![r] = label]

-----------------------------------------------------------------------------
(* Trades, as far as a run can see them.                                   *)

\* Mutant: the row's quantity carries the sign of the side.
BookRowSigned(t) ==
    [side |-> t.side, quantity |-> IF t.side = "LONG" THEN t.quantity ELSE -t.quantity,
     price |-> t.price]

\* process_signal's upsert: the row becomes this trade.
BookRowOf(t) == [side |-> t.side, quantity |-> t.quantity, price |-> t.price]

\* The position at the broker after a fill.  The average cost is the gateway's;
\* it lies between the old cost and the fill's price.
Filled(position, t) ==
    LET change == IF t.side = "LONG" THEN t.quantity ELSE -t.quantity
        held   == IF position = None THEN 0 ELSE position.quantity
        costs  == IF position = None THEN {t.price} ELSE {position.cost, t.price}
    IN  IF held + change = 0
        THEN {None}
        ELSE {[quantity |-> held + change, cost |-> c] : c \in costs}

\* A live order of process_signal is filled.
Fill(t) ==
    /\ trades < MaxTrades
    /\ trades' = trades + 1
    /\ \E p \in Filled(broker[t.symbol], t) : broker' = [broker EXCEPT ![t.symbol] = p]
    /\ unbooked' = unbooked \cup {t}
    /\ UNCHANGED <<asked, pc, readVars, taskVars, dbVars, book, crashes>>

\* Its row of the positions table.
BookFill(t) ==
    /\ t \in unbooked
    /\ book' = [book EXCEPT ![t.symbol] = BookRowOf(t)]
    /\ unbooked' = unbooked \ {t}
    /\ UNCHANGED <<asked, pc, readVars, taskVars, dbVars, broker, trades, crashes>>

\* process_signal never gets to its upsert, or swallows the upsert's exception.
BookingLost(t) ==
    /\ t \in unbooked
    /\ unbooked' = unbooked \ {t}
    /\ UNCHANGED <<asked, pc, readVars, taskVars, dbVars, broker, book, trades, crashes>>

\* A dry run writes the same row without a fill.
BookDryRun(t) ==
    /\ trades < MaxTrades
    /\ trades' = trades + 1
    /\ book' = [book EXCEPT ![t.symbol] = BookRowOf(t)]
    /\ UNCHANGED <<asked, pc, readVars, taskVars, dbVars, broker, unbooked, crashes>>

-----------------------------------------------------------------------------
(* Asking for a run.                                                       *)

StartRoute(r) ==
    /\ pc[r] = "idle"
    /\ asked[r].origin = "route"
    /\ Goto(r, "snapshot")
    /\ UNCHANGED <<asked, readVars, taskVars, dbVars, tradeVars, crashes>>

\* reconcile_positions_task.delay, by an operator or by beat.  Beat does not
\* ask whether the last task has run.
Enqueue(r) ==
    /\ pc[r] = "idle"
    /\ asked[r].origin # "route"
    /\ queue' = Append(queue, r)
    /\ Goto(r, "queued")
    /\ UNCHANGED <<asked, readVars, task, dbVars, tradeVars, crashes>>

\* Celery acknowledges a task as a child starts it.
TakeTask(w) ==
    /\ task[w] = None
    /\ queue # <<>>
    /\ task' = [task EXCEPT ![w] = Head(queue)]
    /\ queue' = Tail(queue)
    /\ Goto(Head(queue), "snapshot")
    /\ UNCHANGED <<asked, readVars, dbVars, tradeVars, crashes>>

\* reconcile_positions of r returns or raises; its locals are gone and a child
\* is free for the next task.
End(r, label) ==
    /\ Goto(r, label)
    /\ snapshot' = [snapshot EXCEPT ![r] = NoPositions]
    /\ task' = [w \in Workers |-> IF task[w] = r THEN None ELSE task[w]]

-----------------------------------------------------------------------------
(* reconcile_positions.                                                    *)

\* Mutant: the session is rolled back before each write.
CommitOutcomesAfterRollback(r) ==
    {"committed"} \cup {o \in {"rolled_back", "unconfirmed"} : dbFaults < MaxDbFaults}

\* As in Trading: nothing rolls the session back, and a commit that fails may
\* have happened.
CommitOutcomes(r) ==
    IF session[r] = "poisoned"
    THEN {"refused"}
    ELSE {"committed"} \cup
         {o \in {"rolled_back", "unconfirmed"} : dbFaults < MaxDbFaults}

\* create_reconciliation_run: add one row and commit.
CreateRun(r, row, outcome) ==
    /\ rows' = IF outcome \in {"committed", "unconfirmed"}
               THEN [rows EXCEPT ![r] = Append(@, row)] ELSE rows
    /\ session' = [session EXCEPT ![r] = IF outcome = "committed" THEN @ ELSE "poisoned"]
    /\ dbFaults' = IF outcome \in {"rolled_back", "unconfirmed"} THEN dbFaults + 1 ELSE dbFaults

TakePaperSnapshot(r) ==
    /\ pc[r] = "snapshot"
    /\ ~asked[r].live
    /\ snapshot' = [snapshot EXCEPT ![r] = NoPositions]
    /\ Goto(r, "positions")
    /\ UNCHANGED <<asked, verdict, taskVars, dbVars, tradeVars, crashes>>

\* The blocking ib_insync calls need the event loop main.py has patched.
TakeLiveSnapshot(r) ==
    /\ pc[r] = "snapshot"
    /\ asked[r].live
    /\ asked[r].origin = "route"
    /\ TRUE \in EntriesPriced \/ broker = NoPositions
    /\ snapshot' = [snapshot EXCEPT ![r] = broker]
    /\ Goto(r, "positions")
    /\ UNCHANGED <<asked, verdict, taskVars, dbVars, tradeVars, crashes>>

\* A task runs on the plain loop of asyncio.run, on which the blocking calls
\* raise; and an entry without marketPrice raises as the snapshot is built, so
\* that with these entries only an account that holds nothing is ever read.
LiveSnapshotRaises(r) ==
    /\ pc[r] = "snapshot"
    /\ asked[r].live
    /\ asked[r].origin # "route" \/ (FALSE \in EntriesPriced /\ broker # NoPositions)
    /\ Goto(r, "record_failed")
    /\ UNCHANGED <<asked, readVars, taskVars, dbVars, tradeVars, crashes>>

\* No broker configured, the client id taken, a connection dropped.
LiveSnapshotFails(r) ==
    /\ pc[r] = "snapshot"
    /\ asked[r].live
    /\ GatewayFails
    /\ Goto(r, "record_failed")
    /\ UNCHANGED <<asked, readVars, taskVars, dbVars, tradeVars, crashes>>

\* The figures _compare_positions compares: no sign on the book's side.
InternalQuantity(row) == IF row = None THEN 0 ELSE row.quantity
InternalPrice(row) == IF row = None THEN 0 ELSE row.price
BrokerQuantity(position) == IF position = None THEN 0 ELSE position.quantity
BrokerCost(position) == IF position = None THEN 0 ELSE position.cost

Matched(row, position) ==
    /\ InternalQuantity(row) = BrokerQuantity(position)
    /\ InternalPrice(row) = BrokerCost(position)

\* Mutant: the size of the broker's position is compared, whatever its sign.
MatchedInSize(row, position) ==
    /\ InternalQuantity(row) \in {BrokerQuantity(position), -BrokerQuantity(position)}
    /\ InternalPrice(row) = BrokerCost(position)

\* Mutant: only the symbols of the book are looked at.
CompareBookOnly(source, ours, theirs) ==
    LET symbols    == {s \in Symbols : ours[s] # None}
        mismatched == {s \in symbols : ~Matched(ours[s], theirs[s])}
    IN  [status |-> IF mismatched = {} THEN "MATCHED" ELSE "MISMATCHED",
         source |-> source, checked |-> symbols, mismatched |-> mismatched]

\* Mutant: a short position at the broker counts as matched by its size.
CompareInSize(source, ours, theirs) ==
    LET symbols    == {s \in Symbols : ours[s] # None \/ theirs[s] # None}
        mismatched == {s \in symbols : ~MatchedInSize(ours[s], theirs[s])}
    IN  [status |-> IF mismatched = {} THEN "MATCHED" ELSE "MISMATCHED",
         source |-> source, checked |-> symbols, mismatched |-> mismatched]

\* _compare_positions over the symbols either side knows, and the record of it.
Compare(source, ours, theirs) ==
    LET symbols    == {s \in Symbols : ours[s] # None \/ theirs[s] # None}
        mismatched == {s \in symbols : ~Matched(ours[s], theirs[s])}
    IN  [status |-> IF mismatched = {} THEN "MATCHED" ELSE "MISMATCHED",
         source |-> source, checked |-> symbols, mismatched |-> mismatched]

SourceOf(r) == IF asked[r].live THEN "ibkr" ELSE "paper"

\* list_positions and the comparison.
ReadPositions(r) ==
    /\ pc[r] = "positions"
    /\ verdict' = [verdict EXCEPT ![r] = Compare(SourceOf(r), book, snapshot[r])]
    /\ Goto(r, "record_result")
    /\ UNCHANGED <<asked, snapshot, taskVars, dbVars, tradeVars, crashes>>

\* The SELECT raises, and leaves the session usable (SQLite) or not.
ReadPositionsFails(r) ==
    /\ pc[r] = "positions"
    /\ dbFaults < MaxDbFaults
    /\ dbFaults' = dbFaults + 1
    /\ \E s \in {"clean", "poisoned"} : session' = [session EXCEPT ![r] = s]
    /\ Goto(r, "record_failed")
    /\ UNCHANGED <<asked, readVars, taskVars, rows, tradeVars, crashes>>

\* Mutant: the write swallows its exception, as those of process_signal do.
RecordResultSwallowing(r) ==
    /\ pc[r] = "record_result"
    /\ \E o \in CommitOutcomes(r) : CreateRun(r, verdict[r], o)
    /\ End(r, "done")
    /\ UNCHANGED <<asked, verdict, queue, tradeVars, crashes>>

\* Store the result and answer with it; a commit that raises is a failed run.
RecordResult(r) ==
    /\ pc[r] = "record_result"
    /\ \E o \in CommitOutcomes(r) :
           /\ CreateRun(r, verdict[r], o)
           /\ IF o = "committed"
              THEN End(r, "done")
              ELSE Goto(r, "record_failed") /\ UNCHANGED <<snapshot, task>>
    /\ UNCHANGED <<asked, verdict, queue, tradeVars, crashes>>

FailedRow(r) ==
    [status |-> "FAILED", source |-> SourceOf(r), checked |-> {}, mismatched |-> {}]

\* Mutant: a failed task goes back to the queue instead.
RecordFailedRequeueing(r) ==
    /\ pc[r] = "record_failed"
    /\ IF asked[r].origin = "route"
       THEN End(r, "raised") /\ queue' = queue
       ELSE End(r, "queued") /\ queue' = Append(queue, r)
    /\ UNCHANGED <<asked, verdict, dbVars, tradeVars, crashes>>

\* Mutant: the exception leaves without a FAILED row.
RecordFailedNot(r) ==
    /\ pc[r] = "record_failed"
    /\ End(r, "raised")
    /\ UNCHANGED <<asked, verdict, queue, dbVars, tradeVars, crashes>>

\* The except block: one more row on the same session, then the exception - its
\* own if that write raises - reaches the caller.
RecordFailed(r) ==
    /\ pc[r] = "record_failed"
    /\ \E o \in CommitOutcomes(r) : CreateRun(r, FailedRow(r), o)
    /\ End(r, "raised")
    /\ UNCHANGED <<asked, verdict, queue, tradeVars, crashes>>

-----------------------------------------------------------------------------
Running == {"snapshot", "positions", "record_result", "record_failed"}
Ended == {"done", "raised", "lost"}

\* The API process or the worker child that runs r dies.  The task it had
\* acknowledged is gone; another child takes its place.
Crash(r) ==
    /\ crashes < MaxCrashes
    /\ pc[r] \in Running
    /\ crashes' = crashes + 1
    /\ End(r, "lost")
    /\ UNCHANGED <<asked, verdict, queue, dbVars, tradeVars>>

Step(r) ==
    \/ TakePaperSnapshot(r)
    \/ TakeLiveSnapshot(r)
    \/ LiveSnapshotRaises(r)
    \/ LiveSnapshotFails(r)
    \/ ReadPositions(r)
    \/ ReadPositionsFails(r)
    \/ RecordResult(r)
    \/ RecordFailed(r)

\* All runs are over; the system waits for more.
AllOver == (\A r \in Runs : pc[r] \in Ended) /\ UNCHANGED vars

Next ==
    \/ \E r \in Runs : StartRoute(r) \/ Enqueue(r) \/ Step(r) \/ Crash(r)
    \/ \E w \in Workers : TakeTask(w)
    \/ \E t \in Trade : Fill(t) \/ BookFill(t) \/ BookingLost(t) \/ BookDryRun(t)
    \/ AllOver

\* A run that has begun goes on, and a free child takes the next task.
Fairness ==
    /\ \A r \in Runs : WF_vars(Step(r))
    /\ \A w \in Workers : WF_vars(TakeTask(w))

Spec == Init /\ [][Next]_vars /\ Fairness
-----------------------------------------------------------------------------
(* Properties.                                                             *)

\* Every variable stays in its range; in particular no run has a position, a
\* verdict or a row of a shape the service cannot build.
TypeOK ==
    /\ asked \in [Runs -> Asked]
    /\ pc \in [Runs -> Labels]
    /\ snapshot \in [Runs -> [Symbols -> BrokerPosition \cup {None}]]
    /\ verdict \in [Runs -> RunRow \cup {None}]
    /\ session \in [Runs -> {"clean", "poisoned"}]
    /\ rows \in [Runs -> Seq(RunRow)]
    /\ queue \in Seq(Runs)
    /\ task \in [Workers -> Runs \cup {None}]
    /\ broker \in [Symbols -> BrokerPosition \cup {None}]
    /\ book \in [Symbols -> BookRow \cup {None}]
    /\ unbooked \subseteq Trade
    /\ trades \in 0..MaxTrades
    /\ dbFaults \in 0..MaxDbFaults
    /\ crashes \in 0..MaxCrashes

\* A run leaves at most one row.  When the commit of its result raises although
\* it happened, the except block tries a second row, FAILED, for the same run;
\* only the unusable session keeps the two from contradicting each other.
AtMostOneRow == \A r \in Runs : Len(rows[r]) <= 1

\* A caller who is answered finds exactly that answer in the history, and a row
\* that says FAILED was never answered with a verdict.
AnswerIsOnRecord ==
    \A r \in Runs :
        /\ pc[r] = "done" => rows[r] = <<verdict[r]>>
        /\ FailedRow(r) \in ToSet(rows[r]) => pc[r] = "raised"

\* A run that ended with no row met a crash or a failing database: trouble with
\* the broker always leaves a FAILED row behind.
OnlyDatabaseOrCrashHidesARun ==
    \A r \in Runs : pc[r] \in {"done", "raised"} /\ dbFaults = 0 => rows[r] # <<>>

\* A live MATCHED run saw no short position: the book's quantities carry no
\* sign, so a short at the broker cannot match, however the book records it.
MatchedMeansNoShorts ==
    \A r \in Runs : verdict[r] # None =>
        (verdict[r].status = "MATCHED" =>
            \A s \in Symbols : snapshot[r][s] # None => snapshot[r][s].quantity > 0)

\* If the broker has not moved between the snapshot and the reading of the book,
\* the verdict tells of the two as they are: MATCHED exactly when every symbol,
\* traded or not, has the same quantity and the same price on both sides.
QuietRunTellsTheTruth ==
    [][\A r \in Runs :
          verdict'[r] # verdict[r] /\ asked[r].live /\ snapshot[r] = broker =>
              (verdict'[r].status = "MATCHED" <=>
                  \A s \in Symbols :
                      \/ book[s] = None /\ broker[s] = None
                      \/ /\ book[s] # None /\ broker[s] # None
                         /\ book[s].quantity = broker[s].quantity
                         /\ book[s].price = broker[s].cost)]_vars

\* Every task in the queue is executed to an end, or dies with its worker: a
\* failing run frees its worker and does not come back.
EveryTaskEnds == \A r \in Runs : pc[r] = "queued" ~> pc[r] \in Ended
=============================================================================
