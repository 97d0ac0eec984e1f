------------------------ MODULE ReconciliationProofs ------------------------
(* What is proved of Reconciliation for every set of runs, workers, symbols, *)
(* quantities and prices, and any number of trades, faults and crashes.      *)
EXTENDS Reconciliation, SequenceTheorems, TLAPS

USE DEF readVars, taskVars, dbVars, tradeVars, vars

\* A task waits in the queue once, and its run has not begun.
QueueHoldsWaiting ==
    /\ \A i \in 1..Len(queue) : pc[queue[i]] = "queued"
    /\ \A i, j \in 1..Len(queue) : queue[i] = queue[j] => i = j

Unread == {"idle", "queued", "snapshot", "positions"}

\* Where run r is, against its verdict and its rows.
RunInv(r) ==
    /\ pc[r] \in Unread => verdict[r] = None
    /\ pc[r] = "record_result" => verdict[r] \in RunRow /\ verdict[r].status # "FAILED"
    /\ pc[r] \in Unread \cup {"record_result"} => rows[r] = <<>>
    /\ pc[r] = "record_failed" => rows[r] = <<>> \/ session[r] = "poisoned"
    /\ pc[r] = "done" => rows[r] = <<verdict[r]>>
    /\ rows[r] = <<>> \/ \E row \in RunRow :
           rows[r] = <<row>> /\ (row.status = "FAILED" => pc[r] = "raised")

\* What a MATCHED verdict of run r says of the snapshot it was made from.
NoShorts(r) ==
    verdict[r] # None =>
        (verdict[r].status = "MATCHED" =>
            \A s \in Symbols : snapshot[r][s] # None => snapshot[r][s].quantity > 0)

Inv ==
    /\ TypeOK
    /\ QueueHoldsWaiting
    /\ \A r \in Runs : RunInv(r) /\ NoShorts(r)

-----------------------------------------------------------------------------
(* The comparison.                                                         *)

LEMMA QuantitiesAreNaturals == ASSUME NEW q \in Quantities PROVE q \in Nat /\ q \in Int
  BY NumbersAssumption

LEMMA CompareGivesRow ==
    ASSUME NEW source \in Sources, NEW ours, NEW theirs
    PROVE  /\ Compare(source, ours, theirs) \in RunRow
           /\ Compare(source, ours, theirs).status # "FAILED"
  BY DEF Compare, RunRow, Statuses

\* A short position never matches: the book's figure is never below zero.
LEMMA ShortsDoNotMatch ==
    ASSUME NEW source, NEW ours \in [Symbols -> BookRow \cup {None}],
           NEW theirs \in [Symbols -> BrokerPosition \cup {None}],
           Compare(source, ours, theirs).status = "MATCHED",
           NEW s \in Symbols, theirs[s] # None
    PROVE  theirs[s].quantity > 0
  <1>1. Matched(ours[s], theirs[s])
    BY DEF Compare
  <1>2. InternalQuantity(ours[s]) = theirs[s].quantity
    BY <1>1 DEF Matched, BrokerQuantity
  <1>3. InternalQuantity(ours[s]) \in Nat
    <2>1. ours[s] # None => ours[s].quantity \in Quantities
      BY DEF BookRow
    <2> QED BY <2>1, QuantitiesAreNaturals DEF InternalQuantity
  <1>4. theirs[s].quantity # 0
    BY DEF BrokerPosition
  <1> QED BY <1>2, <1>3, <1>4

-----------------------------------------------------------------------------
(* Types.                                                                  *)

LEMMA FailedRowIsRow == ASSUME NEW r PROVE FailedRow(r) \in RunRow /\ FailedRow(r).status = "FAILED"
  BY DEF FailedRow, RunRow, Statuses, SourceOf, Sources

LEMMA CreateRunType ==
    ASSUME TypeOK, NEW r \in Runs, NEW row \in RunRow,
           NEW o \in CommitOutcomes(r), CreateRun(r, row, o)
    PROVE  /\ rows' \in [Runs -> Seq(RunRow)]
           /\ session' \in [Runs -> {"clean", "poisoned"}]
           /\ dbFaults' \in 0..MaxDbFaults
  <1>1. Append(rows[r], row) \in Seq(RunRow)
    BY AppendProperties DEF TypeOK
  <1> QED
    BY <1>1, NumbersAssumption DEF TypeOK, CreateRun, CommitOutcomes

LEMMA EndType ==
    ASSUME TypeOK, NEW r \in Runs, NEW label \in Labels, End(r, label)
    PROVE  /\ pc' \in [Runs -> Labels]
           /\ snapshot' \in [Runs -> [Symbols -> BrokerPosition \cup {None}]]
           /\ task' \in [Workers -> Runs \cup {None}]
  BY DEF TypeOK, End, Goto, NoPositions

LEMMA FilledType ==
    ASSUME NEW position \in BrokerPosition \cup {None}, NEW t \in Trade,
           NEW p \in Filled(position, t)
    PROVE  p \in BrokerPosition \cup {None}
  <1>1. t.quantity \in Int /\ t.price \in Prices
    BY QuantitiesAreNaturals DEF Trade
  <1>2. (IF position = None THEN 0 ELSE position.quantity) \in Int
    BY DEF BrokerPosition
  <1>3. position # None => position.cost \in Prices
    BY DEF BrokerPosition
  <1> DEFINE held   == IF position = None THEN 0 ELSE position.quantity
             change == IF t.side = "LONG" THEN t.quantity ELSE -t.quantity
             costs  == IF position = None THEN {t.price} ELSE {position.cost, t.price}
  <1>4. held + change \in Int /\ costs \subseteq Prices
    BY <1>1, <1>2, <1>3
  <1>5. p \in IF held + change = 0 THEN {None}
              ELSE {[quantity |-> held + change, cost |-> c] : c \in costs}
    BY DEF Filled
  <1> HIDE DEF held, change, costs
  <1> QED BY <1>4, <1>5 DEF BrokerPosition


-----------------------------------------------------------------------------
(* Steps of a run: what they keep of TypeOK.                               *)

LEMMA StepTypeOK ==
    ASSUME Inv, NEW r \in Runs, Step(r)
    PROVE  TypeOK'
  <1> USE DEF TypeOK, Goto, Labels
  <1>0. TypeOK /\ RunInv(r)
    BY DEF Inv
  <1>1. CASE TakePaperSnapshot(r)
    BY <1>0, <1>1 DEF TakePaperSnapshot, NoPositions
  <1>2. CASE TakeLiveSnapshot(r)
    BY <1>0, <1>2 DEF TakeLiveSnapshot
  <1>3. CASE LiveSnapshotRaises(r) \/ LiveSnapshotFails(r)
    BY <1>0, <1>3 DEF LiveSnapshotRaises, LiveSnapshotFails
  <1>4. CASE ReadPositions(r)
    <2>1. SourceOf(r) \in Sources
      BY DEF SourceOf, Sources
    <2>2. Compare(SourceOf(r), book, snapshot[r]) \in RunRow
      BY <2>1, CompareGivesRow
    <2> QED BY <1>0, <1>4, <2>2 DEF ReadPositions
  <1>5. CASE ReadPositionsFails(r)
    <2>1. dbFaults' \in 0..MaxDbFaults
      BY <1>0, <1>5, NumbersAssumption DEF ReadPositionsFails
    <2>2. PICK s \in {"clean", "poisoned"} : session' = [session EXCEPT ![r] = s]
      BY <1>5 DEF ReadPositionsFails
    <2> QED BY <1>0, <1>5, <2>1, <2>2 DEF ReadPositionsFails
  <1>6. CASE RecordResult(r)
    <2>1. PICK o \in CommitOutcomes(r) :
              /\ CreateRun(r, verdict[r], o)
              /\ IF o = "committed"
                 THEN End(r, "done")
                 ELSE Goto(r, "record_failed") /\ UNCHANGED <<snapshot, task>>
      BY <1>6 DEF RecordResult
    <2>2. verdict[r] \in RunRow
      BY <1>0, <1>6 DEF RecordResult, RunInv
    <2>3. /\ rows' \in [Runs -> Seq(RunRow)]
          /\ session' \in [Runs -> {"clean", "poisoned"}]
          /\ dbFaults' \in 0..MaxDbFaults
      BY <1>0, <2>1, <2>2, CreateRunType
    <2>4. /\ pc' \in [Runs -> Labels]
          /\ snapshot' \in [Runs -> [Symbols -> BrokerPosition \cup {None}]]
          /\ task' \in [Workers -> Runs \cup {None}]
      BY <1>0, <2>1, EndType
    <2> QED BY <1>0, <1>6, <2>3, <2>4 DEF RecordResult
  <1>7. CASE RecordFailed(r)
    <2>1. PICK o \in CommitOutcomes(r) : CreateRun(r, FailedRow(r), o)
      BY <1>7 DEF RecordFailed
    <2>2. /\ rows' \in [Runs -> Seq(RunRow)]
          /\ session' \in [Runs -> {"clean", "poisoned"}]
          /\ dbFaults' \in 0..MaxDbFaults
      BY <1>0, <2>1, FailedRowIsRow, CreateRunType
    <2>3. End(r, "raised")
      BY <1>7 DEF RecordFailed
    <2>4. /\ pc' \in [Runs -> Labels]
          /\ snapshot' \in [Runs -> [Symbols -> BrokerPosition \cup {None}]]
          /\ task' \in [Workers -> Runs \cup {None}]
      BY <1>0, <2>3, EndType
    <2> QED BY <1>0, <1>7, <2>2, <2>4 DEF RecordFailed
  <1> QED
    BY <1>1, <1>2, <1>3, <1>4, <1>5, <1>6, <1>7 DEF Step

\* Trades, and runs that begin or die.
LEMMA TradeTypeOK ==
    ASSUME TypeOK, NEW t \in Trade, Fill(t) \/ BookFill(t) \/ BookingLost(t) \/ BookDryRun(t)
    PROVE  TypeOK'
  <1> USE DEF TypeOK
  <1>1. t.symbol \in Symbols /\ BookRowOf(t) \in BookRow
    BY DEF Trade, BookRowOf, BookRow
  <1>2. CASE Fill(t)
    <2>1. PICK p \in Filled(broker[t.symbol], t) : broker' = [broker EXCEPT ![t.symbol] = p]
      BY <1>2 DEF Fill
    <2>2. p \in BrokerPosition \cup {None}
      BY <1>1, <2>1, FilledType
    <2>3. trades' \in 0..MaxTrades
      BY <1>2, NumbersAssumption DEF Fill
    <2> QED BY <1>1, <1>2, <2>1, <2>2, <2>3 DEF Fill
  <1>3. CASE BookFill(t)
    BY <1>1, <1>3 DEF BookFill
  <1>4. CASE BookingLost(t)
    BY <1>4 DEF BookingLost
  <1>5. CASE BookDryRun(t)
    <2>1. trades' \in 0..MaxTrades
      BY <1>5, NumbersAssumption DEF BookDryRun
    <2> QED BY <1>1, <1>5, <2>1 DEF BookDryRun
  <1> QED BY <1>2, <1>3, <1>4, <1>5

LEMMA CallTypeOK ==
    ASSUME Inv, NEW r \in Runs, StartRoute(r) \/ Enqueue(r) \/ Crash(r)
    PROVE  TypeOK'
  <1> USE DEF TypeOK, Goto, Labels
  <1>0. TypeOK
    BY DEF Inv
  <1>1. CASE StartRoute(r)
    BY <1>0, <1>1 DEF StartRoute
  <1>2. CASE Enqueue(r)
    <2>1. Append(queue, r) \in Seq(Runs)
      BY <1>0, AppendProperties
    <2> QED BY <1>0, <1>2, <2>1 DEF Enqueue
  <1>3. CASE Crash(r)
    <2>1. crashes' \in 0..MaxCrashes
      BY <1>0, <1>3, NumbersAssumption DEF Crash
    <2>2. End(r, "lost")
      BY <1>3 DEF Crash
    <2>3. /\ pc' \in [Runs -> Labels]
          /\ snapshot' \in [Runs -> [Symbols -> BrokerPosition \cup {None}]]
          /\ task' \in [Workers -> Runs \cup {None}]
      BY <1>0, <2>2, EndType
    <2> QED BY <1>0, <1>3, <2>1, <2>3 DEF Crash
  <1> QED BY <1>1, <1>2, <1>3

LEMMA TakeTaskTypeOK ==
    ASSUME TypeOK, NEW w \in Workers, TakeTask(w)
    PROVE  TypeOK' /\ Head(queue) \in Runs
  <1>1. Head(queue) \in Runs /\ Tail(queue) \in Seq(Runs)
    BY HeadTailProperties DEF TypeOK, TakeTask
  <1> QED BY <1>1 DEF TypeOK, TakeTask, Goto, Labels


-----------------------------------------------------------------------------
(* What a step leaves alone.                                               *)

\* Nothing that the invariants of run q speak of changes.
Untouched(q) ==
    /\ pc'[q] = pc[q]
    /\ verdict'[q] = verdict[q]
    /\ rows'[q] = rows[q]
    /\ session'[q] = session[q]
    /\ snapshot'[q] = snapshot[q]

LEMMA UntouchedKeeps ==
    ASSUME NEW q \in Runs, RunInv(q), NoShorts(q), Untouched(q)
    PROVE  RunInv(q)' /\ NoShorts(q)'
  BY DEF RunInv, NoShorts, Untouched

LEMMA StepTouchesItsOwn ==
    ASSUME TypeOK, NEW r \in Runs, Step(r) \/ Crash(r), NEW q \in Runs, q # r
    PROVE  Untouched(q)
  BY DEF TypeOK, Untouched, Goto, End, CreateRun, Step, TakePaperSnapshot, TakeLiveSnapshot,
         LiveSnapshotRaises, LiveSnapshotFails, ReadPositions, ReadPositionsFails, RecordResult,
         RecordFailed, Crash

LEMMA StepOfRunning ==
    ASSUME TypeOK, NEW r \in Runs, Step(r) \/ Crash(r)
    PROVE  pc[r] \in Running /\ queue' = queue
  BY DEF Running, Step, TakePaperSnapshot, TakeLiveSnapshot, LiveSnapshotRaises,
         LiveSnapshotFails, ReadPositions, ReadPositionsFails, RecordResult, RecordFailed, Crash

\* The runs in the queue are not the one that steps.
LEMMA QueueKept ==
    ASSUME TypeOK, QueueHoldsWaiting, NEW r \in Runs, pc[r] # "queued", queue' = queue,
           \A q \in Runs \ {r} : pc'[q] = pc[q]
    PROVE  QueueHoldsWaiting'
  <1>1. \A i \in 1..Len(queue) : queue[i] \in Runs /\ queue[i] # r
    BY DEF TypeOK, QueueHoldsWaiting
  <1> QED BY <1>1 DEF QueueHoldsWaiting

-----------------------------------------------------------------------------
(* What a step does to its own run.                                        *)

\* The only row of a run is the one it adds.
LEMMA FirstRow ==
    ASSUME TypeOK, NEW r \in Runs, rows[r] = <<>>, NEW row \in RunRow,
           NEW o \in CommitOutcomes(r), CreateRun(r, row, o)
    PROVE  /\ rows'[r] = <<row>> \/ rows'[r] = <<>>
           /\ o = "committed" => rows'[r] = <<row>>
           /\ o # "committed" => session'[r] = "poisoned"
  <1>1. Append(rows[r], row) = <<row>>
    OBVIOUS
  <1> QED BY <1>1 DEF TypeOK, CreateRun

LEMMA StepKeepsRun ==
    ASSUME Inv, NEW r \in Runs, Step(r)
    PROVE  RunInv(r)' /\ NoShorts(r)'
  <1> USE DEF TypeOK, Goto, Unread
  <1>0. TypeOK /\ RunInv(r) /\ NoShorts(r)
    BY DEF Inv
  <1>1. CASE TakePaperSnapshot(r)
    BY <1>0, <1>1 DEF TakePaperSnapshot, RunInv, NoShorts
  <1>2. CASE TakeLiveSnapshot(r)
    BY <1>0, <1>2 DEF TakeLiveSnapshot, RunInv, NoShorts
  <1>3. CASE LiveSnapshotRaises(r) \/ LiveSnapshotFails(r)
    BY <1>0, <1>3 DEF LiveSnapshotRaises, LiveSnapshotFails, RunInv, NoShorts
  <1>4. CASE ReadPositions(r)
    <2> DEFINE c == Compare(SourceOf(r), book, snapshot[r])
    <2>1. SourceOf(r) \in Sources
      BY DEF SourceOf, Sources
    <2>2. c \in RunRow /\ c.status # "FAILED"
      BY <2>1, CompareGivesRow
    <2>3. c.status = "MATCHED" =>
              \A s \in Symbols : snapshot[r][s] # None => snapshot[r][s].quantity > 0
      BY <1>0, ShortsDoNotMatch
    <2>4. verdict'[r] = c /\ pc'[r] = "record_result" /\ pc[r] = "positions"
      BY <1>0, <1>4 DEF ReadPositions
    <2>5. UNCHANGED <<rows, snapshot>>
      BY <1>4 DEF ReadPositions
    <2> HIDE DEF c
    <2> QED BY <1>0, <2>2, <2>3, <2>4, <2>5 DEF RunInv, NoShorts
  <1>5. CASE ReadPositionsFails(r)
    BY <1>0, <1>5 DEF ReadPositionsFails, RunInv, NoShorts
  <1>6. CASE RecordResult(r)
    <2>1. PICK o \in CommitOutcomes(r) :
              /\ CreateRun(r, verdict[r], o)
              /\ IF o = "committed"
                 THEN End(r, "done")
                 ELSE Goto(r, "record_failed") /\ UNCHANGED <<snapshot, task>>
      BY <1>6 DEF RecordResult
    <2>2. rows[r] = <<>> /\ verdict[r] \in RunRow /\ verdict[r].status # "FAILED"
      BY <1>0, <1>6 DEF RecordResult, RunInv
    <2>3. /\ rows'[r] = <<verdict[r]>> \/ rows'[r] = <<>>
          /\ o = "committed" => rows'[r] = <<verdict[r]>>
          /\ o # "committed" => session'[r] = "poisoned"
      BY <1>0, <2>1, <2>2, FirstRow
    <2>4. verdict' = verdict
      BY <1>6 DEF RecordResult
    <2>5. \/ o = "committed" /\ pc'[r] = "done" /\ snapshot'[r] = NoPositions
          \/ o # "committed" /\ pc'[r] = "record_failed" /\ snapshot' = snapshot
      BY <1>0, <2>1 DEF End
    <2>6. RunInv(r)'
      BY <2>2, <2>3, <2>4, <2>5 DEF RunInv
    <2>7. NoShorts(r)'
      BY <1>0, <2>4, <2>5 DEF NoShorts, NoPositions
    <2> QED BY <2>6, <2>7
  <1>7. CASE RecordFailed(r)
    <2>1. PICK o \in CommitOutcomes(r) : CreateRun(r, FailedRow(r), o)
      BY <1>7 DEF RecordFailed
    <2>2. pc'[r] = "raised" /\ snapshot'[r] = NoPositions /\ verdict' = verdict
      BY <1>0, <1>7 DEF RecordFailed, End
    <2>3. rows'[r] = <<FailedRow(r)>> \/ rows'[r] = rows[r]
      <3>1. CASE rows[r] = <<>>
        BY <1>0, <2>1, <3>1, FailedRowIsRow, FirstRow
      <3>2. CASE rows[r] # <<>>
        <4>1. o = "refused"
          BY <1>0, <1>7, <3>2 DEF RecordFailed, RunInv, CommitOutcomes
        <4> QED BY <2>1, <4>1 DEF CreateRun
      <3> QED BY <3>1, <3>2
    <2>4. RunInv(r)'
      BY <1>0, <2>2, <2>3, FailedRowIsRow DEF RunInv
    <2>5. NoShorts(r)'
      BY <2>2 DEF NoShorts, NoPositions
    <2> QED BY <2>4, <2>5
  <1> QED
    BY <1>1, <1>2, <1>3, <1>4, <1>5, <1>6, <1>7 DEF Step

-----------------------------------------------------------------------------
(* The invariant.                                                          *)

LEMMA InitInv == Init => Inv
  <1> SUFFICES ASSUME Init PROVE Inv
    OBVIOUS
  <1>1. TypeOK
    BY NumbersAssumption, EmptySeq DEF Init, TypeOK, Labels, NoPositions, Asked
  <1>2. QueueHoldsWaiting /\ \A r \in Runs : RunInv(r) /\ NoShorts(r)
    BY DEF Init, QueueHoldsWaiting, RunInv, NoShorts, Unread
  <1> QED BY <1>1, <1>2 DEF Inv

LEMMA StepInv == ASSUME Inv, NEW r \in Runs, Step(r) PROVE Inv'
  <1>1. TypeOK /\ QueueHoldsWaiting /\ \A q \in Runs : RunInv(q) /\ NoShorts(q)
    BY DEF Inv
  <1>2. \A q \in Runs \ {r} : Untouched(q)
    BY <1>1, StepTouchesItsOwn
  <1>3. QueueHoldsWaiting'
    BY <1>1, <1>2, StepOfRunning, QueueKept DEF Untouched, Running
  <1>4. \A q \in Runs : RunInv(q)' /\ NoShorts(q)'
    BY <1>1, <1>2, StepKeepsRun, UntouchedKeeps
  <1> QED BY <1>3, <1>4, StepTypeOK DEF Inv

LEMMA CrashInv == ASSUME Inv, NEW r \in Runs, Crash(r) PROVE Inv'
  <1>1. TypeOK /\ QueueHoldsWaiting /\ \A q \in Runs : RunInv(q) /\ NoShorts(q)
    BY DEF Inv
  <1>2. \A q \in Runs \ {r} : Untouched(q)
    BY <1>1, StepTouchesItsOwn
  <1>3. QueueHoldsWaiting'
    BY <1>1, <1>2, StepOfRunning, QueueKept DEF Untouched, Running
  <1>4. RunInv(r)' /\ NoShorts(r)'
    BY <1>1 DEF TypeOK, Crash, End, Goto, RunInv, NoShorts, NoPositions, Unread, Running
  <1>5. \A q \in Runs : RunInv(q)' /\ NoShorts(q)'
    BY <1>1, <1>2, <1>4, UntouchedKeeps
  <1> QED BY <1>3, <1>5, CallTypeOK DEF Inv

LEMMA StartRouteInv == ASSUME Inv, NEW r \in Runs, StartRoute(r) PROVE Inv'
  <1>1. TypeOK /\ QueueHoldsWaiting /\ \A q \in Runs : RunInv(q) /\ NoShorts(q)
    BY DEF Inv
  <1>2. \A q \in Runs \ {r} : pc'[q] = pc[q]
    BY <1>1 DEF TypeOK, StartRoute, Goto
  <1>3. QueueHoldsWaiting'
    BY <1>1, <1>2, QueueKept DEF StartRoute
  <1>4. \A q \in Runs : RunInv(q)' /\ NoShorts(q)'
    BY <1>1 DEF TypeOK, StartRoute, Goto, RunInv, NoShorts, Unread
  <1> QED BY <1>3, <1>4, CallTypeOK DEF Inv

LEMMA EnqueueInv == ASSUME Inv, NEW r \in Runs, Enqueue(r) PROVE Inv'
  <1>1. TypeOK /\ QueueHoldsWaiting /\ \A q \in Runs : RunInv(q) /\ NoShorts(q)
    BY DEF Inv
  <1>2. /\ pc[r] = "idle"
        /\ pc' = [pc EXCEPT ![r] = "queued"]
        /\ queue' = Append(queue, r)
    BY DEF Enqueue, Goto
  <1>3. QueueHoldsWaiting'
    <2>1. /\ Len(queue') = Len(queue) + 1
          /\ queue'[Len(queue) + 1] = r
          /\ \A i \in 1..Len(queue) : queue'[i] = queue[i] /\ queue[i] \in Runs
      BY <1>1, <1>2, AppendProperties DEF TypeOK
    <2>2. \A i \in 1..Len(queue) : queue[i] # r
      BY <1>1, <1>2 DEF QueueHoldsWaiting
    <2>3. Len(queue) \in Nat
      BY <1>1, LenProperties DEF TypeOK
    <2>4. \A i \in 1..Len(queue') : i \in 1..Len(queue) \/ i = Len(queue) + 1
      BY <2>1, <2>3
    <2> QED BY <1>1, <1>2, <2>1, <2>2, <2>4 DEF QueueHoldsWaiting, TypeOK
  <1>4. \A q \in Runs : RunInv(q)' /\ NoShorts(q)'
    BY <1>1, <1>2 DEF TypeOK, Enqueue, RunInv, NoShorts, Unread
  <1> QED BY <1>3, <1>4, CallTypeOK DEF Inv

LEMMA TakeTaskInv == ASSUME Inv, NEW w \in Workers, TakeTask(w) PROVE Inv'
  <1> DEFINE r == Head(queue)
  <1>1. TypeOK /\ QueueHoldsWaiting /\ \A q \in Runs : RunInv(q) /\ NoShorts(q)
    BY DEF Inv
  <1>2. /\ queue # <<>>
        /\ queue' = Tail(queue)
        /\ pc' = [pc EXCEPT ![r] = "snapshot"]
        /\ UNCHANGED <<readVars, dbVars>>
    BY DEF TakeTask, Goto
  <1>3. /\ Len(queue) \in Nat \ {0}
        /\ queue[1] = r
        /\ Len(queue') = Len(queue) - 1
        /\ \A i \in 1..Len(queue') : queue'[i] = queue[i + 1]
    BY <1>1, <1>2, HeadTailProperties, LenProperties DEF TypeOK
  <1>4. r \in Runs /\ pc[r] = "queued"
    BY <1>1, <1>3, TakeTaskTypeOK DEF QueueHoldsWaiting
  <1>5. QueueHoldsWaiting'
    <2>1. \A i \in 1..Len(queue') :
              i + 1 \in 1..Len(queue) /\ queue[i + 1] # r /\ pc[queue[i + 1]] = "queued"
      BY <1>1, <1>3 DEF QueueHoldsWaiting
    <2>2. \A i \in 1..Len(queue') : queue[i + 1] \in Runs
      BY <1>1, <2>1 DEF TypeOK
    <2>3. \A i \in 1..Len(queue') : pc'[queue'[i]] = "queued"
      BY <1>1, <1>2, <1>3, <2>1, <2>2 DEF TypeOK
    <2>4. \A i, j \in 1..Len(queue') : queue'[i] = queue'[j] => i = j
      BY <1>1, <1>3, <2>1 DEF QueueHoldsWaiting
    <2> QED BY <2>3, <2>4 DEF QueueHoldsWaiting
  <1>6. \A q \in Runs : RunInv(q)' /\ NoShorts(q)'
    BY <1>1, <1>2, <1>4 DEF TypeOK, RunInv, NoShorts, Unread
  <1> QED BY <1>1, <1>5, <1>6, TakeTaskTypeOK DEF Inv

LEMMA TradeInv ==
    ASSUME Inv, NEW t \in Trade, Fill(t) \/ BookFill(t) \/ BookingLost(t) \/ BookDryRun(t)
    PROVE  Inv'
  <1>1. UNCHANGED <<pc, readVars, taskVars, dbVars>>
    BY DEF Fill, BookFill, BookingLost, BookDryRun
  <1>2. QueueHoldsWaiting' /\ \A q \in Runs : RunInv(q)' /\ NoShorts(q)'
    BY <1>1 DEF Inv, QueueHoldsWaiting, RunInv, NoShorts
  <1> QED BY <1>2, TradeTypeOK DEF Inv

LEMMA NextInv == Inv /\ [Next]_vars => Inv'
  <1> SUFFICES ASSUME Inv, [Next]_vars PROVE Inv'
    OBVIOUS
  <1>1. CASE UNCHANGED vars
    BY <1>1 DEF Inv, TypeOK, QueueHoldsWaiting, RunInv, NoShorts
  <1>2. CASE Next
    BY <1>1, <1>2, StepInv, CrashInv, StartRouteInv, EnqueueInv, TakeTaskInv, TradeInv
       DEF Next, AllOver
  <1> QED BY <1>1, <1>2

LEMMA Invariant == Spec => []Inv
  BY InitInv, NextInv, PTL DEF Spec

-----------------------------------------------------------------------------
\* Type correctness, for any number of runs, workers, trades and faults.
THEOREM TypeCorrect == Spec => []TypeOK
  <1>1. Inv => TypeOK
    BY DEF Inv
  <1> QED BY <1>1, Invariant, PTL

\* A run of reconcile_positions leaves at most one row, although it may try a
\* second: a row whose commit raised leaves a session that refuses the other.
THEOREM OneRowPerRun == Spec => []AtMostOneRow
  <1>1. ASSUME Inv, NEW r \in Runs PROVE Len(rows[r]) <= 1
    <2>1. CASE rows[r] = <<>>
      BY <2>1
    <2>2. ASSUME NEW row \in RunRow, rows[r] = <<row>> PROVE Len(rows[r]) <= 1
      BY <2>2
    <2> QED BY <1>1, <2>1, <2>2 DEF Inv, RunInv
  <1>2. Inv => AtMostOneRow
    BY <1>1 DEF AtMostOneRow
  <1> QED BY <1>2, Invariant, PTL

\* A verdict is answered only if it is the run's row, and a FAILED row only
\* stands for a run that raised.
THEOREM AnswersAreOnRecord == Spec => []AnswerIsOnRecord
  <1>1. ASSUME Inv, NEW r \in Runs, FailedRow(r) \in ToSet(rows[r])
        PROVE  pc[r] = "raised"
    <2>1. PICK i \in DOMAIN rows[r] : rows[r][i] = FailedRow(r)
      BY <1>1 DEF ToSet
    <2>2. PICK row \in RunRow : rows[r] = <<row>> /\ (row.status = "FAILED" => pc[r] = "raised")
      BY <1>1, <2>1 DEF Inv, RunInv
    <2>3. row = FailedRow(r)
      BY <2>1, <2>2
    <2> QED BY <2>2, <2>3, FailedRowIsRow
  <1>2. Inv => AnswerIsOnRecord
    BY <1>1 DEF Inv, RunInv, AnswerIsOnRecord
  <1> QED BY <1>2, Invariant, PTL

\* No quantity, price or sequence of trades makes a short position at the broker
\* count as matched.
THEOREM ShortsAreNeverMatched == Spec => []MatchedMeansNoShorts
  <1>1. Inv => MatchedMeansNoShorts
    BY DEF Inv, NoShorts, MatchedMeansNoShorts
  <1> QED BY <1>1, Invariant, PTL

-----------------------------------------------------------------------------
(* Runs that leave no row, and what a verdict tells.                       *)

\* Until a database call has failed on its own, sessions are usable, and runs
\* that ended have their row.
NothingHidden ==
    dbFaults = 0 =>
        \A r \in Runs : session[r] = "clean" /\ (pc[r] = "raised" => rows[r] # <<>>)

\* A write that adds no fault of the database, on a usable session, is there.
LEMMA WriteHidesNothing ==
    ASSUME TypeOK, NothingHidden, NEW r \in Runs, NEW row \in RunRow,
           NEW o \in CommitOutcomes(r), CreateRun(r, row, o), dbFaults' = 0
    PROVE  dbFaults = 0 /\ session' = session /\ rows'[r] # <<>>
           /\ \A q \in Runs \ {r} : rows'[q] = rows[q]
  <1>1. dbFaults \in Nat
    BY NumbersAssumption DEF TypeOK
  <1>2. o \notin {"rolled_back", "unconfirmed"} /\ dbFaults = 0
    BY <1>1 DEF CreateRun
  <1>3. o = "committed"
    BY <1>2 DEF NothingHidden, CommitOutcomes
  <1>4. Append(rows[r], row) # <<>>
    <2>1. rows[r] \in Seq(RunRow)
      BY DEF TypeOK
    <2> QED BY <2>1, AppendProperties
  <1> QED
    BY <1>2, <1>3, <1>4 DEF CreateRun, TypeOK

LEMMA NextHidesNothing == Inv /\ NothingHidden /\ [Next]_vars => NothingHidden'
  <1> SUFFICES ASSUME Inv, NothingHidden, [Next]_vars, dbFaults' = 0
               PROVE  \A r \in Runs : session'[r] = "clean" /\ (pc'[r] = "raised" => rows'[r] # <<>>)
    BY DEF NothingHidden
  <1>0. TypeOK /\ dbFaults \in Nat /\ \A r \in Runs : RunInv(r)
    BY NumbersAssumption DEF Inv, TypeOK
  <1> USE DEF Goto
  <1>1. ASSUME NEW r \in Runs, RecordResult(r)
        PROVE  \A q \in Runs : session'[q] = "clean" /\ (pc'[q] = "raised" => rows'[q] # <<>>)
    <2>1. PICK o \in CommitOutcomes(r) :
              /\ CreateRun(r, verdict[r], o)
              /\ IF o = "committed"
                 THEN End(r, "done")
                 ELSE Goto(r, "record_failed") /\ UNCHANGED <<snapshot, task>>
      BY <1>1 DEF RecordResult
    <2>2. verdict[r] \in RunRow
      BY <1>0, <1>1 DEF RecordResult, RunInv
    <2>3. dbFaults = 0 /\ session' = session /\ \A q \in Runs \ {r} : rows'[q] = rows[q]
      BY <1>0, <2>1, <2>2, WriteHidesNothing
    <2>4. pc'[r] \in {"done", "record_failed"} /\ \A q \in Runs \ {r} : pc'[q] = pc[q]
      BY <1>0, <2>1 DEF End, TypeOK
    <2> QED BY <2>3, <2>4 DEF NothingHidden
  <1>2. ASSUME NEW r \in Runs, RecordFailed(r)
        PROVE  \A q \in Runs : session'[q] = "clean" /\ (pc'[q] = "raised" => rows'[q] # <<>>)
    <2>1. PICK o \in CommitOutcomes(r) : CreateRun(r, FailedRow(r), o)
      BY <1>2 DEF RecordFailed
    <2>2. /\ dbFaults = 0 /\ session' = session /\ rows'[r] # <<>>
          /\ \A q \in Runs \ {r} : rows'[q] = rows[q]
      BY <1>0, <2>1, FailedRowIsRow, WriteHidesNothing
    <2>3. \A q \in Runs \ {r} : pc'[q] = pc[q]
      BY <1>0, <1>2 DEF RecordFailed, End, TypeOK
    <2> QED BY <2>2, <2>3 DEF NothingHidden
  <1>3. ASSUME NEW r \in Runs, ReadPositionsFails(r) PROVE FALSE
    BY <1>0, <1>3 DEF ReadPositionsFails
  <1>4. ASSUME NEW r \in Runs,
               \/ StartRoute(r) \/ Enqueue(r) \/ Crash(r) \/ TakePaperSnapshot(r)
               \/ TakeLiveSnapshot(r) \/ LiveSnapshotRaises(r) \/ LiveSnapshotFails(r)
               \/ ReadPositions(r)
        PROVE  /\ UNCHANGED dbVars
               /\ \A q \in Runs : pc'[q] = "raised" => pc[q] = "raised"
    BY <1>0, <1>4 DEF StartRoute, Enqueue, Crash, End, TakePaperSnapshot, TakeLiveSnapshot,
       LiveSnapshotRaises, LiveSnapshotFails, ReadPositions, TypeOK
  <1>5. ASSUME NEW w \in Workers, TakeTask(w)
        PROVE  /\ UNCHANGED dbVars
               /\ \A q \in Runs : pc'[q] = "raised" => pc[q] = "raised"
    BY <1>0, <1>5, TakeTaskTypeOK DEF TakeTask, TypeOK
  <1>6. ASSUME NEW t \in Trade, Fill(t) \/ BookFill(t) \/ BookingLost(t) \/ BookDryRun(t)
        PROVE  UNCHANGED <<dbVars, pc>>
    BY <1>6 DEF Fill, BookFill, BookingLost, BookDryRun
  <1>7. CASE UNCHANGED vars
    BY <1>7 DEF NothingHidden
  <1> QED
    BY <1>1, <1>2, <1>3, <1>4, <1>5, <1>6, <1>7 DEF Next, Step, AllOver, NothingHidden

\* A run that ended without a row met a crash or a failing database, never just
\* a broker in trouble.
THEOREM BrokerTroubleIsOnRecord == Spec => []OnlyDatabaseOrCrashHidesARun
  <1>1. Init => NothingHidden
    BY DEF Init, NothingHidden
  <1>2. ASSUME Inv, NothingHidden, NEW r \in Runs, pc[r] \in {"done", "raised"}, dbFaults = 0
        PROVE  rows[r] # <<>>
    <2>1. pc[r] = "done" => rows[r] = <<verdict[r]>>
      BY <1>2 DEF Inv, RunInv
    <2>2. <<verdict[r]>> # <<>>
      OBVIOUS
    <2> QED BY <1>2, <2>1, <2>2 DEF NothingHidden
  <1>3. Inv /\ NothingHidden => OnlyDatabaseOrCrashHidesARun
    BY <1>2 DEF OnlyDatabaseOrCrashHidesARun
  <1> QED
    BY <1>1, <1>3, Invariant, NextHidesNothing, PTL DEF Spec

\* The figures agree exactly when both sides know the symbol and hold the same,
\* or neither knows it: no figure of a position is zero.
LEMMA MatchedMeansEqual ==
    ASSUME NEW row \in BookRow \cup {None}, NEW position \in BrokerPosition \cup {None}
    PROVE  Matched(row, position) <=>
               \/ row = None /\ position = None
               \/ /\ row # None /\ position # None
                  /\ row.quantity = position.quantity
                  /\ row.price = position.cost
  <1>1. row # None => row.quantity # 0 /\ row.price # 0
    BY NumbersAssumption DEF BookRow
  <1>2. position # None => position.quantity # 0 /\ position.cost # 0
    BY NumbersAssumption DEF BrokerPosition
  <1> QED
    BY <1>1, <1>2
    DEF Matched, InternalQuantity, InternalPrice, BrokerQuantity, BrokerCost

\* If the broker has not moved since the snapshot, a live verdict is MATCHED
\* exactly when the book and the broker agree on every symbol.
THEOREM QuietRunsTellTheTruth == Spec => QuietRunTellsTheTruth
  <1>1. ASSUME Inv, [Next]_vars, NEW r \in Runs, verdict'[r] # verdict[r], snapshot[r] = broker
        PROVE  verdict'[r].status = "MATCHED" <=>
                   \A s \in Symbols :
                       \/ book[s] = None /\ broker[s] = None
                       \/ /\ book[s] # None /\ broker[s] # None
                          /\ book[s].quantity = broker[s].quantity
                          /\ book[s].price = broker[s].cost
    <2>0. TypeOK
      BY <1>1 DEF Inv
    <2>1. verdict'[r] = Compare(SourceOf(r), book, broker)
      <3>1. PICK q \in Runs : ReadPositions(q)
        BY <1>1 DEF Next, Step, AllOver, StartRoute, Enqueue, Crash, TakePaperSnapshot,
           TakeLiveSnapshot, LiveSnapshotRaises, LiveSnapshotFails, ReadPositionsFails, RecordResult, RecordFailed,
           TakeTask, Fill, BookFill, BookingLost, BookDryRun
      <3> QED BY <1>1, <2>0, <3>1 DEF ReadPositions, TypeOK
    <2>2. Compare(SourceOf(r), book, broker).status = "MATCHED" <=>
              \A s \in Symbols : book[s] # None \/ broker[s] # None => Matched(book[s], broker[s])
      BY DEF Compare
    <2>3. \A s \in Symbols : Matched(book[s], broker[s]) <=>
              \/ book[s] = None /\ broker[s] = None
              \/ /\ book[s] # None /\ broker[s] # None
                 /\ book[s].quantity = broker[s].quantity
                 /\ book[s].price = broker[s].cost
      BY <2>0, MatchedMeansEqual DEF TypeOK
    <2> QED BY <2>1, <2>2, <2>3
  <1>2. Inv /\ [Next]_vars =>
            [\A r \in Runs :
                verdict'[r] # verdict[r] /\ asked[r].live /\ snapshot[r] = broker =>
                    (verdict'[r].status = "MATCHED" <=>
                        \A s \in Symbols :
                            \/ book[s] = None /\ broker[s] = None
                            \/ /\ book[s] # None /\ broker[s] # None
                               /\ book[s].quantity = broker[s].quantity
                               /\ book[s].price = broker[s].cost)]_vars
    BY <1>1
  <1> QED
    BY <1>2, Invariant, PTL DEF Spec, QuietRunTellsTheTruth
=============================================================================
