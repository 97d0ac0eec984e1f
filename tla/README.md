# Verification of the day-trade platform

TLA+ specifications of the day-trade-intelligence platform (the FastAPI
application under `src/app/`, its workers, console and start-up), the TLC runs
that check them on small instances, and TLAPS proofs of what holds for every
instance.

## 1. Inventory

| Component | State it keeps | Operations | Talks to |
|---|---|---|---|
| Trading workflow (`services/orchestrator.py`, `api/routes/trading.py`) | one database session and a handful of locals per request; rows in four tables | `process_signal` | everything below, by direct calls |
| Portfolio service | none | paper snapshot, live snapshot | IBKR gateway |
| Execution service | none | skip, simulate, submit | IBKR gateway |
| Risk manager, strategy engine | none (pure) | `validate_trade`, moving-average crossover | - |
| Market data service | none | bars from Alpaca, or synthetic | Alpaca |
| Repositories | rows; each call commits by itself | insert, upsert, list | database |
| Reconciliation | rows of `reconciliation_runs` | compare internal and broker positions | database, gateway |
| Workers and beat | a Redis queue, tasks taken | schedule, take, run | Redis, reconciliation |
| Bootstrap and migrations | schema, users, demo rows | create or migrate, seed | database |
| Authentication | users; tokens are self-contained | login, resolve role | database |
| Console (`ui/static/app.js`) | token in local storage, eleven panels | login, logout, load, submit | the HTTP API |
| Queries and status | none | pages, counts, status | database |

What is hard about it:

* **Nesting.** `main.py` patches the event loop with nest_asyncio. The blocking
  ib_insync calls (`connect`, `accountSummary`, `sleep(1)`) therefore pump the
  loop they were called from: another request starts *inside* the call, on top of
  the first, and the first resumes only when everything above has returned, even
  if its own call completed long before. Everywhere else a handler is atomic
  on its loop. Other processes interleave at every database call.
* **One client id.** All live calls connect with the same `ibkr_client_id`, and
  the gateway takes one connection per id.
* **Swallowed write errors.** Every write of `process_signal` commits by itself
  and swallows its exception; nobody rolls the SQLAlchemy session back, so after
  one failure the session refuses everything else the request writes. A commit
  may also have happened although its confirmation was lost.
* **Crashes.** A process may die between any two commits, and between an order
  and its row.
* **Asynchrony outside the trading path.** Celery takes tasks off the queue
  before running them; several containers migrate and seed at once; the console
  renders responses whenever they come.

What makes each component correct:

* Trading: only approved live requests reach the broker, once, within the limits;
  the audit trail is gap-free and never claims what has no row behind it; the
  client id is given back; every request is answered; positions describe trades.
* Risk: the two checks together bound an order for every account value.
* Reconciliation: a stored run says what the comparison found; every task taken
  by a live worker ends in a run.
* Bootstrap: an application that is up has its schema, its users and records to
  show, whatever happened before; starts that do not meet seed once.
* Authentication: a request acts with a role its user held since it was sent, and with
  that of an API key only when there is no such user.
* Console: page and buttons follow the session; a session that nothing disturbs leaves
  no data of anybody else on the page.
* Queries: the pages of a listing, put together, miss nothing of the listing.
* Status: the probe blames the database only when it, or the whole pool, is gone.

## 2. Plan

| Order | Module | Models | Runs | Proofs |
|---|---|---|---|---|
| 1 | `RiskPolicy` | risk rule and account figures | in the runs of 2 | the rule bounds every order (`PolicyProofs`) |
| 2 | `Trading`, `TradeLifecycle` | the trading workflow and its promise | `trading_one_process`, `trading_answers`, `trading_replicas` | type, client id, live orders (`TradingProofs`); trail, rows, positions (`TradingRecordsProofs`); refinement (`LifecycleProofs`) |
| 3 | `TradingClaims` | docstrings the workflow does not meet | `submission_attempts`, `position_exposure` | - |
| 4 | `Reconciliation`, `ReconciliationClaims` | comparison, run rows, beat, queue, workers | `reconciliation`, `reconciliation_holdings` | one row per run, answers on record, what a verdict says, runs without a row |
| 5 | `Bootstrap`, `BootstrapClaims` | schema, migrations, users, demo rows, containers starting together | `bootstrap`, `bootstrap_migrations` | an API that is up is ready; when the database is seeded |
| 6 | `Console`, `ConsoleClaims` | sessions, panels and answers under way | `console`, `console_logout` | type, buttons, what the page shows |
| 7 | `Paging`, `Access`, `Api` | pages over growing tables; tokens, roles, API keys; threads, connections and the status probe they share | `api` | type, who is served as whom, pages, the pool |
| 8 | `StrategyEngine` | crossover on bars, demo series; linked into `Trading` | in the runs of 2 | the engine reads the market right (`PolicyProofs`) |

All lines are done. Queries and Auth were planned as two modules; they became one
server, since what is hard about either is the order of their reads and the threads and
connections they compete for. A `Platform` module (trades, reconciliation and
GET /portfolio on one client id) was planned and dropped: to each of them the others are
a connect that fails or a position that changes, which `Trading` and `Reconciliation`
already allow at every moment.

## 3. What is modelled

### RiskPolicy

`validate_trade` and the figures it is given. Money is in whole units and
percentages in basis points, so the divisions of the code become comparisons of
products (the special cases of the code, equity 0 and a highest equity of 0, and
the sign flip of a negative equity, are kept). `WithinLimits` says independently
what a trader means by the limits. `LimitsAreLimits` names the settings for which
the two agree: `settings.py` validates none of them, and with a drawdown limit of
100% or a paper equity of 0 an account worth nothing passes both checks.

### Trading

One action per call of `process_signal`. The program counter of a request is
named for the call that comes next:

| Code | Actions |
|---|---|
| route, session, loop | `Arrive`, `Return` (`home`, `caller`, `active`) |
| `_record_audit_event` | `RecordReceived`, `RecordStrategyEvaluated`, `RecordRiskApproved`, `RecordExecuted`, `RecordFailed` |
| `get_portfolio_snapshot` | `TakePaperSnapshot`; `ConnectForSnapshot`, `ReadAccount`, `FinishSnapshot` |
| `get_recent_bars`, `evaluate_moving_average_crossover` | `EvaluateStrategy`, `StrategyUnavailable` |
| `_record_strategy_run` | `RecordStrategyRun` |
| `validate_trade` | `ValidateTrade` |
| `execute_order` | `ExecuteOrder`, `PlaceOrder`, `ConfirmOrder` |
| the except and finally blocks of both broker services | `BrokerCallRaises`, `Disconnect` |
| `_record_trade_order`, `_upsert_position` | `RecordTradeOrder`; `SelectPosition`, `SelectPositionFails`, `CommitPosition` |
| gateway and process (external) | `GatewayAccepts`, `BrokerCallCompletes`, `BrokerCallFails`, `Crash` |

`active[p]` is the request on top of process `p`'s stack and `caller[r]` the one
beneath `r`; a request takes a step only on top, and arrivals and broker answers
come in only while the top is inside a broker call (`LoopRuns`). `reply[r]` is how
the broker call in progress ended. A write picks an outcome: committed, rolled
back, committed but unconfirmed, refused (the session is poisoned), or in conflict
(an INSERT that lost to another replica). `Upserted` is what SQLAlchemy's UPDATE
does: only the columns that differ from the row *as loaded* are written.

`feed` says where bars come from. With keys they are any series of `Market` that is not
longer than the long window (the limit the code asks for) and anything may fail;
without keys, on a local machine, they are the demo series. `StrategyEngine` is the
arithmetic: averages are compared multiplied out, closes are integers. Floats give
the same verdicts as long as the sums of closes are exact; where they are not, the code
may call a flat window a BUY or a SELL, which the model leaves out. `Edge` says
independently of the engine what the bars show.

What is left open on purpose: which series the provider has, which
account value the gateway reports, when anything fails. Left out: texts,
timestamps, confidence values, broker order ids. `brokerReady` covers the three
ways live trading is not available at all: ib_insync missing, host or port unset,
and a uvloop event loop, which nest_asyncio cannot patch.

### TradeLifecycle

The promise, without a database, a gateway or an event loop: a request is
approved or rejected; a live order goes out at most once and after approval; the
trail follows milestone by milestone, may go silent for good, and while it has
not, an order is not sent before its approval is on record. `Trading` implements
it under the mapping `StageOf`, `placed`, `audit` and "the session is clean".

### Reconciliation

One action per point at which `reconcile_positions` reads or writes something
others can change:

| Code | Actions |
|---|---|
| `POST /run`; `POST /run/background` and the beat schedule | `StartRoute`; `Enqueue` |
| Celery worker (external), `reconcile_positions_task` | `TakeTask`, `End`, `Crash` |
| `get_portfolio_snapshot` | `TakePaperSnapshot`; `TakeLiveSnapshot`, `LiveSnapshotRaises`, `LiveSnapshotFails` |
| `list_positions`, `_compare_positions` | `ReadPositions`, `ReadPositionsFails` |
| `create_reconciliation_run`, in the try and in the except block | `RecordResult`, `RecordFailed` |
| what trades do to broker and book meanwhile | `Fill`, `BookFill`, `BookingLost`, `BookDryRun` |

Counts are sets here (`checked`, `mismatched`). Writes have the outcomes they have
in `Trading`. Prices are whole units, so a tolerance of one cent is equality, and
quantities are integers. A task never takes a live snapshot: `asyncio.run` gives it
a plain event loop, on which the blocking calls of ib_insync raise; only `main.py`
patches its loop, and the worker does not import it. The client id is not told
apart from other reasons for a live snapshot to fail (it is in `Trading`).

`_build_live_snapshot` reads `marketPrice`, `marketValue` and `averageCost` off what
`ib.positions()` returns. ib_insync's entries have `account`, `contract`, `position` and
`avgCost`, so with a position at the broker the snapshot raises (`LiveSnapshotRaises`) and
only an account that holds nothing is ever compared. The library is not part of the
repository, so whether its entries have the fields is the constant `EntriesPriced`: the claim is
checked with `{FALSE}`, ib_insync as it is; the passing run and the theorems allow
both, so that what they say of comparisons also holds once the service reads
`avgCost`. `GatewayFails` says whether connections may fail on their own. In `Trading` the same exception is one
of the ways a broker call may raise.

### Bootstrap

One action per transaction of a start:

| Code | Actions |
|---|---|
| `docker compose up` (external) | `Start`, with any settings |
| `container-entrypoint.sh`, `maybe_run_migrations` | `Enter`, `EntryUpgrade` |
| `initialize_database_schema` | `ChooseSchema`, `SchemaUpgrade`, `CreateAll` |
| `_ensure_local_user` | `CheckUser`, `CreateUser` |
| the counts and the five demo rows of `seed_demo_data` | `CheckDemo`, `InsertDemo`, `UpsertDemoPosition` |
| trades of an application that is up; deaths and failing calls (external) | `Trade`, `Interrupted` |

`config[c].mode` is what the settings make of `initialize_database_schema`:
`migrations`, `metadata` (create_all), `skipped`, or `none`, which raises. A schema
change reads and later commits as a whole, since PostgreSQL's DDL is transactional
and `env.py` wraps both revisions in one transaction; so no half-done migration is in the
model, and on SQLite, where each CREATE TABLE stays, one could be. `demo` counts the demo
rows ever inserted; `disturbed` remembers that some start has met another start, or a
trade, on its way, and `met` which of the starts under way have. Worker containers share the
entrypoint and nothing else. The waits for services are part of `Interrupted`.

### Console

One tab. An async function of `app.js` runs until it awaits a request, so an action is
a gesture or an answer, with everything the code does up to the next await:

| Code | Actions |
|---|---|
| the script's last statements | `Init`, `Reload` |
| listeners of the login button and the password field | `Login` |
| listener of the logout button, `resetProtectedPanels` | `Logout` |
| quick actions; trade form | `Click`; `Submit` |
| the answer of `fetchJson`: next request of a call; last one, with `render` | `NextRequest`; `Render` |
| the answer `login` waits for | `LoginSucceeds`, `LoginFails` (`Finally` is its finally block) |

`tasks` is a bag of handlers that wait, each with the call it is in, the session its
request was sent with (`asker`) and the calls that follow. A panel is the set of users
whose data it shows, and a session the set of the user logged in, so "shows nothing of
others" is `panel[p] \subseteq token`. Root and readiness, requests without a token that
follow each other, are one request. A card is set
with its panel, except that `runReconciliation` puts its result into the panel alone and leaves
the count to the history it loads last; `CountFollowsResult` is about that. A second tab (local storage is shared, and a
page does not listen to it) is left out, as are the readiness badge and all wording.

### Access, Paging, Api

`Access` is who a request speaks for, `Paging` what `order_by(desc(created_at))`,
`offset` and `limit` may return, and `Api` the server that runs them. All handlers
here, and `require_role`, are plain functions, so each runs on a worker thread, and
each goes through the request's session to the engine's pool:

| Code | Actions |
|---|---|
| `require_role`; `POST auth/login`; `GET auth/me` | `StartDependency`, `LookupBearer` (`Admit` is the end of it); `Login`; both for `me` |
| the list endpoints and their repositories | `StartHandler`, `CountRows`, `FetchPage` |
| `get_system_status`, for `admin/system/status` and `ready` | `OpenProbe`, `SelectOne`, `PingRedis` |
| `get_db_session` | `UseSession`, `Release` (in `Close`) |
| a full pool, a failing statement (external) | `ConnectionTimeout`, `DatabaseFails` |
| clients, administrators, other writers, time (external) | `Send`, `Advance`; `EditUser`; `InsertRow`; `ClockTicks` |

`conns` is the connections out of the pool: a session keeps its own from its first
statement until the request is over, and the probe takes another. `rows` is the table a
list selects from, after its symbol filter; rows only come, at any `created_at`, since
`now()` is the start of the writer's transaction and it may commit late. Nothing orders
rows of one `created_at`. `held` and `walk` are ghosts: what the bearer has been since
its request was sent, and what a paging client has yet to see. `GET positions` is one
unpaged read. A token or password that does not verify is the same as none; hashing
and encoding are left out. Health and the root page read nothing.

## 4. Runs

| Run | Question | Result |
|---|---|---|
| `trading_one_process` | What can tables, trail and broker hold, with nesting, one fault, one crash? | all nine properties hold |
| `trading_answers` | Is every request answered, and is the promise of `TradeLifecycle` kept? | both hold |
| `trading_replicas` | What is left with two processes on one database? | evidence and client id hold; rows may mix trades but not columns |
| `reconciliation` | What do the history and its verdicts say, and does every task end? | all seven properties hold |
| `bootstrap` | What can an API that is up rely on, how often is the database seeded, and from which leftovers does a start come up? | all seven properties hold |
| `console` | Do buttons, panels and the reconciliation count follow the session? | all five properties hold |
| `api` | Who is served as whom, what do pages show, and does every request end? | all seven properties hold |
| `submission_attempts` | Does every order sent have a row? | no: an order whose confirmation raises has none |
| `position_exposure` | Is a position row the net of the symbol's orders? | no: it is the last trade |
| `reconciliation_holdings` | Does a live run compare when nothing fails? | no: it raises on an account that holds a position |
| `bootstrap_migrations` | Does the first start come up on its settings? | no: migrations make no users table |
| `console_logout` | Does a logged-out page at rest show no data? | no: late answers land after the reset |

Bounds. Two requests are enough for nesting, for overwriting a position, for an
upsert race and for a contended client id; a third only deepens the stack, where
it behaves towards the second as the second towards the first. One symbol makes
every pair of requests meet in the positions table. The quantities sit at
and beyond the limit (2% of 1000 is 20: a quantity of 2 at a price of 10 is exactly
at it, 3 beyond; 3 is exactly at it for an account worth 1500), and an account
worth 0 passes the capital check. One database fault (`MaxDbFaults`) suffices to
poison a session, since everything after it in that request fails anyway; one
crash (`MaxCrashes`) takes a whole stack. In the replica run quantities stay below
the limit, so that both requests trade. Requests and processes are symmetric and
the safety runs use that; the run with liveness does not.

In `reconciliation` two runs (each asked for in any of five ways) share one worker, so that a
task waits behind another; two trades of quantity 1 give every pair of flat, long
and short on both sides, a position that is doubled or closed, and a trade between
the two readings; one symbol is enough, since symbols are compared one by one.

In `bootstrap` three starts let two meet while a third came before or comes after, or
one container fail twice and recover, and give a start two earlier ones with other settings to
clean up after; the five rows, three users and six tables are
those of the code. One trade separates a database that has traded from a fresh one.

In `console` three gestures on a fresh page allow a login over a login, a reload while
loads are under way, and a logout between any two answers; a reload with a session
has six handlers answer in any order. Two users suffice to tell one's data from
another's. One request with a token may fail, which is what a panel that differs
from its neighbours needs. The run checks invariants only, so users are symmetric.

The closes of `Trading` rise, fall or stay over windows of two and three bars, so that the
last bar alone or the wrong end of the series would say something else; one series has
a bar too few, and one process run also asks with windows the engine refuses.

In `api` one client logs in and asks for itself and for the status, with an admin key
beside its token; the other pages through a list and asks for readiness, with an
operator key and a token of before that lives until the first tick. One thread makes every start wait, and two connections
are what one status request can hold, so any second session fills the pool. Pages have two rows and three
rows arrive, at three times: a page that is full, one that is short, and a shift between
them. Accounts and time change (one edit, two ticks) in other behaviours than the
table does (`MCBudgets`): who may read does not depend on the rows, and rows do not depend
on who reads.

Fairness. A handler that can run runs (`WF` of `Step`): it is straight-line code
on a loop nobody pre-empts. A broker call ends (`WF` of `BrokerReturns`):
`ib.connect` times out after four seconds and `ib.sleep` after one; for
`accountSummary` this is an assumption about the gateway, since the code gives it
no timeout. In `Reconciliation` a run that has begun goes
on (with the same assumption about the gateway) and a free worker child takes the
next task. In `Bootstrap` a start goes on; nobody has to start anything. In `Api` a request on a
thread goes on (`WF` of `Run`), and waiting for a thread is first come, first served, so
a request that can have one again and again gets one (`SF` of `TakeThread`). A wait for a connection ends
as the pool ends it, with a connection or its timeout. Nothing is assumed of clients, beat, crashes or faults. `AllServed` lets the
model stand still once every request is over, so that TLC's deadlock check stays
on for everything before.

Each property of a passing run has a mutant, a plausible bug in the definitions it
rests on (marked `Mutant:` in the modules): a session rolled back before each
write breaks the trail and the evidence behind it, a missing `finally` leaks the
client id, a dropped check lets a worthless account trade, a stored "skipped"
order claims a submission, a slice from the wrong end of a series sells a rising market,
a role claim that decides instead of the row outlives a demotion, a session that stays open
after an exception exhausts the pool, a create_all that does not look which tables are there
fails on those that migrations left, a reconciliation button that does not load the
history leaves an old count, a retried broker call livelocks the stack and sends
an order twice.

## 5. Proofs

Every invariant and every action property of the passing runs is a theorem, and so is
the refinement; only the four liveness properties are left to TLC. Each theorem holds
for any values of the constants that meet the assumptions named in the modules, and any
number of faults, crashes, trades or gestures. The same names recur: `...Inv` is an
inductive invariant, `Init...` and `Next...` the lemmas that make it one, and the
theorem follows with PTL.

### Trading

`TradingProofs`: types, the client id and the limits.

* `TypeCorrect`: `TypeOK` is strengthened to `TypeInv` by two facts: from
  `EvaluateStrategy` on the decision is there (`DecisionMade`, which the types of order
  and position rows rest on; that the engine's decision is a proper one, whatever the
  bars, is `EvaluationDecides`), and a row seen by an upsert's SELECT still exists
  (`LoadedRowExists`, which the type of an updated row rests on).
* `ClientIdReleased`: `ClientIdHeldOnlyInsideCall` is inductive with `TypeOK`.
* `LiveOrdersStayWithinRisk`: `LiveOrdersWithinRisk` speaks of a past decision. Its
  invariant `RiskOf` adds what holds on the way: no order before `ex_sleeping`, a live
  request's snapshot is the gateway's, what was approved is unchanged up to the order. A
  step disturbs the facts of its own request only (`StepTouchesItsOwn`,
  `UntouchedRisk`).

`PolicyProofs`: the pure parts.

* `ApprovalMeansWithinLimits`: if `RiskApproves` accepts a live snapshot then
  `WithinLimits` holds. At or below zero the capital check says nothing; the account has
  then lost at least the whole highest equity, which is more than a drawdown limit below
  100%.
* `CrossoverReadsTheEdge`: the engine compares the short average with one that contains
  the same bars, `Edge` the short window with the bars before it, and they come to the
  same. Both are sums over stretches of one series, so what is needed is that the total
  of a stretch is a difference of running sums (`TotalOfStretch`). `Total` is a
  recursive function, and the facts about it are inductions over a length; they are done
  by looking at the least length that fails (`LeastNumber`), which needs no induction
  rule.

`TradingRecordsProofs`: what a request leaves behind.

* `TrailsHaveNoGaps`, `FailedUnapprovedMeansNoOrder`: `TrailInv` says how many
  milestones are due at each label (`Due`). The trail is at most that long; it is
  exactly that long while the session is clean. This is the point of the argument: the
  first write that fails poisons the session, so whatever is missing is missing from the
  end.
* `MilestonesHaveEvidence`: the other half of `TrailInv` (`EvidenceOf`): a request with
  a clean session has its strategy run and its order row where the trail is about to
  claim them. For the positions it takes `PositionsInv`.
* `OrderRowsTellTheTruth`, `OrdersReadTheMarket`: `BookInv` follows a decision from the
  engine into the order and its row, and uses `CrossoverReadsTheEdge`.
* `PositionColumnsAreOfTrades`: `PositionsInv`, column by column, holds with any number
  of processes: an upsert writes its own columns and leaves those of somebody else's
  trade.
* `OneProcessKeepsRowsWhole` assumes `OneProcess`, as the property is false without it
  (`trading_replicas` leaves it out). `StackInv` says that a request that has begun is
  on top of its stack or inside a broker call; neither label of an upsert is a broker
  call, so only one request is in an upsert, and the row it loaded is still the row
  there is (`LoadedIsCurrent`).

`LifecycleProofs`: `TradingImplementsLifecycle`. Each action of `Trading` is one step of
`TradeLifecycle` under the mapping, or leaves stage, orders, trail and recording as they
are (`LifecycleStep`). The steps that need an invariant are the writes of the trail
(`TrailInv`: what is appended is what the promise wants next), the order (`RiskInv`: it
is the first), and a crash, which loses a whole stack at once (`StackInv`: nobody who
has not begun).

### Reconciliation

`ReconciliationProofs`. The invariant `Inv` joins `TypeOK` with `RunInv` (what a run's
place says of its verdict, its rows and its session), `NoShorts` and
`QueueHoldsWaiting`: a queued run waits once and has not begun, without which a second
copy could start over a run that has its row.

* `TypeCorrect`, and `OneRowPerRun`: a second row is tried only after a commit that
  raised, and that commit left a session which refuses it.
* `AnswersAreOnRecord`: `AnswerIsOnRecord` from the same invariant.
* `ShortsAreNeverMatched`: by `ShortsDoNotMatch`, a fact about `Compare` for any book
  and any account.
* `BrokerTroubleIsOnRecord`: adds `NothingHidden`: until the database has failed on its
  own every session is usable and every run that raised has its row. Such a failure is
  counted where it happens, so the step that breaks the promise is the one that makes
  the premise false.
* `QuietRunsTellTheTruth`, an action property: no figure of a position is zero, so the
  code's reading of a missing position as zeros never equals a position that is there
  (`MatchedMeansEqual`).

### Bootstrap

`BootstrapProofs`.

* `TypeCorrect`: `TypeOK` needs `StepInLoop` (outside the two loops a start is at its
  first element, and the loop over users stays within it).
* `UpIsReady`: `UpMeansReady` is not inductive, as it says nothing of a
  start on its way. `ReadyInv` adds `TablesInv` (the users table comes with all the
  others or not at all) and `Ensured` (what a start has made sure of, where it is).
  Tables, users and records only grow (`Kept`), so no other start and no trade undoes it
  (`OthersStayEnsured`); this is what makes concurrent starts safe.
* `LoneBootstrapsSucceed`: `LoneInv` adds to `ReadyInv` that what a start has read is still
  so and nobody else is starting, as long as it has met nobody (`FreshInv`), and that with
  BOOTSTRAP_SCHEMA the users table is there before a user is looked for, and
  no migration is run (`SchemaFirst`). Then none of its steps can fail
  (`LoneStepsSucceed`), whatever the tables, users and rows it found.
* `DemoRowsAreCaused`: a chain of `<=` between counters is not inductive, since two
  starts may be about to write the same row. `CauseInv` counts them: a table is ahead of
  the next by at least the number of starts between the two (`At`).
* `QuietStartsSeedAtMostOnce`, `TradesAreKept`: `QuietInv` says that undisturbed starts
  come one at a time, that one that seeds has found no trade and no order, and that an
  audit row with no order after it is a start that died (`faults`) or is on its way
  (`Sown`).

### Api

`ApiProofs`, under the assumptions of `Access` and `Api`. A step of one request leaves
the others alone (`OthersKeep`), so the invariant is a conjunction over clients of three
local parts:

* `Routed`: which endpoints a label serves, and where a connection of the request's may
  be out. `RefusedInACrowd` follows: whoever holds the full pool is another open
  request, with two connections at most, or the request's own session (`PoolHolders`).
* `Served`: until `require_role` ends, `held` contains what the token's user is now, and
  a token that decodes now did so when the request was sent. `BearersServedAsHeld` and
  `KeysServeAlone`.
* `Paged`: every row a walk has not shown has at least `offset` newer rows (`Behind`),
  and rows that arrive only add to them. `ShortPagesAreLast` and `WalksMissNothing`. Its
  core is `UnseenIsFurtherBack`, a fact about any set of rows: a row behind the rows
  skipped is on the page, or behind the whole of it and the page is full.

### Console

`ConsoleProofs`. The handlers under way are a bag of unbounded size; all that is used of
it is what is in it before and after a step (`TasksAdd`, `TaskEnds`).

* `TypeCorrect`: a handler's chain of calls stays one of the chains' suffixes
  (`SuffixGoesOn`), and a login always asks for somebody (`LoginsAsk`).
* `PageInv` is one invariant for `ButtonsLockNobodyOut`, `QuietPagesShowTheirUser` and
  `LogoutClearsTheStatus`. The first is inductive with the types. The other two need `Quiet`, which speaks of what is still
  to come: in a session that nothing disturbed every answer due is its user's, and while
  a logged-out overview still shows something, the public one is on its way to replace
  it.
* `CountsFollowResults`: a count that differs from its panel is only a promise. `Counting`
  keeps it: while there is a session, the two differ only as long as some handler under way
  has a load of the history still to come, and a result that is awaited has one behind it.

### What is only model-checked

`EveryRequestEnds` (`trading_answers` and `api`), `EveryTaskEnds` and `EveryStartEnds`
are liveness under fairness, which the prover does not do. The claims of the five runs
with violations are false.

## 6. Findings

* `submission_attempts`: the gateway drops the connection during `ib.sleep(1)`,
  after `placeOrder`. The request ends FAILED, the order is at the broker and
  `trade_orders` has no row, although the repository exists so that operations
  teams can "inspect every submission attempt" (`trading_repository.py:48`).
* `position_exposure`: `upsert_position` stores the trade, not the sum; dry runs
  overwrite live rows. `models.py:69` calls the table the "internal view of symbol
  exposure".

* `reconciliation_holdings`: with a position at the broker a live snapshot raises on
  `position.marketPrice` (`portfolio_service.py:62`), whatever the gateway does. The run is stored as
  FAILED, and only an account that holds nothing is ever compared, although "Reconciliation
  compares internal positions against broker state" (`docs/architecture.md:10`). A live
  trade needs the same snapshot, so it fails in the same way.

* `bootstrap_migrations`: revisions 0001 and 0002 have no `users` table. With
  `RUN_MIGRATIONS_ON_START=true` and a new database (`.env.docker.example`) the first
  query of `seed_demo_data` raises and the API never starts, although
  "Startup bootstraps the schema, optionally runs migrations, and seeds demo data"
  (`docs/architecture.md:12`).

* `console_logout`: a load that answers after a logout is rendered over the panel that the
  logout has reset, and stays ("resets all protected panels back to a logged-out
  state", `docs/USER_GUIDE.md:49`). `QuietPageShowsItsUser` says when this cannot happen.

More facts met on the way have no run of their own. The status probe opens a session of its
own beside that of its request, so with the pool exhausted a healthy database is
reported as down; `RefusedOnlyInACrowd` says how many requests that takes. Rows with one
`created_at` may swap places between two pages and one of them is never shown;
`WalkMissesNothing` therefore speaks of distinct times only, which holds for rows of different
transactions up to the clock's resolution (a second on SQLite). A bearer whose token has expired falls
back to the API key sent beside it, and may be served with a stronger role than the
user's; the properties pin this to exactly that case. A start that dies between
the demo rows is not taken up where it broke off: before the order the next start
writes the audit and strategy rows again, after it the position and the
reconciliation run never come ("once", `bootstrap.py:53`); `QuietStartsSeedOnce` says
how far this goes. Enter logs in over a session without resetting
anything, so the trade result of the user before stays; a login that answers after a
logout logs in again; of two overlapping loads of a panel the older may be shown last.
create_all followed by a restart with migrations fails, as the
tables are there and no `alembic_version` is. Two starts at once may cost one of them
its life, on a username or a table that the other was first to create. The scheduled task passes
`False` (`celery_app.py:22`), so it compares the book with an empty paper account and
is MATCHED only for an empty book. A live background task always ends FAILED, for
the reason given under Reconciliation above. And `_compare_positions` never looks at the side (`reconciliation_service.py:58`): a
book row SHORT and an account that is long by as much would be MATCHED. No
run shows it, because no live snapshot with a position comes about today; it would show
as soon as the snapshot is repaired.

## 7. Not modelled

Styles, page layout, logging and request ids keep no state the platform acts on.
Image building and the waits of the deployment scripts only delay or fail a start.
`settings.py` accepts any number: that limits are limits is an assumption
(`LimitsAreLimits`). Deleting rows or users is nowhere in the code and in no module.
Float rounding of averages and the signatures of tokens are abstracted as said above.
