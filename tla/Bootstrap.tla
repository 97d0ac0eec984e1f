------------------------------ MODULE Bootstrap ------------------------------
(***************************************************************************)
(* How the containers of the platform start against one PostgreSQL          *)
(* database: the entrypoint script with its migrations, then, for an API    *)
(* container, initialize_database_schema and seed_demo_data.  Containers    *)
(* start at once, are restarted with other settings, and may die on the way.*)
(*                                                                         *)
(* A schema change is one transaction: it reads what is there and later     *)
(* commits all it adds, or fails because another start was first.  Every    *)
(* row of the seed is committed by itself.                                  *)
(***************************************************************************)
EXTENDS Integers, Sequences

CONSTANTS
    Apis,         \* containers that run the FastAPI application
    Workers,      \* containers that run Celery: the entrypoint only
    MaxStarts,    \* bound: starts of containers
    MaxTrades,    \* bound: trades that the running application records
    MaxFaults     \* bound: starts that die, or meet a database call that fails

ASSUME NumbersAssumption == {MaxStarts, MaxTrades, MaxFaults} \subseteq Nat
ASSUME KindsAssumption == Apis \cap Workers = {}

Containers == Apis \cup Workers

\* What the settings ask initialize_database_schema to do; "none" is no
\* strategy at all outside local mode.
Modes == {"migrations", "metadata", "skipped", "none"}
Config == [mode: Modes, seed_demo_data: BOOLEAN]

\* Of its settings a worker only reads whether its entrypoint migrates.
ConfigsFor(c) ==
    IF c \in Apis
    THEN Config
    ELSE [mode: {"migrations", "skipped"}, seed_demo_data: {FALSE}]

DemoTables == <<"trade_audit_logs", "strategy_runs", "trade_orders", "positions",
                "reconciliation_runs">>
TradingTables == {DemoTables[i] : i \in DOMAIN DemoTables}

\* The tables of revisions 0001 and 0002, and those of the models.
MigratedTables == TradingTables
ModelTables == TradingTables \cup {"users"}

LocalUsers == <<"trader", "operator", "admin">>
UserNames == {LocalUsers[i] : i \in DOMAIN LocalUsers}

VARIABLES
    config,    \* the settings each container was last started with
    pc,        \* where each start is
    step,      \* the user or the demo row it is at
    seen,      \* what its last read of the database found: tables, "head", users, rows
    tables,    \* the tables that exist
    atHead,    \* alembic_version is at 0002
    users,     \* the local users that exist
    demo,      \* demo rows ever inserted, by table; the positions row counts upserts
    position,  \* whose row the demo symbol has in positions: "none", "demo" or "trade"
    trades,    \* orders that the application has recorded
    disturbed, \* some start has met another start, or a trade, on its way
    met,       \* the starts under way that have
    starts, faults

startVars == <<config, pc, step, seen>>
schemaVars == <<tables, atHead>>
rowVars == <<users, demo, position, trades>>
historyVars == <<disturbed, met>>
countVars == <<starts, faults>>
vars == <<startVars, schemaVars, rowVars, historyVars, countVars>>

Init ==
    /\ config = [c \in Containers |-> [mode |-> "none", seed_demo_data |-> FALSE]]
    /\ pc = [c \in Containers |-> "down"]
    /\ step = [c \in Containers |-> 1]
    /\ seen = [c \in Containers |-> {}]
    /\ tables = {}
    /\ atHead = FALSE
    /\ users = {}
    /\ demo = [t \in TradingTables |-> 0]
    /\ position = "none"
    /\ trades = 0
    /\ disturbed = FALSE
    /\ met = {}
    /\ starts = 0
    /\ faults = 0

Starting == {"entry", "entry_upgrade", "schema", "upgrade", "create_all", "check_user",
             "create_user", "check_demo", "insert_demo", "upsert_position"}
Labels == {"down", "up", "failed"} \cup Starting

UnderWay == {c \in Containers : pc[c] \in Starting}

Goto(c, label) == pc' = [pc EXCEPT ![c] = label]
Forget(c) == seen' = [seen EXCEPT ![c] = {}]

\* An exception, or the end of the process: what it had read is gone with it.
Fail(c) == Goto(c, "failed") /\ Forget(c) /\ step' = [step EXCEPT ![c] = 1]

\* An operator starts a container, or starts it again.
Start(c) ==
    /\ pc[c] \in {"down", "failed", "up"}
    /\ starts < MaxStarts
    /\ starts' = starts + 1
    /\ \E conf \in ConfigsFor(c) : config' = [config EXCEPT ![c] = conf]
    /\ Goto(c, "entry")
    /\ disturbed' = (disturbed \/ UnderWay # {})
    /\ met' = IF UnderWay = {} THEN {} ELSE UnderWay \cup {c}
    /\ UNCHANGED <<step, seen, schemaVars, rowVars, faults>>

-----------------------------------------------------------------------------
(* Schema.                                                                 *)

\* The entrypoint's migrations, in every container, or straight on.
Enter(c) ==
    /\ pc[c] = "entry"
    /\ IF config[c].mode = "migrations"
       THEN /\ seen' = [seen EXCEPT ![c] = IF atHead THEN {"head"} ELSE {}]
            /\ Goto(c, "entry_upgrade")
       ELSE /\ seen' = seen
            /\ Goto(c, IF c \in Apis THEN "schema" ELSE "up")
    /\ UNCHANGED <<config, step, schemaVars, rowVars, historyVars, countVars>>

\* What both revisions create: PostgreSQL commits it with the version, as one.
UpgradeTables == tables' = tables \cup MigratedTables /\ atHead' = TRUE

\* "alembic upgrade head": nothing to do at head, else both revisions, which
\* fail when a table of theirs is there.
Upgrade(c, from, next) ==
    /\ pc[c] = from
    /\ \/ /\ "head" \in seen[c]
          /\ Goto(c, next) /\ UNCHANGED schemaVars
       \/ /\ "head" \notin seen[c]
          /\ tables \cap MigratedTables = {}
          /\ UpgradeTables /\ Goto(c, next)
       \/ /\ "head" \notin seen[c]
          /\ tables \cap MigratedTables # {}
          /\ Goto(c, "failed") /\ UNCHANGED schemaVars
    /\ Forget(c)
    /\ UNCHANGED <<config, step, rowVars, historyVars, countVars>>

EntryUpgrade(c) == Upgrade(c, "entry_upgrade", IF c \in Apis THEN "schema" ELSE "up")

\* initialize_database_schema up to its first read.
ChooseSchema(c) ==
    /\ pc[c] = "schema"
    /\ \/ /\ config[c].mode = "migrations"
          /\ seen' = [seen EXCEPT ![c] = IF atHead THEN {"head"} ELSE {}]
          /\ Goto(c, "upgrade")
       \/ /\ config[c].mode = "metadata"
          /\ seen' = [seen EXCEPT ![c] = tables]
          /\ Goto(c, "create_all")
       \/ /\ config[c].mode = "skipped"
          /\ seen' = seen
          /\ Goto(c, "check_user")
       \/ /\ config[c].mode = "none"
          /\ seen' = seen
          /\ Goto(c, "failed")
    /\ UNCHANGED <<config, step, schemaVars, rowVars, historyVars, countVars>>

SchemaUpgrade(c) == Upgrade(c, "upgrade", "check_user")

\* Mutant: it creates every table of the models, whatever is there.
CreateAllUnchecked(c) ==
    /\ pc[c] = "create_all"
    /\ IF ModelTables \cap tables = {}
       THEN tables' = tables \cup ModelTables /\ Goto(c, "check_user")
       ELSE tables' = tables /\ Goto(c, "failed")
    /\ Forget(c)
    /\ UNCHANGED <<config, step, atHead, rowVars, historyVars, countVars>>

\* create_all adds the tables it did not see, and fails if one has come since.
CreateAll(c) ==
    /\ pc[c] = "create_all"
    /\ IF (ModelTables \ seen[c]) \cap tables = {}
       THEN tables' = tables \cup ModelTables /\ Goto(c, "check_user")
       ELSE tables' = tables /\ Goto(c, "failed")
    /\ Forget(c)
    /\ UNCHANGED <<config, step, atHead, rowVars, historyVars, countVars>>

-----------------------------------------------------------------------------
(* seed_demo_data.                                                         *)

\* One local user is there: the next one, the demo data, or nothing more to do.
AfterUser(c) ==
    IF step[c] < Len(LocalUsers)
    THEN step' = [step EXCEPT ![c] = @ + 1] /\ Goto(c, "check_user")
    ELSE /\ step' = [step EXCEPT ![c] = 1]
         /\ Goto(c, IF config[c].seed_demo_data THEN "check_demo" ELSE "up")

\* Mutant: without a users table the start goes on, with no users.
CheckUserIfTable(c) ==
    /\ pc[c] = "check_user"
    /\ \/ "users" \notin tables /\ Goto(c, "check_demo") /\ UNCHANGED step
       \/ "users" \in tables /\ LocalUsers[step[c]] \in users /\ AfterUser(c)
       \/ /\ "users" \in tables
          /\ LocalUsers[step[c]] \notin users
          /\ Goto(c, "create_user") /\ UNCHANGED step
    /\ UNCHANGED <<config, seen, schemaVars, rowVars, historyVars, countVars>>

\* Mutant: without a users table the start tries its schema again.
CheckUserAgain(c) ==
    /\ pc[c] = "check_user"
    /\ \/ "users" \notin tables /\ Goto(c, "schema") /\ UNCHANGED step
       \/ "users" \in tables /\ LocalUsers[step[c]] \in users /\ AfterUser(c)
       \/ /\ "users" \in tables
          /\ LocalUsers[step[c]] \notin users
          /\ Goto(c, "create_user") /\ UNCHANGED step
    /\ UNCHANGED <<config, seen, schemaVars, rowVars, historyVars, countVars>>

\* get_by_username of the next local user; without the table it raises.
CheckUser(c) ==
    /\ pc[c] = "check_user"
    /\ \/ "users" \notin tables /\ Fail(c)
       \/ "users" \in tables /\ LocalUsers[step[c]] \in users /\ AfterUser(c) /\ UNCHANGED seen
       \/ /\ "users" \in tables
          /\ LocalUsers[step[c]] \notin users
          /\ Goto(c, "create_user") /\ UNCHANGED <<step, seen>>
    /\ UNCHANGED <<config, schemaVars, rowVars, historyVars, countVars>>

\* create_user; the username is unique, so a second insert raises.
CreateUser(c) ==
    /\ pc[c] = "create_user"
    /\ \/ /\ LocalUsers[step[c]] \notin users
          /\ users' = users \cup {LocalUsers[step[c]]}
          /\ AfterUser(c) /\ UNCHANGED seen
       \/ /\ LocalUsers[step[c]] \in users
          /\ Fail(c) /\ UNCHANGED users
    /\ UNCHANGED <<config, schemaVars, demo, position, trades, historyVars, countVars>>

\* Mutant: only the positions decide whether the database is empty.
PositionsRecorded == position # "none"

\* The application has orders or positions, its own or those of a seed.
RecordsExist == demo["trade_orders"] + trades > 0 \/ position # "none"

\* Both counts; TradingTables come and go together.
CheckDemo(c) ==
    /\ pc[c] = "check_demo"
    /\ Goto(c, IF MigratedTables \subseteq tables
               THEN IF RecordsExist THEN "up" ELSE "insert_demo"
               ELSE "failed")
    /\ UNCHANGED <<config, step, seen, schemaVars, rowVars, historyVars, countVars>>

\* Mutant: the position is written before the order it belongs to.
PositionBeforeOrder ==
    <<"trade_audit_logs", "strategy_runs", "positions", "trade_orders", "reconciliation_runs">>

\* The order in which the demo rows are written.
SeedOrder == DemoTables

\* Mutant: it looks for one more row.
AfterDemoNext(c) ==
    /\ demo' = [demo EXCEPT ![SeedOrder[step[c]]] = @ + 1]
    /\ step' = [step EXCEPT ![c] = @ + 1]
    /\ Goto(c, IF step[c] <= Len(SeedOrder) THEN "insert_demo" ELSE "up")

\* After the demo row at hand: the next one, or up.
AfterDemo(c) ==
    /\ demo' = [demo EXCEPT ![SeedOrder[step[c]]] = @ + 1]
    /\ IF step[c] < Len(SeedOrder)
       THEN step' = [step EXCEPT ![c] = @ + 1] /\ Goto(c, "insert_demo")
       ELSE step' = [step EXCEPT ![c] = 1] /\ Goto(c, "up")

\* The next demo row; for a position, upsert_position's SELECT.
InsertDemo(c) ==
    /\ pc[c] = "insert_demo"
    /\ \/ SeedOrder[step[c]] # "positions" /\ AfterDemo(c) /\ UNCHANGED seen
       \/ /\ SeedOrder[step[c]] = "positions"
          /\ seen' = [seen EXCEPT ![c] = IF position = "none" THEN {} ELSE {"positions"}]
          /\ Goto(c, "upsert_position")
          /\ UNCHANGED <<step, demo>>
    /\ UNCHANGED <<config, schemaVars, users, position, trades, historyVars, countVars>>

\* The upsert writes over any row it has seen; an insert may have lost.
UpsertDemoPosition(c) ==
    /\ pc[c] = "upsert_position"
    /\ IF seen[c] = {} /\ position # "none"
       THEN Fail(c) /\ UNCHANGED <<demo, position>>
       ELSE AfterDemo(c) /\ position' = "demo" /\ Forget(c)
    /\ UNCHANGED <<config, schemaVars, users, trades, historyVars, countVars>>

-----------------------------------------------------------------------------
\* A running application records a trade; its position row may be lost.
Trade(c) ==
    /\ c \in Apis
    /\ pc[c] = "up"
    /\ trades < MaxTrades
    /\ "trade_orders" \in tables
    /\ trades' = trades + 1
    /\ position' \in {position, "trade"}
    /\ disturbed' = (disturbed \/ UnderWay # {})
    /\ met' = UnderWay
    /\ UNCHANGED <<startVars, schemaVars, users, demo, countVars>>

\* The container dies, a wait for a service times out, or a database call
\* raises; nothing in a start catches it.
Interrupted(c) ==
    /\ pc[c] \in Starting
    /\ faults < MaxFaults
    /\ faults' = faults + 1
    /\ Fail(c)
    /\ UNCHANGED <<config, schemaVars, rowVars, historyVars, starts>>

Step(c) ==
    \/ Enter(c)
    \/ EntryUpgrade(c)
    \/ ChooseSchema(c)
    \/ SchemaUpgrade(c)
    \/ CreateAll(c)
    \/ CheckUser(c)
    \/ CreateUser(c)
    \/ CheckDemo(c)
    \/ InsertDemo(c)
    \/ UpsertDemoPosition(c)

\* No start is under way.
Settled == UnderWay = {} /\ UNCHANGED vars

Next ==
    \/ \E c \in Containers : Start(c) \/ Step(c) \/ Trade(c) \/ Interrupted(c)
    \/ Settled

\* A start goes on; nobody has to start anything.
Fairness == \A c \in Containers : WF_vars(Step(c))

Spec == Init /\ [][Next]_vars /\ Fairness
-----------------------------------------------------------------------------
(* Properties.                                                             *)

\* Every variable stays in its range.
TypeOK ==
    /\ config \in [Containers -> Config]
    /\ pc \in [Containers -> Labels]
    /\ step \in [Containers -> 1..Len(DemoTables)]
    /\ seen \in [Containers -> SUBSET (ModelTables \cup {"head"})]
    /\ tables \subseteq ModelTables
    /\ atHead \in BOOLEAN
    /\ users \subseteq UserNames
    /\ demo \in [TradingTables -> Nat]
    /\ position \in {"none", "demo", "trade"}
    /\ trades \in 0..MaxTrades
    /\ disturbed \in BOOLEAN
    /\ met \subseteq Containers
    /\ starts \in 0..MaxStarts
    /\ faults \in 0..MaxFaults

\* An API that answers has every table and every local user, and records to
\* show if it was to seed them - whatever starts, failed starts and settings
\* came before, and whoever started beside it.
UpMeansReady ==
    \A c \in Apis : pc[c] = "up" =>
        /\ tables = ModelTables
        /\ users = UserNames
        /\ config[c].seed_demo_data => RecordsExist

\* Whatever earlier starts have left behind - migrations without a users table,
\* some of the users, demo rows up to any place, twice over - an API started with
\* BOOTSTRAP_SCHEMA fails only if it is interrupted or meets another start or a
\* trade on its way.
LoneBootstrapsComeUp ==
    [][\A c \in Apis :
          config[c].mode = "metadata" /\ pc[c] # "failed" /\ pc'[c] = "failed" =>
              c \in met \/ faults' # faults]_vars

\* However often seeding is interrupted or done twice, a demo position has its
\* order, the order its strategy run, and the run its audit row.
DemoRowsHaveTheirCause ==
    /\ demo["reconciliation_runs"] <= demo["positions"]
    /\ demo["positions"] <= demo["trade_orders"]
    /\ demo["trade_orders"] <= demo["strategy_runs"]
    /\ demo["strategy_runs"] <= demo["trade_audit_logs"]

\* Starts that nothing disturbed seed one order, one position and one run of
\* reconciliation at most, and one audit row for each of them that broke off.
QuietStartsSeedOnce ==
    ~disturbed =>
        /\ demo["trade_orders"] <= 1
        /\ demo["positions"] <= 1
        /\ demo["reconciliation_runs"] <= 1
        /\ demo["trade_audit_logs"] <= 1 + faults

\* A quiet start never adds demo rows to a database that has traded.
QuietStartsKeepTrades ==
    [][demo' # demo /\ ~disturbed => trades = 0 /\ position # "trade"]_vars

\* Every start comes up or fails.
EveryStartEnds == \A c \in Containers : pc[c] \in Starting ~> pc[c] \in {"up", "failed"}
=============================================================================
