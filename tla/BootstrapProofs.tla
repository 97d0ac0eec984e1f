-------------------------- MODULE BootstrapProofs --------------------------
(* What every start can rely on, for any containers, settings, deaths and    *)
(* trades, and in any order.                                                *)
EXTENDS Bootstrap, FiniteSetTheorems, TLAPS

Reading == {"check_user", "create_user"}
Seeding == {"insert_demo", "upsert_position"}

\* Only the loops over users and demo rows are past their first element, and
\* the loop over users stays within it.
StepInLoop ==
    \A c \in Containers :
        /\ pc[c] \notin Reading \cup Seeding => step[c] = 1
        /\ pc[c] \in Reading => step[c] <= 3

TypeInv == TypeOK /\ StepInLoop

USE DEF startVars, schemaVars, rowVars, historyVars, countVars

-----------------------------------------------------------------------------
(* The lists of the code.                                                  *)

\* Three users, and the set of their names.
LEMMA LocalUsersAre ==
    /\ Len(LocalUsers) = 3
    /\ UserNames = {LocalUsers[1], LocalUsers[2], LocalUsers[3]}
<1>1. Len(LocalUsers) = 3 BY DEF LocalUsers
<1>2. DOMAIN LocalUsers = {1, 2, 3} BY DEF LocalUsers
<1>3. QED BY <1>1, <1>2 DEF UserNames

\* Five rows in five tables, the order at the third place.
LEMMA SeedOrderIs ==
    /\ Len(DemoTables) = 5
    /\ Len(SeedOrder) = 5
    /\ TradingTables = {DemoTables[1], DemoTables[2], DemoTables[3], DemoTables[4], DemoTables[5]}
    /\ SeedOrder[3] = "trade_orders"
    /\ \A i \in 1..5 : SeedOrder[i] \in TradingTables
<1>1. Len(DemoTables) = 5 /\ DOMAIN DemoTables = {1, 2, 3, 4, 5} BY DEF DemoTables
<1>2. TradingTables = {DemoTables[1], DemoTables[2], DemoTables[3], DemoTables[4], DemoTables[5]}
  BY <1>1 DEF TradingTables
<1>3. DemoTables[3] = "trade_orders" BY DEF DemoTables
<1>4. QED BY <1>1, <1>2, <1>3 DEF SeedOrder

\* A trading table is a table of the models.
LEMMA SchemaSets == MigratedTables \subseteq ModelTables
  BY DEF MigratedTables, ModelTables

-----------------------------------------------------------------------------
(* Types.                                                                  *)

LEMMA TypeInit == Init => TypeInv
  <1> SUFFICES ASSUME Init PROVE TypeInv
    OBVIOUS
  <1>1. TypeOK
    <2>1. config \in [Containers -> Config]
      BY DEF Init, Config, Modes
    <2>2. step \in [Containers -> 1..Len(DemoTables)]
      BY SeedOrderIs DEF Init
    <2>3. /\ pc \in [Containers -> Labels]
          /\ seen \in [Containers -> SUBSET (ModelTables \cup {"head"})]
          /\ demo \in [TradingTables -> Nat]
      BY DEF Init, Labels
    <2>4. trades \in 0..MaxTrades /\ starts \in 0..MaxStarts /\ faults \in 0..MaxFaults
      BY NumbersAssumption DEF Init
    <2>5. QED
      BY <2>1, <2>2, <2>3, <2>4 DEF Init, TypeOK
  <1>2. StepInLoop
    BY DEF Init, StepInLoop, Reading, Seeding
  <1>3. QED
    BY <1>1, <1>2 DEF TypeInv

\* The labels that move to the next element of a loop, or past it.
LEMMA AfterUserTypes ==
    ASSUME TypeInv, NEW c \in Containers, pc[c] \in Reading, AfterUser(c)
    PROVE  /\ pc' \in [Containers -> Labels]
           /\ step' \in [Containers -> 1..5]
           /\ StepInLoop'
  BY LocalUsersAre, SeedOrderIs
     DEF TypeInv, TypeOK, StepInLoop, AfterUser, Goto, Labels, Starting, Reading, Seeding

LEMMA AfterDemoTypes ==
    ASSUME TypeInv, NEW c \in Containers, pc[c] \in Seeding, AfterDemo(c)
    PROVE  /\ pc' \in [Containers -> Labels]
           /\ step' \in [Containers -> 1..5]
           /\ demo' \in [TradingTables -> Nat]
           /\ StepInLoop'
  BY SeedOrderIs
     DEF TypeInv, TypeOK, StepInLoop, AfterDemo, Goto, Labels, Starting, Reading, Seeding

LEMMA TypeStep == TypeInv /\ [Next]_vars => TypeInv'
  <1> SUFFICES ASSUME TypeInv, [Next]_vars PROVE TypeInv'
    OBVIOUS
  <1> USE SeedOrderIs, SchemaSets
  <1> USE DEF TypeInv, TypeOK, Goto, Forget, Fail
  <1>1. ASSUME NEW c \in Containers, Start(c) PROVE TypeInv'
    <2>1. ConfigsFor(c) \subseteq Config
      BY DEF ConfigsFor, Config, Modes
    <2>2. StepInLoop' /\ pc' \in [Containers -> Labels]
      BY <1>1 DEF Start, StepInLoop, Labels, Starting, Reading, Seeding
    <2>3. config' \in [Containers -> Config]
      BY <1>1, <2>1 DEF Start
    <2>4. disturbed' \in BOOLEAN /\ met' \subseteq Containers
      BY <1>1 DEF Start, UnderWay
    <2>5. starts' \in 0..MaxStarts
      BY <1>1, NumbersAssumption DEF Start
    <2>6. QED
      BY <1>1, <2>2, <2>3, <2>4, <2>5 DEF Start
  <1>2. ASSUME NEW c \in Containers, Enter(c) PROVE TypeInv'
    BY <1>2 DEF Enter, StepInLoop, Labels, Starting, Reading, Seeding
  <1>3. ASSUME NEW c \in Containers, NEW from \in {"entry_upgrade", "upgrade"},
               NEW next \in {"schema", "up", "check_user"}, Upgrade(c, from, next)
        PROVE  TypeInv'
    <2>1. tables' \subseteq ModelTables /\ atHead' \in BOOLEAN
      BY <1>3 DEF Upgrade, UpgradeTables
    <2>2. PICK label \in {next, "failed"} : Goto(c, label)
      BY <1>3 DEF Upgrade
    <2>3. StepInLoop' /\ pc' \in [Containers -> Labels]
      BY <1>3, <2>2 DEF Upgrade, StepInLoop, Labels, Starting, Reading, Seeding
    <2>4. seen' \in [Containers -> SUBSET (ModelTables \cup {"head"})]
      BY <1>3 DEF Upgrade
    <2>5. QED
      BY <1>3, <2>1, <2>3, <2>4 DEF Upgrade
  <1>4. ASSUME NEW c \in Containers, ChooseSchema(c) PROVE TypeInv'
    BY <1>4 DEF ChooseSchema, StepInLoop, Labels, Starting, Reading, Seeding
  <1>5. ASSUME NEW c \in Containers, CreateAll(c) PROVE TypeInv'
    BY <1>5 DEF CreateAll, StepInLoop, Labels, Starting, Reading, Seeding
  <1>6. ASSUME NEW c \in Containers, CheckUser(c) PROVE TypeInv'
    <2>1. CASE AfterUser(c)
      BY <1>6, <2>1, AfterUserTypes DEF CheckUser, Reading
    <2>2. CASE ~AfterUser(c)
      BY <1>6, <2>2 DEF CheckUser, StepInLoop, Labels, Starting, Reading, Seeding
    <2>3. QED
      BY <2>1, <2>2
  <1>7. ASSUME NEW c \in Containers, CreateUser(c) PROVE TypeInv'
    <2>1. users' \subseteq UserNames
      <3>1. step[c] \in 1..3
        BY <1>7 DEF CreateUser, StepInLoop, Reading
      <3>2. LocalUsers[step[c]] \in UserNames
        BY <3>1, LocalUsersAre
      <3>3. QED
        BY <1>7, <3>2 DEF CreateUser
    <2>2. CASE AfterUser(c)
      BY <1>7, <2>1, <2>2, AfterUserTypes DEF CreateUser, Reading
    <2>3. CASE ~AfterUser(c)
      BY <1>7, <2>1, <2>3 DEF CreateUser, StepInLoop, Labels, Starting, Reading, Seeding
    <2>4. QED
      BY <2>2, <2>3
  <1>8. ASSUME NEW c \in Containers, CheckDemo(c) PROVE TypeInv'
    BY <1>8 DEF CheckDemo, StepInLoop, Labels, Starting, Reading, Seeding
  <1>9. ASSUME NEW c \in Containers, InsertDemo(c) PROVE TypeInv'
    <2>1. CASE AfterDemo(c)
      BY <1>9, <2>1, AfterDemoTypes DEF InsertDemo, Seeding, ModelTables
    <2>2. CASE ~AfterDemo(c)
      <3>1. "positions" \in ModelTables
        BY SeedOrderIs DEF DemoTables, ModelTables
      <3>2. QED
        BY <1>9, <2>2, <3>1 DEF InsertDemo, StepInLoop, Labels, Starting, Reading, Seeding
    <2>3. QED
      BY <2>1, <2>2
  <1>10. ASSUME NEW c \in Containers, UpsertDemoPosition(c) PROVE TypeInv'
    <2>1. CASE AfterDemo(c)
      BY <1>10, <2>1, AfterDemoTypes DEF UpsertDemoPosition, Seeding
    <2>2. CASE ~AfterDemo(c)
      BY <1>10, <2>2 DEF UpsertDemoPosition, StepInLoop, Labels, Starting, Reading, Seeding
    <2>3. QED
      BY <2>1, <2>2
  <1>11. ASSUME NEW c \in Containers, Trade(c) PROVE TypeInv'
    BY <1>11, NumbersAssumption DEF Trade, StepInLoop, UnderWay
  <1>12. ASSUME NEW c \in Containers, Interrupted(c) PROVE TypeInv'
    BY <1>12, NumbersAssumption
    DEF Interrupted, StepInLoop, Labels, Starting, Reading, Seeding
  <1>13. CASE UNCHANGED vars
    BY <1>13 DEF vars, StepInLoop
  <1>14. QED
    BY <1>1, <1>2, <1>3, <1>4, <1>5, <1>6, <1>7, <1>8, <1>9, <1>10, <1>11, <1>12, <1>13
    DEF Next, Step, EntryUpgrade, SchemaUpgrade, Settled

\* Every variable keeps its type: in particular no start ever looks for a user
\* or a demo row beyond the last.
THEOREM TypeCorrect == Spec => []TypeOK
  <1>1. Init => TypeInv
    BY TypeInit
  <1>2. TypeInv /\ [Next]_vars => TypeInv'
    BY TypeStep
  <1>3. TypeInv => TypeOK
    BY DEF TypeInv
  <1>4. QED
    BY <1>1, <1>2, <1>3, PTL DEF Spec

-----------------------------------------------------------------------------
(* What an API that is up can rely on.                                      *)

\* The users table comes with all the others, or not at all.
TablesInv == "users" \in tables => tables = ModelTables

\* What start c has made sure of, where it is.
Ensured(c) ==
    /\ pc[c] = "create_user" => "users" \in tables
    /\ pc[c] \in Reading => \A i \in 1..(step[c] - 1) : LocalUsers[i] \in users
    /\ pc[c] \in Reading /\ step[c] > 1 => "users" \in tables
    /\ pc[c] \in Seeding \cup {"check_demo"} \/ (pc[c] = "up" /\ c \in Apis) =>
           "users" \in tables /\ users = UserNames
    /\ pc[c] \in Seeding /\ step[c] > 3 => RecordsExist
    /\ pc[c] = "up" /\ c \in Apis /\ config[c].seed_demo_data => RecordsExist

ReadyInv == TypeInv /\ TablesInv /\ \A c \in Containers : Ensured(c)

LEMMA ReadyInit == Init => ReadyInv
  <1> SUFFICES ASSUME Init PROVE ReadyInv
    OBVIOUS
  <1>1. TypeInv
    BY TypeInit
  <1>2. TablesInv
    BY DEF Init, TablesInv
  <1>3. \A c \in Containers : Ensured(c)
    BY DEF Init, Ensured, Reading, Seeding
  <1>4. QED
    BY <1>1, <1>2, <1>3 DEF ReadyInv

\* What no step undoes: tables, users and records stay.
Kept ==
    /\ tables \subseteq tables'
    /\ users \subseteq users' /\ users' \subseteq UserNames
    /\ RecordsExist => RecordsExist'

\* What start c has ensured stays so while another start or a trade goes on.
LEMMA OthersStayEnsured ==
    ASSUME ReadyInv, Kept, TablesInv', NEW c \in Containers,
           pc'[c] = pc[c], step'[c] = step[c], config'[c] = config[c]
    PROVE  Ensured(c)'
  <1>1. "users" \in tables => "users" \in tables'
    BY DEF Kept
  <1>2. users = UserNames => users' = UserNames
    BY DEF Kept
  <1>3. QED
    BY <1>1, <1>2 DEF ReadyInv, Ensured, Kept

\* Steps that leave demo rows, orders and positions alone.
LEMMA RecordsUntouched ==
    ASSUME UNCHANGED <<demo, trades, position>>
    PROVE  RecordsExist' = RecordsExist
  BY DEF RecordsExist

\* An upgrade finds none of the migrated tables, so it never meets users.
LEMMA UpgradeKeepsTables ==
    ASSUME ReadyInv, tables \cap MigratedTables = {}, UpgradeTables
    PROVE  TablesInv'
  <1>1. "trade_orders" \in MigratedTables /\ "users" \notin MigratedTables
    BY SeedOrderIs DEF DemoTables, MigratedTables, SeedOrder
  <1>2. "users" \notin tables
    BY <1>1 DEF ReadyInv, TablesInv, ModelTables, MigratedTables
  <1>3. QED
    BY <1>1, <1>2 DEF UpgradeTables, TablesInv

\* Past one user the next is looked for; past the last all are there.
LEMMA AfterUserEnsures ==
    ASSUME ReadyInv, NEW c \in Containers, pc[c] \in Reading, AfterUser(c),
           "users" \in tables', config' = config,
           users \subseteq users', users' \subseteq UserNames, LocalUsers[step[c]] \in users'
    PROVE  Ensured(c)'
  <1>1. step[c] \in 1..3
    BY SeedOrderIs DEF ReadyInv, TypeInv, TypeOK, StepInLoop
  <1>2. \A i \in 1..step[c] : LocalUsers[i] \in users'
    BY <1>1 DEF ReadyInv, Ensured
  <1>3. CASE step[c] < 3
    <2>1. pc'[c] = "check_user" /\ step'[c] = step[c] + 1
      BY <1>3, LocalUsersAre DEF AfterUser, Goto, ReadyInv, TypeInv, TypeOK
    <2>2. QED
      BY <1>1, <1>2, <2>1 DEF Ensured, Reading, Seeding
  <1>4. CASE step[c] = 3
    <2>1. /\ pc'[c] = IF config[c].seed_demo_data THEN "check_demo" ELSE "up"
          /\ step'[c] = 1
      BY <1>4, LocalUsersAre DEF AfterUser, Goto, ReadyInv, TypeInv, TypeOK
    <2>2. users' = UserNames
      BY <1>2, <1>4, LocalUsersAre
    <2>3. QED
      BY <2>1, <2>2 DEF Ensured, Reading, Seeding
  <1>5. QED
    BY <1>1, <1>3, <1>4

\* From the order on there are records, and the end of the list is past it.
LEMMA AfterDemoEnsures ==
    ASSUME ReadyInv, NEW c \in Containers, pc[c] \in Seeding, AfterDemo(c),
           UNCHANGED <<tables, users, config>>, step[c] > 3 => RecordsExist',
           trades' = trades
    PROVE  Ensured(c)'
  <1>1. step[c] \in 1..5 /\ demo \in [TradingTables -> Nat] /\ trades \in Nat
    BY SeedOrderIs, NumbersAssumption DEF ReadyInv, TypeInv, TypeOK
  <1>2. step[c] = 3 => RecordsExist'
    BY <1>1, SeedOrderIs DEF AfterDemo, RecordsExist
  <1>3. CASE step[c] < 5
    <2>1. pc'[c] = "insert_demo" /\ step'[c] = step[c] + 1
      BY <1>3, SeedOrderIs DEF AfterDemo, Goto, ReadyInv, TypeInv, TypeOK
    <2>2. QED
      BY <1>1, <1>2, <2>1 DEF ReadyInv, Ensured, Reading, Seeding
  <1>4. CASE step[c] = 5
    <2>1. pc'[c] = "up"
      BY <1>4, SeedOrderIs DEF AfterDemo, Goto, ReadyInv, TypeInv, TypeOK
    <2>2. QED
      BY <1>4, <2>1 DEF ReadyInv, Ensured, Reading, Seeding
  <1>5. QED
    BY <1>1, <1>3, <1>4

\* A demo row or a trade never makes the records fewer.
LEMMA RecordsOnlyGrow ==
    ASSUME TypeInv, RecordsExist, demo' \in [TradingTables -> Nat], trades' \in Nat,
           demo'["trade_orders"] >= demo["trade_orders"], trades' >= trades,
           position' = position \/ position' # "none"
    PROVE  RecordsExist'
  <1>1. demo["trade_orders"] \in Nat /\ demo'["trade_orders"] \in Nat /\ trades \in Nat
    BY SeedOrderIs, NumbersAssumption DEF TypeInv, TypeOK
  <1>2. QED
    BY <1>1 DEF RecordsExist

\* After the row at hand no table has fewer demo rows.
LEMMA AfterDemoKeepsRecords ==
    ASSUME TypeInv, NEW c \in Containers, AfterDemo(c), RecordsExist, trades' = trades,
           position' = position \/ position' # "none"
    PROVE  RecordsExist'
  <1>1. step[c] \in 1..5 /\ demo \in [TradingTables -> Nat] /\ trades \in Nat
    BY SeedOrderIs, NumbersAssumption DEF TypeInv, TypeOK
  <1>2. /\ demo' \in [TradingTables -> Nat]
        /\ demo'["trade_orders"] >= demo["trade_orders"]
    BY <1>1, SeedOrderIs DEF AfterDemo
  <1>3. QED
    BY <1>1, <1>2, RecordsOnlyGrow

\* A step of start c keeps the invariant if it keeps what is there and ensures
\* what c is to have ensured.
LEMMA StepOfOne ==
    ASSUME ReadyInv, [Next]_vars, Kept, TablesInv', NEW c \in Containers, Ensured(c)',
           \A d \in Containers \ {c} :
               pc'[d] = pc[d] /\ step'[d] = step[d] /\ config'[d] = config[d]
    PROVE  ReadyInv'
  <1>1. TypeInv'
    BY TypeStep DEF ReadyInv
  <1>2. ASSUME NEW d \in Containers \ {c} PROVE Ensured(d)'
    BY OthersStayEnsured
  <1>3. QED
    BY <1>1, <1>2 DEF ReadyInv

LEMMA ReadyStep == ReadyInv /\ [Next]_vars => ReadyInv'
  <1> SUFFICES ASSUME ReadyInv, [Next]_vars PROVE ReadyInv'
    OBVIOUS
  <1> USE DEF Goto, Forget, Fail
  <1>0. TypeInv /\ TypeInv' /\ TablesInv
    BY TypeStep DEF ReadyInv
  <1>a. tables \subseteq ModelTables /\ users \subseteq UserNames /\ users' \subseteq UserNames
    BY <1>0 DEF TypeInv, TypeOK
  <1>b. \A d \in Containers : Ensured(d)
    BY DEF ReadyInv
  <1>c. /\ pc \in [Containers -> Labels]
        /\ step \in [Containers -> 1..5]
        /\ config \in [Containers -> Config]
    BY <1>0, SeedOrderIs DEF TypeInv, TypeOK
  <1>1. ASSUME NEW c \in Containers, Start(c) PROVE ReadyInv'
    <2>1. Kept /\ TablesInv'
      BY <1>0, <1>1, <1>a, RecordsUntouched DEF Start, Kept, TablesInv
    <2>2. Ensured(c)'
      BY <1>0, <1>1 DEF Start, Ensured, Reading, Seeding, TypeInv, TypeOK
    <2>3. QED
      BY <1>c, <1>1, <2>1, <2>2, StepOfOne DEF Start
  <1>2. ASSUME NEW c \in Containers, Enter(c) PROVE ReadyInv'
    <2>1. Kept /\ TablesInv'
      BY <1>0, <1>2, <1>a, RecordsUntouched DEF Enter, Kept, TablesInv
    <2>2. Ensured(c)'
      BY <1>0, <1>2 DEF Enter, Ensured, Reading, Seeding, TypeInv, TypeOK
    <2>3. QED
      BY <1>c, <1>2, <2>1, <2>2, StepOfOne DEF Enter
  <1>3. ASSUME NEW c \in Containers, EntryUpgrade(c) \/ SchemaUpgrade(c) PROVE ReadyInv'
    <2>1. PICK from \in {"entry_upgrade", "upgrade"},
               next \in {"schema", "up", "check_user"} :
              /\ Upgrade(c, from, next)
              /\ next = "up" => c \notin Apis
              /\ next = "check_user" => from = "upgrade"
      BY <1>3 DEF EntryUpgrade, SchemaUpgrade
    <2>2. TablesInv'
      <3>1. CASE UNCHANGED schemaVars
        BY <1>0, <3>1 DEF TablesInv
      <3>2. CASE tables \cap MigratedTables = {} /\ UpgradeTables
        BY <3>2, UpgradeKeepsTables
      <3>3. QED
        BY <2>1, <3>1, <3>2 DEF Upgrade
    <2>3. Kept
      BY <2>1, <1>a, RecordsUntouched DEF Upgrade, UpgradeTables, Kept
    <2>4. pc'[c] \in {next, "failed"} /\ step'[c] = 1
      BY <2>1, <1>0 DEF Upgrade, TypeInv, TypeOK, StepInLoop, Reading, Seeding
    <2>5. Ensured(c)'
      BY <2>1, <2>4 DEF Ensured, Reading, Seeding
    <2>6. \A d \in Containers \ {c} :
             pc'[d] = pc[d] /\ step'[d] = step[d] /\ config'[d] = config[d]
      BY <1>c, <2>1 DEF Upgrade
    <2>7. QED
      BY <2>2, <2>3, <2>5, <2>6, StepOfOne
  <1>4. ASSUME NEW c \in Containers, ChooseSchema(c) PROVE ReadyInv'
    <2>1. Kept /\ TablesInv'
      BY <1>0, <1>4, <1>a, RecordsUntouched DEF ChooseSchema, Kept, TablesInv
    <2>2. step'[c] = 1 /\ pc'[c] \in {"upgrade", "create_all", "check_user", "failed"}
      BY <1>0, <1>4 DEF ChooseSchema, TypeInv, TypeOK, StepInLoop, Reading, Seeding
    <2>3. Ensured(c)'
      BY <2>2 DEF Ensured, Reading, Seeding
    <2>4. QED
      BY <1>c, <1>4, <2>1, <2>3, StepOfOne DEF ChooseSchema
  <1>5. ASSUME NEW c \in Containers, CreateAll(c) PROVE ReadyInv'
    <2>1. tables' = tables \/ tables' = ModelTables
      BY <1>5, <1>a DEF CreateAll
    <2>2. Kept /\ TablesInv'
      BY <1>0, <1>5, <1>a, <2>1, SchemaSets, RecordsUntouched DEF CreateAll, Kept, TablesInv
    <2>3. step'[c] = 1 /\ pc'[c] \in {"check_user", "failed"}
      BY <1>0, <1>5 DEF CreateAll, TypeInv, TypeOK, StepInLoop, Reading, Seeding
    <2>4. Ensured(c)'
      BY <2>3 DEF Ensured, Reading, Seeding
    <2>5. QED
      BY <1>c, <1>5, <2>2, <2>4, StepOfOne DEF CreateAll
  <1>6. ASSUME NEW c \in Containers, CheckUser(c) PROVE ReadyInv'
    <2>1. Kept /\ TablesInv'
      BY <1>0, <1>6, <1>a, RecordsUntouched DEF CheckUser, Kept, TablesInv
    <2>2. Ensured(c)'
      <3>1. CASE "users" \in tables /\ LocalUsers[step[c]] \in users /\ AfterUser(c)
        BY <1>6, <1>a, <3>1, AfterUserEnsures DEF CheckUser, Reading
      <3>2. CASE pc'[c] = "failed"
        BY <3>2 DEF Ensured, Reading, Seeding
      <3>3. CASE "users" \in tables /\ pc'[c] = "create_user" /\ UNCHANGED step
        BY <1>6, <1>b, <3>3 DEF CheckUser, Ensured, Reading, Seeding
      <3>4. QED
        BY <1>0, <1>6, <3>1, <3>2, <3>3 DEF CheckUser, TypeInv, TypeOK
    <2>3. QED
      BY <1>c, <1>6, <2>1, <2>2, StepOfOne DEF CheckUser, AfterUser
  <1>7. ASSUME NEW c \in Containers, CreateUser(c) PROVE ReadyInv'
    <2>1. Kept /\ TablesInv'
      BY <1>0, <1>7, <1>a, RecordsUntouched DEF CreateUser, Kept, TablesInv
    <2>2. Ensured(c)'
      <3>1. CASE users' = users \cup {LocalUsers[step[c]]} /\ AfterUser(c)
        <4>1. "users" \in tables' /\ pc[c] \in Reading /\ config' = config
          BY <1>7, <1>b DEF CreateUser, Ensured, Reading
        <4>2. QED
          BY <1>a, <3>1, <4>1, AfterUserEnsures
      <3>2. CASE pc'[c] = "failed"
        BY <3>2 DEF Ensured, Reading, Seeding
      <3>3. QED
        BY <1>0, <1>7, <3>1, <3>2 DEF CreateUser, TypeInv, TypeOK
    <2>3. QED
      BY <1>c, <1>7, <2>1, <2>2, StepOfOne DEF CreateUser, AfterUser
  <1>8. ASSUME NEW c \in Containers, CheckDemo(c) PROVE ReadyInv'
    <2>1. Kept /\ TablesInv' /\ (RecordsExist <=> RecordsExist')
      BY <1>0, <1>8, <1>a, RecordsUntouched DEF CheckDemo, Kept, TablesInv
    <2>2. /\ pc'[c] \in {"up", "insert_demo", "failed"} /\ step'[c] = 1
          /\ pc'[c] = "up" => RecordsExist'
      BY <1>0, <1>8, <2>1 DEF CheckDemo, TypeInv, TypeOK, StepInLoop, Reading, Seeding
    <2>3. Ensured(c)'
      BY <1>8, <1>b, <2>2 DEF CheckDemo, Ensured, Reading, Seeding
    <2>4. QED
      BY <1>c, <1>8, <2>1, <2>3, StepOfOne DEF CheckDemo
  <1>9. ASSUME NEW c \in Containers, InsertDemo(c) PROVE ReadyInv'
    <2>1. RecordsExist => RecordsExist'
      BY <1>0, <1>9, AfterDemoKeepsRecords, RecordsUntouched DEF InsertDemo
    <2>2. Kept /\ TablesInv'
      BY <1>0, <1>9, <1>a, <2>1 DEF InsertDemo, Kept, TablesInv
    <2>3. Ensured(c)'
      <3>1. CASE AfterDemo(c)
        BY <1>9, <1>b, <2>1, <3>1, AfterDemoEnsures DEF InsertDemo, Ensured, Seeding
      <3>2. CASE pc'[c] = "upsert_position" /\ UNCHANGED <<step, demo>>
        BY <1>9, <1>b, <2>1, <3>2 DEF InsertDemo, Ensured, Reading, Seeding
      <3>3. QED
        BY <1>0, <1>9, <3>1, <3>2 DEF InsertDemo, TypeInv, TypeOK
    <2>4. QED
      BY <1>c, <1>9, <2>2, <2>3, StepOfOne DEF InsertDemo, AfterDemo
  <1>10. ASSUME NEW c \in Containers, UpsertDemoPosition(c) PROVE ReadyInv'
    <2>1. RecordsExist => RecordsExist'
      BY <1>0, <1>10, AfterDemoKeepsRecords, RecordsUntouched DEF UpsertDemoPosition
    <2>2. Kept /\ TablesInv'
      BY <1>0, <1>10, <1>a, <2>1 DEF UpsertDemoPosition, Kept, TablesInv
    <2>3. Ensured(c)'
      <3>1. CASE AfterDemo(c) /\ position' = "demo"
        BY <1>10, <3>1, AfterDemoEnsures DEF UpsertDemoPosition, RecordsExist, Seeding
      <3>2. CASE pc'[c] = "failed"
        BY <3>2 DEF Ensured, Reading, Seeding
      <3>3. QED
        BY <1>0, <1>10, <3>1, <3>2 DEF UpsertDemoPosition, TypeInv, TypeOK
    <2>4. QED
      BY <1>c, <1>10, <2>2, <2>3, StepOfOne DEF UpsertDemoPosition, AfterDemo
  <1>11. ASSUME NEW c \in Containers, Trade(c) PROVE ReadyInv'
    <2>1. RecordsExist'
      <3>1. demo["trade_orders"] \in Nat /\ trades \in Nat
        BY <1>0, SeedOrderIs, NumbersAssumption DEF TypeInv, TypeOK
      <3>2. QED
        BY <1>11, <3>1 DEF Trade, RecordsExist
    <2>2. Kept /\ TablesInv'
      BY <1>0, <1>11, <1>a, <2>1 DEF Trade, Kept, TablesInv
    <2>3. \A d \in Containers : pc'[d] = pc[d] /\ step'[d] = step[d] /\ config'[d] = config[d]
      BY <1>11 DEF Trade
    <2>4. Ensured(c)'
      BY <2>2, <2>3, OthersStayEnsured
    <2>5. QED
      BY <2>2, <2>3, <2>4, StepOfOne
  <1>12. ASSUME NEW c \in Containers, Interrupted(c) PROVE ReadyInv'
    <2>1. Kept /\ TablesInv'
      BY <1>0, <1>12, <1>a, RecordsUntouched DEF Interrupted, Kept, TablesInv
    <2>2. pc'[c] = "failed"
      BY <1>0, <1>12 DEF Interrupted, TypeInv, TypeOK
    <2>3. Ensured(c)'
      BY <2>2 DEF Ensured, Reading, Seeding
    <2>4. QED
      BY <1>c, <1>12, <2>1, <2>3, StepOfOne DEF Interrupted
  <1>13. CASE UNCHANGED vars
    <2>1. Kept /\ TablesInv'
      BY <1>0, <1>13, <1>a, RecordsUntouched DEF vars, Kept, TablesInv
    <2>2. \A d \in Containers : Ensured(d)'
      BY <1>13, <2>1, OthersStayEnsured DEF vars
    <2>3. QED
      BY <1>0, <2>1, <2>2 DEF ReadyInv
  <1>14. QED
    BY <1>1, <1>2, <1>3, <1>4, <1>5, <1>6, <1>7, <1>8, <1>9, <1>10, <1>11, <1>12, <1>13
    DEF Next, Step, Settled

\* An API that is up has every table, every local user and, if it was to seed,
\* records to show - after any history of starts, deaths and trades.
THEOREM UpIsReady == Spec => []UpMeansReady
  <1>1. Init => ReadyInv
    BY ReadyInit
  <1>2. ReadyInv /\ [Next]_vars => ReadyInv'
    BY ReadyStep
  <1>3. ReadyInv => UpMeansReady
    <2> SUFFICES ASSUME ReadyInv, NEW c \in Apis, pc[c] = "up"
                 PROVE  /\ tables = ModelTables /\ users = UserNames
                        /\ config[c].seed_demo_data => RecordsExist
      BY DEF UpMeansReady
    <2>1. Ensured(c) /\ TablesInv
      BY DEF ReadyInv, Containers
    <2>2. QED
      BY <2>1 DEF Ensured, TablesInv
  <1>4. QED
    BY <1>1, <1>2, <1>3, PTL DEF Spec

-----------------------------------------------------------------------------
(* A start that nobody meets.                                              *)

\* What start c has last read is still so, and nobody else is starting.
Fresh(c) ==
    /\ \A d \in Containers \ {c} : pc[d] \notin Starting
    /\ pc[c] = "create_all" => seen[c] = tables
    /\ pc[c] = "create_user" => LocalUsers[step[c]] \notin users
    /\ pc[c] = "upsert_position" /\ seen[c] = {} => position = "none"

FreshInv == \A c \in Containers : pc[c] \in Starting /\ c \notin met => Fresh(c)

\* BOOTSTRAP_SCHEMA never migrates, and has the users table before it looks for users.
SchemaFirst ==
    \A c \in Apis : config[c].mode = "metadata" =>
        /\ pc[c] \notin {"entry_upgrade", "upgrade"}
        /\ pc[c] \in Reading => "users" \in tables

LoneInv == ReadyInv /\ FreshInv /\ SchemaFirst

\* A step of a start is its own: the others stay where they are, the tables stay.
LEMMA StepsAreOwn ==
    ASSUME TypeInv, NEW c \in Containers, Step(c) \/ Interrupted(c)
    PROVE  /\ pc[c] \in Starting
           /\ \A d \in Containers \ {c} : pc'[d] = pc[d]
           /\ UNCHANGED <<config, met>>
           /\ tables \subseteq tables'
  <1> USE DEF TypeInv, TypeOK, Goto, Forget, Fail, Starting
  <1>1. CASE Enter(c) \/ ChooseSchema(c) \/ CreateAll(c)
    BY <1>1 DEF Enter, ChooseSchema, CreateAll
  <1>2. CASE EntryUpgrade(c) \/ SchemaUpgrade(c)
    BY <1>2 DEF EntryUpgrade, SchemaUpgrade, Upgrade, UpgradeTables
  <1>3. CASE CheckUser(c) \/ CreateUser(c)
    BY <1>3 DEF CheckUser, CreateUser, AfterUser
  <1>4. CASE CheckDemo(c) \/ InsertDemo(c) \/ UpsertDemoPosition(c)
    BY <1>4 DEF CheckDemo, InsertDemo, UpsertDemoPosition, AfterDemo
  <1>5. CASE Interrupted(c)
    BY <1>5 DEF Interrupted
  <1> QED
    BY <1>1, <1>2, <1>3, <1>4, <1>5 DEF Step

\* What a step of start c reads is so when it has read it.
LEMMA ReadsAreFresh ==
    ASSUME TypeInv, NEW c \in Containers, Step(c) \/ Interrupted(c)
    PROVE  /\ pc'[c] = "create_all" => seen'[c] = tables'
           /\ pc'[c] = "create_user" => LocalUsers[step'[c]] \notin users'
           /\ pc'[c] = "upsert_position" /\ seen'[c] = {} => position' = "none"
  <1> USE DEF TypeInv, TypeOK, Goto, Forget, Fail
  <1>1. CASE Enter(c) \/ ChooseSchema(c) \/ CreateAll(c)
    BY <1>1 DEF Enter, ChooseSchema, CreateAll
  <1>2. CASE EntryUpgrade(c) \/ SchemaUpgrade(c)
    BY <1>2 DEF EntryUpgrade, SchemaUpgrade, Upgrade
  <1>3. CASE CheckUser(c) \/ CreateUser(c)
    BY <1>3 DEF CheckUser, CreateUser, AfterUser
  <1>4. CASE CheckDemo(c) \/ InsertDemo(c) \/ UpsertDemoPosition(c)
    <2>1. pc \in [Containers -> Labels] /\ DOMAIN seen = Containers
      OBVIOUS
    <2>2. CASE CheckDemo(c)
      BY <2>1, <2>2 DEF CheckDemo
    <2>3. CASE AfterDemo(c)
      BY <2>1, <2>3 DEF AfterDemo
    <2>4. CASE InsertDemo(c) /\ ~AfterDemo(c)
      <3>1. /\ seen' = [seen EXCEPT ![c] = IF position = "none" THEN {} ELSE {"positions"}]
            /\ pc'[c] = "upsert_position" /\ position' = position
        BY <2>1, <2>4 DEF InsertDemo
      <3>2. seen'[c] = {} => position = "none"
        BY <2>1, <3>1
      <3> QED BY <3>1, <3>2
    <2>5. CASE UpsertDemoPosition(c) /\ ~AfterDemo(c)
      BY <2>1, <2>5 DEF UpsertDemoPosition
    <2> QED BY <1>4, <2>2, <2>3, <2>4, <2>5
  <1>5. CASE Interrupted(c)
    BY <1>5 DEF Interrupted
  <1> QED
    BY <1>1, <1>2, <1>3, <1>4, <1>5 DEF Step

LEMMA FreshStep == TypeInv /\ FreshInv /\ [Next]_vars => FreshInv'
  <1> SUFFICES ASSUME TypeInv, FreshInv, [Next]_vars,
                      NEW d \in Containers, pc'[d] \in Starting, d \notin met'
               PROVE  Fresh(d)'
    BY DEF FreshInv
  <1>1. ASSUME NEW c \in Containers, Start(c) PROVE Fresh(d)'
    <2>1. pc' = [pc EXCEPT ![c] = "entry"] /\ pc \in [Containers -> Labels]
      BY <1>1 DEF Start, Goto, TypeInv, TypeOK
    <2>2. UnderWay = {}
      BY <1>1, <2>1 DEF Start, UnderWay
    <2>3. d = c /\ \A e \in Containers \ {c} : pc'[e] \notin Starting
      BY <2>1, <2>2 DEF UnderWay
    <2> QED BY <2>1, <2>3 DEF Fresh
  <1>2. ASSUME NEW c \in Containers, Step(c) \/ Interrupted(c) PROVE Fresh(d)'
    <2>1. /\ pc[c] \in Starting /\ met' = met
          /\ \A e \in Containers \ {c} : pc'[e] = pc[e]
      BY <1>2, StepsAreOwn
    <2>2. d = c
      BY <2>1 DEF FreshInv, Fresh
    <2>3. \A e \in Containers \ {d} : pc'[e] \notin Starting
      BY <2>1, <2>2 DEF FreshInv, Fresh
    <2> QED BY <1>2, <2>2, <2>3, ReadsAreFresh DEF Fresh
  <1>3. ASSUME NEW c \in Containers, Trade(c) PROVE Fresh(d)'
    BY <1>3 DEF Trade, UnderWay
  <1>4. CASE UNCHANGED vars
    BY <1>4 DEF vars, FreshInv, Fresh
  <1> QED
    BY <1>1, <1>2, <1>3, <1>4 DEF Next, Settled

LEMMA SchemaFirstStep == ReadyInv /\ SchemaFirst /\ [Next]_vars => SchemaFirst'
  <1> SUFFICES ASSUME ReadyInv, SchemaFirst, [Next]_vars,
                      NEW d \in Apis, config'[d].mode = "metadata"
               PROVE  /\ pc'[d] \notin {"entry_upgrade", "upgrade"}
                      /\ pc'[d] \in Reading => "users" \in tables'
    BY DEF SchemaFirst
  <1>0. TypeInv /\ pc \in [Containers -> Labels] /\ d \in Containers /\ Ensured(d)
    BY DEF ReadyInv, TypeInv, TypeOK, Containers
  <1>1. ASSUME NEW c \in Containers, Start(c)
        PROVE  /\ pc'[d] \notin {"entry_upgrade", "upgrade"}
               /\ pc'[d] \in Reading => "users" \in tables'
    BY <1>0, <1>1 DEF Start, Goto, SchemaFirst, Reading, TypeInv, TypeOK
  <1>2. ASSUME NEW c \in Containers, Step(c) \/ Interrupted(c)
        PROVE  /\ pc'[d] \notin {"entry_upgrade", "upgrade"}
               /\ pc'[d] \in Reading => "users" \in tables'
    <2>1. config' = config /\ tables \subseteq tables' /\ (d # c => pc'[d] = pc[d])
      BY <1>0, <1>2, StepsAreOwn
    <2>2. CASE d # c
      BY <2>1, <2>2 DEF SchemaFirst
    <2>3. CASE d = c
      <3> USE DEF Goto, Forget, Fail
      <3>0. /\ pc[d] \notin {"entry_upgrade", "upgrade"} /\ config[d].mode = "metadata"
            /\ pc[d] \in Reading => "users" \in tables
        BY <2>1 DEF SchemaFirst
      <3>1. CASE Enter(d) \/ ChooseSchema(d)
        BY <1>0, <3>0, <3>1 DEF Enter, ChooseSchema, Reading
      <3>2. CASE EntryUpgrade(d) \/ SchemaUpgrade(d)
        BY <3>0, <3>2 DEF EntryUpgrade, SchemaUpgrade, Upgrade
      <3>3. CASE CreateAll(d)
        BY <1>0, <3>3 DEF CreateAll, ModelTables, Reading
      <3>4. CASE CheckUser(d) \/ CreateUser(d)
        BY <1>0, <2>1, <3>0, <3>4 DEF CheckUser, CreateUser, AfterUser, Reading
      <3>5. CASE CheckDemo(d) \/ InsertDemo(d) \/ UpsertDemoPosition(d)
        BY <1>0, <3>5 DEF CheckDemo, InsertDemo, UpsertDemoPosition, AfterDemo, Reading
      <3>6. CASE Interrupted(d)
        BY <1>0, <3>6 DEF Interrupted, Reading
      <3> QED BY <1>2, <2>3, <3>1, <3>2, <3>3, <3>4, <3>5, <3>6 DEF Step
    <2> QED BY <2>2, <2>3
  <1>3. ASSUME NEW c \in Containers, Trade(c)
        PROVE  /\ pc'[d] \notin {"entry_upgrade", "upgrade"}
               /\ pc'[d] \in Reading => "users" \in tables'
    BY <1>3 DEF Trade, SchemaFirst
  <1>4. CASE UNCHANGED vars
    BY <1>4 DEF vars, SchemaFirst
  <1> QED
    BY <1>1, <1>2, <1>3, <1>4 DEF Next, Settled

\* A start that has met nobody finds what it reads as it left it, so that none
\* of its own steps fails.
LEMMA LoneStepsSucceed ==
    ASSUME LoneInv, NEW c \in Apis, config[c].mode = "metadata", c \notin met,
           Step(c)
    PROVE  pc'[c] # "failed"
  <1> USE DEF Goto, Forget, Fail
  <1>0. TypeInv /\ pc \in [Containers -> Labels] /\ c \in Containers
    BY DEF LoneInv, ReadyInv, TypeInv, TypeOK, Containers
  <1>1. /\ Fresh(c) /\ Ensured(c) /\ TablesInv
        /\ pc[c] \notin {"entry_upgrade", "upgrade"}
        /\ pc[c] \in Reading => "users" \in tables
    BY <1>0, StepsAreOwn DEF LoneInv, FreshInv, ReadyInv, SchemaFirst
  <1>2. CASE Enter(c) \/ ChooseSchema(c)
    BY <1>0, <1>2 DEF Enter, ChooseSchema
  <1>3. CASE EntryUpgrade(c) \/ SchemaUpgrade(c)
    BY <1>1, <1>3 DEF EntryUpgrade, SchemaUpgrade, Upgrade
  <1>4. CASE CreateAll(c)
    <2>1. (ModelTables \ seen[c]) \cap tables = {}
      BY <1>1, <1>4 DEF Fresh, CreateAll
    <2> QED BY <1>0, <1>4, <2>1 DEF CreateAll
  <1>5. CASE CheckUser(c) \/ CreateUser(c)
    BY <1>0, <1>1, <1>5 DEF CheckUser, CreateUser, AfterUser, Fresh, Reading
  <1>6. CASE CheckDemo(c)
    <2>1. MigratedTables \subseteq tables
      BY <1>1, <1>6, SchemaSets DEF CheckDemo, Ensured, TablesInv
    <2> QED BY <1>0, <1>6, <2>1 DEF CheckDemo
  <1>7. CASE InsertDemo(c) \/ UpsertDemoPosition(c)
    BY <1>0, <1>1, <1>7 DEF InsertDemo, UpsertDemoPosition, AfterDemo, Fresh
  <1> QED
    BY <1>2, <1>3, <1>4, <1>5, <1>6, <1>7 DEF Step

\* An API that starts with BOOTSTRAP_SCHEMA comes up from whatever broken starts
\* have left, unless it is interrupted or meets another start or a trade.
THEOREM LoneBootstrapsSucceed == Spec => LoneBootstrapsComeUp
  <1>1. Init => LoneInv
    <2>1. Init => FreshInv /\ SchemaFirst
      BY DEF Init, FreshInv, SchemaFirst, Containers, Starting, Reading
    <2> QED BY <2>1, ReadyInit DEF LoneInv
  <1>2. LoneInv /\ [Next]_vars => LoneInv'
    BY ReadyStep, FreshStep, SchemaFirstStep DEF LoneInv, ReadyInv
  <1>3. ASSUME LoneInv, [Next]_vars, NEW d \in Apis, config[d].mode = "metadata",
               pc[d] # "failed", pc'[d] = "failed", d \notin met
        PROVE  faults' # faults
    <2>0. TypeInv /\ pc \in [Containers -> Labels] /\ faults \in Nat /\ d \in Containers
      <3>1. TypeInv /\ d \in Containers
        BY <1>3 DEF LoneInv, ReadyInv, Containers
      <3>2. QED
        BY <3>1, NumbersAssumption DEF TypeInv, TypeOK
    <2>1. PICK c \in Containers : Start(c) \/ Step(c) \/ Trade(c) \/ Interrupted(c)
      BY <1>3 DEF Next, Settled, vars
    <2>2. ~Start(c) /\ ~Trade(c)
      BY <1>3, <2>0 DEF Start, Trade, Goto
    <2>3. c = d
      BY <1>3, <2>0, <2>1, <2>2, StepsAreOwn
    <2>4. ~Step(d)
      BY <1>3, LoneStepsSucceed
    <2> QED BY <2>0, <2>1, <2>2, <2>3, <2>4 DEF Interrupted
  <1>4. LoneInv /\ [Next]_vars =>
            [\A c \in Apis :
                config[c].mode = "metadata" /\ pc[c] # "failed" /\ pc'[c] = "failed" =>
                    c \in met \/ faults' # faults]_vars
    BY <1>3
  <1> QED
    BY <1>1, <1>2, <1>4, PTL DEF Spec, LoneBootstrapsComeUp

-----------------------------------------------------------------------------
(* The demo rows.                                                          *)

\* The starts whose next demo row is number i.
At(i) == {c \in Containers : pc[c] \in Seeding /\ step[c] = i}

\* A table has one more demo row than the next for every start between the two.
CauseInv ==
    \A i \in 1..4 :
        /\ IsFiniteSet(At(i + 1))
        /\ demo[SeedOrder[i]] >= demo[SeedOrder[i + 1]] + Cardinality(At(i + 1))

UpsertIsFourth == \A c \in Containers : pc[c] = "upsert_position" => step[c] = 4

\* The five tables are different ones.
LEMMA TablesDiffer ==
    /\ \A i, j \in 1..5 : SeedOrder[i] = SeedOrder[j] => i = j
    /\ SeedOrder[1] = "trade_audit_logs" /\ SeedOrder[2] = "strategy_runs"
    /\ SeedOrder[3] = "trade_orders" /\ SeedOrder[4] = "positions"
    /\ SeedOrder[5] = "reconciliation_runs"
  <1>1. /\ SeedOrder[1] = "trade_audit_logs" /\ SeedOrder[2] = "strategy_runs"
        /\ SeedOrder[3] = "trade_orders" /\ SeedOrder[4] = "positions"
        /\ SeedOrder[5] = "reconciliation_runs"
    BY DEF SeedOrder, DemoTables
  <1> QED
    BY <1>1

\* A step that writes no demo row at most takes starts out of the seeding.
LEMMA FewerSeeding ==
    ASSUME TypeInv, CauseInv, demo' = demo, \A i \in 2..5 : At(i)' \subseteq At(i)
    PROVE  CauseInv'
  <1> SUFFICES ASSUME NEW i \in 1..4
               PROVE  /\ IsFiniteSet(At(i + 1)')
                      /\ demo'[SeedOrder[i]] >= demo'[SeedOrder[i + 1]] + Cardinality(At(i + 1)')
    BY DEF CauseInv, SeedOrder
  <1> DEFINE before == At(i + 1)
             after == At(i + 1)'
  <1>1. IsFiniteSet(before) /\ demo[SeedOrder[i]] >= demo[SeedOrder[i + 1]] + Cardinality(before)
    BY DEF CauseInv
  <1>2. after \subseteq before
    BY i + 1 \in 2..5
  <1>3. /\ IsFiniteSet(after) /\ Cardinality(after) <= Cardinality(before)
        /\ Cardinality(after) \in Nat /\ Cardinality(before) \in Nat
    BY <1>1, <1>2, FS_Subset, FS_CardinalityType
  <1>4. demo[SeedOrder[i]] \in Nat /\ demo[SeedOrder[i + 1]] \in Nat
    BY SeedOrderIs DEF TypeInv, TypeOK
  <1> HIDE DEF before, after
  <1>5. demo[SeedOrder[i]] >= demo[SeedOrder[i + 1]] + Cardinality(after)
    BY <1>1, <1>3, <1>4
  <1> QED
    BY <1>3, <1>5 DEF after

\* The next demo row is there, and its start is one further.
LEMMA OneMoreSeeded ==
    ASSUME TypeInv, CauseInv, NEW c \in Containers, pc[c] \in Seeding, AfterDemo(c)
    PROVE  CauseInv'
  <1> DEFINE k == step[c]
  <1>0. /\ k \in 1..5 /\ demo \in [TradingTables -> Nat]
        /\ pc \in [Containers -> Labels] /\ step \in [Containers -> 1..5]
    BY SeedOrderIs DEF TypeInv, TypeOK
  <1>1. demo' = [demo EXCEPT ![SeedOrder[k]] = @ + 1]
    BY DEF AfterDemo
  <1>2. /\ k < 5 => step'[c] = k + 1 /\ pc'[c] = "insert_demo"
        /\ k = 5 => pc'[c] = "up"
        /\ \A d \in Containers \ {c} : pc'[d] = pc[d] /\ step'[d] = step[d]
    BY <1>0, SeedOrderIs DEF AfterDemo, Goto
  <1> SUFFICES ASSUME NEW i \in 1..4
               PROVE  /\ IsFiniteSet(At(i + 1)')
                      /\ demo'[SeedOrder[i]] >= demo'[SeedOrder[i + 1]] + Cardinality(At(i + 1)')
    BY DEF CauseInv, SeedOrder
  <1> DEFINE before == At(i + 1)
             after == At(i + 1)'
             cause == demo[SeedOrder[i]]
             effect == demo[SeedOrder[i + 1]]
  <1>3. IsFiniteSet(before) /\ Cardinality(before) \in Nat /\ cause >= effect + Cardinality(before)
    BY FS_CardinalityType DEF CauseInv
  <1>4. /\ cause \in Nat /\ effect \in Nat
        /\ SeedOrder[i] \in TradingTables /\ SeedOrder[i + 1] \in TradingTables
        /\ SeedOrder[k] \in TradingTables
    BY <1>0, SeedOrderIs
  <1>5. CASE k = i
    <2>1. c \notin before /\ after = before \cup {c}
      BY <1>2, <1>5, <1>0 DEF At, Seeding
    <2>2. IsFiniteSet(after) /\ Cardinality(after) = Cardinality(before) + 1
      BY <1>3, <2>1, FS_AddElement
    <2>3. demo'[SeedOrder[i]] = cause + 1 /\ demo'[SeedOrder[i + 1]] = effect
      BY <1>0, <1>1, <1>4, <1>5, TablesDiffer
    <2> HIDE DEF before, after, cause, effect
    <2>4. cause + 1 >= effect + Cardinality(after)
      BY <1>3, <1>4, <2>2
    <2> QED BY <2>2, <2>3, <2>4 DEF after
  <1>6. CASE k = i + 1
    <2>1. c \in before /\ after = before \ {c}
      BY <1>2, <1>6, <1>0 DEF At, Seeding
    <2>2. IsFiniteSet(after) /\ Cardinality(after) = Cardinality(before) - 1
      BY <1>3, <2>1, FS_RemoveElement
    <2>3. demo'[SeedOrder[i]] = cause /\ demo'[SeedOrder[i + 1]] = effect + 1
      BY <1>0, <1>1, <1>4, <1>6, TablesDiffer
    <2> HIDE DEF before, after, cause, effect
    <2>4. cause >= (effect + 1) + Cardinality(after)
      BY <1>3, <1>4, <2>2
    <2> QED BY <2>2, <2>3, <2>4 DEF after
  <1>7. CASE k # i /\ k # i + 1
    <2>1. after = before
      BY <1>2, <1>7, <1>0 DEF At, Seeding
    <2>2. demo'[SeedOrder[i]] = cause /\ demo'[SeedOrder[i + 1]] = effect
      BY <1>0, <1>1, <1>4, <1>7, TablesDiffer
    <2> HIDE DEF before, after, cause, effect
    <2> QED BY <1>3, <2>1, <2>2 DEF after
  <1> QED
    BY <1>5, <1>6, <1>7

\* What a step does to the demo rows and to the starts that write them.
LEMMA SeedingSteps ==
    ASSUME TypeInv, [Next]_vars
    PROVE  \/ /\ demo' = demo
              /\ \A i \in 2..5 : At(i)' \subseteq At(i)
           \/ \E c \in Containers :
                 pc[c] \in Seeding /\ AfterDemo(c) /\ (InsertDemo(c) \/ UpsertDemoPosition(c))
  <1> DEFINE Idle == demo' = demo /\ \A i \in 2..5 : At(i)' \subseteq At(i)
             Sows == \E c \in Containers :
                        pc[c] \in Seeding /\ AfterDemo(c) /\ (InsertDemo(c) \/ UpsertDemoPosition(c))
  <1> USE DEF Goto, Fail, Forget
  <1>0. /\ pc \in [Containers -> Labels] /\ step \in [Containers -> 1..5]
        /\ \A c \in Containers : pc[c] \notin Reading \cup Seeding => step[c] = 1
    BY SeedOrderIs DEF TypeInv, TypeOK, StepInLoop
  \* A step of one start that it does not begin, or go on with, a demo row by.
  <1>1. ASSUME NEW c \in Containers, demo' = demo,
               pc'[c] \notin Seeding \/ step'[c] = 1 \/ (pc[c] \in Seeding /\ step'[c] = step[c]),
               \A d \in Containers \ {c} : pc'[d] = pc[d] /\ step'[d] = step[d]
        PROVE  Idle
    BY <1>1 DEF At
  <1>2. ASSUME NEW c \in Containers,
               \/ Start(c) \/ Enter(c) \/ EntryUpgrade(c) \/ ChooseSchema(c) \/ SchemaUpgrade(c)
               \/ CreateAll(c) \/ Interrupted(c)
        PROVE  Idle
    <2>1. /\ demo' = demo /\ pc'[c] \notin Seeding
          /\ \A d \in Containers \ {c} : pc'[d] = pc[d] /\ step'[d] = step[d]
      BY <1>0, <1>2 DEF Start, Enter, EntryUpgrade, ChooseSchema, SchemaUpgrade, Upgrade,
         CreateAll, Interrupted, Seeding
    <2> QED BY <1>1, <2>1
  <1>3. ASSUME NEW c \in Containers, CheckUser(c) \/ CreateUser(c) PROVE Idle
    <2>1. /\ demo' = demo /\ pc'[c] \notin Seeding
          /\ \A d \in Containers \ {c} : pc'[d] = pc[d] /\ step'[d] = step[d]
      BY <1>0, <1>3 DEF CheckUser, CreateUser, AfterUser, Seeding
    <2> QED BY <1>1, <2>1
  <1>4. ASSUME NEW c \in Containers, CheckDemo(c) PROVE Idle
    <2>1. /\ demo' = demo /\ step' = step /\ step[c] = 1
          /\ \A d \in Containers \ {c} : pc'[d] = pc[d]
      BY <1>0, <1>4 DEF CheckDemo, Reading, Seeding
    <2> QED BY <1>1, <2>1
  <1>5. ASSUME NEW c \in Containers, InsertDemo(c) \/ UpsertDemoPosition(c) PROVE Idle \/ Sows
    <2>1. CASE AfterDemo(c)
      BY <1>5, <2>1 DEF InsertDemo, UpsertDemoPosition, Seeding
    <2>2. CASE ~AfterDemo(c)
      <3>1. /\ demo' = demo /\ pc[c] \in Seeding
            /\ pc'[c] = "failed" \/ step' = step
            /\ \A d \in Containers \ {c} : pc'[d] = pc[d] /\ step'[d] = step[d]
        BY <1>0, <1>5, <2>2 DEF InsertDemo, UpsertDemoPosition, Seeding
      <3> QED BY <1>1, <3>1 DEF Seeding
    <2> QED BY <2>1, <2>2
  <1>6. ASSUME NEW c \in Containers, Trade(c) PROVE Idle
    BY <1>6 DEF Trade, At
  <1>7. CASE UNCHANGED vars
    BY <1>7 DEF vars, At
  <1> QED
    BY <1>2, <1>3, <1>4, <1>5, <1>6, <1>7 DEF Next, Step, Settled

LEMMA CauseStep == TypeInv /\ CauseInv /\ [Next]_vars => CauseInv'
  BY SeedingSteps, FewerSeeding, OneMoreSeeded

LEMMA CauseInit == Init => CauseInv
  <1> SUFFICES ASSUME Init PROVE CauseInv
    OBVIOUS
  <1>1. \A i \in 1..4 : At(i + 1) = {}
    BY DEF Init, At, Seeding
  <1>2. \A i \in 1..5 : demo[SeedOrder[i]] = 0
    BY SeedOrderIs DEF Init
  <1> QED
    BY <1>1, <1>2, FS_EmptySet DEF CauseInv

\* A demo position has its order, the order its run, the run its audit row,
\* however many starts seed at once and wherever they die.
THEOREM DemoRowsAreCaused == Spec => []DemoRowsHaveTheirCause
  <1>1. TypeInv /\ CauseInv => DemoRowsHaveTheirCause
    <2> SUFFICES ASSUME TypeInv, CauseInv PROVE DemoRowsHaveTheirCause
      OBVIOUS
    <2>1. ASSUME NEW i \in 1..4 PROVE demo[SeedOrder[i]] >= demo[SeedOrder[i + 1]]
      <3>1. Cardinality(At(i + 1)) \in Nat
        BY FS_CardinalityType DEF CauseInv
      <3>2. demo[SeedOrder[i]] \in Nat /\ demo[SeedOrder[i + 1]] \in Nat
        BY SeedOrderIs DEF TypeInv, TypeOK
      <3>3. demo[SeedOrder[i]] >= demo[SeedOrder[i + 1]] + Cardinality(At(i + 1))
        BY DEF CauseInv
      <3> QED BY <3>1, <3>2, <3>3
    <2>2. /\ demo[SeedOrder[1]] >= demo[SeedOrder[2]] /\ demo[SeedOrder[2]] >= demo[SeedOrder[3]]
          /\ demo[SeedOrder[3]] >= demo[SeedOrder[4]] /\ demo[SeedOrder[4]] >= demo[SeedOrder[5]]
      BY <2>1
    <2>3. \A i \in 1..5 : demo[SeedOrder[i]] \in Nat
      BY SeedOrderIs DEF TypeInv, TypeOK
    <2> QED BY <2>2, <2>3, TablesDiffer DEF DemoRowsHaveTheirCause
  <1> QED
    BY <1>1, TypeInit, TypeStep, CauseInit, CauseStep, PTL DEF Spec

-----------------------------------------------------------------------------
(* Starts that nothing disturbs.                                           *)

\* Start c has written an audit row, and no order yet.
Sown(c) == pc[c] \in Seeding /\ step[c] \in {2, 3}

\* Undisturbed, one container starts at a time.  It seeds only a database that
\* has no records but its own; each of its audit rows that no order came after
\* is one start that died.
QuietInv ==
    ~disturbed =>
        /\ \A c, d \in Containers : pc[c] \in Starting /\ pc[d] \in Starting => c = d
        /\ \A c \in Containers : pc[c] \in Seeding => trades = 0 /\ position # "trade"
        /\ \A c \in Containers : pc[c] \in Seeding /\ step[c] <= 3 => demo["trade_orders"] = 0
        /\ demo["trade_orders"] <= 1
        /\ demo["trade_audit_logs"] <= 1 + faults
        /\ demo["trade_orders"] = 0 /\ (\A c \in Containers : ~Sown(c)) =>
               demo["trade_audit_logs"] <= faults

SeedInv == TypeInv /\ CauseInv /\ UpsertIsFourth /\ QuietInv

LEMMA UpsertStep == TypeInv /\ UpsertIsFourth /\ [Next]_vars => UpsertIsFourth'
  <1> SUFFICES ASSUME TypeInv, UpsertIsFourth, [Next]_vars,
                      NEW d \in Containers, pc'[d] = "upsert_position"
               PROVE  step'[d] = 4
    BY DEF UpsertIsFourth
  <1> USE DEF Goto, Fail, Forget
  <1>0. /\ pc \in [Containers -> Labels] /\ step \in [Containers -> 1..5]
        /\ pc[d] = "upsert_position" => step[d] = 4
    BY SeedOrderIs DEF TypeInv, TypeOK, UpsertIsFourth
  <1>1. ASSUME NEW c \in Containers,
               \/ Start(c) \/ Enter(c) \/ EntryUpgrade(c) \/ ChooseSchema(c) \/ SchemaUpgrade(c)
               \/ CreateAll(c) \/ Interrupted(c)
        PROVE  step'[d] = 4
    BY <1>0, <1>1 DEF Start, Enter, EntryUpgrade, ChooseSchema, SchemaUpgrade, Upgrade,
       CreateAll, Interrupted
  <1>2. ASSUME NEW c \in Containers, CheckUser(c) \/ CreateUser(c) \/ CheckDemo(c)
        PROVE  step'[d] = 4
    BY <1>0, <1>2 DEF CheckUser, CreateUser, CheckDemo, AfterUser
  <1>3. ASSUME NEW c \in Containers, InsertDemo(c) PROVE step'[d] = 4
    BY <1>0, <1>3, TablesDiffer DEF InsertDemo, AfterDemo
  <1>4. ASSUME NEW c \in Containers, UpsertDemoPosition(c) PROVE step'[d] = 4
    BY <1>0, <1>4 DEF UpsertDemoPosition, AfterDemo
  <1>5. ASSUME NEW c \in Containers, Trade(c) PROVE step'[d] = 4
    BY <1>0, <1>5 DEF Trade
  <1>6. CASE UNCHANGED vars
    BY <1>0, <1>6 DEF vars
  <1> QED
    BY <1>1, <1>2, <1>3, <1>4, <1>5, <1>6 DEF Next, Step, Settled

\* A step of the one container that starts, before or after its seeding.
LEMMA QuietOutsideSeeding ==
    ASSUME TypeInv, QuietInv, NEW c \in Containers, pc[c] \in Starting \ Seeding,
           \A d \in Containers \ {c} : pc'[d] = pc[d] /\ step'[d] = step[d],
           pc'[c] \in Seeding => step'[c] = 1 /\ ~RecordsExist,
           UNCHANGED <<demo, trades, position, disturbed>>, faults' \in {faults, faults + 1}
    PROVE  QuietInv'
  <1> SUFFICES ASSUME ~disturbed PROVE QuietInv'
    BY DEF QuietInv
  <1>0. /\ demo["trade_orders"] \in Nat /\ demo["trade_audit_logs"] \in Nat
        /\ trades \in Nat /\ faults \in Nat
    BY TablesDiffer, SeedOrderIs, NumbersAssumption DEF TypeInv, TypeOK
  <1>1. \A d \in Containers \ {c} : pc[d] \notin Starting
    BY DEF QuietInv
  <1>2. \A d \in Containers : pc[d] \notin Seeding /\ ~Sown(d)
    BY <1>1 DEF Seeding, Starting, Sown
  <1>3. \A d \in Containers \ {c} : pc'[d] \notin Starting /\ pc'[d] \notin Seeding
    BY <1>1 DEF Seeding, Starting
  <1>4. ~RecordsExist => demo["trade_orders"] = 0 /\ trades = 0 /\ position = "none"
    BY <1>0 DEF RecordsExist
  <1> QED
    BY <1>0, <1>2, <1>3, <1>4 DEF QuietInv

\* The next demo row of the one container that starts.
LEMMA QuietAfterDemo ==
    ASSUME TypeInv, QuietInv, NEW c \in Containers, pc[c] \in Seeding, AfterDemo(c),
           UNCHANGED <<trades, disturbed, faults>>, position' \in {position, "demo"}
    PROVE  QuietInv'
  <1> SUFFICES ASSUME ~disturbed PROVE QuietInv'
    BY DEF QuietInv
  <1> DEFINE k == step[c]
             orders == demo["trade_orders"]
             audits == demo["trade_audit_logs"]
  <1>0. /\ k \in 1..5 /\ orders \in Nat /\ audits \in Nat /\ trades \in Nat /\ faults \in Nat
        /\ demo \in [TradingTables -> Nat]
        /\ pc \in [Containers -> Labels] /\ step \in [Containers -> 1..5]
    BY TablesDiffer, SeedOrderIs, NumbersAssumption DEF TypeInv, TypeOK
  <1>1. /\ \A d \in Containers \ {c} : pc[d] \notin Starting /\ pc[d] \notin Seeding /\ ~Sown(d)
        /\ trades = 0 /\ position # "trade"
        /\ k <= 3 => orders = 0
        /\ orders <= 1 /\ audits <= 1 + faults
    BY DEF QuietInv, Seeding, Starting, Sown
  <1>2. k = 1 => audits <= faults
    BY <1>0, <1>1 DEF QuietInv, Sown
  <1>3. /\ k < 5 => step'[c] = k + 1 /\ pc'[c] = "insert_demo"
        /\ k = 5 => pc'[c] = "up"
        /\ \A d \in Containers \ {c} : pc'[d] = pc[d] /\ step'[d] = step[d]
    BY <1>0, SeedOrderIs DEF AfterDemo, Goto
  <1>4. demo' = [demo EXCEPT ![SeedOrder[k]] = @ + 1]
    BY DEF AfterDemo
  <1>5. /\ "trade_orders" \in TradingTables /\ "trade_audit_logs" \in TradingTables
        /\ SeedOrder[k] = "trade_orders" <=> k = 3
        /\ SeedOrder[k] = "trade_audit_logs" <=> k = 1
    BY <1>0, TablesDiffer, SeedOrderIs
  <1>6. /\ demo'["trade_orders"] = IF k = 3 THEN orders + 1 ELSE orders
        /\ demo'["trade_audit_logs"] = IF k = 1 THEN audits + 1 ELSE audits
    BY <1>0, <1>4, <1>5
  <1> HIDE DEF orders, audits, k
  <1>7. \A d \in Containers \ {c} : pc'[d] \notin Starting /\ pc'[d] \notin Seeding
    BY <1>1, <1>3
  <1>8. /\ demo'["trade_orders"] <= 1
        /\ demo'["trade_audit_logs"] <= 1 + faults
        /\ k < 3 => demo'["trade_orders"] = 0
        /\ k >= 3 => demo'["trade_audit_logs"] = audits
    BY <1>0, <1>1, <1>2, <1>6
  <1>9. CASE k \in {1, 2}
    <2>1. Sown(c)' /\ step'[c] <= 3 /\ demo'["trade_orders"] = 0
      BY <1>0, <1>3, <1>8, <1>9 DEF Sown, Seeding, k
    <2> QED BY <1>1, <1>7, <1>8, <2>1 DEF QuietInv
  <1>10. CASE k = 3
    <2>1. demo'["trade_orders"] = 1 /\ step'[c] = 4
      BY <1>1, <1>3, <1>6, <1>10
    <2> QED BY <1>1, <1>7, <1>8, <2>1 DEF QuietInv
  <1>11. CASE k \in {4, 5}
    <2>1. ~Sown(c) /\ ~Sown(c)' /\ (pc'[c] \in Seeding => step'[c] = 5)
      BY <1>0, <1>3, <1>11 DEF Sown, Seeding, k
    <2>2. demo'["trade_orders"] = demo["trade_orders"]
          /\ demo'["trade_audit_logs"] = demo["trade_audit_logs"]
      BY <1>6, <1>11 DEF orders, audits
    <2>3. demo["trade_orders"] = 0 => demo["trade_audit_logs"] <= faults
      BY <1>1, <2>1 DEF QuietInv
    <2> QED BY <1>1, <1>7, <1>8, <2>1, <2>2, <2>3 DEF QuietInv
  <1> QED
    BY <1>0, <1>9, <1>10, <1>11

\* The one container that starts dies on its way, or loses to a row it had not
\* seen, which takes an order before it.
LEMMA QuietFailure ==
    ASSUME TypeInv, QuietInv, NEW c \in Containers, pc[c] \in Starting, pc'[c] = "failed",
           \A d \in Containers \ {c} : pc'[d] = pc[d] /\ step'[d] = step[d],
           UNCHANGED <<demo, trades, position, disturbed>>,
           faults' = faults + 1 \/ (faults' = faults /\ ~Sown(c))
    PROVE  QuietInv'
  <1> SUFFICES ASSUME ~disturbed PROVE QuietInv'
    BY DEF QuietInv
  <1>0. demo["trade_audit_logs"] \in Nat /\ faults \in Nat
    BY TablesDiffer, SeedOrderIs, NumbersAssumption DEF TypeInv, TypeOK
  <1>1. \A d \in Containers \ {c} : pc[d] \notin Starting /\ pc[d] \notin Seeding /\ ~Sown(d)
    BY DEF QuietInv, Seeding, Starting, Sown
  <1>2. \A d \in Containers : pc'[d] \notin Starting /\ pc'[d] \notin Seeding
    BY <1>1 DEF Starting, Seeding
  <1> QED
    BY <1>0, <1>1, <1>2 DEF QuietInv

LEMMA QuietStep == SeedInv /\ [Next]_vars => QuietInv'
  <1> SUFFICES ASSUME SeedInv, [Next]_vars PROVE QuietInv'
    OBVIOUS
  <1> USE DEF Goto, Fail, Forget
  <1>0. /\ TypeInv /\ QuietInv
        /\ pc \in [Containers -> Labels] /\ step \in [Containers -> 1..5]
        /\ \A c \in Containers : pc[c] \notin Reading \cup Seeding => step[c] = 1
        /\ \A c \in Containers : pc[c] = "upsert_position" => step[c] = 4
    BY SeedOrderIs DEF SeedInv, TypeInv, TypeOK, StepInLoop, UpsertIsFourth
  <1>1. ASSUME NEW c \in Containers, Start(c) PROVE QuietInv'
    <2> SUFFICES ASSUME ~disturbed' PROVE QuietInv'
      BY DEF QuietInv
    <2>1. ~disturbed /\ \A d \in Containers : pc[d] \notin Starting
      BY <1>1 DEF Start, UnderWay
    <2>2. \A d \in Containers : pc[d] \notin Seeding /\ pc'[d] \notin Seeding /\ ~Sown(d)
      BY <1>0, <1>1, <2>1 DEF Start, Starting, Seeding, Sown
    <2>3. \A d \in Containers : pc'[d] \in Starting => d = c
      BY <1>0, <1>1, <2>1 DEF Start
    <2>4. UNCHANGED <<demo, faults>>
      BY <1>1 DEF Start
    <2> QED BY <1>0, <2>1, <2>2, <2>3, <2>4 DEF QuietInv
  <1>2. ASSUME NEW c \in Containers,
               \/ Enter(c) \/ EntryUpgrade(c) \/ ChooseSchema(c) \/ SchemaUpgrade(c) \/ CreateAll(c)
        PROVE  QuietInv'
    <2>1. /\ pc[c] \in Starting \ Seeding /\ pc'[c] \notin Seeding
          /\ \A d \in Containers \ {c} : pc'[d] = pc[d] /\ step'[d] = step[d]
          /\ UNCHANGED <<demo, trades, position, disturbed, faults>>
      BY <1>0, <1>2 DEF Enter, EntryUpgrade, ChooseSchema, SchemaUpgrade, Upgrade, CreateAll,
         Seeding, Starting
    <2> QED BY <1>0, <2>1, QuietOutsideSeeding
  <1>3. ASSUME NEW c \in Containers, CheckUser(c) \/ CreateUser(c) PROVE QuietInv'
    <2>1. /\ pc[c] \in Starting \ Seeding /\ pc'[c] \notin Seeding
          /\ \A d \in Containers \ {c} : pc'[d] = pc[d] /\ step'[d] = step[d]
          /\ UNCHANGED <<demo, trades, position, disturbed, faults>>
      BY <1>0, <1>3 DEF CheckUser, CreateUser, AfterUser, Seeding, Starting
    <2> QED BY <1>0, <2>1, QuietOutsideSeeding
  <1>4. ASSUME NEW c \in Containers, CheckDemo(c) PROVE QuietInv'
    <2>1. /\ pc[c] \in Starting \ Seeding
          /\ pc'[c] \in Seeding => step'[c] = 1 /\ ~RecordsExist
          /\ \A d \in Containers \ {c} : pc'[d] = pc[d] /\ step'[d] = step[d]
          /\ UNCHANGED <<demo, trades, position, disturbed, faults>>
      BY <1>0, <1>4 DEF CheckDemo, Seeding, Starting, Reading
    <2> QED BY <1>0, <2>1, QuietOutsideSeeding
  <1>5. ASSUME NEW c \in Containers, InsertDemo(c) PROVE QuietInv'
    <2>1. CASE AfterDemo(c)
      BY <1>0, <1>5, <2>1, QuietAfterDemo DEF InsertDemo, Seeding
    <2>2. CASE ~AfterDemo(c)
      <3>1. /\ pc[c] = "insert_demo" /\ pc' = [pc EXCEPT ![c] = "upsert_position"]
            /\ UNCHANGED <<step, demo, trades, position, disturbed, faults>>
        BY <1>5, <2>2 DEF InsertDemo
      <3>2. ASSUME NEW d \in Containers
            PROVE  /\ (pc'[d] \in Seeding) = (pc[d] \in Seeding)
                   /\ (pc'[d] \in Starting) = (pc[d] \in Starting)
                   /\ Sown(d)' = Sown(d)
        BY <1>0, <3>1 DEF Seeding, Starting, Sown
      <3> QED BY <1>0, <3>1, <3>2 DEF QuietInv
    <2> QED BY <2>1, <2>2
  <1>6. ASSUME NEW c \in Containers, UpsertDemoPosition(c) PROVE QuietInv'
    <2>1. CASE AfterDemo(c)
      BY <1>0, <1>6, <2>1, QuietAfterDemo DEF UpsertDemoPosition, Seeding
    <2>2. CASE ~AfterDemo(c)
      <3>1. /\ pc[c] \in Starting /\ ~Sown(c) /\ pc'[c] = "failed"
            /\ \A d \in Containers \ {c} : pc'[d] = pc[d] /\ step'[d] = step[d]
            /\ UNCHANGED <<demo, trades, position, disturbed, faults>>
        BY <1>0, <1>6, <2>2 DEF UpsertDemoPosition, Starting, Sown
      <3> QED BY <1>0, <3>1, QuietFailure
    <2> QED BY <2>1, <2>2
  <1>7. ASSUME NEW c \in Containers, Interrupted(c) PROVE QuietInv'
    <2>1. /\ pc[c] \in Starting /\ pc'[c] = "failed" /\ faults' = faults + 1
          /\ \A d \in Containers \ {c} : pc'[d] = pc[d] /\ step'[d] = step[d]
          /\ UNCHANGED <<demo, trades, position, disturbed>>
      BY <1>0, <1>7 DEF Interrupted
    <2> QED BY <1>0, <2>1, QuietFailure
  <1>8. ASSUME NEW c \in Containers, Trade(c) PROVE QuietInv'
    <2> SUFFICES ASSUME ~disturbed' PROVE QuietInv'
      BY DEF QuietInv
    <2>1. ~disturbed /\ \A d \in Containers : pc[d] \notin Starting /\ pc[d] \notin Seeding
      BY <1>8 DEF Trade, UnderWay, Starting, Seeding
    <2>2. UNCHANGED <<pc, step, demo, faults>>
      BY <1>8 DEF Trade
    <2> QED BY <1>0, <2>1, <2>2 DEF QuietInv, Sown
  <1>9. CASE UNCHANGED vars
    BY <1>0, <1>9 DEF vars, QuietInv, Sown
  <1> QED
    BY <1>1, <1>2, <1>3, <1>4, <1>5, <1>6, <1>7, <1>8, <1>9 DEF Next, Step, Settled

LEMMA SeedInit == Init => SeedInv
  <1> SUFFICES ASSUME Init PROVE SeedInv
    OBVIOUS
  <1>1. demo["trade_orders"] = 0 /\ demo["trade_audit_logs"] = 0
    BY TablesDiffer, SeedOrderIs DEF Init
  <1>2. UpsertIsFourth /\ QuietInv
    BY <1>1 DEF Init, UpsertIsFourth, QuietInv, Starting, Seeding
  <1> QED
    BY <1>2, TypeInit, CauseInit DEF SeedInv

LEMMA SeedStep == SeedInv /\ [Next]_vars => SeedInv'
  BY TypeStep, CauseStep, UpsertStep, QuietStep DEF SeedInv

\* Starts one at a time, with no trade between, leave one demo order, position
\* and reconciliation at most, and one audit row for each start that died.
THEOREM QuietStartsSeedAtMostOnce == Spec => []QuietStartsSeedOnce
  <1>1. SeedInv => QuietStartsSeedOnce
    <2> SUFFICES ASSUME SeedInv, ~disturbed
                 PROVE  /\ demo["trade_orders"] <= 1 /\ demo["positions"] <= 1
                        /\ demo["reconciliation_runs"] <= 1
                        /\ demo["trade_audit_logs"] <= 1 + faults
      BY DEF QuietStartsSeedOnce
    <2>1. \A i \in 1..4 : Cardinality(At(i + 1)) \in Nat
      BY FS_CardinalityType DEF SeedInv, CauseInv
    <2>2. \A i \in 1..5 : demo[SeedOrder[i]] \in Nat
      BY SeedOrderIs DEF SeedInv, TypeInv, TypeOK
    <2>3. /\ demo[SeedOrder[3]] >= demo[SeedOrder[3 + 1]] + Cardinality(At(3 + 1))
          /\ demo[SeedOrder[4]] >= demo[SeedOrder[4 + 1]] + Cardinality(At(4 + 1))
      BY DEF SeedInv, CauseInv
    <2>4. /\ demo["trade_orders"] >= demo["positions"]
          /\ demo["positions"] >= demo["reconciliation_runs"]
      BY <2>1, <2>2, <2>3, TablesDiffer
    <2>5. /\ demo["trade_orders"] \in Nat /\ demo["positions"] \in Nat
          /\ demo["reconciliation_runs"] \in Nat
      BY <2>2, TablesDiffer
    <2> QED BY <2>4, <2>5 DEF SeedInv, QuietInv
  <1> QED
    BY <1>1, SeedInit, SeedStep, PTL DEF Spec

\* No demo row goes, undisturbed, to a database that holds a trade.
THEOREM TradesAreKept == Spec => QuietStartsKeepTrades
  <1>1. ASSUME SeedInv, [Next]_vars, demo' # demo, ~disturbed PROVE trades = 0 /\ position # "trade"
    <2>1. PICK c \in Containers : pc[c] \in Seeding
      BY <1>1, SeedingSteps DEF SeedInv
    <2> QED BY <1>1, <2>1 DEF SeedInv, QuietInv
  <1>2. SeedInv /\ [Next]_vars => [demo' # demo /\ ~disturbed => trades = 0 /\ position # "trade"]_vars
    BY <1>1
  <1> QED
    BY <1>2, SeedInit, SeedStep, PTL DEF Spec, QuietStartsKeepTrades
=============================================================================
