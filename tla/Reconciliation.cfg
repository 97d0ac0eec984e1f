SPECIFICATION Spec
CONSTANTS
    r1 = r1
    r2 = r2
    w1 = w1
    s1 = s1
    s2 = s2
    None = None
    Runs = {r1, r2}
    Workers = {w1}
    EntriesPriced = {TRUE, FALSE}
    GatewayFails = TRUE
    MaxTrades = 2
    Symbols = {s1}
    Quantities = {1}
    Prices = {10}
    MaxDbFaults = 1
    MaxCrashes = 1
INVARIANTS
    TypeOK
    AtMostOneRow
    AnswerIsOnRecord
    OnlyDatabaseOrCrashHidesARun
    MatchedMeansNoShorts
PROPERTIES
    QuietRunTellsTheTruth
    EveryTaskEnds
