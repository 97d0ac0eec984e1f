SPECIFICATION Spec
CONSTANTS
    a1 = a1
    a2 = a2
    w1 = w1
    Apis = {a1, a2}
    Workers = {w1}
    MaxStarts = 3
    MaxTrades = 1
    MaxFaults = 1
INVARIANTS
    TypeOK
    UpMeansReady
    DemoRowsHaveTheirCause
    QuietStartsSeedOnce
PROPERTIES
    LoneBootstrapsComeUp
    QuietStartsKeepTrades
    EveryStartEnds
