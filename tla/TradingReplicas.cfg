SPECIFICATION Spec
SYMMETRY ProcessAndRequestSymmetry
CONSTANTS
    p1 = p1
    p2 = p2
    r1 = r1
    r2 = r2
    s1 = s1
    None = None
    Symbols = {s1}
    Prices = {8, 9, 10, 11}
    Windows <- MCWindows
    Market <- MCMarket
    DemoBase <- MCDemoBase
    DemoStep = 1
    MaxCapitalAtRiskBps = 200
    MaxDrawdownBps = 1000
    PaperAccountEquity = 1000
    Procs = {p1, p2}
    Requests = {r1, r2}
    Quantities = {1, 2}
    Equities = {1500}
    MaxDbFaults = 1
    MaxCrashes = 0
INVARIANTS
    ClientIdHeldOnlyInsideCall
    EvidenceBehindMilestones
    PositionColumnsComeFromTrades
