SPECIFICATION Spec
CONSTANTS
    r1 = r1
    s1 = s1
    None = None
    Runs = {r1}
    Workers = {}
    Symbols = {s1}
    Quantities = {1, 2}
    Prices = {10}
    EntriesPriced = {FALSE}
    GatewayFails = FALSE
    MaxTrades = 2
    MaxDbFaults = 0
    MaxCrashes = 0
INVARIANTS
    LiveRunsCompare
CHECK_DEADLOCK FALSE
