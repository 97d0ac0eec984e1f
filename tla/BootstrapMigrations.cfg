SPECIFICATION Spec
CONSTANTS
    a1 = a1
    Apis = {a1}
    Workers = {}
    MaxStarts = 1
    MaxTrades = 0
    MaxFaults = 0
INVARIANTS
    FirstStartComesUp
