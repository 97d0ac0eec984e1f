SPECIFICATION Spec
CONSTANTS
    c1 = c1
    c2 = c2
    u1 = u1
    None = None
    Clients = {c1, c2}
    Users = {u1}
    Uses <- MCUses
    Key <- MCKey
    SeededRole <- MCSeededRole
    Kept <- MCKept
    AdminKey = "admin-key"
    OperatorKey = "operator-key"
    TraderKey = "trader-key"
    TokenSeconds = 1
    PoolSize = 2
    Threads = 1
    Limit = 2
    Times = {1, 2, 3}
    Budgets <- MCBudgets
INVARIANTS
    TypeOK
    BearerServesAsHeld
    KeyServesOnlyAlone
    ShortPageIsLast
    WalkMissesNothing
PROPERTIES
    RefusedOnlyInACrowd
    EveryRequestEnds
