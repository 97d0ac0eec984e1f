SPECIFICATION Spec
CONSTANTS
    u1 = u1
    u2 = u2
    Users = {u1, u2}
    Stored = {{}}
    MaxGestures = 3
    MaxErrors = 1
SYMMETRY Perms
INVARIANTS
    TypeOK
    ButtonsMatchSession
    CountFollowsResult
    QuietPageShowsItsUser
    StatusIsCleared
