SPECIFICATION Spec
CONSTANTS
    u1 = u1
    Users = {u1}
    Stored = {{u1}}
    MaxGestures = 1
    MaxErrors = 0
INVARIANTS
    LoggedOutPanelsAreReset
