\* SQLite with failing statements and crashes; clients update and cancel at will.
SPECIFICATION Spec
CONSTANTS
    Ids = {"t1", "t2"}
    ClientTargets = {"working", "inputRequired", "completed", "failed", "cancelled"}
    StoreFaults = TRUE
    Durable = TRUE
    SharedFile = TRUE
    MaxCrashes = 1
INVARIANTS
    TypeOK
    AbortedNeverCompletes
PROPERTIES
    CancelWins
CHECK_DEADLOCK FALSE
