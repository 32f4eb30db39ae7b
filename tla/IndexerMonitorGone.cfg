\* One task; any operation of the store may fail, a poll of the monitor too.
SPECIFICATION Spec
CONSTANTS
    Ids = {"t1"}
    ClientTargets = {}
    StoreFaults = TRUE
    Durable = TRUE
    SharedFile = FALSE
    MaxCrashes = 0
INVARIANT CancelHasWatcher
CHECK_DEADLOCK FALSE
