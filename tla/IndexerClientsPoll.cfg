\* A server on SQLite without faults; clients only poll and cancel, here or elsewhere.
SPECIFICATION FairSpec
CONSTANTS
    Ids = {"t1", "t2"}
    ClientTargets = {}
    StoreFaults = FALSE
    Durable = TRUE
    SharedFile = TRUE
    MaxCrashes = 0
INVARIANTS
    CancelHasWatcher
    LiveTaskHasWorker
    OutcomeMatchesWalk
PROPERTIES
    CancelStopsWorker
    EndedWalkSettles
    MonitorEnds
