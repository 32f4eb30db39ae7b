\* A client pauses the task while it is walked.
SPECIFICATION Spec
CONSTANTS
    Ids = {"t1"}
    ClientTargets = {"inputRequired"}
    StoreFaults = FALSE
    Durable = TRUE
    SharedFile = FALSE
    MaxCrashes = 0
INVARIANT WorkerExitSettles
