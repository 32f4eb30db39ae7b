\* One task, a client of its server and one of another, pauses and resumes.
SPECIFICATION SystemSpec
CONSTANTS
    w = w
    m = m
    near = near
    far = far
    here = here
    there = there
    TaskIds = {"t1"}
    Callers = {w, m, near, far}
    Instances = {here, there}
    Home <- HomeOfAll
    NoCaller = NoCaller
    Here = here
    WorkerOf <- Workers
    MonitorOf <- Monitors
    ClientTargets = {"inputRequired", "working"}
    MaxCrashes = 1
CHECK_DEADLOCK FALSE
INVARIANTS
    SystemTypeOK
    ToldMatchesWalk
PROPERTIES
    ImplementsIndexer
