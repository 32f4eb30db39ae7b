\* Two clients, every method, failing tools and stores.
SPECIFICATION Spec
CONSTANTS
    t1 = t1
    c1 = c1
    c2 = c2
    Clients = {c1, c2}
    Ids = {t1}
    Tools = {"index_directory"}
    Requests <- AllRequests
    Faults = TRUE
    NoRequest = NoRequest
    NoHandle = NoHandle
SYMMETRY ClientSymmetry
INVARIANTS
    TypeOK
    DispatchedWasChecked
    RefusalsMoveNothing
    HandedTasksAreKnown
PROPERTIES
    CancelIsIdempotent
