\* Two server processes on one database file, two threads in one of them.
SPECIFICATION Spec
CONSTANTS
    a = a
    b = b
    c3 = c3
    one = one
    two = two
    TaskIds = {"t1"}
    Callers = {a, b, c3}
    Instances = {one, two}
    Home <- HomeApart
    NoCaller = NoCaller
SYMMETRY NeighbourSymmetry
INVARIANTS
    CancelAckPersists
    NoContradictoryOutcome
PROPERTIES
    UpdatesFollowLifecycle
    ImplementsSharedStore
