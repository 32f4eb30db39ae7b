\* One server process, three threads: the mutex covers whole methods.
SPECIFICATION Spec
CONSTANTS
    a = a
    b = b
    c3 = c3
    one = one
    two = two
    TaskIds = {"t1"}
    Callers = {a, b, c3}
    Instances = {one}
    Home <- HomeShared
    NoCaller = NoCaller
SYMMETRY CallerSymmetry
INVARIANTS
    TypeOK
    LockHeldInMethod
    ReportsAgree
PROPERTIES
    TerminalAbsorbing
    ImplementsTaskStore
