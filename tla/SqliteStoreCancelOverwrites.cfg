\* Two server processes on one database file, one thread in each.
SPECIFICATION Spec
CONSTANTS
    a = a
    b = b
    c3 = c3
    one = one
    two = two
    TaskIds = {"t1"}
    Callers = {a, b}
    Instances = {one, two}
    Home <- HomeApart
    NoCaller = NoCaller
PROPERTY TerminalAbsorbing
