\* Three servers on a fresh file, with failing statements and crashes.
SPECIFICATION Spec
CONSTANTS
    Servers = {"s1", "s2", "s3"}
    Ids = {"t1"}
    Faults = TRUE
INVARIANTS
    TypeOK
    OpenMeansUsable
PROPERTIES
    MigrationKeepsTasks
