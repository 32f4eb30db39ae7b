\* Every selection of suites, any server or one of this crate in use by others.
SPECIFICATION FairSpec
CONSTANTS
    Ids = {t1}
    RunTask = r1
    EntryLists <- SmallRegistries
CHECK_DEADLOCK FALSE
INVARIANTS
    TypeOK
    VerdictTellsTruth
    LonghaulConforms
PROPERTIES
    RunTouchesNothing
    RunEnds
