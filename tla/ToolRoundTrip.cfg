\* Three calls, two candidates, a directory that changes at any time.
SPECIFICATION Spec
CONSTANTS
    Subs = {src1, src2}
    Root = root
    Elsewhere = elsewhere
    Ids = {t1, t2, t3}
    MaxAttempts = 3
    OwnLists <- SmallLists
    None = None
SYMMETRY Symmetry
CHECK_DEADLOCK FALSE
INVARIANTS
    TypeOK
    AnswerTellsEffect
    HandleIsForChoice
    HonestRetryAccepted
    OnlySeenAreIndexed
