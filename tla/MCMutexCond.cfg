SPECIFICATION MCSpec
CONSTANTS
    Threads = {t1, t2, t3}
    Kinds <- MCKinds
    MaxCount = 1
    None = None
    Unrecoverable = Unrecoverable
    Null = Null
SYMMETRY Symmetry
CHECK_DEADLOCK FALSE
INVARIANTS
    WordNamesTheOwner
    DeathIsReported
    NoStrandedSleeper
    FramesOutliveUsers
PROPERTY
    NoLostSignal
