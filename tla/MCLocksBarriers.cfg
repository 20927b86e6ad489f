SPECIFICATION MCSpec
CONSTANTS
    t1 = t1
    t2 = t2
    t3 = t3
    t4 = t4
    p1 = p1
    p2 = p2
    Threads <- MCThreads
    Spins = 1
    MaxAbandons = 2
    Limits = {2, 3}
    NoThread = NoThread
    PrivateLimits = {1, 2}
    NoInstance = NoInstance
INVARIANTS
    NoStrandedSleeper
    ReturnsAfterCompletion
    NobodyIsEarly
    NothingDangles
PROPERTIES
    LocksImplementLock
    EveryCallEnds
    RoundsDrain
