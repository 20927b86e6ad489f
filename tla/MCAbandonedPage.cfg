SPECIFICATION Spec
CONSTANTS
    t1 = t1
    t2 = t2
    t3 = t3
    b1 = b1
    b2 = b2
    b3 = b3
    b4 = b4
    NoBlock = NoBlock
    Threads <- MCThreads
    Blocks <- MCBlocks
    Kept <- MCKept
    Eighth = 1
INVARIANTS
    OneOwner
    EveryBlockOnce
    NothingUsesReleased
    QuietPage
    NoErrorReturn
PROPERTY
    CallsEnd
CHECK_DEADLOCK FALSE
