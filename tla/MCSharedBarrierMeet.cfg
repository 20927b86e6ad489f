SPECIFICATION FairSpec
CONSTANTS
    t1 = t1
    t2 = t2
    t3 = t3
    p1 = p1
    p2 = p2
    Threads <- MCThreads
    Process <- MCProcess
    Limits = {2}
    NoThread = NoThread
CHECK_DEADLOCK FALSE
PROPERTY
    EnoughThreadsMeet
