SPECIFICATION FairSpec
CONSTANTS
    Consumers = {c1, c2}
    Producers = {p1}
    MaxItems = 1
    MaxBreaks = 1
    None = None
CHECK_DEADLOCK FALSE
PROPERTY
    BroadcastReachesAll
