SPECIFICATION MCSpec
CONSTANTS
    Threads = {t1, t2, t3}
    Sleeper = t1
    Signaler = t3
    Budget <- OneSignal
    Null = Null
    Consumers = {c1, c2}
    Producers = {p1, p2}
    MaxItems = 2
    MaxBreaks = 1
    None = None
CHECK_DEADLOCK FALSE
INVARIANT
    UntouchedAfterDestroy
PROPERTIES
    ImplementsCond
    NobodyIsForgotten
