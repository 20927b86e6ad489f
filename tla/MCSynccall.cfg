SPECIFICATION FairSpec
CONSTANTS
    Threads = {t1, t2, t3}
    Initial = t1
    Starts = {{t1, t2}, {t1, t2, t3}}
    MaxCalls = 3
    None = None
CHECK_DEADLOCK FALSE
INVARIANTS
    WorldStops
    AllOrNone
    TargetsStayAlive
    NothingLeftBehind
PROPERTIES
    CallsEnd
