SPECIFICATION MCSpec
CONSTANTS
    Threads = {t1, t2}
    Last = 1
    Iterations = 2
    MaxCreations = 3
    Workers = {w1, w2}
    Main = main
    First = w1
    MaxCalls = 4
    Requesters = {r1, r2}
    MaxRequests = 2
CHECK_DEADLOCK FALSE
INVARIANTS
    ValuesBelongToTheirKey
    NoValueOverlooked
    ControlsEndOnce
    SignalsHitTheirTask
PROPERTIES
    CallsSettle
    RequestIsServed
    NoEffectIsLost
