SPECIFICATION MCSpec
CONSTANTS
    Users = {u1, u2}
    First = u1
    Reqs = {r1, r2, r3}
    Queues = {q1, q2, q3}
    Ops = {"read", "write", "sync"}
    MaxCalls = 4
    None = None
CHECK_DEADLOCK FALSE
INVARIANTS
    LifetimesAreExact
    CancelIsComplete
    WritesInOrder
PROPERTY
    CallsEnd
