SPECIFICATION Spec
CONSTANTS
    Threads = {t1, t2, t3}
    Kinds <- MCKinds
    MaxCount = 1
    None = None
    Unrecoverable = Unrecoverable
SYMMETRY Symmetry
CHECK_DEADLOCK FALSE
INVARIANT
    LossIsReported
