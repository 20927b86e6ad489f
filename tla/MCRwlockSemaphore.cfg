SPECIFICATION MCSpec
CONSTANTS
    Threads = {t1, t2, t3}
    Reader = t1
    Timed = t2
    MaxReaders = 2
    Waiters = {t1, t2, t3}
    Posters = {t3, t4}
    MaxValue = 2
    Either = t3
PROPERTIES
    ImplementsRwlock
    ImplementsSemaphore
