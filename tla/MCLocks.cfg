SPECIFICATION LocksSpec
CONSTANTS
    Threads = {t1, t2, t3}
    Mutexes = {m1, m2}
    NoMutex = NoMutex
    NoThread = NoThread
    MaxDepth = 2
INVARIANTS
    WaitersAccounted
    MutexReturned
    Exclusion
    CountsExact
    NobodyStranded
PROPERTIES
    WakeupsReturn
    LockServed
