SPECIFICATION FairSpec
CONSTANTS
    Threads = {t1, t2, t3}
    NoThread = NoThread
    Client = t1
    SeqMax = 2
    MaxDepth = 2
INVARIANTS
    MutualExclusion
    SinglePopper
    AssertionsHold
    RecordsAlive
    CountExact
    HandoffNoticed
PROPERTIES
    ImplementsMutex
    ClientServed
\* A thread may be left parked for ever: who wakes it is the condvar's affair.
CHECK_DEADLOCK FALSE
