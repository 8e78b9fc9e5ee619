SPECIFICATION MCSpec
CONSTANTS
    c1 = c1
    c2 = c2
    t1 = t1
    t2 = t2
    f1 = f1
    f2 = f2
    p1 = p1
    p2 = p2
    x1 = x1
    x2 = x2
    Cpus = {c1, c2}
    Threads = {t1}
    Objects = {o1, o2}
    QueueSize = 1
    Null = Null
INVARIANTS
    MemoryAccounted
    BitmapTellsEnds
    PagesConserved
    L1Room
    ObjectsAccounted
    GracePeriod
    FlushIsBarrier
    BucketsFound
    EventInTime
    MappingsExact
    PtesMatch
    TlbCurrent
    UnitsAccounted
    WorkKept
\* A component may come to rest with nothing left to do.
CHECK_DEADLOCK FALSE
