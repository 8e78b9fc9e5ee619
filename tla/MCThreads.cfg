SPECIFICATION ThreadsSpec
CONSTANTS
    c1 = c1
    c2 = c2
    t1 = t1
    t2 = t2
    t3 = t3
    o1 = o1
    o2 = o2
    Cpus = {c1, c2}
    Threads = {t1, t2}
    Owner <- MCOwner
    Main = Main
    Reaper = Reaper
    IdleThread = IdleThread
    NoCpu = NoCpu
    NoObject = NoObject
INVARIANTS
    MemoryOutlivesUse
    OneReleaser
    BarrierHolds
PROPERTIES
    WakeupsDelivered
    WaitsEnd
    EndedReleased
    BarrierPasses
\* All calls have been made, or all threads wait with nobody left to wake them.
CHECK_DEADLOCK FALSE
