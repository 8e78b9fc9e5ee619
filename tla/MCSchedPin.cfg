SPECIFICATION PinSpec
CONSTANTS
    c1 = c1
    c2 = c2
    t1 = t1
    t2 = t2
    t3 = t3
    Cpus = {c1, c2}
    Threads = {t1, t2, t3}
    Boot = t1
    BootCpu = c1
    NoCpu = NoCpu
    Pinned <- MCPinned
    Idle = Idle
INVARIANT
    NotWokenWhileRunning
CHECK_DEADLOCK FALSE
