SPECIFICATION Spec
SYMMETRY MCSymmetry
CONSTANTS
    c1 = c1
    c2 = c2
    t1 = t1
    t2 = t2
    t3 = t3
    Cpus = {c1, c2}
    Threads = {t1, t2, t3}
    Boot = t1
    BootCpu = c1
    NoCpu = NoCpu
    Pinned <- MCPinned
    Idle = Idle
INVARIANTS
    OneCpu
    StatusAgrees
    AssertionsHold
    HaltNoticed
\* All threads may wait with nobody left to wake them.
CHECK_DEADLOCK FALSE
