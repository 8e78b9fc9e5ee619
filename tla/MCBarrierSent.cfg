SPECIFICATION Spec
CONSTANTS
    t1 = t1
    t2 = t2
    t3 = t3
    Threads = {t1, t2, t3}
    Count = 3
    MaxCalls = 3
    Setups <- MCLate
INVARIANT OneHolder
CHECK_DEADLOCK FALSE
