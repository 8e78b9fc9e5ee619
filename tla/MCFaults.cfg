SPECIFICATION Spec
CONSTANTS
    t1 = t1
    t2 = t2
    Threads = {t1, t2}
    NPages = 3
    Huge = 2
    Width = 20
    Setups <- MCSetups
INVARIANT TablesFollowed
CHECK_DEADLOCK FALSE
