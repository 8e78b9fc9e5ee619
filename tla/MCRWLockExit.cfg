SPECIFICATION ExitSpec
CONSTANTS
    Threads = {t1, t2, t3}
    NoThread = NoThread
    MaxDepth = 2
INVARIANT WokenThreadExists
CHECK_DEADLOCK FALSE
