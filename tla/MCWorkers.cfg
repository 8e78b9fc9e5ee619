SPECIFICATION FairSpec
CONSTANTS
    c1 = c1
    c2 = c2
    Cpus = {c1, c2}
    LastItem = 1
    MaxSignals = 3
PROPERTIES
    WorkDone
\* All signals have been given.
CHECK_DEADLOCK FALSE
