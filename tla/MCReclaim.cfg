SPECIFICATION FairSpec
CONSTANTS
    Threads = {t1, t2}
    NPages = 4
    Chunks <- OneChunk
    MaxOrder = 2
    Sizes = {1, 2}
    Huge = 2
    Watermark = 1
PROPERTY WaitersServed
CHECK_DEADLOCK FALSE
