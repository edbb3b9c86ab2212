SPECIFICATION FairSpec
CONSTANTS
    Buf = 1
    Float = FALSE
    MaxDrawn = 1
    MaxPauses = 1
    MaxPasses = 1
    MaxResets = 0
    MaxDrops = 1
CHECK_DEADLOCK FALSE
PROPERTIES LetsGo CatchesUp
