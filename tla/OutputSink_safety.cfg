SPECIFICATION Spec
CONSTANTS
    Buf = 2
    Float = FALSE
    MaxDrawn = 2
    MaxPauses = 1
    MaxPasses = 1
    MaxResets = 1
    MaxDrops = 1
CHECK_DEADLOCK FALSE
INVARIANTS ScreenHonest
PROPERTIES ReseedOrdered
