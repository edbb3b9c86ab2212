SPECIFICATION Spec
CONSTANTS
    p1 = p1
    p2 = p2
    p3 = p3
    f1 = f1
    None = None
    Panes = {p1, p2, p3}
    Floats = {f1}
    MaxMoves = 2
    MaxFaults = 1
    MaxDrags = 0
    MaxPasses = 2
CHECK_DEADLOCK FALSE
INVARIANTS PositionsHold
