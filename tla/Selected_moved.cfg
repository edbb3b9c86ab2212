SPECIFICATION Spec
CONSTANTS
    w1 = w1
    w2 = w2
    p1 = p1
    p2 = p2
    p3 = p3
    None = None
    Wins = {w1, w2}
    Panes = {p1, p2, p3}
    MaxMoves = 2
    MaxFaults = 1
    Overlap = TRUE
INVARIANTS MovedPanesServed
CHECK_DEADLOCK FALSE
