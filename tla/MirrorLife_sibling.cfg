SPECIFICATION Spec
CONSTANTS
    d1 = d1
    d2 = d2
    None = None
    Daemons = {d1, d2}
    MaxFaults = 2
    Gap = FALSE
INVARIANTS SiblingSpared
CHECK_DEADLOCK FALSE
