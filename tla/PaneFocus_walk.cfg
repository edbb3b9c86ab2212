SPECIFICATION Spec
CONSTANTS Panes = {p1,p2,p3}
  NoPane = NoPane
  Cap = 8
  MaxFocus = 3
  MaxOuter = 0
  MaxKeys = 0
  Stamped = TRUE
INVARIANT FocusAgrees
CHECK_DEADLOCK FALSE
