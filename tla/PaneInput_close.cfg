SPECIFICATION Spec
CONSTANTS MaxKeys = 3
  ChainedClose = TRUE
  Keys <- MCKeys
INVARIANT InputKept
CHECK_DEADLOCK FALSE
