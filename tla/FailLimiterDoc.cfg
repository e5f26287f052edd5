SPECIFICATION Spec
CONSTANTS
  Keys = {k1}
  Workers = {w1}
  None = None
  Limit = 2
  Window = 2
  MaxKeys = 1
  MaxTime = 4
  MaxLog = 6
INVARIANT DocRollingWindow
CHECK_DEADLOCK FALSE
