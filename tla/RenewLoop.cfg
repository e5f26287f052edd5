SPECIFICATION Spec
CONSTANTS
  RenewBefore = 15
  RenewInterval = 4
  RetryInterval = 1
  ObtainTimeout = 2
  CleanupTimeout = 1
  Lifetimes = {17, 20}
  MaxDown = 1
  MaxSetbacks = 2
  None = None
  MaxTime = 60
INVARIANTS
  TypeOK
  NeverExpired
  FirstInTime
CHECK_DEADLOCK FALSE
