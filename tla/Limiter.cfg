SPECIFICATION Spec
CONSTANTS
  Keys = {alice, bob}
  Rate = 3
  Token = 5
  Burst = 10
  Slack = 1
  RefillTime = 2
  SweepInterval = 2
  MinIdleEvict = 1
  MaxTime = 5
SYMMETRY Symmetry
INVARIANTS
  TypeOK
  RateConformance
  DenialDeserved
  MemoryBounded
PROPERTIES
  ImplementsBuckets
  RetryAfterHonest
CHECK_DEADLOCK FALSE
