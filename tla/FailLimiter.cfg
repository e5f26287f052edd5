SPECIFICATION LoginSpec
CONSTANTS
  Hosts = {c1, c2, p}
  Proxies = {p}
  Malformed = Malformed
  Keys <- MCKeys
  Workers = {w1, w2}
  None = None
  Limit = 2
  Window = 2
  MaxKeys = 2
  MaxTime = 3
  MaxLog = 6
  MaxForged = 2
  MaxPath = 2
SYMMETRY Symmetry
INVARIANTS
  TypeOK
  BlockedDeserved
  OvershootBounded
  RollingBound
  AttributionExact
PROPERTY LostOnlyWhenFull
CHECK_DEADLOCK FALSE
