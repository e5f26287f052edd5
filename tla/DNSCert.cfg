SPECIFICATION SafetySpec
CONSTANTS
  Managers = {m1, m2}
  Keys = {k1, k2, k3, k4}
  Authzs = {}
  ExactHosts = TRUE
  MaxStops = 2
  MaxMisreads = 1
  Absent = Absent
  Torn = Torn
  Old = Old
SYMMETRY Symmetry
INVARIANTS
  TypeOK
  AccountsBounded
  NoNeedlessOrder
PROPERTY ImplementsStore
