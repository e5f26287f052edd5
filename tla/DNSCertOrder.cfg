SPECIFICATION Spec
CONSTANTS
  Managers = {m1}
  Keys = {k1, k2}
  Authzs = {a1, a2}
  ExactHosts = FALSE
  MaxStops = 2
  MaxMisreads = 1
  Absent = Absent
  Torn = Torn
  Old = Old
INVARIANTS
  RecordInPlace
  LeftoverExplained
PROPERTY Renews
