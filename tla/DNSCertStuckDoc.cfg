SPECIFICATION Spec
CONSTANTS
  Managers = {m1}
  Keys = {k1, k2}
  Authzs = {a1}
  ExactHosts = FALSE
  MaxStops = 1
  MaxMisreads = 0
  Absent = Absent
  Torn = Torn
  Old = Old
PROPERTY DocKeepsRenewed
