SPECIFICATION Spec
CONSTANTS
  Calls = {c1, c2}
  Bodies = {old, new}
  None = None
  Pieces = 2
  MaxEdits = 3
SYMMETRY Symmetry
INVARIANTS
  TypeOK
  CacheHonest
  UrlCurrent
  ImmutableHonest
