SPECIFICATION Spec
CONSTANTS
  Calls = {c1}
  Bodies = {old, new}
  None = None
  Pieces = 2
  MaxEdits = 2
INVARIANT DocImmutableExact
