SPECIFICATION Spec
CONSTANTS
  Bodies = {a, b}
  Data = {d, key}
  Secrets = {key}
  Hour = 2
  Year = Year
  Plain = Plain
  Missing = Missing
  None = None
SYMMETRY Symmetry
INVARIANTS
  TypeOK
  ImmutableTruthful
  NewBuildShows
  HourHeals
  PageHonest
  SecretNotStored
