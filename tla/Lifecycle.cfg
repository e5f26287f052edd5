SPECIFICATION Spec
CONSTANTS
  Servers = {web, redirect}
  Conns = {c1, c2}
  None = None
INVARIANTS
  TypeOK
  AllStopped
  ResultIsFirstCause
  DrainHonoured
  SharedBudget
  DrainInterruptible
PROPERTIES
  ImplementsRun
  StopLeadsToReturn
