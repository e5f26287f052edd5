SPECIFICATION Spec
CONSTANTS
  Servers = {web, redirect}
  Conns = {c1}
  None = None
INVARIANT DocInFlightClosed
