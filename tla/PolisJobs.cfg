SPECIFICATION JobsSpec
CONSTANTS
  Jobs = {j1, j2}
  Products = {p1}
  Keys = {k1}
  Digests = {d1}
  Attempts = {a1, a2}
  Requests = {}
  Images = {i1}
  MaxAttempts = 2
  LeaseTicks = 1
  WaitTicks = 1
  PoisonLimit = 3
  None = None
  Daemons = {w1}
  Faults = {"host", "stuck", "journal"}
SYMMETRY Symmetry
CHECK_DEADLOCK FALSE
INVARIANTS
  JobsTypeOK
  ExitsAreReal
  ScopeHasOneProcess
  ProcessesAreJournaled
