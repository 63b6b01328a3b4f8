SPECIFICATION JobsSpec
CONSTANTS
  Jobs = {j1}
  Products = {p1}
  Keys = {k1}
  Digests = {d1}
  Attempts = {a1, a2}
  Requests = {r1}
  Images = {i1}
  MaxAttempts = 2
  LeaseTicks = 1
  WaitTicks = 1
  PoisonLimit = 3
  None = None
  Daemons = {w1}
  Faults = {}
SYMMETRY Symmetry
CHECK_DEADLOCK FALSE
PROPERTIES
  ChildrenStartResolved
