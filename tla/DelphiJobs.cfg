SPECIFICATION DelphiSpec
CONSTANTS
  Jobs = {j1, j2}
  Products = {p1}
  Keys = {k1, k2}
  Digests = {d1, d2}
  Attempts = {a1, a2}
  Requests = {r1, r2}
  Images = {i1, i2}
  MaxAttempts = 2
  LeaseTicks = 1
  WaitTicks = 1
  PoisonLimit = 1
  None = None
SYMMETRY Symmetry
CHECK_DEADLOCK FALSE
INVARIANTS
  PoisonBounds
  ProviderWorkSettled
  BudgetLeft
  OneProcess
  WaitingIsResolved
  ScopeHeld
  AliasesAgree
PROPERTIES
  PaidWorkClearedByOwner
  ImplementsScopeLock
