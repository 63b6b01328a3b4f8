SPECIFICATION Spec
CONSTANTS
  Jobs = {j1, j2}
  Products = {p1, p2}
  Keys = {k1, k2}
  Digests = {d1}
  Attempts = {a1, a2, a3}
  MaxAttempts = 2
  LeaseTicks = 1
  WaitTicks = 1
  None = None
SYMMETRY Symmetry
CHECK_DEADLOCK FALSE
INVARIANTS
  SingleOwner
  EpochsOrdered
  SuccessHasOneAttempt
  RunMirrorsJob
PROPERTIES
  FencedForever
  ImplementsLedger
