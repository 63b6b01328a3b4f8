SPECIFICATION FairSpec
CONSTANTS
  Jobs = {j1, j2}
  Products = {p1}
  Keys = {k1}
  Digests = {d1, d2}
  Attempts = {a1, a2, a3}
  MaxAttempts = 2
  LeaseTicks = 1
  WaitTicks = 1
  None = None
  Executors = {e1, e2}
  Fixture = {j1}
  MaxCrashes = 2
INVARIANTS
  VerdictTrue
PROPERTIES
  ReaperSparesOwners
  CancelSawIt
  EveryJobSettles
CHECK_DEADLOCK FALSE
