SPECIFICATION PollerSpec
CONSTANTS
  None = None
  Zids = {z1}
  Cells = {c1}
  Tids = {t1}
  ThreadSets = {{"vote", "mod", "reconcile"}}
  RetryCap = 0
  Unfinished = {}
  Overlap = 1
  MaxStamp = 2
  MaxModerations = 1
  MaxFaults = 2
INVARIANTS
  NothingForgotten
CHECK_DEADLOCK FALSE
