SPECIFICATION PollerSpec
CONSTANTS
  None = None
  Zids = {z1}
  Cells = {}
  Tids = {t1, t2}
  ThreadSets = {{"mod", "reconcile"}}
  RetryCap = 1
  Unfinished = {}
  Overlap = 1
  MaxStamp = 2
  MaxModerations = 3
  MaxFaults = 2
INVARIANTS
  UnModerationCaptured
CHECK_DEADLOCK FALSE
