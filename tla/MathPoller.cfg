SPECIFICATION FairPollerSpec
CONSTANTS
  None = None
  Zids = {z1}
  Cells = {c1}
  Tids = {t1, t2}
  ThreadSets = {{"vote", "reconcile"}, {"mod", "reconcile"}}
  RetryCap = 1
  Unfinished = {z1}
  Overlap = 2
  MaxStamp = 3
  MaxModerations = 2
  MaxFaults = 2
INVARIANTS
  PollerTypeOK
  NeverStranded
  MissedOnlyWhenLate
  NothingForgotten
  ModerationSettles
PROPERTIES
  ImplementsMirror
  PiecesAreReplaced
CHECK_DEADLOCK FALSE
