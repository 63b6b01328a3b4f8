SPECIFICATION BackfillSpec
CONSTANTS
  z1 = z1
  z2 = z2
  Order <- InOrder
  PageSize = 2
  Concurrency = 2
  Large = {}
  MaxInput = 1
  SourceAhead = {z1}
  Accept = FALSE
  GateAfter = 1
  MaxAttempts = 2
  Voted = {z1}
  MaxVotes = 2
  MaxFaults = 1
  MaxSignals = 2
  None = None
INVARIANTS
  JobsHaveSlots
  QuietWhenStopped
PROPERTIES
  NeverOlder
  
  EveryTargetSettles
CHECK_DEADLOCK FALSE
