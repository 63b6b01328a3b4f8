SPECIFICATION AdmissionSpec
CONSTANTS
  Zids = {z1, z2, z3}
  Capacity = 3
  CacheBudget = 1
  CacheCap = 0
  Sizes = {1, 4}
  Exclusive = {TRUE}
  MaxFailures = 2
INVARIANTS
  MemoryFits
  NoChargeIsLeft
PROPERTIES
  NobodyWaitsForEver
CHECK_DEADLOCK FALSE
