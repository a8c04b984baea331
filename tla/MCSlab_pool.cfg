SPECIFICATION Spec
CONSTANTS
  MEMORY = 38
  BLOCKSIZE = 3
  GrowReqs <- MCGrowReqs
INVARIANTS
  BlocksApart
  ListsCoverCounters
PROPERTIES
  HeldUntouched
  PoolSpec
CHECK_DEADLOCK FALSE
