SPECIFICATION Spec
CONSTANTS
  MEMORY = 38
  BLOCKSIZE = 3
  GrowReqs <- OneBuffer
INVARIANT
  BlocksInBuffers
CHECK_DEADLOCK FALSE
