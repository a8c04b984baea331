SPECIFICATION ContractSpec
CONSTANTS
  HALF = 32
  PowersOfTwo <- MCPowersOfTwo
  BitAnd <- MCBitAnd
  InitReqs <- MCInitReqs
  Sizes <- MCSizes
  AlignedReqs <- MCAlignedReqs
  MaxBlocks = 6
INVARIANTS
  BlocksInBuffer
  BlocksApart
  BlocksAligned
CHECK_DEADLOCK FALSE
