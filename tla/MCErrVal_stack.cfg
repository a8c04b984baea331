SPECIFICATION Spec
CONSTANTS
  WIDTH = 10
  SHIFT = 1
  ErrorCode <- MappingCodes
  GUARD = 30
  DEPTH = 8
INVARIANT
  FailurePropagates
PROPERTY
  PrintEnds
