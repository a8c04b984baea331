SPECIFICATION Spec
CONSTANTS
  WIDTH = 64
  SHIFT = 1
  ErrorCode <- MappingCodes
  GUARD = 30
  DEPTH = 2
INVARIANT
  TopIsLastPushed
