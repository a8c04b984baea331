SPECIFICATION Spec
CONSTANTS
  Blobs <- MCBlobs
  PAGE = 4
  NODE_CAP = 2
  PROP_CAP = 1
  RSV_CAP = 1
  PageBudgets <- MCBudgets
  MaxRefusals = 1
INVARIANTS
  TypeOK
  TreeRight
  CellsRight
  ListsRight
  MeetsOnlyRaw
  MappedWhileRead
  ValidAccepted
PROPERTY
  Ends
CHECK_DEADLOCK FALSE
