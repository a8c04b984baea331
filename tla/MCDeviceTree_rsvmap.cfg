SPECIFICATION Spec
CONSTANTS
  Blobs <- ReservingBlobs
  PAGE = 4
  NODE_CAP = 2
  PROP_CAP = 2
  RSV_CAP = 4
  PageBudgets = {4}
  MaxRefusals = 0
INVARIANT
  ReservedOnce
CHECK_DEADLOCK FALSE
