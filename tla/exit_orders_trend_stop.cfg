SPECIFICATION Spec
CONSTANTS
  Regimes = {"trend"}
  Faults = {}
  MaxLegs = 1
  MaxOrders = 5
INVARIANT
  OldTrendStopCancelled
CHECK_DEADLOCK FALSE
