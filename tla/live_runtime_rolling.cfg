SPECIFICATION Spec
CONSTANTS
  NONE = NONE
  LONG = LONG
  SHORT = SHORT
  Sides <- OneSide
  EXECUTION_QUEUE_MAXSIZE = 2
  GuardActions = {"SOFT_HALT"}
  ManualTrading = FALSE
  LateFills = FALSE
  SplitMiddleBucket = FALSE
  MaxPositions = 1
  MaxRestarts = 0
PROPERTY
  RollingHaltHolds
