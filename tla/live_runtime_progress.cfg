SPECIFICATION FairSpec
CONSTANTS
  NONE = NONE
  LONG = LONG
  SHORT = SHORT
  Sides <- OneSide
  EXECUTION_QUEUE_MAXSIZE = 2
  GuardActions = {"SOFT_HALT"}
  ManualTrading = FALSE
  LateFills = FALSE
  SplitMiddleBucket = TRUE
  MaxPositions = 1
  MaxRestarts = 0
PROPERTIES
  PendingDrains
  ArmedExitConcludes
  WaitingFlatEnds
  LivePositionIsTracked
