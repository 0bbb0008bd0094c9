SPECIFICATION Spec
CONSTANTS
  NONE = NONE
  LONG = LONG
  SHORT = SHORT
  Sides <- BothSides
  EXECUTION_QUEUE_MAXSIZE = 1
  GuardActions = {"SOFT_HALT"}
  ManualTrading = TRUE
  LateFills = FALSE
  SplitMiddleBucket = TRUE
  MaxPositions = 1
  MaxRestarts = 0
SYMMETRY SideSymmetry
PROPERTIES
  ImplementsDelayedMarketExit
