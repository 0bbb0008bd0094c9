SPECIFICATION Spec
CONSTANTS
  NONE = NONE
  LONG = LONG
  SHORT = SHORT
  Sides <- OneSide
  EXECUTION_QUEUE_MAXSIZE = 2
  GuardActions = {}
  ManualTrading = FALSE
  LateFills = FALSE
  SplitMiddleBucket = FALSE
  MaxPositions = 1
  MaxRestarts = 1
PROPERTY
  CountdownSurvivesRestart
