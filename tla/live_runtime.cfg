SPECIFICATION Spec
CONSTANTS
  NONE = NONE
  LONG = LONG
  SHORT = SHORT
  Sides <- BothSides
  EXECUTION_QUEUE_MAXSIZE = 2
  GuardActions = {}
  ManualTrading = FALSE
  LateFills = TRUE
  SplitMiddleBucket = FALSE
  MaxPositions = 2
  MaxRestarts = 1
SYMMETRY SideSymmetry
INVARIANTS
  TypeOK
  PendingIsOutstandingWork
  SettlementNeverDropsEntry
  ArmedMeansFullHalt
  NamedPositionIsTracked
  AtMostOneExitPerArm
  NoCommandStartsUnderArmedExit
  IInv
