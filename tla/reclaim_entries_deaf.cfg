CONSTANTS
  NONE = NONE
  PriceLevels = 2
  MaxCycles = 1
SPECIFICATION Spec
PROPERTIES SetupAfterCooldown
CHECK_DEADLOCK FALSE
