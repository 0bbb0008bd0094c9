SPECIFICATION Spec
CONSTANTS
  NONE = NONE
  MaxPositions = 2
  MaxWeeks = 3
  MaxCrashes = 1
INVARIANTS
  RecordedClosesAreCounted
