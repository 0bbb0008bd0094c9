SPECIFICATION FairSpec
CONSTANTS
  EntryQty = 20
  MinContracts = 3
  PartialFills = {8}
  ThreeStageEnabled = TRUE
  SplitEnabled = TRUE
INVARIANTS
  TypeOK
  ProgressInOrder
  StagesWereSold
  SplitHasItsLegs
  EveryStageAsksForItsStop
PROPERTIES
  StagesKept
  SoldBucketRecognised
