SPECIFICATION Spec
CONSTANTS
  Regimes = {"mean", "trend"}
  Faults = {"tp", "cancel_tp", "stop", "unverified", "cancel_stop", "foreign"}
  MaxLegs = 2
  MaxOrders = 5
INVARIANTS
  TypeOK
  ProtectedOrAlarmed
  TakeProfitsStand
  RecordedStopsStand
PROPERTIES
  ForeignOrdersKept
  CoverNeverCancelled
CHECK_DEADLOCK FALSE
