SPECIFICATION Spec
CONSTANTS
  Hooks = {h1}
  Endless = FALSE
  Orders = TRUE
  MaxAttempts = 2
  MaxEvents = 2
  MaxPeriods = 1
  MaxFaults = 1
CHECK_DEADLOCK FALSE
INVARIANTS
  TypeOK
  AccessWasPaid
  ProcessedTookEffect
PROPERTIES
  StuckEventsSettle
  ProviderIsFollowed
