\* MCBillingInbox, to show what becomes of the inbox retry's promise.
SPECIFICATION Spec
CONSTANTS
  Hooks = {h1}
  Endless = FALSE
  Orders = TRUE
  MaxAttempts = 2
  MaxEvents = 2
  MaxPeriods = 0
  MaxFaults = 1
CHECK_DEADLOCK FALSE
INVARIANT RetryConverges
