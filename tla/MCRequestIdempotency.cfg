SPECIFICATION Spec
CONSTANTS
  Requests = {r1, r2, r3}
  Timeout = 1
  Ttl = 2
  MaxClock = 3
CHECK_DEADLOCK FALSE
INVARIANTS
  TypeOK
  CreatedOnce
PROPERTY KeepsPromise
