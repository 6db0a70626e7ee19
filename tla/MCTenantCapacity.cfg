SPECIFICATION Spec
CONSTANTS
  Emails = {e1, e2}
  Limit <- LimitsOfOne
  Requests <- AnyRequest
  Calls = {p1, p2}
  MaxStarts = 2
  MaxMonths = 1
  MaxFaults = 1
CHECK_DEADLOCK FALSE
INVARIANTS
  TypeOK
  CapacityBounded
  AcceptedOnce
PROPERTY LeaksHealed
