SPECIFICATION Spec
CONSTANTS
  Writers = {w1, w2, w3}
  MaxEvents = 4
  MaxTime = 1
  MaxPurges = 1
CHECK_DEADLOCK FALSE
INVARIANTS
  TypeOK
  ChainVerifies
  RecordedInOrder
PROPERTIES
  AppendsEnd
  KeepsTrail
