SPECIFICATION Spec
CONSTANTS
  MaxDrafts = 2
  Calls = {c1, c2}
  MaxCalls = 5
SYMMETRY MCSymmetry
CHECK_DEADLOCK FALSE
INVARIANTS
  TypeOK
  SweepHolds
  ApprovedWasReviewed
  PeriodFollowsDraft
PROPERTY StopIsFinal
