\* MCReportLifecycle with one call at a time, for the activation's comment.
SPECIFICATION Spec
CONSTANTS
  MaxDrafts = 2
  Calls = {c1}
  MaxCalls = 4
SYMMETRY MCSymmetry
CHECK_DEADLOCK FALSE
INVARIANT ActivationRestores
