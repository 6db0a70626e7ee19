SPECIFICATION Spec
CONSTANTS
  NumSections = 3
  Synthesis = {1}
  Thin = {2}
  Workers = {w1, w2}
  Editors = {e1}
  MaxEdits = 1
CHECK_DEADLOCK FALSE
INVARIANTS
  TypeOK
  SynthesisLast
  BilledIsReal
  StopIsPrompt
PROPERTIES
  RunSettles
  Delivers
