SPECIFICATION Spec
CONSTANTS
  s1 = s1
  s2 = s2
  Statements = {s1, s2}
  Texts <- BothTexts
  Unsupported = {s2}
  Requests <- AnyRequest
  Calls = {p1, p2}
  RegenLimit = 1
  MaxStarts = 2
  MaxUpsets = 1
CHECK_DEADLOCK FALSE
SYMMETRY Symmetry
INVARIANTS
  TypeOK
  RegenerationsBounded
  ApprovedWasExamined
  ClaimsOfTheirRevision
  DecisionsNotSpread
PROPERTY KeepsHistory
