SPECIFICATION FairSpec
CONSTANTS
  Gens = {g1, g2}
  Admins = {}
  Limit = 1
  NumPacks = 0
  Credits <- MCCredits
  Standing = {}
  Mode = "enforce"
  Polluted = {0, 1}
  Months = 2
  MaxAdminOps = 0
INVARIANTS
  TypeOK
  PlanOvershootBounded
PROPERTIES
  NotLockedOut
  LeaksHealed
