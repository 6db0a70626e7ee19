SPECIFICATION Spec
CONSTANTS
  Gens = {g1, g2}
  Admins = {a1, a2}
  Limit = 0
  NumPacks = 2
  Credits <- MCCredits
  Standing <- MCStanding
  Mode = "enforce"
  Polluted = {0}
  Months = 1
  MaxAdminOps = 2
SYMMETRY MCSymmetry
INVARIANTS
  PackShape
  TopUpNeverOversold
