\* MCCreditPacks, to show what becomes of the refund rule.
SPECIFICATION FairSpec
CONSTANTS
  Gens = {g1}
  Admins = {a1, a2}
  Limit = 0
  NumPacks = 2
  Credits <- MCCredits
  Standing <- MCStanding
  Mode = "enforce"
  Polluted = {0}
  Months = 1
  MaxAdminOps = 3
PROPERTY RefundStopsDrawDown
