CONSTANTS
  r1 = r1
  r2 = r2
  free = free
  ultra = ultra
  Unlimited = Unlimited
  NoDay = NoDay
  Requests = {r1, r2}
  Plans = {free, ultra}
  Limit <- MCTwoLimits
  Owner = FALSE
  LastDay = 2
  MaxUnits = 3
SPECIFICATION Spec
SYMMETRY RequestSymmetry
PROPERTY GrantsWithinLimit
CHECK_DEADLOCK FALSE
