CONSTANTS
  r1 = r1
  r2 = r2
  free = free
  ultra = ultra
  Unlimited = Unlimited
  NoDay = NoDay
  Requests = {r1, r2}
  Plans = {free, ultra}
  Limit <- MCLimit
  Owner = TRUE
  LastDay = 2
  MaxUnits = 3
SPECIFICATION Spec
SYMMETRY RequestSymmetry
INVARIANTS TypeOK LedgerBalances
PROPERTIES GrantsCountEarlierOnes ImplementsLedger
CHECK_DEADLOCK FALSE
