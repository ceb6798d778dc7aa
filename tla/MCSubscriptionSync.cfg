CONSTANTS
  w1 = w1
  s1 = s1
  s2 = s2
  premium = premium
  ultra = ultra
  NoSub = NoSub
  Free = Free
  Subs = {s1, s2}
  PaidPlans = {premium, ultra}
  Workers = {w1}
  Allowed = {}
  MaxMail = 4
SPECIFICATION FairSpec
INVARIANTS TypeOK Agreement
PROPERTY PlanFollowsStripe
CHECK_DEADLOCK FALSE
