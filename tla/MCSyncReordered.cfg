CONSTANTS
  w1 = w1
  s1 = s1
  premium = premium
  NoSub = NoSub
  Free = Free
  Subs = {s1}
  PaidPlans = {premium}
  Workers = {w1}
  Allowed = {"reorder"}
  MaxMail = 4
SPECIFICATION Spec
INVARIANT Agreement
CHECK_DEADLOCK FALSE
