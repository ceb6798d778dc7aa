CONSTANTS
  r1 = r1
  r2 = r2
  c1 = c1
  c2 = c2
  g1 = g1
  g2 = g2
  Requests = {r1, r2}
  Clerks = {c1, c2}
  Guests = {g1, g2}
  Account = account
  Nobody = nobody
  Answers = {a}
  Budget = 5
SPECIFICATION Spec
SYMMETRY Sym
INVARIANTS NothingOwedIsLost FilesHaveOwners SessionsAreReused AccessNeedsConsent OneLink StatusIsDecided
PROPERTY LinksAreUsedOnce
CHECK_DEADLOCK FALSE
