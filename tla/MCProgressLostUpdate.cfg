\* Two devices post at the same time; no backup.
SPECIFICATION Spec
CONSTANTS
  phone = phone
  tablet = tablet
  a = a
  b = b
  notion = notion
  stats = stats
  course = course
  j1 = j1
  j2 = j2
  Dirs = {stats, course}
  Stats = stats
  Items = {a, b, notion}
  Earlier = {}
  DirOf <- Where
  LastDay = 0
  Devices = {phone, tablet}
  Author <- Who
  Requests = {r1, r2}
  Jobs = {j1}
  Retention = 1
  MaxBackups = 1
  MaxArchives = 0
  MaxRestores = 0
  Budget = 4
INVARIANT AnswersAreKept
CHECK_DEADLOCK FALSE
