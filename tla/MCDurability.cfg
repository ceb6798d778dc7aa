\* One restoration among posts, backups and deletions.
SPECIFICATION Spec
CONSTANTS
  phone = phone
  tablet = tablet
  a = a
  b = b
  notion = notion
  stats = stats
  course = course
  j1 = j1
  j2 = j2
  Dirs = {stats, course}
  Stats = stats
  Items = {a, b, notion}
  Earlier = {b, notion}
  DirOf <- Where
  LastDay = 1
  Devices = {phone}
  Author <- Who
  Requests = {r1}
  Jobs = {j1, j2}
  Retention = 1
  MaxBackups = 1
  MaxArchives = 2
  MaxRestores = 1
  Budget = 5
SYMMETRY Sym
INVARIANTS TypeOK SerialAnswersAreKept OneAutomaticBackup SafetyCopyHolds NeverBlank
PROPERTIES RestoresWhole
CHECK_DEADLOCK FALSE
