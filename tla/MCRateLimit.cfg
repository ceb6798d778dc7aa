CONSTANTS
  r1 = r1
  r2 = r2
  Requests = {r1, r2}
  Limit = 2
  Period = 3
  Retention = 3
  MaxStall = 1
  LastSecond = 6
  Engine = "sqlite"
SPECIFICATION Spec
SYMMETRY RequestSymmetry
INVARIANTS TypeOK WindowBound
PROPERTIES RefusalsAreDeserved ImplementsWindow
CHECK_DEADLOCK FALSE
