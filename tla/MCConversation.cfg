CONSTANTS
  r1 = r1
  r2 = r2
  Requests = {r1, r2}
  MaxId = 5
  MayCrash = TRUE
SPECIFICATION Spec
SYMMETRY RequestSymmetry
INVARIANTS TypeOK OneReplyPerTurn RetriesExclude RegenerationsExclude
PROPERTY BilledIffDelivered
CHECK_DEADLOCK FALSE
