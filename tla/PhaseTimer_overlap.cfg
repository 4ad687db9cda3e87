SPECIFICATION Spec
CONSTANTS
  Requests = {q1, q2}
  Durations = {1}
  MaxInFlight = 2
  MayFail = TRUE
  None = None
SYMMETRY Symmetry
INVARIANTS TypeOK RowConsistent
CHECK_DEADLOCK FALSE
