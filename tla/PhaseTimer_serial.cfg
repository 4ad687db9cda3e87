SPECIFICATION FairSpec
CONSTANTS
  Requests = {q1}
  Durations = {1, 2}
  MaxInFlight = 1
  MayFail = FALSE
  None = None
INVARIANTS PhaseArmed
PROPERTIES KeepsPromise
CHECK_DEADLOCK FALSE
