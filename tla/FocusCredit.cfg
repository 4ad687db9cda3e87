SPECIFICATION Spec
CONSTANTS
  Sessions = {s1, s2}
  Handlers = {h1, h2}
  TicksPerMinute = 2
  MaxClock = 3
  MayFail = TRUE
  None = None
SYMMETRY Symmetry
VIEW View
INVARIANTS TypeOK FairCredit CountedOnce
CHECK_DEADLOCK FALSE
