SPECIFICATION StatsSpec
CONSTANTS
  Users = {u1}
  Jobs = {j1, j2}
  Workers = {w1, w2}
  Zones = {0}
  Earnings = {0, 1}
  MaxDay = 2
  Mondays = {2}
  Null = Null
SYMMETRY Symmetry
INVARIANTS StatsTypeOK ProfileAgrees BoardNeverAhead DoneIsLogged
CHECK_DEADLOCK FALSE
