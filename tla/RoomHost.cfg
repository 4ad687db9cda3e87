SPECIFICATION HostSpec
CONSTANTS
  Users = {u1, u2}
  Rooms = {r1}
  Sessions = {s1, s2}
  Calls = {c1, c2}
  Savers = {h1}
  Capacities = {1, 2}
  None = None
SYMMETRY Symmetry
PROPERTIES OnlyStaleSavesDrift
CHECK_DEADLOCK FALSE
