SPECIFICATION Spec
CONSTANTS
  Users = {u1}
  Rooms = {r1}
  Sessions = {s1}
  Calls = {c1}
  Capacities = {1}
  None = None
INVARIANTS DisconnectCloses
CHECK_DEADLOCK FALSE
