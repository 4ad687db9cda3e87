SPECIFICATION Spec
CONSTANTS
  Users = {u1, u2}
  Rooms = {r1, r2}
  Sessions = {s1, s2, s3}
  Calls = {c1, c2}
  Capacities = {1, 2}
  None = None
SYMMETRY Symmetry
INVARIANTS TypeOK CounterAccounting AdmissionBound SessionsPerUserBound CompletedOnce
CHECK_DEADLOCK FALSE
