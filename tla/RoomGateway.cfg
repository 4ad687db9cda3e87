SPECIFICATION Spec
CONSTANTS
  Users = {u1, u2}
  Clients = {c1, c2}
  Rooms = {r1, r2}
  Joins = {j1, j2}
  Streams = {s1}
  Messages = {m1, m2}
  MaxMessages = 1
  None = None
SYMMETRY Symmetry
INVARIANTS TypeOK ListenerAccounting PresenceTracksRoom HistoryHasNoGap OnlineIsReported
CHECK_DEADLOCK FALSE
