SPECIFICATION Spec
CONSTANTS
  Users = {u1, u2}
  Strangers = {u3}
  Ids = {i1, i2}
  Calls = {c1, c2}
  Messages = {m1}
  None = None
SYMMETRY Symmetry
INVARIANTS TypeOK FriendsWantIt NobodyIsForced InOneList
CHECK_DEADLOCK FALSE
