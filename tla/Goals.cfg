CONSTANTS
  Ids = {g1, g2}
  Users = {u1}
  Titles = {t1, t2}
  Calls = {c1, c2}
  None = None

SPECIFICATION Spec
SYMMETRY Symmetry
CHECK_DEADLOCK FALSE

INVARIANTS TypeOK NamedFlips FeedAgrees
