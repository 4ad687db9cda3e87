CONSTANTS
  Ids = {u1, u2}
  Emails = {e1, e2}
  ann = ann
  Ann = Ann
  Names <- MCNames
  Lower <- MCLower
  Passwords = {p1, p2}
  Tokens = {t1}
  Calls = {c1, c2}
  None = None

SPECIFICATION Spec
SYMMETRY Symmetry
CHECK_DEADLOCK FALSE

INVARIANT TypeOK
INVARIANT RowIsAsMeant
INVARIANT LinkWorksOnce
