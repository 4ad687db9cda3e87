CONSTANTS
  Mails = {m1}
  Workers = {w1, w2, w3}
  Attempts = 3
  MaxStalls = 1
  MaxRetries = 2
  None = None

SPECIFICATION FairSpec
CHECK_DEADLOCK FALSE

INVARIANT TypeOK
INVARIANT RepeatsAreDoubtful
INVARIANT CallsAreBounded
PROPERTY KeepsMail
