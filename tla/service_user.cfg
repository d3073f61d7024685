SPECIFICATION FairSpec
CONSTANTS
  Callers = {c1, c2}
  Lifetimes = {0, 1, 2}
  MaxClock = 6
  MaxLogins = 3
  None = None
INVARIANTS
  TypeOK
  OneTokenAtATime
PROPERTIES
  StoredTokenIsValid
  CallsReturn
CHECK_DEADLOCK FALSE
