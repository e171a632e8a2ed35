CONSTANTS
  k1 = k1  k2 = k2  k3 = k3
  c1 = c1  c2 = c2  c3 = c3
  x1 = x1  x2 = x2  x3 = x3  x4 = x4
  None = None
  Conv <- Conv2
  Caller <- Caller3
  Child <- Child3
  MaxChildren = 1
  Serialized = FALSE
  Env <- Ending
  Rows <- FreshDatabase
SPECIFICATION FairSpec
INVARIANTS ClosedQuiet WaitersBlocked
PROPERTIES CallsEnd
CHECK_DEADLOCK FALSE
