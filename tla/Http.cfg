CONSTANTS
  r1 = r1  r2 = r2  a = a  b = b
  None = None
  Request <- Request2
  Assignments <- OneOrTwo
  LastEvent = 4
  EarlyLimit = 1
  RecentLimit = 1
  MaxDeliveries = 3
SPECIFICATION FairSpec
INVARIANTS Consistent TerminalKept StreamOrdered
PROPERTIES RequestsEnd
CHECK_DEADLOCK FALSE
