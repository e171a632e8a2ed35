CONSTANTS
  m1 = m1  m2 = m2  m3 = m3
  k1 = k1  k2 = k2
  NoRow = NoRow  NoResponse = NoResponse  None = None
  Message <- Message3
  Child <- Child2
  Scenarios <- Conversations
  Window = 2
  Quiet = 1
SPECIFICATION Spec
SYMMETRY ChildSymmetry
PROPERTIES BacklogStartsTurn
CHECK_DEADLOCK FALSE
