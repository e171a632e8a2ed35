CONSTANTS
  m1 = m1  m2 = m2
  NoRow = NoRow  NoResponse = NoResponse  None = None
  Message <- Message2
  Opener = m1
  TotalPosts = 2
  MaxDeltas = 1
  MaxDups = 1
  MaxCrashes = 2
SPECIFICATION FairSpec
INVARIANTS OneAnswer PostsBounded
PROPERTIES Implements Settles
CHECK_DEADLOCK FALSE
