CONSTANTS
  k1 = k1  k2 = k2  k3 = k3
  a = a  b = b
  None = None
  Child <- Child2
  Key <- Key2
  MaxCommands = 1
  Chunks = 3
  MaxCrashes = 1
SPECIFICATION FairSpec
INVARIANTS Consistent FramesWhole Registered
PROPERTIES EntriesKept CallsSettle ClosedDies
CHECK_DEADLOCK FALSE
