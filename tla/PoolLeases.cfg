CONSTANTS
  k1 = k1  k2 = k2  k3 = k3
  c1 = c1  c2 = c2  c3 = c3
  x1 = x1  x2 = x2  x3 = x3  x4 = x4
  None = None
  Conv <- Conv3
  Caller <- Caller2
  Child <- Child4
  MaxChildren = 2
  Serialized = TRUE
  Env <- Handled
  Rows <- AnyDatabase
SPECIFICATION Spec
SYMMETRY ChildSymmetry
INVARIANTS LiveBounded LeaseExclusive EntryOwned
PROPERTIES CloseBeforeRelease
