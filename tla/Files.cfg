CONSTANTS
  Setups <- Commands
  MaxFaults = 3
  MaxForeign = 2
SPECIFICATION Spec
INVARIANTS Consistent AllOrNothing
CHECK_DEADLOCK FALSE
