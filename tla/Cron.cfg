CONSTANTS
  None = None
  MinutesPerHour = 2
  HoursPerDay = 2
  DaysPerWeek = 2
  MonthLengths <- Months
  MaxDays = 6
  Jobs = 2
  Setups <- Directories
  CatchUpCap = 2
  MaxTime = 4
  MaxFaults = 1
  MaxEdits = 1
  MaxStops = 1
SPECIFICATION FairSpec
INVARIANTS Consistent NextRunExact MissedRuns
PROPERTIES CatchesUp
CHECK_DEADLOCK FALSE
