SPECIFICATION DurabilitySpec
CONSTANTS
  WeekLen = 2
  Threshold = 0
  Legacy <- MCLegacy
  Levels = {0}
  Intervals = {2, 4}
  StartTime = 1
  MaxTime = 4
  BufferCap = 4
INVARIANTS
  DurableRowsSurvive
PROPERTIES
  PowerLossLeavesNoHole
CHECK_DEADLOCK FALSE
