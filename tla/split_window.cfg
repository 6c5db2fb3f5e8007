SPECIFICATION MonitorSpec
CONSTANTS
  WeekLen = 6
  Threshold = 0
  Legacy <- MCNoLegacy
  Levels = {0, 1}
  Intervals = {3}
  StartTime = 2
  MaxTime = 6
  BufferCap = 4
INVARIANTS
  VolatileWindowsKept
CHECK_DEADLOCK FALSE
