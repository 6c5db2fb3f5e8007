SPECIFICATION MonitorSpec
CONSTANTS
  WeekLen = 3
  Threshold = 0
  Legacy <- MCLegacy
  Levels = {0}
  Intervals = {2}
  StartTime = 1
  MaxTime = 6
  BufferCap = 4
PROPERTIES
  RemovedRowsAreArchived
CHECK_DEADLOCK FALSE
