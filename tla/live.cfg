SPECIFICATION FairMonitorSpec
CONSTANTS
  WeekLen = 2
  Threshold = 0
  Legacy <- MCLegacy
  Levels = {0}
  Intervals = {2}
  StartTime = 1
  MaxTime = 4
  BufferCap = 4
PROPERTIES
  ShutdownCompletes
  SamplesBecomeDurable
  CompletedWeeksLeaveSQLite
CHECK_DEADLOCK FALSE
