SPECIFICATION ClockSpec
CONSTANTS
  WeekLen = 2
  Threshold = 0
  Legacy <- MCLegacy
  Levels = {0, 1}
  Intervals = {2}
  StartTime = 0
  MaxTime = 3
  BufferCap = 4
  MaxSetBacks = 1
INVARIANTS
  ArchiveCoversRows
  OtherSamplesAccountedFor
PROPERTIES
  StoredRowsStay
CHECK_DEADLOCK FALSE
