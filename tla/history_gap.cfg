SPECIFICATION Spec
CONSTANTS
  WeekLen = 8
  Threshold = 0
  Legacy <- MCNoLegacy
  Levels = {0}
  Intervals = {2}
  StartTime = 1
  MaxTime = 4
  BufferCap = 1
  Readers = {r1}
  Ranges <- MCAll
  Clients = {}
INVARIANTS
  HistoryMergesMemory
CHECK_DEADLOCK FALSE
