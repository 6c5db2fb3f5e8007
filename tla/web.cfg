SPECIFICATION Spec
CONSTANTS
  WeekLen = 3
  Threshold = 0
  Legacy <- MCLegacy
  Levels = {0}
  Intervals = {2}
  StartTime = 1
  MaxTime = 5
  BufferCap = 2
  Readers = {r1}
  Ranges <- MCRanges
  Clients = {c1}
INVARIANTS
  HistoryKeepsStoredRows
  HistoryHasNoDuplicates
  WebTypeOK
  StreamMissesOnlyOverflow
CONSTRAINT OneHandler
CHECK_DEADLOCK FALSE
