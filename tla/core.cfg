SPECIFICATION MonitorSpec
CONSTANTS
  WeekLen = 3
  Threshold = 0
  Legacy <- MCLegacy
  Levels = {0, 1}
  Intervals = {2, 4}
  StartTime = 1
  MaxTime = 5
  BufferCap = 4
INVARIANTS
  MonitorTypeOK
  MemoryNewerThanStore
  EverySampleAccountedFor
  ArchiveCoversRows
  IInv
PROPERTIES
  StoredRowsStay
  SamplesMeetTheirFate
CHECK_DEADLOCK FALSE
