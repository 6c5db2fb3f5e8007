SPECIFICATION LifecycleSpec
CONSTANTS
  SampleInterval = 2
  FlushInterval = 8
  ArchiveInterval = 8
  CollectTime = 1
  OperationTime = 3
  ShutdownTimeout = 2
  FlushTimeout = 2
  StaleAfter = 6
  MaxStreams = 1
  Horizon = 12
INVARIANTS
  LifecycleTypeOK
  StoreOutlivesMonitor
  ExitSavesMemory
  StopsInTime
  FreshUnlessBlocked
PROPERTIES
  ShutdownEnds
  HealthRecovers
CHECK_DEADLOCK FALSE
