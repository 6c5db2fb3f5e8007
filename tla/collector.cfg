SPECIFICATION CollectorSpec
CONSTANTS
  NumCores = 2
  Interfaces = {eth0}
  Machines <- MCMachines
  Speed = 1
  Word = 5
  CommandTimeout = 1
INVARIANTS
  CollectorTypeOK
  UsageIsAPercentage
  BusyTimeCountedOnce
  TrafficCountedOnce
  RatesStayNearLineSpeed
CHECK_DEADLOCK FALSE
