SPECIFICATION DashboardSpec
CONSTANTS
  Ranges <- MCRanges
  MaxPoints = 3
  Limit = 4
  QueueCap = 3
  Fetches <- MCFetches
  MaxTime = 3
INVARIANTS
  DashboardTypeOK
PROPERTIES
  MessageIsDrawn
  SamplesGetDrawn
  DisorderHeals
  OldSamplesLeave
CHECK_DEADLOCK FALSE
