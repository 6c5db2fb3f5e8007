SPECIFICATION AlgorithmsSpec
CONSTANTS
  WeekLen = 1
  Threshold = 1
  Compactions <- MCCompactions
  Queries <- MCQueries
  Responses <- MCResponses
  Windows <- MCWindows
INVARIANTS
  CompactionLoopIsTheOperator
  InPlaceDeduplicateIsPure
  DownsampleSpansTheRange
  RepresentativeSpeaksForWindow
CHECK_DEADLOCK FALSE
