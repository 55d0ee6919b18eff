CONSTANTS
  PageSize = 2
  MaxRanges = 4
  LowReserve = 2
  MaxRequest = 2
  Usable = Usable
  Reserved = Reserved
  RegionLists <- MCFragmented
  SmokeFrames = 3
  MaxTables = 1
  HeapMaxPages = 2
  HeapMinPages = 1

SPECIFICATION Spec
CHECK_DEADLOCK FALSE

INVARIANT AllocFailsOnlyWhenExhausted
