CONSTANTS
  PageSize = 2
  MaxRanges = 2
  LowReserve = 2
  MaxRequest = 2
  Usable = Usable
  Reserved = Reserved
  RegionLists <- MCRegionLists
  SmokeFrames = 1
  MaxTables = 1
  HeapMaxPages = 2
  HeapMinPages = 1

SPECIFICATION Spec
CHECK_DEADLOCK FALSE

INVARIANT PmmTypeOK
INVARIANT InitExact
INVARIANT AllocSafe
PROPERTY AllocRefined
PROPERTY AllocImplementsFrameAlloc
