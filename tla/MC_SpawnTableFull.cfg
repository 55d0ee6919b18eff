CONSTANTS
  PageSize = 1
  MaxRanges = 2
  LowReserve = 0
  MaxRequest = 1
  MaxProcs = 3
  BuildFrames = 2
  HeapKstacks = 4
  InitTables <- MCInitTables
INIT Init
NEXT Next
\* A panic halts the kernel: no step follows it.
CHECK_DEADLOCK FALSE
INVARIANT NoPanicWhenTableFull
