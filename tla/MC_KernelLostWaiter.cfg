CONSTANTS
  MaxProcs = 3
  CapsPerProc = 2
  MaxEndpoints = 2
  QLen = 2
  MaxWaiters = 3
  MaxMsg = 1
  StageMax = 2
  Lens <- MCLens
  GoodPtr = GoodPtr
  BadPtr = BadPtr
  MaxSeq = 2

SPECIFICATION Spec
VIEW KernelView

INVARIANT BlockedIsWaiting
