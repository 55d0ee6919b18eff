CONSTANTS
  MaxProcs = 3
  CapsPerProc = 1
  MaxEndpoints = 2
  QLen = 2
  MaxWaiters = 3
  MaxMsg = 1
  MaxSeq = 3
  StageMax = 2
  Lens <- MCLens
  GoodPtr = GoodPtr
  BadPtr = BadPtr

SPECIFICATION Spec
VIEW KernelView

PROPERTY LifecycleRefined
