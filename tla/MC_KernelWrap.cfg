CONSTANTS
  MaxProcs = 3
  CapsPerProc = 1
  MaxEndpoints = 1
  QLen = 2
  MaxWaiters = 3
  MaxMsg = 1
  StageMax = 2
  Lens <- MCLens
  GoodPtr = GoodPtr
  BadPtr = BadPtr
  MaxSeq = 5

SPECIFICATION Spec
VIEW KernelView

INVARIANT WaiterRingSound
PROPERTY WaitersFifo
