CONSTANTS
  MaxProcs = 3
  CapsPerProc = 2
  MaxEndpoints = 2
  QLen = 2
  MaxWaiters = 3
  MaxMsg = 1
  MaxSeq = 2
  StageMax = 2
  Lens <- MCLens
  GoodPtr = GoodPtr
  BadPtr = BadPtr

SPECIFICATION Spec

INVARIANT TypeOK
INVARIANT CurrentRunnable
INVARIANT AddressSpaceOfCurrent
INVARIANT WaiterRingSound
INVARIANT NoMessageWhileWaiting
INVARIANT CapsNameEndpoints
PROPERTY NoForgedCaps
VIEW KernelView
