CONSTANTS
  p1 = p1
  p2 = p2
  p3 = p3
  t1 = t1
  t2 = t2
  t3 = t3
  Idle = Idle
  Kernel = Kernel
  Reaper = Reaper
  NULL = NULL
  AnyId = AnyId
  Proc <- TwoProcs
  Thread <- ThreeThreads
  InitialQuantum = 1
  MaxThreads = 3
  MaxKernelThreads = 1
  Ids = {AnyId}
  CloseBlocks = {TRUE, FALSE}
SYMMETRY MCSymmetry
SPECIFICATION Spec
INVARIANTS ListsMatchObjects NoMissedExit ReaperHasItsWork OwnAddressSpace
