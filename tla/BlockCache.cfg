CONSTANTS
  Thread = {t1, t2, t3}
  NoThread = NoThread
  Block = {b1, b2, b3, b4}
  NoBlock = NoBlock
  BlockSize = 2
  DiskSize = 4
  UIntRange = 4
  Value = {0, 1}
  Garbage = Garbage
  Requests <- MCRequests
SYMMETRY MCSymmetry
SPECIFICATION Spec
INVARIANTS CachedMatchesDisk OneTransfer SleepersServed CountsExact
