CONSTANTS
  c1 = c1
  c2 = c2
  Kernel = Kernel
  Ctx <- TwoContexts
  ZoneSize <- SmallMachine
  KernelBase = 3
  MaxRegions = 1
  NewRegions <- AskedFor
  Value = {0, 1}
SYMMETRY MCSymmetry
SPECIFICATION Spec
CHECK_DEADLOCK FALSE
INVARIANTS PagesCounted WritableNotShared MappedInRegion
PROPERTIES LooksPrivate
