CONSTANTS
  t1 = t1
  t2 = t2
  t3 = t3
  c1 = c1
  c2 = c2
  Thread = {t1, t2, t3}
  NoThread = NoThread
  Context = {c1, c2}
  FirstContext = c1
  HomeOf <- MCHomeOf
  IO_MAX_OPEN_FILES = 2
  MaxCalls = 6
  File = {f1, f2, f3}
  NoFile = NoFile
SYMMETRY MCSymmetry
SPECIFICATION Spec
INVARIANTS CountsExact OpenOwnsDescriptor
