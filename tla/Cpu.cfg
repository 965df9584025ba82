CONSTANTS
  idle = idle
  t1 = t1
  t2 = t2
  h1 = h1
  h2 = h2
  c1 = c1
  c2 = c2
  none = none
  Thread <- MCThread
  KernelThread <- MCKernelThread
  NoThread = none
  NoState = nostate
  CPU_FPU_SWITCH_THRESHOLD = 1
  SWITCH_RANGE = 3
  Irq <- MCIrq
  Handler <- MCHandler
  Cell <- MCCell
  TableCell = table
  NoIrq = noirq
  MaxCalls = 4
SYMMETRY Symmetry
SPECIFICATION Spec
INVARIANTS KeepsRegisters PicMatchesTable NoHandlerMissed
