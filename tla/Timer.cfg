CONSTANTS
  u1 = u1
  u2 = u2
  k1 = k1
  p1 = p1
  p2 = p2
  Idle = Idle
  Thread <- MCThread
  UserThread <- MCUserThread
  Proc = {p1, p2}
  ProcOf <- MCProcOf
  InitialQuantum = 1
  StartTime = 0
  MaxTime = 2
  SleepTimes = {1, 2}
  AlarmTimes = {0, 1, 2}
  BeepTimes = {0, 1}
  ClockTimes = {1}
SYMMETRY MCSymmetry
SPECIFICATION Spec
INVARIANTS EntriesFreedOnce
PROPERTIES EndsOnTime
