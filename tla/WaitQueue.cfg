CONSTANTS
  u1 = u1
  u2 = u2
  k1 = k1
  q1 = q1
  q2 = q2
  Idle = Idle
  Thread <- MCThread
  UserThread <- MCUserThread
  Queue = {q1, q2}
  InitialQuantum = 1
SPECIFICATION FairSpec
INVARIANTS TypeOK RunQueueMatchesStates IdleOnlyWhenNothingRunnable
  WaitersLinkedOnce InterruptedIffNotWoken
PROPERTIES KeepsPromise RunnableRuns
