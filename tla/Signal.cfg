CONSTANTS
  t1 = t1
  t2 = t2
  Idle = Idle
  Thread <- MCThread
  InitialQuantum = 1
  Sig <- MCSig
  ProcessSig <- MCProcessSig
  Masks <- MCMasks
  Actions <- MCActions
  Exceptions <- MCExceptions
SYMMETRY MCSymmetry
SPECIFICATION Spec
INVARIANTS NoThreadSignalSleptOn StopOrContinue WaitEndsForASignal
