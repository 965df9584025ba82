---------------------------- MODULE SignalProofs -----------------------------
(***************************************************************************)
(* Signals are not slept on, stop and continue are not both pending and a  *)
(* wait ends for a signal: for every finite set of threads and every       *)
(* choice of the signals sent, masks, actions and exceptions.              *)
(***************************************************************************)
EXTENDS Signal, SchedulerProofs

(* What holds of each thread.  A thread that is asleep is in               *)
(* ProcSignalWait or in SuspendSelf, and one not yet started in neither.   *)
ThreadOK(t) ==
  /\ state[t] = "INTR" => sigPending[t] \subseteq sigBlocked[t] /\ pc[t] \in {"wait", "suspend"}
  /\ ~({SIGSTOP, SIGCONT} \subseteq sigPending[t])
  /\ pc[t] = "wait" /\ state[t] = "RUNNING" => schedInterrupted[t] /\ sigPending[t] # {}
  /\ state[t] = "STARTUP" => pc[t] = "run"

(* The inductive invariant                                                 *)
IInv ==
  /\ TypeOK
  /\ SchedInv
  /\ \A t \in Thread : ThreadOK(t)

(* The types of the variables that signal.c adds                           *)
SigTypeOK ==
  /\ sigPending \in [Thread -> SUBSET SigNum]
  /\ procPending \subseteq SigNum
  /\ sigBlocked \in [Thread -> SUBSET SigNum]
  /\ sigHandlers \in [SigNum -> Handler]
  /\ maskBefore \in [Thread -> SUBSET SigNum]
  /\ spinning \in BOOLEAN

PcTypeOK == pc \in [Thread -> {"run", "wait", "suspend", "return", "signals"}]

(* TypeOK is made of these parts, before and after a step.                 *)
LEMMA TypeParts ==
  /\ TypeOK <=> SchedTypeOK /\ PcTypeOK /\ SigTypeOK
  /\ TypeOK' <=> SchedTypeOK' /\ PcTypeOK' /\ SigTypeOK'
BY DEF TypeOK, PcTypeOK, SigTypeOK

(* Nothing is pending and no thread has started.                           *)
LEMMA InitIInv == Init => IInv
<1> SUFFICES ASSUME Init PROVE IInv
  OBVIOUS
<1>1. SchedInv
  BY SchedInitInv DEF Init
<1>2. PcTypeOK
  BY DEF Init, SchedInit, PcTypeOK
<1>3. SigTypeOK
  BY DEF Init, SigTypeOK, Handler
<1>4. \A t \in Thread : ThreadOK(t)
  BY DEF Init, SchedInit, ThreadOK
<1> QED
  BY <1>1, <1>2, <1>3, <1>4, TypeParts DEF IInv, SchedInv

(* A thread that a step does not touch                                     *)
Untouched(t) ==
  /\ state'[t] = state[t] /\ schedInterrupted'[t] = schedInterrupted[t] /\ pc'[t] = pc[t]
  /\ sigPending'[t] = sigPending[t] /\ sigBlocked'[t] = sigBlocked[t]

(* It is as it was.                                                        *)
LEMMA UntouchedOK ==
  ASSUME NEW t, ThreadOK(t), Untouched(t)
  PROVE  ThreadOK(t)'
BY DEF ThreadOK, Untouched

(* At the end of kernel code the current thread goes to IntrHandler's end. *)
LEMMA LeavePc ==
  ASSUME IInv, InKernelCode, LeaveKernelCode(Thread)
  PROVE  /\ PcTypeOK'
         /\ idleAwake' = (idleAwake \/ currThread = Idle) /\ idleAwake' \in BOOLEAN
         /\ \A t \in Thread \ {currThread} : pc'[t] = pc[t]
         /\ currThread \in Thread =>
              pc[currThread] = "run" /\ pc'[currThread] = "return" /\ state[currThread] = "RUNNING"
<1>1. pc \in [Thread -> {"run", "wait", "suspend", "return", "signals"}] /\ idleAwake \in BOOLEAN
  BY DEF IInv, TypeOK, SchedTypeOK
<1>2. /\ pc' = IF currThread \in Thread THEN [pc EXCEPT ![currThread] = "return"] ELSE pc
      /\ idleAwake' = (idleAwake \/ currThread = Idle)
  BY DEF LeaveKernelCode
<1>3. currThread \in Thread => pc[currThread] = "run" /\ state[currThread] = "RUNNING"
  BY ThreadAssumption DEF InKernelCode, IInv, SchedInv, RunQueueMatchesStates
<1> QED
  BY <1>1, <1>2, <1>3 DEF PcTypeOK

(* Kernel code that wakes nobody                                           *)
LEMMA LeaveIInv ==
  ASSUME IInv, InKernelCode, LeaveKernelCode(Thread), SigTypeOK',
         UNCHANGED <<state, schedInterrupted, threadQueue, currThread>>,
         TimerQuantum' \in 0 .. InitialQuantum,
         \A t \in Thread :
           /\ state[t] = "INTR" => sigPending'[t] \subseteq sigBlocked'[t]
           /\ ~({SIGSTOP, SIGCONT} \subseteq sigPending'[t])
           /\ sigPending[t] # {} => sigPending'[t] # {}
  PROVE  IInv'
<1>1. /\ PcTypeOK'
      /\ idleAwake' = (idleAwake \/ currThread = Idle) /\ idleAwake' \in BOOLEAN
      /\ \A t \in Thread \ {currThread} : pc'[t] = pc[t]
      /\ currThread \in Thread =>
           pc[currThread] = "run" /\ pc'[currThread] = "return" /\ state[currThread] = "RUNNING"
  BY LeavePc
<1>2. SchedInv'
  BY <1>1 DEF IInv, SchedInv, SchedTypeOK, RunQueueMatchesStates,
              IdleOnlyWhenNothingRunnable, Queued
<1>3. ASSUME NEW t \in Thread
      PROVE  ThreadOK(t)'
  <2>1. ThreadOK(t)
    BY DEF IInv
  <2>2. CASE t = currThread
    BY <1>1, <2>2 DEF ThreadOK
  <2>3. CASE t # currThread
    BY <1>1, <2>1, <2>3 DEF ThreadOK
  <2> QED
    BY <2>2, <2>3
<1> QED
  BY <1>1, <1>2, <1>3, TypeParts DEF IInv, SchedInv

(* Kernel code that wakes thread t: by a signal that it now has pending,   *)
(* or for the first time.                                                  *)
LEMMA WakeIInv ==
  ASSUME IInv, InKernelCode, LeaveKernelCode(Thread), SigTypeOK',
         NEW t \in Thread, NEW isSignal \in BOOLEAN,
         state[t] = (IF isSignal THEN "INTR" ELSE "STARTUP"),
         WakeUpSig(t, isSignal),
         TimerQuantum' = TimerQuantum, sigBlocked' = sigBlocked,
         \A u \in Thread \ {t} : sigPending'[u] = sigPending[u],
         ~({SIGSTOP, SIGCONT} \subseteq sigPending'[t]),
         isSignal => sigPending'[t] # {}
  PROVE  IInv'
<1>1. /\ PcTypeOK'
      /\ idleAwake' = (idleAwake \/ currThread = Idle)
      /\ \A u \in Thread \ {currThread} : pc'[u] = pc[u]
      /\ currThread \in Thread =>
           pc[currThread] = "run" /\ pc'[currThread] = "return" /\ state[currThread] = "RUNNING"
  BY LeavePc
<1>2. TimerQuantum' \in 0 .. InitialQuantum
  BY DEF IInv, TypeOK, SchedTypeOK
<1>3. SchedInv'
  BY <1>1, <1>2, WakeUpSigInv DEF IInv
<1>4. t # currThread
  BY <1>1
<1>5. /\ state' = [state EXCEPT ![t] = "RUNNING"]
      /\ schedInterrupted' = [schedInterrupted EXCEPT ![t] = isSignal]
  BY DEF WakeUpSig, Wakes
<1>6. state \in [Thread -> ThreadState] /\ schedInterrupted \in [Thread -> BOOLEAN]
  BY DEF IInv, TypeOK, SchedTypeOK
<1>7. ASSUME NEW u \in Thread
      PROVE  ThreadOK(u)'
  <2>1. ThreadOK(u)
    BY DEF IInv
  <2>2. CASE u = t
    <3>1. state'[u] = "RUNNING" /\ schedInterrupted'[u] = isSignal /\ pc'[u] = pc[u]
      BY <1>1, <1>4, <1>5, <1>6, <2>2
    <3>2. ~isSignal => pc[u] = "run"
      BY <2>1, <2>2 DEF ThreadOK
    <3> QED
      BY <2>2, <3>1, <3>2 DEF ThreadOK
  <2>3. CASE u = currThread
    <3>1. state'[u] = "RUNNING" /\ pc'[u] = "return" /\ sigPending'[u] = sigPending[u]
      BY <1>1, <1>4, <1>5, <1>6, <2>3
    <3> QED
      BY <2>1, <3>1 DEF ThreadOK
  <2>4. CASE u # t /\ u # currThread
    <3>1. Untouched(u)
      BY <1>1, <1>5, <1>6, <2>4 DEF Untouched
    <3> QED
      BY <2>1, <3>1, UntouchedOK
  <2> QED
    BY <2>2, <2>3, <2>4
<1> QED
  BY <1>1, <1>3, <1>7, TypeParts DEF IInv, SchedInv

-----------------------------------------------------------------------------
(* Sending                                                                 *)

(* SIGSTOP cancels a SIGCONT, and another signal leaves both as they are.  *)
LEMMA AddPendingFacts ==
  ASSUME NEW set \in SUBSET SigNum, NEW s \in SigNum, s # SIGCONT,
         ~({SIGSTOP, SIGCONT} \subseteq set)
  PROVE  /\ AddPending(set, s) \in SUBSET SigNum
         /\ AddPending(set, s) # {}
         /\ ~({SIGSTOP, SIGCONT} \subseteq AddPending(set, s))
<1>1. s \in AddPending(set, s)
  BY DEF AddPending, SIGSTOP, SIGCONT
<1>2. AddPending(set, s) \subseteq set \cup {s}
  BY DEF AddPending
<1>3. s = SIGSTOP => SIGCONT \notin AddPending(set, s)
  BY DEF AddPending
<1> QED
  BY <1>1, <1>2, <1>3

(* ProcSignalSendThread keeps the invariant.                               *)
LEMMA SendIInv ==
  ASSUME IInv, InKernelCode, NEW t \in Thread, NEW s \in SigNum, Send(t, s)
  PROVE  IInv'
<1>1. /\ LeaveKernelCode(Thread)
      /\ UNCHANGED <<TimerQuantum, procPending, sigBlocked, sigHandlers, maskBefore, spinning>>
  BY DEF Send
<1>2. SigTypeOK /\ ThreadOK(t) /\ TimerQuantum' \in 0 .. InitialQuantum
  BY <1>1 DEF IInv, TypeOK, SigTypeOK, SchedTypeOK
<1>3. CASE UNCHANGED <<sigPending, state, schedInterrupted, threadQueue, currThread>>
  <2>1. SigTypeOK'
    BY <1>1, <1>2, <1>3 DEF SigTypeOK
  <2> QED
    BY <1>1, <1>2, <1>3, <2>1, LeaveIInv DEF IInv, ThreadOK
<1>4. CASE s = SIGCONT /\ state[t] = "INTR"
  <2> DEFINE set == (sigPending[t] \cup {SIGCONT}) \ {SIGSTOP, SIGTSTP, SIGTTIN, SIGTTOU}
  <2>1. sigPending' = [sigPending EXCEPT ![t] = set] /\ WakeUpSig(t, TRUE)
    BY <1>4 DEF Send, RemoteContinueThread
  <2>2. set \in SUBSET SigNum /\ SIGCONT \in set /\ SIGSTOP \notin set
    BY <1>2 DEF SigTypeOK, SigNum, SIGCONT, SIGSTOP, SIGTSTP, SIGTTIN, SIGTTOU
  <2> HIDE DEF set
  <2>3. /\ sigPending'[t] = set /\ \A u \in Thread \ {t} : sigPending'[u] = sigPending[u]
        /\ SigTypeOK'
    BY <1>1, <1>2, <2>1, <2>2 DEF SigTypeOK
  <2> QED
    BY <1>1, <1>4, <2>1, <2>2, <2>3, WakeIInv
<1>5. CASE s # SIGCONT /\ ~(SignalIsIgnored(s) /\ s \notin {SIGKILL, SIGSTOP})
  <2> DEFINE set == AddPending(sigPending[t], s)
  <2>1. /\ sigPending' = [sigPending EXCEPT ![t] = set]
        /\ Interrupt(t, (set \cup procPending) \ sigBlocked[t])
    BY <1>5 DEF Send
  <2>2. set \in SUBSET SigNum /\ set # {} /\ ~({SIGSTOP, SIGCONT} \subseteq set)
    BY <1>2, <1>5, AddPendingFacts DEF SigTypeOK, ThreadOK
  <2> HIDE DEF set
  <2>3. /\ sigPending'[t] = set /\ \A u \in Thread \ {t} : sigPending'[u] = sigPending[u]
        /\ SigTypeOK'
    BY <1>1, <1>2, <2>1, <2>2 DEF SigTypeOK
  <2>4. CASE state[t] = "INTR" /\ (set \cup procPending) \ sigBlocked[t] # {}
    <3>1. WakeUpSig(t, TRUE)
      BY <2>1, <2>4 DEF Interrupt
    <3> QED
      BY <1>1, <2>2, <2>3, <2>4, <3>1, WakeIInv
  <2>5. CASE ~(state[t] = "INTR" /\ (set \cup procPending) \ sigBlocked[t] # {})
    <3>1. UNCHANGED <<state, schedInterrupted, threadQueue, currThread>>
      BY <2>1, <2>5 DEF Interrupt
    <3>2. ASSUME NEW u \in Thread
          PROVE  /\ state[u] = "INTR" => sigPending'[u] \subseteq sigBlocked'[u]
                 /\ ~({SIGSTOP, SIGCONT} \subseteq sigPending'[u])
                 /\ sigPending[u] # {} => sigPending'[u] # {}
      <4>1. CASE u = t
        BY <1>1, <2>2, <2>3, <2>5, <4>1
      <4>2. CASE u # t
        BY <1>1, <2>3, <4>2 DEF IInv, ThreadOK
      <4> QED
        BY <4>1, <4>2
    <3> QED
      BY <1>1, <1>2, <2>3, <3>1, <3>2, LeaveIInv
  <2> QED
    BY <2>4, <2>5
<1> QED
  BY <1>3, <1>4, <1>5 DEF Send, RemoteContinueThread

(* The kernel code that wakes nobody by a signal keeps the invariant.      *)
LEMMA KernelCodeIInv ==
  ASSUME IInv,
         \/ \E s \in ProcessSig : SendProcess(s)
         \/ \E how \in {"BLOCK", "UNBLOCK", "SETMASK"}, set \in Masks : SetMask(how, set)
         \/ \E action \in Actions : SetAction(action[1], action[2])
         \/ \E t \in Thread : Start(t)
         \/ TimerInterrupt
  PROVE  IInv'
<1>0. SigTypeOK /\ TimerQuantum \in 0 .. InitialQuantum /\ \A t \in Thread : ThreadOK(t)
  BY DEF IInv, TypeOK, SigTypeOK, SchedTypeOK
<1>1. ASSUME NEW s \in ProcessSig, SendProcess(s)
      PROVE  IInv'
  <2>1. SigTypeOK'
    BY <1>0, <1>1, SignalAssumption DEF SendProcess, SigTypeOK
  <2> QED
    BY <1>0, <1>1, <2>1, LeaveIInv DEF SendProcess, ThreadOK
<1>2. ASSUME NEW how \in {"BLOCK", "UNBLOCK", "SETMASK"}, NEW set \in Masks, SetMask(how, set)
      PROVE  IInv'
  <2>1. /\ currThread \in Thread /\ pc[currThread] = "run" /\ LeaveKernelCode(Thread)
        /\ UNCHANGED <<state, schedInterrupted, threadQueue, currThread, TimerQuantum,
                       sigPending, procPending, sigHandlers, maskBefore, spinning>>
    BY <1>2 DEF SetMask
  <2>2. state[currThread] = "RUNNING"
    BY <2>1 DEF IInv, SchedInv, RunQueueMatchesStates
  <2>3. \E blocked \in SUBSET SigNum : sigBlocked' = [sigBlocked EXCEPT ![currThread] = blocked]
    <3>1. \A x : ForcedMask(x) \in SUBSET SigNum
      BY DEF ForcedMask, SigNum, SIGKILL, SIGSTOP
    <3> QED
      BY <1>2, <3>1 DEF SetMask
  <2>4. SigTypeOK' /\ \A t \in Thread \ {currThread} : sigBlocked'[t] = sigBlocked[t]
    BY <1>0, <2>1, <2>3 DEF SigTypeOK
  <2>5. InKernelCode
    BY <2>1 DEF InKernelCode
  <2>6. \A t \in Thread : state[t] = "INTR" => sigPending'[t] \subseteq sigBlocked'[t]
    BY <1>0, <2>1, <2>2, <2>4 DEF ThreadOK
  <2> QED
    BY <1>0, <2>1, <2>4, <2>5, <2>6, LeaveIInv DEF ThreadOK
<1>3. ASSUME NEW action \in Actions, SetAction(action[1], action[2])
      PROVE  IInv'
  <2>1. action[1] \in SigNum /\ action[2] \in Handler
    BY SignalAssumption
  <2>2. SigTypeOK'
    BY <1>0, <1>3, <2>1 DEF SetAction, SigTypeOK
  <2>3. InKernelCode
    BY <1>3 DEF SetAction, InKernelCode
  <2> QED
    BY <1>0, <1>3, <2>2, <2>3, LeaveIInv DEF SetAction, ThreadOK
<1>4. ASSUME NEW t \in Thread, Start(t)
      PROVE  IInv'
  <2>1. SigTypeOK'
    BY <1>0, <1>4 DEF Start, sigVars, SigTypeOK
  <2>2. /\ InKernelCode /\ LeaveKernelCode(Thread) /\ state[t] = "STARTUP" /\ WakeUpSig(t, FALSE)
        /\ TimerQuantum' = TimerQuantum /\ sigBlocked' = sigBlocked /\ sigPending' = sigPending
    BY <1>4 DEF Start, ProcWakeUp, sigVars
  <2>3. ~({SIGSTOP, SIGCONT} \subseteq sigPending'[t])
    BY <1>0, <2>2 DEF ThreadOK
  <2> QED
    BY <2>1, <2>2, <2>3, WakeIInv
<1>5. CASE TimerInterrupt
  <2>1. SigTypeOK' /\ UNCHANGED <<sigPending, sigBlocked>>
    BY <1>0, <1>5 DEF TimerInterrupt, sigVars, SigTypeOK
  <2>2. TimerQuantum' \in 0 .. InitialQuantum
    BY <1>0, <1>5, QuantumAssumption DEF TimerInterrupt, UseQuantum
  <2> QED
    BY <1>0, <1>5, <2>1, <2>2, LeaveIInv DEF TimerInterrupt, InterruptsEnabled, ThreadOK
<1> QED
  BY <1>1, <1>2, <1>3, <1>4, <1>5

-----------------------------------------------------------------------------
(* Waiting and suspending                                                  *)

(* A step of the current thread that leaves the others alone               *)
LEMMA CurrIInv ==
  ASSUME IInv, currThread \in Thread, SchedInv', PcTypeOK', SigTypeOK',
         \A t \in Thread \ {currThread} : Untouched(t),
         \A t \in Thread : t = currThread => ThreadOK(t)'
  PROVE  IInv'
<1>1. ASSUME NEW t \in Thread
      PROVE  ThreadOK(t)'
  BY UntouchedOK DEF IInv
<1> QED
  BY <1>1, TypeParts DEF IInv, SchedInv

(* The scheduler's invariant holds on if its variables do not change.      *)
LEMMA SchedUnchanged ==
  ASSUME SchedInv, UNCHANGED schedVars
  PROVE  SchedInv'
BY DEF SchedInv, schedVars, SchedTypeOK, RunQueueMatchesStates, IdleOnlyWhenNothingRunnable, Queued

(* ProcYieldBlock(true) by a thread with nothing pending but blocked       *)
(* signals, from ProcSignalWait or SuspendSelf                             *)
LEMMA BlockIInv ==
  ASSUME IInv, currThread \in Thread, NEW where \in {"wait", "suspend"},
         pc' = [pc EXCEPT ![currThread] = where],
         YieldBlock(TRUE, Thread),
         SigTypeOK',
         \A t \in Thread \ {currThread} :
           sigPending'[t] = sigPending[t] /\ sigBlocked'[t] = sigBlocked[t],
         sigPending'[currThread] \subseteq sigPending[currThread],
         sigPending'[currThread] \subseteq sigBlocked'[currThread]
  PROVE  IInv'
<1>1. SchedInv'
  BY YieldBlockInv DEF IInv
<1>2. /\ state' = [state EXCEPT ![currThread] = "INTR"]
      /\ schedInterrupted' = [schedInterrupted EXCEPT ![currThread] = FALSE]
  BY DEF YieldBlock
<1>3. /\ state \in [Thread -> ThreadState] /\ schedInterrupted \in [Thread -> BOOLEAN]
      /\ pc \in [Thread -> {"run", "wait", "suspend", "return", "signals"}]
  BY DEF IInv, TypeOK, SchedTypeOK
<1>4. PcTypeOK'
  BY <1>3 DEF PcTypeOK
<1>5. \A t \in Thread \ {currThread} : Untouched(t)
  BY <1>2, <1>3 DEF Untouched
<1>6. \A t \in Thread : t = currThread => ThreadOK(t)'
  BY <1>2, <1>3 DEF IInv, ThreadOK
<1> QED
  BY <1>1, <1>4, <1>5, <1>6, CurrIInv

(* A step of the current thread that does not switch threads: it may take  *)
(* signals of its own, and does not go to sleep.                           *)
LEMMA StayIInv ==
  ASSUME IInv, currThread \in Thread, UNCHANGED schedVars, SigTypeOK',
         NEW where \in {"run", "suspend", "return", "signals"},
         pc' = [pc EXCEPT ![currThread] = where],
         \A t \in Thread \ {currThread} :
           sigPending'[t] = sigPending[t] /\ sigBlocked'[t] = sigBlocked[t],
         sigPending'[currThread] \subseteq sigPending[currThread]
  PROVE  IInv'
<1>1. SchedInv'
  BY SchedUnchanged DEF IInv
<1>2. state[currThread] = "RUNNING" /\ UNCHANGED <<state, schedInterrupted>>
  BY DEF IInv, SchedInv, RunQueueMatchesStates, schedVars
<1>3. pc \in [Thread -> {"run", "wait", "suspend", "return", "signals"}]
  BY DEF IInv, TypeOK
<1>4. PcTypeOK'
  BY <1>3 DEF PcTypeOK
<1>5. \A t \in Thread \ {currThread} : Untouched(t)
  BY <1>2, <1>3 DEF Untouched
<1>6. \A t \in Thread : t = currThread => ThreadOK(t)'
  BY <1>2, <1>3 DEF IInv, ThreadOK
<1> QED
  BY <1>1, <1>4, <1>5, <1>6, CurrIInv

(* ProcSignalWait keeps the invariant: it sleeps only without a signal.    *)
LEMMA SignalWaitIInv ==
  ASSUME IInv, SignalWait \/ EndWait
  PROVE  IInv'
<1>0. SigTypeOK /\ TimerQuantum \in 0 .. InitialQuantum /\ \A t \in Thread : ThreadOK(t)
  BY DEF IInv, TypeOK, SigTypeOK, SchedTypeOK
<1>1. CASE SignalWait
  <2>1. /\ currThread \in Thread /\ pc[currThread] = "run"
        /\ UNCHANGED <<sigPending, procPending, sigBlocked, sigHandlers, maskBefore, spinning>>
    BY <1>1 DEF SignalWait, sigVars
  <2>2. SigTypeOK'
    BY <1>0, <2>1 DEF SigTypeOK
  <2>3. CASE SignalIsPending(currThread)
    <3>1. /\ LeaveKernelCode(Thread)
          /\ UNCHANGED <<state, schedInterrupted, threadQueue, currThread, TimerQuantum>>
      BY <1>1, <2>3 DEF SignalWait
    <3>2. InKernelCode
      BY <2>1 DEF InKernelCode
    <3> QED
      BY <1>0, <2>1, <2>2, <3>1, <3>2, LeaveIInv DEF ThreadOK
  <2>4. CASE ~SignalIsPending(currThread)
    <3>1. pc' = [pc EXCEPT ![currThread] = "wait"] /\ YieldBlock(TRUE, Thread)
      BY <1>1, <2>4 DEF SignalWait
    <3>2. sigPending'[currThread] \subseteq sigBlocked'[currThread]
      BY <2>1, <2>4 DEF SignalIsPending
    <3> QED
      BY <2>1, <2>2, <3>1, <3>2, BlockIInv
  <2> QED
    BY <2>3, <2>4
<1>2. CASE EndWait
  <2>1. /\ currThread \in Thread /\ pc' = [pc EXCEPT ![currThread] = "return"]
        /\ UNCHANGED schedVars
        /\ UNCHANGED <<sigPending, procPending, sigBlocked, sigHandlers, maskBefore, spinning>>
    BY <1>2 DEF EndWait, sigVars
  <2>2. SigTypeOK'
    BY <1>0, <2>1 DEF SigTypeOK
  <2> QED
    BY <2>1, <2>2, StayIInv
<1> QED
  BY <1>1, <1>2

(* What ProcSignalSetMask leaves is a set of signals.                      *)
LEMMA ForcedMaskType == \A set : ForcedMask(set) \in SUBSET SigNum
BY DEF ForcedMask, SigNum, SIGKILL, SIGSTOP

(* The loop of SuspendSelf keeps the invariant.                            *)
LEMMA SuspendLoopIInv ==
  ASSUME IInv, currThread \in Thread,
         NEW pending \in SUBSET sigPending[currThread], NEW process,
         NEW blocked \in SUBSET SigNum,
         SuspendLoop(pending, process, blocked),
         procPending' \subseteq SigNum, maskBefore' \in [Thread -> SUBSET SigNum],
         sigHandlers' = sigHandlers
  PROVE  IInv'
<1>0. SigTypeOK
  BY DEF IInv, TypeOK, SigTypeOK
<1>1. pending \in SUBSET SigNum
  BY <1>0 DEF SigTypeOK
<1>2. CASE (pending \cup process) \ blocked = {}
  <2>1. /\ pc' = [pc EXCEPT ![currThread] = "suspend"]
        /\ sigPending' = [sigPending EXCEPT ![currThread] = pending]
        /\ sigBlocked' = [sigBlocked EXCEPT ![currThread] = blocked]
        /\ YieldBlock(TRUE, Thread) /\ UNCHANGED spinning
    BY <1>2 DEF SuspendLoop
  <2>2. SigTypeOK'
    BY <1>0, <1>1, <2>1 DEF SigTypeOK
  <2>3. /\ \A t \in Thread \ {currThread} :
             sigPending'[t] = sigPending[t] /\ sigBlocked'[t] = sigBlocked[t]
        /\ sigPending'[currThread] = pending /\ sigBlocked'[currThread] = blocked
    BY <1>0, <2>1 DEF SigTypeOK
  <2>4. pending \subseteq blocked
    BY <1>2
  <2> QED
    BY <2>1, <2>2, <2>3, <2>4, BlockIInv
<1>3. CASE (pending \cup process) \ blocked # {}
  <2> DEFINE leaves == pending \cap {SIGKILL, SIGCONT} # {}
             where == IF leaves THEN "signals" ELSE "suspend"
             mask == IF leaves THEN ForcedMask(maskBefore'[currThread]) ELSE blocked
  <2>1. /\ pc' = [pc EXCEPT ![currThread] = where]
        /\ sigPending' = [sigPending EXCEPT ![currThread] = pending \ {SIGSTOP}]
        /\ sigBlocked' = [sigBlocked EXCEPT ![currThread] = mask]
        /\ spinning' = ~leaves
        /\ UNCHANGED schedVars
    BY <1>3 DEF SuspendLoop
  <2>2. mask \in SUBSET SigNum /\ where \in {"run", "suspend", "return", "signals"}
    BY ForcedMaskType
  <2>3. spinning' \in BOOLEAN
    BY <2>1
  <2> HIDE DEF leaves, where, mask
  <2>4. SigTypeOK'
    BY <1>0, <1>1, <2>1, <2>2, <2>3 DEF SigTypeOK
  <2>5. /\ \A t \in Thread \ {currThread} :
             sigPending'[t] = sigPending[t] /\ sigBlocked'[t] = sigBlocked[t]
        /\ sigPending'[currThread] = pending \ {SIGSTOP}
    BY <1>0, <2>1 DEF SigTypeOK
  <2> QED
    BY <2>1, <2>2, <2>4, <2>5, StayIInv
<1> QED
  BY <1>2, <1>3

(* SuspendSelf, from its start and after ProcYieldBlock                    *)
LEMMA SuspendSelfIInv ==
  ASSUME IInv, currThread \in Thread,
         NEW pending \in SUBSET sigPending[currThread], NEW process \in SUBSET SigNum,
         SuspendSelf(pending, process)
  PROVE  IInv'
<1>1. SigTypeOK
  BY DEF IInv, TypeOK, SigTypeOK
<1>2. ForcedMask(SigNum \ {SIGCONT}) \in SUBSET SigNum
  BY ForcedMaskType
<1>3. /\ maskBefore' \in [Thread -> SUBSET SigNum] /\ procPending' \subseteq SigNum
      /\ sigHandlers' = sigHandlers
      /\ SuspendLoop(pending, process, ForcedMask(SigNum \ {SIGCONT}))
  BY <1>1 DEF SuspendSelf, SigTypeOK
<1> QED
  BY <1>2, <1>3, SuspendLoopIInv

(* The same when ProcYieldBlock returns                                    *)
LEMMA EndSuspendIInv ==
  ASSUME IInv, EndSuspend
  PROVE  IInv'
<1>0. SigTypeOK
  BY DEF IInv, TypeOK, SigTypeOK
<1> DEFINE pending == sigPending[currThread] \ {SIGSTOP}
<1>1. currThread \in Thread /\ UNCHANGED <<procPending, maskBefore, sigHandlers>>
  BY DEF EndSuspend
<1>2. CASE pending \cap {SIGKILL, SIGCONT} # {}
  <2>1. /\ pc' = [pc EXCEPT ![currThread] = "signals"]
        /\ sigPending' = [sigPending EXCEPT ![currThread] = pending]
        /\ sigBlocked' = [sigBlocked EXCEPT ![currThread] = ForcedMask(maskBefore[currThread])]
        /\ UNCHANGED <<schedVars, spinning>>
    BY <1>2 DEF EndSuspend
  <2>2. SigTypeOK'
    BY <1>0, <1>1, <2>1, ForcedMaskType DEF SigTypeOK
  <2>3. /\ \A t \in Thread \ {currThread} :
             sigPending'[t] = sigPending[t] /\ sigBlocked'[t] = sigBlocked[t]
        /\ sigPending'[currThread] \subseteq sigPending[currThread]
    BY <1>0, <1>1, <2>1 DEF SigTypeOK
  <2> QED
    BY <1>1, <2>1, <2>2, <2>3, StayIInv
<1>3. CASE pending \cap {SIGKILL, SIGCONT} = {}
  <2>1. SuspendLoop(pending, procPending, sigBlocked[currThread])
    BY <1>3 DEF EndSuspend
  <2>2. /\ pending \in SUBSET sigPending[currThread] /\ sigBlocked[currThread] \in SUBSET SigNum
        /\ procPending' \subseteq SigNum /\ maskBefore' \in [Thread -> SUBSET SigNum]
    BY <1>0, <1>1 DEF SigTypeOK
  <2> QED
    BY <1>1, <2>1, <2>2, SuspendLoopIInv
<1> QED
  BY <1>2, <1>3

-----------------------------------------------------------------------------
(* The end of threads, and delivery                                        *)

(* ProcExitProcess keeps the scheduler's invariant.                        *)
LEMMA ExitProcessSched ==
  ASSUME SchedInv, currThread \in Thread,
         NEW woken \in SUBSET (Thread \ {currThread}), \A t \in woken : state[t] = "INTR",
         NEW order \in [1 .. Cardinality(woken) -> woken], IsInjective(order),
         state' = [t \in Thread |-> CASE t = currThread -> "ZOMBIE"
                                      [] t \in woken    -> "RUNNING"
                                      [] OTHER          -> state[t]],
         schedInterrupted' \in [Thread -> BOOLEAN],
         DoSchedule(threadQueue \o order, Thread)
  PROVE  SchedInv'
<1> USE DEF SchedInv, SchedTypeOK
<1>1. IsFiniteSet(woken) /\ woken \in SUBSET Thread
  BY ThreadAssumption, FS_Subset
<1>2. order \in Seq(Thread) /\ Range(order) = woken
  BY <1>1, ListingFacts
<1>3. /\ Range(threadQueue) \cap woken = {} /\ currThread \notin Range(threadQueue)
      /\ threadQueue \in Seq(Thread) /\ IsInjective(threadQueue)
  BY <1>1 DEF RunQueueMatchesStates, Queued
<1> DEFINE queue == threadQueue \o order
<1>4. /\ queue \in Seq(Thread) /\ IsInjective(queue)
      /\ Range(queue) = Range(threadQueue) \cup woken
  BY <1>2, <1>3, ConcatNoRepeat
<1> HIDE DEF queue
<1>5. /\ threadQueue' \in Seq(Thread) /\ IsInjective(threadQueue')
      /\ currThread' \in Thread \cup {Idle}
      /\ TimerQuantum' \in 0 .. InitialQuantum /\ idleAwake' = FALSE
      /\ currThread' = Idle => threadQueue' = <<>>
      /\ currThread' \in Thread => currThread' \in Range(queue)
      /\ Range(threadQueue') = Range(queue) \ {currThread'}
  BY <1>4, DoScheduleFacts DEF queue
<1>6. /\ state' \in [Thread -> ThreadState] /\ state'[currThread] = "ZOMBIE"
      /\ \A t \in Thread \ {currThread} : state'[t] = IF t \in woken THEN "RUNNING" ELSE state[t]
  BY DEF ThreadState
<1>7. SchedTypeOK'
  BY <1>5, <1>6
<1>8. \A t \in Thread : t \in Range(queue) <=> state'[t] = "RUNNING"
  BY <1>3, <1>4, <1>6 DEF RunQueueMatchesStates, Queued
<1>9. RunQueueMatchesStates'
  BY <1>5, <1>8 DEF RunQueueMatchesStates, Queued
<1>10. IdleOnlyWhenNothingRunnable'
  BY <1>5 DEF IdleOnlyWhenNothingRunnable
<1> QED
  BY <1>7, <1>9, <1>10

(* ProcExitProcess: the other threads get SIGKILL.                         *)
LEMMA ExitProcessIInv ==
  ASSUME IInv, currThread \in Thread,
         NEW pending \in SUBSET sigPending[currThread], NEW process \in SUBSET SigNum,
         ExitProcess(pending, process)
  PROVE  IInv'
<1> DEFINE killed(t) == sigPending[t] \cup {SIGKILL}
           woken == {t \in Thread \ {currThread} :
                       state[t] = "INTR" /\ (killed(t) \cup process) \ sigBlocked[t] # {}}
<1>1. /\ sigPending' = [t \in Thread |-> IF t = currThread THEN pending ELSE killed(t)]
      /\ procPending' = process
      /\ state' = [t \in Thread |-> CASE t = currThread -> "ZOMBIE"
                                      [] t \in woken    -> "RUNNING"
                                      [] OTHER          -> state[t]]
      /\ schedInterrupted' = [t \in Thread |-> t \in woken \/ schedInterrupted[t]]
      /\ \E order \in {s \in [1 .. Cardinality(woken) -> woken] : IsInjective(s)} :
           DoSchedule(threadQueue \o order, Thread)
      /\ UNCHANGED <<pc, sigBlocked, sigHandlers, maskBefore, spinning>>
  BY DEF ExitProcess
<1>2. /\ SigTypeOK /\ PcTypeOK /\ SchedInv /\ \A t \in Thread : ThreadOK(t)
      /\ schedInterrupted \in [Thread -> BOOLEAN]
  BY TypeParts DEF IInv, SchedTypeOK
<1>3. /\ woken \in SUBSET (Thread \ {currThread}) /\ \A t \in woken : state[t] = "INTR"
      /\ \A t \in Thread \ {currThread} :
           t \notin woken /\ state[t] = "INTR" => killed(t) \subseteq sigBlocked[t]
  OBVIOUS
<1>4. SIGKILL \in SigNum /\ SIGKILL # SIGSTOP /\ SIGKILL # SIGCONT
  BY DEF SigNum, SIGKILL, SIGSTOP, SIGCONT
<1>5. \A t \in Thread \ {currThread} :
        /\ killed(t) \in SUBSET SigNum /\ killed(t) # {}
        /\ ~({SIGSTOP, SIGCONT} \subseteq killed(t))
  BY <1>2, <1>4 DEF SigTypeOK, ThreadOK
<1> HIDE DEF killed, woken
<1>6. /\ sigPending'[currThread] = pending
      /\ \A t \in Thread \ {currThread} : sigPending'[t] = killed(t)
  BY <1>1
<1>7. pending \in SUBSET SigNum
  BY <1>2 DEF SigTypeOK
<1>8. SigTypeOK'
  BY <1>1, <1>2, <1>5, <1>7 DEF SigTypeOK
<1>9. schedInterrupted' \in [Thread -> BOOLEAN]
  BY <1>1, <1>2
<1>10. SchedInv'
  <2>1. PICK order \in [1 .. Cardinality(woken) -> woken] :
          IsInjective(order) /\ DoSchedule(threadQueue \o order, Thread)
    BY <1>1
  <2> QED
    BY <1>1, <1>2, <1>3, <1>9, <2>1, ExitProcessSched
<1>11. ASSUME NEW t \in Thread
       PROVE  ThreadOK(t)'
  <2>1. CASE t = currThread
    <3>1. state'[t] = "ZOMBIE"
      BY <1>1, <1>3, <2>1
    <3> QED
      BY <1>2, <1>6, <2>1, <3>1 DEF ThreadOK
  <2>2. CASE t # currThread
    <3>1. /\ state'[t] = IF t \in woken THEN "RUNNING" ELSE state[t]
          /\ schedInterrupted'[t] = (t \in woken \/ schedInterrupted[t])
      BY <1>1, <2>2
    <3>2. /\ pc'[t] = pc[t] /\ sigBlocked'[t] = sigBlocked[t] /\ sigPending'[t] = killed(t)
          /\ sigPending'[t] # {} /\ ~({SIGSTOP, SIGCONT} \subseteq sigPending'[t])
      BY <1>1, <1>5, <1>6, <2>2
    <3> QED
      BY <1>2, <1>3, <2>2, <3>1, <3>2 DEF ThreadOK
  <2> QED
    BY <2>1, <2>2
<1> QED
  BY <1>1, <1>2, <1>8, <1>10, <1>11, TypeParts DEF IInv, SchedInv, PcTypeOK

(* ProcExitThread                                                          *)
LEMMA ExitThreadIInv ==
  ASSUME IInv, currThread \in Thread, ExitThread
  PROVE  IInv'
<1>1. /\ SelfExit(Thread)
      /\ UNCHANGED <<pc, sigPending, procPending, sigBlocked, sigHandlers, maskBefore, spinning>>
  BY DEF ExitThread, sigVars
<1>2. SchedInv'
  BY <1>1, SelfExitInv DEF IInv
<1>3. PcTypeOK' /\ SigTypeOK'
  BY <1>1 DEF IInv, TypeOK, PcTypeOK, SigTypeOK
<1>4. /\ state' = [state EXCEPT ![currThread] = "ZOMBIE"] /\ schedInterrupted' = schedInterrupted
      /\ state \in [Thread -> ThreadState]
  BY <1>1 DEF SelfExit, IInv, TypeOK, SchedTypeOK
<1>5. \A t \in Thread \ {currThread} : Untouched(t)
  BY <1>1, <1>4 DEF Untouched
<1>6. \A t \in Thread : t = currThread => ThreadOK(t)'
  BY <1>1, <1>4 DEF IInv, ThreadOK
<1> QED
  BY <1>2, <1>3, <1>5, <1>6, CurrIInv

(* A signal is acted upon.                                                 *)
LEMMA ActIInv ==
  ASSUME IInv, currThread \in Thread, NEW set, NEW s, Act(set, s)
  PROVE  IInv'
<1> DEFINE taken == {x \in set : x <= s}
           pending == sigPending[currThread] \ taken
           process == procPending \ taken
<1>1. SigTypeOK
  BY DEF IInv, TypeOK, SigTypeOK
<1>2. /\ pending \in SUBSET sigPending[currThread] /\ pending \in SUBSET SigNum
      /\ process \in SUBSET SigNum
  BY <1>1 DEF SigTypeOK
<1>3. \/ ExitProcess(pending, process)
      \/ SuspendSelf(pending, process)
      \/ /\ pc' = [pc EXCEPT ![currThread] = "run"]
         /\ sigPending' = [sigPending EXCEPT ![currThread] = pending]
         /\ procPending' = process
         /\ UNCHANGED <<schedVars, sigBlocked, sigHandlers, maskBefore, spinning>>
  BY DEF Act
<1> HIDE DEF taken, pending, process
<1>4. CASE /\ pc' = [pc EXCEPT ![currThread] = "run"]
           /\ sigPending' = [sigPending EXCEPT ![currThread] = pending]
           /\ procPending' = process
           /\ UNCHANGED <<schedVars, sigBlocked, sigHandlers, maskBefore, spinning>>
  <2>1. SigTypeOK'
    BY <1>1, <1>2, <1>4 DEF SigTypeOK
  <2>2. /\ \A t \in Thread \ {currThread} :
             sigPending'[t] = sigPending[t] /\ sigBlocked'[t] = sigBlocked[t]
        /\ sigPending'[currThread] \subseteq sigPending[currThread]
    BY <1>1, <1>2, <1>4 DEF SigTypeOK
  <2> QED
    BY <1>4, <2>1, <2>2, StayIInv
<1> QED
  BY <1>2, <1>3, <1>4, ExitProcessIInv, SuspendSelfIInv

(* ProcSignalHandler                                                       *)
LEMMA HandleSignalsIInv ==
  ASSUME IInv, HandleSignals
  PROVE  IInv'
<1> DEFINE set == Deliverable(currThread)
           acted == {s \in set : ~SignalIsIgnored(s)}
           first == CHOOSE s \in acted : \A x \in acted : s <= x
<1>1. currThread \in Thread /\ SigTypeOK
  BY DEF HandleSignals, IInv, TypeOK, SigTypeOK
<1>2. \/ ExitThread
      \/ SuspendSelf(sigPending[currThread], procPending)
      \/ Act(set, first)
      \/ /\ pc' = [pc EXCEPT ![currThread] = "run"]
         /\ sigPending' = [sigPending EXCEPT ![currThread] = @ \ set]
         /\ procPending' = procPending \ set
         /\ UNCHANGED <<schedVars, sigBlocked, sigHandlers, maskBefore, spinning>>
  BY DEF HandleSignals
<1> HIDE DEF set, first
<1>3. CASE SuspendSelf(sigPending[currThread], procPending)
  BY <1>1, <1>3, SuspendSelfIInv DEF SigTypeOK
<1>4. CASE /\ pc' = [pc EXCEPT ![currThread] = "run"]
           /\ sigPending' = [sigPending EXCEPT ![currThread] = @ \ set]
           /\ procPending' = procPending \ set
           /\ UNCHANGED <<schedVars, sigBlocked, sigHandlers, maskBefore, spinning>>
  <2>1. SigTypeOK'
    BY <1>1, <1>4 DEF SigTypeOK
  <2>2. /\ \A t \in Thread \ {currThread} :
             sigPending'[t] = sigPending[t] /\ sigBlocked'[t] = sigBlocked[t]
        /\ sigPending'[currThread] \subseteq sigPending[currThread]
    BY <1>1, <1>4 DEF SigTypeOK
  <2> QED
    BY <1>1, <1>4, <2>1, <2>2, StayIInv
<1> QED
  BY <1>1, <1>2, <1>3, <1>4, ExitThreadIInv, ActIInv

(* The end of IntrHandler, and the idle loop                               *)
LEMMA SwitchIInv ==
  ASSUME IInv, Preempt \/ IdleLoop
  PROVE  IInv'
<1>1. /\ UNCHANGED <<sigPending, procPending, sigBlocked, sigHandlers, maskBefore, spinning>>
      /\ SigTypeOK
  BY DEF Preempt, IdleLoop, sigVars, IInv, TypeOK, SigTypeOK
<1>2. SigTypeOK'
  BY <1>1 DEF SigTypeOK
<1>3. CASE Preempt
  <2>1. /\ IntrReturn(Thread) /\ currThread \in Thread
        /\ pc' = [pc EXCEPT ![currThread] = "signals"]
    BY <1>3 DEF Preempt, IntrReturn
  <2>2. SchedInv'
    BY <2>1, IntrReturnInv DEF IInv
  <2>3. /\ pc \in [Thread -> {"run", "wait", "suspend", "return", "signals"}]
        /\ state[currThread] = "RUNNING"
    BY <2>1 DEF IInv, TypeOK, SchedInv, RunQueueMatchesStates
  <2>4. /\ state' = state
        /\ \A t \in Thread \ {currThread} : schedInterrupted'[t] = schedInterrupted[t]
    <3>1. CASE TimerQuantum = 0
      <4>1. Yield(Thread)
        BY <2>1, <3>1 DEF IntrReturn
      <4> QED
        BY <2>1, <4>1, YieldInv DEF IInv
    <3>2. CASE TimerQuantum # 0
      BY <2>1, <3>2 DEF IntrReturn, schedVars
    <3> QED
      BY <3>1, <3>2
  <2>5. PcTypeOK'
    BY <2>1, <2>3 DEF PcTypeOK
  <2>6. \A t \in Thread \ {currThread} : Untouched(t)
    BY <1>1, <2>1, <2>3, <2>4 DEF Untouched
  <2>7. \A t \in Thread : t = currThread => ThreadOK(t)'
    BY <1>1, <2>1, <2>3, <2>4 DEF IInv, ThreadOK
  <2> QED
    BY <1>2, <2>1, <2>2, <2>5, <2>6, <2>7, CurrIInv
<1>4. CASE IdleLoop
  <2>1. SchedInv' /\ UNCHANGED <<pc, state, schedInterrupted>>
    BY <1>4, IdleScheduleInv DEF IdleLoop, IdleSchedule, IInv
  <2>2. PcTypeOK'
    BY <2>1 DEF IInv, TypeOK, PcTypeOK
  <2>3. \A t \in Thread : Untouched(t)
    BY <1>1, <2>1 DEF Untouched
  <2>4. \A t \in Thread : ThreadOK(t)'
    BY <2>3, UntouchedOK DEF IInv
  <2> QED
    BY <1>2, <2>1, <2>2, <2>4, TypeParts DEF IInv, SchedInv
<1> QED
  BY <1>3, <1>4

(* Every step keeps the invariant.                                         *)
LEMMA NextIInv == IInv /\ [Next]_vars => IInv'
<1> SUFFICES ASSUME IInv, [Next]_vars PROVE IInv'
  OBVIOUS
<1>1. ASSUME NEW t \in Thread, NEW s \in Sig, SendThread(t, s)
      PROVE  IInv'
  BY <1>1, SendIInv, SignalAssumption DEF SendThread
<1>2. ASSUME NEW s \in Exceptions, SendOrCrash(s)
      PROVE  IInv'
  <2>1. /\ currThread \in Thread /\ s \in SigNum /\ InKernelCode
        /\ sigPending[currThread] \in SUBSET SigNum /\ procPending \in SUBSET SigNum
    BY <1>2, SignalAssumption DEF SendOrCrash, InKernelCode, IInv, TypeOK
  <2>2. CASE ExitProcess(sigPending[currThread], procPending)
    BY <2>1, <2>2, ExitProcessIInv
  <2>3. CASE Send(currThread, s)
    BY <2>1, <2>3, SendIInv
  <2> QED
    BY <1>2, <2>2, <2>3 DEF SendOrCrash
<1>3. CASE UNCHANGED vars
  <2>1. /\ UNCHANGED <<schedVars, pc, sigPending, procPending, sigBlocked, sigHandlers,
                       maskBefore, spinning>>
        /\ SchedInv'
    BY <1>3, SchedUnchanged DEF vars, sigVars, IInv
  <2>2. PcTypeOK' /\ SigTypeOK'
    BY <2>1 DEF IInv, TypeOK, PcTypeOK, SigTypeOK
  <2>3. \A t \in Thread : ThreadOK(t)'
    BY <2>1, UntouchedOK DEF IInv, Untouched, schedVars
  <2> QED
    BY <2>1, <2>2, <2>3, TypeParts DEF IInv, SchedInv
<1> QED
  BY <1>1, <1>2, <1>3, KernelCodeIInv, SignalWaitIInv, EndSuspendIInv, HandleSignalsIInv,
     SwitchIInv
     DEF Next, Spin

-----------------------------------------------------------------------------
(* A thread never sleeps on an unblocked signal of its own                 *)
(* (ProcSignalSendThread, ProcSignalSetMask, ProcSignalWait, SuspendSelf). *)
THEOREM NotSleptOn == Spec => []NoThreadSignalSleptOn
<1>1. IInv => NoThreadSignalSleptOn
  BY DEF IInv, ThreadOK, NoThreadSignalSleptOn
<1> QED
  BY <1>1, InitIInv, NextIInv, PTL DEF Spec

(* SIGSTOP and SIGCONT are never both pending for a thread                 *)
(* (ProcSignalSendThread, RemoteContinueThread).                           *)
THEOREM StopsOrContinues == Spec => []StopOrContinue
<1>1. IInv => StopOrContinue
  BY DEF IInv, ThreadOK, StopOrContinue
<1> QED
  BY <1>1, InitIInv, NextIInv, PTL DEF Spec

(* ProcSignalWait returns for a signal that is still pending.              *)
THEOREM WaitEnds == Spec => []WaitEndsForASignal
<1>1. IInv => WaitEndsForASignal
  BY DEF IInv, ThreadOK, WaitEndsForASignal
<1> QED
  BY <1>1, InitIInv, NextIInv, PTL DEF Spec

(* The run queue stays in agreement with the thread states, also when a    *)
(* process ends and its threads are woken by SIGKILL.                      *)
THEOREM RunQueueKept == Spec => [](RunQueueMatchesStates /\ IdleOnlyWhenNothingRunnable)
<1>1. IInv => RunQueueMatchesStates /\ IdleOnlyWhenNothingRunnable
  BY DEF IInv, SchedInv
<1> QED
  BY <1>1, InitIInv, NextIInv, PTL DEF Spec
=============================================================================
