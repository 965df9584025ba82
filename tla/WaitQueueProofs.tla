--------------------------- MODULE WaitQueueProofs ---------------------------
(***************************************************************************)
(* Wait queues are correct for every finite set of threads, every set of   *)
(* queues and every quantum: the run queue agrees with the thread states,  *)
(* no wake-up is lost, and the queues keep the promise of EventWait.       *)
(***************************************************************************)
EXTENDS WaitQueue, SchedulerProofs

(* The inductive invariant                                                 *)
IInv ==
  /\ TypeOK
  /\ RunQueueMatchesStates
  /\ IdleOnlyWhenNothingRunnable
  /\ WaitersLinkedOnce
  /\ InterruptedIffNotWoken

(* The initial state                                                       *)
LEMMA InitIInv == Init => IInv
<1> SUFFICES ASSUME Init PROVE IInv
  OBVIOUS
<1>1. <<>> \in Seq(Thread) /\ IsInjective(<<>>) /\ Range(<<>>) = {}
  BY DEF IsInjective, Range
<1>2. TypeOK
  <2>1. SchedTypeOK
    BY SchedInitInv DEF Init, SchedInv
  <2>2. waitQueue \in [Queue -> Seq(Thread)]
    BY <1>1 DEF Init
  <2> QED
    BY <2>1, <2>2 DEF Init, SchedInit, TypeOK
<1>3. RunQueueMatchesStates /\ IdleOnlyWhenNothingRunnable
  BY SchedInitInv DEF Init, SchedInv
<1>4. WaitersLinkedOnce /\ InterruptedIffNotWoken
  BY <1>1 DEF Init, SchedInit, WaitersLinkedOnce, InterruptedIffNotWoken, Waiting, OnQueue
<1> QED
  BY <1>2, <1>3, <1>4 DEF IInv

(* A step that changes no wait queue: it may make an interruptible waiter  *)
(* runnable by a signal, and does not touch other waiters.                 *)
Quiet ==
  /\ waitQueue' = waitQueue
  /\ \A t \in Thread : pc'[t] = "wait" <=> pc[t] = "wait"
  /\ \A t \in Thread : pc[t] = "wait" =>
       \/ state'[t] = state[t] /\ schedInterrupted'[t] = schedInterrupted[t]
       \/ state[t] = "INTR" /\ state'[t] = "RUNNING" /\ schedInterrupted'[t]
  /\ \A t \in Thread : pc[t] # "wait" =>
       state'[t] \notin {"INTR", "UNINTR"} \/ Suspended(t)'

(* A quiet step keeps what IInv says of the wait queues.                   *)
LEMMA QueuesUnchanged ==
  ASSUME IInv, Quiet
  PROVE  WaitersLinkedOnce' /\ InterruptedIffNotWoken'
<1> USE DEF Quiet
<1>1. \A t \in Thread : Waiting(t)' <=> Waiting(t)
  BY DEF Waiting, OnQueue
<1>2. WaitersLinkedOnce'
  <2>1. \A q \in Queue : IsInjective(waitQueue'[q])
    BY DEF IInv, WaitersLinkedOnce
  <2>2. \A t \in Thread : \A p, q \in Queue : OnQueue(t, p)' /\ OnQueue(t, q)' => p = q
    BY DEF IInv, WaitersLinkedOnce, OnQueue
  <2>3. \A t \in Thread : Waiting(t)' => pc'[t] = "wait"
    BY <1>1 DEF IInv, WaitersLinkedOnce
  <2>4. \A t \in Thread : pc'[t] = "wait" => state'[t] \in {"RUNNING", "INTR", "UNINTR"}
    BY DEF IInv, WaitersLinkedOnce
  <2>5. \A t \in Thread : state'[t] \in {"INTR", "UNINTR"} =>
          Waiting(t)' \/ Suspended(t)'
    BY <1>1 DEF IInv, WaitersLinkedOnce, Suspended
  <2> QED
    BY <2>1, <2>2, <2>3, <2>4, <2>5 DEF WaitersLinkedOnce
<1>3. InterruptedIffNotWoken'
  BY <1>1 DEF IInv, InterruptedIffNotWoken, WaitersLinkedOnce, TypeOK, SchedTypeOK, Suspended
<1> QED
  BY <1>2, <1>3

(* The steps that leave the wait queues alone                              *)
LEMMA WaitImmediateIInv ==
  ASSUME IInv, NEW q \in Queue, NEW interruptable \in BOOLEAN, Wait(q, interruptable),
         interruptable /\ sigPending[currThread]
  PROVE  IInv' /\ Quiet
<1>1. /\ currThread \in Thread /\ pc[currThread] = "run"
      /\ Return(TRUE) /\ UNCHANGED <<schedVars, waitQueue, sigPending>>
  BY DEF Wait
<1>2. TypeOK'
  BY <1>1 DEF IInv, TypeOK, SchedTypeOK, schedVars, Return
<1>3. RunQueueMatchesStates' /\ IdleOnlyWhenNothingRunnable'
  BY <1>1 DEF IInv, schedVars, RunQueueMatchesStates, IdleOnlyWhenNothingRunnable, Queued
<1>4. \A t \in Thread : pc'[t] = "wait" <=> pc[t] = "wait"
  BY <1>1 DEF IInv, TypeOK, Return
<1>5. \A t \in Thread : pc[t] # "wait" =>
        state'[t] \notin {"INTR", "UNINTR"} \/ Suspended(t)'
  BY <1>1 DEF IInv, TypeOK, Return, WaitersLinkedOnce, Suspended, schedVars
<1>6. Quiet
  BY <1>1, <1>4, <1>5 DEF Quiet, schedVars
<1> QED
  BY <1>2, <1>3, <1>6, QueuesUnchanged DEF IInv

(* ProcSignalSendThread keeps IInv: it interrupts waiters, and only those. *)
LEMMA SendSignalIInv ==
  ASSUME IInv, NEW t \in Thread, SendSignal(t)
  PROVE  IInv' /\ Quiet
<1> USE DEF IInv
<1>1. /\ TimerQuantum' = TimerQuantum
      /\ idleAwake' = (idleAwake \/ currThread = Idle)
      /\ waitQueue' = waitQueue /\ waitResult' = waitResult
      /\ sigPending' = [sigPending EXCEPT ![t] = TRUE]
      /\ InKernelCode
  BY DEF SendSignal, LeaveKernelCode
<1>2. \A u \in Thread : /\ pc'[u] = "wait" <=> pc[u] = "wait"
                        /\ pc[u] = "suspend" => pc'[u] = "suspend"
  BY <1>1, ThreadAssumption, UserThreadAssumption
     DEF TypeOK, SendSignal, LeaveKernelCode, InKernelCode
<1>3. pc' \in [Thread -> {"run", "wait", "return", "signals", "suspend", "spin"}]
  BY DEF SendSignal, LeaveKernelCode, TypeOK
<1>4. CASE state[t] = "INTR"
  <2>1. WakeUpSig(t, TRUE)
    BY <1>4 DEF SendSignal
  <2>2. SchedInv'
    BY <1>1, <2>1, WakeUpSigInv DEF SchedInv, TypeOK, SchedTypeOK
  <2>3. /\ state' = [state EXCEPT ![t] = "RUNNING"]
        /\ schedInterrupted' = [schedInterrupted EXCEPT ![t] = TRUE]
    BY <1>4, <2>1 DEF WakeUpSig, Wakes
  <2>4. Quiet
    <3>1. \A u \in Thread : pc[u] = "wait" =>
            \/ state'[u] = state[u] /\ schedInterrupted'[u] = schedInterrupted[u]
            \/ state[u] = "INTR" /\ state'[u] = "RUNNING" /\ schedInterrupted'[u]
      BY <1>4, <2>3 DEF TypeOK, SchedTypeOK
    <3>2. \A u \in Thread : pc[u] # "wait" =>
            state'[u] \notin {"INTR", "UNINTR"} \/ Suspended(u)'
      BY <1>2, <2>3 DEF WaitersLinkedOnce, Suspended, TypeOK, SchedTypeOK
    <3> QED
      BY <1>1, <1>2, <3>1, <3>2 DEF Quiet
  <2> QED
    BY <1>1, <1>3, <2>2, <2>4, QueuesUnchanged DEF SchedInv, TypeOK
<1>5. CASE state[t] # "INTR"
  <2>1. UNCHANGED <<state, schedInterrupted, threadQueue, currThread>>
    BY <1>5 DEF SendSignal
  <2>2. Quiet
    <3>1. \A u \in Thread : pc[u] # "wait" =>
            state'[u] \notin {"INTR", "UNINTR"} \/ Suspended(u)'
      BY <1>2, <2>1 DEF WaitersLinkedOnce, Suspended
    <3> QED
      BY <1>1, <1>2, <2>1, <3>1 DEF Quiet
  <2> QED
    BY <1>1, <1>3, <2>1, <2>2, QueuesUnchanged
       DEF TypeOK, SchedTypeOK, RunQueueMatchesStates, IdleOnlyWhenNothingRunnable, Queued
<1> QED
  BY <1>4, <1>5

(* Starting a new thread, which waits nowhere, keeps IInv.                 *)
LEMMA StartIInv ==
  ASSUME IInv, NEW t \in Thread, Start(t)
  PROVE  IInv' /\ Quiet
<1> USE DEF IInv
<1>1. /\ TimerQuantum' = TimerQuantum
      /\ idleAwake' = (idleAwake \/ currThread = Idle)
      /\ waitQueue' = waitQueue /\ waitResult' = waitResult /\ sigPending' = sigPending
      /\ InKernelCode
      /\ state[t] = "STARTUP"
      /\ WakeUpSig(t, FALSE)
  BY DEF Start, LeaveKernelCode, ProcWakeUp
<1>2. \A u \in Thread : /\ pc'[u] = "wait" <=> pc[u] = "wait"
                        /\ pc[u] = "suspend" => pc'[u] = "suspend"
  BY <1>1, ThreadAssumption, UserThreadAssumption
     DEF TypeOK, Start, LeaveKernelCode, InKernelCode
<1>3. pc' \in [Thread -> {"run", "wait", "return", "signals", "suspend", "spin"}]
  BY DEF Start, LeaveKernelCode, TypeOK
<1>4. SchedInv'
  BY <1>1, WakeUpSigInv DEF SchedInv, TypeOK, SchedTypeOK
<1>5. /\ state' = [state EXCEPT ![t] = "RUNNING"]
      /\ schedInterrupted' = [schedInterrupted EXCEPT ![t] = FALSE]
  BY <1>1 DEF WakeUpSig, Wakes
<1>6. pc[t] # "wait"
  BY <1>1 DEF WaitersLinkedOnce
<1>7. \A u \in Thread : pc[u] = "wait" =>
        state'[u] = state[u] /\ schedInterrupted'[u] = schedInterrupted[u]
  BY <1>5, <1>6 DEF TypeOK, SchedTypeOK
<1>8. \A u \in Thread : pc[u] # "wait" =>
        state'[u] \notin {"INTR", "UNINTR"} \/ Suspended(u)'
  BY <1>2, <1>5 DEF WaitersLinkedOnce, Suspended, TypeOK, SchedTypeOK
<1>9. Quiet
  BY <1>1, <1>2, <1>7, <1>8 DEF Quiet
<1> QED
  BY <1>1, <1>3, <1>4, <1>9, QueuesUnchanged DEF SchedInv, TypeOK

(* A tick keeps IInv.                                                      *)
LEMMA TimerInterruptIInv ==
  ASSUME IInv, TimerInterrupt
  PROVE  IInv' /\ Quiet
<1> USE DEF IInv
<1>1. /\ TimerQuantum' \in 0 .. InitialQuantum
      /\ idleAwake' = (idleAwake \/ currThread = Idle)
      /\ UNCHANGED <<state, schedInterrupted, threadQueue, currThread,
                     waitQueue, sigPending, waitResult>>
      /\ InKernelCode
  BY QuantumAssumption
     DEF TimerInterrupt, LeaveKernelCode, UseQuantum, InterruptsEnabled, TypeOK, SchedTypeOK
<1>2. \A u \in Thread : /\ pc'[u] = "wait" <=> pc[u] = "wait"
                        /\ pc[u] = "suspend" => pc'[u] = "suspend"
  BY <1>1, ThreadAssumption, UserThreadAssumption
     DEF TypeOK, TimerInterrupt, LeaveKernelCode, InKernelCode
<1>3. pc' \in [Thread -> {"run", "wait", "return", "signals", "suspend", "spin"}]
  BY DEF TimerInterrupt, LeaveKernelCode, TypeOK
<1>4. \A u \in Thread : pc[u] # "wait" =>
        state'[u] \notin {"INTR", "UNINTR"} \/ Suspended(u)'
  BY <1>1, <1>2 DEF WaitersLinkedOnce, Suspended
<1>5. Quiet
  BY <1>1, <1>2, <1>4 DEF Quiet
<1> QED
  BY <1>1, <1>3, <1>5, QueuesUnchanged
     DEF TypeOK, SchedTypeOK, RunQueueMatchesStates, IdleOnlyWhenNothingRunnable, Queued

(* Steps that switch threads without changing what any waiter is doing     *)
LEMMA SwitchIInv ==
  ASSUME IInv, SchedInv', UNCHANGED <<waitQueue, waitResult>>,
         sigPending' \in [Thread -> BOOLEAN],
         pc' \in [Thread -> {"run", "wait", "return", "signals", "suspend", "spin"}],
         \A t \in Thread : pc'[t] = "wait" <=> pc[t] = "wait",
         \A t \in Thread : pc[t] = "wait" =>
           state'[t] = state[t] /\ schedInterrupted'[t] = schedInterrupted[t],
         \A t \in Thread : Suspended(t) => pc'[t] = "suspend",
         \A t \in Thread : state'[t] \in {state[t], "ZOMBIE"} \/ Suspended(t)'
  PROVE  IInv' /\ Quiet
<1>1. \A t \in Thread : pc[t] # "wait" =>
        state'[t] \notin {"INTR", "UNINTR"} \/ Suspended(t)'
  BY DEF IInv, WaitersLinkedOnce, Suspended
<1>2. Quiet
  BY <1>1 DEF Quiet
<1> QED
  BY <1>2, QueuesUnchanged DEF IInv, SchedInv, TypeOK

(* Preemption, signal handling with its suspensions, yielding, exit and    *)
(* the idle loop keep IInv.                                                *)
LEMMA SwitchesIInv ==
  ASSUME IInv, \/ Preempt \/ HandleSignals \/ Suspend \/ EndSuspend \/ Spin
               \/ KernelYield \/ Exit \/ IdleLoop
  PROVE  IInv' /\ Quiet /\ waitResult' = waitResult
<1> USE DEF IInv
<1>0. SchedInv /\ (currThread \in Thread => ~Suspended(currThread))
  BY DEF SchedInv, TypeOK, RunQueueMatchesStates, Suspended
<1>1. CASE Preempt
  <2>1. /\ currThread \in Thread /\ pc[currThread] = "return"
        /\ pc' = [pc EXCEPT ![currThread] = "signals"]
        /\ UNCHANGED <<waitQueue, sigPending, waitResult>>
    BY <1>1, UserThreadAssumption DEF Preempt, IntrReturn
  <2>2. SchedInv'
    BY <1>0, <1>1, UserThreadAssumption, IntrReturnInv DEF Preempt
  <2>3. \A t \in Thread \ {currThread} :
          state'[t] = state[t] /\ schedInterrupted'[t] = schedInterrupted[t]
    <3>1. CASE TimerQuantum = 0
      <4>1. Yield(UserThread)
        BY <1>1, <3>1 DEF Preempt, IntrReturn
      <4> QED
        BY <1>0, <2>1, <4>1, YieldInv
    <3>2. CASE TimerQuantum # 0
      BY <1>1, <3>2 DEF Preempt, IntrReturn, schedVars
    <3> QED
      BY <3>1, <3>2
  <2>4. \A t \in Thread : state'[t] = state[t]
    BY <1>1 DEF Preempt, IntrReturn, Yield, schedVars
  <2> QED
    BY <1>0, <2>1, <2>2, <2>3, <2>4, SwitchIInv DEF TypeOK, Suspended
<1>2. CASE HandleSignals
  <2>1. /\ currThread \in Thread /\ pc[currThread] = "signals"
        /\ pc' = [pc EXCEPT ![currThread] = "run"]
        /\ UNCHANGED <<schedVars, waitQueue, waitResult>>
    BY <1>2, UserThreadAssumption DEF HandleSignals
  <2>2. sigPending' \in [Thread -> BOOLEAN]
    BY <1>2, <2>1 DEF HandleSignals, TypeOK
  <2>3. SchedInv'
    BY <1>0, <2>1 DEF SchedInv, schedVars, SchedTypeOK, RunQueueMatchesStates,
                      IdleOnlyWhenNothingRunnable, Queued
  <2> QED
    BY <1>0, <2>1, <2>2, <2>3, SwitchIInv DEF TypeOK, Suspended, schedVars
<1>3. CASE KernelYield
  <2>1. /\ currThread \in Thread /\ pc[currThread] = "run" /\ Yield(UserThread)
        /\ UNCHANGED <<pc, waitQueue, sigPending, waitResult>>
    BY <1>3 DEF KernelYield
  <2>2. /\ SchedInv' /\ state' = state
        /\ \A t \in Thread \ {currThread} : schedInterrupted'[t] = schedInterrupted[t]
    BY <1>0, <2>1, YieldInv
  <2> QED
    BY <1>0, <2>1, <2>2, SwitchIInv DEF TypeOK, Suspended
<1>4. CASE Exit
  <2>1. /\ currThread \in Thread /\ pc[currThread] # "wait" /\ SelfExit(UserThread)
        /\ UNCHANGED <<pc, waitQueue, sigPending, waitResult>>
    BY <1>4 DEF Exit
  <2>2. SchedInv'
    BY <1>0, <2>1, SelfExitInv
  <2>3. /\ state' = [state EXCEPT ![currThread] = "ZOMBIE"]
        /\ schedInterrupted' = schedInterrupted
    BY <2>1 DEF SelfExit
  <2>4. \A t \in Thread : /\ pc[t] = "wait" => state'[t] = state[t]
                          /\ state'[t] \in {state[t], "ZOMBIE"}
    BY <2>1, <2>3 DEF TypeOK, SchedTypeOK
  <2> QED
    BY <1>0, <2>1, <2>2, <2>3, <2>4, SwitchIInv DEF TypeOK, Suspended
<1>5. CASE IdleLoop
  <2>1. /\ IdleSchedule(UserThread)
        /\ UNCHANGED <<pc, waitQueue, sigPending, waitResult>>
    BY <1>5 DEF IdleLoop
  <2>2. SchedInv' /\ UNCHANGED <<state, schedInterrupted>>
    BY <1>0, <2>1, IdleScheduleInv DEF IdleSchedule
  <2> QED
    BY <1>0, <2>1, <2>2, SwitchIInv DEF TypeOK, Suspended
<1>6. CASE Suspend
  <2>1. /\ currThread \in Thread /\ pc[currThread] = "signals"
        /\ pc' = [pc EXCEPT ![currThread] = "suspend"]
        /\ sigPending' = [sigPending EXCEPT ![currThread] = FALSE]
        /\ YieldBlock(TRUE, UserThread)
        /\ UNCHANGED <<waitQueue, waitResult>>
    BY <1>6, UserThreadAssumption DEF Suspend
  <2>2. SchedInv'
    BY <1>0, <2>1, YieldBlockInv
  <2>3. /\ state' = [state EXCEPT ![currThread] = "INTR"]
        /\ schedInterrupted' = [schedInterrupted EXCEPT ![currThread] = FALSE]
    BY <2>1 DEF YieldBlock
  <2>4. \A t \in Thread : /\ pc[t] = "wait" => state'[t] = state[t]
                          /\ state'[t] = state[t] \/ Suspended(t)'
    BY <2>1, <2>3 DEF TypeOK, SchedTypeOK, Suspended
  <2>5. \A t \in Thread : Suspended(t) => pc'[t] = "suspend"
    BY <2>1 DEF TypeOK, Suspended
  <2> QED
    BY <2>1, <2>2, <2>3, <2>4, <2>5, SwitchIInv DEF TypeOK, SchedTypeOK
<1>7. CASE EndSuspend \/ Spin
  <2>1. /\ currThread \in Thread /\ pc[currThread] # "wait"
        /\ UNCHANGED <<schedVars, waitQueue, waitResult>>
        /\ \/ pc' = [pc EXCEPT ![currThread] = "signals"]
           \/ pc' = [pc EXCEPT ![currThread] = "spin"]
    BY <1>7, UserThreadAssumption DEF EndSuspend, Spin
  <2>2. sigPending' \in [Thread -> BOOLEAN]
    BY <1>7, <2>1 DEF EndSuspend, Spin, TypeOK
  <2>3. SchedInv'
    BY <1>0, <2>1 DEF SchedInv, schedVars, SchedTypeOK, RunQueueMatchesStates,
                      IdleOnlyWhenNothingRunnable, Queued
  <2>4. /\ pc' \in [Thread -> {"run", "wait", "return", "signals", "suspend", "spin"}]
        /\ \A t \in Thread : pc'[t] = "wait" <=> pc[t] = "wait"
        /\ \A t \in Thread : Suspended(t) => pc'[t] = "suspend"
    BY <1>0, <2>1 DEF TypeOK, Suspended
  <2> QED
    BY <2>1, <2>2, <2>3, <2>4, SwitchIInv DEF schedVars
<1> QED
  BY <1>1, <1>2, <1>3, <1>4, <1>5, <1>6, <1>7 DEF EndSuspend, Spin

(* ProcWaitQueueWait links the thread and blocks it.                       *)
LEMMA WaitBlockIInv ==
  ASSUME IInv, NEW q \in Queue, NEW interruptable \in BOOLEAN, Wait(q, interruptable),
         ~(interruptable /\ sigPending[currThread])
  PROVE  IInv'
<1> USE DEF IInv
<1>1. /\ currThread \in Thread /\ pc[currThread] = "run"
      /\ waitQueue' = [waitQueue EXCEPT ![q] = Append(@, currThread)]
      /\ pc' = [pc EXCEPT ![currThread] = "wait"]
      /\ waitResult' = [waitResult EXCEPT ![currThread] = "none"]
      /\ YieldBlock(interruptable, UserThread)
      /\ sigPending' = sigPending
  BY DEF Wait
<1>2. SchedInv'
  BY <1>1, YieldBlockInv DEF SchedInv, TypeOK
<1>3. /\ state' = [state EXCEPT ![currThread] = IF interruptable THEN "INTR" ELSE "UNINTR"]
      /\ schedInterrupted' = [schedInterrupted EXCEPT ![currThread] = FALSE]
  BY <1>1 DEF YieldBlock
<1>4. ~Waiting(currThread)
  BY <1>1 DEF WaitersLinkedOnce
<1>5. waitQueue[q] \in Seq(Thread) /\ currThread \notin Range(waitQueue[q])
  BY <1>4 DEF TypeOK, Waiting, OnQueue
<1>6. /\ Append(waitQueue[q], currThread) \in Seq(Thread)
      /\ IsInjective(Append(waitQueue[q], currThread))
      /\ Range(Append(waitQueue[q], currThread)) = Range(waitQueue[q]) \cup {currThread}
  BY <1>1, <1>5, AppendNoRepeat DEF WaitersLinkedOnce
<1>7. TypeOK'
  BY <1>1, <1>2, <1>6 DEF TypeOK, SchedInv
<1>8. /\ \A p \in Queue \ {q} : waitQueue'[p] = waitQueue[p]
      /\ waitQueue'[q] = Append(waitQueue[q], currThread)
  BY <1>1 DEF TypeOK
<1>9. \A t \in Thread, p \in Queue :
        OnQueue(t, p)' <=> OnQueue(t, p) \/ (t = currThread /\ p = q)
  BY <1>6, <1>8 DEF OnQueue
<1>10. \A t \in Thread : Waiting(t)' <=> Waiting(t) \/ t = currThread
  BY <1>9 DEF Waiting
<1>11. \A t \in Thread \ {currThread} :
         /\ pc'[t] = pc[t] /\ state'[t] = state[t]
         /\ schedInterrupted'[t] = schedInterrupted[t]
  BY <1>1, <1>3 DEF TypeOK, SchedTypeOK
<1>12. pc'[currThread] = "wait" /\ state'[currThread] \in {"INTR", "UNINTR"}
  BY <1>1, <1>3 DEF TypeOK, SchedTypeOK
<1>13. WaitersLinkedOnce'
  <2>1. \A p \in Queue : IsInjective(waitQueue'[p])
    BY <1>6, <1>8 DEF WaitersLinkedOnce
  <2>2. \A t \in Thread : \A p, r \in Queue : OnQueue(t, p)' /\ OnQueue(t, r)' => p = r
    BY <1>4, <1>9 DEF WaitersLinkedOnce, Waiting
  <2> QED
    BY <1>1, <1>10, <1>11, <1>12, <2>1, <2>2 DEF WaitersLinkedOnce, Suspended
<1>14. InterruptedIffNotWoken'
  BY <1>1, <1>10, <1>11, <1>12 DEF InterruptedIffNotWoken
<1> QED
  BY <1>2, <1>7, <1>13, <1>14 DEF SchedInv

(* The rest of ProcWaitQueueWait unlinks the current thread, if need be.   *)
LEMMA EndWaitQueues ==
  ASSUME IInv, EndWait
  PROVE  /\ waitQueue' \in [Queue -> Seq(Thread)]
         /\ \A q \in Queue : IsInjective(waitQueue'[q])
         /\ \A t \in Thread, q \in Queue : OnQueue(t, q)' <=> OnQueue(t, q) /\ t # currThread
<1> USE DEF IInv
<1>1. CASE Waiting(currThread)
  <2>0. PICK q \in Queue : \E i \in DOMAIN waitQueue[q] :
          /\ waitQueue[q][i] = currThread
          /\ waitQueue' = [waitQueue EXCEPT ![q] = ListDelete(@, i)]
    BY <1>1 DEF EndWait
  <2>1. PICK i \in DOMAIN waitQueue[q] :
          /\ waitQueue[q][i] = currThread
          /\ waitQueue' = [waitQueue EXCEPT ![q] = ListDelete(@, i)]
    BY <2>0
  <2>2. waitQueue[q] \in Seq(Thread) /\ IsInjective(waitQueue[q])
    BY DEF TypeOK, WaitersLinkedOnce
  <2>3. /\ ListDelete(waitQueue[q], i) \in Seq(Thread)
        /\ IsInjective(ListDelete(waitQueue[q], i))
        /\ Range(ListDelete(waitQueue[q], i)) = Range(waitQueue[q]) \ {currThread}
    BY <2>1, <2>2, ListDeleteNoRepeat
  <2>4. /\ \A p \in Queue \ {q} : waitQueue'[p] = waitQueue[p]
        /\ waitQueue'[q] = ListDelete(waitQueue[q], i)
    BY <2>1 DEF TypeOK
  <2>5. OnQueue(currThread, q) /\ currThread \in Thread
    BY <2>1 DEF OnQueue, Range, EndWait
  <2>6. \A p \in Queue \ {q} : ~OnQueue(currThread, p)
    BY <2>5 DEF WaitersLinkedOnce
  <2>7. waitQueue' \in [Queue -> Seq(Thread)]
    BY <2>1, <2>3 DEF TypeOK
  <2>8. \A p \in Queue : IsInjective(waitQueue'[p])
    BY <2>3, <2>4 DEF WaitersLinkedOnce
  <2>9. \A t \in Thread, p \in Queue : OnQueue(t, p)' <=> OnQueue(t, p) /\ t # currThread
    BY <2>3, <2>4, <2>6 DEF OnQueue
  <2> QED
    BY <2>7, <2>8, <2>9
<1>2. CASE ~Waiting(currThread)
  BY <1>2 DEF EndWait, TypeOK, WaitersLinkedOnce, OnQueue, Waiting
<1> QED
  BY <1>1, <1>2

(* The return from ProcWaitQueueWait keeps IInv.                           *)
LEMMA EndWaitIInv ==
  ASSUME IInv, EndWait
  PROVE  IInv'
<1> USE DEF IInv
<1>1. /\ currThread \in Thread /\ pc[currThread] = "wait"
      /\ Return(schedInterrupted[currThread])
      /\ UNCHANGED <<schedVars, sigPending>>
  BY DEF EndWait
<1>2. /\ waitQueue' \in [Queue -> Seq(Thread)]
      /\ \A q \in Queue : IsInjective(waitQueue'[q])
      /\ \A t \in Thread, q \in Queue : OnQueue(t, q)' <=> OnQueue(t, q) /\ t # currThread
  BY EndWaitQueues
<1>3. \A t \in Thread : Waiting(t)' <=> Waiting(t) /\ t # currThread
  BY <1>2 DEF Waiting
<1>4. /\ \A t \in Thread \ {currThread} : pc'[t] = pc[t]
      /\ pc'[currThread] # "wait"
      /\ pc' \in [Thread -> {"run", "wait", "return", "signals", "suspend", "spin"}]
      /\ waitResult' \in [Thread -> {"none", "woken", "interrupted"}]
  BY <1>1 DEF TypeOK, Return
<1>5. TypeOK'
  BY <1>1, <1>2, <1>4 DEF TypeOK, SchedTypeOK, schedVars
<1>6. RunQueueMatchesStates' /\ IdleOnlyWhenNothingRunnable'
  BY <1>1 DEF schedVars, RunQueueMatchesStates, IdleOnlyWhenNothingRunnable, Queued
<1>7. state[currThread] = "RUNNING"
  BY <1>1 DEF RunQueueMatchesStates
<1>8. WaitersLinkedOnce'
  <2>1. \A t \in Thread : \A p, q \in Queue : OnQueue(t, p)' /\ OnQueue(t, q)' => p = q
    BY <1>2 DEF WaitersLinkedOnce
  <2> QED
    BY <1>1, <1>2, <1>3, <1>4, <1>7, <2>1 DEF WaitersLinkedOnce, Suspended, schedVars
<1>9. InterruptedIffNotWoken'
  BY <1>1, <1>3, <1>4 DEF InterruptedIffNotWoken, schedVars
<1> QED
  BY <1>5, <1>6, <1>8, <1>9

(* A step that takes the threads of a set W off queue q and wakes them     *)
Taken(W) ==
  /\ W \subseteq Thread
  /\ \A t \in W : Waiting(t)
  /\ \A t \in Thread : pc'[t] = "wait" <=> pc[t] = "wait"
  /\ \A t \in Thread : Waiting(t)' <=> Waiting(t) /\ t \notin W
  /\ \A t \in Thread \ W : state'[t] = state[t]

(* Waking exactly the threads that are taken off a queue keeps IInv.       *)
LEMMA WokenIInv ==
  ASSUME IInv, NEW q \in Queue, NEW W \in SUBSET Thread,
         SchedInv', InKernelCode, LeaveKernelCode(UserThread),
         UNCHANGED <<sigPending, waitResult>>,
         NEW rest \in Seq(Thread), waitQueue' = [waitQueue EXCEPT ![q] = rest],
         IsInjective(rest), W \subseteq Range(waitQueue[q]),
         Range(rest) = Range(waitQueue[q]) \ W,
         \A t \in Thread \ W :
           state'[t] = state[t] /\ schedInterrupted'[t] = schedInterrupted[t],
         \A t \in W : state'[t] = "RUNNING" /\ ~schedInterrupted'[t]
  PROVE  IInv' /\ Taken(W)
<1> USE DEF IInv
<1>1. \A t \in Thread : /\ pc'[t] = "wait" <=> pc[t] = "wait"
                        /\ pc[t] = "suspend" => pc'[t] = "suspend"
  BY ThreadAssumption, UserThreadAssumption DEF TypeOK, LeaveKernelCode, InKernelCode
<1>2. pc' \in [Thread -> {"run", "wait", "return", "signals", "suspend", "spin"}]
  BY DEF LeaveKernelCode, TypeOK
<1>3. /\ waitQueue' \in [Queue -> Seq(Thread)]
      /\ \A p \in Queue \ {q} : waitQueue'[p] = waitQueue[p]
      /\ waitQueue'[q] = rest
  BY DEF TypeOK
<1>4. TypeOK'
  BY <1>2, <1>3 DEF TypeOK, SchedInv
<1>5. \A t \in Thread, p \in Queue \ {q} : OnQueue(t, p) => t \notin W
  BY DEF WaitersLinkedOnce, OnQueue
<1>6. \A t \in Thread, p \in Queue : OnQueue(t, p)' <=> OnQueue(t, p) /\ t \notin W
  BY <1>3, <1>5 DEF OnQueue
<1>7. \A t \in Thread : Waiting(t)' <=> Waiting(t) /\ t \notin W
  BY <1>6 DEF Waiting
<1>8. WaitersLinkedOnce'
  <2>1. \A p \in Queue : IsInjective(waitQueue'[p])
    BY <1>3 DEF WaitersLinkedOnce
  <2>2. \A t \in Thread : \A p, r \in Queue : OnQueue(t, p)' /\ OnQueue(t, r)' => p = r
    BY <1>6 DEF WaitersLinkedOnce
  <2> QED
    BY <1>1, <1>7, <2>1, <2>2 DEF WaitersLinkedOnce, Suspended
<1>9. InterruptedIffNotWoken'
  BY <1>1, <1>7 DEF InterruptedIffNotWoken
<1>10. Taken(W)
  BY <1>1, <1>7 DEF Taken, Waiting, OnQueue
<1> QED
  BY <1>4, <1>8, <1>9, <1>10 DEF SchedInv

(* ProcWaitQueueWakeOne keeps IInv.                                        *)
LEMMA WakeOneIInv ==
  ASSUME IInv, NEW q \in Queue, WakeOne(q)
  PROVE  /\ IInv'
         /\ waitQueue[q] = <<>> => Quiet
         /\ waitQueue[q] # <<>> => Taken({Head(waitQueue[q])})
<1> USE DEF IInv
<1>1. /\ InKernelCode /\ LeaveKernelCode(UserThread)
      /\ UNCHANGED <<TimerQuantum, sigPending, waitResult>>
      /\ idleAwake' = (idleAwake \/ currThread = Idle)
  BY DEF WakeOne, LeaveKernelCode
<1>2. CASE waitQueue[q] = <<>>
  <2>1. UNCHANGED <<state, schedInterrupted, threadQueue, currThread, waitQueue>>
    BY <1>2 DEF WakeOne
  <2>2. \A t \in Thread : /\ pc'[t] = "wait" <=> pc[t] = "wait"
                          /\ pc[t] = "suspend" => pc'[t] = "suspend"
    BY <1>1, ThreadAssumption, UserThreadAssumption DEF TypeOK, LeaveKernelCode, InKernelCode
  <2>3. pc' \in [Thread -> {"run", "wait", "return", "signals", "suspend", "spin"}]
    BY <1>1 DEF LeaveKernelCode, TypeOK
  <2>4. SchedInv'
    BY <1>1, <2>1 DEF SchedInv, TypeOK, SchedTypeOK, RunQueueMatchesStates,
                      IdleOnlyWhenNothingRunnable, Queued
  <2> QED
    BY <1>1, <1>2, <2>1, <2>2, <2>3, <2>4, SwitchIInv DEF TypeOK, Suspended
<1>3. CASE waitQueue[q] # <<>>
  <2> DEFINE h == Head(waitQueue[q])
             rest == Tail(waitQueue[q])
  <2>1. /\ waitQueue' = [waitQueue EXCEPT ![q] = rest]
        /\ WakeUpSig(h, FALSE)
    BY <1>3 DEF WakeOne, ProcWakeUp, TypeOK
  <2>2. /\ h \in Thread /\ h \in Range(waitQueue[q])
        /\ rest \in Seq(Thread) /\ IsInjective(rest)
        /\ Range(rest) = Range(waitQueue[q]) \ {h}
    BY <1>3, HeadTailNoRepeat DEF TypeOK, WaitersLinkedOnce
  <2> HIDE DEF h, rest
  <2>3. SchedInv'
    BY <1>1, <2>1, <2>2, WakeUpSigInv DEF SchedInv, TypeOK, SchedTypeOK
  <2>4. state[h] \in {"RUNNING", "INTR", "UNINTR"}
    BY <2>2 DEF WaitersLinkedOnce, Waiting, OnQueue
  <2>5. /\ state' = [state EXCEPT ![h] = "RUNNING"]
        /\ schedInterrupted' = [schedInterrupted EXCEPT ![h] = FALSE]
    BY <2>1, <2>2, <2>4 DEF WakeUpSig, Wakes, TypeOK, SchedTypeOK
  <2>6. /\ \A t \in Thread \ {h} :
             state'[t] = state[t] /\ schedInterrupted'[t] = schedInterrupted[t]
        /\ state'[h] = "RUNNING" /\ ~schedInterrupted'[h]
    BY <2>2, <2>5 DEF TypeOK, SchedTypeOK
  <2> DEFINE W == {h}
  <2>7. /\ W \in SUBSET Thread /\ W \subseteq Range(waitQueue[q])
        /\ Range(rest) = Range(waitQueue[q]) \ W
        /\ \A t \in Thread \ W :
             state'[t] = state[t] /\ schedInterrupted'[t] = schedInterrupted[t]
        /\ \A t \in W : state'[t] = "RUNNING" /\ ~schedInterrupted'[t]
    BY <2>2, <2>6
  <2> HIDE DEF W
  <2>8. IInv' /\ Taken(W)
    BY <1>1, <2>1, <2>2, <2>3, <2>7, WokenIInv
  <2> QED
    BY <1>3, <2>8 DEF W, h
<1> QED
  BY <1>2, <1>3

(* ProcWaitQueueWakeAll keeps IInv.                                        *)
LEMMA WakeAllIInv ==
  ASSUME IInv, NEW q \in Queue, WakeAll(q)
  PROVE  IInv' /\ Taken(Range(waitQueue[q]))
<1> USE DEF IInv
<1> DEFINE W == Range(waitQueue[q])
<1>1. /\ InKernelCode /\ LeaveKernelCode(UserThread)
      /\ UNCHANGED <<TimerQuantum, sigPending, waitResult>>
      /\ idleAwake' = (idleAwake \/ currThread = Idle)
      /\ waitQueue' = [waitQueue EXCEPT ![q] = <<>>]
      /\ WakeUpEach(waitQueue[q], W)
  BY DEF WakeAll, LeaveKernelCode
<1>2. W \in SUBSET Thread
  BY RangeOfSeq DEF TypeOK
<1>3. \A t \in W : state[t] \in {"RUNNING", "INTR", "UNINTR"}
  BY <1>2 DEF WaitersLinkedOnce, Waiting, OnQueue
<1>4. <<>> \in Seq(Thread) /\ IsInjective(<<>>) /\ Range(<<>>) = Range(waitQueue[q]) \ W
  BY DEF IsInjective, Range
<1>5. W \subseteq Range(waitQueue[q])
  OBVIOUS
<1> HIDE DEF W
<1>6. SchedInv'
  BY <1>1, <1>2, WakeUpEachInv DEF SchedInv, TypeOK, SchedTypeOK
<1>7. \A t \in Thread \ W :
        state'[t] = state[t] /\ schedInterrupted'[t] = schedInterrupted[t]
  BY <1>1 DEF WakeUpEach
<1>8. \A t \in W : state'[t] = "RUNNING" /\ ~schedInterrupted'[t]
  BY <1>1, <1>2, <1>3 DEF WakeUpEach, Wakes
<1>9. IInv' /\ Taken(W)
  BY <1>1, <1>2, <1>4, <1>5, <1>6, <1>7, <1>8, WokenIInv
<1> QED
  BY <1>9 DEF W

(* Every step of the wait queues keeps the inductive invariant.            *)
LEMMA NextIInv == IInv /\ [Next]_vars => IInv'
<1> SUFFICES ASSUME IInv, [Next]_vars PROVE IInv'
  OBVIOUS
<1>1. CASE \E q \in Queue, interruptable \in BOOLEAN : Wait(q, interruptable)
  BY <1>1, WaitImmediateIInv, WaitBlockIInv
<1>2. CASE EndWait
  BY <1>2, EndWaitIInv
<1>3. CASE \E q \in Queue : WakeOne(q)
  BY <1>3, WakeOneIInv
<1>4. CASE \E q \in Queue : WakeAll(q)
  BY <1>4, WakeAllIInv
<1>5. CASE \E t \in Thread : SendSignal(t)
  BY <1>5, SendSignalIInv
<1>6. CASE \E t \in Thread : Start(t)
  BY <1>6, StartIInv
<1>7. CASE TimerInterrupt
  BY <1>7, TimerInterruptIInv
<1>8. CASE \/ Preempt \/ HandleSignals \/ Suspend \/ EndSuspend \/ Spin
           \/ KernelYield \/ Exit \/ IdleLoop
  BY <1>8, SwitchesIInv
<1>9. CASE UNCHANGED vars
  BY <1>9 DEF vars, schedVars, IInv, TypeOK, SchedTypeOK, RunQueueMatchesStates, Queued,
              IdleOnlyWhenNothingRunnable, WaitersLinkedOnce, InterruptedIffNotWoken,
              Waiting, OnQueue, Suspended
<1> QED
  BY <1>1, <1>2, <1>3, <1>4, <1>5, <1>6, <1>7, <1>8, <1>9 DEF Next

(* The inductive invariant holds in every reachable state.                 *)
THEOREM Invariance == Spec => []IInv
  BY InitIInv, NextIInv, PTL DEF Spec

(* Type correctness of the wait queue model.                               *)
THEOREM TypeCorrect == Spec => []TypeOK
<1>1. IInv => TypeOK
  BY DEF IInv
<1> QED
  BY <1>1, Invariance, PTL

(* ProcDoSchedule, ProcYield, ProcYieldBlock, ProcWakeUpSig and            *)
(* ProcIntSelfExit keep the run queue exact: it always holds the runnable  *)
(* threads other than the current one, each once.                          *)
THEOREM RunQueueCorrect == Spec => []RunQueueMatchesStates
<1>1. IInv => RunQueueMatchesStates
  BY DEF IInv
<1> QED
  BY <1>1, Invariance, PTL

(* The idle thread never halts the processor while a thread is runnable.   *)
THEOREM IdleCorrect == Spec => []IdleOnlyWhenNothingRunnable
<1>1. IInv => IdleOnlyWhenNothingRunnable
  BY DEF IInv
<1> QED
  BY <1>1, Invariance, PTL

(* No thread is linked into two wait queues or left linked after its wait. *)
THEOREM LinkedOnce == Spec => []WaitersLinkedOnce
<1>1. IInv => WaitersLinkedOnce
  BY DEF IInv
<1> QED
  BY <1>1, Invariance, PTL

(* A wait reports an interruption exactly when nobody woke the waiter.     *)
THEOREM NoLostWakeUp == Spec => []InterruptedIffNotWoken
<1>1. IInv => InterruptedIffNotWoken
  BY DEF IInv
<1> QED
  BY <1>1, Invariance, PTL

-----------------------------------------------------------------------------
(* Refinement: the wait queues implement EventWait                         *)

Patient == {t \in Thread : Waiting(t) /\ state[t] = "UNINTR"}
Woken == {t \in Thread : pc[t] = "wait" /\ ~Waiting(t)}

(* A quiet step that leaves the results alone is a stutter of EventWait.   *)
LEMMA QuietStutters ==
  ASSUME IInv, Quiet
  PROVE  Patient' = Patient /\ Woken' = Woken
<1>1. \A t \in Thread : Waiting(t)' <=> Waiting(t)
  BY DEF Quiet, Waiting, OnQueue
<1>2. \A t \in Thread : Waiting(t) => pc[t] = "wait"
  BY DEF IInv, WaitersLinkedOnce
<1> QED
  BY <1>1, <1>2 DEF Quiet, Patient, Woken

(* Taking threads off a queue turns them from waiters into woken threads.  *)
LEMMA TakenWakes ==
  ASSUME IInv, NEW W, Taken(W)
  PROVE  Patient' = Patient \ W /\ Woken' = Woken \cup W
<1>1. \A t \in Thread : Waiting(t) => pc[t] = "wait"
  BY DEF IInv, WaitersLinkedOnce
<1>2. Patient' = Patient \ W
  BY DEF Taken, Patient
<1>3. Woken' = Woken \cup W
  BY <1>1 DEF Taken, Woken
<1> QED
  BY <1>2, <1>3

(* Every step is a step of EventWait or a stutter.                         *)
LEMMA StepRefines ==
  ASSUME IInv, Next
  PROVE  Promise!Next \/ UNCHANGED Promise!vars
<1> USE DEF IInv
<1>1. CASE \E q \in Queue, interruptable \in BOOLEAN : Wait(q, interruptable)
  <2>1. PICK q \in Queue, interruptable \in BOOLEAN : Wait(q, interruptable)
    BY <1>1
  <2>2. currThread \in Thread /\ pc[currThread] = "run" /\ ~Waiting(currThread)
    BY <2>1 DEF Wait, WaitersLinkedOnce
  <2>3. ~Promise!IsWaiting(currThread) /\ currThread \notin Woken
    BY <2>2 DEF Promise!IsWaiting, Promise!Range, Range, Waiting, OnQueue, Woken
  <2>4. CASE interruptable /\ sigPending[currThread]
    <3>1. Patient' = Patient /\ Woken' = Woken /\ waitQueue' = waitQueue
      BY <2>1, <2>4, WaitImmediateIInv, QuietStutters DEF Quiet
    <3>2. waitResult' = [waitResult EXCEPT ![currThread] = "interrupted"]
      BY <2>1, <2>4 DEF Wait, Return
    <3>3. Promise!Refuse(currThread)
      BY <2>3, <3>1, <3>2 DEF Promise!Refuse, Patient, Woken
    <3> QED
      BY <2>2, <3>3 DEF Promise!Next
  <2>5. CASE ~(interruptable /\ sigPending[currThread])
    <3>1. /\ waitQueue' = [waitQueue EXCEPT ![q] = Append(@, currThread)]
          /\ pc' = [pc EXCEPT ![currThread] = "wait"]
          /\ waitResult' = [waitResult EXCEPT ![currThread] = "none"]
          /\ state' = [state EXCEPT ![currThread] =
                         IF interruptable THEN "INTR" ELSE "UNINTR"]
      BY <2>1, <2>5 DEF Wait, YieldBlock
    <3>2. Range(waitQueue'[q]) = Range(waitQueue[q]) \cup {currThread}
      BY <2>2, <3>1, AppendNoRepeat DEF TypeOK
    <3>3. \A t \in Thread : Waiting(t)' <=> Waiting(t) \/ t = currThread
      BY <3>1, <3>2 DEF Waiting, OnQueue, TypeOK
    <3>4. Woken' = Woken
      BY <2>2, <3>1, <3>3 DEF Woken, TypeOK
    <3>5. Patient' = IF interruptable THEN Patient ELSE Patient \cup {currThread}
      BY <2>2, <3>1, <3>3 DEF Patient, TypeOK, SchedTypeOK
    <3>6. Promise!Begin(currThread, q, interruptable)
      BY <2>3, <3>1, <3>4, <3>5 DEF Promise!Begin, Patient, Woken
    <3> QED
      BY <2>2, <3>6 DEF Promise!Next
  <2> QED
    BY <2>4, <2>5
<1>2. CASE EndWait
  <2>1. /\ currThread \in Thread /\ pc[currThread] = "wait"
        /\ state[currThread] = "RUNNING" /\ state' = state
        /\ schedInterrupted[currThread] <=> Waiting(currThread)
        /\ Return(schedInterrupted[currThread])
    BY <1>2 DEF EndWait, RunQueueMatchesStates, InterruptedIffNotWoken, schedVars
  <2>2. \A t \in Thread : Waiting(t)' <=> Waiting(t) /\ t # currThread
    BY <1>2, EndWaitQueues DEF Waiting
  <2>3. \A t \in Thread : pc'[t] = "wait" <=> pc[t] = "wait" /\ t # currThread
    BY <2>1 DEF Return, TypeOK
  <2>4. Patient' = Patient
    BY <2>1, <2>2 DEF Patient
  <2>5. Woken' = Woken \ {currThread}
    BY <2>2, <2>3 DEF Woken
  <2>6. CASE Waiting(currThread)
    <3>1. PICK q \in Queue : \E i \in DOMAIN waitQueue[q] :
            /\ waitQueue[q][i] = currThread
            /\ waitQueue' = [waitQueue EXCEPT ![q] = ListDelete(@, i)]
      BY <1>2, <2>6 DEF EndWait
    <3>2. waitResult' = [waitResult EXCEPT ![currThread] = "interrupted"]
      BY <2>1, <2>6 DEF Return
    <3>3. currThread \notin Patient /\ Woken' = Woken
      BY <2>1, <2>5, <2>6 DEF Patient, Woken
    <3>4. Promise!GiveUp(currThread, q)
      BY <2>4, <3>1, <3>2, <3>3 DEF Promise!GiveUp, ListDelete, Patient, Woken
    <3>5. \E t \in Thread, p \in Queue : Promise!GiveUp(t, p)
      BY <2>1, <3>4
    <3> QED
      BY <3>5 DEF Promise!Next
  <2>7. CASE ~Waiting(currThread)
    <3>1. waitQueue' = waitQueue
      BY <1>2, <2>7 DEF EndWait
    <3>2. waitResult' = [waitResult EXCEPT ![currThread] = "woken"]
      BY <2>1, <2>7 DEF Return
    <3>3. currThread \in Woken
      BY <2>1, <2>7 DEF Woken
    <3>4. Promise!Finish(currThread)
      BY <2>4, <2>5, <3>1, <3>2, <3>3 DEF Promise!Finish, Patient, Woken
    <3>5. \E t \in Thread : Promise!Finish(t)
      BY <2>1, <3>4 DEF Promise!Finish
    <3> QED
      BY <3>5 DEF Promise!Next
  <2> QED
    BY <2>6, <2>7
<1>3. CASE \E q \in Queue : WakeOne(q)
  <2>1. PICK q \in Queue : WakeOne(q)
    BY <1>3
  <2>2. waitResult' = waitResult
    BY <2>1 DEF WakeOne
  <2>3. CASE waitQueue[q] = <<>>
    BY <2>1, <2>2, <2>3, WakeOneIInv, QuietStutters DEF Promise!vars, Patient, Woken, Quiet
  <2>4. CASE waitQueue[q] # <<>>
    <3>1. waitQueue' = [waitQueue EXCEPT ![q] = Tail(@)]
      BY <2>1, <2>4 DEF WakeOne
    <3>2. /\ Patient' = Patient \ {Head(waitQueue[q])}
          /\ Woken' = Woken \cup {Head(waitQueue[q])}
      BY <2>1, <2>4, WakeOneIInv, TakenWakes
    <3>3. Promise!WakeOldest(q)
      BY <2>2, <2>4, <3>1, <3>2 DEF Promise!WakeOldest, Patient, Woken
    <3> QED
      BY <3>3 DEF Promise!Next
  <2> QED
    BY <2>3, <2>4
<1>4. CASE \E q \in Queue : WakeAll(q)
  <2>1. PICK q \in Queue : WakeAll(q)
    BY <1>4
  <2>2. waitResult' = waitResult /\ waitQueue' = [waitQueue EXCEPT ![q] = <<>>]
    BY <2>1 DEF WakeAll
  <2>3. /\ Patient' = Patient \ Range(waitQueue[q])
        /\ Woken' = Woken \cup Range(waitQueue[q])
    BY <2>1, WakeAllIInv, TakenWakes
  <2>4. Promise!WakeEveryone(q)
    BY <2>2, <2>3 DEF Promise!WakeEveryone, Promise!Range, Range, Patient, Woken
  <2> QED
    BY <2>4 DEF Promise!Next
<1>5. CASE \/ \E t \in Thread : SendSignal(t) \/ Start(t)
           \/ TimerInterrupt
           \/ Preempt \/ HandleSignals \/ Suspend \/ EndSuspend \/ Spin
           \/ KernelYield \/ Exit \/ IdleLoop
  <2>1. Quiet
    BY <1>5, SendSignalIInv, StartIInv, TimerInterruptIInv, SwitchesIInv
  <2>2. waitResult' = waitResult
    BY <1>5, SwitchesIInv DEF SendSignal, Start, TimerInterrupt
  <2> QED
    BY <2>1, <2>2, QuietStutters DEF Quiet, Promise!vars, Patient, Woken
<1> QED
  BY <1>1, <1>2, <1>3, <1>4, <1>5 DEF Next

(* The wait queues implement EventWait: waiters are woken oldest first,    *)
(* every wait ends once, by a wake-up or by an interruption, an            *)
(* uninterruptible wait only by a wake-up, and ProcWaitQueueWait returns   *)
(* which of the two it was.                                                *)
THEOREM Refinement == Spec => KeepsPromise
<1>1. Init => Promise!Init
  <2> SUFFICES ASSUME Init PROVE Promise!Init
    OBVIOUS
  <2>1. Patient = {} /\ Woken = {}
    BY DEF Init, SchedInit, Patient, Woken, Waiting, OnQueue, Range
  <2> QED
    BY <2>1 DEF Init, Promise!Init, Patient, Woken
<1>2. IInv /\ [Next]_vars => [Promise!Next]_(Promise!vars)
  <2> SUFFICES ASSUME IInv, [Next]_vars PROVE [Promise!Next]_(Promise!vars)
    OBVIOUS
  <2>1. CASE Next
    BY <2>1, StepRefines
  <2>2. CASE UNCHANGED vars
    BY <2>2 DEF vars, schedVars, Promise!vars, Waiting, OnQueue
  <2> QED
    BY <2>1, <2>2
<1> QED
  BY <1>1, <1>2, Invariance, PTL DEF Spec, KeepsPromise, Promise!Spec
=============================================================================
