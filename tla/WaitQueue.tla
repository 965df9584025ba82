------------------------------ MODULE WaitQueue ------------------------------
(***************************************************************************)
(* Wait queues (process/waitqueue.c) on top of the scheduler: threads wait *)
(* for an event on a queue, interruptibly or not, while other threads and  *)
(* interrupt handlers wake the oldest or all of the waiters, send signals, *)
(* preempt, yield and exit.                                                *)
(*                                                                         *)
(* pc[t] = "wait" is a thread inside ProcWaitQueueWait, at its call of     *)
(* ProcYieldBlock.  A thread is on at most one queue: it is linked in by   *)
(* its own member ProcThread.waitQueue.  pc[t] = "suspend" is a thread in  *)
(* SuspendSelf (signal.c) at its call of ProcYieldBlock, "spin" one whose  *)
(* SuspendSelf goes round for ever.                                        *)
(***************************************************************************)
EXTENDS Scheduler

CONSTANTS UserThread,   \* the threads of user processes; the others are kernel threads
          Queue         \* the wait queues

ASSUME UserThreadAssumption == UserThread \subseteq Thread

VARIABLES
  waitQueue,    \* the waiters of each queue, oldest first
  sigPending,   \* ProcSignalIsPending of each thread
  waitResult    \* what the thread's last ProcWaitQueueWait returned

vars == <<schedVars, pc, waitQueue, sigPending, waitResult>>

TypeOK ==
  /\ SchedTypeOK
  /\ pc \in [Thread -> {"run", "wait", "return", "signals", "suspend", "spin"}]
  /\ waitQueue \in [Queue -> Seq(Thread)]
  /\ sigPending \in [Thread -> BOOLEAN]
  /\ waitResult \in [Thread -> {"none", "woken", "interrupted"}]

Init ==
  /\ SchedInit
  /\ waitQueue = [q \in Queue |-> <<>>]
  /\ sigPending = [t \in Thread |-> FALSE]
  /\ waitResult = [t \in Thread |-> "none"]

OnQueue(t, q) == t \in Range(waitQueue[q])

Waiting(t) == \E q \in Queue : OnQueue(t, q)

Suspended(t) == pc[t] = "suspend" /\ state[t] = "INTR"

(* The current thread returns from ProcWaitQueueWait.                      *)
Return(interrupted) ==
  /\ waitResult' = [waitResult EXCEPT ![currThread] =
                      IF interrupted THEN "interrupted" ELSE "woken"]
  /\ pc' = [pc EXCEPT ![currThread] =
              IF currThread \in UserThread THEN "return" ELSE "run"]

-----------------------------------------------------------------------------
(* ProcWaitQueueWait up to the context switch.  With a signal pending an   *)
(* interruptable wait links the thread, does not block, and unlinks it.    *)
Wait(q, interruptable) ==
  /\ currThread \in Thread
  /\ pc[currThread] = "run"
  /\ IF interruptable /\ sigPending[currThread]
     THEN Return(TRUE) /\ UNCHANGED <<schedVars, waitQueue>>
     ELSE /\ waitQueue' = [waitQueue EXCEPT ![q] = Append(@, currThread)]
          /\ pc' = [pc EXCEPT ![currThread] = "wait"]
          /\ waitResult' = [waitResult EXCEPT ![currThread] = "none"]
          /\ YieldBlock(interruptable, UserThread)
  /\ UNCHANGED sigPending

(* Mutant: an interrupted waiter stays linked.                             *)
EndWaitStaysLinked ==
  /\ currThread \in Thread
  /\ pc[currThread] = "wait"
  /\ Return(schedInterrupted[currThread])
  /\ UNCHANGED <<schedVars, waitQueue, sigPending>>

(* ProcWaitQueueWait after ProcYieldBlock: remove from the queue if still  *)
(* on it.                                                                  *)
EndWait ==
  /\ currThread \in Thread
  /\ pc[currThread] = "wait"
  /\ IF Waiting(currThread)
     THEN \E q \in Queue : \E i \in DOMAIN waitQueue[q] :
            /\ waitQueue[q][i] = currThread
            /\ waitQueue' = [waitQueue EXCEPT ![q] = ListDelete(@, i)]
     ELSE UNCHANGED waitQueue
  /\ Return(schedInterrupted[currThread])
  /\ UNCHANGED <<schedVars, sigPending>>

(* Mutant: the youngest waiter is woken.                                   *)
WakeYoungest(q) ==
  /\ InKernelCode
  /\ waitQueue[q] # <<>>
  /\ waitQueue' = [waitQueue EXCEPT ![q] = ListDelete(@, Len(@))]
  /\ ProcWakeUp(waitQueue[q][Len(waitQueue[q])])
  /\ LeaveKernelCode(UserThread)
  /\ UNCHANGED <<TimerQuantum, sigPending, waitResult>>

(* ProcWaitQueueWakeOne                                                    *)
WakeOne(q) ==
  /\ InKernelCode
  /\ IF waitQueue[q] = <<>>
     THEN UNCHANGED <<state, schedInterrupted, threadQueue, currThread, waitQueue>>
     ELSE /\ waitQueue' = [waitQueue EXCEPT ![q] = Tail(@)]
          /\ ProcWakeUp(Head(waitQueue[q]))
  /\ LeaveKernelCode(UserThread)
  /\ UNCHANGED <<TimerQuantum, sigPending, waitResult>>

(* ProcWaitQueueWakeAll                                                    *)
WakeAll(q) ==
  /\ InKernelCode
  /\ waitQueue' = [waitQueue EXCEPT ![q] = <<>>]
  /\ WakeUpEach(waitQueue[q], Range(waitQueue[q]))
  /\ LeaveKernelCode(UserThread)
  /\ UNCHANGED <<TimerQuantum, sigPending, waitResult>>

(* ProcSignalSendThread with a signal that is neither ignored nor blocked: *)
(* it is made pending and wakes an interruptible sleeper.                  *)
SendSignal(t) ==
  /\ InKernelCode
  /\ sigPending' = [sigPending EXCEPT ![t] = TRUE]
  /\ IF state[t] = "INTR" THEN WakeUpSig(t, TRUE)
     ELSE UNCHANGED <<state, schedInterrupted, threadQueue, currThread>>
  /\ LeaveKernelCode(UserThread)
  /\ UNCHANGED <<TimerQuantum, waitQueue, waitResult>>

(* ProcWakeUp of a thread that was just created.                           *)
Start(t) ==
  /\ InKernelCode
  /\ state[t] = "STARTUP"
  /\ ProcWakeUp(t)
  /\ LeaveKernelCode(UserThread)
  /\ UNCHANGED <<TimerQuantum, waitQueue, sigPending, waitResult>>

(* TimerInterrupt with nobody asleep and no alarm set (see Timer).         *)
TimerInterrupt ==
  /\ InterruptsEnabled(UserThread)
  /\ UseQuantum
  /\ LeaveKernelCode(UserThread)
  /\ UNCHANGED <<state, schedInterrupted, threadQueue, currThread,
                 waitQueue, sigPending, waitResult>>

(* The end of an interrupt or system call from user mode, in IntrHandler.  *)
Preempt == IntrReturn(UserThread) /\ UNCHANGED <<waitQueue, sigPending, waitResult>>

(* ProcSignalHandler: a pending signal is taken; others may remain.        *)
HandleSignals ==
  /\ currThread \in UserThread
  /\ pc[currThread] = "signals"
  /\ pc' = [pc EXCEPT ![currThread] = "run"]
  /\ \E pending \in {FALSE, sigPending[currThread]} :
       sigPending' = [sigPending EXCEPT ![currThread] = pending]
  /\ UNCHANGED <<schedVars, waitQueue, waitResult>>

(* ProcSignalHandler calls SuspendSelf for a pending signal.  None is      *)
(* pending under the mask SuspendSelf sets: the thread blocks.             *)
Suspend ==
  /\ currThread \in UserThread
  /\ pc[currThread] = "signals" /\ sigPending[currThread]
  /\ pc' = [pc EXCEPT ![currThread] = "suspend"]
  /\ sigPending' = [sigPending EXCEPT ![currThread] = FALSE]
  /\ YieldBlock(TRUE, UserThread)
  /\ UNCHANGED <<waitQueue, waitResult>>

(* SuspendSelf returns because of SIGCONT or SIGKILL.  The thread has its  *)
(* mask back and looks at its signals again.                               *)
EndSuspend ==
  /\ currThread \in UserThread
  /\ pc[currThread] = "suspend"
  /\ pc' = [pc EXCEPT ![currThread] = "signals"]
  /\ \E pending \in BOOLEAN :
       sigPending' = [sigPending EXCEPT ![currThread] = pending]
  /\ UNCHANGED <<schedVars, waitQueue, waitResult>>

(* SuspendSelf goes round its loop, or ProcSignalHandler calls it again    *)
(* and again, with another signal pending: ProcYieldBlock returns at once, *)
(* and the kernel never leaves the loop.  Signal has the signals that do   *)
(* this; here every suspension may.                                        *)
Spin ==
  /\ currThread \in UserThread
  /\ \/ pc[currThread] = "signals" /\ sigPending[currThread]
     \/ pc[currThread] \in {"suspend", "spin"}
  /\ pc' = [pc EXCEPT ![currThread] = "spin"]
  /\ UNCHANGED <<schedVars, waitQueue, sigPending, waitResult>>

(* ProcYield called by a kernel thread.                                    *)
KernelYield ==
  /\ currThread \in Thread \ UserThread
  /\ pc[currThread] = "run"
  /\ Yield(UserThread)
  /\ UNCHANGED <<pc, waitQueue, sigPending, waitResult>>

(* ProcExitThread, called by the thread itself or by ProcSignalHandler for *)
(* a pending signal.                                                       *)
Exit ==
  /\ currThread \in Thread
  /\ pc[currThread] = "run" \/ (pc[currThread] = "signals" /\ sigPending[currThread])
  /\ SelfExit(UserThread)
  /\ UNCHANGED <<pc, waitQueue, sigPending, waitResult>>

IdleLoop ==
  IdleSchedule(UserThread) /\ UNCHANGED <<pc, waitQueue, sigPending, waitResult>>

Next ==
  \/ \E q \in Queue, interruptable \in BOOLEAN : Wait(q, interruptable)
  \/ EndWait
  \/ \E q \in Queue : WakeOne(q)
  \/ \E q \in Queue : WakeAll(q)
  \/ \E t \in Thread : SendSignal(t)
  \/ \E t \in Thread : Start(t)
  \/ TimerInterrupt
  \/ Preempt
  \/ HandleSignals
  \/ Suspend
  \/ EndSuspend
  \/ Spin
  \/ KernelYield
  \/ Exit
  \/ IdleLoop

Spec == Init /\ [][Next]_vars

(* A thread's kernel code always runs on, through one of the steps that    *)
(* Next has for it (HandleSignals stands for Suspend, Exit and Spin too):  *)
(* it is never interrupted.  Kernel threads are cooperative and do not run *)
(* for ever without yielding.  The timer's interrupt stays requested at    *)
(* the PIC until it is taken, however often other interrupts and system    *)
(* calls come first.                                                       *)
Fairness ==
  /\ WF_vars(EndWait) /\ WF_vars(Preempt) /\ WF_vars(HandleSignals)
  /\ WF_vars(EndSuspend)
  /\ WF_vars(KernelYield)
  /\ WF_vars(IdleLoop)
  /\ SF_vars(TimerInterrupt)

FairSpec == Spec /\ Fairness

-----------------------------------------------------------------------------
(* A thread is linked into at most one wait queue, once, and only while it *)
(* is inside ProcWaitQueueWait; a blocked thread is linked, unless it is   *)
(* suspended by a signal.  The list operations of waitqueue.c corrupt a    *)
(* queue otherwise.                                                        *)
WaitersLinkedOnce ==
  /\ \A q \in Queue : IsInjective(waitQueue[q])
  /\ \A t \in Thread : \A p, q \in Queue : OnQueue(t, p) /\ OnQueue(t, q) => p = q
  /\ \A t \in Thread : Waiting(t) => pc[t] = "wait"
  /\ \A t \in Thread : pc[t] = "wait" => state[t] \in {"RUNNING", "INTR", "UNINTR"}
  /\ \A t \in Thread : state[t] \in {"INTR", "UNINTR"} => Waiting(t) \/ Suspended(t)

(* No wake-up is lost, and none is reported that did not happen: a waiter  *)
(* that was made runnable will report "interrupted" (schedInterrupted)     *)
(* exactly if no ProcWaitQueueWakeOne or WakeAll took it off its queue,    *)
(* also when a signal and a wake-up both reach it before it runs again     *)
(* (ProcWakeUpSig, case PTS_RUNNING).                                      *)
InterruptedIffNotWoken ==
  \A t \in Thread : pc[t] = "wait" /\ state[t] = "RUNNING" =>
    (schedInterrupted[t] <=> Waiting(t))

(* The kernel goes round SuspendSelf's loop for ever.                      *)
Hung == \E t \in Thread : pc[t] = "spin"

(* Short of a hang in SuspendSelf the scheduler starves nobody: a runnable *)
(* thread gets the processor and, if it was woken in ProcWaitQueueWait,    *)
(* returns from it, or else the kernel ends in that loop.                  *)
RunnableRuns ==
  \A t \in Thread :
    Queued(t) ~> (currThread = t /\ pc[t] # "wait") \/ Hung

(* The wait queue keeps the promise of EventWait: a wait in progress is    *)
(* over ("woken") once the thread was taken off its queue, and what        *)
(* ProcWaitQueueWait returns says whether the wait was interrupted.        *)
Promise == INSTANCE EventWait WITH
  waiters <- waitQueue,
  patient <- {t \in Thread : Waiting(t) /\ state[t] = "UNINTR"},
  woken <- {t \in Thread : pc[t] = "wait" /\ ~Waiting(t)},
  result <- waitResult

KeepsPromise == Promise!Spec
=============================================================================
