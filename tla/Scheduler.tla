------------------------------ MODULE Scheduler ------------------------------
(***************************************************************************)
(* The thread scheduler (process/scheduler.c): one processor, a FIFO queue *)
(* of runnable threads, a current thread and an idle thread that is never  *)
(* queued.                                                                 *)
(*                                                                         *)
(* The kernel runs with interrupts masked (every IDT entry is an interrupt *)
(* gate), so kernel code is atomic from one call of ProcDoSchedule to the  *)
(* next.  The operators below are the scheduler's entry points as pieces   *)
(* of such an atomic step; the modules that extend this one (WaitQueue,    *)
(* Timer, Process, Signal) put them together into actions.                 *)
(***************************************************************************)
EXTENDS Naturals, Sequences, FiniteSets, Functions

CONSTANTS Thread,           \* the thread objects other than the idle thread
          Idle,             \* ProcIdleThread
          InitialQuantum    \* TIMER_INITIAL_QUANTUM

ASSUME ThreadAssumption == IsFiniteSet(Thread) /\ Idle \notin Thread

ASSUME QuantumAssumption == InitialQuantum \in Nat \ {0}

VARIABLES
  state,              \* ProcThread.state
  schedInterrupted,   \* ProcThread.schedInterrupted
  threadQueue,        \* threadQueue, oldest first
  currThread,         \* ProcCurrThread
  TimerQuantum,       \* ticks left for the current thread
  idleAwake,          \* the idle thread's hlt has returned
  pc                  \* where each thread is (see the extending module)

schedVars == <<state, schedInterrupted, threadQueue, currThread,
               TimerQuantum, idleAwake>>

ThreadState == {"STARTUP", "RUNNING", "INTR", "UNINTR", "ZOMBIE"}

SchedTypeOK ==
  /\ state \in [Thread -> ThreadState]
  /\ schedInterrupted \in [Thread -> BOOLEAN]
  /\ threadQueue \in Seq(Thread)
  /\ currThread \in Thread \cup {Idle}
  /\ TimerQuantum \in 0 .. InitialQuantum
  /\ idleAwake \in BOOLEAN

(* kMain has finished: the boot thread left through ProcIntSelfExit, no    *)
(* thread was runnable, and the idle thread has executed sti; hlt.         *)
SchedInit ==
  /\ state = [t \in Thread |-> "STARTUP"]
  /\ schedInterrupted = [t \in Thread |-> FALSE]
  /\ threadQueue = <<>>
  /\ currThread = Idle
  /\ TimerQuantum = InitialQuantum
  /\ idleAwake = FALSE
  /\ pc = [t \in Thread |-> "run"]

Queued(t) == t \in Range(threadQueue)

(* ListDelete (list.h): the list without its i-th entry.                   *)
ListDelete(list, i) == SubSeq(list, 1, i - 1) \o SubSeq(list, i + 1, Len(list))

-----------------------------------------------------------------------------
(* ProcDoSchedule, run when the queue of runnable threads is queue.  User  *)
(* is the set of threads of user processes: only those get a new quantum.  *)
(* The idle thread resumes at the jump back to its sti; hlt.               *)
DoSchedule(queue, User) ==
  /\ IF queue = <<>>
     THEN currThread' = Idle /\ threadQueue' = <<>>
     ELSE currThread' = Head(queue) /\ threadQueue' = Tail(queue)
  /\ TimerQuantum' = IF currThread' # currThread /\ currThread' \in User
                     THEN InitialQuantum ELSE TimerQuantum
  /\ idleAwake' = FALSE

(* ProcYield by the current thread.                                        *)
Yield(User) ==
  /\ schedInterrupted' = [schedInterrupted EXCEPT ![currThread] = FALSE]
  /\ IF threadQueue = <<>>
     THEN /\ TimerQuantum' = InitialQuantum
          /\ UNCHANGED <<threadQueue, currThread, idleAwake>>
     ELSE DoSchedule(Append(threadQueue, currThread), User)
  /\ UNCHANGED state

(* ProcYieldBlock by the current thread, past its test for a pending       *)
(* signal; the result is schedInterrupted when the thread runs again.      *)
YieldBlock(interruptable, User) ==
  /\ schedInterrupted' = [schedInterrupted EXCEPT ![currThread] = FALSE]
  /\ state' = [state EXCEPT ![currThread] =
                 IF interruptable THEN "INTR" ELSE "UNINTR"]
  /\ DoSchedule(threadQueue, User)

(* Mutant: a thread that is already runnable is queued again.              *)
WakesRunning(t, isSignal) ==
  \/ state[t] \in {"STARTUP", "INTR", "RUNNING"}
  \/ state[t] = "UNINTR" /\ ~isSignal

(* The states in which ProcWakeUpSig makes a thread runnable.              *)
Wakes(t, isSignal) ==
  \/ state[t] \in {"STARTUP", "INTR"}
  \/ state[t] = "UNINTR" /\ ~isSignal

(* Mutant: case PTS_RUNNING leaves schedInterrupted alone.                 *)
WakeUpSigKeepsInterrupted(t, isSignal) ==
  /\ state' = IF Wakes(t, isSignal)
              THEN [state EXCEPT ![t] = "RUNNING"] ELSE state
  /\ schedInterrupted' = IF state[t] = "INTR"
                         THEN [schedInterrupted EXCEPT ![t] = isSignal] ELSE schedInterrupted
  /\ threadQueue' = IF Wakes(t, isSignal)
                    THEN Append(threadQueue, t) ELSE threadQueue
  /\ UNCHANGED currThread

(* ProcWakeUpSig                                                           *)
WakeUpSig(t, isSignal) ==
  /\ state' = IF Wakes(t, isSignal)
              THEN [state EXCEPT ![t] = "RUNNING"] ELSE state
  /\ schedInterrupted' =
       CASE state[t] = "INTR"                  -> [schedInterrupted EXCEPT ![t] = isSignal]
         [] state[t] = "STARTUP"               -> [schedInterrupted EXCEPT ![t] = FALSE]
         [] state[t] \in {"RUNNING", "UNINTR"} -> [schedInterrupted EXCEPT ![t] = @ /\ isSignal]
         [] OTHER                              -> schedInterrupted
  /\ threadQueue' = IF Wakes(t, isSignal)
                    THEN Append(threadQueue, t) ELSE threadQueue
  /\ UNCHANGED currThread

ProcWakeUp(t) == WakeUpSig(t, FALSE)

(* The sequences that list each element of S once, in the order of queue.  *)
InOrderOf(queue, S) ==
  {s \in [1 .. Cardinality(S) -> S] :
     /\ IsInjective(s)
     /\ \A i, j \in DOMAIN s : i < j =>
          \E k, l \in DOMAIN queue : k < l /\ queue[k] = s[i] /\ queue[l] = s[j]}

(* ProcWakeUp of every thread of the set S, a loop that visits them in the *)
(* order of the list queue.                                                *)
WakeUpEach(queue, S) ==
  /\ state' = [t \in Thread |->
                 IF t \in S /\ Wakes(t, FALSE) THEN "RUNNING" ELSE state[t]]
  /\ schedInterrupted' = [t \in Thread |->
                 IF t \in S /\ state[t] # "ZOMBIE" THEN FALSE ELSE schedInterrupted[t]]
  /\ \E woken \in InOrderOf(queue, {t \in S : Wakes(t, FALSE)}) :
       threadQueue' = threadQueue \o woken
  /\ UNCHANGED currThread

(* The end of ProcExitThread: ProcIntSelfExit.                             *)
SelfExit(User) ==
  /\ state' = [state EXCEPT ![currThread] = "ZOMBIE"]
  /\ DoSchedule(threadQueue, User)
  /\ UNCHANGED schedInterrupted

(* The idle thread's loop: cli; call ProcDoSchedule, once hlt returned.    *)
IdleSchedule(User) ==
  /\ currThread = Idle
  /\ idleAwake
  /\ DoSchedule(threadQueue, User)
  /\ UNCHANGED <<state, schedInterrupted>>

-----------------------------------------------------------------------------
(* Interrupts.  pc[t] = "run" is a user thread in user mode, or a kernel   *)
(* thread between two calls of the modelled interface; "return" and        *)
(* "signals" are the end of IntrHandler for an interrupt or a system call  *)
(* from user mode.  Kernel code that does not switch threads runs in an    *)
(* interrupt, in a system call or in a kernel thread.                      *)
InKernelCode == currThread # Idle => pc[currThread] = "run"

(* Interrupts are enabled in user mode and in the idle thread's hlt only.  *)
InterruptsEnabled(User) ==
  currThread \in User \cup {Idle} /\ InKernelCode

(* Mutant: the idle thread sleeps on after an interrupt.                   *)
LeaveIdleAsleep(User) ==
  /\ pc' = IF currThread \in User
           THEN [pc EXCEPT ![currThread] = "return"] ELSE pc
  /\ UNCHANGED idleAwake

(* Kernel code is finished: a user thread goes to the end of IntrHandler,  *)
(* the idle thread's hlt has returned.                                     *)
LeaveKernelCode(User) ==
  /\ pc' = IF currThread \in User
           THEN [pc EXCEPT ![currThread] = "return"] ELSE pc
  /\ idleAwake' = (idleAwake \/ currThread = Idle)

(* Mutant: nobody looks at the quantum.                                    *)
IntrReturnNoPreempt(User) ==
  /\ currThread \in User
  /\ pc[currThread] = "return"
  /\ pc' = [pc EXCEPT ![currThread] = "signals"]
  /\ UNCHANGED schedVars

(* The post-interrupt user mode handlers of IntrHandler, up to the call of *)
(* ProcSignalHandler: a thread whose quantum ran out yields.               *)
IntrReturn(User) ==
  /\ currThread \in User
  /\ pc[currThread] = "return"
  /\ pc' = [pc EXCEPT ![currThread] = "signals"]
  /\ IF TimerQuantum = 0 THEN Yield(User) ELSE UNCHANGED schedVars

(* Mutant: the quantum is decremented below zero.                          *)
UseQuantumUnguarded == TimerQuantum' = TimerQuantum - 1

(* TimerInterrupt's part in scheduling: one tick of the quantum is used.   *)
UseQuantum ==
  TimerQuantum' = IF TimerQuantum > 0 THEN TimerQuantum - 1 ELSE TimerQuantum

-----------------------------------------------------------------------------
(* The run queue and the thread states agree: the queue holds every        *)
(* runnable thread except the current one, each once, and no other; the    *)
(* current thread is runnable (or is the idle thread).  ProcWakeUpSig      *)
(* ("Already on queue") and ProcDoSchedule rely on it: a thread queued     *)
(* twice or a blocked thread on the queue would corrupt the list.          *)
RunQueueMatchesStates ==
  /\ IsInjective(threadQueue)
  /\ \A t \in Thread : Queued(t) <=> (state[t] = "RUNNING" /\ t # currThread)
  /\ currThread \in Thread => state[currThread] = "RUNNING"

(* No wake-up is lost to the idle thread: it is inside hlt only while      *)
(* nothing is runnable (schedulerAsm.s, "sti; hlt; cli").                  *)
IdleOnlyWhenNothingRunnable ==
  currThread = Idle /\ ~idleAwake => threadQueue = <<>>
=============================================================================
