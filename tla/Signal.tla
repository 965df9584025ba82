-------------------------------- MODULE Signal --------------------------------
(***************************************************************************)
(* Signals (process/signal.c) between the threads of one process, on top   *)
(* of the scheduler: sending to a thread and to the process, masks and     *)
(* actions, waiting, suspending, and delivery when a thread goes back to   *)
(* user mode.                                                              *)
(*                                                                         *)
(* A ProcSigSet is a set of signal numbers.  The process has no child      *)
(* processes, so the loops of signal.c that run over process->children run *)
(* over nothing.  sa_mask and sa_flags are stored and never read, and are  *)
(* left out.  pc[t] is "wait" for a thread in ProcSignalWait and "suspend" *)
(* for one in SuspendSelf, at their calls of ProcYieldBlock.               *)
(***************************************************************************)
EXTENDS Scheduler

SIGINT == 2
SIGILL == 4
SIGTRAP == 5
SIGKILL == 9
SIGCLD == 17
SIGCONT == 18
SIGSTOP == 19
SIGTSTP == 20
SIGTTIN == 21
SIGTTOU == 22

CONSTANTS Sig,          \* the signals that are sent to threads
          ProcessSig,   \* and to the process
          Masks,        \* the sets given to ProcSignalSetMask
          Actions,      \* the pairs <<sigNum, handler>> given to ProcSignalSetAction
          Exceptions    \* the signals of the processor exceptions of user mode

SigNum == 1 .. 32

Handler == {"DFL", "IGN", "user"}

ASSUME SignalAssumption ==
  /\ Sig \subseteq SigNum /\ ProcessSig \subseteq SigNum
  /\ Masks \subseteq SUBSET SigNum
  /\ Actions \subseteq SigNum \X Handler
  /\ Exceptions \subseteq SigNum

VARIABLES
  sigPending,     \* ProcThread.sigPending
  procPending,    \* ProcProcess.sigPending
  sigBlocked,     \* ProcThread.sigBlocked
  sigHandlers,    \* ProcProcess.sigHandlers[].sa_handler
  maskBefore,     \* the local variable of a suspended thread
  spinning        \* the kernel is in SuspendSelf's loop and does not leave it

sigVars == <<sigPending, procPending, sigBlocked, sigHandlers, maskBefore>>
vars == <<schedVars, pc, sigVars, spinning>>

TypeOK ==
  /\ SchedTypeOK
  /\ pc \in [Thread -> {"run", "wait", "suspend", "return", "signals"}]
  /\ sigPending \in [Thread -> SUBSET SigNum]
  /\ procPending \subseteq SigNum
  /\ sigBlocked \in [Thread -> SUBSET SigNum]
  /\ sigHandlers \in [SigNum -> Handler]
  /\ maskBefore \in [Thread -> SUBSET SigNum]
  /\ spinning \in BOOLEAN

Init ==
  /\ SchedInit
  /\ sigPending = [t \in Thread |-> {}]
  /\ procPending = {}
  /\ sigBlocked = [t \in Thread |-> {}]
  /\ sigHandlers = [s \in SigNum |-> "DFL"]
  /\ maskBefore = [t \in Thread |-> {}]
  /\ spinning = FALSE

(* The signals of the mask that is the number n: signal s has bit s - 1.   *)
BitsOf(n) == {s \in 1 .. n : (n \div 2 ^ (s - 1)) % 2 = 1}

(* ProcSignalIsPending                                                     *)
SignalIsPending(t) == (sigPending[t] \cup procPending) \ sigBlocked[t] # {}

(* SignalIsIgnored                                                         *)
SignalIsIgnored(s) ==
  \/ sigHandlers[s] = "IGN"
  \/ sigHandlers[s] = "DFL" /\ s \in {SIGCONT, SIGCLD}

(* Thread t, if it is in an interruptable wait and now has set unblocked,  *)
(* is woken up by a signal.                                                *)
Interrupt(t, set) ==
  IF state[t] = "INTR" /\ set # {}
  THEN WakeUpSig(t, TRUE)
  ELSE UNCHANGED <<state, schedInterrupted, threadQueue, currThread>>

-----------------------------------------------------------------------------
(* Sending                                                                 *)

(* Mutant: the thread is woken without a signal to show for it.            *)
WakeWithoutContinue(t) ==
  IF state[t] = "INTR"
  THEN /\ sigPending' = [sigPending EXCEPT ![t] = @ \ {SIGSTOP, SIGTSTP, SIGTTIN, SIGTTOU}]
       /\ WakeUpSig(t, TRUE)
  ELSE UNCHANGED <<sigPending, state, schedInterrupted, threadQueue, currThread>>

(* RemoteContinueThread                                                    *)
RemoteContinueThread(t) ==
  IF state[t] = "INTR"
  THEN /\ sigPending' = [sigPending EXCEPT ![t] =
                           (@ \cup {SIGCONT}) \ {SIGSTOP, SIGTSTP, SIGTTIN, SIGTTOU}]
       /\ WakeUpSig(t, TRUE)
  ELSE UNCHANGED <<sigPending, state, schedInterrupted, threadQueue, currThread>>

(* Mutant: SIGSTOP does not cancel SIGCONT.                                *)
AddPendingOnly(set, s) == set \cup {s}

(* The pending signals once s is added: SIGSTOP removes SIGCONT.           *)
AddPending(set, s) == (set \cup {s}) \ (IF s = SIGSTOP THEN {SIGCONT} ELSE {})

(* ProcSignalSendThread                                                    *)
Send(t, s) ==
  /\ CASE s = SIGCONT -> RemoteContinueThread(t)
       [] s # SIGCONT /\ SignalIsIgnored(s) /\ s \notin {SIGKILL, SIGSTOP} ->
            UNCHANGED <<sigPending, state, schedInterrupted, threadQueue, currThread>>
       [] OTHER ->
            LET pending == AddPending(sigPending[t], s)
            IN  /\ sigPending' = [sigPending EXCEPT ![t] = pending]
                /\ Interrupt(t, (pending \cup procPending) \ sigBlocked[t])
  /\ LeaveKernelCode(Thread)
  /\ UNCHANGED <<TimerQuantum, procPending, sigBlocked, sigHandlers, maskBefore, spinning>>

SendThread(t, s) == InKernelCode /\ ~spinning /\ Send(t, s)

(* ProcSignalSendProcess: SIGKILL and SIGSTOP go to the threads that the   *)
(* loop visits, the others are made pending for the process.  The thread   *)
(* to wake is looked for by the same loop.                                 *)
SendProcess(s) ==
  /\ InKernelCode /\ ~spinning
  /\ procPending' = IF s \in {SIGKILL, SIGSTOP} \/ SignalIsIgnored(s)
                    THEN procPending ELSE procPending \cup {s}
  /\ LeaveKernelCode(Thread)
  /\ UNCHANGED <<state, schedInterrupted, threadQueue, currThread, TimerQuantum,
                 sigPending, sigBlocked, sigHandlers, maskBefore, spinning>>

-----------------------------------------------------------------------------
(* Masks, actions and waiting                                              *)

(* The sigBlocked that ProcSignalSetMask leaves, given the set it is asked *)
(* for.                                                                    *)
ForcedMask(set) == set \cap {SIGKILL, SIGSTOP}

(* ProcSignalSetMask, of the current thread: it takes any thread, but      *)
(* signal.c gives it ProcCurrThread wherever it calls it.                  *)
SetMask(how, set) ==
  /\ currThread \in Thread /\ pc[currThread] = "run" /\ ~spinning
  /\ sigBlocked' = [sigBlocked EXCEPT ![currThread] =
                      ForcedMask(CASE how = "BLOCK"   -> @ \cup set
                                   [] how = "UNBLOCK" -> @ \ set
                                   [] how = "SETMASK" -> set)]
  /\ LeaveKernelCode(Thread)
  /\ UNCHANGED <<state, schedInterrupted, threadQueue, currThread, TimerQuantum,
                 sigPending, procPending, sigHandlers, maskBefore, spinning>>

(* ProcSignalSetAction of the process                                      *)
SetAction(s, handler) ==
  /\ currThread \in Thread /\ pc[currThread] = "run" /\ ~spinning
  /\ sigHandlers' = [sigHandlers EXCEPT ![s] = handler]
  /\ procPending' = IF SignalIsIgnored(s)' THEN procPending \ {s} ELSE procPending
  /\ LeaveKernelCode(Thread)
  /\ UNCHANGED <<state, schedInterrupted, threadQueue, currThread, TimerQuantum,
                 sigPending, sigBlocked, maskBefore, spinning>>

(* Mutant: ProcYieldBlock does not look for pending signals.               *)
WaitRegardless ==
  /\ currThread \in Thread /\ pc[currThread] = "run" /\ ~spinning
  /\ pc' = [pc EXCEPT ![currThread] = "wait"]
  /\ YieldBlock(TRUE, Thread)
  /\ UNCHANGED <<sigVars, spinning>>

(* ProcSignalWait: ProcYieldBlock(true)                                    *)
SignalWait ==
  /\ currThread \in Thread /\ pc[currThread] = "run" /\ ~spinning
  /\ IF SignalIsPending(currThread)
     THEN LeaveKernelCode(Thread)
          /\ UNCHANGED <<state, schedInterrupted, threadQueue, currThread, TimerQuantum>>
     ELSE /\ pc' = [pc EXCEPT ![currThread] = "wait"]
          /\ YieldBlock(TRUE, Thread)
  /\ UNCHANGED <<sigVars, spinning>>

EndWait ==
  /\ currThread \in Thread /\ pc[currThread] = "wait" /\ ~spinning
  /\ pc' = [pc EXCEPT ![currThread] = "return"]
  /\ UNCHANGED <<schedVars, sigVars, spinning>>

-----------------------------------------------------------------------------
(* Delivery: ProcSignalHandler                                             *)

Deliverable(t) == (sigPending[t] \cup procPending) \ sigBlocked[t]

(* The loop of SuspendSelf, from its ProcYieldBlock on, the current thread *)
(* having pending and blocked as its masks: it blocks, or leaves the loop  *)
(* and the signals are looked at again, or goes round for ever because     *)
(* ProcYieldBlock returns at once.                                         *)
SuspendLoop(pending, process, blocked) ==
  IF (pending \cup process) \ blocked = {}
  THEN /\ pc' = [pc EXCEPT ![currThread] = "suspend"]
       /\ sigPending' = [sigPending EXCEPT ![currThread] = pending]
       /\ sigBlocked' = [sigBlocked EXCEPT ![currThread] = blocked]
       /\ YieldBlock(TRUE, Thread)
       /\ UNCHANGED spinning
  ELSE LET leaves == pending \cap {SIGKILL, SIGCONT} # {}
       IN  /\ pc' = [pc EXCEPT ![currThread] = IF leaves THEN "signals" ELSE "suspend"]
           /\ sigPending' = [sigPending EXCEPT ![currThread] = pending \ {SIGSTOP}]
           /\ sigBlocked' = [sigBlocked EXCEPT ![currThread] =
                               IF leaves THEN ForcedMask(maskBefore'[currThread]) ELSE blocked]
           /\ spinning' = ~leaves
           /\ UNCHANGED schedVars

(* SuspendSelf, process being the process's pending signals.               *)
SuspendSelf(pending, process) ==
  /\ maskBefore' = [maskBefore EXCEPT ![currThread] = sigBlocked[currThread]]
  /\ procPending' = process
  /\ SuspendLoop(pending, process, ForcedMask(SigNum \ {SIGCONT}))
  /\ UNCHANGED sigHandlers

(* SuspendSelf after ProcYieldBlock.                                       *)
EndSuspend ==
  /\ currThread \in Thread /\ pc[currThread] = "suspend" /\ ~spinning
  /\ UNCHANGED <<procPending, maskBefore, sigHandlers>>
  /\ LET pending == sigPending[currThread] \ {SIGSTOP}
     IN  IF pending \cap {SIGKILL, SIGCONT} # {}
         THEN /\ pc' = [pc EXCEPT ![currThread] = "signals"]
              /\ sigPending' = [sigPending EXCEPT ![currThread] = pending]
              /\ sigBlocked' = [sigBlocked EXCEPT ![currThread] =
                                  ForcedMask(maskBefore[currThread])]
              /\ UNCHANGED <<schedVars, spinning>>
         ELSE SuspendLoop(pending, procPending, sigBlocked[currThread])

(* ProcExitThread by the current thread (see Process).                     *)
ExitThread ==
  /\ SelfExit(Thread)
  /\ UNCHANGED <<pc, sigVars, spinning>>

(* ProcExitProcess by the current thread, with its pending signals and     *)
(* those of the process as given: SIGKILL for the others, in the order in  *)
(* which they were created, then ProcExitThread.                           *)
ExitProcess(pending, process) ==
  LET killed(t) == sigPending[t] \cup {SIGKILL}
      woken == {t \in Thread \ {currThread} :
                  state[t] = "INTR" /\ (killed(t) \cup process) \ sigBlocked[t] # {}}
  IN  /\ sigPending' = [t \in Thread |-> IF t = currThread THEN pending ELSE killed(t)]
      /\ procPending' = process
      /\ state' = [t \in Thread |-> CASE t = currThread -> "ZOMBIE"
                                      [] t \in woken    -> "RUNNING"
                                      [] OTHER          -> state[t]]
      /\ schedInterrupted' = [t \in Thread |-> t \in woken \/ schedInterrupted[t]]
      /\ \E order \in {s \in [1 .. Cardinality(woken) -> woken] : IsInjective(s)} :
           DoSchedule(threadQueue \o order, Thread)
      /\ UNCHANGED <<pc, sigBlocked, sigHandlers, maskBefore, spinning>>

(* ProcSignalSendOrCrash, for an exception in user mode.                   *)
SendOrCrash(s) ==
  /\ currThread \in Thread /\ pc[currThread] = "run" /\ ~spinning
  /\ IF SignalIsIgnored(s) \/ s \in sigBlocked[currThread]
     THEN ExitProcess(sigPending[currThread], procPending)
     ELSE Send(currThread, s)

(* Signals up to s have been taken from set, and s is acted upon.  The     *)
(* test of SIGTSTP and its like for a pending signal of the process comes  *)
(* after the signal was taken, and fails.  With no room for the frame on   *)
(* the user's stack HandleCustomSignal ends the process.                   *)
Act(set, s) ==
  LET taken == {x \in set : x <= s}
      pending == sigPending[currThread] \ taken
      process == procPending \ taken
  IN  CASE sigHandlers[s] = "user" ->
             \/ /\ pc' = [pc EXCEPT ![currThread] = "run"]
                /\ sigPending' = [sigPending EXCEPT ![currThread] = pending]
                /\ procPending' = process
                /\ UNCHANGED <<schedVars, sigBlocked, sigHandlers, maskBefore, spinning>>
             \/ ExitProcess(pending, process)
        [] sigHandlers[s] # "user" /\ s \in {SIGTSTP, SIGTTIN, SIGTTOU} ->
             SuspendSelf(pending, process)
        [] OTHER -> ExitProcess(pending, process)

(* ProcSignalHandler.  The tests for SIGKILL and SIGSTOP take the index of *)
(* the bit for the bit: they look for the signals of the masks 8 and 18.   *)
HandleSignals ==
  /\ currThread \in Thread /\ pc[currThread] = "signals" /\ ~spinning
  /\ LET set == Deliverable(currThread)
         acted == {s \in set : ~SignalIsIgnored(s)}
     IN  CASE set \cap BitsOf(SIGKILL - 1) # {} -> ExitThread
           [] set \cap BitsOf(SIGKILL - 1) = {} /\ set \cap BitsOf(SIGSTOP - 1) # {} ->
                SuspendSelf(sigPending[currThread], procPending)
           [] set \cap (BitsOf(SIGKILL - 1) \cup BitsOf(SIGSTOP - 1)) = {} /\ acted # {} ->
                Act(set, CHOOSE s \in acted : \A x \in acted : s <= x)
           [] OTHER ->
                /\ pc' = [pc EXCEPT ![currThread] = "run"]
                /\ sigPending' = [sigPending EXCEPT ![currThread] = @ \ set]
                /\ procPending' = procPending \ set
                /\ UNCHANGED <<schedVars, sigBlocked, sigHandlers, maskBefore, spinning>>

Spin == spinning /\ UNCHANGED vars

-----------------------------------------------------------------------------
(* The rest of the kernel                                                  *)

Start(t) ==
  /\ InKernelCode /\ ~spinning
  /\ state[t] = "STARTUP"
  /\ ProcWakeUp(t)
  /\ LeaveKernelCode(Thread)
  /\ UNCHANGED <<TimerQuantum, sigVars, spinning>>

TimerInterrupt ==
  /\ InterruptsEnabled(Thread) /\ ~spinning
  /\ UseQuantum
  /\ LeaveKernelCode(Thread)
  /\ UNCHANGED <<state, schedInterrupted, threadQueue, currThread, sigVars, spinning>>

Preempt == IntrReturn(Thread) /\ ~spinning /\ UNCHANGED <<sigVars, spinning>>

IdleLoop == IdleSchedule(Thread) /\ UNCHANGED <<pc, sigVars, spinning>>

Next ==
  \/ \E t \in Thread, s \in Sig : SendThread(t, s)
  \/ \E s \in ProcessSig : SendProcess(s)
  \/ \E how \in {"BLOCK", "UNBLOCK", "SETMASK"}, set \in Masks : SetMask(how, set)
  \/ \E action \in Actions : SetAction(action[1], action[2])
  \/ \E s \in Exceptions : SendOrCrash(s)
  \/ SignalWait
  \/ EndWait
  \/ EndSuspend
  \/ HandleSignals
  \/ Spin
  \/ \E t \in Thread : Start(t)
  \/ TimerInterrupt
  \/ Preempt
  \/ IdleLoop

Spec == Init /\ [][Next]_vars

-----------------------------------------------------------------------------
(* A signal sent to a thread is never slept on: a thread in an             *)
(* interruptable wait, in ProcSignalWait or suspended, has no unblocked    *)
(* signal of its own pending, in whatever order signals, masks and waits   *)
(* came.                                                                   *)
NoThreadSignalSleptOn ==
  /\ TypeOK
  /\ \A t \in Thread : state[t] = "INTR" => sigPending[t] \subseteq sigBlocked[t]

(* A stop and a continue are never both pending for a thread, in whatever  *)
(* order they are sent to it, taken and slept on: a stop removes a         *)
(* continue (ProcSignalSendThread), a continue that reaches a sleeping     *)
(* thread removes a stop (RemoteContinueThread).  It is not always the     *)
(* later one that counts: a continue sent to a running thread is dropped,  *)
(* and a stop that was pending stays.                                      *)
StopOrContinue ==
  \A t \in Thread : ~({SIGSTOP, SIGCONT} \subseteq sigPending[t])

(* ProcSignalWait ends because of a signal to the thread that is still     *)
(* there when the thread runs again, although others may send, take and    *)
(* ignore signals in between.                                              *)
WaitEndsForASignal ==
  \A t \in Thread : pc[t] = "wait" /\ state[t] = "RUNNING" =>
    schedInterrupted[t] /\ sigPending[t] # {}
=============================================================================
