------------------------------- MODULE Process -------------------------------
(***************************************************************************)
(* Processes and threads (process/process.c) and the reaper                *)
(* (process/reaper.c) on top of the scheduler: fork, thread creation,      *)
(* waiting for children and siblings, exit, and the freeing of what has    *)
(* exited.                                                                 *)
(*                                                                         *)
(* Process and thread objects are slots of the two slab caches: a freed    *)
(* slot keeps what it last held until it is allocated again, and pointers  *)
(* to it (ProcProcess.parent, the chosenOne of a waiter) may outlive it.   *)
(* A pid or tid names the allocated object that has it, so ids are not     *)
(* kept apart from slots.                                                  *)
(*                                                                         *)
(* pc[t] is "waitP" or "waitT" for a thread that is at the ProcYieldBlock  *)
(* of ProcWaitProcess or ProcWaitThread (its waitMode is then PWM_PROCESS  *)
(* or PWM_THREAD), "close" for one whose ProcExitProcess blocks while it   *)
(* closes the files of the process, and always "reap" for the reaper.      *)
(* SIGCHLD has its default action, so sending it to a parent has no        *)
(* effect.                                                                 *)
(***************************************************************************)
EXTENDS Scheduler

CONSTANTS Proc,              \* the slots for user processes
          Kernel,            \* ProcKernelProcess
          Reaper,            \* reaperThread
          NULL,
          AnyId,             \* the id -1
          MaxThreads,        \* bound: threads of a process, zombies included
          MaxKernelThreads,  \* bound: kernel threads other than idle and reaper
          Ids,               \* the ids given to ProcWaitProcess and ProcWaitThread
          CloseBlocks        \* how the files' close operations may block: interruptably or not

ASSUME ProcessAssumption ==
  /\ IsFiniteSet(Proc)
  /\ Kernel \notin Proc /\ NULL \notin Proc \cup {Kernel}
  /\ Reaper \in Thread
  /\ AnyId \notin Proc \cup Thread
  /\ MaxThreads \in Nat \ {0} /\ MaxKernelThreads \in Nat
  /\ Ids \subseteq Proc \cup Thread \cup {AnyId}
  /\ CloseBlocks \subseteq BOOLEAN

VARIABLES
  procs,        \* the process slots in use (hTableProcess)
  parent,       \* ProcProcess.parent
  children,     \* ProcProcess.children, oldest first
  threads,      \* ProcProcess.threads, oldest first
  zombie,       \* ProcProcess.zombie
  threadObjs,   \* the thread slots in use (hTableThread)
  owner,        \* ProcThread.parent
  chosenOne,    \* the local variable of a waiting thread; AnyId if it waits for any
  pending,      \* ProcThread.sigPending: SIGKILL and a signal with a handler
  reaperHead,   \* the list of threads to reap
  pageDir,      \* the memory context in use, named by its process (see MemContext)
  panic         \* the kernel called Panic, or freed an object twice

procVars == <<procs, parent, children, threads, zombie>>
threadVars == <<threadObjs, owner, chosenOne, pending>>
vars == <<schedVars, pc, procVars, threadVars, reaperHead, pageDir, panic>>

TypeOK ==
  /\ SchedTypeOK
  /\ pc \in [Thread -> {"run", "waitP", "waitT", "close", "reap", "return", "signals"}]
  /\ procs \subseteq Proc
  /\ parent \in [Proc -> Proc \cup {Kernel, NULL}]
  /\ children \in [Proc \cup {Kernel} -> Seq(Proc)]
  /\ threads \in [Proc -> Seq(Thread)]
  /\ zombie \in [Proc -> BOOLEAN]
  /\ threadObjs \subseteq Thread
  /\ owner \in [Thread -> Proc \cup {Kernel, NULL}]
  /\ chosenOne \in [Thread -> Proc \cup Thread \cup {AnyId}]
  /\ pending \in [Thread -> SUBSET {"KILL", "HANDLED"}]
  /\ reaperHead \in Seq(Thread)
  /\ pageDir \in Proc \cup {Kernel, NULL}
  /\ panic \in BOOLEAN

(* ProcInit has created the reaper, and a driver has started a first user  *)
(* process from an interrupt in the idle thread.                           *)
Init ==
  \E p \in Proc, t \in Thread \ {Reaper} :
    /\ state = [x \in Thread |-> IF x = t THEN "RUNNING" ELSE "STARTUP"]
    /\ schedInterrupted = [x \in Thread |-> FALSE]
    /\ threadQueue = <<t>>
    /\ currThread = Idle
    /\ TimerQuantum = InitialQuantum
    /\ idleAwake = TRUE
    /\ pc = [x \in Thread |-> IF x = Reaper THEN "reap" ELSE "run"]
    /\ procs = {p}
    /\ parent = [x \in Proc |-> IF x = p THEN Kernel ELSE NULL]
    /\ children = [x \in Proc \cup {Kernel} |-> IF x = Kernel THEN <<p>> ELSE <<>>]
    /\ threads = [x \in Proc |-> IF x = p THEN <<t>> ELSE <<>>]
    /\ zombie = [x \in Proc |-> FALSE]
    /\ threadObjs = {t, Reaper}
    /\ owner = [x \in Thread |-> CASE x = t -> p [] x = Reaper -> Kernel [] OTHER -> NULL]
    /\ chosenOne = [x \in Thread |-> AnyId]
    /\ pending = [x \in Thread |-> {}]
    /\ reaperHead = <<>>
    /\ pageDir = Kernel
    /\ panic = FALSE

UserThread == {t \in Thread : owner[t] \in Proc}

CurrProcess == IF currThread = Idle THEN Kernel ELSE owner[currThread]

(* A user thread makes a system call.                                      *)
InSystemCall == currThread \in UserThread /\ pc[currThread] = "run" /\ ~panic

(* The system call returns.                                                *)
Return == pc' = [pc EXCEPT ![currThread] = "return"]

Without(list, S) == SelectSeq(list, LAMBDA x : x \notin S)

(* ProcProcess.memContext of the process of thread t: ProcExitProcess has  *)
(* set it to NULL before it closes files.                                  *)
MemContext(t) == IF pc[t] = "close" THEN NULL ELSE owner[t]

(* Mutant: after a kernel thread the page directory is left as it is.      *)
SwitchContextFromUserOnly(dir) ==
  pageDir' = IF /\ currThread' \in UserThread /\ CurrProcess # Kernel
                /\ owner[currThread'] # CurrProcess
             THEN MemContext(currThread') ELSE dir

(* ProcDoSchedule's switch of page directories, dir being in use before.   *)
(* MemContextSwitchTo(NULL) is undefined: pageDir = NULL, and the model    *)
(* stops.                                                                  *)
SwitchContext(dir) ==
  pageDir' = IF currThread' \in UserThread /\ owner[currThread'] # CurrProcess
             THEN MemContext(currThread') ELSE dir

-----------------------------------------------------------------------------
(* Creation                                                                *)

(* ProcCreateRawThread for process p and ProcWakeUp: slot t is allocated,  *)
(* zeroed and made runnable.                                               *)
CreateThread(t, p) ==
  /\ t \notin threadObjs
  /\ threadObjs' = threadObjs \cup {t}
  /\ owner' = [owner EXCEPT ![t] = p]
  /\ state' = [state EXCEPT ![t] = "RUNNING"]
  /\ schedInterrupted' = [schedInterrupted EXCEPT ![t] = FALSE]
  /\ threadQueue' = Append(threadQueue, t)
  /\ UNCHANGED <<currThread, TimerQuantum, chosenOne, pending, reaperHead, pageDir, panic>>

(* ProcFork: ProcCreateProcess, the contexts and the first thread.         *)
Fork ==
  /\ InSystemCall
  /\ \E p \in Proc \ procs, t \in Thread :
       /\ procs' = procs \cup {p}
       /\ parent' = [parent EXCEPT ![p] = CurrProcess]
       /\ children' = [children EXCEPT ![CurrProcess] = Append(@, p), ![p] = <<>>]
       /\ threads' = [threads EXCEPT ![p] = <<t>>]
       /\ zombie' = [zombie EXCEPT ![p] = FALSE]
       /\ CreateThread(t, p)
  /\ LeaveKernelCode(UserThread)

(* ProcCreateUserThread in the current process, and ProcWakeUp.            *)
CreateUserThread ==
  /\ InSystemCall
  /\ Len(threads[CurrProcess]) < MaxThreads
  /\ \E t \in Thread :
       /\ CreateThread(t, CurrProcess)
       /\ threads' = [threads EXCEPT ![CurrProcess] = Append(@, t)]
  /\ LeaveKernelCode(UserThread)
  /\ UNCHANGED <<procs, parent, children, zombie>>

(* ProcCreateKernelThread and ProcWakeUp, by a driver.                     *)
CreateKernelThread ==
  /\ InKernelCode /\ ~panic
  /\ Cardinality({t \in threadObjs : owner[t] = Kernel}) <= MaxKernelThreads
  /\ \E t \in Thread : CreateThread(t, Kernel)
  /\ LeaveKernelCode(UserThread)
  /\ UNCHANGED procVars

-----------------------------------------------------------------------------
(* Freeing                                                                 *)

(* The fields of freed threads that nothing reads are cleared; state keeps *)
(* its value.                                                              *)
FreeThreads(S) ==
  /\ threadObjs' = threadObjs \ S
  /\ owner' = [t \in Thread |-> IF t \in S THEN NULL ELSE owner[t]]
  /\ pending' = [t \in Thread |-> IF t \in S THEN {} ELSE pending[t]]
  /\ schedInterrupted' = [t \in Thread |-> IF t \in S THEN FALSE ELSE schedInterrupted[t]]

(* ProcIntReapThread panics if it is given such a thread; a slot that is   *)
(* free already would be freed twice.                                      *)
CannotReap(t) == t = currThread \/ state[t] # "ZOMBIE" \/ t \notin threadObjs

(* Mutant: a thread that is freed stays linked into its process.           *)
ReapThreadStaysLinked(t) ==
  /\ panic' = CannotReap(t)
  /\ FreeThreads({t})
  /\ UNCHANGED procVars

(* ProcIntReapThread                                                       *)
ReapThread(t) ==
  /\ panic' = CannotReap(t)
  /\ FreeThreads({t})
  /\ threads' = [p \in Proc |-> Without(threads[p], {t})]
  /\ UNCHANGED <<procs, parent, children, zombie>>

(* Mutant: the children of a process are forgotten.                        *)
DropChildren(p) == [children EXCEPT ![p] = <<>>]

(* ProcDisownChildren: the children lists after it.                        *)
DisownChildren(p) == [children EXCEPT ![p] = <<>>, ![Kernel] = @ \o children[p]]

(* ProcIntReapProcess                                                      *)
ReapProcess(p) ==
  /\ panic' = \/ ~zombie[p] \/ p \notin procs
              \/ \E t \in Range(threads[p]) : CannotReap(t)
  /\ FreeThreads(Range(threads[p]))
  /\ threads' = [threads EXCEPT ![p] = <<>>]
  /\ children' = [q \in Proc \cup {Kernel} |-> Without(DisownChildren(p)[q], {p})]
  /\ procs' = procs \ {p}
  /\ parent' = [parent EXCEPT ![p] = NULL]
  /\ UNCHANGED zombie

-----------------------------------------------------------------------------
(* Waiting                                                                 *)

SignalIsPending(t) == pending[t] # {}

(* The first element of a list that is in S, as a set of at most one.      *)
FirstIn(list, S) ==
  {list[i] : i \in {j \in DOMAIN list : list[j] \in S /\ \A k \in 1 .. j - 1 : list[k] \notin S}}

(* The current thread blocks at label, having chosen id.                   *)
Block(label, id) ==
  /\ pc' = [pc EXCEPT ![currThread] = label]
  /\ chosenOne' = [chosenOne EXCEPT ![currThread] = id]
  /\ YieldBlock(TRUE, UserThread)
  /\ SwitchContext(pageDir)
  /\ UNCHANGED <<procVars, threadObjs, owner, pending, panic>>

(* The call returns without having reaped anything.                        *)
ReturnEmpty ==
  /\ Return
  /\ chosenOne' = [chosenOne EXCEPT ![currThread] = AnyId]
  /\ UNCHANGED <<schedVars, procVars, threadObjs, owner, pending, pageDir, panic>>

(* The check loop of ProcWaitProcess, up to its return or its              *)
(* ProcYieldBlock.  The process named by id, or the first zombie child, is *)
(* reaped; with none the call fails if it may not block, was interrupted,  *)
(* or would be at once.                                                    *)
WaitProcessLoop(id, nohang, interrupted) ==
  LET found == IF id = AnyId THEN FirstIn(children[CurrProcess], {p \in Proc : zombie[p]})
               ELSE {p \in {id} : zombie[p]}
  IN  IF found # {}
      THEN /\ \E p \in found : ReapProcess(p)
           /\ Return
           /\ chosenOne' = [chosenOne EXCEPT ![currThread] = AnyId]
           /\ UNCHANGED <<state, threadQueue, currThread, TimerQuantum, idleAwake, pageDir>>
      ELSE IF nohang \/ interrupted \/ SignalIsPending(currThread)
           THEN ReturnEmpty
           ELSE Block("waitP", id)

(* ProcWaitProcess; without such a child it fails with ECHILD.             *)
WaitProcess(id, nohang) ==
  /\ InSystemCall
  /\ IF \/ id = AnyId /\ children[CurrProcess] = <<>>
        \/ id # AnyId /\ (id \notin procs \/ parent[id] # CurrProcess)
     THEN ReturnEmpty
     ELSE WaitProcessLoop(id, nohang, FALSE)
  /\ UNCHANGED reaperHead

EndWaitProcess ==
  /\ currThread \in Thread /\ ~panic
  /\ pc[currThread] = "waitP"
  /\ WaitProcessLoop(chosenOne[currThread], FALSE, schedInterrupted[currThread])
  /\ UNCHANGED reaperHead

(* The same for ProcWaitThread.                                            *)
WaitThreadLoop(id, nohang, interrupted) ==
  LET found == IF id = AnyId THEN FirstIn(threads[CurrProcess], {t \in Thread : state[t] = "ZOMBIE"})
               ELSE {t \in {id} : state[t] = "ZOMBIE"}
  IN  IF found # {}
      THEN /\ \E t \in found : ReapThread(t)
           /\ Return
           /\ chosenOne' = [chosenOne EXCEPT ![currThread] = AnyId]
           /\ UNCHANGED <<state, threadQueue, currThread, TimerQuantum, idleAwake, pageDir>>
      ELSE IF nohang \/ interrupted \/ SignalIsPending(currThread)
           THEN ReturnEmpty
           ELSE Block("waitT", id)

(* ProcWaitThread; without such a sibling it fails with ESRCH.             *)
WaitThread(id, nohang) ==
  /\ InSystemCall
  /\ IF \/ id = AnyId /\ Len(threads[CurrProcess]) = 1
        \/ id # AnyId /\ (id \notin threadObjs \/ owner[id] # CurrProcess)
     THEN ReturnEmpty
     ELSE WaitThreadLoop(id, nohang, FALSE)
  /\ UNCHANGED reaperHead

EndWaitThread ==
  /\ currThread \in Thread /\ ~panic
  /\ pc[currThread] = "waitT"
  /\ WaitThreadLoop(chosenOne[currThread], FALSE, schedInterrupted[currThread])
  /\ UNCHANGED reaperHead

-----------------------------------------------------------------------------
(* Exit                                                                    *)

(* threads.next == threads.prev                                            *)
OnlyThread(p) == Len(threads[p]) = 1

(* Mutant: nobody is notified.                                             *)
NoBlockedAt(label, list) == {}

(* The threads of a list that are blocked at label.                        *)
BlockedAt(label, list) == {t \in Range(list) : state[t] = "INTR" /\ pc[t] = label}

(* The threads of S, in the order of list, are made runnable, by a signal  *)
(* or not, and the current thread ends in ProcIntSelfExit.                 *)
WakeAndExit(list, S, isSignal, dir) ==
  /\ state' = [t \in Thread |-> CASE t = currThread -> "ZOMBIE"
                                  [] t \in S        -> "RUNNING"
                                  [] OTHER          -> state[t]]
  /\ schedInterrupted' = [t \in Thread |-> IF t \in S THEN isSignal ELSE schedInterrupted[t]]
  /\ \E woken \in InOrderOf(list, S) : DoSchedule(threadQueue \o woken, UserThread)
  /\ SwitchContext(dir)
  /\ pc' = [pc EXCEPT ![currThread] = "run"]
  /\ UNCHANGED <<procs, parent, threadObjs, owner, chosenOne, panic>>

(* Mutant: the reaper is not told.                                         *)
AddWithoutWakeUp(dir) ==
  /\ reaperHead' = Append(reaperHead, currThread)
  /\ WakeAndExit(<<>>, {}, FALSE, dir)

(* ProcIntReaperAdd of the current thread, and the exit.                   *)
ReaperAdd(dir) ==
  /\ reaperHead' = Append(reaperHead, currThread)
  /\ WakeAndExit(<<Reaper>>, {t \in {Reaper} : Wakes(t, FALSE)}, FALSE, dir)

(* IoContextDeleteReference blocks in a file's close operation, the        *)
(* process having no memory context any more.                              *)
BlockInClose(interruptable) ==
  /\ ~(interruptable /\ SignalIsPending(currThread))
  /\ pc' = [pc EXCEPT ![currThread] = "close"]
  /\ YieldBlock(interruptable, UserThread)
  /\ SwitchContext(Kernel)
  /\ UNCHANGED <<procs, parent, zombie, threadObjs, owner, chosenOne, reaperHead, panic>>

(* The rest of ProcExitProcess: the process becomes a zombie, and the      *)
(* reaper or the parent is told.                                           *)
Zombieize(p) ==
  /\ zombie' = [zombie EXCEPT ![p] = TRUE]
  /\ IF parent[p] = Kernel
     THEN ReaperAdd(Kernel)
     ELSE LET list == threads[parent[p]]
          IN  /\ WakeAndExit(list, BlockedAt("waitP", list), FALSE, Kernel)
              /\ UNCHANGED reaperHead

(* ProcExitProcess by the only thread of its process.                      *)
LastExit ==
  /\ children' = DisownChildren(CurrProcess)
  /\ \/ Zombieize(CurrProcess)
     \/ \E interruptable \in CloseBlocks : BlockInClose(interruptable)
  /\ UNCHANGED <<threads, pending>>

(* What a thread blocked in a close operation waits for has happened.      *)
CloseDone(t) ==
  /\ InKernelCode /\ ~panic
  /\ pc[t] = "close" /\ state[t] \in {"INTR", "UNINTR"}
  /\ ProcWakeUp(t)
  /\ LeaveKernelCode(UserThread)
  /\ UNCHANGED <<TimerQuantum, procVars, threadVars, reaperHead, pageDir, panic>>

(* What the kernel does after MemContextSwitchTo(NULL) is undefined.       *)
Undefined == pageDir = NULL /\ UNCHANGED vars

(* ProcExitThread by one of several threads of a process.                  *)
OneExits ==
  LET list == threads[CurrProcess]
  IN  /\ WakeAndExit(list, BlockedAt("waitT", list), FALSE, pageDir)
      /\ UNCHANGED <<children, threads, zombie, pending, reaperHead>>

(* ProcExitProcess by one of several: SIGKILL to the others, which leaves  *)
(* nobody blocked for ProcExitThread to notify.                            *)
KillOthers ==
  LET list == threads[CurrProcess]
      others == Range(list) \ {currThread}
  IN  /\ pending' = [t \in Thread |-> pending[t] \cup (IF t \in others THEN {"KILL"} ELSE {})]
      /\ WakeAndExit(list, {t \in others : state[t] = "INTR"}, TRUE, pageDir)
      /\ UNCHANGED <<children, threads, zombie, reaperHead>>

ExitThread ==
  /\ InSystemCall
  /\ IF OnlyThread(CurrProcess) THEN LastExit ELSE OneExits

(* ProcExitProcess, called by the thread or by ProcSignalHandler for a     *)
(* SIGKILL.                                                                *)
ExitProcess ==
  /\ currThread \in UserThread /\ ~panic
  /\ pc[currThread] = "run" \/ (pc[currThread] = "signals" /\ "KILL" \in pending[currThread])
  /\ IF OnlyThread(CurrProcess) THEN LastExit ELSE KillOthers

(* ProcExitThread by a kernel thread, which is never the only one.         *)
ExitKernelThread ==
  /\ currThread \in Thread \ UserThread /\ currThread # Reaper
  /\ ReaperAdd(pageDir)
  /\ UNCHANGED <<children, threads, zombie, pending>>

(* ProcIntReaperThread: an entry of the list is reaped, or the reaper      *)
(* blocks.  Nothing else runs between two entries.                         *)
ReaperLoop ==
  /\ currThread = Reaper /\ ~panic
  /\ IF reaperHead # <<>>
     THEN LET t == Head(reaperHead)
          IN  /\ IF owner[t] \in Proc THEN ReapProcess(owner[t]) ELSE ReapThread(t)
              /\ reaperHead' = Tail(reaperHead)
              /\ UNCHANGED <<state, threadQueue, currThread, TimerQuantum, idleAwake, pageDir>>
     ELSE /\ YieldBlock(FALSE, UserThread)
          /\ SwitchContext(pageDir)
          /\ UNCHANGED <<procVars, threadObjs, owner, pending, reaperHead, panic>>
  /\ UNCHANGED <<pc, chosenOne>>

-----------------------------------------------------------------------------
(* Signals, interrupts and switches                                        *)

(* ProcSignalSendThread                                                    *)
SendSignal(t, sig) ==
  /\ InKernelCode /\ ~panic
  /\ t \in threadObjs \cap UserThread
  /\ pending' = [pending EXCEPT ![t] = @ \cup {sig}]
  /\ IF state[t] = "INTR" THEN WakeUpSig(t, TRUE)
     ELSE UNCHANGED <<state, schedInterrupted, threadQueue, currThread>>
  /\ LeaveKernelCode(UserThread)
  /\ UNCHANGED <<TimerQuantum, procVars, threadObjs, owner, chosenOne, reaperHead, pageDir, panic>>

TimerInterrupt ==
  /\ InterruptsEnabled(UserThread) /\ ~panic
  /\ UseQuantum
  /\ LeaveKernelCode(UserThread)
  /\ UNCHANGED <<state, schedInterrupted, threadQueue, currThread,
                 procVars, threadVars, reaperHead, pageDir, panic>>

Preempt ==
  /\ IntrReturn(UserThread) /\ ~panic
  /\ SwitchContext(pageDir)
  /\ UNCHANGED <<procVars, threadVars, reaperHead, panic>>

(* ProcSignalHandler with a signal that has a handler, or with none.       *)
HandleSignals ==
  /\ currThread \in UserThread /\ ~panic
  /\ pc[currThread] = "signals"
  /\ pending[currThread] # {"KILL"}
  /\ pc' = [pc EXCEPT ![currThread] = "run"]
  /\ pending' = [pending EXCEPT ![currThread] = @ \ {"HANDLED"}]
  /\ UNCHANGED <<schedVars, procVars, threadObjs, owner, chosenOne, reaperHead, pageDir, panic>>

KernelYield ==
  /\ currThread \in Thread \ UserThread /\ currThread # Reaper /\ ~panic
  /\ Yield(UserThread)
  /\ SwitchContext(pageDir)
  /\ UNCHANGED <<pc, procVars, threadVars, reaperHead, panic>>

IdleLoop ==
  /\ IdleSchedule(UserThread) /\ ~panic
  /\ SwitchContext(pageDir)
  /\ UNCHANGED <<pc, procVars, threadVars, reaperHead, panic>>

Next ==
  \/ Fork
  \/ CreateUserThread
  \/ CreateKernelThread
  \/ \E id \in Ids \cap (Proc \cup {AnyId}), nohang \in BOOLEAN : WaitProcess(id, nohang)
  \/ EndWaitProcess
  \/ \E id \in Ids \cap (Thread \cup {AnyId}), nohang \in BOOLEAN : WaitThread(id, nohang)
  \/ EndWaitThread
  \/ ExitThread
  \/ ExitProcess
  \/ ExitKernelThread
  \/ \E t \in Thread : CloseDone(t)
  \/ Undefined
  \/ ReaperLoop
  \/ \E t \in Thread, sig \in {"KILL", "HANDLED"} : SendSignal(t, sig)
  \/ TimerInterrupt
  \/ Preempt
  \/ HandleSignals
  \/ KernelYield
  \/ IdleLoop

Spec == Init /\ [][Next]_vars

-----------------------------------------------------------------------------
(* The lists and the objects agree, through any sequence of forks, exits,  *)
(* disownings and reapings: every process in use is on exactly one         *)
(* children list, once, and if that is the list of a user process then     *)
(* this is its parent, and not a zombie; the threads list of a process     *)
(* holds the threads in use that belong to it, once each.  The list        *)
(* operations of process.c leave dangling entries behind otherwise.  And   *)
(* nothing is reaped that is still running or was reaped before: none of   *)
(* the panics of ProcIntReapProcess and ProcIntReapThread can be reached,  *)
(* and no slot is freed twice.                                             *)
ListsMatchObjects ==
  /\ TypeOK /\ RunQueueMatchesStates
  /\ ~panic
  /\ \A q \in Proc \cup {Kernel} : IsInjective(children[q]) /\ Range(children[q]) \subseteq procs
  /\ \A p \in procs : \E q \in procs \cup {Kernel} : p \in Range(children[q])
  /\ \A q \in Proc : \A p \in Range(children[q]) : parent[p] = q /\ ~zombie[q]
  /\ \A q \in Proc : \A p \in Range(children[q]) : p \notin Range(children[Kernel])
  /\ \A p \in Proc : /\ IsInjective(threads[p])
                     /\ Range(threads[p]) = {t \in threadObjs : owner[t] = p}

(* No exit is missed: a thread that is blocked in ProcWaitProcess or       *)
(* ProcWaitThread, and not yet woken, has nothing to reap.  A child or     *)
(* sibling that exits between the waiter's check and its block, or while   *)
(* another waiter is being woken, would leave it blocked for good.         *)
NoMissedExit ==
  \A t \in Thread : state[t] = "INTR" =>
    /\ pc[t] = "waitP" =>
         \A p \in Range(children[owner[t]]) : chosenOne[t] \in {AnyId, p} => ~zombie[p]
    /\ pc[t] = "waitT" =>
         \A u \in Range(threads[owner[t]]) : chosenOne[t] \in {AnyId, u} => state[u] # "ZOMBIE"

(* The reaper never sleeps on work (ProcIntReaperAdd wakes it before the   *)
(* first entry is seen, and again while it runs): if it is blocked, or was *)
(* never started, its list is empty; and what is on the list are exited    *)
(* threads, of the kernel or of a zombie process that the kernel owns.     *)
ReaperHasItsWork ==
  /\ state[Reaper] # "RUNNING" => reaperHead = <<>>
  /\ IsInjective(reaperHead)
  /\ \A t \in Range(reaperHead) :
       /\ t \in threadObjs /\ state[t] = "ZOMBIE"
       /\ owner[t] # Kernel => zombie[owner[t]] /\ parent[owner[t]] = Kernel

(* A user thread runs in the memory of its own process, whatever ran in    *)
(* between, and the page directory of a process that has exited or is      *)
(* closing its files, which is freed then, is not in use (ProcDoSchedule   *)
(* skips the switch between threads of one process, and for kernel         *)
(* threads).  One case is excepted: a thread that blocked in a close       *)
(* operation while its process exited has no memory to return to, and the  *)
(* switch to NULL happens for such a thread only.                          *)
OwnAddressSpace ==
  /\ currThread \in UserThread => pageDir = MemContext(currThread)
  /\ pageDir = NULL => currThread \in UserThread
  /\ pageDir \in Proc => /\ pageDir \in procs /\ ~zombie[pageDir]
                         /\ \A t \in Range(threads[pageDir]) : MemContext(t) = pageDir
=============================================================================
