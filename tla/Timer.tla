-------------------------------- MODULE Timer --------------------------------
(***************************************************************************)
(* The timer (timer.c): sleeping threads, process alarms, the speaker and  *)
(* the clock, driven by the timer interrupt, on top of the scheduler.      *)
(*                                                                         *)
(* The unit of time is one timer interrupt.  A sleep queue entry is named  *)
(* by its thread and an alarm queue entry by its process: a thread sleeps  *)
(* in one place, and TimerSetAlarm replaces a process's alarm.             *)
(* pc[t] = "sleep" is a thread inside TimerSleep, at its ProcYieldBlock.   *)
(***************************************************************************)
EXTENDS Scheduler, Integers

CONSTANTS UserThread,   \* the threads of user processes
          Proc,         \* the user processes
          ProcOf,       \* ProcThread.parent of the user threads
          StartTime,    \* startupTime
          MaxTime,      \* bound: the clock stops here
          SleepTimes,   \* the times given to TimerSleep,
          AlarmTimes,   \* to TimerSetAlarm,
          BeepTimes,    \* to TimerBeepAdv
          ClockTimes    \* and to TimerSetTime

ASSUME TimerAssumption ==
  /\ UserThread \subseteq Thread
  /\ ProcOf \in [UserThread -> Proc]
  /\ IsFiniteSet(Proc)
  /\ StartTime \in Nat /\ MaxTime \in Nat /\ StartTime <= MaxTime
  /\ SleepTimes \subseteq Nat /\ AlarmTimes \subseteq Nat /\ BeepTimes \subseteq Nat
  /\ ClockTimes \subseteq StartTime .. MaxTime

VARIABLES
  currentTime,    \* currentTime
  sleepQueue,     \* sleepQueueHead: the sleeping threads, in list order
  endTime,        \* TimerQueue.endTime of each thread's entry (0 without one)
  alarmQueue,     \* alarmQueueHead: the processes with an alarm, in list order
  alarmEnd,       \* TimerQueue.endTime of each process's entry (0 without one)
  alarmPtr,       \* the processes whose alarmPtr is not NULL
  beepEndTime,    \* beepEndTime
  speaker,        \* the speaker is on (bits 0 and 1 of port 0x61)
  owed,           \* history: the ticks each sleeper asked for and has not slept
  sigPending,     \* the threads with a signal pending
  procPending     \* the processes with a signal pending

timerVars == <<currentTime, sleepQueue, endTime, alarmQueue, alarmEnd,
               alarmPtr, beepEndTime, speaker, owed>>
sigVars == <<sigPending, procPending>>
vars == <<schedVars, pc, timerVars, sigVars>>

Time == StartTime .. MaxTime

TypeOK ==
  /\ SchedTypeOK
  /\ pc \in [Thread -> {"run", "sleep", "return", "signals"}]
  /\ currentTime \in Time
  /\ sleepQueue \in Seq(Thread)
  /\ endTime \in [Thread -> Nat]
  /\ alarmQueue \in Seq(Proc)
  /\ alarmEnd \in [Proc -> Nat]
  /\ alarmPtr \subseteq Proc
  /\ beepEndTime \in Nat
  /\ speaker \in BOOLEAN
  /\ owed \in [Thread -> Nat]
  /\ sigPending \subseteq Thread
  /\ procPending \subseteq Proc

(* After TimerInit, which reads the clock and calls TimerBeepStop.         *)
Init ==
  /\ SchedInit
  /\ currentTime = StartTime
  /\ sleepQueue = <<>> /\ alarmQueue = <<>> /\ alarmPtr = {}
  /\ endTime = [t \in Thread |-> 0]
  /\ alarmEnd = [p \in Proc |-> 0]
  /\ beepEndTime = 0 /\ speaker = FALSE
  /\ owed = [t \in Thread |-> 0]
  /\ sigPending = {} /\ procPending = {}

Asleep(t) == t \in Range(sleepQueue)

(* ProcSignalIsPending                                                     *)
SignalIsPending(t) ==
  t \in sigPending \/ (t \in UserThread /\ ProcOf[t] \in procPending)

(* AddTimerToQueue: before the first entry whose time is less.             *)
AddTimerToQueue(queue, end, item, time) ==
  LET pos == CHOOSE i \in 1 .. Len(queue) + 1 :
               /\ \A k \in 1 .. i - 1 : time <= end[queue[k]]
               /\ i <= Len(queue) => time > end[queue[i]]
  IN  SubSeq(queue, 1, pos - 1) \o <<item>> \o SubSeq(queue, pos, Len(queue))

(* Mutant: entries are taken off one tick early.                           *)
ExpiredEarly(queue, end, now) ==
  CHOOSE n \in 0 .. Len(queue) :
    /\ \A i \in 1 .. n : now + 1 >= end[queue[i]]
    /\ n < Len(queue) => now + 1 < end[queue[n + 1]]

(* The number of entries at the head of a queue that TimerInterrupt takes  *)
(* off: it stops at the first entry that has not expired.                  *)
Expired(queue, end, now) ==
  CHOOSE n \in 0 .. Len(queue) :
    /\ \A i \in 1 .. n : now >= end[queue[i]]
    /\ n < Len(queue) => now < end[queue[n + 1]]

(* The list without the entry of item.                                     *)
Unlink(queue, item) ==
  ListDelete(queue, CHOOSE i \in DOMAIN queue : queue[i] = item)

-----------------------------------------------------------------------------
Return ==
  pc' = [pc EXCEPT ![currThread] = IF currThread \in UserThread THEN "return" ELSE "run"]

(* TimerSleep up to the context switch.  With a signal pending the entry   *)
(* is added, ProcYieldBlock returns at once and the entry is removed.      *)
TimerSleep(time) ==
  /\ currThread \in Thread
  /\ pc[currThread] = "run"
  /\ IF SignalIsPending(currThread)
     THEN /\ Return
          /\ UNCHANGED <<schedVars, sleepQueue, endTime, owed>>
     ELSE /\ sleepQueue' = AddTimerToQueue(sleepQueue, endTime, currThread, currentTime + time)
          /\ endTime' = [endTime EXCEPT ![currThread] = currentTime + time]
          /\ owed' = [owed EXCEPT ![currThread] = time]
          /\ pc' = [pc EXCEPT ![currThread] = "sleep"]
          /\ YieldBlock(TRUE, UserThread)
  /\ UNCHANGED <<currentTime, alarmQueue, alarmEnd, alarmPtr, beepEndTime, speaker, sigVars>>

(* Mutant: an interrupted sleeper leaves its entry in the queue.           *)
EndSleepLeavesEntry ==
  /\ currThread \in Thread
  /\ pc[currThread] = "sleep"
  /\ Return
  /\ UNCHANGED <<schedVars, timerVars, sigVars>>

(* TimerSleep after ProcYieldBlock: an interrupted sleeper removes and     *)
(* frees its entry itself; otherwise TimerInterrupt has done so.           *)
EndSleep ==
  /\ currThread \in Thread
  /\ pc[currThread] = "sleep"
  /\ IF schedInterrupted[currThread]
     THEN /\ sleepQueue' = Unlink(sleepQueue, currThread)
          /\ endTime' = [endTime EXCEPT ![currThread] = 0]
     ELSE UNCHANGED <<sleepQueue, endTime>>
  /\ owed' = [owed EXCEPT ![currThread] = 0]
  /\ Return
  /\ UNCHANGED <<schedVars, currentTime, alarmQueue, alarmEnd, alarmPtr,
                 beepEndTime, speaker, sigVars>>

(* TimerSetAlarm                                                           *)
TimerSetAlarm(time) ==
  /\ currThread \in UserThread
  /\ pc[currThread] = "run"
  /\ LET p == ProcOf[currThread]
         others == IF p \in alarmPtr THEN Unlink(alarmQueue, p) ELSE alarmQueue
     IN  IF time # 0
         THEN /\ alarmQueue' = AddTimerToQueue(others, alarmEnd, p, time)
              /\ alarmEnd' = [alarmEnd EXCEPT ![p] = time]
              /\ alarmPtr' = alarmPtr \cup {p}
         ELSE /\ alarmQueue' = others
              /\ alarmEnd' = [alarmEnd EXCEPT ![p] = 0]
              /\ alarmPtr' = alarmPtr \ {p}
  /\ LeaveKernelCode(UserThread)
  /\ UNCHANGED <<state, schedInterrupted, threadQueue, currThread, TimerQuantum,
                 currentTime, sleepQueue, endTime, beepEndTime, speaker, owed, sigVars>>

(* TimerBeepAdv and TimerBeepStop; the pitch is left out.                  *)
TimerBeepAdv(time) ==
  /\ InKernelCode
  /\ beepEndTime' = currentTime + time
  /\ speaker' = TRUE
  /\ LeaveKernelCode(UserThread)
  /\ UNCHANGED <<state, schedInterrupted, threadQueue, currThread, TimerQuantum, currentTime,
                 sleepQueue, endTime, alarmQueue, alarmEnd, alarmPtr, owed, sigVars>>

BeepStop == beepEndTime' = 0 /\ speaker' = FALSE

TimerBeepStop ==
  /\ InKernelCode
  /\ BeepStop
  /\ LeaveKernelCode(UserThread)
  /\ UNCHANGED <<state, schedInterrupted, threadQueue, currThread, TimerQuantum, currentTime,
                 sleepQueue, endTime, alarmQueue, alarmEnd, alarmPtr, owed, sigVars>>

(* The sleepers have slept for ticks more.                                 *)
Slept(ticks) == owed' = [t \in Thread |-> IF owed[t] > ticks THEN owed[t] - ticks ELSE 0]

(* TimerSetTime.  Setting the clock forward passes for sleep.              *)
TimerSetTime(newTime) ==
  /\ InKernelCode
  /\ currentTime' = newTime
  /\ Slept(IF newTime > currentTime THEN newTime - currentTime ELSE 0)
  /\ LeaveKernelCode(UserThread)
  /\ UNCHANGED <<state, schedInterrupted, threadQueue, currThread, TimerQuantum,
                 sleepQueue, endTime, alarmQueue, alarmEnd, alarmPtr,
                 beepEndTime, speaker, sigVars>>

(* TimerInterrupt's two loops: wake the sleepers, and signal the processes *)
(* at the head of the queues whose time has come.                          *)
WakeSleepers(now) ==
  LET n == Expired(sleepQueue, endTime, now)
      woken == SubSeq(sleepQueue, 1, n)
  IN  /\ WakeUpEach(woken, Range(woken))
      /\ sleepQueue' = SubSeq(sleepQueue, n + 1, Len(sleepQueue))
      /\ endTime' = [t \in Thread |-> IF t \in Range(woken) THEN 0 ELSE endTime[t]]

FireAlarms(now) ==
  LET n == Expired(alarmQueue, alarmEnd, now)
      fired == Range(SubSeq(alarmQueue, 1, n))
  IN  /\ procPending' = procPending \cup fired
      /\ alarmPtr' = alarmPtr \ fired
      /\ alarmQueue' = SubSeq(alarmQueue, n + 1, Len(alarmQueue))
      /\ alarmEnd' = [p \in Proc |-> IF p \in fired THEN 0 ELSE alarmEnd[p]]

TimerInterrupt ==
  /\ InterruptsEnabled(UserThread)
  /\ currentTime < MaxTime
  /\ currentTime' = currentTime + 1
  /\ UseQuantum
  /\ IF beepEndTime # 0 /\ currentTime' >= beepEndTime
     THEN BeepStop ELSE UNCHANGED <<beepEndTime, speaker>>
  /\ Slept(1)
  /\ WakeSleepers(currentTime')
  /\ FireAlarms(currentTime')
  /\ LeaveKernelCode(UserThread)
  /\ UNCHANGED sigPending

-----------------------------------------------------------------------------
(* The rest of the kernel, as in WaitQueue                                 *)

(* ProcSignalSendThread                                                    *)
SendSignal(t) ==
  /\ InKernelCode
  /\ sigPending' = sigPending \cup {t}
  /\ IF state[t] = "INTR" THEN WakeUpSig(t, TRUE)
     ELSE UNCHANGED <<state, schedInterrupted, threadQueue, currThread>>
  /\ LeaveKernelCode(UserThread)
  /\ UNCHANGED <<TimerQuantum, timerVars, procPending>>

Start(t) ==
  /\ InKernelCode
  /\ state[t] = "STARTUP"
  /\ ProcWakeUp(t)
  /\ LeaveKernelCode(UserThread)
  /\ UNCHANGED <<TimerQuantum, timerVars, sigVars>>

Preempt == IntrReturn(UserThread) /\ UNCHANGED <<timerVars, sigVars>>

(* ProcSignalHandler takes the signals.  Where it suspends the thread or   *)
(* ends it is in WaitQueue and Signal.                                     *)
HandleSignals ==
  /\ currThread \in UserThread
  /\ pc[currThread] = "signals"
  /\ pc' = [pc EXCEPT ![currThread] = "run"]
  /\ sigPending' = sigPending \ {currThread}
  /\ procPending' = procPending \ {ProcOf[currThread]}
  /\ UNCHANGED <<schedVars, timerVars>>

KernelYield ==
  /\ currThread \in Thread \ UserThread
  /\ pc[currThread] = "run"
  /\ Yield(UserThread)
  /\ UNCHANGED <<pc, timerVars, sigVars>>

IdleLoop == IdleSchedule(UserThread) /\ UNCHANGED <<pc, timerVars, sigVars>>

Next ==
  \/ \E time \in SleepTimes : TimerSleep(time)
  \/ EndSleep
  \/ \E time \in AlarmTimes : TimerSetAlarm(time)
  \/ \E time \in BeepTimes : TimerBeepAdv(time)
  \/ TimerBeepStop
  \/ \E time \in ClockTimes : TimerSetTime(time)
  \/ TimerInterrupt
  \/ \E t \in Thread : SendSignal(t)
  \/ \E t \in Thread : Start(t)
  \/ Preempt
  \/ HandleSignals
  \/ KernelYield
  \/ IdleLoop

Spec == Init /\ [][Next]_vars

-----------------------------------------------------------------------------
(* An entry of a timer queue is freed exactly once.  The sleeping threads  *)
(* are those with an entry, and a sleeper that was made runnable still has *)
(* one exactly if it will take it for granted that it must free it         *)
(* (TimerSleep after ProcYieldBlock).  A signal that reaches a thread      *)
(* already woken by the timer, or a tick that wakes a thread already       *)
(* interrupted, must not leave the two sides in disagreement about who     *)
(* frees the entry, nor put the thread on the run queue twice.  A          *)
(* process's alarmPtr is set exactly while the process has an entry in the *)
(* alarm queue, and then it has one: TimerSetAlarm frees the entry that    *)
(* alarmPtr names, TimerInterrupt frees the entries that expire.           *)
EntriesFreedOnce ==
  /\ TypeOK /\ RunQueueMatchesStates
  /\ IsInjective(sleepQueue)
  /\ \A t \in Thread : Asleep(t) => pc[t] = "sleep"
  /\ \A t \in Thread : pc[t] = "sleep" =>
       \/ state[t] = "INTR" /\ Asleep(t)
       \/ state[t] = "RUNNING" /\ (schedInterrupted[t] <=> Asleep(t))
  /\ IsInjective(alarmQueue)
  /\ alarmPtr = Range(alarmQueue)

(* Sleeps, alarms and beeps end on time.                                   *)
(*  - The timer wakes nobody who has not slept as long as was asked for    *)
(*    (timer.h, "Sleeps for at least the specified length of time"),       *)
(*    whatever the clock was set back to meanwhile; only setting it        *)
(*    forward shortens a sleep, by as much as it was set.                  *)
(*  - The queues are ordered by falling end time (AddTimerToQueue), also   *)
(*    when interrupted sleepers and replaced alarms leave them: a tick     *)
(*    takes everybody off a queue if all are due, and nobody else.         *)
(*  - A tick stops a beep that has reached its end.  beepEndTime = 0       *)
(*    stands for "unused", so one beep plays on: that which TimerBeepAdv   *)
(*    gave the end 0.                                                      *)
EndsOnTime ==
  [][/\ \A t \in Thread :
          Asleep(t) /\ t \notin Range(sleepQueue') /\ ~schedInterrupted'[t] => owed'[t] = 0
     /\ TimerInterrupt =>
          /\ IF \A t \in Range(sleepQueue) : currentTime' >= endTime[t]
             THEN sleepQueue' = <<>> ELSE sleepQueue' = sleepQueue
          /\ IF \A p \in alarmPtr : currentTime' >= alarmEnd[p]
             THEN alarmQueue' = <<>> ELSE alarmQueue' = alarmQueue
          /\ speaker' => currentTime' < beepEndTime' \/ beepEndTime = 0
     /\ speaker' /\ beepEndTime' = 0 =>
          \/ speaker /\ beepEndTime = 0
          \/ \E time \in BeepTimes : currentTime + time = 0 /\ TimerBeepAdv(time)]_vars
=============================================================================
