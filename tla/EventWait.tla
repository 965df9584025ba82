------------------------------ MODULE EventWait ------------------------------
(***************************************************************************)
(* What a wait queue promises its users (waitqueue.h), without threads     *)
(* states, run queue or processor: waiters are woken oldest first, a wait  *)
(* ends exactly once, either because somebody woke the waiter or because   *)
(* the waiter was interrupted, the caller is told which of the two, and    *)
(* only an interruptible wait can end by interruption.                     *)
(***************************************************************************)
EXTENDS Naturals, Sequences, Functions

CONSTANTS Thread, Queue

VARIABLES
  waiters,    \* the threads waiting on each queue, oldest first
  patient,    \* the waiting threads that cannot be interrupted
  woken,      \* the threads that were woken and have not returned yet
  result      \* what the last wait of each thread returned

vars == <<waiters, patient, woken, result>>

IsWaiting(t) == \E q \in Queue : t \in Range(waiters[q])

Init ==
  /\ waiters = [q \in Queue |-> <<>>]
  /\ patient = {}
  /\ woken = {}
  /\ result = [t \in Thread |-> "none"]

Begin(t, q, interruptable) ==
  /\ ~IsWaiting(t) /\ t \notin woken
  /\ waiters' = [waiters EXCEPT ![q] = Append(@, t)]
  /\ patient' = IF interruptable THEN patient ELSE patient \cup {t}
  /\ result' = [result EXCEPT ![t] = "none"]
  /\ UNCHANGED woken

(* An interruptible wait that ends before it begins.                       *)
Refuse(t) ==
  /\ ~IsWaiting(t) /\ t \notin woken
  /\ result' = [result EXCEPT ![t] = "interrupted"]
  /\ UNCHANGED <<waiters, patient, woken>>

WakeOldest(q) ==
  /\ waiters[q] # <<>>
  /\ waiters' = [waiters EXCEPT ![q] = Tail(@)]
  /\ woken' = woken \cup {Head(waiters[q])}
  /\ patient' = patient \ {Head(waiters[q])}
  /\ UNCHANGED result

WakeEveryone(q) ==
  /\ waiters' = [waiters EXCEPT ![q] = <<>>]
  /\ woken' = woken \cup Range(waiters[q])
  /\ patient' = patient \ Range(waiters[q])
  /\ UNCHANGED result

GiveUp(t, q) ==
  /\ t \notin patient
  /\ \E i \in DOMAIN waiters[q] :
       waiters[q][i] = t /\ waiters' = [waiters EXCEPT ![q] =
         SubSeq(@, 1, i - 1) \o SubSeq(@, i + 1, Len(@))]
  /\ result' = [result EXCEPT ![t] = "interrupted"]
  /\ UNCHANGED <<patient, woken>>

Finish(t) ==
  /\ t \in woken
  /\ woken' = woken \ {t}
  /\ result' = [result EXCEPT ![t] = "woken"]
  /\ UNCHANGED <<waiters, patient>>

Next ==
  \/ \E t \in Thread, q \in Queue, interruptable \in BOOLEAN : Begin(t, q, interruptable)
  \/ \E t \in Thread : Refuse(t)
  \/ \E q \in Queue : WakeOldest(q)
  \/ \E q \in Queue : WakeEveryone(q)
  \/ \E t \in Thread, q \in Queue : GiveUp(t, q)
  \/ \E t \in Thread : Finish(t)

Spec == Init /\ [][Next]_vars
=============================================================================
