--------------------------- MODULE SchedulerProofs ---------------------------
(***************************************************************************)
(* Facts about the operators of Scheduler, for every set of threads and    *)
(* every quantum: each entry point keeps the run queue and the thread      *)
(* states in agreement.  The proofs about WaitQueue, Timer and the other   *)
(* modules that extend Scheduler cite them.                                *)
(***************************************************************************)
EXTENDS Scheduler, SequenceTheorems, FiniteSetTheorems, TLAPS

-----------------------------------------------------------------------------
(* Sequences that list elements once                                       *)

(* Appending a new element keeps a sequence free of repetitions.           *)
LEMMA AppendNoRepeat ==
  ASSUME NEW S, NEW s \in Seq(S), NEW e \in S
  PROVE  /\ Append(s, e) \in Seq(S)
         /\ Append(s, e) # <<>>
         /\ Range(Append(s, e)) = Range(s) \cup {e}
         /\ IsInjective(s) /\ e \notin Range(s) => IsInjective(Append(s, e))
<1>1. /\ Append(s, e) \in Seq(S)
      /\ Append(s, e) # <<>>
      /\ Len(Append(s, e)) = Len(s) + 1
      /\ \A i \in 1 .. Len(s) : Append(s, e)[i] = s[i]
      /\ Append(s, e)[Len(s) + 1] = e
  BY AppendProperties
<1>2. /\ Len(s) \in Nat
      /\ DOMAIN s = 1 .. Len(s)
      /\ DOMAIN Append(s, e) = 1 .. Len(s) + 1
  BY <1>1, LenProperties
<1>3. Range(Append(s, e)) = Range(s) \cup {e}
  BY <1>1, <1>2 DEF Range
<1>4. IsInjective(s) /\ e \notin Range(s) => IsInjective(Append(s, e))
  BY <1>1, <1>2 DEF Range, IsInjective
<1> QED
  BY <1>1, <1>3, <1>4

(* The first element of a sequence without repetitions does not occur in   *)
(* the rest of it.                                                         *)
LEMMA HeadTailNoRepeat ==
  ASSUME NEW S, NEW s \in Seq(S), s # <<>>
  PROVE  /\ Head(s) \in S
         /\ Head(s) \in Range(s)
         /\ Tail(s) \in Seq(S)
         /\ IsInjective(s) => /\ IsInjective(Tail(s))
                              /\ Range(Tail(s)) = Range(s) \ {Head(s)}
<1>1. /\ Head(s) \in S
      /\ Tail(s) \in Seq(S)
      /\ Len(Tail(s)) = Len(s) - 1
      /\ \A i \in 1 .. Len(Tail(s)) : Tail(s)[i] = s[i + 1]
  BY HeadTailProperties
<1>2. /\ Len(s) \in Nat \ {0}
      /\ DOMAIN s = 1 .. Len(s)
      /\ DOMAIN Tail(s) = 1 .. Len(s) - 1
      /\ Head(s) = s[1]
  BY <1>1, LenProperties, EmptySeq
<1>3. Head(s) \in Range(s)
  BY <1>2 DEF Range
<1>4. ASSUME IsInjective(s)
      PROVE  IsInjective(Tail(s))
  BY <1>1, <1>2, <1>4 DEF IsInjective
<1>5. ASSUME IsInjective(s)
      PROVE  Range(Tail(s)) = Range(s) \ {Head(s)}
  <2>1. ASSUME NEW x \in Range(Tail(s))
        PROVE  x \in Range(s) \ {Head(s)}
    <3>1. PICK i \in 1 .. Len(s) - 1 : x = Tail(s)[i]
      BY <1>2 DEF Range
    <3>2. x = s[i + 1] /\ i + 1 \in 1 .. Len(s) /\ i + 1 # 1
      BY <3>1, <1>1, <1>2
    <3> QED
      BY <3>2, <1>2, <1>5 DEF Range, IsInjective
  <2>2. ASSUME NEW x \in Range(s) \ {Head(s)}
        PROVE  x \in Range(Tail(s))
    <3>1. PICK i \in 1 .. Len(s) : x = s[i]
      BY <1>2 DEF Range
    <3>2. i # 1
      BY <3>1, <1>2
    <3>3. i - 1 \in 1 .. Len(s) - 1 /\ Tail(s)[i - 1] = s[i]
      BY <3>2, <1>1, <1>2
    <3> QED
      BY <3>1, <3>3, <1>2 DEF Range
  <2> QED
    BY <2>1, <2>2
<1> QED
  BY <1>1, <1>3, <1>4, <1>5

(* Two sequences without repetitions and without a common element.         *)
LEMMA ConcatNoRepeat ==
  ASSUME NEW S, NEW s \in Seq(S), NEW t \in Seq(S)
  PROVE  /\ s \o t \in Seq(S)
         /\ Range(s \o t) = Range(s) \cup Range(t)
         /\ IsInjective(s) /\ IsInjective(t) /\ Range(s) \cap Range(t) = {}
              => IsInjective(s \o t)
<1>1. /\ s \o t \in Seq(S)
      /\ Len(s \o t) = Len(s) + Len(t)
      /\ \A i \in 1 .. Len(s) + Len(t) :
           (s \o t)[i] = IF i <= Len(s) THEN s[i] ELSE t[i - Len(s)]
  BY ConcatProperties
<1>2. /\ Len(s) \in Nat /\ Len(t) \in Nat
      /\ DOMAIN s = 1 .. Len(s)
      /\ DOMAIN t = 1 .. Len(t)
      /\ DOMAIN (s \o t) = 1 .. Len(s) + Len(t)
  BY <1>1, LenProperties
<1>3. ASSUME IsInjective(s), IsInjective(t), Range(s) \cap Range(t) = {},
             NEW a \in 1 .. Len(s) + Len(t), NEW b \in 1 .. Len(s) + Len(t),
             (s \o t)[a] = (s \o t)[b]
      PROVE  a = b
  <2>1. CASE a <= Len(s) /\ b <= Len(s)
    BY <2>1, <1>1, <1>2, <1>3 DEF IsInjective
  <2>2. CASE a > Len(s) /\ b > Len(s)
    <3>1. /\ a - Len(s) \in 1 .. Len(t) /\ b - Len(s) \in 1 .. Len(t)
          /\ t[a - Len(s)] = t[b - Len(s)]
      BY <2>2, <1>1, <1>2, <1>3
    <3>2. \A i, j \in 1 .. Len(t) : t[i] = t[j] => i = j
      BY <1>2, <1>3 DEF IsInjective
    <3>3. a - Len(s) = b - Len(s)
      BY <3>1, <3>2
    <3> QED
      BY <3>3, <1>2
  <2>3. CASE a <= Len(s) /\ b > Len(s)
    <3>1. a \in 1 .. Len(s) /\ b - Len(s) \in 1 .. Len(t) /\ s[a] = t[b - Len(s)]
      BY <2>3, <1>1, <1>2, <1>3
    <3> QED
      BY <3>1, <1>2, <1>3 DEF Range
  <2>4. CASE a > Len(s) /\ b <= Len(s)
    <3>1. b \in 1 .. Len(s) /\ a - Len(s) \in 1 .. Len(t) /\ s[b] = t[a - Len(s)]
      BY <2>4, <1>1, <1>2, <1>3
    <3> QED
      BY <3>1, <1>2, <1>3 DEF Range
  <2> QED
    BY <2>1, <2>2, <2>3, <2>4, <1>2
<1> QED
  BY <1>1, <1>2, <1>3, RangeConcatenation DEF IsInjective

(* Taking one element out of a sequence without repetitions.               *)
LEMMA ListDeleteNoRepeat ==
  ASSUME NEW S, NEW s \in Seq(S), NEW i \in DOMAIN s, IsInjective(s)
  PROVE  /\ ListDelete(s, i) \in Seq(S)
         /\ IsInjective(ListDelete(s, i))
         /\ Range(ListDelete(s, i)) = Range(s) \ {s[i]}
<1> DEFINE a == SubSeq(s, 1, i - 1)
           b == SubSeq(s, i + 1, Len(s))
<1>1. /\ Len(s) \in Nat /\ DOMAIN s = 1 .. Len(s) /\ i \in 1 .. Len(s)
      /\ \A k \in 1 .. Len(s) : s[k] \in S
  BY LenProperties, ElementOfSeq
<1>2. /\ a \in Seq(S) /\ Len(a) = i - 1
      /\ \A k \in 1 .. i - 1 : a[k] = s[k]
  BY <1>1, SubSeqProperties
<1>3. /\ b \in Seq(S) /\ Len(b) = Len(s) - i
      /\ \A k \in 1 .. Len(s) - i : b[k] = s[i + k]
  BY <1>1, SubSeqProperties
<1>4. DOMAIN a = 1 .. i - 1 /\ DOMAIN b = 1 .. Len(s) - i
  BY <1>2, <1>3, LenProperties
<1>5. ListDelete(s, i) = a \o b
  BY DEF ListDelete
<1> HIDE DEF a, b
<1>6. Range(a) = {s[k] : k \in 1 .. i - 1}
  BY <1>2, <1>4 DEF Range
<1>7. Range(b) = {s[k] : k \in i + 1 .. Len(s)}
  <2>1. ASSUME NEW k \in i + 1 .. Len(s)
        PROVE  s[k] \in Range(b)
    <3>1. k - i \in 1 .. Len(s) - i /\ i + (k - i) = k
      BY <1>1
    <3> QED
      BY <3>1, <1>3, <1>4 DEF Range
  <2>2. ASSUME NEW k \in 1 .. Len(s) - i
        PROVE  b[k] \in {s[j] : j \in i + 1 .. Len(s)}
    BY <1>1, <1>3
  <2> QED
    BY <2>1, <2>2, <1>4 DEF Range
<1>8. IsInjective(a) /\ IsInjective(b)
  <2>1. ASSUME NEW k \in DOMAIN a, NEW l \in DOMAIN a, a[k] = a[l]
        PROVE  k = l
    BY <2>1, <1>1, <1>2, <1>4 DEF IsInjective
  <2>2. ASSUME NEW k \in DOMAIN b, NEW l \in DOMAIN b, b[k] = b[l]
        PROVE  k = l
    <3>1. k \in 1 .. Len(s) - i /\ l \in 1 .. Len(s) - i
      BY <2>2, <1>4
    <3>2. s[i + k] = s[i + l]
      BY <2>2, <3>1, <1>3
    <3>3. i + k \in DOMAIN s /\ i + l \in DOMAIN s
      BY <3>1, <1>1
    <3>4. i + k = i + l
      BY <3>2, <3>3 DEF IsInjective
    <3> QED
      BY <3>1, <3>4, <1>1
  <2> QED
    BY <2>1, <2>2 DEF IsInjective
<1>9. Range(a) \cap Range(b) = {}
  BY <1>1, <1>6, <1>7 DEF IsInjective
<1>10. Range(a) \cup Range(b) = Range(s) \ {s[i]}
  <2>1. ASSUME NEW x \in Range(s) \ {s[i]}
        PROVE  x \in Range(a) \cup Range(b)
    <3>1. PICK k \in 1 .. Len(s) : x = s[k] /\ k # i
      BY <1>1 DEF Range
    <3>2. k \in 1 .. i - 1 \/ k \in i + 1 .. Len(s)
      BY <3>1, <1>1
    <3> QED
      BY <3>1, <3>2, <1>6, <1>7
  <2>2. ASSUME NEW k \in 1 .. Len(s), k # i
        PROVE  s[k] \in Range(s) \ {s[i]}
    BY <2>2, <1>1 DEF Range, IsInjective
  <2>3. \A k \in (1 .. i - 1) \cup (i + 1 .. Len(s)) : k \in 1 .. Len(s) /\ k # i
    BY <1>1
  <2> QED
    BY <2>1, <2>2, <2>3, <1>6, <1>7
<1> QED
  BY <1>2, <1>3, <1>5, <1>8, <1>9, <1>10, ConcatNoRepeat

-----------------------------------------------------------------------------
(* The scheduler's entry points                                            *)

SchedInv ==
  /\ SchedTypeOK
  /\ RunQueueMatchesStates
  /\ IdleOnlyWhenNothingRunnable

(* The state after boot                                                    *)
LEMMA SchedInitInv == SchedInit => SchedInv
<1> SUFFICES ASSUME SchedInit PROVE SchedInv
  OBVIOUS
<1>1. <<>> \in Seq(Thread) /\ IsInjective(<<>>) /\ Range(<<>>) = {}
  BY DEF IsInjective, Range
<1>2. state \in [Thread -> ThreadState] /\ schedInterrupted \in [Thread -> BOOLEAN]
  BY DEF SchedInit, ThreadState
<1>3. TimerQuantum \in 0 .. InitialQuantum
  BY QuantumAssumption DEF SchedInit
<1>4. SchedTypeOK
  BY <1>1, <1>2, <1>3 DEF SchedInit, SchedTypeOK
<1>5. RunQueueMatchesStates /\ IdleOnlyWhenNothingRunnable
  BY <1>1, ThreadAssumption
     DEF SchedInit, RunQueueMatchesStates, IdleOnlyWhenNothingRunnable, Queued
<1> QED
  BY <1>4, <1>5 DEF SchedInv

(* ProcDoSchedule takes the first thread off the queue it is given.        *)
LEMMA DoScheduleFacts ==
  ASSUME NEW queue \in Seq(Thread), IsInjective(queue), NEW User,
         TimerQuantum \in 0 .. InitialQuantum,
         DoSchedule(queue, User)
  PROVE  /\ threadQueue' \in Seq(Thread)
         /\ IsInjective(threadQueue')
         /\ currThread' \in Thread \cup {Idle}
         /\ TimerQuantum' \in 0 .. InitialQuantum
         /\ idleAwake' = FALSE
         /\ currThread' = Idle => threadQueue' = <<>>
         /\ currThread' \in Thread => currThread' \in Range(queue)
         /\ Range(threadQueue') = Range(queue) \ {currThread'}
<1>1. TimerQuantum' \in 0 .. InitialQuantum /\ idleAwake' = FALSE
  BY QuantumAssumption DEF DoSchedule
<1>2. CASE queue = <<>>
  <2>1. currThread' = Idle /\ threadQueue' = <<>>
    BY <1>2 DEF DoSchedule
  <2>2. Range(<<>>) = {} /\ IsInjective(<<>>) /\ <<>> \in Seq(Thread)
    BY DEF Range, IsInjective
  <2> QED
    BY <1>1, <1>2, <2>1, <2>2, ThreadAssumption
<1>3. CASE queue # <<>>
  <2>1. currThread' = Head(queue) /\ threadQueue' = Tail(queue)
    BY <1>3 DEF DoSchedule
  <2>2. /\ Head(queue) \in Thread /\ Head(queue) \in Range(queue)
        /\ Tail(queue) \in Seq(Thread) /\ IsInjective(Tail(queue))
        /\ Range(Tail(queue)) = Range(queue) \ {Head(queue)}
    BY <1>3, HeadTailNoRepeat
  <2> QED
    BY <1>1, <2>1, <2>2, ThreadAssumption
<1> QED
  BY <1>2, <1>3

(* ProcYield keeps the scheduler's invariant.                              *)
LEMMA YieldInv ==
  ASSUME SchedInv, currThread \in Thread, NEW User, Yield(User)
  PROVE  /\ SchedInv'
         /\ state' = state
         /\ \A t \in Thread \ {currThread} : schedInterrupted'[t] = schedInterrupted[t]
<1> USE DEF SchedInv, SchedTypeOK
<1>1. /\ state' = state
      /\ schedInterrupted' \in [Thread -> BOOLEAN]
      /\ \A t \in Thread \ {currThread} : schedInterrupted'[t] = schedInterrupted[t]
  BY DEF Yield
<1>2. CASE threadQueue = <<>>
  BY <1>1, <1>2, QuantumAssumption
     DEF Yield, RunQueueMatchesStates, IdleOnlyWhenNothingRunnable, Queued
<1>3. CASE threadQueue # <<>>
  <2> DEFINE queue == Append(threadQueue, currThread)
  <2>1. currThread \notin Range(threadQueue)
    BY DEF RunQueueMatchesStates, Queued
  <2>2. /\ queue \in Seq(Thread) /\ IsInjective(queue)
        /\ Range(queue) = Range(threadQueue) \cup {currThread}
    BY <2>1, AppendNoRepeat DEF RunQueueMatchesStates
  <2>3. DoSchedule(queue, User)
    BY <1>3 DEF Yield
  <2> HIDE DEF queue
  <2>4. /\ threadQueue' \in Seq(Thread) /\ IsInjective(threadQueue')
        /\ currThread' \in Thread \cup {Idle}
        /\ TimerQuantum' \in 0 .. InitialQuantum /\ idleAwake' = FALSE
        /\ currThread' = Idle => threadQueue' = <<>>
        /\ currThread' \in Thread => currThread' \in Range(queue)
        /\ Range(threadQueue') = Range(queue) \ {currThread'}
    BY <2>2, <2>3, DoScheduleFacts
  <2> QED
    BY <1>1, <2>2, <2>4
       DEF RunQueueMatchesStates, IdleOnlyWhenNothingRunnable, Queued
<1> QED
  BY <1>2, <1>3

(* Blocking and exiting: the current thread, which is not queued, leaves   *)
(* the processor in a state other than RUNNING.                            *)
LEMMA LeaveInv ==
  ASSUME SchedInv, currThread \in Thread, NEW User,
         NEW s \in ThreadState \ {"RUNNING"},
         state' = [state EXCEPT ![currThread] = s],
         schedInterrupted' \in [Thread -> BOOLEAN],
         DoSchedule(threadQueue, User)
  PROVE  /\ SchedInv'
         /\ currThread' # currThread
<1> USE DEF SchedInv, SchedTypeOK
<1>1. /\ threadQueue' \in Seq(Thread) /\ IsInjective(threadQueue')
      /\ currThread' \in Thread \cup {Idle}
      /\ TimerQuantum' \in 0 .. InitialQuantum /\ idleAwake' = FALSE
      /\ currThread' = Idle => threadQueue' = <<>>
      /\ currThread' \in Thread => currThread' \in Range(threadQueue)
      /\ Range(threadQueue') = Range(threadQueue) \ {currThread'}
  BY DoScheduleFacts DEF RunQueueMatchesStates
<1>2. currThread \notin Range(threadQueue)
  BY DEF RunQueueMatchesStates, Queued
<1> QED
  BY <1>1, <1>2, ThreadAssumption
     DEF RunQueueMatchesStates, IdleOnlyWhenNothingRunnable, Queued, ThreadState

(* ProcYieldBlock                                                          *)
LEMMA YieldBlockInv ==
  ASSUME SchedInv, currThread \in Thread, NEW User, NEW interruptable \in BOOLEAN,
         YieldBlock(interruptable, User)
  PROVE  SchedInv' /\ currThread' # currThread
<1> DEFINE s == IF interruptable THEN "INTR" ELSE "UNINTR"
<1>1. s \in ThreadState \ {"RUNNING"}
  BY DEF ThreadState
<1>2. /\ state' = [state EXCEPT ![currThread] = s]
      /\ schedInterrupted' \in [Thread -> BOOLEAN]
      /\ DoSchedule(threadQueue, User)
  BY DEF YieldBlock, SchedInv, SchedTypeOK
<1> HIDE DEF s
<1> QED
  BY <1>1, <1>2, LeaveInv

(* The end of ProcExitThread                                               *)
LEMMA SelfExitInv ==
  ASSUME SchedInv, currThread \in Thread, NEW User, SelfExit(User)
  PROVE  SchedInv' /\ currThread' # currThread
<1>1. "ZOMBIE" \in ThreadState \ {"RUNNING"}
  BY DEF ThreadState
<1>2. /\ state' = [state EXCEPT ![currThread] = "ZOMBIE"]
      /\ schedInterrupted' \in [Thread -> BOOLEAN]
      /\ DoSchedule(threadQueue, User)
  BY DEF SelfExit, SchedInv, SchedTypeOK
<1> QED
  BY <1>1, <1>2, LeaveInv

(* The idle thread's call of ProcDoSchedule                                *)
LEMMA IdleScheduleInv ==
  ASSUME SchedInv, NEW User, IdleSchedule(User)
  PROVE  SchedInv'
<1> USE DEF SchedInv, SchedTypeOK
<1>1. DoSchedule(threadQueue, User) /\ UNCHANGED <<state, schedInterrupted>>
      /\ currThread = Idle
  BY DEF IdleSchedule
<1>2. /\ threadQueue' \in Seq(Thread) /\ IsInjective(threadQueue')
      /\ currThread' \in Thread \cup {Idle}
      /\ TimerQuantum' \in 0 .. InitialQuantum /\ idleAwake' = FALSE
      /\ currThread' = Idle => threadQueue' = <<>>
      /\ currThread' \in Thread => currThread' \in Range(threadQueue)
      /\ Range(threadQueue') = Range(threadQueue) \ {currThread'}
  BY <1>1, DoScheduleFacts DEF RunQueueMatchesStates
<1> QED
  BY <1>1, <1>2, ThreadAssumption
     DEF RunQueueMatchesStates, IdleOnlyWhenNothingRunnable, Queued

(* The post-interrupt handlers, up to ProcSignalHandler                    *)
LEMMA IntrReturnInv ==
  ASSUME SchedInv, NEW User \in SUBSET Thread, IntrReturn(User)
  PROVE  SchedInv'
<1>1. currThread \in Thread
  BY DEF IntrReturn
<1>2. CASE TimerQuantum = 0
  BY <1>1, <1>2, YieldInv DEF IntrReturn
<1>3. CASE TimerQuantum # 0
  <2>1. UNCHANGED schedVars
    BY <1>3 DEF IntrReturn
  <2> QED
    BY <2>1 DEF schedVars, SchedInv, SchedTypeOK, RunQueueMatchesStates,
                IdleOnlyWhenNothingRunnable, Queued
<1> QED
  BY <1>2, <1>3

(* ProcWakeUpSig: the caller leaves the quantum alone or uses a tick of    *)
(* it, and an interrupted idle thread is awake.                            *)
LEMMA WakeUpSigInv ==
  ASSUME SchedInv, NEW t \in Thread, NEW isSignal \in BOOLEAN,
         WakeUpSig(t, isSignal),
         TimerQuantum' \in 0 .. InitialQuantum,
         idleAwake' = (idleAwake \/ currThread = Idle)
  PROVE  SchedInv'
<1> USE DEF SchedInv, SchedTypeOK
<1>1. schedInterrupted' \in [Thread -> BOOLEAN] /\ currThread' = currThread
      /\ idleAwake' \in BOOLEAN
  BY DEF WakeUpSig
<1>2. CASE Wakes(t, isSignal)
  <2>1. /\ state' = [state EXCEPT ![t] = "RUNNING"]
        /\ threadQueue' = Append(threadQueue, t)
        /\ state[t] # "RUNNING"
    BY <1>2 DEF WakeUpSig, Wakes
  <2>2. t \notin Range(threadQueue) /\ t # currThread
    BY <2>1 DEF RunQueueMatchesStates, Queued
  <2>3. /\ threadQueue' \in Seq(Thread) /\ IsInjective(threadQueue')
        /\ Range(threadQueue') = Range(threadQueue) \cup {t}
    BY <2>1, <2>2, AppendNoRepeat DEF RunQueueMatchesStates
  <2> QED
    BY <1>1, <2>1, <2>2, <2>3
       DEF RunQueueMatchesStates, IdleOnlyWhenNothingRunnable, Queued, ThreadState
<1>3. CASE ~Wakes(t, isSignal)
  <2>1. state' = state /\ threadQueue' = threadQueue
    BY <1>3 DEF WakeUpSig
  <2> QED
    BY <1>1, <2>1
       DEF RunQueueMatchesStates, IdleOnlyWhenNothingRunnable, Queued
<1> QED
  BY <1>2, <1>3

(* A listing of a finite set without repetitions lists all of it.          *)
LEMMA ListingFacts ==
  ASSUME NEW S, NEW W \in SUBSET S, IsFiniteSet(W),
         NEW s \in [1 .. Cardinality(W) -> W], IsInjective(s)
  PROVE  s \in Seq(S) /\ Range(s) = W
<1> DEFINE n == Cardinality(W)
<1>1. s \in [1 .. n -> W]
  OBVIOUS
<1>2. n \in Nat
  BY FS_CardinalityType
<1> HIDE DEF n
<1>3. IsFiniteSet(1 .. n) /\ Cardinality(1 .. n) = n
  BY <1>2, FS_Interval
<1>4. s \in Injection(1 .. n, W)
  BY <1>1 DEF Injection
<1>5. s \in Surjection(1 .. n, W)
  BY <1>3, <1>4, FS_Injection DEF n
<1>6. Range(s) = W
  BY <1>1, <1>5 DEF Surjection, Range
<1>7. s \in Seq(S)
  BY <1>1, <1>2, SeqDef
<1> QED
  BY <1>6, <1>7

(* So does one in the order of another list.                              *)
LEMMA InOrderOfFacts ==
  ASSUME NEW queue, NEW S, NEW W \in SUBSET S, IsFiniteSet(W),
         NEW s \in InOrderOf(queue, W)
  PROVE  s \in Seq(S) /\ IsInjective(s) /\ Range(s) = W
<1>1. s \in [1 .. Cardinality(W) -> W] /\ IsInjective(s)
  BY DEF InOrderOf
<1> QED
  BY <1>1, ListingFacts

(* A loop of ProcWakeUp over a set of threads                              *)
LEMMA WakeUpEachInv ==
  ASSUME SchedInv, NEW queue, NEW S \in SUBSET Thread, WakeUpEach(queue, S),
         TimerQuantum' \in 0 .. InitialQuantum,
         idleAwake' = (idleAwake \/ currThread = Idle)
  PROVE  SchedInv'
<1> USE DEF SchedInv, SchedTypeOK
<1> DEFINE W == {t \in S : Wakes(t, FALSE)}
<1>1. /\ schedInterrupted' \in [Thread -> BOOLEAN] /\ currThread' = currThread
      /\ state' \in [Thread -> ThreadState]
      /\ idleAwake' \in BOOLEAN
      /\ \A t \in Thread : state'[t] = IF t \in W THEN "RUNNING" ELSE state[t]
  BY DEF WakeUpEach, ThreadState
<1>2. PICK woken \in InOrderOf(queue, W) : threadQueue' = threadQueue \o woken
  BY DEF WakeUpEach
<1>3. IsFiniteSet(W)
  BY ThreadAssumption, FS_Subset
<1>4. W \subseteq Thread
  OBVIOUS
<1>5. \A t \in W : t \in Thread /\ state[t] # "RUNNING"
  BY DEF Wakes
<1> HIDE DEF W
<1>6. woken \in Seq(Thread) /\ IsInjective(woken) /\ Range(woken) = W
  BY <1>2, <1>3, <1>4, InOrderOfFacts
<1>7. W \cap Range(threadQueue) = {} /\ currThread \notin W
  BY <1>5 DEF RunQueueMatchesStates, Queued
<1>8. /\ threadQueue' \in Seq(Thread) /\ IsInjective(threadQueue')
      /\ Range(threadQueue') = Range(threadQueue) \cup W
  BY <1>2, <1>6, <1>7, ConcatNoRepeat DEF RunQueueMatchesStates
<1> QED
  BY <1>1, <1>5, <1>7, <1>8
     DEF RunQueueMatchesStates, IdleOnlyWhenNothingRunnable, Queued
=============================================================================
