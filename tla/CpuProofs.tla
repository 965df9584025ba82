------------------------------ MODULE CpuProofs ------------------------------
(***************************************************************************)
(* Threads keep their FPU registers, the PICs agree with the dispatch      *)
(* table and no handler is passed over: for every set of threads, IRQs,    *)
(* handlers and entries, and any number of calls.                          *)
(***************************************************************************)
EXTENDS Cpu, SequenceTheorems, TLAPS

(* Who owns the registers finds its values there; everybody else finds     *)
(* them in its saved state.                                                *)
OwnerKept ==
  Safe /\ fpuCurrent \in Thread \ lost => registers = computed[fpuCurrent]

SavedKept ==
  Safe => \A t \in Thread \ (lost \cup {fpuCurrent}) :
            computed[t] = IF fpuState[t] = NoState THEN Initial ELSE fpuState[t]

(* TS is set unless the current thread owns the registers, or nobody does  *)
(* and the current thread has no values to find.                           *)
TrapsUnlessOwner ==
  Safe => IF ts THEN ProcCurrThread # fpuCurrent
          ELSE \/ fpuCurrent = ProcCurrThread
               \/ fpuCurrent = NoThread /\ ProcCurrThread \in KernelThread \cup lost

(* The inductive invariant of the FPU                                      *)
FpuInv ==
  /\ FpuTypeOK
  /\ status[ProcCurrThread] = "live"
  /\ OwnerKept
  /\ SavedKept
  /\ TrapsUnlessOwner

(* No two entries of a chain share their memory.                           *)
CellsOnce(entries) ==
  \A m, n \in DOMAIN entries : entries[m].cell = entries[n].cell => m = n

(* Where the walk is, the handlers still to be called are further on.      *)
MissingAhead ==
  Walking /\ ~stale /\ ~removed =>
    \E p \in Position : missing \subseteq {chain[walk.irq][n] : n \in p + 1 .. Len(chain[walk.irq])}

(* The inductive invariant of the interrupts.  IRQ 8 never arrives: its    *)
(* line stays masked.                                                      *)
IntrInv ==
  /\ IntrTypeOK
  /\ \A irq \in Irq \ {8} : LineOf(irq) \in unmasked <=> chain[irq] # <<>>
  /\ <<"slave", 0>> \notin unmasked
  /\ inService = IF Walking THEN InServiceFor(walk.irq) ELSE {}
  /\ \A irq \in Irq : CellsOnce(chain[irq])
  /\ MissingAhead

-----------------------------------------------------------------------------
(* The FPU                                                                 *)

(* At start up nobody owns the registers.                                  *)
LEMMA FpuInitInv == FpuInit => FpuInv
<1> SUFFICES ASSUME FpuInit PROVE FpuInv
  OBVIOUS
<1>1. FpuTypeOK
  <2>1. ProcCurrThread \in Thread
    BY FpuAssumption DEF FpuInit
  <2>2. Initial \in Values
    BY DEF Values
  <2>3. 0 \in 0 .. SWITCH_RANGE - 1
    BY FpuAssumption
  <2> QED
    BY <2>1, <2>2, <2>3 DEF FpuInit, FpuTypeOK
<1>2. status[ProcCurrThread] = "live"
  BY <1>1 DEF FpuInit, FpuTypeOK
<1>3. OwnerKept /\ SavedKept /\ TrapsUnlessOwner
  BY FpuAssumption DEF FpuInit, OwnerKept, SavedKept, TrapsUnlessOwner
<1> QED
  BY <1>1, <1>2, <1>3 DEF FpuInv

(* What a thread finds when it gets the registers: its own values.         *)
LEMMA StateOfIsComputed ==
  ASSUME FpuInv, Safe, NEW t \in Thread, t # fpuCurrent
  PROVE  /\ StateOf(t) \in Values
         /\ t \notin lost => StateOf(t) = computed[t]
<1>1. Saved[t] = fpuState[t]
  BY DEF Saved, FpuInv, FpuTypeOK
<1>2. Initial \in Values
  BY DEF Values
<1> QED
  BY <1>1, <1>2 DEF StateOf, FpuInv, FpuTypeOK, SavedKept

(* DoFpuSwitch saves the owner's values and loads those of t.              *)
LEMMA DoFpuSwitchKeeps ==
  ASSUME FpuInv, Safe, NEW t \in Thread, t # fpuCurrent, DoFpuSwitch(t),
         UNCHANGED <<computed, lost>>
  PROVE  /\ fpuCurrent' = t /\ unsafe' \in BOOLEAN
         /\ registers' \in Values
         /\ fpuState' \in [Thread -> Values \cup {NoState}]
         /\ fpuSwitches' \in [Thread -> 0 .. SWITCH_RANGE - 1]
         /\ OwnerKept' /\ SavedKept'
<1> USE DEF FpuInv, FpuTypeOK
<1>1. /\ unsafe' = ~CanSave
      /\ fpuState' = [Saved EXCEPT ![t] = StateOf(t)]
      /\ registers' = StateOf(t)
      /\ fpuSwitches' = [fpuSwitches EXCEPT ![t] = (@ + 1) % SWITCH_RANGE]
      /\ fpuCurrent' = t
  BY DEF DoFpuSwitch
<1>2. StateOf(t) \in Values /\ (t \notin lost => StateOf(t) = computed[t])
  BY StateOfIsComputed
<1>3. Saved \in [Thread -> Values \cup {NoState}]
  BY DEF Saved
<1>4. \A n \in 0 .. SWITCH_RANGE - 1 : (n + 1) % SWITCH_RANGE \in 0 .. SWITCH_RANGE - 1
  BY FpuAssumption
<1>5. unsafe' \in BOOLEAN
  BY <1>1
<1>6. /\ fpuState' \in [Thread -> Values \cup {NoState}]
      /\ fpuSwitches' \in [Thread -> 0 .. SWITCH_RANGE - 1]
  BY <1>1, <1>2, <1>3, <1>4
<1>7. OwnerKept'
  BY <1>1, <1>2 DEF OwnerKept
<1>8. SavedKept'
  <2>1. ASSUME NEW u \in Thread \ (lost \cup {t})
        PROVE  computed[u] = IF fpuState'[u] = NoState THEN Initial ELSE fpuState'[u]
    <3>1. fpuState'[u] = Saved[u]
      BY <1>1, <1>3
    <3>2. CASE u = fpuCurrent
      <4>1. fpuState'[u] = registers
        BY <3>1, <3>2, FpuAssumption DEF Saved
      <4>2. registers = computed[u]
        BY <3>2 DEF OwnerKept
      <4> QED
        BY <4>1, <4>2, NoStateAssumption
    <3>3. CASE u # fpuCurrent
      BY <3>1, <3>3 DEF Saved, SavedKept
    <3> QED
      BY <3>2, <3>3
  <2> QED
    BY <1>1, <2>1 DEF SavedKept
<1> QED
  BY <1>1, <1>2, <1>5, <1>6, <1>7, <1>8

(* The switch to thread t, with TS set or cleared by CpuTaskSwitched.      *)
LEMMA CpuTaskSwitchedKeeps ==
  ASSUME FpuInv, Safe, NEW t \in Thread, ProcCurrThread' = t, CpuTaskSwitched(t),
         status' \in [Thread -> {"live", "zombie", "freed"}], status'[t] = "live",
         UNCHANGED <<computed, lost>>
  PROVE  FpuInv'
<1> USE DEF FpuInv, FpuTypeOK
<1>1. CASE t = fpuCurrent
  <2>1. ts' = FALSE /\ UNCHANGED <<fpuCurrent, registers, fpuState, fpuSwitches, unsafe>>
    BY <1>1 DEF CpuTaskSwitched
  <2>2. FpuTypeOK'
    BY <2>1
  <2>3. OwnerKept' /\ SavedKept' /\ TrapsUnlessOwner'
    BY <1>1, <2>1 DEF OwnerKept, SavedKept, TrapsUnlessOwner, Safe
  <2> QED
    BY <2>2, <2>3
<1>2. CASE t # fpuCurrent /\ ts' = FALSE /\ DoFpuSwitch(t)
  <2>1. /\ fpuCurrent' = t /\ unsafe' \in BOOLEAN
        /\ registers' \in Values
        /\ fpuState' \in [Thread -> Values \cup {NoState}]
        /\ fpuSwitches' \in [Thread -> 0 .. SWITCH_RANGE - 1]
        /\ OwnerKept' /\ SavedKept'
    BY <1>2, DoFpuSwitchKeeps
  <2>2. TrapsUnlessOwner'
    BY <1>2, <2>1 DEF TrapsUnlessOwner
  <2> QED
    BY <1>2, <2>1, <2>2
<1>3. CASE /\ t # fpuCurrent /\ ts' = TRUE
           /\ UNCHANGED <<fpuCurrent, registers, fpuState, fpuSwitches, unsafe>>
  <2>1. OwnerKept' /\ SavedKept' /\ TrapsUnlessOwner'
    BY <1>3 DEF OwnerKept, SavedKept, TrapsUnlessOwner, Safe
  <2> QED
    BY <1>3, <2>1
<1> QED
  BY <1>1, <1>2, <1>3 DEF CpuTaskSwitched

(* Switching threads keeps the invariant, also when a thread ends.         *)
LEMMA SwitchInv ==
  ASSUME FpuInv, NEW t \in Thread, Switch(t) \/ ExitThread(t)
  PROVE  FpuInv'
<1>1. /\ Safe /\ ProcCurrThread' = t /\ CpuTaskSwitched(t) /\ UNCHANGED <<computed, lost>>
      /\ status[t] = "live" /\ t # ProcCurrThread
      /\ status' \in {status, [status EXCEPT ![ProcCurrThread] = "zombie"]}
  BY DEF Switch, ExitThread
<1>2. status' \in [Thread -> {"live", "zombie", "freed"}] /\ status'[t] = "live"
  BY <1>1 DEF FpuInv, FpuTypeOK
<1> QED
  BY <1>1, <1>2, CpuTaskSwitchedKeeps

(* An FPU instruction changes the registers of the current thread only.    *)
LEMMA ComputeInv ==
  ASSUME FpuInv, Compute
  PROVE  FpuInv'
<1> USE DEF FpuInv
<1>1. /\ Safe /\ ~ts /\ ProcCurrThread \notin KernelThread
      /\ registers' = Result(ProcCurrThread)
      /\ computed' = [computed EXCEPT ![ProcCurrThread] = Result(ProcCurrThread)]
      /\ lost' = IF fpuCurrent = ProcCurrThread THEN lost \ {ProcCurrThread} ELSE lost
      /\ UNCHANGED <<ProcCurrThread, status, fpuCurrent, ts, fpuState, fpuSwitches, unsafe>>
  BY DEF Compute, threadVars
<1>2. Result(ProcCurrThread) \in Values
  <2>1. ProcCurrThread \in Thread /\ computed[ProcCurrThread] \in Values
    BY DEF FpuTypeOK
  <2>2. \A v \in Values : v.value \in 0 .. 1
    BY DEF Values, Initial
  <2>3. \A n \in 0 .. 1 : 1 - n \in 0 .. 1
    OBVIOUS
  <2>4. 1 - computed[ProcCurrThread].value \in 0 .. 1
    BY <2>1, <2>2, <2>3
  <2> QED
    BY <2>1, <2>4 DEF Result, Values
<1>3. FpuTypeOK'
  BY <1>1, <1>2 DEF FpuTypeOK
<1>4. OwnerKept'
  BY <1>1, FpuAssumption DEF OwnerKept, TrapsUnlessOwner, FpuTypeOK, Safe
<1>5. \/ fpuCurrent = ProcCurrThread
      \/ fpuCurrent = NoThread /\ ProcCurrThread \in lost
  BY <1>1 DEF TrapsUnlessOwner
<1>6. SavedKept'
  BY <1>1, <1>5 DEF SavedKept, FpuTypeOK, Safe
<1>7. TrapsUnlessOwner'
  BY <1>1, <1>5 DEF TrapsUnlessOwner, Safe
<1> QED
  BY <1>1, <1>3, <1>4, <1>6, <1>7

(* The trap gives the current thread the registers.                        *)
LEMMA CpuNoFpuExceptionInv ==
  ASSUME FpuInv, CpuNoFpuException
  PROVE  FpuInv'
<1>1. /\ Safe /\ ProcCurrThread \in Thread /\ ProcCurrThread # fpuCurrent /\ ts' = FALSE
      /\ DoFpuSwitch(ProcCurrThread)
      /\ UNCHANGED <<ProcCurrThread, status, computed, lost>>
  BY DEF CpuNoFpuException, threadVars, FpuInv, FpuTypeOK
<1>2. /\ fpuCurrent' = ProcCurrThread /\ unsafe' \in BOOLEAN
      /\ registers' \in Values
      /\ fpuState' \in [Thread -> Values \cup {NoState}]
      /\ fpuSwitches' \in [Thread -> 0 .. SWITCH_RANGE - 1]
      /\ OwnerKept' /\ SavedKept'
  BY <1>1, DoFpuSwitchKeeps
<1>3. TrapsUnlessOwner'
  BY <1>1, <1>2 DEF TrapsUnlessOwner
<1> QED
  BY <1>1, <1>2, <1>3 DEF FpuInv, FpuTypeOK

(* Reaping a thread takes the FPU state of the thread that reaps it.       *)
LEMMA ReapInv ==
  ASSUME FpuInv, NEW z \in Thread, ProcIntReapThread(z)
  PROVE  FpuInv'
<1> USE DEF FpuInv
<1> DEFINE t == ProcCurrThread
<1>1. /\ Safe /\ status[z] = "zombie" /\ status' = [status EXCEPT ![z] = "freed"]
      /\ fpuCurrent' = IF t = fpuCurrent THEN NoThread ELSE fpuCurrent
      /\ fpuState' = [fpuState EXCEPT ![t] = NoState]
      /\ lost' = IF fpuState[t] # NoState \/ t = fpuCurrent THEN lost \cup {t} ELSE lost
      /\ UNCHANGED <<ProcCurrThread, ts, registers, fpuSwitches, computed, unsafe>>
  BY DEF ProcIntReapThread, CpuFreeFpuState
<1>2. FpuTypeOK' /\ status'[ProcCurrThread'] = "live"
  BY <1>1 DEF FpuTypeOK
<1>3. OwnerKept'
  BY <1>1, FpuAssumption DEF OwnerKept, FpuTypeOK, Safe
<1>4. SavedKept'
  BY <1>1 DEF SavedKept, FpuTypeOK, Safe
<1>5. TrapsUnlessOwner'
  BY <1>1, FpuAssumption DEF TrapsUnlessOwner, FpuTypeOK, Safe
<1> QED
  BY <1>2, <1>3, <1>4, <1>5

(* A new thread has the initial registers, or is lost.                     *)
LEMMA CreateThreadInv ==
  ASSUME FpuInv, NEW t \in Thread, CreateThread(t)
  PROVE  FpuInv'
<1> USE DEF FpuInv
<1>1. /\ Safe /\ status[t] = "freed" /\ status' = [status EXCEPT ![t] = "live"]
      /\ fpuState' = [fpuState EXCEPT ![t] = NoState]
      /\ fpuSwitches' = [fpuSwitches EXCEPT ![t] = 0]
      /\ computed' = [computed EXCEPT ![t] = Initial]
      /\ lost' = IF fpuCurrent = t THEN lost \cup {t} ELSE lost \ {t}
      /\ UNCHANGED <<ProcCurrThread, fpuCurrent, ts, registers, unsafe>>
  BY DEF CreateThread
<1>2. t # ProcCurrThread
  BY <1>1
<1>3. Initial \in Values /\ 0 \in 0 .. SWITCH_RANGE - 1
  BY FpuAssumption DEF Values
<1>4. FpuTypeOK' /\ status'[ProcCurrThread'] = "live"
  BY <1>1, <1>2, <1>3 DEF FpuTypeOK
<1>5. OwnerKept'
  BY <1>1 DEF OwnerKept, FpuTypeOK, Safe
<1>6. SavedKept'
  BY <1>1 DEF SavedKept, FpuTypeOK, Safe
<1>7. TrapsUnlessOwner'
  BY <1>1, <1>2 DEF TrapsUnlessOwner, Safe
<1> QED
  BY <1>4, <1>5, <1>6, <1>7

-----------------------------------------------------------------------------
(* Chains of entries                                                       *)

(* A chain with one more entry after the first                             *)
LEMMA WithSecondFacts ==
  ASSUME NEW s \in Seq(Entry), s # <<>>, NEW e \in Entry
  PROVE  /\ WithSecond(s, e) \in Seq(Entry) /\ Len(WithSecond(s, e)) = Len(s) + 1
         /\ WithSecond(s, e)[1] = s[1] /\ WithSecond(s, e)[2] = e
         /\ \A n \in 2 .. Len(s) : WithSecond(s, e)[n + 1] = s[n]
<1> DEFINE a == <<s[1], e>>
           b == Tail(s)
<1>1. Len(s) \in Nat \ {0} /\ s[1] \in Entry
  BY EmptySeq, LenProperties, ElementOfSeq
<1>2. a \in Seq(Entry) /\ Len(a) = 2 /\ a[1] = s[1] /\ a[2] = e
  BY <1>1
<1>3. b \in Seq(Entry) /\ Len(b) = Len(s) - 1 /\ \A n \in 1 .. Len(s) - 1 : b[n] = s[n + 1]
  BY <1>1, HeadTailProperties
<1>4. WithSecond(s, e) = a \o b
  BY DEF WithSecond
<1> HIDE DEF a, b
<1>5. /\ a \o b \in Seq(Entry) /\ Len(a \o b) = Len(s) + 1
      /\ \A n \in 1 .. Len(s) + 1 : (a \o b)[n] = IF n <= 2 THEN a[n] ELSE b[n - 2]
  <2>1. /\ a \o b \in Seq(Entry) /\ Len(a \o b) = Len(a) + Len(b)
        /\ \A n \in 1 .. Len(a) + Len(b) : (a \o b)[n] = IF n <= Len(a) THEN a[n] ELSE b[n - Len(a)]
    BY <1>2, <1>3, ConcatProperties
  <2>2. Len(a) = 2 /\ Len(a) + Len(b) = Len(s) + 1
    BY <1>1, <1>2, <1>3
  <2> QED
    BY <2>1, <2>2
<1>6. ASSUME NEW n \in 2 .. Len(s)
      PROVE  (a \o b)[n + 1] = s[n]
  <2>1. n + 1 \in 1 .. Len(s) + 1 /\ ~(n + 1 <= 2) /\ n - 1 \in 1 .. Len(s) - 1
        /\ (n + 1) - 2 = n - 1 /\ (n - 1) + 1 = n
    BY <1>1
  <2> QED
    BY <2>1, <1>3, <1>5
<1> QED
  BY <1>1, <1>2, <1>4, <1>5, <1>6, SMTT(20)

(* A chain without one of its entries: its first entry is in the table.    *)
LEMMA WithoutFacts ==
  ASSUME NEW s \in Seq(Entry), NEW n \in DOMAIN s, CellsOnce(s), s[1].cell = TableCell
  PROVE  /\ Without(s, n) \in Seq(Entry) /\ Len(Without(s, n)) = Len(s) - 1
         /\ Without(s, n) # <<>> => Without(s, n)[1].cell = TableCell
         /\ CellsOnce(Without(s, n))
<1>1. Len(s) \in Nat /\ DOMAIN s = 1 .. Len(s) /\ n \in 1 .. Len(s)
      /\ \A k \in 1 .. Len(s) : s[k] \in Entry
  BY LenProperties, ElementOfSeq
<1>2. CASE n = 1 /\ Len(s) = 1
  <2>1. Without(s, n) = <<>>
    BY <1>2 DEF Without
  <2>2. Len(<<>>) = Len(s) - 1
    BY <1>2
  <2>3. <<>> \in Seq(Entry) /\ CellsOnce(<<>>)
    BY DEF CellsOnce
  <2> QED
    BY <2>1, <2>2, <2>3
<1>3. CASE n = 1 /\ Len(s) # 1
  <2> DEFINE e == [s[2] EXCEPT !.cell = TableCell]
             a == <<e>>
             b == SubSeq(s, 3, Len(s))
  <2>1. 2 \in 1 .. Len(s) /\ s[2] \in Entry
    BY <1>1, <1>3
  <2>2. e \in Entry /\ e.cell = TableCell
    BY <2>1 DEF Entry
  <2> HIDE DEF e
  <2>3. a \in Seq(Entry) /\ Len(a) = 1 /\ a[1] = e
    BY <2>2
  <2>4. b \in Seq(Entry) /\ Len(b) = Len(s) - 2 /\ \A k \in 1 .. Len(s) - 2 : b[k] = s[k + 2]
    <3>1. 3 \in Int /\ Len(s) \in Int /\ \A k \in 3 .. Len(s) : s[k] \in Entry
      BY <1>1
    <3>2. /\ b \in Seq(Entry) /\ Len(b) = IF 3 <= Len(s) THEN Len(s) - 3 + 1 ELSE 0
          /\ \A k \in 1 .. Len(s) - 3 + 1 : b[k] = s[3 + k - 1]
      BY <3>1, SubSeqProperties
    <3>3. /\ Len(s) - 3 + 1 = Len(s) - 2 /\ (~(3 <= Len(s)) => Len(s) - 2 = 0)
          /\ \A k \in 1 .. Len(s) - 2 : 3 + k - 1 = k + 2
      BY <1>1, <2>1
    <3> QED
      BY <3>2, <3>3
  <2>5. Without(s, n) = a \o b
    BY <1>3 DEF Without, e
  <2> HIDE DEF a, b
  <2>6. /\ a \o b \in Seq(Entry) /\ Len(a \o b) = Len(s) - 1
        /\ \A k \in 1 .. Len(s) - 1 : (a \o b)[k] = IF k <= 1 THEN a[k] ELSE b[k - 1]
    <3>1. /\ a \o b \in Seq(Entry) /\ Len(a \o b) = Len(a) + Len(b)
          /\ \A k \in 1 .. Len(a) + Len(b) : (a \o b)[k] = IF k <= Len(a) THEN a[k] ELSE b[k - Len(a)]
      BY <2>3, <2>4, ConcatProperties
    <3>2. Len(a) = 1 /\ Len(a) + Len(b) = Len(s) - 1
      BY <1>1, <2>1, <2>3, <2>4
    <3> QED
      BY <3>1, <3>2
  <2>7. DOMAIN (a \o b) = 1 .. Len(s) - 1
    BY <2>6, LenProperties
  <2>8. (a \o b)[1].cell = TableCell
    BY <1>1, <2>1, <2>2, <2>3, <2>6
  <2>9. \A k \in 2 .. Len(s) - 1 : (a \o b)[k] = s[k + 1]
    <3> TAKE k \in 2 .. Len(s) - 1
    <3>1. k \in 1 .. Len(s) - 1 /\ ~(k <= 1) /\ k - 1 \in 1 .. Len(s) - 2 /\ (k - 1) + 2 = k + 1
      BY <1>1
    <3> QED
      BY <3>1, <2>4, <2>6
  <2>10. ASSUME NEW k \in 1 .. Len(s) - 1
         PROVE  (a \o b)[k].cell = s[IF k = 1 THEN 1 ELSE k + 1].cell
    <3>1. CASE k = 1
      BY <2>8, <3>1
    <3>2. CASE k # 1
      <4>1. k \in 2 .. Len(s) - 1
        BY <1>1, <3>2
      <4> QED
        BY <2>9, <3>2, <4>1
    <3> QED
      BY <3>1, <3>2
  <2>11. CellsOnce(a \o b)
    <3>1. ASSUME NEW k \in 1 .. Len(s) - 1, NEW l \in 1 .. Len(s) - 1,
                 (a \o b)[k].cell = (a \o b)[l].cell
          PROVE  k = l
      <4> DEFINE i == IF k = 1 THEN 1 ELSE k + 1
                 j == IF l = 1 THEN 1 ELSE l + 1
      <4>1. s[i].cell = s[j].cell
        BY <2>10, <3>1
      <4>2. i \in DOMAIN s /\ j \in DOMAIN s
        BY <1>1
      <4> HIDE DEF i, j
      <4>3. i = j
        BY <4>1, <4>2 DEF CellsOnce
      <4> QED
        BY <1>1, <4>3 DEF i, j
    <3> QED
      BY <3>1, <2>7 DEF CellsOnce
  <2> QED
    BY <2>5, <2>6, <2>8, <2>11
<1>4. CASE n # 1
  <2> DEFINE a == SubSeq(s, 1, n - 1)
             b == SubSeq(s, n + 1, Len(s))
  <2>1. a \in Seq(Entry) /\ Len(a) = n - 1 /\ \A k \in 1 .. n - 1 : a[k] = s[k]
    BY <1>1, SubSeqProperties
  <2>2. b \in Seq(Entry) /\ Len(b) = Len(s) - n /\ \A k \in 1 .. Len(s) - n : b[k] = s[n + k]
    BY <1>1, SubSeqProperties
  <2>3. Without(s, n) = a \o b
    BY <1>4 DEF Without
  <2> HIDE DEF a, b
  <2>4. /\ a \o b \in Seq(Entry) /\ Len(a \o b) = Len(s) - 1
        /\ \A k \in 1 .. Len(s) - 1 : (a \o b)[k] = IF k <= n - 1 THEN a[k] ELSE b[k - (n - 1)]
    <3>1. /\ a \o b \in Seq(Entry) /\ Len(a \o b) = Len(a) + Len(b)
          /\ \A k \in 1 .. Len(a) + Len(b) : (a \o b)[k] = IF k <= Len(a) THEN a[k] ELSE b[k - Len(a)]
      BY <2>1, <2>2, ConcatProperties
    <3>2. Len(a) = n - 1 /\ Len(a) + Len(b) = Len(s) - 1
      BY <1>1, <2>1, <2>2
    <3> QED
      BY <3>1, <3>2
  <2>5. DOMAIN (a \o b) = 1 .. Len(s) - 1
    BY <2>4, LenProperties
  <2>6. \A k \in 1 .. Len(s) - 1 : (a \o b)[k] = IF k < n THEN s[k] ELSE s[k + 1]
    <3> TAKE k \in 1 .. Len(s) - 1
    <3>1. CASE k < n
      BY <1>1, <2>1, <2>4, <3>1
    <3>2. CASE ~(k < n)
      <4>1. ~(k <= n - 1) /\ k - (n - 1) \in 1 .. Len(s) - n /\ n + (k - (n - 1)) = k + 1
        BY <1>1, <3>2
      <4> QED
        BY <3>2, <4>1, <2>2, <2>4
    <3> QED
      BY <3>1, <3>2
  <2>7. CellsOnce(a \o b)
    <3>1. ASSUME NEW k \in 1 .. Len(s) - 1, NEW l \in 1 .. Len(s) - 1,
                 (a \o b)[k].cell = (a \o b)[l].cell
          PROVE  k = l
      <4> DEFINE i == IF k < n THEN k ELSE k + 1
                 j == IF l < n THEN l ELSE l + 1
      <4>1. s[i].cell = s[j].cell
        BY <2>6, <3>1
      <4>2. i \in DOMAIN s /\ j \in DOMAIN s
        BY <1>1
      <4> HIDE DEF i, j
      <4>3. i = j
        BY <4>1, <4>2 DEF CellsOnce
      <4> QED
        BY <1>1, <4>3 DEF i, j
    <3> QED
      BY <3>1, <2>5 DEF CellsOnce
  <2>8. 1 \in 1 .. Len(s) - 1 /\ 1 < n
    BY <1>1, <1>4
  <2> QED
    BY <2>3, <2>4, <2>6, <2>7, <2>8
<1> QED
  BY <1>2, <1>3, <1>4

-----------------------------------------------------------------------------
(* Interrupts                                                              *)

(* IntrInit leaves everything masked and the chains empty.                 *)
LEMMA IntrInitInv == IntrInit => IntrInv
<1> SUFFICES ASSUME IntrInit PROVE IntrInv
  OBVIOUS
<1>1. IntrTypeOK
  <2>1. Cascade \in Line
    BY DEF Cascade, Line
  <2>2. \A irq \in Irq : <<>> \in Seq(Entry)
    OBVIOUS
  <2> QED
    BY <2>1, <2>2 DEF IntrInit, IntrTypeOK
<1>2. \A irq \in Irq : LineOf(irq) # Cascade
  BY InterruptsAssumption DEF LineOf, Cascade
<1>3. <<"slave", 0>> # Cascade
  BY DEF Cascade
<1>4. ~Walking
  BY DEF IntrInit, Walking
<1>5. CellsOnce(<<>>)
  BY DEF CellsOnce
<1> QED
  BY <1>1, <1>2, <1>3, <1>4, <1>5 DEF IntrInit, IntrInv, MissingAhead

(* The line of an IRQ, and the mask bit that the code computes for it.     *)
LEMMA LineFacts ==
  ASSUME NEW irq \in Irq
  PROVE  /\ LineOf(irq) \in Line
         /\ MaskBits(irq) = IF irq = 8 THEN {} ELSE {LineOf(irq)}
         /\ LineOf(irq) = <<"slave", 0>> <=> irq = 8
         /\ \A other \in Irq : LineOf(other) = LineOf(irq) => other = irq
<1>1. irq \in 0 .. 15 /\ \A other \in Irq : other \in 0 .. 15
  BY InterruptsAssumption
<1>2. LineOf(irq) \in Line
  <2>1. CASE irq >= 8
    <3>1. irq - 8 \in 0 .. 7
      BY <1>1, <2>1
    <3> QED
      BY <2>1, <3>1 DEF LineOf, Line
  <2>2. CASE ~(irq >= 8)
    <3>1. irq \in 0 .. 7
      BY <1>1, <2>2
    <3> QED
      BY <2>2, <3>1 DEF LineOf, Line
  <2> QED
    BY <2>1, <2>2
<1>3. MaskBits(irq) = IF irq = 8 THEN {} ELSE {LineOf(irq)}
  BY <1>1 DEF MaskBits, LineOf
<1>4. LineOf(irq) = <<"slave", 0>> <=> irq = 8
  BY <1>1 DEF LineOf
<1>5. \A other \in Irq : LineOf(other) = LineOf(irq) => other = irq
  BY <1>1 DEF LineOf
<1> QED
  BY <1>2, <1>3, <1>4, <1>5

(* During a walk, walk.irq is an IRQ.                                      *)
LEMMA WalkFacts ==
  ASSUME IntrTypeOK
  PROVE  /\ Walking => walk.irq \in Irq
         /\ ~Walking => walk.irq \notin Irq
BY InterruptsAssumption DEF IntrTypeOK, Walking, NoWalk

(* A registration or removal that changes the chain of one IRQ.            *)
LEMMA ChainStep ==
  ASSUME IntrInv, NEW irq \in Irq, NEW s \in Seq(Entry), CellsOnce(s),
         s # <<>> => s[1].cell = TableCell,
         chain' = [chain EXCEPT ![irq] = s],
         unmasked' = IF s = <<>> THEN unmasked \ MaskBits(irq) ELSE unmasked \cup MaskBits(irq),
         removed' \in BOOLEAN, removed => removed',
         walk.irq = irq => removed' \/ MissingAhead',
         UNCHANGED <<inService, walk, missing, stale>>
  PROVE  IntrInv'
<1> USE DEF IntrInv
<1>1. MaskBits(irq) = IF irq = 8 THEN {} ELSE {LineOf(irq)}
  BY LineFacts
<1>2. LineOf(irq) \in Line
  BY LineFacts
<1>3. \A other \in Irq : chain'[other] = IF other = irq THEN s ELSE chain[other]
  BY DEF IntrTypeOK
<1>4. IntrTypeOK'
  <2>1. chain' \in [Irq -> Seq(Entry)]
    BY DEF IntrTypeOK
  <2>2. unmasked' \subseteq Line
    BY <1>1, <1>2 DEF IntrTypeOK
  <2>3. \A other \in Irq : chain'[other] # <<>> => chain'[other][1].cell = TableCell
    BY <1>3 DEF IntrTypeOK
  <2> QED
    BY <2>1, <2>2, <2>3 DEF IntrTypeOK
<1>5. \A other \in Irq \ {8} : LineOf(other) \in unmasked' <=> chain'[other] # <<>>
  <2> TAKE other \in Irq \ {8}
  <2>1. CASE other = irq
    BY <1>1, <1>3, <2>1
  <2>2. CASE other # irq
    <3>1. LineOf(other) \notin MaskBits(irq)
      BY <1>1, <2>2, LineFacts
    <3> QED
      BY <1>3, <2>2, <3>1
  <2> QED
    BY <2>1, <2>2
<1>6. <<"slave", 0>> \notin unmasked'
  BY <1>1, LineFacts
<1>7. Walking' = Walking
  BY DEF Walking
<1>8. inService' = IF Walking' THEN InServiceFor(walk'.irq) ELSE {}
  BY <1>7
<1>9. \A other \in Irq : CellsOnce(chain'[other])
  BY <1>3
<1>10. MissingAhead'
  <2>1. CASE walk.irq = irq
    BY <2>1 DEF MissingAhead
  <2>2. CASE walk.irq # irq
    <3>1. Walking => chain'[walk.irq] = chain[walk.irq]
      BY <1>3, <2>2, WalkFacts
    <3> QED
      BY <1>7, <3>1 DEF MissingAhead, Position
  <2> QED
    BY <2>1, <2>2
<1> QED
  BY <1>4, <1>5, <1>6, <1>8, <1>9, <1>10

(* Registering a handler: the first of its IRQ, or one more entry after    *)
(* the first.  A walk under way still has its handlers ahead of it.        *)
LEMMA RegisterInv ==
  ASSUME IntrInv, NEW irq \in Irq, NEW shared \in BOOLEAN, NEW h \in Handler,
         IntrRegister(irq, shared, h)
  PROVE  IntrInv'
<1> USE DEF IntrInv
<1>1. CASE chain[irq] = <<>>
  <2> DEFINE e == [handler |-> h, shared |-> shared, cell |-> TableCell]
  <2>1. /\ chain' = [chain EXCEPT ![irq] = <<e>>]
        /\ unmasked' = unmasked \cup MaskBits(irq)
        /\ UNCHANGED <<inService, walk, missing, removed, stale>>
    BY <1>1 DEF IntrRegister
  <2>2. e \in Entry /\ e.cell = TableCell
    BY DEF Entry
  <2> HIDE DEF e
  <2>3. <<e>> \in Seq(Entry) /\ <<e>> # <<>> /\ <<e>>[1] = e /\ CellsOnce(<<e>>)
    BY <2>2 DEF CellsOnce
  <2>4. walk.irq = irq => removed' \/ MissingAhead'
    BY <1>1, <2>1 DEF MissingAhead, Position, Walking
  <2>5. removed' \in BOOLEAN
    BY <2>1 DEF IntrTypeOK
  <2> QED
    BY <2>1, <2>2, <2>3, <2>4, <2>5, ChainStep
<1>2. CASE chain[irq] # <<>>
  <2>1. PICK c \in FreeCell :
          chain' = [chain EXCEPT ![irq] =
                      WithSecond(@, [handler |-> h, shared |-> shared, cell |-> c])]
    BY <1>2 DEF IntrRegister
  <2> DEFINE e == [handler |-> h, shared |-> shared, cell |-> c]
             r == chain[irq]
             s == WithSecond(r, e)
  <2>2. UNCHANGED <<unmasked, inService, walk, missing, removed, stale>>
    BY <1>2 DEF IntrRegister
  <2>3. e \in Entry /\ e.cell = c /\ \A n \in DOMAIN r : r[n].cell # c
    BY DEF Entry, FreeCell
  <2>4. r \in Seq(Entry) /\ r # <<>> /\ r[1].cell = TableCell /\ CellsOnce(r)
    BY <1>2 DEF IntrTypeOK
  <2>5. chain' = [chain EXCEPT ![irq] = s]
    BY <2>1
  <2> HIDE DEF e, r
  <2>6. /\ s \in Seq(Entry) /\ Len(s) = Len(r) + 1 /\ s[1] = r[1] /\ s[2] = e
        /\ \A n \in 2 .. Len(r) : s[n + 1] = r[n]
    BY <2>3, <2>4, WithSecondFacts
  <2>7. /\ Len(r) \in Nat \ {0} /\ DOMAIN r = 1 .. Len(r)
        /\ DOMAIN s = 1 .. Len(r) + 1
    BY <2>4, <2>6, LenProperties, EmptySeq
  <2>8. s # <<>>
    BY <2>6, <2>7, EmptySeq
  <2> HIDE DEF s
  <2>9. CellsOnce(s)
    <3>1. ASSUME NEW m \in DOMAIN s, NEW n \in DOMAIN s, s[m].cell = s[n].cell, m < n
          PROVE  FALSE
      <4>1. CASE m = 1 /\ n = 2
        BY <2>3, <2>6, <2>7, <3>1, <4>1
      <4>2. CASE m = 1 /\ n # 2
        <5>1. n - 1 \in 2 .. Len(r) /\ (n - 1) + 1 = n /\ n - 1 \in DOMAIN r /\ 1 \in DOMAIN r
          BY <2>7, <3>1, <4>2
        <5>2. r[1].cell = r[n - 1].cell
          BY <2>6, <3>1, <4>2, <5>1
        <5>3. n - 1 = 1
          BY <2>4, <5>1, <5>2 DEF CellsOnce
        <5> QED
          BY <5>1, <5>3
      <4>3. CASE m = 2
        <5>1. n - 1 \in 2 .. Len(r) /\ (n - 1) + 1 = n /\ n - 1 \in DOMAIN r
          BY <2>7, <3>1, <4>3
        <5> QED
          BY <2>3, <2>6, <3>1, <4>3, <5>1
      <4>4. CASE m # 1 /\ m # 2
        <5>1. /\ n - 1 \in 2 .. Len(r) /\ (n - 1) + 1 = n /\ n - 1 \in DOMAIN r
              /\ m - 1 \in 2 .. Len(r) /\ (m - 1) + 1 = m /\ m - 1 \in DOMAIN r
          BY <2>7, <3>1, <4>4
        <5>2. r[m - 1].cell = r[n - 1].cell
          BY <2>6, <3>1, <5>1
        <5>3. m - 1 = n - 1
          BY <2>4, <5>1, <5>2 DEF CellsOnce
        <5> QED
          BY <2>7, <3>1, <5>3
      <4> QED
        BY <4>1, <4>2, <4>3, <4>4
    <3>2. \A m, n \in DOMAIN s : m < n \/ n < m \/ m = n
      BY <2>7
    <3> QED
      BY <3>1, <3>2 DEF CellsOnce
  <2>10. s[1].cell = TableCell
    BY <2>4, <2>6
  <2>11. unmasked' = unmasked \cup MaskBits(irq)
    BY <2>2, <2>4, LineFacts DEF r
  <2>12. ASSUME walk.irq = irq, Walking', ~stale', ~removed'
         PROVE  \E p \in Position' :
                  missing' \subseteq {chain'[walk'.irq][n] : n \in p + 1 .. Len(chain'[walk'.irq])}
    <3>1. Walking /\ ~stale /\ ~removed /\ chain[walk.irq] = r /\ chain'[walk'.irq] = s
      BY <2>2, <2>5, <2>12 DEF Walking, r, IntrTypeOK
    <3>2. PICK p \in DOMAIN r : /\ r[p].cell = walk.cell
                                /\ missing \subseteq {r[n] : n \in p + 1 .. Len(r)}
      BY <3>1 DEF MissingAhead, Position
    <3> DEFINE q == IF p = 1 THEN 1 ELSE p + 1
    <3>3. q \in DOMAIN s
      BY <2>7
    <3>4. s[q].cell = walk.cell
      <4>1. p = 1 \/ p \in 2 .. Len(r)
        BY <2>7
      <4> QED
        BY <2>6, <3>2, <4>1
    <3>5. ASSUME NEW n \in p + 1 .. Len(r)
          PROVE  r[n] = s[n + 1] /\ n + 1 \in q + 1 .. Len(s)
      <4>1. n \in 2 .. Len(r) /\ n + 1 \in q + 1 .. Len(s)
        BY <2>6, <2>7
      <4> QED
        BY <2>6, <4>1
    <3> HIDE DEF q
    <3>6. missing \subseteq {s[n] : n \in q + 1 .. Len(s)}
      BY <3>2, <3>5
    <3>7. q \in Position'
      BY <2>2, <3>1, <3>3, <3>4 DEF Position
    <3> QED
      BY <2>2, <3>1, <3>6, <3>7
  <2>13. walk.irq = irq => removed' \/ MissingAhead'
    BY <2>12 DEF MissingAhead
  <2>14. removed' \in BOOLEAN
    BY <2>2 DEF IntrTypeOK
  <2> QED
    BY <2>2, <2>5, <2>6, <2>8, <2>9, <2>10, <2>11, <2>13, <2>14, ChainStep
<1> QED
  BY <1>1, <1>2

(* Unregistering a handler, also by a handler during a walk.               *)
LEMMA UnRegisterInv ==
  ASSUME IntrInv, NEW irq \in Irq, NEW h \in Handler, IntrUnRegister(irq, h)
  PROVE  IntrInv'
<1> USE DEF IntrInv
<1> DEFINE r == chain[irq]
<1>1. PICK n \in DOMAIN r :
        /\ chain' = [chain EXCEPT ![irq] = Without(@, n)]
        /\ unmasked' = IF Len(r) = 1 THEN unmasked \ MaskBits(irq) ELSE unmasked
        /\ removed' = (removed \/ walk.irq = irq)
        /\ UNCHANGED <<inService, walk, missing, stale>>
  BY DEF IntrUnRegister
<1> DEFINE s == Without(r, n)
<1>2. r \in Seq(Entry) /\ CellsOnce(r) /\ (r # <<>> => r[1].cell = TableCell)
  BY DEF IntrTypeOK
<1>3. r # <<>> /\ Len(r) \in Nat
  BY <1>2, LenProperties
<1>4. chain' = [chain EXCEPT ![irq] = s]
  BY <1>1
<1>5. MaskBits(irq) \subseteq unmasked
  BY <1>3, LineFacts
<1> HIDE DEF r
<1>6. /\ s \in Seq(Entry) /\ Len(s) = Len(r) - 1 /\ CellsOnce(s)
      /\ s # <<>> => s[1].cell = TableCell
  BY <1>2, <1>3, WithoutFacts
<1>7. s = <<>> <=> Len(r) = 1
  BY <1>3, <1>6, EmptySeq
<1> HIDE DEF s
<1>8. unmasked' = IF s = <<>> THEN unmasked \ MaskBits(irq) ELSE unmasked \cup MaskBits(irq)
  BY <1>1, <1>5, <1>7
<1>9. removed' \in BOOLEAN /\ (removed => removed') /\ (walk.irq = irq => removed')
  BY <1>1 DEF IntrTypeOK
<1> QED
  BY <1>1, <1>4, <1>6, <1>8, <1>9, ChainStep

(* An interrupt arrives: all its handlers but the first are ahead.         *)
LEMMA InterruptInv ==
  ASSUME IntrInv, NEW irq \in Irq, Interrupt(irq)
  PROVE  IntrInv'
<1> USE DEF IntrInv
<1>1. /\ LineOf(irq) \in unmasked
      /\ inService' = InServiceFor(irq)
      /\ walk' = [irq |-> irq, cell |-> TableCell]
      /\ missing' = {chain[irq][n] : n \in 2 .. Len(chain[irq])}
      /\ removed' = FALSE
      /\ UNCHANGED <<chain, unmasked, stale>>
  BY DEF Interrupt
<1>2. irq # 8
  BY <1>1, LineFacts
<1>3. chain[irq] \in Seq(Entry) /\ chain[irq] # <<>> /\ chain[irq][1].cell = TableCell
  BY <1>1, <1>2 DEF IntrTypeOK
<1>4. DOMAIN chain[irq] = 1 .. Len(chain[irq]) /\ 1 \in DOMAIN chain[irq]
      /\ \A n \in 2 .. Len(chain[irq]) : chain[irq][n] \in Entry
  BY <1>3, LenProperties, EmptySeq, ElementOfSeq
<1>5. LineOf(irq) \in Line /\ Cascade \in Line
  BY LineFacts DEF Cascade, Line
<1>6. IntrTypeOK'
  BY <1>1, <1>4, <1>5 DEF IntrTypeOK, InServiceFor
<1>7. walk'.irq = irq /\ walk'.cell = TableCell
  BY <1>1
<1>8. Walking'
  BY <1>7, InterruptsAssumption DEF Walking, NoWalk
<1>9. 1 \in Position'
  BY <1>1, <1>3, <1>4, <1>7 DEF Position
<1>10. missing' = {chain'[walk'.irq][n] : n \in 1 + 1 .. Len(chain'[walk'.irq])}
  <2>1. chain'[walk'.irq] = chain[irq]
    BY <1>1, <1>7
  <2>2. 1 + 1 = 2
    OBVIOUS
  <2> QED BY ONLY <1>1, <2>1, <2>2
<1>11. MissingAhead'
  BY <1>9, <1>10 DEF MissingAhead
<1> QED
  BY <1>1, <1>6, <1>7, <1>8, <1>11

(* The walk goes on to the next entry, or from a freed one.                *)
LEMMA NextEntryInv ==
  ASSUME IntrInv, Walking, NextEntry \/ StaleEntry
  PROVE  IntrInv'
<1> USE DEF IntrInv
<1>1. CASE StaleEntry
  <2>1. stale' = TRUE /\ UNCHANGED <<chain, unmasked, inService, walk, missing, removed>>
    BY <1>1 DEF StaleEntry
  <2>2. IntrTypeOK'
    BY <2>1 DEF IntrTypeOK
  <2>3. MissingAhead' /\ Walking'
    BY <2>1 DEF MissingAhead, Walking
  <2> QED
    BY <2>1, <2>2, <2>3
<1>2. CASE NextEntry
  <2> DEFINE r == chain[walk.irq]
  <2>1. PICK n \in Position :
          /\ n < Len(r)
          /\ walk' = [walk EXCEPT !.cell = r[n + 1].cell]
          /\ missing' = missing \ {r[n + 1]}
          /\ UNCHANGED <<chain, unmasked, inService, removed, stale>>
    BY <1>2 DEF NextEntry
  <2>2. walk.irq \in Irq /\ walk \in [irq : Irq, cell : Cell \cup {TableCell}]
    BY WalkFacts DEF Walking, IntrTypeOK
  <2>3. r \in Seq(Entry) /\ CellsOnce(r)
    BY <2>2 DEF IntrTypeOK
  <2>4. n \in DOMAIN r /\ r[n].cell = walk.cell
    BY DEF Position
  <2> HIDE DEF r
  <2>5. Len(r) \in Nat /\ DOMAIN r = 1 .. Len(r) /\ \A k \in DOMAIN r : r[k] \in Entry
    BY <2>3, LenProperties, ElementOfSeq
  <2>6. n \in Nat /\ n + 1 \in DOMAIN r
    BY <2>1, <2>4, <2>5
  <2>7. r[n + 1].cell \in Cell \cup {TableCell}
    BY <2>5, <2>6 DEF Entry
  <2>8. walk' \in [irq : Irq, cell : Cell \cup {TableCell}]
        /\ walk'.irq = walk.irq /\ walk'.cell = r[n + 1].cell
    BY <2>1, <2>2, <2>7
  <2>9. IntrTypeOK'
    BY <2>1, <2>8 DEF IntrTypeOK
  <2>10. Walking'
    BY <2>2, <2>8, InterruptsAssumption DEF Walking, NoWalk
  <2>11. n + 1 \in Position'
    BY <2>1, <2>6, <2>8 DEF Position, r
  <2>12. ASSUME ~stale', ~removed'
         PROVE  missing' \subseteq {r[k] : k \in (n + 1) + 1 .. Len(r)}
    <3>1. PICK p \in DOMAIN r : /\ r[p].cell = walk.cell
                                /\ missing \subseteq {r[k] : k \in p + 1 .. Len(r)}
      BY <2>1, <2>12 DEF MissingAhead, Position, r
    <3>2. p = n
      BY <2>3, <2>4, <3>1 DEF CellsOnce
    <3>3. \A k \in n + 1 .. Len(r) : k = n + 1 \/ k \in (n + 1) + 1 .. Len(r)
      BY <2>5, <2>6
    <3> QED
      BY <2>1, <3>1, <3>2, <3>3
  <2>13. MissingAhead'
    BY <2>1, <2>8, <2>11, <2>12 DEF MissingAhead, r
  <2> QED
    BY <2>1, <2>8, <2>9, <2>10, <2>13
<1> QED
  BY <1>1, <1>2

(* The end of the interrupt: both PICs are told.                           *)
LEMMA EndOfInterruptInv ==
  ASSUME IntrInv, Walking, EndOfInterrupt
  PROVE  IntrInv'
<1> USE DEF IntrInv
<1>1. /\ inService' = inService \ Acknowledged(walk.irq)
      /\ walk' = NoWalk /\ missing' = {} /\ removed' = FALSE
      /\ UNCHANGED <<chain, unmasked, stale>>
  BY DEF EndOfInterrupt
<1>2. inService' = {} /\ ~Walking'
  BY <1>1 DEF Acknowledged, InServiceFor, Walking
<1>3. IntrTypeOK'
  BY <1>1, <1>2 DEF IntrTypeOK
<1> QED
  BY <1>1, <1>2, <1>3 DEF MissingAhead

-----------------------------------------------------------------------------
(* The processor                                                           *)

IInv == FpuInv /\ IntrInv

(* The FPU does not depend on the interrupts, nor they on it.              *)
LEMMA Unchanged ==
  /\ FpuInv /\ UNCHANGED fpuVars => FpuInv'
  /\ IntrInv /\ UNCHANGED intrVars => IntrInv'
<1>1. FpuInv /\ UNCHANGED fpuVars => FpuInv'
  BY DEF FpuInv, fpuVars, threadVars, FpuTypeOK, OwnerKept, SavedKept, TrapsUnlessOwner, Safe
<1>2. IntrInv /\ UNCHANGED intrVars => IntrInv'
  BY DEF IntrInv, intrVars, IntrTypeOK, MissingAhead, Walking, Position
<1> QED
  BY <1>1, <1>2

(* Every step keeps both invariants.                                       *)
LEMMA NextIInv == IInv /\ [Next]_vars => IInv'
<1> SUFFICES ASSUME IInv, [Next]_vars PROVE IInv'
  OBVIOUS
<1> USE DEF IInv
<1>1. CASE ThreadStep
  <2>1. FpuInv'
    BY <1>1, SwitchInv, ComputeInv, CpuNoFpuExceptionInv DEF ThreadStep
  <2> QED
    BY <1>1, <2>1, Unchanged DEF ThreadStep
<1>2. CASE LifeStep
  BY <1>2, ReapInv, CreateThreadInv, Unchanged DEF LifeStep
<1>3. CASE RegisterStep
  BY <1>3, RegisterInv, UnRegisterInv, Unchanged DEF RegisterStep
<1>4. CASE InterruptStep
  BY <1>4, InterruptInv, NextEntryInv, Unchanged DEF InterruptStep
<1>5. CASE Return
  <2>1. IntrInv'
    BY <1>5, EndOfInterruptInv DEF Return
  <2>2. FpuInv'
    BY <1>5, SwitchInv, Unchanged DEF Return
  <2> QED
    BY <2>1, <2>2
<1>6. CASE UNCHANGED vars
  BY <1>6, Unchanged DEF vars
<1> QED
  BY <1>1, <1>2, <1>3, <1>4, <1>5, <1>6 DEF Next, Undefined, Finished

(* A user thread finds its own values in the FPU registers whenever its    *)
(* next FPU instruction does not trap, whatever the other threads compute  *)
(* and whoever is reaped; and an instruction that traps is never taken for *)
(* an error (CpuTaskSwitched, DoFpuSwitch, CpuNoFpuException).             *)
THEOREM RegistersKept == Spec => []KeepsRegisters
<1>1. Init => IInv
  BY FpuInitInv, IntrInitInv DEF Init, IInv
<1>2. IInv => KeepsRegisters
  BY DEF IInv, FpuInv, KeepsRegisters, OwnerKept, TrapsUnlessOwner, FpuTypeOK
<1> QED
  BY <1>1, <1>2, NextIInv, PTL DEF Spec

(* The masks of the PICs match the registered handlers, and no interrupt   *)
(* is left unacknowledged (IntrRegister, IntrUnRegister, IntrHandler).     *)
THEOREM PicCorrect == Spec => []PicMatchesTable
<1>1. Init => IInv
  BY FpuInitInv, IntrInitInv DEF Init, IInv
<1>2. IInv => PicMatchesTable
  BY DEF IInv, IntrInv, PicMatchesTable
<1> QED
  BY <1>1, <1>2, NextIInv, PTL DEF Spec

(* IntrHandler reaches every handler registered when the interrupt came,   *)
(* however many are registered while it walks the chain.                   *)
THEOREM HandlersAllCalled == Spec => []NoHandlerMissed
<1>1. Init => IInv
  BY FpuInitInv, IntrInitInv DEF Init, IInv
<1>2. IInv => NoHandlerMissed
  <2> SUFFICES ASSUME IInv, Walking, ~stale, ~removed, LastEntry PROVE missing = {}
    BY DEF NoHandlerMissed
  <2> DEFINE r == chain[walk.irq]
  <2>1. walk.irq \in Irq /\ r \in Seq(Entry)
    BY WalkFacts DEF IInv, IntrInv, IntrTypeOK
  <2>2. PICK p \in Position : missing \subseteq {r[n] : n \in p + 1 .. Len(r)}
    BY DEF IInv, IntrInv, MissingAhead
  <2>3. p \in DOMAIN r /\ r # <<>>
    BY DEF Position
  <2>4. p = Len(r) /\ Len(r) \in Nat
    BY <2>1, <2>3, LenProperties DEF LastEntry
  <2>5. p + 1 .. Len(r) = {}
    BY <2>4
  <2> QED
    BY <2>2, <2>5
<1> QED
  BY <1>1, <1>2, NextIInv, PTL DEF Spec
=============================================================================
