-------------------------------- MODULE Fpu ---------------------------------
(***************************************************************************)
(* The lazily switched FPU registers (cpu.c): whose values they hold, the  *)
(* state saved for each thread, and the TS bit that makes the first use    *)
(* after a task switch trap.  The scheduler calls CpuTaskSwitched at every *)
(* switch, and ProcIntReapThread calls CpuFreeFpuState.                    *)
(*                                                                         *)
(* ProcIntReapThread gives CpuFreeFpuState the reaping thread, not the     *)
(* thread that is reaped.  lost holds the threads whose registers this     *)
(* takes away, and the new threads that get the structure of a reaped      *)
(* thread while fpuCurrent still points to it.  Saving the registers       *)
(* through the pointer to a freed structure, or to a NULL state, sets      *)
(* unsafe, and nothing is said of what follows.                            *)
(***************************************************************************)
EXTENDS Integers

CONSTANTS Thread,
          KernelThread,              \* the threads of the kernel process: they compute no FPU values
          NoThread, NoState,
          CPU_FPU_SWITCH_THRESHOLD,
          SWITCH_RANGE               \* the number of values of the unsigned char fpuSwitches

ASSUME FpuAssumption ==
  /\ KernelThread \subseteq Thread /\ KernelThread # {}
  /\ NoThread \notin Thread
  /\ CPU_FPU_SWITCH_THRESHOLD \in 1 .. SWITCH_RANGE - 1
  /\ SWITCH_RANGE \in Nat

VARIABLES
  ProcCurrThread,
  status,            \* of each thread structure: "live", "zombie" or "freed"
  fpuCurrent,
  ts,                \* the TS bit of CR0
  registers,         \* the values in the FPU registers
  fpuState,          \* ProcThread.fpuState: the values saved for each thread
  fpuSwitches,       \* ProcThread.fpuSwitches
  computed,          \* the values that each thread's own instructions left
  lost,              \* the threads that are not given their own values
  unsafe

threadVars == <<ProcCurrThread, status>>

fpuVars == <<threadVars, fpuCurrent, ts, registers, fpuState, fpuSwitches, computed, lost, unsafe>>

(* What registers can hold: the initial state, or one of two values that   *)
(* a thread computes in turn.                                              *)
Initial == [thread |-> NoThread, value |-> 0]

Values == {Initial} \cup [thread : Thread, value : 0 .. 1]

ASSUME NoStateAssumption == NoState \notin Values

FpuTypeOK ==
  /\ ProcCurrThread \in Thread
  /\ status \in [Thread -> {"live", "zombie", "freed"}]
  /\ fpuCurrent \in Thread \cup {NoThread}
  /\ ts \in BOOLEAN
  /\ registers \in Values
  /\ fpuState \in [Thread -> Values \cup {NoState}]
  /\ fpuSwitches \in [Thread -> 0 .. SWITCH_RANGE - 1]
  /\ computed \in [Thread -> Values]
  /\ lost \subseteq Thread
  /\ unsafe \in BOOLEAN

(* The processor clears TS at start up, in the first kernel thread.        *)
FpuInit ==
  /\ ProcCurrThread \in KernelThread
  /\ status = [t \in Thread |-> "live"]
  /\ fpuCurrent = NoThread
  /\ ts = FALSE
  /\ registers = Initial
  /\ fpuState = [t \in Thread |-> NoState]
  /\ fpuSwitches = [t \in Thread |-> 0]
  /\ computed = [t \in Thread |-> Initial]
  /\ lost = {}
  /\ unsafe = FALSE

(* fpuCurrent may be saved to: its structure and its state exist.          *)
CanSave == fpuCurrent # NoThread => status[fpuCurrent] # "freed" /\ fpuState[fpuCurrent] # NoState

(* Mutant: the registers are not saved.                                    *)
SavedNot == fpuState

(* The states once the registers are saved, and what t has in its own.     *)
Saved ==
  IF fpuCurrent = NoThread THEN fpuState ELSE [fpuState EXCEPT ![fpuCurrent] = registers]

StateOf(t) == IF Saved[t] = NoState THEN Initial ELSE Saved[t]

(* DoFpuSwitch for thread t, which is the current thread by now.           *)
DoFpuSwitch(t) ==
  /\ unsafe' = ~CanSave
  /\ fpuState' = [Saved EXCEPT ![t] = StateOf(t)]
  /\ registers' = StateOf(t)
  /\ fpuSwitches' = [fpuSwitches EXCEPT ![t] = (@ + 1) % SWITCH_RANGE]
  /\ fpuCurrent' = t

(* CpuTaskSwitched, when t has become the current thread.                  *)
CpuTaskSwitched(t) ==
  \/ /\ t = fpuCurrent
     /\ ts' = FALSE
     /\ UNCHANGED <<fpuCurrent, registers, fpuState, fpuSwitches, unsafe>>
  \/ /\ t # fpuCurrent
     /\ fpuSwitches[t] >= CPU_FPU_SWITCH_THRESHOLD
     /\ ts' = FALSE
     /\ DoFpuSwitch(t)
  \/ /\ t # fpuCurrent
     /\ fpuSwitches[t] < CPU_FPU_SWITCH_THRESHOLD
     /\ ts' = TRUE
     /\ UNCHANGED <<fpuCurrent, registers, fpuState, fpuSwitches, unsafe>>

Safe == ~unsafe

(* The scheduler switches to another thread.                               *)
Switch(t) ==
  /\ Safe /\ status[t] = "live" /\ t # ProcCurrThread
  /\ ProcCurrThread' = t
  /\ CpuTaskSwitched(t)
  /\ UNCHANGED <<status, computed, lost>>

(* ProcExitThread and ProcIntSelfExit: the thread becomes a zombie and     *)
(* another one runs.                                                       *)
ExitThread(t) ==
  /\ Safe /\ status[t] = "live" /\ t # ProcCurrThread
  /\ ProcCurrThread \notin KernelThread
  /\ status' = [status EXCEPT ![ProcCurrThread] = "zombie"]
  /\ ProcCurrThread' = t
  /\ CpuTaskSwitched(t)
  /\ UNCHANGED <<computed, lost>>

(* An FPU instruction of the current thread, in user mode.  Its values are *)
(* its own again from here on if fpuCurrent says so.                       *)
Result(t) == [thread |-> t, value |-> 1 - computed[t].value]

Compute ==
  /\ Safe /\ ~ts /\ ProcCurrThread \notin KernelThread
  /\ registers' = Result(ProcCurrThread)
  /\ computed' = [computed EXCEPT ![ProcCurrThread] = Result(ProcCurrThread)]
  /\ lost' = IF fpuCurrent = ProcCurrThread THEN lost \ {ProcCurrThread} ELSE lost
  /\ UNCHANGED <<threadVars, fpuCurrent, ts, fpuState, fpuSwitches, unsafe>>

(* The instruction traps instead.  CpuNoFpuException gives the thread its  *)
(* registers, and SIGFPE when it seems to have them.                       *)
CpuNoFpuException ==
  /\ Safe /\ ts /\ ProcCurrThread \notin KernelThread
  /\ ProcCurrThread # fpuCurrent
  /\ ts' = FALSE
  /\ DoFpuSwitch(ProcCurrThread)
  /\ UNCHANGED <<threadVars, computed, lost>>

(* CpuFreeFpuState for thread t.                                           *)
CpuFreeFpuState(t) ==
  /\ fpuCurrent' = IF t = fpuCurrent THEN NoThread ELSE fpuCurrent
  /\ fpuState' = [fpuState EXCEPT ![t] = NoState]
  /\ lost' = IF fpuState[t] # NoState \/ t = fpuCurrent THEN lost \cup {t} ELSE lost

(* ProcIntReapThread: the current thread reaps zombie z.                   *)
ProcIntReapThread(z) ==
  /\ Safe /\ status[z] = "zombie"
  /\ status' = [status EXCEPT ![z] = "freed"]
  /\ CpuFreeFpuState(ProcCurrThread)
  /\ UNCHANGED <<ProcCurrThread, ts, registers, fpuSwitches, computed, unsafe>>

(* A new thread gets the zeroed structure of a thread that was reaped.     *)
CreateThread(t) ==
  /\ Safe /\ status[t] = "freed"
  /\ status' = [status EXCEPT ![t] = "live"]
  /\ fpuState' = [fpuState EXCEPT ![t] = NoState]
  /\ fpuSwitches' = [fpuSwitches EXCEPT ![t] = 0]
  /\ computed' = [computed EXCEPT ![t] = Initial]
  /\ lost' = IF fpuCurrent = t THEN lost \cup {t} ELSE lost \ {t}
  /\ UNCHANGED <<ProcCurrThread, fpuCurrent, ts, registers, unsafe>>

-----------------------------------------------------------------------------
(* A user thread whose next FPU instruction does not trap finds its own    *)
(* values in the registers: what its last instruction left, whoever used   *)
(* the FPU since, and the initial state before the first one.  Only the    *)
(* threads in lost are excepted.  If the instruction does trap, the thread *)
(* does not own the registers, so that CpuNoFpuException never sends       *)
(* SIGFPE to a thread for using the FPU.                                   *)
KeepsRegisters ==
  /\ FpuTypeOK
  /\ (Safe /\ ~ts /\ ProcCurrThread \notin KernelThread \cup lost)
        => registers = computed[ProcCurrThread]
  /\ Safe /\ ts => ProcCurrThread # fpuCurrent
=============================================================================
