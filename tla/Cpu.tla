-------------------------------- MODULE Cpu ---------------------------------
(***************************************************************************)
(* The processor under IntrHandler: threads that compute with the FPU,     *)
(* interrupts that call handlers, and the preemption at the end of an      *)
(* interrupt (interrupt.c with cpu.c).  Kernel code runs with interrupts   *)
(* off, so while IntrHandler walks a chain nothing else happens.           *)
(***************************************************************************)
EXTENDS Fpu, Interrupts

CONSTANTS MaxCalls       \* bound: threads made and reaped, handlers registered and removed

VARIABLES calls

vars == <<fpuVars, intrVars, calls>>

Init == FpuInit /\ IntrInit /\ calls = 0

Fine == Safe /\ ~stale

(* Threads and their use of the FPU.                                       *)
ThreadStep ==
  /\ Fine /\ ~Walking
  /\ (\E t \in Thread : Switch(t) \/ ExitThread(t)) \/ Compute \/ CpuNoFpuException
  /\ UNCHANGED <<intrVars, calls>>

Counted == calls < MaxCalls /\ calls' = calls + 1

(* The lives of threads.                                                   *)
LifeStep ==
  /\ Fine /\ ~Walking /\ Counted
  /\ \E t \in Thread : ProcIntReapThread(t) \/ CreateThread(t)
  /\ UNCHANGED intrVars

(* Registrations, by a thread or by the handler that is being called.      *)
RegisterStep ==
  /\ Fine /\ Counted
  /\ \E irq \in Irq, h \in Handler :
       (\E shared \in BOOLEAN : IntrRegister(irq, shared, h)) \/ IntrUnRegister(irq, h)
  /\ UNCHANGED fpuVars

(* An interrupt, and the walk along its handlers.                          *)
InterruptStep ==
  /\ Fine
  /\ (\E irq \in Irq : Interrupt(irq)) \/ (Walking /\ (NextEntry \/ StaleEntry))
  /\ UNCHANGED <<fpuVars, calls>>

(* The end of IntrHandler: a user thread may be preempted.                 *)
Return ==
  /\ Fine /\ Walking /\ LastEntry
  /\ EndOfInterrupt
  /\ UNCHANGED calls
  /\ \/ UNCHANGED fpuVars
     \/ ProcCurrThread \notin KernelThread /\ \E t \in Thread : Switch(t)

(* After undefined behaviour nothing is said, and the calls are bounded.   *)
Undefined == ~Fine /\ UNCHANGED vars

Finished == calls = MaxCalls /\ ~Walking /\ UNCHANGED vars

Next == ThreadStep \/ LifeStep \/ RegisterStep \/ InterruptStep \/ Return \/ Undefined \/ Finished

Spec == Init /\ [][Next]_vars
=============================================================================
