------------------------------- MODULE MCCpu --------------------------------
(* Cpu for TLC: a kernel thread and two user threads, an IRQ of each PIC,  *)
(* two handlers and memory for two entries.                                *)
EXTENDS Cpu, TLC

CONSTANTS idle, t1, t2, h1, h2, c1, c2, none

MCThread == {idle, t1, t2}

MCKernelThread == {idle}

MCIrq == {1, 9}

MCHandler == {h1, h2}

MCCell == {c1, c2}

Symmetry == Permutations({t1, t2}) \cup Permutations({h1, h2}) \cup Permutations({c1, c2})
=============================================================================
