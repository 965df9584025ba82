------------------------------- MODULE MCMemory -------------------------------
(***************************************************************************)
(* Instances of Memory for TLC.                                            *)
(***************************************************************************)
EXTENDS Memory, TLC

CONSTANTS c1, c2

TwoContexts == {c1, c2}

(* Pages in the zones MEM_DMA, MEM_KERNEL and MEM_HIGHMEM                  *)
SmallMachine == MEM_DMA :> 2 @@ MEM_KERNEL :> 2 @@ MEM_HIGHMEM :> 2

(* A region of either kind                                                 *)
AskedFor == {[start |-> 1, length |-> 1, writable |-> TRUE],
             [start |-> 2, length |-> 0, writable |-> FALSE]}

MCSymmetry == Permutations(Ctx)
=============================================================================
