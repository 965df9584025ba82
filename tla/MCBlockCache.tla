---------------------------- MODULE MCBlockCache ----------------------------
(***************************************************************************)
(* Instances of BlockCache for TLC.                                        *)
(***************************************************************************)
EXTENDS BlockCache, TLC

MCRequest(op, off, length, val) ==
  [op |-> op, off |-> off, length |-> length, val |-> val]

(* With blocks of two cells: parts of a block, a whole block, and requests *)
(* that go on into the next block.                                         *)
MCRequests == {MCRequest("read", 1, 2, 0), MCRequest("lock", 0, 1, 0),
               MCRequest("write", 0, 1, 1), MCRequest("write", 0, 2, 0)}

MCSymmetry == Permutations(Thread)
=============================================================================
