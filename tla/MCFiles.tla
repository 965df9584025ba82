------------------------------ MODULE MCFiles ------------------------------
(***************************************************************************)
(* Instances of Files for TLC: two threads of a process and one of the     *)
(* process that it forks.                                                  *)
(***************************************************************************)
EXTENDS Files, TLC

CONSTANTS t1, t2, t3, c1, c2

MCHomeOf == (t1 :> c1) @@ (t2 :> c1) @@ (t3 :> c2)

MCSymmetry == Permutations({t1, t2})
=============================================================================
