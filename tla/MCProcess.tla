----------------------------- MODULE MCProcess -----------------------------
(***************************************************************************)
(* Instances of Process for TLC.  Slots of the same kind are               *)
(* interchangeable.                                                        *)
(***************************************************************************)
EXTENDS Process, TLC

CONSTANTS p1, p2, p3, t1, t2, t3

TwoProcs == {p1, p2}
ThreeProcs == {p1, p2, p3}
ThreeThreads == {Reaper, t1, t2, t3}
ProcessIds == Proc \cup {AnyId}

MCSymmetry == Permutations(Proc) \cup Permutations(Thread \ {Reaper})
=============================================================================
