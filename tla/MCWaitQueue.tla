---------------------------- MODULE MCWaitQueue ----------------------------
(***************************************************************************)
(* Instances of WaitQueue for TLC: two user threads and one kernel thread. *)
(***************************************************************************)
EXTENDS WaitQueue, TLC

CONSTANTS u1, u2, k1, q1, q2

MCUserThread == {u1, u2}
MCThread == MCUserThread \cup {k1}
=============================================================================
