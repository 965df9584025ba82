------------------------------ MODULE MCTimer ------------------------------
(***************************************************************************)
(* Instances of Timer for TLC: two user threads of different processes and *)
(* one kernel thread.                                                      *)
(***************************************************************************)
EXTENDS Timer, TLC

CONSTANTS u1, u2, k1, p1, p2

MCUserThread == {u1, u2}
MCThread == MCUserThread \cup {k1}
MCProcOf == (u1 :> p1) @@ (u2 :> p2)
MCSymmetry == {f \in Permutations({u1, u2, p1, p2}) :
                 \A t \in MCUserThread : f[t] \in MCUserThread /\ f[MCProcOf[t]] = MCProcOf[f[t]]}
=============================================================================
