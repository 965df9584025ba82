-------------------------------- MODULE Vfs ---------------------------------
(***************************************************************************)
(* Mounted file systems (Mounts) and the device file system (DevFs)        *)
(* together.                                                               *)
(***************************************************************************)
EXTENDS DevFs

VfsVars == <<mountsVars, devFsVars, calls>>

Init == MountsInit /\ DevFsInit

(* The bound is reached and every call has returned.                       *)
Finished ==
  /\ calls = MaxCalls
  /\ \A t \in Thread : call[t] = Idle
  /\ \A h \in Handle : handle[h] = NoHandle
  /\ UNCHANGED VfsVars

(* Nothing is said of what follows once the mounts are broken.             *)
Undefined == broken /\ UNCHANGED VfsVars

Next ==
  \/ MountsNext /\ UNCHANGED devFsVars
  \/ ~broken /\ Running = {} /\ DevFsNext /\ UNCHANGED mountsVars
  \/ Finished
  \/ Undefined

Spec == Init /\ [][Next]_VfsVars
=============================================================================
