------------------------------- MODULE MCVfs --------------------------------
(***************************************************************************)
(* An instance of PathLookup for TLC: a disk file system with a directory, *)
(* a directory in it and a file, on one of two devices, and devfs.         *)
(***************************************************************************)
EXTENDS PathLookup

CONSTANTS disk, d1, d2, d3, d4

MCNameOf == (d1 :> "a") @@ (d2 :> "b") @@ (d3 :> "c") @@ (d4 :> "b")

MCDirectories == (disk :> {0, 1}) @@ (DevFsType :> {0})

MCMountable == {<<disk, d1>>, <<disk, d2>>, <<DevFsType, NoDevice>>}

MCEntry ==
  (<<0, "d">> :> 1) @@ (<<1, "..">> :> 0) @@ (<<0, "..">> :> 0) @@ (<<0, "f">> :> 2)

MCAttributes ==
  [i \in 0 .. 2 |-> [uid |-> 1, gid |-> 1, owner |-> {"r"}, group |-> {"x"}, world |-> {"r", "x"}]]

MCUser == [euid |-> 2, egid |-> 1]

(* Threads and opened files are alike.                                     *)
MCSymmetry == Permutations(Thread) \cup Permutations(Handle)
=============================================================================
