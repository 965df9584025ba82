------------------------------- MODULE Mounts -------------------------------
(***************************************************************************)
(* File system types and mounted file systems (io/mount.c): which types    *)
(* are found, and the tree of mounts with its counts and locks, when       *)
(* several threads mount and unmount.  A type's mount and a file system's  *)
(* umount are the places where a thread gives up the processor.            *)
(*                                                                         *)
(* broken is set when the code goes on with a pointer it may not use: the  *)
(* NULL device of a file system without one, the uninitialized newFs of a  *)
(* mount that failed, or a file system that is mounted onto, or unmounted  *)
(* again, while its umount is in progress.  Nothing is said of what        *)
(* follows.                                                                *)
(***************************************************************************)
EXTENDS Integers, FiniteSets

CONSTANTS Thread, Type, Device, Fs, INode,
          NoDevice, NoFs, NoType,
          RootINode,     \* IoFilesystem.rootINode, of every file system
          Directories,   \* [Type -> SUBSET INode], its directories
          Mountable,     \* the pairs of a type and a device (or NoDevice) that are mounted
          Blocking,      \* the types whose mount and umount are implemented, block and can fail
          MaxCalls       \* bound: calls made in all

ASSUME MountsAssumption ==
  /\ NoDevice \notin Device /\ NoFs \notin Fs /\ NoType \notin Type
  /\ Mountable \subseteq Type \X (Device \cup {NoDevice})
  /\ Directories \in [Type -> SUBSET INode] /\ Blocking \subseteq Type
  /\ RootINode \in INode /\ MaxCalls \in Nat

VARIABLES
  fsTypeHead,        \* the type that the list fsTypeHead leads to
  linked,            \* the types whose list node points to fsTypeHead
  typeRefCount,      \* IoFilesystemType.refCount
  mounted,           \* IoDevice.mounted
  fs,                \* the IoFilesystem objects: type, device, parent, its iNode, refCount
  mountPoints,       \* IoFilesystem.mountPoints: the file systems in it
  IoFilesystemRoot,
  call,              \* the call of each thread and the file system it is about
  calls,             \* calls made
  broken

typeVars == <<fsTypeHead, linked>>

mountVars == <<typeRefCount, mounted, fs, mountPoints, IoFilesystemRoot>>

mountsVars == <<typeVars, mountVars, call, broken>>

(* A call more, within the bound.                                          *)
Counted == calls < MaxCalls /\ calls' = calls + 1

NoObject == [type |-> NoType, device |-> NoDevice, parentFs |-> NoFs,
             parentINode |-> RootINode, refCount |-> 0]

FsObject == [type : Type \cup {NoType}, device : Device \cup {NoDevice},
             parentFs : Fs \cup {NoFs}, parentINode : INode, refCount : Nat]

Idle == [op |-> "idle", fs |-> NoFs]

MountsTypeOK ==
  /\ fsTypeHead \in Type \cup {NoType} /\ linked \subseteq Type
  /\ typeRefCount \in [Type -> Nat]
  /\ mounted \in [Device -> BOOLEAN]
  /\ fs \in [Fs -> FsObject]
  /\ mountPoints \in [Fs -> SUBSET Fs]
  /\ IoFilesystemRoot \in Fs \cup {NoFs}
  /\ call \in [Thread -> [op : {"idle", "mount", "mountRoot", "unmount", "discard"},
                          fs : Fs \cup {NoFs}]]
  /\ calls \in 0 .. MaxCalls /\ broken \in BOOLEAN

MountsInit ==
  /\ fsTypeHead = NoType /\ linked = {}
  /\ typeRefCount = [type \in Type |-> 0]
  /\ mounted = [d \in Device |-> FALSE]
  /\ fs = [f \in Fs |-> NoObject]
  /\ mountPoints = [f \in Fs |-> {}]
  /\ IoFilesystemRoot = NoFs
  /\ call = [t \in Thread |-> Idle]
  /\ calls = 0 /\ broken = FALSE

-----------------------------------------------------------------------------
(* IoFilesystemRegister.  The list is emptied first, and the head is added *)
(* to the node: a node that still points to the head empties it again.     *)
IoFilesystemRegister(type) ==
  /\ fsTypeHead # type
  /\ fsTypeHead' = IF type \in linked THEN NoType ELSE type
  /\ linked' = linked \cup {type}
  /\ UNCHANGED <<mountVars, call, broken>>

(* IoFilesystemUnRegister: ListDelete does not reset the node.             *)
IoFilesystemUnRegister(type) ==
  /\ typeRefCount[type] = 0
  /\ fsTypeHead' = IF type \in linked THEN NoType ELSE fsTypeHead
  /\ UNCHANGED <<linked, mountVars, call, broken>>

-----------------------------------------------------------------------------
Allocated == {f \in Fs : fs[f].type # NoType}

(* File systems that a lookup can reach.                                   *)
Attached == {f \in Allocated : f = IoFilesystemRoot \/ \E g \in Allocated : f \in mountPoints[g]}

(* Another thread is between the check and the end of unmounting f.        *)
Leaving(f) == \E u \in Thread : call[u].op \in {"unmount", "discard"} /\ call[u].fs = f

MountedAt(parent, iNode) == {f \in mountPoints[parent] : fs[f].parentINode = iNode}

(* "Lock device"                                                           *)
LockDevice(device) ==
  IF device = NoDevice THEN mounted ELSE [mounted EXCEPT ![device] = TRUE]

(* IoFilesystemMountInternal up to type->mount: the device and the type    *)
(* are locked and the file system is allocated.                            *)
MountInternal(t, op, type, device, parent, iNode) ==
  \E f \in Fs \ Allocated :
    /\ f = CHOOSE g \in Fs : g \notin Allocated
    /\ mounted' = LockDevice(device)
    /\ typeRefCount' = [typeRefCount EXCEPT ![type] = @ + 1]
    /\ fs' = [g \in Fs |->
                IF g = f THEN [type |-> type, device |-> device, parentFs |-> parent,
                               parentINode |-> iNode, refCount |-> 0]
                ELSE IF g = parent THEN [fs[g] EXCEPT !.refCount = @ + 1]
                ELSE fs[g]]
    /\ call' = [call EXCEPT ![t] = [op |-> op, fs |-> f]]

(* The device is already mounted: the failure path of the callers unmounts *)
(* the newFs that was never set.                                           *)
Busy(device) == device # NoDevice /\ mounted[device]

(* IoFilesystemMount up to type->mount.                                    *)
IoFilesystemMount(t, type, device, parent, iNode) ==
  /\ call[t] = Idle
  /\ parent \in Attached /\ iNode \in Directories[fs[parent].type]
  /\ MountedAt(parent, iNode) = {}
  /\ IF Busy(device)
     THEN broken' = TRUE /\ UNCHANGED <<mounted, typeRefCount, fs, call>>
     ELSE /\ MountInternal(t, "mount", type, device, parent, iNode)
          /\ broken' = (broken \/ Leaving(parent))
  /\ UNCHANGED <<typeVars, mountPoints, IoFilesystemRoot>>

(* IoFilesystemMountRoot up to type->mount.                                *)
IoFilesystemMountRoot(t, type, device) ==
  /\ call[t] = Idle
  /\ IoFilesystemRoot = NoFs
  /\ IF Busy(device)
     THEN broken' = TRUE /\ UNCHANGED <<mounted, typeRefCount, fs, call>>
     ELSE MountInternal(t, "mountRoot", type, device, NoFs, RootINode) /\ UNCHANGED broken
  /\ UNCHANGED <<typeVars, mountPoints, IoFilesystemRoot>>

(* type->mount fails: the callers unmount a newFs that was never set.      *)
MountFails(t) ==
  /\ call[t].op \in {"mount", "mountRoot"} /\ fs[call[t].fs].type \in Blocking
  /\ broken' = TRUE
  /\ UNCHANGED <<typeVars, mountVars, call>>

(* Whether HashTableInsert finds no other file system on the iNode.        *)
Inserts(f) == MountedAt(fs[f].parentFs, fs[f].parentINode) = {}

(* The end of IoFilesystemMount.                                           *)
MountDone(t) ==
  LET f == call[t].fs
  IN  /\ call[t].op = "mount"
      /\ IF Inserts(f)
         THEN /\ mountPoints' = [mountPoints EXCEPT ![fs[f].parentFs] = @ \cup {f}]
              /\ call' = [call EXCEPT ![t] = Idle]
         ELSE /\ call' = [call EXCEPT ![t].op = "discard"]
              /\ UNCHANGED mountPoints
      /\ UNCHANGED <<typeVars, typeRefCount, mounted, fs, IoFilesystemRoot, broken>>

(* The end of IoFilesystemMountRoot.                                       *)
MountRootDone(t) ==
  /\ call[t].op = "mountRoot"
  /\ IF IoFilesystemRoot = NoFs
     THEN IoFilesystemRoot' = call[t].fs /\ call' = [call EXCEPT ![t] = Idle]
     ELSE call' = [call EXCEPT ![t].op = "discard"] /\ UNCHANGED IoFilesystemRoot
  /\ UNCHANGED <<typeVars, typeRefCount, mounted, fs, mountPoints, broken>>

(* Mutant: the count is not looked at.                                     *)
InUseByMounts(f) == mountPoints[f] # {}

(* "Check if filesystem is in use"                                         *)
InUse(f) == fs[f].refCount > 0 \/ mountPoints[f] # {}

(* IoFilesystemUnMount up to ops->umount.                                  *)
IoFilesystemUnMount(t, f) ==
  /\ call[t] = Idle
  /\ f \in Attached /\ ~InUse(f)
  /\ call' = [call EXCEPT ![t] = [op |-> "unmount", fs |-> f]]
  /\ broken' = (broken \/ Leaving(f))
  /\ UNCHANGED <<typeVars, mountVars>>

(* ops->umount fails: the file system stays.                               *)
UnMountFails(t) ==
  /\ call[t].op \in {"unmount", "discard"} /\ fs[call[t].fs].type \in Blocking
  /\ call' = [call EXCEPT ![t] = Idle]
  /\ UNCHANGED <<typeVars, mountVars, broken>>

UnlockType(type) == [typeRefCount EXCEPT ![type] = @ - 1]

(* The rest of IoFilesystemUnMount.                                        *)
UnMountDone(t) ==
  LET f == call[t].fs
      parent == fs[f].parentFs
      device == fs[f].device
  IN  /\ call[t].op \in {"unmount", "discard"}
      /\ call' = [call EXCEPT ![t] = Idle]
      /\ IoFilesystemRoot' = IF f = IoFilesystemRoot THEN NoFs ELSE IoFilesystemRoot
      /\ mountPoints' = [g \in Fs |-> IF g = parent THEN mountPoints[g] \ {f} ELSE mountPoints[g]]
      /\ typeRefCount' = UnlockType(fs[f].type)
      /\ mounted' = [d \in Device |-> d # device /\ mounted[d]]
      /\ fs' = [g \in Fs |-> IF g = f THEN NoObject
                             ELSE IF g = parent THEN [fs[g] EXCEPT !.refCount = @ - 1]
                             ELSE fs[g]]
      /\ broken' = (broken \/ device = NoDevice)
      /\ UNCHANGED typeVars

-----------------------------------------------------------------------------
Begin(t) ==
  \/ \E m \in Mountable : \/ IoFilesystemMountRoot(t, m[1], m[2])
                          \/ \E parent \in Fs, i \in INode :
                               IoFilesystemMount(t, m[1], m[2], parent, i)
  \/ \E f \in Fs : IoFilesystemUnMount(t, f)

Continue(t) ==
  \/ MountFails(t) \/ MountDone(t) \/ MountRootDone(t) \/ UnMountFails(t) \/ UnMountDone(t)

(* The thread that has the processor: its call is one that does not block. *)
Running == {t \in Thread : call[t] # Idle /\ fs[call[t].fs].type \notin Blocking}

MountsNext ==
  /\ ~broken
  /\ \/ /\ Running = {} /\ Counted
        /\ \E type \in Type : IoFilesystemRegister(type) \/ IoFilesystemUnRegister(type)
     \/ Running = {} /\ Counted /\ \E t \in Thread : Begin(t)
     \/ UNCHANGED calls /\ \E t \in Thread : Running \subseteq {t} /\ Continue(t)

-----------------------------------------------------------------------------
ChildrenOf(f) == {g \in Allocated : fs[g].parentFs = f}

(* The mounts are a tree, and the locks and counts say exactly what is     *)
(* mounted.  An iNode has at most one file system mounted onto it, and no  *)
(* file system disappears under one that is mounted, or being mounted,     *)
(* onto it; a file system counts those; a type counts its file systems; a  *)
(* device is locked by one file system at most and while there is one.  A  *)
(* mount that loses the race for its iNode gives everything back           *)
(* (IoFilesystemMountInternal, IoFilesystemUnMount).                       *)
LocksMatchMounts ==
  /\ MountsTypeOK
  /\ ~broken =>
       /\ \A f \in Allocated : fs[f].parentFs # NoFs => fs[f].parentFs \in Allocated
       /\ \A f \in Allocated : \A g, h \in mountPoints[f] :
            fs[g].parentINode = fs[h].parentINode => g = h
       /\ \A f \in Allocated : fs[f].refCount = Cardinality(ChildrenOf(f))
       /\ \A type \in Type :
            typeRefCount[type] = Cardinality({f \in Allocated : fs[f].type = type})
       /\ \A d \in Device :
            Cardinality({f \in Allocated : fs[f].device = d}) = IF mounted[d] THEN 1 ELSE 0
=============================================================================
