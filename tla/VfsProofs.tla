----------------------------- MODULE VfsProofs ------------------------------
(***************************************************************************)
(* Proofs about mounted file systems and the device file system: the locks *)
(* and counts say what is mounted, names and slots of devices agree, and a *)
(* file keeps its device.                                                  *)
(***************************************************************************)
EXTENDS Vfs, FiniteSetTheorems, TLAPS

USE Zenon

(* The file systems of a type, and the file systems on a device.           *)
Users(type) == {f \in Allocated : fs[f].type = type}

MountsOf(d) == {f \in Allocated : fs[f].device = d}

(* The tree of mounts: what is not allocated holds nothing, the mount      *)
(* points of a file system are children of it, and the root has no parent. *)
TreeOK ==
  /\ IsFiniteSet(Allocated)
  /\ \A f \in Fs \ Allocated : fs[f] = NoObject /\ mountPoints[f] = {}
  /\ \A f \in Allocated : fs[f].parentFs # NoFs => fs[f].parentFs \in Allocated
  /\ \A f \in Fs : mountPoints[f] \subseteq ChildrenOf(f)
  /\ \A f \in Fs : \A g, h \in mountPoints[f] : fs[g].parentINode = fs[h].parentINode => g = h
  /\ IoFilesystemRoot # NoFs =>
       IoFilesystemRoot \in Allocated /\ fs[IoFilesystemRoot].parentFs = NoFs

(* The counts and the locks.                                               *)
CountsOK ==
  /\ \A f \in Fs : fs[f].refCount = Cardinality(ChildrenOf(f))
  /\ \A type \in Type : typeRefCount[type] = Cardinality(Users(type))
  /\ \A d \in Device : Cardinality(MountsOf(d)) = IF mounted[d] THEN 1 ELSE 0

(* The calls in progress: each is about a file system of its own, onto     *)
(* which nothing is mounted, and which no lookup can reach unless it is    *)
(* being unmounted.                                                        *)
CallsOK ==
  /\ \A t \in Thread : call[t].op = "idle" <=> call[t] = Idle
  /\ \A t \in Thread : call[t] # Idle =>
       /\ call[t].fs \in Allocated /\ ChildrenOf(call[t].fs) = {}
       /\ call[t].op # "unmount" => call[t].fs \notin Attached
       /\ call[t].op = "mount" => fs[call[t].fs].parentFs # NoFs
       /\ call[t].op = "mountRoot" => fs[call[t].fs].parentFs = NoFs
  /\ \A t, u \in Thread : call[t] # Idle /\ call[u] # Idle /\ call[t].fs = call[u].fs => t = u

MountsInv ==
  /\ MountsTypeOK
  /\ ~broken => TreeOK /\ CountsOK /\ CallsOK

(* A file opened on a device; the open files are finitely many.            *)
OpenOn(d) == {h \in Handle : handle[h].state = "open" /\ handle[h].device = d}

HandleType == [state : {"closed", "opening", "open", "closing"},
               iNode : Slot, device : Device \cup {NoDevice}]

(* A file acts on its device, or on none or an heir if it has lost it.     *)
DeviceOK(h) ==
  IF handle[h].device # NoDevice THEN DeviceOfFile(h) = handle[h].device
  ELSE DeviceOfFile(h) \in heirs \cup {NoDevice}

(* The devices whose opens and closes are paired.                          *)
Accounted(d) == d \in Device \ heirs /\ \E i \in Slot : devices[i] = d

HandlesOK ==
  /\ \A h \in Handle : handle[h].state = "closed" => handle[h] = NoHandle
  /\ IsFiniteSet({h \in Handle : handle[h].state # "closed"})

DevFsInv == NamesMatchSlots /\ FilesKeepDevice /\ HandlesOK

IInv == MountsInv /\ DevFsInv

-----------------------------------------------------------------------------
(* A set that has no element has the cardinality 0, and no other has.      *)
LEMMA CardinalityZero ==
  ASSUME NEW S, IsFiniteSet(S)
  PROVE  Cardinality(S) \in Nat /\ (Cardinality(S) = 0 <=> S = {})
  BY FS_CardinalityType, FS_EmptySet

(* The file systems counted by a file system, a type or a device are       *)
(* finitely many.                                                          *)
LEMMA CountedFinite ==
  ASSUME IsFiniteSet(Allocated)
  PROVE  /\ \A f : IsFiniteSet(ChildrenOf(f))
         /\ \A type : IsFiniteSet(Users(type))
         /\ \A d : IsFiniteSet(MountsOf(d))
  <1>1. \A f : ChildrenOf(f) \subseteq Allocated
    BY DEF ChildrenOf
  <1>2. \A type : Users(type) \subseteq Allocated
    BY DEF Users
  <1>3. \A d : MountsOf(d) \subseteq Allocated
    BY DEF MountsOf
  <1>4. \A S : S \subseteq Allocated => IsFiniteSet(S)
    BY FS_Subset
  <1> QED BY <1>1, <1>2, <1>3, <1>4

(* Nothing is mounted at the start (IoInit).                               *)
LEMMA InitMountsInv == MountsInit => MountsInv
  <1> SUFFICES ASSUME MountsInit PROVE MountsInv
    OBVIOUS
  <1> USE MountsAssumption
  <1>1. Allocated = {}
    BY DEF MountsInit, Allocated, NoObject
  <1>2. MountsTypeOK
    <2>1. NoObject \in FsObject
      BY DEF NoObject, FsObject
    <2>2. fs \in [Fs -> FsObject]
      BY <2>1 DEF MountsInit
    <2>3. call \in [Thread -> [op : {"idle", "mount", "mountRoot", "unmount", "discard"},
                               fs : Fs \cup {NoFs}]]
      BY DEF MountsInit, Idle
    <2>4. typeRefCount \in [Type -> Nat] /\ calls \in 0 .. MaxCalls
      BY SMT DEF MountsInit
    <2> QED BY <2>2, <2>3, <2>4 DEF MountsInit, MountsTypeOK
  <1>3. TreeOK
    BY <1>1, FS_EmptySet DEF MountsInit, TreeOK, ChildrenOf
  <1>4. CountsOK
    <2>1. \A f : ChildrenOf(f) = {}
      BY <1>1 DEF ChildrenOf
    <2>2. \A type : Users(type) = {}
      BY <1>1 DEF Users
    <2>3. \A d : MountsOf(d) = {}
      BY <1>1 DEF MountsOf
    <2>4. Cardinality({}) = 0
      BY FS_EmptySet
    <2>5. \A f \in Fs : fs[f].refCount = 0
      BY DEF MountsInit, NoObject
    <2>6. \A type \in Type : typeRefCount[type] = 0
      BY DEF MountsInit
    <2>7. \A d \in Device : ~mounted[d]
      BY DEF MountsInit
    <2> QED BY <2>1, <2>2, <2>3, <2>4, <2>5, <2>6, <2>7 DEF CountsOK
  <1>5. CallsOK
    BY DEF MountsInit, CallsOK, Idle
  <1> QED BY <1>2, <1>3, <1>4, <1>5 DEF MountsInv

-----------------------------------------------------------------------------
(* The object that IoFilesystemMountInternal allocates, and what it counts *)
(* as: one more child of its parent, user of its type and mount of its     *)
(* device.                                                                 *)
Allocates(f, type, device, parent, iNode) ==
  fs' = [g \in Fs |->
           IF g = f THEN [type |-> type, device |-> device, parentFs |-> parent,
                          parentINode |-> iNode, refCount |-> 0]
           ELSE IF g = parent THEN [fs[g] EXCEPT !.refCount = @ + 1]
           ELSE fs[g]]

(* The fields after an allocation.                                         *)
LEMMA AllocatesFields ==
  ASSUME MountsTypeOK, NEW f \in Fs, NEW type \in Type, NEW device \in Device \cup {NoDevice},
         NEW parent \in Fs \cup {NoFs}, NEW iNode \in INode, parent # f,
         Allocates(f, type, device, parent, iNode)
  PROVE  /\ fs' \in [Fs -> FsObject]
         /\ fs'[f].type = type /\ fs'[f].device = device /\ fs'[f].parentFs = parent
         /\ fs'[f].refCount = 0
         /\ \A g \in Fs \ {f} :
              /\ fs'[g].type = fs[g].type /\ fs'[g].device = fs[g].device
              /\ fs'[g].parentFs = fs[g].parentFs /\ fs'[g].parentINode = fs[g].parentINode
              /\ fs'[g].refCount = IF g = parent THEN fs[g].refCount + 1 ELSE fs[g].refCount
              /\ g # parent => fs'[g] = fs[g]
  <1> DEFINE new == [type |-> type, device |-> device, parentFs |-> parent,
                     parentINode |-> iNode, refCount |-> 0]
  <1>1. new \in FsObject
    BY SMT DEF FsObject
  <1>2. \A g \in Fs : fs[g] \in FsObject
    BY DEF MountsTypeOK
  <1>3. ASSUME NEW g \in Fs
        PROVE  /\ [fs[g] EXCEPT !.refCount = @ + 1] \in FsObject
               /\ [fs[g] EXCEPT !.refCount = @ + 1].type = fs[g].type
               /\ [fs[g] EXCEPT !.refCount = @ + 1].device = fs[g].device
               /\ [fs[g] EXCEPT !.refCount = @ + 1].parentFs = fs[g].parentFs
               /\ [fs[g] EXCEPT !.refCount = @ + 1].parentINode = fs[g].parentINode
               /\ [fs[g] EXCEPT !.refCount = @ + 1].refCount = fs[g].refCount + 1
    BY <1>2, SMT DEF FsObject
  <1>4. fs' = [g \in Fs |-> IF g = f THEN new
                            ELSE IF g = parent THEN [fs[g] EXCEPT !.refCount = @ + 1] ELSE fs[g]]
    BY DEF Allocates
  <1>5. fs' \in [Fs -> FsObject]
    BY <1>1, <1>2, <1>3, <1>4
  <1>6. fs'[f] = new
    BY <1>4
  <1>7. \A g \in Fs \ {f} : fs'[g] = IF g = parent THEN [fs[g] EXCEPT !.refCount = @ + 1] ELSE fs[g]
    BY <1>4
  <1>8. /\ new.type = type /\ new.device = device /\ new.parentFs = parent
        /\ new.refCount = 0
    OBVIOUS
  <1> HIDE DEF new
  <1>9. ASSUME NEW g \in Fs \ {f}
        PROVE  /\ fs'[g].type = fs[g].type /\ fs'[g].device = fs[g].device
               /\ fs'[g].parentFs = fs[g].parentFs /\ fs'[g].parentINode = fs[g].parentINode
               /\ fs'[g].refCount = IF g = parent THEN fs[g].refCount + 1 ELSE fs[g].refCount
               /\ g # parent => fs'[g] = fs[g]
    <2>1. CASE g = parent
      BY <2>1, <1>3, <1>7
    <2>2. CASE g # parent
      BY <2>2, <1>7
    <2> QED BY <2>1, <2>2
  <1> QED BY <1>5, <1>6, <1>8, <1>9

(* The sets that are counted, after an allocation.                         *)
LEMMA AllocatesSets ==
  ASSUME MountsTypeOK, TreeOK, NEW f \in Fs \ Allocated,
         NEW type \in Type, NEW device \in Device \cup {NoDevice},
         NEW parent \in Allocated \cup {NoFs}, NEW iNode \in INode,
         Allocates(f, type, device, parent, iNode)
  PROVE  /\ Allocated' = Allocated \cup {f}
         /\ \A g \in Fs : ChildrenOf(g)' = IF g = parent THEN ChildrenOf(g) \cup {f} ELSE ChildrenOf(g)
         /\ \A x \in Type : Users(x)' = IF x = type THEN Users(x) \cup {f} ELSE Users(x)
         /\ \A d \in Device : MountsOf(d)' = IF d = device THEN MountsOf(d) \cup {f} ELSE MountsOf(d)
  <1>1. Allocated \subseteq Fs
    BY DEF Allocated
  <1>2. parent \in Fs \cup {NoFs} /\ parent # f
    BY <1>1, MountsAssumption
  <1>3. /\ fs'[f].type = type /\ fs'[f].device = device /\ fs'[f].parentFs = parent
        /\ \A g \in Fs \ {f} :
              /\ fs'[g].type = fs[g].type /\ fs'[g].device = fs[g].device
              /\ fs'[g].parentFs = fs[g].parentFs
    BY <1>2, AllocatesFields, SMT
  <1>4. Allocated' = Allocated \cup {f}
    BY <1>3, MountsAssumption DEF Allocated
  <1>5. ASSUME NEW g \in Fs
        PROVE  ChildrenOf(g)' = IF g = parent THEN ChildrenOf(g) \cup {f} ELSE ChildrenOf(g)
    BY <1>1, <1>3, <1>4 DEF ChildrenOf
  <1>6. ASSUME NEW x \in Type
        PROVE  Users(x)' = IF x = type THEN Users(x) \cup {f} ELSE Users(x)
    BY <1>1, <1>3, <1>4 DEF Users
  <1>7. ASSUME NEW d \in Device
        PROVE  MountsOf(d)' = IF d = device THEN MountsOf(d) \cup {f} ELSE MountsOf(d)
    BY <1>1, <1>3, <1>4 DEF MountsOf
  <1> QED BY <1>4, <1>5, <1>6, <1>7

(* IoFilesystemMountInternal up to type->mount keeps the tree and the      *)
(* counts, and the calls in progress unless it mounts onto a file system   *)
(* that is being unmounted.                                                *)
LEMMA MountInternalKeeps ==
  ASSUME MountsTypeOK, TreeOK, CountsOK, CallsOK,
         NEW t \in Thread, NEW op \in {"mount", "mountRoot"}, NEW type \in Type,
         NEW device \in Device \cup {NoDevice}, NEW parent \in Attached \cup {NoFs},
         NEW iNode \in INode, op = "mount" <=> parent # NoFs,
         call[t] = Idle, ~Busy(device),
         MountInternal(t, op, type, device, parent, iNode),
         UNCHANGED <<typeVars, mountPoints, IoFilesystemRoot>>,
         calls' \in 0 .. MaxCalls, broken' \in BOOLEAN
  PROVE  /\ MountsTypeOK' /\ TreeOK' /\ CountsOK'
         /\ ~Leaving(parent) => CallsOK'
  <1> USE MountsAssumption
  <1>a. Attached \subseteq Allocated /\ Allocated \subseteq Fs
    BY DEF Attached, Allocated
  <1> PICK f \in Fs \ Allocated :
        /\ mounted' = LockDevice(device)
        /\ typeRefCount' = [typeRefCount EXCEPT ![type] = @ + 1]
        /\ Allocates(f, type, device, parent, iNode)
        /\ call' = [call EXCEPT ![t] = [op |-> op, fs |-> f]]
    BY DEF MountInternal, Allocates
  <1>b. parent \in Allocated \cup {NoFs} /\ parent \in Fs \cup {NoFs} /\ parent # f
    BY <1>a
  <1>1. /\ fs' \in [Fs -> FsObject]
        /\ fs'[f].type = type /\ fs'[f].device = device /\ fs'[f].parentFs = parent
        /\ fs'[f].refCount = 0
        /\ \A g \in Fs \ {f} :
             /\ fs'[g].type = fs[g].type /\ fs'[g].device = fs[g].device
             /\ fs'[g].parentFs = fs[g].parentFs /\ fs'[g].parentINode = fs[g].parentINode
             /\ fs'[g].refCount = IF g = parent THEN fs[g].refCount + 1 ELSE fs[g].refCount
             /\ g # parent => fs'[g] = fs[g]
    BY <1>b, AllocatesFields, SMT
  <1>2. /\ Allocated' = Allocated \cup {f}
        /\ \A g \in Fs : ChildrenOf(g)' = IF g = parent THEN ChildrenOf(g) \cup {f} ELSE ChildrenOf(g)
        /\ \A x \in Type : Users(x)' = IF x = type THEN Users(x) \cup {f} ELSE Users(x)
        /\ \A d \in Device : MountsOf(d)' = IF d = device THEN MountsOf(d) \cup {f} ELSE MountsOf(d)
    BY <1>b, AllocatesSets
  <1>3. IsFiniteSet(Allocated)
    BY DEF TreeOK
  <1>4. MountsTypeOK'
    <2>1. mounted' \in [Device -> BOOLEAN]
      BY DEF MountsTypeOK, LockDevice
    <2>2. typeRefCount' \in [Type -> Nat]
      BY SMT DEF MountsTypeOK
    <2>3. call' \in [Thread -> [op : {"idle", "mount", "mountRoot", "unmount", "discard"},
                               fs : Fs \cup {NoFs}]]
      BY DEF MountsTypeOK
    <2> QED BY <1>1, <2>1, <2>2, <2>3 DEF MountsTypeOK, typeVars
  <1>5. TreeOK'
    <2>1. IsFiniteSet(Allocated')
      BY <1>2, <1>3, FS_AddElement
    <2>2. \A g \in Fs \ Allocated' : fs'[g] = NoObject /\ mountPoints'[g] = {}
      BY <1>1, <1>2, <1>b, SMT DEF TreeOK
    <2>3. \A g \in Allocated' : fs'[g].parentFs # NoFs => fs'[g].parentFs \in Allocated'
      BY <1>1, <1>2, <1>a, <1>b DEF TreeOK
    <2>4. \A g \in Fs : mountPoints'[g] \subseteq ChildrenOf(g)'
      BY <1>2, SMT DEF TreeOK
    <2>5. \A g \in Fs : \A h \in mountPoints[g] : h \in Fs \ {f}
      BY <1>a, ZenonT(30) DEF TreeOK, ChildrenOf
    <2>6. \A g \in Fs : \A h, i \in mountPoints'[g] : fs'[h].parentINode = fs'[i].parentINode => h = i
      BY <1>1, <2>5, SMTT(20) DEF TreeOK
    <2>7. IoFilesystemRoot' # NoFs =>
            IoFilesystemRoot' \in Allocated' /\ fs'[IoFilesystemRoot'].parentFs = NoFs
      BY <1>1, <1>2, <1>a DEF TreeOK
    <2> QED BY <2>1, <2>2, <2>3, <2>4, <2>6, <2>7 DEF TreeOK
  <1>6. CountsOK'
    <2>1. \A g : f \notin ChildrenOf(g) /\ f \notin Users(g) /\ f \notin MountsOf(g)
      BY DEF ChildrenOf, Users, MountsOf
    <2>2. /\ \A g : IsFiniteSet(ChildrenOf(g))
          /\ \A x : IsFiniteSet(Users(x))
          /\ \A d : IsFiniteSet(MountsOf(d))
      BY <1>3, CountedFinite
    <2>3. ASSUME NEW S, IsFiniteSet(S), f \notin S
          PROVE  Cardinality(S \cup {f}) = Cardinality(S) + 1
      BY <2>3, FS_AddElement
    <2>4. ASSUME NEW g \in Fs PROVE fs'[g].refCount = Cardinality(ChildrenOf(g)')
      <3>1. CASE g = f
        <4>1. ChildrenOf(f) = {}
          BY <1>a, SMT DEF TreeOK, ChildrenOf
        <4> QED BY <3>1, <4>1, <1>1, <1>2, <1>b, FS_EmptySet
      <3>2. CASE g # f /\ g = parent
        BY <3>2, <1>1, <1>2, <2>1, <2>2, <2>3, SMT DEF CountsOK
      <3>3. CASE g # f /\ g # parent
        BY <3>3, <1>1, <1>2, SMT DEF CountsOK
      <3> QED BY <3>1, <3>2, <3>3
    <2>5. ASSUME NEW x \in Type PROVE typeRefCount'[x] = Cardinality(Users(x)')
      <3>1. typeRefCount'[x] = IF x = type THEN typeRefCount[x] + 1 ELSE typeRefCount[x]
        BY DEF MountsTypeOK
      <3> QED BY <3>1, <1>2, <2>1, <2>2, <2>3 DEF CountsOK
    <2>6. ASSUME NEW d \in Device
          PROVE  Cardinality(MountsOf(d)') = IF mounted'[d] THEN 1 ELSE 0
      <3>1. CASE d = device
        <4>1. Cardinality(MountsOf(d)) = 0 /\ mounted'[d]
          BY <3>1 DEF Busy, CountsOK, LockDevice, MountsTypeOK
        <4>2. Cardinality(MountsOf(d)') = 0 + 1
          BY <3>1, <4>1, <1>2, <2>1, <2>2, <2>3
        <4> QED BY <4>1, <4>2, SMT
      <3>2. CASE d # device
        <4>1. mounted'[d] = mounted[d]
          BY <3>2 DEF LockDevice, MountsTypeOK
        <4> QED BY <3>2, <4>1, <1>2 DEF CountsOK
      <3> QED BY <3>1, <3>2
    <2> QED BY <2>4, <2>5, <2>6 DEF CountsOK
  <1>7. ASSUME ~Leaving(parent) PROVE CallsOK'
    <2>1. /\ call'[t] = [op |-> op, fs |-> f] /\ call'[t].op = op /\ call'[t].fs = f
          /\ call'[t] # Idle /\ op # "idle" /\ op # "unmount"
          /\ \A u \in Thread \ {t} : call'[u] = call[u]
      BY DEF MountsTypeOK, Idle
    <2>2. Attached' = Attached
      <3>1. \A g \in Fs : mountPoints[g] \subseteq Allocated
        BY DEF TreeOK, ChildrenOf
      <3> QED BY <3>1, <1>2, <1>a DEF Attached, TreeOK
    <2>3. ChildrenOf(f)' = {}
      <3>1. ChildrenOf(f) = {}
        BY <1>a, SMT DEF TreeOK, ChildrenOf
      <3> QED BY <3>1, <1>2, <1>b
    <2>4. ASSUME NEW u \in Thread \ {t}, call[u] # Idle
          PROVE  call[u].fs # parent /\ call[u].fs \in Allocated /\ ChildrenOf(call[u].fs) = {}
      <3>1. call[u].fs \in Allocated /\ ChildrenOf(call[u].fs) = {}
        BY <2>4 DEF CallsOK
      <3>2. CASE call[u].op = "unmount"
        BY <3>1, <3>2, <1>7, <1>a DEF Leaving
      <3>3. CASE call[u].op # "unmount"
        BY <2>4, <3>1, <3>3, <1>a DEF CallsOK
      <3> QED BY <3>1, <3>2, <3>3
    <2>5. \A u \in Thread : call'[u].op = "idle" <=> call'[u] = Idle
      BY <2>1, ZenonT(30) DEF CallsOK
    <2>6. ASSUME NEW u \in Thread, call'[u] # Idle
          PROVE  (/\ call[u].fs \in Allocated /\ ChildrenOf(call[u].fs) = {}
                  /\ call[u].op # "unmount" => call[u].fs \notin Attached
                  /\ call[u].op = "mount" => fs[call[u].fs].parentFs # NoFs
                  /\ call[u].op = "mountRoot" => fs[call[u].fs].parentFs = NoFs)'
      <3> PICK g : g = call'[u].fs
        OBVIOUS
      <3>1. CASE u = t
        <4>1. g = f /\ call'[u].op = op
          BY <3>1, <2>1
        <4>2. g \in Allocated' /\ ChildrenOf(g)' = {} /\ g \notin Attached'
          BY <4>1, <2>2, <2>3, <1>2, <1>a
        <4> QED BY <4>1, <4>2, <1>1, ZenonT(30)
      <3>2. CASE u # t
        <4>1. call'[u] = call[u] /\ call[u] # Idle /\ g = call[u].fs
          BY <3>2, <2>1, <2>6
        <4>2. g \in Allocated /\ g # parent /\ g \in Fs \ {f}
          BY <3>2, <4>1, <2>4, <1>a
        <4>3. ChildrenOf(g)' = {}
          BY <3>2, <4>1, <4>2, <2>4, <1>2
        <4>4. fs'[g].parentFs = fs[g].parentFs
          BY <4>2, <1>1
        <4>5. g \in Allocated' /\ (g \notin Attached => g \notin Attached')
          BY <4>2, <1>2, <2>2, SMT
        <4>6. /\ call[u].op # "unmount" => g \notin Attached
              /\ call[u].op = "mount" => fs[g].parentFs # NoFs
              /\ call[u].op = "mountRoot" => fs[g].parentFs = NoFs
          BY <4>1 DEF CallsOK
        <4> QED BY <4>1, <4>3, <4>4, <4>5, <4>6
      <3> QED BY <3>1, <3>2
    <2>7. ASSUME NEW u \in Thread, NEW w \in Thread, call'[u] # Idle, call'[w] # Idle,
                 call'[u].fs = call'[w].fs
          PROVE  u = w
      BY <2>7, <2>1, <2>4, SMTT(20) DEF CallsOK
    <2> QED BY <2>5, <2>6, <2>7, SMTT(20) DEF CallsOK
  <1> QED BY <1>4, <1>5, <1>6, <1>7

(* IoFilesystemMount up to type->mount.                                    *)
LEMMA IoFilesystemMountKeeps ==
  ASSUME MountsInv, ~broken, NEW t \in Thread, NEW type \in Type,
         NEW device \in Device \cup {NoDevice}, NEW parent \in Fs, NEW iNode \in INode,
         IoFilesystemMount(t, type, device, parent, iNode), calls' \in 0 .. MaxCalls
  PROVE  MountsInv'
  <1>1. CASE Busy(device)
    BY <1>1 DEF IoFilesystemMount, MountsInv, MountsTypeOK, typeVars
  <1>2. CASE ~Busy(device)
    <2>1. /\ parent \in Attached /\ parent # NoFs /\ call[t] = Idle
          /\ MountInternal(t, "mount", type, device, parent, iNode)
          /\ UNCHANGED <<typeVars, mountPoints, IoFilesystemRoot>>
          /\ broken' = (broken \/ Leaving(parent))
      BY <1>2, MountsAssumption DEF IoFilesystemMount
    <2>2. MountsTypeOK' /\ TreeOK' /\ CountsOK' /\ (~Leaving(parent) => CallsOK')
      BY <1>2, <2>1, MountInternalKeeps DEF MountsInv
    <2> QED BY <2>1, <2>2 DEF MountsInv
  <1> QED BY <1>1, <1>2

(* IoFilesystemMountRoot up to type->mount.                                *)
LEMMA IoFilesystemMountRootKeeps ==
  ASSUME MountsInv, ~broken, NEW t \in Thread, NEW type \in Type,
         NEW device \in Device \cup {NoDevice},
         IoFilesystemMountRoot(t, type, device), calls' \in 0 .. MaxCalls
  PROVE  MountsInv'
  <1>1. CASE Busy(device)
    BY <1>1 DEF IoFilesystemMountRoot, MountsInv, MountsTypeOK, typeVars
  <1>2. CASE ~Busy(device)
    <2>1. /\ call[t] = Idle /\ RootINode \in INode
          /\ MountInternal(t, "mountRoot", type, device, NoFs, RootINode)
          /\ UNCHANGED <<typeVars, mountPoints, IoFilesystemRoot>>
          /\ broken' = broken
      BY <1>2, MountsAssumption DEF IoFilesystemMountRoot
    <2>2. ~Leaving(NoFs)
      <3>1. \A u \in Thread : call[u] # Idle => call[u].fs \in Fs
        BY DEF MountsInv, CallsOK, Allocated
      <3> QED BY <3>1, MountsAssumption, SMT DEF Leaving, Idle
    <2>3. MountsTypeOK' /\ TreeOK' /\ CountsOK' /\ (~Leaving(NoFs) => CallsOK')
      BY <1>2, <2>1, MountInternalKeeps DEF MountsInv, MountsTypeOK
    <2> QED BY <2>1, <2>2, <2>3 DEF MountsInv
  <1> QED BY <1>1, <1>2

-----------------------------------------------------------------------------
(* What the tree and the counts are about is left alone.                   *)
LEMMA TreeUnchanged ==
  ASSUME UNCHANGED <<fs, mountPoints, IoFilesystemRoot, typeRefCount, mounted>>
  PROVE  /\ Allocated' = Allocated /\ Attached' = Attached
         /\ \A f : ChildrenOf(f)' = ChildrenOf(f)
         /\ TreeOK' = TreeOK /\ CountsOK' = CountsOK
  <1>1. Allocated' = Allocated
    BY DEF Allocated
  <1>2. \A f : ChildrenOf(f)' = ChildrenOf(f)
    BY <1>1 DEF ChildrenOf
  <1>3. Attached' = Attached
    BY <1>1 DEF Attached
  <1>4. TreeOK' = TreeOK
    BY <1>1, <1>2 DEF TreeOK
  <1>5. CountsOK' = CountsOK
    BY <1>1, <1>2 DEF CountsOK, Users, MountsOf
  <1> QED BY <1>1, <1>2, <1>3, <1>4, <1>5

(* IoFilesystemUnMount up to ops->umount.                                  *)
LEMMA IoFilesystemUnMountKeeps ==
  ASSUME MountsInv, ~broken, NEW t \in Thread, NEW f \in Fs,
         IoFilesystemUnMount(t, f), calls' \in 0 .. MaxCalls
  PROVE  MountsInv'
  <1> USE MountsAssumption
  <1>1. /\ call[t] = Idle /\ f \in Attached /\ ~InUse(f)
        /\ call' = [call EXCEPT ![t] = [op |-> "unmount", fs |-> f]]
        /\ broken' = (broken \/ Leaving(f))
        /\ UNCHANGED <<typeVars, mountVars>>
    BY DEF IoFilesystemUnMount
  <1>2. MountsTypeOK /\ TreeOK /\ CountsOK /\ CallsOK
    BY DEF MountsInv
  <1>3. call' \in [Thread -> [op : {"idle", "mount", "mountRoot", "unmount", "discard"},
                             fs : Fs \cup {NoFs}]]
    BY <1>1, <1>2 DEF MountsTypeOK
  <1>4. MountsTypeOK'
    BY <1>1, <1>2, <1>3 DEF MountsTypeOK, typeVars, mountVars
  <1>5. /\ Allocated' = Allocated /\ Attached' = Attached
        /\ \A g : ChildrenOf(g)' = ChildrenOf(g)
        /\ TreeOK' /\ CountsOK'
    BY <1>1, <1>2, TreeUnchanged DEF mountVars
  <1>6. ASSUME ~Leaving(f) PROVE CallsOK'
    <2>1. /\ call'[t] = [op |-> "unmount", fs |-> f] /\ call'[t].op = "unmount" /\ call'[t].fs = f
          /\ call'[t] # Idle /\ \A u \in Thread \ {t} : call'[u] = call[u]
      BY <1>1, <1>2 DEF MountsTypeOK, Idle
    <2>2. f \in Allocated
      BY <1>1 DEF Attached
    <2>3. ChildrenOf(f) = {}
      <3>1. fs[f].refCount = Cardinality(ChildrenOf(f)) /\ IsFiniteSet(ChildrenOf(f))
        BY <1>2, CountedFinite DEF CountsOK, TreeOK
      <3>2. Cardinality(ChildrenOf(f)) \in Nat /\ ~(Cardinality(ChildrenOf(f)) > 0)
        BY <1>1, <3>1, CardinalityZero DEF InUse
      <3>3. Cardinality(ChildrenOf(f)) = 0
        BY <3>2, SMT
      <3> QED BY <3>1, <3>3, CardinalityZero
    <2>4. \A u \in Thread : call[u] # Idle => call[u].fs # f
      BY <1>1, <1>2, <1>6 DEF CallsOK, Leaving
    <2>5. \A u \in Thread : call'[u].op = "idle" <=> call'[u] = Idle
      BY <1>2, <2>1 DEF CallsOK
    <2>6. ASSUME NEW u \in Thread, call'[u] # Idle
          PROVE  (/\ call[u].fs \in Allocated /\ ChildrenOf(call[u].fs) = {}
                  /\ call[u].op # "unmount" => call[u].fs \notin Attached
                  /\ call[u].op = "mount" => fs[call[u].fs].parentFs # NoFs
                  /\ call[u].op = "mountRoot" => fs[call[u].fs].parentFs = NoFs)'
      <3> PICK g : g = call'[u].fs
        OBVIOUS
      <3>1. CASE u = t
        BY <3>1, <2>1, <2>2, <2>3, <1>5
      <3>2. CASE u # t
        <4>1. call'[u] = call[u] /\ call[u] # Idle /\ g = call[u].fs
          BY <3>2, <2>1, <2>6
        <4>2. /\ g \in Allocated /\ ChildrenOf(g) = {}
              /\ call[u].op # "unmount" => g \notin Attached
              /\ call[u].op = "mount" => fs[g].parentFs # NoFs
              /\ call[u].op = "mountRoot" => fs[g].parentFs = NoFs
          BY <4>1, <1>2 DEF CallsOK
        <4>3. fs' = fs
          BY <1>1 DEF mountVars
        <4> QED BY <4>1, <4>2, <4>3, <1>5
      <3> QED BY <3>1, <3>2
    <2>7. ASSUME NEW u \in Thread, NEW w \in Thread, call'[u] # Idle, call'[w] # Idle,
                 call'[u].fs = call'[w].fs
          PROVE  u = w
      BY <2>7, <2>1, <2>4, <1>2, SMT DEF CallsOK
    <2> QED BY <2>5, <2>6, <2>7 DEF CallsOK
  <1> QED BY <1>1, <1>4, <1>5, <1>6 DEF MountsInv

-----------------------------------------------------------------------------
(* A call ends, or goes on to give back what it has got; the calls of the  *)
(* other threads stay as they are, and so does what they are about.        *)
LEMMA CallEnds ==
  ASSUME CallsOK, NEW t \in Thread, call[t] # Idle,
         \A u \in Thread \ {t} : call'[u] = call[u],
         \/ call'[t] = Idle
         \/ call'[t].op = "discard" /\ call'[t].fs = call[t].fs /\ call[t].fs \notin Attached',
         \A u \in Thread : call[u] # Idle /\ call'[u] # Idle =>
           /\ call[u].fs \in Allocated' /\ ChildrenOf(call[u].fs) = {}
           /\ fs'[call[u].fs].parentFs = fs[call[u].fs].parentFs,
         \A g \in Fs : ChildrenOf(g) = {} => ChildrenOf(g)' = {},
         \A u \in Thread \ {t} : call[u] # Idle /\ call[u].fs \notin Attached =>
           call[u].fs \notin Attached'
  PROVE  CallsOK'
  <1>1. \A u \in Thread : call'[u] # Idle => call[u] # Idle /\ call'[u].fs = call[u].fs
    OBVIOUS
  <1>2. \A u \in Thread : call'[u].op = "idle" <=> call'[u] = Idle
    BY SMT DEF CallsOK, Idle
  <1>3. ASSUME NEW u \in Thread, call'[u] # Idle
        PROVE  (/\ call[u].fs \in Allocated /\ ChildrenOf(call[u].fs) = {}
                /\ call[u].op # "unmount" => call[u].fs \notin Attached
                /\ call[u].op = "mount" => fs[call[u].fs].parentFs # NoFs
                /\ call[u].op = "mountRoot" => fs[call[u].fs].parentFs = NoFs)'
    <2> PICK g : g = call'[u].fs
      OBVIOUS
    <2>1. call[u] # Idle /\ call[u].fs = g
      BY <1>1, <1>3
    <2>2. g \in Allocated' /\ ChildrenOf(g) = {} /\ fs'[g].parentFs = fs[g].parentFs
      BY <2>1, <1>3
    <2>3. ChildrenOf(g)' = {}
      <3>1. g \in Fs
        BY <2>1 DEF CallsOK, Allocated
      <3> QED BY <2>2, <3>1
    <2>4. CASE u = t
      <3>1. call'[u].op = "discard" /\ g \notin Attached'
        BY <1>3, <2>1, <2>4
      <3> QED BY <2>2, <2>3, <3>1
    <2>5. CASE u # t
      <3>1. /\ call[u].op # "unmount" => g \notin Attached
            /\ call[u].op = "mount" => fs[g].parentFs # NoFs
            /\ call[u].op = "mountRoot" => fs[g].parentFs = NoFs
        BY <2>1 DEF CallsOK
      <3>2. call'[u] = call[u] /\ (g \notin Attached => g \notin Attached')
        BY <2>1, <2>5
      <3> QED BY <2>2, <2>3, <3>1, <3>2
    <2> QED BY <2>4, <2>5
  <1>4. ASSUME NEW u \in Thread, NEW w \in Thread, call'[u] # Idle, call'[w] # Idle,
               call'[u].fs = call'[w].fs
        PROVE  u = w
    BY <1>1, <1>4, ZenonT(30) DEF CallsOK
  <1> QED BY <1>2, <1>3, <1>4 DEF CallsOK

(* The end of IoFilesystemMount.                                           *)
LEMMA MountDoneKeeps ==
  ASSUME MountsInv, ~broken, NEW t \in Thread, MountDone(t), calls' = calls
  PROVE  MountsInv'
  <1> USE MountsAssumption
  <1>1. MountsTypeOK /\ TreeOK /\ CountsOK /\ CallsOK
    BY DEF MountsInv
  <1> PICK f : f = call[t].fs
    OBVIOUS
  <1> PICK p : p = fs[f].parentFs
    OBVIOUS
  <1>2. /\ call[t] # Idle /\ f \in Allocated /\ f \in Fs /\ p # NoFs /\ p \in Allocated /\ p \in Fs
        /\ f \notin Attached /\ call[t].op # "unmount"
    <2>1. call[t] # Idle /\ call[t].op = "mount"
      BY SMT DEF MountDone, Idle
    <2>2. f \in Allocated /\ p # NoFs /\ f \notin Attached
      BY <1>1, <2>1 DEF CallsOK
    <2>3. p \in Allocated
      BY <1>1, <2>2 DEF TreeOK
    <2> QED BY <2>1, <2>2, <2>3 DEF Allocated
  <1>3. UNCHANGED <<typeVars, typeRefCount, mounted, fs, IoFilesystemRoot, broken>>
    BY DEF MountDone
  <1>4. Allocated' = Allocated /\ \A g : ChildrenOf(g)' = ChildrenOf(g)
    BY <1>3 DEF Allocated, ChildrenOf
  <1>5. CountsOK'
    BY <1>1, <1>3, <1>4 DEF CountsOK, Users, MountsOf
  <1>6. CASE Inserts(f)
    <2>1. /\ mountPoints' = [mountPoints EXCEPT ![p] = @ \cup {f}]
          /\ call' = [call EXCEPT ![t] = Idle]
      BY <1>6 DEF MountDone
    <2>2. /\ mountPoints' \in [Fs -> SUBSET Fs] /\ mountPoints'[p] = mountPoints[p] \cup {f}
          /\ \A g \in Fs \ {p} : mountPoints'[g] = mountPoints[g]
      BY <1>1, <1>2, <2>1, ZenonT(30) DEF MountsTypeOK
    <2>3. call' \in [Thread -> [op : {"idle", "mount", "mountRoot", "unmount", "discard"},
                               fs : Fs \cup {NoFs}]]
      BY <1>1, <2>1 DEF MountsTypeOK, Idle
    <2>4. MountsTypeOK'
      BY <1>1, <1>3, <2>2, <2>3 DEF MountsTypeOK, typeVars
    <2>5. TreeOK'
      <3>1. f \in ChildrenOf(p)
        BY <1>2 DEF ChildrenOf
      <3>2. \A g \in Fs : mountPoints'[g] \subseteq ChildrenOf(g)'
        BY <3>1, <1>1, <1>4, <2>2 DEF TreeOK
      <3>3. \A h \in mountPoints[p] : fs[h].parentINode # fs[f].parentINode
        BY <1>6 DEF Inserts, MountedAt
      <3>4. ASSUME NEW g \in Fs, NEW h \in mountPoints'[g], NEW i \in mountPoints'[g],
                   fs[h].parentINode = fs[i].parentINode
            PROVE  h = i
        BY <3>3, <3>4, <1>1, <2>2, SMTT(20) DEF TreeOK
      <3>5. \A g \in Fs \ Allocated : fs[g] = NoObject /\ mountPoints'[g] = {}
        BY <1>1, <1>2, <2>2 DEF TreeOK
      <3> QED BY <1>1, <1>3, <1>4, <3>2, <3>4, <3>5 DEF TreeOK
    <2>6. \A u \in Thread \ {t} : call[u] # Idle /\ call[u].fs \notin Attached =>
            call[u].fs \notin Attached'
      <3>1. \A u \in Thread \ {t} : call[u] # Idle => call[u].fs # f
        BY <1>1, <1>2 DEF CallsOK
      <3>2. ASSUME NEW g \in Attached', g # f PROVE g \in Attached
        <4>1. g \in Allocated
          BY <1>4 DEF Attached
        <4>2. CASE g = IoFilesystemRoot'
          BY <4>1, <4>2, <1>3 DEF Attached
        <4>3. CASE \E h \in Allocated' : g \in mountPoints'[h]
          <5>1. PICK h \in Allocated : g \in mountPoints'[h]
            BY <4>3, <1>4
          <5>2. g \in mountPoints[h]
            BY <3>2, <5>1, <2>2 DEF Allocated
          <5> QED BY <4>1, <5>1, <5>2 DEF Attached
        <4> QED BY <4>2, <4>3 DEF Attached
      <3> QED BY <3>1, <3>2
    <2>7. call'[t] = Idle /\ \A u \in Thread \ {t} : call'[u] = call[u]
      BY <1>1, <2>1 DEF MountsTypeOK
    <2>8. \A u \in Thread : call[u] # Idle =>
            /\ call[u].fs \in Allocated' /\ ChildrenOf(call[u].fs) = {}
            /\ fs'[call[u].fs].parentFs = fs[call[u].fs].parentFs
      BY <1>1, <1>3, <1>4 DEF CallsOK
    <2>9. CallsOK'
      BY <1>1, <1>2, <1>4, <2>6, <2>7, <2>8, CallEnds
    <2> QED BY <1>3, <1>5, <2>4, <2>5, <2>9 DEF MountsInv
  <1>7. CASE ~Inserts(f)
    <2>1. /\ mountPoints' = mountPoints
          /\ call' = [call EXCEPT ![t].op = "discard"]
      BY <1>7 DEF MountDone
    <2>2. TreeOK' /\ Attached' = Attached
      BY <1>1, <1>3, <2>1, TreeUnchanged
    <2>3. call'[t].op = "discard" /\ call'[t].fs = f /\ \A u \in Thread \ {t} : call'[u] = call[u]
      BY <1>1, <2>1, SMT DEF MountsTypeOK
    <2>4. call' \in [Thread -> [op : {"idle", "mount", "mountRoot", "unmount", "discard"},
                               fs : Fs \cup {NoFs}]]
      BY <1>1, <2>1, SMT DEF MountsTypeOK
    <2>5. MountsTypeOK'
      BY <1>1, <1>3, <2>1, <2>4 DEF MountsTypeOK, typeVars
    <2>6. \A u \in Thread : call[u] # Idle =>
            /\ call[u].fs \in Allocated' /\ ChildrenOf(call[u].fs) = {}
            /\ fs'[call[u].fs].parentFs = fs[call[u].fs].parentFs
      BY <1>1, <1>3, <1>4 DEF CallsOK
    <2>7. CallsOK'
      BY <1>1, <1>2, <1>4, <2>2, <2>3, <2>6, CallEnds
    <2> QED BY <1>3, <1>5, <2>2, <2>5, <2>7 DEF MountsInv
  <1> QED BY <1>6, <1>7

(* The end of IoFilesystemMountRoot.                                       *)
LEMMA MountRootDoneKeeps ==
  ASSUME MountsInv, ~broken, NEW t \in Thread, MountRootDone(t), calls' = calls
  PROVE  MountsInv'
  <1> USE MountsAssumption
  <1>1. MountsTypeOK /\ TreeOK /\ CountsOK /\ CallsOK
    BY DEF MountsInv
  <1> PICK f : f = call[t].fs
    OBVIOUS
  <1>2. /\ call[t] # Idle /\ f \in Allocated /\ f \in Fs /\ fs[f].parentFs = NoFs
        /\ f \notin Attached
    <2>1. call[t] # Idle /\ call[t].op = "mountRoot"
      BY SMT DEF MountRootDone, Idle
    <2> QED BY <1>1, <2>1 DEF CallsOK, Allocated
  <1>3. UNCHANGED <<typeVars, typeRefCount, mounted, fs, mountPoints, broken>>
    BY DEF MountRootDone
  <1>4. Allocated' = Allocated /\ \A g : ChildrenOf(g)' = ChildrenOf(g)
    BY <1>3 DEF Allocated, ChildrenOf
  <1>5. CountsOK'
    BY <1>1, <1>3, <1>4 DEF CountsOK, Users, MountsOf
  <1>6. \A u \in Thread : call[u] # Idle =>
          /\ call[u].fs \in Allocated' /\ ChildrenOf(call[u].fs) = {}
          /\ fs'[call[u].fs].parentFs = fs[call[u].fs].parentFs
    BY <1>1, <1>3, <1>4 DEF CallsOK
  <1>7. CASE IoFilesystemRoot = NoFs
    <2>1. IoFilesystemRoot' = f /\ call' = [call EXCEPT ![t] = Idle]
      BY <1>7 DEF MountRootDone
    <2>2. call' \in [Thread -> [op : {"idle", "mount", "mountRoot", "unmount", "discard"},
                               fs : Fs \cup {NoFs}]]
      BY <1>1, <2>1 DEF MountsTypeOK, Idle
    <2>3. MountsTypeOK'
      BY <1>1, <1>2, <1>3, <2>1, <2>2 DEF MountsTypeOK, typeVars
    <2>4. TreeOK'
      BY <1>1, <1>2, <1>3, <1>4, <2>1 DEF TreeOK
    <2>5. \A u \in Thread \ {t} : call[u] # Idle /\ call[u].fs \notin Attached =>
            call[u].fs \notin Attached'
      <3>1. \A u \in Thread \ {t} : call[u] # Idle => call[u].fs # f
        BY <1>1, <1>2 DEF CallsOK
      <3>2. Attached' \subseteq Attached \cup {f}
        BY <1>2, <1>3, <1>4, <2>1, SMT DEF Attached
      <3> QED BY <3>1, <3>2
    <2>6. call'[t] = Idle /\ \A u \in Thread \ {t} : call'[u] = call[u]
      BY <1>1, <2>1 DEF MountsTypeOK
    <2>7. CallsOK'
      BY <1>1, <1>2, <1>4, <1>6, <2>5, <2>6, CallEnds
    <2> QED BY <1>3, <1>5, <2>3, <2>4, <2>7 DEF MountsInv
  <1>8. CASE IoFilesystemRoot # NoFs
    <2>1. IoFilesystemRoot' = IoFilesystemRoot /\ call' = [call EXCEPT ![t].op = "discard"]
      BY <1>8 DEF MountRootDone
    <2>2. TreeOK' /\ Attached' = Attached
      BY <1>1, <1>3, <2>1, TreeUnchanged
    <2>3. call'[t].op = "discard" /\ call'[t].fs = f /\ \A u \in Thread \ {t} : call'[u] = call[u]
      BY <1>1, <2>1, SMT DEF MountsTypeOK
    <2>4. call' \in [Thread -> [op : {"idle", "mount", "mountRoot", "unmount", "discard"},
                               fs : Fs \cup {NoFs}]]
      BY <1>1, <2>1, SMT DEF MountsTypeOK
    <2>5. MountsTypeOK'
      BY <1>1, <1>3, <2>1, <2>4 DEF MountsTypeOK, typeVars
    <2>6. CallsOK'
      BY <1>1, <1>2, <1>4, <1>6, <2>2, <2>3, CallEnds
    <2> QED BY <1>3, <1>5, <2>2, <2>5, <2>6 DEF MountsInv
  <1> QED BY <1>7, <1>8

(* type->mount fails, or ops->umount does.                                 *)
LEMMA FailureKeeps ==
  ASSUME MountsInv, ~broken, NEW t \in Thread, MountFails(t) \/ UnMountFails(t), calls' = calls
  PROVE  MountsInv'
  <1> USE MountsAssumption
  <1>1. MountsTypeOK /\ TreeOK /\ CountsOK /\ CallsOK
    BY DEF MountsInv
  <1>2. CASE MountFails(t)
    BY <1>1, <1>2 DEF MountFails, MountsInv, MountsTypeOK, typeVars, mountVars
  <1>3. CASE UnMountFails(t)
    <2>1. /\ call' = [call EXCEPT ![t] = Idle] /\ UNCHANGED <<typeVars, mountVars, broken>>
          /\ call[t].op \in {"unmount", "discard"}
      BY <1>3 DEF UnMountFails
    <2>2. /\ Allocated' = Allocated /\ Attached' = Attached
          /\ \A g : ChildrenOf(g)' = ChildrenOf(g)
          /\ TreeOK' /\ CountsOK'
      BY <1>1, <2>1, TreeUnchanged DEF mountVars
    <2>3. call' \in [Thread -> [op : {"idle", "mount", "mountRoot", "unmount", "discard"},
                               fs : Fs \cup {NoFs}]]
      BY <1>1, <2>1 DEF MountsTypeOK, Idle
    <2>4. MountsTypeOK'
      BY <1>1, <2>1, <2>3 DEF MountsTypeOK, typeVars, mountVars
    <2>5. call[t] # Idle /\ call'[t] = Idle /\ \A u \in Thread \ {t} : call'[u] = call[u]
      BY <1>1, <2>1, SMT DEF MountsTypeOK, Idle
    <2>6. \A u \in Thread : call[u] # Idle =>
            /\ call[u].fs \in Allocated' /\ ChildrenOf(call[u].fs) = {}
            /\ fs'[call[u].fs].parentFs = fs[call[u].fs].parentFs
      BY <1>1, <2>1, <2>2 DEF CallsOK, mountVars
    <2>7. CallsOK'
      BY <1>1, <2>2, <2>5, <2>6, CallEnds
    <2> QED BY <2>1, <2>2, <2>4, <2>7 DEF MountsInv
  <1> QED BY <1>2, <1>3

-----------------------------------------------------------------------------
(* The object that IoFilesystemUnMount frees, and what it does not count   *)
(* as any more.                                                            *)
Frees(f, parent) ==
  fs' = [g \in Fs |-> IF g = f THEN NoObject
                      ELSE IF g = parent THEN [fs[g] EXCEPT !.refCount = @ - 1]
                      ELSE fs[g]]

(* The fields after an object was freed.                                   *)
LEMMA FreesFields ==
  ASSUME MountsTypeOK, NEW f \in Fs, NEW parent \in Fs \cup {NoFs}, Frees(f, parent),
         parent # NoFs => fs[parent].refCount # 0
  PROVE  /\ fs' \in [Fs -> FsObject] /\ fs'[f] = NoObject
         /\ \A g \in Fs \ {f} :
              /\ fs'[g].type = fs[g].type /\ fs'[g].device = fs[g].device
              /\ fs'[g].parentFs = fs[g].parentFs /\ fs'[g].parentINode = fs[g].parentINode
              /\ fs'[g].refCount = IF g = parent THEN fs[g].refCount - 1 ELSE fs[g].refCount
              /\ g # parent => fs'[g] = fs[g]
  <1> USE MountsAssumption
  <1>1. NoObject \in FsObject
    BY SMT DEF FsObject, NoObject
  <1>2. \A g \in Fs : fs[g] \in FsObject
    BY DEF MountsTypeOK
  <1>3. ASSUME NEW g \in Fs
        PROVE  /\ fs[g].refCount # 0 => [fs[g] EXCEPT !.refCount = @ - 1] \in FsObject
               /\ [fs[g] EXCEPT !.refCount = @ - 1].type = fs[g].type
               /\ [fs[g] EXCEPT !.refCount = @ - 1].device = fs[g].device
               /\ [fs[g] EXCEPT !.refCount = @ - 1].parentFs = fs[g].parentFs
               /\ [fs[g] EXCEPT !.refCount = @ - 1].parentINode = fs[g].parentINode
               /\ [fs[g] EXCEPT !.refCount = @ - 1].refCount = fs[g].refCount - 1
    BY <1>2, SMT DEF FsObject
  <1>4. fs' = [g \in Fs |-> IF g = f THEN NoObject
                            ELSE IF g = parent THEN [fs[g] EXCEPT !.refCount = @ - 1] ELSE fs[g]]
    BY DEF Frees
  <1>5. fs' \in [Fs -> FsObject]
    <2>1. \A g \in Fs : (IF g = f THEN NoObject
                         ELSE IF g = parent THEN [fs[g] EXCEPT !.refCount = @ - 1] ELSE fs[g])
                       \in FsObject
      BY <1>1, <1>2, <1>3, ZenonT(30)
    <2> QED BY <1>4, <2>1
  <1>6. fs'[f] = NoObject
    BY <1>4
  <1>7. \A g \in Fs \ {f} : fs'[g] = IF g = parent THEN [fs[g] EXCEPT !.refCount = @ - 1] ELSE fs[g]
    BY <1>4
  <1> QED BY <1>3, <1>5, <1>6, <1>7

(* The sets that are counted, after an object was freed.                   *)
LEMMA FreesSets ==
  ASSUME MountsTypeOK, TreeOK, NEW f \in Allocated, NEW parent, parent = fs[f].parentFs,
         fs'[f] = NoObject,
         \A g \in Fs \ {f} : /\ fs'[g].type = fs[g].type /\ fs'[g].device = fs[g].device
                             /\ fs'[g].parentFs = fs[g].parentFs
  PROVE  /\ Allocated' = Allocated \ {f}
         /\ \A g : ChildrenOf(g)' = ChildrenOf(g) \ {f}
         /\ \A x : Users(x)' = Users(x) \ {f}
         /\ \A d : MountsOf(d)' = MountsOf(d) \ {f}
         /\ f \in ChildrenOf(parent) /\ f \in Users(fs[f].type) /\ f \in MountsOf(fs[f].device)
         /\ \A g : f \in ChildrenOf(g) => g = parent
         /\ \A x : f \in Users(x) => x = fs[f].type
         /\ \A d : f \in MountsOf(d) => d = fs[f].device
  <1>1. Allocated \subseteq Fs
    BY DEF Allocated
  <1>2. Allocated' = Allocated \ {f}
    BY <1>1, SMT DEF Allocated, NoObject
  <1>3. ASSUME NEW g PROVE ChildrenOf(g)' = ChildrenOf(g) \ {f}
    BY <1>1, <1>2 DEF ChildrenOf
  <1>4. ASSUME NEW x PROVE Users(x)' = Users(x) \ {f}
    BY <1>1, <1>2 DEF Users
  <1>5. ASSUME NEW d PROVE MountsOf(d)' = MountsOf(d) \ {f}
    BY <1>1, <1>2 DEF MountsOf
  <1>6. f \in ChildrenOf(parent) /\ f \in Users(fs[f].type) /\ f \in MountsOf(fs[f].device)
    BY DEF ChildrenOf, Users, MountsOf
  <1>7. /\ \A g : f \in ChildrenOf(g) => g = parent
        /\ \A x : f \in Users(x) => x = fs[f].type
        /\ \A d : f \in MountsOf(d) => d = fs[f].device
    BY DEF ChildrenOf, Users, MountsOf
  <1> QED BY <1>2, <1>3, <1>4, <1>5, <1>6, <1>7

(* A set with one element less.                                            *)
LEMMA OneLess ==
  ASSUME NEW S, IsFiniteSet(S), NEW x
  PROVE  /\ IsFiniteSet(S \ {x})
         /\ x \in S => /\ Cardinality(S) \in Nat \ {0}
                       /\ Cardinality(S \ {x}) = Cardinality(S) - 1
         /\ x \notin S => Cardinality(S \ {x}) = Cardinality(S)
  <1>1. Cardinality(S) \in Nat /\ (Cardinality(S) = 0 <=> S = {})
    BY CardinalityZero
  <1>2. x \notin S => S \ {x} = S
    OBVIOUS
  <1>3. x \in S => S # {}
    OBVIOUS
  <1> QED BY <1>1, <1>2, <1>3, FS_RemoveElement

(* The rest of IoFilesystemUnMount.                                        *)
LEMMA UnMountDoneKeeps ==
  ASSUME MountsInv, ~broken, NEW t \in Thread, UnMountDone(t), calls' = calls
  PROVE  MountsInv'
  <1> USE MountsAssumption
  <1>1. MountsTypeOK /\ TreeOK /\ CountsOK /\ CallsOK
    BY DEF MountsInv
  <1> PICK f : f = call[t].fs
    OBVIOUS
  <1> PICK parent : parent = fs[f].parentFs
    OBVIOUS
  <1> PICK device : device = fs[f].device
    OBVIOUS
  <1> PICK type : type = fs[f].type
    OBVIOUS
  <1>2. /\ call[t].op \in {"unmount", "discard"}
        /\ call' = [call EXCEPT ![t] = Idle]
        /\ IoFilesystemRoot' = IF f = IoFilesystemRoot THEN NoFs ELSE IoFilesystemRoot
        /\ mountPoints' = [g \in Fs |-> IF g = parent THEN mountPoints[g] \ {f} ELSE mountPoints[g]]
        /\ typeRefCount' = [typeRefCount EXCEPT ![type] = @ - 1]
        /\ mounted' = [d \in Device |-> d # device /\ mounted[d]]
        /\ Frees(f, parent)
        /\ broken' = (broken \/ device = NoDevice)
        /\ UNCHANGED typeVars
    BY DEF UnMountDone, Frees, UnlockType
  <1>3. call[t] # Idle /\ f \in Allocated /\ ChildrenOf(f) = {}
    <2>1. call[t] # Idle
      BY <1>2, SMTT(20) DEF Idle
    <2> QED BY <1>1, <2>1 DEF CallsOK
  <1>4. f \in Fs /\ Allocated \subseteq Fs /\ type \in Type
    BY <1>1, <1>3, SMT DEF Allocated, MountsTypeOK, FsObject
  <1>5. f \in ChildrenOf(parent)
    BY <1>3 DEF ChildrenOf
  <1>6. parent # f /\ parent \in Allocated \cup {NoFs} /\ parent \in Fs \cup {NoFs}
    BY <1>1, <1>3, <1>4, <1>5 DEF TreeOK
  <1>7. /\ IsFiniteSet(Allocated)
        /\ \A g : IsFiniteSet(ChildrenOf(g))
        /\ \A x : IsFiniteSet(Users(x))
        /\ \A d : IsFiniteSet(MountsOf(d))
    BY <1>1, CountedFinite DEF TreeOK
  <1>8. parent # NoFs => fs[parent].refCount # 0
    BY <1>1, <1>5, <1>6, <1>7, OneLess DEF CountsOK
  <1>9. /\ fs' \in [Fs -> FsObject] /\ fs'[f] = NoObject
        /\ \A g \in Fs \ {f} :
             /\ fs'[g].type = fs[g].type /\ fs'[g].device = fs[g].device
             /\ fs'[g].parentFs = fs[g].parentFs /\ fs'[g].parentINode = fs[g].parentINode
             /\ fs'[g].refCount = IF g = parent THEN fs[g].refCount - 1 ELSE fs[g].refCount
             /\ g # parent => fs'[g] = fs[g]
    <2>1. MountsTypeOK /\ Frees(f, parent) /\ f \in Fs /\ parent \in Fs \cup {NoFs}
      BY <1>1, <1>2, <1>4, <1>6
    <2> QED BY <2>1, <1>8, FreesFields, SMTT(20)
  <1>10. /\ Allocated' = Allocated \ {f}
         /\ \A g : ChildrenOf(g)' = ChildrenOf(g) \ {f}
         /\ \A x : Users(x)' = Users(x) \ {f}
         /\ \A d : MountsOf(d)' = MountsOf(d) \ {f}
         /\ f \in Users(type) /\ f \in MountsOf(device)
         /\ \A g : f \in ChildrenOf(g) => g = parent
         /\ \A x : f \in Users(x) => x = type
         /\ \A d : f \in MountsOf(d) => d = device
    BY <1>1, <1>3, <1>9, FreesSets, SMTT(20)
  <1>11. typeRefCount[type] \in Nat \ {0}
    <2>1. IsFiniteSet(Users(type)) /\ f \in Users(type) /\ typeRefCount[type] = Cardinality(Users(type))
      BY <1>1, <1>4, <1>7, <1>10 DEF CountsOK
    <2> QED BY <2>1, OneLess
  <1>12. \A g \in Fs : mountPoints'[g] = mountPoints[g] \ {f}
    <2>1. \A g \in Fs : g # parent => f \notin mountPoints[g]
      BY <1>1, <1>10 DEF TreeOK
    <2> QED BY <1>2, <2>1
  <1>13. MountsTypeOK'
    <2>1. typeRefCount' \in [Type -> Nat]
      <3>1. typeRefCount[type] - 1 \in Nat
        BY <1>11, SMT
      <3>2. typeRefCount \in [Type -> Nat]
        BY <1>1 DEF MountsTypeOK
      <3> QED BY <1>2, <3>1, <3>2
    <2>2. call' \in [Thread -> [op : {"idle", "mount", "mountRoot", "unmount", "discard"},
                               fs : Fs \cup {NoFs}]]
      BY <1>1, <1>2 DEF MountsTypeOK, Idle
    <2>3. mountPoints' \in [Fs -> SUBSET Fs]
      BY <1>1, <1>2, SMTT(20) DEF MountsTypeOK
    <2>4. mounted' \in [Device -> BOOLEAN]
      BY <1>1, <1>2 DEF MountsTypeOK
    <2>5. IoFilesystemRoot' \in Fs \cup {NoFs} /\ broken' \in BOOLEAN
      BY <1>1, <1>2 DEF MountsTypeOK
    <2> QED BY <1>1, <1>2, <1>9, <2>1, <2>2, <2>3, <2>4, <2>5 DEF MountsTypeOK, typeVars
  <1>14. TreeOK'
    <2>1. IsFiniteSet(Allocated')
      BY <1>7, <1>10, OneLess
    <2>2. ASSUME NEW g \in Fs \ Allocated' PROVE fs'[g] = NoObject /\ mountPoints'[g] = {}
      <3>1. CASE g = f
        BY <3>1, <1>1, <1>3, <1>4, <1>9, <1>12, ZenonT(30) DEF TreeOK
      <3>2. CASE g # f
        <4>1. g \in Fs \ Allocated /\ g # parent
          BY <3>2, <1>6, <1>10
        <4> QED BY <3>2, <4>1, <1>1, <1>9, <1>12, SMT DEF TreeOK
      <3> QED BY <3>1, <3>2
    <2>3. ASSUME NEW g \in Allocated', fs'[g].parentFs # NoFs PROVE fs'[g].parentFs \in Allocated'
      <3>1. g \in Allocated /\ g # f /\ g \in Fs
        BY <1>4, <1>10
      <3>2. fs[g].parentFs # f
        BY <3>1, <1>3 DEF ChildrenOf
      <3>3. fs[g].parentFs \in Allocated
        BY <2>3, <3>1, <1>1, <1>9 DEF TreeOK
      <3> QED BY <3>1, <3>2, <3>3, <1>9, <1>10
    <2>4. \A g \in Fs : mountPoints'[g] \subseteq ChildrenOf(g)'
      BY <1>1, <1>10, <1>12, SMT DEF TreeOK
    <2>5. \A g \in Fs : \A h, i \in mountPoints'[g] : fs'[h].parentINode = fs'[i].parentINode => h = i
      <3>1. \A g \in Fs : \A h \in mountPoints'[g] : h \in mountPoints[g] /\ h \in Fs \ {f}
        BY <1>1, <1>12, SMT DEF MountsTypeOK
      <3> QED BY <3>1, <1>1, <1>9, SMTT(20) DEF TreeOK
    <2>6. IoFilesystemRoot' # NoFs =>
            IoFilesystemRoot' \in Allocated' /\ fs'[IoFilesystemRoot'].parentFs = NoFs
      BY <1>1, <1>2, <1>4, <1>9, <1>10 DEF TreeOK
    <2> QED BY <2>1, <2>2, <2>3, <2>4, <2>5, <2>6 DEF TreeOK
  <1>15. ASSUME device # NoDevice PROVE CountsOK'
    <2>1. ASSUME NEW g \in Fs PROVE fs'[g].refCount = Cardinality(ChildrenOf(g)')
      <3>1. CASE g = f
        <4>1. ChildrenOf(f)' = {}
          BY <1>3, <1>10
        <4> QED BY <3>1, <4>1, <1>9, FS_EmptySet, SMTT(20) DEF NoObject
      <3>2. CASE g # f /\ g = parent
        <4>1. Cardinality(ChildrenOf(g) \ {f}) = Cardinality(ChildrenOf(g)) - 1
          BY <3>2, <1>5, <1>7, OneLess
        <4>2. fs'[g].refCount = fs[g].refCount - 1 /\ fs[g].refCount = Cardinality(ChildrenOf(g))
          BY <3>2, <1>1, <1>9 DEF CountsOK
        <4> QED BY <4>1, <4>2, <1>10
      <3>3. CASE g # f /\ g # parent
        <4>1. Cardinality(ChildrenOf(g) \ {f}) = Cardinality(ChildrenOf(g))
          BY <3>3, <1>7, <1>10, OneLess
        <4>2. fs'[g].refCount = fs[g].refCount /\ fs[g].refCount = Cardinality(ChildrenOf(g))
          BY <3>3, <1>1, <1>9 DEF CountsOK
        <4> QED BY <4>1, <4>2, <1>10
      <3> QED BY <3>1, <3>2, <3>3
    <2>2. ASSUME NEW x \in Type PROVE typeRefCount'[x] = Cardinality(Users(x)')
      <3>1. typeRefCount'[x] = IF x = type THEN typeRefCount[x] - 1 ELSE typeRefCount[x]
        BY <1>1, <1>2 DEF MountsTypeOK
      <3>2. typeRefCount[x] = Cardinality(Users(x)) /\ IsFiniteSet(Users(x)) /\ Users(x)' = Users(x) \ {f}
        BY <1>1, <1>7, <1>10 DEF CountsOK
      <3>3. x = type <=> f \in Users(x)
        BY <1>10
      <3> QED BY <3>1, <3>2, <3>3, OneLess, SMT
    <2>3. ASSUME NEW d \in Device
          PROVE  Cardinality(MountsOf(d)') = IF mounted'[d] THEN 1 ELSE 0
      <3>1. CASE d = device
        <4>1. ~mounted'[d]
          BY <3>1, <1>2
        <4>2. /\ Cardinality(MountsOf(d)) \in Nat \ {0}
              /\ Cardinality(MountsOf(d)') = Cardinality(MountsOf(d)) - 1
          BY <3>1, <1>7, <1>10, OneLess
        <4>3. Cardinality(MountsOf(d)) \in {0, 1}
          BY <1>1 DEF CountsOK
        <4> QED BY <4>1, <4>2, <4>3, SMT
      <3>2. CASE d # device
        <4>1. mounted'[d] <=> mounted[d]
          BY <3>2, <1>2
        <4>2. Cardinality(MountsOf(d)') = Cardinality(MountsOf(d))
          BY <3>2, <1>7, <1>10, OneLess
        <4> QED BY <4>1, <4>2, <1>1 DEF CountsOK
      <3> QED BY <3>1, <3>2
    <2> QED BY <2>1, <2>2, <2>3 DEF CountsOK
  <1>16. CallsOK'
    <2>1. call'[t] = Idle /\ \A u \in Thread \ {t} : call'[u] = call[u]
      BY <1>1, <1>2 DEF MountsTypeOK
    <2>2. ASSUME NEW u \in Thread, call[u] # Idle, call'[u] # Idle
          PROVE  /\ call[u].fs \in Allocated' /\ ChildrenOf(call[u].fs) = {}
                 /\ fs'[call[u].fs].parentFs = fs[call[u].fs].parentFs
      <3>1. u # t /\ call[u].fs # f
        BY <2>1, <2>2, <1>1, <1>3 DEF CallsOK
      <3>2. call[u].fs \in Allocated /\ ChildrenOf(call[u].fs) = {}
        BY <2>2, <1>1 DEF CallsOK
      <3> QED BY <3>1, <3>2, <1>4, <1>9, <1>10
    <2>3. \A g \in Fs : ChildrenOf(g) = {} => ChildrenOf(g)' = {}
      BY <1>10
    <2>4. ASSUME NEW g \in Attached' PROVE g \in Attached
      <3>1. g \in Allocated
        BY <1>10 DEF Attached
      <3>2. CASE g = IoFilesystemRoot'
        BY <3>1, <3>2, <1>2, <1>4 DEF Attached
      <3>3. CASE \E h \in Allocated' : g \in mountPoints'[h]
        BY <3>1, <3>3, <1>4, <1>10, <1>12, ZenonT(30) DEF Attached
      <3> QED BY <3>2, <3>3 DEF Attached
    <2> QED BY <1>1, <1>3, <2>1, <2>2, <2>3, <2>4, CallEnds
  <1> QED BY <1>2, <1>13, <1>14, <1>15, <1>16 DEF MountsInv

-----------------------------------------------------------------------------
(* The list of file system types is no part of the tree of mounts.         *)
LEMMA RegistrationKeeps ==
  ASSUME MountsInv, ~broken, NEW type \in Type, calls' \in 0 .. MaxCalls,
         IoFilesystemRegister(type) \/ IoFilesystemUnRegister(type)
  PROVE  MountsInv'
  <1>1. MountsTypeOK /\ TreeOK /\ CountsOK /\ CallsOK
    BY DEF MountsInv
  <1>2. /\ UNCHANGED <<mountVars, call, broken>>
        /\ fsTypeHead' \in {NoType, type, fsTypeHead} /\ linked' \in {linked, linked \cup {type}}
    BY DEF IoFilesystemRegister, IoFilesystemUnRegister
  <1>3. MountsTypeOK'
    BY <1>1, <1>2 DEF MountsTypeOK, mountVars
  <1>4. /\ Allocated' = Allocated /\ Attached' = Attached
        /\ \A g : ChildrenOf(g)' = ChildrenOf(g)
        /\ TreeOK' /\ CountsOK'
    BY <1>1, <1>2, TreeUnchanged DEF mountVars
  <1>5. CallsOK'
    BY <1>1, <1>2, <1>4 DEF CallsOK, mountVars
  <1> QED BY <1>3, <1>4, <1>5 DEF MountsInv

(* Every step of mounting and unmounting keeps the invariant.              *)
LEMMA MountsNextKeeps ==
  ASSUME MountsInv, MountsNext
  PROVE  MountsInv'
  <1>1. ~broken /\ calls \in 0 .. MaxCalls
    BY DEF MountsNext, MountsInv, MountsTypeOK
  <1>2. Counted => calls' \in 0 .. MaxCalls
    BY <1>1, MountsAssumption, SMT DEF Counted
  <1>3. ASSUME NEW type \in Type, Counted,
               IoFilesystemRegister(type) \/ IoFilesystemUnRegister(type)
        PROVE  MountsInv'
    BY <1>1, <1>2, <1>3, RegistrationKeeps
  <1>4. ASSUME NEW t \in Thread, Counted, Begin(t)
        PROVE  MountsInv'
    <2>1. ASSUME NEW m \in Mountable
          PROVE  m[1] \in Type /\ m[2] \in Device \cup {NoDevice}
      BY MountsAssumption, SMT
    <2>2. ASSUME NEW m \in Mountable, IoFilesystemMountRoot(t, m[1], m[2])
          PROVE  MountsInv'
      BY <1>1, <1>2, <1>4, <2>1, <2>2, IoFilesystemMountRootKeeps
    <2>3. ASSUME NEW m \in Mountable, NEW parent \in Fs, NEW i \in INode,
                 IoFilesystemMount(t, m[1], m[2], parent, i)
          PROVE  MountsInv'
      BY <1>1, <1>2, <1>4, <2>1, <2>3, IoFilesystemMountKeeps
    <2>4. ASSUME NEW f \in Fs, IoFilesystemUnMount(t, f)
          PROVE  MountsInv'
      BY <1>1, <1>2, <1>4, <2>4, IoFilesystemUnMountKeeps
    <2> QED BY <1>4, <2>2, <2>3, <2>4 DEF Begin
  <1>5. ASSUME NEW t \in Thread, UNCHANGED calls, Continue(t)
        PROVE  MountsInv'
    <2>1. CASE MountDone(t)
      BY <1>1, <1>5, <2>1, MountDoneKeeps
    <2>2. CASE MountRootDone(t)
      BY <1>1, <1>5, <2>2, MountRootDoneKeeps
    <2>3. CASE MountFails(t) \/ UnMountFails(t)
      BY <1>1, <1>5, <2>3, FailureKeeps
    <2>4. CASE UnMountDone(t)
      BY <1>1, <1>5, <2>4, UnMountDoneKeeps
    <2> QED BY <1>5, <2>1, <2>2, <2>3, <2>4 DEF Continue
  <1> QED BY <1>3, <1>4, <1>5 DEF MountsNext

(* What mounting is about is left alone.                                   *)
LEMMA MountsStutter ==
  ASSUME MountsInv, UNCHANGED mountsVars, calls' \in 0 .. MaxCalls
  PROVE  MountsInv'
  <1>1. /\ UNCHANGED <<fsTypeHead, linked, call, broken>>
        /\ UNCHANGED <<fs, mountPoints, IoFilesystemRoot, typeRefCount, mounted>>
    BY DEF mountsVars, typeVars, mountVars
  <1>2. MountsTypeOK'
    BY <1>1 DEF MountsTypeOK, MountsInv
  <1>3. /\ Allocated' = Allocated /\ Attached' = Attached
        /\ \A g : ChildrenOf(g)' = ChildrenOf(g)
        /\ TreeOK' = TreeOK /\ CountsOK' = CountsOK
    BY <1>1, TreeUnchanged
  <1>4. CallsOK' = CallsOK
    BY <1>1, <1>3 DEF CallsOK
  <1> QED BY <1>1, <1>2, <1>3, <1>4 DEF MountsInv

(* The invariant says what the locks and counts are to say.                *)
LEMMA MountsInvImplies == MountsInv => LocksMatchMounts
  <1> SUFFICES ASSUME MountsInv PROVE LocksMatchMounts
    OBVIOUS
  <1>1. Allocated \subseteq Fs
    BY DEF Allocated
  <1>2. MountsTypeOK /\ (~broken => TreeOK /\ CountsOK)
    BY DEF MountsInv
  <1> QED BY <1>1, <1>2 DEF LocksMatchMounts, TreeOK, CountsOK, Users, MountsOf

-----------------------------------------------------------------------------
(* No device is registered at the start, and no file is open.              *)
LEMMA InitDevFsInv == DevFsInit => DevFsInv
  <1> SUFFICES ASSUME DevFsInit PROVE DevFsInv
    OBVIOUS
  <1> USE MountsAssumption, DevFsAssumption
  <1>1. 0 \in Slot /\ nextFreeINode \in 0 .. MAX_DEVICES
    BY SMT DEF Slot, DevFsInit
  <1>2. NoHandle \in [state : {"closed", "opening", "open", "closing"},
                      iNode : Slot, device : Device \cup {NoDevice}]
    BY <1>1 DEF NoHandle
  <1>3. opens \in [Device -> Int]
    BY SMT DEF DevFsInit
  <1>4. DevFsTypeOK
    BY <1>1, <1>2, <1>3 DEF DevFsInit, DevFsTypeOK
  <1>5. \A i \in Slot : ~(i < nextFreeINode)
    BY SMT DEF DevFsInit, Slot
  <1>6. NamesMatchSlots
    BY <1>4, <1>5 DEF NamesMatchSlots, DevFsInit
  <1>7. \A h \in Handle : handle[h] = NoHandle /\ handle[h].state = "closed"
    BY DEF DevFsInit, NoHandle
  <1>8. HandlesOK
    <2>1. {h \in Handle : handle[h].state # "closed"} = {}
      BY <1>7
    <2> QED BY <1>7, <2>1, FS_EmptySet DEF HandlesOK
  <1>9. FilesKeepDevice
    <2>1. \A i \in Slot : devices[i] = NoDevice
      BY DEF DevFsInit
    <2> QED BY <1>7, <2>1 DEF FilesKeepDevice
  <1> QED BY <1>6, <1>8, <1>9 DEF DevFsInv

(* IoDevFsRegister: the first free slot and the name are taken together.   *)
LEMMA RegisterKeeps ==
  ASSUME DevFsInv, NEW d \in Device, IoDevFsRegister(d)
  PROVE  DevFsInv'
  <1> USE MountsAssumption, DevFsAssumption
  <1>1. DevFsTypeOK
    BY DEF DevFsInv, NamesMatchSlots
  <1> PICK i \in FreeSlots :
        /\ \A j \in FreeSlots : i <= j
        /\ devFsFiles[NameOf[d]] = NoDevice
        /\ devFsFiles' = [devFsFiles EXCEPT ![NameOf[d]] = d]
        /\ devices' = [devices EXCEPT ![i] = d]
        /\ devFsINode' = [devFsINode EXCEPT ![d] = i]
        /\ nextFreeINode' = i + 1
        /\ opens' = [opens EXCEPT ![d] = 0]
        /\ heirs' = IF RefersTo(i) # {} THEN heirs \cup {d} ELSE heirs \ {d}
        /\ UNCHANGED handle
    BY DEF IoDevFsRegister
  <1>2. i \in Slot /\ devices[i] = NoDevice /\ NameOf[d] \in Name /\ d # NoDevice
    BY DEF FreeSlots
  <1>3. /\ devices'[i] = d /\ \A j \in Slot \ {i} : devices'[j] = devices[j]
        /\ devFsINode'[d] = i /\ \A e \in Device \ {d} : devFsINode'[e] = devFsINode[e]
        /\ devFsFiles'[NameOf[d]] = d /\ \A n \in Name \ {NameOf[d]} : devFsFiles'[n] = devFsFiles[n]
    BY <1>1, <1>2 DEF DevFsTypeOK
  <1>4. DevFsTypeOK'
    <2>1. nextFreeINode' \in 0 .. MAX_DEVICES
      BY <1>2, SMT DEF Slot
    <2>2. opens' \in [Device -> Int] /\ heirs' \subseteq Device
      BY <1>1, SMT DEF DevFsTypeOK
    <2> QED BY <1>1, <1>2, <2>1, <2>2 DEF DevFsTypeOK
  <1>5. ASSUME NEW n \in Name, devFsFiles'[n] # NoDevice
        PROVE  devices'[devFsINode'[devFsFiles'[n]]] = devFsFiles'[n] /\ NameOf[devFsFiles'[n]] = n
    <2>1. CASE n = NameOf[d]
      BY <2>1, <1>3
    <2>2. CASE n # NameOf[d]
      <3> PICK e : e = devFsFiles[n]
        OBVIOUS
      <3>1. devFsFiles'[n] = e /\ e \in Device /\ e # NoDevice
        BY <2>2, <1>1, <1>3, <1>5, SMT DEF DevFsTypeOK
      <3>2. devices[devFsINode[e]] = e /\ NameOf[e] = n /\ devFsINode[e] \in Slot
        BY <1>1, <3>1 DEF DevFsInv, NamesMatchSlots, DevFsTypeOK
      <3>3. e # d /\ devFsINode[e] # i
        BY <2>2, <1>2, <3>1, <3>2
      <3> QED BY <3>1, <3>2, <3>3, <1>3, SMT
    <2> QED BY <2>1, <2>2
  <1>6. ASSUME NEW j \in Slot, devices'[j] # NoDevice
        PROVE  devFsFiles'[NameOf[devices'[j]]] = devices'[j] /\ devFsINode'[devices'[j]] = j
    <2>1. CASE j = i
      BY <2>1, <1>3
    <2>2. CASE j # i
      <3> PICK e : e = devices[j]
        OBVIOUS
      <3>1. devices'[j] = e /\ e \in Device /\ e # NoDevice
        BY <2>2, <1>1, <1>3, <1>6, SMT DEF DevFsTypeOK
      <3>2. devFsFiles[NameOf[e]] = e /\ devFsINode[e] = j /\ NameOf[e] \in Name
        BY <1>1, <3>1 DEF DevFsInv, NamesMatchSlots, DevFsTypeOK
      <3>3. NameOf[e] # NameOf[d]
        BY <1>2, <3>1, <3>2
      <3> QED BY <3>1, <3>2, <3>3, <1>3, SMT
    <2> QED BY <2>1, <2>2
  <1>7. ASSUME NEW j \in Slot, j < nextFreeINode' PROVE devices'[j] # NoDevice
    <2>1. CASE j = i
      BY <2>1, <1>2, <1>3
    <2>2. CASE j # i
      <3>1. j < i
        BY <1>2, <1>7, <2>2, SMT DEF Slot
      <3>2. j \notin FreeSlots
        BY <1>2, <3>1, SMT DEF Slot, FreeSlots
      <3>3. devices[j] # NoDevice \/ j < nextFreeINode
        BY <1>1, <3>2, SMT DEF FreeSlots, DevFsTypeOK, Slot
      <3>4. devices[j] # NoDevice
        BY <3>3 DEF DevFsInv, NamesMatchSlots
      <3> QED BY <2>2, <3>4, <1>3
    <2> QED BY <2>1, <2>2
  <1>8. HandlesOK'
    BY DEF DevFsInv, HandlesOK
  <1>9. \A j \in Slot : devices[j] # d
    BY <1>2 DEF DevFsInv, NamesMatchSlots
  <1>10. /\ \A e : e # d => (e \in heirs' <=> e \in heirs)
         /\ RefersTo(i) # {} => d \in heirs'
    OBVIOUS
  <1>11. ASSUME NEW h \in Handle, handle[h].state # "closed" PROVE DeviceOK(h)'
    <2>1. handle[h].iNode \in Slot /\ handle' = handle
      BY <1>1 DEF DevFsTypeOK
    <2>2. DeviceOK(h)
      BY <1>11 DEF DevFsInv, FilesKeepDevice, DeviceOK
    <2>3. CASE handle[h].iNode = i
      <3>1. handle[h].device = NoDevice
        BY <1>2, <2>2, <2>3 DEF DeviceOK, DeviceOfFile
      <3>2. RefersTo(i) # {}
        BY <1>11, <2>3 DEF RefersTo
      <3> QED BY <1>3, <1>10, <2>1, <2>3, <3>1, <3>2 DEF DeviceOK, DeviceOfFile
    <2>4. CASE handle[h].iNode # i
      <3>1. devices'[handle[h].iNode] = devices[handle[h].iNode] /\ devices[handle[h].iNode] # d
        BY <1>3, <1>9, <2>1, <2>4
      <3> QED BY <1>10, <2>1, <2>2, <3>1 DEF DeviceOK, DeviceOfFile
    <2> QED BY <2>3, <2>4
  <1>12. ASSUME NEW j \in Slot, NEW e, e = devices'[j], e \notin heirs' \cup {NoDevice}
         PROVE  opens'[e] = Cardinality(OpenOn(e)')
    <2>1. \A x : OpenOn(x)' = OpenOn(x)
      BY DEF OpenOn
    <2>2. CASE j = i
      <3>1. OpenOn(d) = {}
        <4>1. ASSUME NEW h \in OpenOn(d) PROVE FALSE
          <5>1. h \in Handle /\ handle[h].state # "closed" /\ handle[h].device = d
            BY <4>1 DEF OpenOn
          <5>2. handle[h].iNode \in Slot /\ devices[handle[h].iNode] = d
            BY <1>1, <1>2, <5>1 DEF DevFsInv, FilesKeepDevice, DeviceOfFile, DevFsTypeOK
          <5> QED BY <1>9, <5>2
        <4> QED BY <4>1
      <3>2. e = d /\ opens'[d] = 0
        BY <1>1, <1>3, <1>12, <2>2 DEF DevFsTypeOK
      <3>3. Cardinality(OpenOn(d)') = 0
        BY <2>1, <3>1, FS_EmptySet
      <3> QED BY <3>2, <3>3
    <2>3. CASE j # i
      <3>1. devices[j] = e /\ e # d /\ e \notin heirs \cup {NoDevice} /\ e \in Device
        BY <1>1, <1>3, <1>9, <1>10, <1>12, <2>3 DEF DevFsTypeOK
      <3>2. opens'[e] = opens[e]
        BY <1>1, <3>1 DEF DevFsTypeOK
      <3>3. opens[e] = Cardinality(OpenOn(e))
        BY <3>1 DEF DevFsInv, FilesKeepDevice, OpenOn
      <3> QED BY <2>1, <3>2, <3>3
    <2> QED BY <2>2, <2>3
  <1>13. FilesKeepDevice'
    BY <1>11, <1>12 DEF FilesKeepDevice, DeviceOK, OpenOn
  <1> QED BY <1>4, <1>5, <1>6, <1>7, <1>8, <1>13 DEF DevFsInv, NamesMatchSlots

(* IoDevFsUnRegister: the slot and the name are given back, and the device *)
(* is no longer that of the files opened on it.                            *)
LEMMA UnRegisterKeeps ==
  ASSUME DevFsInv, NEW d \in Device, IoDevFsUnRegister(d)
  PROVE  DevFsInv'
  <1> USE MountsAssumption, DevFsAssumption
  <1>1. DevFsTypeOK
    BY DEF DevFsInv, NamesMatchSlots
  <1> PICK i : i = devFsINode[d]
    OBVIOUS
  <1>0. i = devFsINode[d]
    OBVIOUS
  <1>2. /\ devices[i] = d /\ i \in Slot /\ d # NoDevice
        /\ devFsFiles' = [n \in Name |-> IF devFsFiles[n] = d THEN NoDevice ELSE devFsFiles[n]]
        /\ devices' = [devices EXCEPT ![i] = NoDevice]
        /\ nextFreeINode' = LowerHint(i)
        /\ devFsINode' = [devFsINode EXCEPT ![d] = 0]
        /\ handle' = [h \in Handle |-> IF handle[h].device = d
                                       THEN [handle[h] EXCEPT !.device = NoDevice] ELSE handle[h]]
        /\ UNCHANGED <<opens, heirs>>
    BY <1>1 DEF IoDevFsUnRegister, IsRegistered, DevFsTypeOK
  <1>3. /\ devices'[i] = NoDevice /\ \A j \in Slot \ {i} : devices'[j] = devices[j]
        /\ \A e \in Device \ {d} : devFsINode'[e] = devFsINode[e]
        /\ \A n \in Name : devFsFiles'[n] = IF devFsFiles[n] = d THEN NoDevice ELSE devFsFiles[n]
    BY <1>1, <1>2 DEF DevFsTypeOK
  <1>4. DevFsTypeOK'
    <2>1. nextFreeINode' \in 0 .. MAX_DEVICES /\ 0 \in Slot
      BY <1>1, <1>2, SMT DEF Slot, LowerHint, DevFsTypeOK
    <2>2. devFsFiles' \in [Name -> Device \cup {NoDevice}]
      BY <1>1, <1>2 DEF DevFsTypeOK
    <2>3. /\ devices' \in [Slot -> Device \cup {NoDevice}] /\ devFsINode' \in [Device -> Slot]
      BY <1>1, <1>2, <2>1 DEF DevFsTypeOK
    <2>4. handle' \in [Handle -> HandleType]
      <3>1. handle \in [Handle -> HandleType]
        BY <1>1 DEF DevFsTypeOK, HandleType
      <3>2. \A r \in HandleType : [r EXCEPT !.device = NoDevice] \in HandleType
        BY DEF HandleType
      <3>3. \A h \in Handle : handle[h] \in HandleType
        BY <3>1
      <3> QED BY <1>2, <3>2, <3>3
    <2> QED BY <1>1, <1>2, <2>1, <2>2, <2>3, <2>4 DEF DevFsTypeOK, HandleType
  <1>5. ASSUME NEW n \in Name, devFsFiles'[n] # NoDevice
        PROVE  devices'[devFsINode'[devFsFiles'[n]]] = devFsFiles'[n] /\ NameOf[devFsFiles'[n]] = n
    <2> PICK e : e = devFsFiles[n]
      OBVIOUS
    <2>1. devFsFiles'[n] = e /\ e \in Device /\ e # NoDevice /\ e # d
      BY <1>1, <1>3, <1>5, SMT DEF DevFsTypeOK
    <2>2. devices[devFsINode[e]] = e /\ NameOf[e] = n /\ devFsINode[e] \in Slot
      BY <1>1, <2>1 DEF DevFsInv, NamesMatchSlots, DevFsTypeOK
    <2>3. devFsINode'[e] = devFsINode[e] /\ devFsINode[e] # i
      BY <1>2, <1>3, <2>1, <2>2
    <2> QED BY <2>1, <2>2, <2>3, <1>3, SMT
  <1>6. ASSUME NEW j \in Slot, devices'[j] # NoDevice
        PROVE  devFsFiles'[NameOf[devices'[j]]] = devices'[j] /\ devFsINode'[devices'[j]] = j
    <2> PICK e : e = devices[j]
      OBVIOUS
    <2>1. devices'[j] = e /\ e \in Device /\ e # NoDevice /\ j # i
      BY <1>1, <1>3, <1>6, SMT DEF DevFsTypeOK
    <2>2. devFsFiles[NameOf[e]] = e /\ devFsINode[e] = j /\ NameOf[e] \in Name
      BY <1>1, <2>1 DEF DevFsInv, NamesMatchSlots, DevFsTypeOK
    <2>3. e # d
      BY <2>1, <2>2
    <2> QED BY <2>1, <2>2, <2>3, <1>3, SMT
  <1>7. ASSUME NEW j \in Slot, j < nextFreeINode' PROVE devices'[j] # NoDevice
    <2>1. j < nextFreeINode /\ j # i
      BY <1>1, <1>2, <1>7, SMT DEF LowerHint, Slot, DevFsTypeOK
    <2>2. devices[j] # NoDevice
      BY <2>1 DEF DevFsInv, NamesMatchSlots
    <2> QED BY <2>1, <2>2, <1>3
  <1>8. \A h \in Handle :
          /\ handle'[h].state = handle[h].state /\ handle'[h].iNode = handle[h].iNode
          /\ handle'[h].device = IF handle[h].device = d THEN NoDevice ELSE handle[h].device
          /\ handle[h].device # d => handle'[h] = handle[h]
    <2>1. \A r \in HandleType :
            /\ [r EXCEPT !.device = NoDevice].state = r.state
            /\ [r EXCEPT !.device = NoDevice].iNode = r.iNode
            /\ [r EXCEPT !.device = NoDevice].device = NoDevice
      BY DEF HandleType
    <2>2. \A h \in Handle : handle[h] \in HandleType
      BY <1>1 DEF DevFsTypeOK, HandleType
    <2>3. \A h \in Handle : handle'[h] = IF handle[h].device = d
                                         THEN [handle[h] EXCEPT !.device = NoDevice] ELSE handle[h]
      BY <1>2
    <2> SUFFICES ASSUME NEW h \in Handle
                 PROVE  /\ handle'[h].state = handle[h].state /\ handle'[h].iNode = handle[h].iNode
                        /\ handle'[h].device = IF handle[h].device = d THEN NoDevice ELSE handle[h].device
                        /\ handle[h].device # d => handle'[h] = handle[h]
      OBVIOUS
    <2> PICK r : r = handle[h]
      OBVIOUS
    <2>4. r \in HandleType /\ handle'[h] = IF r.device = d THEN [r EXCEPT !.device = NoDevice] ELSE r
      BY <2>2, <2>3
    <2>5. CASE r.device = d
      BY <2>1, <2>4, <2>5, Zenon
    <2>6. CASE r.device # d
      BY <2>4, <2>6, Zenon
    <2> QED BY <2>5, <2>6
  <1>9. HandlesOK'
    <2>1. {h \in Handle : handle'[h].state # "closed"} = {h \in Handle : handle[h].state # "closed"}
      BY <1>8
    <2>2. ASSUME NEW h \in Handle, handle'[h].state = "closed" PROVE handle'[h] = NoHandle
      <3>1. handle[h] = NoHandle
        BY <1>8, <2>2 DEF DevFsInv, HandlesOK
      <3>2. NoHandle.device # d
        BY <1>2 DEF NoHandle
      <3> QED BY <1>8, <3>1, <3>2
    <2> QED BY <2>1, <2>2 DEF DevFsInv, HandlesOK
  <1>10. ASSUME NEW h \in Handle, handle'[h].state # "closed" PROVE DeviceOK(h)'
    <2>1. handle[h].iNode \in Slot /\ handle[h].state # "closed"
      BY <1>1, <1>8, <1>10 DEF DevFsTypeOK
    <2>2. DeviceOK(h)
      BY <2>1 DEF DevFsInv, FilesKeepDevice, DeviceOK
    <2>3. CASE handle[h].iNode = i
      <3>1. devices'[handle'[h].iNode] = NoDevice
        BY <1>3, <1>8, <2>3
      <3>2. handle'[h].device = NoDevice
        BY <1>2, <1>8, <2>2, <2>3 DEF DeviceOK, DeviceOfFile
      <3> QED BY <3>1, <3>2 DEF DeviceOK, DeviceOfFile
    <2>4. CASE handle[h].iNode # i
      <3>1. devices[handle[h].iNode] # d
        <4>1. devices[handle[h].iNode] # NoDevice =>
                devFsINode[devices[handle[h].iNode]] = handle[h].iNode
          BY <2>1 DEF DevFsInv, NamesMatchSlots
        <4> QED BY <1>0, <1>2, <2>4, <4>1
      <3>2. handle[h].device # d
        BY <1>2, <2>2, <3>1 DEF DeviceOK, DeviceOfFile
      <3>3. handle'[h].device = handle[h].device /\ handle'[h].iNode = handle[h].iNode
        BY <1>8, <3>2
      <3>4. devices'[handle[h].iNode] = devices[handle[h].iNode]
        BY <1>3, <2>1, <2>4
      <3> QED BY <1>2, <2>2, <3>3, <3>4 DEF DeviceOK, DeviceOfFile
    <2> QED BY <2>3, <2>4
  <1>11. ASSUME NEW j \in Slot, NEW e, e = devices'[j], e \notin heirs' \cup {NoDevice}
         PROVE  opens'[e] = Cardinality(OpenOn(e)')
    <2>1. j # i /\ devices[j] = e /\ e \notin heirs \cup {NoDevice}
      BY <1>2, <1>3, <1>11
    <2>2. e # d
      BY <1>0, <1>2, <2>1 DEF DevFsInv, NamesMatchSlots
    <2>3. OpenOn(e)' = OpenOn(e)
      BY <1>8, <2>1, <2>2 DEF OpenOn
    <2>4. opens[e] = Cardinality(OpenOn(e))
      BY <2>1 DEF DevFsInv, FilesKeepDevice, OpenOn
    <2> QED BY <1>2, <2>1, <2>3, <2>4
  <1>12. FilesKeepDevice'
    <2>1. \A j \in Slot : devices'[j] \notin heirs' \cup {NoDevice} =>
            opens'[devices'[j]] = Cardinality({h \in Handle : handle'[h].state = "open"
                                                               /\ handle'[h].device = devices'[j]})
      BY <1>11 DEF OpenOn
    <2>2. \A h \in Handle : handle'[h].state # "closed" => DeviceOK(h)'
      BY <1>10
    <2> QED BY <2>1, <2>2 DEF FilesKeepDevice, DeviceOK
  <1> QED BY <1>4, <1>5, <1>6, <1>7, <1>9, <1>12 DEF DevFsInv, NamesMatchSlots

-----------------------------------------------------------------------------
(* The open files of a device, when one file changes.                      *)
LEMMA OpenOnChanges ==
  ASSUME NEW h \in Handle, NEW new, handle \in [Handle -> HandleType],
         handle' = [handle EXCEPT ![h] = new]
  PROVE  \A d : OpenOn(d)' = IF new.state = "open" /\ new.device = d
                            THEN OpenOn(d) \cup {h} ELSE OpenOn(d) \ {h}
  <1>1. handle'[h] = new /\ \A g \in Handle \ {h} : handle'[g] = handle[g]
    OBVIOUS
  <1> QED BY <1>1 DEF OpenOn

(* The open files of a device are finitely many.                           *)
LEMMA OpenOnFinite ==
  ASSUME HandlesOK
  PROVE  \A d : IsFiniteSet(OpenOn(d))
  <1>1. \A d : OpenOn(d) \subseteq {h \in Handle : handle[h].state # "closed"}
    BY DEF OpenOn
  <1> QED BY <1>1, FS_Subset DEF HandlesOK

(* A step that changes one handle keeps the slots, the names and the       *)
(* finiteness.                                                             *)
LEMMA HandleStep ==
  ASSUME DevFsInv, NEW h \in Handle, NEW new \in HandleType,
         handle' = [handle EXCEPT ![h] = new],
         new = NoHandle \/ new.state # "closed",
         UNCHANGED <<registryVars, heirs>>, opens' \in [Device -> Int]
  PROVE  NamesMatchSlots' /\ HandlesOK'
  <1>1. handle \in [Handle -> HandleType] /\ DevFsTypeOK
    BY DEF DevFsInv, NamesMatchSlots, DevFsTypeOK, HandleType
  <1>2. handle'[h] = new /\ \A g \in Handle \ {h} : handle'[g] = handle[g]
    BY <1>1
  <1>3. DevFsTypeOK'
    <2>1. handle' \in [Handle -> HandleType]
      BY <1>1
    <2> QED BY <1>1, <2>1 DEF DevFsTypeOK, HandleType, registryVars
  <1>4. NamesMatchSlots'
    BY <1>3 DEF DevFsInv, NamesMatchSlots, registryVars
  <1>5. HandlesOK'
    <2>1. {g \in Handle : handle'[g].state # "closed"}
            \subseteq {g \in Handle : handle[g].state # "closed"} \cup {h}
      BY <1>2
    <2>2. IsFiniteSet({g \in Handle : handle[g].state # "closed"} \cup {h})
      BY FS_AddElement DEF DevFsInv, HandlesOK
    <2>3. IsFiniteSet({g \in Handle : handle'[g].state # "closed"})
      BY <2>1, <2>2, FS_Subset
    <2>4. \A g \in Handle : handle'[g].state = "closed" => handle'[g] = NoHandle
      BY <1>2 DEF DevFsInv, HandlesOK
    <2> QED BY <2>3, <2>4 DEF HandlesOK
  <1> QED BY <1>4, <1>5

(* Files keep their device when one handle changes to a state that acts on *)
(* its device, and the count of each device that is no heir follows.       *)
LEMMA HandleStepKeepsDevice ==
  ASSUME DevFsInv, NEW h \in Handle, NEW new \in HandleType,
         handle' = [handle EXCEPT ![h] = new],
         UNCHANGED <<registryVars, heirs>>,
         new.state # "closed" =>
           IF new.device # NoDevice THEN devices[new.iNode] = new.device
           ELSE devices[new.iNode] \in heirs \cup {NoDevice},
         \A d : Accounted(d) => opens'[d] = Cardinality(OpenOn(d)')
  PROVE  FilesKeepDevice'
  <1>1. handle \in [Handle -> HandleType] /\ devices \in [Slot -> Device \cup {NoDevice}]
    BY DEF DevFsInv, NamesMatchSlots, DevFsTypeOK, HandleType
  <1>2. handle'[h] = new /\ \A g \in Handle \ {h} : handle'[g] = handle[g]
    BY <1>1
  <1>3. devices' = devices /\ heirs' = heirs
    BY DEF registryVars
  <1>4. ASSUME NEW g \in Handle, handle'[g].state # "closed" PROVE DeviceOK(g)'
    <2>1. CASE g = h
      BY <1>2, <1>3, <1>4, <2>1 DEF DeviceOK, DeviceOfFile
    <2>2. CASE g # h
      <3>1. DeviceOK(g)
        BY <1>2, <1>4, <2>2 DEF DevFsInv, FilesKeepDevice, DeviceOK
      <3> QED BY <1>2, <1>3, <2>2, <3>1 DEF DeviceOK, DeviceOfFile
    <2> QED BY <2>1, <2>2
  <1>5. ASSUME NEW i \in Slot, NEW e, e = devices'[i], e \notin heirs' \cup {NoDevice}
        PROVE  opens'[e] = Cardinality(OpenOn(e)')
    BY <1>1, <1>3, <1>5 DEF Accounted
  <1> QED BY <1>4, <1>5 DEF FilesKeepDevice, DeviceOK, OpenOn

(* DevFsOpen, DevFsOpenDone, DevFsClose and DevFsCloseDone.                *)
LEMMA HandleActionsKeep ==
  ASSUME DevFsInv, NEW h \in Handle,
         \/ \E i \in Slot : DevFsOpen(h, i)
         \/ DevFsOpenDone(h) \/ DevFsClose(h) \/ DevFsCloseDone(h)
  PROVE  DevFsInv'
  <1> USE MountsAssumption, DevFsAssumption
  <1>1. /\ handle \in [Handle -> HandleType] /\ handle[h] \in HandleType
        /\ opens \in [Device -> Int] /\ devices \in [Slot -> Device \cup {NoDevice}]
    BY DEF DevFsInv, NamesMatchSlots, DevFsTypeOK, HandleType
  <1>2. \A d : IsFiniteSet(OpenOn(d))
    BY OpenOnFinite DEF DevFsInv
  <1>3. \A d : Accounted(d) => d \in Device /\ d # NoDevice /\ opens[d] = Cardinality(OpenOn(d))
    BY DEF DevFsInv, FilesKeepDevice, OpenOn, Accounted
  <1>4. handle[h].state # "closed" =>
          IF handle[h].device # NoDevice THEN devices[handle[h].iNode] = handle[h].device
          ELSE devices[handle[h].iNode] \in heirs \cup {NoDevice}
    BY DEF DevFsInv, FilesKeepDevice, DeviceOfFile
  <1>5. NoHandle \in HandleType
    <2>1. 0 \in Slot
      BY SMT DEF Slot
    <2> QED BY <2>1 DEF NoHandle, HandleType
  <1>6. \A d : h \in OpenOn(d) <=> handle[h].state = "open" /\ handle[h].device = d
    BY DEF OpenOn
  <1>7. ASSUME NEW i \in Slot, DevFsOpen(h, i) PROVE DevFsInv'
    <2> PICK new : new = [state |-> "opening", iNode |-> i, device |-> devices[i]]
      OBVIOUS
    <2>1. devices[i] # NoDevice
      BY <1>7, SMT DEF DevFsOpen, DevFsReadINode
    <2>2. new \in HandleType /\ new.state = "opening" /\ new.iNode = i /\ new.device = devices[i]
      BY <1>1 DEF HandleType
    <2>3. /\ handle[h] = NoHandle /\ handle' = [handle EXCEPT ![h] = new]
          /\ UNCHANGED <<registryVars, heirs>> /\ opens' = opens
      BY <1>7 DEF DevFsOpen
    <2>4. \A d : OpenOn(d)' = OpenOn(d)
      <3>1. \A d : OpenOn(d)' = OpenOn(d) \ {h}
        BY <1>1, <2>2, <2>3, OpenOnChanges
      <3>2. \A d : h \notin OpenOn(d)
        BY <1>6, <2>3, SMT DEF NoHandle
      <3> QED BY <3>1, <3>2, SMT
    <2>5. NamesMatchSlots' /\ HandlesOK'
      BY <1>1, <2>1, <2>2, <2>3, HandleStep
    <2>6. FilesKeepDevice'
      BY <1>3, <2>2, <2>3, <2>4, HandleStepKeepsDevice
    <2> QED BY <2>5, <2>6 DEF DevFsInv
  <1>8. CASE DevFsOpenDone(h)
    <2> PICK e : e = handle[h].device
      OBVIOUS
    <2>0. handle[h].state = "opening"
      BY <1>8 DEF DevFsOpenDone
    <2>1. CASE /\ handle' = [handle EXCEPT ![h].state = "open"]
               /\ opens' = [d \in Device |-> IF d = e THEN opens[d] + 1 ELSE opens[d]]
      <3> PICK new : new = [handle[h] EXCEPT !.state = "open"]
        OBVIOUS
      <3>1. /\ new \in HandleType /\ new.state = "open" /\ new.device = e
            /\ new.iNode = handle[h].iNode
        BY <1>1 DEF HandleType
      <3>2. /\ handle' = [handle EXCEPT ![h] = new]
            /\ UNCHANGED <<registryVars, heirs>> /\ opens' \in [Device -> Int]
        <4>1. opens' \in [Device -> Int]
          BY <1>1, <2>0, <2>1, SMT
        <4> QED BY <1>8, <2>1, <4>1 DEF DevFsOpenDone
      <3>3. \A d : OpenOn(d)' = IF d = e THEN OpenOn(d) \cup {h} ELSE OpenOn(d) \ {h}
        BY <1>1, <3>1, <3>2, OpenOnChanges
      <3>4. ASSUME NEW d, Accounted(d) PROVE opens'[d] = Cardinality(OpenOn(d)')
        <4>1. h \notin OpenOn(d)
          BY <1>6, <2>0
        <4>2. CASE d = e
          <5>1. Cardinality(OpenOn(d)') = Cardinality(OpenOn(d)) + 1
            BY <1>2, <3>3, <4>1, <4>2, FS_AddElement
          <5>2. opens'[d] = opens[d] + 1
            BY <1>3, <2>1, <3>4, <4>2
          <5> QED BY <1>3, <3>4, <5>1, <5>2
        <4>3. CASE d # e
          <5>1. OpenOn(d)' = OpenOn(d)
            BY <3>3, <4>1, <4>3
          <5>2. opens'[d] = opens[d]
            BY <1>3, <2>1, <3>4, <4>3
          <5> QED BY <1>3, <3>4, <5>1, <5>2
        <4> QED BY <4>2, <4>3
      <3>5. NamesMatchSlots' /\ HandlesOK'
        BY <1>4, <2>0, <3>1, <3>2, HandleStep
      <3>6. FilesKeepDevice'
        BY <1>4, <2>0, <3>1, <3>2, <3>4, HandleStepKeepsDevice
      <3> QED BY <3>5, <3>6 DEF DevFsInv
    <2>2. CASE handle' = [handle EXCEPT ![h] = NoHandle] /\ UNCHANGED opens
      <3>1. UNCHANGED <<registryVars, heirs>>
        BY <1>8 DEF DevFsOpenDone
      <3>2. \A d : OpenOn(d)' = OpenOn(d)
        <4>1. NoHandle.state # "open"
          BY DEF NoHandle
        <4>2. \A d : OpenOn(d)' = OpenOn(d) \ {h}
          BY <1>1, <2>2, <4>1, OpenOnChanges
        <4>3. \A d : h \notin OpenOn(d)
          BY <1>6, <2>0
        <4>4. \A S : h \notin S => S \ {h} = S
          OBVIOUS
        <4> QED BY <4>2, <4>3, <4>4
      <3>3. NamesMatchSlots' /\ HandlesOK'
        BY <1>1, <1>5, <2>2, <3>1, HandleStep
      <3>4. FilesKeepDevice'
        BY <1>3, <1>5, <2>2, <3>1, <3>2, HandleStepKeepsDevice DEF NoHandle
      <3> QED BY <3>3, <3>4 DEF DevFsInv
    <2> QED BY <1>8, <2>1, <2>2 DEF DevFsOpenDone
  <1>9. CASE DevFsClose(h)
    <2> PICK target : target = CloseTarget(h)
      OBVIOUS
    <2> PICK new : new = IF target = NoDevice THEN NoHandle ELSE [handle[h] EXCEPT !.state = "closing"]
      OBVIOUS
    <2>1. /\ handle[h].state = "open" /\ handle' = [handle EXCEPT ![h] = new]
          /\ opens' = [d \in Device |-> IF d = target THEN opens[d] - 1 ELSE opens[d]]
          /\ UNCHANGED <<registryVars, heirs>>
      BY <1>9 DEF DevFsClose
    <2>2. /\ new \in HandleType /\ new.state # "open"
          /\ new = NoHandle \/ (/\ new.state # "closed" /\ new.device = handle[h].device
                                /\ new.iNode = handle[h].iNode)
      BY <1>1, <1>5, SMT DEF HandleType, NoHandle
    <2>3. opens' \in [Device -> Int]
      BY <1>1, <2>1, SMT
    <2>4. \A d : OpenOn(d)' = OpenOn(d) \ {h}
      BY <1>1, <2>1, <2>2, OpenOnChanges
    <2>5. ASSUME NEW d, Accounted(d) PROVE opens'[d] = Cardinality(OpenOn(d)')
      <3>1. d = target <=> d = handle[h].device
        BY <1>3, <1>4, <2>1, <2>5 DEF CloseTarget, Accounted
      <3>2. CASE d = target
        <4>1. Cardinality(OpenOn(d)') = Cardinality(OpenOn(d)) - 1
          BY <1>2, <1>6, <2>1, <2>4, <3>1, <3>2, OneLess
        <4>2. opens'[d] = opens[d] - 1
          BY <1>3, <2>1, <2>5, <3>2
        <4> QED BY <1>3, <2>5, <4>1, <4>2
      <3>3. CASE d # target
        <4>1. OpenOn(d)' = OpenOn(d)
          BY <1>6, <2>4, <3>1, <3>3
        <4>2. opens'[d] = opens[d]
          BY <1>3, <2>1, <2>5, <3>3
        <4> QED BY <1>3, <2>5, <4>1, <4>2
      <3> QED BY <3>2, <3>3
    <2>6. NamesMatchSlots' /\ HandlesOK'
      BY <1>4, <2>1, <2>2, <2>3, HandleStep
    <2>7. FilesKeepDevice'
      BY <1>4, <2>1, <2>2, <2>5, HandleStepKeepsDevice DEF NoHandle
    <2> QED BY <2>6, <2>7 DEF DevFsInv
  <1>10. CASE DevFsCloseDone(h)
    <2>1. /\ handle[h].state = "closing" /\ handle' = [handle EXCEPT ![h] = NoHandle]
          /\ UNCHANGED <<registryVars, heirs>> /\ opens' = opens
      BY <1>10 DEF DevFsCloseDone
    <2>2. \A d : OpenOn(d)' = OpenOn(d)
      <3>1. NoHandle.state # "open"
        BY DEF NoHandle
      <3>2. \A d : OpenOn(d)' = OpenOn(d) \ {h}
        BY <1>1, <2>1, <3>1, OpenOnChanges
      <3>3. \A d : h \notin OpenOn(d)
        BY <1>6, <2>1
      <3>4. \A S : h \notin S => S \ {h} = S
        OBVIOUS
      <3> QED BY <3>2, <3>3, <3>4
    <2>3. NamesMatchSlots' /\ HandlesOK'
      BY <1>1, <1>5, <2>1, HandleStep
    <2>4. FilesKeepDevice'
      BY <1>3, <1>5, <2>1, <2>2, HandleStepKeepsDevice DEF NoHandle
    <2> QED BY <2>3, <2>4 DEF DevFsInv
  <1> QED BY <1>7, <1>8, <1>9, <1>10

-----------------------------------------------------------------------------
(* A step of the device file system.                                       *)
LEMMA DevFsNextKeeps ==
  ASSUME DevFsInv, DevFsNext
  PROVE  DevFsInv'
  <1>1. ASSUME NEW d \in Device, IoDevFsRegister(d) PROVE DevFsInv'
    BY <1>1, RegisterKeeps
  <1>2. ASSUME NEW d \in Device, IoDevFsUnRegister(d) PROVE DevFsInv'
    BY <1>2, UnRegisterKeeps
  <1>3. ASSUME NEW h \in Handle,
               \/ \E i \in Slot : DevFsOpen(h, i)
               \/ DevFsOpenDone(h) \/ DevFsClose(h) \/ DevFsCloseDone(h)
        PROVE  DevFsInv'
    BY <1>3, HandleActionsKeep
  <1> QED BY <1>1, <1>2, <1>3 DEF DevFsNext

(* What the device file system is about is left alone.                     *)
LEMMA DevFsStutter ==
  ASSUME DevFsInv, UNCHANGED devFsVars
  PROVE  DevFsInv'
  <1>1. UNCHANGED <<devices, nextFreeINode, devFsFiles, devFsINode, handle, opens, heirs>>
    BY DEF devFsVars, registryVars, handleVars
  <1>2. NamesMatchSlots'
    BY <1>1 DEF DevFsInv, NamesMatchSlots, DevFsTypeOK
  <1>3. FilesKeepDevice'
    BY <1>1 DEF DevFsInv, FilesKeepDevice, DeviceOfFile
  <1>4. HandlesOK'
    BY <1>1 DEF DevFsInv, HandlesOK
  <1> QED BY <1>2, <1>3, <1>4 DEF DevFsInv

(* The invariant is inductive: it holds of the initial state, every step   *)
(* of mounting, unmounting, registering and opening keeps it, and so does  *)
(* a step that changes nothing.                                            *)
THEOREM Invariance == Spec => []IInv
  <1>1. Init => IInv
    BY InitMountsInv, InitDevFsInv DEF Init, IInv
  <1>2. IInv /\ [Next]_VfsVars => IInv'
    <2> SUFFICES ASSUME IInv, [Next]_VfsVars PROVE IInv'
      OBVIOUS
    <2>1. MountsInv /\ DevFsInv /\ calls \in 0 .. MaxCalls
      BY DEF IInv, MountsInv, MountsTypeOK
    <2>2. CASE MountsNext /\ UNCHANGED devFsVars
      BY <2>1, <2>2, MountsNextKeeps, DevFsStutter DEF IInv
    <2>3. CASE DevFsNext /\ UNCHANGED mountsVars
      <3>1. calls' \in 0 .. MaxCalls
        <4>1. Counted \/ calls' = calls
          BY <2>3 DEF DevFsNext
        <4> QED BY <2>1, <4>1, MountsAssumption, SMT DEF Counted
      <3> QED BY <2>1, <2>3, <3>1, DevFsNextKeeps, MountsStutter DEF IInv
    <2>4. CASE UNCHANGED VfsVars
      BY <2>1, <2>4, MountsStutter, DevFsStutter DEF IInv, VfsVars
    <2> QED BY <2>2, <2>3, <2>4 DEF Next, Finished, Undefined
  <1> QED BY <1>1, <1>2, PTL DEF Spec

(* The mounts are a tree, and the locks and counts say what is mounted,    *)
(* for any number of threads, file systems, types and devices and any      *)
(* interleaving of their calls (IoFilesystemMount, IoFilesystemMountRoot,  *)
(* IoFilesystemUnMount).                                                   *)
THEOREM LocksAndCounts == Spec => []LocksMatchMounts
  <1>1. IInv => LocksMatchMounts
    BY MountsInvImplies DEF IInv
  <1> QED BY <1>1, Invariance, PTL

(* The names and the slots of registered devices agree, and registering    *)
(* fails only when every slot is taken, for any MAX_DEVICES                *)
(* (IoDevFsRegister, IoDevFsUnRegister).                                   *)
THEOREM NamesAndSlots == Spec => []NamesMatchSlots
  <1>1. IInv => NamesMatchSlots
    BY DEF IInv, DevFsInv
  <1> QED BY <1>1, Invariance, PTL

(* A file acts on its device as long as that one is registered, then on    *)
(* none or on the heir of its slot; the opens and closes of a registered   *)
(* device that is no heir are paired, for any devices, slots and files     *)
(* (DevFsOpen, DevFsClose, IoDevFsUnRegister).                             *)
THEOREM FilesAndDevices == Spec => []FilesKeepDevice
  <1>1. IInv => FilesKeepDevice
    BY DEF IInv, DevFsInv
  <1> QED BY <1>1, Invariance, PTL
=============================================================================
