----------------------------- MODULE PathLookup -----------------------------
(***************************************************************************)
(* The lookup of a path (IoLookupPath in io/open.c) in the mounted file    *)
(* systems and the device file system as they are.  A file system other    *)
(* than devfs has fixed directories (Entry); its root's ".." is itself.    *)
(*                                                                         *)
(* A path is the sequence of its names; a last name "" is a trailing       *)
(* slash.  Repeated slashes are left out.                                  *)
(*                                                                         *)
(* A lookup is evaluated in one state: it stands for one during which      *)
(* nothing is mounted, unmounted or registered.  Where readINode or        *)
(* findINode of a file system blocks the code allows that, and what it     *)
(* returns then is not described here.                                     *)
(***************************************************************************)
EXTENDS Vfs, SequencesExt

CONSTANTS DevFsType,     \* the type of io/devfs.c
          Entry,         \* [directory iNode, name -> iNode] of the other file systems
          Attributes,    \* mode, owner and group of the iNodes of the other file systems
          User           \* effective user and group of the caller

-----------------------------------------------------------------------------
(* IoModeCanAccess for one permission: the class it looks the caller up in *)
(* is the one at that place of the mode, counted from its low bits.        *)
IoModeCanAccess(permission, attributes) ==
  \/ User.euid = 0
  \/ permission \in
       (IF User.euid = attributes.uid THEN attributes.world
        ELSE IF User.egid = attributes.gid THEN attributes.group
        ELSE attributes.owner)

(* IoFilesystemOps.readINode and findINode of file system f.               *)
ReadINode(f, i) ==
  IF fs[f].type = DevFsType THEN DevFsReadINode(i)
  ELSE IF i \in Directories[fs[f].type] THEN "directory" ELSE "file"

FindINode(f, parent, name) ==
  IF fs[f].type = DevFsType THEN DevFsFindINode(parent, name)
  ELSE IF <<parent, name>> \in DOMAIN Entry THEN Entry[<<parent, name>>] ELSE NotFound

(* The devices and the root of devfs can be searched by everyone.          *)
MaySearch(f, i) ==
  fs[f].type = DevFsType \/ IoModeCanAccess("x", Attributes[i])

Kinds == {"directory", "file", "device"}

(* "Handle mount points"                                                   *)
Translate(f, i) ==
  IF MountedAt(f, i) = {} THEN [fs |-> f, iNode |-> i]
  ELSE [fs |-> CHOOSE g \in MountedAt(f, i) : TRUE, iNode |-> RootINode]

(* Mutant: the root of a mounted file system is its own parent.            *)
ParentMountNone(at) == [fs |-> at.fs, iNode |-> at.iNode]

(* "Go to parent mount point": the iNode that is mounted onto.             *)
ParentMount(at) == [fs |-> fs[at.fs].parentFs, iNode |-> fs[at.fs].parentINode]

(* Where a lookup is: its result so far and its iNode; open is set when    *)
(* the name just passed did not end the lookup (a "." that is ignored).    *)
Where(res, at, open) == [res |-> res, fs |-> at.fs, iNode |-> at.iNode, open |-> open]

(* Read the iNode at, which must be searchable if it is a directory.       *)
Arrive(at) ==
  LET kind == ReadINode(at.fs, at.iNode)
  IN  IF kind \notin Kinds THEN Where(kind, at, FALSE)
      ELSE IF kind = "directory" /\ ~MaySearch(at.fs, at.iNode) THEN Where("EACCES", at, FALSE)
      ELSE Where("found", at, FALSE)

(* One turn of the loop of IoLookupPath.                                   *)
Element(at, name) ==
  LET isDirectory == ReadINode(at.fs, at.iNode) = "directory"
      up == name = ".." /\ at.iNode = RootINode
      from == IF up /\ fs[at.fs].parentFs # NoFs THEN Arrive(ParentMount(at)) ELSE at
      next == FindINode(from.fs, from.iNode, name)
  IN  IF at.res # "found" THEN at
      ELSE IF name = "" THEN Where(IF isDirectory THEN "EISDIR" ELSE "ENOTDIR", at, FALSE)
      ELSE IF ~isDirectory THEN Where("ENOTDIR", at, FALSE)
      ELSE IF name = "." \/ (up /\ fs[at.fs].parentFs = NoFs) THEN Where("found", at, TRUE)
      ELSE IF from.res # "found" THEN from
      ELSE IF next = NotFound THEN Where("ENOENT", from, FALSE)
      ELSE Arrive(Translate(from.fs, next))

(* IoLookupPath of an absolute path.  After an ignored name at the end it  *)
(* goes on behind the end of the string.                                   *)
IoLookupPath(path) ==
  IF IoFilesystemRoot = NoFs THEN Where("ENOENT", [fs |-> NoFs, iNode |-> RootINode], FALSE)
  ELSE LET start == Arrive([fs |-> IoFilesystemRoot, iNode |-> RootINode])
           end == FoldLeft(Element, start, path)
       IN  IF end.res = "found" /\ end.open THEN Where("undefined", end, TRUE) ELSE end

-----------------------------------------------------------------------------
(* Paths downwards from the root in file systems other than devfs.         *)
EntryName == {n[2] : n \in DOMAIN Entry} \ {".."}

Paths == UNION {[1 .. n -> EntryName] : n \in 0 .. 2}

IsDirectoryAt(where) ==
  where.res = "found" /\ ReadINode(where.fs, where.iNode) = "directory"

(* Nothing is mounted onto the root directory of a file system.            *)
NoStack == \A f \in Attached : MountedAt(f, RootINode) = {}

(* ".." leads back to where a directory was entered from, through any      *)
(* mount points in between (IoLookupPath, "Go to parent mount point").     *)
UpUndoesDown ==
  ~broken /\ NoStack =>
    \A path \in Paths, name \in EntryName :
      IsDirectoryAt(IoLookupPath(path)) /\ IsDirectoryAt(IoLookupPath(Append(path, name))) =>
        LET back == IoLookupPath(path \o <<name, "..">>)
            there == IoLookupPath(path)
        IN  <<back.res, back.fs, back.iNode>> = <<"found", there.fs, there.iNode>>

(* Every mounted file system has a path that leads to its root, for a user *)
(* who may search the directories, and in devfs the name of a registered   *)
(* device leads to that device.  The device in slot 0 is the exception:    *)
(* its iNode is the one of the directory.                                  *)
MountsReachable ==
  ~broken /\ NoStack /\ (\A i \in DOMAIN Attributes : IoModeCanAccess("x", Attributes[i])) =>
    \A f \in Attached :
      \E path \in Paths :
        LET here == IoLookupPath(path)
        IN  /\ <<here.res, here.fs, here.iNode>> = <<"found", f, RootINode>>
            /\ fs[f].type = DevFsType =>
                 \A i \in Slot \ {0} : devices[i] # NoDevice =>
                   LET file == IoLookupPath(Append(path, NameOf[devices[i]]))
                   IN  <<file.res, file.fs, file.iNode>> = <<"found", f, i>>

(* Path lookup follows the mounts in both directions (IoLookupPath), after *)
(* any mounts and unmounts.                                                *)
LookupFollowsMounts == UpUndoesDown /\ MountsReachable
=============================================================================
