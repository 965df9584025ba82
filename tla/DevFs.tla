------------------------------- MODULE DevFs --------------------------------
(***************************************************************************)
(* The device file system (io/devfs.c): the slots and names of registered  *)
(* devices, and the files opened on them, which remember a slot and not a  *)
(* device.  A device's open and close may block; everything else here is   *)
(* done without giving up the processor.                                   *)
(***************************************************************************)
EXTENDS Mounts

CONSTANTS Name,
          NameOf,        \* IoDevice.name
          MAX_DEVICES,
          Handle         \* files opened on devices

ASSUME DevFsAssumption ==
  /\ NameOf \in [Device -> Name]
  /\ MAX_DEVICES \in Nat \ {0}

VARIABLES
  devices, nextFreeINode,
  devFsFiles,        \* files, the table of names
  devFsINode,        \* IoDevice.devFsINode
  handle,            \* state and slot of each opened file, and (a history) the device it was
                     \*   opened on, until that device is unregistered
  opens,             \* history: files opened on each device since it was registered less
                     \*   the calls of its close since then
  heirs              \* history: the devices registered in a slot that a file still refers to

registryVars == <<devices, nextFreeINode, devFsFiles, devFsINode>>

handleVars == <<handle, opens, heirs>>

devFsVars == <<registryVars, handleVars>>

Slot == 0 .. MAX_DEVICES - 1

NoHandle == [state |-> "closed", iNode |-> 0, device |-> NoDevice]

DevFsTypeOK ==
  /\ devices \in [Slot -> Device \cup {NoDevice}]
  /\ nextFreeINode \in 0 .. MAX_DEVICES
  /\ devFsFiles \in [Name -> Device \cup {NoDevice}]
  /\ devFsINode \in [Device -> Slot]
  /\ handle \in [Handle -> [state : {"closed", "opening", "open", "closing"},
                            iNode : Slot, device : Device \cup {NoDevice}]]
  /\ opens \in [Device -> Int]
  /\ heirs \subseteq Device

DevFsInit ==
  /\ devices = [i \in Slot |-> NoDevice]
  /\ nextFreeINode = 0
  /\ devFsFiles = [n \in Name |-> NoDevice]
  /\ devFsINode = [d \in Device |-> 0]
  /\ handle = [h \in Handle |-> NoHandle]
  /\ opens = [d \in Device |-> 0]
  /\ heirs = {}

-----------------------------------------------------------------------------
(* The files that remember slot i.                                         *)
RefersTo(i) == {h \in Handle : handle[h].state # "closed" /\ handle[h].iNode = i}

FreeSlots == {i \in Slot : i >= nextFreeINode /\ devices[i] = NoDevice}

(* IoDevFsRegister of a device that gets the first free slot.              *)
IoDevFsRegister(d) ==
  \E i \in FreeSlots :
    /\ \A j \in FreeSlots : i <= j
    /\ devFsFiles[NameOf[d]] = NoDevice
    /\ devFsFiles' = [devFsFiles EXCEPT ![NameOf[d]] = d]
    /\ devices' = [devices EXCEPT ![i] = d]
    /\ devFsINode' = [devFsINode EXCEPT ![d] = i]
    /\ nextFreeINode' = i + 1
    /\ opens' = [opens EXCEPT ![d] = 0]
    /\ heirs' = IF RefersTo(i) # {} THEN heirs \cup {d} ELSE heirs \ {d}
    /\ UNCHANGED handle

(* Mutant: the stored iNode is not verified.                               *)
IsRegisteredUnchecked(d) == devices[devFsINode[d]] # NoDevice

(* "Verify stored inode is correct"                                        *)
IsRegistered(d) == devices[devFsINode[d]] = d

(* "Make nextFreeINode lower if nessesary"                                 *)
LowerHint(i) == IF i < nextFreeINode THEN i ELSE nextFreeINode

IoDevFsUnRegister(d) ==
  LET i == devFsINode[d]
  IN  /\ IsRegistered(d)
      /\ devFsFiles' = [n \in Name |-> IF devFsFiles[n] = d THEN NoDevice ELSE devFsFiles[n]]
      /\ devices' = [devices EXCEPT ![i] = NoDevice]
      /\ nextFreeINode' = LowerHint(i)
      /\ devFsINode' = [devFsINode EXCEPT ![d] = 0]
      /\ handle' = [h \in Handle |-> IF handle[h].device = d THEN [handle[h] EXCEPT !.device = NoDevice]
                                     ELSE handle[h]]
      /\ UNCHANGED <<opens, heirs>>

-----------------------------------------------------------------------------
(* What DevFsReadINode says of an iNode.                                   *)
DevFsReadINode(i) ==
  IF i > MAX_DEVICES THEN "EIO"
  ELSE IF i = 0 THEN "directory"
  ELSE IF i = MAX_DEVICES \/ devices[i] = NoDevice THEN "ENXIO"
  ELSE "device"

(* DevFsFindINode in the root directory; NotFound is -ENOENT.              *)
NotFound == -1

DevFsFindINode(parent, name) ==
  IF parent = 0 /\ name \in Name /\ devFsFiles[name] # NoDevice
  THEN devFsINode[devFsFiles[name]] ELSE NotFound

(* IoOpen of an iNode that is a device, and DevFsOpen up to the device's   *)
(* open.                                                                   *)
DevFsOpen(h, i) ==
  /\ handle[h] = NoHandle
  /\ DevFsReadINode(i) = "device"
  /\ handle' = [handle EXCEPT ![h] = [state |-> "opening", iNode |-> i, device |-> devices[i]]]
  /\ UNCHANGED <<registryVars, opens, heirs>>

DevFsOpenDone(h) ==
  /\ handle[h].state = "opening"
  /\ \/ /\ handle' = [handle EXCEPT ![h].state = "open"]
        /\ opens' = [d \in Device |-> IF d = handle[h].device THEN opens[d] + 1 ELSE opens[d]]
     \/ handle' = [handle EXCEPT ![h] = NoHandle] /\ UNCHANGED opens
  /\ UNCHANGED <<registryVars, heirs>>

(* Mutant: the slots of devices and of files are one apart.                *)
CloseTargetShifted(h) == devices[handle[h].iNode - 1]

(* The device whose close DevFsClose calls, if any.                        *)
CloseTarget(h) == devices[handle[h].iNode]

(* DevFsClose up to the device's close.                                    *)
DevFsClose(h) ==
  /\ handle[h].state = "open"
  /\ handle' = [handle EXCEPT ![h] = IF CloseTarget(h) = NoDevice THEN NoHandle
                                     ELSE [@ EXCEPT !.state = "closing"]]
  /\ opens' = [d \in Device |-> IF d = CloseTarget(h) THEN opens[d] - 1 ELSE opens[d]]
  /\ UNCHANGED <<registryVars, heirs>>

DevFsCloseDone(h) ==
  /\ handle[h].state = "closing"
  /\ handle' = [handle EXCEPT ![h] = NoHandle]
  /\ UNCHANGED <<registryVars, opens, heirs>>

(* The device that DevFsRead, DevFsWrite or DevFsIoCtl of h acts on, or    *)
(* NoDevice (-ENXIO).                                                      *)
DeviceOfFile(h) == devices[handle[h].iNode]

DevFsNext ==
  \/ Counted /\ \E d \in Device : IoDevFsRegister(d) \/ IoDevFsUnRegister(d)
  \/ Counted /\ \E h \in Handle, i \in Slot : DevFsOpen(h, i)
  \/ UNCHANGED calls /\ \E h \in Handle : DevFsOpenDone(h) \/ DevFsClose(h) \/ DevFsCloseDone(h)

-----------------------------------------------------------------------------
(* Names and slots agree: a name leads to the slot of the device that has  *)
(* it, every device in a slot is known by its name, and no free slot is    *)
(* below the hint, so that registering a device fails only when every slot *)
(* is taken, whatever was registered and unregistered before.              *)
NamesMatchSlots ==
  /\ DevFsTypeOK
  /\ \A n \in Name : devFsFiles[n] # NoDevice =>
       devices[devFsINode[devFsFiles[n]]] = devFsFiles[n] /\ NameOf[devFsFiles[n]] = n
  /\ \A i \in Slot : devices[i] # NoDevice =>
       devFsFiles[NameOf[devices[i]]] = devices[i] /\ devFsINode[devices[i]] = i
  /\ \A i \in Slot : i < nextFreeINode => devices[i] # NoDevice

(* A file acts on the device it was opened on for as long as that device   *)
(* is registered, whatever becomes of the others.  Once it is unregistered *)
(* the file acts on no device, unless its slot was given away since: the   *)
(* device registered there is an heir, and gets what is done with the      *)
(* file, its close too.  The open and close of a registered device that is *)
(* no heir are called in pairs, however often devices came and went.       *)
(* (DevFsOpen, DevFsClose and GET_DEVICE, which only compare slots.)       *)
FilesKeepDevice ==
  /\ \A h \in Handle : handle[h].state # "closed" =>
       IF handle[h].device # NoDevice THEN DeviceOfFile(h) = handle[h].device
       ELSE DeviceOfFile(h) \in heirs \cup {NoDevice}
  /\ \A i \in Slot : devices[i] \notin heirs \cup {NoDevice} =>
       opens[devices[i]] =
         Cardinality({h \in Handle : handle[h].state = "open" /\ handle[h].device = devices[i]})
=============================================================================
