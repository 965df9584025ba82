-------------------------------- MODULE Files --------------------------------
(***************************************************************************)
(* Open files (io/iocontext.c, io/open.c): descriptor tables, the shared   *)
(* file objects behind them and their reference counts, while several      *)
(* threads of a process, and the process it forks, open, use, duplicate    *)
(* and close descriptors.                                                  *)
(*                                                                         *)
(* A file system's operations (lookup, create, open, close, read, ...) are *)
(* the only places where a thread gives up the processor; a thread that    *)
(* has it (cpu) keeps it until then.  A call that fails before it changes  *)
(* anything is a step that leaves the state alone.                         *)
(*                                                                         *)
(* Freeing a file to which something still points is the end of what the   *)
(* code defines (corrupt).  Two histories tell when that can happen: early *)
(* has the files that were closed while they had another reference, and    *)
(* raced is set when a file is taken whose close is in progress.           *)
(***************************************************************************)
EXTENDS Integers, FiniteSets

CONSTANTS Thread, NoThread,
          Context,       \* IoContext objects
          FirstContext,  \* the context that exists at the start
          HomeOf,        \* the context of the process of each thread
          IO_MAX_OPEN_FILES,
          MaxCalls,      \* bound: calls made in all
          File, NoFile   \* identities of IoFile objects

ASSUME FilesAssumption ==
  /\ HomeOf \in [Thread -> Context]
  /\ FirstContext \in Context
  /\ IO_MAX_OPEN_FILES \in Nat \ {0} /\ MaxCalls \in Nat
  /\ NoFile \notin File /\ NoThread \notin Thread

VARIABLES
  context,           \* the contexts that are allocated
  files,             \* IoContext.files
  descriptorFlags,   \* IoContext.descriptorFlags
  nextFreeFile,      \* IoContext.nextFreeFile
  refCount,          \* IoFile.refCount, 0 for memory that is not a file
  pc,                \* where each thread is
  call,              \* its call: operation, descriptor (or loop index), second descriptor
  file,              \* the file it got with IO_GET_FILE, or opens
  target,            \* the arguments of IoReleaseFile and where that returns to
  cpu,               \* the thread between two blocking points
  calls,             \* calls made, up to MaxCalls
  early, raced, corrupt

fileVars == <<context, files, descriptorFlags, nextFreeFile, refCount>>

threadVars == <<pc, call, file, target, cpu>>

vars == <<fileVars, threadVars, calls, early, raced, corrupt>>

FD == 0 .. IO_MAX_OPEN_FILES - 1

DescriptorFlag == {"FDRESERVED", "CLOEXEC"}

NoCall == [op |-> "none", fd |-> 0, newFd |-> 0]

NoTarget == [file |-> NoFile, fd |-> 0, return |-> "idle"]

TypeOK ==
  /\ context \subseteq Context
  /\ files \in [Context -> [FD -> File \cup {NoFile}]]
  /\ descriptorFlags \in [Context -> [FD -> SUBSET DescriptorFlag]]
  /\ nextFreeFile \in [Context -> FD]
  /\ refCount \in [File -> Nat]
  /\ pc \in [Thread -> {"idle", "lookup", "opening", "truncating", "operating",
                        "release", "closing", "install", "loop"}]
  /\ call \in [Thread -> [op : {"none", "open", "operate", "close", "dup", "exec", "delete"},
                          fd : 0 .. IO_MAX_OPEN_FILES, newFd : FD]]
  /\ file \in [Thread -> File \cup {NoFile}]
  /\ target \in [Thread -> [file : File \cup {NoFile}, fd : FD,
                            return : {"idle", "install", "loop"}]]
  /\ cpu \in Thread \cup {NoThread}
  /\ calls \in 0 .. MaxCalls
  /\ early \subseteq File /\ raced \in BOOLEAN /\ corrupt \in BOOLEAN

NoFiles == [fd \in FD |-> NoFile]

(* IoContextCreate made the first context.                                 *)
Init ==
  /\ context = {FirstContext}
  /\ files = [c \in Context |-> NoFiles]
  /\ descriptorFlags = [c \in Context |-> [fd \in FD |-> {}]]
  /\ nextFreeFile = [c \in Context |-> 0]
  /\ refCount = [f \in File |-> 0]
  /\ pc = [t \in Thread |-> "idle"]
  /\ call = [t \in Thread |-> NoCall]
  /\ file = [t \in Thread |-> NoFile]
  /\ target = [t \in Thread |-> NoTarget]
  /\ cpu = NoThread
  /\ calls = 0
  /\ early = {} /\ raced = FALSE /\ corrupt = FALSE

-----------------------------------------------------------------------------
(* Thread t may go on at l; its process, and so its context, exists.       *)
At(t, l) == pc[t] = l /\ cpu \in {t, NoThread} /\ HomeOf[t] \in context

KeepCpu(t, l) == pc' = [pc EXCEPT ![t] = l] /\ cpu' = t

LeaveCpu(t, l) == pc' = [pc EXCEPT ![t] = l] /\ cpu' = NoThread

Calls(t, op, fd, newFd) ==
  call' = [call EXCEPT ![t] = [op |-> op, fd |-> fd, newFd |-> newFd]]

(* The call of t is over.                                                  *)
Return(t) ==
  /\ LeaveCpu(t, "idle")
  /\ call' = [call EXCEPT ![t] = NoCall]
  /\ file' = [file EXCEPT ![t] = NoFile]
  /\ target' = [target EXCEPT ![t] = NoTarget]

FileAt(t, fd) == files[HomeOf[t]][fd]

SetFile(t, fd, f) == files' = [files EXCEPT ![HomeOf[t]][fd] = f]

SetFlags(t, fd, flags) ==
  descriptorFlags' = [descriptorFlags EXCEPT ![HomeOf[t]][fd] = flags]

IsReserved(t, fd) == "FDRESERVED" \in descriptorFlags[HomeOf[t]][fd]

BeingClosed(f) == \E u \in Thread : pc[u] = "closing" /\ target[u].file = f

(* The descriptors that hold f.  A context that is being deleted has given *)
(* up the descriptors its loop has passed.                                 *)
DescriptorsOf(f) ==
  {<<c, fd>> \in context \X FD :
     /\ files[c][fd] = f
     /\ \A t \in Thread : HomeOf[t] = c /\ call[t].op = "delete" => call[t].fd <= fd}

(* Whether anything but t and its descriptor fd points to f.               *)
PointedToBesides(t, fd, f) ==
  \/ DescriptorsOf(f) \ {<<HomeOf[t], fd>>} # {}
  \/ \E u \in Thread \ {t} : f \in {file[u], target[u].file}

(* Identities for new files: nothing points to them.                       *)
Unreachable(f) ==
  /\ DescriptorsOf(f) = {}
  /\ \A u \in Thread : f \notin {file[u], target[u].file}

(* IO_GET_FILE of a file that exists.                                      *)
GetFile(t, f) ==
  /\ refCount' = [refCount EXCEPT ![f] = @ + 1]
  /\ file' = [file EXCEPT ![t] = f]
  /\ raced' = (raced \/ BeingClosed(f))

-----------------------------------------------------------------------------
(* The first test of IoOpen.                                               *)
MayOpen(t, fd) == FileAt(t, fd) = NoFile /\ ~IsReserved(t, fd)

(* IoOpen up to the lookup of its path.                                    *)
Open(t, fd) ==
  /\ At(t, "idle")
  /\ MayOpen(t, fd)
  /\ SetFlags(t, fd, {"FDRESERVED"})
  /\ Calls(t, "open", fd, 0)
  /\ LeaveCpu(t, "lookup")
  /\ UNCHANGED <<context, files, nextFreeFile, refCount, file, target, early, raced, corrupt>>

(* The path is not found, or does not fit the flags: an early return of    *)
(* IoOpen, with the descriptor still reserved.                             *)
OpenEarlyReturn(t) ==
  /\ At(t, "lookup")
  /\ Return(t)
  /\ UNCHANGED <<fileVars, early, raced, corrupt>>

(* returnError                                                             *)
ReturnError(t) ==
  /\ SetFlags(t, call[t].fd, {})
  /\ Return(t)

(* The type of the file, its file system or its mode forbid the access, or *)
(* a created file cannot be read back.                                     *)
OpenRefused(t) ==
  /\ At(t, "lookup")
  /\ ReturnError(t)
  /\ UNCHANGED <<context, files, nextFreeFile, refCount, early, raced, corrupt>>

(* The file was found or created: a new IoFile, and ops->open.             *)
OpenFound(t) ==
  LET f == CHOOSE x \in File : Unreachable(x)
  IN  /\ At(t, "lookup")
      /\ \E x \in File : Unreachable(x)
      /\ refCount' = [refCount EXCEPT ![f] = 1]
      /\ file' = [file EXCEPT ![t] = f]
      /\ early' = early \ {f}
      /\ LeaveCpu(t, "opening")
      /\ UNCHANGED <<context, files, descriptorFlags, nextFreeFile, call, target, raced, corrupt>>

(* The end of IoOpen.                                                      *)
PlaceInContext(t) ==
  /\ SetFile(t, call[t].fd, file[t])
  /\ \E flags \in {{}, {"CLOEXEC"}} : SetFlags(t, call[t].fd, flags)
  /\ Return(t)
  /\ UNCHANGED refCount

OpenFails(t) ==
  /\ refCount' = [refCount EXCEPT ![file[t]] = 0]
  /\ ReturnError(t)
  /\ UNCHANGED files

(* After ops->open; with IO_O_TRUNC the file is then truncated.            *)
OpenDone(t) ==
  /\ At(t, "opening")
  /\ \/ OpenFails(t)
     \/ PlaceInContext(t)
     \/ /\ LeaveCpu(t, "truncating")
        /\ UNCHANGED <<files, descriptorFlags, refCount, call, file, target>>
  /\ UNCHANGED <<context, nextFreeFile, early, raced, corrupt>>

OpenTruncated(t) ==
  /\ At(t, "truncating")
  /\ OpenFails(t) \/ PlaceInContext(t)
  /\ UNCHANGED <<context, nextFreeFile, early, raced, corrupt>>

-----------------------------------------------------------------------------
(* Call IoReleaseFile of f, the file of descriptor fd.                     *)
Release(t, f, fd, return) ==
  /\ target' = [target EXCEPT ![t] = [file |-> f, fd |-> fd, return |-> return]]
  /\ KeepCpu(t, "release")

(* IoRead, IoWrite, IoIoctl, IoTruncate or IoReadDir, up to the operation  *)
(* of the file system.                                                     *)
Operate(t, fd) ==
  /\ At(t, "idle")
  /\ FileAt(t, fd) # NoFile
  /\ GetFile(t, FileAt(t, fd))
  /\ Calls(t, "operate", fd, 0)
  /\ LeaveCpu(t, "operating")
  /\ UNCHANGED <<context, files, descriptorFlags, nextFreeFile, target, early, corrupt>>

OperateDone(t) ==
  /\ At(t, "operating")
  /\ Release(t, file[t], call[t].fd, "idle")
  /\ UNCHANGED <<fileVars, call, file, early, raced, corrupt>>

(* IoClose takes a reference and gives it back at once.                    *)
Close(t, fd) ==
  /\ At(t, "idle")
  /\ FileAt(t, fd) # NoFile
  /\ Calls(t, "close", fd, 0)
  /\ Release(t, FileAt(t, fd), fd, "idle")
  /\ raced' = (raced \/ BeingClosed(FileAt(t, fd)))
  /\ UNCHANGED <<fileVars, file, early, corrupt>>

(* Where IoReleaseFile returns to.                                         *)
AfterRelease(t) ==
  IF target[t].return = "idle" THEN Return(t)
  ELSE /\ KeepCpu(t, target[t].return)
       /\ target' = [target EXCEPT ![t] = NoTarget]
       /\ call' = [call EXCEPT ![t].fd = IF pc'[t] = "loop" THEN @ + 1 ELSE @]
       /\ UNCHANGED file

(* Whether t gives up a reference that others still need: its descriptor   *)
(* keeps the file, or is replaced while another call uses it.              *)
ClosesEarly(t) ==
  \/ call[t].op \in {"close", "exec"}
  \/ /\ target[t].return = "install"
     /\ \E u \in Thread \ {t} : /\ file[u] = target[t].file
                               /\ <<HomeOf[u], call[u].fd>> = <<HomeOf[t], target[t].fd>>

(* Mutant: a file in use is destroyed.                                     *)
IsLastOrInUse(f) == refCount[f] <= 2

IsLast(f) == refCount[f] <= 1

(* IoReleaseFile of a file with other references.                          *)
ReleaseShared(t) ==
  LET f == target[t].file
  IN  /\ At(t, "release") /\ ~IsLast(f)
      /\ refCount' = [refCount EXCEPT ![f] = @ - 1]
      /\ early' = IF ClosesEarly(t) THEN early \cup {f} ELSE early
      /\ AfterRelease(t)
      /\ UNCHANGED <<context, files, descriptorFlags, nextFreeFile, raced, corrupt>>

(* IoReleaseFile of the last reference, up to ops->close.                  *)
ReleaseLast(t) ==
  /\ At(t, "release") /\ IsLast(target[t].file)
  /\ LeaveCpu(t, "closing")
  /\ UNCHANGED <<fileVars, call, file, target, early, raced, corrupt>>

(* "Update free pointer"                                                   *)
NextFreeFile(next, fd) == IF next < fd THEN fd ELSE next

(* IoReleaseFile after ops->close: the file is freed if the descriptor     *)
(* still has it.                                                           *)
CloseDone(t) ==
  LET f == target[t].file
      fd == target[t].fd
  IN  /\ At(t, "closing")
      /\ IF FileAt(t, fd) = f
         THEN /\ SetFile(t, fd, NoFile)
              /\ refCount' = [refCount EXCEPT ![f] = 0]
              /\ nextFreeFile' = [nextFreeFile EXCEPT ![HomeOf[t]] = NextFreeFile(@, fd)]
              /\ corrupt' = PointedToBesides(t, fd, f)
         ELSE UNCHANGED <<files, refCount, nextFreeFile, corrupt>>
      /\ AfterRelease(t)
      /\ UNCHANGED <<context, descriptorFlags, early, raced>>

(* ops->close reports an error: nothing is given up.  IoDup does not go on *)
(* to install its descriptor; a context that is deleted loses the file.    *)
CloseFails(t) ==
  LET f == target[t].file
  IN  /\ At(t, "closing")
      /\ early' = IF call[t].op = "delete" THEN early \cup {f} ELSE early
      /\ IF target[t].return = "install"
         THEN Release(t, file[t], call[t].fd, "idle") /\ UNCHANGED <<call, file>>
         ELSE AfterRelease(t)
      /\ UNCHANGED <<fileVars, raced, corrupt>>

-----------------------------------------------------------------------------
(* IoFindNextDescriptor: the descriptors it may return, the lowest first.  *)
FreeFrom(t, fd) ==
  {i \in FD : /\ i >= fd /\ i >= nextFreeFile[HomeOf[t]]
              /\ FileAt(t, i) = NoFile /\ ~IsReserved(t, i)}

(* IoDup with IO_DUP_AT_LEAST                                              *)
DupAtLeast(t, fd, least) ==
  /\ At(t, "idle")
  /\ FileAt(t, fd) # NoFile
  /\ FreeFrom(t, least) # {}
  /\ GetFile(t, FileAt(t, fd))
  /\ Calls(t, "dup", fd, CHOOSE i \in FreeFrom(t, least) :
                           \A j \in FreeFrom(t, least) : i <= j)
  /\ KeepCpu(t, "install")
  /\ UNCHANGED <<context, files, descriptorFlags, nextFreeFile, target, early, corrupt>>

(* Mutant: a reserved descriptor is replaced.                              *)
MayReplaceAny(t, fd) == TRUE

MayReplace(t, fd) == ~IsReserved(t, fd)

(* IoDup onto newFd, which is closed first if it is open.                  *)
Dup(t, fd, newFd) ==
  LET old == FileAt(t, newFd)
  IN  /\ At(t, "idle")
      /\ FileAt(t, fd) # NoFile
      /\ newFd # fd /\ MayReplace(t, newFd)
      /\ refCount' = [refCount EXCEPT ![FileAt(t, fd)] = @ + 1]
      /\ file' = [file EXCEPT ![t] = FileAt(t, fd)]
      /\ raced' = (raced \/ BeingClosed(FileAt(t, fd)) \/ (old # NoFile /\ BeingClosed(old)))
      /\ Calls(t, "dup", fd, newFd)
      /\ IF old # NoFile
         THEN Release(t, old, newFd, "install")
         ELSE KeepCpu(t, "install") /\ UNCHANGED target
      /\ UNCHANGED <<context, files, descriptorFlags, nextFreeFile, early, corrupt>>

(* The end of IoDup: the new descriptor, and the release of the file.      *)
DupInstall(t) ==
  /\ At(t, "install")
  /\ SetFile(t, call[t].newFd, file[t])
  /\ \E flags \in {{}, {"CLOEXEC"}} : SetFlags(t, call[t].newFd, flags)
  /\ refCount' = [refCount EXCEPT ![file[t]] = @ + 1]
  /\ Release(t, file[t], call[t].fd, "idle")
  /\ UNCHANGED <<context, nextFreeFile, call, file, early, raced, corrupt>>

-----------------------------------------------------------------------------
(* IoContextClone, in ProcFork                                             *)
Clone(t, c) ==
  /\ At(t, "idle")
  /\ c \notin context
  /\ context' = context \cup {c}
  /\ files' = [files EXCEPT ![c] = files[HomeOf[t]]]
  /\ descriptorFlags' = [descriptorFlags EXCEPT ![c] = descriptorFlags[HomeOf[t]]]
  /\ nextFreeFile' = [nextFreeFile EXCEPT ![c] = nextFreeFile[HomeOf[t]]]
  /\ refCount' = [f \in File |->
                    refCount[f] + Cardinality({fd \in FD : FileAt(t, fd) = f})]
  /\ raced' = (raced \/ \E fd \in FD : FileAt(t, fd) # NoFile /\ BeingClosed(FileAt(t, fd)))
  /\ UNCHANGED <<threadVars, early, corrupt>>

(* IoCloseForExec, or IoContextDeleteReference in ProcExitProcess: a loop  *)
(* over the descriptors.  The other threads of the process are gone.       *)
CloseEach(t, op) ==
  /\ At(t, "idle")
  /\ \A u \in Thread \ {t} : HomeOf[u] = HomeOf[t] => pc[u] = "idle"
  /\ op \in {"exec", "delete"}
  /\ op = "delete" => HomeOf[t] # FirstContext
  /\ Calls(t, op, 0, 0)
  /\ KeepCpu(t, "loop")
  /\ UNCHANGED <<fileVars, file, target, early, raced, corrupt>>

(* The loop of IoCloseForExec or IoContextDeleteReference.                 *)
CloseNext(t) ==
  LET fd == call[t].fd
      mustClose == /\ FileAt(t, fd) # NoFile
                   /\ call[t].op = "exec" => "CLOEXEC" \in descriptorFlags[HomeOf[t]][fd]
  IN  /\ At(t, "loop") /\ fd \in FD
      /\ IF mustClose
         THEN Release(t, FileAt(t, fd), fd, "loop") /\ UNCHANGED call
         ELSE /\ call' = [call EXCEPT ![t].fd = @ + 1]
              /\ UNCHANGED <<pc, cpu, target>>
      /\ raced' = (raced \/ (mustClose /\ BeingClosed(FileAt(t, fd))))
      /\ UNCHANGED <<fileVars, file, early, corrupt>>

CloseEnd(t) ==
  /\ At(t, "loop") /\ call[t].fd \notin FD
  /\ Return(t)
  /\ IF call[t].op = "delete"
     THEN /\ context' = context \ {HomeOf[t]}
          /\ files' = [files EXCEPT ![HomeOf[t]] = NoFiles]
          /\ descriptorFlags' = [descriptorFlags EXCEPT ![HomeOf[t]] = [fd \in FD |-> {}]]
          /\ nextFreeFile' = [nextFreeFile EXCEPT ![HomeOf[t]] = 0]
     ELSE UNCHANGED <<context, files, descriptorFlags, nextFreeFile>>
  /\ UNCHANGED <<refCount, early, raced, corrupt>>

-----------------------------------------------------------------------------
(* The bound is reached and every call has returned.                       *)
Finished == calls = MaxCalls /\ (\A t \in Thread : pc[t] = "idle") /\ UNCHANGED vars

(* Nothing is said of what follows once a file in use may be freed.        *)
Undefined == (corrupt \/ raced) /\ UNCHANGED vars

Start(t) ==
  /\ calls < MaxCalls /\ calls' = calls + 1
  /\ \/ \E fd \in FD : Open(t, fd) \/ Operate(t, fd) \/ Close(t, fd)
     \/ \E fd, newFd \in FD : DupAtLeast(t, fd, newFd) \/ Dup(t, fd, newFd)
     \/ \E c \in Context : Clone(t, c)
     \/ \E op \in {"exec", "delete"} : CloseEach(t, op)

Step(t) ==
  /\ UNCHANGED calls
  /\ \/ OpenEarlyReturn(t) \/ OpenRefused(t) \/ OpenFound(t) \/ OpenDone(t) \/ OpenTruncated(t)
     \/ OperateDone(t) \/ ReleaseShared(t) \/ ReleaseLast(t)
     \/ CloseDone(t) \/ CloseFails(t) \/ DupInstall(t) \/ CloseNext(t) \/ CloseEnd(t)

Next ==
  \/ ~corrupt /\ ~raced /\ \E t \in Thread : Start(t) \/ Step(t)
  \/ Finished
  \/ Undefined

Spec == Init /\ [][Next]_vars

-----------------------------------------------------------------------------
(* The calls that hold a reference to f.                                   *)
HoldersOf(f) == {t \in Thread : file[t] = f}

(* A file's count is the number of descriptors and calls that refer to it, *)
(* whatever is opened, duplicated, inherited and closed in between; and so *)
(* no file is freed under a descriptor or a call (IoReleaseFile).  The     *)
(* code breaks this for a file that is closed while it has another         *)
(* reference, and for one that is taken while its close is in progress.    *)
CountsExact ==
  /\ TypeOK
  /\ corrupt => raced \/ early # {}
  /\ ~raced /\ cpu = NoThread =>
       \A f \in File \ early :
         refCount[f] = Cardinality(DescriptorsOf(f)) + Cardinality(HoldersOf(f))

(* A descriptor belongs to the open that reserved it: until that returns   *)
(* nobody else installs a file there and no other open has it.  IoOpen     *)
(* stores its file without another look (open.c, "Place in context").      *)
OpenOwnsDescriptor ==
  ~raced => \A t \in Thread : call[t].op = "open" =>
    /\ FileAt(t, call[t].fd) = NoFile
    /\ IsReserved(t, call[t].fd)
    /\ \A u \in Thread \ {t} :
         call[u].op = "open" /\ HomeOf[u] = HomeOf[t] => call[u].fd # call[t].fd
=============================================================================
