----------------------------- MODULE BlockCache -----------------------------
(***************************************************************************)
(* The block cache (io/bcache.c): a write-through cache of the blocks of   *)
(* one device, shared by threads that read, write and lock blocks.  A      *)
(* device transfer, and the wait for another thread's transfer, are the    *)
(* only places where a thread gives up the processor, so a thread that has *)
(* it (cpu) keeps it until then.                                           *)
(*                                                                         *)
(* Memory is counted in cells; a block has BlockSize of them.  A block     *)
(* that is freed while a thread still has a pointer to it is the end of    *)
(* what the code defines (corrupt); borrowed records that a thread has     *)
(* used a block on which it took no reference.                             *)
(***************************************************************************)
EXTENDS Naturals, FiniteSets, Functions

CONSTANTS Thread, NoThread,
          Block, NoBlock,    \* identities of IoBlock objects
          BlockSize,         \* cells per block
          DiskSize,          \* cells on the device
          UIntRange,         \* cells that 32 bits can address
          Value,             \* contents of a cell
          Garbage,           \* contents of memory that nothing was written to
          Requests           \* the calls that are made

ASSUME BlockAssumption ==
  /\ BlockSize \in Nat \ {0} /\ DiskSize \in Nat /\ UIntRange \in Nat \ {0}
  /\ DiskSize % BlockSize = 0 /\ UIntRange % BlockSize = 0
  /\ NoBlock \notin Block /\ NoThread \notin Thread /\ Garbage \notin Value
  /\ IsFiniteSet(Thread) /\ Value # {}

(* An operation on length cells from off; a caller that locks a block asks *)
(* for one.                                                                *)
Request == [op : {"read", "write", "lock"}, off : Nat, length : Nat \ {0}, val : Value]

ASSUME RequestAssumption ==
  /\ Requests \subseteq Request
  /\ \A r \in Requests : r.off + r.length <= DiskSize /\ (r.op = "lock" => r.length = 1)

VARIABLES
  disk,             \* contents of the device
  blockTable,       \* IoBlockCache.blockTable: the block at each block offset
  blockState,       \* IoBlock.state, or FREE for memory that is not a block
  refCount,         \* IoBlock.refCount
  data,             \* the memory at IoBlock.address
  waitingThreads,   \* IoBlock.waitingThreads
  pc,               \* where each thread is
  request,          \* its call: operation, next cell, cells left, value written
  block,            \* the thread's variable block (or readBlock)
  cpu,              \* the thread between two blocking points
  borrowed,         \* a thread used a block without a reference
  corrupt           \* a block was freed under a thread that uses it

vars == <<disk, blockTable, blockState, refCount, data, waitingThreads, pc,
          request, block, cpu, borrowed, corrupt>>

blockVars == <<disk, blockTable, blockState, refCount, data, waitingThreads>>

Cell == 0 .. DiskSize - 1

InBlock == 0 .. BlockSize - 1

BlockOff == {off \in Cell : off % BlockSize = 0}

(* off & ~(blockSize - 1): the mask is 32 bits wide and off is not.        *)
Align(off) == (off % UIntRange) - (off % BlockSize)

NoRequest == [op |-> "none"]

IoBlockState == {"OK", "READING", "WRITING", "ERROR"}

TypeOK ==
  /\ disk \in [Cell -> Value]
  /\ blockTable \in [BlockOff -> Block \cup {NoBlock}]
  /\ blockState \in [Block -> IoBlockState \cup {"FREE"}]
  /\ refCount \in [Block -> 0 .. Cardinality(Thread)]
  /\ data \in [Block -> [InBlock -> Value \cup {Garbage}]]
  /\ waitingThreads \in [Block -> SUBSET Thread]
  /\ pc \in [Thread -> {"idle", "next", "reading", "wait", "have", "store",
                        "writing", "locked"}]
  /\ request \in [Thread -> Request \cup {NoRequest}]
  /\ block \in [Thread -> Block \cup {NoBlock}]
  /\ cpu \in Thread \cup {NoThread}
  /\ borrowed \in BOOLEAN /\ corrupt \in BOOLEAN

(* A device of one content and a cache just made, its table empty.         *)
Init ==
  /\ disk = [c \in Cell |-> CHOOSE v \in Value : TRUE]
  /\ blockTable = [off \in BlockOff |-> NoBlock]
  /\ blockState = [b \in Block |-> "FREE"]
  /\ refCount = [b \in Block |-> 0]
  /\ data = [b \in Block |-> [i \in InBlock |-> Garbage]]
  /\ waitingThreads = [b \in Block |-> {}]
  /\ pc = [t \in Thread |-> "idle"]
  /\ request = [t \in Thread |-> NoRequest]
  /\ block = [t \in Thread |-> NoBlock]
  /\ cpu = NoThread
  /\ borrowed = FALSE /\ corrupt = FALSE

-----------------------------------------------------------------------------
(* Thread t may go on at the point l: it is not asleep and no other thread *)
(* has the processor.                                                      *)
At(t, l) ==
  /\ pc[t] = l
  /\ cpu \in {t, NoThread}
  /\ \A b \in Block : t \notin waitingThreads[b]

(* Thread t goes on to l at once (KeepCpu) or blocks or returns (LeaveCpu).*)
KeepCpu(t, l) == pc' = [pc EXCEPT ![t] = l] /\ cpu' = t

LeaveCpu(t, l) == pc' = [pc EXCEPT ![t] = l] /\ cpu' = NoThread

(* The call of t is over.                                                  *)
Return(t) ==
  /\ LeaveCpu(t, "idle")
  /\ request' = [request EXCEPT ![t] = NoRequest]
  /\ block' = [block EXCEPT ![t] = NoBlock]

(* The part of the request of t that falls into its first block.           *)
FirstCell(t) == request[t].off % BlockSize

BlockLength(t) ==
  LET rest == BlockSize - FirstCell(t)
  IN  IF rest > request[t].length THEN request[t].length ELSE rest

InFirstBlock(t) == FirstCell(t) .. FirstCell(t) + BlockLength(t) - 1

(* Identities for new blocks.  A block that nothing points to any more,    *)
(* though it was never freed, is one as well.                              *)
Unreachable(b) ==
  /\ b \notin Range(blockTable)
  /\ b \notin Range(block)

IoBlockHashFind(off) == blockTable[off]

(* The block is not found any more; what it holds is of no interest.       *)
HashTableRemoveItem(b) ==
  /\ blockTable' = [off \in BlockOff |->
                      IF blockTable[off] = b THEN NoBlock ELSE blockTable[off]]
  /\ data' = [data EXCEPT ![b] = [i \in InBlock |-> Garbage]]

(* CreateEmptyBlock for t, in the given state.                             *)
CreateEmptyBlock(t, newState) ==
  LET b == CHOOSE x \in Block : Unreachable(x)
  IN  /\ \E x \in Block : Unreachable(x)
      /\ blockState' = [blockState EXCEPT ![b] = newState]
      /\ refCount' = [refCount EXCEPT ![b] = 1]
      /\ data' = [data EXCEPT ![b] = [i \in InBlock |-> Garbage]]
      /\ waitingThreads' = [waitingThreads EXCEPT ![b] = {}]
      /\ blockTable' = [blockTable EXCEPT ![Align(request[t].off)] = b]
      /\ block' = [block EXCEPT ![t] = b]

(* IoBlockCacheUnlock by t of its block, the state of which is newState.   *)
IoBlockCacheUnlock(t, newState) ==
  LET b == block[t]
      freed == newState = "ERROR" /\ refCount[b] = 1
  IN  /\ refCount' = [refCount EXCEPT ![b] = IF @ > 0 THEN @ - 1 ELSE @]
      /\ blockState' = [blockState EXCEPT ![b] = IF freed THEN "FREE" ELSE newState]
      /\ corrupt' = (freed /\ \E u \in Thread \ {t} : block[u] = b)

(* Mutant: one waiter is woken.                                            *)
WakeOneOf(b) ==
  waitingThreads' = [waitingThreads EXCEPT ![b] =
                       IF @ = {} THEN @ ELSE @ \ {CHOOSE u \in @ : TRUE}]

(* ProcWaitQueueWakeAll                                                    *)
WakeAll(b) == waitingThreads' = [waitingThreads EXCEPT ![b] = {}]

Sleep(t, b) == waitingThreads' = [waitingThreads EXCEPT ![b] = @ \cup {t}]

-----------------------------------------------------------------------------
(* A call of IoBlockCacheReadBuffer, IoBlockCacheWriteBuffer, or of        *)
(* IoBlockCacheRead by a caller that keeps the block ("lock").             *)
Call(t) ==
  /\ At(t, "idle")
  /\ \E r \in Requests : request' = [request EXCEPT ![t] = r]
  /\ KeepCpu(t, "next")
  /\ UNCHANGED <<blockVars, block, borrowed, corrupt>>

(* Whether the next block is written as a whole, so that it is not read.   *)
WholeBlock(t) == request[t].op = "write" /\ BlockLength(t) = BlockSize

(* IoBlockCacheRead of a block that is not cached: a new block, and the    *)
(* device is asked for its contents.                                       *)
ReadMiss(t) ==
  /\ At(t, "next") /\ ~WholeBlock(t)
  /\ IoBlockHashFind(Align(request[t].off)) = NoBlock
  /\ CreateEmptyBlock(t, "READING")
  /\ LeaveCpu(t, "reading")
  /\ UNCHANGED <<disk, request, borrowed, corrupt>>

(* Mutant: the reference is taken only once the wait is over.              *)
ReadHitLateReference(t) ==
  LET b == IoBlockHashFind(Align(request[t].off))
  IN  /\ At(t, "next") /\ ~WholeBlock(t)
      /\ b # NoBlock
      /\ block' = [block EXCEPT ![t] = b]
      /\ IF blockState[b] = "READING"
         THEN Sleep(t, b) /\ LeaveCpu(t, "wait") /\ UNCHANGED refCount
         ELSE /\ KeepCpu(t, "have") /\ UNCHANGED waitingThreads
              /\ refCount' = [refCount EXCEPT ![b] = @ + 1]
      /\ UNCHANGED <<disk, blockTable, blockState, data, request, borrowed, corrupt>>

(* IoBlockCacheRead of a cached block; while another thread reads it in,   *)
(* wait for that thread.                                                   *)
ReadHit(t) ==
  LET b == IoBlockHashFind(Align(request[t].off))
  IN  /\ At(t, "next") /\ ~WholeBlock(t)
      /\ b # NoBlock
      /\ refCount' = [refCount EXCEPT ![b] = @ + 1]
      /\ block' = [block EXCEPT ![t] = b]
      /\ IF blockState[b] = "READING"
         THEN Sleep(t, b) /\ LeaveCpu(t, "wait")
         ELSE KeepCpu(t, "have") /\ UNCHANGED waitingThreads
      /\ UNCHANGED <<disk, blockTable, blockState, data, request, borrowed, corrupt>>

(* IoBlockCacheRead after the device's answer.                             *)
ReadDone(t) ==
  LET b == block[t]
  IN  /\ At(t, "reading")
      /\ WakeAll(b)
      /\ \/ /\ data' = [data EXCEPT ![b] =
                          [i \in InBlock |-> disk[Align(request[t].off) + i]]]
            /\ blockState' = [blockState EXCEPT ![b] = "OK"]
            /\ KeepCpu(t, "have")
            /\ UNCHANGED <<blockTable, refCount, request, block, corrupt>>
         \/ /\ HashTableRemoveItem(b)
            /\ IoBlockCacheUnlock(t, "ERROR")
            /\ Return(t)
      /\ UNCHANGED <<disk, borrowed>>

(* IoBlockCacheRead after its wait.                                        *)
ReadWoken(t) ==
  /\ At(t, "wait")
  /\ IF blockState[block[t]] = "ERROR"
     THEN IoBlockCacheUnlock(t, "ERROR") /\ Return(t)
     ELSE /\ KeepCpu(t, "have")
          /\ UNCHANGED <<blockState, refCount, corrupt, request, block>>
  /\ UNCHANGED <<disk, blockTable, data, waitingThreads, borrowed>>

(* The caller of IoBlockCacheRead keeps the block and blocks elsewhere.    *)
Lock(t) ==
  /\ At(t, "have") /\ request[t].op = "lock"
  /\ LeaveCpu(t, "locked")
  /\ UNCHANGED <<blockVars, request, block, borrowed, corrupt>>

Unlock(t) ==
  /\ At(t, "locked")
  /\ IoBlockCacheUnlock(t, blockState[block[t]])
  /\ Return(t)
  /\ UNCHANGED <<disk, blockTable, data, waitingThreads, borrowed>>

(* Advance off, length and buffer: the next block, or the end of the call. *)
Advance(t) ==
  IF request[t].length = BlockLength(t) THEN Return(t)
  ELSE /\ request' = [request EXCEPT ![t].off = @ + BlockLength(t),
                                     ![t].length = @ - BlockLength(t)]
       /\ block' = [block EXCEPT ![t] = NoBlock]
       /\ KeepCpu(t, "next")

(* IoBlockCacheReadBuffer: copy to the buffer, or MemCommitForRead fails.  *)
Copy(t) ==
  /\ At(t, "have") /\ request[t].op = "read"
  /\ IoBlockCacheUnlock(t, blockState[block[t]])
  /\ Advance(t) \/ Return(t)
  /\ UNCHANGED <<disk, blockTable, data, waitingThreads, borrowed>>

(* IoBlockCacheWriteBuffer has read the block that it changes in part.     *)
HaveForWrite(t) ==
  /\ At(t, "have") /\ request[t].op = "write"
  /\ KeepCpu(t, "store")
  /\ UNCHANGED <<blockVars, request, block, borrowed, corrupt>>

(* IoBlockCacheWriteBuffer of a whole block that is not cached.            *)
WholeMiss(t) ==
  /\ At(t, "next") /\ WholeBlock(t)
  /\ IoBlockHashFind(Align(request[t].off)) = NoBlock
  /\ CreateEmptyBlock(t, "OK")
  /\ KeepCpu(t, "store")
  /\ UNCHANGED <<disk, request, borrowed, corrupt>>

(* The same with a cached block, on which no reference is taken.           *)
WholeHit(t) ==
  /\ At(t, "next") /\ WholeBlock(t)
  /\ IoBlockHashFind(Align(request[t].off)) # NoBlock
  /\ block' = [block EXCEPT ![t] = IoBlockHashFind(Align(request[t].off))]
  /\ borrowed' = TRUE
  /\ KeepCpu(t, "store")
  /\ UNCHANGED <<blockVars, request, corrupt>>

(* Mutant: a block that is being written is written at the same time.      *)
BusyReading(b) == blockState[b] = "READING"

Busy(b) == blockState[b] \in {"READING", "WRITING"}

(* The loop of IoBlockCacheWriteBuffer around ProcWaitQueueWait.           *)
StoreWait(t) ==
  /\ At(t, "store") /\ Busy(block[t])
  /\ Sleep(t, block[t])
  /\ LeaveCpu(t, "store")
  /\ UNCHANGED <<disk, blockTable, blockState, refCount, data, request, block,
                 borrowed, corrupt>>

(* The block has failed while t waited.  (MemCommitForWrite is asked about *)
(* the kernel's copy, for which it never fails.)                           *)
StoreFails(t) ==
  /\ At(t, "store") /\ blockState[block[t]] = "ERROR"
  /\ IoBlockCacheUnlock(t, blockState[block[t]])
  /\ Return(t)
  /\ UNCHANGED <<disk, blockTable, data, waitingThreads, borrowed>>

(* Change the block and ask the device to write the changed part.          *)
Store(t) ==
  LET b == block[t]
  IN  /\ At(t, "store") /\ ~Busy(b) /\ blockState[b] # "ERROR"
      /\ blockState' = [blockState EXCEPT ![b] = "WRITING"]
      /\ data' = [data EXCEPT ![b] = [i \in InBlock |->
                    IF i \in InFirstBlock(t) THEN request[t].val ELSE @[i]]]
      /\ LeaveCpu(t, "writing")
      /\ UNCHANGED <<disk, blockTable, refCount, waitingThreads, request, block,
                     borrowed, corrupt>>

(* The device has written what the request of t puts into its first block. *)
DeviceWrite(t) ==
  disk' = [c \in Cell |->
             IF c \in request[t].off .. request[t].off + BlockLength(t) - 1
             THEN request[t].val ELSE disk[c]]

(* Mutant: a failed write leaves the block in the cache.                   *)
WriteFailedKeepsBlock(t) ==
  /\ DeviceWrite(t) \/ UNCHANGED disk
  /\ IoBlockCacheUnlock(t, "OK")
  /\ Return(t)
  /\ UNCHANGED <<blockTable, data>>

(* The device has not, or not surely, written it.                          *)
WriteFailed(t) ==
  /\ DeviceWrite(t) \/ UNCHANGED disk
  /\ HashTableRemoveItem(block[t])
  /\ IoBlockCacheUnlock(t, "ERROR")
  /\ Return(t)

(* IoBlockCacheWriteBuffer after the device's answer.                      *)
WriteDone(t) ==
  /\ At(t, "writing")
  /\ WakeAll(block[t])
  /\ \/ /\ DeviceWrite(t)
        /\ IoBlockCacheUnlock(t, "OK")
        /\ Advance(t)
        /\ UNCHANGED <<blockTable, data>>
     \/ WriteFailed(t)
  /\ UNCHANGED borrowed

-----------------------------------------------------------------------------
(* What t does once it has the processor, the device's answer included.    *)
Step(t) ==
  \/ ReadMiss(t) \/ ReadHit(t) \/ ReadDone(t) \/ ReadWoken(t)
  \/ Lock(t) \/ Unlock(t) \/ Copy(t) \/ HaveForWrite(t)
  \/ WholeMiss(t) \/ WholeHit(t)
  \/ StoreWait(t) \/ StoreFails(t) \/ Store(t) \/ WriteDone(t)

(* Nothing is said of what follows the use of freed memory.                *)
Undefined == corrupt /\ UNCHANGED vars

Next ==
  \/ ~corrupt /\ \E t \in Thread : Call(t) \/ Step(t)
  \/ Undefined

Spec == Init /\ [][Next]_vars

-----------------------------------------------------------------------------
Transfers(t) == pc[t] \in {"reading", "writing"}

(* The cache never differs from the device: a block that can be found and  *)
(* is OK holds what the device holds, and one that is being written        *)
(* differs from it only where its writer changes it.  IoBlockCacheRead     *)
(* gives such blocks out without a look at the device.                     *)
CachedMatchesDisk ==
  \A off \in BlockOff : \A b \in Block :
    blockTable[off] = b /\ cpu = NoThread /\ ~corrupt =>
      /\ blockState[b] # "ERROR"
      /\ blockState[b] = "OK" => \A i \in InBlock : data[b][i] = disk[off + i]
      /\ blockState[b] = "WRITING" => \E t \in Thread :
           /\ block[t] = b /\ pc[t] = "writing"
           /\ \A i \in InBlock : data[b][i] =
                IF i \in InFirstBlock(t) THEN request[t].val ELSE disk[off + i]

(* At most one transfer is in progress for a block of the device, also     *)
(* when a failed block has been dropped and is read again while others     *)
(* still hold the old one.                                                 *)
OneTransfer ==
  \A t, u \in Thread :
    /\ Transfers(t) /\ Transfers(u) /\ ~corrupt
    /\ Align(request[t].off) = Align(request[u].off)
    => t = u

(* No sleeper is forgotten: a thread asleep on a block sleeps until the    *)
(* end of a transfer that is in progress.                                  *)
SleepersServed ==
  \A b \in Block : \A t \in waitingThreads[b] :
    ~corrupt => \E u \in Thread : block[u] = b /\ Transfers(u)

(* A block's count is the number of threads with a pointer to it, so that  *)
(* none is freed under a thread and none is lost (IoBlock.refCount, "The   *)
(* block can only be removed from memory if this is 0"), until a write of  *)
(* a whole cached block has used a reference it did not take.              *)
CountsExact ==
  /\ TypeOK
  /\ ~borrowed =>
       /\ ~corrupt
       /\ \A b \in Block :
            /\ refCount[b] = Cardinality({t \in Thread : block[t] = b})
            /\ Unreachable(b) <=> blockState[b] = "FREE"
=============================================================================
