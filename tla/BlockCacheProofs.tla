-------------------------- MODULE BlockCacheProofs ---------------------------
(***************************************************************************)
(* The block cache never differs from its device, has at most one transfer *)
(* in progress for a block, wakes every sleeper and counts its references: *)
(* for every finite set of threads, every size of block and of device, and *)
(* all requests.                                                           *)
(***************************************************************************)
EXTENDS BlockCache, FiniteSetTheorems, TLAPS

(* Zenon, unless a step says otherwise                                     *)
USE Zenon

(* The threads with a pointer to block b                                   *)
Holders(b) == {t \in Thread : block[t] = b}

(* A block that is not dropped                                             *)
Live(b) == blockState[b] \in {"OK", "READING", "WRITING"}

(* A thread's call fits the device, and it has a pointer to a block except *)
(* between two blocks.                                                     *)
ThreadOK(t) ==
  /\ pc[t] = "idle" => request[t] = NoRequest
  /\ pc[t] # "idle" => request[t] \in Request /\ request[t].off + request[t].length <= DiskSize
  /\ pc[t] \in {"idle", "next"} <=> block[t] = NoBlock

(* What a thread points to is still a block; if it is not dropped it is    *)
(* the one that the thread would find, and a thread's transfer shows in    *)
(* the block's state.                                                      *)
PointerOK(t) ==
  block[t] # NoBlock =>
    /\ blockState[block[t]] # "FREE"
    /\ Live(block[t]) => blockTable[Align(request[t].off)] = block[t]
    /\ pc[t] = "reading" => blockState[block[t]] = "READING"
    /\ pc[t] = "writing" => blockState[block[t]] = "WRITING"

(* No two threads transfer a block.                                        *)
TransferOnce ==
  \A t, u \in Thread :
    block[t] = block[u] /\ Transfers(t) /\ Transfers(u) => t = u

(* A block's state is that of a transfer, there are sleepers only during a *)
(* transfer, and the blocks that can be found are those not dropped.       *)
BlockOK(b) ==
  /\ blockState[b] = "READING" => \E t \in Thread : block[t] = b /\ pc[t] = "reading"
  /\ blockState[b] = "WRITING" => \E t \in Thread : block[t] = b /\ pc[t] = "writing"
  /\ waitingThreads[b] # {} => Busy(b)
  /\ Live(b) <=> \E off \in BlockOff : blockTable[off] = b

(* A block is found at one offset only.                                    *)
TableOnce ==
  \A o, p \in BlockOff : blockTable[o] = blockTable[p] /\ blockTable[o] # NoBlock => o = p

(* A block for a whole write is found before anything was written to it,   *)
(* but its thread does not give up the processor in between.               *)
Fresh(b) == \E t \in Thread : cpu = t /\ pc[t] = "store" /\ block[t] = b /\ WholeBlock(t)

(* The contents of a block with the changes of thread t, on the device     *)
Changed(t, off, i) == IF i \in InFirstBlock(t) THEN request[t].val ELSE disk[off + i]

(* CachedMatchesDisk of the block at off, at every point of a call         *)
ContentsOK(off) ==
  \A b \in Block : blockTable[off] = b =>
    /\ blockState[b] = "OK" => Fresh(b) \/ \A i \in InBlock : data[b][i] = disk[off + i]
    /\ blockState[b] = "WRITING" =>
         \A t \in Thread : block[t] = b /\ pc[t] = "writing" =>
            \A i \in InBlock : data[b][i] = Changed(t, off, i)

(* A count is never too high; it is exact, and a dropped block still has a *)
(* holder, until a thread uses a reference that it did not take.           *)
CountOK(b) ==
  /\ refCount[b] <= Cardinality(Holders(b))
  /\ ~borrowed => /\ refCount[b] = Cardinality(Holders(b))
                  /\ blockState[b] = "ERROR" => Holders(b) # {}

(* What holds while no freed block is in use                               *)
CacheInv ==
  /\ \A t \in Thread : PointerOK(t)
  /\ TransferOnce
  /\ \A b \in Block : BlockOK(b)
  /\ TableOnce

DataInv == DiskSize <= UIntRange => \A off \in BlockOff : ContentsOK(off)

(* The inductive invariant                                                 *)
IInv ==
  /\ TypeOK
  /\ \A t \in Thread : ThreadOK(t)
  /\ \A b \in Block : CountOK(b)
  /\ ~borrowed => ~corrupt
  /\ ~corrupt => CacheInv /\ DataInv

-----------------------------------------------------------------------------
(* Division of naturals, in the form the lemmas on offsets use it          *)
LEMMA DivMod ==
  ASSUME NEW a \in Nat, NEW n \in Nat \ {0}
  PROVE  \E q \in Nat : a = n * q + (a % n) /\ a % n \in 0 .. n - 1
<1>1. a \div n \in Nat
  BY SMT
<1>2. a % n \in 0 .. n - 1
  BY SMT
<1>3. a = n * (a \div n) + (a % n)
  BY SMT
<1> QED
  BY <1>1, <1>2, <1>3

(* What leaves no remainder is a multiple.                                 *)
LEMMA Multiple ==
  ASSUME NEW a \in Nat, NEW n \in Nat \ {0}, a % n = 0
  PROVE  \E q \in Nat : a = n * q
<1>1. PICK q \in Nat : a = n * q + (a % n)
  BY DivMod
<1>2. a = n * q
  BY <1>1, SMT
<1> QED
  BY <1>2

(* A number between two multiples of n that are next to each other is not  *)
(* a multiple of n.                                                        *)
LEMMA BetweenMultiples ==
  ASSUME NEW n \in Nat \ {0}, NEW p \in Int, NEW r \in Int, -n < r, r < n, n * p = r
  PROVE  p = 0
<1>1. CASE p >= 1
  <2>1. n * p >= n
    BY <1>1, SMT
  <2> QED
    BY <2>1, SMT
<1>2. CASE p <= -1
  <2>1. n * p <= -n
    BY <1>2, SMT
  <2> QED
    BY <2>1, SMT
<1> QED
  BY <1>1, <1>2, SMT

(* Cells at different places of a block, or of different blocks, differ.   *)
LEMMA CellsApart ==
  ASSUME NEW o \in BlockOff, NEW p \in BlockOff, NEW i \in InBlock, NEW j \in InBlock,
         o + i = p + j
  PROVE  o = p /\ i = j
<1>1. BlockSize \in Nat \ {0}
  BY BlockAssumption
<1>2. o \in Nat /\ p \in Nat /\ i \in Nat /\ j \in Nat /\ o % BlockSize = 0 /\ p % BlockSize = 0
      /\ i < BlockSize /\ j < BlockSize
  BY <1>1, BlockAssumption, SMT DEF BlockOff, Cell, InBlock
<1>3. PICK m \in Nat : o = BlockSize * m
  BY <1>1, <1>2, Multiple
<1>4. PICK k \in Nat : p = BlockSize * k
  BY <1>1, <1>2, Multiple
<1>5. BlockSize * (m - k) = j - i
  BY <1>1, <1>2, <1>3, <1>4, SMT
<1>6. m - k = 0
  BY <1>1, <1>2, <1>5, BetweenMultiples, SMT
<1> QED
  BY <1>2, <1>3, <1>4, <1>6, SMT

(* A block of the device lies on it as a whole.                            *)
LEMMA BlockOnDevice ==
  ASSUME NEW o \in BlockOff, NEW i \in InBlock
  PROVE  o + i \in Cell
<1>1. BlockSize \in Nat \ {0} /\ DiskSize \in Nat /\ DiskSize % BlockSize = 0
  BY BlockAssumption
<1>2. o \in Nat /\ i \in Nat /\ o % BlockSize = 0 /\ i < BlockSize /\ o < DiskSize
  BY <1>1, SMT DEF BlockOff, Cell, InBlock
<1>3. PICK m \in Nat : o = BlockSize * m
  BY <1>1, <1>2, Multiple
<1>4. PICK k \in Nat : DiskSize = BlockSize * k
  BY <1>1, Multiple
<1>5. k >= m + 1
  <2>1. CASE k <= m
    <3>1. BlockSize * k <= BlockSize * m
      BY <1>1, <2>1, SMT
    <3> QED
      BY <1>2, <1>3, <1>4, <3>1, SMT
  <2> QED
    BY <2>1, SMT
<1>6. BlockSize * k >= BlockSize * (m + 1)
  BY <1>1, <1>5, SMT
<1>7. BlockSize * (m + 1) = o + BlockSize
  BY <1>1, <1>3, SMT
<1> QED
  BY <1>1, <1>2, <1>4, <1>6, <1>7, SMT DEF Cell

(* The offset under which a cell's block is looked up is one of a block.   *)
LEMMA AlignType ==
  ASSUME NEW c \in Cell
  PROVE  Align(c) \in BlockOff
<1>1. /\ BlockSize \in Nat \ {0} /\ UIntRange \in Nat \ {0} /\ DiskSize \in Nat
      /\ UIntRange % BlockSize = 0
  BY BlockAssumption
<1>2. c \in Nat /\ c < DiskSize
  BY <1>1, SMT DEF Cell
<1> DEFINE w == c % UIntRange
           x == c % BlockSize
<1>3. PICK q \in Nat : c = UIntRange * q + w /\ w \in 0 .. UIntRange - 1
  BY <1>1, <1>2, DivMod
<1>4. PICK m \in Nat : c = BlockSize * m + x /\ x \in 0 .. BlockSize - 1
  BY <1>1, <1>2, DivMod
<1>5. PICK k \in Nat : UIntRange = BlockSize * k
  BY <1>1, Multiple
<1> HIDE DEF w, x
<1>6. UIntRange * q = BlockSize * (k * q)
  BY <1>1, <1>5, SMT
<1> DEFINE p == m - k * q
<1>7. p \in Int
  BY SMT
<1>8. w - x = BlockSize * p
  BY <1>1, <1>3, <1>4, <1>6, SMT
<1> HIDE DEF p
<1>9. p >= 0
  <2>1. CASE p <= -1
    <3>1. BlockSize * p <= -BlockSize
      BY <1>1, <1>7, <2>1, SMT
    <3> QED
      BY <1>1, <1>3, <1>4, <1>8, <3>1, SMT
  <2> QED
    BY <1>7, <2>1, SMT
<1>10. BlockSize * p \in Nat
  BY <1>1, <1>7, <1>9, SMT
<1>11. (BlockSize * p) % BlockSize = 0
  BY <1>1, <1>7, <1>9, SMT
<1>12. w - x <= c
  <2>1. UIntRange * q >= 0
    BY <1>1, SMT
  <2> QED
    BY <1>1, <1>2, <1>3, <1>4, <2>1, SMT
<1>13. Align(c) = w - x
  BY DEF Align, w, x
<1> QED
  BY <1>1, <1>2, <1>8, <1>10, <1>11, <1>12, <1>13, SMT DEF BlockOff, Cell

(* Where 32 bits address the device, a cell is in the block at that offset.*)
LEMMA AlignSmall ==
  ASSUME NEW c \in Cell, DiskSize <= UIntRange
  PROVE  Align(c) + (c % BlockSize) = c /\ c % BlockSize \in InBlock
<1>1. BlockSize \in Nat \ {0} /\ UIntRange \in Nat \ {0} /\ DiskSize \in Nat
  BY BlockAssumption
<1>2. c \in Nat /\ c < UIntRange
  BY <1>1, SMT DEF Cell
<1>3. c % UIntRange = c
  BY <1>1, <1>2, SMT
<1>4. c % BlockSize \in 0 .. BlockSize - 1
  BY <1>1, <1>2, SMT
<1> DEFINE x == c % BlockSize
<1>5. Align(c) = c - x
  BY <1>3 DEF Align
<1>6. x \in Nat
  BY <1>1, <1>4, SMT
<1> HIDE DEF x
<1>7. Align(c) + x = c
  BY <1>2, <1>5, <1>6, SMT
<1> QED
  BY <1>4, <1>7 DEF InBlock, x

(* What of a request falls into its first block is some of it, and lies in *)
(* that block.                                                             *)
LEMMA FirstBlockFacts ==
  ASSUME NEW t \in Thread, request[t] \in Request,
         request[t].off + request[t].length <= DiskSize
  PROVE  /\ request[t].off \in Cell
         /\ FirstCell(t) \in InBlock
         /\ BlockLength(t) \in Nat \ {0}
         /\ BlockLength(t) <= request[t].length
         /\ FirstCell(t) + BlockLength(t) <= BlockSize
<1>1. BlockSize \in Nat \ {0} /\ DiskSize \in Nat
  BY BlockAssumption
<1> DEFINE off == request[t].off
           length == request[t].length
           x == off % BlockSize
<1>2. off \in Nat /\ length \in Nat \ {0} /\ off + length <= DiskSize
  BY DEF Request
<1>3. x \in 0 .. BlockSize - 1
  BY <1>1, <1>2, SMT
<1>4. FirstCell(t) = x
  BY DEF FirstCell
<1>5. BlockLength(t) = IF BlockSize - x > length THEN length ELSE BlockSize - x
  BY <1>4 DEF BlockLength
<1> HIDE DEF x, off, length
<1>6. off \in Cell
  BY <1>1, <1>2, SMT DEF Cell
<1> QED
  BY <1>1, <1>2, <1>3, <1>4, <1>5, <1>6, SMT DEF InBlock, off, length

-----------------------------------------------------------------------------
(* CreateEmptyBlock with the block that it makes                           *)
NewBlock(t, newState, b) ==
  /\ blockState' = [blockState EXCEPT ![b] = newState]
  /\ refCount' = [refCount EXCEPT ![b] = 1]
  /\ data' = [data EXCEPT ![b] = [i \in InBlock |-> Garbage]]
  /\ waitingThreads' = [waitingThreads EXCEPT ![b] = {}]
  /\ blockTable' = [blockTable EXCEPT ![Align(request[t].off)] = b]
  /\ block' = [block EXCEPT ![t] = b]

(* The new block is one that nothing points to.                            *)
LEMMA CreateFacts ==
  ASSUME NEW t \in Thread, NEW s, CreateEmptyBlock(t, s)
  PROVE  \E b \in Block : Unreachable(b) /\ NewBlock(t, s, b)
<1> DEFINE b == CHOOSE x \in Block : Unreachable(x)
<1>1. b \in Block /\ Unreachable(b)
  BY DEF CreateEmptyBlock
<1>2. NewBlock(t, s, b)
  BY DEF CreateEmptyBlock, NewBlock
<1> QED
  BY <1>1, <1>2

(* TypeOK but for the bound on the reference counts                        *)
WeakTypeOK ==
  /\ disk \in [Cell -> Value]
  /\ blockTable \in [BlockOff -> Block \cup {NoBlock}]
  /\ blockState \in [Block -> IoBlockState \cup {"FREE"}]
  /\ refCount \in [Block -> Nat]
  /\ data \in [Block -> [InBlock -> Value \cup {Garbage}]]
  /\ waitingThreads \in [Block -> SUBSET Thread]
  /\ pc \in [Thread -> {"idle", "next", "reading", "wait", "have", "store",
                        "writing", "locked"}]
  /\ request \in [Thread -> Request \cup {NoRequest}]
  /\ block \in [Thread -> Block \cup {NoBlock}]
  /\ cpu \in Thread \cup {NoThread}
  /\ borrowed \in BOOLEAN /\ corrupt \in BOOLEAN

(* A step of t is not one of another thread.                               *)
OnlyThread(t) ==
  \A u \in Thread \ {t} : pc'[u] = pc[u] /\ request'[u] = request[u] /\ block'[u] = block[u]

(* Types and threads' own state after each of the operations that several  *)
(* actions share                                                           *)
LEMMA UnlockType ==
  ASSUME WeakTypeOK, NEW t \in Thread, NEW s \in IoBlockState \cup {"FREE"},
         IoBlockCacheUnlock(t, s), block[t] \in Block
  PROVE  /\ blockState' \in [Block -> IoBlockState \cup {"FREE"}]
         /\ refCount' \in [Block -> Nat]
         /\ corrupt' \in BOOLEAN
BY SMT DEF WeakTypeOK, IoBlockCacheUnlock

(* A thread whose call ends points to no block.                            *)
LEMMA ReturnType ==
  ASSUME WeakTypeOK, NEW t \in Thread, Return(t)
  PROVE  /\ pc' \in [Thread -> {"idle", "next", "reading", "wait", "have", "store",
                                "writing", "locked"}]
         /\ request' \in [Thread -> Request \cup {NoRequest}]
         /\ block' \in [Thread -> Block \cup {NoBlock}]
         /\ cpu' \in Thread \cup {NoThread}
         /\ OnlyThread(t)
         /\ ThreadOK(t)'
         /\ pc'[t] = "idle" /\ block'[t] = NoBlock
BY DEF WeakTypeOK, Return, LeaveCpu, OnlyThread, ThreadOK

(* A thread that is done with a block goes on or returns.                  *)
LEMMA AdvanceType ==
  ASSUME WeakTypeOK, NEW t \in Thread, ThreadOK(t), pc[t] # "idle", Advance(t)
  PROVE  /\ pc' \in [Thread -> {"idle", "next", "reading", "wait", "have", "store",
                                "writing", "locked"}]
         /\ request' \in [Thread -> Request \cup {NoRequest}]
         /\ block' \in [Thread -> Block \cup {NoBlock}]
         /\ cpu' \in Thread \cup {NoThread}
         /\ OnlyThread(t)
         /\ ThreadOK(t)'
         /\ pc'[t] \in {"idle", "next"} /\ block'[t] = NoBlock
<1>1. CASE Return(t)
  BY <1>1, ReturnType
<1>2. CASE ~Return(t)
  <2>1. request[t] \in Request /\ request[t].off + request[t].length <= DiskSize
    BY DEF ThreadOK
  <2>2. /\ BlockLength(t) \in Nat \ {0} /\ BlockLength(t) <= request[t].length
    BY <2>1, FirstBlockFacts
  <2>3. /\ request' = [request EXCEPT ![t] = [request[t] EXCEPT
              !.off = request[t].off + BlockLength(t),
              !.length = request[t].length - BlockLength(t)]]
        /\ request[t].length # BlockLength(t)
        /\ block' = [block EXCEPT ![t] = NoBlock]
        /\ pc' = [pc EXCEPT ![t] = "next"] /\ cpu' = t
    BY <1>2 DEF Advance, KeepCpu, WeakTypeOK
  <2> DEFINE r == [request[t] EXCEPT !.off = request[t].off + BlockLength(t),
                                     !.length = request[t].length - BlockLength(t)]
  <2>4. r \in Request /\ r.off + r.length <= DiskSize
    <3>1. request[t].off \in Nat /\ request[t].length \in Nat
      BY <2>1 DEF Request
    <3>2. request[t].off + BlockLength(t) \in Nat
      BY <2>2, <3>1, SMT
    <3>3. request[t].length - BlockLength(t) \in Nat \ {0}
      BY <2>2, <2>3, <3>1, SMT
    <3>4. r.off = request[t].off + BlockLength(t) /\ r.length = request[t].length - BlockLength(t)
      BY <2>1 DEF Request
    <3>5. r \in Request
      BY <2>1, <3>2, <3>3 DEF Request
    <3>6. r.off + r.length = request[t].off + request[t].length
      BY <2>2, <3>1, <3>4, SMT
    <3> QED
      BY <2>1, <3>5, <3>6
  <2> HIDE DEF r
  <2>5. request'[t] = r /\ pc'[t] = "next" /\ block'[t] = NoBlock
    BY <2>3 DEF WeakTypeOK, r
  <2>6. ThreadOK(t)'
    BY <2>4, <2>5 DEF ThreadOK
  <2>7. request' \in [Thread -> Request \cup {NoRequest}]
    BY <2>3, <2>4 DEF WeakTypeOK, r
  <2> QED
    BY <2>3, <2>5, <2>6, <2>7 DEF WeakTypeOK, OnlyThread
<1> QED
  BY <1>1, <1>2

(* A step of t keeps the types and what holds of t.                        *)
LEMMA StepType ==
  ASSUME WeakTypeOK, NEW t \in Thread, ThreadOK(t), Call(t) \/ Step(t)
  PROVE  WeakTypeOK' /\ OnlyThread(t) /\ ThreadOK(t)'
<1> USE DEF At, KeepCpu, LeaveCpu, blockVars
<1>1. pc[t] # "idle" =>
        /\ request[t] \in Request /\ request[t].off + request[t].length <= DiskSize
        /\ request[t].off \in Cell
        /\ Align(request[t].off) \in BlockOff
        /\ request[t].val \in Value
  BY FirstBlockFacts, AlignType DEF ThreadOK, Request
<1>2. pc[t] \notin {"idle", "next"} =>
        /\ block[t] \in Block
        /\ blockState[block[t]] \in IoBlockState \cup {"FREE"}
  BY DEF ThreadOK, WeakTypeOK
<1>3. CASE Call(t)
  <2>1. PICK r \in Requests : request' = [request EXCEPT ![t] = r]
    BY <1>3 DEF Call
  <2>2. r \in Request /\ r.off + r.length <= DiskSize
    BY RequestAssumption
  <2>3. block[t] = NoBlock
    BY <1>3 DEF Call, ThreadOK
  <2> QED
    BY <1>3, <2>1, <2>2, <2>3 DEF Call, WeakTypeOK, OnlyThread, ThreadOK
<1>4. ASSUME NEW s \in IoBlockState, CreateEmptyBlock(t, s), pc[t] = "next",
             NEW l \in {"reading", "store"}, pc' = [pc EXCEPT ![t] = l],
             cpu' \in Thread \cup {NoThread},
             UNCHANGED <<disk, request, borrowed, corrupt>>
      PROVE  WeakTypeOK' /\ OnlyThread(t) /\ ThreadOK(t)'
  <2>1. PICK b \in Block : NewBlock(t, s, b)
    BY <1>4, CreateFacts
  <2>2. b # NoBlock
    BY BlockAssumption
  <2> QED
    BY <1>1, <1>4, <2>1, <2>2 DEF NewBlock, WeakTypeOK, OnlyThread, ThreadOK
<1>5. CASE ReadMiss(t)
  BY <1>4, <1>5 DEF ReadMiss, IoBlockState
<1>6. CASE ReadHit(t)
  <2> DEFINE b == blockTable[Align(request[t].off)]
  <2>1. b \in Block
    BY <1>1, <1>6 DEF ReadHit, IoBlockHashFind, WeakTypeOK
  <2>2. /\ refCount' = [refCount EXCEPT ![b] = @ + 1]
        /\ block' = [block EXCEPT ![t] = b]
        /\ \/ Sleep(t, b) /\ LeaveCpu(t, "wait")
           \/ KeepCpu(t, "have") /\ UNCHANGED waitingThreads
        /\ UNCHANGED <<disk, blockTable, blockState, data, request, borrowed, corrupt>>
        /\ pc[t] = "next"
    BY <1>6 DEF ReadHit, IoBlockHashFind
  <2> HIDE DEF b
  <2>3. b # NoBlock
    BY <2>1, BlockAssumption
  <2>4. refCount' \in [Block -> Nat] /\ block' \in [Thread -> Block \cup {NoBlock}]
    BY <2>1, <2>2, SMT DEF WeakTypeOK
  <2>5. /\ waitingThreads' \in [Block -> SUBSET Thread]
        /\ cpu' \in Thread \cup {NoThread}
        /\ \E l \in {"wait", "have"} : pc' = [pc EXCEPT ![t] = l]
    <3>1. waitingThreads \in [Block -> SUBSET Thread]
      BY DEF WeakTypeOK
    <3>2. CASE Sleep(t, b) /\ LeaveCpu(t, "wait")
      BY <2>1, <3>1, <3>2 DEF Sleep, LeaveCpu
    <3>3. CASE KeepCpu(t, "have") /\ UNCHANGED waitingThreads
      BY <3>1, <3>3 DEF KeepCpu
    <3> QED
      BY <2>2, <3>2, <3>3
  <2>6. WeakTypeOK'
    BY <2>2, <2>4, <2>5 DEF WeakTypeOK
  <2>7. OnlyThread(t)
    BY <2>2, <2>5, SMT DEF WeakTypeOK, OnlyThread
  <2> QED
    BY <2>2, <2>3, <2>5, <2>6, <2>7, SMT DEF WeakTypeOK, ThreadOK
<1>7. CASE ReadDone(t)
  <2>1. waitingThreads' \in [Block -> SUBSET Thread]
    BY <1>7 DEF ReadDone, WakeAll, WeakTypeOK
  <2>2. CASE KeepCpu(t, "have")
    <3>1. /\ data' = [data EXCEPT ![block[t]] =
                        [i \in InBlock |-> disk[Align(request[t].off) + i]]]
          /\ blockState' = [blockState EXCEPT ![block[t]] = "OK"]
          /\ UNCHANGED <<blockTable, refCount, request, block, corrupt, disk, borrowed>>
          /\ pc[t] = "reading"
      BY <1>7, <2>2 DEF ReadDone, Return, WeakTypeOK
    <3>2. \A i \in InBlock : disk[Align(request[t].off) + i] \in Value
      BY <1>1, <3>1, BlockOnDevice DEF WeakTypeOK
    <3> QED
      BY <1>1, <1>2, <2>1, <2>2, <3>1, <3>2 DEF WeakTypeOK, IoBlockState, OnlyThread, ThreadOK
  <2>3. CASE ~KeepCpu(t, "have")
    <3>1. /\ HashTableRemoveItem(block[t])
          /\ IoBlockCacheUnlock(t, "ERROR")
          /\ Return(t)
          /\ UNCHANGED <<disk, borrowed>>
          /\ pc[t] = "reading"
      BY <1>7, <2>3 DEF ReadDone
    <3>2. block[t] \in Block
      BY <1>2, <3>1
    <3>3. blockTable' \in [BlockOff -> Block \cup {NoBlock}]
          /\ data' \in [Block -> [InBlock -> Value \cup {Garbage}]]
      BY <3>1 DEF HashTableRemoveItem, WeakTypeOK
    <3> QED
      BY <2>1, <3>1, <3>2, <3>3, UnlockType, ReturnType DEF WeakTypeOK, IoBlockState
  <2> QED
    BY <2>2, <2>3
<1>8. ASSUME NEW s \in IoBlockState \cup {"FREE"}, IoBlockCacheUnlock(t, s),
             pc[t] \notin {"idle", "next"}, Return(t) \/ Advance(t),
             UNCHANGED <<disk, blockTable, data, waitingThreads, borrowed>>
      PROVE  WeakTypeOK' /\ OnlyThread(t) /\ ThreadOK(t)'
  BY <1>2, <1>8, UnlockType, ReturnType, AdvanceType DEF WeakTypeOK
<1>9. CASE ReadWoken(t)
  <2>1. CASE blockState[block[t]] = "ERROR"
    BY <1>8, <1>9, <2>1 DEF ReadWoken, IoBlockState
  <2>2. CASE blockState[block[t]] # "ERROR"
    BY <1>9, <2>2 DEF ReadWoken, WeakTypeOK, OnlyThread, ThreadOK
  <2> QED
    BY <2>1, <2>2
<1>10. CASE Lock(t)
  BY <1>10 DEF Lock, WeakTypeOK, OnlyThread, ThreadOK
<1>11. CASE Unlock(t)
  BY <1>2, <1>8, <1>11 DEF Unlock
<1>12. CASE Copy(t)
  BY <1>2, <1>8, <1>12 DEF Copy
<1>13. CASE HaveForWrite(t)
  BY <1>13 DEF HaveForWrite, WeakTypeOK, OnlyThread, ThreadOK
<1>14. CASE WholeMiss(t)
  BY <1>4, <1>14 DEF WholeMiss, IoBlockState
<1>15. CASE WholeHit(t)
  <2> DEFINE b == blockTable[Align(request[t].off)]
  <2>1. b \in Block
    BY <1>1, <1>15 DEF WholeHit, IoBlockHashFind, WeakTypeOK
  <2>2. block' = [block EXCEPT ![t] = b]
    BY <1>15 DEF WholeHit, IoBlockHashFind
  <2> HIDE DEF b
  <2>3. b # NoBlock
    BY <2>1, BlockAssumption
  <2> QED
    BY <1>15, <2>1, <2>2, <2>3, SMT DEF WholeHit, WeakTypeOK, OnlyThread, ThreadOK
<1>16. CASE StoreWait(t)
  BY <1>16 DEF StoreWait, Sleep, WeakTypeOK, OnlyThread, ThreadOK
<1>17. CASE StoreFails(t)
  BY <1>2, <1>8, <1>17 DEF StoreFails
<1>18. CASE Store(t)
  BY <1>1, <1>2, <1>18, SMT DEF Store, WeakTypeOK, IoBlockState, OnlyThread, ThreadOK
<1>19. CASE WriteDone(t)
  <2>1. /\ waitingThreads' \in [Block -> SUBSET Thread]
        /\ pc[t] = "writing"
        /\ borrowed' = borrowed
    BY <1>19 DEF WriteDone, WakeAll, WeakTypeOK
  <2>2. disk' \in [Cell -> Value]
    BY <1>1, <1>19, <2>1 DEF WriteDone, WriteFailed, DeviceWrite, WeakTypeOK
  <2>3. /\ blockTable' \in [BlockOff -> Block \cup {NoBlock}]
        /\ data' \in [Block -> [InBlock -> Value \cup {Garbage}]]
    BY <1>19, SMT DEF WriteDone, WriteFailed, HashTableRemoveItem, WeakTypeOK
  <2>4. PICK s \in IoBlockState : IoBlockCacheUnlock(t, s)
    BY <1>19 DEF WriteDone, WriteFailed, IoBlockState
  <2>5. Advance(t) \/ Return(t)
    BY <1>19 DEF WriteDone, WriteFailed
  <2> QED
    BY <1>2, <2>1, <2>2, <2>3, <2>4, <2>5, UnlockType, ReturnType, AdvanceType DEF WeakTypeOK
<1> QED
  BY <1>3, <1>5, <1>6, <1>7, <1>9, <1>10, <1>11, <1>12, <1>13, <1>14, <1>15, <1>16, <1>17,
     <1>18, <1>19 DEF Step

-----------------------------------------------------------------------------
(* What a step of t can do to the blocks, one definition for each effect.  *)
(* Nothing but to let t sleep until the end of a transfer                  *)
Moves(t) ==
  /\ UNCHANGED <<disk, blockTable, blockState, refCount, data, block, borrowed, corrupt>>
  /\ \/ UNCHANGED waitingThreads
     \/ block[t] \in Block /\ Busy(block[t]) /\ Sleep(t, block[t])
  /\ ~Transfers(t) /\ ~Transfers(t)'
  /\ pc[t] = "store" => Busy(block[t])
  /\ block[t] # NoBlock => request'[t] = request[t]

(* t gets a pointer to a block that it finds, with or without a reference. *)
Points(t, b) ==
  /\ pc[t] = "next" /\ ~Transfers(t)'
  /\ blockTable[Align(request[t].off)] = b
  /\ block' = [block EXCEPT ![t] = b]
  /\ \/ refCount' = [refCount EXCEPT ![b] = @ + 1] /\ UNCHANGED borrowed
     \/ UNCHANGED refCount /\ borrowed'
  /\ UNCHANGED waitingThreads \/ (Busy(b) /\ Sleep(t, b))
  /\ UNCHANGED <<disk, blockTable, blockState, data, request, corrupt>>

(* t makes a block, which it then reads or writes as a whole.              *)
Creates(t, b, newState) ==
  /\ pc[t] = "next"
  /\ blockTable[Align(request[t].off)] = NoBlock
  /\ Unreachable(b) /\ NewBlock(t, newState, b)
  /\ \/ newState = "READING" /\ pc'[t] = "reading"
     \/ newState = "OK" /\ pc'[t] = "store" /\ cpu' = t /\ WholeBlock(t)
  /\ UNCHANGED <<disk, request, borrowed, corrupt>>

(* t is done with its block.                                               *)
Releases(t) ==
  /\ pc[t] \notin {"idle", "next"} /\ ~Transfers(t)
  /\ pc[t] = "store" => blockState[block[t]] = "ERROR"
  /\ IoBlockCacheUnlock(t, blockState[block[t]])
  /\ pc'[t] \in {"idle", "next"} /\ block'[t] = NoBlock
  /\ UNCHANGED <<disk, blockTable, data, waitingThreads, borrowed>>

(* t has read its block.                                                   *)
Fills(t) ==
  /\ pc[t] = "reading" /\ pc'[t] = "have"
  /\ WakeAll(block[t])
  /\ data' = [data EXCEPT ![block[t]] =
                [i \in InBlock |-> disk[Align(request[t].off) + i]]]
  /\ blockState' = [blockState EXCEPT ![block[t]] = "OK"]
  /\ UNCHANGED <<disk, blockTable, refCount, request, block, borrowed, corrupt>>

(* t has written its block.                                                *)
Written(t) ==
  /\ pc[t] = "writing"
  /\ WakeAll(block[t])
  /\ DeviceWrite(t)
  /\ IoBlockCacheUnlock(t, "OK")
  /\ pc'[t] \in {"idle", "next"} /\ block'[t] = NoBlock
  /\ UNCHANGED <<blockTable, data, borrowed>>

(* The transfer of t has failed.                                           *)
Drops(t) ==
  /\ Transfers(t)
  /\ WakeAll(block[t])
  /\ UNCHANGED disk \/ (pc[t] = "writing" /\ DeviceWrite(t))
  /\ HashTableRemoveItem(block[t])
  /\ IoBlockCacheUnlock(t, "ERROR")
  /\ pc'[t] \in {"idle", "next"} /\ block'[t] = NoBlock
  /\ UNCHANGED borrowed

(* These are all the effects there are.                                    *)
LEMMA StepEffect ==
  ASSUME WeakTypeOK, NEW t \in Thread, ThreadOK(t), Call(t) \/ Step(t)
  PROVE  /\ cpu \in {t, NoThread}
         /\ \/ Moves(t) \/ Releases(t) \/ Fills(t) \/ Store(t) \/ Written(t) \/ Drops(t)
            \/ \E b \in Block : Points(t, b) \/ \E s \in {"OK", "READING"} : Creates(t, b, s)
<1> USE DEF At, KeepCpu, LeaveCpu, Transfers
<1>1. pc[t] # "idle" => Align(request[t].off) \in BlockOff
  BY FirstBlockFacts, AlignType DEF ThreadOK
<1>2. pc[t] \notin {"idle", "next"} => block[t] \in Block
  BY DEF ThreadOK, WeakTypeOK
<1>3. cpu \in {t, NoThread}
  BY DEF Call, Step, ReadMiss, ReadHit, ReadDone, ReadWoken, Lock, Unlock, Copy, HaveForWrite,
         WholeMiss, WholeHit, StoreWait, StoreFails, Store, WriteDone
<1>4. ASSUME Return(t) \/ Advance(t)
      PROVE  pc'[t] \in {"idle", "next"} /\ block'[t] = NoBlock
  BY <1>4 DEF Return, Advance, WeakTypeOK
<1>5. CASE Call(t)
  <2>1. Moves(t)
    BY <1>5 DEF Call, blockVars, Moves, ThreadOK, WeakTypeOK
  <2> QED
    BY <1>3, <2>1
<1>6. CASE ReadMiss(t)
  <2>1. PICK b \in Block : Unreachable(b) /\ NewBlock(t, "READING", b)
    BY <1>6, CreateFacts DEF ReadMiss
  <2>2. Creates(t, b, "READING")
    BY <1>6, <2>1 DEF ReadMiss, IoBlockHashFind, Creates, WeakTypeOK
  <2> QED
    BY <1>3, <2>2
<1>7. CASE ReadHit(t)
  <2> DEFINE b == blockTable[Align(request[t].off)]
  <2>1. b \in Block
    BY <1>1, <1>7 DEF ReadHit, IoBlockHashFind, WeakTypeOK
  <2>2. /\ refCount' = [refCount EXCEPT ![b] = @ + 1]
        /\ block' = [block EXCEPT ![t] = b]
        /\ \/ Busy(b) /\ Sleep(t, b) /\ LeaveCpu(t, "wait")
           \/ KeepCpu(t, "have") /\ UNCHANGED waitingThreads
        /\ UNCHANGED <<disk, blockTable, blockState, data, request, borrowed, corrupt>>
        /\ pc[t] = "next"
    BY <1>7 DEF ReadHit, IoBlockHashFind, Busy
  <2>3. pc'[t] \in {"wait", "have"}
    BY <2>2 DEF WeakTypeOK
  <2>4. Points(t, b)
    BY <2>2, <2>3 DEF Points
  <2> QED
    BY <1>3, <2>1, <2>4
<1>8. CASE ReadDone(t)
  <2>1. CASE KeepCpu(t, "have")
    <3>1. Fills(t)
      BY <1>8, <2>1 DEF ReadDone, Return, Fills, WeakTypeOK
    <3> QED
      BY <1>3, <3>1
  <2>2. CASE ~KeepCpu(t, "have")
    <3>1. Drops(t)
      BY <1>4, <1>8, <2>2 DEF ReadDone, Drops
    <3> QED
      BY <1>3, <3>1
  <2> QED
    BY <2>1, <2>2
<1>9. CASE ReadWoken(t)
  <2>1. CASE blockState[block[t]] = "ERROR"
    <3>1. Releases(t)
      BY <1>4, <1>9, <2>1 DEF ReadWoken, Releases
    <3> QED
      BY <1>3, <3>1
  <2>2. CASE blockState[block[t]] # "ERROR"
    <3>1. Moves(t)
      BY <1>9, <2>2 DEF ReadWoken, Moves, WeakTypeOK
    <3> QED
      BY <1>3, <3>1
  <2> QED
    BY <2>1, <2>2
<1>10. CASE Lock(t) \/ HaveForWrite(t)
  <2>1. Moves(t)
    BY <1>10 DEF Lock, HaveForWrite, blockVars, Moves, WeakTypeOK
  <2> QED
    BY <1>3, <2>1
<1>11. CASE Unlock(t) \/ Copy(t) \/ StoreFails(t)
  <2>1. Releases(t)
    BY <1>4, <1>11 DEF Unlock, Copy, StoreFails, Releases
  <2> QED
    BY <1>3, <2>1
<1>12. CASE WholeMiss(t)
  <2>1. PICK b \in Block : Unreachable(b) /\ NewBlock(t, "OK", b)
    BY <1>12, CreateFacts DEF WholeMiss
  <2>2. Creates(t, b, "OK")
    BY <1>12, <2>1 DEF WholeMiss, IoBlockHashFind, Creates, WeakTypeOK
  <2> QED
    BY <1>3, <2>2
<1>13. CASE WholeHit(t)
  <2> DEFINE b == blockTable[Align(request[t].off)]
  <2>1. b \in Block
    BY <1>1, <1>13 DEF WholeHit, IoBlockHashFind, WeakTypeOK
  <2>2. Points(t, b)
    BY <1>13 DEF WholeHit, IoBlockHashFind, blockVars, Points, WeakTypeOK
  <2> QED
    BY <1>3, <2>1, <2>2
<1>14. CASE StoreWait(t)
  <2>1. Moves(t)
    BY <1>2, <1>14 DEF StoreWait, Moves, WeakTypeOK
  <2> QED
    BY <1>3, <2>1
<1>15. CASE Store(t)
  BY <1>3, <1>15
<1>16. CASE WriteDone(t)
  <2>1. Written(t) \/ Drops(t)
    BY <1>4, <1>16 DEF WriteDone, WriteFailed, Written, Drops
  <2> QED
    BY <1>3, <2>1
<1> QED
  BY <1>5, <1>6, <1>7, <1>8, <1>9, <1>10, <1>11, <1>12, <1>13, <1>14, <1>15, <1>16 DEF Step

-----------------------------------------------------------------------------
(* The reference counts                                                    *)
LEMMA HoldersFinite ==
  ASSUME NEW b
  PROVE  /\ IsFiniteSet(Holders(b)) /\ Cardinality(Holders(b)) \in Nat
         /\ Cardinality(Holders(b)) <= Cardinality(Thread)
         /\ Cardinality(Holders(b)) = 0 <=> Holders(b) = {}
<1>1. Holders(b) \in SUBSET Thread /\ IsFiniteSet(Thread)
  BY BlockAssumption DEF Holders
<1>2. IsFiniteSet(Holders(b)) /\ Cardinality(Holders(b)) <= Cardinality(Thread)
  BY <1>1, FS_Subset
<1> QED
  BY <1>2, FS_CardinalityType, FS_EmptySet

(* The holders of a block after a step of t                                *)
LEMMA HoldersChange ==
  ASSUME NEW t \in Thread, OnlyThread(t), NEW b
  PROVE  /\ (block[t] = b <=> block'[t] = b) => Holders(b)' = Holders(b)
         /\ block[t] # b /\ block'[t] = b =>
              Cardinality(Holders(b)') = Cardinality(Holders(b)) + 1
         /\ block[t] = b /\ block'[t] # b =>
              /\ Cardinality(Holders(b)') = Cardinality(Holders(b)) - 1
              /\ Cardinality(Holders(b)) >= 1
<1>1. IsFiniteSet(Holders(b)) /\ Cardinality(Holders(b)) \in Nat
      /\ (Cardinality(Holders(b)) = 0 <=> Holders(b) = {})
  BY HoldersFinite
<1>2. (block[t] = b <=> block'[t] = b) => Holders(b)' = Holders(b)
  BY DEF OnlyThread, Holders
<1>3. ASSUME block[t] # b, block'[t] = b
      PROVE  Cardinality(Holders(b)') = Cardinality(Holders(b)) + 1
  <2>1. Holders(b)' = Holders(b) \cup {t} /\ t \notin Holders(b)
    BY <1>3 DEF OnlyThread, Holders
  <2> QED
    BY <1>1, <2>1, FS_AddElement
<1>4. ASSUME block[t] = b, block'[t] # b
      PROVE  /\ Cardinality(Holders(b)') = Cardinality(Holders(b)) - 1
             /\ Cardinality(Holders(b)) >= 1
  <2>1. Holders(b)' = Holders(b) \ {t} /\ t \in Holders(b)
    BY <1>4, SMT DEF OnlyThread, Holders
  <2>2. Cardinality(Holders(b)') = Cardinality(Holders(b)) - 1
    BY <1>1, <2>1, FS_RemoveElement
  <2>3. Holders(b) # {}
    BY <2>1
  <2> QED
    BY <1>1, <2>2, <2>3, SMT
<1> QED
  BY <1>2, <1>3, <1>4

(* A block that t neither had nor gets, and a count that does not change   *)
LEMMA CountKept ==
  ASSUME NEW t \in Thread, OnlyThread(t), NEW b \in Block, CountOK(b),
         block[t] = b <=> block'[t] = b, refCount'[b] = refCount[b],
         UNCHANGED borrowed, blockState'[b] = "ERROR" => blockState[b] = "ERROR"
  PROVE  CountOK(b)'
<1>1. Holders(b)' = Holders(b)
  BY HoldersChange
<1> QED
  BY <1>1 DEF CountOK

(* IoBlockCacheUnlock gives back the reference of t, and what it frees no  *)
(* other thread uses as long as each thread took a reference.              *)
LEMMA UnlockCount ==
  ASSUME WeakTypeOK, NEW t \in Thread, OnlyThread(t), \A b \in Block : CountOK(b),
         block[t] \in Block, block'[t] = NoBlock, NEW s, IoBlockCacheUnlock(t, s),
         UNCHANGED borrowed
  PROVE  (\A b \in Block : CountOK(b)') /\ (~borrowed' => ~corrupt')
<1> PICK b \in Block : b = block[t]
  OBVIOUS
<1>1. /\ Cardinality(Holders(b)') = Cardinality(Holders(b)) - 1
      /\ Cardinality(Holders(b)) >= 1 /\ Cardinality(Holders(b)) \in Nat
      /\ Cardinality(Holders(b)') \in Nat
      /\ Cardinality(Holders(b)') = 0 <=> Holders(b)' = {}
  <2>1. block'[t] # b
    BY BlockAssumption
  <2>2. /\ Cardinality(Holders(b)') \in Nat
        /\ Cardinality(Holders(b)') = 0 <=> Holders(b)' = {}
    <3>1. Holders(b)' \in SUBSET Thread
      BY DEF Holders
    <3>2. IsFiniteSet(Holders(b)')
      BY <3>1, FS_Subset, BlockAssumption
    <3> QED
      BY <3>2, FS_CardinalityType, FS_EmptySet
  <2> QED
    BY <2>1, <2>2, HoldersChange, HoldersFinite
<1>2. /\ refCount[b] \in Nat /\ CountOK(b)
      /\ refCount'[b] = IF refCount[b] > 0 THEN refCount[b] - 1 ELSE refCount[b]
      /\ blockState'[b] = IF s = "ERROR" /\ refCount[b] = 1 THEN "FREE" ELSE s
  BY DEF WeakTypeOK, IoBlockCacheUnlock
<1>3. CountOK(b)'
  <2>1. refCount'[b] <= Cardinality(Holders(b)')
    BY <1>1, <1>2, SMT DEF CountOK
  <2>2. ASSUME ~borrowed' PROVE refCount'[b] = Cardinality(Holders(b)')
    BY <1>1, <1>2, <2>2, SMT DEF CountOK
  <2>3. ASSUME ~borrowed', blockState'[b] = "ERROR" PROVE Holders(b)' # {}
    <3>1. refCount[b] # 1
      BY <1>2, <2>3
    <3>2. refCount[b] = Cardinality(Holders(b))
      BY <1>2, <2>3 DEF CountOK
    <3> QED
      BY <1>1, <3>1, <3>2, SMT
  <2> QED
    BY <2>1, <2>2, <2>3 DEF CountOK
<1>4. ASSUME NEW c \in Block, c # b PROVE CountOK(c)'
  <2>1. block'[t] # c
    BY BlockAssumption
  <2>2. refCount'[c] = refCount[c] /\ blockState'[c] = blockState[c]
    BY <1>4 DEF WeakTypeOK, IoBlockCacheUnlock
  <2>3. Holders(c)' = Holders(c)
    BY <1>4, <2>1, HoldersChange
  <2> QED
    BY <2>2, <2>3 DEF CountOK
<1>5. ASSUME ~borrowed' PROVE ~corrupt'
  <2>1. SUFFICES ASSUME refCount[b] = 1, NEW u \in Thread \ {t}, block[u] = b PROVE FALSE
    BY DEF IoBlockCacheUnlock
  <2>2. Cardinality(Holders(b)) = 1
    BY <1>2, <1>5, <2>1 DEF CountOK
  <2>3. Cardinality(Holders(b)') = 0
    BY <1>1, <2>2, SMT
  <2>4. Holders(b)' = {}
    BY <1>1, <2>3
  <2>5. u \in Holders(b)'
    BY <2>1 DEF OnlyThread, Holders
  <2> QED
    BY <2>4, <2>5
<1> QED
  BY <1>3, <1>4, <1>5

(* Every step keeps the counts.                                            *)
LEMMA StepCount ==
  ASSUME WeakTypeOK, NEW t \in Thread, ThreadOK(t), Call(t) \/ Step(t), ~corrupt,
         \A b \in Block : CountOK(b)
  PROVE  (\A b \in Block : CountOK(b)') /\ (~borrowed' => ~corrupt')
<1>1. OnlyThread(t)
  BY StepType
<1>2. pc[t] \notin {"idle", "next"} => block[t] \in Block
  BY DEF ThreadOK, WeakTypeOK
<1>3. ASSUME UNCHANGED <<refCount, block, borrowed, corrupt>>,
             \A b \in Block : blockState'[b] = "ERROR" => blockState[b] = "ERROR"
      PROVE  (\A b \in Block : CountOK(b)') /\ (~borrowed' => ~corrupt')
  <2>1. ASSUME NEW b \in Block PROVE CountOK(b)'
    BY <1>1, <1>3, CountKept
  <2> QED
    BY <1>3, <2>1
<1>4. CASE Moves(t)
  BY <1>3, <1>4 DEF Moves
<1>5. CASE Releases(t)
  BY <1>1, <1>2, <1>5, UnlockCount DEF Releases
<1>6. CASE Fills(t)
  <2>1. \A b \in Block : blockState'[b] = "ERROR" => blockState[b] = "ERROR"
    BY <1>6 DEF Fills, WeakTypeOK
  <2> QED
    BY <1>3, <1>6, <2>1 DEF Fills
<1>7. CASE Store(t)
  <2>1. \A b \in Block : blockState'[b] = "ERROR" => blockState[b] = "ERROR"
    BY <1>7 DEF Store, WeakTypeOK
  <2> QED
    BY <1>3, <1>7, <2>1 DEF Store
<1>8. CASE Written(t)
  BY <1>1, <1>2, <1>8, UnlockCount DEF Written
<1>9. CASE Drops(t)
  BY <1>1, <1>2, <1>9, UnlockCount DEF Drops, Transfers
<1>10. ASSUME NEW c \in Block, block' = [block EXCEPT ![t] = c], block[t] = NoBlock,
              NEW b \in Block, b # c, refCount'[b] = refCount[b],
              borrowed' \/ UNCHANGED borrowed, blockState'[b] = blockState[b]
       PROVE  CountOK(b)'
  <2>1. block[t] # b /\ block'[t] # b
    BY <1>10, BlockAssumption DEF WeakTypeOK
  <2>2. Holders(b)' = Holders(b)
    BY <1>1, <2>1, HoldersChange
  <2> QED
    BY <1>10, <2>2, SMT DEF CountOK
<1>11. ASSUME NEW c \in Block, block' = [block EXCEPT ![t] = c], block[t] = NoBlock
       PROVE  Cardinality(Holders(c)') = Cardinality(Holders(c)) + 1
              /\ Holders(c)' # {} /\ Cardinality(Holders(c)) \in Nat
  <2>1. block[t] # c /\ block'[t] = c
    BY <1>11, BlockAssumption DEF WeakTypeOK
  <2>2. t \in Holders(c)'
    BY <2>1 DEF Holders
  <2> QED
    BY <1>1, <2>1, <2>2, HoldersChange, HoldersFinite
<1>12. ASSUME NEW c \in Block, Points(t, c)
       PROVE  (\A b \in Block : CountOK(b)') /\ (~borrowed' => ~corrupt')
  <2>1. block[t] = NoBlock /\ block' = [block EXCEPT ![t] = c]
    BY <1>12 DEF Points, ThreadOK
  <2>2. refCount[c] \in Nat /\ CountOK(c)
    BY DEF WeakTypeOK
  <2>3. \/ refCount'[c] = refCount[c] + 1 /\ UNCHANGED borrowed
        \/ refCount'[c] = refCount[c] /\ borrowed'
    BY <1>12 DEF Points, WeakTypeOK
  <2>4. Cardinality(Holders(c)') = Cardinality(Holders(c)) + 1
        /\ Holders(c)' # {} /\ Cardinality(Holders(c)) \in Nat
    BY <1>11, <2>1
  <2>5. CountOK(c)'
    BY <2>2, <2>3, <2>4, SMT DEF CountOK
  <2>6. ASSUME NEW b \in Block, b # c PROVE CountOK(b)'
    <3>1. refCount'[b] = refCount[b] /\ blockState'[b] = blockState[b]
          /\ (borrowed' \/ UNCHANGED borrowed)
      BY <1>12, <2>6 DEF Points, WeakTypeOK
    <3> QED
      BY <1>10, <2>1, <2>6, <3>1
  <2> QED
    BY <1>12, <2>5, <2>6 DEF Points
<1>13. ASSUME NEW c \in Block, NEW s \in {"OK", "READING"}, Creates(t, c, s)
       PROVE  (\A b \in Block : CountOK(b)') /\ (~borrowed' => ~corrupt')
  <2>1. block[t] = NoBlock /\ block' = [block EXCEPT ![t] = c]
    BY <1>13 DEF Creates, NewBlock, ThreadOK
  <2>2. Holders(c) = {}
    BY <1>13 DEF Creates, Unreachable, Range, Holders, WeakTypeOK
  <2>3. Cardinality(Holders(c)') = Cardinality(Holders(c)) + 1 /\ Holders(c)' # {}
    BY <1>11, <2>1
  <2>4. Cardinality(Holders(c)) = 0
    BY <2>2, FS_EmptySet
  <2>5. Cardinality(Holders(c)') = 1 /\ Holders(c)' # {}
    BY <2>3, <2>4, SMT
  <2>6. refCount'[c] = 1
    BY <1>13 DEF Creates, NewBlock, WeakTypeOK
  <2>7. CountOK(c)'
    BY <2>5, <2>6, SMT DEF CountOK
  <2>8. ASSUME NEW b \in Block, b # c PROVE CountOK(b)'
    <3>1. refCount'[b] = refCount[b] /\ blockState'[b] = blockState[b] /\ UNCHANGED borrowed
      BY <1>13, <2>8 DEF Creates, NewBlock, WeakTypeOK
    <3> QED
      BY <1>10, <2>1, <2>8, <3>1
  <2> QED
    BY <1>13, <2>7, <2>8 DEF Creates
<1> QED
  BY <1>4, <1>5, <1>6, <1>7, <1>8, <1>9, <1>12, <1>13, StepEffect

-----------------------------------------------------------------------------
(* Pointers, transfers and the table                                       *)
LEMMA AlignOK ==
  ASSUME NEW t \in Thread, ThreadOK(t), pc[t] # "idle"
  PROVE  Align(request[t].off) \in BlockOff
BY FirstBlockFacts, AlignType DEF ThreadOK

(* A move changes nothing.                                                 *)
LEMMA MovesCache ==
  ASSUME WeakTypeOK, WeakTypeOK', \A u \in Thread : ThreadOK(u), CacheInv, ~corrupt',
         NEW t \in Thread, OnlyThread(t), Moves(t)
  PROVE  CacheInv'
<1> USE DEF Moves, CacheInv, Live, Busy, Transfers
<1>1. ASSUME NEW u \in Thread PROVE PointerOK(u)'
  <2>1. block'[u] = block[u] /\ (block[u] # NoBlock => request'[u] = request[u])
    BY DEF OnlyThread
  <2>2. pc'[u] \in {"reading", "writing"} => pc'[u] = pc[u]
    BY DEF OnlyThread
  <2>3. PointerOK(u) /\ UNCHANGED <<blockState, blockTable>>
    OBVIOUS
  <2> QED
    BY <2>1, <2>2, <2>3 DEF PointerOK, Align
<1>2. TransferOnce'
  BY DEF TransferOnce, OnlyThread
<1>3. ASSUME NEW b \in Block PROVE BlockOK(b)'
  <2>1. waitingThreads'[b] # {} => waitingThreads[b] # {} \/ Busy(b)
    BY DEF Sleep, WeakTypeOK
  <2>2. \A u \in Thread : block'[u] = block[u] /\ (Transfers(u) => pc'[u] = pc[u])
    BY DEF OnlyThread
  <2>3. BlockOK(b) /\ UNCHANGED <<blockState, blockTable>>
    OBVIOUS
  <2> QED
    BY <2>1, <2>2, <2>3, SMT DEF BlockOK
<1> QED
  BY <1>1, <1>2, <1>3 DEF TableOnce

(* A block that is found is not dropped.                                   *)
LEMMA PointsCache ==
  ASSUME WeakTypeOK, WeakTypeOK', \A u \in Thread : ThreadOK(u), CacheInv, ~corrupt',
         NEW t \in Thread, OnlyThread(t), NEW c \in Block, Points(t, c)
  PROVE  CacheInv'
<1> USE DEF Points, CacheInv, Live, Busy, Transfers
<1>1. /\ block[t] = NoBlock /\ block'[t] = c /\ pc[t] = "next"
      /\ Align(request[t].off) \in BlockOff
      /\ \A u \in Thread \ {t} : block'[u] = block[u] /\ pc'[u] = pc[u]
      /\ ~Transfers(t)'
      /\ UNCHANGED <<blockState, blockTable, request>>
  BY AlignOK, SMT DEF ThreadOK, WeakTypeOK, OnlyThread
<1>2. ASSUME NEW u \in Thread PROVE PointerOK(u)'
  <2>1. CASE u = t
    <3>1. BlockOK(c)
      OBVIOUS
    <3>2. blockState[c] \in {"OK", "READING", "WRITING"}
      BY <1>1, <3>1 DEF BlockOK
    <3> QED
      BY <1>1, <2>1, <3>2 DEF PointerOK, Align
  <2>2. CASE u # t
    <3>1. PointerOK(u)
      OBVIOUS
    <3> QED
      BY <1>1, <2>2, <3>1 DEF PointerOK, Align
  <2> QED
    BY <2>1, <2>2
<1>3. TransferOnce'
  BY <1>1, SMT DEF TransferOnce
<1>4. ASSUME NEW b \in Block PROVE BlockOK(b)'
  <2>1. waitingThreads'[b] # {} => waitingThreads[b] # {} \/ Busy(b)
    BY SMT DEF Sleep, WeakTypeOK
  <2>2. BlockOK(b) /\ b # NoBlock
    BY BlockAssumption
  <2> QED
    BY <1>1, <2>1, <2>2, SMT DEF BlockOK
<1> QED
  BY <1>1, <1>2, <1>3, <1>4, SMTT(20) DEF TableOnce

(* The new block is found where none was.                                  *)
LEMMA CreatesCache ==
  ASSUME WeakTypeOK, WeakTypeOK', \A u \in Thread : ThreadOK(u), CacheInv, ~corrupt',
         NEW t \in Thread, OnlyThread(t), NEW c \in Block, NEW s, Creates(t, c, s)
  PROVE  CacheInv'
<1> USE DEF Creates, NewBlock, CacheInv, Live, Busy, Transfers
<1> DEFINE o == Align(request[t].off)
<1>1. /\ block[t] = NoBlock /\ block'[t] = c /\ c # NoBlock
      /\ \A u \in Thread \ {t} : block'[u] = block[u] /\ pc'[u] = pc[u] /\ block[u] # c
      /\ \/ s = "READING" /\ pc'[t] = "reading"
         \/ s = "OK" /\ pc'[t] = "store"
      /\ request' = request
  BY BlockAssumption, SMT DEF ThreadOK, WeakTypeOK, OnlyThread, Unreachable, Range
<1>2. /\ o \in BlockOff /\ blockTable[o] = NoBlock /\ blockTable'[o] = c
      /\ \A p \in BlockOff : blockTable[p] # c
      /\ \A p \in BlockOff \ {o} : blockTable'[p] = blockTable[p]
  BY AlignOK, SMT DEF ThreadOK, WeakTypeOK, Unreachable, Range
<1>3. /\ blockState'[c] = s /\ waitingThreads'[c] = {}
      /\ \A b \in Block \ {c} : /\ blockState'[b] = blockState[b]
                                /\ waitingThreads'[b] = waitingThreads[b]
  BY SMT DEF WeakTypeOK
<1> HIDE DEF o, Creates, NewBlock
<1>4. ASSUME NEW u \in Thread PROVE PointerOK(u)'
  <2>1. CASE u = t
    <3>1. Align(request'[t].off) = o
      BY <1>1 DEF o
    <3> QED
      BY <1>1, <1>2, <1>3, <2>1, <3>1 DEF PointerOK, Align
  <2>2. CASE u # t
    <3>1. PointerOK(u) /\ (block[u] # NoBlock => block[u] \in Block)
      BY DEF WeakTypeOK
    <3>2. block[u] # NoBlock => Align(request[u].off) \in BlockOff
      BY AlignOK DEF ThreadOK
    <3>3. block[u] # NoBlock /\ Live(block[u])' => blockTable'[Align(request[u].off)] = block[u]
      BY <1>1, <1>2, <1>3, <2>2, <3>1, <3>2, SMTT(20) DEF PointerOK
    <3> QED
      BY <1>1, <1>3, <2>2, <3>1, <3>3, SMTT(20) DEF PointerOK, Align
  <2> QED
    BY <2>1, <2>2
<1>5. TransferOnce'
  BY <1>1 DEF TransferOnce
<1>6. ASSUME NEW b \in Block PROVE BlockOK(b)'
  <2>1. CASE b = c
    BY <1>1, <1>2, <1>3, <2>1 DEF BlockOK
  <2>2. CASE b # c
    <3>1. BlockOK(b) /\ b # NoBlock
      BY BlockAssumption
    <3>2. (\E p \in BlockOff : blockTable'[p] = b) <=> \E p \in BlockOff : blockTable[p] = b
      BY <1>2, <2>2, <3>1
    <3>3. \A u \in Thread : block[u] = b => block'[u] = b /\ pc'[u] = pc[u]
      BY <1>1, <3>1
    <3> QED
      BY <1>3, <2>2, <3>1, <3>2, <3>3, SMT DEF BlockOK
  <2> QED
    BY <2>1, <2>2
<1>7. TableOnce'
  BY <1>1, <1>2, SMT DEF TableOnce
<1> QED
  BY <1>4, <1>5, <1>6, <1>7

(* A block that is freed is one that was dropped.                          *)
LEMMA ReleasesCache ==
  ASSUME WeakTypeOK, WeakTypeOK', \A u \in Thread : ThreadOK(u), CacheInv, ~corrupt',
         NEW t \in Thread, OnlyThread(t), Releases(t)
  PROVE  CacheInv'
<1> USE DEF Releases, CacheInv, Live, Busy, Transfers
<1>1. PICK c \in Block : c = block[t]
  BY DEF ThreadOK, WeakTypeOK
<1>2. /\ block'[t] = NoBlock /\ ~Transfers(t) /\ ~Transfers(t)'
      /\ \A u \in Thread \ {t} : /\ block'[u] = block[u] /\ pc'[u] = pc[u]
                                 /\ request'[u] = request[u]
      /\ UNCHANGED <<blockTable, waitingThreads>>
  BY DEF OnlyThread
<1>3. /\ \A b \in Block \ {c} : blockState'[b] = blockState[b]
      /\ \/ blockState'[c] = blockState[c]
         \/ /\ blockState[c] = "ERROR" /\ blockState'[c] = "FREE"
            /\ \A u \in Thread \ {t} : block[u] # c
  BY <1>1 DEF IoBlockCacheUnlock, WeakTypeOK
<1> HIDE DEF Releases
<1>4. ASSUME NEW u \in Thread PROVE PointerOK(u)'
  <2>1. PointerOK(u) /\ (block[u] # NoBlock => block[u] \in Block)
    BY DEF WeakTypeOK
  <2> QED
    BY <1>2, <1>3, <2>1, SMTT(20) DEF PointerOK, Align
<1>5. TransferOnce'
  BY <1>2 DEF TransferOnce
<1>6. ASSUME NEW b \in Block PROVE BlockOK(b)'
  <2>1. BlockOK(b) /\ b # NoBlock
    BY BlockAssumption
  <2> QED
    BY <1>2, <1>3, <2>1, SMT DEF BlockOK
<1> QED
  BY <1>2, <1>4, <1>5, <1>6 DEF TableOnce

(* The end of a read is that of the only transfer of the block.            *)
LEMMA FillsCache ==
  ASSUME WeakTypeOK, WeakTypeOK', \A u \in Thread : ThreadOK(u), CacheInv, ~corrupt',
         NEW t \in Thread, OnlyThread(t), Fills(t)
  PROVE  CacheInv'
<1> USE DEF CacheInv, Live, Busy, Transfers
<1>1. PICK c \in Block : c = block[t]
  BY DEF Fills, ThreadOK, WeakTypeOK, Transfers
<1>2. /\ Transfers(t) /\ ~Transfers(t)'
      /\ block'[t] = c \/ block'[t] = NoBlock
      /\ block'[t] = c => request'[t] = request[t]
      /\ \A u \in Thread \ {t} : /\ block'[u] = block[u] /\ pc'[u] = pc[u]
                                 /\ request'[u] = request[u]
                                 /\ block[u] = c => ~Transfers(u)
  BY <1>1, BlockAssumption DEF Fills, OnlyThread, TransferOnce
<1>3. /\ \A b \in Block \ {c} : /\ blockState'[b] = blockState[b]
                                /\ waitingThreads'[b] = waitingThreads[b]
      /\ waitingThreads'[c] = {}
  BY <1>1, SMT DEF Fills, WakeAll, IoBlockCacheUnlock, WeakTypeOK
<1>4. blockState'[c] = "OK" /\ UNCHANGED blockTable /\ Live(c)
  BY <1>1 DEF Fills, IoBlockCacheUnlock, WeakTypeOK, PointerOK, ThreadOK
<1>5. ASSUME NEW u \in Thread PROVE PointerOK(u)'
  <2>1. PointerOK(u) /\ (block[u] # NoBlock => block[u] \in Block)
    BY DEF WeakTypeOK
  <2> QED
    BY <1>1, <1>2, <1>3, <1>4, <2>1, SMTT(20) DEF PointerOK, Align
<1>6. TransferOnce'
  BY <1>2 DEF TransferOnce
<1>7. ASSUME NEW b \in Block PROVE BlockOK(b)'
  <2>1. BlockOK(b) /\ b # NoBlock
    BY BlockAssumption
  <2> QED
    BY <1>1, <1>2, <1>3, <1>4, <2>1, SMT DEF BlockOK
<1> QED
  BY <1>4, <1>5, <1>6, <1>7 DEF TableOnce

(* So is the end of a write.                                               *)
LEMMA WrittenCache ==
  ASSUME WeakTypeOK, WeakTypeOK', \A u \in Thread : ThreadOK(u), CacheInv, ~corrupt',
         NEW t \in Thread, OnlyThread(t), Written(t)
  PROVE  CacheInv'
<1> USE DEF CacheInv, Live, Busy, Transfers
<1>1. PICK c \in Block : c = block[t]
  BY DEF Written, ThreadOK, WeakTypeOK, Transfers
<1>2. /\ Transfers(t) /\ ~Transfers(t)'
      /\ block'[t] = c \/ block'[t] = NoBlock
      /\ block'[t] = c => request'[t] = request[t]
      /\ \A u \in Thread \ {t} : /\ block'[u] = block[u] /\ pc'[u] = pc[u]
                                 /\ request'[u] = request[u]
                                 /\ block[u] = c => ~Transfers(u)
  BY <1>1, BlockAssumption DEF Written, OnlyThread, TransferOnce
<1>3. /\ \A b \in Block \ {c} : /\ blockState'[b] = blockState[b]
                                /\ waitingThreads'[b] = waitingThreads[b]
      /\ waitingThreads'[c] = {}
  BY <1>1, SMT DEF Written, WakeAll, IoBlockCacheUnlock, WeakTypeOK
<1>4. blockState'[c] = "OK" /\ UNCHANGED blockTable /\ Live(c)
  BY <1>1 DEF Written, IoBlockCacheUnlock, WeakTypeOK, PointerOK, ThreadOK
<1>5. ASSUME NEW u \in Thread PROVE PointerOK(u)'
  <2>1. PointerOK(u) /\ (block[u] # NoBlock => block[u] \in Block)
    BY DEF WeakTypeOK
  <2> QED
    BY <1>1, <1>2, <1>3, <1>4, <2>1, SMTT(20) DEF PointerOK, Align
<1>6. TransferOnce'
  BY <1>2 DEF TransferOnce
<1>7. ASSUME NEW b \in Block PROVE BlockOK(b)'
  <2>1. BlockOK(b) /\ b # NoBlock
    BY BlockAssumption
  <2> QED
    BY <1>1, <1>2, <1>3, <1>4, <2>1, SMT DEF BlockOK
<1> QED
  BY <1>4, <1>5, <1>6, <1>7 DEF TableOnce

(* A block whose transfer fails cannot be found any more.                  *)
LEMMA DropsCache ==
  ASSUME WeakTypeOK, WeakTypeOK', \A u \in Thread : ThreadOK(u), CacheInv, ~corrupt',
         NEW t \in Thread, OnlyThread(t), Drops(t)
  PROVE  CacheInv'
<1> USE DEF CacheInv, Live, Busy, Transfers
<1>1. PICK c \in Block : c = block[t]
  BY DEF Drops, ThreadOK, WeakTypeOK, Transfers
<1>2. /\ Transfers(t) /\ ~Transfers(t)'
      /\ block'[t] = c \/ block'[t] = NoBlock
      /\ block'[t] = c => request'[t] = request[t]
      /\ \A u \in Thread \ {t} : /\ block'[u] = block[u] /\ pc'[u] = pc[u]
                                 /\ request'[u] = request[u]
                                 /\ block[u] = c => ~Transfers(u)
  BY <1>1, BlockAssumption DEF Drops, OnlyThread, TransferOnce
<1>3. /\ \A b \in Block \ {c} : /\ blockState'[b] = blockState[b]
                                /\ waitingThreads'[b] = waitingThreads[b]
      /\ waitingThreads'[c] = {}
  BY <1>1 DEF Drops, WakeAll, IoBlockCacheUnlock, WeakTypeOK
<1>4. /\ blockState'[c] \in {"ERROR", "FREE"}
      /\ blockState'[c] = "FREE" => \A u \in Thread \ {t} : block[u] # c
      /\ block'[t] = NoBlock
      /\ \A o \in BlockOff :
           blockTable'[o] = IF blockTable[o] = c THEN NoBlock ELSE blockTable[o]
  BY <1>1 DEF Drops, IoBlockCacheUnlock, HashTableRemoveItem, WeakTypeOK
<1>5. ASSUME NEW u \in Thread PROVE PointerOK(u)'
  <2>1. PointerOK(u) /\ (block[u] # NoBlock => block[u] \in Block)
    BY DEF WeakTypeOK
  <2>2. block[u] # NoBlock => Align(request[u].off) \in BlockOff
    BY AlignOK DEF ThreadOK
  <2>3. CASE u = t
    BY <1>4, <2>3 DEF PointerOK
  <2>4. CASE u # t /\ block[u] = c
    BY <1>2, <1>4, <2>4, SMT DEF PointerOK
  <2>5. CASE u # t /\ block[u] # c
    BY <1>2, <1>3, <1>4, <2>1, <2>2, <2>5, SMTT(20) DEF PointerOK, Align
  <2> QED
    BY <2>3, <2>4, <2>5
<1>6. TransferOnce'
  BY <1>2 DEF TransferOnce
<1>7. ASSUME NEW b \in Block PROVE BlockOK(b)'
  <2>1. BlockOK(b) /\ b # NoBlock
    BY BlockAssumption
  <2>2. CASE b = c
    BY <1>3, <1>4, <2>1, <2>2, SMTT(20) DEF BlockOK
  <2>3. CASE b # c
    <3>1. (\E o \in BlockOff : blockTable'[o] = b) <=> \E o \in BlockOff : blockTable[o] = b
      BY <1>4, <2>1, <2>3
    <3>2. \A u \in Thread : block[u] = b => block'[u] = b /\ pc'[u] = pc[u]
      BY <1>1, <1>2, <2>3
    <3> QED
      BY <1>3, <2>1, <2>3, <3>1, <3>2, SMTT(20) DEF BlockOK
  <2> QED
    BY <2>2, <2>3
<1>8. TableOnce'
  BY <1>4 DEF TableOnce
<1> QED
  BY <1>5, <1>6, <1>7, <1>8

(* A block is written by one thread at a time.                             *)
LEMMA StoreCache ==
  ASSUME WeakTypeOK, WeakTypeOK', \A u \in Thread : ThreadOK(u), CacheInv, ~corrupt',
         NEW t \in Thread, OnlyThread(t), Store(t)
  PROVE  CacheInv'
<1> USE DEF CacheInv, Live, Busy, Transfers
<1>1. PICK c \in Block : c = block[t]
  BY DEF Store, At, ThreadOK, WeakTypeOK
<1>2. blockState[c] = "OK"
  <2>1. PointerOK(t) /\ c # NoBlock /\ blockState[c] \in IoBlockState \cup {"FREE"}
    BY BlockAssumption DEF WeakTypeOK
  <2> QED
    BY <1>1, <2>1 DEF Store, PointerOK, IoBlockState
<1>3. /\ pc'[t] = "writing" /\ blockState'[c] = "WRITING"
      /\ \A b \in Block \ {c} : blockState'[b] = blockState[b]
      /\ UNCHANGED <<block, request, blockTable, waitingThreads>>
  BY <1>1, SMT DEF Store, LeaveCpu, WeakTypeOK
<1>4. \A u \in Thread \ {t} : /\ pc'[u] = pc[u]
                              /\ block[u] = c => ~Transfers(u)
  BY <1>2, BlockAssumption, SMT DEF OnlyThread, PointerOK
<1>5. ASSUME NEW u \in Thread PROVE PointerOK(u)'
  <2>1. PointerOK(u) /\ (block[u] # NoBlock => block[u] \in Block)
    BY DEF WeakTypeOK
  <2> QED
    BY <1>1, <1>2, <1>3, <1>4, <2>1 DEF PointerOK, Align
<1>6. TransferOnce'
  BY <1>1, <1>3, <1>4 DEF TransferOnce
<1>7. ASSUME NEW b \in Block PROVE BlockOK(b)'
  <2>1. BlockOK(b)
    OBVIOUS
  <2>2. CASE b = c
    BY <1>1, <1>2, <1>3, <2>1, <2>2 DEF BlockOK
  <2>3. CASE b # c
    BY <1>1, <1>3, <1>4, <2>1, <2>3, SMTT(20) DEF BlockOK
  <2> QED
    BY <2>2, <2>3
<1> QED
  BY <1>3, <1>5, <1>6, <1>7 DEF TableOnce

-----------------------------------------------------------------------------
(* The contents of the blocks.  A write changes the cells of one block, as *)
(* far as 32 bits address the device.                                      *)
LEMMA DeviceWriteFacts ==
  ASSUME NEW t \in Thread, ThreadOK(t), pc[t] # "idle", DiskSize <= UIntRange, DeviceWrite(t),
         NEW p \in BlockOff, NEW i \in InBlock
  PROVE  disk'[p + i] = IF p = Align(request[t].off) /\ i \in InFirstBlock(t)
                        THEN request[t].val ELSE disk[p + i]
<1> DEFINE off == request[t].off
           o == Align(off)
           x == FirstCell(t)
           n == BlockLength(t)
<1>1. /\ off \in Cell /\ x \in InBlock /\ n \in Nat \ {0} /\ x + n <= BlockSize
      /\ BlockSize \in Nat \ {0} /\ DiskSize \in Nat
  BY FirstBlockFacts, BlockAssumption DEF ThreadOK
<1>2. o \in BlockOff /\ o + x = off
  BY <1>1, AlignType, AlignSmall DEF FirstCell
<1>3. p + i \in Cell
  BY BlockOnDevice
<1>4. disk'[p + i] = IF p + i \in off .. off + n - 1 THEN request[t].val ELSE disk[p + i]
  BY <1>3 DEF DeviceWrite
<1>5. InFirstBlock(t) = x .. x + n - 1
  BY DEF InFirstBlock
<1> HIDE DEF off, o, x, n
<1>6. /\ off \in Nat /\ o \in Nat /\ x \in Nat /\ p \in Nat /\ i \in Nat
      /\ p + i \in Nat
  BY <1>1, <1>2, SMT DEF BlockOff, Cell, InBlock
<1>7. CASE p = o
  BY <1>1, <1>2, <1>4, <1>5, <1>6, <1>7, SMTT(20) DEF o, off
<1>8. CASE p # o
  <2>1. SUFFICES ASSUME p + i \in off .. off + n - 1 PROVE FALSE
    BY <1>4, <1>8 DEF o, off
  <2> DEFINE j == p + i - o
  <2>2. j \in InBlock
    BY <1>1, <1>2, <1>6, <2>1, SMT DEF InBlock
  <2>3. o + j = p + i
    BY <1>6, SMT
  <2> HIDE DEF j
  <2> QED
    BY <1>2, <1>8, <2>2, <2>3, CellsApart
<1> QED
  BY <1>7, <1>8

(* While a block is fresh no other thread has the processor.               *)
LEMMA FreshOwner ==
  ASSUME NEW t \in Thread, cpu \in {t, NoThread}, NEW b, Fresh(b)
  PROVE  pc[t] = "store" /\ block[t] = b /\ WholeBlock(t)
BY BlockAssumption DEF Fresh

(* A block that a step leaves alone, with its part of the device           *)
LEMMA ContentsKept ==
  ASSUME NEW off \in BlockOff, ContentsOK(off), NEW b \in Block,
         blockTable[off] = b, blockTable'[off] = b, data'[b] = data[b],
         blockState'[b] = "OK" => blockState[b] = "OK" /\ ~Fresh(b),
         blockState'[b] = "WRITING" => blockState[b] = "WRITING",
         \A i \in InBlock : disk'[off + i] = disk[off + i],
         \A u \in Thread : block'[u] = b /\ pc'[u] = "writing" =>
           block[u] = b /\ pc[u] = "writing" /\ request'[u] = request[u]
  PROVE  ContentsOK(off)'
<1>1. ASSUME blockState'[b] = "OK" PROVE \A i \in InBlock : data'[b][i] = disk'[off + i]
  BY <1>1, SMT DEF ContentsOK
<1>2. ASSUME blockState'[b] = "WRITING", NEW u \in Thread, block'[u] = b, pc'[u] = "writing",
             NEW i \in InBlock
      PROVE  data'[b][i] = Changed(u, off, i)'
  <2>1. block[u] = b /\ pc[u] = "writing" /\ request'[u] = request[u]
    BY <1>2
  <2>2. data[b][i] = Changed(u, off, i)
    BY <1>2, <2>1 DEF ContentsOK
  <2>3. InFirstBlock(u)' = InFirstBlock(u)
    BY <2>1 DEF InFirstBlock, FirstCell, BlockLength
  <2>4. Changed(u, off, i)' = Changed(u, off, i)
    BY <2>1, <2>3 DEF Changed
  <2> QED
    BY <2>2, <2>4
<1> QED
  BY <1>1, <1>2, SMT DEF ContentsOK

(* A move changes nothing.                                                 *)
LEMMA MovesData ==
  ASSUME WeakTypeOK, WeakTypeOK', \A u \in Thread : ThreadOK(u), CacheInv,
         DiskSize <= UIntRange, NEW t \in Thread, OnlyThread(t), cpu \in {t, NoThread},
         \A off \in BlockOff : ContentsOK(off), Moves(t)
  PROVE  \A off \in BlockOff : ContentsOK(off)'
<1> SUFFICES ASSUME NEW off \in BlockOff, NEW b \in Block, blockTable'[off] = b
             PROVE  ContentsOK(off)'
  BY DEF ContentsOK

<1>1. blockState[b] = "OK" => ~Fresh(b)
  BY FreshOwner DEF Moves, Busy
<1>2. ASSUME NEW u \in Thread, pc'[u] = "writing"
      PROVE  u # t
  BY <1>2 DEF Moves, Transfers
<1> QED
  BY <1>1, <1>2, ContentsKept, SMTT(20) DEF Moves, OnlyThread

(* Neither does a pointer.                                                 *)
LEMMA PointsData ==
  ASSUME WeakTypeOK, WeakTypeOK', \A u \in Thread : ThreadOK(u), CacheInv,
         DiskSize <= UIntRange, NEW t \in Thread, OnlyThread(t), cpu \in {t, NoThread},
         \A off \in BlockOff : ContentsOK(off), NEW c \in Block, Points(t, c)
  PROVE  \A off \in BlockOff : ContentsOK(off)'
<1> SUFFICES ASSUME NEW off \in BlockOff, NEW b \in Block, blockTable'[off] = b
             PROVE  ContentsOK(off)'
  BY DEF ContentsOK

<1>1. ~Fresh(b)
  BY FreshOwner DEF Points
<1>2. ASSUME NEW u \in Thread, pc'[u] = "writing"
      PROVE  u # t
  BY <1>2 DEF Points, Transfers
<1> QED
  BY <1>1, <1>2, ContentsKept, SMTT(20) DEF Points, OnlyThread

(* A new block is fresh or being read.                                     *)
LEMMA CreatesData ==
  ASSUME WeakTypeOK, WeakTypeOK', \A u \in Thread : ThreadOK(u), CacheInv,
         DiskSize <= UIntRange, NEW t \in Thread, OnlyThread(t), cpu \in {t, NoThread},
         \A off \in BlockOff : ContentsOK(off), NEW c \in Block, NEW s, Creates(t, c, s)
  PROVE  \A off \in BlockOff : ContentsOK(off)'
<1> SUFFICES ASSUME NEW off \in BlockOff, NEW b \in Block, blockTable'[off] = b
             PROVE  ContentsOK(off)'
  BY DEF ContentsOK

<1> DEFINE o == Align(request[t].off)
<1>1. /\ o \in BlockOff /\ blockTable'[o] = c
      /\ \A q \in BlockOff : blockTable[q] # c
      /\ \A q \in BlockOff \ {o} : blockTable'[q] = blockTable[q]
  BY AlignOK, SMTT(20) DEF Creates, NewBlock, ThreadOK, WeakTypeOK, Unreachable, Range
<1>2. CASE off = o
  <2>1. b = c /\ blockState'[c] = s /\ s \in {"OK", "READING"}
    BY <1>1, <1>2 DEF Creates, NewBlock, WeakTypeOK
  <2>2. s = "OK" => Fresh(c)'
    <3>1. SUFFICES ASSUME s = "OK" PROVE Fresh(c)'
      OBVIOUS
    <3>2. /\ pc'[t] = "store" /\ cpu' = t /\ WholeBlock(t) /\ UNCHANGED request
          /\ block'[t] = c
      BY <3>1, SMT DEF Creates, NewBlock, WeakTypeOK
    <3>3. WholeBlock(t)'
      BY <3>2 DEF WholeBlock, BlockLength, FirstCell
    <3> QED
      BY <3>2, <3>3 DEF Fresh
  <2> QED
    BY <2>1, <2>2 DEF ContentsOK
<1>3. CASE off # o
  <2>1. blockTable[off] = b /\ b # c
    BY <1>1, <1>3
  <2>2. ~Fresh(b)
    BY FreshOwner DEF Creates
  <2>3. data'[b] = data[b] /\ blockState'[b] = blockState[b] /\ UNCHANGED <<disk, request>>
    BY <2>1, SMT DEF Creates, NewBlock, WeakTypeOK
  <2>4. ASSUME NEW u \in Thread, block'[u] = b PROVE u # t
    BY <2>1, <2>4, SMTT(20) DEF Creates, NewBlock, WeakTypeOK
  <2> HIDE DEF o
  <2> QED
    BY <2>1, <2>2, <2>3, <2>4, ContentsKept, SMT DEF OnlyThread
<1> QED
  BY <1>2, <1>3

(* A block that is given back stays as it is.                              *)
LEMMA ReleasesData ==
  ASSUME WeakTypeOK, WeakTypeOK', \A u \in Thread : ThreadOK(u), CacheInv,
         DiskSize <= UIntRange, NEW t \in Thread, OnlyThread(t), cpu \in {t, NoThread},
         \A off \in BlockOff : ContentsOK(off), Releases(t)
  PROVE  \A off \in BlockOff : ContentsOK(off)'
<1> SUFFICES ASSUME NEW off \in BlockOff, NEW b \in Block, blockTable'[off] = b
             PROVE  ContentsOK(off)'
  BY DEF ContentsOK

<1>1. blockTable[off] = b /\ UNCHANGED <<disk, data>>
  BY DEF Releases
<1>2. /\ blockState'[b] = "OK" => blockState[b] = "OK"
      /\ blockState'[b] = "WRITING" => blockState[b] = "WRITING"
  BY DEF Releases, IoBlockCacheUnlock, WeakTypeOK
<1>3. blockState[b] = "OK" => ~Fresh(b)
  BY FreshOwner DEF Releases
<1>4. ASSUME NEW u \in Thread, block'[u] = b PROVE u # t
  BY <1>4, BlockAssumption DEF Releases
<1> QED
  BY <1>1, <1>2, <1>3, <1>4, ContentsKept, SMT DEF OnlyThread

(* A block that was read holds what the device holds.                      *)
LEMMA FillsData ==
  ASSUME WeakTypeOK, WeakTypeOK', \A u \in Thread : ThreadOK(u), CacheInv,
         DiskSize <= UIntRange, NEW t \in Thread, OnlyThread(t), cpu \in {t, NoThread},
         \A off \in BlockOff : ContentsOK(off), Fills(t)
  PROVE  \A off \in BlockOff : ContentsOK(off)'
<1> SUFFICES ASSUME NEW off \in BlockOff, NEW b \in Block, blockTable'[off] = b
             PROVE  ContentsOK(off)'
  BY DEF ContentsOK
<1>1. PICK c \in Block : c = block[t]
  BY DEF Fills, ThreadOK, WeakTypeOK, Transfers, At
<1> DEFINE o == Align(request[t].off)
<1>2. o \in BlockOff /\ blockTable[o] = c
  <2>1. PointerOK(t) /\ pc[t] # "idle" /\ c # NoBlock
    BY BlockAssumption DEF CacheInv, Fills, Transfers, At
  <2>2. Live(c)
    BY <1>1, <2>1 DEF PointerOK, Live, Fills, Transfers
  <2> QED
    BY <1>1, <2>1, <2>2, AlignOK DEF PointerOK
<1>3. CASE b = c
  <2>1. off = o
    BY <1>2, <1>3, BlockAssumption DEF Fills, CacheInv, TableOnce
  <2>2. \A i \in InBlock : data'[b][i] = disk'[off + i]
    BY <1>1, <1>3, <2>1 DEF Fills, WeakTypeOK
  <2>3. blockState'[b] = "OK"
    BY <1>1, <1>3 DEF Fills, WeakTypeOK
  <2> QED
    BY <2>2, <2>3 DEF ContentsOK
<1>4. CASE b # c
  <2>1. blockTable[off] = b /\ off # o
    BY <1>1, <1>2, <1>4 DEF Fills, HashTableRemoveItem
  <2>2. data'[b] = data[b] /\ blockState'[b] = blockState[b]
    BY <1>1, <1>4 DEF Fills, HashTableRemoveItem, IoBlockCacheUnlock, WeakTypeOK
  <2>3. ~Fresh(b)
    BY <1>1, <1>4, FreshOwner DEF Fills, Transfers
  <2>4. ASSUME NEW u \in Thread, block'[u] = b PROVE u # t
    BY <1>1, <1>4, <2>4, BlockAssumption DEF Fills
  <2>5. \A i \in InBlock : disk'[off + i] = disk[off + i]
    BY <2>1 DEF Fills
  <2> HIDE DEF o
  <2> QED
    BY <2>1, <2>2, <2>3, <2>4, <2>5, ContentsKept, SMTT(20) DEF OnlyThread
<1> QED
  BY <1>3, <1>4

(* The device holds what was written to the block.                         *)
LEMMA WrittenData ==
  ASSUME WeakTypeOK, WeakTypeOK', \A u \in Thread : ThreadOK(u), CacheInv,
         DiskSize <= UIntRange, NEW t \in Thread, OnlyThread(t), cpu \in {t, NoThread},
         \A off \in BlockOff : ContentsOK(off), Written(t)
  PROVE  \A off \in BlockOff : ContentsOK(off)'
<1> SUFFICES ASSUME NEW off \in BlockOff, NEW b \in Block, blockTable'[off] = b
             PROVE  ContentsOK(off)'
  BY DEF ContentsOK
<1>1. PICK c \in Block : c = block[t]
  BY DEF Written, ThreadOK, WeakTypeOK, Transfers, At
<1> DEFINE o == Align(request[t].off)
<1>2. o \in BlockOff /\ blockTable[o] = c
  <2>1. PointerOK(t) /\ pc[t] # "idle" /\ c # NoBlock
    BY BlockAssumption DEF CacheInv, Written, Transfers, At
  <2>2. Live(c)
    BY <1>1, <2>1 DEF PointerOK, Live, Written, Transfers
  <2> QED
    BY <1>1, <2>1, <2>2, AlignOK DEF PointerOK
<1>3. ASSUME NEW q \in BlockOff, NEW i \in InBlock
      PROVE  disk'[q + i] = IF q = o /\ i \in InFirstBlock(t) THEN request[t].val ELSE disk[q + i]
  BY DeviceWriteFacts DEF Written
<1>4. CASE b = c
  <2>1. off = o
    BY <1>2, <1>4, BlockAssumption DEF Written, CacheInv, TableOnce
  <2>2. blockState[c] = "WRITING" /\ pc[t] = "writing" /\ block[t] = c /\ UNCHANGED data
    BY <1>1, BlockAssumption DEF Written, CacheInv, PointerOK
  <2>3. \A i \in InBlock : data[c][i] = Changed(t, o, i)
    BY <1>2, <2>2 DEF ContentsOK
  <2>4. \A i \in InBlock : Changed(t, o, i) = disk'[o + i]
    BY <1>2, <1>3 DEF Changed
  <2>5. blockState'[b] = "OK"
    BY <1>1, <1>4 DEF Written, IoBlockCacheUnlock, WeakTypeOK
  <2> HIDE DEF o
  <2> QED
    BY <1>4, <2>1, <2>2, <2>3, <2>4, <2>5, SMT DEF ContentsOK
<1>5. CASE b # c
  <2>1. blockTable[off] = b /\ off # o
    BY <1>1, <1>2, <1>5 DEF Written, HashTableRemoveItem
  <2>2. data'[b] = data[b] /\ blockState'[b] = blockState[b]
    BY <1>1, <1>5 DEF Written, HashTableRemoveItem, IoBlockCacheUnlock, WeakTypeOK
  <2>3. ~Fresh(b)
    BY <1>1, <1>5, FreshOwner DEF Written, Transfers
  <2>4. ASSUME NEW u \in Thread, block'[u] = b PROVE u # t
    BY <1>1, <1>5, <2>4, BlockAssumption DEF Written
  <2>5. \A i \in InBlock : disk'[off + i] = disk[off + i]
    BY <2>1, <1>3 DEF Written
  <2> HIDE DEF o
  <2> QED
    BY <2>1, <2>2, <2>3, <2>4, <2>5, ContentsKept, SMTT(20) DEF OnlyThread
<1> QED
  BY <1>4, <1>5

(* A block that was dropped is not found.                                  *)
LEMMA DropsData ==
  ASSUME WeakTypeOK, WeakTypeOK', \A u \in Thread : ThreadOK(u), CacheInv,
         DiskSize <= UIntRange, NEW t \in Thread, OnlyThread(t), cpu \in {t, NoThread},
         \A off \in BlockOff : ContentsOK(off), Drops(t)
  PROVE  \A off \in BlockOff : ContentsOK(off)'
<1> SUFFICES ASSUME NEW off \in BlockOff, NEW b \in Block, blockTable'[off] = b
             PROVE  ContentsOK(off)'
  BY DEF ContentsOK
<1>1. PICK c \in Block : c = block[t]
  BY DEF Drops, ThreadOK, WeakTypeOK, Transfers, At
<1> DEFINE o == Align(request[t].off)
<1>2. o \in BlockOff /\ blockTable[o] = c
  <2>1. PointerOK(t) /\ pc[t] # "idle" /\ c # NoBlock
    BY BlockAssumption DEF CacheInv, Drops, Transfers, At
  <2>2. Live(c)
    BY <1>1, <2>1 DEF PointerOK, Live, Drops, Transfers
  <2> QED
    BY <1>1, <2>1, <2>2, AlignOK DEF PointerOK
<1>3. ASSUME NEW q \in BlockOff, q # o, NEW i \in InBlock
      PROVE  disk'[q + i] = disk[q + i]
  BY <1>3, DeviceWriteFacts DEF Drops
<1>4. CASE b = c
  BY <1>1, <1>4, BlockAssumption DEF Drops, HashTableRemoveItem
<1>5. CASE b # c
  <2>1. blockTable[off] = b /\ off # o
    BY <1>1, <1>2, <1>5, BlockAssumption DEF Drops, HashTableRemoveItem
  <2>2. data'[b] = data[b] /\ blockState'[b] = blockState[b]
    BY <1>1, <1>5 DEF Drops, HashTableRemoveItem, IoBlockCacheUnlock, WeakTypeOK
  <2>3. ~Fresh(b)
    BY <1>1, <1>5, FreshOwner DEF Drops, Transfers
  <2>4. ASSUME NEW u \in Thread, block'[u] = b PROVE u # t
    BY <1>1, <1>5, <2>4, BlockAssumption DEF Drops
  <2>5. \A i \in InBlock : disk'[off + i] = disk[off + i]
    BY <2>1, <1>3 DEF Drops
  <2> HIDE DEF o
  <2> QED
    BY <2>1, <2>2, <2>3, <2>4, <2>5, ContentsKept, SMTT(20) DEF OnlyThread
<1> QED
  BY <1>4, <1>5

(* A write of a whole block changes all of it.                             *)
LEMMA WholeChanged ==
  ASSUME NEW t \in Thread, ThreadOK(t), pc[t] # "idle", WholeBlock(t)
  PROVE  InFirstBlock(t) = InBlock
<1>1. /\ FirstCell(t) \in InBlock /\ BlockLength(t) = BlockSize
      /\ FirstCell(t) + BlockLength(t) <= BlockSize /\ BlockSize \in Nat \ {0}
  BY FirstBlockFacts, BlockAssumption DEF ThreadOK, WholeBlock
<1>2. FirstCell(t) = 0
  BY <1>1, SMT DEF InBlock
<1> QED
  BY <1>1, <1>2, SMT DEF InFirstBlock, InBlock

(* What differs from the device is what the writer changed.                *)
LEMMA StoreData ==
  ASSUME WeakTypeOK, WeakTypeOK', \A u \in Thread : ThreadOK(u), CacheInv,
         DiskSize <= UIntRange, NEW t \in Thread, OnlyThread(t), cpu \in {t, NoThread},
         \A off \in BlockOff : ContentsOK(off), Store(t)
  PROVE  \A off \in BlockOff : ContentsOK(off)'
<1> SUFFICES ASSUME NEW off \in BlockOff, NEW b \in Block, blockTable'[off] = b
             PROVE  ContentsOK(off)'
  BY DEF ContentsOK

<1>1. PICK c \in Block : c = block[t]
  BY DEF Store, At, ThreadOK, WeakTypeOK
<1>2. /\ UNCHANGED <<disk, blockTable, request, block>>
      /\ blockState'[c] = "WRITING"
      /\ \A i \in InBlock : data'[c][i] =
           IF i \in InFirstBlock(t) THEN request[t].val ELSE data[c][i]
      /\ \A a \in Block \ {c} : data'[a] = data[a] /\ blockState'[a] = blockState[a]
      /\ pc[t] = "store"
  BY <1>1, SMT DEF Store, At, WeakTypeOK
<1>3. blockState[c] = "OK"
  <2>1. PointerOK(t) /\ c # NoBlock /\ blockState[c] \in IoBlockState \cup {"FREE"}
    BY BlockAssumption DEF WeakTypeOK, CacheInv
  <2> QED
    BY <1>1, <2>1 DEF Store, Busy, PointerOK, IoBlockState
<1>4. CASE b = c
  <2>1. \A i \in InBlock : i \notin InFirstBlock(t) => data[c][i] = disk[off + i]
    <3>1. CASE Fresh(c)
      BY <1>2, <3>1, FreshOwner, WholeChanged
    <3>2. CASE ~Fresh(c)
      BY <1>2, <1>3, <1>4, <3>2 DEF ContentsOK
    <3> QED
      BY <3>1, <3>2
  <2>2. InFirstBlock(t)' = InFirstBlock(t)
    BY <1>2 DEF InFirstBlock, FirstCell, BlockLength
  <2>3. \A i \in InBlock : data'[c][i] = Changed(t, off, i)'
    BY <1>2, <2>1, <2>2 DEF Changed
  <2>4. ASSUME NEW u \in Thread, block'[u] = c, pc'[u] = "writing" PROVE u = t
    <3>1. SUFFICES ASSUME u # t PROVE FALSE
      OBVIOUS
    <3>2. block[u] = c /\ pc[u] = "writing"
      BY <2>4, <3>1 DEF OnlyThread
    <3> QED
      BY <1>3, <3>2, BlockAssumption DEF CacheInv, PointerOK
  <2> QED
    BY <1>2, <1>4, <2>3, <2>4, SMTT(20) DEF ContentsOK
<1>5. CASE b # c
  <2>1. ~Fresh(b)
    BY <1>1, <1>5, FreshOwner
  <2>2. ASSUME NEW u \in Thread, block'[u] = b PROVE u # t
    BY <1>1, <1>2, <1>5, <2>2
  <2> QED
    BY <1>2, <1>5, <2>1, <2>2, ContentsKept, SMTT(20) DEF OnlyThread
<1> QED
  BY <1>4, <1>5

-----------------------------------------------------------------------------
(* The cache is made empty.                                                *)
LEMMA InitIInv == Init => IInv
<1> SUFFICES ASSUME Init PROVE IInv
  OBVIOUS
<1> USE DEF Init
<1>1. \A b \in Block : Holders(b) = {}
  BY BlockAssumption DEF Holders
<1>2. Cardinality(Thread) \in Nat
  BY BlockAssumption, FS_CardinalityType
<1>3. TypeOK
  <2>1. (CHOOSE v \in Value : TRUE) \in Value
    BY BlockAssumption
  <2>2. disk \in [Cell -> Value]
    BY <2>1
  <2>3. refCount \in [Block -> 0 .. Cardinality(Thread)]
    BY <1>2, SMT
  <2>4. data \in [Block -> [InBlock -> Value \cup {Garbage}]]
    OBVIOUS
  <2> QED
    BY <2>2, <2>3, <2>4 DEF TypeOK
<1>4. \A t \in Thread : ThreadOK(t)
  BY DEF ThreadOK
<1>5. \A b \in Block : CountOK(b)
  <2>1. ASSUME NEW b \in Block PROVE CountOK(b)
    <3>1. Cardinality(Holders(b)) = 0 /\ refCount[b] = 0 /\ blockState[b] = "FREE"
      BY <1>1, FS_EmptySet
    <3> QED
      BY <3>1, SMT DEF CountOK
  <2> QED
    BY <2>1
<1>6. CacheInv
  BY BlockAssumption
     DEF CacheInv, PointerOK, TransferOnce, Transfers, BlockOK, Live, TableOnce
<1>7. DataInv
  BY BlockAssumption DEF DataInv, ContentsOK
<1> QED
  BY <1>3, <1>4, <1>5, <1>6, <1>7 DEF IInv

(* A step of a thread keeps the invariant.                                 *)
LEMMA StepIInv ==
  ASSUME IInv, ~corrupt, NEW t \in Thread, Call(t) \/ Step(t)
  PROVE  IInv'
<1>1. Cardinality(Thread) \in Nat
  BY BlockAssumption, FS_CardinalityType
<1>2. WeakTypeOK
  BY <1>1, SMT DEF IInv, TypeOK, WeakTypeOK
<1>3. \A u \in Thread : ThreadOK(u)
  BY DEF IInv
<1>4. WeakTypeOK' /\ OnlyThread(t) /\ ThreadOK(t)'
  BY <1>2, <1>3, StepType
<1>5. ASSUME NEW u \in Thread PROVE ThreadOK(u)'
  BY <1>3, <1>4, <1>5 DEF OnlyThread, ThreadOK
<1>6. (\A b \in Block : CountOK(b)') /\ (~borrowed' => ~corrupt')
  BY <1>2, <1>3, StepCount DEF IInv
<1>7. TypeOK'
  <2>1. ASSUME NEW b \in Block PROVE refCount'[b] \in 0 .. Cardinality(Thread)
    <3>1. /\ Cardinality(Holders(b)') <= Cardinality(Thread)
          /\ Cardinality(Holders(b)') \in Nat
      <4>1. Holders(b)' \in SUBSET Thread
        BY DEF Holders
      <4> QED
        BY <4>1, BlockAssumption, FS_Subset, FS_CardinalityType
    <3>2. refCount'[b] \in Nat /\ refCount'[b] <= Cardinality(Holders(b)')
      BY <1>4, <1>6 DEF WeakTypeOK, CountOK
    <3> QED
      BY <1>1, <3>1, <3>2, SMT
  <2> QED
    BY <1>4, <2>1 DEF WeakTypeOK, TypeOK
<1>8. ASSUME ~corrupt' PROVE CacheInv' /\ DataInv'
  <2>1. CacheInv /\ (DiskSize <= UIntRange => \A off \in BlockOff : ContentsOK(off))
    BY DEF IInv, DataInv
  <2>2. cpu \in {t, NoThread}
    BY <1>2, <1>3, StepEffect
  <2> USE <1>2, <1>3, <1>4, <1>8, <2>1, <2>2 DEF DataInv
  <2>3. CASE Moves(t)
    BY <2>3, MovesCache, MovesData
  <2>4. CASE Releases(t)
    BY <2>4, ReleasesCache, ReleasesData
  <2>5. CASE Fills(t)
    BY <2>5, FillsCache, FillsData
  <2>6. CASE Store(t)
    BY <2>6, StoreCache, StoreData
  <2>7. CASE Written(t)
    BY <2>7, WrittenCache, WrittenData
  <2>8. CASE Drops(t)
    BY <2>8, DropsCache, DropsData
  <2>9. ASSUME NEW b \in Block, Points(t, b) PROVE CacheInv' /\ DataInv'
    BY <2>9, PointsCache, PointsData
  <2>10. ASSUME NEW b \in Block, NEW s, Creates(t, b, s) PROVE CacheInv' /\ DataInv'
    BY <2>10, CreatesCache, CreatesData
  <2> QED
    BY <2>3, <2>4, <2>5, <2>6, <2>7, <2>8, <2>9, <2>10, StepEffect
<1> QED
  BY <1>5, <1>6, <1>7, <1>8 DEF IInv

(* Every step keeps the invariant.                                         *)
LEMMA NextIInv == IInv /\ [Next]_vars => IInv'
<1> SUFFICES ASSUME IInv, [Next]_vars PROVE IInv'
  OBVIOUS
<1>1. CASE UNCHANGED vars
  <2> USE <1>1 DEF vars
  <2>1. TypeOK' /\ (~borrowed' => ~corrupt')
    BY DEF IInv, TypeOK
  <2>2. (\A t \in Thread : ThreadOK(t)') /\ (\A b \in Block : CountOK(b)')
    BY DEF IInv, ThreadOK, CountOK, Holders
  <2>3. ~corrupt' => CacheInv'
    BY SMT DEF IInv, CacheInv, PointerOK, TransferOnce, Transfers, BlockOK, Live, Busy, TableOnce
  <2>4. ~corrupt' => DataInv'
    BY SMT DEF IInv, DataInv, ContentsOK, Fresh, Changed, WholeBlock, InFirstBlock, FirstCell,
           BlockLength
  <2> QED
    BY <2>1, <2>2, <2>3, <2>4 DEF IInv
<1>2. CASE ~corrupt /\ \E t \in Thread : Call(t) \/ Step(t)
  BY <1>2, StepIInv
<1> QED
  BY <1>1, <1>2 DEF Next, Undefined

(* The invariant holds in every state.                                     *)
LEMMA Invariance == Spec => []IInv
BY InitIInv, NextIInv, PTL DEF Spec

(* At most one transfer is in progress for a block of the device, for any  *)
(* number of threads and whatever fails: IoBlockCacheRead and              *)
(* IoBlockCacheWriteBuffer wait for READING and WRITING to end.            *)
THEOREM TransfersExclude == Spec => []OneTransfer
<1>1. IInv => OneTransfer
  <2> SUFFICES ASSUME IInv, ~corrupt, NEW t \in Thread, NEW u \in Thread,
                      Transfers(t), Transfers(u),
                      Align(request[t].off) = Align(request[u].off)
               PROVE  t = u
    BY DEF OneTransfer
  <2>1. ThreadOK(t) /\ ThreadOK(u) /\ CacheInv
    BY DEF IInv
  <2>2. block[t] # NoBlock /\ block[u] # NoBlock
    BY <2>1 DEF ThreadOK, Transfers
  <2>3. PointerOK(t) /\ PointerOK(u)
    BY <2>1 DEF CacheInv
  <2>4. block[t] = block[u]
    BY <2>2, <2>3 DEF PointerOK, Transfers, Live
  <2> QED
    BY <2>1, <2>4 DEF CacheInv, TransferOnce
<1> QED
  BY <1>1, Invariance, PTL

(* Whoever sleeps on a block sleeps until the end of a transfer that is in *)
(* progress, at which ProcWaitQueueWakeAll is called.                      *)
THEOREM SleepersWoken == Spec => []SleepersServed
<1>1. IInv => SleepersServed
  <2> SUFFICES ASSUME IInv, ~corrupt, NEW b \in Block, NEW t \in waitingThreads[b]
               PROVE  \E u \in Thread : block[u] = b /\ Transfers(u)
    BY DEF SleepersServed
  <2>1. BlockOK(b)
    BY DEF IInv, CacheInv
  <2> QED
    BY <2>1 DEF BlockOK, Busy, Transfers
<1> QED
  BY <1>1, Invariance, PTL

(* The reference count of a block is the number of threads with a pointer  *)
(* to it, no block is freed in use and none is lost, until the write of a  *)
(* whole cached block in IoBlockCacheWriteBuffer gives back a reference    *)
(* that was never taken.                                                   *)
THEOREM CountsKept == Spec => []CountsExact
<1>1. IInv => CountsExact
  <2> SUFFICES ASSUME IInv, ~borrowed, NEW b \in Block
               PROVE  /\ refCount[b] = Cardinality({t \in Thread : block[t] = b})
                      /\ Unreachable(b) <=> blockState[b] = "FREE"
    BY DEF CountsExact, IInv
  <2>1. CountOK(b) /\ BlockOK(b) /\ TypeOK /\ (\A t \in Thread : PointerOK(t))
        /\ b # NoBlock
    BY BlockAssumption DEF IInv, CacheInv
  <2>2. refCount[b] = Cardinality({t \in Thread : block[t] = b})
    BY <2>1 DEF CountOK, Holders
  <2>3. ASSUME Unreachable(b) PROVE blockState[b] = "FREE"
    <3>1. Holders(b) = {}
      BY <2>3 DEF Unreachable, Range, Holders, TypeOK, IInv
    <3>2. ~ \E off \in BlockOff : blockTable[off] = b
      BY <2>1, <2>3 DEF Unreachable, Range, TypeOK
    <3> QED
      BY <2>1, <3>1, <3>2 DEF CountOK, BlockOK, Live, TypeOK, IoBlockState
  <2>4. ASSUME blockState[b] = "FREE" PROVE Unreachable(b)
    <3>1. b \notin Range(blockTable)
      BY <2>1, <2>4 DEF BlockOK, Live, Range, TypeOK
    <3>2. b \notin Range(block)
      BY <2>1, <2>4, SMT DEF PointerOK, Range, TypeOK
    <3> QED
      BY <3>1, <3>2 DEF Unreachable
  <2> QED
    BY <2>2, <2>3, <2>4
<1> QED
  BY <1>1, Invariance, PTL

(* On every device that 32 bits can address the cache never differs from   *)
(* the device: a block that IoBlockCacheRead finds and gives out holds     *)
(* what the device holds.  (On a larger one Align puts two blocks of the   *)
(* device at one place of the table.)                                      *)
THEOREM CacheCoherent ==
  ASSUME DiskSize <= UIntRange
  PROVE  Spec => []CachedMatchesDisk
<1>1. IInv => CachedMatchesDisk
  <2> SUFFICES ASSUME IInv, ~corrupt, cpu = NoThread, NEW off \in BlockOff, NEW b \in Block,
                      blockTable[off] = b
               PROVE  /\ blockState[b] # "ERROR"
                      /\ blockState[b] = "OK" => \A i \in InBlock : data[b][i] = disk[off + i]
                      /\ blockState[b] = "WRITING" => \E t \in Thread :
                           /\ block[t] = b /\ pc[t] = "writing"
                           /\ \A i \in InBlock : data[b][i] =
                                IF i \in InFirstBlock(t) THEN request[t].val ELSE disk[off + i]
    BY SMT DEF CachedMatchesDisk
  <2>1. BlockOK(b) /\ ContentsOK(off)
    BY DEF IInv, CacheInv, DataInv
  <2>2. ~Fresh(b)
    BY BlockAssumption DEF Fresh
  <2> QED
    BY <2>1, <2>2 DEF BlockOK, Live, ContentsOK, Changed
<1> QED
  BY <1>1, Invariance, PTL
=============================================================================
