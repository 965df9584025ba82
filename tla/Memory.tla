-------------------------------- MODULE Memory --------------------------------
(***************************************************************************)
(* User memory: contexts and their regions (mm/region.c), page tables      *)
(* (mm/pageMapping.c), demand paging and copy on write (mm/pageFault.c) on *)
(* top of counted physical pages (mm/physical.c).                          *)
(*                                                                         *)
(* Addresses are page numbers: regions must be page aligned.  All of them  *)
(* lie in one page table, that of a directory entry whose number is a      *)
(* multiple of four (elsewhere MemGetPageTable, with its 12 bit index,     *)
(* leaves the table), and the table has fewer than eight pages, so its     *)
(* counter does not carry.  With the next directory entries absent         *)
(* DecrementCounter returns false: a table lives as long as its context.   *)
(*                                                                         *)
(* No code of the kernel is interrupted in between, so every operation is  *)
(* one step.  Nothing calls MemContextAddReference: the reference count of *)
(* a context is 0, and MemContextDeleteReference deletes it.               *)
(***************************************************************************)
EXTENDS Naturals, Sequences, FiniteSets

CONSTANTS Ctx,          \* slots for memory contexts
          Kernel,       \* MemKernelContext
          ZoneSize,     \* pages in the zones MEM_DMA, MEM_KERNEL and MEM_HIGHMEM
          KernelBase,   \* the first page number that is not the user's
          MaxRegions,   \* bound on the regions of a context
          NewRegions,   \* the regions that are asked for
          Value         \* what a page can hold, 0 among it

MEM_DMA == 0
MEM_KERNEL == 1
MEM_HIGHMEM == 2

ASSUME MemoryAssumption ==
  /\ Kernel \notin Ctx /\ IsFiniteSet(Ctx)
  /\ ZoneSize \in [MEM_DMA .. MEM_HIGHMEM -> Nat]
  /\ KernelBase \in Nat \ {0}
  /\ MaxRegions \in Nat
  /\ NewRegions \subseteq [start : Nat, length : Nat, writable : BOOLEAN]
  /\ Value \subseteq Nat /\ 0 \in Value

VPage == 1 .. KernelBase - 1

Zone == MEM_DMA .. MEM_HIGHMEM

(* The pages are numbered from 1, zone after zone; 0 stands for no page.   *)
ZoneStart(z) == CASE z = MEM_DMA -> 1
                  [] z = MEM_KERNEL -> 1 + ZoneSize[MEM_DMA]
                  [] z = MEM_HIGHMEM -> 1 + ZoneSize[MEM_DMA] + ZoneSize[MEM_KERNEL]

Page == 1 .. ZoneStart(MEM_HIGHMEM) + ZoneSize[MEM_HIGHMEM] - 1

VARIABLES
  phys,         \* MemPageStateTable[].refCount, zones[].headPtr, MemPhysicalFreePages
  contents,     \* what the pages hold
  contexts,     \* the contexts that are allocated
  current,      \* MemCurrentContext and CR3
  directory,    \* MemContext.physDirectory
  table,        \* the page table of the directory's entry, or 0
  entry,        \* the entries of the page table
  regions,      \* MemContext.regions
  stopped       \* the kernel has panicked, or searches for a page for ever

spaceVars == <<contexts, directory, table, entry, regions>>
vars == <<phys, contents, spaceVars, current, stopped>>

NotPresent == [page |-> 0, writable |-> FALSE]

Region == [start : VPage, length : 0 .. KernelBase, writable : BOOLEAN]

TypeOK ==
  /\ phys \in [refCount : [Page -> Nat], headPtr : [Zone -> Page \cup {0}], free : Nat]
  /\ contents \in [Page -> Value]
  /\ contexts \subseteq Ctx
  /\ current \in contexts \cup {Kernel}
  /\ directory \in [Ctx -> Page \cup {0}]
  /\ table \in [Ctx -> Page \cup {0}]
  /\ entry \in [Ctx -> [VPage -> [page : Page \cup {0}, writable : BOOLEAN]]]
  /\ regions \in [Ctx -> Seq(Region)]
  /\ stopped \in BOOLEAN

Init ==
  /\ phys = [refCount |-> [p \in Page |-> 0],
             headPtr  |-> [z \in Zone |-> IF ZoneSize[z] > 0 THEN ZoneStart(z) ELSE 0],
             free     |-> Cardinality(Page)]
  /\ contents = [p \in Page |-> 0]
  /\ contexts = {}
  /\ current = Kernel
  /\ directory = [c \in Ctx |-> 0]
  /\ table = [c \in Ctx |-> 0]
  /\ entry = [c \in Ctx |-> [v \in VPage |-> NotPresent]]
  /\ regions = [c \in Ctx |-> <<>>]
  /\ stopped = FALSE

-----------------------------------------------------------------------------
(* Physical pages                                                          *)

(* The page that MemPhysicalAlloc looks at after i others of zone z.       *)
PageAt(ph, z, i) ==
  ZoneStart(z) + ((ph.headPtr[z] - ZoneStart(z) + i) % ZoneSize[z])

FreeIn(ph, z) == {i \in 0 .. ZoneSize[z] - 1 : ph.refCount[PageAt(ph, z, i)] = 0}

(* MemPhysicalAlloc of one page from zone or those below it: the page, or  *)
(* 0, and the state of physical memory after it.  The search of a full     *)
(* zone comes round to headPtr only if that is not the start of the zone:  *)
(* head is wrapped after it was compared.                                  *)
PhysicalAlloc(ph, zone) ==
  LET free == [z \in MEM_DMA .. zone |-> FreeIn(ph, z)]
      ends == {z \in MEM_DMA .. zone :
                 ZoneSize[z] > 0 /\ (free[z] # {} \/ ph.headPtr[z] = ZoneStart(z))}
      z == CHOOSE y \in ends : \A x \in ends : x <= y
      p == PageAt(ph, z, CHOOSE i \in free[z] : \A j \in free[z] : i <= j)
  IN  IF ends = {} \/ free[z] = {}
      THEN [page |-> 0, phys |-> ph]
      ELSE [page |-> p,
            phys |-> [refCount |-> [ph.refCount EXCEPT ![p] = 1],
                      headPtr  |-> [ph.headPtr EXCEPT ![z] = p],
                      free     |-> ph.free - 1]]

(* MemPhysicalAddRef of each page of S                                     *)
PhysicalAddRef(ph, S) ==
  [ph EXCEPT !.refCount = [p \in Page |-> IF p \in S THEN @[p] + 1 ELSE @[p]]]

(* MemPhysicalDeleteRef of each page of S                                  *)
PhysicalDeleteRef(ph, S) ==
  [ph EXCEPT !.refCount = [p \in Page |-> IF p \in S /\ @[p] > 0 THEN @[p] - 1 ELSE @[p]],
             !.free = @ + Cardinality({p \in S : ph.refCount[p] = 1})]

(* MemPhysicalFree of each page of S                                       *)
PhysicalFree(ph, S) ==
  [ph EXCEPT !.refCount = [p \in Page |-> IF p \in S THEN 0 ELSE @[p]],
             !.free = @ + Cardinality(S)]

(* What a page holds matters no more once it is free.                      *)
Forget(ph) == contents' = [p \in Page |-> IF ph.refCount[p] = 0 THEN 0 ELSE contents[p]]

-----------------------------------------------------------------------------
(* Page tables: the pages that a context maps at the user pages S          *)

Mapped(c, S) == {entry[c][v].page : v \in {u \in S : entry[c][u].page # 0}}

(* MemIntUnmapUserPageAndFree of every page of S.  The table's counter is  *)
(* lowered and the table is never found empty (see above), so neither is   *)
(* in the state.  With several tables per context they would have to be.   *)
UnmapAndFree(c, S) ==
  LET ph == PhysicalDeleteRef(phys, Mapped(c, S))
  IN  /\ phys' = ph
      /\ Forget(ph)
      /\ entry' = [entry EXCEPT ![c] = [v \in VPage |-> IF v \in S THEN NotPresent ELSE @[v]]]

(* The page table for a mapping: the one there is, or a new one.           *)
GetTable(ph, c) ==
  IF table[c] # 0 THEN [page |-> table[c], phys |-> ph] ELSE PhysicalAlloc(ph, MEM_KERNEL)

(* No page could be had, or a fault in the kernel: nothing runs any more.  *)
Stop == stopped' = TRUE /\ UNCHANGED <<phys, contents, spaceVars, current>>

-----------------------------------------------------------------------------
(* Contexts                                                                *)

ContextInit(c) ==
  LET dir == PhysicalAlloc(phys, MEM_KERNEL)
  IN  /\ c \notin contexts
      /\ \/ dir.page = 0 /\ Stop
         \/ /\ dir.page # 0
            /\ phys' = dir.phys
            /\ contexts' = contexts \cup {c}
            /\ directory' = [directory EXCEPT ![c] = dir.page]
            /\ UNCHANGED <<contents, table, entry, regions, current, stopped>>

(* Mutant: the pages stay writable in the context that is cloned.          *)
ReadOnlyInCloneOnly(new) ==
  [entry EXCEPT ![new] = [v \in VPage |-> [page |-> entry[current][v].page, writable |-> FALSE]]]

(* The entries of both contexts once the clone has made them read-only.    *)
ReadOnlyInBoth(new) ==
  LET readOnly == [v \in VPage |-> [page |-> entry[current][v].page, writable |-> FALSE]]
  IN  [entry EXCEPT ![current] = readOnly, ![new] = readOnly]

ContextClone(new) ==
  LET dir == PhysicalAlloc(phys, MEM_KERNEL)
      shared == PhysicalAddRef(dir.phys, Mapped(current, VPage))
      tab == IF table[current] = 0 THEN [page |-> 0, phys |-> shared]
                                   ELSE PhysicalAlloc(shared, MEM_KERNEL)
      failed == dir.page = 0 \/ (table[current] # 0 /\ tab.page = 0)
  IN  /\ current # Kernel
      /\ new \notin contexts
      /\ \/ failed /\ Stop
         \/ /\ ~ failed
            /\ phys' = tab.phys
            /\ contexts' = contexts \cup {new}
            /\ directory' = [directory EXCEPT ![new] = dir.page]
            /\ table' = [table EXCEPT ![new] = tab.page]
            /\ entry' = ReadOnlyInBoth(new)
            /\ regions' = [regions EXCEPT ![new] = regions[current]]
            /\ UNCHANGED <<contents, current, stopped>>

ContextSwitchTo(c) ==
  /\ c # current
  /\ current' = c
  /\ UNCHANGED <<phys, contents, spaceVars, stopped>>

(* The first test of MemContextDelete                                      *)
MayDelete(c) == c \in contexts \ {current}

(* MemContextDeleteReference, which for the current context does nothing   *)
ContextDelete(c) ==
  LET own == {directory[c], table[c]} \ {0}
      ph == PhysicalFree(PhysicalDeleteRef(phys, Mapped(c, VPage)), own)
  IN  /\ MayDelete(c)
      /\ phys' = ph
      /\ Forget(ph)
      /\ contexts' = contexts \ {c}
      /\ directory' = [directory EXCEPT ![c] = 0]
      /\ table' = [table EXCEPT ![c] = 0]
      /\ entry' = [entry EXCEPT ![c] = [v \in VPage |-> NotPresent]]
      /\ regions' = [regions EXCEPT ![c] = <<>>]
      /\ UNCHANGED <<current, stopped>>

-----------------------------------------------------------------------------
(* Regions                                                                 *)

PagesOf(r) == r.start .. r.start + r.length - 1

(* Mutant: the first page beyond the new length is kept.                   *)
PagesFromNext(r, length) == r.start + length + 1 .. r.start + r.length - 1

(* The pages of r that a resize to length gives back                       *)
PagesFrom(r, length) == r.start + length .. r.start + r.length - 1

(* MemRegionFind: the position of the region of c with page v, or 0.  The  *)
(* search ends at the first region that starts beyond v.                   *)
RegionFind(c, v) ==
  LET found == {i \in DOMAIN regions[c] :
                  /\ v \in PagesOf(regions[c][i])
                  /\ \A j \in 1 .. i : regions[c][j].start <= v}
  IN  IF found = {} THEN 0 ELSE CHOOSE i \in found : \A j \in found : i <= j

IsCollision(prev, next) == ~ (next.start > prev.start + prev.length)

(* MemRegionCreate.  To put a region after the last one the code compares  *)
(* it with what lies behind the context in memory: both outcomes are       *)
(* possible, and the refusal changes nothing.                              *)
RegionCreate(c, r) ==
  LET rs == regions[c]
      beyond == {i \in DOMAIN rs : rs[i].start > r.start}
      n == IF beyond = {} THEN Len(rs) ELSE (CHOOSE i \in beyond : \A j \in beyond : i <= j) - 1
  IN  /\ Len(rs) < MaxRegions
      /\ r.start # 0 /\ r.start + r.length < KernelBase
      /\ n > 0 => ~ IsCollision(rs[n], r)
      /\ n < Len(rs) => ~ IsCollision(r, rs[n + 1])
      /\ regions' = [regions EXCEPT ![c] = SubSeq(rs, 1, n) \o <<r>> \o SubSeq(rs, n + 1, Len(rs))]
      /\ UNCHANGED <<phys, contents, contexts, directory, table, entry, current, stopped>>

(* MemRegionResize to less                                                 *)
RegionShrink(c, i, length) ==
  LET r == regions[c][i]
  IN  /\ length < r.length
      /\ UnmapAndFree(c, PagesFrom(r, length))
      /\ regions' = [regions EXCEPT ![c][i].length = length]
      /\ UNCHANGED <<contexts, directory, table, current, stopped>>

(* MemRegionResize to more, where the old length is tested for collision   *)
RegionGrow(c, i, length) ==
  LET r == regions[c][i]
  IN  /\ length > r.length
      /\ r.start + length <= KernelBase
      /\ i < Len(regions[c]) => ~ IsCollision(r, regions[c][i + 1])
      /\ regions' = [regions EXCEPT ![c][i].length = length]
      /\ UNCHANGED <<phys, contents, contexts, directory, table, entry, current, stopped>>

RegionDelete(c, i) ==
  LET rs == regions[c]
  IN  /\ UnmapAndFree(c, PagesFrom(rs[i], 0))
      /\ regions' = [regions EXCEPT ![c] = SubSeq(rs, 1, i - 1) \o SubSeq(rs, i + 1, Len(rs))]
      /\ UNCHANGED <<contexts, directory, table, current, stopped>>

-----------------------------------------------------------------------------
(* Page faults, and the write that ends well once they are handled         *)

(* A page that is not present is allocated, mapped with the flags of its   *)
(* region and then wiped through that mapping.  Unless the region is       *)
(* writable the wiping faults in the kernel, which ends in a panic or, for *)
(* MEM_NOACCESS, takes page after page.                                    *)
DemandPage(v) ==
  LET i == RegionFind(current, v)
      new == PhysicalAlloc(phys, MEM_HIGHMEM)
      tab == GetTable(new.phys, current)
      failed == new.page = 0 \/ tab.page = 0 \/ ~ regions[current][i].writable
  IN  /\ entry[current][v].page = 0
      /\ i # 0
      /\ \/ failed /\ Stop
         \/ /\ ~ failed
            /\ phys' = tab.phys
            /\ contents' = [contents EXCEPT ![new.page] = 0]
            /\ table' = [table EXCEPT ![current] = tab.page]
            /\ entry' = [entry EXCEPT ![current][v] = [page |-> new.page, writable |-> TRUE]]
            /\ UNCHANGED <<contexts, directory, regions, current, stopped>>

(* Mutant: the new page is left as it was found.                           *)
NotCopied(old, new) == UNCHANGED contents

(* The copy through MEM_TEMPPAGE3                                          *)
CopyContents(old, new) == contents' = [contents EXCEPT ![new] = contents[old]]

(* Mutant: the reference to the page copied is kept.                       *)
KeepReference(ph, p) == ph

GiveUpReference(ph, p) == PhysicalDeleteRef(ph, {p})

Duplicate(v) ==
  LET old == entry[current][v].page
      new == PhysicalAlloc(phys, MEM_HIGHMEM)
  IN  \/ new.page = 0 /\ Stop
      \/ /\ new.page # 0
         /\ phys' = GiveUpReference(new.phys, old)
         /\ CopyContents(old, new.page)
         /\ entry' = [entry EXCEPT ![current][v] = [page |-> new.page, writable |-> TRUE]]
         /\ UNCHANGED <<contexts, directory, table, regions, current, stopped>>

(* A write to a page that is not writable in a region that is              *)
CopyOnWrite(v) ==
  LET e == entry[current][v]
      i == RegionFind(current, v)
  IN  /\ e.page # 0 /\ ~ e.writable
      /\ i # 0 /\ regions[current][i].writable
      /\ \/ phys.refCount[e.page] > 1 /\ Duplicate(v)
         \/ /\ phys.refCount[e.page] <= 1
            /\ entry' = [entry EXCEPT ![current][v].writable = TRUE]
            /\ UNCHANGED <<phys, contents, contexts, directory, table, regions, current, stopped>>

(* The processor writes x to page v.                                       *)
Write(v, x) ==
  /\ entry[current][v].writable
  /\ contents' = [contents EXCEPT ![entry[current][v].page] = x]
  /\ UNCHANGED <<phys, spaceVars, current, stopped>>

(* User code writes anywhere; a fault outside the regions sends SIGSEGV    *)
(* and changes no memory.                                                  *)
UserAccess ==
  /\ current # Kernel
  /\ \E v \in VPage : DemandPage(v) \/ CopyOnWrite(v) \/ \E x \in Value : Write(v, x)

RegionCall ==
  \E c \in contexts :
    \/ \E r \in NewRegions : RegionCreate(c, r)
    \/ \E i \in DOMAIN regions[c], length \in 0 .. KernelBase :
         RegionShrink(c, i, length) \/ RegionGrow(c, i, length)
    \/ \E i \in DOMAIN regions[c] : RegionDelete(c, i)

Next ==
  /\ ~ stopped
  /\ \/ \E c \in Ctx : ContextInit(c) \/ ContextClone(c) \/ ContextDelete(c)
     \/ \E c \in contexts \cup {Kernel} : ContextSwitchTo(c)
     \/ RegionCall
     \/ UserAccess

Spec == Init /\ [][Next]_vars

-----------------------------------------------------------------------------
(* Properties                                                              *)

(* The count of a page is the number of its uses: as a directory, as a     *)
(* table and as a page mapped in some context.  Less and it is given out   *)
(* while in use, more and it is lost.  MemPhysicalFreePages is the number  *)
(* of pages without references, over all sharing and giving back.          *)
PagesCounted ==
  /\ TypeOK
  /\ \A p \in Page :
       phys.refCount[p] = Cardinality({c \in contexts : directory[c] = p})
                        + Cardinality({c \in contexts : table[c] = p})
                        + Cardinality({x \in contexts \X VPage : entry[x[1]][x[2]].page = p})
  /\ phys.free = Cardinality({p \in Page : phys.refCount[p] = 0})

(* A page that somebody may write without a fault is in nobody else's      *)
(* address space, and is no page table.                                    *)
WritableNotShared ==
  \A c \in contexts, v \in VPage :
    entry[c][v].writable =>
      \A d \in contexts :
        /\ entry[c][v].page \notin {directory[d], table[d]}
        /\ \A u \in VPage : entry[d][u].page = entry[c][v].page => d = c /\ u = v

(* Every page that is mapped is in a region that the page fault handler    *)
(* would find: what was given back by a resize or a delete is unmapped.    *)
MappedInRegion ==
  \A c \in contexts, v \in VPage : entry[c][v].page # 0 => RegionFind(c, v) # 0

(* What a context reads and what it may write, as AddressSpace has them    *)
PrivateMemory ==
  [c \in Ctx |-> [v \in VPage |->
     IF entry[c][v].page = 0 THEN 0 ELSE contents[entry[c][v].page]]]

PrivateReady == [c \in Ctx |-> {v \in VPage : entry[c][v].writable}]

Private == INSTANCE AddressSpace WITH memory <- PrivateMemory, ready <- PrivateReady

(* What a process sees is private memory: pages shared after a clone,      *)
(* copied late and filled on demand cannot be told from an address space   *)
(* that was copied at once and was zero from the start.                    *)
LooksPrivate == Private!Spec
=============================================================================
