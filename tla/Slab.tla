-------------------------------- MODULE Slab --------------------------------
(***************************************************************************)
(* The slab allocator (mm/slab.c): caches of objects of one size, the      *)
(* slabs of each cache on three lists, and the objects of a slab on a free *)
(* chain.  The headers of large slabs are themselves objects of a cache    *)
(* (rootSlabCache), and so are the cache descriptors (rootCache).          *)
(*                                                                         *)
(* The calls never block.  An operation is a function from one heap to the *)
(* next, because allocating an object may create a slab, which allocates a *)
(* header.  When there is no page left the kernel stops: the call is not   *)
(* enabled.                                                                *)
(***************************************************************************)
EXTENDS Integers, FiniteSets, SequencesExt

CONSTANTS SlabId,          \* slabs that can exist at a time
          UserCache,       \* caches made with MemSlabCreate
          Sizes,           \* the object sizes asked for
          RootObjects,     \* objects in a slab of rootCache and of rootSlabCache
          NoObject,
          PAGE_SIZE, HeaderSize,
          UINT_SIZE        \* 2^32: sizes are unsigned ints

ASSUME SlabAssumption ==
  /\ RootObjects \in Nat \ {0} /\ PAGE_SIZE \in Nat \ {0} /\ HeaderSize \in 1 .. PAGE_SIZE - 1
  /\ UINT_SIZE \in Nat /\ UINT_SIZE > 8 * PAGE_SIZE /\ UINT_SIZE % 4 = 0
  /\ Sizes \subseteq 0 .. UINT_SIZE - 1

VARIABLES
  heap,        \* slab: what each slab is; full, partial, empty: the lists of each cache
  cache,       \* the caches made with MemSlabCreate
  live,        \* history: the objects handed out to users of the allocator
  broken       \* freed slabs are still on a list, or a size was divided by that is 0

vars == <<heap, cache, live, broken>>

Cache == {"root", "header"} \cup UserCache

NoSlab == [cache |-> "none", free |-> <<>>, activeObjs |-> 0, header |-> NoObject]

NoCache == [objectsPerSlab |-> 0, large |-> FALSE, object |-> NoObject]

-----------------------------------------------------------------------------
(* The arithmetic of MemSlabCreate for objects of an aligned size.  A size *)
(* of 0, and the three largest, which wrap, are aligned to 0.              *)
Align4(size) == (((size + 3) % UINT_SIZE) \div 4) * 4

(* "Not that large"                                                        *)
IsAccepted(aligned) == aligned < 8 * PAGE_SIZE

IsLarge(size) == size >= PAGE_SIZE \div 8

Room(pages, size) == pages * PAGE_SIZE - (IF IsLarge(size) THEN 0 ELSE HeaderSize)

ObjectsPerSlab(pages, size) == Room(pages, size) \div size

Wastage(pages, size) == Room(pages, size) % size

(* Mutant: the loop does not stop at a number of pages that wastes little. *)
TryPagesNoBreak(size, best, pages) ==
  IF ObjectsPerSlab(pages, size) >= 8
     /\ (Wastage(pages, size) <= pages * 128 \/ Wastage(pages, size) < best.wastage)
  THEN [pages |-> pages, wastage |-> Wastage(pages, size), good |-> FALSE]
  ELSE best

(* One turn of the loop of MemSlabCreate; good is set when it breaks.      *)
TryPages(size, best, pages) ==
  LET wastage == Wastage(pages, size)
  IN  IF best.good \/ ObjectsPerSlab(pages, size) < 8 THEN best
      ELSE IF wastage <= pages * 128 THEN [pages |-> pages, wastage |-> wastage, good |-> TRUE]
      ELSE IF wastage < best.wastage THEN [pages |-> pages, wastage |-> wastage, good |-> FALSE]
      ELSE best

(* "Determine best number of pages per slab"                               *)
PagesPerSlab(size) ==
  FoldLeft(LAMBDA best, pages : TryPages(size, best, pages),
           [pages |-> 8, wastage |-> UINT_SIZE - 1, good |-> FALSE],
           [pages \in 1 .. 7 |-> pages]).pages

(* MemKAlloc: BitScanReverse counts the zero bits above the highest one.   *)
BitScanReverse(n) == 31 - (CHOOSE k \in 0 .. 30 : 2^k <= n /\ n < 2 * 2^k)

KAllocIndex(bytes) ==
  IF bytes <= 8 THEN 0
  ELSE LET i == 28 - BitScanReverse(bytes) IN IF 2^(i + 3) # bytes THEN i + 1 ELSE i

-----------------------------------------------------------------------------
PerSlab(c) == IF c \in UserCache THEN cache[c].objectsPerSlab ELSE RootObjects

Large(c) == c \in UserCache /\ cache[c].large

(* ListDeleteInit and ListAddBefore: s becomes the last one of a list.     *)
Move(h, c, s, list) ==
  LET Put(name) == [h[name] EXCEPT ![c] =
                      IF name = list THEN Append(SelectSeq(@, LAMBDA x : x # s), s)
                      ELSE SelectSeq(@, LAMBDA x : x # s)]
  IN  [h EXCEPT !.full = Put("full"), !.partial = Put("partial"), !.empty = Put("empty")]

Unused(h) == {s \in SlabId : h.slab[s] = NoSlab}

(* CreateSlab with the header given: every object is on the free chain.    *)
AddSlab(h, c, header) ==
  LET s == CHOOSE x \in Unused(h) : TRUE
      new == [cache |-> c, free |-> [i \in 1 .. PerSlab(c) |-> i], activeObjs |-> 0,
              header |-> header]
  IN  Move([h EXCEPT !.slab[s] = new], c, s, "empty")

(* The slab that MemSlabAlloc takes an object from, if there is one.       *)
HasFree(h, c) == h.partial[c] # <<>> \/ h.empty[c] # <<>>

Chosen(h, c) == IF h.partial[c] # <<>> THEN Head(h.partial[c]) ELSE Head(h.empty[c])

(* Mutant: a slab that is used for the first time stays where it is.       *)
TakenFromStays(h, c, s, rest) == IF rest = <<>> THEN Move(h, c, s, "full") ELSE h

(* "Moving lists?" of MemSlabAlloc, after the object was taken.            *)
TakenFrom(h, c, s, rest) ==
  IF rest = <<>> THEN Move(h, c, s, "full")
  ELSE IF h.slab[s].activeObjs = 1 THEN Move(h, c, s, "partial")
  ELSE h

(* MemSlabAlloc from a cache that has a free object: the object and the    *)
(* new heap.                                                               *)
Take(h, c) ==
  LET s == Chosen(h, c)
      rest == Tail(h.slab[s].free)
      taken == [h EXCEPT !.slab[s].free = rest, !.slab[s].activeObjs = @ + 1]
  IN  [object |-> <<s, Head(h.slab[s].free)>>, heap |-> TakenFrom(taken, c, s, rest)]

(* MemSlabAlloc of a cache whose slabs have their header inside.           *)
AllocSmall(h, c) == Take(IF HasFree(h, c) THEN h ELSE AddSlab(h, c, NoObject), c)

(* The slabs that allocating from c creates.                               *)
SlabsNeeded(h, c) ==
  IF HasFree(h, c) THEN 0
  ELSE IF Large(c) /\ ~HasFree(h, "header") THEN 2 ELSE 1

(* "Allocate separately"                                                   *)
HeaderFor(h) == AllocSmall(h, "header")

(* MemSlabAlloc                                                            *)
Alloc(h, c) ==
  IF ~HasFree(h, c) /\ Large(c)
  THEN Take(AddSlab(HeaderFor(h).heap, c, HeaderFor(h).object), c)
  ELSE AllocSmall(h, c)

(* "Update active objects" of MemSlabFree                                  *)
Lowered(active) == active - 1

(* MemSlabFree: the slab moves by the count before the object came back.   *)
Free(h, c, o) ==
  LET s == o[1]
      active == h.slab[s].activeObjs
      given == [h EXCEPT !.slab[s].free = <<o[2]>> \o @, !.slab[s].activeObjs = Lowered(active)]
  IN  IF active = PerSlab(c) THEN Move(given, c, s, "partial")
      ELSE IF active = 1 THEN Move(given, c, s, "empty")
      ELSE given

(* Mutant: the headers of large slabs are kept.                            *)
ShrinkKeepsHeaders(h, c) ==
  [h EXCEPT !.slab = [s \in SlabId |-> IF s \in ToSet(h.empty[c]) THEN NoSlab ELSE h.slab[s]]]

(* MemSlabShrink: the slabs are freed and stay on the list.                *)
Shrink(h, c) ==
  FoldLeft(LAMBDA g, s : [IF Large(c) THEN Free(g, "header", h.slab[s].header) ELSE g
                          EXCEPT !.slab[s] = NoSlab],
           h, h.empty[c])

-----------------------------------------------------------------------------
TypeOK ==
  /\ heap.slab \in [SlabId -> [cache : Cache \cup {"none"}, free : Seq(Nat), activeObjs : Nat,
                               header : (SlabId \X Nat) \cup {NoObject}]]
  /\ \A list \in {heap.full, heap.partial, heap.empty} : list \in [Cache -> Seq(SlabId)]
  /\ cache \in [UserCache -> [objectsPerSlab : Nat, large : BOOLEAN,
                              object : (SlabId \X Nat) \cup {NoObject}]]
  /\ live \subseteq SlabId \X Nat /\ broken \in BOOLEAN

Init ==
  LET none == [c \in Cache |-> <<>>]
  IN  /\ heap = [slab |-> [s \in SlabId |-> NoSlab], full |-> none, partial |-> none, empty |-> none]
      /\ cache = [c \in UserCache |-> NoCache]
      /\ live = {} /\ broken = FALSE

(* MemSlabCreate of a size that is not refused; the cache is allocated     *)
(* before the division by the aligned size.                                *)
MemSlabCreate(c, size) ==
  LET aligned == Align4(size)
      made == Alloc(heap, "root")
  IN  /\ cache[c] = NoCache /\ IsAccepted(aligned)
      /\ SlabsNeeded(heap, "root") <= Cardinality(Unused(heap))
      /\ heap' = made.heap
      /\ broken' = (aligned = 0)
      /\ cache' = IF aligned = 0 THEN cache
                  ELSE [cache EXCEPT ![c] =
                          [objectsPerSlab |-> ObjectsPerSlab(PagesPerSlab(aligned), aligned),
                           large |-> IsLarge(aligned), object |-> made.object]]
      /\ UNCHANGED live

MemSlabAlloc(c) ==
  /\ cache[c] # NoCache
  /\ SlabsNeeded(heap, c) <= Cardinality(Unused(heap))
  /\ heap' = Alloc(heap, c).heap
  /\ live' = live \cup {Alloc(heap, c).object}
  /\ UNCHANGED <<cache, broken>>

(* MemSlabFree, and MemKFree, which finds the cache in the slab.           *)
MemSlabFree(o) ==
  /\ o \in live
  /\ heap' = Free(heap, heap.slab[o[1]].cache, o)
  /\ live' = live \ {o}
  /\ UNCHANGED <<cache, broken>>

MemSlabShrink(c) ==
  /\ cache[c] # NoCache
  /\ heap' = Shrink(heap, c)
  /\ broken' = (heap.empty[c] # <<>>)
  /\ UNCHANGED <<cache, live>>

(* MemSlabDestroy of a cache without full or partial slabs.                *)
MemSlabDestroy(c) ==
  LET freed == Free(Shrink(heap, c), "root", cache[c].object)
  IN  /\ cache[c] # NoCache
      /\ heap.full[c] = <<>> /\ heap.partial[c] = <<>>
      /\ heap' = [freed EXCEPT !.empty[c] = <<>>]
      /\ cache' = [cache EXCEPT ![c] = NoCache]
      /\ UNCHANGED <<live, broken>>

Undefined == broken /\ UNCHANGED vars

Next ==
  \/ /\ ~broken
     /\ \/ \E c \in UserCache : \/ \E size \in Sizes : MemSlabCreate(c, size)
                                \/ MemSlabAlloc(c) \/ MemSlabShrink(c) \/ MemSlabDestroy(c)
        \/ \E o \in live : MemSlabFree(o)
  \/ Undefined

Spec == Init /\ [][Next]_vars

-----------------------------------------------------------------------------
(* The objects the allocator itself has taken from its caches.             *)
Headers == {heap.slab[s].header : s \in SlabId} \ {NoObject}

Descriptors == {cache[c].object : c \in UserCache} \ {NoObject}

Used == live \cup Headers \cup Descriptors

(* An object is in use or on the free chain of its slab, never both and    *)
(* never twice, and activeObjs counts the used ones: no object is handed   *)
(* out twice and none is lost, for users, slab headers and caches alike    *)
(* (MemSlabAlloc, MemSlabFree, MemSlabShrink, MemSlabDestroy).             *)
ObjectsAccounted ==
  /\ TypeOK
  /\ ~broken =>
       /\ \A s \in SlabId \ Unused(heap) :
            LET slab == heap.slab[s]
                used == {o \in Used : o[1] = s}
            IN  /\ IsInjective(slab.free)
                /\ slab.activeObjs = Cardinality(used)
                /\ ToSet(slab.free) = (1 .. PerSlab(slab.cache)) \ {o[2] : o \in used}
       /\ \A o \in Used : o[1] \notin Unused(heap)
       /\ Cardinality(Headers) = Cardinality({s \in SlabId : Large(heap.slab[s].cache)})

(* A slab is on one list of its cache, once, and it is the list that its   *)
(* objects call for, so that MemSlabAlloc always finds a free object where *)
(* it looks and MemSlabDestroy frees every slab.  With one object in a     *)
(* slab, an emptied slab goes to the list of partial ones.                 *)
ListsMatchObjects ==
  ~broken =>
    \A c \in Cache :
      /\ IsInjective(heap.full[c] \o heap.partial[c] \o heap.empty[c])
      /\ ToSet(heap.full[c] \o heap.partial[c] \o heap.empty[c]) =
           {s \in SlabId : heap.slab[s].cache = c}
      /\ \A s \in ToSet(heap.full[c]) : heap.slab[s].free = <<>>
      /\ \A s \in ToSet(heap.partial[c]) :
           heap.slab[s].free # <<>> /\ (PerSlab(c) > 1 => heap.slab[s].activeObjs > 0)
      /\ \A s \in ToSet(heap.empty[c]) : heap.slab[s].activeObjs = 0

(* The number of pages that suits objects of a size: the first that wastes *)
(* at most 128 bytes a page, or else the first of those that waste least,  *)
(* among those that hold 8 objects; 8 pages if there is none.              *)
SuitablePages(size) ==
  LET enough == {p \in 1 .. 7 : ObjectsPerSlab(p, size) >= 8}
      good == {p \in enough : Wastage(p, size) <= p * 128}
      least == {p \in enough : \A q \in enough : Wastage(p, size) <= Wastage(q, size)}
  IN  IF good # {} THEN Min(good) ELSE IF least # {} THEN Min(least) ELSE 8

(* The layout of a slab, for every unsigned int a caller can ask for.  The *)
(* sizes that get a cache are those from 1 byte to 4 bytes less than 8     *)
(* pages; the objects are as large as was asked for.  (0 and the three     *)
(* largest are not refused, and divided by.)  The loop of MemSlabCreate    *)
(* ends with the most suitable number of pages, and a slab holds an object *)
(* at least, and 8 when the header is inside.  MemKAlloc picks the         *)
(* smallest of its caches whose objects (8 * 2^i bytes) are large enough.  *)
LayoutsFit ==
  Unused(heap) = SlabId =>
    /\ \A size \in 0 .. UINT_SIZE - 1 :
         IF size \in 1 .. 8 * PAGE_SIZE - 4
         THEN IsAccepted(Align4(size)) /\ Align4(size) \in size .. size + 3
         ELSE IsAccepted(Align4(size)) => Align4(size) = 0
    /\ \A n \in 1 .. 2 * PAGE_SIZE - 1 :
         LET size == 4 * n
             pages == PagesPerSlab(size)
             count == ObjectsPerSlab(pages, size)
         IN  /\ pages = SuitablePages(size)
             /\ count >= IF IsLarge(size) THEN 1 ELSE 8
    /\ \A bytes \in 1 .. 8192 :
         LET i == KAllocIndex(bytes)
         IN  i \in 0 .. 10 /\ 8 * 2^i >= bytes /\ (i > 0 => 4 * 2^i < bytes)
=============================================================================
