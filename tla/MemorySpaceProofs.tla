-------------------------- MODULE MemorySpaceProofs ---------------------------
(***************************************************************************)
(* The invariant of user memory, and that operations on contexts and those *)
(* that map and unmap pages keep it.  MemoryProofs goes on with regions    *)
(* and page faults and has the theorems.                                   *)
(***************************************************************************)
EXTENDS Memory, FiniteSetTheorems, WellFoundedInduction, TLAPS

(* Zenon, unless a step says otherwise                                     *)
USE Zenon

(* The uses of a page: as a directory, as a table and as a mapped page     *)
DirUses(p) == {c \in contexts : directory[c] = p}
TabUses(p) == {c \in contexts : table[c] = p}
MapUses(p) == {x \in contexts \X VPage : entry[x[1]][x[2]].page = p}

(* The count of a page is the number of its uses.                          *)
Counted(p) ==
  phys.refCount[p] = Cardinality(DirUses(p)) + Cardinality(TabUses(p)) + Cardinality(MapUses(p))

(* The state of physical memory has its type and counts its free pages.    *)
PhysOK(ph) ==
  /\ ph \in [refCount : [Page -> Nat], headPtr : [Zone -> Page \cup {0}], free : Nat]
  /\ ph.free = Cardinality({p \in Page : ph.refCount[p] = 0})

(* A context that is not allocated has nothing.                            *)
Empty(c) ==
  /\ directory[c] = 0 /\ table[c] = 0
  /\ entry[c] = [v \in VPage |-> NotPresent]
  /\ regions[c] = <<>>

(* The directory and the table of a context are its own, a context maps a  *)
(* page once, and what may be written without a fault has one use.         *)
PagesOK(c) ==
  /\ directory[c] \in Page /\ phys.refCount[directory[c]] = 1
  /\ table[c] # 0 => phys.refCount[table[c]] = 1
  /\ \A u, v \in VPage : entry[c][u].page = entry[c][v].page /\ entry[c][u].page # 0 => u = v
  /\ \A v \in VPage :
       entry[c][v].writable => entry[c][v].page # 0 /\ phys.refCount[entry[c][v].page] = 1

(* The regions of a context are in the order of their starts, end below    *)
(* the kernel, and contain all that is mapped.                             *)
InSomeRegion(c, v) == \E i \in DOMAIN regions[c] : v \in PagesOf(regions[c][i])

RegionsOK(c) ==
  /\ \A i, j \in DOMAIN regions[c] : i < j => regions[c][i].start < regions[c][j].start
  /\ \A i \in DOMAIN regions[c] : regions[c][i].start + regions[c][i].length <= KernelBase
  /\ \A v \in VPage : entry[c][v].page # 0 => InSomeRegion(c, v)

(* The inductive invariant                                                 *)
IInv ==
  /\ TypeOK
  /\ PhysOK(phys)
  /\ \A p \in Page : Counted(p)
  /\ \A c \in Ctx \ contexts : Empty(c)
  /\ \A c \in contexts : PagesOK(c) /\ RegionsOK(c)

-----------------------------------------------------------------------------
(* A set of naturals that is not empty has a least member.                 *)
LEMMA LeastNat ==
  ASSUME NEW T \in SUBSET Nat, T # {}
  PROVE  \E x \in T : \A y \in T : x <= y
<1> DEFINE R == OpToRel(<, Nat)
<1>1. IsWellFoundedOn(R, Nat)
  BY NatLessThanWellFounded
<1> HIDE DEF R
<1>2. PICK x \in T : \A y \in T : ~ (<<y, x>> \in R)
  BY <1>1, WFMin
<1>3. ASSUME NEW y \in T PROVE x <= y
  <2>1. <<y, x>> \notin R /\ x \in Nat /\ y \in Nat
    BY <1>2
  <2>2. ~(y < x)
    BY <2>1 DEF R, OpToRel
  <2> QED
    BY <2>1, <2>2, SMT
<1> QED
  BY <1>3

(* Pages and zones are numbers, and the pages of a zone are pages.         *)
LEMMA ZoneFacts ==
  ASSUME NEW z \in Zone
  PROVE  /\ ZoneStart(z) \in Nat \ {0} /\ ZoneSize[z] \in Nat
         /\ \A i \in 0 .. ZoneSize[z] - 1 : ZoneStart(z) + i \in Page
<1>1. /\ z \in {0, 1, 2}
      /\ ZoneSize[0] \in Nat /\ ZoneSize[1] \in Nat /\ ZoneSize[2] \in Nat
  BY MemoryAssumption, SMT DEF Zone, MEM_DMA, MEM_KERNEL, MEM_HIGHMEM
<1>2. /\ ZoneStart(0) = 1 /\ ZoneStart(1) = 1 + ZoneSize[0]
      /\ ZoneStart(2) = 1 + ZoneSize[0] + ZoneSize[1]
  BY SMT DEF ZoneStart, MEM_DMA, MEM_KERNEL, MEM_HIGHMEM
<1> DEFINE a == ZoneSize[0]
           b == ZoneSize[1]
           h == ZoneSize[2]
<1>3. a \in Nat /\ b \in Nat /\ h \in Nat
  BY <1>1
<1>4. Page = 1 .. a + b + h
  <2>1. Page = 1 .. (1 + a + b) + h - 1
    BY <1>2 DEF Page, MEM_HIGHMEM
  <2> HIDE DEF a, b, h
  <2>2. (1 + a + b) + h - 1 = a + b + h
    BY <1>3, SMT
  <2> QED
    BY <2>1, <2>2
<1>5. \/ ZoneStart(z) = 1 /\ ZoneSize[z] = a
      \/ ZoneStart(z) = 1 + a /\ ZoneSize[z] = b
      \/ ZoneStart(z) = 1 + a + b /\ ZoneSize[z] = h
  BY <1>1, <1>2
<1> HIDE DEF a, b, h
<1>6. ZoneStart(z) \in Nat \ {0} /\ ZoneSize[z] \in Nat
  BY <1>3, <1>5, SMT
<1>7. ASSUME NEW i \in 0 .. ZoneSize[z] - 1 PROVE ZoneStart(z) + i \in Page
  BY <1>3, <1>4, <1>5, SMT
<1> QED
  BY <1>6, <1>7

(* Page 0 is no page, and there are finitely many pages.                   *)
LEMMA PageFacts == Page \subseteq Nat \ {0} /\ IsFiniteSet(Page) /\ IsFiniteSet(VPage)
<1>1. ZoneStart(2) + ZoneSize[2] - 1 \in Int
  BY ZoneFacts, SMT DEF Zone, MEM_DMA, MEM_HIGHMEM
<1>2. KernelBase - 1 \in Int
  BY MemoryAssumption, SMT
<1>3. IsFiniteSet(Page) /\ IsFiniteSet(VPage)
  BY <1>1, <1>2, FS_Interval, SMT DEF Page, VPage, MEM_HIGHMEM
<1>4. Page \subseteq Nat \ {0}
  BY <1>1, SMT DEF Page, MEM_HIGHMEM
<1> QED
  BY <1>3, <1>4

(* The search of MemPhysicalAlloc stays in the zone.                       *)
LEMMA PageAtType ==
  ASSUME NEW ph, ph.headPtr \in [Zone -> Page \cup {0}], NEW z \in Zone, ZoneSize[z] > 0,
         NEW i \in 0 .. ZoneSize[z] - 1
  PROVE  PageAt(ph, z, i) \in Page
<1> DEFINE x == ph.headPtr[z] - ZoneStart(z) + i
           n == ZoneSize[z]
<1>1. ZoneStart(z) \in Nat /\ n \in Nat /\ n > 0 /\ i \in Nat
  BY ZoneFacts, SMT
<1>2. ph.headPtr[z] \in Nat
  <2>1. ph.headPtr[z] \in Page \cup {0}
    OBVIOUS
  <2>2. Page \cup {0} \subseteq Nat
    BY PageFacts, SMT
  <2> QED
    BY <2>1, <2>2
<1>3. x \in Int
  BY <1>1, <1>2, SMT
<1>4. PageAt(ph, z, i) = ZoneStart(z) + (x % n)
  BY DEF PageAt
<1> HIDE DEF x
<1>5. x % n \in 0 .. n - 1
  BY <1>1, <1>3, SMT
<1> QED
  BY <1>4, <1>5, ZoneFacts

(* One free page less, one more, or several more                           *)
LEMMA FreeCount ==
  ASSUME NEW f \in [Page -> Nat], NEW g \in [Page -> Nat], NEW S \in SUBSET Page,
         \A p \in Page : g[p] = 0 <=> f[p] = 0 \/ p \in S,
         \A p \in S : f[p] # 0
  PROVE  /\ IsFiniteSet(S) /\ Cardinality(S) \in Nat
         /\ Cardinality({p \in Page : f[p] = 0}) \in Nat
         /\ Cardinality({p \in Page : g[p] = 0}) =
              Cardinality({p \in Page : f[p] = 0}) + Cardinality(S)
<1> DEFINE F == {p \in Page : f[p] = 0}
           G == {p \in Page : g[p] = 0}
<1>1. IsFiniteSet(F) /\ IsFiniteSet(S)
  <2>1. F \in SUBSET Page
    OBVIOUS
  <2> QED
    BY <2>1, PageFacts, FS_Subset
<1>2. G = F \cup S /\ F \cap S = {}
  OBVIOUS
<1>3. Cardinality(F \cap S) = 0
  BY <1>2, FS_EmptySet
<1>4. Cardinality(F) \in Nat /\ Cardinality(S) \in Nat
  BY <1>1, FS_CardinalityType
<1>5. Cardinality(G) = Cardinality(F) + Cardinality(S) - Cardinality(F \cap S)
  BY <1>1, <1>2, FS_Union
<1> QED
  BY <1>1, <1>3, <1>4, <1>5, SMT

(* MemPhysicalAlloc gives out a page without references, or none.          *)
LEMMA AllocFacts ==
  ASSUME NEW ph, PhysOK(ph), NEW zone \in Zone
  PROVE  LET a == PhysicalAlloc(ph, zone)
         IN  /\ a.page = 0 => a.phys = ph
             /\ a.page # 0 => /\ a.page \in Page /\ ph.refCount[a.page] = 0
                              /\ PhysOK(a.phys)
                              /\ a.phys.refCount = [ph.refCount EXCEPT ![a.page] = 1]
<1> DEFINE a == PhysicalAlloc(ph, zone)
           free == [z \in MEM_DMA .. zone |-> FreeIn(ph, z)]
           ends == {z \in MEM_DMA .. zone :
                      ZoneSize[z] > 0 /\ (free[z] # {} \/ ph.headPtr[z] = ZoneStart(z))}
           z == CHOOSE y \in ends : \A x \in ends : x <= y
           i == CHOOSE k \in free[z] : \A j \in free[z] : k <= j
           p == PageAt(ph, z, i)
<1> SUFFICES /\ a.page = 0 => a.phys = ph
             /\ a.page # 0 => /\ a.page \in Page /\ ph.refCount[a.page] = 0
                              /\ PhysOK(a.phys)
                              /\ a.phys.refCount = [ph.refCount EXCEPT ![a.page] = 1]
  OBVIOUS
<1>1. a = IF ends = {} \/ free[z] = {}
          THEN [page |-> 0, phys |-> ph]
          ELSE [page |-> p,
                phys |-> [refCount |-> [ph.refCount EXCEPT ![p] = 1],
                          headPtr  |-> [ph.headPtr EXCEPT ![z] = p],
                          free     |-> ph.free - 1]]
  BY SMT DEF PhysicalAlloc
<1> HIDE DEF a, free, ends, z, i, p
<1>2. /\ ph.refCount \in [Page -> Nat] /\ ph.headPtr \in [Zone -> Page \cup {0}]
      /\ ph.free \in Nat /\ ph.free = Cardinality({q \in Page : ph.refCount[q] = 0})
  BY DEF PhysOK
<1>3. CASE ends = {} \/ free[z] = {}
  <2>1. a.page = 0 /\ a.phys = ph
    BY <1>1, <1>3
  <2> QED
    BY <2>1
<1>4. CASE ends # {} /\ free[z] # {}
  <2>1. z \in ends
    <3>1. ends \subseteq {0, 1, 2}
      BY SMT DEF ends, MEM_DMA, Zone, MEM_HIGHMEM
    <3>2. \E y \in ends : \A x \in ends : x <= y
      <4>1. CASE 2 \in ends
        BY <3>1, <4>1, SMT
      <4>2. CASE 2 \notin ends /\ 1 \in ends
        BY <3>1, <4>2, SMT
      <4>3. CASE 2 \notin ends /\ 1 \notin ends
        <5>1. ends = {0}
          BY <1>4, <3>1, <4>3
        <5> QED
          BY <5>1, SMT
      <4> QED
        BY <4>1, <4>2, <4>3
    <3> QED
      BY <3>2 DEF z
  <2>2. z \in MEM_DMA .. zone /\ ZoneSize[z] > 0 /\ z \in Zone
    BY <2>1, SMT DEF ends, Zone, MEM_DMA, MEM_HIGHMEM
  <2>3. free[z] = {k \in 0 .. ZoneSize[z] - 1 : ph.refCount[PageAt(ph, z, k)] = 0}
    BY <2>2 DEF free, FreeIn
  <2>4. ZoneSize[z] \in Nat
    BY <2>2, ZoneFacts
  <2>5. i \in free[z]
    <3>1. free[z] \in SUBSET Nat
      BY <2>3, <2>4, SMT
    <3>2. \E k \in free[z] : \A j \in free[z] : k <= j
      BY <1>4, <3>1, LeastNat
    <3> QED
      BY <3>2 DEF i
  <2>6. p \in Page /\ ph.refCount[p] = 0
    BY <1>2, <2>2, <2>3, <2>5, PageAtType DEF p
  <2>7. /\ a.page = p
        /\ a.phys = [refCount |-> [ph.refCount EXCEPT ![p] = 1],
                     headPtr  |-> [ph.headPtr EXCEPT ![z] = p],
                     free     |-> ph.free - 1]
    BY <1>1, <1>4
  <2> DEFINE f == a.phys.refCount
             g == ph.refCount
  <2>8. f = [ph.refCount EXCEPT ![p] = 1] /\ f \in [Page -> Nat]
    BY <1>2, <2>6, <2>7, SMT
  <2>9. PICK S : S = {p}
    OBVIOUS
  <2>10. /\ Cardinality({q \in Page : f[q] = 0}) \in Nat
         /\ ph.free = Cardinality({q \in Page : f[q] = 0}) + 1
    <3>1. /\ \A q \in Page : g[q] = 0 <=> f[q] = 0 \/ q \in S
          /\ \A q \in S : f[q] # 0
      BY <1>2, <2>6, <2>8, <2>9, SMT
    <3>2. f \in [Page -> Nat] /\ g \in [Page -> Nat] /\ S \in SUBSET Page
      BY <1>2, <2>6, <2>8, <2>9
    <3> HIDE DEF f, g
    <3>3. /\ Cardinality({q \in Page : f[q] = 0}) \in Nat
          /\ Cardinality({q \in Page : g[q] = 0}) =
               Cardinality({q \in Page : f[q] = 0}) + Cardinality(S)
      BY <3>1, <3>2, FreeCount, SMT
    <3>4. Cardinality(S) = 1
      BY <2>9, FS_Singleton
    <3> QED
      BY <1>2, <3>3, <3>4 DEF g
  <2>11. /\ a.phys.free = ph.free - 1 /\ a.phys.headPtr = [ph.headPtr EXCEPT ![z] = p]
         /\ a.phys.refCount = f
    BY <2>7, SMT
  <2> HIDE DEF f
  <2>12. ph.free - 1 = Cardinality({q \in Page : f[q] = 0})
    BY <2>10, SMT
  <2>13. a.phys \in [refCount : [Page -> Nat], headPtr : [Zone -> Page \cup {0}], free : Nat]
    BY <1>2, <2>2, <2>6, <2>7, <2>8, <2>10, <2>12, SMT
  <2>14. PhysOK(a.phys)
    BY <2>11, <2>12, <2>13 DEF PhysOK
  <2>15. a.page \in Page /\ ph.refCount[a.page] = 0 /\ a.page # 0
    <3>1. a.page = p
      BY <2>7
    <3> QED
      BY <2>6, <3>1, PageFacts
  <2>16. a.phys.refCount = [ph.refCount EXCEPT ![a.page] = 1]
    <3>1. a.page = p
      BY <2>7
    <3> QED
      BY <2>8, <2>11, <3>1
  <2> QED
    BY <2>14, <2>15, <2>16
<1> QED
  BY <1>3, <1>4

(* One reference more to each page of S, all of which have some            *)
LEMMA AddRefFacts ==
  ASSUME NEW ph, PhysOK(ph), NEW S \in SUBSET Page, \A p \in S : ph.refCount[p] # 0
  PROVE  /\ PhysOK(PhysicalAddRef(ph, S))
         /\ \A p \in Page : PhysicalAddRef(ph, S).refCount[p] =
              IF p \in S THEN ph.refCount[p] + 1 ELSE ph.refCount[p]
<1> DEFINE f == [p \in Page |-> IF p \in S THEN ph.refCount[p] + 1 ELSE ph.refCount[p]]
<1>1. ph \in [refCount : [Page -> Nat], headPtr : [Zone -> Page \cup {0}], free : Nat]
      /\ ph.refCount \in [Page -> Nat]
  BY DEF PhysOK
<1>2. PhysicalAddRef(ph, S) = [ph EXCEPT !.refCount = f]
  BY <1>1 DEF PhysicalAddRef
<1>3. f \in [Page -> Nat]
  BY <1>1, SMT
<1>4. {p \in Page : f[p] = 0} = {p \in Page : ph.refCount[p] = 0}
  BY <1>1, SMT
<1>5. \A p \in Page : f[p] = IF p \in S THEN ph.refCount[p] + 1 ELSE ph.refCount[p]
  OBVIOUS
<1> HIDE DEF f
<1>6. /\ PhysicalAddRef(ph, S) \in
           [refCount : [Page -> Nat], headPtr : [Zone -> Page \cup {0}], free : Nat]
      /\ PhysicalAddRef(ph, S).refCount = f /\ PhysicalAddRef(ph, S).free = ph.free
  BY <1>1, <1>2, <1>3
<1> QED
  BY <1>4, <1>5, <1>6 DEF PhysOK

(* One reference less: pages with one become free.                         *)
LEMMA DeleteRefFacts ==
  ASSUME NEW ph, PhysOK(ph), NEW S \in SUBSET Page, \A p \in S : ph.refCount[p] # 0
  PROVE  /\ PhysOK(PhysicalDeleteRef(ph, S))
         /\ \A p \in Page : PhysicalDeleteRef(ph, S).refCount[p] =
              IF p \in S THEN ph.refCount[p] - 1 ELSE ph.refCount[p]
<1> DEFINE f == [p \in Page |-> IF p \in S /\ ph.refCount[p] > 0
                                THEN ph.refCount[p] - 1 ELSE ph.refCount[p]]
           U == {p \in S : ph.refCount[p] = 1}
<1>1. /\ ph \in [refCount : [Page -> Nat], headPtr : [Zone -> Page \cup {0}], free : Nat]
      /\ ph.refCount \in [Page -> Nat] /\ ph.free \in Nat
      /\ ph.free = Cardinality({p \in Page : ph.refCount[p] = 0})
  BY DEF PhysOK
<1>2. PhysicalDeleteRef(ph, S) = [ph EXCEPT !.refCount = f, !.free = ph.free + Cardinality(U)]
  BY <1>1 DEF PhysicalDeleteRef
<1>3. f \in [Page -> Nat]
  BY <1>1, SMT
<1>4. \A p \in Page : f[p] = IF p \in S THEN ph.refCount[p] - 1 ELSE ph.refCount[p]
  BY <1>1, SMT
<1>5. /\ U \in SUBSET Page /\ \A p \in U : ph.refCount[p] # 0
      /\ \A p \in Page : f[p] = 0 <=> ph.refCount[p] = 0 \/ p \in U
  BY <1>1, <1>4, SMT
<1> HIDE DEF f, U
<1>6. /\ Cardinality(U) \in Nat
      /\ Cardinality({p \in Page : f[p] = 0}) = ph.free + Cardinality(U)
  <2> DEFINE g == ph.refCount
  <2>1. /\ g \in [Page -> Nat] /\ \A p \in U : g[p] # 0
        /\ \A p \in Page : f[p] = 0 <=> g[p] = 0 \/ p \in U
    BY <1>1, <1>5
  <2> HIDE DEF g
  <2>2. /\ Cardinality(U) \in Nat
        /\ Cardinality({p \in Page : f[p] = 0}) =
             Cardinality({p \in Page : g[p] = 0}) + Cardinality(U)
    BY <1>3, <1>5, <2>1, FreeCount
  <2> QED
    BY <1>1, <2>2 DEF g
<1>7. /\ PhysicalDeleteRef(ph, S) \in
           [refCount : [Page -> Nat], headPtr : [Zone -> Page \cup {0}], free : Nat]
      /\ PhysicalDeleteRef(ph, S).refCount = f
      /\ PhysicalDeleteRef(ph, S).free = ph.free + Cardinality(U)
  <2> DEFINE n == ph.free + Cardinality(U)
  <2>1. n \in Nat
    BY <1>1, <1>6, SMT
  <2> HIDE DEF n
  <2>2. PhysicalDeleteRef(ph, S) = [ph EXCEPT !.refCount = f, !.free = n]
    BY <1>2 DEF n
  <2> QED
    BY <1>1, <1>3, <2>1, <2>2 DEF n
<1> QED
  BY <1>4, <1>6, <1>7 DEF PhysOK

(* Pages in use become free.                                               *)
LEMMA PhysicalFreeFacts ==
  ASSUME NEW ph, PhysOK(ph), NEW S \in SUBSET Page, \A p \in S : ph.refCount[p] # 0
  PROVE  /\ PhysOK(PhysicalFree(ph, S))
         /\ \A p \in Page : PhysicalFree(ph, S).refCount[p] =
              IF p \in S THEN 0 ELSE ph.refCount[p]
<1> DEFINE f == [p \in Page |-> IF p \in S THEN 0 ELSE ph.refCount[p]]
<1>1. /\ ph \in [refCount : [Page -> Nat], headPtr : [Zone -> Page \cup {0}], free : Nat]
      /\ ph.refCount \in [Page -> Nat] /\ ph.free \in Nat
      /\ ph.free = Cardinality({p \in Page : ph.refCount[p] = 0})
  BY DEF PhysOK
<1>2. PhysicalFree(ph, S) = [ph EXCEPT !.refCount = f, !.free = ph.free + Cardinality(S)]
  BY <1>1 DEF PhysicalFree
<1>3. f \in [Page -> Nat]
  BY <1>1
<1>4. \A p \in Page : f[p] = IF p \in S THEN 0 ELSE ph.refCount[p]
  OBVIOUS
<1>5. \A p \in Page : f[p] = 0 <=> ph.refCount[p] = 0 \/ p \in S
  BY <1>1, <1>4
<1> HIDE DEF f
<1>6. /\ Cardinality(S) \in Nat
      /\ Cardinality({p \in Page : f[p] = 0}) = ph.free + Cardinality(S)
  <2> DEFINE g == ph.refCount
  <2>1. /\ g \in [Page -> Nat] /\ \A p \in S : g[p] # 0
        /\ \A p \in Page : f[p] = 0 <=> g[p] = 0 \/ p \in S
    BY <1>1, <1>5
  <2> HIDE DEF g
  <2>2. /\ Cardinality(S) \in Nat
        /\ Cardinality({p \in Page : f[p] = 0}) =
             Cardinality({p \in Page : g[p] = 0}) + Cardinality(S)
    BY <1>3, <1>5, <2>1, FreeCount
  <2> QED
    BY <1>1, <2>2 DEF g
<1>7. /\ PhysicalFree(ph, S) \in
           [refCount : [Page -> Nat], headPtr : [Zone -> Page \cup {0}], free : Nat]
      /\ PhysicalFree(ph, S).refCount = f
      /\ PhysicalFree(ph, S).free = ph.free + Cardinality(S)
  <2> DEFINE n == ph.free + Cardinality(S)
  <2>1. n \in Nat
    BY <1>1, <1>6, SMT
  <2> HIDE DEF n
  <2>2. PhysicalFree(ph, S) = [ph EXCEPT !.refCount = f, !.free = n]
    BY <1>2 DEF n
  <2> QED
    BY <1>1, <1>3, <2>1, <2>2 DEF n
<1> QED
  BY <1>4, <1>6, <1>7 DEF PhysOK

-----------------------------------------------------------------------------
(* The uses of a page are finite sets.                                     *)
LEMMA UsesFinite ==
  ASSUME contexts \subseteq Ctx, NEW p
  PROVE  /\ IsFiniteSet(DirUses(p)) /\ Cardinality(DirUses(p)) \in Nat
         /\ IsFiniteSet(TabUses(p)) /\ Cardinality(TabUses(p)) \in Nat
         /\ IsFiniteSet(MapUses(p)) /\ Cardinality(MapUses(p)) \in Nat
<1>1. IsFiniteSet(contexts)
  BY MemoryAssumption, FS_Subset
<1>2. IsFiniteSet(contexts \X VPage)
  BY <1>1, PageFacts, FS_Product
<1>3. /\ DirUses(p) \in SUBSET contexts /\ TabUses(p) \in SUBSET contexts
      /\ MapUses(p) \in SUBSET (contexts \X VPage)
  BY DEF DirUses, TabUses, MapUses
<1>4. IsFiniteSet(DirUses(p)) /\ IsFiniteSet(TabUses(p)) /\ IsFiniteSet(MapUses(p))
  BY <1>1, <1>2, <1>3, FS_Subset
<1> QED
  BY <1>4, FS_CardinalityType

(* What the count of a page says of its uses                               *)
LEMMA CountedFacts ==
  ASSUME contexts \subseteq Ctx, NEW p, Counted(p)
  PROVE  /\ DirUses(p) # {} \/ TabUses(p) # {} \/ MapUses(p) # {} =>
              phys.refCount[p] # 0
         /\ phys.refCount[p] = 1 =>
              /\ MapUses(p) # {} => DirUses(p) = {} /\ TabUses(p) = {}
              /\ TabUses(p) # {} => DirUses(p) = {} /\ MapUses(p) = {}
              /\ DirUses(p) # {} => TabUses(p) = {} /\ MapUses(p) = {}
              /\ \A x, y \in MapUses(p) : x = y
              /\ \A x, y \in TabUses(p) : x = y
              /\ \A x, y \in DirUses(p) : x = y
<1> DEFINE d == Cardinality(DirUses(p))
           t == Cardinality(TabUses(p))
           m == Cardinality(MapUses(p))
<1>1. d \in Nat /\ t \in Nat /\ m \in Nat /\ phys.refCount[p] = d + t + m
  BY UsesFinite DEF Counted
<1>2. /\ d = 0 <=> DirUses(p) = {}
      /\ t = 0 <=> TabUses(p) = {}
      /\ m = 0 <=> MapUses(p) = {}
  BY UsesFinite, FS_EmptySet
<1>3. /\ d = 1 => \E x : DirUses(p) = {x}
      /\ t = 1 => \E x : TabUses(p) = {x}
      /\ m = 1 => \E x : MapUses(p) = {x}
  BY UsesFinite, FS_Singleton
<1> HIDE DEF d, t, m
<1>4. ASSUME phys.refCount[p] = 1
      PROVE  \/ d = 1 /\ t = 0 /\ m = 0
             \/ d = 0 /\ t = 1 /\ m = 0
             \/ d = 0 /\ t = 0 /\ m = 1
  BY <1>1, <1>4, SMT
<1>5. phys.refCount[p] = 0 => d = 0 /\ t = 0 /\ m = 0
  BY <1>1, SMT
<1>6. DirUses(p) # {} \/ TabUses(p) # {} \/ MapUses(p) # {} => phys.refCount[p] # 0
  BY <1>2, <1>5
<1>7. ASSUME phys.refCount[p] = 1
      PROVE  /\ MapUses(p) # {} => DirUses(p) = {} /\ TabUses(p) = {}
             /\ TabUses(p) # {} => DirUses(p) = {} /\ MapUses(p) = {}
             /\ DirUses(p) # {} => TabUses(p) = {} /\ MapUses(p) = {}
             /\ \A x, y \in MapUses(p) : x = y
             /\ \A x, y \in TabUses(p) : x = y
             /\ \A x, y \in DirUses(p) : x = y
  <2>1. CASE d = 1 /\ t = 0 /\ m = 0
    BY <1>2, <1>3, <2>1
  <2>2. CASE d = 0 /\ t = 1 /\ m = 0
    BY <1>2, <1>3, <2>2
  <2>3. CASE d = 0 /\ t = 0 /\ m = 1
    BY <1>2, <1>3, <2>3
  <2> QED
    BY <1>4, <1>7, <2>1, <2>2, <2>3
<1> QED
  BY <1>6, <1>7

(* One use of p more, or one less, and nothing else                        *)
SameUses(p) ==
  DirUses(p)' = DirUses(p) /\ TabUses(p)' = TabUses(p) /\ MapUses(p)' = MapUses(p)

OneMore(p) ==
  \/ /\ \E x : x \notin DirUses(p) /\ DirUses(p)' = DirUses(p) \cup {x}
     /\ TabUses(p)' = TabUses(p) /\ MapUses(p)' = MapUses(p)
  \/ /\ \E x : x \notin TabUses(p) /\ TabUses(p)' = TabUses(p) \cup {x}
     /\ DirUses(p)' = DirUses(p) /\ MapUses(p)' = MapUses(p)
  \/ /\ \E x : x \notin MapUses(p) /\ MapUses(p)' = MapUses(p) \cup {x}
     /\ DirUses(p)' = DirUses(p) /\ TabUses(p)' = TabUses(p)

OneLess(p) ==
  \/ /\ \E x : x \in DirUses(p) /\ DirUses(p)' = DirUses(p) \ {x}
     /\ TabUses(p)' = TabUses(p) /\ MapUses(p)' = MapUses(p)
  \/ /\ \E x : x \in TabUses(p) /\ TabUses(p)' = TabUses(p) \ {x}
     /\ DirUses(p)' = DirUses(p) /\ MapUses(p)' = MapUses(p)
  \/ /\ \E x : x \in MapUses(p) /\ MapUses(p)' = MapUses(p) \ {x}
     /\ DirUses(p)' = DirUses(p) /\ TabUses(p)' = TabUses(p)

(* The count goes with the uses.                                           *)
LEMMA CountChange ==
  ASSUME contexts \subseteq Ctx, NEW p, Counted(p),
         \/ SameUses(p) /\ phys'.refCount[p] = phys.refCount[p]
         \/ OneMore(p) /\ phys'.refCount[p] = phys.refCount[p] + 1
         \/ OneLess(p) /\ phys'.refCount[p] = phys.refCount[p] - 1
  PROVE  Counted(p)'
<1> DEFINE d == Cardinality(DirUses(p))
           t == Cardinality(TabUses(p))
           m == Cardinality(MapUses(p))
           n == Cardinality(DirUses(p)') + Cardinality(TabUses(p)') + Cardinality(MapUses(p)')
<1>1. d \in Nat /\ t \in Nat /\ m \in Nat /\ phys.refCount[p] = d + t + m
  BY UsesFinite DEF Counted
<1>2. SUFFICES phys'.refCount[p] = n
  BY DEF Counted
<1>3. CASE SameUses(p) /\ phys'.refCount[p] = phys.refCount[p]
  BY <1>1, <1>3 DEF SameUses
<1>4. CASE OneMore(p) /\ phys'.refCount[p] = phys.refCount[p] + 1
  <2>1. ASSUME NEW S, IsFiniteSet(S), NEW x, x \notin S
        PROVE  Cardinality(S \cup {x}) = Cardinality(S) + 1
    BY <2>1, FS_AddElement
  <2>2. \/ n = (d + 1) + t + m
        \/ n = d + (t + 1) + m
        \/ n = d + t + (m + 1)
    BY <1>4, <2>1, UsesFinite DEF OneMore
  <2> HIDE DEF d, t, m, n
  <2> QED
    BY <1>1, <1>4, <2>2, SMT
<1>5. CASE OneLess(p) /\ phys'.refCount[p] = phys.refCount[p] - 1
  <2>1. ASSUME NEW S, IsFiniteSet(S), NEW x, x \in S
        PROVE  Cardinality(S \ {x}) = Cardinality(S) - 1
    BY <2>1, FS_RemoveElement
  <2>2. \/ n = (d - 1) + t + m
        \/ n = d + (t - 1) + m
        \/ n = d + t + (m - 1)
    BY <1>5, <2>1, UsesFinite DEF OneLess
  <2> HIDE DEF d, t, m, n
  <2> QED
    BY <1>1, <1>5, <2>2, SMT
<1> QED
  BY <1>3, <1>4, <1>5

-----------------------------------------------------------------------------
(* The types that the proofs use most                                      *)
LEMMA TypeFacts ==
  ASSUME TypeOK
  PROVE  /\ contexts \subseteq Ctx
         /\ \A c \in contexts : c \in Ctx
         /\ \A c \in Ctx : /\ directory[c] \in Page \cup {0} /\ table[c] \in Page \cup {0}
                           /\ \A v \in VPage : /\ entry[c][v].page \in Page \cup {0}
                                               /\ entry[c][v].writable \in BOOLEAN
         /\ 0 \notin Page
<1>1. 0 \notin Page
  BY PageFacts
<1> QED
  BY <1>1, SMT DEF TypeOK

(* A page without references is used by nobody.                            *)
LEMMA UnusedPage ==
  ASSUME IInv, NEW p \in Page, phys.refCount[p] = 0, NEW c \in contexts
  PROVE  /\ directory[c] # p /\ table[c] # p
         /\ \A v \in VPage : entry[c][v].page # p
<1>1. contexts \subseteq Ctx /\ Counted(p)
  BY TypeFacts DEF IInv
<1>2. DirUses(p) = {} /\ TabUses(p) = {} /\ MapUses(p) = {}
  BY <1>1, CountedFacts
<1>3. directory[c] # p /\ table[c] # p
  BY <1>2 DEF DirUses, TabUses
<1>4. ASSUME NEW v \in VPage, entry[c][v].page = p PROVE FALSE
  <2>1. <<c, v>> \in MapUses(p)
    BY <1>4 DEF MapUses
  <2> QED
    BY <1>2, <2>1
<1> QED
  BY <1>3, <1>4

(* A page that somebody maps has references and is no directory or table.  *)
(* With one reference only, it is mapped nowhere else.                     *)
LEMMA MappedPage ==
  ASSUME IInv, NEW c \in contexts, NEW v \in VPage, entry[c][v].page # 0
  PROVE  /\ entry[c][v].page \in Page /\ phys.refCount[entry[c][v].page] \in Nat \ {0}
         /\ \A d \in contexts : entry[c][v].page \notin {directory[d], table[d]}
         /\ phys.refCount[entry[c][v].page] = 1 =>
              \A d \in contexts, u \in VPage : entry[d][u].page = entry[c][v].page => d = c /\ u = v
<1>1. PICK p \in Page : p = entry[c][v].page
  BY TypeFacts DEF IInv
<1>2. contexts \subseteq Ctx /\ Counted(p) /\ phys.refCount[p] \in Nat
  BY TypeFacts DEF IInv, TypeOK
<1>3. <<c, v>> \in MapUses(p)
  BY <1>1 DEF MapUses
<1>4. phys.refCount[p] # 0
  BY <1>2, <1>3, CountedFacts
<1>5. ASSUME NEW d \in contexts PROVE p \notin {directory[d], table[d]}
  <2>1. CASE directory[d] = p
    <3>1. d \in DirUses(p) /\ phys.refCount[p] = 1
      BY <2>1 DEF DirUses, IInv, PagesOK
    <3> QED
      BY <1>2, <1>3, <3>1, CountedFacts, SMT
  <2>2. CASE table[d] = p
    <3>1. d \in TabUses(p) /\ phys.refCount[p] = 1
      BY <1>1, <2>2 DEF TabUses, IInv, PagesOK
    <3> QED
      BY <1>2, <1>3, <3>1, CountedFacts, SMT
  <2> QED
    BY <2>1, <2>2
<1>6. ASSUME phys.refCount[p] = 1, NEW d \in contexts, NEW u \in VPage, entry[d][u].page = p
      PROVE  d = c /\ u = v
  <2>1. <<d, u>> \in MapUses(p)
    BY <1>6 DEF MapUses
  <2>2. <<d, u>> = <<c, v>>
    BY <1>2, <1>3, <1>6, <2>1, CountedFacts
  <2> QED
    BY <2>2
<1> QED
  BY <1>1, <1>2, <1>4, <1>5, <1>6

(* Nobody else uses the directory and the table of a context.              *)
LEMMA OwnPages ==
  ASSUME IInv, NEW c \in contexts, NEW d \in contexts
  PROVE  /\ directory[c] \in Page /\ phys.refCount[directory[c]] = 1
         /\ directory[d] = directory[c] => d = c
         /\ directory[d] # table[c]
         /\ table[c] # 0 => /\ table[c] \in Page /\ phys.refCount[table[c]] = 1
                            /\ table[d] = table[c] => d = c
<1>1. contexts \subseteq Ctx /\ (\A p \in Page : Counted(p)) /\ 0 \notin Page
  BY TypeFacts DEF IInv
<1>2. /\ directory[c] \in Page /\ phys.refCount[directory[c]] = 1
      /\ directory[d] \in Page /\ phys.refCount[directory[d]] = 1
      /\ table[c] # 0 => table[c] \in Page /\ phys.refCount[table[c]] = 1
  BY TypeFacts DEF IInv, PagesOK
<1>3. PICK p \in Page : p = directory[c]
  BY <1>2
<1>4. directory[d] = p => d = c
  <2>1. c \in DirUses(p)
    BY <1>3 DEF DirUses
  <2>2. directory[d] = p => d \in DirUses(p)
    BY DEF DirUses
  <2>3. Counted(p) /\ phys.refCount[p] = 1
    BY <1>1, <1>2, <1>3
  <2> QED
    BY <1>1, <2>1, <2>2, <2>3, CountedFacts
<1>5. ASSUME directory[d] = table[c] PROVE FALSE
  <2>1. PICK q \in Page : q = directory[d]
    BY <1>2
  <2>2. d \in DirUses(q) /\ c \in TabUses(q)
    BY <1>5, <2>1 DEF DirUses, TabUses
  <2>3. Counted(q) /\ phys.refCount[q] = 1
    BY <1>1, <1>2, <2>1
  <2> QED
    BY <1>1, <2>2, <2>3, CountedFacts
<1>6. ASSUME table[c] # 0, table[d] = table[c] PROVE d = c
  <2>1. PICK q \in Page : q = table[c]
    BY <1>2, <1>6
  <2>2. d \in TabUses(q) /\ c \in TabUses(q)
    BY <1>6, <2>1 DEF TabUses
  <2>3. Counted(q) /\ phys.refCount[q] = 1
    BY <1>1, <1>2, <1>6, <2>1
  <2> QED
    BY <1>1, <2>2, <2>3, CountedFacts
<1> QED
  BY <1>2, <1>3, <1>4, <1>5, <1>6

(* The regions of c are as they were and no page of it is mapped that was  *)
(* not, or that is in no region.                                           *)
LEMMA RegionsKept ==
  ASSUME NEW c, RegionsOK(c), regions'[c] = regions[c],
         \A v \in VPage : entry'[c][v].page # 0 => entry[c][v].page # 0 \/ InSomeRegion(c, v)
  PROVE  RegionsOK(c)'
BY DEF RegionsOK, InSomeRegion, PagesOf

(* A step that changes no page of c                                        *)
LEMMA PagesKept ==
  ASSUME NEW c, PagesOK(c), directory'[c] = directory[c], table'[c] = table[c],
         entry'[c] = entry[c],
         phys'.refCount[directory[c]] = phys.refCount[directory[c]],
         table[c] # 0 => phys'.refCount[table[c]] = phys.refCount[table[c]],
         \A v \in VPage : entry[c][v].writable =>
           phys'.refCount[entry[c][v].page] = phys.refCount[entry[c][v].page]
  PROVE  PagesOK(c)'
BY SMTT(20) DEF PagesOK

(* The kernel stops, or only the current context changes.                  *)
LEMMA SpaceUnchanged ==
  ASSUME IInv, UNCHANGED <<phys, spaceVars>>, contents' \in [Page -> Value],
         current' \in contexts \cup {Kernel}, stopped' \in BOOLEAN
  PROVE  IInv'
<1> USE DEF spaceVars
<1>1. TypeOK' /\ PhysOK(phys)'
  BY DEF IInv, TypeOK, PhysOK
<1>2. \A p \in Page : Counted(p)'
  BY DEF IInv, Counted, DirUses, TabUses, MapUses
<1>3. \A c \in Ctx \ contexts' : Empty(c)'
  BY DEF IInv, Empty
<1>4. \A c \in contexts' : PagesOK(c)' /\ RegionsOK(c)'
  BY PagesKept, RegionsKept DEF IInv
<1> QED
  BY <1>1, <1>2, <1>3, <1>4 DEF IInv

(* A panic, or a search without end, changes no memory.                    *)
LEMMA StopIInv ==
  ASSUME IInv, Stop
  PROVE  IInv'
<1>1. /\ UNCHANGED <<phys, spaceVars>> /\ contents' \in [Page -> Value]
      /\ current' \in contexts \cup {Kernel} /\ stopped' \in BOOLEAN
  BY DEF Stop, IInv, TypeOK
<1> QED
  BY <1>1, SpaceUnchanged

-----------------------------------------------------------------------------
(* A new context                                                           *)
LEMMA ContextInitIInv ==
  ASSUME IInv, NEW c \in Ctx, ContextInit(c)
  PROVE  IInv'
<1>1. CASE Stop
  BY <1>1, StopIInv
<1>2. CASE ~Stop
  <2> DEFINE dir == PhysicalAlloc(phys, MEM_KERNEL)
  <2>1. /\ c \notin contexts /\ dir.page # 0 /\ phys' = dir.phys
        /\ contexts' = contexts \cup {c}
        /\ directory' = [directory EXCEPT ![c] = dir.page]
        /\ UNCHANGED <<contents, table, entry, regions, current, stopped>>
    BY <1>2 DEF ContextInit
  <2>2. PhysOK(phys) /\ MEM_KERNEL \in Zone
    BY SMT DEF IInv, MEM_DMA, MEM_KERNEL, MEM_HIGHMEM, Zone
  <2>3. /\ dir.page \in Page /\ phys.refCount[dir.page] = 0 /\ PhysOK(phys')
        /\ phys'.refCount = [phys.refCount EXCEPT ![dir.page] = 1]
    BY <2>1, <2>2, AllocFacts
  <2>4. PICK d \in Page : d = dir.page
    BY <2>3
  <2> HIDE DEF dir
  <2>5. /\ TypeOK /\ Empty(c) /\ 0 \notin Page /\ contexts \subseteq Ctx
        /\ \A v \in VPage : entry[c][v] = NotPresent
        /\ phys.refCount \in [Page -> Nat]
    BY <2>1, TypeFacts, SMT DEF IInv, Empty, TypeOK
  <2>6. TypeOK'
    BY <2>1, <2>3, <2>5 DEF TypeOK, PhysOK
  <2>7. /\ \A x \in contexts : directory'[x] = directory[x] /\ directory[x] # d
        /\ directory'[c] = d
    BY <2>1, <2>3, <2>4, <2>5, UnusedPage DEF TypeOK
  <2>8. \A p \in Page : phys'.refCount[p] = IF p = d THEN phys.refCount[p] + 1 ELSE phys.refCount[p]
    BY <2>3, <2>4, <2>5, SMT
  <2>9. ASSUME NEW p \in Page PROVE Counted(p)'
    <3>1. TabUses(p)' = TabUses(p)
      BY <2>1, <2>5 DEF TabUses, Empty
    <3>2. MapUses(p)' = MapUses(p)
      BY <2>1, <2>5, SMT DEF MapUses, NotPresent
    <3>3. CASE p = d
      <4>1. DirUses(p)' = DirUses(p) \cup {c} /\ c \notin DirUses(p)
        BY <2>1, <2>7, <3>3 DEF DirUses
      <4>2. OneMore(p)
        BY <3>1, <3>2, <4>1 DEF OneMore
      <4> QED
        BY <2>5, <2>8, <3>3, <4>2, CountChange DEF IInv
    <3>4. CASE p # d
      <4>1. DirUses(p)' = DirUses(p)
        BY <2>1, <2>7, <3>4 DEF DirUses
      <4>2. SameUses(p)
        BY <3>1, <3>2, <4>1 DEF SameUses
      <4> QED
        BY <2>5, <2>8, <3>4, <4>2, CountChange DEF IInv
    <3> QED
      BY <3>3, <3>4
  <2>10. \A x \in Ctx \ contexts' : Empty(x)'
    BY <2>1 DEF IInv, TypeOK, Empty
  <2>11. ASSUME NEW x \in contexts' PROVE PagesOK(x)' /\ RegionsOK(x)'
    <3>1. CASE x = c
      <4>1. PagesOK(c)'
        BY <2>1, <2>3, <2>4, <2>5, <2>7, <2>8, SMTT(20) DEF PagesOK, Empty, NotPresent
      <4>2. RegionsOK(c)'
        BY <2>1, <2>5, SMTT(20) DEF RegionsOK, Empty, NotPresent
      <4> QED
        BY <3>1, <4>1, <4>2
    <3>2. CASE x # c
      <4>1. x \in contexts /\ PagesOK(x) /\ RegionsOK(x)
        BY <2>1, <3>2 DEF IInv
      <4>2. /\ directory[x] # d /\ table[x] # d
            /\ \A v \in VPage : entry[x][v].page # d
        BY <2>3, <2>4, <4>1, UnusedPage
      <4>3. PagesOK(x)'
        <5>1. /\ directory'[x] = directory[x] /\ table'[x] = table[x] /\ entry'[x] = entry[x]
              /\ directory[x] \in Page /\ table[x] \in Page \cup {0}
              /\ \A v \in VPage : entry[x][v].page \in Page \cup {0}
              /\ \A v \in VPage : entry[x][v].writable => entry[x][v].page # 0
          BY <2>1, <2>5, <2>7, <4>1, TypeFacts DEF PagesOK
        <5> QED
          BY <2>8, <4>1, <4>2, <5>1, PagesKept
      <4>4. RegionsOK(x)'
        BY <2>1, <4>1, RegionsKept
      <4> QED
        BY <4>3, <4>4
    <3> QED
      BY <3>1, <3>2
  <2> QED
    BY <2>3, <2>6, <2>9, <2>10, <2>11 DEF IInv
<1> QED
  BY <1>1, <1>2

(* A context becomes the current one.                                      *)
LEMMA ContextSwitchIInv ==
  ASSUME IInv, NEW c \in contexts \cup {Kernel}, ContextSwitchTo(c)
  PROVE  IInv'
BY SpaceUnchanged DEF IInv, TypeOK, ContextSwitchTo

-----------------------------------------------------------------------------
(* The pages that a context maps have references.                          *)
LEMMA MappedFacts ==
  ASSUME IInv, NEW c \in contexts, NEW S \in SUBSET VPage
  PROVE  /\ Mapped(c, S) \in SUBSET Page
         /\ \A p \in Mapped(c, S) : phys.refCount[p] # 0
         /\ \A p \in Mapped(c, S) : \E v \in S : entry[c][v].page = p
         /\ \A p \in Page, v \in S : entry[c][v].page = p => p \in Mapped(c, S)
<1>1. 0 \notin Page
  BY PageFacts
<1>2. ASSUME NEW p \in Mapped(c, S)
      PROVE  p \in Page /\ phys.refCount[p] # 0 /\ \E v \in S : entry[c][v].page = p
  <2>1. PICK v \in S : entry[c][v].page = p /\ p # 0
    BY DEF Mapped
  <2> QED
    BY <2>1, MappedPage
<1>3. \A p \in Page, v \in S : entry[c][v].page = p => p \in Mapped(c, S)
  BY <1>1 DEF Mapped
<1> QED
  BY <1>2, <1>3

(* The new pages and counts of a clone: d is its directory, t its table or *)
(* 0.                                                                      *)
LEMMA CloneEffect ==
  ASSUME IInv, NEW new \in Ctx, ContextClone(new), ~Stop
  PROVE  /\ current \in contexts /\ new \notin contexts
         /\ contexts' = contexts \cup {new}
         /\ entry' = ReadOnlyInBoth(new)
         /\ regions' = [regions EXCEPT ![new] = regions[current]]
         /\ UNCHANGED <<contents, current, stopped>>
         /\ PhysOK(phys')
         /\ \E d \in Page, t \in Page \cup {0} :
              /\ directory' = [directory EXCEPT ![new] = d]
              /\ table' = [table EXCEPT ![new] = t]
              /\ phys.refCount[d] = 0 /\ d # t
              /\ t # 0 => phys.refCount[t] = 0
              /\ \A p \in Page : phys'.refCount[p] =
                   IF p = d \/ p = t \/ p \in Mapped(current, VPage)
                   THEN phys.refCount[p] + 1 ELSE phys.refCount[p]
<1> DEFINE dir == PhysicalAlloc(phys, MEM_KERNEL)
           M == Mapped(current, VPage)
           shared == PhysicalAddRef(dir.phys, M)
           tab == IF table[current] = 0 THEN [page |-> 0, phys |-> shared]
                                        ELSE PhysicalAlloc(shared, MEM_KERNEL)
<1>1. /\ current # Kernel /\ new \notin contexts
      /\ dir.page # 0 /\ (table[current] # 0 => tab.page # 0)
      /\ phys' = tab.phys
      /\ contexts' = contexts \cup {new}
      /\ directory' = [directory EXCEPT ![new] = dir.page]
      /\ table' = [table EXCEPT ![new] = tab.page]
      /\ entry' = ReadOnlyInBoth(new)
      /\ regions' = [regions EXCEPT ![new] = regions[current]]
      /\ UNCHANGED <<contents, current, stopped>>
  BY DEF ContextClone
<1>2. current \in contexts
  BY <1>1 DEF IInv, TypeOK
<1>3. PhysOK(phys) /\ MEM_KERNEL \in Zone /\ phys.refCount \in [Page -> Nat] /\ 0 \notin Page
  BY PageFacts, SMT DEF IInv, PhysOK, MEM_DMA, MEM_KERNEL, MEM_HIGHMEM, Zone
<1>4. /\ dir.page \in Page /\ phys.refCount[dir.page] = 0 /\ PhysOK(dir.phys)
      /\ dir.phys.refCount = [phys.refCount EXCEPT ![dir.page] = 1]
  BY <1>1, <1>3, AllocFacts
<1>5. M \in SUBSET Page /\ \A p \in M : phys.refCount[p] # 0
  BY <1>2, MappedFacts
<1>6. PICK d \in Page : d = dir.page
  BY <1>4
<1>7. \A p \in Page : dir.phys.refCount[p] = IF p = d THEN 1 ELSE phys.refCount[p]
  BY <1>3, <1>4, <1>6
<1> HIDE DEF dir, M
<1>8. \A p \in M : dir.phys.refCount[p] # 0 /\ p # d
  BY <1>4, <1>5, <1>6, <1>7
<1>9. /\ PhysOK(shared)
      /\ \A p \in Page : shared.refCount[p] =
           IF p \in M THEN dir.phys.refCount[p] + 1 ELSE dir.phys.refCount[p]
  <2>1. PICK ph : ph = dir.phys
    OBVIOUS
  <2>2. PICK S \in SUBSET Page : S = M
    BY <1>5
  <2>3. PhysOK(ph) /\ \A p \in S : ph.refCount[p] # 0
    BY <1>4, <1>8, <2>1, <2>2
  <2>4. /\ PhysOK(PhysicalAddRef(ph, S))
        /\ \A p \in Page : PhysicalAddRef(ph, S).refCount[p] =
             IF p \in S THEN ph.refCount[p] + 1 ELSE ph.refCount[p]
    BY <2>3, AddRefFacts
  <2>5. PhysicalAddRef(ph, S) = shared
    BY <2>1, <2>2
  <2> QED
    BY <2>1, <2>2, <2>4, <2>5
<1> HIDE DEF shared
<1>10. \A p \in Page : shared.refCount[p] =
         IF p = d \/ p \in M THEN phys.refCount[p] + 1 ELSE phys.refCount[p]
  BY <1>3, <1>4, <1>6, <1>7, <1>8, <1>9, SMT
<1>11. CASE table[current] = 0
  <2>1. tab.page = 0 /\ phys' = shared
    BY <1>1, <1>11
  <2>2. \A p \in Page : p # 0
    BY <1>3
  <2> HIDE DEF tab
  <2>3. /\ table' = [table EXCEPT ![new] = 0] /\ directory' = [directory EXCEPT ![new] = d]
        /\ d # 0
    BY <1>1, <1>6, <2>1, <2>2
  <2>4. \A p \in Page : phys'.refCount[p] =
          IF p = d \/ p = 0 \/ p \in Mapped(current, VPage)
          THEN phys.refCount[p] + 1 ELSE phys.refCount[p]
    BY <1>10, <2>1, <2>2 DEF M
  <2>5. phys.refCount[d] = 0 /\ 0 \in Page \cup {0}
    BY <1>4, <1>6
  <2>6. PhysOK(phys')
    BY <1>9, <2>1
  <2>7. \E e \in Page, t \in Page \cup {0} :
          /\ directory' = [directory EXCEPT ![new] = e]
          /\ table' = [table EXCEPT ![new] = t]
          /\ phys.refCount[e] = 0 /\ e # t
          /\ t # 0 => phys.refCount[t] = 0
          /\ \A p \in Page : phys'.refCount[p] =
               IF p = e \/ p = t \/ p \in Mapped(current, VPage)
               THEN phys.refCount[p] + 1 ELSE phys.refCount[p]
    BY <2>3, <2>4, <2>5
  <2> QED
    BY <1>1, <1>2, <2>6, <2>7
<1>12. CASE table[current] # 0
  <2>1. tab = PhysicalAlloc(shared, MEM_KERNEL)
    BY <1>12
  <2>2. /\ tab.page \in Page /\ shared.refCount[tab.page] = 0 /\ PhysOK(tab.phys)
        /\ tab.phys.refCount = [shared.refCount EXCEPT ![tab.page] = 1]
    BY <1>1, <1>3, <1>9, <1>12, <2>1, AllocFacts
  <2>3. PICK t \in Page : t = tab.page
    BY <2>2
  <2>4. phys' = tab.phys /\ table' = [table EXCEPT ![new] = t]
        /\ directory' = [directory EXCEPT ![new] = d]
    BY <1>1, <1>6, <2>3
  <2> HIDE DEF tab
  <2>5. shared.refCount \in [Page -> Nat] /\ phys.refCount[d] = 0
    BY <1>4, <1>6, <1>9 DEF PhysOK
  <2>6. \A p \in Page : phys'.refCount[p] = IF p = t THEN 1 ELSE shared.refCount[p]
    BY <2>2, <2>3, <2>4, <2>5
  <2>7. t # d /\ t \notin M /\ phys.refCount[t] = 0
    BY <1>3, <1>10, <2>2, <2>3, SMT
  <2>8. \A p \in Page : phys'.refCount[p] =
          IF p = d \/ p = t \/ p \in Mapped(current, VPage)
          THEN phys.refCount[p] + 1 ELSE phys.refCount[p]
    BY <1>3, <1>10, <2>6, <2>7, SMT DEF M
  <2>9. PhysOK(phys')
    BY <2>2, <2>4
  <2>10. \E e \in Page, u \in Page \cup {0} :
          /\ directory' = [directory EXCEPT ![new] = e]
          /\ table' = [table EXCEPT ![new] = u]
          /\ phys.refCount[e] = 0 /\ e # u
          /\ u # 0 => phys.refCount[u] = 0
          /\ \A p \in Page : phys'.refCount[p] =
               IF p = e \/ p = u \/ p \in Mapped(current, VPage)
               THEN phys.refCount[p] + 1 ELSE phys.refCount[p]
    <3>1. t \in Page \cup {0}
      OBVIOUS
    <3> WITNESS d \in Page, t \in Page \cup {0}
    <3> QED
      BY <2>4, <2>5, <2>7, <2>8
  <2> QED
    BY <1>1, <1>2, <2>9, <2>10
<1> QED
  BY <1>11, <1>12

(* A context is cloned: all that the two share is read-only in both.       *)
LEMMA ContextCloneIInv ==
  ASSUME IInv, NEW new \in Ctx, ContextClone(new)
  PROVE  IInv'
<1>1. CASE Stop
  BY <1>1, StopIInv
<1>2. CASE ~Stop
  <2>1. /\ current \in contexts /\ new \notin contexts
        /\ contexts' = contexts \cup {new}
        /\ entry' = ReadOnlyInBoth(new)
        /\ regions' = [regions EXCEPT ![new] = regions[current]]
        /\ UNCHANGED <<contents, current, stopped>>
        /\ PhysOK(phys')
    BY <1>2, CloneEffect
  <2>2. PICK d \in Page, t \in Page \cup {0} :
          /\ directory' = [directory EXCEPT ![new] = d]
          /\ table' = [table EXCEPT ![new] = t]
          /\ phys.refCount[d] = 0 /\ d # t
          /\ t # 0 => phys.refCount[t] = 0
          /\ \A p \in Page : phys'.refCount[p] =
               IF p = d \/ p = t \/ p \in Mapped(current, VPage)
               THEN phys.refCount[p] + 1 ELSE phys.refCount[p]
    BY <1>2, CloneEffect
  <2>3. /\ TypeOK /\ Empty(new) /\ 0 \notin Page /\ contexts \subseteq Ctx
        /\ phys.refCount \in [Page -> Nat]
    BY <2>1, TypeFacts DEF IInv, TypeOK
  <2>4. /\ entry' \in [Ctx -> [VPage -> [page : Page \cup {0}, writable : BOOLEAN]]]
        /\ \A x \in contexts \ {current} : entry'[x] = entry[x]
        /\ \A x \in contexts, v \in VPage : entry'[x][v].page = entry[x][v].page
        /\ \A v \in VPage : /\ entry'[new][v].page = entry[current][v].page
                            /\ ~ entry'[new][v].writable /\ ~ entry'[current][v].writable
    <3> DEFINE readOnly == [v \in VPage |-> [page |-> entry[current][v].page, writable |-> FALSE]]
    <3>1. /\ entry' = [entry EXCEPT ![current] = readOnly, ![new] = readOnly]
          /\ current \in Ctx /\ new # current
      BY <2>1, <2>3 DEF ReadOnlyInBoth
    <3>2. readOnly \in [VPage -> [page : Page \cup {0}, writable : BOOLEAN]]
      BY <2>3, <3>1, TypeFacts
    <3>3. \A v \in VPage : readOnly[v].page = entry[current][v].page /\ ~ readOnly[v].writable
      OBVIOUS
    <3> HIDE DEF readOnly
    <3> DEFINE E == [VPage -> [page : Page \cup {0}, writable : BOOLEAN]]
    <3>4. entry \in [Ctx -> E] /\ readOnly \in E
      BY <2>3, <3>2 DEF TypeOK
    <3> HIDE DEF E
    <3>5. /\ entry' \in [Ctx -> E]
          /\ entry'[new] = readOnly /\ entry'[current] = readOnly
          /\ \A x \in contexts \ {current} : entry'[x] = entry[x]
      BY <2>1, <2>3, <3>1, <3>4
    <3>6. \A x \in contexts, v \in VPage : entry'[x][v].page = entry[x][v].page
      BY <3>3, <3>5
    <3> QED
      BY <3>3, <3>5, <3>6 DEF E
  <2>5. TypeOK'
    BY <2>1, <2>2, <2>3, <2>4 DEF TypeOK, PhysOK
  <2>6. /\ \A x \in contexts : /\ directory'[x] = directory[x] /\ table'[x] = table[x]
                               /\ regions'[x] = regions[x]
        /\ directory'[new] = d /\ table'[new] = t /\ regions'[new] = regions[current]
    BY <2>1, <2>2, <2>3 DEF TypeOK
  <2>7. /\ Mapped(current, VPage) \in SUBSET Page
        /\ \A p \in Mapped(current, VPage) :
             phys.refCount[p] # 0 /\ \E v \in VPage : entry[current][v].page = p
        /\ \A p \in Page, v \in VPage : entry[current][v].page = p => p \in Mapped(current, VPage)
    BY <2>1, MappedFacts, SMT
  <2>8. d \notin Mapped(current, VPage) /\ t \notin Mapped(current, VPage)
    BY <2>2, <2>3, <2>7, SMTT(20)
  <2>9. ASSUME NEW p \in Page PROVE Counted(p)'
    <3>1. DirUses(p)' = IF p = d THEN DirUses(p) \cup {new} ELSE DirUses(p)
      BY <2>1, <2>6 DEF DirUses
    <3>2. TabUses(p)' = IF p = t THEN TabUses(p) \cup {new} ELSE TabUses(p)
      BY <2>1, <2>6 DEF TabUses
    <3>3. new \notin DirUses(p) /\ new \notin TabUses(p) /\ \A v \in VPage : <<new, v>> \notin MapUses(p)
      BY <2>1 DEF DirUses, TabUses, MapUses
    <3>4. CASE p \in Mapped(current, VPage)
      <4>1. PICK v \in VPage : entry[current][v].page = p
        BY <2>7, <3>4
      <4>2. \A u \in VPage : entry[current][u].page = p => u = v
        BY <2>1, <2>3, <4>1 DEF IInv, PagesOK
      <4>3. MapUses(p)' = MapUses(p) \cup {<<new, v>>}
        <5>1. ASSUME NEW x \in contexts \cup {new}, NEW u \in VPage
              PROVE  entry'[x][u].page = p <=> <<x, u>> \in MapUses(p) \/ <<x, u>> = <<new, v>>
          BY <2>1, <2>4, <4>1, <4>2, SMT DEF MapUses
        <5>2. \A x \in MapUses(p)' : x \in MapUses(p) \cup {<<new, v>>}
          BY <2>1, <5>1, SMT DEF MapUses
        <5>3. \A x \in MapUses(p) \cup {<<new, v>>} : x \in MapUses(p)'
          BY <2>1, <2>4, <4>1, SMT DEF MapUses
        <5> QED
          BY <5>2, <5>3
      <4>4. p # d /\ p # t
        BY <2>8, <3>4
      <4>5. OneMore(p)
        BY <3>1, <3>2, <3>3, <4>3, <4>4 DEF OneMore
      <4> QED
        BY <2>2, <2>3, <3>4, <4>5, CountChange DEF IInv
    <3>5. CASE p \notin Mapped(current, VPage)
      <4>1. MapUses(p)' = MapUses(p)
        <5>1. \A x \in MapUses(p)' : x \in MapUses(p)
          BY <2>1, <2>4, <2>7, <3>5, SMTT(20) DEF MapUses
        <5>2. \A x \in MapUses(p) : x \in MapUses(p)'
          BY <2>1, <2>4, SMT DEF MapUses
        <5> QED
          BY <5>1, <5>2
      <4>2. CASE p = d \/ p = t
        <5>1. OneMore(p)
          BY <2>2, <3>1, <3>2, <3>3, <4>1, <4>2 DEF OneMore
        <5> QED
          BY <2>2, <2>3, <4>2, <5>1, CountChange DEF IInv
      <4>3. CASE p # d /\ p # t
        <5>1. SameUses(p)
          BY <3>1, <3>2, <4>1, <4>3 DEF SameUses
        <5> QED
          BY <2>2, <2>3, <3>5, <4>3, <5>1, CountChange DEF IInv
      <4> QED
        BY <4>2, <4>3
    <3> QED
      BY <3>4, <3>5
  <2>10. ASSUME NEW x \in Ctx \ contexts' PROVE Empty(x)'
    <3>1. x # new /\ x # current /\ Empty(x)
      BY <2>1 DEF IInv
    <3>2. entry'[x] = entry[x] /\ regions'[x] = regions[x] /\ directory'[x] = directory[x]
          /\ table'[x] = table[x]
      BY <2>1, <2>2, <2>3, <3>1 DEF TypeOK, ReadOnlyInBoth
    <3> QED
      BY <3>1, <3>2 DEF Empty
  <2>11. \A x \in contexts : PagesOK(x) /\ RegionsOK(x)
    BY DEF IInv
  <2>12. ASSUME NEW x \in contexts PROVE PagesOK(x)' /\ RegionsOK(x)'
    <3>1. /\ directory[x] \in Page /\ table[x] \in Page \cup {0}
          /\ \A v \in VPage : entry[x][v].page \in Page \cup {0}
          /\ \A v \in VPage : entry[x][v].writable => entry[x][v].page # 0
      BY <2>3, <2>11, TypeFacts DEF PagesOK
    <3>2. directory[x] # d /\ directory[x] # t
      BY <2>2, <2>3, <3>1, UnusedPage
    <3>3. table[x] # 0 => table[x] # d /\ table[x] # t
      BY <2>2, <2>3, <3>1, UnusedPage
    <3>4. directory[x] \notin Mapped(current, VPage) /\ table[x] \notin Mapped(current, VPage)
      BY <2>1, <2>3, <2>7, <3>1, MappedPage, SMT
    <3>5. /\ phys'.refCount[directory[x]] = phys.refCount[directory[x]]
          /\ table[x] # 0 => phys'.refCount[table[x]] = phys.refCount[table[x]]
      BY <2>2, <3>1, <3>2, <3>3, <3>4
    <3>6. PagesOK(x)'
      <4>1. CASE x = current
        <5>1. /\ directory'[x] \in Page /\ phys'.refCount[directory'[x]] = 1
              /\ table'[x] # 0 => phys'.refCount[table'[x]] = 1
          BY <2>6, <2>11, <3>1, <3>5 DEF PagesOK
        <5>2. \A u, v \in VPage : entry'[x][u].page = entry'[x][v].page /\ entry'[x][u].page # 0 => u = v
          BY <2>4, <2>11, SMTT(20) DEF PagesOK
        <5>3. \A v \in VPage : ~ entry'[x][v].writable
          BY <2>4, <4>1
        <5> QED
          BY <5>1, <5>2, <5>3 DEF PagesOK
      <4>2. CASE x # current
        <5>1. ASSUME NEW v \in VPage, entry[x][v].writable
              PROVE  phys'.refCount[entry[x][v].page] = phys.refCount[entry[x][v].page]
          <6>1. PICK p \in Page : p = entry[x][v].page
            BY <3>1, <5>1
          <6>2. phys.refCount[p] = 1 /\ p # 0
            BY <2>3, <2>11, <5>1, <6>1 DEF PagesOK
          <6>3. p \notin Mapped(current, VPage)
            BY <2>1, <2>7, <4>2, <6>1, <6>2, MappedPage, SMTT(20)
          <6>4. p # d /\ p # t
            BY <2>2, <2>3, <6>2, SMTT(20)
          <6> QED
            BY <2>2, <6>1, <6>3, <6>4
        <5> QED
          BY <2>4, <2>6, <2>11, <3>5, <4>2, <5>1, PagesKept
      <4> QED
        BY <4>1, <4>2
    <3>7. RegionsOK(x)'
      BY <2>4, <2>6, <2>11, RegionsKept
    <3> QED
      BY <3>6, <3>7
  <2>13. PagesOK(new)'
    <3>1. phys'.refCount[d] = 1 /\ (t # 0 => phys'.refCount[t] = 1)
      BY <2>2, SMT
    <3>2. \A u, v \in VPage : entry'[new][u].page = entry'[new][v].page /\ entry'[new][u].page # 0 => u = v
      BY <2>1, <2>4, <2>11, SMT DEF PagesOK
    <3> QED
      BY <2>4, <2>6, <3>1, <3>2 DEF PagesOK
  <2>14. RegionsOK(new)'
    <3>1. regions'[new] = regions[current] /\ RegionsOK(current)
      BY <2>1, <2>6, <2>11
    <3>2. ASSUME NEW v \in VPage, entry'[new][v].page # 0 PROVE InSomeRegion(new, v)'
      <4>1. InSomeRegion(current, v)
        BY <2>4, <3>1, <3>2 DEF RegionsOK
      <4> QED
        BY <3>1, <4>1 DEF InSomeRegion
    <3> QED
      BY <3>1, <3>2 DEF RegionsOK
  <2> QED
    BY <2>1, <2>5, <2>9, <2>10, <2>12, <2>13, <2>14 DEF IInv
<1> QED
  BY <1>1, <1>2

(* The contents of free pages are forgotten.                               *)
LEMMA ForgetType ==
  ASSUME TypeOK, NEW ph, Forget(ph)
  PROVE  contents' \in [Page -> Value]
BY MemoryAssumption DEF TypeOK, Forget

(* A context gives back the pages that it maps at S.                       *)
LEMMA UnmapIInv ==
  ASSUME IInv, NEW c \in contexts, NEW S \in SUBSET VPage, UnmapAndFree(c, S),
         UNCHANGED <<contexts, directory, table, current, stopped>>,
         regions' \in [Ctx -> Seq(Region)],
         \A x \in Ctx \ {c} : regions'[x] = regions[x],
         RegionsOK(c)'
  PROVE  IInv'
<1> DEFINE M == Mapped(c, S)
<1>1. /\ TypeOK /\ 0 \notin Page /\ contexts \subseteq Ctx /\ c \in Ctx
      /\ PhysOK(phys) /\ phys.refCount \in [Page -> Nat]
      /\ \A x \in contexts : PagesOK(x) /\ RegionsOK(x)
  BY TypeFacts DEF IInv, TypeOK
<1>2. /\ M \in SUBSET Page
      /\ \A p \in M : phys.refCount[p] # 0 /\ \E v \in S : entry[c][v].page = p
      /\ \A p \in Page, v \in S : entry[c][v].page = p => p \in M
  BY MappedFacts, SMTT(20)
<1>3. /\ PhysOK(phys')
      /\ \A p \in Page : phys'.refCount[p] = IF p \in M THEN phys.refCount[p] - 1 ELSE phys.refCount[p]
  <2>1. phys' = PhysicalDeleteRef(phys, M)
    BY DEF UnmapAndFree
  <2>2. PhysOK(phys) /\ M \in SUBSET Page /\ \A p \in M : phys.refCount[p] # 0
    BY <1>1, <1>2
  <2> HIDE DEF M
  <2>3. /\ PhysOK(PhysicalDeleteRef(phys, M))
        /\ \A p \in Page : PhysicalDeleteRef(phys, M).refCount[p] =
             IF p \in M THEN phys.refCount[p] - 1 ELSE phys.refCount[p]
    BY <2>2, DeleteRefFacts
  <2> QED
    BY <2>1, <2>3
<1>4. contents' \in [Page -> Value]
  BY <1>1, ForgetType DEF UnmapAndFree
<1>5. /\ entry' \in [Ctx -> [VPage -> [page : Page \cup {0}, writable : BOOLEAN]]]
      /\ \A x \in Ctx \ {c} : entry'[x] = entry[x]
      /\ \A v \in VPage : entry'[c][v] = IF v \in S THEN NotPresent ELSE entry[c][v]
  <2> DEFINE E == [VPage -> [page : Page \cup {0}, writable : BOOLEAN]]
             e == [v \in VPage |-> IF v \in S THEN NotPresent ELSE entry[c][v]]
  <2>1. entry \in [Ctx -> E]
    BY <1>1 DEF TypeOK
  <2>2. e \in E
    BY <1>1, SMT DEF TypeOK, NotPresent
  <2>3. entry' = [entry EXCEPT ![c] = e]
    BY DEF UnmapAndFree
  <2>4. \A v \in VPage : e[v] = IF v \in S THEN NotPresent ELSE entry[c][v]
    OBVIOUS
  <2> HIDE DEF E, e
  <2>5. entry' \in [Ctx -> E] /\ entry'[c] = e /\ \A x \in Ctx \ {c} : entry'[x] = entry[x]
    BY <1>1, <2>1, <2>2, <2>3
  <2> QED
    BY <2>4, <2>5 DEF E
<1> HIDE DEF M
<1>6. \A x \in contexts, v \in VPage :
         entry'[x][v].page # 0 => entry'[x][v] = entry[x][v]
  <2>1. NotPresent.page = 0
    BY DEF NotPresent
  <2>2. ASSUME NEW x \in contexts, NEW v \in VPage, entry'[x][v].page # 0
        PROVE  entry'[x][v] = entry[x][v]
    <3>1. CASE x = c
      BY <1>5, <2>1, <2>2, <3>1
    <3>2. CASE x # c
      BY <1>1, <1>5, <3>2
    <3> QED
      BY <3>1, <3>2
  <2> QED
    BY <2>2
<1>7. TypeOK'
  BY <1>1, <1>3, <1>4, <1>5 DEF TypeOK, PhysOK
<1>8. ASSUME NEW p \in Page PROVE Counted(p)'
  <2>1. DirUses(p)' = DirUses(p) /\ TabUses(p)' = TabUses(p)
    BY DEF DirUses, TabUses
  <2>2. ASSUME NEW x \in MapUses(p)' PROVE x \in MapUses(p)
    <3>1. PICK a \in contexts, u \in VPage : x = <<a, u>> /\ entry'[a][u].page = p
      BY SMT DEF MapUses
    <3>2. entry[a][u].page = p
      BY <1>1, <1>6, <3>1
    <3> QED
      BY <3>1, <3>2 DEF MapUses
  <2>3. CASE p \in M
    <3>1. PICK v \in S : entry[c][v].page = p
      BY <1>2, <2>3
    <3>2. \A u \in VPage : entry[c][u].page = p => u = v
      BY <1>1, <3>1 DEF PagesOK
    <3>3. <<c, v>> \in MapUses(p)
      BY <3>1 DEF MapUses
    <3>4. <<c, v>> \notin MapUses(p)'
      BY <1>1, <1>5, SMTT(20) DEF MapUses, NotPresent
    <3>5. ASSUME NEW x \in MapUses(p), x # <<c, v>> PROVE x \in MapUses(p)'
      <4>1. PICK a \in contexts, u \in VPage : x = <<a, u>> /\ entry[a][u].page = p
        BY SMT DEF MapUses
      <4>2. entry'[a][u].page = p
        <5>1. CASE a = c
          BY <1>1, <1>5, <3>2, <3>5, <4>1, <5>1 DEF PagesOK
        <5>2. CASE a # c
          BY <1>1, <1>5, <4>1, <5>2
        <5> QED
          BY <5>1, <5>2
      <4> QED
        BY <4>1, <4>2 DEF MapUses
    <3>6. MapUses(p)' = MapUses(p) \ {<<c, v>>}
      BY <2>2, <3>4, <3>5
    <3>7. OneLess(p)
      BY <2>1, <3>3, <3>6 DEF OneLess
    <3> QED
      BY <1>1, <1>3, <2>3, <3>7, CountChange DEF IInv
  <2>4. CASE p \notin M
    <3>1. ASSUME NEW x \in MapUses(p) PROVE x \in MapUses(p)'
      <4>1. PICK a \in contexts, u \in VPage : x = <<a, u>> /\ entry[a][u].page = p
        BY SMT DEF MapUses
      <4>2. a = c => u \notin S
        BY <1>2, <2>4, <4>1
      <4>3. entry'[a][u].page = p
        BY <1>1, <1>5, <4>1, <4>2
      <4> QED
        BY <4>1, <4>3 DEF MapUses
    <3>2. SameUses(p)
      BY <2>1, <2>2, <3>1 DEF SameUses
    <3> QED
      BY <1>1, <1>3, <2>4, <3>2, CountChange DEF IInv
  <2> QED
    BY <2>3, <2>4
<1>9. \A x \in Ctx \ contexts' : Empty(x)'
  BY <1>5 DEF IInv, Empty
<1>10. ASSUME NEW x \in contexts PROVE PagesOK(x)'
  <2>1. /\ directory[x] \in Page /\ table[x] \in Page \cup {0}
        /\ \A v \in VPage : entry[x][v].page \in Page \cup {0}
        /\ \A v \in VPage : entry[x][v].writable => entry[x][v].page # 0
    BY <1>1, TypeFacts DEF PagesOK
  <2>2. directory[x] \notin M /\ table[x] \notin M
    <3>1. ASSUME NEW p \in M PROVE p \notin {directory[x], table[x]}
      <4>1. PICK v \in S : entry[c][v].page = p
        BY <1>2
      <4>2. v \in VPage /\ entry[c][v].page # 0
        BY <1>1, <1>2, <4>1
      <4> QED
        BY <4>1, <4>2, MappedPage
    <3> QED
      BY <3>1
  <2>3. ASSUME NEW v \in VPage, entry[x][v].writable, x = c => v \notin S
        PROVE  phys'.refCount[entry[x][v].page] = phys.refCount[entry[x][v].page]
    <3>1. PICK p \in Page : p = entry[x][v].page
      BY <2>1, <2>3
    <3>2. phys.refCount[p] = 1 /\ p # 0
      BY <1>1, <2>3, <3>1 DEF PagesOK
    <3>3. p \notin M
      BY <1>2, <2>3, <3>1, <3>2, MappedPage, SMTT(20)
    <3> QED
      BY <1>3, <3>1, <3>3
  <2>4. CASE x # c
    BY <1>1, <1>3, <1>5, <2>1, <2>2, <2>3, <2>4, PagesKept
  <2>5. CASE x = c
    <3>1. /\ directory'[x] \in Page /\ phys'.refCount[directory'[x]] = 1
          /\ table'[x] # 0 => phys'.refCount[table'[x]] = 1
      BY <1>1, <1>3, <2>1, <2>2 DEF PagesOK
    <3>2. \A u, v \in VPage : entry'[x][u].page = entry'[x][v].page /\ entry'[x][u].page # 0 => u = v
      BY <1>1, <1>6, SMTT(20) DEF PagesOK
    <3>3. ASSUME NEW v \in VPage, entry'[x][v].writable
          PROVE  entry'[x][v].page # 0 /\ phys'.refCount[entry'[x][v].page] = 1
      <4>1. v \notin S /\ entry'[x][v] = entry[x][v]
        BY <1>5, <2>5, <3>3, SMTT(20) DEF NotPresent
      <4> QED
        BY <1>1, <2>1, <2>3, <3>3, <4>1, SMTT(20) DEF PagesOK
    <3> QED
      BY <3>1, <3>2, <3>3 DEF PagesOK
  <2> QED
    BY <2>4, <2>5
<1>11. ASSUME NEW x \in contexts PROVE RegionsOK(x)'
  <2>1. CASE x = c
    BY <2>1
  <2>2. CASE x # c
    BY <1>1, <1>5, <2>2, RegionsKept
  <2> QED
    BY <2>1, <2>2
<1> QED
  BY <1>3, <1>7, <1>8, <1>9, <1>10, <1>11 DEF IInv

(* The counts after a context is gone: d was its directory, t its table or *)
(* 0.                                                                      *)
LEMMA DeleteEffect ==
  ASSUME IInv, NEW c \in contexts, NEW d, NEW t, d = directory[c], t = table[c],
         phys' = PhysicalFree(PhysicalDeleteRef(phys, Mapped(c, VPage)), {directory[c], table[c]} \ {0})
  PROVE  /\ PhysOK(phys')
         /\ d \in Page /\ t \in Page \cup {0} /\ d # t
         /\ d \notin Mapped(c, VPage) /\ t \notin Mapped(c, VPage)
         /\ \A p \in Page : phys'.refCount[p] =
              IF p = d \/ p = t \/ p \in Mapped(c, VPage)
              THEN phys.refCount[p] - 1 ELSE phys.refCount[p]
<1>1. PICK M \in SUBSET Page : M = Mapped(c, VPage)
  BY MappedFacts
<1>2. PICK own \in SUBSET Page : own = {d, t} \ {0}
  BY TypeFacts DEF IInv
<1>3. /\ 0 \notin Page /\ PhysOK(phys) /\ phys.refCount \in [Page -> Nat]
      /\ d \in Page /\ t \in Page \cup {0}
      /\ phys.refCount[d] = 1 /\ d # t /\ (t # 0 => phys.refCount[t] = 1)
  BY TypeFacts, OwnPages DEF IInv, TypeOK
<1>4. \A p \in M : /\ phys.refCount[p] # 0
                   /\ \E v \in VPage : entry[c][v].page = p
  BY <1>1, MappedFacts, SMTT(20)
<1>5. ASSUME NEW p \in M PROVE p # d /\ p # t
  <2>1. PICK v \in VPage : entry[c][v].page = p /\ p # 0
    BY <1>3, <1>4
  <2> QED
    BY <2>1, MappedPage, SMTT(20)
<1>6. PICK ph : ph = PhysicalDeleteRef(phys, M)
  OBVIOUS
<1>7. /\ PhysOK(ph)
      /\ \A p \in Page : ph.refCount[p] = IF p \in M THEN phys.refCount[p] - 1 ELSE phys.refCount[p]
  BY <1>3, <1>4, <1>6, DeleteRefFacts, SMTT(20)
<1>8. \A p \in own : p \notin M /\ ph.refCount[p] = 1
  BY <1>2, <1>3, <1>5, <1>7
<1>9. /\ PhysOK(PhysicalFree(ph, own))
      /\ \A p \in Page : PhysicalFree(ph, own).refCount[p] = IF p \in own THEN 0 ELSE ph.refCount[p]
  BY <1>7, <1>8, PhysicalFreeFacts, SMTT(20)
<1>10. phys' = PhysicalFree(ph, own)
  BY <1>1, <1>2, <1>6
<1>11. ASSUME NEW p \in Page
       PROVE  phys'.refCount[p] =
                IF p = d \/ p = t \/ p \in M THEN phys.refCount[p] - 1 ELSE phys.refCount[p]
  <2>1. p \in own <=> p = d \/ p = t
    BY <1>2, <1>3
  <2>2. phys'.refCount[p] = IF p \in own THEN 0 ELSE ph.refCount[p]
    BY <1>9, <1>10
  <2>3. CASE p \in own
    <3>1. phys.refCount[p] = 1 /\ phys'.refCount[p] = 0
      BY <1>3, <2>1, <2>2, <2>3
    <3> QED
      BY <2>1, <2>3, <3>1, SMTT(20)
  <2>4. CASE p \notin own
    BY <1>7, <2>1, <2>2, <2>4
  <2> QED
    BY <2>3, <2>4
<1> QED
  BY <1>1, <1>3, <1>5, <1>9, <1>10, <1>11

(* A context is deleted.                                                   *)
LEMMA ContextDeleteIInv ==
  ASSUME IInv, NEW c \in Ctx, ContextDelete(c)
  PROVE  IInv'
<1> DEFINE M == Mapped(c, VPage)
           E == [VPage -> [page : Page \cup {0}, writable : BOOLEAN]]
           none == [v \in VPage |-> NotPresent]
<1>1. /\ c \in contexts /\ c # current
      /\ phys' = PhysicalFree(PhysicalDeleteRef(phys, M), {directory[c], table[c]} \ {0})
      /\ Forget(PhysicalFree(PhysicalDeleteRef(phys, M), {directory[c], table[c]} \ {0}))
      /\ contexts' = contexts \ {c}
      /\ directory' = [directory EXCEPT ![c] = 0]
      /\ table' = [table EXCEPT ![c] = 0]
      /\ entry' = [entry EXCEPT ![c] = none]
      /\ regions' = [regions EXCEPT ![c] = <<>>]
      /\ UNCHANGED <<current, stopped>>
  BY DEF ContextDelete, MayDelete
<1>2. /\ TypeOK /\ 0 \notin Page /\ contexts \subseteq Ctx
      /\ phys.refCount \in [Page -> Nat]
      /\ \A x \in contexts : PagesOK(x) /\ RegionsOK(x)
  BY TypeFacts DEF IInv, TypeOK
<1>3. PICK d, t : d = directory[c] /\ t = table[c]
  OBVIOUS
<1>4. /\ PhysOK(phys')
      /\ d \in Page /\ t \in Page \cup {0} /\ d # t /\ d \notin M /\ t \notin M
      /\ \A p \in Page : phys'.refCount[p] =
           IF p = d \/ p = t \/ p \in M THEN phys.refCount[p] - 1 ELSE phys.refCount[p]
  <2>1. phys' = PhysicalFree(PhysicalDeleteRef(phys, Mapped(c, VPage)), {directory[c], table[c]} \ {0})
    BY <1>1
  <2>2. /\ PhysOK(phys')
        /\ d \in Page /\ t \in Page \cup {0} /\ d # t
        /\ d \notin Mapped(c, VPage) /\ t \notin Mapped(c, VPage)
        /\ \A p \in Page : phys'.refCount[p] =
             IF p = d \/ p = t \/ p \in Mapped(c, VPage)
             THEN phys.refCount[p] - 1 ELSE phys.refCount[p]
    <3>1. c \in contexts
      BY <1>1
    <3> QED
      BY <1>3, <2>1, <3>1, DeleteEffect, SMTT(20)
  <2> QED
    BY <2>2
<1>5. /\ M \in SUBSET Page
      /\ \A p \in M : phys.refCount[p] # 0 /\ \E v \in VPage : entry[c][v].page = p
      /\ \A p \in Page, v \in VPage : entry[c][v].page = p => p \in M
  BY <1>1, MappedFacts, SMTT(20)
<1>6. contents' \in [Page -> Value]
  BY <1>1, <1>2, ForgetType
<1>7. entry \in [Ctx -> E] /\ none \in E
  BY <1>2 DEF TypeOK, NotPresent
<1> HIDE DEF M, E, none
<1>8. /\ entry' \in [Ctx -> E] /\ entry'[c] = none
      /\ \A x \in Ctx \ {c} :
           /\ entry'[x] = entry[x] /\ regions'[x] = regions[x]
           /\ directory'[x] = directory[x] /\ table'[x] = table[x]
      /\ regions'[c] = <<>> /\ directory'[c] = 0 /\ table'[c] = 0
  BY <1>1, <1>2, <1>7 DEF TypeOK
<1>9. TypeOK'
  <2>1. /\ directory' \in [Ctx -> Page \cup {0}] /\ table' \in [Ctx -> Page \cup {0}]
        /\ regions' \in [Ctx -> Seq(Region)]
    BY <1>1, <1>2, SMT DEF TypeOK
  <2> QED
    BY <1>1, <1>2, <1>4, <1>6, <1>8, <2>1 DEF TypeOK, PhysOK, E
<1>10. ASSUME NEW p \in Page PROVE Counted(p)'
  <2>1. DirUses(p)' = DirUses(p) \ {c} /\ TabUses(p)' = TabUses(p) \ {c}
    BY <1>1, <1>2, <1>8, SMTT(20) DEF DirUses, TabUses
  <2>2. /\ c \in DirUses(p) <=> p = d
        /\ c \in TabUses(p) <=> p = t
    BY <1>1, <1>3 DEF DirUses, TabUses
  <2>3. /\ \A x \in MapUses(p)' : x \in MapUses(p) /\ x[1] # c
        /\ \A x \in MapUses(p) : x[1] # c => x \in MapUses(p)'
    BY <1>1, <1>2, <1>8 DEF MapUses
  <2>4. CASE p \in M
    <3>1. PICK v \in VPage : entry[c][v].page = p
      BY <1>5, <2>4
    <3>2. \A u \in VPage : entry[c][u].page = p => u = v
      BY <1>1, <1>2, <3>1 DEF PagesOK
    <3>3. <<c, v>> \in MapUses(p)
      BY <1>1, <3>1 DEF MapUses
    <3>4. \A x \in MapUses(p) : x[1] = c => x = <<c, v>>
      BY <3>2, SMTT(20) DEF MapUses
    <3>5. MapUses(p)' = MapUses(p) \ {<<c, v>>}
      BY <2>3, <3>4, SMT
    <3>6. OneLess(p)
      BY <1>4, <2>1, <2>2, <2>4, <3>3, <3>5 DEF OneLess
    <3> QED
      BY <1>2, <1>4, <2>4, <3>6, CountChange DEF IInv
  <2>5. CASE p \notin M
    <3>1. \A x \in MapUses(p) : x[1] # c
      BY <1>5, <2>5 DEF MapUses
    <3>2. MapUses(p)' = MapUses(p)
      BY <2>3, <3>1
    <3>3. CASE p = d \/ p = t
      <4>1. OneLess(p)
        BY <1>4, <2>1, <2>2, <3>2, <3>3 DEF OneLess
      <4> QED
        BY <1>2, <1>4, <3>3, <4>1, CountChange DEF IInv
    <3>4. CASE p # d /\ p # t
      <4>1. SameUses(p)
        BY <2>1, <2>2, <3>2, <3>4 DEF SameUses
      <4> QED
        BY <1>2, <1>4, <2>5, <3>4, <4>1, CountChange DEF IInv
    <3> QED
      BY <3>3, <3>4
  <2> QED
    BY <2>4, <2>5
<1>11. \A x \in Ctx \ contexts' : Empty(x)'
  BY <1>1, <1>8 DEF IInv, Empty, none
<1>12. ASSUME NEW x \in contexts' PROVE PagesOK(x)' /\ RegionsOK(x)'
  <2>1. x \in contexts /\ x # c /\ x \in Ctx /\ PagesOK(x) /\ RegionsOK(x)
    BY <1>1, <1>2
  <2>2. /\ directory[x] \in Page /\ table[x] \in Page \cup {0}
        /\ \A v \in VPage : entry[x][v].page \in Page \cup {0}
        /\ \A v \in VPage : entry[x][v].writable =>
             entry[x][v].page # 0 /\ phys.refCount[entry[x][v].page] = 1
    BY <1>2, <2>1, TypeFacts DEF PagesOK
  <2>3. /\ directory[x] # d /\ directory[x] # t
        /\ table[x] # 0 => table[x] # d /\ table[x] # t
    BY <1>1, <1>3, <2>1, OwnPages
  <2>4. ASSUME NEW p \in M PROVE p \notin {directory[x], table[x]}
    <3>1. PICK v \in VPage : entry[c][v].page = p /\ p # 0
      BY <1>2, <1>5
    <3> QED
      BY <1>1, <2>1, <3>1, MappedPage
  <2>5. /\ phys'.refCount[directory[x]] = phys.refCount[directory[x]]
        /\ table[x] # 0 => phys'.refCount[table[x]] = phys.refCount[table[x]]
    BY <1>4, <2>2, <2>3, <2>4
  <2>6. ASSUME NEW v \in VPage, entry[x][v].writable
        PROVE  phys'.refCount[entry[x][v].page] = phys.refCount[entry[x][v].page]
    <3>1. PICK p \in Page : p = entry[x][v].page /\ p # 0 /\ phys.refCount[p] = 1
      BY <2>2, <2>6
    <3>2. /\ \A y \in contexts : p \notin {directory[y], table[y]}
          /\ \A y \in contexts, u \in VPage : entry[y][u].page = p => y = x
      BY <2>1, <3>1, MappedPage, SMTT(20)
    <3>3. p # d /\ p # t
      BY <1>1, <1>3, <3>2
    <3>4. p \notin M
      BY <1>1, <1>5, <2>1, <3>2
    <3> QED
      BY <1>4, <3>1, <3>3, <3>4
  <2>7. PagesOK(x)'
    BY <1>8, <2>1, <2>5, <2>6, PagesKept
  <2>8. RegionsOK(x)'
    BY <1>8, <2>1, RegionsKept
  <2> QED
    BY <2>7, <2>8
<1> QED
  BY <1>4, <1>9, <1>10, <1>11, <1>12 DEF IInv

-----------------------------------------------------------------------------
(* Context c maps the fresh page n at v and gives up o there, if that is a *)
(* page; t is a new page table, or 0.                                      *)
Maps(c, v, n, o, t) ==
  /\ phys.refCount[n] = 0 /\ t # n
  /\ o = entry[c][v].page /\ (o # 0 => phys.refCount[o] > 1)
  /\ t # 0 => phys.refCount[t] = 0 /\ table[c] = 0
  /\ PhysOK(phys')
  /\ \A p \in Page : phys'.refCount[p] =
       IF p = n \/ p = t THEN phys.refCount[p] + 1
       ELSE IF p = o THEN phys.refCount[p] - 1 ELSE phys.refCount[p]
  /\ table' = [table EXCEPT ![c] = IF t = 0 THEN table[c] ELSE t]
  /\ entry' = [entry EXCEPT ![c][v] = [page |-> n, writable |-> TRUE]]
  /\ UNCHANGED <<contexts, directory, regions, current, stopped>>

(* Mapping it there keeps the invariant if v is in a region.               *)
LEMMA MapsIInv ==
  ASSUME IInv, NEW c \in contexts, NEW v \in VPage, NEW n \in Page, NEW o \in Page \cup {0},
         NEW t \in Page \cup {0}, Maps(c, v, n, o, t), InSomeRegion(c, v),
         contents' \in [Page -> Value]
  PROVE  IInv'
<1>1. /\ TypeOK /\ 0 \notin Page /\ contexts \subseteq Ctx /\ c \in Ctx
      /\ phys.refCount \in [Page -> Nat]
      /\ \A x \in contexts : PagesOK(x) /\ RegionsOK(x)
  BY TypeFacts DEF IInv, TypeOK
<1>2. /\ phys.refCount[n] = 0 /\ t # n
      /\ o = entry[c][v].page /\ (o # 0 => phys.refCount[o] > 1)
      /\ t # 0 => phys.refCount[t] = 0 /\ table[c] = 0
      /\ PhysOK(phys')
      /\ \A p \in Page : phys'.refCount[p] =
           IF p = n \/ p = t THEN phys.refCount[p] + 1
           ELSE IF p = o THEN phys.refCount[p] - 1 ELSE phys.refCount[p]
      /\ table' = [table EXCEPT ![c] = IF t = 0 THEN table[c] ELSE t]
      /\ entry' = [entry EXCEPT ![c][v] = [page |-> n, writable |-> TRUE]]
      /\ UNCHANGED <<contexts, directory, regions, current, stopped>>
  BY DEF Maps
<1>3. o # n /\ (o # 0 => o # t)
  BY <1>1, <1>2, SMT
<1>4. /\ entry' \in [Ctx -> [VPage -> [page : Page \cup {0}, writable : BOOLEAN]]]
      /\ \A x \in Ctx \ {c} : entry'[x] = entry[x]
      /\ \A u \in VPage : entry'[c][u] = IF u = v THEN [page |-> n, writable |-> TRUE] ELSE entry[c][u]
  <2> DEFINE E == [page : Page \cup {0}, writable : BOOLEAN]
             new == [page |-> n, writable |-> TRUE]
  <2>1. entry \in [Ctx -> [VPage -> E]] /\ new \in E /\ entry' = [entry EXCEPT ![c][v] = new]
    BY <1>1, <1>2 DEF TypeOK
  <2> HIDE DEF E, new
  <2>2. /\ entry' \in [Ctx -> [VPage -> E]]
        /\ \A x \in Ctx \ {c} : entry'[x] = entry[x]
        /\ \A u \in VPage : entry'[c][u] = IF u = v THEN new ELSE entry[c][u]
    BY <1>1, <2>1
  <2> QED
    BY <2>2 DEF E, new
<1>5. /\ table' \in [Ctx -> Page \cup {0}]
      /\ \A x \in Ctx \ {c} : table'[x] = table[x]
      /\ table'[c] = IF t = 0 THEN table[c] ELSE t
  BY <1>1, <1>2 DEF TypeOK
<1>6. /\ entry'[c][v].page = n /\ entry'[c][v].writable
      /\ \A x \in contexts, u \in VPage : x # c \/ u # v => entry'[x][u] = entry[x][u]
  BY <1>1, <1>4, SMTT(20)
<1>7. TypeOK'
  BY <1>1, <1>2, <1>4, <1>5 DEF TypeOK, PhysOK
<1>8. \A x \in contexts : /\ directory[x] # n /\ table[x] # n
                          /\ \A u \in VPage : entry[x][u].page # n
  BY <1>2, UnusedPage
<1>9. ASSUME NEW x \in contexts
      PROVE  /\ directory[x] \in Page /\ directory[x] # t /\ directory[x] # n /\ directory[x] # o
             /\ table[x] # 0 => table[x] \in Page /\ table[x] # t /\ table[x] # n /\ table[x] # o
  <2>1. /\ directory[x] \in Page /\ phys.refCount[directory[x]] = 1
        /\ table[x] # 0 => table[x] \in Page /\ phys.refCount[table[x]] = 1
    BY OwnPages
  <2> QED
    BY <1>1, <1>2, <2>1, SMTT(20)
<1>10. ASSUME NEW p \in Page PROVE Counted(p)'
  <2>1. DirUses(p)' = DirUses(p)
    BY <1>2 DEF DirUses
  <2>2. /\ TabUses(p)' = IF p = t THEN TabUses(p) \cup {c} ELSE TabUses(p)
        /\ p = t => c \notin TabUses(p)
    <3>1. CASE t = 0
      BY <1>1, <1>2, <1>5, <3>1, SMT DEF TabUses
    <3>2. CASE t # 0
      BY <1>1, <1>2, <1>5, <3>2, SMT DEF TabUses
    <3> QED
      BY <3>1, <3>2
  <2>3. /\ \A x \in MapUses(p) : x # <<c, v>> => x \in MapUses(p)'
        /\ \A x \in MapUses(p)' : x # <<c, v>> => x \in MapUses(p)
        /\ <<c, v>> \in MapUses(p) <=> p = o
        /\ <<c, v>> \in MapUses(p)' <=> p = n
    <3>1. \A x \in MapUses(p) : x # <<c, v>> => x \in MapUses(p)'
      BY <1>2, <1>6, SMT DEF MapUses
    <3>2. \A x \in MapUses(p)' : x # <<c, v>> => x \in MapUses(p)
      BY <1>2, <1>6, SMTT(20) DEF MapUses
    <3>3. <<c, v>> \in MapUses(p) <=> p = o
      BY <1>2 DEF MapUses
    <3>4. <<c, v>> \in MapUses(p)' <=> p = n
      BY <1>2, <1>6 DEF MapUses
    <3> QED
      BY <3>1, <3>2, <3>3, <3>4
  <2>4. CASE p = n
    <3>1. MapUses(p)' = MapUses(p) \cup {<<c, v>>} /\ <<c, v>> \notin MapUses(p)
      BY <1>3, <2>3, <2>4
    <3>2. OneMore(p)
      BY <1>2, <2>1, <2>2, <2>4, <3>1 DEF OneMore
    <3> QED
      BY <1>1, <1>2, <2>4, <3>2, CountChange DEF IInv
  <2>5. CASE p = o
    <3>1. MapUses(p)' = MapUses(p) \ {<<c, v>>} /\ <<c, v>> \in MapUses(p) /\ p # n /\ p # t
      BY <1>1, <1>3, <2>3, <2>5
    <3>2. OneLess(p)
      BY <2>1, <2>2, <3>1 DEF OneLess
    <3> QED
      BY <1>1, <1>2, <2>5, <3>1, <3>2, CountChange DEF IInv
  <2>6. CASE p # n /\ p # o
    <3>1. MapUses(p)' = MapUses(p)
      BY <2>3, <2>6, SMT
    <3>2. CASE p = t
      <4>1. OneMore(p)
        BY <2>1, <2>2, <3>1, <3>2 DEF OneMore
      <4> QED
        BY <1>1, <1>2, <3>2, <4>1, CountChange DEF IInv
    <3>3. CASE p # t
      <4>1. SameUses(p)
        BY <2>1, <2>2, <3>1, <3>3 DEF SameUses
      <4> QED
        BY <1>1, <1>2, <2>6, <3>3, <4>1, CountChange DEF IInv
    <3> QED
      BY <3>2, <3>3
  <2> QED
    BY <2>4, <2>5, <2>6
<1>11. \A x \in Ctx \ contexts' : Empty(x)'
  BY <1>2, <1>4, <1>5, SMTT(20) DEF IInv, Empty
<1>12. ASSUME NEW x \in contexts PROVE PagesOK(x)'
  <2>1. ASSUME NEW u \in VPage, entry[x][u].writable
        PROVE  entry[x][u].page # 0 /\ phys'.refCount[entry[x][u].page] = 1
               /\ phys.refCount[entry[x][u].page] = 1
    <3>1. PICK p \in Page : p = entry[x][u].page /\ phys.refCount[p] = 1 /\ p # 0
      BY <1>1, <2>1, TypeFacts, SMTT(20) DEF PagesOK
    <3>2. p # n /\ p # t /\ p # o
      BY <1>1, <1>2, <3>1, SMTT(20)
    <3>3. phys'.refCount[p] = phys.refCount[p]
      BY <1>2, <3>2
    <3> QED
      BY <3>1, <3>3
  <2>2. /\ directory'[x] \in Page /\ phys'.refCount[directory[x]] = phys.refCount[directory[x]]
        /\ table[x] # 0 => phys'.refCount[table[x]] = phys.refCount[table[x]]
    BY <1>2, <1>9
  <2>3. CASE x # c
    <3>1. PagesOK(x) /\ directory'[x] = directory[x] /\ table'[x] = table[x] /\ entry'[x] = entry[x]
      BY <1>1, <1>2, <1>4, <1>5, <2>3
    <3>2. \A u \in VPage : entry[x][u].writable =>
            phys'.refCount[entry[x][u].page] = phys.refCount[entry[x][u].page]
      BY <2>1
    <3> QED
      BY <2>2, <3>1, <3>2, PagesKept
  <2>4. CASE x = c
    <3>1. directory'[x] \in Page /\ phys'.refCount[directory'[x]] = 1
      BY <1>1, <1>2, <2>2 DEF PagesOK
    <3>2. table'[x] # 0 => phys'.refCount[table'[x]] = 1
      BY <1>1, <1>2, <1>5, <2>2, <2>4, SMTT(20) DEF PagesOK
    <3>3. ASSUME NEW a \in VPage, NEW b \in VPage, entry'[x][a].page = entry'[x][b].page,
                 entry'[x][a].page # 0
          PROVE  a = b
      <4>1. CASE a # v /\ b # v
        BY <1>1, <1>6, <3>3, <4>1, SMTT(20) DEF PagesOK
      <4>2. CASE a = v /\ b # v
        BY <1>6, <1>8, <2>4, <3>3, <4>2, SMTT(20)
      <4>3. CASE a # v /\ b = v
        BY <1>6, <1>8, <2>4, <3>3, <4>3
      <4> QED
        BY <4>1, <4>2, <4>3
    <3>4. ASSUME NEW u \in VPage, entry'[x][u].writable
          PROVE  entry'[x][u].page # 0 /\ phys'.refCount[entry'[x][u].page] = 1
      <4>1. CASE u = v
        BY <1>1, <1>2, <1>6, <2>4, <4>1, SMTT(20)
      <4>2. CASE u # v
        BY <1>6, <2>1, <3>4, <4>2, SMTT(20)
      <4> QED
        BY <4>1, <4>2
    <3> QED
      BY <3>1, <3>2, <3>3, <3>4 DEF PagesOK
  <2> QED
    BY <2>3, <2>4
<1>13. ASSUME NEW x \in contexts PROVE RegionsOK(x)'
  <2>1. \A u \in VPage : entry'[x][u].page # 0 => entry[x][u].page # 0 \/ InSomeRegion(x, u)
    BY <1>6
  <2> QED
    BY <1>1, <1>2, <2>1, RegionsKept
<1> QED
  BY <1>2, <1>7, <1>10, <1>11, <1>12, <1>13 DEF IInv

(* The last user of a page may write it.                                   *)
LEMMA SoleUserIInv ==
  ASSUME IInv, NEW c \in contexts, NEW v \in VPage, entry[c][v].page # 0,
         phys.refCount[entry[c][v].page] = 1,
         entry' = [entry EXCEPT ![c][v].writable = TRUE],
         UNCHANGED <<phys, contents, contexts, directory, table, regions, current, stopped>>
  PROVE  IInv'
<1>1. /\ TypeOK /\ contexts \subseteq Ctx /\ c \in Ctx
      /\ \A x \in contexts : PagesOK(x) /\ RegionsOK(x)
  BY TypeFacts DEF IInv, TypeOK
<1>2. /\ entry' \in [Ctx -> [VPage -> [page : Page \cup {0}, writable : BOOLEAN]]]
      /\ \A x \in Ctx \ {c} : entry'[x] = entry[x]
      /\ \A u \in VPage \ {v} : entry'[c][u] = entry[c][u]
      /\ entry'[c][v].page = entry[c][v].page
  <2> DEFINE E == [page : Page \cup {0}, writable : BOOLEAN]
             e == [entry[c][v] EXCEPT !.writable = TRUE]
  <2>1. entry' = [entry EXCEPT ![c][v] = e]
    OBVIOUS
  <2>2. entry \in [Ctx -> [VPage -> E]] /\ entry[c][v] \in E
    BY <1>1 DEF TypeOK
  <2>3. e \in E /\ e.page = entry[c][v].page
    BY <2>2
  <2> HIDE DEF E, e
  <2>4. /\ entry' \in [Ctx -> [VPage -> E]]
        /\ \A x \in Ctx \ {c} : entry'[x] = entry[x]
        /\ \A u \in VPage \ {v} : entry'[c][u] = entry[c][u]
        /\ entry'[c][v] = e
    <3> DEFINE F == [VPage -> E]
               f == [entry[c] EXCEPT ![v] = e]
    <3>1. entry \in [Ctx -> F] /\ entry' = [entry EXCEPT ![c] = f]
      BY <2>1, <2>2
    <3>2. f \in F /\ f[v] = e /\ \A u \in VPage \ {v} : f[u] = entry[c][u]
      BY <1>1, <2>2, <2>3
    <3> HIDE DEF F, f
    <3>3. entry' \in [Ctx -> F] /\ entry'[c] = f /\ \A x \in Ctx \ {c} : entry'[x] = entry[x]
      BY <1>1, <3>1, <3>2
    <3> QED
      BY <3>2, <3>3 DEF F
  <2> QED
    BY <2>3, <2>4 DEF E
<1>3. \A x \in contexts, u \in VPage : entry'[x][u].page = entry[x][u].page
  BY <1>1, <1>2
<1>4. TypeOK' /\ PhysOK(phys)'
  BY <1>1, <1>2 DEF TypeOK, IInv, PhysOK
<1>5. ASSUME NEW p \in Page PROVE Counted(p)'
  <2>1. MapUses(p)' = MapUses(p)
    BY <1>3 DEF MapUses
  <2> QED
    BY <2>1 DEF IInv, Counted, DirUses, TabUses
<1>6. \A x \in Ctx \ contexts' : Empty(x)'
  BY <1>2 DEF IInv, Empty
<1>7. ASSUME NEW x \in contexts PROVE PagesOK(x)'
  <2>1. CASE x # c
    BY <1>1, <1>2, <2>1, PagesKept
  <2>2. CASE x = c
    <3>1. \A a, b \in VPage : entry'[x][a].page = entry'[x][b].page /\ entry'[x][a].page # 0 => a = b
      BY <1>1, <1>3, SMT DEF PagesOK
    <3>2. \A u \in VPage : entry'[x][u].writable =>
            entry'[x][u].page # 0 /\ phys'.refCount[entry'[x][u].page] = 1
      BY <1>1, <1>2, <2>2, SMT DEF PagesOK
    <3> QED
      BY <1>1, <3>1, <3>2 DEF PagesOK
  <2> QED
    BY <2>1, <2>2
<1>8. \A x \in contexts : RegionsOK(x)'
  BY <1>1, <1>3, RegionsKept
<1> QED
  BY <1>4, <1>5, <1>6, <1>7, <1>8 DEF IInv

=============================================================================
