---------------------------- MODULE MemoryProofs ------------------------------
(***************************************************************************)
(* User memory keeps the counts of its pages, shares no page that somebody *)
(* may write, maps pages in regions only and so looks private to every     *)
(* process: for every finite set of contexts, all sizes of the zones, all  *)
(* regions, and any number of user pages within the one page table that    *)
(* Memory gives each context.                                              *)
(***************************************************************************)
EXTENDS MemorySpaceProofs, SequenceTheorems

(* Zenon, unless a step says otherwise                                     *)
USE Zenon

(* A sequence without its member i, and one with r put after the first n   *)
Without(rs, i) == SubSeq(rs, 1, i - 1) \o SubSeq(rs, i + 1, Len(rs))

With(rs, n, r) == SubSeq(rs, 1, n) \o <<r>> \o SubSeq(rs, n + 1, Len(rs))

(* The members after i move down by one.                                   *)
LEMMA WithoutFacts ==
  ASSUME NEW R, NEW rs \in Seq(R), NEW i \in 1 .. Len(rs)
  PROVE  /\ Without(rs, i) \in Seq(R) /\ DOMAIN Without(rs, i) = 1 .. Len(rs) - 1
         /\ \A j \in 1 .. Len(rs) - 1 : Without(rs, i)[j] = IF j < i THEN rs[j] ELSE rs[j + 1]
<1> DEFINE t == Without(rs, i)
           a == SubSeq(rs, 1, i - 1)
           b == SubSeq(rs, i + 1, Len(rs))
<1>1. Len(rs) \in Nat /\ i \in Nat /\ i >= 1 /\ i <= Len(rs)
  BY SMT
<1>2. /\ a \in Seq(R) /\ Len(a) = i - 1
      /\ \A j \in 1 .. i - 1 : a[j] = rs[j]
  BY <1>1, SubSeqProperties, SMT
<1>3. /\ b \in Seq(R) /\ Len(b) = Len(rs) - i
      /\ \A j \in 1 .. Len(rs) - i : b[j] = rs[i + j]
  BY <1>1, SubSeqProperties, SMT
<1>4. t = a \o b
  BY DEF Without
<1> HIDE DEF a, b, t
<1>5. /\ t \in Seq(R) /\ Len(t) = Len(a) + Len(b)
      /\ \A j \in 1 .. Len(a) + Len(b) : t[j] = IF j <= Len(a) THEN a[j] ELSE b[j - Len(a)]
  BY <1>2, <1>3, <1>4, ConcatProperties
<1>6. Len(t) = Len(rs) - 1 /\ DOMAIN t = 1 .. Len(rs) - 1
  BY <1>1, <1>2, <1>3, <1>5, SMT
<1>7. ASSUME NEW j \in 1 .. Len(rs) - 1 PROVE t[j] = IF j < i THEN rs[j] ELSE rs[j + 1]
  <2>1. t[j] = IF j <= i - 1 THEN a[j] ELSE b[j - (i - 1)]
    BY <1>1, <1>2, <1>3, <1>5, SMT
  <2>2. CASE j < i
    BY <1>1, <1>2, <2>1, <2>2, SMT
  <2>3. CASE ~(j < i)
    <3>1. j - (i - 1) \in 1 .. Len(rs) - i /\ i + (j - (i - 1)) = j + 1
      BY <1>1, <2>3, SMT
    <3>2. b[j - (i - 1)] = rs[j + 1]
      BY <1>3, <3>1
    <3> QED
      BY <1>1, <2>1, <2>3, <3>2, SMT
  <2> QED
    BY <2>2, <2>3
<1> QED
  BY <1>5, <1>6, <1>7 DEF t

(* The members after the first n move up by one.                           *)
LEMMA WithFacts ==
  ASSUME NEW R, NEW rs \in Seq(R), NEW n \in 0 .. Len(rs), NEW r \in R
  PROVE  /\ With(rs, n, r) \in Seq(R) /\ DOMAIN With(rs, n, r) = 1 .. Len(rs) + 1
         /\ \A j \in 1 .. Len(rs) + 1 :
              With(rs, n, r)[j] = IF j <= n THEN rs[j] ELSE IF j = n + 1 THEN r ELSE rs[j - 1]
<1> DEFINE t == With(rs, n, r)
           a == SubSeq(rs, 1, n)
           m == <<r>>
           b == SubSeq(rs, n + 1, Len(rs))
<1>1. Len(rs) \in Nat /\ n \in Nat /\ n <= Len(rs)
  BY SMT
<1>2. /\ a \in Seq(R) /\ Len(a) = n
      /\ \A j \in 1 .. n : a[j] = rs[j]
  BY <1>1, SubSeqProperties, SMT
<1>3. /\ b \in Seq(R) /\ Len(b) = Len(rs) - n
      /\ \A j \in 1 .. Len(rs) - n : b[j] = rs[n + j]
  BY <1>1, SubSeqProperties, SMT
<1>4. m \in Seq(R) /\ Len(m) = 1 /\ m[1] = r
  BY SMT
<1>5. t = (a \o m) \o b
  BY DEF With
<1> HIDE DEF a, b, m, t
<1> DEFINE am == a \o m
<1>6. /\ am \in Seq(R) /\ Len(am) = Len(a) + Len(m)
      /\ \A j \in 1 .. Len(a) + Len(m) : am[j] = IF j <= Len(a) THEN a[j] ELSE m[j - Len(a)]
  BY <1>2, <1>4, ConcatProperties
<1>7. t = am \o b
  BY <1>5
<1> HIDE DEF am
<1>8. /\ Len(am) = n + 1
      /\ \A j \in 1 .. n + 1 : am[j] = IF j <= n THEN rs[j] ELSE r
  <2>1. \A j \in 1 .. n + 1 : am[j] = IF j <= n THEN a[j] ELSE m[j - n]
    BY <1>1, <1>2, <1>4, <1>6
  <2>2. \A j \in 1 .. n + 1 : ~(j <= n) => j - n = 1
    BY <1>1, SMT
  <2> QED
    BY <1>1, <1>2, <1>4, <1>6, <2>1, <2>2, SMT
<1>9. /\ t \in Seq(R) /\ Len(t) = Len(am) + Len(b)
      /\ \A j \in 1 .. Len(am) + Len(b) : t[j] = IF j <= Len(am) THEN am[j] ELSE b[j - Len(am)]
  <2>1. am \in Seq(R) /\ b \in Seq(R)
    BY <1>3, <1>6
  <2> QED
    BY <1>7, <2>1, ConcatProperties
<1>10. Len(t) = Len(rs) + 1 /\ DOMAIN t = 1 .. Len(rs) + 1
  BY <1>1, <1>3, <1>8, <1>9, SMT
<1>11. ASSUME NEW j \in 1 .. Len(rs) + 1
       PROVE  t[j] = IF j <= n THEN rs[j] ELSE IF j = n + 1 THEN r ELSE rs[j - 1]
  <2>1. t[j] = IF j <= n + 1 THEN am[j] ELSE b[j - (n + 1)]
    BY <1>1, <1>3, <1>8, <1>9, SMT
  <2>2. CASE j <= n + 1
    BY <1>1, <1>8, <2>1, <2>2, SMT
  <2>3. CASE ~(j <= n + 1)
    <3>1. j - (n + 1) \in 1 .. Len(rs) - n /\ n + (j - (n + 1)) = j - 1
      BY <1>1, <2>3, SMT
    <3>2. b[j - (n + 1)] = rs[j - 1]
      BY <1>3, <3>1
    <3> QED
      BY <1>1, <2>1, <2>3, <3>2, SMT
  <2> QED
    BY <2>2, <2>3
<1> QED
  BY <1>9, <1>10, <1>11 DEF t

(* What RegionsOK says of the regions of a context                         *)
LEMMA RegionTypes ==
  ASSUME IInv, NEW c \in contexts
  PROVE  /\ c \in Ctx /\ regions[c] \in Seq(Region) /\ DOMAIN regions[c] = 1 .. Len(regions[c])
         /\ Len(regions[c]) \in Nat /\ KernelBase \in Nat
         /\ \A i \in DOMAIN regions[c] :
              /\ regions[c][i] \in Region
              /\ regions[c][i].start \in Nat /\ regions[c][i].start >= 1
              /\ regions[c][i].length \in Nat
              /\ regions[c][i].start + regions[c][i].length <= KernelBase
<1>1. /\ c \in Ctx /\ regions[c] \in Seq(Region) /\ RegionsOK(c) /\ KernelBase \in Nat
  BY MemoryAssumption DEF IInv, TypeOK
<1>2. Len(regions[c]) \in Nat /\ DOMAIN regions[c] = 1 .. Len(regions[c])
  BY <1>1, LenProperties
<1>3. ASSUME NEW i \in DOMAIN regions[c] PROVE regions[c][i] \in Region
  BY <1>1, <1>2, ElementOfSeq
<1>4. \A r \in Region : r.start \in Nat /\ r.start >= 1 /\ r.length \in Nat
  BY <1>1, SMT DEF Region, VPage
<1> QED
  BY <1>1, <1>2, <1>3, <1>4 DEF RegionsOK

(* The regions of c become rs, and nothing of the memory changes.          *)
LEMMA NewRegionsIInv ==
  ASSUME IInv, NEW c \in contexts, NEW rs \in Seq(Region),
         regions' = [regions EXCEPT ![c] = rs],
         UNCHANGED <<phys, contents, contexts, directory, table, entry, current, stopped>>,
         RegionsOK(c)'
  PROVE  IInv'
<1>1. /\ TypeOK /\ contexts \subseteq Ctx /\ c \in Ctx
      /\ \A x \in Ctx \ {c} : regions'[x] = regions[x]
  BY TypeFacts DEF IInv, TypeOK
<1>2. TypeOK'
  BY <1>1 DEF TypeOK
<1>3. PhysOK(phys)'
  BY DEF IInv, PhysOK
<1>4. \A p \in Page : Counted(p)'
  BY DEF IInv, Counted, DirUses, TabUses, MapUses
<1>5. \A x \in Ctx \ contexts' : Empty(x)'
  BY <1>1 DEF IInv, Empty
<1>6. \A x \in contexts' : PagesOK(x)'
  BY PagesKept DEF IInv
<1>7. ASSUME NEW x \in contexts' PROVE RegionsOK(x)'
  <2>1. CASE x = c
    BY <2>1
  <2>2. CASE x # c
    BY <1>1, <2>2, RegionsKept DEF IInv
  <2> QED
    BY <2>1, <2>2
<1> QED
  BY <1>2, <1>3, <1>4, <1>5, <1>6, <1>7 DEF IInv

Resized(rs, i, length) == [rs EXCEPT ![i].length = length]

(* A region gets another length.                                           *)
LEMMA ResizeFacts ==
  ASSUME IInv, NEW c \in contexts, NEW i \in DOMAIN regions[c], NEW length \in 0 .. KernelBase
  PROVE  /\ Resized(regions[c], i, length) \in Seq(Region)
         /\ DOMAIN Resized(regions[c], i, length) = DOMAIN regions[c]
         /\ \A j \in DOMAIN regions[c] :
              /\ Resized(regions[c], i, length)[j].start = regions[c][j].start
              /\ Resized(regions[c], i, length)[j].length =
                   IF j = i THEN length ELSE regions[c][j].length
<1> DEFINE q == regions[c]
           rs == Resized(q, i, length)
           r == [q[i] EXCEPT !.length = length]
<1>1. q \in Seq(Region) /\ DOMAIN q = 1 .. Len(q) /\ q[i] \in Region
  BY RegionTypes
<1>2. r \in Region /\ r.start = q[i].start /\ r.length = length
  BY <1>1 DEF Region
<1>3. rs = [q EXCEPT ![i] = r]
  BY DEF Resized
<1> HIDE DEF q, r, rs
<1>4. /\ rs \in Seq(Region) /\ Len(rs) = Len(q)
      /\ \A j \in 1 .. Len(q) : rs[j] = IF j = i THEN r ELSE q[j]
  <2>1. i \in 1 .. Len(q)
    BY <1>1 DEF q
  <2>2. r \in Region /\ q \in Seq(Region)
    BY <1>1, <1>2
  <2>3. /\ [q EXCEPT ![i] = r] \in Seq(Region) /\ Len([q EXCEPT ![i] = r]) = Len(q)
        /\ \A j \in 1 .. Len(q) : [q EXCEPT ![i] = r][j] = IF j = i THEN r ELSE q[j]
    BY <2>1, <2>2, ExceptSeq, SMT
  <2> QED
    BY <1>3, <2>3
<1>5. DOMAIN rs = 1 .. Len(q)
  BY <1>4, LenProperties
<1> QED
  BY <1>1, <1>2, <1>4, <1>5 DEF q, rs

(* A region grows.                                                         *)
LEMMA RegionGrowIInv ==
  ASSUME IInv, NEW c \in contexts, NEW i \in DOMAIN regions[c], NEW length \in 0 .. KernelBase,
         RegionGrow(c, i, length)
  PROVE  IInv'
<1>1. PICK rs : rs = Resized(regions[c], i, length)
  OBVIOUS
<1>2. /\ length > regions[c][i].length
      /\ regions[c][i].start + length <= KernelBase
      /\ regions' = [regions EXCEPT ![c] = rs]
      /\ UNCHANGED <<phys, contents, contexts, directory, table, entry, current, stopped>>
  BY <1>1 DEF RegionGrow, Resized
<1>3. /\ rs \in Seq(Region) /\ DOMAIN rs = DOMAIN regions[c]
      /\ \A j \in DOMAIN rs :
           /\ rs[j].start = regions[c][j].start
           /\ rs[j].length = IF j = i THEN length ELSE regions[c][j].length
  BY <1>1, ResizeFacts, SMT
<1>4. /\ c \in Ctx /\ regions'[c] = rs /\ RegionsOK(c) /\ length \in Nat /\ KernelBase \in Nat
      /\ \A j \in DOMAIN regions[c] :
           regions[c][j].start \in Nat /\ regions[c][j].length \in Nat
  BY <1>2, RegionTypes, SMTT(20) DEF IInv, TypeOK
<1>5. ASSUME NEW j \in DOMAIN rs PROVE PagesOf(regions[c][j]) \subseteq PagesOf(rs[j])
  <2>1. rs[j].start \in Nat /\ rs[j].length \in Nat /\ rs[j].start = regions[c][j].start
        /\ regions[c][j].length \in Nat /\ rs[j].length >= regions[c][j].length
    BY <1>2, <1>3, <1>4, SMT
  <2> QED
    BY <2>1, SMT DEF PagesOf
<1>6. /\ \A j, k \in DOMAIN rs : j < k => rs[j].start < rs[k].start
      /\ \A j \in DOMAIN rs : rs[j].start + rs[j].length <= KernelBase
  BY <1>2, <1>3, <1>4 DEF RegionsOK
<1>7. \A v \in VPage : entry[c][v].page # 0 => \E j \in DOMAIN rs : v \in PagesOf(rs[j])
  BY <1>3, <1>4, <1>5 DEF RegionsOK, InSomeRegion
<1>8. RegionsOK(c)'
  BY <1>2, <1>4, <1>6, <1>7 DEF RegionsOK, InSomeRegion, PagesOf
<1> QED
  BY <1>2, <1>3, <1>8, NewRegionsIInv

(* A region shrinks and gives back its last pages.                         *)
LEMMA RegionShrinkIInv ==
  ASSUME IInv, NEW c \in contexts, NEW i \in DOMAIN regions[c], NEW length \in 0 .. KernelBase,
         RegionShrink(c, i, length)
  PROVE  IInv'
<1>1. PICK rs : rs = Resized(regions[c], i, length)
  OBVIOUS
<1>2. PICK S : S = PagesFrom(regions[c][i], length)
  OBVIOUS
<1>3. /\ length < regions[c][i].length
      /\ UnmapAndFree(c, S)
      /\ regions' = [regions EXCEPT ![c] = rs]
      /\ UNCHANGED <<contexts, directory, table, current, stopped>>
  BY <1>1, <1>2 DEF RegionShrink, Resized
<1>4. /\ rs \in Seq(Region) /\ DOMAIN rs = DOMAIN regions[c]
      /\ \A j \in DOMAIN rs :
           /\ rs[j].start = regions[c][j].start
           /\ rs[j].length = IF j = i THEN length ELSE regions[c][j].length
  BY <1>1, ResizeFacts, SMT
<1>5. /\ c \in Ctx /\ regions'[c] = rs /\ RegionsOK(c) /\ length \in Nat /\ KernelBase \in Nat
      /\ \A j \in DOMAIN regions[c] :
           /\ regions[c][j].start \in Nat /\ regions[c][j].length \in Nat
           /\ regions[c][j].start >= 1
           /\ regions[c][j].start + regions[c][j].length <= KernelBase
  BY <1>3, RegionTypes, SMTT(20) DEF IInv, TypeOK
<1>6. S \in SUBSET VPage
  BY <1>2, <1>5, SMT DEF PagesFrom, VPage
<1>7. ASSUME NEW j \in DOMAIN rs, NEW v \in PagesOf(regions[c][j]), v \notin S
      PROVE  v \in PagesOf(rs[j])
  <2>1. /\ rs[j].start \in Nat /\ rs[j].length \in Nat /\ rs[j].start = regions[c][j].start
        /\ regions[c][j].length \in Nat
        /\ rs[j].length = IF j = i THEN length ELSE regions[c][j].length
    BY <1>4, <1>5
  <2>2. CASE j # i
    BY <2>1, <2>2 DEF PagesOf
  <2>3. CASE j = i
    <3>1. v \in Nat /\ v >= rs[i].start /\ v <= rs[i].start + regions[c][i].length - 1
      BY <2>1, <2>3, SMT DEF PagesOf
    <3>2. ~(v >= rs[i].start + length)
      BY <1>2, <1>5, <1>7, <2>1, <2>3, <3>1, SMT DEF PagesFrom
    <3> QED
      BY <1>5, <2>1, <2>3, <3>1, <3>2, SMT DEF PagesOf
  <2> QED
    BY <2>2, <2>3
<1>8. \A v \in VPage : entry'[c][v].page # 0 => entry[c][v].page # 0 /\ v \notin S
  BY <1>3, <1>5 DEF IInv, TypeOK, UnmapAndFree, NotPresent
<1>9. /\ \A j, k \in DOMAIN rs : j < k => rs[j].start < rs[k].start
      /\ \A j \in DOMAIN rs : rs[j].start + rs[j].length <= KernelBase
  <2>1. \A j, k \in DOMAIN rs : j < k => rs[j].start < rs[k].start
    BY <1>4, <1>5 DEF RegionsOK
  <2>2. ASSUME NEW j \in DOMAIN rs PROVE rs[j].start + rs[j].length <= KernelBase
    <3>1. rs[j].start = regions[c][j].start /\ rs[j].length \in Nat
          /\ rs[j].length <= regions[c][j].length
      BY <1>3, <1>4, <1>5, SMT
    <3> QED
      BY <1>4, <1>5, <3>1, SMT
  <2> QED
    BY <2>1, <2>2
<1>10. \A v \in VPage : entry'[c][v].page # 0 => \E j \in DOMAIN rs : v \in PagesOf(rs[j])
  BY <1>4, <1>5, <1>7, <1>8 DEF RegionsOK, InSomeRegion
<1>11. RegionsOK(c)'
  BY <1>5, <1>9, <1>10 DEF RegionsOK, InSomeRegion, PagesOf
<1>12. regions' \in [Ctx -> Seq(Region)] /\ \A x \in Ctx \ {c} : regions'[x] = regions[x]
  BY <1>3, <1>4, <1>5 DEF IInv, TypeOK
<1> QED
  BY <1>3, <1>6, <1>11, <1>12, UnmapIInv

(* A region is deleted with its pages.                                     *)
LEMMA RegionDeleteIInv ==
  ASSUME IInv, NEW c \in contexts, NEW i \in DOMAIN regions[c], RegionDelete(c, i)
  PROVE  IInv'
<1>1. PICK q : q = regions[c]
  OBVIOUS
<1>2. PICK rs : rs = Without(q, i)
  OBVIOUS
<1>3. PICK S : S = PagesFrom(q[i], 0)
  OBVIOUS
<1>4. /\ UnmapAndFree(c, S)
      /\ regions' = [regions EXCEPT ![c] = rs]
      /\ UNCHANGED <<contexts, directory, table, current, stopped>>
  BY <1>1, <1>2, <1>3 DEF RegionDelete, Without
<1>5. /\ c \in Ctx /\ q \in Seq(Region) /\ DOMAIN q = 1 .. Len(q) /\ Len(q) \in Nat
      /\ i \in 1 .. Len(q) /\ KernelBase \in Nat
      /\ \A j \in 1 .. Len(q) : /\ q[j].start \in Nat /\ q[j].length \in Nat /\ q[j].start >= 1
                                /\ q[j].start + q[j].length <= KernelBase
  BY <1>1, RegionTypes
<1>6. /\ rs \in Seq(Region) /\ DOMAIN rs = 1 .. Len(q) - 1
      /\ \A j \in 1 .. Len(q) - 1 : rs[j] = IF j < i THEN q[j] ELSE q[j + 1]
  BY <1>2, <1>5, WithoutFacts
<1>7. /\ regions'[c] = rs
      /\ \A j, k \in 1 .. Len(q) : j < k => q[j].start < q[k].start
      /\ \A v \in VPage : entry[c][v].page # 0 => \E j \in 1 .. Len(q) : v \in PagesOf(q[j])
  BY <1>1, <1>4, <1>5 DEF IInv, TypeOK, RegionsOK, InSomeRegion
<1>8. S = PagesOf(q[i]) /\ S \in SUBSET VPage
  BY <1>3, <1>5, SMT DEF PagesFrom, PagesOf, VPage
<1>9. \A v \in VPage : entry'[c][v].page # 0 => entry[c][v].page # 0 /\ v \notin S
  BY <1>4, <1>5 DEF IInv, TypeOK, UnmapAndFree, NotPresent
<1>10. ASSUME NEW j \in DOMAIN rs, NEW k \in DOMAIN rs, j < k PROVE rs[j].start < rs[k].start
  <2>1. PICK a \in 1 .. Len(q) : a = IF j < i THEN j ELSE j + 1
    BY <1>5, <1>6, SMT
  <2>2. PICK b \in 1 .. Len(q) : b = IF k < i THEN k ELSE k + 1
    BY <1>5, <1>6, SMT
  <2>3. a < b /\ rs[j] = q[a] /\ rs[k] = q[b]
    BY <1>5, <1>6, <1>10, <2>1, <2>2, SMT
  <2> QED
    BY <1>7, <2>3
<1>11. ASSUME NEW j \in DOMAIN rs PROVE rs[j].start + rs[j].length <= KernelBase
  <2>1. PICK a \in 1 .. Len(q) : a = IF j < i THEN j ELSE j + 1
    BY <1>5, <1>6, SMT
  <2>2. rs[j] = q[a]
    BY <1>5, <1>6, <2>1
  <2> QED
    BY <1>5, <2>2
<1>12. ASSUME NEW v \in VPage, entry'[c][v].page # 0
       PROVE  \E j \in DOMAIN rs : v \in PagesOf(rs[j])
  <2>1. PICK a \in 1 .. Len(q) : v \in PagesOf(q[a])
    BY <1>7, <1>9, <1>12
  <2>2. a # i
    BY <1>8, <1>9, <1>12, <2>1
  <2>3. PICK j \in DOMAIN rs : rs[j] = q[a]
    <3>1. CASE a < i
      <4>1. a \in DOMAIN rs
        BY <1>5, <1>6, <3>1, SMT
      <4> QED
        BY <1>6, <3>1, <4>1
    <3>2. CASE a > i
      <4>1. a - 1 \in DOMAIN rs /\ ~(a - 1 < i) /\ (a - 1) + 1 = a
        BY <1>5, <1>6, <3>2, SMT
      <4> QED
        BY <1>6, <4>1
    <3> QED
      BY <1>5, <2>2, <3>1, <3>2, SMT
  <2> QED
    BY <2>1, <2>3
<1>13. RegionsOK(c)'
  BY <1>7, <1>10, <1>11, <1>12 DEF RegionsOK, InSomeRegion, PagesOf
<1>14. regions' \in [Ctx -> Seq(Region)] /\ \A x \in Ctx \ {c} : regions'[x] = regions[x]
  BY <1>4, <1>5, <1>6 DEF IInv, TypeOK
<1> QED
  BY <1>4, <1>8, <1>13, <1>14, UnmapIInv

(* A region is created between those that start before and behind it.      *)
LEMMA RegionCreateIInv ==
  ASSUME IInv, NEW c \in contexts, NEW r \in NewRegions, RegionCreate(c, r)
  PROVE  IInv'
<1> DEFINE q == regions[c]
<1>1. q = regions[c]
  OBVIOUS
<1>2. /\ c \in Ctx /\ q \in Seq(Region) /\ DOMAIN q = 1 .. Len(q) /\ Len(q) \in Nat
      /\ KernelBase \in Nat
      /\ \A j \in 1 .. Len(q) : /\ q[j].start \in Nat /\ q[j].length \in Nat
                                /\ q[j].start + q[j].length <= KernelBase
  BY <1>1, RegionTypes
<1>3. r.start \in Nat /\ r.length \in Nat /\ r.writable \in BOOLEAN
      /\ r \in [start : Nat, length : Nat, writable : BOOLEAN]
  BY MemoryAssumption
<1> DEFINE beyond == {i \in DOMAIN q : q[i].start > r.start}
           m == IF beyond = {} THEN Len(q) ELSE (CHOOSE i \in beyond : \A j \in beyond : i <= j) - 1
<1>4. m \in 0 .. Len(q)
  <2>1. CASE beyond = {}
    BY <1>2, <2>1, SMT
  <2>2. CASE beyond # {}
    <3>1. beyond \in SUBSET Nat /\ beyond \subseteq 1 .. Len(q)
      BY <1>2, SMT
    <3> HIDE DEF beyond
    <3>2. \E i \in beyond : \A j \in beyond : i <= j
      BY <2>2, <3>1, LeastNat
    <3>3. (CHOOSE i \in beyond : \A j \in beyond : i <= j) \in beyond
      BY <3>2
    <3>4. m = (CHOOSE i \in beyond : \A j \in beyond : i <= j) - 1
      BY <2>2
    <3> HIDE DEF m
    <3>5. PICK a \in 1 .. Len(q) : m = a - 1
      BY <3>1, <3>3, <3>4
    <3> QED
      BY <1>2, <3>5, SMT
  <2> QED
    BY <2>1, <2>2
<1> HIDE DEF m
<1>5. PICK n \in 0 .. Len(q) : n = m
  BY <1>4
<1>6. PICK rs : rs = With(q, n, r)
  OBVIOUS
<1>7. /\ r.start # 0 /\ r.start + r.length < KernelBase
      /\ n > 0 => r.start > q[n].start + q[n].length
      /\ n < Len(q) => q[n + 1].start > r.start + r.length
      /\ regions' = [regions EXCEPT ![c] = rs]
      /\ UNCHANGED <<phys, contents, contexts, directory, table, entry, current, stopped>>
  <2>1. /\ r.start # 0 /\ r.start + r.length < KernelBase
        /\ m > 0 => ~ IsCollision(q[m], r)
        /\ m < Len(q) => ~ IsCollision(r, q[m + 1])
        /\ regions' = [regions EXCEPT ![c] = With(q, m, r)]
        /\ UNCHANGED <<phys, contents, contexts, directory, table, entry, current, stopped>>
    BY Zenon DEF RegionCreate, With, m, beyond
  <2> QED
    BY <1>5, <1>6, <2>1 DEF IsCollision
<1> HIDE DEF beyond, q
<1>8. r \in Region
  BY <1>2, <1>3, <1>7, SMT DEF Region, VPage
<1>9. /\ rs \in Seq(Region) /\ DOMAIN rs = 1 .. Len(q) + 1
      /\ \A j \in 1 .. Len(q) + 1 :
           rs[j] = IF j <= n THEN q[j] ELSE IF j = n + 1 THEN r ELSE q[j - 1]
  <2>1. q \in Seq(Region)
    BY <1>2
  <2>2. /\ With(q, n, r) \in Seq(Region) /\ DOMAIN With(q, n, r) = 1 .. Len(q) + 1
        /\ \A j \in 1 .. Len(q) + 1 :
             With(q, n, r)[j] = IF j <= n THEN q[j] ELSE IF j = n + 1 THEN r ELSE q[j - 1]
    BY <1>8, <2>1, WithFacts, SMT
  <2> QED
    BY <1>6, <2>2
<1>10. /\ regions'[c] = rs
       /\ \A j, k \in 1 .. Len(q) : j < k => q[j].start < q[k].start
       /\ \A v \in VPage : entry[c][v].page # 0 => \E j \in 1 .. Len(q) : v \in PagesOf(q[j])
  BY <1>1, <1>2, <1>7 DEF IInv, TypeOK, RegionsOK, InSomeRegion
<1>11. /\ \A j \in 1 .. n : q[j].start < r.start
       /\ \A j \in n + 1 .. Len(q) : r.start < q[j].start
  <2>1. ASSUME NEW j \in 1 .. n PROVE q[j].start < r.start
    <3>1. n \in 1 .. Len(q) /\ j \in 1 .. Len(q) /\ q[n].start < r.start
      BY <1>2, <1>3, <1>7, SMT
    <3>2. j = n \/ q[j].start < q[n].start
      BY <1>10, <3>1, SMT
    <3> QED
      BY <1>2, <1>3, <3>1, <3>2, SMT
  <2>2. ASSUME NEW j \in n + 1 .. Len(q) PROVE r.start < q[j].start
    <3>1. n + 1 \in 1 .. Len(q) /\ j \in 1 .. Len(q) /\ r.start < q[n + 1].start
      BY <1>2, <1>3, <1>7, SMT
    <3>2. j = n + 1 \/ q[n + 1].start < q[j].start
      BY <1>10, <3>1, SMT
    <3> QED
      BY <1>2, <1>3, <3>1, <3>2, SMT
  <2> QED
    BY <2>1, <2>2
<1>12. ASSUME NEW j \in DOMAIN rs, NEW k \in DOMAIN rs, j < k PROVE rs[j].start < rs[k].start
  <2>1. j \in 1 .. Len(q) + 1 /\ k \in 1 .. Len(q) + 1 /\ n \in Nat
    BY <1>9, SMT
  <2>2. CASE j <= n /\ k <= n
    BY <1>2, <1>9, <1>10, <1>12, <2>1, <2>2, SMT
  <2>3. CASE j <= n /\ k = n + 1
    BY <1>2, <1>9, <1>11, <2>1, <2>3, SMT
  <2>4. CASE j <= n /\ k > n + 1
    <3>1. /\ j \in 1 .. Len(q) /\ k - 1 \in 1 .. Len(q) /\ j < k - 1
          /\ rs[j] = q[j] /\ rs[k] = q[k - 1]
      BY <1>2, <1>9, <2>1, <2>4, SMT
    <3> QED
      BY <1>10, <3>1
  <2>5. CASE j = n + 1
    <3>1. /\ k - 1 \in n + 1 .. Len(q) /\ rs[j] = r /\ rs[k] = q[k - 1]
      BY <1>2, <1>9, <1>12, <2>1, <2>5, SMT
    <3> QED
      BY <1>11, <3>1
  <2>6. CASE j > n + 1
    <3>1. /\ j - 1 \in 1 .. Len(q) /\ k - 1 \in 1 .. Len(q) /\ j - 1 < k - 1
          /\ rs[j] = q[j - 1] /\ rs[k] = q[k - 1]
      BY <1>2, <1>9, <1>12, <2>1, <2>6, SMT
    <3> QED
      BY <1>10, <3>1
  <2> QED
    BY <1>12, <2>1, <2>2, <2>3, <2>4, <2>5, <2>6, SMT
<1>13. ASSUME NEW j \in DOMAIN rs PROVE rs[j].start + rs[j].length <= KernelBase
  <2>1. CASE j <= n
    BY <1>2, <1>9, <2>1, SMT
  <2>2. CASE j = n + 1
    <3>1. rs[j] = r
      BY <1>9, <2>2, SMT
    <3> QED
      BY <1>2, <1>3, <1>7, <3>1, SMT
  <2>3. CASE j > n + 1
    <3>1. j - 1 \in 1 .. Len(q) /\ rs[j] = q[j - 1]
      BY <1>2, <1>9, <2>3, SMT
    <3> QED
      BY <1>2, <3>1
  <2> QED
    BY <1>9, <2>1, <2>2, <2>3, SMT
<1>14. ASSUME NEW v \in VPage, entry'[c][v].page # 0
       PROVE  \E j \in DOMAIN rs : v \in PagesOf(rs[j])
  <2>1. PICK a \in 1 .. Len(q) : v \in PagesOf(q[a])
    BY <1>7, <1>10, <1>14
  <2>2. PICK j \in DOMAIN rs : rs[j] = q[a]
    <3>1. CASE a <= n
      <4>1. a \in DOMAIN rs
        BY <1>2, <1>9, SMT
      <4> QED
        BY <1>9, <3>1, <4>1
    <3>2. CASE a > n
      <4>1. a + 1 \in DOMAIN rs /\ ~(a + 1 <= n) /\ a + 1 # n + 1 /\ (a + 1) - 1 = a
        BY <1>2, <1>9, <3>2, SMT
      <4> QED
        BY <1>9, <4>1
    <3> QED
      BY <1>2, <3>1, <3>2, SMT
  <2> QED
    BY <2>1, <2>2
<1>15. RegionsOK(c)'
  BY <1>10, <1>12, <1>13, <1>14 DEF RegionsOK, InSomeRegion, PagesOf
<1> QED
  BY <1>7, <1>9, <1>15, NewRegionsIInv

-----------------------------------------------------------------------------

(* The search for the region of a page finds one if there is one.          *)
LEMMA RegionFindFacts ==
  ASSUME IInv, NEW c \in contexts, NEW v \in VPage
  PROVE  RegionFind(c, v) # 0 <=> InSomeRegion(c, v)
<1> DEFINE found == {i \in DOMAIN regions[c] :
                       /\ v \in PagesOf(regions[c][i])
                       /\ \A j \in 1 .. i : regions[c][j].start <= v}
<1>1. RegionFind(c, v) = IF found = {} THEN 0 ELSE CHOOSE i \in found : \A j \in found : i <= j
  BY DEF RegionFind
<1>2. /\ DOMAIN regions[c] = 1 .. Len(regions[c]) /\ Len(regions[c]) \in Nat
      /\ \A i \in DOMAIN regions[c] : regions[c][i].start \in Nat /\ regions[c][i].length \in Nat
      /\ \A i, j \in DOMAIN regions[c] : i < j => regions[c][i].start < regions[c][j].start
  BY RegionTypes DEF IInv, RegionsOK
<1>3. ASSUME NEW i \in DOMAIN regions[c], v \in PagesOf(regions[c][i]) PROVE i \in found
  <2>1. v \in Nat /\ regions[c][i].start <= v
    BY <1>2, <1>3, SMT DEF PagesOf
  <2>2. ASSUME NEW j \in 1 .. i PROVE regions[c][j].start <= v
    <3>1. j \in DOMAIN regions[c] /\ (j = i \/ j < i)
      BY <1>2, SMT
    <3> QED
      BY <1>2, <2>1, <3>1, SMT
  <2> QED
    BY <1>3, <2>2
<1>4. found # {} <=> InSomeRegion(c, v)
  BY <1>3 DEF InSomeRegion
<1>5. found \in SUBSET Nat /\ 0 \notin found
  BY <1>2, SMT
<1> HIDE DEF found
<1>6. ASSUME found # {} PROVE RegionFind(c, v) # 0
  <2>1. \E i \in found : \A j \in found : i <= j
    BY <1>5, <1>6, LeastNat
  <2>2. RegionFind(c, v) \in found
    BY <1>1, <1>6, <2>1
  <2> QED
    BY <1>5, <2>2
<1> QED
  BY <1>1, <1>4, <1>6

(* A page fault on a page that is not present ends with a mapping of it.   *)
LEMMA DemandPageEffect ==
  ASSUME IInv, current # Kernel, NEW v \in VPage, DemandPage(v), ~Stop
  PROVE  /\ current \in contexts /\ InSomeRegion(current, v)
         /\ entry[current][v].page = 0
         /\ \E n \in Page, t \in Page \cup {0} :
              /\ Maps(current, v, n, 0, t)
              /\ contents' = [contents EXCEPT ![n] = 0]
<1> DEFINE new == PhysicalAlloc(phys, MEM_HIGHMEM)
           tab == GetTable(new.phys, current)
<1>1. /\ entry[current][v].page = 0
      /\ RegionFind(current, v) # 0
      /\ new.page # 0 /\ tab.page # 0
      /\ phys' = tab.phys
      /\ contents' = [contents EXCEPT ![new.page] = 0]
      /\ table' = [table EXCEPT ![current] = tab.page]
      /\ entry' = [entry EXCEPT ![current][v] = [page |-> new.page, writable |-> TRUE]]
      /\ UNCHANGED <<contexts, directory, regions, current, stopped>>
  BY DEF DemandPage
<1>2. current \in contexts
  BY DEF IInv, TypeOK
<1>3. InSomeRegion(current, v)
  BY <1>1, <1>2, RegionFindFacts
<1>4. /\ PhysOK(phys) /\ MEM_KERNEL \in Zone /\ MEM_HIGHMEM \in Zone
      /\ phys.refCount \in [Page -> Nat] /\ 0 \notin Page
  BY PageFacts, SMT DEF IInv, PhysOK, MEM_DMA, MEM_KERNEL, MEM_HIGHMEM, Zone
<1>5. /\ new.page \in Page /\ phys.refCount[new.page] = 0 /\ PhysOK(new.phys)
      /\ new.phys.refCount = [phys.refCount EXCEPT ![new.page] = 1]
  BY <1>1, <1>4, AllocFacts
<1>6. PICK n \in Page : n = new.page
  BY <1>5
<1>7. PICK ph : ph = new.phys
  OBVIOUS
<1>8. /\ PhysOK(ph) /\ phys.refCount[n] = 0 /\ ph.refCount \in [Page -> Nat]
      /\ \A p \in Page : ph.refCount[p] = IF p = n THEN phys.refCount[p] + 1 ELSE phys.refCount[p]
  BY <1>4, <1>5, <1>6, <1>7, SMTT(20) DEF PhysOK
<1>9. /\ contents' = [contents EXCEPT ![n] = 0]
      /\ entry' = [entry EXCEPT ![current][v] = [page |-> n, writable |-> TRUE]]
      /\ tab = GetTable(ph, current)
  BY <1>1, <1>6, <1>7
<1> HIDE DEF new, tab
<1>10. CASE table[current] # 0
  <2>1. tab.page = table[current] /\ phys' = ph
    BY <1>1, <1>9, <1>10 DEF GetTable
  <2>2. table' = [table EXCEPT ![current] = IF 0 = 0 THEN table[current] ELSE 0]
    BY <1>1, <2>1
  <2>3. /\ PhysOK(phys') /\ 0 # n
        /\ \A p \in Page : phys'.refCount[p] =
             IF p = n \/ p = 0 THEN phys.refCount[p] + 1
             ELSE IF p = 0 THEN phys.refCount[p] - 1 ELSE phys.refCount[p]
    BY <1>4, <1>8, <2>1
  <2>4. Maps(current, v, n, 0, 0)
    BY <1>1, <1>8, <1>9, <2>2, <2>3 DEF Maps
  <2> QED
    BY <1>1, <1>2, <1>3, <1>9, <2>4
<1>11. CASE table[current] = 0
  <2>1. tab = PhysicalAlloc(ph, MEM_KERNEL)
    BY <1>9, <1>11 DEF GetTable
  <2>2. /\ tab.page \in Page /\ ph.refCount[tab.page] = 0 /\ PhysOK(tab.phys)
        /\ tab.phys.refCount = [ph.refCount EXCEPT ![tab.page] = 1]
    BY <1>1, <1>4, <1>8, <2>1, AllocFacts
  <2>3. PICK t \in Page : t = tab.page
    BY <2>2
  <2>4. table' = [table EXCEPT ![current] = IF t = 0 THEN table[current] ELSE t]
    BY <1>1, <1>4, <2>3
  <2>5. t # n /\ phys.refCount[t] = 0
    BY <1>4, <1>8, <2>2, <2>3, SMT
  <2>6. \A p \in Page : phys'.refCount[p] = IF p = t THEN 1 ELSE ph.refCount[p]
    BY <1>1, <1>8, <2>2, <2>3
  <2>7. /\ PhysOK(phys')
        /\ \A p \in Page : phys'.refCount[p] =
             IF p = n \/ p = t THEN phys.refCount[p] + 1
             ELSE IF p = 0 THEN phys.refCount[p] - 1 ELSE phys.refCount[p]
    BY <1>1, <1>4, <1>8, <2>2, <2>5, <2>6, SMTT(20)
  <2>8. Maps(current, v, n, 0, t)
    BY <1>1, <1>8, <1>9, <1>11, <2>4, <2>5, <2>7 DEF Maps
  <2>9. t \in Page \cup {0}
    OBVIOUS
  <2> QED
    BY <1>1, <1>2, <1>3, <1>9, <2>8, <2>9
<1> QED
  BY <1>10, <1>11

(* A write to a page that others use too ends with a copy of it.           *)
LEMMA DuplicateEffect ==
  ASSUME IInv, current \in contexts, NEW v \in VPage, NEW o, o = entry[current][v].page, o # 0,
         phys.refCount[o] > 1, Duplicate(v), ~Stop
  PROVE  \E n \in Page : /\ Maps(current, v, n, o, 0)
                         /\ contents' = [contents EXCEPT ![n] = contents[o]]
<1> DEFINE new == PhysicalAlloc(phys, MEM_HIGHMEM)
<1>1. /\ new.page # 0
      /\ phys' = PhysicalDeleteRef(new.phys, {o})
      /\ contents' = [contents EXCEPT ![new.page] = contents[o]]
      /\ entry' = [entry EXCEPT ![current][v] = [page |-> new.page, writable |-> TRUE]]
      /\ UNCHANGED <<contexts, directory, table, regions, current, stopped>>
  BY DEF Duplicate, GiveUpReference, CopyContents
<1>2. /\ PhysOK(phys) /\ MEM_HIGHMEM \in Zone
      /\ phys.refCount \in [Page -> Nat] /\ 0 \notin Page
  BY PageFacts, SMT DEF IInv, PhysOK, MEM_DMA, MEM_KERNEL, MEM_HIGHMEM, Zone
<1>3. /\ new.page \in Page /\ phys.refCount[new.page] = 0 /\ PhysOK(new.phys)
      /\ new.phys.refCount = [phys.refCount EXCEPT ![new.page] = 1]
  BY <1>1, <1>2, AllocFacts
<1>4. PICK n \in Page : n = new.page
  BY <1>3
<1>5. PICK ph : ph = new.phys
  OBVIOUS
<1> HIDE DEF new
<1>6. o \in Page /\ o # n
  BY <1>2, <1>3, <1>4, MappedPage, SMTT(20)
<1>7. /\ PhysOK(ph) /\ phys.refCount[n] = 0
      /\ \A p \in Page : ph.refCount[p] = IF p = n THEN phys.refCount[p] + 1 ELSE phys.refCount[p]
  BY <1>2, <1>3, <1>4, <1>5, SMT
<1>8. PICK S \in SUBSET Page : S = {o}
  BY <1>6
<1>9. \A p \in S : ph.refCount[p] # 0
  BY <1>2, <1>6, <1>7, <1>8, SMTT(20)
<1>10. /\ PhysOK(PhysicalDeleteRef(ph, S))
       /\ \A p \in Page : PhysicalDeleteRef(ph, S).refCount[p] =
            IF p \in S THEN ph.refCount[p] - 1 ELSE ph.refCount[p]
  BY <1>7, <1>9, DeleteRefFacts
<1>11. phys' = PhysicalDeleteRef(ph, S)
  BY <1>1, <1>5, <1>8
<1>12. ASSUME NEW p \in Page
       PROVE  phys'.refCount[p] = IF p = n \/ p = 0 THEN phys.refCount[p] + 1
                                  ELSE IF p = o THEN phys.refCount[p] - 1 ELSE phys.refCount[p]
  BY <1>2, <1>6, <1>7, <1>8, <1>10, <1>11
<1>13. table' = [table EXCEPT ![current] = IF 0 = 0 THEN table[current] ELSE 0]
  BY <1>1 DEF IInv, TypeOK
<1>14. Maps(current, v, n, o, 0)
  BY <1>1, <1>2, <1>4, <1>7, <1>10, <1>11, <1>12, <1>13 DEF Maps
<1> QED
  BY <1>1, <1>4, <1>14

(* The cases of a write to a page that is present and not writable         *)
LEMMA CopyOnWriteEffect ==
  ASSUME IInv, current # Kernel, NEW v \in VPage, CopyOnWrite(v), ~Stop
  PROVE  /\ current \in contexts /\ InSomeRegion(current, v)
         /\ entry[current][v].page \in Page
         /\ \/ \E n \in Page :
                 /\ Maps(current, v, n, entry[current][v].page, 0)
                 /\ contents' = [contents EXCEPT ![n] = contents[entry[current][v].page]]
            \/ /\ phys.refCount[entry[current][v].page] = 1
               /\ entry' = [entry EXCEPT ![current][v].writable = TRUE]
               /\ UNCHANGED <<phys, contents, contexts, directory, table, regions, current, stopped>>
<1>1. current \in contexts
  BY DEF IInv, TypeOK
<1>2. PICK o : o = entry[current][v].page
  OBVIOUS
<1>3. /\ o # 0 /\ RegionFind(current, v) # 0
      /\ \/ phys.refCount[o] > 1 /\ Duplicate(v)
         \/ /\ phys.refCount[o] <= 1
            /\ entry' = [entry EXCEPT ![current][v].writable = TRUE]
            /\ UNCHANGED <<phys, contents, contexts, directory, table, regions, current, stopped>>
  BY <1>2 DEF CopyOnWrite
<1>4. o \in Page /\ phys.refCount[o] \in Nat \ {0}
  BY <1>1, <1>2, <1>3, MappedPage
<1>5. InSomeRegion(current, v)
  BY <1>1, <1>3, RegionFindFacts
<1>6. CASE phys.refCount[o] > 1 /\ Duplicate(v)
  <2>1. \E n \in Page : Maps(current, v, n, o, 0) /\ contents' = [contents EXCEPT ![n] = contents[o]]
    BY <1>1, <1>2, <1>3, <1>6, DuplicateEffect
  <2> QED
    BY <1>1, <1>2, <1>4, <1>5, <2>1
<1>7. CASE ~(phys.refCount[o] > 1 /\ Duplicate(v))
  <2>1. phys.refCount[o] = 1
    BY <1>3, <1>4, <1>7, SMT
  <2> QED
    BY <1>1, <1>2, <1>3, <1>4, <1>5, <1>7, <2>1
<1> QED
  BY <1>6, <1>7

(* What user code does to memory                                           *)
LEMMA UserAccessIInv ==
  ASSUME IInv, UserAccess
  PROVE  IInv'
<1>1. CASE Stop
  BY <1>1, StopIInv
<1>2. CASE ~Stop
  <2>1. current # Kernel
    BY DEF UserAccess
  <2>2. PICK v \in VPage : DemandPage(v) \/ CopyOnWrite(v) \/ \E x \in Value : Write(v, x)
    BY DEF UserAccess
  <2>3. TypeOK /\ 0 \in Page \cup {0} /\ 0 \in Value
    BY MemoryAssumption DEF IInv
  <2>4. CASE DemandPage(v)
    <3>1. PICK n \in Page, t \in Page \cup {0} :
            Maps(current, v, n, 0, t) /\ contents' = [contents EXCEPT ![n] = 0]
      BY <1>2, <2>1, <2>4, DemandPageEffect
    <3>2. contents' \in [Page -> Value]
      BY <2>3, <3>1 DEF TypeOK
    <3>3. current \in contexts /\ InSomeRegion(current, v)
      BY <1>2, <2>1, <2>4, DemandPageEffect
    <3> QED
      BY <2>3, <3>1, <3>2, <3>3, MapsIInv
  <2>5. CASE CopyOnWrite(v)
    <3>1. PICK o \in Page : o = entry[current][v].page
      BY <1>2, <2>1, <2>5, CopyOnWriteEffect
    <3>2. /\ current \in contexts /\ InSomeRegion(current, v)
          /\ \/ \E n \in Page : Maps(current, v, n, o, 0) /\ contents' = [contents EXCEPT ![n] = contents[o]]
             \/ /\ phys.refCount[o] = 1
                /\ entry' = [entry EXCEPT ![current][v].writable = TRUE]
                /\ UNCHANGED <<phys, contents, contexts, directory, table, regions, current, stopped>>
      BY <1>2, <2>1, <2>5, <3>1, CopyOnWriteEffect
    <3>3. ASSUME NEW n \in Page, Maps(current, v, n, o, 0),
                 contents' = [contents EXCEPT ![n] = contents[o]]
          PROVE  IInv'
      <4>1. contents' \in [Page -> Value] /\ o \in Page \cup {0}
        BY <2>3, <3>3 DEF TypeOK
      <4> QED
        BY <2>3, <3>2, <3>3, <4>1, MapsIInv
    <3>4. ASSUME phys.refCount[o] = 1, entry' = [entry EXCEPT ![current][v].writable = TRUE],
                 UNCHANGED <<phys, contents, contexts, directory, table, regions, current, stopped>>
          PROVE  IInv'
      <4>1. o # 0
        BY PageFacts
      <4> QED
        BY <3>1, <3>2, <3>4, <4>1, SoleUserIInv
    <3> QED
      BY <3>2, <3>3, <3>4
  <2>6. CASE \E x \in Value : Write(v, x)
    <3>1. /\ UNCHANGED <<phys, spaceVars, current, stopped>> /\ contents' \in [Page -> Value]
      BY <2>3, <2>6 DEF Write, TypeOK
    <3>2. current' \in contexts \cup {Kernel} /\ stopped' \in BOOLEAN
      BY <2>3, <3>1 DEF TypeOK
    <3> QED
      BY <3>1, <3>2, SpaceUnchanged
  <2> QED
    BY <2>2, <2>4, <2>5, <2>6
<1> QED
  BY <1>1, <1>2

-----------------------------------------------------------------------------
(* At start up no context is allocated and every page is free.             *)
LEMMA InitIInv == Init => IInv
<1> SUFFICES ASSUME Init PROVE IInv
  OBVIOUS
<1>1. IsFiniteSet(Page) /\ 0 \notin Page /\ IsFiniteSet(Page) /\ Cardinality(Page) \in Nat
  BY PageFacts, FS_CardinalityType
<1>2. PhysOK(phys)
  <2> DEFINE f == [p \in Page |-> 0]
             h == [z \in Zone |-> IF ZoneSize[z] > 0 THEN ZoneStart(z) ELSE 0]
  <2>1. phys = [refCount |-> f, headPtr |-> h, free |-> Cardinality(Page)]
    BY DEF Init
  <2>2. f \in [Page -> Nat] /\ {p \in Page : f[p] = 0} = Page
    OBVIOUS
  <2>3. h \in [Zone -> Page \cup {0}]
    <3>1. ASSUME NEW z \in Zone, ZoneSize[z] > 0 PROVE ZoneStart(z) \in Page
      <4>1. 0 \in 0 .. ZoneSize[z] - 1 /\ ZoneStart(z) + 0 = ZoneStart(z)
        BY <3>1, ZoneFacts, SMT
      <4> QED
        BY <4>1, ZoneFacts
    <3> QED
      BY <3>1
  <2> HIDE DEF f, h
  <2> QED
    BY <1>1, <2>1, <2>2, <2>3 DEF PhysOK
<1>3. TypeOK
  <2>1. phys \in [refCount : [Page -> Nat], headPtr : [Zone -> Page \cup {0}], free : Nat]
    BY <1>2 DEF PhysOK
  <2>2. contents \in [Page -> Value] /\ contexts \subseteq Ctx /\ current \in contexts \cup {Kernel}
    BY MemoryAssumption DEF Init
  <2>3. directory \in [Ctx -> Page \cup {0}] /\ table \in [Ctx -> Page \cup {0}]
    BY DEF Init
  <2>4. entry \in [Ctx -> [VPage -> [page : Page \cup {0}, writable : BOOLEAN]]]
    BY DEF Init, NotPresent
  <2>5. regions \in [Ctx -> Seq(Region)] /\ stopped \in BOOLEAN
    <3>1. <<>> \in Seq(Region)
      BY SMT
    <3> QED
      BY <3>1 DEF Init
  <2> QED
    BY <2>1, <2>2, <2>3, <2>4, <2>5 DEF TypeOK
<1>4. ASSUME NEW p \in Page PROVE Counted(p)
  <2>1. DirUses(p) = {} /\ TabUses(p) = {} /\ MapUses(p) = {}
    BY DEF Init, DirUses, TabUses, MapUses
  <2>2. Cardinality({}) = 0
    BY FS_EmptySet
  <2>3. phys.refCount[p] = 0
    BY DEF Init
  <2> QED
    BY <2>1, <2>2, <2>3, SMTT(20) DEF Counted
<1>5. \A c \in Ctx \ contexts : Empty(c)
  BY DEF Init, Empty
<1>6. contexts = {}
  BY DEF Init
<1> QED
  BY <1>2, <1>3, <1>4, <1>5, <1>6 DEF IInv

(* Every step keeps the invariant.                                         *)
LEMMA NextIInv == IInv /\ [Next]_vars => IInv'
<1> SUFFICES ASSUME IInv, [Next]_vars PROVE IInv'
  OBVIOUS
<1>1. ASSUME NEW c \in Ctx, ContextInit(c) PROVE IInv'
  BY <1>1, ContextInitIInv
<1>2. ASSUME NEW c \in Ctx, ContextClone(c) PROVE IInv'
  BY <1>2, ContextCloneIInv
<1>3. ASSUME NEW c \in Ctx, ContextDelete(c) PROVE IInv'
  BY <1>3, ContextDeleteIInv
<1>4. ASSUME NEW c \in contexts \cup {Kernel}, ContextSwitchTo(c) PROVE IInv'
  BY <1>4, ContextSwitchIInv
<1>5. ASSUME RegionCall PROVE IInv'
  <2>1. PICK c \in contexts :
          \/ \E r \in NewRegions : RegionCreate(c, r)
          \/ \E i \in DOMAIN regions[c], length \in 0 .. KernelBase :
               RegionShrink(c, i, length) \/ RegionGrow(c, i, length)
          \/ \E i \in DOMAIN regions[c] : RegionDelete(c, i)
    BY <1>5 DEF RegionCall
  <2> QED
    BY <2>1, RegionCreateIInv, RegionShrinkIInv, RegionGrowIInv, RegionDeleteIInv
<1>6. ASSUME UserAccess PROVE IInv'
  BY <1>6, UserAccessIInv
<1>7. ASSUME UNCHANGED vars PROVE IInv'
  <2>1. /\ UNCHANGED <<phys, spaceVars>> /\ contents' \in [Page -> Value]
        /\ current' \in contexts \cup {Kernel} /\ stopped' \in BOOLEAN
    BY <1>7 DEF IInv, TypeOK, vars
  <2> QED
    BY <2>1, SpaceUnchanged
<1> QED
  BY <1>1, <1>2, <1>3, <1>4, <1>5, <1>6, <1>7 DEF Next

(* The invariant holds in every state.                                     *)
THEOREM Invariance == Spec => []IInv
BY InitIInv, NextIInv, PTL DEF Spec

-----------------------------------------------------------------------------
(* MemPhysicalAlloc, AddRef, DeleteRef and Free keep the count of every    *)
(* page at the number of its uses, and MemPhysicalFreePages at the number  *)
(* of pages without references, whatever contexts and regions do.          *)
THEOREM CountsKept == Spec => []PagesCounted
<1>1. IInv => PagesCounted
  BY DEF IInv, PagesCounted, Counted, PhysOK, DirUses, TabUses, MapUses
<1> QED
  BY <1>1, Invariance, PTL

(* No page that can be written without a fault is shared or a page table.  *)
THEOREM WritesArePrivate == Spec => []WritableNotShared
<1>1. ASSUME IInv PROVE WritableNotShared
  <2> SUFFICES ASSUME NEW c \in contexts, NEW v \in VPage, entry[c][v].writable,
                      NEW d \in contexts
               PROVE  /\ entry[c][v].page \notin {directory[d], table[d]}
                      /\ \A u \in VPage : entry[d][u].page = entry[c][v].page => d = c /\ u = v
    BY DEF WritableNotShared
  <2>1. entry[c][v].page # 0 /\ phys.refCount[entry[c][v].page] = 1
    BY <1>1 DEF IInv, PagesOK
  <2> QED
    BY <1>1, <2>1, MappedPage, SMTT(20)
<1> QED
  BY <1>1, Invariance, PTL

(* MemRegionFind finds the region of every page that is mapped.            *)
THEOREM MappingsHaveRegions == Spec => []MappedInRegion
<1>1. ASSUME IInv PROVE MappedInRegion
  BY <1>1, RegionFindFacts DEF MappedInRegion, IInv, RegionsOK
<1> QED
  BY <1>1, Invariance, PTL

-----------------------------------------------------------------------------
(* What context c reads at page v, and the pages that it may write         *)
Seen(c, v) == IF entry[c][v].page = 0 THEN 0 ELSE contents[entry[c][v].page]

MayWrite(c) == {v \in VPage : entry[c][v].writable}

(* Pages that are mapped have references: they are not forgotten.          *)
Alive ==
  \A c \in contexts, v \in VPage :
    entry[c][v].page # 0 => entry[c][v].page \in Page /\ phys.refCount[entry[c][v].page] # 0

(* What is mapped is counted, so it is not free.                           *)
LEMMA MappedAlive == IInv => Alive
BY MappedPage DEF Alive

(* Through a context that is not allocated nothing is seen.                *)
LEMMA EmptyFacts ==
  ASSUME IInv, NEW c \in Ctx \ contexts
  PROVE  MayWrite(c) = {} /\ \A v \in VPage : Seen(c, v) = 0 /\ entry[c][v].page = 0
BY SMT DEF IInv, Empty, NotPresent, MayWrite, Seen

(* The refinement mapping in terms of Seen and MayWrite                    *)
LEMMA MappingFacts ==
  /\ PrivateMemory = [c \in Ctx |-> [v \in VPage |-> Seen(c, v)]]
  /\ PrivateReady = [c \in Ctx |-> MayWrite(c)]
  /\ PrivateMemory' = [c \in Ctx |-> [v \in VPage |-> Seen(c, v)']]
  /\ PrivateReady' = [c \in Ctx |-> MayWrite(c)']
BY DEF PrivateMemory, PrivateReady, Seen, MayWrite

(* A context that keeps its entries, whose pages keep what they hold       *)
LEMMA SpaceKept ==
  ASSUME NEW c, entry'[c] = entry[c],
         \A v \in VPage : entry[c][v].page # 0 =>
           contents'[entry[c][v].page] = contents[entry[c][v].page]
  PROVE  MayWrite(c)' = MayWrite(c) /\ \A v \in VPage : Seen(c, v)' = Seen(c, v)
BY DEF MayWrite, Seen

(* Nothing that a process sees changes.                                    *)
LEMMA MemoryUnchanged ==
  ASSUME UNCHANGED <<entry, contents>>
  PROVE  PrivateMemory' = PrivateMemory /\ PrivateReady' = PrivateReady
BY DEF PrivateMemory, PrivateReady

(* Sharing the pages read-only looks like a copy of them.                  *)
LEMMA CloneRefines ==
  ASSUME IInv, NEW new \in Ctx, ContextClone(new), ~Stop
  PROVE  Private!Clone(new)
<1>1. /\ current \in contexts /\ new \notin contexts /\ contexts' = contexts \cup {new}
      /\ entry' = ReadOnlyInBoth(new) /\ contents' = contents /\ current' = current
  BY CloneEffect
<1>2. TypeOK /\ current \in Ctx /\ current # Kernel /\ new # current
  BY <1>1 DEF IInv, TypeOK, ContextClone
<1>3. /\ \A c \in Ctx \ {current, new} : entry'[c] = entry[c]
      /\ \A c \in {current, new}, v \in VPage : /\ entry'[c][v].page = entry[current][v].page
                                                /\ ~ entry'[c][v].writable
  <2> DEFINE readOnly == [v \in VPage |-> [page |-> entry[current][v].page, writable |-> FALSE]]
  <2>1. entry' = [entry EXCEPT ![current] = readOnly, ![new] = readOnly]
    BY <1>1 DEF ReadOnlyInBoth
  <2>2. \A v \in VPage : readOnly[v].page = entry[current][v].page /\ ~ readOnly[v].writable
    OBVIOUS
  <2>3. DOMAIN entry = Ctx
    BY <1>2 DEF TypeOK
  <2> HIDE DEF readOnly
  <2>4. entry'[current] = readOnly /\ entry'[new] = readOnly
        /\ \A c \in Ctx \ {current, new} : entry'[c] = entry[c]
    BY <1>2, <2>1, <2>3
  <2> QED
    BY <2>2, <2>4
<1>4. \A c \in Ctx \ {current, new} :
        MayWrite(c)' = MayWrite(c) /\ \A v \in VPage : Seen(c, v)' = Seen(c, v)
  BY <1>1, <1>3, SpaceKept
<1>5. PICK cur \in Ctx : cur = current
  BY <1>2
<1>6. /\ \A v \in VPage : Seen(new, v)' = Seen(cur, v) /\ Seen(cur, v)' = Seen(cur, v)
      /\ MayWrite(new)' = {} /\ MayWrite(cur)' = {}
  BY <1>1, <1>3, <1>5 DEF Seen, MayWrite
<1>7. MayWrite(new) = {}
  BY <1>1, EmptyFacts
<1>8. PrivateMemory' = [PrivateMemory EXCEPT ![new] = PrivateMemory[current]]
  <2>1. ASSUME NEW c \in Ctx
        PROVE  [v \in VPage |-> Seen(c, v)'] =
                 IF c = new THEN [v \in VPage |-> Seen(cur, v)] ELSE [v \in VPage |-> Seen(c, v)]
    <3>1. \A v \in VPage : Seen(c, v)' = IF c = new THEN Seen(cur, v) ELSE Seen(c, v)
      BY <1>4, <1>5, <1>6
    <3> QED
      BY <3>1
  <2> QED
    BY <1>5, <2>1, MappingFacts
<1>9. PrivateReady' = [PrivateReady EXCEPT ![current] = {}]
  <2>1. ASSUME NEW c \in Ctx PROVE MayWrite(c)' = IF c = cur THEN {} ELSE MayWrite(c)
    BY <1>4, <1>5, <1>6, <1>7
  <2> QED
    BY <1>5, <2>1, MappingFacts
<1> QED
  BY <1>1, <1>2, <1>8, <1>9 DEF Private!Clone

(* The pages that free pages held are forgotten and nobody maps them.      *)
LEMMA ForgetUnseen ==
  ASSUME Alive', NEW ph, phys' = ph, Forget(ph), NEW c \in contexts', entry'[c] = entry[c]
  PROVE  MayWrite(c)' = MayWrite(c) /\ \A v \in VPage : Seen(c, v)' = Seen(c, v)
<1>1. ASSUME NEW v \in VPage, entry[c][v].page # 0
      PROVE  contents'[entry[c][v].page] = contents[entry[c][v].page]
  <2>1. entry[c][v].page \in Page /\ phys'.refCount[entry[c][v].page] # 0
    BY <1>1 DEF Alive
  <2> QED
    BY <2>1 DEF Forget
<1> QED
  BY <1>1, SpaceKept

(* Deleting a context changes nothing that others see.                     *)
LEMMA DeleteRefines ==
  ASSUME IInv, IInv', Alive', NEW c \in Ctx, ContextDelete(c)
  PROVE  Private!Delete(c)
<1>1. PICK ph : phys' = ph /\ Forget(ph)
  BY DEF ContextDelete
<1>2. /\ c \in contexts \ {current} /\ contexts' = contexts \ {c} /\ current' = current
      /\ entry' = [entry EXCEPT ![c] = [v \in VPage |-> NotPresent]]
  BY DEF ContextDelete, MayDelete
<1>3. \A x \in Ctx \ {c} : entry'[x] = entry[x]
  BY <1>2 DEF IInv, TypeOK
<1>4. entry'[c] = [v \in VPage |-> NotPresent]
  BY <1>2 DEF IInv, TypeOK
<1>5. MayWrite(c)' = {} /\ \A v \in VPage : Seen(c, v)' = 0
  BY <1>4, SMTT(20) DEF MayWrite, Seen, NotPresent
<1>6. ASSUME NEW x \in Ctx \ {c}
      PROVE  MayWrite(x)' = MayWrite(x) /\ \A v \in VPage : Seen(x, v)' = Seen(x, v)
  <2>1. CASE x \in contexts
    BY <1>1, <1>2, <1>3, <2>1, ForgetUnseen
  <2>2. CASE x \notin contexts
    BY <1>3, <2>2, EmptyFacts, SpaceKept
  <2> QED
    BY <2>1, <2>2
<1>7. PrivateMemory' = [PrivateMemory EXCEPT ![c] = Private!Zero]
  <2>1. \A x \in Ctx : [v \in VPage |-> Seen(x, v)'] =
          IF x = c THEN [v \in VPage |-> 0] ELSE [v \in VPage |-> Seen(x, v)]
    BY <1>5, <1>6
  <2> QED
    BY <2>1, MappingFacts DEF Private!Zero
<1>8. PrivateReady' = [PrivateReady EXCEPT ![c] = {}]
  <2>1. \A x \in Ctx : MayWrite(x)' = IF x = c THEN {} ELSE MayWrite(x)
    BY <1>5, <1>6
  <2> QED
    BY <2>1, MappingFacts
<1> QED
  BY <1>2, <1>7, <1>8 DEF Private!Delete

(* Unmapping pages S of c only takes these from c.                         *)
LEMMA UnmapRefines ==
  ASSUME IInv, IInv', Alive', NEW c \in contexts, NEW S \in SUBSET VPage, UnmapAndFree(c, S),
         UNCHANGED <<contexts, current>>
  PROVE  Private!GiveBack(c, S)
<1>1. PICK ph : phys' = ph /\ Forget(ph)
  BY DEF UnmapAndFree
<1>2. TypeOK /\ c \in Ctx
  BY TypeFacts DEF IInv
<1>3. /\ \A x \in Ctx \ {c} : entry'[x] = entry[x]
      /\ \A v \in VPage : entry'[c][v] = IF v \in S THEN NotPresent ELSE entry[c][v]
  BY <1>2 DEF TypeOK, UnmapAndFree
<1>4. ASSUME NEW x \in Ctx \ {c}
      PROVE  MayWrite(x)' = MayWrite(x) /\ \A v \in VPage : Seen(x, v)' = Seen(x, v)
  <2>1. CASE x \in contexts
    BY <1>1, <1>3, <2>1, ForgetUnseen
  <2>2. CASE x \notin contexts
    BY <1>3, <2>2, EmptyFacts, SpaceKept
  <2> QED
    BY <2>1, <2>2
<1>5. ASSUME NEW v \in VPage PROVE Seen(c, v)' = IF v \in S THEN 0 ELSE Seen(c, v)
  <2>1. CASE v \in S
    BY <1>3, <2>1, SMTT(20) DEF Seen, NotPresent
  <2>2. CASE v \notin S
    <3>1. entry'[c][v] = entry[c][v]
      BY <1>3, <2>2
    <3>2. entry[c][v].page # 0 => contents'[entry[c][v].page] = contents[entry[c][v].page]
      <4>1. entry[c][v].page # 0 =>
              entry[c][v].page \in Page /\ phys'.refCount[entry[c][v].page] # 0
        BY <3>1 DEF Alive
      <4> QED
        BY <1>1, <4>1 DEF Forget
    <3> QED
      BY <2>2, <3>1, <3>2 DEF Seen
  <2> QED
    BY <2>1, <2>2
<1>6. MayWrite(c)' = MayWrite(c) \ S
  BY <1>3, SMT DEF MayWrite, NotPresent
<1>7. PrivateMemory' =
        [PrivateMemory EXCEPT ![c] = [v \in VPage |-> IF v \in S THEN 0 ELSE PrivateMemory[c][v]]]
  <2>1. PrivateMemory[c] = [v \in VPage |-> Seen(c, v)]
    BY <1>2, MappingFacts
  <2>2. [v \in VPage |-> Seen(c, v)'] =
          [v \in VPage |-> IF v \in S THEN 0 ELSE PrivateMemory[c][v]]
    BY <1>5, <2>1
  <2>3. \A x \in Ctx \ {c} : [v \in VPage |-> Seen(x, v)'] = [v \in VPage |-> Seen(x, v)]
    BY <1>4
  <2> QED
    BY <2>2, <2>3, MappingFacts
<1>8. PrivateReady' = [PrivateReady EXCEPT ![c] = PrivateReady[c] \ S]
  BY <1>2, <1>4, <1>6, MappingFacts
<1> QED
  BY <1>7, <1>8 DEF Private!GiveBack

(* A page that is mapped on demand or copied reads as before.              *)
LEMMA MapsRefines ==
  ASSUME IInv, current \in contexts, current # Kernel, NEW v \in VPage, NEW n \in Page, NEW o, NEW t,
         Maps(current, v, n, o, t),
         contents' = [contents EXCEPT ![n] = IF o = 0 THEN 0 ELSE contents[o]]
  PROVE  Private!MakeReady(v)
<1>1. PICK c \in contexts : c = current
  OBVIOUS
<1>2. /\ TypeOK /\ c \in Ctx /\ 0 \notin Page
      /\ \A x \in contexts, u \in VPage : entry[x][u].page # n
  BY UnusedPage, TypeFacts DEF IInv, Maps
<1>3. /\ entry' = [entry EXCEPT ![c][v] = [page |-> n, writable |-> TRUE]]
      /\ o = entry[c][v].page /\ contexts' = contexts /\ current' = current
  BY <1>1 DEF Maps
<1>4. /\ \A x \in Ctx \ {c} : entry'[x] = entry[x]
      /\ \A u \in VPage \ {v} : entry'[c][u] = entry[c][u]
      /\ entry'[c][v].page = n /\ entry'[c][v].writable
  BY <1>2, <1>3 DEF TypeOK
<1>5. /\ contents'[n] = IF o = 0 THEN 0 ELSE contents[o]
      /\ \A p : p # n /\ p \in Page => contents'[p] = contents[p]
  BY <1>2 DEF TypeOK
<1>6. \A x \in contexts, u \in VPage : entry[x][u].page # 0 =>
        contents'[entry[x][u].page] = contents[entry[x][u].page]
  BY <1>2, <1>5, TypeFacts
<1>7. ASSUME NEW x \in Ctx \ {c}
      PROVE  MayWrite(x)' = MayWrite(x) /\ \A u \in VPage : Seen(x, u)' = Seen(x, u)
  <2>1. CASE x \in contexts
    BY <1>4, <1>6, <2>1, SpaceKept
  <2>2. CASE x \notin contexts
    BY <1>4, <2>2, EmptyFacts, SpaceKept
  <2> QED
    BY <2>1, <2>2
<1>8. \A u \in VPage : Seen(c, u)' = Seen(c, u)
  <2>1. Seen(c, v)' = Seen(c, v)
    BY <1>2, <1>3, <1>4, <1>5, SMTT(20) DEF Seen
  <2>2. \A u \in VPage \ {v} : Seen(c, u)' = Seen(c, u)
    BY <1>4, <1>6, SMTT(20) DEF Seen
  <2> QED
    BY <2>1, <2>2
<1>9. MayWrite(c)' = MayWrite(c) \cup {v}
  BY <1>4 DEF MayWrite
<1>10. PrivateMemory' = PrivateMemory
  BY <1>7, <1>8, MappingFacts
<1>11. PrivateReady' = [PrivateReady EXCEPT ![current] = PrivateReady[current] \cup {v}]
  <2>1. PrivateReady' = [PrivateReady EXCEPT ![c] = PrivateReady[c] \cup {v}]
    BY <1>2, <1>7, <1>9, MappingFacts
  <2> QED
    BY <1>1, <2>1
<1> QED
  BY <1>3, <1>10, <1>11 DEF Private!MakeReady

(* The last user of a page sees no change when it may write it.            *)
LEMMA SoleUserRefines ==
  ASSUME IInv, current \in contexts, current # Kernel, NEW v \in VPage,
         entry' = [entry EXCEPT ![current][v].writable = TRUE],
         UNCHANGED <<contents, contexts, current>>
  PROVE  Private!MakeReady(v)
<1>1. PICK c \in contexts : c = current
  OBVIOUS
<1>2. TypeOK /\ c \in Ctx
  BY TypeFacts DEF IInv
<1>3. PICK e : e = [entry[c][v] EXCEPT !.writable = TRUE]
  OBVIOUS
<1>4. PICK f : f = [entry[c] EXCEPT ![v] = e]
  OBVIOUS
<1>5. entry' = [entry EXCEPT ![c] = f]
  BY <1>1, <1>3, <1>4
<1>6. /\ entry[c][v] \in [page : Page \cup {0}, writable : BOOLEAN]
      /\ DOMAIN entry[c] = VPage /\ DOMAIN entry = Ctx
  BY <1>2, SMT DEF TypeOK
<1>7. e.writable /\ e.page = entry[c][v].page
  BY <1>3, <1>6
<1>8. f[v] = e /\ \A u \in VPage \ {v} : f[u] = entry[c][u]
  BY <1>4, <1>6
<1>9. entry'[c] = f /\ \A x \in Ctx \ {c} : entry'[x] = entry[x]
  BY <1>2, <1>5, <1>6
<1>10. \A x \in Ctx \ {c} : MayWrite(x)' = MayWrite(x) /\ \A u \in VPage : Seen(x, u)' = Seen(x, u)
  BY <1>9, SpaceKept
<1>11. \A u \in VPage : Seen(c, u)' = Seen(c, u)
  BY <1>7, <1>8, <1>9, SMT DEF Seen
<1>12. MayWrite(c)' = MayWrite(c) \cup {v}
  BY <1>7, <1>8, <1>9 DEF MayWrite
<1>13. PrivateMemory' = PrivateMemory
  BY <1>10, <1>11, MappingFacts
<1>14. PrivateReady' = [PrivateReady EXCEPT ![current] = PrivateReady[current] \cup {v}]
  <2>1. PrivateReady' = [PrivateReady EXCEPT ![c] = PrivateReady[c] \cup {v}]
    BY <1>2, <1>10, <1>12, MappingFacts
  <2> QED
    BY <1>1, <2>1
<1> QED
  BY <1>13, <1>14 DEF Private!MakeReady

(* A write is seen by the context that makes it and by no other.           *)
LEMMA WriteRefines ==
  ASSUME IInv, current \in contexts, current # Kernel, NEW v \in VPage, NEW x \in Value, Write(v, x)
  PROVE  Private!Write(v, x)
<1>1. PICK c \in contexts : c = current
  OBVIOUS
<1>2. TypeOK /\ c \in Ctx
  BY TypeFacts DEF IInv
<1>3. PICK p : p = entry[c][v].page
  OBVIOUS
<1>4. /\ entry[c][v].writable /\ contents' = [contents EXCEPT ![p] = x]
      /\ UNCHANGED <<contexts, entry, current>>
  BY <1>1, <1>3 DEF Write, spaceVars
<1>5. p # 0 /\ phys.refCount[p] = 1
  BY <1>3, <1>4 DEF IInv, PagesOK
<1>6. p \in Page /\ \A d \in contexts, u \in VPage : entry[d][u].page = p => d = c /\ u = v
  BY <1>3, <1>5, MappedPage, SMTT(20)
<1>7. contents'[p] = x /\ \A a \in Page : a # p => contents'[a] = contents[a]
  BY <1>2, <1>4, <1>6 DEF TypeOK
<1>8. ASSUME NEW d \in Ctx, NEW u \in VPage PROVE Seen(d, u)' = IF d = c /\ u = v THEN x ELSE Seen(d, u)
  <2>1. CASE d \notin contexts
    <3>1. entry[d][u].page = 0 /\ d # c
      BY <2>1, EmptyFacts
    <3> QED
      BY <1>4, <3>1 DEF Seen
  <2>2. CASE d = c /\ u = v
    BY <1>3, <1>4, <1>5, <1>7, <2>2 DEF Seen
  <2>3. CASE d \in contexts /\ ~(d = c /\ u = v)
    <3>1. entry[d][u].page # p /\ entry[d][u].page \in Page \cup {0}
      BY <1>2, <1>6, <2>3, TypeFacts
    <3> QED
      BY <1>4, <1>7, <2>3, <3>1 DEF Seen
  <2> QED
    BY <2>1, <2>2, <2>3
<1>9. PrivateReady' = PrivateReady
  BY <1>4 DEF PrivateReady
<1>10. v \in PrivateReady[c]
  BY <1>2, <1>4 DEF PrivateReady
<1>11. PrivateMemory' = [PrivateMemory EXCEPT ![current][v] = x]
  <2>1. PICK f : f = [PrivateMemory[c] EXCEPT ![v] = x]
    OBVIOUS
  <2>2. PrivateMemory[c] = [u \in VPage |-> Seen(c, u)]
    BY <1>2, MappingFacts
  <2>3. f = [u \in VPage |-> Seen(c, u)']
    BY <1>2, <1>8, <2>1, <2>2
  <2>4. \A d \in Ctx \ {c} : [u \in VPage |-> Seen(d, u)'] = [u \in VPage |-> Seen(d, u)]
    BY <1>8
  <2>5. PrivateMemory' = [PrivateMemory EXCEPT ![c] = f]
    BY <2>3, <2>4, MappingFacts
  <2> QED
    BY <1>1, <2>1, <2>5
<1> QED
  BY <1>1, <1>4, <1>9, <1>10, <1>11 DEF Private!Write

(* The pages that a region gives back are the user's.                      *)
LEMMA PagesFromFacts ==
  ASSUME IInv, NEW c \in contexts, NEW i \in DOMAIN regions[c], NEW length \in Nat
  PROVE  PagesFrom(regions[c][i], length) \in SUBSET VPage
BY RegionTypes, SMTT(20) DEF PagesFrom, VPage

(* Every step is a step of AddressSpace, or changes nothing there.         *)
LEMMA StepRefines ==
  ASSUME IInv, IInv', Alive', Next
  PROVE  Private!Next \/ UNCHANGED Private!vars
<1>1. CASE Stop
  BY <1>1, MemoryUnchanged DEF Stop, spaceVars, Private!vars
<1>2. CASE ~Stop
  <2>1. ASSUME NEW c \in Ctx, ContextInit(c) PROVE Private!Next
    <3>1. /\ c \notin contexts /\ contexts' = contexts \cup {c}
          /\ UNCHANGED <<contents, entry, current>>
      BY <1>2, <2>1 DEF ContextInit
    <3>2. Private!Create(c)
      BY <3>1, MemoryUnchanged DEF Private!Create
    <3> QED
      BY <3>2 DEF Private!Next
  <2>2. ASSUME NEW c \in Ctx, ContextClone(c) PROVE Private!Next
    BY <1>2, <2>2, CloneRefines DEF Private!Next
  <2>3. ASSUME NEW c \in Ctx, ContextDelete(c) PROVE Private!Next
    BY <2>3, DeleteRefines DEF Private!Next
  <2>4. ASSUME NEW c \in contexts \cup {Kernel}, ContextSwitchTo(c) PROVE Private!Next
    <3>1. Private!Switch(c)
      BY <2>4, MemoryUnchanged DEF ContextSwitchTo, spaceVars, Private!Switch
    <3> QED
      BY <3>1 DEF Private!Next
  <2>5. ASSUME NEW c \in contexts, NEW r \in NewRegions, RegionCreate(c, r)
        PROVE  UNCHANGED Private!vars
    BY <2>5, MemoryUnchanged DEF RegionCreate, Private!vars
  <2>6. ASSUME NEW c \in contexts, NEW i \in DOMAIN regions[c], NEW length \in 0 .. KernelBase,
               RegionGrow(c, i, length)
        PROVE  UNCHANGED Private!vars
    BY <2>6, MemoryUnchanged DEF RegionGrow, Private!vars
  <2>7. ASSUME NEW c \in contexts, NEW S \in SUBSET VPage, UnmapAndFree(c, S),
               UNCHANGED <<contexts, current>>
        PROVE  Private!Next
    BY <2>7, UnmapRefines DEF Private!Next
  <2>8. ASSUME NEW c \in contexts, NEW i \in DOMAIN regions[c], NEW length \in 0 .. KernelBase,
               RegionShrink(c, i, length)
        PROVE  Private!Next
    <3>1. PagesFrom(regions[c][i], length) \in SUBSET VPage
      BY MemoryAssumption, PagesFromFacts, SMT
    <3>2. UnmapAndFree(c, PagesFrom(regions[c][i], length)) /\ UNCHANGED <<contexts, current>>
      BY <2>8 DEF RegionShrink
    <3> QED
      BY <2>7, <3>1, <3>2
  <2>9. ASSUME NEW c \in contexts, NEW i \in DOMAIN regions[c], RegionDelete(c, i)
        PROVE  Private!Next
    <3>1. PagesFrom(regions[c][i], 0) \in SUBSET VPage
      BY PagesFromFacts
    <3>2. UnmapAndFree(c, PagesFrom(regions[c][i], 0)) /\ UNCHANGED <<contexts, current>>
      BY <2>9 DEF RegionDelete
    <3> QED
      BY <2>7, <3>1, <3>2
  <2>10. ASSUME current # Kernel, NEW v \in VPage, DemandPage(v) PROVE Private!Next
    <3>1. current \in contexts
      BY <1>2, <2>10, DemandPageEffect
    <3>2. PICK n \in Page, t \in Page \cup {0} :
            Maps(current, v, n, 0, t) /\ contents' = [contents EXCEPT ![n] = 0]
      BY <1>2, <2>10, DemandPageEffect
    <3>3. contents' = [contents EXCEPT ![n] = IF 0 = 0 THEN 0 ELSE contents[0]]
      BY <3>2
    <3>4. Private!MakeReady(v)
      BY <2>10, <3>1, <3>2, <3>3, MapsRefines
    <3> QED
      BY <3>4 DEF Private!Next
  <2>11. ASSUME current # Kernel, NEW v \in VPage, CopyOnWrite(v) PROVE Private!Next
    <3>1. PICK o \in Page : o = entry[current][v].page
      BY <1>2, <2>11, CopyOnWriteEffect
    <3>2. /\ current \in contexts
          /\ \/ \E n \in Page : Maps(current, v, n, o, 0) /\ contents' = [contents EXCEPT ![n] = contents[o]]
             \/ /\ entry' = [entry EXCEPT ![current][v].writable = TRUE]
                /\ UNCHANGED <<contents, contexts, current>>
      BY <1>2, <2>11, <3>1, CopyOnWriteEffect
    <3>3. ASSUME NEW n \in Page, Maps(current, v, n, o, 0),
                 contents' = [contents EXCEPT ![n] = contents[o]]
          PROVE  Private!MakeReady(v)
      <4>1. contents' = [contents EXCEPT ![n] = IF o = 0 THEN 0 ELSE contents[o]]
        BY <3>3, PageFacts
      <4> QED
        BY <2>11, <3>2, <3>3, <4>1, MapsRefines
    <3>4. Private!MakeReady(v)
      BY <2>11, <3>2, <3>3, SoleUserRefines
    <3> QED
      BY <3>4 DEF Private!Next
  <2>12. ASSUME current # Kernel, NEW v \in VPage, NEW x \in Value, Write(v, x) PROVE Private!Next
    <3>1. current \in contexts
      BY <2>12 DEF IInv, TypeOK
    <3> QED
      BY <2>12, <3>1, WriteRefines DEF Private!Next
  <2>13. ASSUME RegionCall PROVE Private!Next \/ UNCHANGED Private!vars
    BY <2>13, <2>5, <2>6, <2>8, <2>9 DEF RegionCall
  <2>14. ASSUME UserAccess PROVE Private!Next
    BY <2>14, <2>10, <2>11, <2>12 DEF UserAccess
  <2> QED
    BY <2>1, <2>2, <2>3, <2>4, <2>13, <2>14 DEF Next
<1> QED
  BY <1>1, <1>2

(* Contexts that share pages after a clone, copy them late and fill them   *)
(* on demand implement AddressSpace: memory that is copied at once, that   *)
(* is zero from the start and that nobody but its owner changes.           *)
THEOREM Refinement == Spec => LooksPrivate
<1>1. Init => Private!Init
  <2> SUFFICES ASSUME Init PROVE Private!Init
    OBVIOUS
  <2>1. \A c \in Ctx, v \in VPage : entry[c][v].page = 0 /\ ~ entry[c][v].writable
    BY DEF Init, NotPresent
  <2>2. PrivateMemory = [c \in Ctx |-> [v \in VPage |-> 0]] /\ PrivateReady = [c \in Ctx |-> {}]
    BY <2>1 DEF PrivateMemory, PrivateReady
  <2> QED
    BY <2>2 DEF Init, Private!Init, Private!Zero
<1>2. IInv /\ IInv' /\ Alive' /\ [Next]_vars => [Private!Next]_(Private!vars)
  <2> SUFFICES ASSUME IInv, IInv', Alive', [Next]_vars PROVE [Private!Next]_(Private!vars)
    OBVIOUS
  <2>1. CASE Next
    BY <2>1, StepRefines
  <2>2. CASE UNCHANGED vars
    BY <2>2, MemoryUnchanged DEF vars, spaceVars, Private!vars
  <2> QED
    BY <2>1, <2>2
<1> QED
  BY <1>1, <1>2, MappedAlive, Invariance, PTL DEF Spec, LooksPrivate, Private!Spec
=============================================================================
