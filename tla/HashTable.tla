----------------------------- MODULE HashTable ------------------------------
(***************************************************************************)
(* The kernel's hash table (htable.c), whose bucket arrays are areas of    *)
(* virtual memory (VMalloc) next to those of other users.  A bucket is the *)
(* set of its items: the order in a bucket decides nothing, because no two *)
(* items of a table have the same key.  An item's key is a field of the    *)
(* object it is part of and does not change (pid, tid, offset, name,       *)
(* parentINode).                                                           *)
(***************************************************************************)
EXTENDS VMalloc

CONSTANTS Key, Item, NoItem,
          KeyOf,                 \* the key of each item
          Hash,                  \* HashTableHash of each key
          HASH_INITIAL_SIZE,
          BucketsPerPage,
          MaxCount               \* bound: counts passed to HashTableReserve

ASSUME HashTableAssumption ==
  /\ NoItem \notin Item
  /\ Hash \in [Key -> Nat] /\ KeyOf \in [Item -> Key]
  /\ HASH_INITIAL_SIZE \in Nat \ {0} /\ BucketsPerPage \in Nat \ {0} /\ MaxCount \in Nat

VARIABLES
  buckets, bucketCount, itemCount,
  hashValue,             \* HashItem.hashValue
  array,                 \* the area of HashTable.buckets, or NoArray
  result,                \* the last call, its arguments and its answer
  others,                \* history: the areas of other users
  hung                   \* HashTableReserve does not return

tableVars == <<buckets, bucketCount, itemCount, hashValue, array, result, hung>>

vars == <<tableVars, others, vmallocVars>>

NoArray == [start |-> NoPage, pages |-> 0, mapped |-> FALSE]

HASH_THRESHOLD_REF == 8

HASH_THRESHOLD_GROW == 7

TypeOK ==
  /\ VMallocTypeOK
  /\ bucketCount \in Nat /\ itemCount \in Nat
  /\ buckets \in [0 .. bucketCount - 1 -> SUBSET Item]
  /\ hashValue \in [Item -> Nat]
  /\ array \in Area \cup {NoArray} /\ others \subseteq Area
  /\ hung \in BOOLEAN

Init ==
  /\ VMallocInit
  /\ bucketCount = 0 /\ itemCount = 0 /\ buckets = [b \in 0 .. -1 |-> {}]
  /\ hashValue = [item \in Item |-> 0]
  /\ array = NoArray /\ result = <<"none">> /\ others = {} /\ hung = FALSE

-----------------------------------------------------------------------------
Items == UNION {buckets[b] : b \in DOMAIN buckets}

(* The loop of HashTableResize.                                            *)
Rehashed(size, hashes) == [b \in 0 .. size - 1 |-> {item \in Items : hashes[item] % size = b}]

PagesFor(size) == (size + BucketsPerPage - 1) \div BucketsPerPage

(* The memory that HashTableResize allocates and frees.                    *)
ReplaceArray(size) ==
  IF array = NoArray THEN MemVirtualAlloc(PagesFor(size))
  ELSE AllocThenFree(PagesFor(size), array)

(* HashTableResize                                                         *)
HashTableResize(size) ==
  /\ ReplaceArray(size)
  /\ array' = IF FirstFit(PagesFor(size)) = NoPage THEN NoArray
              ELSE [start |-> FirstFit(PagesFor(size)), pages |-> PagesFor(size), mapped |-> TRUE]
  /\ bucketCount' = size

HashTableGrowCheck(count) ==
  count > (bucketCount * HASH_THRESHOLD_GROW) \div HASH_THRESHOLD_REF

SizeForInsert ==
  IF ~HashTableGrowCheck(itemCount + 1) THEN bucketCount
  ELSE IF bucketCount = 0 THEN HASH_INITIAL_SIZE
  ELSE 2 * bucketCount

(* Mutant: any item of the bucket is taken for the one that is looked for. *)
FindFromBucketAny(bucket, k) == bucket

(* The items with key k in a bucket (HashTableFindFromBucket,              *)
(* HashTableKeyCompare).                                                   *)
FindFromBucket(bucket, k) == {item \in bucket : KeyOf[item] = k}

(* HashTableInsert.  The key and the hash are stored in the item, and the  *)
(* table may grow, before the key is looked for.                           *)
HashTableInsert(item) ==
  LET k == KeyOf[item]
      size == SizeForInsert
      hashes == [hashValue EXCEPT ![item] = Hash[k]]
      grown == IF size = bucketCount THEN buckets ELSE Rehashed(size, hashes)
      b == Hash[k] % size
      isNew == FindFromBucket(grown[b], k) = {}
  IN  /\ hashValue' = hashes
      /\ IF size = bucketCount THEN UNCHANGED <<vmallocVars, array, bucketCount>>
         ELSE HashTableResize(size)
      /\ buckets' = IF isNew THEN [grown EXCEPT ![b] = @ \cup {item}] ELSE grown
      /\ itemCount' = IF isNew THEN itemCount + 1 ELSE itemCount
      /\ result' = <<"insert", item, k, isNew>>
      /\ UNCHANGED hung

(* HashTableRemoveKeyItem, which takes found out of bucket b.              *)
RemoveFrom(name, what, b, found) ==
  /\ buckets' = IF itemCount = 0 THEN buckets ELSE [buckets EXCEPT ![b] = @ \ found]
  /\ itemCount' = IF itemCount = 0 \/ found = {} THEN itemCount ELSE itemCount - 1
  /\ result' = <<name, what, itemCount # 0 /\ found # {}>>
  /\ UNCHANGED <<bucketCount, hashValue, array, hung, vmallocVars>>

BucketOf(hash) == IF bucketCount = 0 THEN 0 ELSE hash % bucketCount

HashTableRemove(k) ==
  RemoveFrom("remove", k, BucketOf(Hash[k]),
             IF itemCount = 0 THEN {} ELSE FindFromBucket(buckets[BucketOf(Hash[k])], k))

HashTableRemoveItem(item) ==
  RemoveFrom("removeItem", item, BucketOf(hashValue[item]),
             IF itemCount = 0 THEN {} ELSE buckets[BucketOf(hashValue[item])] \cap {item})

HashTableFind(k) ==
  LET found == IF itemCount = 0 THEN {} ELSE FindFromBucket(buckets[BucketOf(Hash[k])], k)
  IN  /\ result' = <<"find", k, IF found = {} THEN NoItem ELSE CHOOSE item \in found : TRUE>>
      /\ UNCHANGED <<buckets, bucketCount, itemCount, hashValue, array, hung, vmallocVars>>

(* HashTableReserve of a table that has buckets doubles their number until *)
(* it is at least count; without buckets doubling has no end.              *)
HashTableReserve(count) ==
  LET sizes == {bucketCount * 2^n : n \in 0 .. count}
      size == CHOOSE s \in sizes : s >= count /\ \A r \in sizes : r >= count => s <= r
  IN  /\ HashTableGrowCheck(count)
      /\ IF bucketCount = 0
         THEN hung' = TRUE /\ UNCHANGED <<buckets, bucketCount, array, vmallocVars>>
         ELSE /\ HashTableResize(size)
              /\ buckets' = Rehashed(size, hashValue)
              /\ UNCHANGED hung
      /\ UNCHANGED <<itemCount, hashValue, result>>

-----------------------------------------------------------------------------
(* Other users of virtual memory.                                          *)
OtherUser ==
  /\ \/ \E n \in 1 .. MaxArea : MemVirtualReserve(n) \/ MemVirtualAlloc(n)
     \/ \E area \in others : DoUnreserve(area)
  /\ others' = areas' \ {array}
  /\ UNCHANGED tableVars

(* Nothing is said of what follows.                                        *)
Undefined == (corrupt \/ hung) /\ UNCHANGED vars

Next ==
  \/ /\ ~corrupt /\ ~hung
     /\ \/ /\ \/ \E item \in Item : HashTableInsert(item) \/ HashTableRemoveItem(item)
              \/ \E k \in Key : HashTableRemove(k) \/ HashTableFind(k)
              \/ \E count \in 1 .. MaxCount : HashTableReserve(count)
           /\ UNCHANGED others
        \/ OtherUser
  \/ Undefined

Spec == Init /\ [][Next]_vars

-----------------------------------------------------------------------------
(* The items as a map from their keys.                                     *)
Contents ==
  [k \in Key |-> IF \E item \in Items : KeyOf[item] = k
                 THEN CHOOSE item \in Items : KeyOf[item] = k ELSE NoItem]

Map == INSTANCE FiniteMap WITH map <- Contents

(* The table behaves as a finite map: whether or not keys share a bucket   *)
(* and however often the table grows in between, inserting, removing and   *)
(* finding a key act on, and answer from, what one map has for that key,   *)
(* and growing the table changes nothing.                                  *)
ImplementsMap == Map!Spec

(* The bucket array is an area of its own of the size the table needs, and *)
(* growing the table neither loses nor frees an area of somebody else.     *)
OwnsArray ==
  /\ TypeOK
  /\ ~corrupt =>
       /\ FlagsMatchAreas
       /\ areas = others \cup (IF bucketCount = 0 THEN {} ELSE {array})
       /\ bucketCount > 0 => array.mapped /\ array.pages = PagesFor(bucketCount)
=============================================================================
