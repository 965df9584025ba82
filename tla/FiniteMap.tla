----------------------------- MODULE FiniteMap ------------------------------
(***************************************************************************)
(* What a hash table promises its users (htable.h): a finite map from keys *)
(* to items, each call answered from the map as it is.  result is the last *)
(* call, with its arguments, and its answer.                               *)
(***************************************************************************)
CONSTANTS Key, Item, NoItem

VARIABLES map, result

vars == <<map, result>>

Init == map = [k \in Key |-> NoItem] /\ result = <<"none">>

Insert(item, k) ==
  /\ map' = IF map[k] = NoItem THEN [map EXCEPT ![k] = item] ELSE map
  /\ result' = <<"insert", item, k, map[k] = NoItem>>

Remove(k) ==
  /\ map' = [map EXCEPT ![k] = NoItem]
  /\ result' = <<"remove", k, map[k] # NoItem>>

RemoveItem(item) ==
  /\ map' = [k \in Key |-> IF map[k] = item THEN NoItem ELSE map[k]]
  /\ result' = <<"removeItem", item, \E k \in Key : map[k] = item>>

Find(k) == result' = <<"find", k, map[k]>> /\ UNCHANGED map

Next ==
  \/ \E k \in Key : Remove(k) \/ Find(k) \/ \E item \in Item : Insert(item, k)
  \/ \E item \in Item : RemoveItem(item)

Spec == Init /\ [][Next]_vars
=============================================================================
