---------------------------- MODULE MCHashTable -----------------------------
(***************************************************************************)
(* An instance of HashTable for TLC.  Two items have the same key; the two *)
(* keys share a bucket of 2 and of 4 buckets, and none of 8.               *)
(***************************************************************************)
EXTENDS HashTable, TLC

CONSTANTS k1, k2, i1, i2, i3

MCHash == (k1 :> 5) @@ (k2 :> 9)

MCKeyOf == (i1 :> k1) @@ (i2 :> k1) @@ (i3 :> k2)
=============================================================================
