----------------------------- MODULE AddressSpace -----------------------------
(***************************************************************************)
(* What memory contexts promise to the processes that own them: every      *)
(* context has memory of its own.  A new one is all zero, a clone starts   *)
(* as a copy, and after that a context's memory changes only by a write    *)
(* made while it is the current one, or when pages are given back and read *)
(* as zero again.  A page must be made ready before it is written, which   *)
(* changes no memory; cloning a context undoes it for all its pages.       *)
(***************************************************************************)
CONSTANTS Ctx,      \* contexts
          Kernel,   \* the context without user memory
          VPage,    \* user pages
          Value     \* what a page can hold, 0 among it

VARIABLES contexts, \* the contexts that exist
          current,  \* the context in use
          memory,   \* what each context reads at each page
          ready     \* the pages that each context may write

vars == <<contexts, current, memory, ready>>

Zero == [v \in VPage |-> 0]

Init ==
  /\ contexts = {}
  /\ current = Kernel
  /\ memory = [c \in Ctx |-> Zero]
  /\ ready = [c \in Ctx |-> {}]

Create(c) ==
  /\ c \notin contexts
  /\ contexts' = contexts \cup {c}
  /\ UNCHANGED <<current, memory, ready>>

Clone(new) ==
  /\ current # Kernel
  /\ new \notin contexts
  /\ contexts' = contexts \cup {new}
  /\ memory' = [memory EXCEPT ![new] = memory[current]]
  /\ ready' = [ready EXCEPT ![current] = {}]
  /\ UNCHANGED current

Switch(c) ==
  /\ current' = c
  /\ UNCHANGED <<contexts, memory, ready>>

MakeReady(v) ==
  /\ current # Kernel
  /\ ready' = [ready EXCEPT ![current] = @ \cup {v}]
  /\ UNCHANGED <<contexts, current, memory>>

Write(v, x) ==
  /\ current # Kernel
  /\ v \in ready[current]
  /\ memory' = [memory EXCEPT ![current][v] = x]
  /\ UNCHANGED <<contexts, current, ready>>

GiveBack(c, S) ==
  /\ ready' = [ready EXCEPT ![c] = @ \ S]
  /\ memory' = [memory EXCEPT ![c] = [v \in VPage |-> IF v \in S THEN 0 ELSE @[v]]]
  /\ UNCHANGED <<contexts, current>>

Delete(c) ==
  /\ c \in contexts \ {current}
  /\ contexts' = contexts \ {c}
  /\ memory' = [memory EXCEPT ![c] = Zero]
  /\ ready' = [ready EXCEPT ![c] = {}]
  /\ UNCHANGED current

Next ==
  \/ \E c \in Ctx : Create(c) \/ Clone(c) \/ Delete(c)
  \/ \E c \in contexts \cup {Kernel} : Switch(c)
  \/ \E v \in VPage : MakeReady(v) \/ \E x \in Value : Write(v, x)
  \/ \E c \in contexts, S \in SUBSET VPage : GiveBack(c, S)

Spec == Init /\ [][Next]_vars
=============================================================================
