----------------------------- MODULE Interrupts -----------------------------
(***************************************************************************)
(* The interrupt dispatch table and the two PICs (interrupt.c).  An IRQ    *)
(* has a first entry, which is part of the table, and a chain of entries   *)
(* that are allocated.  IntrHandler walks the chain and calls handlers,    *)
(* which may themselves register and unregister handlers.                  *)
(*                                                                         *)
(* stale is set when the walk goes on from an entry that was freed.        *)
(***************************************************************************)
EXTENDS Integers, Sequences

CONSTANTS Irq,          \* the IRQs that are used, in 0 .. 15 without the cascade IRQ 2
          Handler,
          Cell,         \* the memory that MemKAlloc gives entries
          TableCell,    \* the first entry, in IntrDispatchTable
          NoIrq

ASSUME InterruptsAssumption ==
  /\ Irq \subseteq 0 .. 15 /\ 2 \notin Irq
  /\ TableCell \notin Cell /\ NoIrq \notin Irq

VARIABLES
  chain,       \* the entries of each IRQ, from IntrDispatchTable along next
  unmasked,    \* the lines, of the master and of the slave PIC, that are not masked
  inService,   \* the lines waiting for an end of interrupt
  walk,        \* IntrHandler: its IRQ and the entry whose handler it calls
  missing,     \* the entries registered when the walk began whose handlers were not called yet
  removed,     \* whether something was unregistered from this IRQ during the walk
  stale

intrVars == <<chain, unmasked, inService, walk, missing, removed, stale>>

Line == {"master", "slave"} \X (0 .. 7)

Cascade == <<"master", 2>>

(* The line that an IRQ arrives on.                                        *)
LineOf(irq) == IF irq >= 8 THEN <<"slave", irq - 8>> ELSE <<"master", irq>>

Entry == [handler : Handler, shared : BOOLEAN, cell : Cell \cup {TableCell}]

NoWalk == [irq |-> NoIrq, cell |-> TableCell]

Walking == walk # NoWalk

IntrTypeOK ==
  /\ chain \in [Irq -> Seq(Entry)]
  /\ unmasked \subseteq Line /\ inService \subseteq Line
  /\ walk \in [irq : Irq, cell : Cell \cup {TableCell}] \cup {NoWalk}
  /\ missing \subseteq Entry
  /\ removed \in BOOLEAN /\ stale \in BOOLEAN
  /\ \A irq \in Irq : chain[irq] # <<>> => chain[irq][1].cell = TableCell

(* IntrInit: everything is masked but the cascade line.                    *)
IntrInit ==
  /\ chain = [irq \in Irq |-> <<>>]
  /\ unmasked = {Cascade}
  /\ inService = {}
  /\ walk = NoWalk
  /\ missing = {} /\ removed = FALSE /\ stale = FALSE

(* Mutant: the slave's bits are counted from IRQ 9.                        *)
MaskBitsOffByOne(irq) ==
  IF irq > 8 THEN {<<"slave", irq - 9>>} ELSE IF irq < 8 THEN {<<"master", irq>>} ELSE {}

(* The mask bits that registering an IRQ clears and unregistering it sets. *)
(* The test is irq > 8, and bit 8 does not exist in the master's byte.     *)
MaskBits(irq) ==
  IF irq > 8 THEN {<<"slave", irq - 8>>} ELSE IF irq < 8 THEN {<<"master", irq>>} ELSE {}

(* Refused: somebody does not want to share.  Only the first entry's flags *)
(* are looked at.                                                          *)
MayShare(irq, shared) == shared /\ chain[irq][1].shared

FreeCell == {c \in Cell : \A irq \in Irq : \A n \in DOMAIN chain[irq] : chain[irq][n].cell # c}

(* Mutant: the new entry's next is not set.                                *)
WithSecondOnly(entries, entry) == <<entries[1], entry>>

(* A new entry is linked in after the first one.                           *)
WithSecond(entries, entry) == <<entries[1], entry>> \o Tail(entries)

IntrRegister(irq, shared, h) ==
  \/ /\ chain[irq] = <<>>
     /\ chain' = [chain EXCEPT ![irq] = <<[handler |-> h, shared |-> shared, cell |-> TableCell]>>]
     /\ unmasked' = unmasked \cup MaskBits(irq)
     /\ UNCHANGED <<inService, walk, missing, removed, stale>>
  \/ /\ chain[irq] # <<>> /\ MayShare(irq, shared)
     /\ \E c \in FreeCell :
          chain' = [chain EXCEPT ![irq] =
                      WithSecond(@, [handler |-> h, shared |-> shared, cell |-> c])]
     /\ UNCHANGED <<unmasked, inService, walk, missing, removed, stale>>

(* The chain without its nth entry.  The first entry of several takes the  *)
(* contents of the second one, whose memory is freed.                      *)
Without(entries, n) ==
  IF n = 1
  THEN IF Len(entries) = 1 THEN <<>>
       ELSE <<[entries[2] EXCEPT !.cell = TableCell]>> \o SubSeq(entries, 3, Len(entries))
  ELSE SubSeq(entries, 1, n - 1) \o SubSeq(entries, n + 1, Len(entries))

IntrUnRegister(irq, h) ==
  \E n \in DOMAIN chain[irq] :
    /\ chain[irq][n].handler = h
    /\ \A i \in 1 .. n - 1 : chain[irq][i].handler # h
    /\ chain' = [chain EXCEPT ![irq] = Without(@, n)]
    /\ unmasked' = IF Len(chain[irq]) = 1 THEN unmasked \ MaskBits(irq) ELSE unmasked
    /\ removed' = (removed \/ walk.irq = irq)
    /\ UNCHANGED <<inService, walk, missing, stale>>

(* An IRQ arrives and is delivered: its line is not masked and nothing of  *)
(* its priority or higher is in service.  IntrHandler calls the first      *)
(* handler.                                                                *)
InServiceFor(irq) == IF irq >= 8 THEN {LineOf(irq), Cascade} ELSE {LineOf(irq)}

Interrupt(irq) ==
  /\ ~Walking
  /\ LineOf(irq) \in unmasked /\ inService = {}
  /\ inService' = InServiceFor(irq)
  /\ walk' = [irq |-> irq, cell |-> TableCell]
  /\ missing' = {chain[irq][n] : n \in 2 .. Len(chain[irq])}
  /\ removed' = FALSE
  /\ UNCHANGED <<chain, unmasked, stale>>

(* Where the walk stands in the chain, if its entry still exists.          *)
Position == {n \in DOMAIN chain[walk.irq] : chain[walk.irq][n].cell = walk.cell}

(* The handler returns and the walk goes on to the next entry.             *)
NextEntry ==
  \E n \in Position :
    /\ n < Len(chain[walk.irq])
    /\ walk' = [walk EXCEPT !.cell = chain[walk.irq][n + 1].cell]
    /\ missing' = missing \ {chain[walk.irq][n + 1]}
    /\ UNCHANGED <<chain, unmasked, inService, removed, stale>>

(* The entry was freed by the handler: what next is, is not known.         *)
StaleEntry ==
  /\ walk.cell # TableCell /\ Position = {}
  /\ stale' = TRUE
  /\ UNCHANGED <<chain, unmasked, inService, walk, missing, removed>>

(* The last handler returns: the PICs are told of the end of the           *)
(* interrupt, and IntrHandler goes on to its user mode part.               *)
Acknowledged(irq) == IF irq >= 8 THEN {LineOf(irq), Cascade} ELSE {LineOf(irq)}

LastEntry ==
  \/ chain[walk.irq] = <<>> /\ walk.cell = TableCell
  \/ Position = {Len(chain[walk.irq])}

EndOfInterrupt ==
  /\ inService' = inService \ Acknowledged(walk.irq)
  /\ walk' = NoWalk
  /\ missing' = {} /\ removed' = FALSE
  /\ UNCHANGED <<chain, unmasked, stale>>

-----------------------------------------------------------------------------
(* The PICs agree with the kernel.  An IRQ is delivered exactly while a    *)
(* handler is registered for it, over any sequence of registrations on     *)
(* both PICs, except IRQ 8, whose mask bit is never cleared.  Outside      *)
(* IntrHandler no interrupt waits to be acknowledged at either PIC, where  *)
(* it would hold up the later ones.                                        *)
PicMatchesTable ==
  /\ IntrTypeOK
  /\ \A irq \in Irq \ {8} : LineOf(irq) \in unmasked <=> chain[irq] # <<>>
  /\ ~Walking => inService = {}

(* An interrupt has been given to every handler that was registered when   *)
(* it arrived, even if handlers register others meanwhile.  Only removing  *)
(* a handler of this IRQ during the walk may make it skip one.             *)
NoHandlerMissed == (Walking /\ ~stale /\ ~removed /\ LastEntry) => missing = {}
=============================================================================
