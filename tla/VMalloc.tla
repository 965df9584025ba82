------------------------------ MODULE VMalloc -------------------------------
(***************************************************************************)
(* The kernel's allocator of virtual memory (mm/vmalloc.c): two flags for  *)
(* each page, from which the areas that are in use must be recovered when  *)
(* they are given back.  A size is a number of pages; the calls run with   *)
(* interrupts disabled and never block.                                    *)
(***************************************************************************)
EXTENDS Integers, FiniteSets

CONSTANTS VIRT_PAGES,
          MaxArea        \* bound: pages in one request

ASSUME VMallocAssumption == VIRT_PAGES \in Nat \ {0} /\ MaxArea \in Nat \ {0}

VARIABLES
  allocated, firstPage,  \* the pages with that bit of allocData set
  mapped,                \* the pages that have a physical page
  areas,                 \* history: the areas handed out and not given back
  corrupt                \* pages were mapped at the address NULL

vmallocVars == <<allocated, firstPage, mapped, areas, corrupt>>

Page == 0 .. VIRT_PAGES - 1

NoPage == -1

Pages(start, n) == start .. start + n - 1

Area == [start : Page, pages : 1 .. VIRT_PAGES, mapped : BOOLEAN]

PagesOf(area) == Pages(area.start, area.pages)

VMallocTypeOK ==
  /\ allocated \subseteq Page /\ firstPage \subseteq Page /\ mapped \subseteq Page
  /\ areas \subseteq Area /\ corrupt \in BOOLEAN

VMallocInit == allocated = {} /\ firstPage = {} /\ mapped = {} /\ areas = {} /\ corrupt = FALSE

-----------------------------------------------------------------------------
(* Where n free pages follow each other.                                   *)
Fits(n) == {i \in Page : Pages(i, n) \subseteq Page \ allocated}

(* MemVirtualReserve: the lowest of them, or NULL.                         *)
FirstFit(n) ==
  IF Fits(n) = {} THEN NoPage ELSE CHOOSE i \in Fits(n) : \A j \in Fits(n) : i <= j

(* Mutant: an area that follows is taken for a part of this one.           *)
ExtentToGap(alloc, first, p) == {i \in Page : i >= p /\ p .. i \subseteq alloc}

(* The pages that the loop of DoUnreserve gives back from p.               *)
Extent(alloc, first, p) ==
  {i \in Page : i >= p /\ p .. i \subseteq alloc /\ (p + 1) .. i \cap first = {}}

(* Reserve the pages from i; NULL cannot be marked.                        *)
MarkReserved(i, n) ==
  /\ allocated' = allocated \cup Pages(i, n)
  /\ firstPage' = firstPage \cup {i}

MemVirtualReserve(n) ==
  /\ FirstFit(n) # NoPage
  /\ MarkReserved(FirstFit(n), n)
  /\ areas' = areas \cup {[start |-> FirstFit(n), pages |-> n, mapped |-> FALSE]}
  /\ UNCHANGED <<mapped, corrupt>>

(* MemVirtualAlloc and MemVirtualZAlloc: the address is not checked before *)
(* physical pages are mapped there.                                        *)
MemVirtualAlloc(n) ==
  LET i == FirstFit(n)
  IN  IF i = NoPage
      THEN corrupt' = TRUE /\ UNCHANGED <<allocated, firstPage, mapped, areas>>
      ELSE /\ MarkReserved(i, n)
           /\ mapped' = mapped \cup Pages(i, n)
           /\ areas' = areas \cup {[start |-> i, pages |-> n, mapped |-> TRUE]}
           /\ UNCHANGED corrupt

(* MemVirtualUnReserve and MemVirtualFree of the start of an area; a page  *)
(* that is not the first one of an area is refused.                        *)
DoUnreserve(area) ==
  LET freed == Extent(allocated, firstPage, area.start)
  IN  /\ area \in areas /\ area.start \in firstPage
      /\ allocated' = allocated \ freed
      /\ firstPage' = firstPage \ {area.start}
      /\ mapped' = IF area.mapped THEN mapped \ freed ELSE mapped
      /\ areas' = areas \ {area}
      /\ UNCHANGED corrupt

(* An allocation of n pages and then the release of an area, without a     *)
(* step in between.                                                        *)
AllocThenFree(n, area) ==
  LET i == FirstFit(n)
      now == allocated \cup Pages(i, n)
      freed == Extent(now, firstPage \cup {i}, area.start)
  IN  IF i = NoPage
      THEN corrupt' = TRUE /\ UNCHANGED <<allocated, firstPage, mapped, areas>>
      ELSE /\ allocated' = now \ freed
           /\ firstPage' = (firstPage \cup {i}) \ {area.start}
           /\ mapped' = (mapped \cup Pages(i, n)) \ freed
           /\ areas' = (areas \cup {[start |-> i, pages |-> n, mapped |-> TRUE]}) \ {area}
           /\ UNCHANGED corrupt

-----------------------------------------------------------------------------
(* The flags say exactly which areas are in use, also when areas touch:    *)
(* areas do not overlap, the pages in them are the allocated ones, each    *)
(* has the flag of its first page and no other has; and the pages with     *)
(* physical memory are those of the areas that were allocated with it.     *)
(* So giving an area back frees that area, all of it and nothing else.     *)
FlagsMatchAreas ==
  /\ \A a, b \in areas : a # b => PagesOf(a) \cap PagesOf(b) = {}
  /\ allocated = UNION {PagesOf(a) : a \in areas}
  /\ firstPage = {a.start : a \in areas}
  /\ mapped = UNION {PagesOf(a) : a \in {b \in areas : b.mapped}}
=============================================================================
