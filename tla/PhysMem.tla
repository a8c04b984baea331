------------------------------ MODULE PhysMem ------------------------------
(***************************************************************************)
(* What the kernel expects of a physical memory manager, with sets of page *)
(* numbers and no blocks, lists or counters: areas are put under its       *)
(* control, pages are withdrawn from it, and a request gets the first free *)
(* run of pages that serves it, or is refused because there is none.       *)
(***************************************************************************)
EXTENDS Integers, Sequences, FiniteSetsExt

CONSTANTS
  PAGE,       \* bytes in a page
  Adds,       \* <<base, size>>, in bytes
  Removes,    \* <<base, size>>, in bytes
  Requests    \* <<size, alignment>>, in bytes

VARIABLES
  areas,    \* the sets of pages that were added
  avail,    \* the pages that can be handed out
  held,     \* what was handed out: [page, count]
  said      \* the last call and its answer: [op, x, y, err]

vars == <<areas, avail, held, said>>

Init ==
  /\ areas = <<>> /\ avail = {} /\ held = <<>>
  /\ said = [op |-> "init", x |-> 0, y |-> 0, err |-> "ERR_OK"]

Says(op, r, errs) == said' \in {[op |-> op, x |-> r[1], y |-> r[2], err |-> e] : e \in errs}

(* The pages that lie in a range of bytes, and how many hold size bytes. *)
PagesIn(base, size) == (base + PAGE - 1) \div PAGE .. ((base + size) \div PAGE) - 1
Count(size) == (size + PAGE - 1) \div PAGE

Run(p, n) == p .. p + n - 1

(* The pages of area i at which a free run of n pages begins as aligned. *)
Places(i, n, a) ==
  {p \in areas[i] : (PAGE * p) % a = 0 /\ Run(p, n) \subseteq avail \cap areas[i]}
-----------------------------------------------------------------------------
Add(r) ==
  LET new == PagesIn(r[1], r[2])
  IN /\ Says("add", r, {"ERR_OK"})
     /\ \A i \in DOMAIN areas : areas[i] \cap new = {}
     /\ areas' = Append(areas, new)
     /\ avail' = avail \cup new
     /\ UNCHANGED held

(* The manager has room for a number of areas only. *)
AddRefused(r) ==
  /\ Says("add", r, {"ERR_PMM_REGION_LIST_FULL", "ERR_PMM_SLAB_ALLOC_FAILED"})
  /\ UNCHANGED <<areas, avail, held>>

Removable(pages) == \E i \in DOMAIN areas : pages \subseteq avail \cap areas[i]

Remove(r) ==
  /\ Says("remove", r, {"ERR_OK"})
  /\ r[2] > 0 => Removable(PagesIn(r[1], r[2]))
  /\ avail' = avail \ PagesIn(r[1], r[2])
  /\ UNCHANGED <<areas, held>>

RemoveRefused(r) ==
  /\ Says("remove", r, {"ERR_PMM_REGION_NOT_MANAGED", "ERR_PMM_REGION_ALLOCATED_FROM"})
  /\ ~Removable(PagesIn(r[1], r[2]))
  /\ UNCHANGED <<areas, avail, held>>

Alloc(r) ==
  LET n == Count(r[1])
  IN /\ Says("alloc", r, {"ERR_OK"})
     /\ \E i \in DOMAIN areas :
          LET p == Min(Places(i, n, r[2]))
          IN /\ Places(i, n, r[2]) # {}
             /\ \A j \in 1 .. i - 1 : Places(j, n, r[2]) = {}
             /\ avail' = avail \ Run(p, n)
             /\ held' = Append(held, [page |-> p, count |-> n])
     /\ UNCHANGED areas

AllocRefused(r) ==
  /\ Says("alloc", r, {"ERR_PMM_OUT_OF_MEMORY"})
  /\ \A i \in DOMAIN areas : Places(i, Count(r[1]), r[2]) = {}
  /\ UNCHANGED <<areas, avail, held>>

AllocBad(r) ==
  /\ Says("alloc", r, {"ERR_PMM_BAD_ALIGNMENT"})
  /\ UNCHANGED <<areas, avail, held>>

(* Memory cannot be given back. *)
Free ==
  /\ \E g \in DOMAIN held : Says("free", <<PAGE * held[g].page, 0>>, {"ERR_NOT_IMPLEMENTED"})
  /\ UNCHANGED <<areas, avail, held>>

Next ==
  \/ \E r \in Adds : Add(r) \/ AddRefused(r)
  \/ \E r \in Removes : Remove(r) \/ RemoveRefused(r)
  \/ \E r \in Requests : Alloc(r) \/ AllocRefused(r) \/ AllocBad(r)
  \/ Free

Spec == Init /\ [][Next]_vars
=============================================================================
