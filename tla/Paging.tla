------------------------------- MODULE Paging -------------------------------
(***************************************************************************)
(* Sv39 page tables, src/octiron/paging.c: three levels of tables of       *)
(* ENTRIES entries (512), reached from a static root.  A table below the   *)
(* root is a zeroed page that pmm_alloc hands out (module Pmm: never the   *)
(* same page twice); it is never given back.                               *)
(*                                                                         *)
(* Addresses are pairs of a page number and an offset.  The code takes the *)
(* indices from the page number by shift and mask, so virtual pages that   *)
(* differ by a multiple of ENTRIES^3 are the same page.                    *)
(*                                                                         *)
(* The root is never NULL (sv39_kernel_page_table).  An error value stands *)
(* for the error pushed last; what err_push makes of a pushed error is the *)
(* subject of module ErrVal.                                               *)
(***************************************************************************)
EXTENDS Integers, FiniteSets

CONSTANTS
  ENTRIES,       \* SV39_TableEntryCount
  BASE_PAGE_SIZE,
  TablePages,    \* the pages the physical memory manager has to give
  ROOT,          \* the page of kernel_root
  MapReqs,       \* [page, off, ppn, poff, perms, type]: arguments of sv39_map
  UnmapReqs      \* [page, off]: arguments of sv39_unmap

Perms == SUBSET {"R", "W", "X"}

ASSUME PagingAssumption ==
  /\ ENTRIES \in Nat \ {0, 1} /\ ENTRIES % 2 = 0
  /\ BASE_PAGE_SIZE \in Nat \ {0}
  /\ TablePages \subseteq Nat /\ ROOT \in Nat \ TablePages
  /\ MapReqs \subseteq [page : Nat, off : Nat, ppn : Nat, poff : Nat, perms : Perms,
                        type : {"sv39_Page", "sv39_MegaPage", "sv39_GigaPage", "other"}]
  /\ UnmapReqs \subseteq [page : Nat, off : Nat]

VARIABLES
  tab,    \* the tables: page -> index -> entry
  pool,   \* the pages pmm_alloc can still give
  ret     \* the last call and its result

vars == <<tab, pool, ret>>

Index  == 0 .. ENTRIES - 1
Tables == TablePages \cup {ROOT}

(* Mutant: the flags are left out. *)
EntryPlain(ppn, perms) == [valid |-> TRUE, ppn |-> ppn, perms |-> {}]

(* A page table entry, as far as the code reads it. *)
Entry(ppn, perms) == [valid |-> TRUE, ppn |-> ppn, perms |-> perms]
Zero == [valid |-> FALSE, ppn |-> 0, perms |-> {}]

IsLeaf(pte) == pte.perms # {}

(* Mutant: vpn[1] is taken from the bits of vpn[0]. *)
VpnSameShift(page, level) ==
  CASE level \in {0, 1} -> page % ENTRIES
    [] level = 2 -> (page \div (ENTRIES * ENTRIES)) % ENTRIES

(* vpn[0], vpn[1], vpn[2] *)
Vpn(page, level) ==
  CASE level = 0 -> page % ENTRIES
    [] level = 1 -> (page \div ENTRIES) % ENTRIES
    [] level = 2 -> (page \div (ENTRIES * ENTRIES)) % ENTRIES

Result(op, page, err, ppn) ==
  [op |-> op, page |-> page, err |-> err, ppn |-> ppn]

Init ==
  /\ tab = [t \in Tables |-> [i \in Index |-> Zero]]
  /\ pool = TablePages
  /\ ret = Result("init", 0, "ERR_OK", 0)

Fails(op, page, err) ==
  /\ ret' = Result(op, page, err, 0)
  /\ UNCHANGED <<tab, pool>>
-----------------------------------------------------------------------------
(***************************************************************************)
(* sv39_map(root, va, pa, flags, type)                                     *)
(***************************************************************************)
Refused(r) ==
  CASE r.type = "other" -> "ERR_PAGING_INVALID_TYPE"
    [] r.type \in {"sv39_MegaPage", "sv39_GigaPage"} -> "ERR_NOT_IMPLEMENTED"
    [] r.type = "sv39_Page" /\ (r.off # 0 \/ r.poff # 0) -> "ERR_PAGING_UNALIGNED_ADDRESS"
    [] OTHER -> "ERR_OK"

MapRefused(r) ==
  /\ Refused(r) # "ERR_OK"
  /\ Fails("map", r.page, Refused(r))

(* The pages the entry at index i of table t may refer to after the code   *)
(* has made sure that it refers to one: its own, or one that pmm_alloc     *)
(* gives out of p.                                                         *)
NextTables(tb, t, i, p) == IF tb[t][i].valid THEN {tb[t][i].ppn} ELSE p

Link(tb, t, i, next) ==
  IF tb[t][i].valid THEN tb ELSE [tb EXCEPT ![t][i] = Entry(next, {})]

(* No page for the level-1 table. *)
MapNoLevel1(r) ==
  /\ Refused(r) = "ERR_OK"
  /\ NextTables(tab, ROOT, Vpn(r.page, 2), pool) = {}
  /\ Fails("map", r.page, "ERR_PAGING_SETUP_TABLE")

(* Mutant: a new level-1 table is not entered when the call fails. *)
MapNoLevel0Unlinked(r) ==
  /\ Refused(r) = "ERR_OK"
  /\ \E l1 \in NextTables(tab, ROOT, Vpn(r.page, 2), pool) :
       LET tb == Link(tab, ROOT, Vpn(r.page, 2), l1)
       IN /\ NextTables(tb, l1, Vpn(r.page, 1), pool \ {l1}) = {}
          /\ tab' = tab
          /\ pool' = pool \ {l1}
  /\ ret' = Result("map", r.page, "ERR_PAGING_SETUP_TABLE", 0)

(* No page for the level-0 table; a new level-1 table stays linked. *)
MapNoLevel0(r) ==
  /\ Refused(r) = "ERR_OK"
  /\ \E l1 \in NextTables(tab, ROOT, Vpn(r.page, 2), pool) :
       LET tb == Link(tab, ROOT, Vpn(r.page, 2), l1)
       IN /\ NextTables(tb, l1, Vpn(r.page, 1), pool \ {l1}) = {}
          /\ tab' = tb
          /\ pool' = pool \ {l1}
  /\ ret' = Result("map", r.page, "ERR_PAGING_SETUP_TABLE", 0)

(* Mutants: a page stays with the memory manager that handed it out; both  *)
(* levels get the same page.                                               *)
MapWalksKeepPool(r) ==
  /\ Refused(r) = "ERR_OK"
  /\ \E l1 \in NextTables(tab, ROOT, Vpn(r.page, 2), pool) :
       LET tb1 == Link(tab, ROOT, Vpn(r.page, 2), l1)
       IN \E l0 \in NextTables(tb1, l1, Vpn(r.page, 1), pool \ {l1}) :
            tab' = Link(tb1, l1, Vpn(r.page, 1), l0)
  /\ ret' = Result("map", r.page, "ERR_OK", 0)
  /\ UNCHANGED pool

MapWalksOnePage(r) ==
  /\ Refused(r) = "ERR_OK"
  /\ \E l1 \in NextTables(tab, ROOT, Vpn(r.page, 2), pool) :
       /\ tab' = Link(Link(tab, ROOT, Vpn(r.page, 2), l1), l1, Vpn(r.page, 1), l1)
       /\ pool' = pool \ {l1}
  /\ ret' = Result("map", r.page, "ERR_OK", 0)

(* The walk reaches a level-0 table; new tables stay linked also when the  *)
(* page turns out to be mapped.                                            *)
MapWalks(r) ==
  /\ Refused(r) = "ERR_OK"
  /\ \E l1 \in NextTables(tab, ROOT, Vpn(r.page, 2), pool) :
       LET tb1 == Link(tab, ROOT, Vpn(r.page, 2), l1)
       IN \E l0 \in NextTables(tb1, l1, Vpn(r.page, 1), pool \ {l1}) :
            LET tb0 == Link(tb1, l1, Vpn(r.page, 1), l0)
                i   == Vpn(r.page, 0)
            IN /\ pool' = pool \ {l1, l0}
               /\ IF tb0[l0][i].valid
                  THEN /\ tab' = tb0
                       /\ ret' = Result("map", r.page, "ERR_PAGING_MAPPING_EXISTS", 0)
                  ELSE /\ tab' = [tb0 EXCEPT ![l0][i] = Entry(r.ppn, r.perms)]
                       /\ ret' = Result("map", r.page, "ERR_OK", 0)

Map(r) == MapRefused(r) \/ MapNoLevel1(r) \/ MapNoLevel0(r) \/ MapWalks(r)
-----------------------------------------------------------------------------
(***************************************************************************)
(* The table and the index at which the walk of sv39_unmap and             *)
(* sv39_virt_to_phys for a page ends: an invalid entry, a leaf, or the     *)
(* last level.                                                             *)
(***************************************************************************)
Ends(pte) == ~pte.valid \/ IsLeaf(pte)

Slot(page) ==
  LET e2 == tab[ROOT][Vpn(page, 2)]
      e1 == tab[e2.ppn][Vpn(page, 1)]
  IN IF Ends(e2) THEN <<ROOT, Vpn(page, 2)>>
     ELSE IF Ends(e1) THEN <<e2.ppn, Vpn(page, 1)>>
     ELSE <<e1.ppn, Vpn(page, 0)>>

Found(page) == tab[Slot(page)[1]][Slot(page)[2]]

(* sv39_unmap(root, va) *)
UnmapRefused(r) ==
  \/ r.off # 0 /\ Fails("unmap", r.page, "ERR_PAGING_UNALIGNED_ADDRESS")
  \/ /\ r.off = 0 /\ ~Found(r.page).valid
     /\ Fails("unmap", r.page, "ERR_PAGING_MAPPING_DOESNT_EXIST")

UnmapDone(r) ==
  /\ r.off = 0 /\ Found(r.page).valid
  /\ tab' = [tab EXCEPT ![Slot(r.page)[1]][Slot(r.page)[2]] = Zero]
  /\ ret' = Result("unmap", r.page, "ERR_OK", Found(r.page).ppn)
  /\ UNCHANGED pool

Unmap(r) == UnmapRefused(r) \/ UnmapDone(r)

(***************************************************************************)
(* sv39_virt_to_phys(root, va) for a page that is mapped: the physical     *)
(* address, as page number and offset.  page_offset is va & 0x1000, which  *)
(* is the lowest bit of the page number and no bit of the offset.          *)
(***************************************************************************)
OrLowBit(ppn, bit) == IF ppn % 2 = 0 THEN ppn + bit ELSE ppn

VirtToPhys(page, off) == <<OrLowBit(Found(page).ppn, page % 2), 0>>

Next ==
  \/ \E r \in MapReqs : Map(r)
  \/ \E r \in UnmapReqs : Unmap(r)

Spec == Init /\ [][Next]_vars
-----------------------------------------------------------------------------
(* The virtual pages, and what each is translated to. *)
SpaceSize == ENTRIES * ENTRIES * ENTRIES
VPages    == 0 .. SpaceSize - 1

None == [unmapped |-> TRUE]

Translation(page) ==
  IF Found(page).valid
  THEN [ppn |-> Found(page).ppn, perms |-> Found(page).perms]
  ELSE None

(* The tables of level 1 and level 0. *)
Children(T) == {tab[x[1]][x[2]].ppn : x \in {y \in T \X Index : tab[y[1]][y[2]].valid}}
Level1 == Children({ROOT})
Level0 == Children(Level1)

(* Entries of tables that the code uses as tables refer to table pages; a  *)
(* free page is still zeroed when it becomes a table.                      *)
TypeOK ==
  /\ tab \in [Tables -> [Index -> [valid : BOOLEAN, ppn : Nat, perms : Perms]]]
  /\ pool \subseteq TablePages
  /\ \A t \in pool, i \in Index : tab[t][i] = Zero

(* The tables form a tree: no table is shared by two entries or used at    *)
(* two levels, so writing an entry for one page cannot change what another *)
(* page is translated to.                                                  *)
TreeShaped ==
  LET links(T) == {x \in T \X Index : tab[x[1]][x[2]].valid}
      target(x) == tab[x[1]][x[2]].ppn
      upper == links({ROOT} \cup Level1)
  IN /\ \A x \in upper : target(x) \in TablePages \ pool /\ ~IsLeaf(tab[x[1]][x[2]])
     /\ \A x, y \in upper : target(x) = target(y) => x = y

(* Every page taken from the physical memory manager is a table of the     *)
(* tree, also after a call that ran out of memory halfway: nothing is      *)
(* lost, and the next attempt finds the table.                             *)
NoTableLost == TablePages \ pool = Level1 \cup Level0

(* The walk for a page that was mapped to be read, written or executed     *)
(* ends at a leaf: sv39_virt_to_phys does not get to the end of its loop,  *)
(* which is marked unreachable.                                            *)
WalksEndAtLeaf ==
  (\A r \in MapReqs : r.perms # {}) =>
    \A v \in VPages : Found(v).valid => IsLeaf(Found(v))

Space == INSTANCE VSpace WITH
           Pages <- VPages, Frames <- {r.ppn : r \in MapReqs},
           vmap <- [v \in VPages |-> Translation(v)],
           ret <- [ret EXCEPT !.page = @ % SpaceSize]

(* The page tables implement an address space. *)
SpaceSpec == Space!Spec
=============================================================================
