------------------------------ MODULE MCPaging ------------------------------
(***************************************************************************)
(* Instances of Paging for TLC: tables of two entries, so that eight pages *)
(* need up to six tables below the root.                                   *)
(***************************************************************************)
EXTENDS Paging

Small(page, ppn, perms) ==
  [page |-> page, off |-> 0, ppn |-> ppn, poff |-> 0, perms |-> perms, type |-> "sv39_Page"]

(* Three pages are too few for the tables of all the pages below.          *)
MCTablePages == {20, 21, 22}

(* Pages that share tables at every level, one beyond the end of the       *)
(* address space, identity mappings and others, and calls that must be     *)
(* refused.                                                                *)
MCMapReqs ==
  {Small(0, 0, {"R", "X"}), Small(1, 1, {"R"}), Small(2, 5, {"R", "W"}),
   Small(4, 4, {"R"}), Small(6, 7, {"R", "W"}), Small(9, 3, {"R"}),
   [Small(0, 0, {"R"}) EXCEPT !.type = "sv39_MegaPage"],
   [Small(0, 0, {"R"}) EXCEPT !.type = "other"],
   [Small(0, 0, {"R"}) EXCEPT !.off = 1], [Small(0, 0, {"R"}) EXCEPT !.poff = 1]}

MCUnmapReqs ==
  {[page |-> p, off |-> 0] : p \in {0, 1, 2, 4, 9}} \cup {[page |-> 0, off |-> 1]}
=============================================================================
