------------------------------- MODULE MCPmm -------------------------------
(***************************************************************************)
(* Instances of Pmm for TLC: a size_t of 64 values, pages of 4 bytes.      *)
(***************************************************************************)
EXTENDS Pmm

MCPowersOfTwo == {1, 2, 4, 8, 16, 32}

(* Two regions that leave room for alignment, one of them not page-aligned *)
(* at either end, and arguments that must be refused.                      *)
ContractAdds == {<<6, 22>>, <<20, 8>>, <<28, 4>>}
ContractRemoves == {<<12, 8>>, <<16, 4>>, <<8, 4>>, <<20, 8>>, <<24, 4>>, <<0, 4>>, <<24, 0>>}
ContractAllocs == {<<3, 4>>, <<4, 8>>, <<5, 16>>, <<4, 2>>, <<4, 12>>}

(* Every kind of argument the interface accepts: NULL, unaligned ends,     *)
(* less than a page, below, inside, across and above what is managed, and  *)
(* sums that wrap around; ranges that are a whole region, or the head, the *)
(* middle or the tail of a block.                                          *)
ApiPowersOfTwo == {1, 2, 4, 8, 16}
ApiAdds == {<<0, 8>>, <<3, 13>>, <<13, 2>>, <<8, 16>>}
ApiRemoves == {<<4, 12>>, <<8, 4>>, <<4, 4>>, <<12, 4>>, <<9, 4>>, <<8, 3>>, <<8, 0>>}
ApiAllocs == {<<0, 8>>, <<4, 4>>, <<30, 8>>, <<4, 12>>}
=============================================================================
