------------------------------- MODULE MCBump -------------------------------
(***************************************************************************)
(* Instances of Bump for TLC: a size_t of 64 values.                       *)
(***************************************************************************)
EXTENDS Bump, Bitwise

MCPowersOfTwo == {1, 2, 4, 8, 16, 32}

MCBitAnd(x, m) == x & m

(* A buffer that is aligned, one that is not, and calls to be refused. *)
MCInitReqs == {<<16, 16>>, <<17, 13>>, <<0, 16>>, <<16, 0>>}

MCSizes == {0, 1, 3, 14}

(* Pointers, the one to three cells of a bus address, no cells, and a      *)
(* block as large as the buffer.                                           *)
MCAlignedReqs == {<<8, 8>>, <<4, 4>>, <<12, 12>>, <<3, 2>>, <<0, 4>>, <<4, 0>>, <<16, 1>>}
=============================================================================
