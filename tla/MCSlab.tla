------------------------------- MODULE MCSlab -------------------------------
(***************************************************************************)
(* Instances of Slab for TLC: blocks of three words, as the descriptors of *)
(* the physical memory manager have.                                       *)
(***************************************************************************)
EXTENDS Slab

(* Two adjacent buffers of two blocks each, so that the blocks of the      *)
(* second lie in the first; a third one further up that ends with a word   *)
(* too little for another block; and buffers that must be refused.         *)
MCGrowReqs == {<<7, 10>>, <<17, 10>>, <<28, 8>>, <<30, 6>>, <<0, 10>>}

(* One buffer, as pmm_initialize adds it. *)
OneBuffer == {<<7, 10>>}
=============================================================================
