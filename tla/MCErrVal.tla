------------------------------ MODULE MCErrVal ------------------------------
(***************************************************************************)
(* Instances of ErrVal for TLC: a word of 10 bits, short enough that eight *)
(* errors of five bits, each shifted by one, are shifted out of it.        *)
(***************************************************************************)
EXTENDS ErrVal

(* ERR_PMM_OUT_OF_MEMORY, ERR_PAGING_SETUP_TABLE, ERR_DTB_MAPPING_FAILED:  *)
(* sv39_map_small_page pushes the second on the first, dt_initialize the   *)
(* third on both.                                                          *)
MappingCodes == {10, 19, 23}
=============================================================================
