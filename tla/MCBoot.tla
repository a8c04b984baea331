------------------------------- MODULE MCBoot -------------------------------
(***************************************************************************)
(* Instances of Boot for TLC: pages of 16 addresses and tables of 8        *)
(* entries of 2, so that the kernel needs tables in two of the eight parts *)
(* of the address space (the UART lies in another one than the memory).    *)
(***************************************************************************)
EXTENDS Boot

MCHeap == 70 .. 80

At(page) == PAGE * page

(* BSS: small variables, the root, the early heap and what follows it. *)
Starts == [TEXT |-> At(64), RODATA |-> At(66), DATA |-> At(67), BSS |-> At(68),
           STACK |-> At(82), UART |-> At(8)]

(* Ends at and inside a page, that of BSS inside a word of a page that it  *)
(* does not fill, at the end of its last page, and inside its last word.   *)
Ends == [TEXT |-> At(65) + 1, RODATA |-> At(66) + 13, DATA |-> At(68), BSS |-> At(81) + 7,
         STACK |-> At(84), UART |-> At(9)]
FullEnds == [Ends EXCEPT !.TEXT = At(66), !.BSS = At(82), !.DATA = At(67) + 1]
OddEnds  == [Ends EXCEPT !.BSS = At(82) - 1]

Blob(base, size) == [base |-> base, size |-> size, magic |-> TRUE]

(* Blobs that begin at and inside a page, need tables of their own or not, *)
(* lie in the kernel, or run into it.                                      *)
MCBlobs ==
  {Blob(At(90), 13), Blob(At(90) + 13, 22), Blob(At(130) + 1, At(3)), Blob(At(83), 2),
   Blob(At(62) + 2, At(3)), [Blob(At(90), 3) EXCEPT !.magic = FALSE]}

Machine(hart, asserts, pmp, n, ends, var, dtb) ==
  [hart |-> hart, asserts |-> asserts, pmp |-> pmp, heap |-> {p \in MCHeap : p < 70 + n},
   start |-> Starts, end |-> ends, var |-> var, dtb |-> dtb]

(* dtb_base_addr is the first word of BSS, or one behind the early heap. *)
MCMachines ==
  {Machine(0, asserts, FALSE, n, ends, At(81), dtb) :
     asserts \in BOOLEAN, n \in 0 .. 11, ends \in {Ends, FullEnds}, dtb \in MCBlobs}
  \cup {Machine(1, TRUE, FALSE, 11, Ends, At(68), Blob(At(90), 3)),
        Machine(0, TRUE, TRUE, 11, Ends, At(68), Blob(At(90), 3)),
        Machine(0, TRUE, FALSE, 11, Ends, At(68), Blob(At(90), 3)),
        Machine(0, TRUE, FALSE, 11, OddEnds, At(81) + 12, Blob(At(90), 3))}
=============================================================================
