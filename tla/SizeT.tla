------------------------------- MODULE SizeT -------------------------------
(***************************************************************************)
(* Arithmetic on size_t, paddr_t and u64 as the compiled kernel does it:   *)
(* every sum and difference is taken modulo the size of the type.  The     *)
(* type has 2 * HALF values (HALF is 2^63 on riscv64).                     *)
(*                                                                         *)
(* PowersOfTwo is the set of powers of two the type can hold.  The         *)
(* assumption below says of it only what the mask arithmetic of            *)
(* bitmacros.h relies on: the powers of two form a chain of divisors of    *)
(* the size of the type.                                                   *)
(***************************************************************************)
EXTENDS Integers

CONSTANTS HALF, PowersOfTwo

WORD == 2 * HALF

(* The values a size_t can hold. *)
SizeT == 0 .. WORD - 1

ASSUME SizeTAssumption ==
  /\ HALF \in Nat \ {0}
  /\ HALF \in PowersOfTwo
  /\ PowersOfTwo \subseteq 1 .. HALF
  /\ \A a, b \in PowersOfTwo : a <= b => b % a = 0

(* x + y and x - y on size_t operands, with wrap-around. *)
Plus(x, y)  == IF x + y < WORD THEN x + y ELSE x + y - WORD
Minus(x, y) == IF x >= y THEN x - y ELSE x - y + WORD

(* ALIGN_DOWN and ALIGN_UP for an alignment that is a power of two: the    *)
(* mask ~(align - 1) clears exactly the remainder modulo align.            *)
AlignDown(x, a) == x - (x % a)
AlignUp(x, a)   == AlignDown(Plus(x, a - 1), a)
=============================================================================
