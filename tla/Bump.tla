-------------------------------- MODULE Bump --------------------------------
(***************************************************************************)
(* The bump allocator, src/kzadhbat/collections/bump_allocator.c: a buffer *)
(* and the index of its first byte that was not handed out.  Nothing is    *)
(* ever given back.  The device tree keeps its strings and tables in one.  *)
(***************************************************************************)
EXTENDS SizeT, Sequences

CONSTANTS
  BitAnd(_, _),  \* bitwise and on size_t
  InitReqs,      \* <<memory, size>> arguments of bump_init
  Sizes,         \* lengths of blocks, of copies and of strings with their NUL
  AlignedReqs,   \* <<size, alignment>> arguments of bump_alloc_aligned
  MaxBlocks      \* bound on the number of blocks handed out

ASSUME BumpAssumption ==
  /\ \A x, m \in SizeT : BitAnd(x, m) \in 0 .. m /\ BitAnd(x, m) <= x
  /\ \A x \in SizeT, a \in PowersOfTwo : BitAnd(x, a - 1) = x % a
  /\ InitReqs \subseteq SizeT \X SizeT
  /\ Sizes \subseteq SizeT
  /\ AlignedReqs \subseteq SizeT \X SizeT
  /\ MaxBlocks \in Nat

VARIABLES
  memory,   \* allocator->memory, 0 before bump_init
  size,     \* allocator->size
  index,    \* allocator->index
  blocks,   \* history: the blocks handed out since bump_init
  ret       \* the address the last call returned, 0 for NULL

vars == <<memory, size, index, blocks, ret>>

NULL == 0

(* Mutant: the bits of the alignment itself are cleared. *)
MaskUpWhole(x, a) == LET y == Plus(x, a - 1) IN y - BitAnd(y, a)

(* ALIGN_UP for any alignment but 0: the bits of alignment - 1 are cleared *)
(* whether or not they are the lowest ones.                                *)
MaskUp(x, a) == LET y == Plus(x, a - 1) IN y - BitAnd(y, a - 1)

BlockAt(base, n, a) == [base |-> base, size |-> n, align |-> a]

Init ==
  /\ memory = NULL
  /\ size = 0
  /\ index = 0
  /\ blocks = <<>>
  /\ ret = NULL

(* bump_init(allocator, m, n) *)
BumpInit(m, n) ==
  /\ m # NULL /\ n # 0
  /\ memory' = m
  /\ size' = n
  /\ index' = 0
  /\ blocks' = <<>>
  /\ ret' = NULL

BumpInitRefused(m, n) ==
  /\ m = NULL \/ n = 0
  /\ UNCHANGED vars

(* Mutant: the test is off by one. *)
FitsOffByOne(at, n) == Plus(at, n) <= size + 1

(* Every allocating function ends like this: n bytes at index at, or NULL  *)
(* when they do not fit.                                                   *)
Fits(at, n) == Plus(at, n) <= size

(* Mutant: the index is not advanced past the padding. *)
GiveUnpadded(at, n, a) ==
  /\ Len(blocks) < MaxBlocks
  /\ index' = Plus(index, n)
  /\ ret' = Plus(memory, at)
  /\ blocks' = Append(blocks, BlockAt(Plus(memory, at), n, a))
  /\ UNCHANGED <<memory, size>>

Give(at, n, a) ==
  /\ Len(blocks) < MaxBlocks
  /\ index' = Plus(at, n)
  /\ ret' = Plus(memory, at)
  /\ blocks' = Append(blocks, BlockAt(Plus(memory, at), n, a))
  /\ UNCHANGED <<memory, size>>

GiveNull ==
  /\ ret' = NULL
  /\ UNCHANGED <<memory, size, index, blocks>>

(* bump_alloc(n), and bump_copy(src, n) of a source other than NULL, which *)
(* makes the same tests before it calls bump_alloc; of NULL it returns     *)
(* NULL as for n = 0.                                                      *)
BumpAlloc(n) ==
  /\ memory # NULL
  /\ \/ n # 0 /\ Fits(index, n) /\ Give(index, n, 1)
     \/ (n = 0 \/ ~Fits(index, n)) /\ GiveNull

(* bump_copy_string(src), n = strlen(src) + 1. *)
BumpCopyString(n) ==
  /\ memory # NULL
  /\ n # 0
  /\ \/ Fits(index, n) /\ Give(index, n, 1)
     \/ ~Fits(index, n) /\ GiveNull

(* bump_alloc_aligned(n, a) *)
FitsAligned(n, a) == n # 0 /\ a # 0 /\ Fits(MaskUp(index, a), n)

BumpAllocAligned(n, a) ==
  /\ memory # NULL
  /\ \/ FitsAligned(n, a) /\ Give(MaskUp(index, a), n, a)
     \/ ~FitsAligned(n, a) /\ GiveNull

Next ==
  \/ \E r \in InitReqs : BumpInit(r[1], r[2]) \/ BumpInitRefused(r[1], r[2])
  \/ \E n \in Sizes : BumpAlloc(n) \/ BumpCopyString(n)
  \/ \E r \in AlignedReqs : BumpAllocAligned(r[1], r[2])

Spec == Init /\ [][Next]_vars

(***************************************************************************)
(* The calls that dt_initialize and the parser make: a buffer from the     *)
(* physical memory manager, and lengths and alignments below 2^32.         *)
(***************************************************************************)
InitContract(m, n) == n <= HALF /\ m + n < WORD

AlignedContract(n, a) == n < HALF /\ size + a + n <= WORD

ContractNext ==
  \/ \E r \in InitReqs :
       InitContract(r[1], r[2]) /\ (BumpInit(r[1], r[2]) \/ BumpInitRefused(r[1], r[2]))
  \/ \E n \in Sizes : n < HALF /\ (BumpAlloc(n) \/ BumpCopyString(n))
  \/ \E r \in AlignedReqs : AlignedContract(r[1], r[2]) /\ BumpAllocAligned(r[1], r[2])

ContractSpec == Init /\ [][ContractNext]_vars
-----------------------------------------------------------------------------
TypeOK ==
  /\ memory \in SizeT /\ size \in SizeT /\ index \in SizeT
  /\ blocks \in Seq([base : SizeT, size : SizeT, align : SizeT])

(* Every block lies in the buffer. *)
BlocksInBuffer ==
  \A k \in DOMAIN blocks :
    /\ memory <= blocks[k].base
    /\ blocks[k].base + blocks[k].size <= memory + size

(* No byte is handed out twice, by whichever of the functions, in whatever *)
(* order they are called and whatever was refused in between.              *)
BlocksApart ==
  \A j, k \in DOMAIN blocks :
    j < k => blocks[j].base + blocks[j].size <= blocks[k].base

(* In a buffer that is aligned to a power of two, a block asked for with   *)
(* that alignment has it.  (Of other alignments, such as the 12 that the   *)
(* device tree passes for addresses of three cells, ALIGN_UP does not.)    *)
BlocksAligned ==
  \A k \in DOMAIN blocks :
    blocks[k].align \in PowersOfTwo /\ memory % blocks[k].align = 0 =>
      blocks[k].base % blocks[k].align = 0

(* What makes the first two inductive: the blocks lie below the index, and *)
(* the index in the buffer.                                                *)
BelowIndex ==
  /\ memory + size < WORD /\ size <= HALF /\ index <= size
  /\ \A k \in DOMAIN blocks :
       /\ memory <= blocks[k].base
       /\ blocks[k].base + blocks[k].size <= memory + index

IInv == TypeOK /\ BelowIndex /\ BlocksApart
=============================================================================
