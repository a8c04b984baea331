---------------------------- MODULE BumpProofs ----------------------------
(***************************************************************************)
(* The bump allocator hands out disjoint parts of its buffer, for every    *)
(* buffer, every sequence of calls within the contract and every alignment *)
(* (a power of two or not).                                                *)
(***************************************************************************)
EXTENDS Bump, SequenceTheorems, TLAPS

BlockType == [base : SizeT, size : SizeT, align : SizeT]

(* ALIGN_UP moves an index upwards, and by less than the alignment. *)
LEMMA MaskUpBounds ==
  ASSUME NEW x \in SizeT, NEW a \in SizeT, a # 0, x + a <= WORD
  PROVE  MaskUp(x, a) \in Nat /\ x <= MaskUp(x, a) /\ MaskUp(x, a) < x + a
<1>1. WORD \in Nat
  BY SizeTAssumption DEF WORD
<1>2. Plus(x, a - 1) = x + a - 1
  BY <1>1 DEF Plus, SizeT
<1>3. x + a - 1 \in SizeT /\ a - 1 \in SizeT
  BY <1>1 DEF SizeT
<1>4. /\ BitAnd(x + a - 1, a - 1) \in 0 .. a - 1
      /\ BitAnd(x + a - 1, a - 1) <= x + a - 1
  BY <1>3, BumpAssumption
<1>5. MaskUp(x, a) = (x + a - 1) - BitAnd(x + a - 1, a - 1)
  BY <1>2 DEF MaskUp
<1> QED
  BY <1>3, <1>4, <1>5 DEF SizeT

(* A block that starts at or above the index and ends in the buffer keeps  *)
(* the invariant: the common end of all allocating functions.              *)
LEMMA GiveKeeps ==
  ASSUME IInv, NEW at \in Nat, NEW n \in SizeT, NEW a \in SizeT,
         index <= at, at + n < WORD, Fits(at, n), Give(at, n, a)
  PROVE  IInv'
<1> DEFINE b == BlockAt(Plus(memory, at), n, a)
<1>1. WORD \in Nat /\ HALF \in Nat /\ memory \in Nat /\ size \in Nat /\ index \in Nat /\ n \in Nat
  BY SizeTAssumption DEF WORD, SizeT, IInv, TypeOK
<1>2. Plus(at, n) = at + n /\ at + n <= size
  BY <1>1 DEF Plus, Fits
<1>3. Plus(memory, at) = memory + at
  BY <1>1, <1>2 DEF Plus, IInv, BelowIndex
<1>4. /\ b \in BlockType
      /\ b.base = memory + at /\ b.size = n
  BY <1>1, <1>2, <1>3 DEF BlockAt, BlockType, SizeT, IInv, BelowIndex
<1>5. /\ index' = at + n /\ memory' = memory /\ size' = size
      /\ blocks' = Append(blocks, b) /\ blocks \in Seq(BlockType)
  BY <1>2 DEF Give, IInv, TypeOK, BlockType
<1> HIDE DEF b
<1>6. /\ blocks' \in Seq(BlockType)
      /\ DOMAIN blocks' = 1 .. Len(blocks) + 1
      /\ \A k \in 1 .. Len(blocks) : blocks'[k] = blocks[k]
      /\ blocks'[Len(blocks) + 1] = b
      /\ DOMAIN blocks = 1 .. Len(blocks) /\ Len(blocks) \in Nat
  BY <1>4, <1>5, AppendProperties
<1>7. \A k \in DOMAIN blocks : blocks[k].base \in Nat /\ blocks[k].size \in Nat
  <2>1. \A k \in DOMAIN blocks : blocks[k] \in BlockType
    BY <1>5, <1>6, ElementOfSeq
  <2> QED
    BY <2>1 DEF BlockType, SizeT
<1>8. TypeOK'
  BY <1>1, <1>2, <1>5, <1>6 DEF TypeOK, IInv, BlockType, SizeT, BelowIndex
<1>9. \A k \in DOMAIN blocks' :
        /\ memory <= blocks'[k].base
        /\ blocks'[k].base + blocks'[k].size <= memory + (at + n)
  BY <1>1, <1>4, <1>6, <1>7 DEF IInv, BelowIndex
<1>10. BelowIndex'
  BY <1>1, <1>2, <1>5, <1>9 DEF IInv, BelowIndex
<1>11. \A j, k \in DOMAIN blocks' :
         j < k => blocks'[j].base + blocks'[j].size <= blocks'[k].base
  <2> SUFFICES ASSUME NEW j \in DOMAIN blocks', NEW k \in DOMAIN blocks', j < k
               PROVE  blocks'[j].base + blocks'[j].size <= blocks'[k].base
    OBVIOUS
  <2>1. j \in DOMAIN blocks /\ blocks'[j] = blocks[j]
    BY <1>6
  <2>2. CASE k \in DOMAIN blocks
    BY <2>1, <2>2, <1>6 DEF IInv, BlocksApart
  <2>3. CASE k = Len(blocks) + 1
    <3>1. blocks[j].base + blocks[j].size <= memory + index
      BY <2>1 DEF IInv, BelowIndex
    <3>2. blocks'[k].base = memory + at
      BY <2>3, <1>4, <1>6
    <3> QED
      BY <2>1, <3>1, <3>2, <1>1, <1>7
  <2> QED
    BY <2>2, <2>3, <1>6
<1> QED
  BY <1>8, <1>10, <1>11 DEF IInv, BlocksApart

(* Every call keeps the invariant. *)
LEMMA Step ==
  ASSUME IInv, [ContractNext]_vars
  PROVE  IInv'
<1>1. WORD \in Nat /\ HALF \in Nat /\ WORD = 2 * HALF
  BY SizeTAssumption DEF WORD
<1>2. index \in Nat /\ size \in Nat /\ index <= size /\ size <= HALF /\ index \in SizeT
  BY DEF IInv, TypeOK, BelowIndex, SizeT
<1>3. ASSUME NEW r \in InitReqs, InitContract(r[1], r[2]), BumpInit(r[1], r[2])
      PROVE  IInv'
  <2>1. r[1] \in SizeT /\ r[2] \in SizeT
    BY BumpAssumption
  <2>2. /\ memory' = r[1] /\ size' = r[2] /\ index' = 0 /\ blocks' = <<>>
        /\ r[2] <= HALF /\ r[1] + r[2] < WORD
    BY <1>3 DEF BumpInit, InitContract
  <2>3. blocks' \in Seq(BlockType) /\ DOMAIN blocks' = {}
    BY <2>2
  <2> QED
    BY <1>1, <2>1, <2>2, <2>3
    DEF IInv, TypeOK, BelowIndex, BlocksApart, BlockType, SizeT
<1>4. ASSUME UNCHANGED <<memory, size, index, blocks>>
      PROVE  IInv'
  BY <1>4 DEF IInv, TypeOK, BelowIndex, BlocksApart
<1>5. ASSUME NEW n \in Sizes, n < HALF, BumpAlloc(n) \/ BumpCopyString(n)
      PROVE  IInv'
  <2>1. n \in SizeT /\ 1 \in SizeT /\ n \in Nat /\ index + n < WORD
    BY <1>1, <1>2, <1>5, BumpAssumption, SizeTAssumption DEF SizeT
  <2>2. CASE GiveNull
    BY <2>2, <1>4 DEF GiveNull
  <2>3. CASE Fits(index, n) /\ Give(index, n, 1)
    BY <2>1, <2>3, <1>2, GiveKeeps
  <2> QED
    BY <1>5, <2>2, <2>3 DEF BumpAlloc, BumpCopyString
<1>6. ASSUME NEW r \in AlignedReqs, AlignedContract(r[1], r[2]),
             BumpAllocAligned(r[1], r[2])
      PROVE  IInv'
  <2> DEFINE n == r[1]
             a == r[2]
             at == MaskUp(index, a)
  <2>1. n \in SizeT /\ a \in SizeT /\ n \in Nat /\ a \in Nat
    BY BumpAssumption DEF SizeT
  <2>2. CASE GiveNull
    BY <2>2, <1>4 DEF GiveNull
  <2>3. CASE n # 0 /\ a # 0 /\ Fits(at, n) /\ Give(at, n, a)
    <3>1. size + a + n <= WORD
      BY <1>6 DEF AlignedContract
    <3>2. index + a <= WORD
      BY <3>1, <2>1, <1>1, <1>2
    <3>3. at \in Nat /\ index <= at /\ at < index + a
      BY <2>1, <2>3, <3>2, <1>2, MaskUpBounds
    <3> HIDE DEF at, n, a
    <3>4. at + n < WORD
      BY <3>1, <3>3, <2>1, <1>1, <1>2
    <3> QED
      BY <2>1, <2>3, <3>3, <3>4, GiveKeeps
  <2> QED
    BY <1>6, <2>2, <2>3 DEF BumpAllocAligned, FitsAligned
<1>7. ASSUME NEW r \in InitReqs, BumpInitRefused(r[1], r[2])
      PROVE  IInv'
  BY <1>7, <1>4 DEF BumpInitRefused, vars
<1>8. CASE UNCHANGED vars
  BY <1>8, <1>4 DEF vars
<1> QED
  BY <1>3, <1>5, <1>6, <1>7, <1>8 DEF ContractNext

(* The invariant holds at the start. *)
LEMMA Start == ASSUME Init PROVE IInv
<1>1. WORD \in Nat /\ HALF \in Nat /\ HALF > 0 /\ WORD = 2 * HALF
  BY SizeTAssumption DEF WORD
<1>2. blocks \in Seq(BlockType) /\ DOMAIN blocks = {}
  BY DEF Init
<1> QED
  BY <1>1, <1>2 DEF Init, NULL, IInv, TypeOK, BelowIndex, BlocksApart, BlockType, SizeT

(* The blocks that bump_alloc, bump_copy, bump_copy_string and             *)
(* bump_alloc_aligned return never overlap.                                *)
THEOREM Disjoint == ContractSpec => []BlocksApart
<1>1. IInv => BlocksApart
  BY DEF IInv
<1> QED
  BY <1>1, Start, Step, PTL DEF ContractSpec

(* They lie in the buffer that bump_init was given. *)
THEOREM Contained == ContractSpec => []BlocksInBuffer
<1>1. IInv => BlocksInBuffer
  <2> SUFFICES ASSUME IInv, NEW k \in DOMAIN blocks
               PROVE  /\ memory <= blocks[k].base
                      /\ blocks[k].base + blocks[k].size <= memory + size
    BY DEF BlocksInBuffer
  <2>1. memory \in Nat /\ size \in Nat /\ index \in Nat /\ index <= size
    BY DEF IInv, TypeOK, BelowIndex, SizeT
  <2>2. blocks[k].base \in Nat /\ blocks[k].size \in Nat
    <3>1. blocks \in Seq(BlockType)
      BY DEF IInv, TypeOK, BlockType
    <3>2. blocks[k] \in BlockType
      BY <3>1, ElementOfSeq, LenProperties
    <3> QED
      BY <3>2 DEF BlockType, SizeT
  <2> QED
    BY <2>1, <2>2 DEF IInv, BelowIndex
<1> QED
  BY <1>1, Start, Step, PTL DEF ContractSpec

-----------------------------------------------------------------------------
(* The next multiple of a power of two. *)
LEMMA MaskUpMultiple ==
  ASSUME NEW x \in SizeT, NEW a \in PowersOfTwo, x + a <= WORD
  PROVE  MaskUp(x, a) % a = 0
<1>1. WORD \in Nat /\ a \in Int /\ a > 0 /\ x \in Nat
  BY SizeTAssumption DEF WORD, SizeT
<1>2. x + a - 1 \in SizeT /\ x + a - 1 \in Int /\ Plus(x, a - 1) = x + a - 1
  BY <1>1 DEF Plus, SizeT
<1>3. BitAnd(x + a - 1, a - 1) = (x + a - 1) % a
  BY <1>2, BumpAssumption
<1>4. MaskUp(x, a) = (x + a - 1) - ((x + a - 1) % a)
  BY <1>2, <1>3 DEF MaskUp
<1> DEFINE y == x + a - 1
<1>5. y \in Int
  BY <1>2
<1> HIDE DEF y
<1>6. (y - (y % a)) % a = 0
  <2> DEFINE k == y \div a
  <2>1. k \in Int /\ y - (y % a) = a * k
    BY <1>1, <1>5
  <2> HIDE DEF k
  <2> QED
    BY <1>1, <2>1
<1> QED
  BY <1>4, <1>6 DEF y

(* Multiples of the same number add up to one. *)
LEMMA SumMultiple ==
  ASSUME NEW x \in Int, NEW y \in Int, NEW a \in Int, a > 0, x % a = 0, y % a = 0
  PROVE  (x + y) % a = 0
<1> DEFINE k == x \div a
           l == y \div a
<1>1. k \in Int /\ l \in Int /\ x = a * k /\ y = a * l
  OBVIOUS
<1> HIDE DEF k, l
<1>2. x + y = a * (k + l) /\ k + l \in Int
  BY <1>1
<1> QED
  BY <1>2

(* A block handed out at an aligned index is aligned if the buffer is. *)
LEMMA GiveAligned ==
  ASSUME IInv, BlocksAligned, NEW at \in Nat, NEW n \in SizeT, NEW a \in SizeT,
         at + n < WORD, Fits(at, n), Give(at, n, a),
         a \in PowersOfTwo => at % a = 0
  PROVE  BlocksAligned'
<1> DEFINE b == BlockAt(Plus(memory, at), n, a)
<1>1. WORD \in Nat /\ HALF \in Nat /\ memory \in Nat /\ size \in Nat /\ n \in Nat
  BY SizeTAssumption DEF WORD, SizeT, IInv, TypeOK
<1>2. Plus(memory, at) = memory + at /\ memory + at \in SizeT
  BY <1>1 DEF Plus, Fits, IInv, BelowIndex, SizeT
<1>3. memory' = memory /\ blocks' = Append(blocks, b) /\ blocks \in Seq(BlockType)
  BY DEF Give, IInv, TypeOK, BlockType
<1>4. b \in BlockType /\ b.base = memory + at /\ b.align = a
  BY <1>2 DEF BlockAt, BlockType
<1> HIDE DEF b
<1>5. /\ DOMAIN blocks' = 1 .. Len(blocks) + 1
      /\ \A k \in 1 .. Len(blocks) : blocks'[k] = blocks[k]
      /\ blocks'[Len(blocks) + 1] = b
      /\ DOMAIN blocks = 1 .. Len(blocks) /\ Len(blocks) \in Nat
  BY <1>3, <1>4, AppendProperties
<1> SUFFICES ASSUME NEW k \in DOMAIN blocks', blocks'[k].align \in PowersOfTwo,
                    memory % blocks'[k].align = 0
             PROVE  blocks'[k].base % blocks'[k].align = 0
  BY <1>3 DEF BlocksAligned
<1>6. CASE k \in DOMAIN blocks
  BY <1>5, <1>6 DEF BlocksAligned
<1>7. CASE k = Len(blocks) + 1
  <2>1. a \in PowersOfTwo /\ memory % a = 0 /\ at % a = 0
    BY <1>4, <1>5, <1>7
  <2>2. a \in Int /\ a > 0
    BY <2>1, SizeTAssumption
  <2>3. (memory + at) % a = 0
    BY <1>1, <2>1, <2>2, SumMultiple
  <2> QED
    BY <1>4, <1>5, <1>7, <2>3
<1> QED
  BY <1>5, <1>6, <1>7

(* Every call keeps the blocks aligned. *)
LEMMA StepAligned ==
  ASSUME IInv, BlocksAligned, [ContractNext]_vars
  PROVE  BlocksAligned'
<1>1. WORD \in Nat /\ HALF \in Nat /\ WORD = 2 * HALF
  BY SizeTAssumption DEF WORD
<1>2. index \in Nat /\ size \in Nat /\ index <= size /\ size <= HALF /\ index \in SizeT
  BY DEF IInv, TypeOK, BelowIndex, SizeT
<1>3. ASSUME NEW r \in InitReqs, BumpInit(r[1], r[2])
      PROVE  BlocksAligned'
  BY <1>3 DEF BumpInit, BlocksAligned
<1>4. ASSUME UNCHANGED <<memory, size, index, blocks>>
      PROVE  BlocksAligned'
  BY <1>4 DEF BlocksAligned
<1>5. ASSUME NEW n \in Sizes, n < HALF, BumpAlloc(n) \/ BumpCopyString(n)
      PROVE  BlocksAligned'
  <2>1. n \in SizeT /\ 1 \in SizeT /\ n \in Nat /\ index + n < WORD /\ index % 1 = 0
    BY <1>1, <1>2, <1>5, BumpAssumption, SizeTAssumption DEF SizeT
  <2>2. CASE GiveNull
    BY <2>2, <1>4 DEF GiveNull
  <2>3. CASE Fits(index, n) /\ Give(index, n, 1)
    BY <2>1, <2>3, <1>2, GiveAligned
  <2> QED
    BY <1>5, <2>2, <2>3 DEF BumpAlloc, BumpCopyString
<1>6. ASSUME NEW r \in AlignedReqs, AlignedContract(r[1], r[2]),
             BumpAllocAligned(r[1], r[2])
      PROVE  BlocksAligned'
  <2> DEFINE n == r[1]
             a == r[2]
             at == MaskUp(index, a)
  <2>1. n \in SizeT /\ a \in SizeT /\ n \in Nat /\ a \in Nat
    BY BumpAssumption DEF SizeT
  <2>2. CASE GiveNull
    BY <2>2, <1>4 DEF GiveNull
  <2>3. CASE n # 0 /\ a # 0 /\ Fits(at, n) /\ Give(at, n, a)
    <3>1. size + a + n <= WORD
      BY <1>6 DEF AlignedContract
    <3>2. index + a <= WORD
      BY <3>1, <2>1, <1>1, <1>2
    <3>3. at \in Nat /\ at < index + a
      BY <2>1, <2>3, <3>2, <1>2, MaskUpBounds
    <3>4. a \in PowersOfTwo => at % a = 0
      BY <3>2, <1>2, MaskUpMultiple
    <3> HIDE DEF at, n, a
    <3>5. at + n < WORD
      BY <3>1, <3>3, <2>1, <1>1, <1>2
    <3> QED
      BY <2>1, <2>3, <3>3, <3>4, <3>5, GiveAligned
  <2> QED
    BY <1>6, <2>2, <2>3 DEF BumpAllocAligned, FitsAligned
<1>7. ASSUME NEW r \in InitReqs, BumpInitRefused(r[1], r[2])
      PROVE  BlocksAligned'
  BY <1>7, <1>4 DEF BumpInitRefused, vars
<1>8. CASE UNCHANGED vars
  BY <1>8, <1>4 DEF vars
<1> QED
  BY <1>3, <1>5, <1>6, <1>7, <1>8 DEF ContractNext

(* A block that bump_alloc_aligned returns has the alignment it was asked  *)
(* for, if that is a power of two and the buffer has it.                   *)
THEOREM Aligned == ContractSpec => []BlocksAligned
<1>1. Init => IInv /\ BlocksAligned
  BY Start DEF Init, BlocksAligned
<1>2. IInv /\ BlocksAligned /\ [ContractNext]_vars => (IInv /\ BlocksAligned)'
  BY Step, StepAligned
<1> QED
  BY <1>1, <1>2, PTL DEF ContractSpec
=============================================================================
