----------------------------- MODULE PmmProofs -----------------------------
(***************************************************************************)
(* The physical memory manager, for every page size, every size of the     *)
(* tables and every set of arguments.  First what holds whatever calls are *)
(* made of it (Spec): its state is well typed, its lists have no cycle,    *)
(* and everything in them consists of whole pages.  Then the promises it   *)
(* keeps in its contract (ContractSpec), and how it implements PhysMem,    *)
(* first fit on a set of pages.                                            *)
(***************************************************************************)
EXTENDS Pmm, SequenceTheorems, FiniteSetTheorems, TLAPS

-----------------------------------------------------------------------------
(* Arithmetic of size_t.                                                   *)

(* A remainder is smaller than the divisor and not larger than the number. *)
LEMMA ModBounds ==
  ASSUME NEW x \in Nat, NEW a \in Nat \ {0}
  PROVE  x % a \in Nat /\ x % a < a /\ x % a <= x
OBVIOUS

(* ALIGN_DOWN moves an address down by less than the alignment. *)
LEMMA AlignDownBounds ==
  ASSUME NEW x \in Nat, NEW a \in Nat \ {0}
  PROVE  AlignDown(x, a) \in Nat /\ AlignDown(x, a) <= x /\ x < AlignDown(x, a) + a
BY ModBounds DEF AlignDown

(* Sums, differences and aligned values of size_t are size_t. *)
LEMMA SizeTClosed ==
  /\ \A x, y \in SizeT : Plus(x, y) \in SizeT /\ Minus(x, y) \in SizeT
  /\ \A x \in SizeT, a \in PowersOfTwo :
       AlignDown(x, a) \in SizeT /\ AlignUp(x, a) \in SizeT
<1>1. HALF \in Nat \ {0} /\ \A a \in PowersOfTwo : a \in Nat \ {0} /\ a - 1 \in SizeT
  BY SizeTAssumption DEF SizeT, WORD
<1>2. \A x, y \in SizeT : Plus(x, y) \in SizeT /\ Minus(x, y) \in SizeT
  BY <1>1 DEF SizeT, WORD, Plus, Minus
<1>3. \A x \in SizeT, a \in PowersOfTwo : AlignDown(x, a) \in SizeT
  <2> SUFFICES ASSUME NEW x \in SizeT, NEW a \in PowersOfTwo
               PROVE  AlignDown(x, a) \in SizeT
    OBVIOUS
  <2>1. x \in Nat /\ x < WORD /\ a \in Nat \ {0} /\ WORD \in Nat
    BY <1>1 DEF SizeT, WORD
  <2>2. AlignDown(x, a) \in Nat /\ AlignDown(x, a) <= x
    BY <2>1, AlignDownBounds
  <2> QED
    BY <2>1, <2>2 DEF SizeT
<1> QED
  BY <1>1, <1>2, <1>3 DEF AlignUp

-----------------------------------------------------------------------------
(* Type correctness, for every sequence of calls of the interface.         *)

RegionT(S) == [base : SizeT, size : SizeT, free : SizeT, free_blocks : S \cup {NULL}]
BlockT(S)  == [base : SizeT, size : SizeT, next : S \cup {NULL}]
GrantT     == [base : SizeT, size : SizeT, asked : SizeT, align : SizeT]

(* A region array is one for a larger set of descriptors too. *)
LEMMA RegionsGrow ==
  ASSUME NEW S, NEW S2, S \subseteq S2, NEW rs \in Seq(RegionT(S))
  PROVE  rs \in Seq(RegionT(S2))
<1>1. RegionT(S) \subseteq RegionT(S2)
  BY DEF RegionT
<1> QED
  BY <1>1, SeqMonotonic

(* The descriptors stay descriptors when one of them is rewritten. *)
LEMMA BlocksUpdate ==
  ASSUME NEW S, NEW S2, S \subseteq S2, NEW b \in [Desc -> BlockT(S)],
         NEW d, NEW x \in BlockT(S2)
  PROVE  [b EXCEPT ![d] = x] \in [Desc -> BlockT(S2)]
<1>1. \A y \in BlockT(S) : y \in BlockT(S2)
  BY DEF BlockT
<1> QED
  BY <1>1

(* slab_alloc only adds to the descriptors in use. *)
LEMMA UsedGrows ==
  ASSUME TypeOK, slabFree' = slabFree \/ (slabFree > 0 /\ slabFree' = slabFree - 1)
  PROVE  /\ Used \subseteq Used' /\ slabFree' \in 0 .. SLAB_TOTAL
         /\ Used \subseteq Desc
         /\ slabFree > 0 => NextDesc \in Desc
         /\ slabFree' = slabFree - 1 => NextDesc \in Used'
<1>1. SLAB_TOTAL \in Nat /\ slabFree \in 0 .. SLAB_TOTAL
  BY PmmAssumption DEF TypeOK
<1> QED
  BY <1>1 DEF Used, NextDesc, Desc

(* What TypeOK says of a block and of a region. *)
LEMMA Fields ==
  ASSUME TypeOK
  PROVE  /\ \A d \in Used : /\ blk[d].base \in SizeT /\ blk[d].size \in SizeT
                             /\ blk[d].next \in Used \cup {NULL}
                             /\ End(blk[d]) \in SizeT
         /\ \A i \in DOMAIN regions :
              /\ regions[i].base \in SizeT /\ regions[i].size \in SizeT
              /\ regions[i].free \in SizeT
              /\ regions[i].free_blocks \in Used \cup {NULL}
<1>1. Used \subseteq Desc
  BY PmmAssumption DEF TypeOK, Used, Desc
<1>2. blk \in [Desc -> BlockT(Used)] /\ regions \in Seq(RegionT(Used))
  BY DEF TypeOK, BlockT, RegionT
<1>3. \A d \in Used : blk[d] \in BlockT(Used)
  BY <1>1, <1>2
<1>4. \A i \in DOMAIN regions : regions[i] \in RegionT(Used)
  BY <1>2, ElementOfSeq
<1> QED
  BY <1>3, <1>4, SizeTClosed DEF BlockT, RegionT, End

(* The arguments of a call, rounded, are values of size_t. *)
LEMMA Rounded ==
  ASSUME NEW x \in SizeT
  PROVE  /\ AddBase(x) \in SizeT /\ RemBase(x) \in SizeT
         /\ RemSize(x) \in SizeT /\ AllocSize(x) \in SizeT
         /\ \A y \in SizeT : AddSize(x, y) \in SizeT
BY SizeTClosed, PmmAssumption DEF AddBase, AddSize, RemBase, RemSize, AllocSize

(* A failing call changes nothing but the value it returns. *)
LEMMA FailsType ==
  ASSUME TypeOK, UNCHANGED <<regions, blk, slabFree, total, free, grants>>, halted' \in BOOLEAN
  PROVE  TypeOK'
BY DEF TypeOK, Used

(* pmm_add_region keeps the types. *)
LEMMA AddType ==
  ASSUME TypeOK, NEW base \in SizeT, NEW size \in SizeT, AddAccepted(base, size)
  PROVE  TypeOK'
<1> DEFINE ab == AddBase(base)
           as == AddSize(base, size)
<1>1. slabFree # 0 /\ Len(regions) < PMM_REGION_COUNT
  <2>1. AddError(base, size) = "ERR_OK"
    BY DEF AddAccepted
  <2>2. Len(regions) \in Nat /\ PMM_REGION_COUNT \in Nat
    BY PmmAssumption DEF TypeOK
  <2> QED
    BY <2>1, <2>2 DEF AddError
<1>2. slabFree > 0 /\ slabFree' = slabFree - 1
  BY <1>1, PmmAssumption DEF TypeOK, AddAccepted
<1>3. ab \in SizeT /\ as \in SizeT
  BY Rounded
<1>4. /\ Used \subseteq Used' /\ slabFree' \in 0 .. SLAB_TOTAL
      /\ NextDesc \in Used'
  BY <1>2, UsedGrows
<1>5. regions' \in Seq(RegionT(Used')) /\ Len(regions') <= PMM_REGION_COUNT
  <2>1. regions \in Seq(RegionT(Used))
    BY DEF TypeOK, RegionT
  <2>2. regions \in Seq(RegionT(Used'))
    BY <1>4, <2>1, RegionsGrow
  <2>3. Region(ab, as, as, NextDesc) \in RegionT(Used')
    BY <1>3, <1>4 DEF Region, RegionT
  <2>4. regions' = Append(regions, Region(ab, as, as, NextDesc))
    BY DEF AddAccepted
  <2>5. regions' \in Seq(RegionT(Used')) /\ Len(regions') = Len(regions) + 1
    BY <2>2, <2>3, <2>4, AppendProperties
  <2>6. Len(regions) \in Nat /\ PMM_REGION_COUNT \in Nat
    BY <2>1, PmmAssumption
  <2> QED
    BY <1>1, <2>5, <2>6
<1>6. blk' \in [Desc -> BlockT(Used')]
  <2>1. blk \in [Desc -> BlockT(Used)]
    BY DEF TypeOK, BlockT
  <2>2. Block(ab, as, NULL) \in BlockT(Used')
    BY <1>3 DEF Block, BlockT
  <2>3. blk' = [blk EXCEPT ![NextDesc] = Block(ab, as, NULL)]
    BY DEF AddAccepted
  <2> QED
    BY <1>4, <2>1, <2>2, <2>3, BlocksUpdate
<1>7. total' \in SizeT /\ free' \in SizeT
  BY <1>3, SizeTClosed DEF TypeOK, AddAccepted
<1>8. halted' = halted /\ grants' = grants
  BY DEF AddAccepted
<1> QED
  BY <1>4, <1>5, <1>6, <1>7, <1>8 DEF TypeOK, RegionT, BlockT

(* A split writes two blocks into the table. *)
LEMMA SplitType ==
  ASSUME TypeOK, NEW d \in Used, slabFree > 0, slabFree' = slabFree - 1,
         NEW b1 \in SizeT, NEW s1 \in SizeT, NEW b2 \in SizeT, NEW s2 \in SizeT
  PROVE  Split(d, Extent(b1, s1), Extent(b2, s2)) \in [Desc -> BlockT(Used')]
<1> DEFINE x == Block(b1, s1, NextDesc)
           y == Block(b2, s2, blk[d].next)
<1>1. Used \subseteq Used' /\ NextDesc \in Used'
  BY UsedGrows
<1>2. blk \in [Desc -> BlockT(Used)] /\ blk[d].next \in Used \cup {NULL}
  BY Fields DEF TypeOK, BlockT
<1>3. x \in BlockT(Used') /\ y \in BlockT(Used')
  BY <1>1, <1>2 DEF Block, BlockT
<1>4. Split(d, Extent(b1, s1), Extent(b2, s2)) = [[blk EXCEPT ![d] = x] EXCEPT ![NextDesc] = y]
  BY DEF Split, Extent
<1> HIDE DEF x, y
<1>5. [blk EXCEPT ![d] = x] \in [Desc -> BlockT(Used')]
  BY <1>1, <1>2, <1>3, BlocksUpdate
<1> QED
  BY <1>3, <1>4, <1>5, BlocksUpdate

(* Unlinking a block keeps table and head typed. *)
LEMMA UnlinkType ==
  ASSUME TypeOK, NEW i \in DOMAIN regions, NEW d \in Used
  PROVE  /\ BlkWithout(i, d) \in [Desc -> BlockT(Used)]
         /\ HeadWithout(i, d) \in Used \cup {NULL}
<1> DEFINE p == Prev(i, d)
<1>1. blk \in [Desc -> BlockT(Used)] /\ blk[d].next \in Used \cup {NULL}
  BY Fields DEF TypeOK, BlockT
<1>2. HeadWithout(i, d) \in Used \cup {NULL}
  BY <1>1, Fields DEF HeadWithout
<1>3. [blk EXCEPT ![p] = Block(@.base, @.size, blk[d].next)] \in [Desc -> BlockT(Used)]
  <2>1. p \in Desc => Block(blk[p].base, blk[p].size, blk[d].next) \in BlockT(Used)
    BY <1>1 DEF Block, BlockT
  <2> HIDE DEF p
  <2> QED
    BY <1>1, <2>1
<1> QED
  BY <1>1, <1>2, <1>3 DEF BlkWithout

(* The calls that charge a region: the list has been updated already. *)
LEMMA ChargeType ==
  ASSUME TypeOK, NEW i \in DOMAIN regions, NEW n \in SizeT, NEW head \in Used \cup {NULL},
         slabFree' = slabFree \/ (slabFree > 0 /\ slabFree' = slabFree - 1),
         blk' \in [Desc -> BlockT(Used')], Charge(i, n, head),
         total' = total, halted' = halted, grants' \in Seq(GrantT)
  PROVE  TypeOK'
<1>1. Used \subseteq Used' /\ slabFree' \in 0 .. SLAB_TOTAL
  BY UsedGrows
<1> DEFINE r == Region(regions[i].base, regions[i].size, Minus(regions[i].free, n), head)
<1>2. regions \in Seq(RegionT(Used')) /\ i \in 1 .. Len(regions)
  <2>1. regions \in Seq(RegionT(Used))
    BY DEF TypeOK, RegionT
  <2> QED
    BY <1>1, <2>1, RegionsGrow
<1>3. r \in RegionT(Used')
  <2>1. Minus(regions[i].free, n) \in SizeT
    BY Fields, SizeTClosed
  <2> QED
    BY <1>1, <2>1, Fields DEF RegionT, Region
<1>4. regions' \in Seq(RegionT(Used')) /\ Len(regions') = Len(regions)
  <2>1. regions' = [regions EXCEPT ![i] = r]
    BY DEF Charge
  <2> HIDE DEF r
  <2> QED
    BY <1>2, <1>3, <2>1, ExceptSeq
<1>5. free' \in SizeT
  BY SizeTClosed DEF Charge, TypeOK
<1>6. Len(regions') <= PMM_REGION_COUNT
  BY <1>4 DEF TypeOK
<1>7. total' \in SizeT /\ halted' \in BOOLEAN
  BY DEF TypeOK
<1> QED
  BY <1>1, <1>4, <1>5, <1>6, <1>7 DEF TypeOK, RegionT, BlockT, GrantT

(* The four ways to take bytes out of a block, for pmm_remove_region ... *)
LEMMA CutType ==
  ASSUME TypeOK, NEW i \in DOMAIN regions, NEW d \in Used, NEW ab \in SizeT, NEW as \in SizeT,
         \/ CutMiddle(i, d, ab, as) \/ CutTail(i, d, ab, as)
         \/ CutHead(i, d, ab, as) \/ CutWholeBlock(i, d, ab, as),
         UNCHANGED <<total, halted, grants>>
  PROVE  TypeOK'
<1> DEFINE b == blk[d]
           rest == Plus(ab, as)
<1>1. /\ b.base \in SizeT /\ b.size \in SizeT /\ b.next \in Used \cup {NULL}
      /\ regions[i].free_blocks \in Used \cup {NULL}
  BY Fields
<1>2. rest \in SizeT /\ Minus(ab, b.base) \in SizeT
  BY <1>1, SizeTClosed
<1>3. blk \in [Desc -> BlockT(Used)] /\ grants' \in Seq(GrantT)
  BY DEF TypeOK, BlockT, GrantT
<1>4. slabFree' = slabFree => Used' = Used
  BY DEF Used
<1>5. CASE CutMiddle(i, d, ab, as)
  <2> DEFINE e == Plus(b.base, Minus(ab, b.base))
  <2>1. Minus(e, rest) \in SizeT
    BY <1>1, <1>2, SizeTClosed
  <2>2. slabFree > 0 /\ slabFree' = slabFree - 1
    BY <1>5 DEF CutMiddle
  <2>3. blk' = Split(d, Extent(b.base, Minus(ab, b.base)), Extent(rest, Minus(e, rest)))
    BY <1>5 DEF CutMiddle, End, Extent
  <2> HIDE DEF e, b, rest
  <2>4. blk' \in [Desc -> BlockT(Used')]
    BY <1>1, <1>2, <2>1, <2>2, <2>3, SplitType
  <2>5. Charge(i, as, regions[i].free_blocks)
    BY <1>5 DEF CutMiddle
  <2> QED
    BY <1>1, <1>3, <2>2, <2>4, <2>5, ChargeType
<1>6. CASE CutTail(i, d, ab, as)
  <2>1. Block(b.base, Minus(ab, b.base), b.next) \in BlockT(Used)
    BY <1>1, <1>2 DEF Block, BlockT
  <2>2. /\ blk' = [blk EXCEPT ![d] = Block(b.base, Minus(ab, b.base), b.next)]
        /\ slabFree' = slabFree /\ Charge(i, as, regions[i].free_blocks)
    BY <1>6 DEF CutTail
  <2> HIDE DEF b
  <2>3. blk' \in [Desc -> BlockT(Used')]
    BY <1>3, <1>4, <2>1, <2>2, BlocksUpdate
  <2> QED
    BY <1>1, <1>3, <2>2, <2>3, ChargeType
<1>7. CASE CutHead(i, d, ab, as)
  <2> DEFINE n == Minus(Plus(rest, b.size), rest)
  <2>0. n \in SizeT
    BY <1>1, <1>2, SizeTClosed
  <2>1. Block(rest, n, b.next) \in BlockT(Used)
    BY <1>1, <1>2, <2>0 DEF Block, BlockT
  <2>2. /\ blk' = [blk EXCEPT ![d] = Block(rest, n, b.next)]
        /\ slabFree' = slabFree /\ Charge(i, as, regions[i].free_blocks)
    BY <1>7 DEF CutHead
  <2> HIDE DEF b, n, rest
  <2>3. blk' \in [Desc -> BlockT(Used')]
    BY <1>3, <1>4, <2>1, <2>2, BlocksUpdate
  <2> QED
    BY <1>1, <1>3, <2>2, <2>3, ChargeType
<1>8. CASE CutWholeBlock(i, d, ab, as)
  <2>1. /\ blk' = BlkWithout(i, d) /\ slabFree' = slabFree
        /\ Charge(i, as, HeadWithout(i, d))
    BY <1>8 DEF CutWholeBlock
  <2>2. blk' \in [Desc -> BlockT(Used')] /\ HeadWithout(i, d) \in Used \cup {NULL}
    BY <1>4, <2>1, UnlinkType
  <2> QED
    BY <1>3, <2>1, <2>2, ChargeType
<1> QED
  BY <1>5, <1>6, <1>7, <1>8

(* ... and for pmm_alloc_aligned. *)
LEMMA TakeType ==
  ASSUME TypeOK, NEW i \in DOMAIN regions, NEW d \in Used, NEW ab \in SizeT, NEW n \in SizeT,
         \/ TakeMiddle(i, d, ab, n) \/ TakeTail(i, d, ab, n)
         \/ TakeHead(i, d, ab, n) \/ TakeWholeBlock(i, d, ab, n),
         slabFree > 0, total' = total, halted' = halted, grants' \in Seq(GrantT)
  PROVE  TypeOK'
<1> DEFINE b == blk[d]
           rest == Plus(ab, n)
<1>1. /\ b.base \in SizeT /\ b.size \in SizeT /\ b.next \in Used \cup {NULL}
      /\ regions[i].free_blocks \in Used \cup {NULL}
  BY Fields
<1>2. rest \in SizeT /\ Minus(ab, b.base) \in SizeT /\ Minus(End(b), rest) \in SizeT
  BY <1>1, SizeTClosed DEF End
<1>3. blk \in [Desc -> BlockT(Used)]
  BY DEF TypeOK, BlockT
<1>4. slabFree' = slabFree => Used' = Used
  BY DEF Used
<1>5. CASE TakeMiddle(i, d, ab, n)
  <2>1. /\ slabFree' = slabFree - 1 /\ Charge(i, n, regions[i].free_blocks)
        /\ blk' = Split(d, Extent(b.base, Minus(ab, b.base)), Extent(rest, Minus(End(b), rest)))
    BY <1>5 DEF TakeMiddle
  <2> HIDE DEF b, rest
  <2>2. blk' \in [Desc -> BlockT(Used')]
    BY <1>1, <1>2, <2>1, SplitType
  <2> QED
    BY <1>1, <2>1, <2>2, ChargeType
<1>6. CASE TakeTail(i, d, ab, n)
  <2>1. Block(b.base, Minus(ab, b.base), b.next) \in BlockT(Used)
    BY <1>1, <1>2 DEF Block, BlockT
  <2>2. /\ blk' = [blk EXCEPT ![d] = Block(b.base, Minus(ab, b.base), b.next)]
        /\ slabFree' = slabFree /\ Charge(i, n, regions[i].free_blocks)
    BY <1>6 DEF TakeTail
  <2> HIDE DEF b
  <2>3. blk' \in [Desc -> BlockT(Used')]
    BY <1>3, <1>4, <2>1, <2>2, BlocksUpdate
  <2> QED
    BY <1>1, <2>2, <2>3, ChargeType
<1>7. CASE TakeHead(i, d, ab, n)
  <2>1. Block(rest, Minus(End(b), rest), b.next) \in BlockT(Used)
    BY <1>1, <1>2 DEF Block, BlockT
  <2>2. /\ blk' = [blk EXCEPT ![d] = Block(rest, Minus(End(b), rest), b.next)]
        /\ slabFree' = slabFree /\ Charge(i, n, regions[i].free_blocks)
    BY <1>7 DEF TakeHead
  <2> HIDE DEF b, rest
  <2>3. blk' \in [Desc -> BlockT(Used')]
    BY <1>3, <1>4, <2>1, <2>2, BlocksUpdate
  <2> QED
    BY <1>1, <2>2, <2>3, ChargeType
<1>8. CASE TakeWholeBlock(i, d, ab, n)
  <2>1. /\ blk' = BlkWithout(i, d) /\ slabFree' = slabFree
        /\ Charge(i, n, HeadWithout(i, d))
    BY <1>8 DEF TakeWholeBlock
  <2>2. blk' \in [Desc -> BlockT(Used')] /\ HeadWithout(i, d) \in Used \cup {NULL}
    BY <1>4, <2>1, UnlinkType
  <2> QED
    BY <2>1, <2>2, ChargeType
<1> QED
  BY <1>5, <1>6, <1>7, <1>8

(* pmm_remove_region keeps the types. *)
LEMMA RemoveType ==
  ASSUME TypeOK, NEW base \in SizeT, NEW size \in SizeT, RemoveRegion(base, size)
  PROVE  TypeOK'
<1> DEFINE ab == RemBase(base)
           as == RemSize(size)
<1>1. ab \in SizeT /\ as \in SizeT
  BY Rounded
<1>2. CASE RemoveAsserts(base, size)
  BY <1>2, FailsType DEF RemoveAsserts
<1>3. CASE \/ RemoveNothing(base, size) \/ RemoveNotManaged(base, size)
           \/ RemoveAllocatedFrom(base, size)
  <2>1. UNCHANGED <<regions, blk, slabFree, total, free, halted, grants>>
    BY <1>3 DEF RemoveNothing, RemoveNotManaged, RemoveAllocatedFrom, Fails
  <2> QED
    BY <2>1, FailsType DEF TypeOK
<1>4. CASE RemoveWholeRegion(base, size)
  <2>1. PICK i \in DOMAIN regions :
          /\ regions' = [j \in DOMAIN regions |->
                           IF j >= i /\ j < Len(regions) THEN regions[j + 1] ELSE regions[j]]
          /\ free' = Minus(free, regions[i].size)
          /\ total' = Minus(total, regions[i].size)
    BY <1>4 DEF RemoveWholeRegion
  <2>2. regions \in Seq(RegionT(Used)) /\ UNCHANGED <<blk, slabFree, halted, grants>>
    BY <1>4 DEF TypeOK, RegionT, RemoveWholeRegion
  <2>3. Len(regions) \in Nat /\ DOMAIN regions = 1 .. Len(regions)
    BY <2>2
  <2>4. regions' \in [1 .. Len(regions) -> RegionT(Used)]
    BY <2>1, <2>2, <2>3
  <2>5. regions' \in Seq(RegionT(Used)) /\ Len(regions') = Len(regions)
    BY <2>3, <2>4
  <2>6. free' \in SizeT /\ total' \in SizeT
    BY <2>1, Fields, SizeTClosed DEF TypeOK
  <2>7. Used' = Used
    BY <2>2 DEF Used
  <2> QED
    BY <2>2, <2>5, <2>6, <2>7 DEF TypeOK, RegionT
<1>5. CASE RemovePart(base, size)
  <2>1. PICK i \in DOMAIN regions, d \in Used :
          \/ CutMiddle(i, d, ab, as) \/ CutTail(i, d, ab, as)
          \/ CutHead(i, d, ab, as) \/ CutWholeBlock(i, d, ab, as)
    BY <1>5 DEF RemovePart
  <2>2. UNCHANGED <<total, halted, grants>>
    BY <1>5 DEF RemovePart
  <2> HIDE DEF ab, as
  <2> QED
    BY <1>1, <2>1, <2>2, CutType
<1>6. CASE RemoveOutOfDescriptors(base, size)
  <2>1. PICK d \in Used : blk' = [blk EXCEPT ![d] = Block(@.base, Minus(ab, @.base), @.next)]
    BY <1>6 DEF RemoveOutOfDescriptors
  <2>2. UNCHANGED <<regions, slabFree, total, free, halted, grants>>
    BY <1>6 DEF RemoveOutOfDescriptors
  <2>3. Block(blk[d].base, Minus(ab, blk[d].base), blk[d].next) \in BlockT(Used)
    BY <1>1, Fields, SizeTClosed DEF Block, BlockT
  <2>4. blk \in [Desc -> BlockT(Used)] /\ Used' = Used
    BY <2>2 DEF TypeOK, BlockT, Used
  <2>5. blk' \in [Desc -> BlockT(Used)]
    BY <2>1, <2>3, <2>4
  <2> QED
    BY <2>2, <2>4, <2>5 DEF TypeOK, BlockT
<1> QED
  BY <1>2, <1>3, <1>4, <1>5, <1>6 DEF RemoveRegion

(* pmm_alloc_aligned keeps the types. *)
LEMMA AllocType ==
  ASSUME TypeOK, NEW size \in SizeT, NEW a \in SizeT, AllocAligned(size, a)
  PROVE  TypeOK'
<1>1. CASE AllocBadAlignment(size, a) \/ AllocOutOfMemory(size, a)
  <2>1. UNCHANGED <<regions, blk, slabFree, total, free, halted, grants>>
    BY <1>1 DEF AllocBadAlignment, AllocOutOfMemory, Fails
  <2> QED
    BY <2>1, FailsType DEF TypeOK
<1>2. CASE AllocHangs(size, a)
  BY <1>2, FailsType DEF AllocHangs
<1>3. CASE AllocGrants(size, a)
  <2> DEFINE n == AllocSize(size)
  <2>1. n \in SizeT /\ a \in PowersOfTwo /\ slabFree > 0
    <3>1. slabFree >= SLAB_RESERVE /\ a \in PowersOfTwo
      BY <1>3 DEF AllocGrants, BadAlignment
    <3> QED
      BY <3>1, Rounded, PmmAssumption DEF TypeOK
  <2>2. PICK i \in DOMAIN regions, d \in Used :
          LET ab == AlignUp(blk[d].base, a)
          IN /\ \/ TakeMiddle(i, d, ab, n) \/ TakeTail(i, d, ab, n)
                \/ TakeHead(i, d, ab, n) \/ TakeWholeBlock(i, d, ab, n)
             /\ grants' = Append(grants, [base |-> ab, size |-> n,
                                          asked |-> size, align |-> a])
    BY <1>3 DEF AllocGrants
  <2> DEFINE ab == AlignUp(blk[d].base, a)
             g == [base |-> ab, size |-> n, asked |-> size, align |-> a]
  <2>3. ab \in SizeT
    BY <2>1, Fields, SizeTClosed
  <2>4. g \in GrantT /\ grants \in Seq(GrantT) /\ grants' = Append(grants, g)
    BY <2>1, <2>2, <2>3 DEF GrantT, TypeOK
  <2>5. /\ \/ TakeMiddle(i, d, ab, n) \/ TakeTail(i, d, ab, n)
           \/ TakeHead(i, d, ab, n) \/ TakeWholeBlock(i, d, ab, n)
        /\ total' = total /\ halted' = halted
    BY <1>3, <2>2 DEF AllocGrants
  <2> HIDE DEF ab, n, g
  <2>6. grants' \in Seq(GrantT)
    BY <2>4, AppendProperties
  <2> QED
    BY <2>1, <2>3, <2>5, <2>6, TakeType
<1> QED
  BY <1>1, <1>2, <1>3 DEF AllocAligned

(* Whatever sequence of calls is made of the interface, and with whatever  *)
(* arguments: counters, addresses and sizes are values of size_t, the      *)
(* region array is not overrun, no descriptor is taken from an empty slab, *)
(* and every pointer of the free lists is NULL or a descriptor that        *)
(* slab_alloc has returned.                                                *)
THEOREM TypeCorrect == Spec => []TypeOK
<1>1. Init => TypeOK
  <2> SUFFICES ASSUME Init PROVE TypeOK
    OBVIOUS
  <2>1. 0 \in SizeT /\ SLAB_TOTAL \in Nat /\ PMM_REGION_COUNT \in Nat
    BY SizeTAssumption, PmmAssumption DEF SizeT, WORD
  <2>2. blk \in [Desc -> BlockT(Used)]
    BY <2>1 DEF Init, Block, BlockT
  <2>3. regions \in Seq(RegionT(Used)) /\ Len(regions) = 0 /\ grants \in Seq(GrantT)
    BY EmptySeq DEF Init
  <2>4. slabFree \in 0 .. SLAB_TOTAL /\ Len(regions) <= PMM_REGION_COUNT
    BY <2>1, <2>3 DEF Init
  <2>5. total \in SizeT /\ free \in SizeT /\ halted \in BOOLEAN
    BY <2>1 DEF Init
  <2> QED
    BY <2>2, <2>3, <2>4, <2>5 DEF TypeOK, BlockT, RegionT, GrantT
<1>2. TypeOK /\ [Next]_vars => TypeOK'
  <2> SUFFICES ASSUME TypeOK, [Next]_vars PROVE TypeOK'
    OBVIOUS
  <2>1. CASE UNCHANGED vars
    BY <2>1 DEF TypeOK, vars, Used
  <2>2. ASSUME NEW r \in AddReqs, AddRegion(r[1], r[2]) PROVE TypeOK'
    <3>1. r[1] \in SizeT /\ r[2] \in SizeT
      BY PmmAssumption
    <3>2. CASE AddRefused(r[1], r[2])
      BY <3>2, FailsType DEF AddRefused, Fails, TypeOK
    <3> QED
      BY <2>2, <3>1, <3>2, AddType DEF AddRegion
  <2>3. ASSUME NEW r \in RemoveReqs, RemoveRegion(r[1], r[2]) PROVE TypeOK'
    BY <2>3, RemoveType, PmmAssumption
  <2>4. ASSUME NEW r \in AllocReqs, AllocAligned(r[1], r[2]) PROVE TypeOK'
    BY <2>4, AllocType, PmmAssumption
  <2>5. ASSUME NEW g \in DOMAIN grants, Free(grants[g].base) PROVE TypeOK'
    BY <2>5, FailsType DEF Free, Fails, TypeOK
  <2> QED
    BY <2>1, <2>2, <2>3, <2>4, <2>5 DEF Next
<1> QED
  BY <1>1, <1>2, PTL DEF Spec
-----------------------------------------------------------------------------
(* Multiples.                                                              *)

(* A number is a multiple of p and a remainder. *)
LEMMA DivMod ==
  ASSUME NEW x \in Int, NEW p \in Int, p > 0
  PROVE  x % p \in 0 .. p - 1 /\ x \div p \in Int /\ x = p * (x \div p) + (x % p)
<1>1. x % p \in 0 .. p - 1 /\ x \div p \in Int
  OBVIOUS
<1>2. x = p * (x \div p) + (x % p)
  OBVIOUS
<1> QED
  BY <1>1, <1>2

(* A multiple leaves no remainder. *)
LEMMA ModOfMultiple ==
  ASSUME NEW k \in Int, NEW p \in Int, p > 0
  PROVE  (p * k) % p = 0
OBVIOUS

(* Sums and differences of multiples are multiples. *)
LEMMA ModSum ==
  ASSUME NEW x \in Int, NEW y \in Int, NEW p \in Int, p > 0, x % p = 0, y % p = 0
  PROVE  (x + y) % p = 0 /\ (x - y) % p = 0
<1> DEFINE k == x \div p
           l == y \div p
<1>1. k \in Int /\ l \in Int /\ x = p * k /\ y = p * l
  BY DivMod
<1> HIDE DEF k, l
<1>2. x + y = p * (k + l) /\ x - y = p * (k - l)
  BY <1>1
<1> QED
  BY <1>1, <1>2, ModOfMultiple

(* A multiple of a multiple of p is a multiple of p. *)
LEMMA ModTransitive ==
  ASSUME NEW x \in Int, NEW a \in Int, a > 0, NEW p \in Int, p > 0, x % a = 0, a % p = 0
  PROVE  x % p = 0
<1> DEFINE k == x \div a
           l == a \div p
<1>1. k \in Int /\ l \in Int /\ x = a * k /\ a = p * l
  BY DivMod
<1> HIDE DEF k, l
<1>2. x = p * (l * k) /\ l * k \in Int
  BY <1>1
<1> QED
  BY <1>2, ModOfMultiple

(* ALIGN_DOWN yields a multiple of the alignment. *)
LEMMA AlignDownMultiple ==
  ASSUME NEW x \in Int, NEW a \in Int, a > 0
  PROVE  AlignDown(x, a) % a = 0
<1> DEFINE k == x \div a
<1>1. k \in Int /\ x - (x % a) = a * k
  BY DivMod
<1> HIDE DEF k
<1> QED
  BY <1>1, ModOfMultiple DEF AlignDown

(* Two multiples of a that differ, differ by a at least. *)
LEMMA MultiplesApart ==
  ASSUME NEW x \in Int, NEW y \in Int, NEW a \in Int, a > 0, x % a = 0, y % a = 0, x < y
  PROVE  x + a <= y
<1> DEFINE k == x \div a
           l == y \div a
<1>1. k \in Int /\ l \in Int /\ x = a * k /\ y = a * l
  BY DivMod
<1> HIDE DEF k, l
<1>2. k < l
  <2>1. SUFFICES ASSUME l <= k PROVE FALSE
    BY <1>1
  <2>2. a * l <= a * k
    BY <1>1, <2>1
  <2> QED
    BY <1>1, <2>2
<1>3. a * (k + 1) <= a * l
  BY <1>1, <1>2
<1>4. a * (k + 1) = a * k + a
  BY <1>1
<1> QED
  BY <1>1, <1>3, <1>4

-----------------------------------------------------------------------------
(* Whole pages.                                                            *)

Paged(x) == x.base % BASE_PAGE_SIZE = 0 /\ x.size % BASE_PAGE_SIZE = 0

(* The arithmetic of size_t keeps multiples of the page size, also when it *)
(* wraps around, and rounding makes them.                                  *)
LEMMA PageArithmetic ==
  /\ BASE_PAGE_SIZE \in Nat /\ BASE_PAGE_SIZE > 0 /\ BASE_PAGE_SIZE <= HALF
  /\ 0 % BASE_PAGE_SIZE = 0
  /\ \A x, y \in SizeT :
       x % BASE_PAGE_SIZE = 0 /\ y % BASE_PAGE_SIZE = 0 =>
         Plus(x, y) % BASE_PAGE_SIZE = 0 /\ Minus(x, y) % BASE_PAGE_SIZE = 0
  /\ \A x \in SizeT, a \in PowersOfTwo :
       a >= BASE_PAGE_SIZE =>
         AlignDown(x, a) % BASE_PAGE_SIZE = 0 /\ AlignUp(x, a) % BASE_PAGE_SIZE = 0
<1> DEFINE p == BASE_PAGE_SIZE
<1>1. /\ p \in Nat /\ p \in Int /\ p > 0 /\ p <= HALF /\ HALF \in Nat /\ HALF % p = 0
      /\ \A a \in PowersOfTwo : a \in Nat /\ a > 0 /\ a - 1 \in SizeT /\ (a >= p => a % p = 0)
  BY SizeTAssumption, PmmAssumption DEF SizeT, WORD
<1> HIDE DEF p
<1>2. WORD % p = 0 /\ WORD \in Int
  <2>1. WORD = HALF + HALF /\ HALF \in Int /\ p \in Int
    BY <1>1 DEF WORD
  <2>2. (HALF + HALF) % p = 0
    BY <1>1, <2>1, ModSum
  <2> QED
    BY <2>1, <2>2
<1>3. 0 % p = 0
  BY <1>1
<1>4. ASSUME NEW x \in SizeT, NEW y \in SizeT, x % p = 0, y % p = 0
      PROVE  Plus(x, y) % p = 0 /\ Minus(x, y) % p = 0
  <2> DEFINE u == x + y
             v == x - y
  <2>1. x \in Int /\ y \in Int /\ u \in Int /\ v \in Int /\ p \in Int
    BY <1>1 DEF SizeT
  <2>2. u % p = 0 /\ v % p = 0
    BY <1>1, <1>4, <2>1, ModSum
  <2> HIDE DEF u, v
  <2>3. (u - WORD) % p = 0 /\ (v + WORD) % p = 0
    BY <1>1, <1>2, <2>1, <2>2, ModSum
  <2>4. Plus(x, y) \in {u, u - WORD} /\ Minus(x, y) \in {v, v + WORD}
    <3>1. Plus(x, y) = IF u < WORD THEN u ELSE u - WORD
      BY <1>2, <2>1 DEF Plus, u
    <3>2. Minus(x, y) = IF x >= y THEN v ELSE v + WORD
      BY <1>2, <2>1 DEF Minus, v
    <3> QED
      BY <3>1, <3>2
  <2> QED
    BY <2>2, <2>3, <2>4
<1>5. ASSUME NEW x \in SizeT, NEW a \in PowersOfTwo, a >= p
      PROVE  AlignDown(x, a) % p = 0
  <2>1. a \in Int /\ a > 0 /\ a % p = 0 /\ x \in Int
    BY <1>1, <1>5 DEF SizeT
  <2>2. AlignDown(x, a) \in Int
    <3>1. x % a \in Int
      BY <2>1
    <3> QED
      BY <2>1, <3>1 DEF AlignDown
  <2>3. AlignDown(x, a) % a = 0
    BY <2>1, AlignDownMultiple
  <2> QED
    BY <1>1, <2>1, <2>2, <2>3, ModTransitive
<1>6. ASSUME NEW x \in SizeT, NEW a \in PowersOfTwo, a >= p
      PROVE  AlignUp(x, a) % p = 0
  <2>1. Plus(x, a - 1) \in SizeT
    BY <1>1, SizeTClosed
  <2> QED
    BY <1>5, <1>6, <2>1 DEF AlignUp
<1> QED
  BY <1>1, <1>3, <1>4, <1>5, <1>6 DEF p

-----------------------------------------------------------------------------
(* What the operations do to the descriptors.                              *)

(* slab_alloc returns a descriptor that was not in use. *)
LEMMA NewDescriptor ==
  ASSUME TypeOK, slabFree > 0, slabFree' = slabFree - 1
  PROVE  /\ Used' = Used \cup {NextDesc} /\ NextDesc \notin Used
         /\ NextDesc \in Desc /\ NextDesc # NULL
<1>1. SLAB_TOTAL \in Nat /\ slabFree \in 0 .. SLAB_TOTAL
  BY PmmAssumption DEF TypeOK
<1> QED
  BY <1>1 DEF Used, NextDesc, Desc, NULL

(* Descriptors in use are not NULL. *)
LEMMA UsedDescriptors ==
  ASSUME TypeOK
  PROVE  NULL \notin Used /\ Used \subseteq Desc /\ (slabFree' = slabFree => Used' = Used)
BY PmmAssumption DEF TypeOK, Used, Desc, NULL

(* A split changes d and the new descriptor only. *)
LEMMA SplitAt ==
  ASSUME TypeOK, NEW d \in Used, slabFree > 0, slabFree' = slabFree - 1, NEW l, NEW r
  PROVE  LET s == Split(d, l, r)
         IN /\ s[d] = Block(l.base, l.size, NextDesc)
            /\ s[NextDesc] = Block(r.base, r.size, blk[d].next)
            /\ \A e \in Used \ {d} : s[e] = blk[e]
<1>1. NextDesc \notin Used /\ NextDesc \in Desc /\ Used \subseteq Desc
  BY NewDescriptor, UsedDescriptors
<1>2. DOMAIN blk = Desc
  BY DEF TypeOK
<1> QED
  BY <1>1, <1>2 DEF Split

(* Unlinking a block moves none: only next pointers change. *)
LEMMA UnlinkMovesNothing ==
  ASSUME TypeOK, NEW i \in DOMAIN regions, NEW d \in Used, NEW e \in Used
  PROVE  BlkWithout(i, d)[e].base = blk[e].base /\ BlkWithout(i, d)[e].size = blk[e].size
<1>1. DOMAIN blk = Desc /\ Used \subseteq Desc
  BY UsedDescriptors DEF TypeOK
<1> DEFINE p == Prev(i, d)
<1>2. BlkWithout(i, d) \in {blk, [blk EXCEPT ![p] = Block(@.base, @.size, blk[d].next)]}
  BY DEF BlkWithout
<1> HIDE DEF p
<1> QED
  BY <1>1, <1>2 DEF Block

-----------------------------------------------------------------------------
(* Whole pages, continued.                                                 *)

(* WholePages, and the values it speaks about. *)
LEMMA PagesUnfolded ==
  WholePages <=> /\ \A i \in DOMAIN regions : Paged(regions[i])
                 /\ \A d \in Used : Paged(blk[d])
                 /\ \A g \in DOMAIN grants : Paged(grants[g])
BY DEF WholePages, Paged

(* A region keeps its extent when it is charged. *)
LEMMA ChargePaged ==
  ASSUME TypeOK, WholePages, NEW i \in DOMAIN regions, NEW n, NEW head, Charge(i, n, head)
  PROVE  \A j \in DOMAIN regions' : Paged(regions'[j])
<1>1. \A j \in DOMAIN regions : Paged(regions[j])
  BY PagesUnfolded
<1> QED
  BY <1>1 DEF Charge, Region, Paged

(* pmm_add_region adds whole pages. *)
LEMMA AddPaged ==
  ASSUME TypeOK, WholePages, NEW base \in SizeT, NEW size \in SizeT, AddAccepted(base, size)
  PROVE  WholePages'
<1> DEFINE ab == AddBase(base)
           as == AddSize(base, size)
           r == Region(ab, as, as, NextDesc)
<1>1. ab % BASE_PAGE_SIZE = 0 /\ as % BASE_PAGE_SIZE = 0
  <2>1. ab % BASE_PAGE_SIZE = 0
    BY PageArithmetic, PmmAssumption DEF AddBase
  <2>2. Minus(size, Minus(ab, base)) \in SizeT
    BY Rounded, SizeTClosed
  <2>3. as % BASE_PAGE_SIZE = 0
    BY <2>2, PageArithmetic, PmmAssumption DEF AddSize
  <2> QED
    BY <2>1, <2>3
<1>2. slabFree > 0 /\ slabFree' = slabFree - 1
  <2>1. slabFree # 0
    BY DEF AddAccepted, AddError
  <2> QED
    BY <2>1, PmmAssumption DEF AddAccepted, TypeOK
<1>3. Used' = Used \cup {NextDesc} /\ NextDesc \notin Used /\ NextDesc \in Desc
  BY <1>2, NewDescriptor
<1>4. /\ regions' = Append(regions, r)
      /\ blk' = [blk EXCEPT ![NextDesc] = Block(ab, as, NULL)] /\ grants' = grants
  BY DEF AddAccepted
<1> HIDE DEF ab, as
<1>5. Paged(r) /\ Paged(Block(ab, as, NULL))
  BY <1>1 DEF Region, Block, Paged
<1> HIDE DEF r
<1>6. \A i \in DOMAIN regions' : Paged(regions'[i])
  <2>1. regions \in Seq(RegionT(Used))
    BY DEF TypeOK, RegionT
  <2>2. Len(regions) \in Nat /\ DOMAIN regions = 1 .. Len(regions)
    BY <2>1
  <2>3. /\ DOMAIN regions' = 1 .. Len(regions) + 1
        /\ \A i \in 1 .. Len(regions) : regions'[i] = regions[i]
        /\ regions'[Len(regions) + 1] = r
    BY <1>4, <2>1, <2>2
  <2> QED
    BY <1>5, <2>2, <2>3, PagesUnfolded
<1>7. \A d \in Used' : Paged(blk'[d])
  <2>1. DOMAIN blk = Desc /\ Used \subseteq Desc
    BY UsedDescriptors DEF TypeOK
  <2> QED
    BY <1>3, <1>4, <1>5, <2>1, PagesUnfolded
<1> QED
  BY <1>4, <1>6, <1>7, PagesUnfolded DEF WholePages, Paged

(* Bytes from ab, a multiple of the page size, to rest, another one, are   *)
(* taken out of block d, or all of it.                                     *)
LEMMA TakePaged ==
  ASSUME TypeOK, WholePages, NEW i \in DOMAIN regions, NEW d \in Used,
         NEW ab \in SizeT, NEW n \in SizeT,
         ab % BASE_PAGE_SIZE = 0, n % BASE_PAGE_SIZE = 0, slabFree > 0,
         \/ TakeMiddle(i, d, ab, n) \/ TakeTail(i, d, ab, n)
         \/ TakeHead(i, d, ab, n) \/ TakeWholeBlock(i, d, ab, n)
  PROVE  /\ \A e \in Used' : Paged(blk'[e])
         /\ \A j \in DOMAIN regions' : Paged(regions'[j])
<1> DEFINE b == blk[d]
           rest == Plus(ab, n)
           left == Minus(ab, b.base)
           right == Minus(End(b), rest)
<1>1. b.base \in SizeT /\ b.size \in SizeT /\ End(b) \in SizeT /\ rest \in SizeT
  BY Fields, SizeTClosed
<1>2. Paged(b) /\ \A e \in Used : Paged(blk[e])
  BY PagesUnfolded
<1>3. /\ b.base % BASE_PAGE_SIZE = 0 /\ rest % BASE_PAGE_SIZE = 0
      /\ left % BASE_PAGE_SIZE = 0 /\ right % BASE_PAGE_SIZE = 0
  <2>1. b.base % BASE_PAGE_SIZE = 0 /\ b.size % BASE_PAGE_SIZE = 0
    BY <1>2 DEF Paged
  <2>2. End(b) % BASE_PAGE_SIZE = 0 /\ rest % BASE_PAGE_SIZE = 0 /\ left % BASE_PAGE_SIZE = 0
    BY <1>1, <2>1, PageArithmetic DEF End
  <2> QED
    BY <1>1, <2>1, <2>2, PageArithmetic
<1>4. DOMAIN blk = Desc /\ Used \subseteq Desc /\ (slabFree' = slabFree => Used' = Used)
  BY UsedDescriptors DEF TypeOK
<1>5. CASE TakeMiddle(i, d, ab, n)
  <2> DEFINE l == Extent(b.base, left)
             r == Extent(rest, right)
  <2>1. /\ slabFree' = slabFree - 1 /\ Charge(i, n, regions[i].free_blocks)
        /\ blk' = Split(d, l, r)
    BY <1>5 DEF TakeMiddle
  <2>2. Used' = Used \cup {NextDesc} /\ NextDesc \notin Used
    BY <2>1, NewDescriptor
  <2> HIDE DEF l, r
  <2>3. /\ blk'[d] = Block(l.base, l.size, NextDesc)
        /\ blk'[NextDesc] = Block(r.base, r.size, blk[d].next)
        /\ \A e \in Used \ {d} : blk'[e] = blk[e]
    BY <2>1, SplitAt
  <2>4. Paged(blk'[d]) /\ Paged(blk'[NextDesc])
    BY <1>3, <2>3 DEF Paged, Block, Extent, l, r
  <2>5. \A e \in Used' : Paged(blk'[e])
    BY <1>2, <2>2, <2>3, <2>4
  <2> QED
    BY <2>1, <2>5, ChargePaged
<1>6. CASE TakeTail(i, d, ab, n)
  <2>1. /\ slabFree' = slabFree /\ Charge(i, n, regions[i].free_blocks)
        /\ blk' = [blk EXCEPT ![d] = Block(b.base, left, b.next)]
    BY <1>6 DEF TakeTail
  <2>2. Paged(Block(b.base, left, b.next))
    BY <1>3 DEF Paged, Block
  <2> HIDE DEF left, b
  <2>3. \A e \in Used' : Paged(blk'[e])
    BY <1>2, <1>4, <2>1, <2>2
  <2> QED
    BY <2>1, <2>3, ChargePaged
<1>7. CASE TakeHead(i, d, ab, n)
  <2>1. /\ slabFree' = slabFree /\ Charge(i, n, regions[i].free_blocks)
        /\ blk' = [blk EXCEPT ![d] = Block(rest, right, b.next)]
    BY <1>7 DEF TakeHead
  <2>2. Paged(Block(rest, right, b.next))
    BY <1>3 DEF Paged, Block
  <2> HIDE DEF rest, right, b
  <2>3. \A e \in Used' : Paged(blk'[e])
    BY <1>2, <1>4, <2>1, <2>2
  <2> QED
    BY <2>1, <2>3, ChargePaged
<1>8. CASE TakeWholeBlock(i, d, ab, n)
  <2>1. slabFree' = slabFree /\ Charge(i, n, HeadWithout(i, d)) /\ blk' = BlkWithout(i, d)
    BY <1>8 DEF TakeWholeBlock
  <2>2. \A e \in Used : blk'[e].base = blk[e].base /\ blk'[e].size = blk[e].size
    BY <2>1, UnlinkMovesNothing
  <2>3. \A e \in Used' : Paged(blk'[e])
    BY <1>2, <1>4, <2>1, <2>2 DEF Paged
  <2> QED
    BY <2>1, <2>3, ChargePaged
<1> QED
  BY <1>5, <1>6, <1>7, <1>8

(* The same for pmm_remove_region. *)
LEMMA CutPaged ==
  ASSUME TypeOK, WholePages, NEW i \in DOMAIN regions, NEW d \in Used,
         NEW ab \in SizeT, NEW as \in SizeT,
         ab % BASE_PAGE_SIZE = 0, as % BASE_PAGE_SIZE = 0,
         \/ CutMiddle(i, d, ab, as) \/ CutTail(i, d, ab, as)
         \/ CutHead(i, d, ab, as) \/ CutWholeBlock(i, d, ab, as)
  PROVE  /\ \A e \in Used' : Paged(blk'[e])
         /\ \A j \in DOMAIN regions' : Paged(regions'[j])
<1> DEFINE b == blk[d]
           rest == Plus(ab, as)
           left == Minus(ab, b.base)
<1>1. /\ b.base \in SizeT /\ b.size \in SizeT /\ rest \in SizeT /\ left \in SizeT
      /\ Plus(b.base, left) \in SizeT /\ Plus(rest, b.size) \in SizeT
  BY Fields, SizeTClosed
<1>2. Paged(b) /\ \A e \in Used : Paged(blk[e])
  BY PagesUnfolded
<1>3. /\ b.base % BASE_PAGE_SIZE = 0 /\ b.size % BASE_PAGE_SIZE = 0
      /\ rest % BASE_PAGE_SIZE = 0 /\ left % BASE_PAGE_SIZE = 0
  <2>1. b.base % BASE_PAGE_SIZE = 0 /\ b.size % BASE_PAGE_SIZE = 0
    BY <1>2 DEF Paged
  <2> QED
    BY <1>1, <2>1, PageArithmetic
<1>4. DOMAIN blk = Desc /\ Used \subseteq Desc /\ (slabFree' = slabFree => Used' = Used)
  BY UsedDescriptors DEF TypeOK
<1>5. CASE CutMiddle(i, d, ab, as)
  <2> DEFINE right == Minus(Plus(b.base, left), rest)
             l == Extent(b.base, left)
             r == Extent(rest, right)
  <2>0. right % BASE_PAGE_SIZE = 0
    <3> DEFINE e == Plus(b.base, left)
    <3>1. e \in SizeT /\ e % BASE_PAGE_SIZE = 0
      BY <1>1, <1>3, PageArithmetic
    <3> HIDE DEF e, rest
    <3>2. Minus(e, rest) % BASE_PAGE_SIZE = 0
      BY <1>1, <1>3, <3>1, PageArithmetic
    <3> QED
      BY <3>2 DEF e
  <2>1. /\ slabFree > 0 /\ slabFree' = slabFree - 1 /\ Charge(i, as, regions[i].free_blocks)
        /\ blk' = Split(d, l, r)
    BY <1>5 DEF CutMiddle, End, Extent
  <2>2. Used' = Used \cup {NextDesc} /\ NextDesc \notin Used
    BY <2>1, NewDescriptor
  <2> HIDE DEF l, r
  <2>3. /\ blk'[d] = Block(l.base, l.size, NextDesc)
        /\ blk'[NextDesc] = Block(r.base, r.size, blk[d].next)
        /\ \A e \in Used \ {d} : blk'[e] = blk[e]
    BY <2>1, SplitAt
  <2>4. Paged(blk'[d]) /\ Paged(blk'[NextDesc])
    <3>1. l.base = b.base /\ l.size = left /\ r.base = rest /\ r.size = right
      BY DEF l, r, Extent
    <3> HIDE DEF b, left, rest, right
    <3> QED
      BY <1>3, <2>0, <2>3, <3>1 DEF Paged, Block
  <2>5. \A e \in Used' : Paged(blk'[e])
    BY <1>2, <2>2, <2>3, <2>4
  <2> QED
    BY <2>1, <2>5, ChargePaged
<1>6. CASE CutTail(i, d, ab, as)
  <2>1. /\ slabFree' = slabFree /\ Charge(i, as, regions[i].free_blocks)
        /\ blk' = [blk EXCEPT ![d] = Block(b.base, left, b.next)]
    BY <1>6 DEF CutTail
  <2>2. Paged(Block(b.base, left, b.next))
    BY <1>3 DEF Paged, Block
  <2> HIDE DEF left, b
  <2>3. \A e \in Used' : Paged(blk'[e])
    BY <1>2, <1>4, <2>1, <2>2
  <2> QED
    BY <2>1, <2>3, ChargePaged
<1>7. CASE CutHead(i, d, ab, as)
  <2> DEFINE n == Minus(Plus(rest, b.size), rest)
  <2>0. n % BASE_PAGE_SIZE = 0
    <3>1. Plus(rest, b.size) % BASE_PAGE_SIZE = 0
      BY <1>1, <1>3, PageArithmetic
    <3> QED
      BY <1>1, <1>3, <3>1, PageArithmetic
  <2>1. /\ slabFree' = slabFree /\ Charge(i, as, regions[i].free_blocks)
        /\ blk' = [blk EXCEPT ![d] = Block(rest, n, b.next)]
    BY <1>7 DEF CutHead
  <2>2. Paged(Block(rest, n, b.next))
    BY <1>3, <2>0 DEF Paged, Block
  <2> HIDE DEF rest, n, b
  <2>3. \A e \in Used' : Paged(blk'[e])
    BY <1>2, <1>4, <2>1, <2>2
  <2> QED
    BY <2>1, <2>3, ChargePaged
<1>8. CASE CutWholeBlock(i, d, ab, as)
  <2>1. slabFree' = slabFree /\ Charge(i, as, HeadWithout(i, d)) /\ blk' = BlkWithout(i, d)
    BY <1>8 DEF CutWholeBlock
  <2>2. \A e \in Used : blk'[e].base = blk[e].base /\ blk'[e].size = blk[e].size
    BY <2>1, UnlinkMovesNothing
  <2>3. \A e \in Used' : Paged(blk'[e])
    BY <1>2, <1>4, <2>1, <2>2 DEF Paged
  <2> QED
    BY <2>1, <2>3, ChargePaged
<1> QED
  BY <1>5, <1>6, <1>7, <1>8

(* A call that leaves regions, blocks and grants alone. *)
LEMMA UnchangedPaged ==
  ASSUME WholePages, UNCHANGED <<regions, blk, slabFree, grants>>
  PROVE  WholePages'
BY DEF WholePages, Used

(* pmm_remove_region leaves whole pages. *)
LEMMA RemovePaged ==
  ASSUME TypeOK, WholePages, NEW base \in SizeT, NEW size \in SizeT, RemoveRegion(base, size)
  PROVE  WholePages'
<1> DEFINE ab == RemBase(base)
           as == RemSize(size)
<1>1. ab \in SizeT /\ as \in SizeT /\ ab % BASE_PAGE_SIZE = 0 /\ as % BASE_PAGE_SIZE = 0
  BY Rounded, PageArithmetic, PmmAssumption DEF RemBase, RemSize
<1> HIDE DEF ab, as
<1>2. CASE \/ RemoveAsserts(base, size) \/ RemoveNothing(base, size)
           \/ RemoveNotManaged(base, size) \/ RemoveAllocatedFrom(base, size)
  BY <1>2, UnchangedPaged
     DEF RemoveAsserts, RemoveNothing, RemoveNotManaged, RemoveAllocatedFrom, Fails
<1>3. CASE RemoveWholeRegion(base, size)
  <2>1. PICK i \in DOMAIN regions :
          regions' = [j \in DOMAIN regions |->
                        IF j >= i /\ j < Len(regions) THEN regions[j + 1] ELSE regions[j]]
    BY <1>3 DEF RemoveWholeRegion
  <2>2. UNCHANGED <<blk, slabFree, grants>> /\ Used' = Used
    BY <1>3 DEF RemoveWholeRegion, Used
  <2>3. Len(regions) \in Nat /\ DOMAIN regions = 1 .. Len(regions)
    BY DEF TypeOK
  <2>4. \A j \in DOMAIN regions' : Paged(regions'[j])
    BY <2>1, <2>3, PagesUnfolded
  <2> QED
    BY <2>2, <2>4, PagesUnfolded DEF WholePages, Paged
<1>4. CASE RemovePart(base, size)
  <2>1. PICK i \in DOMAIN regions, d \in Used :
          \/ CutMiddle(i, d, ab, as) \/ CutTail(i, d, ab, as)
          \/ CutHead(i, d, ab, as) \/ CutWholeBlock(i, d, ab, as)
    BY <1>4 DEF RemovePart, ab, as
  <2>2. grants' = grants
    BY <1>4 DEF RemovePart
  <2>3. /\ \A e \in Used' : Paged(blk'[e])
        /\ \A j \in DOMAIN regions' : Paged(regions'[j])
    BY <1>1, <2>1, CutPaged
  <2> QED
    BY <2>2, <2>3, PagesUnfolded DEF WholePages, Paged
<1>5. CASE RemoveOutOfDescriptors(base, size)
  <2>1. PICK d \in Used : blk' = [blk EXCEPT ![d] = Block(@.base, Minus(ab, @.base), @.next)]
    BY <1>5 DEF RemoveOutOfDescriptors, ab
  <2>2. UNCHANGED <<regions, slabFree, grants>> /\ Used' = Used /\ Used \subseteq Desc
    BY <1>5, UsedDescriptors DEF RemoveOutOfDescriptors
  <2>3. blk[d].base % BASE_PAGE_SIZE = 0 /\ blk[d].base \in SizeT
    BY PagesUnfolded, Fields DEF Paged
  <2>4. Minus(ab, blk[d].base) % BASE_PAGE_SIZE = 0
    BY <1>1, <2>3, PageArithmetic
  <2>5. Paged(Block(blk[d].base, Minus(ab, blk[d].base), blk[d].next))
    BY <2>3, <2>4 DEF Paged, Block
  <2>6. \A e \in Used' : Paged(blk'[e])
    BY <2>1, <2>2, <2>5, PagesUnfolded DEF TypeOK
  <2> QED
    BY <2>2, <2>6, PagesUnfolded DEF WholePages, Paged
<1> QED
  BY <1>2, <1>3, <1>4, <1>5 DEF RemoveRegion

(* pmm_alloc_aligned hands out and leaves whole pages. *)
LEMMA AllocPaged ==
  ASSUME TypeOK, WholePages, NEW size \in SizeT, NEW a \in SizeT, AllocAligned(size, a)
  PROVE  WholePages'
<1>1. CASE AllocBadAlignment(size, a) \/ AllocOutOfMemory(size, a) \/ AllocHangs(size, a)
  BY <1>1, UnchangedPaged DEF AllocBadAlignment, AllocOutOfMemory, AllocHangs, Fails
<1>2. CASE AllocGrants(size, a)
  <2> DEFINE n == AllocSize(size)
  <2>1. /\ n \in SizeT /\ n % BASE_PAGE_SIZE = 0
        /\ a \in PowersOfTwo /\ a >= BASE_PAGE_SIZE /\ slabFree > 0
    <3>1. slabFree >= SLAB_RESERVE /\ a \in PowersOfTwo /\ ~(a < BASE_PAGE_SIZE)
      BY <1>2 DEF AllocGrants, BadAlignment
    <3>2. a >= BASE_PAGE_SIZE /\ slabFree > 0
      BY <3>1, SizeTAssumption, PmmAssumption DEF TypeOK
    <3>3. n \in SizeT /\ n % BASE_PAGE_SIZE = 0
      BY Rounded, PageArithmetic, PmmAssumption DEF AllocSize
    <3> QED
      BY <3>1, <3>2, <3>3
  <2>2. PICK i \in DOMAIN regions, d \in Used :
          LET ab == AlignUp(blk[d].base, a)
          IN /\ \/ TakeMiddle(i, d, ab, n) \/ TakeTail(i, d, ab, n)
                \/ TakeHead(i, d, ab, n) \/ TakeWholeBlock(i, d, ab, n)
             /\ grants' = Append(grants, [base |-> ab, size |-> n,
                                          asked |-> size, align |-> a])
    BY <1>2 DEF AllocGrants
  <2> DEFINE ab == AlignUp(blk[d].base, a)
             g == [base |-> ab, size |-> n, asked |-> size, align |-> a]
  <2>3. ab \in SizeT /\ ab % BASE_PAGE_SIZE = 0
    BY <2>1, Fields, SizeTClosed, PageArithmetic
  <2>4. /\ \/ TakeMiddle(i, d, ab, n) \/ TakeTail(i, d, ab, n)
           \/ TakeHead(i, d, ab, n) \/ TakeWholeBlock(i, d, ab, n)
        /\ grants' = Append(grants, g)
    BY <2>2
  <2>5. Paged(g)
    BY <2>1, <2>3 DEF Paged
  <2> HIDE DEF ab, n, g
  <2>6. /\ \A e \in Used' : Paged(blk'[e])
        /\ \A j \in DOMAIN regions' : Paged(regions'[j])
    BY <2>1, <2>3, <2>4, TakePaged
  <2>7. \A h \in DOMAIN grants' : Paged(grants'[h])
    <3>1. grants \in Seq(GrantT)
      BY DEF TypeOK, GrantT
    <3>2. Len(grants) \in Nat /\ DOMAIN grants = 1 .. Len(grants)
      BY <3>1
    <3>3. /\ DOMAIN grants' = 1 .. Len(grants) + 1
          /\ \A h \in 1 .. Len(grants) : grants'[h] = grants[h]
          /\ grants'[Len(grants) + 1] = g
      BY <2>4, <3>1, <3>2
    <3> QED
      BY <2>5, <3>2, <3>3, PagesUnfolded
  <2> QED
    BY <2>6, <2>7 DEF WholePages, Paged
<1> QED
  BY <1>1, <1>2 DEF AllocAligned

(* Whatever calls are made and with whatever arguments, sums that wrap     *)
(* around included: regions, free blocks and grants consist of whole       *)
(* pages, so "at least a page" remains before or after every cut.          *)
THEOREM PagesWhole == Spec => []WholePages
<1>1. Init => WholePages
  BY PageArithmetic, PmmAssumption DEF Init, WholePages, Used, Block
<1>2. TypeOK /\ WholePages /\ [Next]_vars => WholePages'
  <2> SUFFICES ASSUME TypeOK, WholePages, [Next]_vars PROVE WholePages'
    OBVIOUS
  <2>1. CASE UNCHANGED vars
    BY <2>1, UnchangedPaged DEF vars
  <2>2. ASSUME NEW r \in AddReqs, AddRegion(r[1], r[2]) PROVE WholePages'
    <3>1. r[1] \in SizeT /\ r[2] \in SizeT
      BY PmmAssumption
    <3>2. CASE AddRefused(r[1], r[2])
      BY <3>2, UnchangedPaged DEF AddRefused, Fails
    <3> QED
      BY <2>2, <3>1, <3>2, AddPaged DEF AddRegion
  <2>3. ASSUME NEW r \in RemoveReqs, RemoveRegion(r[1], r[2]) PROVE WholePages'
    BY <2>3, RemovePaged, PmmAssumption
  <2>4. ASSUME NEW r \in AllocReqs, AllocAligned(r[1], r[2]) PROVE WholePages'
    BY <2>4, AllocPaged, PmmAssumption
  <2>5. ASSUME NEW g \in DOMAIN grants, Free(grants[g].base) PROVE WholePages'
    BY <2>5, UnchangedPaged DEF Free, Fails
  <2> QED
    BY <2>1, <2>2, <2>3, <2>4, <2>5 DEF Next
<1> QED
  BY <1>1, <1>2, TypeCorrect, PTL DEF Spec

-----------------------------------------------------------------------------
(* Walks along the next pointers of a table b of descriptors, of which     *)
(* those in U are in use.                                                  *)

ClosedIn(b, S) == \A d \in S : b[d].next \in S \cup {NULL}

Walk(b, U, h) ==
  IF h = NULL THEN {}
  ELSE {d \in U : \A S \in SUBSET U : h \in S /\ ClosedIn(b, S) => d \in S}

(* The definitions of Pmm are those for the current table. *)
LEMMA ReachIsWalk ==
  /\ \A h : Reach(h) = Walk(blk, Used, h)
  /\ \A i : FreeBlocks(i) = Walk(blk, Used, regions[i].free_blocks)
BY DEF FreeBlocks, Reach, Walk, Closed, ClosedIn

(* A walk stays within every closed set it starts in ... *)
LEMMA WalkLeast ==
  ASSUME NEW b, NEW U, NEW h, NEW S \in SUBSET U, h \in S \cup {NULL}, ClosedIn(b, S)
  PROVE  Walk(b, U, h) \subseteq S
BY DEF Walk

(* ... and the blocks it visits are themselves such a set. *)
LEMMA WalkClosed ==
  ASSUME NEW b, NEW U, NULL \notin U, \A d \in U : b[d].next \in U \cup {NULL},
         NEW h \in U \cup {NULL}
  PROVE  /\ Walk(b, U, h) \subseteq U
         /\ h \in Walk(b, U, h) \cup {NULL}
         /\ ClosedIn(b, Walk(b, U, h))
<1>1. Walk(b, U, h) \subseteq U
  BY DEF Walk
<1>2. h \in Walk(b, U, h) \cup {NULL}
  BY DEF Walk
<1>3. ASSUME NEW d \in Walk(b, U, h), b[d].next # NULL
      PROVE  b[d].next \in Walk(b, U, h)
  <2>1. h # NULL /\ d \in U /\ b[d].next \in U
    BY <1>1, <1>3 DEF Walk
  <2>2. ASSUME NEW S \in SUBSET U, h \in S, ClosedIn(b, S) PROVE b[d].next \in S
    <3>1. d \in S
      BY <2>1, <2>2 DEF Walk
    <3> QED
      BY <1>3, <2>2, <3>1 DEF ClosedIn
  <2> QED
    BY <2>1, <2>2 DEF Walk
<1> QED
  BY <1>1, <1>2, <1>3 DEF ClosedIn

(* A set that is closed, starts the walk and lies in every other such set  *)
(* is what the walk visits.                                                *)
LEMMA WalkIs ==
  ASSUME NEW b, NEW U, NEW h, h # NULL, NEW T \in SUBSET U, h \in T, ClosedIn(b, T),
         \A S \in SUBSET U : h \in S /\ ClosedIn(b, S) => T \subseteq S
  PROVE  Walk(b, U, h) = T
<1>1. Walk(b, U, h) \subseteq T
  BY WalkLeast
<1> QED
  BY <1>1 DEF Walk

(* The table of descriptors of a state is one the lemmas speak about. *)
LEMMA TableOK ==
  ASSUME TypeOK
  PROVE  /\ NULL \notin Used
         /\ \A d \in Used : blk[d].next \in Used \cup {NULL}
         /\ \A i \in DOMAIN regions : regions[i].free_blocks \in Used \cup {NULL}
BY Fields, UsedDescriptors

(* A block in a list that is not its head has a predecessor. *)
LEMMA PrevExists ==
  ASSUME TypeOK, NEW i \in DOMAIN regions, NEW d \in FreeBlocks(i),
         regions[i].free_blocks # d
  PROVE  Prev(i, d) \in FreeBlocks(i) /\ blk[Prev(i, d)].next = d
<1> DEFINE h == regions[i].free_blocks
           T == Walk(blk, Used, h)
<1>1. FreeBlocks(i) = T
  BY ReachIsWalk
<1>2. NULL \notin Used /\ (\A e \in Used : blk[e].next \in Used \cup {NULL}) /\ h \in Used \cup {NULL}
  BY TableOK
<1> HIDE DEF h
<1>3. T \subseteq Used /\ h \in T \cup {NULL} /\ ClosedIn(blk, T)
  BY <1>2, WalkClosed
<1>4. h # NULL
  BY <1>1 DEF Walk
<1>5. \E p \in T : blk[p].next = d
  <2> SUFFICES ASSUME \A p \in T : blk[p].next # d PROVE FALSE
    OBVIOUS
  <2> DEFINE S == T \ {d}
  <2>1. S \in SUBSET Used /\ h \in S
    BY <1>3, <1>4 DEF h
  <2>2. ClosedIn(blk, S)
    BY <1>3 DEF ClosedIn
  <2> HIDE DEF S, T
  <2>3. T \subseteq S
    BY <2>1, <2>2, WalkLeast DEF T
  <2> QED
    BY <1>1, <2>3 DEF S
<1> QED
  BY <1>1, <1>5 DEF Prev

-----------------------------------------------------------------------------
(* Lists have no cycle.                                                    *)

(* The inductive form: some closed set holds what follows d and not d. *)
Acyclic(b, U) ==
  \A d \in U : b[d].next # NULL =>
    \E S \in SUBSET U : ClosedIn(b, S) /\ b[d].next \in S /\ d \notin S

(* The property in terms of a closed set that lacks the block. *)
LEMMA AcyclicUnfolded == ListsAcyclic <=> Acyclic(blk, Used)
<1>1. \A d : Reach(blk[d].next) = Walk(blk, Used, blk[d].next)
  BY ReachIsWalk
<1> QED
  BY <1>1 DEF ListsAcyclic, Acyclic, Walk

(* Rewriting a block without its next pointer. *)
LEMMA AcyclicKept ==
  ASSUME NEW b, NEW b2, NEW U, Acyclic(b, U), \A d \in U : b2[d].next = b[d].next
  PROVE  Acyclic(b2, U)
<1>1. \A S \in SUBSET U : ClosedIn(b, S) => ClosedIn(b2, S)
  BY DEF ClosedIn
<1> QED
  BY <1>1 DEF Acyclic

(* A new block at the end of a list, or alone. *)
LEMMA AcyclicAdd ==
  ASSUME NEW b, NEW b2, NEW U, NEW n, n \notin U, Acyclic(b, U), b2[n].next = NULL,
         \A d \in U : b2[d].next = b[d].next
  PROVE  Acyclic(b2, U \cup {n})
<1>1. \A S \in SUBSET U : ClosedIn(b, S) => ClosedIn(b2, S)
  BY DEF ClosedIn
<1> SUFFICES ASSUME NEW d \in U \cup {n}, b2[d].next # NULL
             PROVE  \E S \in SUBSET (U \cup {n}) :
                      ClosedIn(b2, S) /\ b2[d].next \in S /\ d \notin S
  BY DEF Acyclic
<1>2. d \in U /\ b[d].next # NULL
  OBVIOUS
<1>3. PICK S \in SUBSET U : ClosedIn(b, S) /\ b[d].next \in S /\ d \notin S
  BY <1>2 DEF Acyclic
<1> QED
  BY <1>1, <1>2, <1>3

(* A new block n behind d. *)
LEMMA AcyclicSplit ==
  ASSUME NEW b, NEW b2, NEW U, NEW n, n \notin U, n # NULL, NULL \notin U, NEW d \in U,
         \A e \in U : b[e].next \in U \cup {NULL}, Acyclic(b, U),
         b2[d].next = n, b2[n].next = b[d].next,
         \A e \in U \ {d} : b2[e].next = b[e].next
  PROVE  Acyclic(b2, U \cup {n})
<1> DEFINE V == U \cup {n}
<1>1. ASSUME NEW S \in SUBSET U, ClosedIn(b, S)
      PROVE  /\ d \notin S => ClosedIn(b2, S)
             /\ (b[d].next \in S \cup {NULL}) => ClosedIn(b2, S \cup {n})
  BY <1>1 DEF ClosedIn
<1>2. PICK R \in SUBSET U : ClosedIn(b, R) /\ b[d].next \in R \cup {NULL} /\ d \notin R
  <2>1. CASE b[d].next = NULL
    <3>1. ClosedIn(b, {})
      BY DEF ClosedIn
    <3> QED
      BY <2>1, <3>1
  <2>2. CASE b[d].next # NULL
    BY <2>2 DEF Acyclic
  <2> QED
    BY <2>1, <2>2
<1> SUFFICES ASSUME NEW e \in V, b2[e].next # NULL
             PROVE  \E S \in SUBSET V : ClosedIn(b2, S) /\ b2[e].next \in S /\ e \notin S
  BY DEF Acyclic
<1>3. CASE e = d
  <2>1. ClosedIn(b2, R \cup {n}) /\ R \cup {n} \in SUBSET V /\ e \notin R \cup {n}
    BY <1>1, <1>2, <1>3
  <2> QED
    BY <1>3, <2>1
<1>4. CASE e = n
  <2>1. ClosedIn(b2, R) /\ R \in SUBSET V /\ e \notin R /\ b2[e].next \in R
    BY <1>1, <1>2, <1>4
  <2> QED
    BY <2>1
<1>5. CASE e \in U \ {d}
  <2>1. PICK S \in SUBSET U : ClosedIn(b, S) /\ b[e].next \in S /\ e \notin S
    BY <1>5 DEF Acyclic
  <2>2. CASE d \in S
    <3>1. b[d].next \in S \cup {NULL}
      BY <2>1, <2>2 DEF ClosedIn
    <3>2. ClosedIn(b2, S \cup {n}) /\ S \cup {n} \in SUBSET V /\ e \notin S \cup {n}
      BY <1>1, <1>5, <2>1, <3>1
    <3> QED
      BY <1>5, <2>1, <3>2
  <2>3. CASE d \notin S
    <3>1. ClosedIn(b2, S) /\ S \in SUBSET V
      BY <1>1, <2>1, <2>3
    <3> QED
      BY <1>5, <2>1, <3>1
  <2> QED
    BY <2>2, <2>3
<1> QED
  BY <1>3, <1>4, <1>5

(* p skips the block behind it. *)
LEMMA AcyclicUnlink ==
  ASSUME NEW b, NEW b2, NEW U, NULL \notin U, NEW p \in U, NEW d \in U, Acyclic(b, U),
         b[p].next = d, b2[p].next = b[d].next,
         \A e \in U \ {p} : b2[e].next = b[e].next
  PROVE  Acyclic(b2, U)
<1>1. ASSUME NEW S \in SUBSET U, ClosedIn(b, S) PROVE ClosedIn(b2, S)
  <2>1. p \in S => d \in S
    BY <1>1 DEF ClosedIn
  <2>2. p \in S => b[d].next \in S \cup {NULL}
    BY <1>1, <2>1 DEF ClosedIn
  <2> QED
    BY <1>1, <2>2 DEF ClosedIn
<1> SUFFICES ASSUME NEW e \in U, b2[e].next # NULL
             PROVE  \E S \in SUBSET U : ClosedIn(b2, S) /\ b2[e].next \in S /\ e \notin S
  BY DEF Acyclic
<1>2. CASE e = p
  <2>1. PICK S \in SUBSET U : ClosedIn(b, S) /\ d \in S /\ p \notin S
    BY DEF Acyclic
  <2>2. b2[e].next \in S
    BY <1>2, <2>1 DEF ClosedIn
  <2> QED
    BY <1>1, <1>2, <2>1, <2>2
<1>3. CASE e # p
  <2>1. PICK S \in SUBSET U : ClosedIn(b, S) /\ b[e].next \in S /\ e \notin S
    BY <1>3 DEF Acyclic
  <2> QED
    BY <1>1, <1>3, <2>1
<1> QED
  BY <1>2, <1>3

-----------------------------------------------------------------------------
(* The four things a call can do to the next pointers.                     *)

LinksKept == Used' = Used /\ \A e \in Used : blk'[e].next = blk[e].next

NewBlock ==
  /\ Used' = Used \cup {NextDesc} /\ NextDesc \notin Used
  /\ blk'[NextDesc].next = NULL
  /\ \A e \in Used : blk'[e].next = blk[e].next

NewBehind(d) ==
  /\ Used' = Used \cup {NextDesc} /\ NextDesc \notin Used /\ NextDesc # NULL
  /\ blk'[d].next = NextDesc /\ blk'[NextDesc].next = blk[d].next
  /\ \A e \in Used \ {d} : blk'[e].next = blk[e].next

Skips(p, d) ==
  /\ Used' = Used /\ blk[p].next = d /\ blk'[p].next = blk[d].next
  /\ \A e \in Used \ {p} : blk'[e].next = blk[e].next

Links == \/ LinksKept \/ NewBlock
         \/ \E d \in Used : NewBehind(d)
         \/ \E p, d \in Used : Skips(p, d)

(* Whatever the call does to the pointers, it closes no cycle. *)
LEMMA LinksAcyclic ==
  ASSUME TypeOK, Acyclic(blk, Used), Links
  PROVE  Acyclic(blk', Used')
<1>1. NULL \notin Used /\ \A e \in Used : blk[e].next \in Used \cup {NULL}
  BY TableOK
<1>2. CASE LinksKept
  <2>1. Acyclic(blk', Used)
    BY <1>2, AcyclicKept DEF LinksKept
  <2> QED
    BY <1>2, <2>1 DEF LinksKept
<1>3. CASE NewBlock
  <2>1. Acyclic(blk', Used \cup {NextDesc})
    BY <1>3, AcyclicAdd DEF NewBlock
  <2> QED
    BY <1>3, <2>1 DEF NewBlock
<1>4. ASSUME NEW d \in Used, NewBehind(d) PROVE Acyclic(blk', Used')
  <2>1. Acyclic(blk', Used \cup {NextDesc})
    BY <1>1, <1>4, AcyclicSplit DEF NewBehind
  <2> QED
    BY <1>4, <2>1 DEF NewBehind
<1>5. ASSUME NEW p \in Used, NEW d \in Used, Skips(p, d) PROVE Acyclic(blk', Used')
  <2>1. Acyclic(blk', Used)
    BY <1>1, <1>5, AcyclicUnlink DEF Skips
  <2> QED
    BY <1>5, <2>1 DEF Skips
<1> QED
  BY <1>2, <1>3, <1>4, <1>5 DEF Links

(* A split puts the new descriptor behind the block. *)
LEMMA SplitLinks ==
  ASSUME TypeOK, NEW d \in Used, slabFree > 0, slabFree' = slabFree - 1, NEW l, NEW r,
         blk' = Split(d, l, r)
  PROVE  NewBehind(d)
<1>1. /\ Used' = Used \cup {NextDesc} /\ NextDesc \notin Used /\ NextDesc # NULL
  BY NewDescriptor
<1>2. /\ blk'[d] = Block(l.base, l.size, NextDesc)
      /\ blk'[NextDesc] = Block(r.base, r.size, blk[d].next)
      /\ \A e \in Used \ {d} : blk'[e] = blk[e]
  BY SplitAt
<1>3. blk'[d].next = NextDesc /\ blk'[NextDesc].next = blk[d].next
  BY <1>2 DEF Block
<1> QED
  BY <1>1, <1>2, <1>3 DEF NewBehind

(* A block that is cut keeps its place in the list. *)
LEMMA RewriteLinks ==
  ASSUME TypeOK, NEW d \in Used, slabFree' = slabFree, NEW x, NEW y,
         blk' = [blk EXCEPT ![d] = Block(x, y, blk[d].next)]
  PROVE  LinksKept
<1>1. DOMAIN blk = Desc /\ Used \subseteq Desc /\ Used' = Used
  BY UsedDescriptors DEF TypeOK
<1> QED
  BY <1>1 DEF LinksKept, Block

(* The head or the predecessor skips the block. *)
LEMMA UnlinkLinks ==
  ASSUME TypeOK, NEW i \in DOMAIN regions, NEW d \in FreeBlocks(i), slabFree' = slabFree,
         blk' = BlkWithout(i, d)
  PROVE  LinksKept \/ \E p \in Used : Skips(p, d)
<1>1. DOMAIN blk = Desc /\ Used \subseteq Desc /\ Used' = Used
  BY UsedDescriptors DEF TypeOK
<1>2. CASE regions[i].free_blocks = d
  BY <1>1, <1>2 DEF BlkWithout, LinksKept
<1>3. CASE regions[i].free_blocks # d
  <2> DEFINE p == Prev(i, d)
  <2>1. p \in FreeBlocks(i) /\ blk[p].next = d
    BY <1>3, PrevExists
  <2>2. p \in Used
    BY <2>1 DEF FreeBlocks, Reach
  <2>3. blk' = [blk EXCEPT ![p] = Block(@.base, @.size, blk[d].next)]
    BY <1>3 DEF BlkWithout
  <2> HIDE DEF p
  <2>4. Skips(p, d)
    BY <1>1, <2>1, <2>2, <2>3 DEF Skips, Block
  <2> QED
    BY <2>2, <2>4
<1> QED
  BY <1>2, <1>3

(* What pmm_remove_region does to the pointers. *)
LEMMA CutLinks ==
  ASSUME TypeOK, NEW i \in DOMAIN regions, NEW d \in FreeBlocks(i), d \in Used, NEW ab, NEW as,
         \/ CutMiddle(i, d, ab, as) \/ CutTail(i, d, ab, as)
         \/ CutHead(i, d, ab, as) \/ CutWholeBlock(i, d, ab, as)
  PROVE  Links
<1>1. CASE CutMiddle(i, d, ab, as)
  BY <1>1, SplitLinks DEF CutMiddle, Links
<1>2. CASE CutTail(i, d, ab, as)
  BY <1>2, RewriteLinks DEF CutTail, Links
<1>3. CASE CutHead(i, d, ab, as)
  BY <1>3, RewriteLinks DEF CutHead, Links
<1>4. CASE CutWholeBlock(i, d, ab, as)
  BY <1>4, UnlinkLinks DEF CutWholeBlock, Links
<1> QED
  BY <1>1, <1>2, <1>3, <1>4

(* What pmm_alloc_aligned does to the pointers. *)
LEMMA TakeLinks ==
  ASSUME TypeOK, NEW i \in DOMAIN regions, NEW d \in FreeBlocks(i), d \in Used, NEW ab, NEW n,
         slabFree > 0,
         \/ TakeMiddle(i, d, ab, n) \/ TakeTail(i, d, ab, n)
         \/ TakeHead(i, d, ab, n) \/ TakeWholeBlock(i, d, ab, n)
  PROVE  Links
<1>1. CASE TakeMiddle(i, d, ab, n)
  BY <1>1, SplitLinks DEF TakeMiddle, Links
<1>2. CASE TakeTail(i, d, ab, n)
  BY <1>2, RewriteLinks DEF TakeTail, Links
<1>3. CASE TakeHead(i, d, ab, n)
  BY <1>3, RewriteLinks DEF TakeHead, Links
<1>4. CASE TakeWholeBlock(i, d, ab, n)
  BY <1>4, UnlinkLinks DEF TakeWholeBlock, Links
<1> QED
  BY <1>1, <1>2, <1>3, <1>4

(* Every call does one of the four. *)
LEMMA NextLinks ==
  ASSUME TypeOK, [Next]_vars
  PROVE  Links
<1>1. ASSUME UNCHANGED <<blk, slabFree>> PROVE Links
  BY <1>1 DEF Links, LinksKept, Used
<1>2. CASE UNCHANGED vars
  BY <1>1, <1>2 DEF vars
<1>3. ASSUME NEW r \in AddReqs, AddRegion(r[1], r[2]) PROVE Links
  <2>1. CASE AddRefused(r[1], r[2])
    BY <1>1, <2>1 DEF AddRefused, Fails
  <2>2. CASE AddAccepted(r[1], r[2])
    <3>1. slabFree # 0
      BY <2>2 DEF AddAccepted, AddError
    <3>2. slabFree > 0 /\ slabFree' = slabFree - 1
      BY <2>2, <3>1, PmmAssumption DEF AddAccepted, TypeOK
    <3>3. /\ Used' = Used \cup {NextDesc} /\ NextDesc \notin Used /\ NextDesc \in Desc
          /\ DOMAIN blk = Desc
      BY <3>2, NewDescriptor DEF TypeOK
    <3>4. blk' = [blk EXCEPT ![NextDesc] =
                    Block(AddBase(r[1]), AddSize(r[1], r[2]), NULL)]
      BY <2>2 DEF AddAccepted
    <3>5. NewBlock
      BY <3>3, <3>4 DEF NewBlock, Block
    <3> QED
      BY <3>5 DEF Links
  <2> QED
    BY <1>3, <2>1, <2>2 DEF AddRegion
<1>4. ASSUME NEW r \in RemoveReqs, RemoveRegion(r[1], r[2]) PROVE Links
  <2>1. CASE RemovePart(r[1], r[2])
    <3>1. PICK i \in DOMAIN regions, d \in Used :
            LET ab == RemBase(r[1])
                as == RemSize(r[2])
            IN /\ CutsBlock(i, d, ab, as)
               /\ \/ CutMiddle(i, d, ab, as) \/ CutTail(i, d, ab, as)
                  \/ CutHead(i, d, ab, as) \/ CutWholeBlock(i, d, ab, as)
      BY <2>1 DEF RemovePart
    <3>2. d \in FreeBlocks(i)
      BY <3>1 DEF CutsBlock, IsFirst, UpBound
    <3> QED
      BY <3>1, <3>2, CutLinks
  <2>2. CASE RemoveOutOfDescriptors(r[1], r[2])
    <3>1. PICK d \in Used :
            blk' = [blk EXCEPT ![d] = Block(@.base, Minus(RemBase(r[1]), @.base), @.next)]
      BY <2>2 DEF RemoveOutOfDescriptors
    <3>2. slabFree' = slabFree
      BY <2>2 DEF RemoveOutOfDescriptors
    <3> QED
      BY <3>1, <3>2, RewriteLinks DEF Links
  <2> QED
    BY <1>1, <1>4, <2>1, <2>2
       DEF RemoveRegion, RemoveAsserts, RemoveNothing, RemoveNotManaged, RemoveAllocatedFrom,
           RemoveWholeRegion, Fails
<1>5. ASSUME NEW r \in AllocReqs, AllocAligned(r[1], r[2]) PROVE Links
  <2>1. CASE AllocGrants(r[1], r[2])
    <3>1. PICK i \in DOMAIN regions, d \in Used :
            LET ab == AlignUp(blk[d].base, r[2])
                n == AllocSize(r[1])
            IN /\ FirstFit(i, d, n, r[2])
               /\ \/ TakeMiddle(i, d, ab, n) \/ TakeTail(i, d, ab, n)
                  \/ TakeHead(i, d, ab, n) \/ TakeWholeBlock(i, d, ab, n)
      BY <2>1 DEF AllocGrants
    <3>2. d \in FreeBlocks(i)
      BY <3>1 DEF FirstFit, IsFirst, Fitting
    <3>3. slabFree > 0
      BY <2>1, PmmAssumption DEF AllocGrants, TypeOK
    <3> QED
      BY <3>1, <3>2, <3>3, TakeLinks
  <2> QED
    BY <1>1, <1>5, <2>1 DEF AllocAligned, AllocBadAlignment, AllocOutOfMemory, AllocHangs, Fails
<1>6. ASSUME NEW g \in DOMAIN grants, Free(grants[g].base) PROVE Links
  BY <1>1, <1>6 DEF Free, Fails
<1> QED
  BY <1>2, <1>3, <1>4, <1>5, <1>6 DEF Next

(* Whatever calls are made, following next pointers never returns to the   *)
(* same descriptor: the loops over a free list end, also when two entries  *)
(* of the region array share one after pmm_remove_region, and when cuts    *)
(* have left overlapping or wrapped blocks behind.                         *)
THEOREM NoListCycle == Spec => []ListsAcyclic
<1>1. Init => ListsAcyclic
  BY PmmAssumption DEF Init, ListsAcyclic, Used
<1>2. TypeOK /\ ListsAcyclic /\ [Next]_vars => ListsAcyclic'
  <2> SUFFICES ASSUME TypeOK, ListsAcyclic, [Next]_vars PROVE ListsAcyclic'
    OBVIOUS
  <2>1. Acyclic(blk', Used')
    BY AcyclicUnfolded, NextLinks, LinksAcyclic
  <2> QED
    BY <2>1 DEF ListsAcyclic, Acyclic, Reach, Closed, ClosedIn
<1> QED
  BY <1>1, <1>2, TypeCorrect, PTL DEF Spec

-----------------------------------------------------------------------------
(***************************************************************************)
(* The contract.  The inductive invariant.                                 *)
(***************************************************************************)

(* The blocks T of a list with head h are good in region r: they lie in    *)
(* the region, in the order of addresses, no two overlap, no two are       *)
(* followed by the same block and the head follows none.                   *)
GoodList(b, T, h, r) ==
  /\ h \in T \cup {NULL}
  /\ ClosedIn(b, T)
  /\ \A d \in T : b[d].base \in Nat /\ b[d].size \in Nat \ {0} /\ Inside(b[d], r)
  /\ \A d \in T : b[d].next # NULL =>
       /\ b[d].next # h
       /\ b[d].base + b[d].size <= b[b[d].next].base
  /\ \A d, e \in T : d # e =>
       /\ Apart(b[d], b[e])
       /\ b[d].next = b[e].next => b[d].next = NULL

ListsGood ==
  \A i \in DOMAIN regions :
    GoodList(blk, Walk(blk, Used, regions[i].free_blocks), regions[i].free_blocks, regions[i])

RegionsGood ==
  /\ \A i \in DOMAIN regions :
       /\ regions[i].base \in Nat \ {0} /\ regions[i].size \in Nat
       /\ regions[i].base + regions[i].size <= HALF
  /\ \A i, j \in DOMAIN regions : i # j => Apart(regions[i], regions[j])

GrantsGood ==
  /\ \A g \in DOMAIN grants :
       /\ grants[g].base \in Nat /\ grants[g].size \in Nat
       /\ \E i \in DOMAIN regions : Inside(grants[g], regions[i])
       /\ \A i \in DOMAIN regions : \A d \in Walk(blk, Used, regions[i].free_blocks) :
            Apart(blk[d], grants[g])
  /\ \A g, h \in DOMAIN grants : g # h => Apart(grants[g], grants[h])

Inv ==
  /\ TypeOK /\ WholePages
  /\ RegionsGood /\ ListsGood /\ GrantsGood
  /\ CountersExact /\ DescriptorsPaid

-----------------------------------------------------------------------------
(* What becomes of the walk through a list when the table changes.         *)

(* Pointers of the list unchanged: the walk is unchanged, also when other  *)
(* descriptors are in use by then.                                         *)
LEMMA WalkKept ==
  ASSUME NEW b, NEW b2, NEW U, NEW U2, U \subseteq U2, NULL \notin U, NEW h \in U \cup {NULL},
         \A d \in U : b[d].next \in U \cup {NULL},
         \A d \in Walk(b, U, h) : b2[d].next = b[d].next
  PROVE  Walk(b2, U2, h) = Walk(b, U, h)
<1> DEFINE T == Walk(b, U, h)
<1>1. T \subseteq U /\ h \in T \cup {NULL} /\ ClosedIn(b, T)
  BY WalkClosed
<1>2. CASE h = NULL
  BY <1>2 DEF Walk
<1>3. CASE h # NULL
  <2>1. T \in SUBSET U2 /\ h \in T /\ ClosedIn(b2, T)
    BY <1>1, <1>3 DEF ClosedIn
  <2>2. ASSUME NEW S \in SUBSET U2, h \in S, ClosedIn(b2, S) PROVE T \subseteq S
    <3> DEFINE R == S \cap T
    <3>1. R \in SUBSET U /\ h \in R
      BY <1>1, <2>1, <2>2
    <3>2. ClosedIn(b, R)
      BY <1>1, <2>2 DEF ClosedIn
    <3> HIDE DEF R, T
    <3>3. T \subseteq R
      BY <3>1, <3>2, WalkLeast DEF T
    <3> QED
      BY <3>3 DEF R
  <2> HIDE DEF T
  <2> QED
    BY <1>3, <2>1, <2>2, WalkIs DEF T
<1> QED
  BY <1>2, <1>3

(* A new block n behind d: the walk visits it too. *)
LEMMA WalkSplit ==
  ASSUME NEW b, NEW b2, NEW U, NEW n, n \notin U, n # NULL, NULL \notin U, NEW h \in U,
         \A e \in U : b[e].next \in U \cup {NULL}, NEW d \in Walk(b, U, h),
         b2[d].next = n, b2[n].next = b[d].next,
         \A e \in Walk(b, U, h) \ {d} : b2[e].next = b[e].next
  PROVE  Walk(b2, U \cup {n}, h) = Walk(b, U, h) \cup {n}
<1> DEFINE T == Walk(b, U, h)
           T2 == T \cup {n}
           V == U \cup {n}
<1>1. T \subseteq U /\ h \in T /\ h # NULL /\ ClosedIn(b, T)
  BY WalkClosed
<1>2. T2 \in SUBSET V /\ h \in T2
  BY <1>1
<1>3. ClosedIn(b2, T2)
  BY <1>1 DEF ClosedIn
<1>4. ASSUME NEW S \in SUBSET V, h \in S, ClosedIn(b2, S) PROVE T2 \subseteq S
  <2> DEFINE R == S \cap T
  <2>1. R \in SUBSET U /\ h \in R
    BY <1>1, <1>4
  <2>2. ClosedIn(b, R)
    <3> SUFFICES ASSUME NEW e \in R PROVE b[e].next \in R \cup {NULL}
      BY DEF ClosedIn
    <3>1. b[e].next \in T \cup {NULL}
      BY <1>1 DEF ClosedIn
    <3>2. CASE e # d
      BY <1>4, <3>1, <3>2 DEF ClosedIn
    <3>3. CASE e = d
      <4>1. n \in S
        BY <1>4, <3>3 DEF ClosedIn
      <4> QED
        BY <1>4, <3>1, <3>3, <4>1 DEF ClosedIn
    <3> QED
      BY <3>2, <3>3
  <2> HIDE DEF R, T
  <2>3. T \subseteq R
    BY <2>1, <2>2, WalkLeast DEF T
  <2>4. d \in S
    BY <2>3 DEF R, T
  <2>5. n \in S
    BY <1>4, <2>4 DEF ClosedIn
  <2> QED
    BY <2>3, <2>5 DEF R
<1> HIDE DEF T2, V, T
<1> QED
  BY <1>1, <1>2, <1>3, <1>4, WalkIs DEF T2, V, T

(* Block p of T, and no other, is followed by d. *)
Precedes(b, T, p, d) == b[p].next = d /\ \A e \in T \ {p} : b[e].next # d

(* p, the only block followed by d, skips it: the walk misses just d. *)
LEMMA WalkSkip ==
  ASSUME NEW b, NEW b2, NEW U, NULL \notin U, NEW h \in U,
         \A e \in U : b[e].next \in U \cup {NULL},
         NEW T, T = Walk(b, U, h), NEW p \in T, NEW d \in T, d # h, p # d, b[d].next # d,
         Precedes(b, T, p, d), b2[p].next = b[d].next,
         \A e \in T \ {p} : b2[e].next = b[e].next
  PROVE  Walk(b2, U, h) = T \ {d}
<1> DEFINE T2 == T \ {d}
<1>0. b[p].next = d /\ \A e \in T \ {p} : b[e].next # d
  BY DEF Precedes
<1>1. T \subseteq U /\ h \in T /\ h # NULL /\ ClosedIn(b, T)
  BY WalkClosed
<1>2. T2 \in SUBSET U /\ h \in T2 /\ ClosedIn(b2, T2)
  BY <1>0, <1>1 DEF ClosedIn
<1>3. ASSUME NEW S \in SUBSET U, h \in S, ClosedIn(b2, S) PROVE T2 \subseteq S
  <2> DEFINE R == (S \cap T) \cup {e \in {d} : p \in S}
  <2>1. R \in SUBSET U /\ h \in R
    BY <1>1, <1>3
  <2>2. ClosedIn(b, R)
    <3> SUFFICES ASSUME NEW e \in R PROVE b[e].next \in R \cup {NULL}
      BY DEF ClosedIn
    <3>1. e \in T /\ b[e].next \in T \cup {NULL}
      BY <1>1 DEF ClosedIn
    <3>2. CASE e = p
      BY <1>0, <3>2
    <3>3. CASE e = d /\ e \notin S
      <4>1. p \in S
        BY <3>3
      <4> QED
        BY <1>3, <3>1, <3>3, <4>1 DEF ClosedIn
    <3>4. CASE e # p /\ e \in S
      BY <1>3, <3>1, <3>4 DEF ClosedIn
    <3> QED
      BY <3>2, <3>3, <3>4
  <2> HIDE DEF R
  <2>3. T \subseteq R
    BY <2>1, <2>2, WalkLeast
  <2> QED
    BY <2>3 DEF R, T2
<1> HIDE DEF T2
<1> QED
  BY <1>1, <1>2, <1>3, WalkIs DEF T2

(* The walk from behind the head misses just the head, which follows none. *)
LEMMA WalkTail ==
  ASSUME NEW b, NEW U, NULL \notin U, NEW h \in U,
         \A e \in U : b[e].next \in U \cup {NULL},
         \A e \in Walk(b, U, h) : b[e].next # h
  PROVE  Walk(b, U, b[h].next) = Walk(b, U, h) \ {h}
<1> DEFINE T == Walk(b, U, h)
           T2 == T \ {h}
           k == b[h].next
<1>1. T \subseteq U /\ h \in T /\ h # NULL /\ ClosedIn(b, T)
  BY WalkClosed
<1>2. CASE k = NULL
  <2>1. {h} \in SUBSET U /\ h \in {h} /\ ClosedIn(b, {h})
    BY <1>2 DEF ClosedIn
  <2> HIDE DEF T
  <2>2. T \subseteq {h}
    BY <2>1, WalkLeast DEF T
  <2> QED
    BY <1>1, <1>2, <2>2 DEF Walk, T
<1>3. CASE k # NULL
  <2>1. T2 \in SUBSET U /\ k \in T2 /\ ClosedIn(b, T2)
    BY <1>1, <1>3 DEF ClosedIn
  <2>2. ASSUME NEW S \in SUBSET U, k \in S, ClosedIn(b, S) PROVE T2 \subseteq S
    <3> DEFINE R == S \cup {h}
    <3>1. R \in SUBSET U /\ h \in R /\ ClosedIn(b, R)
      BY <2>2 DEF ClosedIn
    <3> HIDE DEF R, T
    <3>2. T \subseteq R
      BY <3>1, WalkLeast DEF T
    <3> QED
      BY <3>2 DEF R, T2
  <2> HIDE DEF T2, T, k
  <2> QED
    BY <1>3, <2>1, <2>2, WalkIs DEF T2, T, k
<1> QED
  BY <1>2, <1>3

-----------------------------------------------------------------------------
(* Taking the bytes of an extent c out of block d of a good list.          *)

(* The list T2 of table b2 is the list T of table b without the bytes of c *)
(* in block d: the other blocks are where they were, and what is left of d *)
(* before and after c is in the list.                                      *)
Carved(b, T, b2, T2, d, c) ==
  /\ \A e \in T \ {d} : e \in T2 /\ b2[e].base = b[e].base /\ b2[e].size = b[e].size
  /\ \A e \in T2 : e \in T \ {d} \/ (Inside(b2[e], b[d]) /\ Apart(b2[e], c))
  /\ \A v \in Bytes(b[d]) \ Bytes(c) : \E e \in T2 : v \in Bytes(b2[e])
  /\ \A e \in T2 :
       \/ e \in T \ {d}
       \/ b2[e].base = b[d].base /\ b2[e].base + b2[e].size = c.base
       \/ b2[e].base = c.base + c.size /\ b2[e].base + b2[e].size = b[d].base + b[d].size

(* A list whose blocks are left alone stays good. *)
LEMMA GoodKept ==
  ASSUME NEW b, NEW b2, NEW T, NEW h, NEW r, NEW r2, GoodList(b, T, h, r),
         \A d \in T : b2[d] = b[d], r2.base = r.base, r2.size = r.size
  PROVE  GoodList(b2, T, h, r2)
BY DEF GoodList, ClosedIn, Inside, NULL

(* Block d shrinks to an extent that lies in it. *)
LEMMA GoodShrunk ==
  ASSUME NEW b, NEW b2, NEW T, NEW h, NEW r, NEW r2, GoodList(b, T, h, r),
         NEW d \in T, NEW x \in Nat, NEW y \in Nat \ {0},
         b[d].base <= x, x + y <= b[d].base + b[d].size,
         r.base \in Nat, r.size \in Nat, r2.base = r.base, r2.size = r.size,
         b2[d] = Block(x, y, b[d].next), \A e \in T \ {d} : b2[e] = b[e]
  PROVE  GoodList(b2, T, h, r2)
<1>1. b2[d].base = x /\ b2[d].size = y /\ b2[d].next = b[d].next
  BY DEF Block
<1>2. \A e \in T : b2[e].next = b[e].next
  BY <1>1
<1>3. \A e \in T : b[e].base \in Nat /\ b[e].size \in Nat \ {0} /\ Inside(b[e], r)
  BY DEF GoodList
<1>4. \A e \in T : b2[e].base \in Nat /\ b2[e].size \in Nat \ {0}
  BY <1>1, <1>3
<1>5. \A e \in T : b[e].base <= b2[e].base /\ b2[e].base + b2[e].size <= b[e].base + b[e].size
  BY <1>1, <1>3
<1>6. \A e \in T : Inside(b2[e], r2)
  BY <1>3, <1>4, <1>5 DEF Inside
<1>7. \A e \in T : b2[e].next # NULL =>
        b2[e].next # h /\ b2[e].base + b2[e].size <= b2[b2[e].next].base
  <2> SUFFICES ASSUME NEW e \in T, b2[e].next # NULL
               PROVE  b2[e].next # h /\ b2[e].base + b2[e].size <= b2[b2[e].next].base
    OBVIOUS
  <2> DEFINE k == b[e].next
  <2>1. k \in T /\ k # h /\ b[e].base + b[e].size <= b[k].base /\ k = b2[e].next
    BY <1>2 DEF GoodList, ClosedIn
  <2> HIDE DEF k
  <2> QED
    BY <1>3, <1>4, <1>5, <2>1
<1>8. \A e, f \in T : e # f => Apart(b2[e], b2[f])
  <2> SUFFICES ASSUME NEW e \in T, NEW f \in T, e # f PROVE Apart(b2[e], b2[f])
    OBVIOUS
  <2>1. Apart(b[e], b[f])
    BY DEF GoodList
  <2> QED
    BY <1>3, <1>4, <1>5, <2>1 DEF Apart
<1>9. \A e, f \in T : e # f => (b2[e].next = b2[f].next => b2[e].next = NULL)
  BY <1>2 DEF GoodList
<1>10. h \in T \cup {NULL} /\ ClosedIn(b2, T)
  BY <1>2 DEF GoodList, ClosedIn
<1> QED
  BY <1>4, <1>6, <1>7, <1>8, <1>9, <1>10 DEF GoodList

(* A block becomes two, with n behind d. *)
LEMMA GoodSplit ==
  ASSUME NEW b, NEW b2, NEW T, NEW h, NEW r, NEW r2, GoodList(b, T, h, r),
         NEW d \in T, NEW n, n \notin T, n # NULL, NULL \notin T, NEW x \in Nat \ {0},
         NEW y \in Nat, NEW z \in Nat \ {0},
         b[d].base + x <= y, y + z = b[d].base + b[d].size,
         r.base \in Nat, r.size \in Nat, r2.base = r.base, r2.size = r.size,
         b2[d] = Block(b[d].base, x, n), b2[n] = Block(y, z, b[d].next),
         \A e \in T \ {d} : b2[e] = b[e]
  PROVE  GoodList(b2, T \cup {n}, h, r2)
<1> DEFINE T2 == T \cup {n}
<1>1. /\ b2[d].base = b[d].base /\ b2[d].size = x /\ b2[d].next = n
      /\ b2[n].base = y /\ b2[n].size = z /\ b2[n].next = b[d].next
  BY DEF Block
<1>2. \A e \in T : /\ b[e].base \in Nat /\ b[e].size \in Nat \ {0} /\ Inside(b[e], r)
                   /\ b[e].next \in T \cup {NULL} /\ b[e].next # n
  BY DEF GoodList, ClosedIn
<1>3. \A e \in T2 : b2[e].base \in Nat /\ b2[e].size \in Nat \ {0}
  BY <1>1, <1>2
<1>4. \A e \in T : b[e].base = b2[e].base /\ b2[e].base + b2[e].size <= b[e].base + b[e].size
  BY <1>1, <1>2
<1>5. \A e \in T2 : Inside(b2[e], r2)
  BY <1>1, <1>2, <1>3, <1>4 DEF Inside
<1>6. h \in T2 \cup {NULL} /\ ClosedIn(b2, T2)
  BY <1>1, <1>2 DEF GoodList, ClosedIn
<1>7. ASSUME NEW e \in T2, b2[e].next # NULL
      PROVE  b2[e].next # h /\ b2[e].base + b2[e].size <= b2[b2[e].next].base
  <2>1. CASE e = d
    BY <1>1, <1>2, <2>1 DEF GoodList
  <2>2. CASE e = n
    <3> DEFINE k == b[d].next
    <3>1. k \in T /\ k # h /\ b[d].base + b[d].size <= b[k].base /\ b2[e].next = k
      BY <1>1, <1>2, <1>7, <2>2 DEF GoodList
    <3> HIDE DEF k
    <3> QED
      BY <1>1, <1>2, <1>4, <2>2, <3>1
  <2>3. CASE e \in T \ {d}
    <3> DEFINE k == b[e].next
    <3>1. k \in T /\ k # h /\ b[e].base + b[e].size <= b[k].base /\ b2[e].next = k
      BY <1>1, <1>2, <1>7, <2>3 DEF GoodList
    <3> HIDE DEF k
    <3> QED
      BY <1>2, <1>4, <2>3, <3>1
  <2> QED
    BY <2>1, <2>2, <2>3
<1>8. ASSUME NEW e \in T, NEW f \in T, e # f PROVE Apart(b2[e], b2[f])
  <2>1. Apart(b[e], b[f])
    BY <1>8 DEF GoodList
  <2> QED
    BY <1>2, <1>3, <1>4, <2>1 DEF Apart
<1>9. ASSUME NEW e \in T PROVE Apart(b2[e], b2[n]) /\ Apart(b2[n], b2[e])
  <2>1. CASE e = d
    BY <1>1, <1>2, <2>1 DEF Apart
  <2>2. CASE e # d
    <3>1. Apart(b[e], b[d])
      BY <2>2 DEF GoodList
    <3> QED
      BY <1>1, <1>2, <2>2, <3>1 DEF Apart
  <2> QED
    BY <2>1, <2>2
<1>10. \A e, f \in T2 : e # f => (b2[e].next = b2[f].next => b2[e].next = NULL)
  <2>1. \A e, f \in T : e # f => (b[e].next = b[f].next => b[e].next = NULL)
    BY DEF GoodList
  <2> QED
    BY <1>1, <1>2, <2>1
<1> QED
  BY <1>3, <1>5, <1>6, <1>7, <1>8, <1>9, <1>10 DEF GoodList

(* The block behind p leaves the list. *)
LEMMA GoodSkip ==
  ASSUME NEW b, NEW b2, NEW T, NEW h, NEW r, NEW r2, GoodList(b, T, h, r), NULL \notin T,
         NEW p \in T, NEW d \in T, d # h, b[p].next = d,
         b2[p] = Block(b[p].base, b[p].size, b[d].next), \A e \in T \ {p} : b2[e] = b[e],
         r2.base = r.base, r2.size = r.size
  PROVE  /\ p # d /\ b[d].next # d /\ \A e \in T \ {p} : b[e].next # d
         /\ GoodList(b2, T \ {d}, h, r2)
<1> DEFINE T2 == T \ {d}
<1>1. b2[p].base = b[p].base /\ b2[p].size = b[p].size /\ b2[p].next = b[d].next
  BY DEF Block
<1>2. \A e \in T : /\ b[e].base \in Nat /\ b[e].size \in Nat \ {0} /\ Inside(b[e], r)
                   /\ b[e].next \in T \cup {NULL}
  BY DEF GoodList, ClosedIn
<1>3. \A e \in T : b[e].next # NULL =>
        b[e].next # e /\ b[e].base + b[e].size <= b[b[e].next].base
  BY <1>2 DEF GoodList
<1>4. p # d /\ b[d].next # d
  BY <1>3
<1>5. \A e \in T \ {p} : b[e].next # d
  BY DEF GoodList
<1>6. \A e \in T : b2[e].base = b[e].base /\ b2[e].size = b[e].size
  BY <1>1
<1>7. h \in T2 \cup {NULL} /\ ClosedIn(b2, T2)
  <2>1. h \in T2 \cup {NULL}
    BY DEF GoodList
  <2> QED
    BY <1>1, <1>2, <1>4, <1>5, <2>1 DEF ClosedIn
<1>8. ASSUME NEW e \in T2, b2[e].next # NULL
      PROVE  b2[e].next # h /\ b2[e].base + b2[e].size <= b2[b2[e].next].base
  <2>1. CASE e = p
    <3> DEFINE k == b[d].next
    <3>1. /\ k \in T /\ k # h /\ b[d].base + b[d].size <= b[k].base /\ b2[e].next = k
          /\ b[p].base + b[p].size <= b[d].base
      BY <1>1, <1>2, <1>8, <2>1 DEF GoodList
    <3> HIDE DEF k
    <3> QED
      BY <1>2, <1>6, <2>1, <3>1
  <2>2. CASE e # p
    <3> DEFINE k == b[e].next
    <3>1. k \in T /\ k # h /\ b[e].base + b[e].size <= b[k].base /\ b2[e].next = k
      BY <1>2, <1>8, <2>2 DEF GoodList
    <3> HIDE DEF k
    <3> QED
      BY <1>2, <1>6, <3>1
  <2> QED
    BY <2>1, <2>2
<1>9. \A e, f \in T2 : e # f => Apart(b2[e], b2[f])
  <2>1. \A e, f \in T : e # f => Apart(b[e], b[f])
    BY DEF GoodList
  <2> QED
    BY <1>6, <2>1 DEF Apart
<1>10. \A e, f \in T2 : e # f => (b2[e].next = b2[f].next => b2[e].next = NULL)
  <2>1. \A e, f \in T : e # f => (b[e].next = b[f].next => b[e].next = NULL)
    BY DEF GoodList
  <2> QED
    BY <1>1, <2>1
<1>11. \A e \in T2 : b2[e].base \in Nat /\ b2[e].size \in Nat \ {0} /\ Inside(b2[e], r2)
  BY <1>2, <1>6 DEF Inside
<1>12. GoodList(b2, T2, h, r2)
  BY <1>7, <1>8, <1>9, <1>10, <1>11 DEF GoodList
<1> QED
  BY <1>4, <1>5, <1>12

(* The head leaves the list. *)
LEMMA GoodTail ==
  ASSUME NEW b, NEW T, NEW h \in T, NEW r, NEW r2, GoodList(b, T, h, r), NULL \notin T,
         r2.base = r.base, r2.size = r.size
  PROVE  /\ \A e \in T : b[e].next # h
         /\ GoodList(b, T \ {h}, b[h].next, r2)
<1>1. \A e \in T : b[e].next # h
  BY DEF GoodList
<1>2. b[h].next \in (T \ {h}) \cup {NULL} /\ ClosedIn(b, T \ {h})
  BY <1>1 DEF GoodList, ClosedIn
<1>3. \A e \in T \ {h} : b[e].base \in Nat /\ b[e].size \in Nat \ {0} /\ Inside(b[e], r2)
  BY DEF GoodList, Inside
<1>4. \A e \in T \ {h} : b[e].next # NULL =>
        b[e].next # b[h].next /\ b[e].base + b[e].size <= b[b[e].next].base
  BY DEF GoodList
<1>5. \A e, f \in T \ {h} : e # f =>
        Apart(b[e], b[f]) /\ (b[e].next = b[f].next => b[e].next = NULL)
  BY DEF GoodList
<1> QED
  BY <1>1, <1>2, <1>3, <1>4, <1>5 DEF GoodList

(* What is left of d is one block. *)
LEMMA CarvedShrunk ==
  ASSUME NEW b, NEW b2, NEW T, NEW d \in T, NEW c,
         b[d].base \in Nat, b[d].size \in Nat, c.base \in Nat, c.size \in Nat,
         b2[d].base \in Nat, b2[d].size \in Nat,
         \/ /\ b2[d].base = b[d].base /\ b2[d].base + b2[d].size = c.base
            /\ c.base + c.size = b[d].base + b[d].size
         \/ /\ b[d].base = c.base /\ c.base + c.size = b2[d].base
            /\ b2[d].base + b2[d].size = b[d].base + b[d].size,
         \A e \in T \ {d} : b2[e] = b[e]
  PROVE  Carved(b, T, b2, T, d, c)
<1>1. \A v \in Bytes(b[d]) \ Bytes(c) : v \in Bytes(b2[d])
  BY DEF Bytes
<1>2. Inside(b2[d], b[d]) /\ Apart(b2[d], c)
  BY DEF Inside, Apart
<1> QED
  BY <1>1, <1>2 DEF Carved

(* What is left of d are two blocks. *)
LEMMA CarvedSplit ==
  ASSUME NEW b, NEW b2, NEW T, NEW d \in T, NEW c, NEW n, n \notin T,
         b[d].base \in Nat, b[d].size \in Nat, c.base \in Nat, c.size \in Nat,
         b2[d].base \in Nat, b2[d].size \in Nat, b2[n].base \in Nat, b2[n].size \in Nat,
         b2[d].base = b[d].base, b2[d].base + b2[d].size = c.base,
         c.base + c.size = b2[n].base, b2[n].base + b2[n].size = b[d].base + b[d].size,
         \A e \in T \ {d} : b2[e] = b[e]
  PROVE  Carved(b, T, b2, T \cup {n}, d, c)
<1>1. \A v \in Bytes(b[d]) \ Bytes(c) : v \in Bytes(b2[d]) \/ v \in Bytes(b2[n])
  BY DEF Bytes
<1>2. Inside(b2[d], b[d]) /\ Apart(b2[d], c) /\ Inside(b2[n], b[d]) /\ Apart(b2[n], c)
  BY DEF Inside, Apart
<1> QED
  BY <1>1, <1>2 DEF Carved

(* Nothing is left of d. *)
LEMMA CarvedWhole ==
  ASSUME NEW b, NEW b2, NEW T, NEW d \in T, NEW c, c.base = b[d].base, c.size = b[d].size,
         \A e \in T \ {d} : b2[e].base = b[e].base /\ b2[e].size = b[e].size
  PROVE  Carved(b, T, b2, T \ {d}, d, c)
BY DEF Carved, Bytes

(* The bytes of the blocks of a list. *)
ListBytes(b, T) == UNION {Bytes(b[d]) : d \in T}

(* The bytes of a good list lie in its region. *)
LEMMA ListBytesIn ==
  ASSUME NEW b, NEW T, NEW h, NEW r, GoodList(b, T, h, r), r.base \in Nat, r.size \in Nat
  PROVE  ListBytes(b, T) \subseteq Bytes(r)
<1>1. \A d \in T : b[d].base \in Nat /\ b[d].size \in Nat /\ Inside(b[d], r)
  BY DEF GoodList
<1>2. \A d \in T : Bytes(b[d]) \subseteq Bytes(r)
  BY <1>1 DEF Bytes, Inside
<1> QED
  BY <1>2 DEF ListBytes

(* Carving takes exactly the bytes of c out of the list. *)
LEMMA CarvedBytes ==
  ASSUME NEW b, NEW b2, NEW T, NEW T2, NEW h, NEW h2, NEW r, NEW r2, NEW d \in T, NEW c,
         GoodList(b, T, h, r), GoodList(b2, T2, h2, r2), c.base \in Nat, c.size \in Nat,
         Inside(c, b[d]), Carved(b, T, b2, T2, d, c)
  PROVE  /\ ListBytes(b2, T2) = ListBytes(b, T) \ Bytes(c)
         /\ Bytes(c) \subseteq ListBytes(b, T)
<1>1. /\ \A e \in T : b[e].base \in Nat /\ b[e].size \in Nat
      /\ \A e \in T2 : b2[e].base \in Nat /\ b2[e].size \in Nat
  BY DEF GoodList
<1>2. Bytes(c) \subseteq Bytes(b[d])
  BY <1>1 DEF Bytes, Inside
<1>3. ASSUME NEW v, NEW e \in T2, v \in Bytes(b2[e])
      PROVE  v \notin Bytes(c) /\ \E f \in T : v \in Bytes(b[f])
  <2>1. CASE e \in T \ {d}
    <3>1. Bytes(b2[e]) = Bytes(b[e])
      BY <2>1 DEF Carved, Bytes
    <3>2. Apart(b[e], b[d])
      BY <2>1 DEF GoodList
    <3>3. v \in Bytes(b[e]) /\ e \in T
      BY <1>3, <2>1, <3>1
    <3>4. v \notin Bytes(b[d])
      BY <1>1, <3>2, <3>3 DEF Apart, Bytes
    <3> QED
      BY <1>2, <3>3, <3>4
  <2>2. CASE Inside(b2[e], b[d]) /\ Apart(b2[e], c)
    <3>1. v \in Bytes(b[d]) /\ v \notin Bytes(c)
      BY <1>1, <1>3, <2>2 DEF Inside, Apart, Bytes
    <3> QED
      BY <3>1
  <2> QED
    BY <2>1, <2>2 DEF Carved
<1>4. ASSUME NEW v, NEW e \in T, v \in Bytes(b[e]), v \notin Bytes(c)
      PROVE  \E f \in T2 : v \in Bytes(b2[f])
  <2>1. CASE e = d
    BY <1>4, <2>1 DEF Carved
  <2>2. CASE e # d
    <3>1. e \in T2 /\ Bytes(b2[e]) = Bytes(b[e])
      BY <2>2 DEF Carved, Bytes
    <3> QED
      BY <1>4, <3>1
  <2> QED
    BY <2>1, <2>2
<1>5. ListBytes(b2, T2) = ListBytes(b, T) \ Bytes(c)
  BY <1>3, <1>4 DEF ListBytes
<1> QED
  BY <1>2, <1>5 DEF ListBytes

(* Taking an extent out of a finite set of bytes, and adding one. *)
LEMMA BytesTaken ==
  ASSUME NEW X, IsFiniteSet(X), NEW c, c.base \in Nat, c.size \in Nat, Bytes(c) \subseteq X
  PROVE  /\ Cardinality(X) \in Nat /\ c.size <= Cardinality(X)
         /\ Cardinality(X \ Bytes(c)) = Cardinality(X) - c.size
<1>1. IsFiniteSet(Bytes(c)) /\ Cardinality(Bytes(c)) = c.size
  <2> DEFINE z == c.base + c.size - 1
  <2>1. z \in Int /\ c.base \in Int
    OBVIOUS
  <2> HIDE DEF z
  <2>2. /\ IsFiniteSet(c.base .. z)
        /\ Cardinality(c.base .. z) = IF c.base > z THEN 0 ELSE z - c.base + 1
    BY <2>1, FS_Interval
  <2> QED
    BY <2>2 DEF Bytes, z
<1>2. Cardinality(X) \in Nat /\ Cardinality(Bytes(c)) <= Cardinality(X)
  BY <1>1, FS_CardinalityType, FS_Subset
<1>3. X \cap Bytes(c) = Bytes(c)
  OBVIOUS
<1>4. Cardinality(X \ Bytes(c)) = Cardinality(X) - Cardinality(X \cap Bytes(c))
  BY <1>1, FS_Difference
<1> QED
  BY <1>1, <1>2, <1>3, <1>4

(* Counting the bytes of an extent that is added. *)
LEMMA BytesAdded ==
  ASSUME NEW X, IsFiniteSet(X), NEW c, c.base \in Nat, c.size \in Nat, Bytes(c) \cap X = {}
  PROVE  /\ IsFiniteSet(X \cup Bytes(c)) /\ Cardinality(X) \in Nat
         /\ Cardinality(X \cup Bytes(c)) = Cardinality(X) + c.size
<1>1. IsFiniteSet(Bytes(c)) /\ Cardinality(Bytes(c)) = c.size
  <2> DEFINE z == c.base + c.size - 1
  <2>1. z \in Int /\ c.base \in Int
    OBVIOUS
  <2> HIDE DEF z
  <2>2. /\ IsFiniteSet(c.base .. z)
        /\ Cardinality(c.base .. z) = IF c.base > z THEN 0 ELSE z - c.base + 1
    BY <2>1, FS_Interval
  <2> QED
    BY <2>2 DEF Bytes, z
<1>2. Cardinality(X) \in Nat /\ X \cap Bytes(c) = {}
  BY FS_CardinalityType
<1>3. /\ IsFiniteSet(X \cup Bytes(c))
      /\ Cardinality(X \cup Bytes(c))
           = Cardinality(X) + Cardinality(Bytes(c)) - Cardinality(X \cap Bytes(c))
  BY <1>1, FS_Union
<1> QED
  BY <1>1, <1>2, <1>3, FS_EmptySet

-----------------------------------------------------------------------------
(* The steps that take memory out of a list.                               *)

List(i)  == Walk(blk, Used, regions[i].free_blocks)
ListP(i) == Walk(blk', Used', regions'[i].free_blocks)

(* The step takes the bytes of c out of block d of region i, charges them, *)
(* and leaves the other lists alone.                                       *)
TakenFrom(i, d, c) ==
  /\ Used \subseteq Used'
  /\ \A e \in Used \ List(i) : blk'[e] = blk[e]
  /\ GoodList(blk', ListP(i), regions'[i].free_blocks, regions[i])
  /\ Carved(blk, List(i), blk', ListP(i), d, c)
  /\ DOMAIN regions' = DOMAIN regions
  /\ \A j \in DOMAIN regions \ {i} : regions'[j] = regions[j]
  /\ regions'[i].base = regions[i].base /\ regions'[i].size = regions[i].size
  /\ regions'[i].free = Minus(regions[i].free, c.size)
  /\ free' = Minus(free, c.size)

(* What Charge does to each field. *)
LEMMA ChargeFields ==
  ASSUME TypeOK, NEW i \in DOMAIN regions, NEW n, NEW head, Charge(i, n, head)
  PROVE  /\ DOMAIN regions' = DOMAIN regions
         /\ \A j \in DOMAIN regions \ {i} : regions'[j] = regions[j]
         /\ regions'[i].base = regions[i].base /\ regions'[i].size = regions[i].size
         /\ regions'[i].free = Minus(regions[i].free, n) /\ regions'[i].free_blocks = head
         /\ free' = Minus(free, n)
BY DEF Charge, Region

(* The lists of the invariant. *)
LEMMA ListFacts ==
  ASSUME TypeOK, ListsGood, RegionsGood, NEW i \in DOMAIN regions
  PROVE  /\ FreeBlocks(i) = List(i) /\ List(i) \subseteq Used
         /\ NULL \notin Used /\ \A e \in Used : blk[e].next \in Used \cup {NULL}
         /\ regions[i].free_blocks \in Used \cup {NULL}
         /\ GoodList(blk, List(i), regions[i].free_blocks, regions[i])
         /\ \A d \in List(i) :
              /\ blk[d].base \in Nat /\ blk[d].size \in Nat \ {0}
              /\ Inside(blk[d], regions[i])
              /\ blk[d].base + blk[d].size <= HALF
              /\ End(blk[d]) = blk[d].base + blk[d].size
<1>1. FreeBlocks(i) = List(i)
  BY ReachIsWalk DEF List
<1>2. /\ NULL \notin Used /\ regions[i].free_blocks \in Used \cup {NULL}
      /\ \A e \in Used : blk[e].next \in Used \cup {NULL}
  BY TableOK
<1>3. List(i) \subseteq Used
  BY DEF List, Walk
<1>4. GoodList(blk, List(i), regions[i].free_blocks, regions[i])
  BY DEF ListsGood, List
<1>5. ASSUME NEW d \in List(i)
      PROVE  /\ blk[d].base \in Nat /\ blk[d].size \in Nat \ {0}
             /\ Inside(blk[d], regions[i])
             /\ blk[d].base + blk[d].size <= HALF
             /\ End(blk[d]) = blk[d].base + blk[d].size
  <2>1. blk[d].base \in Nat /\ blk[d].size \in Nat \ {0} /\ Inside(blk[d], regions[i])
    BY <1>4 DEF GoodList
  <2>2. /\ regions[i].base \in Nat /\ regions[i].size \in Nat
        /\ regions[i].base + regions[i].size <= HALF
    BY DEF RegionsGood
  <2>3. HALF \in Nat /\ HALF > 0
    BY SizeTAssumption
  <2>4. blk[d].base + blk[d].size <= HALF
    BY <2>1, <2>2, <2>3 DEF Inside
  <2> QED
    BY <2>1, <2>3, <2>4 DEF End, Plus, WORD
<1> QED
  BY <1>1, <1>2, <1>3, <1>4, <1>5

(* The four ways in which pmm_alloc_aligned takes n bytes at ab, which lie *)
(* in block d.                                                             *)
LEMMA TakeCarves ==
  ASSUME TypeOK, ListsGood, RegionsGood, NEW i \in DOMAIN regions, NEW d \in List(i),
         NEW ab \in Nat, NEW n \in Nat \ {0},
         blk[d].base <= ab, ab + n <= blk[d].base + blk[d].size,
         \/ TakeMiddle(i, d, ab, n) /\ slabFree > 0
         \/ TakeTail(i, d, ab, n)
         \/ TakeHead(i, d, ab, n) \/ TakeWholeBlock(i, d, ab, n)
  PROVE  TakenFrom(i, d, Extent(ab, n))
<1> DEFINE c == Extent(ab, n)
           h == regions[i].free_blocks
           T == List(i)
           b == blk[d]
           end == b.base + b.size
<1>1. /\ T \subseteq Used /\ T = Walk(blk, Used, h) /\ NULL \notin Used
      /\ h \in Used \cup {NULL} /\ GoodList(blk, T, h, regions[i])
      /\ \A e \in Used : blk[e].next \in Used \cup {NULL}
  BY ListFacts DEF List
<1>2. /\ b.base \in Nat /\ b.size \in Nat \ {0} /\ end <= HALF /\ end \in Nat /\ End(b) = end
      /\ regions[i].base \in Nat /\ regions[i].size \in Nat
  BY ListFacts DEF RegionsGood
<1>3. HALF \in Nat /\ HALF > 0
  BY SizeTAssumption
<1>4. Plus(ab, n) = ab + n /\ Minus(ab, b.base) = ab - b.base /\ Minus(end, ab + n) = end - (ab + n)
  BY <1>2, <1>3 DEF Plus, Minus, WORD
<1>5. c.base = ab /\ c.size = n
  BY DEF Extent
<1>6. h # NULL /\ h \in T
  BY <1>1 DEF Walk, GoodList
<1>7. Used \subseteq Desc /\ DOMAIN blk = Desc /\ (slabFree' = slabFree => Used' = Used)
  BY UsedDescriptors DEF TypeOK
<1> HIDE DEF c, h, T
<1>8. CASE TakeMiddle(i, d, ab, n) /\ slabFree > 0
  <2> DEFINE l == Extent(b.base, ab - b.base)
             r == Extent(ab + n, end - (ab + n))
             N == NextDesc
  <2>1. /\ b.base # ab /\ end > ab + n
        /\ slabFree' = slabFree - 1 /\ Charge(i, n, h) /\ blk' = Split(d, l, r)
    BY <1>2, <1>4, <1>8 DEF TakeMiddle, h
  <2>2. Used' = Used \cup {N} /\ N \notin Used /\ N # NULL
    BY <1>8, <2>1, NewDescriptor
  <2>3. d \in Used
    BY <1>1 DEF T
  <2> HIDE DEF l, r
  <2>4. /\ blk'[d] = Block(l.base, l.size, N) /\ blk'[N] = Block(r.base, r.size, b.next)
        /\ \A e \in Used \ {d} : blk'[e] = blk[e]
    BY <1>8, <2>1, <2>3, SplitAt
  <2>5. /\ l.base = b.base /\ l.size = ab - b.base
        /\ r.base = ab + n /\ r.size = end - (ab + n)
    BY DEF l, r, Extent
  <2>6. /\ ab - b.base \in Nat \ {0} /\ ab + n \in Nat /\ end - (ab + n) \in Nat \ {0}
        /\ b.base + (ab - b.base) <= ab + n /\ (ab + n) + (end - (ab + n)) = end
        /\ b.base + (ab - b.base) = ab
    BY <1>2, <2>1
  <2> DEFINE x == ab - b.base
             y == ab + n
             z == end - (ab + n)
  <2>7. /\ blk'[d] = Block(b.base, x, N) /\ blk'[N] = Block(y, z, b.next)
        /\ x \in Nat \ {0} /\ y \in Nat /\ z \in Nat \ {0} /\ b.base + x = ab
        /\ b.base + x <= y /\ y + z = b.base + b.size /\ y = ab + n
    BY <2>4, <2>5, <2>6
  <2> HIDE DEF x, y, z, N
  <2>8. d \in T /\ N \notin T /\ NULL \notin T /\ \A e \in T \ {d} : blk'[e] = blk[e]
    BY <1>1, <2>2, <2>4 DEF T
  <2>9. GoodList(blk', T \cup {N}, h, regions[i])
    BY <1>1, <1>2, <2>2, <2>7, <2>8, GoodSplit
  <2>10. /\ blk'[d].base = b.base /\ blk'[d].size = x /\ blk'[d].next = N
         /\ blk'[N].base = y /\ blk'[N].size = z /\ blk'[N].next = b.next
    BY <2>7 DEF Block
  <2>11. Carved(blk, T, blk', T \cup {N}, d, c)
    BY <1>2, <1>5, <2>7, <2>8, <2>10, CarvedSplit
  <2>12. /\ h \in Used /\ d \in Walk(blk, Used, h)
         /\ \A e \in Walk(blk, Used, h) \ {d} : blk'[e].next = blk[e].next
    BY <1>1, <1>6, <2>8
  <2>13. Walk(blk', Used', h) = T \cup {N}
    BY <1>1, <2>2, <2>10, <2>12, WalkSplit
  <2>14. regions'[i].free_blocks = h
    BY <2>1, ChargeFields
  <2>15. ListP(i) = T \cup {N}
    BY <2>13, <2>14 DEF ListP
  <2>16. Used \subseteq Used' /\ \A e \in Used \ T : blk'[e] = blk[e]
    BY <2>2, <2>4, <2>8
  <2> QED
    BY <1>5, <2>1, <2>9, <2>11, <2>14, <2>15, <2>16, ChargeFields DEF TakenFrom, T, c
<1>9. ASSUME NEW x \in Nat, NEW y \in Nat \ {0}, Charge(i, n, h), slabFree' = slabFree,
             blk' = [blk EXCEPT ![d] = Block(x, y, b.next)],
             \/ b.base = x /\ x + y = ab /\ ab + n = end
             \/ b.base = ab /\ ab + n = x /\ x + y = end
      PROVE  TakenFrom(i, d, c)
  <2>1. d \in T /\ d \in Used
    BY <1>1 DEF T
  <2>2. blk'[d] = Block(x, y, b.next) /\ \A e \in Used \ {d} : blk'[e] = blk[e]
    BY <1>7, <1>9, <2>1
  <2>3. blk'[d].base = x /\ blk'[d].size = y /\ blk'[d].next = b.next
    BY <2>2 DEF Block
  <2>4. \A e \in T \ {d} : blk'[e] = blk[e]
    BY <1>1, <2>2
  <2>5. b.base <= x /\ x + y <= b.base + b.size
    BY <1>2, <1>9
  <2>6. GoodList(blk', T, h, regions[i])
    BY <1>1, <1>2, <2>1, <2>2, <2>4, <2>5, GoodShrunk
  <2>7. Carved(blk, T, blk', T, d, c)
    BY <1>2, <1>5, <1>9, <2>1, <2>3, <2>4, CarvedShrunk
  <2>8. Used' = Used /\ Used \subseteq Used'
    BY <1>7, <1>9
  <2>9. \A e \in Walk(blk, Used, h) : blk'[e].next = blk[e].next
    BY <1>1, <2>3, <2>4
  <2>10. Walk(blk', Used', h) = T
    BY <1>1, <2>8, <2>9, WalkKept
  <2>11. regions'[i].free_blocks = h
    BY <1>9, ChargeFields
  <2>12. ListP(i) = T
    BY <2>10, <2>11 DEF ListP
  <2>13. \A e \in Used \ T : blk'[e] = blk[e]
    BY <2>1, <2>2
  <2> QED
    BY <1>5, <1>9, <2>6, <2>7, <2>8, <2>11, <2>12, <2>13, ChargeFields DEF TakenFrom, T
<1>10. CASE TakeTail(i, d, ab, n)
  <2>1. /\ b.base # ab /\ end <= ab + n /\ Charge(i, n, h) /\ slabFree' = slabFree
        /\ blk' = [blk EXCEPT ![d] = Block(b.base, ab - b.base, b.next)]
    BY <1>2, <1>4, <1>10 DEF TakeTail, h
  <2>2. ab - b.base \in Nat \ {0} /\ b.base + (ab - b.base) = ab /\ ab + n = end
    BY <1>2, <2>1
  <2> QED
    BY <1>2, <1>9, <2>1, <2>2 DEF c
<1>11. CASE TakeHead(i, d, ab, n)
  <2>1. /\ b.base = ab /\ end > ab + n /\ Charge(i, n, h) /\ slabFree' = slabFree
        /\ blk' = [blk EXCEPT ![d] = Block(ab + n, end - (ab + n), b.next)]
    BY <1>2, <1>4, <1>11 DEF TakeHead, h
  <2>2. ab + n \in Nat /\ end - (ab + n) \in Nat \ {0} /\ (ab + n) + (end - (ab + n)) = end
    BY <1>2, <2>1
  <2> QED
    BY <1>2, <1>9, <2>1, <2>2 DEF c
<1>12. CASE TakeWholeBlock(i, d, ab, n)
  <2>1. /\ b.base = ab /\ end <= ab + n /\ slabFree' = slabFree
        /\ Charge(i, n, HeadWithout(i, d)) /\ blk' = BlkWithout(i, d)
    BY <1>2, <1>4, <1>12 DEF TakeWholeBlock
  <2>2. n = b.size
    BY <1>2, <2>1
  <2>3. d \in T /\ d \in Used /\ Used' = Used /\ Used \subseteq Used' /\ NULL \notin T
    BY <1>1, <1>7, <2>1 DEF T
  <2>4. regions'[i].free_blocks = HeadWithout(i, d)
    BY <2>1, ChargeFields
  <2>7. /\ DOMAIN regions' = DOMAIN regions
        /\ \A j \in DOMAIN regions \ {i} : regions'[j] = regions[j]
        /\ regions'[i].base = regions[i].base /\ regions'[i].size = regions[i].size
        /\ regions'[i].free = Minus(regions[i].free, c.size)
        /\ free' = Minus(free, c.size)
    BY <1>5, <2>1, ChargeFields
  <2>5. CASE h = d
    <3>1. blk' = blk /\ HeadWithout(i, d) = b.next
      BY <2>1, <2>5 DEF BlkWithout, HeadWithout, h
    <3>2. (\A e \in T : blk[e].next # h) /\ GoodList(blk, T \ {h}, blk[h].next, regions[i])
      BY <1>1, <2>3, <2>5, GoodTail
    <3>3. Walk(blk, Used, blk[h].next) = T \ {h}
      BY <1>1, <2>3, <2>5, <3>2, WalkTail
    <3>4. ListP(i) = T \ {d}
      BY <2>3, <2>4, <2>5, <3>1, <3>3 DEF ListP
    <3>5. Carved(blk, T, blk', T \ {d}, d, c)
      BY <1>5, <2>1, <2>2, <2>3, <3>1, CarvedWhole
    <3>6. GoodList(blk', T \ {d}, regions'[i].free_blocks, regions[i])
      BY <2>4, <2>5, <3>1, <3>2
    <3> QED
      BY <2>3, <2>7, <3>1, <3>4, <3>5, <3>6 DEF TakenFrom, T, c
  <2>6. CASE h # d
    <3>1. PICK p \in T : /\ blk[p].next = d
                         /\ blk' = [blk EXCEPT ![p] = Block(@.base, @.size, b.next)]
      <4>1. Prev(i, d) \in T /\ blk[Prev(i, d)].next = d
        BY <2>3, <2>6, ListFacts, PrevExists DEF T, h
      <4>2. blk' = [blk EXCEPT ![Prev(i, d)] = Block(@.base, @.size, b.next)]
        BY <2>1, <2>6 DEF BlkWithout, h
      <4> QED
        BY <4>1, <4>2
    <3>2. HeadWithout(i, d) = h
      BY <2>6 DEF HeadWithout, h
    <3>3. /\ p \in Used /\ blk'[p] = Block(blk[p].base, blk[p].size, b.next)
          /\ \A e \in Used \ {p} : blk'[e] = blk[e]
      BY <1>1, <1>7, <3>1
    <3>4. \A e \in T \ {p} : blk'[e] = blk[e]
      BY <1>1, <3>3
    <3>5. /\ p # d /\ b.next # d /\ \A e \in T \ {p} : blk[e].next # d
          /\ GoodList(blk', T \ {d}, h, regions[i])
      <4>1. /\ GoodList(blk, T, h, regions[i]) /\ NULL \notin T /\ d # h
            /\ d \in T /\ p \in T /\ blk[p].next = d
        BY <1>1, <2>3, <2>6, <3>1
      <4>2. blk'[p] = Block(blk[p].base, blk[p].size, blk[d].next)
        BY <3>3
      <4> HIDE DEF b
      <4>3. GoodList(blk', T \ {d}, h, regions[i])
        BY <3>4, <4>1, <4>2, GoodSkip
      <4>4. p # d /\ blk[d].next # d
        <5>1. \A e \in T : blk[e].base \in Nat /\ blk[e].size \in Nat \ {0}
          BY <4>1 DEF GoodList
        <5>2. \A e \in T : blk[e].next # NULL =>
                blk[e].base + blk[e].size <= blk[blk[e].next].base
          BY <4>1 DEF GoodList
        <5> QED
          BY <4>1, <5>1, <5>2
      <4>5. \A e \in T \ {p} : blk[e].next # d
        BY <4>1 DEF GoodList
      <4> QED
        BY <4>3, <4>4, <4>5 DEF b
    <3>6. blk'[p].next = b.next /\ \A e \in T \ {p} : blk[e].next # d /\ blk'[e].next = blk[e].next
      BY <3>3, <3>4, <3>5 DEF Block
    <3>7. h \in Used
      BY <1>1, <1>6
    <3>8. Walk(blk', Used, h) = T \ {d}
      <4>1. /\ NULL \notin Used /\ T = Walk(blk, Used, h) /\ d # h
            /\ \A e \in Used : blk[e].next \in Used \cup {NULL}
            /\ d \in T /\ p \in T
        BY <1>1, <2>3, <2>6, <3>1
      <4>2. blk[d].next # d /\ blk'[p].next = blk[d].next
        BY <3>5, <3>6
      <4>3. p # d /\ Precedes(blk, T, p, d)
        BY <3>1, <3>5 DEF Precedes
      <4>4. \A e \in T \ {p} : blk'[e].next = blk[e].next
        BY <3>6
      <4> HIDE DEF b
      <4> QED
        BY <3>7, <4>1, <4>2, <4>3, <4>4, WalkSkip
    <3>9. ListP(i) = T \ {d}
      BY <2>3, <2>4, <3>2, <3>8 DEF ListP
    <3>10. \A e \in T \ {d} : blk'[e].base = blk[e].base /\ blk'[e].size = blk[e].size
      BY <3>3, <3>4 DEF Block
    <3>11. Carved(blk, T, blk', T \ {d}, d, c)
      BY <1>5, <2>1, <2>2, <2>3, <3>10, CarvedWhole
    <3>12. \A e \in Used \ T : blk'[e] = blk[e]
      BY <3>1, <3>3
    <3> QED
      BY <2>3, <2>4, <2>7, <3>2, <3>5, <3>9, <3>11, <3>12 DEF TakenFrom, T, c
  <2> QED
    BY <2>5, <2>6
<1> QED
  BY <1>8, <1>10, <1>11, <1>12 DEF c

-----------------------------------------------------------------------------
(* What such a step does to the invariant.                                 *)

(* The lists of the other regions are what they were. *)
LEMMA OtherLists ==
  ASSUME TypeOK, ListsGood, RegionsGood, NEW i \in DOMAIN regions, NEW d, NEW c,
         TakenFrom(i, d, c), NEW j \in DOMAIN regions \ {i}
  PROVE  /\ ListP(j) = List(j)
         /\ \A e \in List(j) : e \notin List(i) /\ blk'[e] = blk[e]
<1>1. Apart(regions[i], regions[j])
  BY DEF RegionsGood
<1>2. /\ regions[i].base \in Nat /\ regions[i].size \in Nat
      /\ regions[j].base \in Nat /\ regions[j].size \in Nat
  BY DEF RegionsGood
<1>3. ASSUME NEW e \in List(j) PROVE e \notin List(i) /\ blk'[e] = blk[e]
  <2>1. e \in Used /\ blk[e].base \in Nat /\ blk[e].size \in Nat \ {0} /\ Inside(blk[e], regions[j])
    BY ListFacts
  <2>2. ~Inside(blk[e], regions[i])
    BY <1>1, <1>2, <2>1 DEF Apart, Inside
  <2>3. e \notin List(i)
    BY <2>2, ListFacts
  <2> QED
    BY <2>1, <2>3 DEF TakenFrom
<1>4. regions'[j].free_blocks = regions[j].free_blocks /\ Used \subseteq Used'
  BY DEF TakenFrom
<1>5. /\ NULL \notin Used /\ regions[j].free_blocks \in Used \cup {NULL}
      /\ \A e \in Used : blk[e].next \in Used \cup {NULL}
  BY ListFacts
<1> DEFINE h == regions[j].free_blocks
<1>6. \A e \in Walk(blk, Used, h) : blk'[e].next = blk[e].next
  BY <1>3 DEF List
<1> HIDE DEF h
<1>7. Walk(blk', Used', h) = Walk(blk, Used, h)
  BY <1>4, <1>5, <1>6, WalkKept DEF h
<1> QED
  BY <1>3, <1>4, <1>7 DEF List, ListP, h

(* All lists stay good and no region moves. *)
LEMMA CarveLists ==
  ASSUME TypeOK, ListsGood, RegionsGood, NEW i \in DOMAIN regions, NEW d, NEW c,
         TakenFrom(i, d, c)
  PROVE  ListsGood' /\ RegionsGood'
<1>1. DOMAIN regions' = DOMAIN regions
  BY DEF TakenFrom
<1>2. \A j \in DOMAIN regions :
        regions'[j].base = regions[j].base /\ regions'[j].size = regions[j].size
  BY DEF TakenFrom
<1>3. RegionsGood'
  BY <1>1, <1>2 DEF RegionsGood, Apart
<1>4. ASSUME NEW j \in DOMAIN regions
      PROVE  GoodList(blk', ListP(j), regions'[j].free_blocks, regions'[j])
  <2>1. CASE j = i
    <3> DEFINE T == ListP(i)
    <3>1. GoodList(blk', T, regions'[i].free_blocks, regions[i])
      BY DEF TakenFrom
    <3>2. \A e \in T : blk'[e] = blk'[e]
      OBVIOUS
    <3> HIDE DEF T
    <3>3. GoodList(blk', T, regions'[i].free_blocks, regions'[i])
      BY <1>2, <3>1, <3>2, GoodKept
    <3> QED
      BY <2>1, <3>3 DEF T
  <2>2. CASE j # i
    <3>1. /\ GoodList(blk, List(j), regions[j].free_blocks, regions[j])
          /\ ListP(j) = List(j) /\ \A e \in List(j) : blk'[e] = blk[e]
      BY <2>2, ListFacts, OtherLists
    <3>2. regions'[j] = regions[j]
      BY <2>2 DEF TakenFrom
    <3>3. GoodList(blk', List(j), regions[j].free_blocks, regions[j])
      BY <3>1, GoodKept
    <3> QED
      BY <3>1, <3>2, <3>3
  <2> QED
    BY <2>1, <2>2
<1> QED
  BY <1>1, <1>3, <1>4 DEF ListsGood, ListP

(* What lies inside an extent is apart from all the extent is apart from. *)
LEMMA ApartInside ==
  ASSUME NEW x, NEW y, NEW z, x.base \in Nat, x.size \in Nat, y.base \in Nat, y.size \in Nat,
         z.base \in Nat, z.size \in Nat, Inside(x, y), Apart(y, z)
  PROVE  Apart(x, z) /\ Apart(z, x)
BY DEF Apart, Inside

(* Neither of two extents comes first. *)
LEMMA ApartSymmetric ==
  ASSUME NEW x, NEW y, Apart(x, y)
  PROVE  Apart(y, x)
BY DEF Apart

(* The grants, when c is not or when it is what is handed out. *)
LEMMA CarveGrants ==
  ASSUME TypeOK, ListsGood, RegionsGood, GrantsGood,
         NEW i \in DOMAIN regions, NEW d \in List(i), NEW c,
         c.base \in Nat, c.size \in Nat, Inside(c, blk[d]), TakenFrom(i, d, c),
         NEW g, g.base = c.base, g.size = c.size,
         grants' = grants \/ grants' = Append(grants, g)
  PROVE  GrantsGood'
<1>1. /\ \A j \in DOMAIN regions : \A e \in List(j) :
           blk[e].base \in Nat /\ blk[e].size \in Nat \ {0} /\ Inside(blk[e], regions[j])
      /\ \A k \in DOMAIN grants :
           /\ grants[k].base \in Nat /\ grants[k].size \in Nat
           /\ \E j \in DOMAIN regions : Inside(grants[k], regions[j])
           /\ \A j \in DOMAIN regions : \A e \in List(j) : Apart(blk[e], grants[k])
  BY ListFacts DEF GrantsGood, List
<1>2. /\ DOMAIN regions' = DOMAIN regions
      /\ \A j \in DOMAIN regions :
           /\ regions[j].base \in Nat /\ regions[j].size \in Nat
           /\ regions'[j].base = regions[j].base /\ regions'[j].size = regions[j].size
  BY DEF TakenFrom, RegionsGood
<1>3. \A e \in ListP(i) : blk'[e].base \in Nat /\ blk'[e].size \in Nat
  BY DEF TakenFrom, GoodList
(* New blocks are apart from what old ones are apart from, and from c. *)
<1>4. ASSUME NEW j \in DOMAIN regions, NEW e \in ListP(j), NEW x, x.base \in Nat, x.size \in Nat,
             \A f \in List(j) : Apart(blk[f], x)
      PROVE  Apart(blk'[e], x)
  <2>1. CASE j # i
    <3>1. e \in List(j) /\ blk'[e] = blk[e]
      BY <2>1, <1>4, OtherLists
    <3> QED
      BY <1>4, <3>1
  <2>2. CASE j = i /\ e \in List(i) \ {d}
    <3>1. blk'[e].base = blk[e].base /\ blk'[e].size = blk[e].size /\ Apart(blk[e], x)
      BY <1>4, <2>2 DEF TakenFrom, Carved
    <3> QED
      BY <3>1 DEF Apart
  <2>3. CASE j = i /\ Inside(blk'[e], blk[d])
    <3>1. Apart(blk[d], x) /\ blk[d].base \in Nat /\ blk[d].size \in Nat
      BY <1>1, <1>4, <2>3
    <3>2. blk'[e].base \in Nat /\ blk'[e].size \in Nat
      BY <1>3, <2>3
    <3> QED
      BY <1>4, <2>3, <3>1, <3>2, ApartInside
  <2> QED
    BY <2>1, <2>2, <2>3 DEF TakenFrom, Carved
<1>5. ASSUME NEW j \in DOMAIN regions, NEW e \in ListP(j)
      PROVE  Apart(blk'[e], c)
  <2>0. blk[d].base \in Nat /\ blk[d].size \in Nat /\ Inside(blk[d], regions[i])
    BY <1>1
  <2>1. CASE j # i
    <3>1. e \in List(j) /\ blk'[e] = blk[e]
      BY <1>5, <2>1, OtherLists
    <3>2. blk[e].base \in Nat /\ blk[e].size \in Nat /\ Inside(blk[e], regions[j])
      BY <1>1, <3>1
    <3>3. Apart(regions[i], regions[j])
      BY <2>1 DEF RegionsGood
    <3>4. Inside(c, regions[i])
      BY <1>2, <2>0 DEF Inside
    <3>5. Apart(c, regions[j])
      BY <1>2, <3>3, <3>4, ApartInside
    <3>6. Apart(regions[j], c)
      BY <3>5, ApartSymmetric
    <3>7. Apart(blk[e], c)
      BY <1>2, <3>2, <3>6, ApartInside
    <3> QED
      BY <3>1, <3>7
  <2>2. CASE j = i /\ e \in List(i) \ {d}
    <3>1. blk'[e].base = blk[e].base /\ blk'[e].size = blk[e].size
      BY <2>2 DEF TakenFrom, Carved
    <3>2. Apart(blk[e], blk[d]) /\ blk[e].base \in Nat /\ blk[e].size \in Nat
      BY <1>1, <2>2, ListFacts DEF GoodList
    <3>3. Apart(blk[d], blk[e])
      BY <3>2, ApartSymmetric
    <3>4. Apart(blk[e], c)
      BY <2>0, <3>2, <3>3, ApartInside
    <3> QED
      BY <3>1, <3>4 DEF Apart
  <2>3. CASE j = i /\ Apart(blk'[e], c)
    BY <2>3
  <2> QED
    BY <2>1, <2>2, <2>3 DEF TakenFrom, Carved
<1>6. /\ \E j \in DOMAIN regions : Inside(c, regions[j])
      /\ \A k \in DOMAIN grants : Apart(grants[k], c) /\ Apart(c, grants[k])
  <2>1. blk[d].base \in Nat /\ blk[d].size \in Nat /\ Inside(blk[d], regions[i])
    BY <1>1
  <2>2. Inside(c, regions[i])
    BY <1>2, <2>1 DEF Inside
  <2>3. ASSUME NEW k \in DOMAIN grants PROVE Apart(grants[k], c) /\ Apart(c, grants[k])
    <3>1. Apart(blk[d], grants[k]) /\ grants[k].base \in Nat /\ grants[k].size \in Nat
      BY <1>1
    <3> QED
      BY <2>1, <3>1, ApartInside
  <2> QED
    BY <2>2, <2>3
<1>7. \A k \in DOMAIN grants' :
        \/ k \in DOMAIN grants /\ grants'[k] = grants[k]
        \/ k \notin DOMAIN grants /\ grants'[k] = g
  <2>1. grants \in Seq(GrantT)
    BY DEF TypeOK, GrantT
  <2>2. Len(grants) \in Nat /\ DOMAIN grants = 1 .. Len(grants)
    BY <2>1
  <2>3. CASE grants' = grants
    BY <2>3
  <2>4. CASE grants' = Append(grants, g)
    <3>1. /\ DOMAIN grants' = 1 .. Len(grants) + 1
          /\ \A k \in 1 .. Len(grants) : grants'[k] = grants[k]
          /\ grants'[Len(grants) + 1] = g
      BY <2>1, <2>2, <2>4
    <3> QED
      BY <2>2, <3>1
  <2> QED
    BY <2>3, <2>4
<1>8. \A k, l \in DOMAIN grants' :
        k \notin DOMAIN grants /\ l \notin DOMAIN grants => k = l
  <2>1. grants \in Seq(GrantT)
    BY DEF TypeOK, GrantT
  <2>2. Len(grants) \in Nat /\ DOMAIN grants = 1 .. Len(grants)
    BY <2>1
  <2>3. CASE grants' = grants
    BY <2>3
  <2>4. CASE grants' = Append(grants, g)
    <3>1. DOMAIN grants' = 1 .. Len(grants) + 1
      BY <2>1, <2>2, <2>4
    <3> QED
      BY <2>2, <3>1
  <2> QED
    BY <2>3, <2>4
<1>9. ASSUME NEW k \in DOMAIN grants'
      PROVE  /\ grants'[k].base \in Nat /\ grants'[k].size \in Nat
             /\ \E j \in DOMAIN regions' : Inside(grants'[k], regions'[j])
             /\ \A j \in DOMAIN regions' : \A e \in ListP(j) : Apart(blk'[e], grants'[k])
  <2>1. CASE k \in DOMAIN grants /\ grants'[k] = grants[k]
    <3> DEFINE x == grants[k]
    <3>1. /\ x.base \in Nat /\ x.size \in Nat /\ grants'[k] = x
          /\ \E j \in DOMAIN regions : Inside(x, regions[j])
          /\ \A j \in DOMAIN regions : \A e \in List(j) : Apart(blk[e], x)
      BY <1>1, <2>1
    <3> HIDE DEF x
    <3>2. \E j \in DOMAIN regions' : Inside(x, regions'[j])
      BY <1>2, <3>1 DEF Inside
    <3> QED
      BY <1>2, <1>4, <3>1, <3>2
  <2>2. CASE k \notin DOMAIN grants /\ grants'[k] = g
    <3>1. \E j \in DOMAIN regions' : Inside(g, regions'[j])
      BY <1>2, <1>6 DEF Inside
    <3>2. \A j \in DOMAIN regions' : \A e \in ListP(j) : Apart(blk'[e], g)
      BY <1>2, <1>5 DEF Apart
    <3> QED
      BY <2>2, <3>1, <3>2
  <2> QED
    BY <1>7, <2>1, <2>2
<1>10. ASSUME NEW k \in DOMAIN grants', NEW l \in DOMAIN grants', k # l
       PROVE  Apart(grants'[k], grants'[l])
  <2>1. \A x, y \in DOMAIN grants : x # y => Apart(grants[x], grants[y])
    BY DEF GrantsGood
  <2>2. \A x \in DOMAIN grants : Apart(grants[x], g) /\ Apart(g, grants[x])
    BY <1>6 DEF Apart
  <2> QED
    BY <1>7, <1>8, <1>10, <2>1, <2>2
<1> QED
  BY <1>9, <1>10 DEF GrantsGood, ListP

-----------------------------------------------------------------------------
(* The counters.                                                           *)

(* The free bytes of a region are those of its list, lie in the region and *)
(* are finitely many.                                                      *)
LEMMA FreeBytesFacts ==
  ASSUME TypeOK, ListsGood, RegionsGood
  PROVE  /\ \A j \in DOMAIN regions :
              /\ FreeBytes(j) = ListBytes(blk, List(j))
              /\ FreeBytes(j) \subseteq Bytes(regions[j])
              /\ IsFiniteSet(FreeBytes(j))
         /\ AllFreeBytes \subseteq 0 .. HALF
         /\ IsFiniteSet(AllFreeBytes)
<1>1. ASSUME NEW j \in DOMAIN regions
      PROVE  /\ FreeBytes(j) = ListBytes(blk, List(j))
             /\ FreeBytes(j) \subseteq Bytes(regions[j])
             /\ IsFiniteSet(FreeBytes(j))
             /\ Bytes(regions[j]) \subseteq 0 .. HALF
  <2>1. FreeBlocks(j) = List(j) /\ GoodList(blk, List(j), regions[j].free_blocks, regions[j])
    BY ListFacts
  <2>2. FreeBytes(j) = ListBytes(blk, List(j))
    BY <2>1 DEF FreeBytes, ListBytes
  <2>3. regions[j].base \in Nat /\ regions[j].size \in Nat /\ regions[j].base + regions[j].size <= HALF
    BY DEF RegionsGood
  <2>4. FreeBytes(j) \subseteq Bytes(regions[j])
    BY <2>1, <2>2, <2>3, ListBytesIn
  <2>5. HALF \in Nat
    BY SizeTAssumption
  <2>6. Bytes(regions[j]) \subseteq 0 .. HALF
    BY <2>3, <2>5 DEF Bytes
  <2>7. IsFiniteSet(0 .. HALF)
    BY <2>5, FS_Interval
  <2> QED
    BY <2>2, <2>4, <2>6, <2>7, FS_Subset
<1>2. AllFreeBytes \subseteq 0 .. HALF
  BY <1>1 DEF AllFreeBytes
<1>3. IsFiniteSet(0 .. HALF)
  BY SizeTAssumption, FS_Interval
<1> QED
  BY <1>1, <1>2, <1>3, FS_Subset

(* What the step takes leaves the free bytes of its region, and only       *)
(* those.                                                                  *)
LEMMA CarveBytes ==
  ASSUME TypeOK, ListsGood, RegionsGood,
         NEW i \in DOMAIN regions, NEW d \in List(i), NEW c,
         c.base \in Nat, c.size \in Nat, Inside(c, blk[d]), TakenFrom(i, d, c)
  PROVE  /\ FreeBytes(i)' = FreeBytes(i) \ Bytes(c) /\ Bytes(c) \subseteq FreeBytes(i)
         /\ \A j \in DOMAIN regions \ {i} : FreeBytes(j)' = FreeBytes(j)
         /\ AllFreeBytes' = AllFreeBytes \ Bytes(c) /\ Bytes(c) \subseteq AllFreeBytes
<1>1. DOMAIN regions' = DOMAIN regions
  BY DEF TakenFrom
<1>2. \A j \in DOMAIN regions : FreeBytes(j)' = ListBytes(blk', ListP(j))
  <2>1. \A j : FreeBlocks(j)' = ListP(j)
    BY DEF FreeBlocks, Reach, Closed, ListP, Walk, ClosedIn
  <2> QED
    BY <2>1 DEF FreeBytes, ListBytes
<1>3. \A j \in DOMAIN regions : FreeBytes(j) = ListBytes(blk, List(j))
  BY FreeBytesFacts
<1>4. FreeBytes(i)' = FreeBytes(i) \ Bytes(c) /\ Bytes(c) \subseteq FreeBytes(i)
  <2>1. /\ GoodList(blk, List(i), regions[i].free_blocks, regions[i])
        /\ GoodList(blk', ListP(i), regions'[i].free_blocks, regions[i])
        /\ Carved(blk, List(i), blk', ListP(i), d, c)
    BY ListFacts DEF TakenFrom
  <2>2. /\ ListBytes(blk', ListP(i)) = ListBytes(blk, List(i)) \ Bytes(c)
        /\ Bytes(c) \subseteq ListBytes(blk, List(i))
    BY <2>1, CarvedBytes
  <2> QED
    BY <1>2, <1>3, <2>2
<1>5. \A j \in DOMAIN regions \ {i} : FreeBytes(j)' = FreeBytes(j)
  <2>1. ASSUME NEW j \in DOMAIN regions \ {i} PROVE ListBytes(blk', ListP(j)) = ListBytes(blk, List(j))
    BY OtherLists DEF ListBytes
  <2> QED
    BY <1>2, <1>3, <2>1
<1>6. \A j \in DOMAIN regions \ {i} : FreeBytes(j) \cap Bytes(c) = {}
  <2>1. ASSUME NEW j \in DOMAIN regions \ {i} PROVE Bytes(regions[j]) \cap Bytes(regions[i]) = {}
    BY DEF RegionsGood, Apart, Bytes
  <2> QED
    BY <1>4, <2>1, FreeBytesFacts
<1>7. AllFreeBytes' = AllFreeBytes \ Bytes(c) /\ Bytes(c) \subseteq AllFreeBytes
  <2>1. AllFreeBytes' = UNION {FreeBytes(j)' : j \in DOMAIN regions}
    BY <1>1 DEF AllFreeBytes
  <2> QED
    BY <1>4, <1>5, <1>6, <2>1 DEF AllFreeBytes
<1> QED
  BY <1>4, <1>5, <1>7

(* So both counters stay exact and neither wraps around. *)
LEMMA CarveCounters ==
  ASSUME TypeOK, ListsGood, RegionsGood, CountersExact,
         NEW i \in DOMAIN regions, NEW d \in List(i), NEW c,
         c.base \in Nat, c.size \in Nat, Inside(c, blk[d]), TakenFrom(i, d, c)
  PROVE  CountersExact'
<1>1. DOMAIN regions' = DOMAIN regions
  BY DEF TakenFrom
<1>2. FreeBytes(i)' = FreeBytes(i) \ Bytes(c) /\ Bytes(c) \subseteq FreeBytes(i)
  BY CarveBytes
<1>3. \A j \in DOMAIN regions \ {i} : FreeBytes(j)' = FreeBytes(j)
  BY CarveBytes
<1>4. AllFreeBytes' = AllFreeBytes \ Bytes(c) /\ Bytes(c) \subseteq AllFreeBytes
  BY CarveBytes
<1>5. /\ Cardinality(FreeBytes(i)) \in Nat /\ c.size <= Cardinality(FreeBytes(i))
      /\ Cardinality(FreeBytes(i)') = Cardinality(FreeBytes(i)) - c.size
  BY <1>2, FreeBytesFacts, BytesTaken
<1>6. /\ Cardinality(AllFreeBytes) \in Nat /\ c.size <= Cardinality(AllFreeBytes)
      /\ Cardinality(AllFreeBytes') = Cardinality(AllFreeBytes) - c.size
  BY <1>4, FreeBytesFacts, BytesTaken
<1>7. regions'[i].free = Cardinality(FreeBytes(i)')
  <2>1. regions[i].free = Cardinality(FreeBytes(i)) /\ regions'[i].free = Minus(regions[i].free, c.size)
    BY DEF CountersExact, TakenFrom
  <2> QED
    BY <1>5, <2>1 DEF Minus
<1>8. free' = Cardinality(AllFreeBytes')
  <2>1. free = Cardinality(AllFreeBytes) /\ free' = Minus(free, c.size)
    BY DEF CountersExact, TakenFrom
  <2> QED
    BY <1>6, <2>1 DEF Minus
<1>9. \A j \in DOMAIN regions \ {i} : regions'[j].free = Cardinality(FreeBytes(j)')
  BY <1>3 DEF CountersExact, TakenFrom
<1> QED
  BY <1>1, <1>7, <1>8, <1>9 DEF CountersExact

-----------------------------------------------------------------------------
(* pmm_add_region in its contract.                                         *)

(* The pages the area holds lie in it, and there is at least one. *)
LEMMA AddArithmetic ==
  ASSUME NEW base \in SizeT, NEW size \in SizeT, base + size <= HALF,
         AddBase(base) + BASE_PAGE_SIZE <= base + size
  PROVE  /\ AddBase(base) \in Nat /\ AddSize(base, size) \in Nat /\ AddSize(base, size) > 0
         /\ base <= AddBase(base) /\ AddBase(base) < base + BASE_PAGE_SIZE
         /\ AddBase(base) + AddSize(base, size) <= base + size
         /\ base + size < AddBase(base) + AddSize(base, size) + BASE_PAGE_SIZE
<1> DEFINE p == BASE_PAGE_SIZE
           ab == AddBase(base)
           s == size - (ab - base)
<1>0. base \in Nat /\ size \in Nat /\ HALF \in Nat /\ WORD = 2 * HALF /\ p \in Nat /\ p > 0 /\ p <= HALF
  BY SizeTAssumption, PageArithmetic DEF SizeT, WORD
<1>1. base + (p - 1) \in Nat /\ Plus(base, p - 1) = base + (p - 1)
  BY <1>0 DEF Plus
<1>2. ab = AlignDown(base + (p - 1), p)
  BY <1>1 DEF AddBase, AlignUp
<1>3. ab \in Nat /\ base + (p - 1) < ab + p /\ ab <= base + (p - 1)
  <2> DEFINE y == base + (p - 1)
  <2>1. y \in Nat /\ p \in Nat \ {0}
    BY <1>0, <1>1
  <2> HIDE DEF y, p
  <2>2. AlignDown(y, p) \in Nat /\ y < AlignDown(y, p) + p /\ AlignDown(y, p) <= y
    BY <2>1, AlignDownBounds
  <2> QED
    BY <1>2, <2>2 DEF y
<1>4. base <= ab /\ ab < base + p
  BY <1>0, <1>3
<1>5. ab + p <= base + size
  OBVIOUS
<1> HIDE DEF p, ab
<1>6. Minus(size, Minus(ab, base)) = s /\ s \in Nat /\ p <= s
  BY <1>0, <1>3, <1>4, <1>5 DEF Minus
<1> HIDE DEF s
<1>7. AlignDown(s, p) \in Nat /\ AlignDown(s, p) <= s /\ s < AlignDown(s, p) + p
  BY <1>0, <1>6, AlignDownBounds
<1>8. AddSize(base, size) = AlignDown(s, p)
  BY <1>6 DEF AddSize, ab, p
<1>9. AlignDown(s, p) \in Nat /\ AlignDown(s, p) > 0 /\ ab + AlignDown(s, p) <= base + size
      /\ base + size < ab + AlignDown(s, p) + p
  <2> DEFINE t == AlignDown(s, p)
  <2>1. t \in Nat /\ t <= s /\ s < t + p
    BY <1>7
  <2> HIDE DEF t
  <2>2. t \in Nat /\ t > 0 /\ ab + t <= base + size /\ base + size < ab + t + p
    BY <1>0, <1>3, <1>4, <1>6, <2>1 DEF s
  <2> QED
    BY <2>2 DEF t
<1> QED
  BY <1>3, <1>4, <1>8, <1>9 DEF ab, p

(* A new region k gets one block n; everything else is as before. *)
Added(k, n, ab, sz) ==
  /\ k \notin DOMAIN regions /\ DOMAIN regions' = DOMAIN regions \cup {k}
  /\ \A j \in DOMAIN regions : regions'[j] = regions[j]
  /\ regions'[k] = Region(ab, sz, sz, n)
  /\ Used' = Used \cup {n} /\ n \notin Used /\ n # NULL
  /\ \A e \in Used : blk'[e] = blk[e]
  /\ blk'[n] = Block(ab, sz, NULL)
  /\ free' = Plus(free, sz)
  /\ grants' = grants

(* Append, element by element. *)
LEMMA AppendFacts ==
  ASSUME NEW S, NEW q \in Seq(S), NEW x
  PROVE  /\ Len(q) \in Nat /\ DOMAIN q = 1 .. Len(q)
         /\ DOMAIN Append(q, x) = 1 .. Len(q) + 1 /\ Len(Append(q, x)) = Len(q) + 1
         /\ \A j \in DOMAIN q : Append(q, x)[j] = q[j]
         /\ Append(q, x)[Len(q) + 1] = x
OBVIOUS

(* A list of one block that fills its region is good. *)
LEMMA GoodAlone ==
  ASSUME NEW b, NEW n, NEW r, b[n].base \in Nat, b[n].size \in Nat \ {0}, b[n].next = NULL,
         r.base = b[n].base, r.size = b[n].size
  PROVE  GoodList(b, {n}, n, r)
<1>1. Inside(b[n], r)
  BY DEF Inside
<1> QED
  BY <1>1 DEF GoodList, ClosedIn

(* pmm_add_region adds a region with one block. *)
LEMMA AddFacts ==
  ASSUME TypeOK, NEW base \in SizeT, NEW size \in SizeT, AddAccepted(base, size)
  PROVE  /\ Added(Len(regions) + 1, NextDesc, AddBase(base), AddSize(base, size))
         /\ slabFree' = slabFree - 1 /\ Len(regions') = Len(regions) + 1
<1> DEFINE ab == AddBase(base)
           sz == AddSize(base, size)
<1>0. regions \in Seq(RegionT(Used))
  BY DEF TypeOK, RegionT
<1>1. slabFree > 0 /\ slabFree' = slabFree - 1
  BY DEF AddAccepted, AddError, TypeOK
<1>2. regions' = Append(regions, Region(ab, sz, sz, NextDesc))
  BY DEF AddAccepted
<1>3. blk' = [blk EXCEPT ![NextDesc] = Block(ab, sz, NULL)] /\ DOMAIN blk = Desc
  BY DEF AddAccepted, TypeOK
<1>4. /\ Used' = Used \cup {NextDesc} /\ NextDesc \notin Used
      /\ NextDesc \in Desc /\ NextDesc # NULL
  BY <1>1, NewDescriptor
<1>5. \A e \in Used : blk'[e] = blk[e]
  BY <1>3, <1>4, UsedDescriptors
<1>6. blk'[NextDesc] = Block(ab, sz, NULL)
  BY <1>3, <1>4
<1> HIDE DEF ab, sz
<1>7. /\ Len(regions) \in Nat /\ DOMAIN regions = 1 .. Len(regions)
      /\ DOMAIN regions' = 1 .. Len(regions) + 1 /\ Len(regions') = Len(regions) + 1
      /\ \A j \in DOMAIN regions : regions'[j] = regions[j]
      /\ regions'[Len(regions) + 1] = Region(ab, sz, sz, NextDesc)
  <2> DEFINE x == Region(ab, sz, sz, NextDesc)
             q == Append(regions, x)
  <2>1. regions' = q
    BY <1>2
  <2> HIDE DEF x
  <2>2. /\ Len(regions) \in Nat /\ DOMAIN regions = 1 .. Len(regions)
        /\ DOMAIN q = 1 .. Len(regions) + 1 /\ Len(q) = Len(regions) + 1
        /\ \A j \in DOMAIN regions : q[j] = regions[j]
        /\ q[Len(regions) + 1] = x
    BY <1>0, AppendFacts
  <2> HIDE DEF q
  <2> QED
    BY <2>1, <2>2 DEF x
<1>8. Len(regions) + 1 \notin DOMAIN regions /\ DOMAIN regions' = DOMAIN regions \cup {Len(regions) + 1}
  BY <1>7
<1>9. free' = Plus(free, sz) /\ grants' = grants
  BY DEF AddAccepted, sz
<1> QED
  BY <1>1, <1>4, <1>5, <1>6, <1>7, <1>8, <1>9 DEF Added, ab, sz

(* The pages of a new region lie above those of the others. *)
NewArea(ab, sz) ==
  /\ ab \in Nat /\ sz \in Nat /\ ab > 0 /\ sz > 0 /\ ab + sz <= HALF
  /\ \A j \in DOMAIN regions : regions[j].base + regions[j].size <= ab

(* The new list is good and the others are unchanged. *)
LEMMA AddLists ==
  ASSUME TypeOK, ListsGood, RegionsGood, NEW k, NEW n, NEW ab, NEW sz, NewArea(ab, sz), Added(k, n, ab, sz)
  PROVE  /\ ListsGood' /\ RegionsGood'
         /\ ListP(k) = {n} /\ \A j \in DOMAIN regions : ListP(j) = List(j)
<1>a. /\ ab \in Nat /\ sz \in Nat /\ ab > 0 /\ sz > 0 /\ ab + sz <= HALF
  BY DEF NewArea
<1>b. \A j \in DOMAIN regions : regions[j].base + regions[j].size <= ab
  BY DEF NewArea
<1>1. /\ regions'[k].base = ab /\ regions'[k].size = sz /\ regions'[k].free_blocks = n
      /\ blk'[n].base = ab /\ blk'[n].size = sz /\ blk'[n].next = NULL
  BY DEF Added, Region, Block
<1>2. ListP(k) = {n}
  <2> DEFINE T == {n}
  <2>1. T \in SUBSET Used' /\ n \in T /\ ClosedIn(blk', T) /\ n # NULL
    BY <1>1 DEF Added, ClosedIn
  <2>2. \A S \in SUBSET Used' : n \in S /\ ClosedIn(blk', S) => T \subseteq S
    OBVIOUS
  <2> HIDE DEF T
  <2>3. Walk(blk', Used', n) = T
    BY <2>1, <2>2, WalkIs
  <2> QED
    BY <1>1, <2>3 DEF ListP, T
<1>3. GoodList(blk', {n}, n, regions'[k])
  BY <1>a, <1>1, GoodAlone
<1>4. ASSUME NEW j \in DOMAIN regions
      PROVE  ListP(j) = List(j) /\ GoodList(blk', ListP(j), regions'[j].free_blocks, regions'[j])
  <2>1. /\ NULL \notin Used /\ \A e \in Used : blk[e].next \in Used \cup {NULL}
        /\ regions[j].free_blocks \in Used \cup {NULL} /\ List(j) \subseteq Used
        /\ GoodList(blk, List(j), regions[j].free_blocks, regions[j])
    BY ListFacts
  <2>2. regions'[j] = regions[j] /\ \A e \in List(j) : blk'[e] = blk[e]
    BY <2>1 DEF Added
  <2>3. Used \subseteq Used'
    BY DEF Added
  <2>4. \A e \in Walk(blk, Used, regions[j].free_blocks) : blk'[e].next = blk[e].next
    BY <2>2 DEF List
  <2>5. Walk(blk', Used', regions[j].free_blocks) = Walk(blk, Used, regions[j].free_blocks)
    BY <2>1, <2>3, <2>4, WalkKept
  <2>6. ListP(j) = List(j)
    BY <2>2, <2>5 DEF List, ListP
  <2>7. GoodList(blk', List(j), regions[j].free_blocks, regions[j])
    BY <2>1, <2>2, GoodKept
  <2> QED
    BY <2>2, <2>6, <2>7
<1>5. ListsGood'
  BY <1>1, <1>2, <1>3, <1>4 DEF ListsGood, Added, ListP
<1>6. /\ \A i \in DOMAIN regions' :
           /\ regions'[i].base \in Nat \ {0} /\ regions'[i].size \in Nat
           /\ regions'[i].base + regions'[i].size <= HALF
  BY <1>a, <1>1 DEF RegionsGood, Added
<1>7. \A i, j \in DOMAIN regions' : i # j => Apart(regions'[i], regions'[j])
  <2>1. \A j \in DOMAIN regions : Apart(regions[j], regions'[k]) /\ Apart(regions'[k], regions[j])
    BY <1>1, <1>b DEF Apart
  <2> QED
    BY <2>1 DEF RegionsGood, Added
<1> QED
  BY <1>2, <1>4, <1>5, <1>6, <1>7 DEF RegionsGood

(* No grant overlaps the new region. *)
LEMMA AddGrants ==
  ASSUME TypeOK, ListsGood, RegionsGood, GrantsGood,
         NEW k, NEW n, NEW ab, NEW sz, NewArea(ab, sz), Added(k, n, ab, sz)
  PROVE  GrantsGood'
<1>a. /\ ab \in Nat /\ sz \in Nat /\ ab > 0 /\ sz > 0 /\ ab + sz <= HALF
  BY DEF NewArea
<1>b. \A j \in DOMAIN regions : regions[j].base + regions[j].size <= ab
  BY DEF NewArea
<1>1. ListP(k) = {n} /\ \A j \in DOMAIN regions : ListP(j) = List(j) /\ List(j) \subseteq Used
  BY AddLists, ListFacts
<1>2. /\ DOMAIN regions' = DOMAIN regions \cup {k} /\ grants' = grants
      /\ \A j \in DOMAIN regions : regions'[j] = regions[j]
      /\ \A e \in Used : blk'[e] = blk[e]
      /\ blk'[n].base = ab /\ blk'[n].size = sz
  BY DEF Added, Block
<1>3. ASSUME NEW g \in DOMAIN grants
      PROVE  /\ grants[g].base \in Nat /\ grants[g].size \in Nat
             /\ \E i \in DOMAIN regions' : Inside(grants[g], regions'[i])
             /\ \A i \in DOMAIN regions' : \A d \in ListP(i) : Apart(blk'[d], grants[g])
  <2>1. PICK i \in DOMAIN regions : Inside(grants[g], regions[i])
    BY DEF GrantsGood
  <2>2. grants[g].base \in Nat /\ grants[g].size \in Nat
    BY DEF GrantsGood
  <2>3. grants[g].base + grants[g].size <= ab
    BY <1>a, <1>b, <2>1, <2>2 DEF Inside, RegionsGood
  <2>4. Apart(blk'[n], grants[g])
    BY <1>2, <2>3 DEF Apart
  <2>5. \A j \in DOMAIN regions : \A d \in List(j) : Apart(blk[d], grants[g])
    BY DEF GrantsGood, List
  <2>6. \A j \in DOMAIN regions' : \A d \in ListP(j) : Apart(blk'[d], grants[g])
    BY <1>1, <1>2, <2>4, <2>5
  <2> QED
    BY <1>2, <2>1, <2>2, <2>6
<1> QED
  BY <1>2, <1>3 DEF GrantsGood, ListP

(* The new bytes are counted once, without wrap-around. *)
LEMMA AddCounters ==
  ASSUME TypeOK, ListsGood, RegionsGood, CountersExact,
         NEW k, NEW n, NEW ab, NEW sz, NewArea(ab, sz), Added(k, n, ab, sz)
  PROVE  CountersExact'
<1> DEFINE c == Extent(ab, sz)
<1>0. c.base = ab /\ c.size = sz
  BY DEF Extent
<1> HIDE DEF c
<1>a. /\ ab \in Nat /\ sz \in Nat /\ ab > 0 /\ sz > 0 /\ ab + sz <= HALF
  BY DEF NewArea
<1>b. \A j \in DOMAIN regions : regions[j].base + regions[j].size <= ab
  BY DEF NewArea
<1>1. ListP(k) = {n} /\ \A j \in DOMAIN regions : ListP(j) = List(j) /\ List(j) \subseteq Used
  BY AddLists, ListFacts
<1>2. /\ DOMAIN regions' = DOMAIN regions \cup {k} /\ free' = Plus(free, sz)
      /\ \A j \in DOMAIN regions : regions'[j] = regions[j]
      /\ \A e \in Used : blk'[e] = blk[e]
      /\ blk'[n].base = ab /\ blk'[n].size = sz /\ regions'[k].free = sz
  BY DEF Added, Block, Region
<1>3. \A j : FreeBytes(j)' = ListBytes(blk', ListP(j))
  <2>1. \A j : FreeBlocks(j)' = ListP(j)
    BY DEF FreeBlocks, Reach, Closed, ListP, Walk, ClosedIn
  <2> QED
    BY <2>1 DEF FreeBytes, ListBytes
<1>4. FreeBytes(k)' = Bytes(c)
  BY <1>0, <1>1, <1>2, <1>3 DEF ListBytes, Bytes
<1>5. \A j \in DOMAIN regions : FreeBytes(j)' = FreeBytes(j)
  <2>1. ASSUME NEW j \in DOMAIN regions PROVE FreeBytes(j)' = FreeBytes(j)
    <3>1. ListBytes(blk', List(j)) = ListBytes(blk, List(j))
      BY <1>1, <1>2 DEF ListBytes
    <3> QED
      BY <1>1, <1>3, <3>1, FreeBytesFacts
  <2> QED
    BY <2>1
<1>6. AllFreeBytes' = AllFreeBytes \cup Bytes(c)
  <2>1. AllFreeBytes' = UNION {FreeBytes(j)' : j \in DOMAIN regions \cup {k}}
    BY <1>2 DEF AllFreeBytes
  <2> QED
    BY <1>4, <1>5, <2>1 DEF AllFreeBytes
<1>7. Bytes(c) \cap AllFreeBytes = {}
  <2>1. ASSUME NEW j \in DOMAIN regions PROVE Bytes(c) \cap Bytes(regions[j]) = {}
    BY <1>0, <1>a, <1>b DEF Bytes, RegionsGood
  <2> QED
    BY <2>1, FreeBytesFacts DEF AllFreeBytes
<1>8. HALF \in Nat /\ WORD = 2 * HALF
  BY SizeTAssumption DEF WORD
<1>9. Cardinality(Bytes(c)) = sz
  <2>1. /\ IsFiniteSet({}) /\ Cardinality({}) = 0
    BY FS_EmptySet
  <2>2. Cardinality({} \cup Bytes(c)) = Cardinality({}) + c.size
    BY <1>0, <1>a, <2>1, BytesAdded
  <2> QED
    BY <1>0, <1>a, <2>1, <2>2
<1>10. /\ Cardinality(AllFreeBytes) \in Nat
       /\ Cardinality(AllFreeBytes \cup Bytes(c)) = Cardinality(AllFreeBytes) + sz
  BY <1>0, <1>a, <1>7, FreeBytesFacts, BytesAdded
<1>11. Cardinality(AllFreeBytes \cup Bytes(c)) <= HALF + 1
  <2>1. Bytes(c) \subseteq 0 .. HALF
    BY <1>0, <1>a, <1>8 DEF Bytes
  <2>2. AllFreeBytes \cup Bytes(c) \subseteq 0 .. HALF
    BY <2>1, FreeBytesFacts
  <2>3. IsFiniteSet(0 .. HALF) /\ Cardinality(0 .. HALF) = HALF + 1
    BY <1>8, FS_Interval
  <2> QED
    BY <2>2, <2>3, FS_Subset
<1>12. free' = Cardinality(AllFreeBytes')
  <2> DEFINE f == Cardinality(AllFreeBytes)
  <2>1. free = f /\ f \in Nat /\ f + sz <= HALF + 1
    BY <1>10, <1>11 DEF CountersExact
  <2> HIDE DEF f
  <2>2. Plus(f, sz) = f + sz
    BY <1>a, <1>8, <2>1 DEF Plus
  <2> QED
    BY <1>2, <1>6, <1>10, <2>1, <2>2 DEF f
<1>13. \A j \in DOMAIN regions' : regions'[j].free = Cardinality(FreeBytes(j)')
  BY <1>2, <1>4, <1>5, <1>9 DEF CountersExact
<1> QED
  BY <1>12, <1>13 DEF CountersExact

(* The grants with more than the alignment of a page. *)
Wide == {g \in DOMAIN grants : grants[g].align > BASE_PAGE_SIZE}

(* There are finitely many of them. *)
LEMMA WideFinite ==
  ASSUME TypeOK
  PROVE  IsFiniteSet(Wide) /\ Cardinality(Wide) \in Nat /\ DOMAIN grants = 1 .. Len(grants)
<1>1. Len(grants) \in Nat /\ DOMAIN grants = 1 .. Len(grants)
  BY DEF TypeOK
<1>2. IsFiniteSet(1 .. Len(grants))
  BY <1>1, FS_Interval
<1>3. IsFiniteSet(Wide)
  BY <1>1, <1>2, FS_Subset DEF Wide
<1> QED
  BY <1>1, <1>3, FS_CardinalityType

(* In the contract the new region lies above the others. *)
LEMMA AddArea ==
  ASSUME Inv, NEW base \in SizeT, NEW size \in SizeT, AddContract(base, size)
  PROVE  NewArea(AddBase(base), AddSize(base, size))
<1> DEFINE ab == AddBase(base)
           sz == AddSize(base, size)
<1>1. RegionsGood
  BY DEF Inv
<1>3. /\ base # 0 /\ base + size <= HALF /\ AddBase(base) + BASE_PAGE_SIZE <= base + size
      /\ \A i \in DOMAIN regions : End(regions[i]) <= base
  BY DEF AddContract, NULL
<1>4. /\ ab \in Nat /\ sz \in Nat /\ sz > 0 /\ base <= ab /\ ab + sz <= base + size
  BY <1>3, AddArithmetic
<1>5. base \in Nat /\ size \in Nat /\ HALF \in Nat /\ WORD = 2 * HALF /\ HALF > 0
  BY SizeTAssumption DEF SizeT, WORD
<1> HIDE DEF ab, sz
<1>6. ab \in Nat /\ sz \in Nat /\ ab > 0 /\ sz > 0 /\ ab + sz <= HALF
  <2>1. base > 0 /\ base + size <= HALF
    BY <1>3, <1>5
  <2>2. ab + sz <= HALF
    BY <1>4, <1>5, <2>1
  <2> QED
    BY <1>4, <1>5, <2>1, <2>2
<1>7. \A j \in DOMAIN regions : regions[j].base + regions[j].size <= ab
  <2>1. ASSUME NEW j \in DOMAIN regions PROVE regions[j].base + regions[j].size <= ab
    <3>1. /\ regions[j].base \in Nat /\ regions[j].size \in Nat
          /\ regions[j].base + regions[j].size <= HALF
      BY <1>1 DEF RegionsGood
    <3>2. End(regions[j]) = regions[j].base + regions[j].size
      BY <1>5, <3>1 DEF End, Plus
    <3> QED
      BY <1>3, <1>4, <1>5, <3>1, <3>2
  <2> QED
    BY <2>1
<1> QED
  BY <1>6, <1>7 DEF NewArea, ab, sz

(* pmm_add_region keeps the invariant. *)
LEMMA AddInv ==
  ASSUME Inv, NEW base \in SizeT, NEW size \in SizeT, AddContract(base, size),
         AddAccepted(base, size)
  PROVE  RegionsGood' /\ ListsGood' /\ GrantsGood' /\ CountersExact' /\ DescriptorsPaid'
<1> DEFINE ab == AddBase(base)
           sz == AddSize(base, size)
<1>1. TypeOK /\ ListsGood /\ RegionsGood /\ GrantsGood /\ CountersExact /\ DescriptorsPaid
  BY DEF Inv
<1>2. /\ Added(Len(regions) + 1, NextDesc, ab, sz)
      /\ slabFree' = slabFree - 1 /\ Len(regions') = Len(regions) + 1
  BY <1>1, AddFacts
<1>7a. NewArea(ab, sz)
  BY AddArea
<1> HIDE DEF ab, sz
<1>8. RegionsGood' /\ ListsGood'
  BY <1>1, <1>2, <1>7a, AddLists
<1>9. GrantsGood'
  BY <1>1, <1>2, <1>7a, AddGrants
<1>10. CountersExact'
  BY <1>1, <1>2, <1>7a, AddCounters
<1>11. DescriptorsPaid'
  <2>1. Wide' = Wide
    BY <1>2 DEF Added, Wide
  <2>2. SLAB_TOTAL - slabFree <= Len(regions) + Cardinality(Wide)
    BY <1>1 DEF DescriptorsPaid, Wide
  <2>3. slabFree \in Int /\ SLAB_TOTAL \in Int /\ Len(regions) \in Int /\ Cardinality(Wide) \in Int
    BY <1>1, WideFinite, PmmAssumption DEF TypeOK
  <2>4. SLAB_TOTAL - slabFree' <= Len(regions') + Cardinality(Wide)
    BY <1>2, <2>2, <2>3
  <2> QED
    BY <2>1, <2>4 DEF DescriptorsPaid, Wide
<1> QED
  BY <1>8, <1>9, <1>10, <1>11

-----------------------------------------------------------------------------
(* pmm_remove_region in its contract.                                      *)

(* ALIGN_UP in the lower half of the address space: it stays there, moves  *)
(* no address down, and moves no multiple of the alignment.                *)
LEMMA AlignUpBounds ==
  ASSUME NEW x \in Nat, x <= HALF, NEW a \in PowersOfTwo
  PROVE  /\ a \in Nat /\ a > 0 /\ a <= HALF
         /\ AlignUp(x, a) \in Nat /\ x <= AlignUp(x, a) /\ AlignUp(x, a) <= HALF
         /\ x % a = 0 => AlignUp(x, a) = x /\ AlignDown(x, a) = x
<1> DEFINE y == x + (a - 1)
           z == AlignDown(y, a)
<1>1. /\ HALF \in Nat /\ WORD = 2 * HALF /\ a \in Nat /\ a > 0 /\ a <= HALF
  BY SizeTAssumption DEF WORD
<1>2. HALF % a = 0
  BY <1>1, SizeTAssumption
<1>3. y \in Nat /\ y < x + a /\ x < y + 1 /\ Plus(x, a - 1) = y
  BY <1>1 DEF Plus
<1>4. AlignUp(x, a) = z
  BY <1>3 DEF AlignUp
<1> HIDE DEF y
<1>5. z \in Nat /\ z <= y /\ y < z + a /\ z % a = 0
  <2>1. a \in Nat \ {0} /\ a \in Int /\ y \in Int
    BY <1>1, <1>3
  <2>2. AlignDown(y, a) \in Nat /\ AlignDown(y, a) <= y /\ y < AlignDown(y, a) + a
    BY <1>3, <2>1, AlignDownBounds
  <2>3. AlignDown(y, a) % a = 0
    BY <1>1, <2>1, AlignDownMultiple
  <2> QED
    BY <2>2, <2>3
<1> HIDE DEF z
<1>6. x <= z
  BY <1>1, <1>3, <1>5 DEF y
<1>7. z <= HALF
  <2>1. SUFFICES ASSUME HALF < z PROVE FALSE
    BY <1>1, <1>5
  <2>2. HALF + a <= z
    BY <1>1, <1>2, <1>5, <2>1, MultiplesApart
  <2> QED
    BY <1>1, <1>3, <1>5, <2>2
<1>8. ASSUME x % a = 0 PROVE z = x
  <2>1. SUFFICES ASSUME x < z PROVE FALSE
    BY <1>5, <1>6
  <2>2. x + a <= z
    BY <1>1, <1>5, <1>8, <2>1, MultiplesApart
  <2> QED
    BY <1>1, <1>3, <1>5, <2>2
<1>9. x % a = 0 => AlignDown(x, a) = x
  BY DEF AlignDown
<1> QED
  BY <1>1, <1>4, <1>5, <1>6, <1>7, <1>8, <1>9

(* A call that fails keeps the promises. *)
LEMMA UnchangedInv ==
  ASSUME Inv, UNCHANGED <<regions, blk, slabFree, free, grants>>
  PROVE  RegionsGood' /\ ListsGood' /\ GrantsGood' /\ CountersExact' /\ DescriptorsPaid'
<1>1. Used' = Used /\ regions' = regions /\ blk' = blk /\ grants' = grants
  BY DEF Used
<1>2. \A i : FreeBytes(i)' = FreeBytes(i)
  BY <1>1 DEF FreeBytes, FreeBlocks, Reach, Closed
<1>3. AllFreeBytes' = AllFreeBytes
  BY <1>1, <1>2 DEF AllFreeBytes
<1>4. RegionsGood' /\ ListsGood' /\ GrantsGood'
  BY <1>1 DEF Inv, RegionsGood, ListsGood, GrantsGood
<1>5. CountersExact'
  BY <1>1, <1>2, <1>3 DEF Inv, CountersExact
<1>6. DescriptorsPaid'
  BY <1>1 DEF Inv, DescriptorsPaid
<1> QED
  BY <1>4, <1>5, <1>6

(* In the contract the range ends where its block ends. *)
LEMMA RemoveCuts ==
  ASSUME Inv, NEW base \in SizeT, NEW size \in SizeT, RemoveContract(base, size),
         RemoveRuns(base, size)
  PROVE  /\ RemBase(base) = base /\ RemSize(size) = size /\ size > 0
         /\ \A i \in DOMAIN regions : ~ExactFit(i, base, size)
         /\ \A i \in DOMAIN regions, d \in Used : CutsBlock(i, d, base, size) =>
              /\ d \in List(i) /\ blk[d].base <= base
              /\ base + size = blk[d].base + blk[d].size
              /\ End(blk[d]) = Plus(base, size)
<1>1. TypeOK /\ ListsGood /\ RegionsGood
  BY DEF Inv
<1>2. /\ base \in Nat /\ size \in Nat /\ HALF \in Nat /\ HALF > 0 /\ WORD = 2 * HALF
      /\ BASE_PAGE_SIZE \in PowersOfTwo
  BY SizeTAssumption, PmmAssumption DEF SizeT, WORD
<1>3. /\ base % BASE_PAGE_SIZE = 0 /\ size % BASE_PAGE_SIZE = 0 /\ base + size <= HALF
      /\ \A i \in DOMAIN regions :
           /\ ~ExactFit(i, base, size)
           /\ \A d \in FreeBlocks(i) :
                ~(blk[d].base < base + size /\ base + size < End(blk[d]))
  BY DEF RemoveContract
<1>4. base <= HALF /\ size <= HALF /\ Plus(base, size) = base + size
  BY <1>2, <1>3 DEF Plus
<1>5. RemBase(base) = base /\ RemSize(size) = size
  BY <1>2, <1>3, <1>4, AlignUpBounds DEF RemBase, RemSize
<1>6. size > 0
  BY <1>2, <1>5, PageArithmetic DEF RemoveRuns
<1>7. ASSUME NEW i \in DOMAIN regions, NEW d \in Used, CutsBlock(i, d, base, size)
      PROVE  /\ d \in List(i) /\ blk[d].base <= base
             /\ base + size = blk[d].base + blk[d].size
             /\ End(blk[d]) = Plus(base, size)
  <2>1. d \in FreeBlocks(i) /\ Plus(base, size) <= End(blk[d]) /\ base >= blk[d].base
    BY <1>7 DEF CutsBlock, IsFirst, UpBound
  <2>2. /\ d \in List(i) /\ blk[d].base \in Nat /\ blk[d].size \in Nat
        /\ End(blk[d]) = blk[d].base + blk[d].size
    BY <1>1, <2>1, ListFacts
  <2>3. ~(blk[d].base < base + size /\ base + size < End(blk[d]))
    BY <1>3, <2>1
  <2> QED
    BY <1>2, <1>4, <1>6, <2>1, <2>2, <2>3
<1> QED
  BY <1>3, <1>5, <1>6, <1>7

(* Bytes taken out of a block, granted or not: all but the account of      *)
(* descriptors is kept.                                                    *)
LEMMA CarveInv ==
  ASSUME Inv, NEW i \in DOMAIN regions, NEW d \in List(i), NEW ab \in Nat, NEW n \in Nat, n > 0,
         blk[d].base <= ab, ab + n <= blk[d].base + blk[d].size,
         \/ TakeMiddle(i, d, ab, n) /\ slabFree > 0
         \/ TakeTail(i, d, ab, n)
         \/ TakeHead(i, d, ab, n) \/ TakeWholeBlock(i, d, ab, n),
         NEW g, g.base = ab, g.size = n, grants' = grants \/ grants' = Append(grants, g)
  PROVE  RegionsGood' /\ ListsGood' /\ GrantsGood' /\ CountersExact'
<1> DEFINE c == Extent(ab, n)
<1>1. TypeOK /\ ListsGood /\ RegionsGood /\ GrantsGood /\ CountersExact
  BY DEF Inv
<1>2. TakenFrom(i, d, c)
  <2>1. n \in Nat \ {0}
    OBVIOUS
  <2> QED
    BY <1>1, <2>1, TakeCarves
<1>3. c.base = ab /\ c.size = n
  BY DEF Extent
<1> HIDE DEF c
<1>4. c.base \in Nat /\ c.size \in Nat /\ Inside(c, blk[d])
  BY <1>3 DEF Inside
<1>5. RegionsGood' /\ ListsGood'
  BY <1>1, <1>2, CarveLists
<1>6. GrantsGood'
  <2>1. g.base = c.base /\ g.size = c.size
    BY <1>3
  <2> QED
    BY <1>1, <1>2, <1>4, <2>1, CarveGrants
<1>7. CountersExact'
  BY <1>1, <1>2, <1>4, CarveCounters
<1> QED
  BY <1>5, <1>6, <1>7

(* Charge adds and removes no region. *)
LEMMA ChargeLen ==
  ASSUME TypeOK, NEW i \in DOMAIN regions, NEW n, NEW head, Charge(i, n, head)
  PROVE  Len(regions') = Len(regions)
<1> DEFINE r == Region(regions[i].base, regions[i].size, Minus(regions[i].free, n), head)
<1>1. regions' = [regions EXCEPT ![i] = r]
  BY DEF Charge
<1>2. regions \in Seq(RegionT(Used))
  BY DEF TypeOK, RegionT
<1> HIDE DEF r
<1> QED
  BY <1>1, <1>2

(* A descriptor is taken only for an area or for a wide grant. *)
LEMMA PaidKept ==
  ASSUME TypeOK, DescriptorsPaid, Len(regions') = Len(regions), NEW g,
         \/ grants' = grants /\ slabFree' = slabFree
         \/ grants' = Append(grants, g) /\ slabFree' = slabFree
         \/ grants' = Append(grants, g) /\ slabFree' = slabFree - 1 /\ g.align > BASE_PAGE_SIZE
  PROVE  DescriptorsPaid'
<1> DEFINE m == Len(grants) + 1
<1>1. SLAB_TOTAL - slabFree <= Len(regions) + Cardinality(Wide)
  BY DEF DescriptorsPaid, Wide
<1>2. /\ slabFree \in Int /\ SLAB_TOTAL \in Int /\ Len(regions) \in Int
      /\ IsFiniteSet(Wide) /\ Cardinality(Wide) \in Int
  BY WideFinite, PmmAssumption DEF TypeOK
<1>3. CASE grants' = grants /\ slabFree' = slabFree
  BY <1>1, <1>3 DEF DescriptorsPaid, Wide
<1>4. ASSUME grants' = Append(grants, g)
      PROVE  /\ m \notin Wide
             /\ Wide' = IF g.align > BASE_PAGE_SIZE THEN Wide \cup {m} ELSE Wide
  <2>1. /\ Len(grants) \in Nat /\ DOMAIN grants = 1 .. Len(grants)
        /\ DOMAIN grants' = 1 .. m
        /\ \A j \in DOMAIN grants : grants'[j] = grants[j]
        /\ grants'[m] = g
    <3>1. grants \in Seq(GrantT)
      BY DEF TypeOK, GrantT
    <3> QED
      BY <1>4, <3>1, AppendFacts
  <2>2. DOMAIN grants' = DOMAIN grants \cup {m} /\ m \notin DOMAIN grants
    BY <2>1
  <2> HIDE DEF m
  <2>3. Wide' = {j \in DOMAIN grants \cup {m} : grants'[j].align > BASE_PAGE_SIZE}
    BY <2>2 DEF Wide
  <2>4. \A j : j \in Wide' <=> j \in Wide \/ (j = m /\ g.align > BASE_PAGE_SIZE)
    BY <2>1, <2>2, <2>3 DEF Wide
  <2>5. m \notin Wide
    BY <2>2 DEF Wide
  <2>6. CASE g.align > BASE_PAGE_SIZE
    BY <2>4, <2>5, <2>6
  <2>7. CASE ~(g.align > BASE_PAGE_SIZE)
    BY <2>4, <2>5, <2>7
  <2> QED
    BY <2>6, <2>7
<1>5. ASSUME grants' = Append(grants, g)
      PROVE  /\ Cardinality(Wide') \in Int /\ Cardinality(Wide) <= Cardinality(Wide')
             /\ g.align > BASE_PAGE_SIZE => Cardinality(Wide') = Cardinality(Wide) + 1
  <2>1. Cardinality(Wide \cup {m}) = Cardinality(Wide) + 1
    BY <1>2, <1>4, <1>5, FS_AddElement
  <2>2. CASE g.align > BASE_PAGE_SIZE
    <3>1. Cardinality(Wide') = Cardinality(Wide) + 1
      BY <1>4, <1>5, <2>1, <2>2
    <3> QED
      BY <1>2, <3>1
  <2>3. CASE ~(g.align > BASE_PAGE_SIZE)
    <3>1. Cardinality(Wide') = Cardinality(Wide)
      BY <1>4, <1>5, <2>3
    <3> QED
      BY <1>2, <2>3, <3>1
  <2> QED
    BY <2>2, <2>3
<1>6. ASSUME grants' = Append(grants, g), slabFree' = slabFree PROVE DescriptorsPaid'
  <2>1. SLAB_TOTAL - slabFree' <= Len(regions') + Cardinality(Wide')
    BY <1>1, <1>2, <1>5, <1>6
  <2> QED
    BY <2>1 DEF DescriptorsPaid, Wide
<1>7. ASSUME grants' = Append(grants, g), slabFree' = slabFree - 1, g.align > BASE_PAGE_SIZE
      PROVE  DescriptorsPaid'
  <2>1. SLAB_TOTAL - slabFree' <= Len(regions') + Cardinality(Wide')
    BY <1>1, <1>2, <1>5, <1>7
  <2> QED
    BY <2>1 DEF DescriptorsPaid, Wide
<1> QED
  BY <1>3, <1>6, <1>7

(* A range that is removed is the end of a block or a whole one. *)
LEMMA RemoveTakes ==
  ASSUME Inv, NEW base \in SizeT, NEW size \in SizeT, RemoveContract(base, size),
         RemovePart(base, size)
  PROVE  /\ grants' = grants /\ size > 0
         /\ \E i \in DOMAIN regions : \E d \in List(i) :
              /\ blk[d].base <= base /\ base + size = blk[d].base + blk[d].size
              /\ TakeTail(i, d, base, size) \/ TakeWholeBlock(i, d, base, size)
<1>0. TypeOK
  BY DEF Inv
<1>1. RemoveRuns(base, size) /\ grants' = grants
  BY DEF RemovePart
<1>2. PICK i \in DOMAIN regions, d \in Used :
        /\ CutsBlock(i, d, RemBase(base), RemSize(size))
        /\ \/ CutMiddle(i, d, RemBase(base), RemSize(size))
           \/ CutTail(i, d, RemBase(base), RemSize(size))
           \/ CutHead(i, d, RemBase(base), RemSize(size))
           \/ CutWholeBlock(i, d, RemBase(base), RemSize(size))
  BY DEF RemovePart
<1>3. /\ CutsBlock(i, d, base, size)
      /\ \/ CutMiddle(i, d, base, size) \/ CutTail(i, d, base, size)
         \/ CutHead(i, d, base, size) \/ CutWholeBlock(i, d, base, size)
  BY <1>1, <1>2, RemoveCuts
<1>4. /\ d \in List(i) /\ blk[d].base <= base /\ size > 0
      /\ base + size = blk[d].base + blk[d].size
      /\ End(blk[d]) = Plus(base, size)
  BY <1>1, <1>3, RemoveCuts
<1>5. End(blk[d]) \in Int
  BY <1>0, Fields DEF SizeT
<1>6. ~CutMiddle(i, d, base, size) /\ ~CutHead(i, d, base, size)
  BY <1>4, <1>5 DEF CutMiddle, CutHead
<1>7. TakeTail(i, d, base, size) \/ TakeWholeBlock(i, d, base, size)
  BY <1>3, <1>6 DEF CutTail, CutWholeBlock, TakeTail, TakeWholeBlock
<1> QED
  BY <1>1, <1>4, <1>7

(* pmm_remove_region keeps the invariant. *)
LEMMA RemoveInv ==
  ASSUME Inv, NEW base \in SizeT, NEW size \in SizeT, RemoveContract(base, size),
         RemoveRegion(base, size)
  PROVE  RegionsGood' /\ ListsGood' /\ GrantsGood' /\ CountersExact' /\ DescriptorsPaid'
<1>0. TypeOK /\ DescriptorsPaid /\ base \in Nat /\ size \in Nat
  BY DEF Inv, SizeT
<1>1. CASE \/ RemoveAsserts(base, size) \/ RemoveNothing(base, size)
           \/ RemoveNotManaged(base, size) \/ RemoveAllocatedFrom(base, size)
  <2>1. UNCHANGED <<regions, blk, slabFree, free, grants>>
    BY <1>1 DEF RemoveAsserts, RemoveNothing, RemoveNotManaged, RemoveAllocatedFrom, Fails
  <2> QED
    BY <2>1, UnchangedInv
<1>2. CASE RemoveWholeRegion(base, size)
  <2>1. RemoveRuns(base, size)
    BY <1>2 DEF RemoveWholeRegion
  <2> QED
    BY <1>2, <2>1, RemoveCuts DEF RemoveWholeRegion
<1>3. CASE RemoveOutOfDescriptors(base, size)
  <2>1. RemoveRuns(base, size)
    BY <1>3 DEF RemoveOutOfDescriptors
  <2>2. PICK i \in DOMAIN regions, d \in Used :
          /\ CutsBlock(i, d, RemBase(base), RemSize(size))
          /\ End(blk[d]) > Plus(RemBase(base), RemSize(size))
    BY <1>3 DEF RemoveOutOfDescriptors
  <2>3. End(blk[d]) = Plus(base, size) /\ End(blk[d]) > Plus(base, size)
    BY <2>1, <2>2, RemoveCuts
  <2>4. End(blk[d]) \in Int
    BY <1>0, Fields DEF SizeT
  <2> QED
    BY <2>3, <2>4
<1>4. CASE RemovePart(base, size)
  <2>1. grants' = grants /\ size > 0
    BY <1>4, RemoveTakes
  <2> DEFINE Taken(i, d) ==
               /\ blk[d].base <= base /\ base + size = blk[d].base + blk[d].size
               /\ TakeTail(i, d, base, size) \/ TakeWholeBlock(i, d, base, size)
  <2>2. PICK i \in DOMAIN regions : \E d \in List(i) : Taken(i, d)
    BY <1>4, RemoveTakes
  <2>3. PICK d \in List(i) : Taken(i, d)
    BY <2>2
  <2>4. base + size <= blk[d].base + blk[d].size
    BY <1>0, <2>3
  <2> DEFINE g == Extent(base, size)
  <2>5. g.base = base /\ g.size = size
    BY DEF Extent
  <2> HIDE DEF g
  <2>6. RegionsGood' /\ ListsGood' /\ GrantsGood' /\ CountersExact'
    BY <1>0, <2>1, <2>3, <2>4, <2>5, CarveInv
  <2>7. slabFree' = slabFree /\ \E h : Charge(i, size, h)
    BY <2>3 DEF TakeTail, TakeWholeBlock
  <2>8. DescriptorsPaid'
    BY <1>0, <2>1, <2>7, ChargeLen, PaidKept
  <2> QED
    BY <2>6, <2>8
<1> QED
  BY <1>1, <1>2, <1>3, <1>4 DEF RemoveRegion

-----------------------------------------------------------------------------
(* pmm_alloc_aligned in its contract.                                      *)

(* An extent has as many bytes as its size says. *)
LEMMA CardBytes ==
  ASSUME NEW c, c.base \in Nat, c.size \in Nat
  PROVE  IsFiniteSet(Bytes(c)) /\ Cardinality(Bytes(c)) = c.size
<1>1. IsFiniteSet({}) /\ Cardinality({}) = 0
  BY FS_EmptySet
<1>2. IsFiniteSet({} \cup Bytes(c)) /\ Cardinality({} \cup Bytes(c)) = Cardinality({}) + c.size
  BY <1>1, BytesAdded
<1> QED
  BY <1>1, <1>2

(* A region has less free memory than half the address space. *)
LEMMA RegionFree ==
  ASSUME Inv, NEW i \in DOMAIN regions
  PROVE  regions[i].free \in Nat /\ regions[i].free < HALF
<1>1. TypeOK /\ ListsGood /\ RegionsGood /\ regions[i].free = Cardinality(FreeBytes(i))
  BY DEF Inv, CountersExact
<1>2. /\ regions[i].base \in Nat \ {0} /\ regions[i].size \in Nat
      /\ regions[i].base + regions[i].size <= HALF /\ HALF \in Nat
  BY <1>1, SizeTAssumption DEF RegionsGood
<1>3. FreeBytes(i) \subseteq Bytes(regions[i]) /\ IsFiniteSet(FreeBytes(i))
  BY <1>1, FreeBytesFacts
<1>4. IsFiniteSet(Bytes(regions[i])) /\ Cardinality(Bytes(regions[i])) = regions[i].size
  BY <1>2, CardBytes
<1>5. Cardinality(FreeBytes(i)) \in Nat /\ Cardinality(FreeBytes(i)) <= regions[i].size
  BY <1>3, <1>4, FS_Subset, FS_CardinalityType
<1> QED
  BY <1>1, <1>2, <1>5

(* A block that fits holds the bytes that are granted: no sum of the test  *)
(* wraps around.                                                           *)
LEMMA AllocFits ==
  ASSUME Inv, NEW size \in SizeT, NEW a \in PowersOfTwo, AllocContract(size),
         NEW i \in DOMAIN regions, NEW d, FirstFit(i, d, AllocSize(size), a)
  PROVE  /\ d \in List(i) /\ AllocSize(size) \in Nat /\ AllocSize(size) > 0
         /\ AlignUp(blk[d].base, a) \in Nat /\ blk[d].base <= AlignUp(blk[d].base, a)
         /\ AlignUp(blk[d].base, a) + AllocSize(size) <= blk[d].base + blk[d].size
         /\ blk[d].base % a = 0 => AlignUp(blk[d].base, a) = blk[d].base
<1> DEFINE n == AllocSize(size)
           x == blk[d].base
           ab == AlignUp(x, a)
<1>1. TypeOK /\ ListsGood /\ RegionsGood
  BY DEF Inv
<1>2. /\ regions[i].free >= n /\ d \in FreeBlocks(i) /\ End(blk[d]) >= Plus(ab, n)
  BY DEF FirstFit, HasRoom, IsFirst, Fitting
<1>3. /\ d \in List(i) /\ x \in Nat /\ blk[d].size \in Nat /\ x + blk[d].size <= HALF
      /\ End(blk[d]) = x + blk[d].size
  BY <1>1, <1>2, ListFacts
<1>4. HALF \in Nat /\ WORD = 2 * HALF /\ BASE_PAGE_SIZE \in PowersOfTwo
  BY SizeTAssumption, PmmAssumption DEF WORD
<1>5. size \in Nat /\ size > 0 /\ size <= HALF
  BY <1>4 DEF AllocContract
<1>6. n \in Nat /\ size <= n
  BY <1>4, <1>5, AlignUpBounds DEF AllocSize
<1>7. regions[i].free \in Nat /\ regions[i].free < HALF
  BY RegionFree
<1>8. x <= HALF
  BY <1>3, <1>4
<1>9. ab \in Nat /\ x <= ab /\ ab <= HALF /\ (x % a = 0 => ab = x)
  BY <1>3, <1>8, AlignUpBounds
<1> HIDE DEF n, ab
<1>10. n < HALF
  BY <1>2, <1>4, <1>6, <1>7
<1>11. Plus(ab, n) = ab + n
  BY <1>4, <1>6, <1>9, <1>10 DEF Plus
<1>12. n > 0
  BY <1>5, <1>6
<1>13. ab + n <= x + blk[d].size
  BY <1>2, <1>3, <1>11
<1> QED
  BY <1>3, <1>6, <1>9, <1>12, <1>13 DEF n, ab

(* What a successful call takes: the bytes at the first multiple of the    *)
(* alignment in the first block that fits.                                 *)
LEMMA AllocTakes ==
  ASSUME Inv, NEW size \in SizeT, NEW a \in SizeT, AllocContract(size), AllocGrants(size, a)
  PROVE  /\ a \in PowersOfTwo /\ a >= BASE_PAGE_SIZE
         /\ AllocSize(size) \in Nat /\ AllocSize(size) > 0
         /\ \E i \in DOMAIN regions : \E d \in List(i) :
              LET n  == AllocSize(size)
                  ab == AlignUp(blk[d].base, a)
              IN /\ FirstFit(i, d, n, a)
                 /\ ab \in Nat /\ blk[d].base <= ab /\ ab + n <= blk[d].base + blk[d].size
                 /\ blk[d].base % a = 0 => ab = blk[d].base
                 /\ \/ TakeMiddle(i, d, ab, n) /\ slabFree > 0
                    \/ TakeTail(i, d, ab, n)
                    \/ TakeHead(i, d, ab, n) \/ TakeWholeBlock(i, d, ab, n)
                 /\ grants' = Append(grants, [base |-> ab, size |-> n,
                                              asked |-> size, align |-> a])
<1> DEFINE n == AllocSize(size)
<1>1. a \in PowersOfTwo /\ a >= BASE_PAGE_SIZE /\ slabFree > 0
  <2>1. slabFree >= SLAB_RESERVE /\ a \in PowersOfTwo /\ ~(a < BASE_PAGE_SIZE)
    BY DEF AllocGrants, BadAlignment
  <2> QED
    BY <2>1, SizeTAssumption, PmmAssumption DEF Inv, TypeOK
<1>2. PICK i \in DOMAIN regions, d \in Used :
        LET ab == AlignUp(blk[d].base, a)
        IN /\ FirstFit(i, d, n, a)
           /\ \/ TakeMiddle(i, d, ab, n) \/ TakeTail(i, d, ab, n)
              \/ TakeHead(i, d, ab, n) \/ TakeWholeBlock(i, d, ab, n)
           /\ grants' = Append(grants, [base |-> ab, size |-> n,
                                        asked |-> size, align |-> a])
  BY DEF AllocGrants
<1>3. /\ d \in List(i) /\ n \in Nat /\ n > 0
      /\ AlignUp(blk[d].base, a) \in Nat /\ blk[d].base <= AlignUp(blk[d].base, a)
      /\ AlignUp(blk[d].base, a) + n <= blk[d].base + blk[d].size
      /\ blk[d].base % a = 0 => AlignUp(blk[d].base, a) = blk[d].base
  BY <1>1, <1>2, AllocFits
<1> QED
  BY <1>1, <1>2, <1>3

(* pmm_alloc_aligned keeps the invariant. *)
LEMMA AllocInv ==
  ASSUME Inv, NEW size \in SizeT, NEW a \in SizeT, AllocContract(size), AllocAligned(size, a)
  PROVE  RegionsGood' /\ ListsGood' /\ GrantsGood' /\ CountersExact' /\ DescriptorsPaid'
<1>0. TypeOK /\ DescriptorsPaid /\ ListsGood /\ RegionsGood
  BY DEF Inv
<1>1. CASE AllocBadAlignment(size, a) \/ AllocOutOfMemory(size, a) \/ AllocHangs(size, a)
  <2>1. UNCHANGED <<regions, blk, slabFree, free, grants>>
    BY <1>1 DEF AllocBadAlignment, AllocOutOfMemory, AllocHangs, Fails
  <2> QED
    BY <2>1, UnchangedInv
<1>2. CASE AllocGrants(size, a)
  <2> DEFINE n == AllocSize(size)
  <2>1. a \in PowersOfTwo /\ a >= BASE_PAGE_SIZE /\ n \in Nat /\ n > 0
    BY <1>2, AllocTakes
  <2> DEFINE Taken(i, d) ==
               LET ab == AlignUp(blk[d].base, a)
               IN /\ ab \in Nat /\ blk[d].base <= ab /\ ab + n <= blk[d].base + blk[d].size
                  /\ blk[d].base % a = 0 => ab = blk[d].base
                  /\ \/ TakeMiddle(i, d, ab, n) /\ slabFree > 0
                     \/ TakeTail(i, d, ab, n)
                     \/ TakeHead(i, d, ab, n) \/ TakeWholeBlock(i, d, ab, n)
                  /\ grants' = Append(grants, [base |-> ab, size |-> n,
                                               asked |-> size, align |-> a])
  <2>2a. PICK i \in DOMAIN regions : \E d \in List(i) : Taken(i, d)
    BY <1>2, AllocTakes
  <2>2. PICK d \in List(i) : Taken(i, d)
    BY <2>2a
  <2> DEFINE ab == AlignUp(blk[d].base, a)
             g == [base |-> ab, size |-> n, asked |-> size, align |-> a]
  <2>3. /\ ab \in Nat /\ blk[d].base <= ab /\ ab + n <= blk[d].base + blk[d].size
        /\ blk[d].base % a = 0 => ab = blk[d].base
    BY <2>2
  <2>4. grants' = Append(grants, g)
    BY <2>2
  <2>5. g.base = ab /\ g.size = n /\ g.align = a
    OBVIOUS
  <2>6. \/ TakeMiddle(i, d, ab, n) /\ slabFree > 0
        \/ TakeTail(i, d, ab, n)
        \/ TakeHead(i, d, ab, n) \/ TakeWholeBlock(i, d, ab, n)
    BY <2>2
  <2> HIDE DEF ab, n, g
  <2>7. RegionsGood' /\ ListsGood' /\ GrantsGood' /\ CountersExact'
    BY <2>1, <2>3, <2>4, <2>5, <2>6, CarveInv
  <2>8. \E h : Charge(i, n, h)
    BY <2>6 DEF TakeMiddle, TakeTail, TakeHead, TakeWholeBlock
  <2>9. Len(regions') = Len(regions)
    BY <1>0, <2>8, ChargeLen
  <2>10. CASE TakeMiddle(i, d, ab, n)
    <3>1. blk[d].base # ab /\ slabFree' = slabFree - 1
      BY <2>10 DEF TakeMiddle
    <3>2. blk[d].base % BASE_PAGE_SIZE = 0
      BY <1>0, ListFacts, PagesUnfolded DEF Inv, Paged
    <3>3. a # BASE_PAGE_SIZE
      BY <2>3, <3>1, <3>2
    <3>4. g.align > BASE_PAGE_SIZE
      BY <2>1, <2>5, <3>3, PageArithmetic, SizeTAssumption
    <3>5. DescriptorsPaid'
      BY <1>0, <2>4, <2>9, <3>1, <3>4, PaidKept
    <3> QED
      BY <2>7, <3>5
  <2>11. CASE TakeTail(i, d, ab, n) \/ TakeHead(i, d, ab, n) \/ TakeWholeBlock(i, d, ab, n)
    <3>1. slabFree' = slabFree
      BY <2>11 DEF TakeTail, TakeHead, TakeWholeBlock
    <3>2. DescriptorsPaid'
      BY <1>0, <2>4, <2>9, <3>1, PaidKept
    <3> QED
      BY <2>7, <3>2
  <2> QED
    BY <2>6, <2>10, <2>11
<1> QED
  BY <1>1, <1>2 DEF AllocAligned
-----------------------------------------------------------------------------
(* The theorems.                                                           *)

(* A call in the contract is a call. *)
LEMMA ContractIsSpec == ContractSpec => Spec
<1>1. ContractNext => Next
  BY DEF ContractNext, Next
<1> QED
  BY <1>1, PTL DEF ContractSpec, Spec

(* What TypeCorrect and PagesWhole do not say yet. *)
Promises == RegionsGood /\ ListsGood /\ GrantsGood /\ CountersExact /\ DescriptorsPaid

(* The invariant holds at the start. *)
LEMMA InitInv == Init => Promises
<1> SUFFICES ASSUME Init PROVE Promises
  OBVIOUS
<1>1. regions = <<>> /\ grants = <<>> /\ free = 0 /\ slabFree = SLAB_TOTAL
  BY DEF Init
<1>2. DOMAIN regions = {} /\ DOMAIN grants = {} /\ Len(regions) = 0
  BY <1>1
<1>3. RegionsGood /\ ListsGood /\ GrantsGood
  BY <1>2 DEF RegionsGood, ListsGood, GrantsGood
<1>4. Cardinality({}) = 0
  BY FS_EmptySet
<1>5. CountersExact
  <2>1. AllFreeBytes = {}
    BY <1>2 DEF AllFreeBytes
  <2> QED
    BY <1>1, <1>2, <1>4, <2>1 DEF CountersExact
<1>6. DescriptorsPaid
  <2>1. Wide = {}
    BY <1>2 DEF Wide
  <2>2. SLAB_TOTAL - slabFree <= Len(regions) + Cardinality(Wide)
    BY <1>1, <1>2, <1>4, <2>1, PmmAssumption
  <2> QED
    BY <2>2 DEF DescriptorsPaid, Wide
<1> QED
  BY <1>3, <1>5, <1>6 DEF Promises

(* Every call in the contract keeps it. *)
LEMMA NextInv ==
  ASSUME Inv, [ContractNext]_vars
  PROVE  Promises'
<1>1. CASE UNCHANGED vars
  <2>1. UNCHANGED <<regions, blk, slabFree, free, grants>>
    BY <1>1 DEF vars
  <2> QED
    BY <2>1, UnchangedInv DEF Promises
<1>2. ASSUME NEW r \in AddReqs, AddContract(r[1], r[2]), AddRegion(r[1], r[2]) PROVE Promises'
  <2>1. r[1] \in SizeT /\ r[2] \in SizeT
    BY PmmAssumption
  <2>2. CASE AddRefused(r[1], r[2])
    <3>1. UNCHANGED <<regions, blk, slabFree, free, grants>>
      BY <2>2 DEF AddRefused, Fails
    <3> QED
      BY <3>1, UnchangedInv DEF Promises
  <2>3. CASE AddAccepted(r[1], r[2])
    BY <1>2, <2>1, <2>3, AddInv DEF Promises
  <2> QED
    BY <1>2, <2>2, <2>3 DEF AddRegion
<1>3. ASSUME NEW r \in RemoveReqs, RemoveContract(r[1], r[2]), RemoveRegion(r[1], r[2])
      PROVE  Promises'
  <2>1. r[1] \in SizeT /\ r[2] \in SizeT
    BY PmmAssumption
  <2> QED
    BY <1>3, <2>1, RemoveInv DEF Promises
<1>4. ASSUME NEW r \in AllocReqs, AllocContract(r[1]), AllocAligned(r[1], r[2]) PROVE Promises'
  <2>1. r[1] \in SizeT /\ r[2] \in SizeT
    BY PmmAssumption
  <2> QED
    BY <1>4, <2>1, AllocInv DEF Promises
<1>5. ASSUME NEW g \in DOMAIN grants, Free(grants[g].base) PROVE Promises'
  <2>1. UNCHANGED <<regions, blk, slabFree, free, grants>>
    BY <1>5 DEF Free, Fails
  <2> QED
    BY <2>1, UnchangedInv DEF Promises
<1> QED
  BY <1>1, <1>2, <1>3, <1>4, <1>5 DEF ContractNext

(* The invariant that carries all promises of pmm.c holds in every state   *)
(* that calls in the contract reach.                                       *)
THEOREM ContractInvariant == ContractSpec => []Inv
<1>1. Inv <=> TypeOK /\ WholePages /\ Promises
  BY DEF Inv, Promises
<1>2. Init => Promises
  BY InitInv
<1>3. TypeOK /\ WholePages /\ Promises /\ [ContractNext]_vars => Promises'
  BY <1>1, NextInv
<1>4. ContractSpec => []TypeOK /\ []WholePages
  BY ContractIsSpec, TypeCorrect, PagesWhole, PTL
<1> QED
  BY <1>1, <1>2, <1>3, <1>4, PTL DEF ContractSpec

(* No byte is handed out twice: two successful calls of pmm_alloc_aligned  *)
(* never return overlapping memory, however blocks were split, cut and     *)
(* unlinked in between.                                                    *)
THEOREM NoByteTwice == ContractSpec => []GrantsApart
<1>1. Inv => GrantsApart
  BY DEF Inv, GrantsGood, GrantsApart
<1> QED
  BY <1>1, ContractInvariant, PTL

(* The free blocks of all regions are disjoint, and disjoint from all that *)
(* was handed out.                                                         *)
THEOREM FreeMemoryApart == ContractSpec => []FreeBlocksApart
<1>1. Inv => FreeBlocksApart
  <2> SUFFICES ASSUME Inv PROVE FreeBlocksApart
    OBVIOUS
  <2>1. TypeOK /\ ListsGood /\ RegionsGood /\ GrantsGood
    BY DEF Inv
  <2>2. ASSUME NEW d \in Live, NEW e \in Live, d # e PROVE Apart(blk[d], blk[e])
    <3>1. PICK i \in DOMAIN regions : d \in List(i)
      BY <2>1, ListFacts DEF Live
    <3>2. PICK j \in DOMAIN regions : e \in List(j)
      BY <2>1, ListFacts DEF Live
    <3>3. CASE i = j
      <4>1. GoodList(blk, List(i), regions[i].free_blocks, regions[i])
        BY <2>1, ListFacts
      <4> QED
        BY <2>2, <3>1, <3>2, <3>3, <4>1 DEF GoodList
    <3>4. CASE i # j
      <4>1. /\ blk[d].base \in Nat /\ blk[d].size \in Nat /\ Inside(blk[d], regions[i])
            /\ blk[e].base \in Nat /\ blk[e].size \in Nat /\ Inside(blk[e], regions[j])
        BY <2>1, <3>1, <3>2, ListFacts
      <4>2. /\ regions[i].base \in Nat /\ regions[i].size \in Nat
            /\ regions[j].base \in Nat /\ regions[j].size \in Nat
            /\ Apart(regions[i], regions[j])
        BY <2>1, <3>4 DEF RegionsGood
      <4>3. Apart(regions[j], blk[d])
        BY <4>1, <4>2, ApartInside
      <4> QED
        BY <4>1, <4>2, <4>3, ApartInside
    <3> QED
      BY <3>3, <3>4
  <2>3. ASSUME NEW d \in Live, NEW g \in DOMAIN grants PROVE Apart(blk[d], grants[g])
    <3>1. PICK i \in DOMAIN regions : d \in List(i)
      BY <2>1, ListFacts DEF Live
    <3> QED
      BY <2>1, <3>1 DEF GrantsGood, List
  <2> QED
    BY <2>2, <2>3 DEF FreeBlocksApart
<1> QED
  BY <1>1, ContractInvariant, PTL

(* What is handed out, and what is kept for handing out, lies in a region  *)
(* that pmm_add_region put under the control of the manager.               *)
THEOREM OnlyManagedMemory == ContractSpec => []AllManaged
<1>1. Inv => AllManaged
  <2> SUFFICES ASSUME Inv PROVE AllManaged
    OBVIOUS
  <2>1. TypeOK /\ ListsGood /\ RegionsGood /\ GrantsGood
    BY DEF Inv
  <2>2. \A d \in Live : \E i \in DOMAIN regions : Inside(blk[d], regions[i])
    BY <2>1, ListFacts DEF Live
  <2>3. \A g \in DOMAIN grants : \E i \in DOMAIN regions : Inside(grants[g], regions[i])
    BY <2>1 DEF GrantsGood
  <2> QED
    BY <2>2, <2>3 DEF AllManaged
<1> QED
  BY <1>1, ContractInvariant, PTL

(* region.free and pmm.free count exactly the bytes in free blocks, so the *)
(* early exits of pmm_alloc_aligned refuse no request that could be met    *)
(* and neither counter wraps around.                                       *)
THEOREM CountersRight == ContractSpec => []CountersExact
<1>1. Inv => CountersExact
  BY DEF Inv
<1> QED
  BY <1>1, ContractInvariant, PTL

(* Each free list is in the order of addresses, which the early stop of    *)
(* the walk in pmm_remove_region relies on.                                *)
THEOREM ListsStaySorted == ContractSpec => []ListsSorted
<1>1. Inv => ListsSorted
  <2> SUFFICES ASSUME Inv, NEW d \in Live, blk[d].next # NULL
               PROVE  End(blk[d]) <= blk[blk[d].next].base
    BY DEF ListsSorted
  <2>1. TypeOK /\ ListsGood /\ RegionsGood
    BY DEF Inv
  <2>2. PICK i \in DOMAIN regions : d \in List(i)
    BY <2>1, ListFacts DEF Live
  <2>3. /\ GoodList(blk, List(i), regions[i].free_blocks, regions[i])
        /\ End(blk[d]) = blk[d].base + blk[d].size
    BY <2>1, <2>2, ListFacts
  <2> QED
    BY <2>2, <2>3 DEF GoodList
<1> QED
  BY <1>1, ContractInvariant, PTL

(* Only an area or a grant with more than the alignment of a page costs a  *)
(* descriptor, so pmm_alloc alone never brings the manager to its TODO.    *)
THEOREM DescriptorsAccounted == ContractSpec => []DescriptorsPaid
<1>1. Inv => DescriptorsPaid
  BY DEF Inv
<1> QED
  BY <1>1, ContractInvariant, PTL

-----------------------------------------------------------------------------
(* Pages and bytes.                                                        *)

(* Multiples of p are in the order of the factors. *)
LEMMA FactorOrder ==
  ASSUME NEW u \in Int, NEW v \in Int, NEW p \in Int, p > 0
  PROVE  (p * u <= p * v <=> u <= v) /\ (p * u < p * v <=> u < v)
<1>1. ASSUME u <= v PROVE p * u <= p * v
  BY <1>1
<1>2. ASSUME u < v PROVE p * u < p * v
  <2>1. p * (u + 1) <= p * v /\ p * (u + 1) = p * u + p /\ p * u \in Int /\ p * v \in Int
    BY <1>2
  <2> QED
    BY <2>1
<1>3. ASSUME v <= u PROVE p * v <= p * u
  BY <1>3
<1>4. ASSUME v < u PROVE p * v < p * u
  <2>1. p * (v + 1) <= p * u /\ p * (v + 1) = p * v + p /\ p * u \in Int /\ p * v \in Int
    BY <1>4
  <2> QED
    BY <2>1
<1>5. p * u \in Int /\ p * v \in Int
  OBVIOUS
<1> QED
  BY <1>1, <1>2, <1>3, <1>4, <1>5

(* The quotient is the factor of the multiple at or just below. *)
LEMMA QuotientIs ==
  ASSUME NEW x \in Int, NEW q \in Int, NEW p \in Int, p > 0, p * q <= x, x < p * q + p
  PROVE  x \div p = q
<1> DEFINE k == x \div p
           r == x % p
<1>1. k \in Int /\ r \in Int /\ 0 <= r /\ r < p /\ x = p * k + r
  BY DivMod
<1> HIDE DEF k, r
<1>2. p * q < p * (k + 1) /\ p * k < p * (q + 1)
  <2>1. p * (k + 1) = p * k + p /\ p * (q + 1) = p * q + p /\ p * k \in Int /\ p * q \in Int
    BY <1>1
  <2> QED
    BY <1>1, <2>1
<1>3. q < k + 1 /\ k < q + 1
  BY <1>1, <1>2, FactorOrder
<1> QED
  BY <1>1, <1>3 DEF k

(* The quotient of a multiple. *)
LEMMA QuotientExact ==
  ASSUME NEW x \in Int, NEW p \in Int, p > 0, x % p = 0
  PROVE  x \div p \in Int /\ x = p * (x \div p)
BY DivMod

(* The constants of pages. *)
P == BASE_PAGE_SIZE

(* A page size is positive. *)
LEMMA PageSize == P \in Int /\ P \in Nat /\ P > 0
BY PageArithmetic DEF P

(* The extents the manager keeps. *)
Whole(x) == x.base \in Nat /\ x.size \in Nat /\ Paged(x)

(* The pages of an extent are those whose first byte lies in it. *)
LEMMA PagesByte ==
  ASSUME NEW x, Whole(x)
  PROVE  /\ \A q : q \in PagesOf(x) <=> q \in Int /\ P * q \in Bytes(x)
         /\ \A q \in Int : P * q \in Bytes(x) <=>
              x.base <= P * q /\ P * q < x.base + x.size
<1> DEFINE u == x.base \div P
           v == (x.base + x.size) \div P
<1>1. x.base \in Int /\ x.size \in Int /\ x.base % P = 0 /\ x.size % P = 0
  BY DEF Whole, Paged, P
<1>2. (x.base + x.size) % P = 0 /\ x.base + x.size \in Int
  BY <1>1, PageSize, ModSum
<1>3. u \in Int /\ x.base = P * u
  BY <1>1, PageSize, QuotientExact
<1>4. v \in Int /\ x.base + x.size = P * v
  BY <1>2, PageSize, QuotientExact
<1>5. PagesOf(x) = u .. v - 1
  BY DEF PagesOf, P
<1> HIDE DEF u, v
<1>6. ASSUME NEW q \in Int
      PROVE  /\ P * q \in Bytes(x) <=> x.base <= P * q /\ P * q < x.base + x.size
             /\ q \in PagesOf(x) <=> x.base <= P * q /\ P * q < x.base + x.size
  <2>1. P * q \in Int
    BY PageSize
  <2>2. (P * u <= P * q <=> u <= q) /\ (P * q < P * v <=> q < v)
    BY <1>3, <1>4, PageSize, FactorOrder
  <2>3. P * q \in Bytes(x) <=> x.base <= P * q /\ P * q < x.base + x.size
    BY <1>1, <2>1 DEF Bytes
  <2>4. q \in PagesOf(x) <=> u <= q /\ q < v
    BY <1>3, <1>4, <1>5
  <2> QED
    BY <1>3, <1>4, <2>2, <2>3, <2>4
<1>7. PagesOf(x) \subseteq Int
  BY <1>3, <1>4, <1>5
<1> QED
  BY <1>6, <1>7

-----------------------------------------------------------------------------
(* The abstract state.                                                     *)

Areas == [i \in DOMAIN regions |-> PagesOf(regions[i])]
Avail == UNION {PagesOf(blk[d]) : d \in Live}
Held  == [g \in DOMAIN grants |-> [page |-> grants[g].base \div BASE_PAGE_SIZE,
                                   count |-> grants[g].size \div BASE_PAGE_SIZE]]

(* No two blocks of a list touch: what lies between them is in use or was  *)
(* removed.                                                                *)
Separate(b, T) == \A d, e \in T : b[d].base + b[d].size # b[e].base

Gaps == \A i \in DOMAIN regions : Separate(blk, List(i))

(* Regions and free blocks consist of pages. *)
LEMMA AllWhole ==
  ASSUME Inv
  PROVE  /\ \A i \in DOMAIN regions : Whole(regions[i])
         /\ \A i \in DOMAIN regions : \A d \in List(i) : Whole(blk[d])
<1>1. TypeOK /\ ListsGood /\ RegionsGood
  BY DEF Inv
<1>2. (\A i \in DOMAIN regions : Paged(regions[i])) /\ (\A d \in Used : Paged(blk[d]))
  BY PagesUnfolded DEF Inv
<1>3. ASSUME NEW i \in DOMAIN regions PROVE Whole(regions[i])
  BY <1>1, <1>2 DEF Whole, RegionsGood
<1>4. ASSUME NEW i \in DOMAIN regions, NEW d \in List(i) PROVE Whole(blk[d])
  <2>1. d \in Used /\ blk[d].base \in Nat /\ blk[d].size \in Nat
    BY <1>1, ListFacts
  <2> QED
    BY <1>2, <2>1 DEF Whole
<1> QED
  BY <1>3, <1>4

(* A page is available when its first byte is free. *)
LEMMA AvailBytes ==
  ASSUME Inv
  PROVE  \A q : q \in Avail <=> q \in Int /\ P * q \in AllFreeBytes
<1>1. \A i \in DOMAIN regions : FreeBlocks(i) = List(i)
  BY ListFacts DEF Inv
<1>2. ASSUME NEW i \in DOMAIN regions, NEW d \in List(i), NEW q
      PROVE  q \in PagesOf(blk[d]) <=> q \in Int /\ P * q \in Bytes(blk[d])
  <2>1. Whole(blk[d])
    BY AllWhole
  <2> QED
    BY <2>1, PagesByte
<1>3. \A q : q \in Avail <=> \E i \in DOMAIN regions : \E d \in List(i) : q \in PagesOf(blk[d])
  BY <1>1 DEF Avail, Live
<1>4. \A v : v \in AllFreeBytes <=> \E i \in DOMAIN regions : \E d \in List(i) : v \in Bytes(blk[d])
  BY <1>1 DEF AllFreeBytes, FreeBytes
<1> QED
  BY <1>2, <1>3, <1>4

(* The available pages of a region are those whose first byte is in its    *)
(* list.                                                                   *)
LEMMA AreaBytes ==
  ASSUME Inv, NEW i \in DOMAIN regions
  PROVE  \A q : q \in Avail \cap PagesOf(regions[i]) <=> q \in Int /\ P * q \in FreeBytes(i)
<1>1. TypeOK /\ ListsGood /\ RegionsGood
  BY DEF Inv
<1>2. Whole(regions[i])
  BY AllWhole
<1>3. \A q : q \in PagesOf(regions[i]) <=> q \in Int /\ P * q \in Bytes(regions[i])
  BY <1>2, PagesByte
<1>4. FreeBytes(i) \subseteq Bytes(regions[i])
  BY <1>1, FreeBytesFacts
<1>5. ASSUME NEW v, v \in AllFreeBytes, v \in Bytes(regions[i]) PROVE v \in FreeBytes(i)
  <2>1. PICK j \in DOMAIN regions : v \in FreeBytes(j)
    BY <1>5 DEF AllFreeBytes
  <2>2. v \in Bytes(regions[j])
    BY <1>1, <2>1, FreeBytesFacts
  <2>3. SUFFICES ASSUME j # i PROVE FALSE
    BY <2>1
  <2>4. /\ regions[i].base \in Nat /\ regions[i].size \in Nat
        /\ regions[j].base \in Nat /\ regions[j].size \in Nat
        /\ Apart(regions[i], regions[j])
    BY <1>1, <2>3 DEF RegionsGood
  <2> QED
    BY <1>5, <2>2, <2>4 DEF Apart, Bytes
<1>6. FreeBytes(i) \subseteq AllFreeBytes
  BY DEF AllFreeBytes
<1> QED
  BY <1>3, <1>4, <1>5, <1>6, AvailBytes

(* A run of free pages of a region lies in one block: the page behind the  *)
(* block of its first page is not free.                                    *)
LEMMA RunInBlock ==
  ASSUME Inv, Gaps, NEW i \in DOMAIN regions, NEW p \in Int, NEW n \in Int, n > 0,
         \A q \in p .. p + n - 1 : P * q \in FreeBytes(i)
  PROVE  \E d \in List(i) :
           blk[d].base <= P * p /\ P * (p + n) <= blk[d].base + blk[d].size
<1>1. TypeOK /\ ListsGood /\ RegionsGood
  BY DEF Inv
<1>2. \A v : v \in FreeBytes(i) <=> \E d \in List(i) : v \in Bytes(blk[d])
  BY <1>1, FreeBytesFacts DEF ListBytes
<1>3. PICK d \in List(i) : P * p \in Bytes(blk[d])
  <2>1. p \in p .. p + n - 1
    OBVIOUS
  <2> QED
    BY <1>2, <2>1
<1> DEFINE x == blk[d].base
           y == blk[d].base + blk[d].size
           q == y \div P
<1>4. Whole(blk[d]) /\ blk[d].base \in Nat /\ blk[d].size \in Nat
  BY AllWhole DEF Whole
<1>5. x <= P * p /\ P * p < y
  BY <1>3, <1>4, PagesByte
<1>6. y % P = 0 /\ y \in Int
  BY <1>4, PageSize, ModSum DEF Whole, Paged, P
<1>7. q \in Int /\ y = P * q
  BY <1>6, PageSize, QuotientExact
<1>8. SUFFICES ASSUME ~(P * (p + n) <= y) PROVE FALSE
  BY <1>5
<1> HIDE DEF q
<1>9. P * q < P * (p + n) /\ P * p < P * q
  <2>1. P * (p + n) \in Int /\ P * p \in Int
    BY PageSize
  <2> QED
    BY <1>5, <1>6, <1>7, <1>8, <2>1
<1>10. q < p + n /\ p < q
  BY <1>7, <1>9, PageSize, FactorOrder
<1>11. P * q \in FreeBytes(i)
  BY <1>7, <1>10
<1>12. PICK e \in List(i) : y \in Bytes(blk[e])
  BY <1>2, <1>7, <1>11
<1>13. blk[e].base \in Nat /\ blk[e].size \in Nat
  BY AllWhole DEF Whole
<1>14. blk[e].base <= y /\ y < blk[e].base + blk[e].size
  BY <1>6, <1>12, <1>13 DEF Bytes
<1>15. d # e
  BY <1>4, <1>14
<1>16. Apart(blk[d], blk[e])
  BY <1>1, <1>15, ListFacts DEF GoodList
<1>17. y # blk[e].base
  BY DEF Gaps, Separate
<1> QED
  BY <1>4, <1>13, <1>14, <1>16, <1>17 DEF Apart

-----------------------------------------------------------------------------
(* Blocks never touch.                                                     *)

(* Taking bytes out of a block leaves a gap. *)
LEMMA CarvedSeparate ==
  ASSUME NEW b, NEW b2, NEW T, NEW T2, NEW h, NEW h2, NEW r, NEW r2, NEW d \in T, NEW c,
         GoodList(b, T, h, r), GoodList(b2, T2, h2, r2), c.base \in Nat, c.size \in Nat \ {0},
         Inside(c, b[d]), Carved(b, T, b2, T2, d, c), Separate(b, T)
  PROVE  Separate(b2, T2)
<1> DEFINE end(t, e) == t[e].base + t[e].size
           Piece(e) == \/ b2[e].base = b[d].base /\ end(b2, e) = c.base
                       \/ b2[e].base = c.base + c.size /\ end(b2, e) = end(b, d)
<1>1. /\ \A e \in T : b[e].base \in Nat /\ b[e].size \in Nat \ {0}
      /\ \A e \in T2 : b2[e].base \in Nat /\ b2[e].size \in Nat \ {0}
  BY DEF GoodList
<1>2. /\ \A e \in T2 : e \in T \ {d} \/ Piece(e)
      /\ \A e \in T \ {d} : b2[e].base = b[e].base /\ b2[e].size = b[e].size
  BY DEF Carved
<1>3. b[d].base <= c.base /\ c.base + c.size <= end(b, d)
  BY DEF Inside
<1>4. \A e \in T \ {d} : /\ end(b, e) <= b[d].base \/ end(b, d) <= b[e].base
                         /\ end(b, e) # b[d].base /\ end(b, d) # b[e].base
  BY DEF GoodList, Apart, Separate
<1>5. \A e, f \in T : end(b, e) # b[f].base
  BY DEF Separate
<1> SUFFICES ASSUME NEW e \in T2, NEW f \in T2 PROVE end(b2, e) # b2[f].base
  BY DEF Separate
<1>6. CASE e \in T \ {d} /\ f \in T \ {d}
  BY <1>2, <1>5, <1>6
<1>7. CASE e \in T \ {d} /\ Piece(f)
  <2>1. b[d].base <= b2[f].base /\ end(b2, f) <= end(b, d)
    BY <1>1, <1>3, <1>7
  <2>2. end(b2, e) = end(b, e) /\ b[e].base \in Nat /\ b[e].size \in Nat \ {0}
    BY <1>1, <1>2, <1>7
  <2>3. CASE end(b, e) <= b[d].base
    BY <1>1, <1>4, <1>7, <2>1, <2>2, <2>3
  <2>4. CASE end(b, d) <= b[e].base
    BY <1>1, <2>1, <2>2, <2>4
  <2> QED
    BY <1>4, <1>7, <2>3, <2>4
<1>8. CASE Piece(e) /\ f \in T \ {d}
  <2>1. b[d].base <= b2[e].base /\ end(b2, e) <= end(b, d)
    BY <1>1, <1>3, <1>8
  <2>2. b2[f].base = b[f].base /\ b[f].base \in Nat /\ b[f].size \in Nat \ {0}
    BY <1>1, <1>2, <1>8
  <2>3. CASE end(b, f) <= b[d].base
    BY <1>1, <2>1, <2>2, <2>3
  <2>4. CASE end(b, d) <= b[f].base
    BY <1>1, <1>4, <1>8, <2>1, <2>2, <2>4
  <2> QED
    BY <1>4, <1>8, <2>3, <2>4
<1>9. CASE Piece(e) /\ Piece(f)
  BY <1>1, <1>3, <1>9
<1> QED
  BY <1>2, <1>6, <1>7, <1>8, <1>9

(* A step that takes bytes out of a block keeps the gaps. *)
LEMMA CarveGaps ==
  ASSUME Inv, Gaps, NEW i \in DOMAIN regions, NEW d \in List(i), NEW c,
         c.base \in Nat, c.size \in Nat \ {0}, Inside(c, blk[d]), TakenFrom(i, d, c)
  PROVE  Gaps'
<1>1. TypeOK /\ ListsGood /\ RegionsGood
  BY DEF Inv
<1>2. Separate(blk', ListP(i))
  <2> DEFINE T == List(i)
             T2 == ListP(i)
  <2>1. /\ GoodList(blk, T, regions[i].free_blocks, regions[i])
        /\ GoodList(blk', T2, regions'[i].free_blocks, regions[i])
        /\ Carved(blk, T, blk', T2, d, c) /\ Separate(blk, T) /\ d \in T
    BY <1>1, ListFacts DEF TakenFrom, Gaps
  <2> HIDE DEF T, T2
  <2>2. Separate(blk', T2)
    BY <2>1, CarvedSeparate
  <2> QED
    BY <2>2 DEF T2
<1>3. ASSUME NEW j \in DOMAIN regions \ {i} PROVE Separate(blk', ListP(j))
  <2>1. ListP(j) = List(j) /\ \A e \in List(j) : blk'[e] = blk[e]
    BY <1>1, OtherLists
  <2> QED
    BY <2>1 DEF Gaps, Separate
<1>4. DOMAIN regions' = DOMAIN regions
  BY DEF TakenFrom
<1>5. \A j \in DOMAIN regions' : Separate(blk', ListP(j))
  BY <1>2, <1>3, <1>4
<1> QED
  BY <1>5 DEF Gaps, List, ListP

(* So does a new region, which has one block. *)
LEMMA AddGaps ==
  ASSUME Inv, Gaps, NEW k, NEW n, NEW ab, NEW sz, NewArea(ab, sz), Added(k, n, ab, sz)
  PROVE  Gaps'
<1>1. TypeOK /\ ListsGood /\ RegionsGood
  BY DEF Inv
<1>2. ListP(k) = {n} /\ \A j \in DOMAIN regions : ListP(j) = List(j)
  BY <1>1, AddLists
<1>3. Separate(blk', ListP(k))
  <2>1. blk'[n].base = ab /\ blk'[n].size = sz
    BY DEF Added, Block
  <2>2. ab + sz # ab
    BY DEF NewArea
  <2> QED
    BY <1>2, <2>1, <2>2 DEF Separate
<1>4. ASSUME NEW j \in DOMAIN regions PROVE Separate(blk', ListP(j))
  <2>1. List(j) \subseteq Used
    BY <1>1, ListFacts
  <2>2. \A e \in List(j) : blk'[e] = blk[e]
    BY <2>1 DEF Added
  <2> QED
    BY <1>2, <2>2 DEF Gaps, Separate
<1>5. \A j \in DOMAIN regions' : Separate(blk', ListP(j))
  BY <1>3, <1>4 DEF Added
<1> QED
  BY <1>5 DEF Gaps, List, ListP

-----------------------------------------------------------------------------
(* Runs of pages and blocks that fit.                                      *)

(* ALIGN_UP yields the least multiple that is not below. *)
LEMMA AlignUpLeast ==
  ASSUME NEW x \in Nat, x <= HALF, NEW a \in PowersOfTwo
  PROVE  /\ AlignUp(x, a) % a = 0
         /\ \A m \in Int : m % a = 0 /\ x <= m => AlignUp(x, a) <= m
<1> DEFINE y == x + (a - 1)
           z == AlignDown(y, a)
<1>1. HALF \in Nat /\ WORD = 2 * HALF /\ a \in Nat /\ a \in Int /\ a > 0 /\ a <= HALF
  BY SizeTAssumption DEF WORD
<1>2. y \in Nat /\ y \in Int /\ y < x + a /\ Plus(x, a - 1) = y
  BY <1>1 DEF Plus
<1>3. AlignUp(x, a) = z
  BY <1>2 DEF AlignUp
<1> HIDE DEF y
<1>4. z \in Nat /\ z <= y
  BY <1>1, <1>2, AlignDownBounds
<1>5. z % a = 0
  BY <1>1, <1>2, AlignDownMultiple
<1> HIDE DEF z
<1>6. ASSUME NEW m \in Int, m % a = 0, x <= m, m < z PROVE FALSE
  <2>1. m + a <= z
    BY <1>1, <1>4, <1>5, <1>6, MultiplesApart
  <2> QED
    BY <1>1, <1>2, <1>4, <1>6, <2>1
<1> QED
  BY <1>3, <1>4, <1>5, <1>6

(* A request is rounded to the pages PhysMem counts. *)
LEMMA AllocCount ==
  ASSUME NEW size \in SizeT, AllocContract(size)
  PROVE  /\ Memory!Count(size) \in Int /\ Memory!Count(size) > 0
         /\ AllocSize(size) = P * Memory!Count(size)
<1> DEFINE y == size + (P - 1)
           k == y \div P
<1>1. HALF \in Nat /\ WORD = 2 * HALF /\ size \in Nat /\ size > 0 /\ size <= HALF /\ P <= HALF
  BY SizeTAssumption, PageArithmetic DEF WORD, AllocContract, P
<1>2. y \in Int /\ y >= P /\ Plus(size, P - 1) = y /\ size + P - 1 = y
  BY <1>1, PageSize DEF Plus
<1>3. Memory!Count(size) = k
  BY <1>2 DEF Memory!Count, P
<1>4. AllocSize(size) = y - (y % P)
  BY <1>2 DEF AllocSize, AlignUp, AlignDown, P
<1> HIDE DEF y
<1>5. k \in Int /\ y % P \in Int /\ y % P < P /\ y = P * k + (y % P)
  BY <1>2, PageSize, DivMod
<1>6. P * k \in Int
  BY <1>5, PageSize
<1> HIDE DEF k
<1>7. AllocSize(size) = P * k /\ P * k > 0
  BY <1>2, <1>4, <1>5, <1>6, PageSize
<1>8. k > 0
  <2>1. P * 0 < P * k
    BY <1>7, PageSize
  <2> QED
    BY <1>5, <2>1, PageSize, FactorOrder
<1> QED
  BY <1>3, <1>5, <1>7, <1>8

(* The places of PhysMem, in bytes. *)
LEMMA PlaceMeans ==
  ASSUME Inv, NEW i \in DOMAIN regions, NEW n \in Int, n > 0, NEW a, NEW p
  PROVE  p \in Memory!Places(i, n, a) <=>
           p \in Int /\ (P * p) % a = 0 /\ \A q \in p .. p + n - 1 : P * q \in FreeBytes(i)
<1> DEFINE A == PagesOf(regions[i])
<1>1. p \in Memory!Places(i, n, a) <=>
        p \in A /\ (P * p) % a = 0 /\ p .. p + n - 1 \subseteq Avail \cap A
  BY DEF Memory!Places, Memory!Run, Avail, P
<1>2. \A q : q \in Avail \cap A <=> q \in Int /\ P * q \in FreeBytes(i)
  BY AreaBytes
<1>3. A \subseteq Int
  BY AllWhole, PagesByte
<1> HIDE DEF A
<1>4. ASSUME p \in Int PROVE p \in p .. p + n - 1 /\ p .. p + n - 1 \subseteq Int
  BY <1>4
<1> QED
  BY <1>1, <1>2, <1>3, <1>4

(* The first aligned address of a block that fits is a place. *)
LEMMA FitIsPlace ==
  ASSUME Inv, NEW i \in DOMAIN regions, NEW d \in List(i), NEW a \in PowersOfTwo,
         a >= BASE_PAGE_SIZE, NEW n \in Int, n > 0,
         AlignUp(blk[d].base, a) + P * n <= blk[d].base + blk[d].size
  PROVE  /\ AlignUp(blk[d].base, a) \div P \in Memory!Places(i, n, a)
         /\ AlignUp(blk[d].base, a) = P * (AlignUp(blk[d].base, a) \div P)
         /\ AlignUp(blk[d].base, a) \div P \in Int
<1> DEFINE ab == AlignUp(blk[d].base, a)
           p == ab \div P
<1>1. TypeOK /\ ListsGood /\ RegionsGood
  BY DEF Inv
<1>2. /\ blk[d].base \in Nat /\ blk[d].size \in Nat /\ blk[d].base + blk[d].size <= HALF
      /\ blk[d].base <= HALF
  <2>1. HALF \in Nat
    BY SizeTAssumption
  <2> QED
    BY <1>1, <2>1, ListFacts
<1>3. ab \in Nat /\ ab \in Int /\ blk[d].base <= ab
  BY <1>2, AlignUpBounds
<1>4. ab % a = 0
  BY <1>2, AlignUpLeast
<1>5. ab % P = 0
  <2>1. a \in Int /\ a > 0 /\ a % P = 0
    BY SizeTAssumption, PmmAssumption DEF P
  <2> QED
    BY <1>3, <1>4, <2>1, PageSize, ModTransitive
<1>6. p \in Int /\ ab = P * p
  BY <1>3, <1>5, PageSize, QuotientExact
<1>7. ab + P * n <= blk[d].base + blk[d].size
  OBVIOUS
<1> HIDE DEF ab, p
<1>8. ASSUME NEW q \in p .. p + n - 1 PROVE P * q \in FreeBytes(i)
  <2>1. q \in Int /\ p <= q /\ q < p + n
    BY <1>6, <1>8
  <2>2. P * p <= P * q /\ P * q < P * (p + n)
    BY <1>6, <2>1, PageSize, FactorOrder
  <2>3. P * (p + n) = P * p + P * n /\ P * p \in Int /\ P * n \in Int /\ P * q \in Int
    BY <1>6, <2>1, PageSize
  <2>4. P * q \in Bytes(blk[d])
    BY <1>2, <1>3, <1>6, <1>7, <2>2, <2>3 DEF Bytes
  <2> QED
    BY <1>1, <2>4, FreeBytesFacts DEF ListBytes
<1>9. p \in Memory!Places(i, n, a)
  BY <1>4, <1>6, <1>8, PlaceMeans
<1> QED
  BY <1>6, <1>9 DEF ab, p

(* A place lies in a block that fits, and the counters admit the request. *)
LEMMA PlaceIsFit ==
  ASSUME Inv, Gaps, NEW i \in DOMAIN regions, NEW a \in PowersOfTwo,
         NEW n \in Int, n > 0, NEW p \in Memory!Places(i, n, a)
  PROVE  /\ \E d \in Fitting(i, P * n, a) : blk[d].base <= P * p
         /\ HasRoom(i, P * n, a) /\ free >= P * n /\ p \in Int /\ (P * p) % a = 0
<1>1. TypeOK /\ ListsGood /\ RegionsGood /\ CountersExact
  BY DEF Inv
<1>2. p \in Int /\ (P * p) % a = 0 /\ \A q \in p .. p + n - 1 : P * q \in FreeBytes(i)
  BY PlaceMeans
<1>3. PICK d \in List(i) : blk[d].base <= P * p /\ P * (p + n) <= blk[d].base + blk[d].size
  BY <1>2, RunInBlock
<1> DEFINE x == blk[d].base
           m == P * n
           z == P * p
           ab == AlignUp(x, a)
<1>4. HALF \in Nat /\ WORD = 2 * HALF /\ HALF > 0
  BY SizeTAssumption DEF WORD
<1>5. /\ x \in Nat /\ blk[d].size \in Nat /\ x + blk[d].size <= HALF /\ x <= HALF
      /\ End(blk[d]) = x + blk[d].size /\ d \in FreeBlocks(i)
  BY <1>1, <1>4, ListFacts
<1>6. m \in Int /\ z \in Int /\ P * (p + n) = z + m /\ m > 0
  <2>1. P * 0 < P * n
    BY PageSize, FactorOrder
  <2> QED
    BY <1>2, <2>1, PageSize
<1>7. ab \in Nat /\ x <= ab
  BY <1>5, AlignUpBounds
<1>8. ab <= z
  BY <1>2, <1>3, <1>5, <1>6, AlignUpLeast
<1>9. x <= z /\ z + m <= x + blk[d].size
  BY <1>3, <1>6
<1> HIDE DEF m, z, ab
<1>10. ab + m <= x + blk[d].size /\ Plus(ab, m) = ab + m
  BY <1>4, <1>5, <1>6, <1>7, <1>8, <1>9 DEF Plus
<1>11. d \in Fitting(i, m, a)
  BY <1>5, <1>10 DEF Fitting, ab
<1>12. blk[d].size >= m
  BY <1>5, <1>6, <1>9
<1>13. regions[i].free \in Nat /\ regions[i].free >= blk[d].size /\ free \in Nat /\ free >= blk[d].size
  <2>1. IsFiniteSet(Bytes(blk[d])) /\ Cardinality(Bytes(blk[d])) = blk[d].size
    BY <1>5, CardBytes
  <2>2. Bytes(blk[d]) \subseteq FreeBytes(i) /\ Bytes(blk[d]) \subseteq AllFreeBytes
    BY <1>1, FreeBytesFacts DEF ListBytes, AllFreeBytes
  <2>3. IsFiniteSet(FreeBytes(i)) /\ IsFiniteSet(AllFreeBytes)
    BY <1>1, FreeBytesFacts
  <2>4. /\ Cardinality(Bytes(blk[d])) <= Cardinality(FreeBytes(i))
        /\ Cardinality(Bytes(blk[d])) <= Cardinality(AllFreeBytes)
        /\ Cardinality(FreeBytes(i)) \in Nat /\ Cardinality(AllFreeBytes) \in Nat
    BY <2>2, <2>3, FS_Subset, FS_CardinalityType
  <2>5. regions[i].free = Cardinality(FreeBytes(i)) /\ free = Cardinality(AllFreeBytes)
    BY <1>1 DEF CountersExact
  <2> QED
    BY <1>5, <2>1, <2>4, <2>5
<1>14. HasRoom(i, m, a) /\ free >= m
  BY <1>5, <1>6, <1>11, <1>12, <1>13 DEF HasRoom
<1> QED
  BY <1>2, <1>9, <1>11, <1>14 DEF m, z

-----------------------------------------------------------------------------
(* The abstract state after a step.                                        *)

(* What AvailBytes says, as a predicate of a state. *)
AvailInBytes == \A q : q \in Avail <=> q \in Int /\ P * q \in AllFreeBytes

(* It holds in the next state too. *)
LEMMA AvailBytesAfter == Inv' => AvailInBytes'
<1>1. Inv => AvailInBytes
  BY AvailBytes DEF AvailInBytes
<1> QED
  BY <1>1, PTL

(* Taking c takes its pages. *)
LEMMA PagesTaken ==
  ASSUME Inv, Inv', NEW i \in DOMAIN regions, NEW d \in List(i), NEW c,
         Whole(c), Inside(c, blk[d]), TakenFrom(i, d, c)
  PROVE  Avail' = Avail \ PagesOf(c) /\ Areas' = Areas
<1>1. TypeOK /\ ListsGood /\ RegionsGood /\ c.base \in Nat /\ c.size \in Nat
  BY DEF Inv, Whole
<1>2. AllFreeBytes' = AllFreeBytes \ Bytes(c)
  BY <1>1, CarveBytes
<1>3. \A q : q \in Avail' <=> q \in Int /\ P * q \in AllFreeBytes'
  BY AvailBytesAfter DEF AvailInBytes, P
<1>4. \A q : q \in PagesOf(c) <=> q \in Int /\ P * q \in Bytes(c)
  BY PagesByte
<1>5. \A q : q \in Avail <=> q \in Int /\ P * q \in AllFreeBytes
  BY AvailBytes
<1>6. \A q : q \in Avail' <=> q \in Avail \ PagesOf(c)
  BY <1>2, <1>3, <1>4, <1>5
<1>7. Areas' = Areas
  <2>1. DOMAIN regions' = DOMAIN regions
    BY DEF TakenFrom
  <2>2. \A j \in DOMAIN regions : PagesOf(regions'[j]) = PagesOf(regions[j])
    BY DEF TakenFrom, PagesOf
  <2> QED
    BY <2>1, <2>2 DEF Areas
<1> QED
  BY <1>6, <1>7

(* The pages that lie in a range are those of the rounded range. *)
LEMMA PagesInIs ==
  ASSUME NEW base \in Nat, NEW size \in Nat, NEW ab \in Nat, NEW sz \in Nat,
         ab % P = 0, sz % P = 0, base <= ab, ab < base + P,
         ab + sz <= base + size, base + size < ab + sz + P
  PROVE  Memory!PagesIn(base, size) = PagesOf(Extent(ab, sz))
<1> DEFINE u == ab \div P
           v == (ab + sz) \div P
<1>1. u \in Int /\ ab = P * u
  BY PageSize, QuotientExact
<1>2. (ab + sz) % P = 0 /\ ab + sz \in Int
  BY PageSize, ModSum
<1>3. v \in Int /\ ab + sz = P * v
  BY <1>2, PageSize, QuotientExact
<1>4. PagesOf(Extent(ab, sz)) = u .. v - 1
  BY DEF PagesOf, Extent, P
<1>5. Memory!PagesIn(base, size) = (base + P - 1) \div P .. ((base + size) \div P) - 1
  BY DEF Memory!PagesIn, P
<1> HIDE DEF u, v
<1>6. (base + P - 1) \div P = u
  <2> DEFINE y == base + P - 1
  <2>1. y \in Int /\ P * u <= y /\ y < P * u + P
    BY <1>1, PageSize
  <2> HIDE DEF y
  <2>2. y \div P = u
    BY <1>1, <2>1, PageSize, QuotientIs
  <2> QED
    BY <2>2 DEF y
<1>7. (base + size) \div P = v
  <2> DEFINE y == base + size
  <2>1. y \in Int /\ P * v <= y /\ y < P * v + P
    BY <1>3, PageSize
  <2> HIDE DEF y
  <2>2. y \div P = v
    BY <1>3, <2>1, PageSize, QuotientIs
  <2> QED
    BY <2>2 DEF y
<1> QED
  BY <1>4, <1>5, <1>6, <1>7

(* The pages of an extent are a run. *)
LEMMA ExtentRun ==
  ASSUME NEW c, Whole(c)
  PROVE  /\ c.base \div P \in Int /\ c.size \div P \in Int
         /\ c.base = P * (c.base \div P) /\ c.size = P * (c.size \div P)
         /\ PagesOf(c) = c.base \div P .. (c.base \div P) + (c.size \div P) - 1
         /\ c.size > 0 => c.size \div P > 0
<1> DEFINE u == c.base \div P
           n == c.size \div P
<1>1. c.base \in Int /\ c.size \in Int /\ c.base % P = 0 /\ c.size % P = 0
  BY DEF Whole, Paged, P
<1>2. u \in Int /\ c.base = P * u /\ n \in Int /\ c.size = P * n
  BY <1>1, PageSize, QuotientExact
<1>3. PagesOf(c) = u .. ((c.base + c.size) \div P) - 1
  BY DEF PagesOf, P
<1> HIDE DEF u, n
<1>4. (c.base + c.size) \div P = u + n
  <2> DEFINE y == c.base + c.size
  <2>1. P * (u + n) = P * u + P * n
    BY <1>2, PageSize
  <2>2. y \in Int /\ y = P * (u + n) /\ u + n \in Int
    BY <1>1, <1>2, <2>1
  <2> HIDE DEF y
  <2>3. y \div P = u + n
    BY <2>2, PageSize, QuotientIs
  <2> QED
    BY <2>3 DEF y
<1>5. ASSUME c.size > 0 PROVE n > 0
  <2>1. P * 0 < P * n
    BY <1>2, <1>5, PageSize
  <2> QED
    BY <1>2, <2>1, PageSize, FactorOrder
<1> QED
  BY <1>2, <1>3, <1>4, <1>5 DEF u, n

(* A range of pages can be removed from a region when it lies in a block. *)
LEMMA RemovableMeans ==
  ASSUME Inv, Gaps, NEW i \in DOMAIN regions, NEW c, Whole(c), c.size > 0
  PROVE  PagesOf(c) \subseteq Avail \cap PagesOf(regions[i]) <=>
           \E d \in List(i) : Inside(c, blk[d])
<1> DEFINE p == c.base \div P
           n == c.size \div P
           A == PagesOf(regions[i])
<1>1. /\ p \in Int /\ n \in Int /\ n > 0 /\ c.base = P * p /\ c.size = P * n
      /\ PagesOf(c) = p .. p + n - 1 /\ c.base \in Nat /\ c.size \in Nat
  BY ExtentRun DEF Whole
<1>2. \A q : q \in Avail \cap A <=> q \in Int /\ P * q \in FreeBytes(i)
  BY AreaBytes
<1> HIDE DEF p, n, A
<1>3. P * (p + n) = c.base + c.size
  BY <1>1, PageSize
<1>4. ASSUME PagesOf(c) \subseteq Avail \cap A PROVE \E d \in List(i) : Inside(c, blk[d])
  <2>1. \A q \in p .. p + n - 1 : P * q \in FreeBytes(i)
    BY <1>1, <1>2, <1>4
  <2>2. PICK d \in List(i) : blk[d].base <= P * p /\ P * (p + n) <= blk[d].base + blk[d].size
    BY <1>1, <2>1, RunInBlock
  <2> QED
    BY <1>1, <1>3, <2>2 DEF Inside
<1>5. ASSUME NEW d \in List(i), Inside(c, blk[d]) PROVE PagesOf(c) \subseteq Avail \cap A
  <2>1. blk[d].base \in Nat /\ blk[d].size \in Nat
    BY AllWhole DEF Whole
  <2>2. Bytes(c) \subseteq Bytes(blk[d])
    BY <1>1, <1>5, <2>1 DEF Inside, Bytes
  <2>3. Bytes(blk[d]) \subseteq FreeBytes(i)
    BY FreeBytesFacts DEF Inv, ListBytes
  <2>4. \A q \in PagesOf(c) : q \in Int /\ P * q \in Bytes(c)
    BY PagesByte
  <2> QED
    BY <1>2, <2>2, <2>3, <2>4
<1> QED
  BY <1>4, <1>5 DEF A

(* A walk through a sorted list meets the lowest block of a set first. *)
LEMMA FirstLowest ==
  ASSUME Inv, NEW i \in DOMAIN regions, NEW S, S \subseteq List(i), NEW d, IsFirst(d, S)
  PROVE  d \in S /\ \A e \in S : blk[d].base <= blk[e].base
<1>1. TypeOK /\ ListsGood /\ RegionsGood
  BY DEF Inv
<1>2. d \in S /\ d \in List(i) /\ S \subseteq Walk(blk, Used, d)
  BY ReachIsWalk DEF IsFirst
<1> DEFINE R == {e \in List(i) : blk[d].base <= blk[e].base}
<1>3. /\ List(i) \subseteq Used /\ \A e \in List(i) : blk[e].base \in Nat /\ blk[e].size \in Nat
      /\ GoodList(blk, List(i), regions[i].free_blocks, regions[i])
  BY <1>1, ListFacts
<1>4. R \in SUBSET Used /\ d \in R
  BY <1>2, <1>3
<1>5. ASSUME NEW e \in R PROVE blk[e].next \in R \cup {NULL}
  <2> DEFINE k == blk[e].next
  <2>1. SUFFICES ASSUME k # NULL PROVE k \in R
    OBVIOUS
  <2>2. k \in List(i) /\ blk[e].base + blk[e].size <= blk[k].base
    BY <1>3, <2>1 DEF GoodList, ClosedIn
  <2> HIDE DEF k
  <2> QED
    BY <1>2, <1>3, <2>2
<1>6. ClosedIn(blk, R)
  BY <1>5 DEF ClosedIn
<1> HIDE DEF R
<1>7. Walk(blk, Used, d) \subseteq R
  BY <1>4, <1>6, WalkLeast
<1> QED
  BY <1>2, <1>7 DEF R

-----------------------------------------------------------------------------
(* Every call is a call of PhysMem.                                        *)

(* A step that changes no list, region or grant. *)
LEMMA MemoryKept ==
  ASSUME UNCHANGED <<regions, blk, slabFree, grants>>
  PROVE  Areas' = Areas /\ Avail' = Avail /\ Held' = Held
<1>1. regions' = regions /\ blk' = blk /\ Used' = Used /\ grants' = grants
  BY DEF Used
<1>2. \A j : FreeBlocks(j)' = FreeBlocks(j)
  BY <1>1 DEF FreeBlocks, Reach, Closed
<1>3. Live' = Live
  BY <1>1, <1>2 DEF Live
<1> QED
  BY <1>1, <1>3 DEF Areas, Avail, Held

(* Append is the only sequence with its elements. *)
LEMMA AppendIs ==
  ASSUME NEW S, NEW q \in Seq(S), NEW x \in S, NEW f \in [1 .. Len(q) + 1 -> S],
         \A j \in 1 .. Len(q) : f[j] = q[j], f[Len(q) + 1] = x
  PROVE  f = Append(q, x)
<1> DEFINE g == Append(q, x)
           m == Len(q)
<1>1. /\ m \in Nat /\ g \in Seq(S) /\ Len(g) = m + 1 /\ g[m + 1] = x
      /\ \A j \in 1 .. m : g[j] = q[j]
  OBVIOUS
<1> HIDE DEF g, m
<1>2. g \in [1 .. m + 1 -> S]
  BY <1>1
<1>3. ASSUME NEW j \in 1 .. m + 1 PROVE f[j] = g[j]
  <2>1. j \in 1 .. m \/ j = m + 1
    BY <1>1
  <2> QED
    BY <1>1, <2>1 DEF m
<1> QED
  BY <1>2, <1>3 DEF g, m

(* The areas and the pages after pmm_add_region. *)
LEMMA PagesAdded ==
  ASSUME Inv, NEW k, NEW n, NEW ab, NEW sz, k = Len(regions) + 1, NewArea(ab, sz),
         Added(k, n, ab, sz)
  PROVE  /\ Areas' = Append(Areas, PagesOf(Extent(ab, sz)))
         /\ Avail' = Avail \cup PagesOf(Extent(ab, sz)) /\ Held' = Held
<1> DEFINE new == PagesOf(Extent(ab, sz))
<1>1. TypeOK /\ ListsGood /\ RegionsGood
  BY DEF Inv
<1>2. ListP(k) = {n} /\ \A j \in DOMAIN regions : ListP(j) = List(j)
  BY <1>1, AddLists
<1>3. /\ \A j : FreeBlocks(j)' = ListP(j)
      /\ \A j \in DOMAIN regions : FreeBlocks(j) = List(j)
  <2>1. \A j : FreeBlocks(j)' = ListP(j)
    BY DEF FreeBlocks, Reach, Closed, ListP, Walk, ClosedIn
  <2> QED
    BY <1>1, <2>1, ListFacts
<1>4. PagesOf(blk'[n]) = new /\ PagesOf(regions'[k]) = new
  BY DEF Added, Block, Region, Extent, PagesOf
<1>5. \A j \in DOMAIN regions : \A e \in List(j) : blk'[e] = blk[e]
  <2>1. \A j \in DOMAIN regions : List(j) \subseteq Used
    BY <1>1, ListFacts
  <2> QED
    BY <2>1 DEF Added
<1>6. DOMAIN regions' = DOMAIN regions \cup {k} /\ \A j \in DOMAIN regions : regions'[j] = regions[j]
  BY DEF Added
<1> HIDE DEF new
<1>7. Avail' = Avail \cup new
  <2>1. \A q : q \in Avail <=> \E j \in DOMAIN regions : \E e \in List(j) : q \in PagesOf(blk[e])
    BY <1>3 DEF Avail, Live
  <2>2. \A q : q \in Avail' <=> \E j \in DOMAIN regions' : \E e \in ListP(j) : q \in PagesOf(blk'[e])
    BY <1>3 DEF Avail, Live, PagesOf
  <2>3. \A j \in DOMAIN regions' : j \in DOMAIN regions \/ j = k
    BY <1>6
  <2>4. ASSUME NEW q, q \in Avail' PROVE q \in Avail \cup new
    <3>1. PICK j \in DOMAIN regions' : \E e \in ListP(j) : q \in PagesOf(blk'[e])
      BY <2>2, <2>4
    <3>2. PICK e \in ListP(j) : q \in PagesOf(blk'[e])
      BY <3>1
    <3>3. CASE j = k
      BY <1>2, <1>4, <3>2, <3>3
    <3>4. CASE j \in DOMAIN regions
      BY <1>2, <1>5, <2>1, <3>2, <3>4
    <3> QED
      BY <2>3, <3>3, <3>4
  <2>5. ASSUME NEW q, q \in Avail PROVE q \in Avail'
    BY <1>2, <1>5, <1>6, <2>1, <2>2, <2>5
  <2>6. ASSUME NEW q, q \in new PROVE q \in Avail'
    BY <1>2, <1>4, <1>6, <2>2, <2>6
  <2> QED
    BY <2>4, <2>5, <2>6
<1>8. Areas' = Append(Areas, new)
  <2> DEFINE S == {PagesOf(regions[j]) : j \in DOMAIN regions} \cup {new}
             m == Len(regions)
             q == Areas
             f == Areas'
  <2>1. m \in Nat /\ DOMAIN regions = 1 .. m
    BY <1>1 DEF TypeOK
  <2>2. q \in [1 .. m -> S]
    BY <2>1 DEF Areas
  <2>3. f = [j \in DOMAIN regions' |-> PagesOf(regions'[j])]
    BY DEF Areas, PagesOf
  <2>4. DOMAIN regions' = 1 .. m + 1
    BY <1>6, <2>1
  <2>5. \A j \in 1 .. m : f[j] = q[j]
    BY <1>6, <2>1, <2>3, <2>4 DEF Areas
  <2>6. f[m + 1] = new
    BY <1>4, <2>1, <2>3, <2>4
  <2>7. f \in [1 .. m + 1 -> S]
    <3>1. \A j \in 1 .. m + 1 : f[j] \in S
      <4>1. ASSUME NEW j \in 1 .. m PROVE f[j] \in S
        BY <2>2, <2>5
      <4> QED
        BY <2>1, <2>6, <4>1
    <3> QED
      BY <2>3, <2>4, <3>1
  <2> HIDE DEF S, q, f, m
  <2>8. q \in Seq(S) /\ Len(q) = m
    BY <2>1, <2>2
  <2>9. new \in S
    BY DEF S
  <2>10. f = Append(q, new)
    BY <2>5, <2>6, <2>7, <2>8, <2>9, AppendIs
  <2> QED
    BY <2>10 DEF f, q
<1>9. Held' = Held
  BY DEF Added, Held
<1> QED
  BY <1>7, <1>8, <1>9 DEF new

(* pmm_add_region. *)
LEMMA AddMemory ==
  ASSUME Inv, NEW r \in AddReqs, AddContract(r[1], r[2]), AddRegion(r[1], r[2])
  PROVE  Memory!Next
<1> DEFINE base == r[1]
           size == r[2]
           ab == AddBase(base)
           sz == AddSize(base, size)
           new == PagesOf(Extent(ab, sz))
<1>1. base \in SizeT /\ size \in SizeT
  BY PmmAssumption
<1>2. base \in Nat /\ size \in Nat /\ HALF \in Nat /\ WORD = 2 * HALF
  BY <1>1, SizeTAssumption DEF SizeT, WORD
<1>3. /\ base # NULL /\ base + size <= HALF /\ ab + P <= base + size
      /\ AddContract(base, size) /\ (AddRefused(base, size) \/ AddAccepted(base, size))
  BY DEF AddContract, AddRegion, P
<1> HIDE DEF base, size
<1>4. NewArea(ab, sz)
  BY <1>1, <1>3, AddArea
<1>5. /\ ab \in Nat /\ sz \in Nat /\ sz > 0 /\ base <= ab /\ ab < base + P
      /\ ab + sz <= base + size /\ base + size < ab + sz + P
  BY <1>1, <1>3, AddArithmetic DEF P
<1>6. ab % P = 0 /\ sz % P = 0
  <2>1. Minus(size, Minus(ab, base)) \in SizeT
    <3>1. ab \in SizeT
      BY <1>1, Rounded
    <3> QED
      BY <1>1, <3>1, SizeTClosed
  <2>2. BASE_PAGE_SIZE \in PowersOfTwo /\ BASE_PAGE_SIZE >= BASE_PAGE_SIZE
    BY PmmAssumption, PageArithmetic
  <2> QED
    BY <1>1, <2>1, <2>2, PageArithmetic DEF AddBase, AddSize, P
<1>7. Memory!PagesIn(base, size) = new
  BY <1>2, <1>5, <1>6, PagesInIs
<1> HIDE DEF ab, sz, new
<1>8. CASE AddRefused(base, size)
  <2>1. Plus(ab, sz) = ab + sz /\ Plus(base, size) = base + size
    BY <1>2, <1>3, <1>5 DEF Plus
  <2>2. ~AddTooSmall(base, size)
    <3>1. sz >= BASE_PAGE_SIZE
      <4>1. P \in Int /\ P > 0 /\ 0 % P = 0
        BY PageArithmetic DEF P
      <4>2. 0 + P <= sz
        BY <1>5, <1>6, <4>1, MultiplesApart
      <4> QED
        BY <1>5, <4>1, <4>2 DEF P
    <3>2. BASE_PAGE_SIZE \in Int
      BY PageArithmetic
    <3> QED
      BY <1>2, <1>5, <2>1, <3>1, <3>2 DEF AddTooSmall, ab, sz
  <2>3. ~AlreadyManaged(base, size)
    <3> SUFFICES ASSUME NEW i \in DOMAIN regions, Plus(ab, sz) <= End(regions[i]) PROVE FALSE
      BY DEF AlreadyManaged, ab, sz
    <3>1. /\ regions[i].base \in Nat /\ regions[i].size \in Nat
          /\ regions[i].base + regions[i].size <= HALF
      BY DEF Inv, RegionsGood
    <3>2. regions[i].base + regions[i].size <= ab
      BY <1>4 DEF NewArea
    <3>3. HALF > 0
      BY SizeTAssumption
    <3>4. End(regions[i]) = regions[i].base + regions[i].size
      BY <1>2, <3>1, <3>3 DEF End, Plus
    <3> QED
      BY <1>5, <2>1, <3>1, <3>2, <3>4
  <2>4. AddError(base, size) \in {"ERR_PMM_REGION_LIST_FULL", "ERR_PMM_SLAB_ALLOC_FAILED"}
    BY <1>3, <1>8, <2>2, <2>3 DEF AddRefused, AddError
  <2>5. /\ ret' = [op |-> "add", x |-> r[1], y |-> r[2], err |-> AddError(base, size)]
        /\ UNCHANGED <<regions, blk, slabFree, grants>>
    BY <1>8 DEF AddRefused, Fails, Returns, base, size
  <2>6. Areas' = Areas /\ Avail' = Avail /\ Held' = Held
    BY <2>5, MemoryKept
  <2>7. Memory!AddRefused(r)
    BY <2>4, <2>5, <2>6 DEF Memory!AddRefused, Memory!Says, Areas, Avail, Held
  <2> QED
    BY <2>7 DEF Memory!Next
<1>9. CASE AddAccepted(base, size)
  <2>1. Added(Len(regions) + 1, NextDesc, ab, sz)
    BY <1>1, <1>9, AddFacts DEF Inv, ab, sz
  <2>2. Areas' = Append(Areas, new) /\ Avail' = Avail \cup new /\ Held' = Held
    BY <1>4, <2>1, PagesAdded DEF new
  <2>3. ret' = [op |-> "add", x |-> r[1], y |-> r[2], err |-> "ERR_OK"]
    BY <1>9 DEF AddAccepted, Returns, base, size
  <2>4. ASSUME NEW i \in DOMAIN regions PROVE PagesOf(regions[i]) \cap new = {}
    <3> DEFINE c == Extent(ab, sz)
    <3>1. c.base = ab /\ c.size = sz
      BY DEF Extent
    <3> HIDE DEF c
    <3>2. Whole(c) /\ Whole(regions[i])
      BY <1>5, <1>6, <3>1, AllWhole DEF Whole, Paged, P
    <3>3. regions[i].base + regions[i].size <= ab
      BY <1>4 DEF NewArea
    <3>4. ASSUME NEW q \in Int, P * q \in Bytes(regions[i]), P * q \in Bytes(c) PROVE FALSE
      BY <1>5, <3>1, <3>2, <3>3, <3>4 DEF Bytes, Whole
    <3>5. /\ \A q : q \in PagesOf(regions[i]) <=> q \in Int /\ P * q \in Bytes(regions[i])
          /\ \A q : q \in PagesOf(c) <=> q \in Int /\ P * q \in Bytes(c)
      BY <3>2, PagesByte
    <3> QED
      BY <3>4, <3>5 DEF c, new
  <2>5. DOMAIN Areas = DOMAIN regions /\ \A i \in DOMAIN Areas : Areas[i] \cap new = {}
    BY <2>4 DEF Areas
  <2>6. Memory!PagesIn(r[1], r[2]) = new
    BY <1>7 DEF base, size
  <2>7. Memory!Add(r)
    BY <2>2, <2>3, <2>5, <2>6 DEF Memory!Add, Memory!Says, Areas, Avail, Held
  <2> QED
    BY <2>7 DEF Memory!Next
<1> QED
  BY <1>3, <1>8, <1>9

(* pmm_remove_region. *)
LEMMA RemoveMemory ==
  ASSUME Inv, Inv', Gaps, NEW r \in RemoveReqs, RemoveContract(r[1], r[2]),
         RemoveRegion(r[1], r[2])
  PROVE  Memory!Next \/ (Areas' = Areas /\ Avail' = Avail /\ Held' = Held /\ ret' = ret)
<1> DEFINE base == r[1]
           size == r[2]
           c == Extent(base, size)
           pages == PagesOf(c)
           said(e) == [op |-> "remove", x |-> r[1], y |-> r[2], err |-> e]
<1>1. TypeOK /\ ListsGood /\ RegionsGood
  BY DEF Inv
<1>2. base \in SizeT /\ size \in SizeT
  BY PmmAssumption
<1>3. /\ base \in Nat /\ size \in Nat /\ HALF \in Nat /\ HALF > 0 /\ WORD = 2 * HALF
  BY <1>2, SizeTAssumption DEF SizeT, WORD
<1>4. /\ base % P = 0 /\ size % P = 0 /\ base + size <= HALF
      /\ RemoveContract(base, size) /\ RemoveRegion(base, size)
  BY DEF RemoveContract, P
<1>5. c.base = base /\ c.size = size
  BY DEF Extent
<1>6. Memory!PagesIn(r[1], r[2]) = pages
  <2>1. base < base + P /\ base + size < base + size + P
    BY <1>3, PageSize
  <2>2. Memory!PagesIn(base, size) = pages
    BY <1>3, <1>4, <2>1, PagesInIs
  <2> QED
    BY <2>2
<1> HIDE DEF base, size, c
<1>7. Whole(c)
  BY <1>3, <1>4, <1>5 DEF Whole, Paged, P
<1>8. /\ DOMAIN Areas = DOMAIN regions
      /\ \A i \in DOMAIN regions : Areas[i] = PagesOf(regions[i])
  BY DEF Areas
<1> HIDE DEF pages
<1>9. CASE RemoveAsserts(base, size)
  <2>1. UNCHANGED <<regions, blk, slabFree, grants>> /\ ret' = ret
    BY <1>9 DEF RemoveAsserts
  <2> QED
    BY <2>1, MemoryKept
<1>10. CASE RemoveNothing(base, size)
  <2>1. UNCHANGED <<regions, blk, slabFree, grants>> /\ ret' = said("ERR_OK")
    BY <1>10 DEF RemoveNothing, Fails, Returns, base, size
  <2>2. Areas' = Areas /\ Avail' = Avail /\ Held' = Held
    BY <2>1, MemoryKept
  <2>3. size = 0
    <3>1. RemSize(size) < P /\ BASE_PAGE_SIZE \in PowersOfTwo
      BY <1>10, PmmAssumption DEF RemoveNothing, P
    <3>2. size <= HALF
      BY <1>3, <1>4
    <3>3. RemSize(size) = size
      BY <1>3, <1>4, <3>1, <3>2, AlignUpBounds DEF RemSize, P
    <3>4. SUFFICES ASSUME 0 < size PROVE FALSE
      BY <1>3
    <3>5. 0 % P = 0
      BY PageArithmetic DEF P
    <3>6. 0 + P <= size
      BY <1>3, <1>4, <3>4, <3>5, PageSize, MultiplesApart
    <3> QED
      BY <1>3, <3>1, <3>3, <3>6, PageSize
  <2>4. pages = {}
    <3>1. Bytes(c) = {}
      BY <1>3, <1>5, <2>3 DEF Bytes
    <3> QED
      BY <1>7, <3>1, PagesByte DEF pages
  <2>5. Avail' = Avail \ pages /\ ~(r[2] > 0)
    BY <2>2, <2>3, <2>4 DEF size
  <2>6. Memory!Remove(r)
    BY <1>6, <2>1, <2>2, <2>5 DEF Memory!Remove, Memory!Says, Areas, Avail, Held
  <2> QED
    BY <2>6 DEF Memory!Next
<1>11. ASSUME RemoveRuns(base, size)
       PROVE  /\ RemBase(base) = base /\ RemSize(size) = size /\ size > 0
              /\ \A i \in DOMAIN regions : ~ExactFit(i, base, size)
              /\ Plus(base, size) = base + size /\ c.size > 0
              /\ \A i \in DOMAIN regions, d \in Used : CutsBlock(i, d, base, size) =>
                   End(blk[d]) = Plus(base, size)
  BY <1>2, <1>3, <1>4, <1>5, <1>11, RemoveCuts DEF Plus
(* A block that holds the range is one the search stops at. *)
<1>12. ASSUME RemoveRuns(base, size), NEW i \in DOMAIN regions, NEW e \in List(i), Inside(c, blk[e])
       PROVE  e \in UpBound(i, base, size) /\ InRegion(i, base, size) /\ blk[e].base <= base
  <2>1. /\ blk[e].base \in Nat /\ blk[e].size \in Nat /\ Inside(blk[e], regions[i])
        /\ End(blk[e]) = blk[e].base + blk[e].size /\ e \in FreeBlocks(i)
    BY <1>1, ListFacts
  <2>2. /\ regions[i].base \in Nat /\ regions[i].size \in Nat
        /\ regions[i].base + regions[i].size <= HALF
    BY <1>1 DEF RegionsGood
  <2>3. End(regions[i]) = regions[i].base + regions[i].size
    BY <1>3, <2>2 DEF End, Plus
  <2>4. blk[e].base <= base /\ base + size <= blk[e].base + blk[e].size /\ Plus(base, size) = base + size
    BY <1>5, <1>11, <1>12 DEF Inside
  <2>5. regions[i].base <= blk[e].base /\ blk[e].base + blk[e].size <= regions[i].base + regions[i].size
    BY <2>1 DEF Inside
  <2> QED
    BY <1>3, <2>1, <2>2, <2>3, <2>4, <2>5 DEF UpBound, InRegion
<1>13. ASSUME RemoveRuns(base, size), Memory!Removable(pages)
       PROVE  \E i \in DOMAIN regions : \E e \in List(i) : Inside(c, blk[e])
  <2>1. PICK i \in DOMAIN regions : pages \subseteq Avail \cap PagesOf(regions[i])
    BY <1>13 DEF Memory!Removable, Avail
  <2> QED
    BY <1>7, <1>11, <1>13, <2>1, RemovableMeans DEF pages
<1>14. CASE RemoveNotManaged(base, size)
  <2>1. /\ RemoveRuns(base, size) /\ \A i \in DOMAIN regions : ~Stops(i, base, size)
    BY <1>11, <1>14 DEF RemoveNotManaged
  <2>2. /\ UNCHANGED <<regions, blk, slabFree, grants>>
        /\ ret' = said("ERR_PMM_REGION_NOT_MANAGED")
    BY <1>14 DEF RemoveNotManaged, Fails, Returns, base, size
  <2>3. Areas' = Areas /\ Avail' = Avail /\ Held' = Held
    BY <2>2, MemoryKept
  <2>4. ~Memory!Removable(pages)
    BY <1>12, <1>13, <2>1 DEF Stops
  <2>5. Memory!RemoveRefused(r)
    BY <1>6, <2>2, <2>3, <2>4 DEF Memory!RemoveRefused, Memory!Says, Areas, Avail, Held
  <2> QED
    BY <2>5 DEF Memory!Next
<1>15. CASE RemoveAllocatedFrom(base, size)
  <2>1. RemoveRuns(base, size)
    BY <1>15 DEF RemoveAllocatedFrom
  <2>2. PICK i \in DOMAIN regions :
          /\ StopsAt(i, base, size)
          /\ \E d \in Used : IsFirst(d, UpBound(i, base, size)) /\ base < blk[d].base
    BY <1>11, <1>15, <2>1 DEF RemoveAllocatedFrom
  <2>3. PICK d \in Used : IsFirst(d, UpBound(i, base, size)) /\ base < blk[d].base
    BY <2>2
  <2>4. /\ UNCHANGED <<regions, blk, slabFree, grants>>
        /\ ret' = said("ERR_PMM_REGION_ALLOCATED_FROM")
    BY <1>15 DEF RemoveAllocatedFrom, Fails, Returns, base, size
  <2>5. Areas' = Areas /\ Avail' = Avail /\ Held' = Held
    BY <2>4, MemoryKept
  <2>6. InRegion(i, base, size)
    BY <1>11, <2>1, <2>2 DEF StopsAt, Stops
  <2>7. ASSUME NEW j \in DOMAIN regions, NEW e \in List(j), Inside(c, blk[e]) PROVE FALSE
    <3>1. e \in UpBound(j, base, size) /\ InRegion(j, base, size) /\ blk[e].base <= base
      BY <1>12, <2>1, <2>7
    <3>2. blk[e].base \in Nat /\ UpBound(i, base, size) \subseteq List(i)
      BY <1>1, <2>7, ListFacts DEF UpBound
    <3>3. CASE j = i
      <4>1. d \in List(i) /\ blk[d].base <= blk[e].base
        BY <2>3, <3>1, <3>2, <3>3, FirstLowest
      <4>2. blk[d].base \in Nat
        BY <1>1, <4>1, ListFacts
      <4> QED
        BY <1>3, <2>3, <3>1, <3>2, <4>1, <4>2
    <3>4. CASE j # i
      <4>1. \A k \in {i, j} : /\ regions[k].base \in Nat /\ regions[k].size \in Nat
                              /\ regions[k].base + regions[k].size <= HALF
        BY <1>1 DEF RegionsGood
      <4>2. \A k \in {i, j} : End(regions[k]) = regions[k].base + regions[k].size
        BY <1>3, <4>1 DEF End, Plus
      <4>3. Apart(regions[i], regions[j])
        BY <1>1, <3>4 DEF RegionsGood
      <4>4. \A k \in {i, j} : regions[k].base <= base /\ base + size <= regions[k].base + regions[k].size
        BY <1>11, <2>1, <2>6, <3>1, <4>2 DEF InRegion
      <4> QED
        BY <1>3, <1>11, <2>1, <4>1, <4>3, <4>4 DEF Apart
    <3> QED
      BY <3>3, <3>4
  <2>8. ~Memory!Removable(pages)
    BY <1>13, <2>1, <2>7
  <2>9. Memory!RemoveRefused(r)
    BY <1>6, <2>4, <2>5, <2>8 DEF Memory!RemoveRefused, Memory!Says, Areas, Avail, Held
  <2> QED
    BY <2>9 DEF Memory!Next
<1>16. CASE RemovePart(base, size)
  <2> DEFINE Taken(i, d) ==
               /\ blk[d].base <= base /\ base + size = blk[d].base + blk[d].size
               /\ TakeTail(i, d, base, size) \/ TakeWholeBlock(i, d, base, size)
  <2>1. grants' = grants /\ size > 0 /\ \E i \in DOMAIN regions : \E d \in List(i) : Taken(i, d)
    BY <1>2, <1>4, <1>16, RemoveTakes
  <2>2. PICK i \in DOMAIN regions : \E d \in List(i) : Taken(i, d)
    BY <2>1
  <2>3. PICK d \in List(i) : Taken(i, d)
    BY <2>2
  <2>4. base + size <= blk[d].base + blk[d].size /\ size \in Nat \ {0}
    BY <1>3, <2>1, <2>3
  <2>5. TakenFrom(i, d, c)
    BY <1>1, <1>3, <2>3, <2>4, TakeCarves DEF c
  <2>6. Inside(c, blk[d])
    BY <1>5, <2>3, <2>4 DEF Inside
  <2>7. Avail' = Avail \ pages /\ Areas' = Areas
    BY <1>7, <2>5, <2>6, PagesTaken DEF pages
  <2>8. Held' = Held
    BY <2>1 DEF Held
  <2>9. pages \subseteq Avail \cap PagesOf(regions[i])
    BY <1>5, <1>7, <2>1, <2>6, RemovableMeans DEF pages
  <2>10. Memory!Removable(pages)
    BY <2>9 DEF Memory!Removable, Avail
  <2>11. ret' = said("ERR_OK")
    BY <1>16 DEF RemovePart, Returns, base, size
  <2>12. Memory!Remove(r)
    BY <1>6, <2>7, <2>8, <2>10, <2>11 DEF Memory!Remove, Memory!Says, Areas, Avail, Held
  <2> QED
    BY <2>12 DEF Memory!Next
<1>17. CASE RemoveWholeRegion(base, size)
  <2>1. RemoveRuns(base, size)
    BY <1>17 DEF RemoveWholeRegion
  <2> QED
    BY <1>11, <1>17, <2>1 DEF RemoveWholeRegion
<1>18. CASE RemoveOutOfDescriptors(base, size)
  <2>1. RemoveRuns(base, size)
    BY <1>18 DEF RemoveOutOfDescriptors
  <2>2. PICK i \in DOMAIN regions, d \in Used :
          CutsBlock(i, d, base, size) /\ End(blk[d]) > Plus(base, size)
    BY <1>11, <1>18, <2>1 DEF RemoveOutOfDescriptors
  <2>3. End(blk[d]) = Plus(base, size) /\ Plus(base, size) \in Int
    BY <1>3, <1>11, <2>1, <2>2
  <2> QED
    BY <2>2, <2>3
<1> QED
  BY <1>4, <1>9, <1>10, <1>14, <1>15, <1>16, <1>17, <1>18 DEF RemoveRegion

(* The least element of a set of integers. *)
LEMMA LeastIs ==
  ASSUME NEW S, S \subseteq Int, NEW p \in S, \A y \in S : p <= y
  PROVE  Memory!Min(S) = p
<1> DEFINE m == Memory!Min(S)
<1>1. m = CHOOSE x \in S : \A y \in S : x <= y
  BY DEF Memory!Min
<1>2. m \in S /\ \A y \in S : m <= y
  BY <1>1
<1> HIDE DEF m
<1>3. m \in Int /\ p \in Int /\ m <= p /\ p <= m
  BY <1>2
<1> QED
  BY <1>3 DEF m

(* First fit takes the lowest place of the first region that has one. *)
LEMMA FitIsFirst ==
  ASSUME Inv, Gaps, NEW i \in DOMAIN regions, NEW d \in List(i), NEW a \in PowersOfTwo,
         a >= BASE_PAGE_SIZE, NEW n \in Int, n > 0, FirstFit(i, d, P * n, a),
         AlignUp(blk[d].base, a) + P * n <= blk[d].base + blk[d].size
  PROVE  /\ Memory!Min(Memory!Places(i, n, a)) = AlignUp(blk[d].base, a) \div P
         /\ Memory!Places(i, n, a) # {}
         /\ \A j \in 1 .. i - 1 : Memory!Places(j, n, a) = {}
<1> DEFINE ab == AlignUp(blk[d].base, a)
           p == ab \div P
           S == Memory!Places(i, n, a)
<1>1. TypeOK /\ ListsGood /\ RegionsGood
  BY DEF Inv
<1>2. p \in S /\ ab = P * p /\ p \in Int
  BY FitIsPlace
<1>3. ASSUME NEW y \in S PROVE y \in Int /\ p <= y
  <2>1. /\ y \in Int /\ (P * y) % a = 0
        /\ \E e \in Fitting(i, P * n, a) : blk[e].base <= P * y
    BY PlaceIsFit
  <2>2. PICK e \in Fitting(i, P * n, a) : blk[e].base <= P * y
    BY <2>1
  <2>3. Fitting(i, P * n, a) \subseteq List(i)
    BY <1>1, ListFacts DEF Fitting
  <2>4. IsFirst(d, Fitting(i, P * n, a))
    BY DEF FirstFit
  <2>5. blk[d].base <= blk[e].base
    BY <2>2, <2>3, <2>4, FirstLowest
  <2>6. /\ blk[d].base \in Nat /\ blk[e].base \in Nat
        /\ blk[d].size \in Nat /\ blk[d].base + blk[d].size <= HALF /\ HALF \in Nat
    BY <1>1, <2>2, <2>3, ListFacts, SizeTAssumption
  <2>7. P * y \in Int
    BY <2>1, PageSize
  <2>8. blk[d].base <= HALF /\ blk[d].base <= P * y
    BY <2>2, <2>5, <2>6, <2>7
  <2>9. ab <= P * y
    BY <2>1, <2>6, <2>7, <2>8, AlignUpLeast
  <2> HIDE DEF p, ab
  <2>10. P * p <= P * y
    BY <1>2, <2>9
  <2> QED
    BY <1>2, <2>1, <2>10, PageSize, FactorOrder
<1>4. ASSUME NEW j \in 1 .. i - 1 PROVE Memory!Places(j, n, a) = {}
  <2>1. j \in DOMAIN regions
    <3>1. regions \in Seq(RegionT(Used))
      BY <1>1 DEF TypeOK, RegionT
    <3>2. DOMAIN regions = 1 .. Len(regions) /\ Len(regions) \in Nat
      BY <3>1
    <3> QED
      BY <3>2
  <2>2. ~HasRoom(j, P * n, a)
    BY DEF FirstFit
  <2> QED
    BY <2>1, <2>2, PlaceIsFit
<1> HIDE DEF S, p
<1>5. Memory!Min(S) = p
  <2>1. S \subseteq Int /\ \A y \in S : p <= y
    BY <1>3
  <2> QED
    BY <1>2, <2>1, LeastIs
<1> QED
  BY <1>2, <1>4, <1>5 DEF S, p

(* What is handed out is recorded. *)
LEMMA HeldGrows ==
  ASSUME Inv, NEW g \in [base : SizeT, size : SizeT, asked : SizeT, align : SizeT],
         grants' = Append(grants, g)
  PROVE  Held' = Append(Held, [page |-> g.base \div P, count |-> g.size \div P])
<1> DEFINE GT == [base : SizeT, size : SizeT, asked : SizeT, align : SizeT]
           pg(x) == [page |-> x.base \div BASE_PAGE_SIZE, count |-> x.size \div BASE_PAGE_SIZE]
           S == {pg(x) : x \in GT}
<1>1. grants \in Seq(GT)
  BY DEF Inv, TypeOK
<1>0. g \in GT
  OBVIOUS
<1> HIDE DEF GT
<1>2. /\ Len(grants) \in Nat /\ DOMAIN grants = 1 .. Len(grants)
      /\ \A j \in 1 .. Len(grants) : grants[j] \in GT
  BY <1>1
<1>3. /\ DOMAIN grants' = 1 .. Len(grants) + 1
      /\ \A j \in 1 .. Len(grants) : grants'[j] = grants[j]
      /\ grants'[Len(grants) + 1] = g
  BY <1>0, <1>1
<1> DEFINE q == [j \in 1 .. Len(grants) |-> pg(grants[j])]
           f == [j \in 1 .. Len(grants) + 1 |-> pg(grants'[j])]
<1>4. Held = q /\ Held' = f
  BY <1>2, <1>3 DEF Held
<1>5. q \in Seq(S) /\ Len(q) = Len(grants)
  BY <1>2
<1>6. f \in [1 .. Len(q) + 1 -> S]
  <2>1. \A j \in 1 .. Len(grants) + 1 : grants'[j] \in GT
    BY <1>0, <1>2, <1>3
  <2> QED
    BY <1>5, <2>1
<1>7. /\ \A j \in 1 .. Len(q) : f[j] = q[j]
      /\ f[Len(q) + 1] = pg(g) /\ pg(g) \in S
  BY <1>0, <1>2, <1>3, <1>5
<1> HIDE DEF q, f, S
<1>8. f = Append(q, pg(g))
  BY <1>5, <1>6, <1>7, AppendIs
<1> QED
  BY <1>4, <1>8 DEF P

(* A multiple of p, divided by p. *)
LEMMA Multiple ==
  ASSUME NEW p \in Int, p > 0, NEW q \in Int
  PROVE  (p * q) \div p = q /\ (p * q) % p = 0
<1> DEFINE x == p * q
<1>1. x \in Int /\ p * q <= x /\ x < p * q + p
  OBVIOUS
<1>2. x \div p = q
  BY <1>1, QuotientIs
<1>3. x = p * (x \div p) + (x % p) /\ x % p \in Int
  BY <1>1, DivMod
<1> QED
  BY <1>1, <1>2, <1>3

(* pmm_alloc_aligned. *)
LEMMA AllocMemory ==
  ASSUME Inv, Inv', Gaps, NEW r \in AllocReqs, AllocContract(r[1]), AllocAligned(r[1], r[2])
  PROVE  Memory!Next \/ (Areas' = Areas /\ Avail' = Avail /\ Held' = Held /\ ret' = ret)
<1> DEFINE size == r[1]
           a == r[2]
           n == AllocSize(size)
           k == Memory!Count(size)
           said(e) == [op |-> "alloc", x |-> r[1], y |-> r[2], err |-> e]
<1>1. size \in SizeT /\ a \in SizeT
  BY PmmAssumption
<1>2. TypeOK /\ ListsGood /\ RegionsGood
  BY DEF Inv
<1>3. AllocContract(size) /\ AllocAligned(size, a)
  OBVIOUS
<1>4. k \in Int /\ k > 0 /\ n = P * k
  BY <1>1, <1>3, AllocCount
<1>5. DOMAIN Areas = DOMAIN regions
  BY DEF Areas
<1>6. ASSUME ~BadAlignment(a) PROVE a \in PowersOfTwo /\ a >= BASE_PAGE_SIZE
  <2>1. a \in PowersOfTwo /\ ~(a < BASE_PAGE_SIZE)
    BY <1>6 DEF BadAlignment
  <2> HIDE DEF a
  <2>2. a \in Int /\ BASE_PAGE_SIZE \in Int
    BY <2>1, SizeTAssumption, PageSize DEF P
  <2> QED
    BY <2>1, <2>2
<1> HIDE DEF size, a, n, k
<1>7. CASE AllocBadAlignment(size, a)
  <2>1. UNCHANGED <<regions, blk, slabFree, grants>> /\ ret' = said("ERR_PMM_BAD_ALIGNMENT")
    BY <1>7 DEF AllocBadAlignment, Fails, Returns, size, a
  <2>2. Areas' = Areas /\ Avail' = Avail /\ Held' = Held
    BY <2>1, MemoryKept
  <2>3. Memory!AllocBad(r)
    BY <2>1, <2>2 DEF Memory!AllocBad, Memory!Says, Areas, Avail, Held
  <2> QED
    BY <2>3 DEF Memory!Next
<1>8. CASE AllocHangs(size, a)
  <2>1. UNCHANGED <<regions, blk, slabFree, grants>> /\ ret' = ret
    BY <1>8 DEF AllocHangs
  <2> QED
    BY <2>1, MemoryKept
<1>9. CASE AllocOutOfMemory(size, a)
  <2>1. UNCHANGED <<regions, blk, slabFree, grants>> /\ ret' = said("ERR_PMM_OUT_OF_MEMORY")
    BY <1>9 DEF AllocOutOfMemory, Fails, Returns, size, a
  <2>2. Areas' = Areas /\ Avail' = Avail /\ Held' = Held
    BY <2>1, MemoryKept
  <2>3. a \in PowersOfTwo
    BY <1>6, <1>9 DEF AllocOutOfMemory
  <2>4. free < n \/ \A i \in DOMAIN regions : ~HasRoom(i, n, a)
    BY <1>9 DEF AllocOutOfMemory, n
  <2>5. ASSUME NEW i \in DOMAIN regions, NEW p \in Memory!Places(i, k, a) PROVE FALSE
    <3>1. HasRoom(i, n, a) /\ free >= n
      BY <1>4, <2>3, PlaceIsFit
    <3>2. free \in Int /\ n \in Int
      BY <1>1, <1>2, Rounded, SizeTAssumption DEF TypeOK, n, SizeT
    <3> QED
      BY <2>4, <3>1, <3>2
  <2>6. \A i \in DOMAIN Areas : Memory!Places(i, Memory!Count(r[1]), r[2]) = {}
    BY <1>5, <2>5 DEF k, a, size
  <2>7. Memory!AllocRefused(r)
    BY <2>1, <2>2, <2>6 DEF Memory!AllocRefused, Memory!Says, Areas, Avail, Held
  <2> QED
    BY <2>7 DEF Memory!Next
<1>10. CASE AllocGrants(size, a)
  <2>1. a \in PowersOfTwo /\ a >= BASE_PAGE_SIZE /\ n \in Nat /\ n > 0
    BY <1>1, <1>3, <1>10, AllocTakes DEF n
  <2> DEFINE Taken(i, d) ==
               LET ab == AlignUp(blk[d].base, a)
               IN /\ FirstFit(i, d, n, a)
                  /\ ab \in Nat /\ blk[d].base <= ab /\ ab + n <= blk[d].base + blk[d].size
                  /\ \/ TakeMiddle(i, d, ab, n) /\ slabFree > 0
                     \/ TakeTail(i, d, ab, n)
                     \/ TakeHead(i, d, ab, n) \/ TakeWholeBlock(i, d, ab, n)
                  /\ grants' = Append(grants, [base |-> ab, size |-> n,
                                               asked |-> size, align |-> a])
  <2>2. PICK i \in DOMAIN regions : \E d \in List(i) : Taken(i, d)
    BY <1>1, <1>3, <1>10, AllocTakes DEF n
  <2>3. PICK d \in List(i) : Taken(i, d)
    BY <2>2
  <2> DEFINE ab == AlignUp(blk[d].base, a)
             g == [base |-> ab, size |-> n, asked |-> size, align |-> a]
             c == Extent(ab, n)
             p == ab \div P
  <2>4. /\ FirstFit(i, d, n, a)
        /\ ab \in Nat /\ blk[d].base <= ab /\ ab + n <= blk[d].base + blk[d].size
        /\ \/ TakeMiddle(i, d, ab, n) /\ slabFree > 0
           \/ TakeTail(i, d, ab, n)
           \/ TakeHead(i, d, ab, n) \/ TakeWholeBlock(i, d, ab, n)
    BY <2>3
  <2>5. grants' = Append(grants, g)
    BY <2>3
  <2>6. /\ Memory!Min(Memory!Places(i, k, a)) = p
        /\ Memory!Places(i, k, a) # {}
        /\ \A j \in 1 .. i - 1 : Memory!Places(j, k, a) = {}
    BY <1>4, <2>1, <2>4, FitIsFirst
  <2>7. ab = P * p /\ p \in Int
    BY <1>4, <2>1, <2>4, FitIsPlace
  <2>8. g.base = ab /\ g.size = n /\ c.base = ab /\ c.size = n
    BY DEF Extent
  <2>9. g \in [base : SizeT, size : SizeT, asked : SizeT, align : SizeT]
    <3>1. n \in SizeT
      BY <1>1, Rounded DEF n
    <3>2. ab \in SizeT
      <4>1. /\ blk[d].base \in Nat /\ blk[d].size \in Nat
            /\ blk[d].base + blk[d].size <= HALF
        BY <1>2, ListFacts
      <4> HIDE DEF ab
      <4> QED
        BY <2>1, <2>4, <4>1, SizeTAssumption DEF SizeT, WORD
    <3> QED
      BY <1>1, <3>1, <3>2
  <2> HIDE DEF Taken, g, c
  <2>10. TakenFrom(i, d, c)
    <3>1. n \in Nat \ {0}
      BY <2>1
    <3> QED
      BY <1>2, <2>4, <3>1, TakeCarves DEF c
  <2> HIDE DEF ab
  <2>11. n \div P = k /\ n % P = 0 /\ ab % P = 0
    BY <1>4, <2>7, PageSize, Multiple
  <2>12. Whole(c)
    BY <2>1, <2>4, <2>8, <2>11 DEF Whole, Paged, P
  <2>13. Inside(c, blk[d])
    BY <2>4, <2>8 DEF Inside
  <2>14. Avail' = Avail \ PagesOf(c) /\ Areas' = Areas
    BY <2>10, <2>12, <2>13, PagesTaken
  <2>15. PagesOf(c) = Memory!Run(p, k)
    BY <2>8, <2>11, <2>12, ExtentRun DEF Memory!Run
  <2>16. Held' = Append(Held, [page |-> p, count |-> k])
    BY <2>5, <2>8, <2>9, <2>11, HeldGrows
  <2>17. ret' = said("ERR_OK")
    BY <1>10 DEF AllocGrants, Returns, size, a
  <2>18. /\ Memory!Places(i, k, a) # {}
         /\ \A j \in 1 .. i - 1 : Memory!Places(j, k, a) = {}
         /\ Avail' = Avail \ Memory!Run(Memory!Min(Memory!Places(i, k, a)), k)
         /\ Held' = Append(Held, [page |-> Memory!Min(Memory!Places(i, k, a)), count |-> k])
    BY <2>6, <2>14, <2>15, <2>16
  <2> HIDE DEF p
  <2>19. Memory!Alloc(r)
    BY <1>5, <2>14, <2>17, <2>18 DEF Memory!Alloc, Memory!Says, Areas, Avail, Held, k, a, size
  <2> QED
    BY <2>19 DEF Memory!Next
<1> QED
  BY <1>3, <1>7, <1>8, <1>9, <1>10 DEF AllocAligned

(* pmm_free. *)
LEMMA FreeMemory ==
  ASSUME Inv, NEW g \in DOMAIN grants, Free(grants[g].base)
  PROVE  Memory!Next
<1> DEFINE x == grants[g].base
<1>1. /\ UNCHANGED <<regions, blk, slabFree, grants>>
      /\ ret' = [op |-> "free", x |-> x, y |-> 0, err |-> "ERR_NOT_IMPLEMENTED"]
  BY DEF Free, Fails, Returns
<1>2. Areas' = Areas /\ Avail' = Avail /\ Held' = Held
  BY <1>1, MemoryKept
<1>3. x = P * (x \div P)
  <2>1. x \in Nat /\ x % P = 0
    BY PagesUnfolded DEF Inv, GrantsGood, Paged, P
  <2> QED
    BY <2>1, PageSize, QuotientExact
<1>4. g \in DOMAIN Held /\ Held[g].page = x \div P
  BY DEF Held, P
<1> HIDE DEF x
<1>5. ret' \in {[op |-> "free", x |-> <<P * Held[g].page, 0>>[1],
                 y |-> <<P * Held[g].page, 0>>[2], err |-> e] : e \in {"ERR_NOT_IMPLEMENTED"}}
  BY <1>1, <1>3, <1>4
<1>6. Memory!Free
  BY <1>2, <1>4, <1>5 DEF Memory!Free, Memory!Says, Areas, Avail, Held, P
<1> QED
  BY <1>6 DEF Memory!Next
-----------------------------------------------------------------------------
(* The theorems.                                                           *)

(* A step that changes no list keeps the gaps. *)
LEMMA GapsKept ==
  ASSUME Gaps, UNCHANGED <<regions, blk, slabFree>>
  PROVE  Gaps'
<1>1. regions' = regions /\ blk' = blk /\ Used' = Used
  BY DEF Used
<1> QED
  BY <1>1 DEF Gaps, Separate, List

(* Every call in the contract keeps the gaps. *)
LEMMA NextGaps ==
  ASSUME Inv, Gaps, [ContractNext]_vars
  PROVE  Gaps'
<1>0. TypeOK /\ ListsGood /\ RegionsGood
  BY DEF Inv
<1>1. CASE UNCHANGED vars
  BY <1>1, GapsKept DEF vars
<1>2. ASSUME NEW r \in AddReqs, AddContract(r[1], r[2]), AddRegion(r[1], r[2]) PROVE Gaps'
  <2> DEFINE base == r[1]
             size == r[2]
  <2>1. /\ base \in SizeT /\ size \in SizeT /\ AddContract(base, size)
        /\ AddRefused(base, size) \/ AddAccepted(base, size)
    BY <1>2, PmmAssumption DEF AddRegion
  <2> HIDE DEF base, size
  <2>2. CASE AddRefused(base, size)
    BY <2>2, GapsKept DEF AddRefused, Fails
  <2>3. CASE AddAccepted(base, size)
    <3>1. NewArea(AddBase(base), AddSize(base, size))
      BY <2>1, AddArea
    <3>2. Added(Len(regions) + 1, NextDesc, AddBase(base), AddSize(base, size))
      BY <1>0, <2>1, <2>3, AddFacts
    <3> QED
      BY <3>1, <3>2, AddGaps
  <2> QED
    BY <2>1, <2>2, <2>3
<1>3. ASSUME NEW r \in RemoveReqs, RemoveContract(r[1], r[2]), RemoveRegion(r[1], r[2])
      PROVE  Gaps'
  <2> DEFINE base == r[1]
             size == r[2]
             c == Extent(base, size)
  <2>1. /\ base \in SizeT /\ size \in SizeT /\ RemoveContract(base, size)
        /\ RemoveRegion(base, size) /\ base \in Nat /\ size \in Nat
    BY <1>3, PmmAssumption, SizeTAssumption DEF SizeT
  <2>2. c.base = base /\ c.size = size
    BY DEF Extent
  <2> HIDE DEF base, size, c
  <2>3. CASE RemoveAsserts(base, size) \/ RemoveNothing(base, size)
             \/ RemoveNotManaged(base, size) \/ RemoveAllocatedFrom(base, size)
    <3>1. UNCHANGED <<regions, blk, slabFree>>
      BY <2>3 DEF RemoveAsserts, RemoveNothing, RemoveNotManaged, RemoveAllocatedFrom, Fails
    <3> QED
      BY <3>1, GapsKept
  <2>4. CASE RemovePart(base, size)
    <3> DEFINE Taken(i, d) ==
                 /\ blk[d].base <= base /\ base + size = blk[d].base + blk[d].size
                 /\ TakeTail(i, d, base, size) \/ TakeWholeBlock(i, d, base, size)
    <3>1. size > 0 /\ \E i \in DOMAIN regions : \E d \in List(i) : Taken(i, d)
      BY <2>1, <2>4, RemoveTakes
    <3>2. PICK i \in DOMAIN regions : \E d \in List(i) : Taken(i, d)
      BY <3>1
    <3>3. PICK d \in List(i) : Taken(i, d)
      BY <3>2
    <3>4. base + size <= blk[d].base + blk[d].size /\ size \in Nat \ {0}
      BY <2>1, <3>1, <3>3
    <3>5. TakenFrom(i, d, c)
      BY <1>0, <2>1, <3>3, <3>4, TakeCarves DEF c
    <3>6. Inside(c, blk[d])
      BY <2>2, <3>3, <3>4 DEF Inside
    <3> QED
      BY <2>1, <2>2, <3>4, <3>5, <3>6, CarveGaps
  <2>5. CASE RemoveWholeRegion(base, size)
    <3>1. RemoveRuns(base, size)
      BY <2>5 DEF RemoveWholeRegion
    <3>2. /\ RemBase(base) = base /\ RemSize(size) = size
          /\ \A i \in DOMAIN regions : ~ExactFit(i, base, size)
      BY <2>1, <3>1, RemoveCuts
    <3> QED
      BY <2>5, <3>2 DEF RemoveWholeRegion
  <2>6. CASE RemoveOutOfDescriptors(base, size)
    <3>1. RemoveRuns(base, size)
      BY <2>6 DEF RemoveOutOfDescriptors
    <3>2. /\ RemBase(base) = base /\ RemSize(size) = size
          /\ \A i \in DOMAIN regions, d \in Used : CutsBlock(i, d, base, size) =>
               End(blk[d]) = Plus(base, size)
      BY <2>1, <3>1, RemoveCuts
    <3>3. PICK i \in DOMAIN regions, d \in Used :
            CutsBlock(i, d, base, size) /\ End(blk[d]) > Plus(base, size)
      BY <2>6, <3>2 DEF RemoveOutOfDescriptors
    <3>4. End(blk[d]) = Plus(base, size) /\ Plus(base, size) \in Int
      BY <2>1, <3>2, <3>3, SizeTClosed, SizeTAssumption DEF SizeT
    <3> QED
      BY <3>3, <3>4
  <2> QED
    BY <2>1, <2>3, <2>4, <2>5, <2>6 DEF RemoveRegion
<1>4. ASSUME NEW r \in AllocReqs, AllocContract(r[1]), AllocAligned(r[1], r[2]) PROVE Gaps'
  <2> DEFINE size == r[1]
             a == r[2]
             n == AllocSize(size)
  <2>1. size \in SizeT /\ a \in SizeT /\ AllocContract(size) /\ AllocAligned(size, a)
    BY <1>4, PmmAssumption
  <2> HIDE DEF size, a
  <2>2. CASE AllocBadAlignment(size, a) \/ AllocOutOfMemory(size, a) \/ AllocHangs(size, a)
    <3>1. UNCHANGED <<regions, blk, slabFree>>
      BY <2>2 DEF AllocBadAlignment, AllocOutOfMemory, AllocHangs, Fails
    <3> QED
      BY <3>1, GapsKept
  <2>3. CASE AllocGrants(size, a)
    <3> DEFINE Taken(i, d) ==
                 LET ab == AlignUp(blk[d].base, a)
                 IN /\ ab \in Nat /\ blk[d].base <= ab /\ ab + n <= blk[d].base + blk[d].size
                    /\ \/ TakeMiddle(i, d, ab, n) /\ slabFree > 0
                       \/ TakeTail(i, d, ab, n)
                       \/ TakeHead(i, d, ab, n) \/ TakeWholeBlock(i, d, ab, n)
    <3>0. n \in Nat /\ n > 0 /\ \E i \in DOMAIN regions : \E d \in List(i) : Taken(i, d)
      BY <2>1, <2>3, AllocTakes
    <3>1. n \in Nat \ {0} /\ \E i \in DOMAIN regions : \E d \in List(i) : Taken(i, d)
      BY <3>0
    <3>2. PICK i \in DOMAIN regions : \E d \in List(i) : Taken(i, d)
      BY <3>1
    <3>3. PICK d \in List(i) : Taken(i, d)
      BY <3>2
    <3> DEFINE ab == AlignUp(blk[d].base, a)
               c == Extent(ab, n)
    <3>4. /\ ab \in Nat /\ blk[d].base <= ab /\ ab + n <= blk[d].base + blk[d].size
          /\ \/ TakeMiddle(i, d, ab, n) /\ slabFree > 0
             \/ TakeTail(i, d, ab, n)
             \/ TakeHead(i, d, ab, n) \/ TakeWholeBlock(i, d, ab, n)
      BY <3>3
    <3>5. c.base = ab /\ c.size = n
      BY DEF Extent
    <3> HIDE DEF Taken, ab, n, c
    <3>6. TakenFrom(i, d, c)
      BY <1>0, <3>1, <3>4, TakeCarves DEF c
    <3>7. Inside(c, blk[d])
      BY <3>4, <3>5 DEF Inside
    <3> QED
      BY <3>1, <3>4, <3>5, <3>6, <3>7, CarveGaps
  <2> QED
    BY <2>1, <2>2, <2>3 DEF AllocAligned
<1>5. ASSUME NEW g \in DOMAIN grants, Free(grants[g].base) PROVE Gaps'
  BY <1>5, GapsKept DEF Free, Fails
<1> QED
  BY <1>1, <1>2, <1>3, <1>4, <1>5 DEF ContractNext

(* No two free blocks of a region touch: every cut leaves memory that is   *)
(* in use or was removed between the pieces, so that pmm.c loses nothing   *)
(* by never merging blocks.                                                *)
THEOREM BlocksNeverTouch == ContractSpec => []Gaps
<1>1. Init => Gaps
  <2> SUFFICES ASSUME Init PROVE Gaps
    OBVIOUS
  <2>1. DOMAIN regions = {}
    BY DEF Init
  <2> QED
    BY <2>1 DEF Gaps
<1>2. Inv /\ Gaps /\ [ContractNext]_vars => Gaps'
  BY NextGaps
<1> QED
  BY <1>1, <1>2, ContractInvariant, PTL DEF ContractSpec

(* The lists of blocks implement first fit on a set of pages: a request    *)
(* gets the lowest run of free pages of the first region that has one,     *)
(* aligned and long enough, and ERR_PMM_OUT_OF_MEMORY is returned only     *)
(* when there is none; a removed page is never handed out again.           *)
THEOREM ImplementsMemory == ContractSpec => MemorySpec
<1>1. Init => Memory!Init
  <2> SUFFICES ASSUME Init PROVE Memory!Init
    OBVIOUS
  <2>1. regions = <<>> /\ grants = <<>>
        /\ ret = [op |-> "init", x |-> 0, y |-> 0, err |-> "ERR_OK"]
    BY DEF Init
  <2>2. DOMAIN regions = {} /\ DOMAIN grants = {}
    BY <2>1
  <2>3. Areas = <<>> /\ Held = <<>> /\ Avail = {}
    BY <2>2 DEF Areas, Held, Avail, Live
  <2> QED
    BY <2>1, <2>3 DEF Memory!Init, Areas, Held, Avail
<1>2. Inv /\ Inv' /\ Gaps /\ [ContractNext]_vars => [Memory!Next]_(Memory!vars)
  <2> SUFFICES ASSUME Inv, Inv', Gaps, [ContractNext]_vars PROVE [Memory!Next]_(Memory!vars)
    OBVIOUS
  <2> DEFINE Stays == Areas' = Areas /\ Avail' = Avail /\ Held' = Held /\ ret' = ret
  <2>1. CASE UNCHANGED vars
    <3>1. UNCHANGED <<regions, blk, slabFree, grants>> /\ ret' = ret
      BY <2>1 DEF vars
    <3>2. Stays
      BY <3>1, MemoryKept
    <3> QED
      BY <3>2 DEF Memory!vars, Areas, Avail, Held
  <2>2. ASSUME NEW r \in AddReqs, AddContract(r[1], r[2]), AddRegion(r[1], r[2])
        PROVE  Memory!Next
    BY <2>2, AddMemory
  <2>3. ASSUME NEW r \in RemoveReqs, RemoveContract(r[1], r[2]), RemoveRegion(r[1], r[2])
        PROVE  Memory!Next \/ Stays
    BY <2>3, RemoveMemory
  <2>4. ASSUME NEW r \in AllocReqs, AllocContract(r[1]), AllocAligned(r[1], r[2])
        PROVE  Memory!Next \/ Stays
    BY <2>4, AllocMemory
  <2>5. ASSUME NEW g \in DOMAIN grants, Free(grants[g].base) PROVE Memory!Next
    BY <2>5, FreeMemory
  <2>6. Stays => UNCHANGED Memory!vars
    BY DEF Memory!vars, Areas, Avail, Held
  <2> QED
    BY <2>1, <2>2, <2>3, <2>4, <2>5, <2>6 DEF ContractNext
<1> QED
  BY <1>1, <1>2, ContractInvariant, BlocksNeverTouch, PTL DEF ContractSpec, MemorySpec, Memory!Spec
=============================================================================
