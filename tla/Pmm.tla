-------------------------------- MODULE Pmm --------------------------------
(***************************************************************************)
(* The physical memory manager, src/octiron/pmm.c.                         *)
(*                                                                         *)
(* A region keeps a singly linked list of free blocks, whose descriptors   *)
(* (struct pmmBlock) come from the slab allocator.  The lists are modelled *)
(* with their pointers, because two entries of the region array can share  *)
(* a list.  Descriptors are numbered in the order in which the slab        *)
(* allocator hands them out.  slab_free refuses every descriptor of the    *)
(* initial slab (module Slab), so a descriptor is never handed out twice   *)
(* and the calls of slab_free below change nothing.                        *)
(*                                                                         *)
(* Every call is one action: the manager runs on one hart with no          *)
(* interrupt handler that calls it.                                        *)
(***************************************************************************)
EXTENDS SizeT, Sequences, FiniteSets

CONSTANTS
  BASE_PAGE_SIZE,      \* 4096
  PMM_REGION_COUNT,    \* 16, the length of the region array
  SLAB_TOTAL,          \* 64, descriptors in pmm_initial_region_slab
  SLAB_RESERVE,        \* 16, pmm_alloc_aligned gives up below this count
  ENABLE_ASSERTIONS,   \* TRUE in a Debug build
  AddReqs,             \* <<base, size>> arguments of pmm_add_region
  RemoveReqs,          \* <<base, size>> arguments of pmm_remove_region
  AllocReqs,           \* <<size, alignment>> arguments of pmm_alloc_aligned
  MaxGrants            \* bound on the number of successful allocations

ASSUME PmmAssumption ==
  /\ BASE_PAGE_SIZE \in PowersOfTwo
  /\ PMM_REGION_COUNT \in Nat
  /\ SLAB_TOTAL \in Nat
  /\ SLAB_RESERVE \in Nat \ {0}
  /\ ENABLE_ASSERTIONS \in BOOLEAN
  /\ AddReqs \subseteq SizeT \X SizeT
  /\ RemoveReqs \subseteq SizeT \X SizeT
  /\ AllocReqs \subseteq SizeT \X SizeT
  /\ MaxGrants \in Nat

VARIABLES
  regions,    \* pmm.regions[0 .. region_count-1]
  blk,        \* the pmmBlock descriptors in the slab's memory
  slabFree,   \* pmm.block_allocator.free
  total,      \* pmm.total
  free,       \* pmm.free
  halted,     \* TRUE in the endless loop of TODO or of a failed ASSERT
  grants,     \* history: every block handed out, with the size asked for
  ret         \* the last call and the error value it returned

vars == <<regions, blk, slabFree, total, free, halted, grants, ret>>

NULL == 0

(* Descriptors, and those slab_alloc has handed out so far. *)
Desc == 1 .. SLAB_TOTAL
Used == 1 .. SLAB_TOTAL - slabFree

(* The descriptor the next slab_alloc returns, when one is left. *)
NextDesc == SLAB_TOTAL - slabFree + 1

Extent(base, size) == [base |-> base, size |-> size]

Region(base, size, left, head) ==
  [base |-> base, size |-> size, free |-> left, free_blocks |-> head]

Block(base, size, next) == [base |-> base, size |-> size, next |-> next]

End(x) == Plus(x.base, x.size)

(***************************************************************************)
(* The blocks a walk from h along the next pointers visits: the smallest   *)
(* set that contains h and is closed under next.                           *)
(***************************************************************************)
Closed(S) == \A d \in S : blk[d].next \in S \cup {NULL}

Reach(h) ==
  IF h = NULL THEN {}
  ELSE {d \in Used : \A S \in SUBSET Used : h \in S /\ Closed(S) => d \in S}

(* The block of S that a walk through S visits first. *)
IsFirst(d, S) == d \in S /\ S \subseteq Reach(d)

FreeBlocks(i) == Reach(regions[i].free_blocks)
-----------------------------------------------------------------------------
(***************************************************************************)
(* The state pmm_initialize leaves behind: an empty region array and a     *)
(* slab allocator grown by the static initial slab.                        *)
(***************************************************************************)
Init ==
  /\ regions = <<>>
  /\ blk = [d \in Desc |-> Block(0, 0, NULL)]
  /\ slabFree = SLAB_TOTAL
  /\ total = 0
  /\ free = 0
  /\ halted = FALSE
  /\ grants = <<>>
  /\ ret = [op |-> "init", x |-> 0, y |-> 0, err |-> "ERR_OK"]

Returns(op, x, y, err) == ret' = [op |-> op, x |-> x, y |-> y, err |-> err]

Fails(op, x, y, err) ==
  /\ Returns(op, x, y, err)
  /\ UNCHANGED <<regions, blk, slabFree, total, free, halted, grants>>
-----------------------------------------------------------------------------
(***************************************************************************)
(* pmm_add_region(base, size)                                              *)
(***************************************************************************)
AddBase(base)       == AlignUp(base, BASE_PAGE_SIZE)
(* Mutant: the size is not rounded to whole pages. *)
AddSizeUnrounded(base, size) == Minus(size, Minus(AddBase(base), base))

AddSize(base, size) ==
  AlignDown(Minus(size, Minus(AddBase(base), base)), BASE_PAGE_SIZE)

AddTooSmall(base, size) ==
  \/ Plus(AddBase(base), AddSize(base, size)) > Plus(base, size)
  \/ AddSize(base, size) < BASE_PAGE_SIZE

AlreadyManaged(base, size) ==
  \E i \in DOMAIN regions :
    Plus(AddBase(base), AddSize(base, size)) <= End(regions[i])

(* Mutant: the length of the region array is not checked. *)
AddErrorNoLimit(base, size) ==
  IF base = NULL THEN "ERR_NULL_ARGUMENT"
  ELSE IF AddTooSmall(base, size) THEN "ERR_PMM_ADD_REGION_TOO_SMALL"
  ELSE IF AlreadyManaged(base, size) THEN "ERR_PMM_ADD_MANAGED_REGION"
  ELSE IF slabFree = 0 THEN "ERR_PMM_SLAB_ALLOC_FAILED"
  ELSE "ERR_OK"

(* The checks in the order in which the code makes them. *)
AddError(base, size) ==
  IF base = NULL THEN "ERR_NULL_ARGUMENT"
  ELSE IF AddTooSmall(base, size) THEN "ERR_PMM_ADD_REGION_TOO_SMALL"
  ELSE IF Len(regions) >= PMM_REGION_COUNT THEN "ERR_PMM_REGION_LIST_FULL"
  ELSE IF AlreadyManaged(base, size) THEN "ERR_PMM_ADD_MANAGED_REGION"
  ELSE IF slabFree = 0 THEN "ERR_PMM_SLAB_ALLOC_FAILED"
  ELSE "ERR_OK"

AddRefused(base, size) ==
  /\ AddError(base, size) # "ERR_OK"
  /\ Fails("add", base, size, AddError(base, size))

AddAccepted(base, size) ==
  LET ab == AddBase(base)
      as == AddSize(base, size)
  IN /\ AddError(base, size) = "ERR_OK"
     /\ regions' = Append(regions, Region(ab, as, as, NextDesc))
     /\ blk' = [blk EXCEPT ![NextDesc] = Block(ab, as, NULL)]
     /\ slabFree' = slabFree - 1
     /\ total' = Plus(total, as)
     /\ free' = Plus(free, as)
     /\ Returns("add", base, size, "ERR_OK")
     /\ UNCHANGED <<halted, grants>>

AddRegion(base, size) ==
  /\ ~halted
  /\ AddRefused(base, size) \/ AddAccepted(base, size)
-----------------------------------------------------------------------------
(***************************************************************************)
(* Taking block d out of the list of region i: the head of the list or the *)
(* next pointer of its predecessor skips it.  slab_free refuses d, so the  *)
(* descriptor keeps its contents and is lost.                              *)
(***************************************************************************)
Prev(i, d) == CHOOSE p \in FreeBlocks(i) : blk[p].next = d

HeadWithout(i, d) ==
  IF regions[i].free_blocks = d THEN blk[d].next ELSE regions[i].free_blocks

BlkWithout(i, d) ==
  IF regions[i].free_blocks = d THEN blk
  ELSE [blk EXCEPT ![Prev(i, d)] = Block(@.base, @.size, blk[d].next)]

(* Mutants: the new descriptor is linked in front of its rest; it points   *)
(* back at the block it was split from.                                    *)
SplitSwapped(d, left, right) ==
  [blk EXCEPT ![d] = Block(right.base, right.size, NextDesc),
              ![NextDesc] = Block(left.base, left.size, blk[d].next)]

SplitCyclic(d, left, right) ==
  [blk EXCEPT ![d] = Block(left.base, left.size, NextDesc),
              ![NextDesc] = Block(right.base, right.size, d)]

(* A block becomes two: d keeps left, a new descriptor behind it in the    *)
(* list gets right.                                                        *)
Split(d, left, right) ==
  [blk EXCEPT ![d] = Block(left.base, left.size, NextDesc),
              ![NextDesc] = Block(right.base, right.size, blk[d].next)]

(* Mutant: only the counter of the pmm is charged. *)
ChargeGlobalOnly(i, n, head) ==
  /\ regions' = [regions EXCEPT ![i] = Region(@.base, @.size, @.free, head)]
  /\ free' = Minus(free, n)

(* Both removal and allocation charge n bytes to region i and to the pmm. *)
Charge(i, n, head) ==
  /\ regions' = [regions EXCEPT
                    ![i] = Region(@.base, @.size, Minus(@.free, n), head)]
  /\ free' = Minus(free, n)
-----------------------------------------------------------------------------
(***************************************************************************)
(* pmm_remove_region(base, size)                                           *)
(***************************************************************************)
RemBase(base) == AlignDown(base, BASE_PAGE_SIZE)
RemSize(size) == AlignUp(size, BASE_PAGE_SIZE)

RemAssertFails(base, size) ==
  Plus(RemBase(base), RemSize(size)) > Plus(base, size)

ExactFit(i, ab, as) == ab = regions[i].base /\ as = regions[i].size

InRegion(i, ab, as) ==
  ab >= regions[i].base /\ Plus(ab, as) <= End(regions[i])

(* The blocks of region i that end at or above the end of the range.  The  *)
(* walk stops at the first of them.                                        *)
UpBound(i, ab, as) == {d \in FreeBlocks(i) : Plus(ab, as) <= End(blk[d])}

Stops(i, ab, as) ==
  ExactFit(i, ab, as) \/ (InRegion(i, ab, as) /\ UpBound(i, ab, as) # {})

(* The region at which the search ends. *)
StopsAt(i, ab, as) ==
  /\ i \in DOMAIN regions
  /\ Stops(i, ab, as)
  /\ \A j \in 1 .. i - 1 : ~Stops(j, ab, as)

(* The call gets past its assertion and has pages to look for. *)
RemoveRuns(base, size) ==
  /\ ~halted
  /\ ~(ENABLE_ASSERTIONS /\ RemAssertFails(base, size))
  /\ RemSize(size) >= BASE_PAGE_SIZE

(* Block d of region i is the one the range is cut out of. *)
CutsBlock(i, d, ab, as) ==
  /\ StopsAt(i, ab, as)
  /\ ~ExactFit(i, ab, as)
  /\ IsFirst(d, UpBound(i, ab, as))
  /\ ab >= blk[d].base

(* ASSERT(ALIGNED_REGION_FITS, ...) fails in a Debug build. *)
RemoveAsserts(base, size) ==
  /\ ~halted
  /\ ENABLE_ASSERTIONS /\ RemAssertFails(base, size)
  /\ halted' = TRUE
  /\ UNCHANGED <<regions, blk, slabFree, total, free, grants, ret>>

RemoveNothing(base, size) ==
  /\ ~halted
  /\ ~(ENABLE_ASSERTIONS /\ RemAssertFails(base, size))
  /\ RemSize(size) < BASE_PAGE_SIZE
  /\ Fails("remove", base, size, "ERR_OK")

RemoveNotManaged(base, size) ==
  /\ RemoveRuns(base, size)
  /\ \A i \in DOMAIN regions : ~Stops(i, RemBase(base), RemSize(size))
  /\ Fails("remove", base, size, "ERR_PMM_REGION_NOT_MANAGED")

RemoveAllocatedFrom(base, size) ==
  LET ab == RemBase(base)
      as == RemSize(size)
  IN /\ RemoveRuns(base, size)
     /\ \E i \in DOMAIN regions :
          /\ StopsAt(i, ab, as)
          /\ IF ExactFit(i, ab, as)
             THEN regions[i].free # regions[i].size
             ELSE \E d \in Used : IsFirst(d, UpBound(i, ab, as)) /\ ab < blk[d].base
     /\ Fails("remove", base, size, "ERR_PMM_REGION_ALLOCATED_FROM")

(* A whole region that nothing was allocated from.  The entries behind it  *)
(* move down by one place; region_count keeps its value.                   *)
RemoveWholeRegion(base, size) ==
  /\ RemoveRuns(base, size)
  /\ \E i \in DOMAIN regions :
       /\ StopsAt(i, RemBase(base), RemSize(size))
       /\ ExactFit(i, RemBase(base), RemSize(size))
       /\ regions[i].free = regions[i].size
       /\ regions' = [j \in DOMAIN regions |->
                        IF j >= i /\ j < Len(regions) THEN regions[j + 1]
                                                      ELSE regions[j]]
       /\ free' = Minus(free, regions[i].size)
       /\ total' = Minus(total, regions[i].size)
  /\ Returns("remove", base, size, "ERR_OK")
  /\ UNCHANGED <<blk, slabFree, halted, grants>>

(* A range inside a free block, by what remains of the block before and    *)
(* after the range.  The code overwrites block->size (and, when nothing    *)
(* precedes, block->base) before it computes from them the size of what    *)
(* follows.                                                                *)
CutMiddle(i, d, ab, as) ==
  LET b    == blk[d]
      rest == Plus(ab, as)
      cut  == Extent(b.base, Minus(ab, b.base))
  IN /\ b.base # ab /\ End(b) > rest
     /\ slabFree > 0
     /\ blk' = Split(d, cut, Extent(rest, Minus(End(cut), rest)))
     /\ slabFree' = slabFree - 1
     /\ Charge(i, as, regions[i].free_blocks)

CutTail(i, d, ab, as) ==
  /\ blk[d].base # ab /\ End(blk[d]) <= Plus(ab, as)
  /\ blk' = [blk EXCEPT ![d] = Block(@.base, Minus(ab, @.base), @.next)]
  /\ Charge(i, as, regions[i].free_blocks)
  /\ UNCHANGED slabFree

CutHead(i, d, ab, as) ==
  LET rest == Plus(ab, as)
  IN /\ blk[d].base = ab /\ End(blk[d]) > rest
     /\ blk' = [blk EXCEPT
                  ![d] = Block(rest, Minus(Plus(rest, @.size), rest), @.next)]
     /\ Charge(i, as, regions[i].free_blocks)
     /\ UNCHANGED slabFree

CutWholeBlock(i, d, ab, as) ==
  /\ blk[d].base = ab /\ End(blk[d]) <= Plus(ab, as)
  /\ blk' = BlkWithout(i, d)
  /\ Charge(i, as, HeadWithout(i, d))
  /\ UNCHANGED slabFree

RemovePart(base, size) ==
  LET ab == RemBase(base)
      as == RemSize(size)
  IN /\ RemoveRuns(base, size)
     /\ \E i \in DOMAIN regions, d \in Used :
          /\ CutsBlock(i, d, ab, as)
          /\ \/ CutMiddle(i, d, ab, as)
             \/ CutTail(i, d, ab, as)
             \/ CutHead(i, d, ab, as)
             \/ CutWholeBlock(i, d, ab, as)
     /\ Returns("remove", base, size, "ERR_OK")
     /\ UNCHANGED <<total, halted, grants>>

(* A range in the middle of a block with no descriptor left for what       *)
(* follows: the call fails after it has cut the block.                     *)
RemoveOutOfDescriptors(base, size) ==
  LET ab == RemBase(base)
      as == RemSize(size)
  IN /\ RemoveRuns(base, size)
     /\ slabFree = 0
     /\ \E i \in DOMAIN regions, d \in Used :
          /\ CutsBlock(i, d, ab, as)
          /\ blk[d].base # ab /\ End(blk[d]) > Plus(ab, as)
          /\ blk' = [blk EXCEPT ![d] = Block(@.base, Minus(ab, @.base), @.next)]
     /\ Returns("remove", base, size, "ERR_PMM_SLAB_ALLOC_FAILED")
     /\ UNCHANGED <<regions, slabFree, total, free, halted, grants>>

RemoveRegion(base, size) ==
  \/ RemoveAsserts(base, size)
  \/ RemoveNothing(base, size)
  \/ RemoveNotManaged(base, size)
  \/ RemoveAllocatedFrom(base, size)
  \/ RemoveWholeRegion(base, size)
  \/ RemovePart(base, size)
  \/ RemoveOutOfDescriptors(base, size)
-----------------------------------------------------------------------------
(***************************************************************************)
(* pmm_alloc_aligned(size, alignment, &p).  Every caller in the kernel     *)
(* passes the address of a local variable, so ret is not NULL.             *)
(***************************************************************************)
AllocSize(size) == AlignUp(size, BASE_PAGE_SIZE)

BadAlignment(a) == a < BASE_PAGE_SIZE \/ a \notin PowersOfTwo

(* Mutant: the bytes skipped for the alignment are not counted. *)
FittingUnaligned(i, n, a) ==
  {d \in FreeBlocks(i) : End(blk[d]) >= Plus(blk[d].base, n)}

(* The blocks of region i that hold n bytes at alignment a. *)
Fitting(i, n, a) ==
  {d \in FreeBlocks(i) : End(blk[d]) >= Plus(AlignUp(blk[d].base, a), n)}

(* Mutant: a region must have more than the request left. *)
HasRoomStrict(i, n, a) == regions[i].free > n /\ Fitting(i, n, a) # {}

HasRoom(i, n, a) == regions[i].free >= n /\ Fitting(i, n, a) # {}

(* First fit: the first region that has room, the first block that fits. *)
FirstFit(i, d, n, a) ==
  /\ HasRoom(i, n, a)
  /\ \A j \in 1 .. i - 1 : ~HasRoom(j, n, a)
  /\ IsFirst(d, Fitting(i, n, a))

AllocBadAlignment(size, a) ==
  /\ ~halted
  /\ BadAlignment(a)
  /\ Fails("alloc", size, a, "ERR_PMM_BAD_ALIGNMENT")

AllocOutOfMemory(size, a) ==
  /\ ~halted
  /\ ~BadAlignment(a)
  /\ \/ free < AllocSize(size)
     \/ /\ slabFree >= SLAB_RESERVE
        /\ \A i \in DOMAIN regions : ~HasRoom(i, AllocSize(size), a)
  /\ Fails("alloc", size, a, "ERR_PMM_OUT_OF_MEMORY")

(* TODO("Slab allocator needs to be refilled ...") never returns. *)
AllocHangs(size, a) ==
  /\ ~halted
  /\ ~BadAlignment(a)
  /\ free >= AllocSize(size)
  /\ slabFree < SLAB_RESERVE
  /\ halted' = TRUE
  /\ UNCHANGED <<regions, blk, slabFree, total, free, grants, ret>>

(* n bytes at ab out of block d, by what remains before and after them. *)
TakeMiddle(i, d, ab, n) ==
  LET b == blk[d]
  IN /\ b.base # ab /\ End(b) > Plus(ab, n)
     /\ blk' = Split(d, Extent(b.base, Minus(ab, b.base)),
                        Extent(Plus(ab, n), Minus(End(b), Plus(ab, n))))
     /\ slabFree' = slabFree - 1
     /\ Charge(i, n, regions[i].free_blocks)

(* Mutant: the block keeps its size. *)
TakeTailUncut(i, d, ab, n) ==
  /\ blk[d].base # ab /\ End(blk[d]) <= Plus(ab, n)
  /\ Charge(i, n, regions[i].free_blocks)
  /\ UNCHANGED <<blk, slabFree>>

TakeTail(i, d, ab, n) ==
  /\ blk[d].base # ab /\ End(blk[d]) <= Plus(ab, n)
  /\ blk' = [blk EXCEPT ![d] = Block(@.base, Minus(ab, @.base), @.next)]
  /\ Charge(i, n, regions[i].free_blocks)
  /\ UNCHANGED slabFree

(* Mutant: the block keeps its base. *)
TakeHeadInPlace(i, d, ab, n) ==
  /\ blk[d].base = ab /\ End(blk[d]) > Plus(ab, n)
  /\ blk' = [blk EXCEPT ![d] = Block(@.base, Minus(@.size, n), @.next)]
  /\ Charge(i, n, regions[i].free_blocks)
  /\ UNCHANGED slabFree

(* Mutant: the rest gets a descriptor of its own. *)
TakeHeadAnew(i, d, ab, n) ==
  LET b == blk[d]
  IN /\ b.base = ab /\ End(b) > Plus(ab, n)
     /\ blk' = Split(d, Extent(ab, 0), Extent(Plus(ab, n), Minus(End(b), Plus(ab, n))))
     /\ slabFree' = slabFree - 1
     /\ Charge(i, n, regions[i].free_blocks)

TakeHead(i, d, ab, n) ==
  LET b == blk[d]
  IN /\ b.base = ab /\ End(b) > Plus(ab, n)
     /\ blk' = [blk EXCEPT
                  ![d] = Block(Plus(ab, n), Minus(End(b), Plus(ab, n)), b.next)]
     /\ Charge(i, n, regions[i].free_blocks)
     /\ UNCHANGED slabFree

TakeWholeBlock(i, d, ab, n) ==
  /\ blk[d].base = ab /\ End(blk[d]) <= Plus(ab, n)
  /\ blk' = BlkWithout(i, d)
  /\ Charge(i, n, HeadWithout(i, d))
  /\ UNCHANGED slabFree

AllocGrants(size, a) ==
  LET n == AllocSize(size)
  IN /\ ~halted
     /\ ~BadAlignment(a)
     /\ free >= n
     /\ slabFree >= SLAB_RESERVE
     /\ Len(grants) < MaxGrants
     /\ \E i \in DOMAIN regions, d \in Used :
          LET ab == AlignUp(blk[d].base, a)
          IN /\ FirstFit(i, d, n, a)
             /\ \/ TakeMiddle(i, d, ab, n)
                \/ TakeTail(i, d, ab, n)
                \/ TakeHead(i, d, ab, n)
                \/ TakeWholeBlock(i, d, ab, n)
             /\ grants' = Append(grants, [base |-> ab, size |-> n,
                                          asked |-> size, align |-> a])
     /\ Returns("alloc", size, a, "ERR_OK")
     /\ UNCHANGED <<total, halted>>

AllocAligned(size, a) ==
  \/ AllocBadAlignment(size, a)
  \/ AllocOutOfMemory(size, a)
  \/ AllocHangs(size, a)
  \/ AllocGrants(size, a)

(* pmm_free(p) is a stub. *)
Free(p) ==
  /\ ~halted
  /\ Fails("free", p, 0, "ERR_NOT_IMPLEMENTED")
-----------------------------------------------------------------------------
(* Any sequence of calls of the interface. *)
Next ==
  \/ \E r \in AddReqs : AddRegion(r[1], r[2])
  \/ \E r \in RemoveReqs : RemoveRegion(r[1], r[2])
  \/ \E r \in AllocReqs : AllocAligned(r[1], r[2])
  \/ \E g \in DOMAIN grants : Free(grants[g].base)

Spec == Init /\ [][Next]_vars

(***************************************************************************)
(* The calls for which the manager keeps its promises; README.md says what *)
(* goes wrong in the others.  A region is added above the regions that are *)
(* already managed, in the lower half of the address space, and holds a    *)
(* page.  A range that is removed consists of pages, is not a whole region *)
(* and does not end inside a free block.  A request is for at least a byte *)
(* and does not overflow when rounded.  The kernel adds one region (early_heap), removes none, and    *)
(* asks for whole pages.                                                   *)
(***************************************************************************)
AddContract(base, size) ==
  /\ base # NULL
  /\ base + size <= HALF
  /\ AddBase(base) + BASE_PAGE_SIZE <= base + size
  /\ \A i \in DOMAIN regions : End(regions[i]) <= base

RemoveContract(base, size) ==
  /\ base % BASE_PAGE_SIZE = 0 /\ size % BASE_PAGE_SIZE = 0
  /\ base + size <= HALF
  /\ \A i \in DOMAIN regions :
       /\ ~ExactFit(i, base, size)
       /\ \A d \in FreeBlocks(i) :
            ~(blk[d].base < base + size /\ base + size < End(blk[d]))

AllocContract(size) == size \in 1 .. HALF

ContractNext ==
  \/ \E r \in AddReqs : AddContract(r[1], r[2]) /\ AddRegion(r[1], r[2])
  \/ \E r \in RemoveReqs : RemoveContract(r[1], r[2]) /\ RemoveRegion(r[1], r[2])
  \/ \E r \in AllocReqs : AllocContract(r[1]) /\ AllocAligned(r[1], r[2])
  \/ \E g \in DOMAIN grants : Free(grants[g].base)

ContractSpec == Init /\ [][ContractNext]_vars
-----------------------------------------------------------------------------
(* Every variable holds a value of the type the code gives it.  Lists and  *)
(* heads refer only to descriptors the slab allocator has handed out.      *)
TypeOK ==
  /\ regions \in Seq([base : SizeT, size : SizeT, free : SizeT,
                      free_blocks : Used \cup {NULL}])
  /\ Len(regions) <= PMM_REGION_COUNT
  /\ slabFree \in 0 .. SLAB_TOTAL
  /\ blk \in [Desc -> [base : SizeT, size : SizeT, next : Used \cup {NULL}]]
  /\ total \in SizeT
  /\ free \in SizeT
  /\ halted \in BOOLEAN
  /\ grants \in Seq([base : SizeT, size : SizeT, asked : SizeT, align : SizeT])

(* x and y are extents of memory with no byte in common; inner lies in     *)
(* outer.                                                                  *)
Apart(x, y) == x.base + x.size <= y.base \/ y.base + y.size <= x.base

Inside(inner, outer) ==
  /\ outer.base <= inner.base
  /\ inner.base + inner.size <= outer.base + outer.size

Live == UNION {FreeBlocks(i) : i \in DOMAIN regions}

(* No byte is handed out twice: two successful calls of pmm_alloc_aligned  *)
(* never return overlapping memory, however blocks were split, cut and     *)
(* unlinked in between.                                                    *)
GrantsApart ==
  \A g, h \in DOMAIN grants : g # h => Apart(grants[g], grants[h])

(* What is handed out has left the free lists, and the free lists of all   *)
(* regions are disjoint extents: the next call can give out none of it.    *)
FreeBlocksApart ==
  /\ \A d, e \in Live : d # e => Apart(blk[d], blk[e])
  /\ \A d \in Live, g \in DOMAIN grants : Apart(blk[d], grants[g])

(* The manager hands out, and keeps for handing out, only memory that some *)
(* pmm_add_region put under its control.                                   *)
AllManaged ==
  /\ \A d \in Live : \E i \in DOMAIN regions : Inside(blk[d], regions[i])
  /\ \A g \in DOMAIN grants : \E i \in DOMAIN regions : Inside(grants[g], regions[i])

(* The bytes of an extent, those that lie in free blocks of region i, and  *)
(* those that lie in any free block.                                       *)
Bytes(x)     == x.base .. x.base + x.size - 1
FreeBytes(i) == UNION {Bytes(blk[d]) : d \in FreeBlocks(i)}
AllFreeBytes == UNION {FreeBytes(i) : i \in DOMAIN regions}

(* The counters agree with the lists: region.free is the number of bytes   *)
(* in free blocks of the region, pmm.free the number in all free blocks.   *)
(* The early exits of pmm_alloc_aligned (pmm.free < size, region.free <    *)
(* size) are sound only then.                                              *)
CountersExact ==
  /\ \A i \in DOMAIN regions : regions[i].free = Cardinality(FreeBytes(i))
  /\ free = Cardinality(AllFreeBytes)

(* Each list is in the order of addresses: pmm_remove_region stops at the  *)
(* first block that ends above the range ("We've gone past the block we    *)
(* are looking for") and would miss its block otherwise.                   *)
ListsSorted ==
  \A d \in Live : blk[d].next # NULL => End(blk[d]) <= blk[blk[d].next].base

(* Descriptors are never returned, but only an area or a grant with more   *)
(* than the alignment of a page costs one: however much pmm_alloc hands    *)
(* out, it does not bring pmm_alloc_aligned to the endless loop of its     *)
(* TODO.                                                                   *)
DescriptorsPaid ==
  SLAB_TOTAL - slabFree <=
    Len(regions) + Cardinality({g \in DOMAIN grants : grants[g].align > BASE_PAGE_SIZE})

(* The pages of a region or block. *)
PagesOf(x) == x.base \div BASE_PAGE_SIZE .. ((x.base + x.size) \div BASE_PAGE_SIZE) - 1

Memory == INSTANCE PhysMem WITH
            PAGE <- BASE_PAGE_SIZE,
            Adds <- AddReqs, Removes <- RemoveReqs, Requests <- AllocReqs,
            areas <- [i \in DOMAIN regions |-> PagesOf(regions[i])],
            avail <- UNION {PagesOf(blk[d]) : d \in Live},
            held  <- [g \in DOMAIN grants |->
                        [page |-> grants[g].base \div BASE_PAGE_SIZE,
                         count |-> grants[g].size \div BASE_PAGE_SIZE]],
            said  <- ret

(* The lists of blocks implement first fit on a set of pages: a request    *)
(* gets the lowest run of free pages of the first region that has one,     *)
(* aligned and long enough, and ERR_PMM_OUT_OF_MEMORY is returned only     *)
(* when there is none; a removed page is never handed out again.           *)
MemorySpec == Memory!Spec

(* Following next pointers never returns to the same descriptor, so the    *)
(* loops over a free list end -- also when two entries of the region array *)
(* share a list after pmm_remove_region.                                   *)
ListsAcyclic ==
  \A d \in Used : d \notin Reach(blk[d].next)

(* Regions, free blocks and grants consist of whole pages, whatever the    *)
(* arguments were: "at least a page" precedes or follows a cut.            *)
WholePages ==
  LET paged(x) == x.base % BASE_PAGE_SIZE = 0 /\ x.size % BASE_PAGE_SIZE = 0
  IN /\ \A i \in DOMAIN regions : paged(regions[i])
     /\ \A d \in Used : paged(blk[d])
     /\ \A g \in DOMAIN grants : paged(grants[g])
=============================================================================
