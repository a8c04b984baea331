# A verification of Octiron

Octiron is a small RISC-V kernel.  It boots in machine mode on one hart, sets up
a physical memory manager, Sv39 page tables and a parsed device tree, and ends
in an idle loop.  The code is in `src/octiron` (kernel) and `src/kzadhbat` (the
library under it).  This directory models the parts that carry its logic in
TLA+, checks them with TLC and proves the central properties with TLAPS.

Run a check with `tlc -config MCPmm_contract.cfg MCPmm`, a proof with
`tlapm PmmProofs.tla`.

## The system

| Component | State | Operations | Used by |
|---|---|---|---|
| physical memory manager, `octiron/pmm.c` | region array, a linked list of free blocks per region, counters `total` and `free`, a slab allocator for the list nodes | `pmm_initialize`, `pmm_add_region`, `pmm_remove_region`, `pmm_alloc[_aligned]`, `pmm_free` (stub) | page tables, arrays, device tree, `kinit` |
| slab allocator, `kzadhbat/slab.c` | list of regions, a free list and counters in each | `slab_init`, `slab_grow`, `slab_alloc`, `slab_free`, `slab_freecount` | pmm |
| page tables, `octiron/paging.c` | the static root and the table pages below it | `sv39_map`, `sv39_unmap`, `sv39_virt_to_phys` | `kinit`, device tree |
| error values, `kzadhbat/error.c` | a word that is meant to be a stack of errors | `err_push`, `err_pop`, `err_top`, `err_is_fail`, `err_str`, `err_print_stack` | everything |
| bump allocator, `kzadhbat/collections/bump_allocator.c` | buffer, size, index | `bump_init`, `alloc`, `copy`, `str_copy`, `alloc_aligned` | device tree |
| dynamic array, `octiron/collections/array.h` | data pointer, size, capacity | `ARRAY_PUSH` | device tree |
| device tree, `octiron/devices/device_tree` | nodes, properties, reserved regions, a bump allocator | `dt_initialize` (map, parse, rewrite, print, unmap) | `kmain` |
| boot, `octiron/entry.c`, `asm/entry.S` | control flow, CSRs, the address of the blob, `early_heap` | `start`, `kinit`, `kernel_id_map_range`, `kmain` | - |
| printing, `kzadhbat/fmtprint.c` | the output function, a static buffer | `strlib_initialize`, `print`, `println` | everything |
| traps, UART, reboot, libc | none or device registers | - | everything |

Everything is a call on one hart: there is no second thread, no preemption and
no interrupt handler that touches this state, and nothing is persisted.  So
the difficulty is not interleaving but

* pointers: free lists that share nodes, list nodes in memory that the code
  computes wrongly, array elements that move while pointers to them are kept;
* numbers: `size_t` sums and differences that wrap around, alignment masks,
  shifts by bytes instead of bits, bounds compared on one side only;
* fields overwritten before they are used a second time;
* calls that fail halfway: no descriptor, no page for the second table;
* long legal sequences of calls of the memory manager;
* order at boot: what is zeroed, mapped and enabled before what is used, and a
  kernel that must find its own page tables through its own page tables.

`PROJECT.json` lists these hazards with their lines and the properties that
would catch each of them.  Where the code goes wrong and a contract therefore
excludes the case, the hazard's note says so, and the section "What the contracts
exclude" says what happens.

## Modules

| Module | Models | Checked by |
|---|---|---|
| `SizeT` | `size_t` arithmetic with wrap-around, `ALIGN_UP`, `ALIGN_DOWN` | used by `Pmm`, `Bump` |
| `Pmm`, `PhysMem` | `pmm.c`; the first-fit manager of page sets it implements | `MCPmm` |
| `PmmProofs` | theorems about `Pmm`: types, lists and pages under all calls; what the contract promises; the refinement of `PhysMem` | `tlapm` |
| `Slab`, `SlabPool`, `SlabProofs` | `slab.c`; the pool of blocks it implements; theorems about it | `MCSlab`, `tlapm` |
| `Paging`, `VSpace`, `PagingProofs` | `paging.c`; the address space it implements; theorems about it | `MCPaging`, `tlapm` |
| `ErrVal`, `ErrValProofs` | `error.c`; a theorem about it | `MCErrVal`, `tlapm` |
| `DynArray`, `DeviceTree`, `DeviceTreeProofs` | `array.h`; `device_tree.c` over it; theorems about both | `MCDeviceTree`, `tlapm` |
| `Boot`, `BootProofs` | `entry.S`, `entry.c`, the mapping in `dt_initialize`; uses `Paging`; theorems about it | `MCBoot`, `tlapm` |
| `FmtPrint`, `FmtPrintProofs` | `fmtprint.c`; theorems about it | `MCFmtPrint`, `tlapm` |
| `Bump`, `BumpProofs` | `bump_allocator.c`; theorems about it | `MCBump`, `tlapm` |

The modules meet at their interfaces.  `Pmm` uses of the slab allocator only
that it hands out each descriptor once and refuses every descriptor that is
returned, which is what `Slab` shows of a single region whose blocks lie before
it.  `Paging` uses of the memory manager that a page is handed out once
(`GrantsApart` of `Pmm`) and zeroed.  `Boot` runs the operations of `Paging` on
its own variables (`P == INSTANCE Paging`), with the memory manager reduced to
what `PhysMem` says of requests of one page: the lowest free page is taken.  Error values are strings in these modules
(the error pushed last); what the word really holds is the subject of `ErrVal`.

A definition whose comment begins with *Mutant* is a plausible bug; replacing
the definition after it by the mutant must break the property `PROJECT.json`
names.  They are not used otherwise.

### Pmm

A region is a record `[base, size, free, free_blocks]`, a free block a
descriptor in `blk` with `base`, `size` and `next`.  The lists are modelled
with their pointers because `pmm_remove_region` can leave two entries of the
region array with the same list.  `Reach(h)` is the set of blocks a walk visits
(the smallest set closed under `next`), `IsFirst` the block at which a walk
stops, so the loops of the code become choices without recursion.  Each call is
one action for each of its ways out: `AddRefused`, `AddAccepted`; seven for
`pmm_remove_region`, with the four ways of cutting a block; `AllocBadAlignment`,
`AllocOutOfMemory`, `AllocHangs` (the `TODO` loop), `AllocGrants` with the four
ways of splitting a block.  Assignments keep the order of the code: where a
field is overwritten before the next line reads it, the model reads the new
value.  `grants` is a history variable of what was handed out.

`Spec` allows any sequence of calls with any arguments.  `ContractSpec` allows
the calls for which the manager keeps its promises: regions are added upwards and hold a page, a removed range consists of
pages, is not a whole region and does not end inside a free block, and a
request asks for something and does not overflow.  The kernel's own use (one region, no removal,
requests of whole pages) is within it.

`PhysMem` is what the contract makes of the manager, without blocks, lists,
counters or descriptors: areas, a set of available pages, and first fit.  The
refinement (`MemorySpec`) maps a region to its pages and the lists to the union of
the pages of their blocks.  It says more than that grants are disjoint: a request
gets the very run of pages that first fit gives, and is refused only when no area
has one.  A request may also find the endless loop of `AllocHangs`, which is no
answer; `DescriptorsPaid` says when it can not: every descriptor in use is that of
a region or was used up by a grant with an alignment larger than a page.  Requests
of whole pages with the page as alignment, all the kernel makes, never use one.

### Slab

`mem` holds the words of memory, so that links, headers and the clients' data
can collide if the code lets them.  `slab_grow` computes the place of the blocks
as `buf - len`.  The run `slab_pool` therefore gives it buffers before which
the memory is unused, or belongs to the data area of the buffer before: in
that layout the allocator is still a correct pool, and blocks are even freed
into the list of the region above.  With other neighbours the stores of
`slab_grow` overwrite them.  `SlabAssumption` states that layout: the words a buffer
makes use of (`Extent`, the header and the blocks before it) exist and are not
shared with those of another buffer.  `FirstOf` is where a walk over the list of
regions stops, `AllAvailable` the blocks of all free lists.

### Paging

`tab` maps a table page to its entries, an entry has the fields the code reads.
Addresses are pairs of page number and offset.  `MapNoLevel1` and `MapNoLevel0`
are the two places where memory can run out; `Slot` is the walk that
`sv39_unmap` and `sv39_virt_to_phys` share.  Only small pages can be mapped, so
a leaf above level 0 does not occur; `Slot` still has the case.

### ErrVal

The word is the set of its bits that are one.  `err_print_stack` is a loop of
steps, so that its end is a property.

### Bump

`BitAnd` is a constant operator of which the proofs assume that it is at most either
operand and that `BitAnd(x, a - 1)` is `x % a` when `a` is a power of two; TLC uses
the operator of the `Bitwise` module and evaluates both assumptions on it.

### DeviceTree

One behaviour is one call of `dt_initialize` on a blob that `Init` chooses.  A
blob is a header (magic number, base, size, reservation block) and a sequence
of tokens.  `pc` is the phase: `map`, `mapRest`, `reserve`, `parse`, `rewrite`,
`print`, `unmap`, and then `done`, `failed` (an error is returned), `panic`
(`PANIC_LOOP` or an assertion) or `trap` (a NULL pointer is used).  Each token
and each property rewritten is a step, `frames` is the stack of the recursive
rewrite.  The field `data` of a property holds the lists that `reg`, `ranges` and
`dma-ranges` are read into, cell by cell, as `ReadLists` computes them from the
offsets in the value and in the lists.  Printing changes nothing: it is one step.

`DynArray` keeps every block an array has had, and a pointer is a pair of block
and slot.  So when `ARRAY_PUSH` grows the array of nodes, `curr` and all parents
still point into the old block, the new node is linked there, and `state.root`
is in the end the copy of the root in the newest block, whose child list leads
back into older ones.  `TreeRight` says that this comes out right.  It depends on
two things: a page holds at least two nodes, so that the root is copied with its
first child in place (`DeviceTreeAssumption`; with one node per page the tree is
lost), and properties precede subnodes, as the format demands.  The elements
of `state.nodes` itself are not all up to date after a growth, and the children
of the root name a stale copy as their parent; nothing uses either yet.

The memory manager gives a chosen number of blocks; the bump allocator may
refuse any allocation, up to `MaxRefusals` of them.  `Level`, `OpenAt`, `CellsOf`,
`EntryFields` and `Valid` read off the tokens what the blob means; the properties
compare the parser's result with it.  In two points they follow the code.  `CellsOf` lets a node
that declares no cells pass on those it got (`WithCells`), where the devicetree
standard has defaults of 2 and 1.  And `Valid` asks for `ranges` with cells that are not zero, as the
assertions in `dtb_rewrite_property_ranges` do, although the comments at
`device_tree.c:97` speak of lists that are NULL without cells.  `EntryFields` does not
follow it: an entry of `ranges` is a child address of the cells the node declares, a
parent address of the cells of its own `reg`, and a length of the size cells it declares.

### Boot

One behaviour is one reset of one hart.  `machine` is chosen at reset: the hart
number, whether the build has assertions, whether the machine has physical memory
protection, the places where the sections end, the place of `dtb_base_addr` in BSS, the
pages of the early heap and the blob.  Memory holds anything at that time.  `Park`,
`BeginZeroing`, `ZeroWord` and `SaveBase` are `start`: a round of the loop over BSS is a
step, and clears the entry of a table or the variable that lies at its address; `InitMemory`, `MapPage` (one round of
`kernel_id_map_range`), `NextRange` and `VerifyAndSetRegisters` are `kinit`; `EnterKmain`
is `sret` with the first message; the actions whose names begin with `Dt` are
`dt_initialize`.  A page table entry is written by the actions of `Paging`, so the
tables really come out of the early heap that is being mapped.  `csr` has the
registers that decide what happens at `sret`.

The code after the `mret` in `entry.S` is an older version of the end of `kinit` and
cannot be reached.  Interrupts are left out: `sie` is set, but nothing programs a
timer or a device to raise one.  The hardware side (`Accessible`, `RunsAt`,
`PmpAllows`) is external; hardware that manages the accessed and dirty bits of the
entries, which the kernel never sets, is assumed.

### FmtPrint

A call of `print` or `println` is a sequence of steps, one per character of the
format and one per digit.  A `size_t` has `W` bits and the buffer `W + 3` characters, as
64 and 67 are related; the index `i` wraps around.  An argument carries its type,
because `va_arg` reads a `u32` as the `size_t` the calling convention has extended it
to.  `Opens`, `Waits`, `Conversion`, `Numeral` and `Adds` say what a format string means,
position by position and without the state of the interpreter; `OutputRight` compares.
`FmtPrintAssumption` is about the formats: after the `%` of a conversion come
only `l`s and its letter, or another `%` at once, or only `l`s up to the end
(`ProperFormat`), and each conversion has an argument of its kind (`GoTogether`).
The calls in the repository are like this, but for the 128-bit arguments of `%x`
with which the device tree prints numbers of more than two cells
(`device_tree.c:591`, `:632-634`, `:648`, `:674-676`): `va_arg` reads half of one as a `size_t`.  They are
left out.

## Runs

Passing runs:

| Run | Shows |
|---|---|
| `pmm_contract` | in the contract: no byte is handed out twice (`GrantsApart`), free blocks are disjoint from each other and from all grants (`FreeBlocksApart`), everything lies in a region (`AllManaged`), counters equal the lists (`CountersExact`), lists are sorted (`ListsSorted`), only alignments use up descriptors (`DescriptorsPaid`), and the manager is first fit on sets of pages (`MemorySpec`) |
| `pmm_api` | for all arguments: pointers and counters stay in range (`TypeOK`), lists are acyclic (`ListsAcyclic`), all sizes are whole pages (`WholePages`) |
| `slab_pool` | blocks, headers and lists do not collide, counters and lists agree, a client's block changes only by its client, and the allocator implements `SlabPool`; a block that `slab_free` refuses stays held |
| `paging_space` | the tables form a tree that holds every page taken, walks end at a leaf, and the tables implement `VSpace`, also when memory runs out between the two levels |
| `errval_stack` | a failure stays a failure, printing ends |
| `dt_parse` | no pointer dangles (`TypeOK`), the tree built is the tree of the blob (`TreeRight`), every node has the cells its parent declares or inherits and its `reg` is divided by them (`CellsRight`), the lists of every `reg`, and of `ranges` and `dma-ranges` where a bus has the cells of its parent's space, hold the entries of the blob (`ListsRight`), the rewrite pass meets each property once (`MeetsOnlyRaw`), the blob is mapped while it is read and unmapped after success (`MappedWhileRead`), a valid blob is refused only for want of memory (`ValidAccepted`), and every call ends (`Ends`) |
| `boot_kernel` | in supervisor mode the address space is exactly the sections with their permissions and, while it is parsed, the blob (`SpaceExact`); all tables and pages that may become tables are mapped to be written, and nothing is writable and executable (`TablesWritable`); a panic has a reason (`PanicJustified`); clearing BSS leaves zeroed tables and the address of the blob to kinit and writes to no other page (`BssReady`); every hart settles (`Settles`) |
| `fmt_print` | the output is what the format says (`OutputRight`), numbers stay in the buffer (`InBuffer`), calls return (`Returns`) |
| `bump_arena` | blocks are disjoint parts of the buffer, aligned where the buffer and the alignment allow it |

The other runs each show one disagreement between the code and what a comment
says; `PROJECT.json` quotes it under "findings".

| Run | Shows |
|---|---|
| `slab_outside` | the blocks of a region lie outside the buffer that was added |
| `dt_rsvmap` | the loop over the reserved regions of the blob does not advance: one region is stored until memory runs out |
| `errval_top` | errors are merged instead of stacked, the top is neither of two |

### What the contracts exclude

The properties of `pmm_contract` do not hold outside `ContractSpec`.  The code goes
wrong in these calls, all of which the model has as actions: removing the middle of
a block computes the size of the rest from a field that was overwritten two lines
before (`pmm.c:176`), so the rest becomes almost as large as the address space; a
request for 0 bytes succeeds with an address that the next request gets too, and
with a large alignment splits a block on the way; a range that ends before the first page boundary above its base
becomes a region of almost the whole address space, because the size
underflows (`pmm.c:82`); a range that overlaps a managed region and ends above it
is added and its bytes are managed twice (`:95`); a range below a managed region is refused as managed already
(`pmm.c:95`); a region removed as a whole stays in the array, because
`region_count` is not decremented (`:149`); removing the head of a block leaves
its size as it was (`:183`); removing the middle without a descriptor left fails
after the block has been cut (`:169`); a request within a page of 2^64 is
rounded to 0 and succeeds (`:224`); allocated pages behind the last free block
count as not managed (`:206`); a range that ends on a page boundary and starts
above one loses the bytes below it (`:125`).

Of the slab allocator: a block of the only region is refused by `slab_free`
(`slab.c:99`), because it lies below the region.  Of the page tables: `sv39_map`
accepts flags without R, W and X, and the walk for such a page ends in
`__builtin_unreachable` (`paging.c:213`); `sv39_virt_to_phys` masks the offset with
`0x1000` (`paging.c:183`), so it drops the offset and, for an odd virtual page that is
mapped to an even physical one, returns the page after it (`VirtToPhys` has this;
kinit asks for identity mappings at page boundaries, where it does no harm).  Of the error values: merged errors can
be larger than any error code, and `err_str` then reads beyond its table
(`error.c:106`).  When memory for a table of the blob runs out, 10
(`ERR_PMM_OUT_OF_MEMORY`) becomes 23 in `sv39_map` and 63 in `dt_initialize`, which kmain
passes to `err_str`; the table has 30 entries.  Of the bump
allocator: `index + size` can wrap around for sizes near 2^64
(`bump_allocator.c:30`), and an alignment that is not a power of two (the device
tree passes 12) is not honoured (`:77`).

Of booting: kinit sets `pmpaddr0` to 0 and `pmpcfg0` to 0xF, top of range, "to map the
whole physical address space" (`entry.c:155`).  By the privileged architecture such an
entry matches addresses below `pmpaddr0`, none, so on a machine that implements
physical memory protection supervisor mode may access nothing and kmain traps; the
model has such a machine and it ends in `trap`.  `SpaceExact` holds of the kernel
that reaches kmain.  The comment at `dtb_base_addr` (`entry.c:19`) speaks of an attribute
that is not there and of BSS being zeroed afterwards; the variable is in BSS, and
the order in `entry.S` is what saves it.  Nothing keeps the blob out of the pages of
the kernel or of the early heap: in the kernel it leads to a panic, because the page
is mapped already.

Of printing: a `u32` of 2^31 or more is printed with its sign extended (`fmtprint.c:99`;
the device tree prints addresses and handles of this type), so `OutputRight` leaves it
out; printing before `strlib_initialize` calls through NULL; a `%` at the end of a format
is dropped.

Of the device tree: a blob with a reservation never parses (`dt_rsvmap`), so
`ValidAccepted` is about the others; an early return leaves the pages of the blob
mapped (`device_tree.c:735`), and kmain panics; addresses of three cells, as on a PCI
bus, are read and stored as 16 bytes at steps of 12 and 16 bytes (`:338`), so what is
stored is not what the blob has and the last element runs over what follows the
list, which is why `ListsRight` is about one and two cells; `ranges` and `dma-ranges` are
divided by the cells of the node's own `reg` (`:485-488`), although child addresses and
lengths belong to the bus the node is (`:40`, `:53-57`, `:97-105`), so the entries of a bus with
other cells than its parent's come out wrong, such as QEMU's PCI bus of 3 + 2 + 2 cells, which is read as
2 + 2 + 2 (the blobs of `dt_parse` have such buses, and without its second condition TLC finds `ListsRight`
violated by them); a name or value that the bump allocator refused is
followed as a NULL pointer by the rewrite pass (`:449`); `state.initialized` is
never set, so `dt_is_initialized` is always false (`:846`).  `MappedWhileRead` is about
the loops; magic number and size are read while only the first page is mapped (`:734-739`), which is
enough for a blob at a multiple of eight, as the format demands.  Neither `sv39_map` and `sv39_unmap` nor
`dt_initialize` executes `sfence.vma`; a hart that keeps the former absence or presence
of a translation may trap at a page just mapped or still reach one just unmapped, and the
model has none of this: its translations are those of the tables.

### Bounds

* `Pmm`: `size_t` has 64 values (32 in `pmm_api`) and a page 4 bytes.  The
  arguments include NULL, unaligned ends, less than a page, ranges below,
  across and inside what is managed, each of the four ways to cut a block, and
  alignments larger than a page; two regions, up to five grants and six
  descriptors with a reserve of two, so that the array, the descriptors and the
  memory all run out.
* `Slab`: 38 words, blocks of three words (as the memory manager's descriptors
  have), three buffers of one or two blocks, two of them adjacent, one with a
  remainder.
* `Paging`: tables of two entries and three pages for tables, of which up to six
  would be needed; pages that share no, one and two tables, and one beyond the
  end of the address space.
* `ErrVal`: a word of 10 bits and eight pushes, so that bits leave the word; the
  violation uses 64 bits.
* `DeviceTree`: all trees of up to three nodes with four lists of properties for
  each node, all shapes of four to six nodes, every kind of property alone, buses with the
  cells of their parents and with others, PCI's among them,
  malformed token sequences, and blobs of one to nine addresses at every offset
  of a page of four.  A first block holds two nodes and one property, so arrays
  move up to twice and four times; memory runs out after 0, 1, 2, 4 or 12 blocks.
* `Boot`: pages of 16 addresses and tables of eight entries of two; the kernel lies in one
  part of the address space and the UART in another, so tables of both levels are
  needed twice.  The early
  heap has 0 to 11 pages, so that it runs out at every mapping; sections end at a page
  boundary and inside a page, BSS also inside a word and inside the last word of a page;
  `dtb_base_addr` is the first word of BSS or lies behind the early heap; blobs share tables with the kernel, need their own,
  lie in it, run into it, and start and end inside pages.
* `FmtPrint`: numbers of six bits (0, those at and beside a power of a base, the
  largest), two calls in a
  row for what the first leaves in the buffer, formats with escapes, text, `%lx` and a
  NULL string.
* `Bump`: buffers of 13 and 16 bytes at an aligned and an unaligned address.

The bounds are constants of the modules or sets in the `MC` modules.  `MaxGrants`,
`DEPTH` and `MaxBlocks` bound the histories.  Deadlock is not checked where the
system may stop: the memory manager in its endless loops, and allocators whose
bounded history is full.

### Fairness

`ErrVal` has weak fairness of the steps of the loop in `err_print_stack`, `FmtPrint` of
the steps of a call (not of making one), `DeviceTree` and `Boot` of their next step.
All run on one hart and nothing preempts them.

## Proofs

Each theorem holds for every value of the constants that the named ASSUMEs of `SizeT`,
`Pmm`, `Slab`, `Bump`, `Paging`, `ErrVal`, `Boot`, `DeviceTree` and `FmtPrint` admit; TLC
evaluates these in every run.  The proof modules add none.

### Memory manager

For `Spec`, all calls with all arguments:

* `PmmProofs!TypeCorrect`, `[]TypeOK`: the region array is never overrun, no free list or
  `next` field refers to a descriptor the slab allocator has not handed out (in particular
  the one `pmm_alloc_aligned` uses without testing it for NULL exists, because of the
  reserve), and wrap-around keeps every number a `size_t`.  It is inductive as it stands.
* `PmmProofs!PagesWhole`, `[]WholePages`: rounding never fails to give pages, also in
  the calls whose sizes wrap around, because the page size divides the word size.
* `PmmProofs!NoListCycle`, `[]ListsAcyclic`: stated as "for each block there is a set
  that is closed under `next`, holds the block after it and lacks the block itself", which
  every way of linking and unlinking keeps.  So it needs no induction over lists, and
  covers two regions that share one.

For `ContractSpec`, from one inductive invariant, `PmmProofs!Inv`.  None of the
promises is inductive alone.  That a grant overlaps nothing needs that free blocks are
apart from each other and from what was granted before; that needs that lists of
different regions share no block, which needs regions apart and each block inside its
region; keeping a list sorted needs that what the walk passes lies below; and the guard
of `pmm_alloc_aligned` on `region.free` is harmless only if the counter is right.  `Inv`
joins the parts `TypeOK`, `WholePages`, `RegionsGood`, `ListsGood`, `GrantsGood`,
`CountersExact` and `DescriptorsPaid`, and is preserved action by action.  The
four ways to split a block and the four to cut one are lemmas about a carved list
(`Carved`).  Theorems: `ContractInvariant`, `NoByteTwice` (`GrantsApart`),
`FreeMemoryApart` (`FreeBlocksApart`), `OnlyManagedMemory` (`AllManaged`), `CountersRight`
(`CountersExact`), `ListsStaySorted` (`ListsSorted`), `DescriptorsAccounted`
(`DescriptorsPaid`).  The counters are stated as numbers of free bytes, a cardinality, so
that cardinalities of unions and differences replace a sum over the list.

`PmmProofs!ImplementsMemory` is the refinement `ContractSpec => MemorySpec`: each call is
the call of `PhysMem` with the same arguments and answer, or, when it ends in an endless
loop, a stutter.  It needs one more invariant, `Gaps` (`BlocksNeverTouch`): no block of a list
begins where another ends.  Without it a run of free pages could lie across two blocks,
and `pmm_alloc_aligned`, which looks for a single block, would refuse a request that has
room; each cut keeps it because what is taken lies between the pieces.  With it
a run of free pages lies in one block (`RunInBlock`), so a block fits exactly if a run
begins in it (`FitIsPlace`, `PlaceIsFit`); the lists are sorted, so the first block that
fits has the lowest run (`FirstLowest`, `FitIsFirst`); and `CountersExact` makes the early exits
on `pmm.free` and `region.free` agree with there being no such run.

### Page tables

`PagingProofs` has the inductive invariant `Tree` over the tables.  Its part `Sound` says
that entries are typed (`TabT`), pages not in use are zero (`Zeroed`), links lead down
one level (`LinksDown`), no two entries link one page (`LinksOnce`) and leaves are at
the last level (`LeavesBelow`); `Tree` adds that every page taken is linked.
`TablesAreTree` proves it, one lemma per way of writing an entry; `TypeCorrect`, `NoTableShared` (`TreeShaped`), `TablesKept`
(`NoTableLost`) and `WalkEndsAtLeaf` (`WalksEndAtLeaf`) follow.  `ImplementsSpace` is the refinement
`Spec => SpaceSpec`: a map that fails for want of memory is a stutter of `VSpace` though it may
have linked a table, and a successful map or unmap changes the translation of one page
only.  This last point is where `LinksOnce` is needed: two walks that end at the same
entry have used the same indices.

For `Boot` there is also a count: as long as tables are only made for pages of a set
(`LinksFor`), there are no more tables than parts of the address space with such a page,
over both levels (`PartsWith`), and fewer while a page of the set has no table
(`FewLinked`).

### Slab allocator

`SlabInv`, proved by `SlabInvariant`, has three parts.  `Good`: each free list ends
after as many blocks as its counter says and holds blocks only, no two lists share one,
and none is held by a client.  `Linked`: the regions can be numbered from the end of
their list to its start.  `Counted`: the counters of the allocator are the numbers of
free and of all blocks.  None of them does without the others: a store into a
block keeps the lists only because the block is in none of them, and the test of
`slab_alloc` on a region's counter finds a block only because the counter is the length of
the list.  The layout lemmas derive from `SlabAssumption` that headers and blocks are
apart.  What the walks compute (`Node`, the n-th block of a list; `FirstOf`) is settled by
least counterexample: the smallest number at which a claim fails is not 0 and has a
predecessor, at which it holds.  `SlabBlocksApart`, `SlabListsCoverCounters` and
`SlabHeldUntouched` follow, and `SlabIsPool`, the refinement `Spec => PoolSpec`, also
for a block that is freed into the list of another region than it came from.

### Bump allocator

`Disjoint`, `Contained` and `Aligned` (`BlocksApart`, `BlocksInBuffer`, `BlocksAligned`), for every
buffer, sequence of calls and alignment within the contract.  Disjointness is not
inductive: it needs that all blocks lie below the index (`BelowIndex`), and that no sum
of index, padding and size wraps around, which the contract gives.  `GiveKeeps` proves it
once for the common end of all allocating functions, `MaskUpBounds` that rounding moves
an index upwards by less than the alignment, also when this is not a power of two,
`MaskUpMultiple` that it reaches a multiple when it is one.

### Device tree

* `PointersGood`, `[]TypeOK` on every blob: no pointer that the parser, the tree or the
  rewrite pass holds dangles, although `ARRAY_PUSH` moves the nodes and leaves pointers into
  older blocks behind.  The inductive invariant `PointersOK` says of all elements of all
  blocks, the superseded ones too, that their pointers are places in a block
  (`TreeOK`), and the same of the stack of the recursive rewrite.  It does not
  depend on which node the walk to the last sibling ends at, only that this is a node.
* `BlobMapped`, `[]MappedWhileRead`: by `MappedOK`, the pages mapped (unmapped) so far are
  exactly the multiples of a page from the first one up to the loop's variable.
* `TreeIsTheBlobs`, `[]TreeRight`, on every blob that is well formed.  `ShapeOK` follows the
  parser token by token: there are places `f` for the nodes and `q` for the properties read
  so far at which the elements have the links the tokens ask for (`Built`), the first
  element of the current block is the root or its copy (`Rooted`), and a property comes
  before the subnodes of its node (`Orderly`).  The copies explain the assumption that a
  page holds two nodes: what is stored through a pointer into an old block does not reach
  the copy, and the only node read through its copy is the root.
* `PropertiesMetOnce`, `[]MeetsOnlyRaw`: by `WalkOK`, the calls of the rewrite pass are a path
  in that tree (`Path`) with nodes still to be entered (`Ahead`), and whatever is not raw any
  more belongs to what lies behind them (`Behind`, `RawAhead`).
* `CellsAreInherited`, `[]CellsRight`: `SettledOK` adds which nodes have been entered
  (`Entered`), that those have the cells their parents declare (`IsCells`, `NodesSettled`), that
  each call has the declarations it has met (`Found`, `CallsSettled`) and that what it left
  behind was divided by the cells of its node (`PropsSettled`).  Properties are met
  last first, so that a declaration is complete only when all of them are met.
* `ListsAreRead`, `[]ListsRight`: the fields of an entry, which `EntryFields` takes from the
  declarations in the blob, are those the code divides it by (`SameCells`), so that it finds every
  entry; sizes have at most two cells (`SmallSizes`), so with
  addresses of at most two cells no element is wider than its place; the places of
  different elements are then apart (`CellsApart`), and the lists hold what was read up to any
  entry and field (`Filled`).
* `ValidIsAccepted`, `[]ValidAccepted`: with all of the above a valid blob gives every
  assertion what it asks for.  `AcceptOK` adds that, as long as memory suffices, every
  property was copied; `WithinOne` and `EndsClosed` that the parser is inside a node
  exactly when the format says so; `MetWell` that a rewrite is given the cells the format
  gives it; `MappedOK` that every page can be unmapped.

Recursive functions on the way (`LastSibling`, `Placed`, `ListsBackwards`, `CellsOf`, `CellsBefore`,
`ReadLists`) are settled by least counterexample: a function with the equation exists, is
the only one, and is the one meant.  `DeviceTreeAssumption` asks of a blob only that its
tokens and values are sequences, that cell declarations hold numbers, and that the
tokens do not run on for ever.

### Boot

`BootInv` says for each place in the program what the tables then hold.  While kinit
maps, those are the pages tried so far (`AtMap`); in a build without assertions a failed
map is passed over, so the alternative is that memory for tables has run out.
`AtVerify`, `AtKmain`, `AtBlob`, `AtUnmap` and `AtLoop` continue this to the idle loop.
`BootInvariant` proves it with the lemmas of `PagingProofs` through `P == INSTANCE Paging`.

* `SpaceIsExact`, `[]SpaceExact`, also for builds without assertions: the UART is mapped
  last, lies in a part of the address space of its own and so needs a table of its own;
  once a map has failed for want of a page nothing gives a page back, so the UART stays
  unmapped and the first message of kmain traps.  A kernel that is past kmain's first
  message has therefore mapped everything.
* `TablesAreWritable`, `[]TablesWritable`: tables come from the early heap or are the root,
  both in BSS, which is mapped to be written and not to be executed.
* `PanicIsJustified`, `[]PanicJustified`: by the count of tables above, memory runs out only if
  the kernel and the blob need more tables than the early heap has pages, and a page is
  mapped already only if the blob lies in the kernel.
* `BssIsReady`, `[]BssReady`: while the loop of `start` runs, its address is that of a word of
  BSS and every entry of a table below it is zero (`AtZero`, `ClearTo`); a word holds one
  entry or none, because tables begin at pages and a page is made of words, so a round
  clears exactly the next one (`ClearsWord`), and a word that begins in BSS lies in its pages.
  `a1` is stored only then, and nothing writes the variable again (`Saved`).

`BootAssumption` is what the linker script and the machine guarantee: sections hold
something, begin at a page and share none; the UART is one page far from the rest; early
heap and root are in BSS; everything lies in the address space.  `WordAssumption`: a table is
a page of words, and `dtb_base_addr` a word of BSS outside the tables.

### Printing

`FmtInv`, proved by `FmtInvariant`, for every width of a word, format and argument within the
assumption.  `InStep`: the flag `fmt_spec` is set exactly if a conversion waits
for its letter (`Waits`), and the next argument is the one after those of the conversions
passed.  `NumberAt`: the number in work is that of the conversion just read.
`Halfway`, in the loop over the digits: the digits of what is left of the value followed by
those in the buffer are the digits of the number, and what is left is below `2 ^ (i - 1)`,
so that the places left in the buffer are enough in base 2 and therefore in every base.
`Complete`: at the end the buffer has prefix and digits.  The output is what the
positions passed add.  `NumbersFit` (`InBuffer`) and `PrintsWhatIsSaid` (`OutputRight`) follow.
The flag needs an argument on parity: whether a `%` begins a conversion depends on the
run of `%` before it.  Powers of two have no theory in the provers; `2 ^ (n + 1) = 2 * 2 ^ n` is
derived from the number of subsets of a set.  `Numeral` and the output as a
concatenation are recursive and settled by least counterexample.

### Error values

`ErrValProofs!FailureSeen`, `[]FailurePropagates`, for every width of the word, shift and
sequence of pushes: merging errors never gives success, because the pushed error
keeps its bits.

### Only model-checked

* Liveness under fairness is outside the prover: `PrintEnds`, `Ends`, `Settles`, `Returns`.
  Every other property of the passing runs is stated by a theorem.

## Not modelled

Left out, because it has no state or only a device's: `trap.c` (no code), the reboot
driver (one store, never called), `uart_ns16550a_getchar` (never called), `dt_lookup_node` (a
placeholder), the functions that only print, the string functions, option and
result types, and the zeroing of granted pages.  The second half of `entry.S` is dead
code.
