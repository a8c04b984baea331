-------------------------------- MODULE Slab --------------------------------
(***************************************************************************)
(* The slab allocator, src/kzadhbat/slab.c, over the words of memory its   *)
(* pointers lead to.  A slabRegion is a header of four words at the start  *)
(* of a buffer; a free block holds the address of the next one in its      *)
(* first word.  Sizes and addresses count words of eight bytes.            *)
(*                                                                         *)
(* slab_grow computes the place of the blocks as buf - len instead of      *)
(* buf + sizeof(struct slabRegion): the blocks lie before the buffer.      *)
(***************************************************************************)
EXTENDS Integers, FiniteSets

CONSTANTS
  MEMORY,      \* number of words; address 0 is NULL
  BLOCKSIZE,   \* slabs->blocksize after slab_init, in words
  GrowReqs     \* <<buf, len>> arguments of slab_grow

NULL == 0
Addr == 1 .. MEMORY - 1

HEADER == 4     \* sizeof(struct slabRegion)

FirstBlock(buf, len) == buf - (len - HEADER)

(* The words that slab_grow makes use of. *)
Extent(buf, len) == FirstBlock(buf, len) .. buf + HEADER - 1

BigEnough(len) == len >= BLOCKSIZE + HEADER

(* What the clients of slab_grow have to see to, as the code is: the words *)
(* it makes use of exist and are not shared with another buffer.           *)
ASSUME SlabAssumption ==
  /\ MEMORY \in Nat /\ BLOCKSIZE \in Nat \ {0}
  /\ GrowReqs \subseteq (0 .. MEMORY - 1) \X Nat
  /\ \A x \in GrowReqs : x[1] # NULL /\ BigEnough(x[2]) =>
       /\ Extent(x[1], x[2]) \subseteq Addr
       /\ \A y \in GrowReqs : y[1] # NULL /\ BigEnough(y[2]) /\ y[1] # x[1] =>
            Extent(x[1], x[2]) \cap Extent(y[1], y[2]) = {}

VARIABLES
  mem,       \* the words of memory
  regions,   \* slabs->regions
  total,     \* slabs->total
  free,      \* slabs->free
  held,      \* history: blocks handed out and not taken back
  donated,   \* history: the <<buf, len>> added by slab_grow
  got,       \* history: what the last slab_alloc returned
  ret        \* the last slab_grow or slab_free and the error it returned

vars == <<mem, regions, total, free, held, donated, got, ret>>

(* A word a client wrote: neither an address nor a counter. *)
JUNK == -1

(* struct slabRegion, word by word. *)
NextAt(r)   == r
TotalAt(r)  == r + 1
FreeAt(r)   == r + 2
BlocksAt(r) == r + 3

Words(base, n) == base .. base + n - 1

(* slab_init *)
Init ==
  /\ mem = [a \in Addr |-> 0]
  /\ regions = NULL
  /\ total = 0
  /\ free = 0
  /\ held = {}
  /\ donated = {}
  /\ got = NULL
  /\ ret = [op |-> "init", arg |-> 0, err |-> "ERR_OK"]

RegionList == {x[1] : x \in donated}

(* The first region of the list, from slabs->regions on, that is in S;     *)
(* NULL if none is.                                                        *)
FirstOf(S) ==
  LET walk[r \in RegionList \cup {NULL}] ==
        IF r \in S \cup {NULL} THEN r ELSE walk[mem[NextAt(r)]]
  IN walk[regions]

Returns(op, arg, err) == ret' = [op |-> op, arg |-> arg, err |-> err]

Fails(op, arg, err) ==
  /\ Returns(op, arg, err)
  /\ UNCHANGED <<mem, regions, total, free, held, donated, got>>
-----------------------------------------------------------------------------
(***************************************************************************)
(* slab_grow(buf, len).  A client adds a buffer once.                      *)
(***************************************************************************)
(* Mutant: the node after the last block is counted as a block. *)
BlockCountNodes(len) == (len - HEADER) \div BLOCKSIZE + 1

BlockCount(len) == (len - HEADER) \div BLOCKSIZE

(* The loop links total + 1 nodes; the last one is never handed out. *)
Nodes(buf, len) ==
  {FirstBlock(buf, len) + i * BLOCKSIZE : i \in 0 .. BlockCount(len)}

LastNode(buf, len) == FirstBlock(buf, len) + BlockCount(len) * BLOCKSIZE

(* The stores of slab_grow; region->next is the last of them. *)
Grown(buf, len) ==
  [a \in Addr |->
     CASE a = NextAt(buf)   -> regions
       [] a = TotalAt(buf)  -> BlockCount(len)
       [] a = FreeAt(buf)   -> BlockCount(len)
       [] a = BlocksAt(buf) -> FirstBlock(buf, len)
       [] a \in Nodes(buf, len) \ {buf} ->
            IF a = LastNode(buf, len) THEN NULL ELSE a + BLOCKSIZE
       [] OTHER -> mem[a]]

GrowRefused(buf, len) ==
  \/ buf = NULL /\ Fails("grow", buf, "ERR_NULL_ARGUMENT")
  \/ /\ buf # NULL /\ ~BigEnough(len)
     /\ Fails("grow", buf, "ERR_SLAB_REGION_TOO_SMALL")

GrowAccepted(buf, len) ==
  /\ buf # NULL /\ BigEnough(len)
  /\ \A x \in donated : x[1] # buf
  /\ mem' = Grown(buf, len)
  /\ regions' = buf
  /\ total' = total + BlockCount(len)
  /\ free' = free + BlockCount(len)
  /\ donated' = donated \cup {<<buf, len>>}
  /\ Returns("grow", buf, "ERR_OK")
  /\ UNCHANGED <<held, got>>

Grow(buf, len) == GrowRefused(buf, len) \/ GrowAccepted(buf, len)
-----------------------------------------------------------------------------
(***************************************************************************)
(* slab_alloc(): the first region with a free block gives its first one,   *)
(* zeroed.                                                                 *)
(***************************************************************************)
WithFree == FirstOf({r \in RegionList : mem[FreeAt(r)] # 0})

AllocFails ==
  /\ free = 0 \/ WithFree = NULL
  /\ got' = NULL
  /\ UNCHANGED <<mem, regions, total, free, held, donated, ret>>

(* Mutants: the block is zeroed one word too far; it stays in the list. *)
AllocGivesWide ==
  LET r  == WithFree
      sb == mem[BlocksAt(r)]
  IN /\ free # 0 /\ r # NULL
     /\ mem' = [a \in Addr |->
                  CASE a \in Words(sb, BLOCKSIZE + 1) -> 0
                    [] a = BlocksAt(r) -> mem[sb]
                    [] a = FreeAt(r) -> mem[a] - 1
                    [] OTHER -> mem[a]]
     /\ free' = free - 1
     /\ held' = held \cup {sb}
     /\ got' = sb
     /\ UNCHANGED <<regions, total, donated, ret>>

AllocGivesListed ==
  LET r  == WithFree
      sb == mem[BlocksAt(r)]
  IN /\ free # 0 /\ r # NULL
     /\ mem' = [mem EXCEPT ![FreeAt(r)] = @ - 1]
     /\ free' = free - 1
     /\ held' = held \cup {sb}
     /\ got' = sb
     /\ UNCHANGED <<regions, total, donated, ret>>

AllocGives ==
  LET r  == WithFree
      sb == mem[BlocksAt(r)]
  IN /\ free # 0 /\ r # NULL
     /\ mem' = [a \in Addr |->
                  CASE a \in Words(sb, BLOCKSIZE) -> 0
                    [] a = BlocksAt(r) -> mem[sb]
                    [] a = FreeAt(r) -> mem[a] - 1
                    [] OTHER -> mem[a]]
     /\ free' = free - 1
     /\ held' = held \cup {sb}
     /\ got' = sb
     /\ UNCHANGED <<regions, total, donated, ret>>

Alloc == AllocFails \/ AllocGives
-----------------------------------------------------------------------------
(***************************************************************************)
(* slab_free(block): the first region whose header and data area hold the  *)
(* address takes the block.                                                *)
(***************************************************************************)
Owns(r, b) == r < b /\ b < r + HEADER + mem[TotalAt(r)] * BLOCKSIZE

Owner(b) == FirstOf({r \in RegionList : Owns(r, b)})

FreeRefused(b) ==
  \/ b = NULL /\ Fails("free", b, "ERR_NULL_ARGUMENT")
  \/ /\ b # NULL /\ Owner(b) = NULL
     /\ Fails("free", b, "ERR_SLAB_FOREIGN_BLOCK")

(* Mutant: region->free is not increased. *)
FreeTakesUncounted(b) ==
  LET r == Owner(b)
  IN /\ b # NULL /\ r # NULL
     /\ mem' = [mem EXCEPT ![b] = mem[BlocksAt(r)], ![BlocksAt(r)] = b]
     /\ free' = free + 1
     /\ held' = held \ {b}
     /\ Returns("free", b, "ERR_OK")
     /\ UNCHANGED <<regions, total, donated, got>>

FreeTakes(b) ==
  LET r == Owner(b)
  IN /\ b # NULL /\ r # NULL
     /\ mem' = [mem EXCEPT ![b] = mem[BlocksAt(r)],
                           ![BlocksAt(r)] = b,
                           ![FreeAt(r)] = @ + 1]
     /\ free' = free + 1
     /\ held' = held \ {b}
     /\ Returns("free", b, "ERR_OK")
     /\ UNCHANGED <<regions, total, donated, got>>

Free(b) == FreeRefused(b) \/ FreeTakes(b)
-----------------------------------------------------------------------------
(* A client uses the words of a block it holds. *)
Use(b) ==
  /\ mem' = [a \in Addr |-> IF a \in Words(b, BLOCKSIZE) THEN JUNK ELSE mem[a]]
  /\ UNCHANGED <<regions, total, free, held, donated, got, ret>>

Next ==
  \/ \E x \in GrowReqs : Grow(x[1], x[2])
  \/ Alloc
  \/ \E b \in held \cup {NULL} : Free(b)
  \/ \E b \in held : Use(b)

Spec == Init /\ [][Next]_vars
-----------------------------------------------------------------------------
(* The first mem[FreeAt(r)] nodes of the list of region r: the blocks      *)
(* slab_alloc can still give.                                              *)
Node(r, n) ==
  LET node[k \in 0 .. n] ==
        IF k = 0 THEN mem[BlocksAt(r)]
        ELSE IF node[k - 1] \in Addr THEN mem[node[k - 1]] ELSE node[k - 1]
  IN node[n]

Available(r) == {Node(r, k) : k \in 0 .. mem[FreeAt(r)] - 1}
AllAvailable == UNION {Available(r) : r \in RegionList}

(* The blocks a client holds, the blocks slab_alloc will give, and the     *)
(* headers of the regions are different words of memory, whatever was      *)
(* allocated, freed and written in between.                                *)
BlocksApart ==
  LET blocks == held \cup AllAvailable
  IN /\ \A b, c \in blocks : b # c => Words(b, BLOCKSIZE) \cap Words(c, BLOCKSIZE) = {}
     /\ \A b \in blocks, r \in RegionList : Words(b, BLOCKSIZE) \cap Words(r, HEADER) = {}

(* Each region's list is at least as long as its counter says, without     *)
(* repetition, and no block is both free and held: slab_alloc never        *)
(* follows a NULL pointer, and never gives a block away twice.             *)
ListsCoverCounters ==
  /\ \A r \in RegionList :
       /\ Available(r) \subseteq Addr \ held
       /\ Cardinality(Available(r)) = mem[FreeAt(r)]
  /\ \A r, s \in RegionList : r # s => Available(r) \cap Available(s) = {}
  /\ free = Cardinality(AllAvailable)
  /\ free + Cardinality(held) = total

(* A word of a block that stays with a client changes only when that       *)
(* client writes it: neither the links of slab_grow nor the zeroing of     *)
(* slab_alloc nor another client's writes reach it.                        *)
HeldUntouched ==
  [][\A b \in held \cap held' :
       (\E a \in Words(b, BLOCKSIZE) : mem'[a] # mem[a]) => Use(b)]_vars

Pool == INSTANCE SlabPool WITH
          Blocks <- Addr, None <- NULL,
          pool <- AllAvailable

(* The allocator behaves like a pool of blocks: a request fails only when  *)
(* no region has a free block, and gives a block that was free.            *)
PoolSpec == Pool!Spec
-----------------------------------------------------------------------------
(* The blocks of a region lie in the buffer that was added ("Adds the buf  *)
(* region (with length len) to the allocator").                            *)
BlocksInBuffers ==
  \A b \in held : \E x \in donated : Words(b, BLOCKSIZE) \subseteq Words(x[1], x[2])
=============================================================================
