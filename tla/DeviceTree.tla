----------------------------- MODULE DeviceTree -----------------------------
(***************************************************************************)
(* dt_initialize, src/octiron/devices/device_tree/device_tree.c: maps the  *)
(* blob, parses it into nodes and properties in dynamic arrays, rewrites   *)
(* the properties it knows, prints the tree and unmaps the blob.  It is    *)
(* called once, by kmain.  The build is the one with assertions.           *)
(*                                                                         *)
(* A node is named by the position of its token.  The value of a property  *)
(* is the sequence of its cells or strings.  Addresses are counted so that *)
(* a page is PAGE of them.  How much the bump allocator can give is not    *)
(* counted (module Bump does): any of its allocations may be refused.      *)
(***************************************************************************)
EXTENDS Integers, DynArray, FiniteSetsExt

CONSTANTS
  Blobs,        \* what may lie at dtb_base_addr
  PAGE,         \* BASE_PAGE_SIZE
  NODE_CAP,     \* nodes in a page
  PROP_CAP,     \* properties in a page
  RSV_CAP,      \* reserved regions in a page
  PageBudgets,  \* how often pmm_alloc may succeed
  MaxRefusals   \* bound on the refused allocations of the bump allocator

PropertyNames == {"compatible", "model", "phandle", "linux,phandle", "status",
                  "#address-cells", "#size-cells", "dma-coherent", "dma-noncoherent",
                  "device_type", "reg", "ranges", "dma-ranges", "other"}

TokenKinds == {"FDT_BEGIN_NODE", "FDT_END_NODE", "FDT_PROP", "FDT_NOP", "FDT_END", "unknown"}

(* A root node is copied with its first child in place only if a page      *)
(* holds two nodes.                                                        *)
ASSUME DeviceTreeAssumption ==
  /\ {PAGE, PROP_CAP, RSV_CAP} \subseteq Nat \ {0}
  /\ NODE_CAP \in Nat \ {0, 1}
  /\ PageBudgets \subseteq Nat /\ MaxRefusals \in Nat
  /\ \A b \in Blobs :
       /\ b.magic \in BOOLEAN /\ b.base \in Nat /\ b.size \in Nat \ {0}
       /\ b.tokens \in Seq({b.tokens[k] : k \in DOMAIN b.tokens})
       /\ \A k \in DOMAIN b.tokens :
            LET v == b.tokens[k].value
            IN /\ b.tokens[k].kind \in TokenKinds /\ b.tokens[k].name \in PropertyNames
               /\ v \in Seq({v[i] : i \in DOMAIN v})
               /\ b.tokens[k].name \in {"#address-cells", "#size-cells"} /\ v # <<>> => v[1] \in Nat
       /\ \E k \in DOMAIN b.tokens : b.tokens[k].kind \in {"FDT_END", "unknown"}

VARIABLES
  blob,      \* the blob: [magic, base, size, reserved, tokens]
  pages,     \* how often pmm_alloc still succeeds
  refusals,  \* how often the bump allocator returned NULL for want of space
  pc,        \* the phase of dt_initialize, or how it ended
  err,       \* the error it returned, the one pushed last
  pa,        \* the next page of the loops that map and unmap
  mapped,    \* the pages of the blob that are mapped
  reserved,  \* state.reserved_memory
  nodes,     \* state.nodes
  props,     \* state.properties
  root,      \* state.root
  off,       \* the position of the next token
  curr,      \* the node that is open
  frames     \* the calls of dtb_recursive_property_rewrite, the last one innermost

mapVars  == <<pa, mapped>>
parsing  == <<off, curr>>
treeVars == <<nodes, props, root>>
vars == <<blob, pages, refusals, pc, err, mapVars, reserved, treeVars, parsing, frames>>

Ended == {"done", "failed", "panic", "trap"}

Init ==
  /\ blob \in Blobs
  /\ pages \in PageBudgets
  /\ refusals = 0
  /\ pc = "map"
  /\ err = "ERR_OK"
  /\ pa = 0 /\ mapped = {}
  /\ reserved = ARRAY_INIT /\ nodes = ARRAY_INIT /\ props = ARRAY_INIT
  /\ root = NULL
  /\ off = 1 /\ curr = NULL
  /\ frames = <<>>

(* return e: nothing is undone. *)
Return(e) == pc' = "failed" /\ err' = e

(* PANIC_LOOP or a failed assertion, and a NULL pointer used *)
Panic == pc' = "panic" /\ UNCHANGED err
Trap  == pc' = "trap" /\ UNCHANGED err
Goto(l) == pc' = l /\ UNCHANGED err

AlignedBase == PAGE * (blob.base \div PAGE)

(* Mutant: the end is measured from the aligned base. *)
BlobEndAligned == AlignedBase + blob.size

(* dtb_base_addr + dtb_size *)
BlobEnd == blob.base + blob.size
-----------------------------------------------------------------------------
(* The first page, and the magic number in it. *)
MapFirst ==
  /\ pc = "map"
  /\ mapped' = {AlignedBase}
  /\ pa' = AlignedBase + PAGE
  /\ IF blob.magic THEN Goto("mapRest") ELSE Return("ERR_DTB_MAGIC_NUMBER")
  /\ UNCHANGED <<blob, pages, refusals, reserved, treeVars, parsing, frames>>

MapRest ==
  /\ pc = "mapRest"
  /\ pa < BlobEnd
  /\ mapped' = mapped \cup {pa}
  /\ pa' = pa + PAGE
  /\ UNCHANGED <<blob, pages, refusals, pc, err, reserved, treeVars, parsing, frames>>

(* sv39_map has no page for a table, or the page was mapped already. *)
MapFails ==
  /\ pc = "map" \/ (pc = "mapRest" /\ pa < BlobEnd)
  /\ Return("ERR_DTB_MAPPING_FAILED")
  /\ UNCHANGED <<blob, pages, refusals, mapVars, reserved, treeVars, parsing, frames>>

(* The buffer of the bump allocator. *)
AllocBuffer ==
  /\ pc = "mapRest"
  /\ pa >= BlobEnd
  /\ \/ pages > 0 /\ pages' = pages - 1 /\ Goto("reserve")
     \/ pages = 0 /\ Return("ERR_PMM_OUT_OF_MEMORY") /\ UNCHANGED pages
  /\ UNCHANGED <<blob, refusals, mapVars, reserved, treeVars, parsing, frames>>

(* ARRAY_PUSH panics when there is no memory for a growth. *)
HasRoom(mem, first) == MustGrow(mem, first) => pages > 0

Pay(mem, first) == pages' = IF MustGrow(mem, first) THEN pages - 1 ELSE pages

(* The loop over the memory reservation block.  mem_rsvmap stays at the    *)
(* first entry.                                                            *)
MoreReserved == blob.reserved # <<>> /\ blob.reserved[1][1] # 0 /\ blob.reserved[1][2] # 0

Reserve ==
  /\ pc = "reserve"
  /\ MoreReserved
  /\ \/ /\ HasRoom(reserved, RSV_CAP)
        /\ Pay(reserved, RSV_CAP)
        /\ reserved' = ARRAY_PUSH(reserved, RSV_CAP, blob.reserved[1])
        /\ UNCHANGED <<pc, err>>
     \/ /\ ~HasRoom(reserved, RSV_CAP)
        /\ Panic
        /\ UNCHANGED <<pages, reserved>>
  /\ UNCHANGED <<blob, refusals, mapVars, treeVars, parsing, frames>>

ReserveEnds ==
  /\ pc = "reserve"
  /\ ~MoreReserved
  /\ Goto("parse")
  /\ UNCHANGED <<blob, pages, refusals, mapVars, reserved, treeVars, parsing, frames>>
-----------------------------------------------------------------------------
Token == blob.tokens[off]

(* An allocation from the bump allocator gives NULL, n times in this step. *)
Refused(n) == refusals + n <= MaxRefusals /\ refusals' = refusals + n

NewNode == [name |-> off, address_cells |-> 0, size_cells |-> 0, properties |-> NULL,
            parent |-> curr, children |-> NULL, sibling |-> NULL]

(* The places in the blocks that an array has or has had, and NULL. *)
Pointers(mem) ==
  {NULL} \cup UNION {{<<i, j>> : j \in DOMAIN mem[i]} : i \in DOMAIN mem}

(* The last node of the list of siblings that begins at p. *)
LastSibling(mem, p) ==
  LET Walk[q \in Pointers(mem) \ {NULL}] ==
        LET s == Deref(mem, q).sibling IN IF s = NULL THEN q ELSE Walk[s]
  IN Walk[p]

(* Mutant: the new node follows the first child. *)
LinkSecond(mem, p, new) ==
  IF p = NULL THEN mem
  ELSE LET c == Deref(mem, p).children
       IN IF c = NULL
          THEN Store(mem, p, [Deref(mem, p) EXCEPT !.children = new])
          ELSE Store(mem, c, [Deref(mem, c) EXCEPT !.sibling = new])

(* The new node becomes the last child of p, which may lie in a block that *)
(* the array has left.                                                     *)
Link(mem, p, new) ==
  IF p = NULL THEN mem
  ELSE LET c == Deref(mem, p).children
           last == LastSibling(mem, c)
       IN IF c = NULL
          THEN Store(mem, p, [Deref(mem, p) EXCEPT !.children = new])
          ELSE Store(mem, last, [Deref(mem, last) EXCEPT !.sibling = new])

(* dtb_parse_node *)
ParseNode ==
  /\ pc = "parse" /\ Token.kind = "FDT_BEGIN_NODE"
  /\ \/ /\ HasRoom(nodes, NODE_CAP)
        /\ Pay(nodes, NODE_CAP)
        /\ LET pushed == ARRAY_PUSH(nodes, NODE_CAP, NewNode)
               new    == Newest(pushed)
           IN nodes' = Link(pushed, curr, new) /\ curr' = new
        /\ off' = off + 1
        /\ UNCHANGED <<pc, err, refusals>>
     \/ /\ ~HasRoom(nodes, NODE_CAP)
        /\ Panic
        /\ UNCHANGED <<pages, refusals, nodes, parsing>>
     \/ /\ Refused(1)
        /\ Panic
        /\ UNCHANGED <<pages, nodes, parsing>>
  /\ UNCHANGED <<blob, mapVars, reserved, props, root, frames>>

(* A property as it is parsed: name is "" and null holds for a copy that   *)
(* was refused, and an empty value has no copy either.                     *)
NewProperty(named, copied) ==
  [name |-> IF named THEN Token.name ELSE "", next |-> Deref(nodes, curr).properties,
   type |-> "RAW", value |-> Token.value, null |-> ~copied \/ Token.value = <<>>,
   num |-> 0, data |-> <<>>, at |-> off]

(* dtb_parse_property *)
ParseProperty ==
  /\ pc = "parse" /\ Token.kind = "FDT_PROP"
  /\ \/ /\ curr # NULL /\ HasRoom(props, PROP_CAP)
        /\ Pay(props, PROP_CAP)
        /\ \E named \in BOOLEAN, copied \in (IF Token.value = <<>> THEN {TRUE} ELSE BOOLEAN) :
             /\ Refused(Cardinality({x \in {"name", "value"} :
                          (x = "name" /\ ~named) \/ (x = "value" /\ ~copied)}))
             /\ props' = ARRAY_PUSH(props, PROP_CAP, NewProperty(named, copied))
             /\ nodes' = Store(nodes, curr,
                           [Deref(nodes, curr) EXCEPT !.properties = Newest(props')])
        /\ off' = off + 1
        /\ UNCHANGED <<pc, err>>
     \/ /\ ~HasRoom(props, PROP_CAP)
        /\ Panic
        /\ UNCHANGED <<pages, refusals, nodes, props, off>>
     \/ /\ curr = NULL /\ HasRoom(props, PROP_CAP)
        /\ Trap
        /\ UNCHANGED <<pages, refusals, nodes, props, off>>
  /\ UNCHANGED <<blob, mapVars, reserved, root, curr, frames>>

ParseEndNode ==
  /\ pc = "parse" /\ Token.kind = "FDT_END_NODE"
  /\ \/ /\ curr # NULL
        /\ curr' = Deref(nodes, curr).parent
        /\ off' = off + 1
        /\ UNCHANGED <<pc, err>>
     \/ curr = NULL /\ Trap /\ UNCHANGED parsing
  /\ UNCHANGED <<blob, pages, refusals, mapVars, reserved, treeVars, frames>>

(* Mutant: the token is not skipped. *)
ParseNopStays ==
  /\ pc = "parse" /\ Token.kind = "FDT_NOP"
  /\ UNCHANGED vars

ParseNop ==
  /\ pc = "parse" /\ Token.kind = "FDT_NOP"
  /\ off' = off + 1
  /\ UNCHANGED <<blob, pages, refusals, pc, err, mapVars, reserved, treeVars, curr, frames>>

ParseUnknown ==
  /\ pc = "parse" /\ Token.kind = "unknown"
  /\ Panic
  /\ UNCHANGED <<blob, pages, refusals, mapVars, reserved, treeVars, parsing, frames>>

(* A call of dtb_recursive_property_rewrite(n). *)
Frame(mem, n) ==
  LET node == Deref(mem, n)
  IN [node |-> n, prop |-> node.properties, child |-> node.children,
      next_address_cells |-> node.address_cells, next_size_cells |-> node.size_cells]

(* A node gets the cells its parent has for it. *)
WithCells(mem, n, a, s) ==
  Store(mem, n, [Deref(mem, n) EXCEPT !.address_cells = a, !.size_cells = s])

(* FDT_END, and the start of the rewrite pass at nodes.data[0]. *)
ParseEnd ==
  /\ pc = "parse" /\ Token.kind = "FDT_END"
  /\ \/ curr # NULL /\ Panic /\ UNCHANGED <<nodes, root, frames>>
     \/ /\ curr = NULL /\ ARRAY_SIZE(nodes) = 0
        /\ Return("ERR_DTB_NO_NODES")
        /\ UNCHANGED <<nodes, root, frames>>
     \/ /\ curr = NULL /\ ARRAY_SIZE(nodes) > 0
        /\ root' = First(nodes)
        /\ nodes' = WithCells(nodes, root', 2, 1)
        /\ frames' = <<Frame(nodes', root')>>
        /\ Goto("rewrite")
  /\ UNCHANGED <<blob, pages, refusals, mapVars, reserved, props, parsing>>
-----------------------------------------------------------------------------
(* What rewriting a property comes to: "ok" with its type, number and      *)
(* lists, or the way it stops everything.                                  *)
Becomes(type, num) == [how |-> "ok", type |-> type, num |-> num, data |-> <<>>]
Stops(how) == [how |-> how, type |-> "RAW", num |-> 0, data |-> <<>>]

(***************************************************************************)
(* The lists that reg and ranges are read into, entry by entry: fields has *)
(* the cells of each of the fields of an entry (address and size; child    *)
(* address, parent address and length), and each field has a list of its   *)
(* own.  The lists are allocated one behind the other (padding between     *)
(* them is left out), n times the cells of the field each, and an element  *)
(* is stored as a number whose lowest cell comes first.  Three cells are   *)
(* read and stored as a u128: the element takes four, and runs into what   *)
(* follows.                                                                *)
(***************************************************************************)
Width(cells) == IF cells = 3 THEN 4 ELSE cells

CellsBefore(fields, f) ==
  LET Sum[g \in 0 .. Len(fields)] == IF g = 0 THEN 0 ELSE Sum[g - 1] + fields[g]
  IN Sum[f - 1]

(* Mutant: the field of the first entry is read again. *)
InValueStays(fields, f, k) == CellsBefore(fields, f)

(* Where field f of entry k (from 0) is in the value, and in the lists. *)
InValue(fields, f, k)    == k * CellsBefore(fields, Len(fields) + 1) + CellsBefore(fields, f)
InLists(fields, f, k, n) == n * CellsBefore(fields, f) + k * Width(fields[f])

(* The m cells from position j on; what lies behind the value is unknown. *)
CellsAt(value, j, m) == [c \in 1 .. m |-> IF j + c <= Len(value) THEN value[j + c] ELSE "?"]

(* The lists after the fields before the t-th have been read. *)
ReadLists(value, fields, n) ==
  LET m == Len(fields)
      L[t \in 0 .. n * m] ==
        IF t = 0 THEN [c \in 0 .. n * CellsBefore(fields, m + 1) - 1 |-> 0]
        ELSE LET f == ((t - 1) % m) + 1
                 k == (t - 1) \div m
                 w == Width(fields[f])
                 number == CellsAt(value, InValue(fields, f, k), w)
                 at == InLists(fields, f, k, n)
             IN [c \in DOMAIN L[t - 1] |->
                   IF at <= c /\ c < at + w THEN number[w - (c - at)] ELSE L[t - 1][c]]
  IN L[n * m]

Reads(type, value, fields) ==
  LET n == Len(value) \div CellsBefore(fields, Len(fields) + 1)
  IN [how |-> "ok", type |-> type, num |-> n, data |-> ReadLists(value, fields, n)]

(* dtb_rewrite_property_compatible: num counts the strings. *)
Compatible(p, full) ==
  IF p.type # "RAW" THEN Stops("panic")
  ELSE IF p.null /\ p.value # <<>> THEN Stops("trap")
  ELSE IF full THEN Stops("panic")
  ELSE Becomes("COMPATIBLE", Len(p.value))

StatusValues == <<"okay", "disabled", "reserved", "fail", "fail-">>

(* dtb_rewrite_property_status: num is the enumerator. *)
Status(p) ==
  IF p.type # "RAW" THEN Stops("panic")
  ELSE IF p.null THEN Stops("trap")
  ELSE IF \A i \in DOMAIN StatusValues : StatusValues[i] # p.value[1] THEN Stops("panic")
  ELSE Becomes("STATUS", CHOOSE i \in DOMAIN StatusValues : StatusValues[i] = p.value[1])

(* READ_BIG_ENDIAN_U32 of the value, with the limit of the cell counts *)
Number(p, type) == IF p.null THEN Stops("trap") ELSE Becomes(type, p.value[1])

Cells(p, type, limit) ==
  LET n == Number(p, type) IN IF n.num > limit THEN [n EXCEPT !.how = "failed"] ELSE n

(* dtb_rewrite_property_reg: num is n_pairs.  Without cells the division   *)
(* by zero leaves the length as the remainder on this machine, or the loop *)
(* runs on.  An entry of no cells is not allocated.                        *)
Reg(p, a, s, full) ==
  IF a + s = 0 \/ Len(p.value) = 0 THEN Stops("panic")
  ELSE IF Len(p.value) % (a + s) # 0 \/ full THEN Stops("panic")
  ELSE IF p.null THEN Stops("trap")
  ELSE Reads("REG", p.value, <<a, s>>)

(* Mutant: an empty ranges is refused like an empty reg. *)
RangesNotEmpty(p, a, s, full) ==
  IF a = 0 \/ s = 0 \/ Len(p.value) < 2 * a + s THEN Stops("panic")
  ELSE IF full \/ p.null THEN Stops("trap") ELSE Reads("RANGES", p.value, <<a, a, s>>)

(* dtb_rewrite_property_ranges: num is n_trips.  The allocations are not   *)
(* checked.                                                                *)
Ranges(p, a, s, full) ==
  IF a = 0 \/ s = 0 THEN Stops("panic")
  ELSE LET n == Len(p.value) \div (2 * a + s)
       IN IF n > 0 /\ (full \/ p.null) THEN Stops("trap") ELSE Reads("RANGES", p.value, <<a, a, s>>)

(* The chain of comparisons in dtb_recursive_property_rewrite; full says   *)
(* that the bump allocator refuses the memory the rewrite asks for.        *)
Rewrite(p, a, s, full) ==
  CASE p.name = ""                -> Stops("trap")
    [] p.name = "compatible"      -> Compatible(p, full)
    [] p.name = "model"           -> Becomes("MODEL", 0)
    [] p.name \in {"phandle", "linux,phandle"} -> Number(p, "PHANDLE")
    [] p.name = "status"          -> Status(p)
    [] p.name = "#address-cells"  -> Cells(p, "ADDRESS_CELLS", 3)
    [] p.name = "#size-cells"     -> Cells(p, "SIZE_CELLS", 2)
    [] p.name = "dma-coherent"    -> Becomes("DMA_COHERENCE", 1)
    [] p.name = "dma-noncoherent" -> Becomes("DMA_COHERENCE", 0)
    [] p.name = "device_type"     -> Becomes("DEVICE_TYPE", 0)
    [] p.name = "reg"             -> Reg(p, a, s, full)
    [] p.name = "ranges"          -> Ranges(p, a, s, full)
    [] p.name = "dma-ranges"      -> LET r == Ranges(p, a, s, full)
                                     IN IF r.how = "ok" THEN [r EXCEPT !.type = "DMA_RANGES"] ELSE r
    [] OTHER                      -> Becomes("RAW", 0)

Allocating == {"compatible", "reg", "ranges", "dma-ranges"}

Top == frames[Len(frames)]

(* Mutant: the cells a node declares are lost on the way. *)
NextFrameUndeclared(f, p, r) == [f EXCEPT !.prop = p.next]

(* The loop over the properties goes on, with the cells just read. *)
NextFrame(f, p, r) ==
  [f EXCEPT !.prop = p.next,
            !.next_address_cells = IF r.type = "ADDRESS_CELLS" THEN r.num ELSE @,
            !.next_size_cells = IF r.type = "SIZE_CELLS" THEN r.num ELSE @]

SetTop(f) == [frames EXCEPT ![Len(frames)] = f]

(* One round of the loop over the properties of a node. *)
RewriteProperty ==
  /\ pc = "rewrite" /\ Top.prop # NULL
  /\ LET p == Deref(props, Top.prop)
         n == Deref(nodes, Top.node)
     IN \E full \in (IF p.name \in Allocating THEN BOOLEAN ELSE {FALSE}) :
          LET r == Rewrite(p, n.address_cells, n.size_cells, full)
              written == Store(props, Top.prop, [p EXCEPT !.type = r.type, !.num = r.num, !.data = r.data])
          IN /\ Refused(IF full THEN 1 ELSE 0)
             /\ \/ /\ r.how = "ok"
                   /\ props' = written
                   /\ frames' = SetTop(NextFrame(Top, p, r))
                   /\ UNCHANGED <<pc, err>>
                \/ /\ r.how = "failed"
                   /\ props' = written
                   /\ Return("ERR_DTB_REWRITE_FAILED")
                   /\ UNCHANGED frames
                \/ /\ r.how \in {"panic", "trap"}
                   /\ Goto(r.how)
                   /\ UNCHANGED <<props, frames>>
  /\ UNCHANGED <<blob, pages, mapVars, reserved, nodes, root, parsing>>

(* The recursive call for the next child. *)
RewriteChild ==
  /\ pc = "rewrite" /\ Top.prop = NULL /\ Top.child # NULL
  /\ nodes' = WithCells(nodes, Top.child, Top.next_address_cells, Top.next_size_cells)
  /\ frames' = Append(frames, Frame(nodes', Top.child))
  /\ UNCHANGED <<blob, pages, refusals, pc, err, mapVars, reserved, props, root, parsing>>

(* Mutant: the caller comes back to the same child. *)
CallersStay == SubSeq(frames, 1, Len(frames) - 1)

(* The calls that are left after a return: the caller moves to the sibling *)
(* of the child it was at.                                                 *)
Callers ==
  LET n == Len(frames) - 1
  IN [i \in 1 .. n |->
        IF i = n THEN [frames[i] EXCEPT !.child = Deref(nodes, @).sibling] ELSE frames[i]]

RewriteReturn ==
  /\ pc = "rewrite" /\ Top.prop = NULL /\ Top.child = NULL
  /\ frames' = Callers
  /\ IF Len(frames) = 1 THEN Goto("print") ELSE UNCHANGED <<pc, err>>
  /\ UNCHANGED <<blob, pages, refusals, mapVars, reserved, treeVars, parsing>>

(* dtb_print_tree only reads; a string that is NULL prints as nothing. *)
PrintTree ==
  /\ pc = "print"
  /\ pa' = AlignedBase
  /\ Goto("unmap")
  /\ UNCHANGED <<blob, pages, refusals, mapped, reserved, treeVars, parsing, frames>>

Unmap ==
  /\ pc = "unmap" /\ pa < BlobEnd
  /\ mapped' = mapped \ {pa}
  /\ pa' = pa + PAGE
  /\ IF pa \in mapped THEN UNCHANGED <<pc, err>> ELSE Return("ERR_DTB_UNMAPPING_FAILED")
  /\ UNCHANGED <<blob, pages, refusals, reserved, treeVars, parsing, frames>>

Done ==
  /\ pc = "unmap" /\ pa >= BlobEnd
  /\ Goto("done")
  /\ UNCHANGED <<blob, pages, refusals, mapVars, reserved, treeVars, parsing, frames>>

Next ==
  \/ MapFirst \/ MapRest \/ MapFails \/ AllocBuffer \/ Reserve \/ ReserveEnds
  \/ ParseNode \/ ParseProperty \/ ParseEndNode \/ ParseNop \/ ParseUnknown \/ ParseEnd
  \/ RewriteProperty \/ RewriteChild \/ RewriteReturn
  \/ PrintTree \/ Unmap \/ Done

(* The hart does nothing else until dt_initialize has ended. *)
Spec == Init /\ [][Next]_vars /\ WF_vars(Next)
-----------------------------------------------------------------------------
(***************************************************************************)
(* What the blob says, read off its tokens: which node is open at a token, *)
(* and which cells its children have.  Cells that a node does not declare  *)
(* are those it has itself, as the parser takes them.                      *)
(***************************************************************************)
Kind(k)  == blob.tokens[k].kind
Begins   == {k \in DOMAIN blob.tokens : Kind(k) = "FDT_BEGIN_NODE"}
Before(kind, k) == Cardinality({j \in 1 .. k - 1 : Kind(j) = kind})
Level(k) == Before("FDT_BEGIN_NODE", k) - Before("FDT_END_NODE", k)

OpenAt(k)   == Max({j \in Begins : j < k /\ Level(j) = Level(k) - 1})
RootAt      == Min(Begins)
OwnProps(k) == {j \in DOMAIN blob.tokens : Kind(j) = "FDT_PROP" /\ OpenAt(j) = k}
ChildrenOf(k) == {j \in Begins \ {RootAt} : OpenAt(j) = k}

(* One tree, closed at the only FDT_END, with the properties of a node     *)
(* before its subnodes, no two of the same name.                           *)
WellFormed ==
  LET last == Len(blob.tokens)
      inside == {k \in DOMAIN blob.tokens : k < last /\ Kind(k) # "FDT_NOP"}
  IN /\ \A k \in DOMAIN blob.tokens : Kind(k) # "unknown" /\ (Kind(k) = "FDT_END" <=> k = last)
     /\ Begins # {} /\ RootAt = Min(inside) /\ Level(last) = 0
     /\ \A k \in inside : k # RootAt => Level(k) > 0
     /\ \A k \in Begins : \A j \in OwnProps(k) :
          /\ \A c \in ChildrenOf(k) : j < c
          /\ \A i \in OwnProps(k) : i # j => blob.tokens[i].name # blob.tokens[j].name

Declared(k, name, default) ==
  LET d == {j \in OwnProps(k) : blob.tokens[j].name = name}
  IN IF d = {} \/ \E j \in d : blob.tokens[j].value = <<>>
     THEN default ELSE blob.tokens[Min(d)].value[1]

(* The cells of the addresses and of the sizes in node k's reg. *)
CellsOf ==
  LET C[k \in Begins] ==
        IF k = RootAt THEN <<2, 1>>
        ELSE LET p == OpenAt(k)
             IN <<Declared(p, "#address-cells", C[p][1]), Declared(p, "#size-cells", C[p][2])>>
  IN C

(* The cells of the addresses and of the sizes in the space of the bus     *)
(* that node k is: those of its children's reg.                            *)
BusCells(k) ==
  <<Declared(k, "#address-cells", CellsOf[k][1]), Declared(k, "#size-cells", CellsOf[k][2])>>

(* The cells of the fields of an entry.  That of reg is an address and a   *)
(* size in the space of the parent.  That of ranges and dma-ranges is an   *)
(* address in the space of the bus, one in the space of its parent, and a  *)
(* length in the space of the bus.                                         *)
EntryFields(k, type) ==
  IF type = "REG" THEN CellsOf[k] ELSE <<BusCells(k)[1], CellsOf[k][1], BusCells(k)[2]>>

ValueRight(name, v, cells) ==
  CASE name = "reg" ->
         cells[1] + cells[2] > 0 /\ v # <<>> /\ Len(v) % (cells[1] + cells[2]) = 0
    [] name \in {"ranges", "dma-ranges"} -> cells[1] > 0 /\ cells[2] > 0
    [] name = "status" -> v # <<>> /\ \E i \in DOMAIN StatusValues : StatusValues[i] = v[1]
    [] name = "#address-cells" -> v # <<>> /\ v[1] <= 3
    [] name = "#size-cells" -> v # <<>> /\ v[1] <= 2
    [] name \in {"phandle", "linux,phandle"} -> v # <<>>
    [] OTHER -> TRUE

Valid ==
  /\ blob.magic /\ WellFormed
  /\ \A k \in Begins : \A j \in OwnProps(k) :
       ValueRight(blob.tokens[j].name, blob.tokens[j].value, CellsOf[k])
-----------------------------------------------------------------------------
(* Every pointer is NULL or refers to an element of a block that the array *)
(* has or has had.                                                         *)
TypeOK ==
  /\ pc \in Ended \cup {"map", "mapRest", "reserve", "parse", "rewrite", "print", "unmap"}
  /\ {curr, root} \subseteq Pointers(nodes)
  /\ \A p \in Pointers(nodes) \ {NULL} :
       LET n == Deref(nodes, p)
       IN /\ {n.parent, n.children, n.sibling} \subseteq Pointers(nodes)
          /\ n.properties \in Pointers(props)
  /\ \A p \in Pointers(props) \ {NULL} : Deref(props, p).next \in Pointers(props)

Follow(p, field) == IF p = NULL THEN NULL ELSE Deref(nodes, p)[field]

(* The nodes that are reached from the root through children and sibling   *)
(* are those of the blob, at their places.                                 *)
Placed ==
  LET At[k \in Begins] ==
        IF k = RootAt THEN root
        ELSE LET elder == {j \in ChildrenOf(OpenAt(k)) : j < k}
             IN IF elder = {} THEN Follow(At[OpenAt(k)], "children")
                ELSE Follow(At[Max(elder)], "sibling")
  IN At

(* The list at p has the properties of the set, the last of them first. *)
ListsBackwards(p, own) ==
  LET At[j \in own] ==
        IF j = Max(own) THEN p
        ELSE LET q == At[Min({i \in own : i > j})]
             IN IF q = NULL THEN NULL ELSE Deref(props, q).next
  IN IF own = {} THEN p = NULL
     ELSE /\ \A j \in own : At[j] # NULL /\ Deref(props, At[j]).at = j
          /\ Deref(props, At[Min(own)]).next = NULL

(* When dt_initialize succeeds, state.root is the tree of the blob: every  *)
(* node at its place among its siblings and with all its properties,       *)
(* although the arrays moved while pointers into them were kept.           *)
TreeRight ==
  pc = "done" /\ WellFormed =>
    \A k \in Begins :
      LET p == Placed[k]
      IN /\ p # NULL
         /\ Deref(nodes, p).name = k
         /\ ChildrenOf(k) = {} => Deref(nodes, p).children = NULL
         /\ k = RootAt \/ k = Max(ChildrenOf(OpenAt(k))) => Deref(nodes, p).sibling = NULL
         /\ ListsBackwards(Deref(nodes, p).properties, OwnProps(k))

(* Every node of that tree has the cells its parent declares for it, and   *)
(* its reg was divided by them, whatever the order of the properties.      *)
CellsRight ==
  pc = "done" /\ WellFormed =>
    \A k \in Begins :
      LET n == Deref(nodes, Placed[k])
      IN /\ <<n.address_cells, n.size_cells>> = CellsOf[k]
         /\ \A q \in Pointers(props) \ {NULL} :
              LET p == Deref(props, q)
              IN p.type = "REG" /\ p.at \in OwnProps(k) =>
                   p.num * (CellsOf[k][1] + CellsOf[k][2]) = Len(p.value)

(* A rewritten property has an entry for every one in its value, and its   *)
(* lists hold the numbers of the entries, each list those of its field, in *)
(* order.                                                                  *)
HoldsEntries(p, fields) ==
  LET total == CellsBefore(fields, Len(fields) + 1)
      number(f, e) == SubSeq(p.value, e * total + CellsBefore(fields, f) + 1,
                                      e * total + CellsBefore(fields, f + 1))
      element(f, e) == [c \in 1 .. fields[f] |->
                          p.data[p.num * CellsBefore(fields, f) + (e + 1) * fields[f] - c]]
  IN /\ p.num = Len(p.value) \div total
     /\ \A f \in DOMAIN fields, e \in 0 .. p.num - 1 : element(f, e) = number(f, e)

(* Every reg, and every ranges and dma-ranges of a bus that has the cells  *)
(* of its parent's space, is read into lists that hold its entries.  Not   *)
(* so, and left out here: addresses of three cells, which are stored as    *)
(* four; and a bus with cells of its own, such as PCI's, whose entries the *)
(* code divides by the cells of the parent's space.                        *)
ListsRight ==
  pc = "done" /\ WellFormed =>
    \A k \in Begins : \A q \in Pointers(props) \ {NULL} :
      LET p == Deref(props, q)
      IN /\ p.at \in OwnProps(k) /\ p.type \in {"REG", "RANGES", "DMA_RANGES"}
         /\ CellsOf[k][1] <= 2 /\ (p.type = "REG" \/ BusCells(k) = CellsOf[k])
         => HoldsEntries(p, EntryFields(k, p.type))

(* The rewrite pass meets every property once: what it is about to rewrite *)
(* is raw (two of the functions assert it, the others would take their own *)
(* result for a pointer).                                                  *)
MeetsOnlyRaw ==
  pc = "rewrite" /\ Top.prop # NULL => Deref(props, Top.prop).type = "RAW"

(* While the blob is read all of it is mapped, and after a success none of *)
(* it is.                                                                  *)
MappedWhileRead ==
  /\ pc \in {"reserve", "parse"} =>
       \A a \in blob.base .. blob.base + blob.size - 1 :
         \E m \in mapped : m <= a /\ a < m + PAGE
  /\ pc = "done" => mapped = {}

(* A blob that follows the format and reserves no memory is refused only   *)
(* for want of memory or of a mapping.                                     *)
ValidAccepted ==
  Valid /\ ~MoreReserved /\ refusals = 0 /\ pages > 0 =>
    /\ pc \notin {"panic", "trap"}
    /\ pc = "failed" => err = "ERR_DTB_MAPPING_FAILED"

(* dt_initialize ends, on any of the blobs: each of its loops comes to its *)
(* end or to a panic.                                                      *)
Ends == <>(pc \in Ended)

(* state.reserved_memory is the "List of reserved memory regions": it has  *)
(* no more entries than the blob.                                          *)
ReservedOnce == ARRAY_SIZE(reserved) <= Len(blob.reserved)
=============================================================================
