-------------------------------- MODULE Boot --------------------------------
(***************************************************************************)
(* From reset to the main loop: start (asm/entry.S), kinit and kmain       *)
(* (entry.c), on the page tables of module Paging, whose variables and     *)
(* operations are used through the instance P.                             *)
(*                                                                         *)
(* The kernel lies in memory as linker.ld places it; addresses are counted *)
(* so that a page is PAGE of them.  The tables come out of early_heap,     *)
(* which is in the BSS section, the lowest free page first (module         *)
(* PhysMem).  Of dt_initialize this module has what concerns the address   *)
(* space and the memory manager; what it makes of the blob is the subject  *)
(* of module DeviceTree.                                                   *)
(***************************************************************************)
EXTENDS Integers, Sequences, FiniteSetsExt

CONSTANTS
  ENTRIES,     \* SV39_TableEntryCount
  PAGE,        \* BASE_PAGE_SIZE
  WORD,        \* what sd writes: a doubleword, as long as an entry of a table
  ROOT,        \* the page of kernel_root
  Heap,        \* the pages of early_heap
  Machines     \* the machines, builds and images to boot

Sections == <<"TEXT", "RODATA", "DATA", "BSS", "STACK", "UART">>

(* Mutant: the flag of the writable section is forgotten. *)
SectionPermsReadOnlyBss ==
  [TEXT |-> {"R", "X"}, RODATA |-> {"R"}, DATA |-> {"R", "W"},
   BSS |-> {"R"}, STACK |-> {"R", "W"}, UART |-> {"R", "W"}]

(* The flags of the calls of kernel_id_map_range. *)
SectionPerms ==
  [TEXT |-> {"R", "X"}, RODATA |-> {"R"}, DATA |-> {"R", "W"},
   BSS |-> {"R", "W"}, STACK |-> {"R", "W"}, UART |-> {"R", "W"}]

AlignDown(a) == PAGE * (a \div PAGE)
AlignUp(a)   == AlignDown(a + PAGE - 1)

(* The addresses the tables can map to themselves: 2^39.                   *)
Mappable == PAGE * (ENTRIES * ENTRIES * ENTRIES)

(* The part of the space that one table of level 0 is for: 2 MB.           *)
PartOf(a) == (a \div PAGE) \div ENTRIES

(* What linker.ld and the machine guarantee: sections hold something,      *)
(* begin at a page and end before the next one begins; only the ends are   *)
(* at any address.  The UART is a page at 0x10000000, far from the memory  *)
(* that begins at 0x80000000.  BSS holds kernel_root and early_heap. A     *)
(* device tree blob is somewhere in memory.                                *)
ASSUME BootAssumption ==
  /\ PAGE \in Nat \ {0} /\ ENTRIES \in Nat \ {0, 1} /\ ENTRIES % 2 = 0
  /\ Heap \subseteq Nat /\ ROOT \in Nat \ Heap
  /\ \A m \in Machines :
       /\ m.hart \in Nat /\ m.asserts \in BOOLEAN /\ m.pmp \in BOOLEAN
       /\ m.heap \subseteq Heap
       /\ m.end.UART = m.start.UART + PAGE
       /\ \A s \in DOMAIN SectionPerms \ {"UART"} :
            PartOf(m.end[s] - 1) < PartOf(m.start.UART) \/ PartOf(m.start.UART) < PartOf(m.start[s])
       /\ \A s \in DOMAIN SectionPerms :
            /\ m.start[s] \in Nat /\ m.end[s] \in Nat /\ AlignUp(m.end[s]) <= Mappable
            /\ m.start[s] % PAGE = 0 /\ m.start[s] < m.end[s]
            /\ \A t \in DOMAIN SectionPerms \ {s} :
                 AlignUp(m.end[s]) <= m.start[t] \/ AlignUp(m.end[t]) <= m.start[s]
       /\ \A p \in Heap \cup {ROOT} : m.start.BSS <= PAGE * p /\ PAGE * (p + 1) <= m.end.BSS
       /\ m.dtb.base \in Nat \ {0} /\ m.dtb.size \in Nat \ {0} /\ m.dtb.magic \in BOOLEAN
       /\ m.dtb.base + m.dtb.size <= Mappable

(* A table is a page of words, and dtb_base_addr is a word of BSS, at      *)
(* m.var, in a page that has other variables.                              *)
ASSUME WordAssumption ==
  /\ WORD \in Nat \ {0} /\ PAGE = WORD * ENTRIES
  /\ \A m \in Machines :
       /\ m.var \in Nat /\ m.var % WORD = 0 /\ m.start.BSS <= m.var /\ m.var + WORD <= m.end.BSS
       /\ m.var \div PAGE \notin Heap \cup {ROOT}

VARIABLES
  machine,   \* [hart, asserts, pmp, heap, start, end, var, dtb]: chosen at reset
  pc,        \* where the hart is, or how it ended
  dtb_base_addr,
  sec,       \* the section kernel_id_map_range is at
  pa,        \* its next page, and that of the loops of dt_initialize; and
             \* the next word of the loop of start (register a0)
  csr,       \* the registers that sret and the accesses after it depend on
  tab, pool, ret   \* those of Paging

pagingVars == <<tab, pool, ret>>
vars == <<machine, pc, dtb_base_addr, sec, pa, csr, pagingVars>>

P == INSTANCE Paging WITH
       BASE_PAGE_SIZE <- PAGE, TablePages <- Heap, MapReqs <- {}, UnmapReqs <- {}

Supervisor == {"kmain", "dtFirst", "dtRest", "dtUnmap", "loop"}
Settled    == {"parked", "loop", "panic", "refused", "trap"}

(* Memory holds anything at reset. *)
Garbage == [valid |-> TRUE, ppn |-> 0, perms |-> {"R", "W", "X"}]
Stale   == Mappable

Init ==
  /\ machine \in Machines
  /\ pc = "start"
  /\ dtb_base_addr = Stale
  /\ sec = 1 /\ pa = 0
  /\ csr = [spp |-> "U", sepc |-> "none", satp |-> 0, pmpaddr0 |-> 0, pmpcfg0 |-> "OFF"]
  /\ tab = [t \in P!Tables |-> [i \in P!Index |-> Garbage]]
  /\ pool = {}
  /\ ret = P!Result("init", 0, "ERR_OK", 0)

Goto(l) == pc' = l
-----------------------------------------------------------------------------
(***************************************************************************)
(* start, on every hart                                                    *)
(***************************************************************************)
Park ==
  /\ pc = "start" /\ machine.hart # 0
  /\ Goto("parked")
  /\ UNCHANGED <<machine, dtb_base_addr, sec, pa, csr, pagingVars>>

(* The bounds of the loop, which is passed over when BSS is empty. *)
BeginZeroing ==
  /\ pc = "start" /\ machine.hart = 0
  /\ csr' = [csr EXCEPT !.satp = 0]
  /\ pa' = machine.start.BSS
  /\ Goto(IF machine.start.BSS < machine.end.BSS THEN "zero" ELSE "save")
  /\ UNCHANGED <<machine, dtb_base_addr, sec, pagingVars>>

(* The address of an entry of a table. *)
EntryAt(t, i) == PAGE * t + WORD * i

(* sd zero, (a): the entry of a table or the variable that lies there. *)
StoreZero(a) ==
  /\ tab' = [t \in P!Tables |-> [i \in P!Index |-> IF EntryAt(t, i) = a THEN P!Zero ELSE tab[t][i]]]
  /\ dtb_base_addr' = IF machine.var = a THEN 0 ELSE dtb_base_addr

(* Mutant: a word is still written when the end is reached. *)
ZeroWordAtEnd ==
  /\ pc = "zero"
  /\ StoreZero(pa)
  /\ pa' = pa + WORD
  /\ Goto(IF pa' <= machine.end.BSS THEN "zero" ELSE "save")
  /\ UNCHANGED <<machine, sec, csr, pool, ret>>

(* Mutant: the address is saved in front of the loop, not after it. *)
SaveFirst ==
  /\ pc = "zero"
  /\ tab' = [t \in P!Tables |-> [i \in P!Index |-> IF EntryAt(t, i) = pa THEN P!Zero ELSE tab[t][i]]]
  /\ dtb_base_addr' = CASE machine.var = pa -> 0
                        [] machine.var # pa /\ machine.start.BSS = pa -> machine.dtb.base
                        [] OTHER -> dtb_base_addr
  /\ pa' = pa + WORD
  /\ Goto(IF pa' < machine.end.BSS THEN "zero" ELSE "pmm")
  /\ UNCHANGED <<machine, sec, csr, pool, ret>>

(* A round of the loop.  Where BSS ends inside a word, the last round      *)
(* writes beyond _bss_end.                                                 *)
ZeroWord ==
  /\ pc = "zero"
  /\ StoreZero(pa)
  /\ pa' = pa + WORD
  /\ Goto(IF pa' < machine.end.BSS THEN "zero" ELSE "save")
  /\ UNCHANGED <<machine, sec, csr, pool, ret>>

(* Only then the address of the blob, which the firmware leaves in a1, is  *)
(* stored in dtb_base_addr, and mret goes to kinit.                        *)
SaveBase ==
  /\ pc = "save"
  /\ dtb_base_addr' = machine.dtb.base
  /\ Goto("pmm")
  /\ UNCHANGED <<machine, sec, pa, csr, pagingVars>>
-----------------------------------------------------------------------------
(***************************************************************************)
(* kinit                                                                   *)
(***************************************************************************)
(* pmm_initialize and pmm_add_region(early_heap), which do not fail here   *)
(* (module Pmm): no region is managed yet.                                 *)
InitMemory ==
  /\ pc = "pmm"
  /\ pool' = machine.heap
  /\ sec' = 1 /\ pa' = AlignDown(machine.start[Sections[1]])
  /\ Goto("map")
  /\ UNCHANGED <<machine, dtb_base_addr, csr, tab, ret>>

Section == Sections[sec]

(* Mutant: the end of a section is rounded down. *)
EndDown(s) == AlignDown(machine.end[s])

AlignedEnd(s) == AlignUp(machine.end[s])

IdMap(a, perms) ==
  [page |-> a \div PAGE, off |-> a % PAGE, ppn |-> a \div PAGE, poff |-> a % PAGE,
   perms |-> perms, type |-> "sv39_Page"]

(* pmm_alloc takes the lowest page, and the table of the higher level      *)
(* first.                                                                  *)
LowestFirst ==
  \A p \in pool \ pool' :
    /\ \A q \in pool' : p < q
    /\ \A q \in pool \ pool' : q < p =>
         ~\E i \in P!Index : tab'[p][i].valid /\ tab'[p][i].ppn = q /\ ~P!IsLeaf(tab'[p][i])

Map(a, perms) == P!Map(IdMap(a, perms)) /\ LowestFirst

(* Mutant: a page that cannot be mapped is tried again. *)
MapPageRetries ==
  /\ pc = "map" /\ pa < AlignedEnd(Section)
  /\ Map(pa, SectionPerms[Section])
  /\ pa' = IF ret'.err = "ERR_OK" THEN pa + PAGE ELSE pa
  /\ UNCHANGED <<machine, pc, dtb_base_addr, sec, csr>>

(* One round of kernel_id_map_range.  A failed ASSERT is an endless loop;  *)
(* in a build without assertions the failure is passed over.               *)
MapPage ==
  /\ pc = "map" /\ pa < AlignedEnd(Section)
  /\ Map(pa, SectionPerms[Section])
  /\ \/ /\ ret'.err = "ERR_OK" \/ ~machine.asserts
        /\ pa' = pa + PAGE
        /\ UNCHANGED pc
     \/ /\ ret'.err # "ERR_OK" /\ machine.asserts
        /\ Goto("panic")
        /\ UNCHANGED pa
  /\ UNCHANGED <<machine, dtb_base_addr, sec, csr>>

NextRange ==
  /\ pc = "map" /\ pa >= AlignedEnd(Section)
  /\ IF sec < Len(Sections)
     THEN sec' = sec + 1 /\ pa' = AlignDown(machine.start[Sections[sec + 1]]) /\ UNCHANGED pc
     ELSE Goto("verify") /\ UNCHANGED <<sec, pa>>
  /\ UNCHANGED <<machine, dtb_base_addr, csr, pagingVars>>

(* OPT_EQ(sv39_virt_to_phys(root, va), va) *)
TranslatesToSelf(va) ==
  /\ P!Found(va \div PAGE).valid
  /\ P!VirtToPhys(va \div PAGE, va % PAGE) = <<va \div PAGE, va % PAGE>>

(* The addresses the six loops go through. *)
Verified ==
  UNION {{va \in machine.start[s] .. machine.end[s] - 1 : (va - machine.start[s]) % PAGE = 0} :
           s \in DOMAIN SectionPerms}

(* The loops of assertions, and the registers: sret is to go to kmain in   *)
(* supervisor mode with the kernel's page table, and physical memory       *)
(* protection has one entry, up to pmpaddr0.                               *)
VerifyAndSetRegisters ==
  /\ pc = "verify"
  /\ \/ /\ machine.asserts /\ ~(\A va \in Verified : TranslatesToSelf(va))
        /\ Goto("panic")
        /\ UNCHANGED csr
     \/ /\ ~machine.asserts \/ \A va \in Verified : TranslatesToSelf(va)
        /\ csr' = [spp |-> "S", sepc |-> "kmain", satp |-> ROOT,
                   pmpaddr0 |-> 0, pmpcfg0 |-> "TOR"]
        /\ Goto("sret")
  /\ UNCHANGED <<machine, dtb_base_addr, sec, pa, pagingVars>>
-----------------------------------------------------------------------------
(* The physical addresses that the entry, of kind TOR, leaves to           *)
(* supervisor mode on a machine with physical memory protection: those     *)
(* below pmpaddr0, of which there are none.                                *)
PmpAllows(a) == machine.pmp => csr.pmpcfg0 = "TOR" /\ a < csr.pmpaddr0

(* An access of supervisor mode to an address the kernel knows by its      *)
(* physical one.                                                           *)
Accessible(a, perm) ==
  LET e == P!Found(a \div PAGE)
  IN csr.spp = "S" /\ csr.satp = ROOT /\ e.valid /\ perm \in e.perms /\ PmpAllows(PAGE * e.ppn + (a % PAGE))

(* What any statement of kmain needs: its instructions and its stack; and  *)
(* the UART for the message it prints first.                               *)
RunsAt ==
  /\ Accessible(machine.start.TEXT, "X")
  /\ Accessible(machine.end.STACK - 1, "W")
  /\ Accessible(machine.start.UART, "W")

(* sret, and the first message of kmain.  Traps are not delegated:         *)
(* asm_trap_vector in machine mode waits forever.                          *)
EnterKmain ==
  /\ pc = "sret"
  /\ Goto(IF RunsAt THEN csr.sepc ELSE "trap")
  /\ UNCHANGED <<machine, dtb_base_addr, sec, pa, csr, pagingVars>>
-----------------------------------------------------------------------------
(***************************************************************************)
(* kmain: dt_initialize(dtb_base_addr)                                     *)
(***************************************************************************)
DtBase == AlignDown(dtb_base_addr)
DtEnd  == dtb_base_addr + machine.dtb.size

CallDtInitialize ==
  /\ pc = "kmain"
  /\ pa' = DtBase
  /\ Goto("dtFirst")
  /\ UNCHANGED <<machine, dtb_base_addr, sec, csr, pagingVars>>

(* A page of the blob.  An error is returned to kmain, which panics: at    *)
(* "panic" for want of a mapping, at "refused" for what the blob holds.    *)
DtMap ==
  /\ pc = "dtFirst" \/ (pc = "dtRest" /\ pa < DtEnd)
  /\ Map(pa, {"R"})
  /\ \/ /\ ret'.err = "ERR_OK" /\ (pc = "dtFirst" => machine.dtb.magic)
        /\ pa' = pa + PAGE
        /\ Goto("dtRest")
     \/ /\ ret'.err = "ERR_OK" /\ pc = "dtFirst" /\ ~machine.dtb.magic
        /\ pa' = pa + PAGE
        /\ Goto("refused")
     \/ /\ ret'.err # "ERR_OK"
        /\ Goto("panic")
        /\ UNCHANGED pa
  /\ UNCHANGED <<machine, dtb_base_addr, sec, csr>>

(* The blob is parsed, which takes pages from the memory manager (two for  *)
(* the bump allocator, then those of the arrays), and fails or not.        *)
DtParse ==
  /\ pc = "dtRest" /\ pa >= DtEnd
  /\ pool' \in {{p \in pool : p > k} : k \in pool \cup {0}}
  /\ \/ /\ Cardinality(pool) >= Cardinality(pool') + 2
        /\ pa' = DtBase
        /\ Goto("dtUnmap")
     \/ pc' \in {"refused", "trap"} /\ UNCHANGED pa
  /\ UNCHANGED <<machine, dtb_base_addr, sec, csr, tab, ret>>

(* Mutant: every other page of the blob stays mapped. *)
DtUnmapSkips ==
  /\ pc = "dtUnmap" /\ pa < DtEnd
  /\ P!Unmap([page |-> pa \div PAGE, off |-> pa % PAGE])
  /\ pa' = pa + 2 * PAGE
  /\ UNCHANGED <<machine, pc, dtb_base_addr, sec, csr>>

DtUnmap ==
  /\ pc = "dtUnmap" /\ pa < DtEnd
  /\ P!Unmap([page |-> pa \div PAGE, off |-> pa % PAGE])
  /\ pc' = IF ret'.err = "ERR_OK" THEN pc ELSE "panic"
  /\ pa' = pa + PAGE
  /\ UNCHANGED <<machine, dtb_base_addr, sec, csr>>

DtReturns ==
  /\ pc = "dtUnmap" /\ pa >= DtEnd
  /\ Goto("loop")
  /\ UNCHANGED <<machine, dtb_base_addr, sec, pa, csr, pagingVars>>

(* The loops that are never left. *)
Idle == pc \in Settled /\ UNCHANGED vars

Next ==
  \/ Park \/ BeginZeroing \/ ZeroWord \/ SaveBase \/ InitMemory \/ MapPage \/ NextRange
  \/ VerifyAndSetRegisters \/ EnterKmain
  \/ CallDtInitialize \/ DtMap \/ DtParse \/ DtUnmap \/ DtReturns
  \/ Idle

(* The hart runs, and nothing interrupts it. *)
Spec == Init /\ [][Next]_vars /\ WF_vars(Next)
-----------------------------------------------------------------------------
(* The pages that begin at a or later and before b. *)
PagesFrom(a, b) == (a + PAGE - 1) \div PAGE .. (b - 1) \div PAGE

SectionPages(s) == PagesFrom(machine.start[s], machine.end[s])
KernelPages     == UNION {SectionPages(s) : s \in DOMAIN SectionPerms}
BlobPages       == PagesFrom(AlignDown(machine.dtb.base), machine.dtb.base + machine.dtb.size)

(* The pages of the blob that are mapped at this point. *)
BlobMapped ==
  CASE pc \in {"dtFirst", "dtRest"} -> {v \in BlobPages : PAGE * v < pa}
    [] pc = "dtUnmap" -> {v \in BlobPages : PAGE * v >= pa}
    [] OTHER -> {}

Identity(v, perms) == [ppn |-> v, perms |-> perms]

(* From the first message of kmain on the address space is exactly the one *)
(* kinit means to build: every page of every section at its own address    *)
(* with the section's permissions, also the last one, where a section may  *)
(* end inside the page; besides them the pages of the blob, to read, while *)
(* dt_initialize runs, and none of them when it has succeeded.  In a build *)
(* without assertions a failed mapping is passed over, but the kernel does *)
(* not come that far then.                                                 *)
SpaceExact ==
  pc \in Supervisor =>
    /\ \A s \in DOMAIN SectionPerms : \A v \in SectionPages(s) :
         P!Translation(v) = Identity(v, SectionPerms[s])
    /\ \A v \in BlobMapped : P!Translation(v) = Identity(v, {"R"})
    /\ \A v \in P!VPages \ (KernelPages \cup BlobMapped) : P!Translation(v) = P!None

(* The kernel can go on working on its page tables under its own page      *)
(* tables, at their physical addresses: every table, and every page that   *)
(* may become one or is handed out, can be read and written; and nothing   *)
(* that can be written can be executed.                                    *)
TablesWritable ==
  pc \in Supervisor =>
    /\ \A t \in Heap \cup {ROOT} : P!Translation(t) = Identity(t, {"R", "W"})
    /\ \A v \in P!VPages : ~({"W", "X"} \subseteq P!Found(v).perms)

(* How many tables it takes to map a set of pages: one for each part of    *)
(* the address space, at both levels, that has one of them.                *)
TablesFor(pages) ==
  Cardinality({v \div ENTRIES : v \in pages})
    + Cardinality({v \div (ENTRIES * ENTRIES) : v \in pages})

(* kinit and the mapping of the blob stop for one of two reasons: the      *)
(* early heap has too few pages for the tables, or the blob lies in a page *)
(* of the kernel.  The assertions of kinit never fail on a mapping that    *)
(* was made.                                                               *)
PanicJustified ==
  pc = "panic" =>
    \/ TablesFor(KernelPages \cup BlobPages) > Cardinality(machine.heap)
    \/ BlobPages \cap KernelPages # {}

(* When kinit begins, memory is as its C code takes it to be, although it  *)
(* is anything at reset: the root table and the whole early heap are zero, *)
(* and dtb_base_addr, which lies in the section that is zeroed, holds what *)
(* the firmware passed; kinit and kmain find it there to the end.  And     *)
(* clearing BSS hits nothing else: every byte the loop writes is in a page *)
(* of BSS, also in the last round, when BSS ends inside a word, so it is   *)
(* neither in another section nor in a blob that lies outside the kernel.  *)
BssReady ==
  /\ pc = "zero" => \A a \in pa .. pa + WORD - 1 : a \div PAGE \in SectionPages("BSS")
  /\ pc = "pmm" => \A t \in P!Tables : \A i \in P!Index : tab[t][i] = P!Zero
  /\ pc \notin {"start", "parked", "zero", "save"} => dtb_base_addr = machine.dtb.base

(* Booting comes to an end: every hart is parked, waits in a loop after a  *)
(* panic or a trap, or is in the main loop of kmain, and stays there.      *)
Settles == <>[](pc \in Settled)
=============================================================================
