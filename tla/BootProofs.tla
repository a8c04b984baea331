----------------------------- MODULE BootProofs -----------------------------
(***************************************************************************)
(* What the kernel keeps from reset to the main loop, on every machine     *)
(* with every image: the address of the device tree blob, and the address  *)
(* space it has built with the operations of module Paging.                *)
(***************************************************************************)
EXTENDS Boot, TLAPS

Places == Settled \cup Supervisor \cup {"start", "zero", "save", "pmm", "map", "verify", "sret"}

(* The address is kept once it is saved, and nothing but kmain is entered  *)
(* with sret: the registers say so from the end of kinit on.               *)
Saved ==
  /\ pc \in Places
  /\ pc \notin {"start", "parked", "zero", "save"} => dtb_base_addr = machine.dtb.base
  /\ pc = "sret" => csr.sepc = "kmain"

(* Every step keeps the saved address. *)
LEMMA SavedKept ==
  ASSUME Saved, [Next]_vars
  PROVE  Saved'
<1> USE DEF Saved, Places, Settled, Supervisor, Goto
<1>1. CASE Park
  BY <1>1 DEF Park
<1>2. CASE BeginZeroing \/ ZeroWord \/ SaveBase
  BY <1>2 DEF BeginZeroing, ZeroWord, SaveBase
<1>3. CASE InitMemory
  BY <1>3 DEF InitMemory
<1>4. CASE MapPage
  BY <1>4 DEF MapPage
<1>5. CASE NextRange
  BY <1>5 DEF NextRange
<1>6. CASE VerifyAndSetRegisters
  BY <1>6 DEF VerifyAndSetRegisters
<1>7. CASE EnterKmain
  BY <1>7 DEF EnterKmain
<1>8. CASE CallDtInitialize
  BY <1>8 DEF CallDtInitialize
<1>9. CASE DtMap
  BY <1>9 DEF DtMap
<1>10. CASE DtParse
  BY <1>10 DEF DtParse
<1>11. CASE DtUnmap
  BY <1>11 DEF DtUnmap
<1>12. CASE DtReturns
  BY <1>12 DEF DtReturns
<1>13. CASE Idle \/ UNCHANGED vars
  BY <1>13 DEF Idle, vars
<1> QED
  BY <1>1, <1>2, <1>3, <1>4, <1>5, <1>6, <1>7, <1>8, <1>9, <1>10, <1>11, <1>12, <1>13 DEF Next

-----------------------------------------------------------------------------
(* The page tables of the kernel, with the results of PagingProofs.        *)
Reqs  == [page : Nat, off : Nat, ppn : Nat, poff : Nat, perms : P!Perms, type : {"sv39_Page"}]
Ureqs == [page : Nat, off : Nat]

T == INSTANCE PagingProofs WITH
       BASE_PAGE_SIZE <- PAGE, TablePages <- Heap, MapReqs <- Reqs, UnmapReqs <- Ureqs

(* The pages of a section and of the blob, by the numbers of the first and *)
(* the last.                                                               *)
First(m, s)   == m.start[s] \div PAGE
Last(m, s)    == (m.end[s] - 1) \div PAGE
PagesOf(m, s) == First(m, s) .. Last(m, s)
Kernel(m)     == UNION {PagesOf(m, s) : s \in DOMAIN SectionPerms}

BlobFirst(m) == m.dtb.base \div PAGE
BlobLast(m)  == ((m.dtb.base + m.dtb.size) - 1) \div PAGE
Blob(m)      == BlobFirst(m) .. BlobLast(m)

(* The permissions that a page is to have: its section's, or the blob's. *)
Wanted(m, v) ==
  IF v \in Kernel(m) THEN SectionPerms[CHOOSE s \in DOMAIN SectionPerms : v \in PagesOf(m, s)] ELSE {"R"}

(* The tables tb map the pages of A and no other. *)
Shows(tb, m, A) ==
  \A v \in T!VPages :
    T!Meaning(T!At(tb, v)) = IF v \in A THEN Identity(v, Wanted(m, v)) ELSE T!None

(* Every page of the early heap is a table or free, and the tables are for *)
(* pages of A.                                                             *)
Held(m, tb, p, A) ==
  T!Sound(tb, p) /\ T!Linked(tb) \cup p = m.heap /\ T!LinksFor(tb, A)

(* A mapping has failed and been passed over: there is no page left, and   *)
(* no table for the UART.                                                  *)
Starved(m, tb, p) == ~m.asserts /\ p = {} /\ ~T!Reaches(tb, First(m, "UART"))

(* The pages kernel_id_map_range has been through, at page k of section n. *)
Earlier(m, n)  == UNION {PagesOf(m, Sections[j]) : j \in 1 .. n - 1}
Tried(m, n, k) == Earlier(m, n) \cup {v \in PagesOf(m, Sections[n]) : v < k}

(* The inductive invariant, place by place. *)
AtMapPage(m, tb, p, n, k) ==
  /\ First(m, Sections[n]) <= k /\ k <= Last(m, Sections[n]) + 1
  /\ Held(m, tb, p, Tried(m, n, k))
  /\ Shows(tb, m, Tried(m, n, k)) \/ Starved(m, tb, p)

AtMap(m, tb, p, n, a) ==
  n \in 1 .. 6 /\ \E k \in Nat : a = PAGE * k /\ AtMapPage(m, tb, p, n, k)

AtVerify(m, tb, p) ==
  Held(m, tb, p, Kernel(m)) /\ (Shows(tb, m, Kernel(m)) \/ Starved(m, tb, p))

AtKmain(m, tb, p) == Held(m, tb, p, Kernel(m)) /\ Shows(tb, m, Kernel(m))

AtBlobPage(m, tb, p, k) ==
  /\ BlobFirst(m) <= k /\ k <= BlobLast(m) + 1
  /\ Held(m, tb, p, Kernel(m) \cup BlobFirst(m) .. k - 1)
  /\ Shows(tb, m, Kernel(m) \cup BlobFirst(m) .. k - 1)
  /\ Kernel(m) \cap BlobFirst(m) .. k - 1 = {}

AtBlob(m, tb, p, a) == \E k \in Nat : a = PAGE * k /\ AtBlobPage(m, tb, p, k)

AtUnmapPage(m, tb, p, k) ==
  /\ BlobFirst(m) <= k /\ k <= BlobLast(m) + 1
  /\ T!Sound(tb, p) /\ Shows(tb, m, Kernel(m) \cup k .. BlobLast(m))
  /\ Kernel(m) \cap Blob(m) = {}

AtUnmap(m, tb, p, a) == \E k \in Nat : a = PAGE * k /\ AtUnmapPage(m, tb, p, k)

AtLoop(m, tb, p) == T!Sound(tb, p) /\ Shows(tb, m, Kernel(m))

Justified(m) ==
  TablesFor(Kernel(m) \cup Blob(m)) > Cardinality(m.heap) \/ Blob(m) \cap Kernel(m) # {}

(* The loop of start at address a: every entry below it is zero. *)
Shaped(tb)     == tb = [t \in T!Tables |-> [i \in T!Index |-> tb[t][i]]]
ClearTo(tb, a) == \A t \in T!Tables : \A i \in T!Index : EntryAt(t, i) < a => tb[t][i] = T!Zero

AtZero(m, tb, a) ==
  /\ Shaped(tb) /\ ClearTo(tb, a)
  /\ a \in Nat /\ m.start.BSS <= a /\ a < m.end.BSS
  /\ \E n \in Nat : a = WORD * n

BootInv ==
  /\ machine \in Machines /\ Saved
  /\ pc = "start" => Shaped(tab)
  /\ pc = "zero" => AtZero(machine, tab, pa)
  /\ pc \in {"save", "pmm"} => tab = [t \in T!Tables |-> [i \in T!Index |-> T!Zero]]
  /\ pc = "map" => AtMap(machine, tab, pool, sec, pa)
  /\ pc \in {"verify", "sret"} => AtVerify(machine, tab, pool)
  /\ pc = "kmain" => AtKmain(machine, tab, pool)
  /\ pc \in {"dtFirst", "dtRest"} => AtBlob(machine, tab, pool, pa)
  /\ pc = "dtFirst" => pa = PAGE * BlobFirst(machine)
  /\ pc = "dtUnmap" => AtUnmap(machine, tab, pool, pa)
  /\ pc = "loop" => AtLoop(machine, tab, pool)
  /\ pc = "panic" => Justified(machine)

-----------------------------------------------------------------------------
(* Addresses and pages.                                                    *)

(* The results on the page tables apply to the kernel's. *)
LEMMA Applies == T!PagingAssumption
BY BootAssumption DEF T!PagingAssumption, Reqs, Ureqs, P!Perms, T!Perms

(* Quotient and remainder are determined by what they add up to. *)
LEMMA Quotient ==
  ASSUME NEW x \in Int, NEW p \in Int, p > 0, NEW q \in Int, NEW r \in Int,
         0 <= r, r < p, x = p * q + r
  PROVE  x \div p = q /\ x % p = r
OBVIOUS

(* Multiples of the size of a page are ordered as the pages are. *)
LEMMA Multiples ==
  ASSUME NEW p \in Int, p > 0, NEW a \in Int, NEW b \in Int
  PROVE  /\ p * a <= p * b <=> a <= b
         /\ p * a < p * b <=> a < b
<1>1. ASSUME NEW x \in Int, NEW y \in Int, x < y PROVE p * x < p * y
  <2> DEFINE d == y - x
  <2>1. d \in Int /\ d >= 1 /\ y = x + d
    BY <1>1
  <2> HIDE DEF d
  <2>2. p * y = p * x + p * d /\ p * d >= p /\ p * x \in Int /\ p * d \in Int
    BY <2>1
  <2> QED
    BY <2>2
<1>2. p * a \in Int /\ p * b \in Int
  OBVIOUS
<1>3. (a < b => p * a < p * b) /\ (b < a => p * b < p * a) /\ (a = b => p * a = p * b)
  BY <1>1
<1> QED
  BY <1>2, <1>3

(* The page of an address, and the address of a page. *)
LEMMA PageOf ==
  ASSUME NEW a \in Nat
  PROVE  /\ a \div PAGE \in Nat /\ a % PAGE \in Nat /\ a % PAGE < PAGE
         /\ a = PAGE * (a \div PAGE) + (a % PAGE)
BY BootAssumption

(* Quotients are ordered as the numbers are. *)
LEMMA QuotientOrder ==
  ASSUME NEW p \in Int, p > 0, NEW a \in Nat, NEW b \in Nat, a <= b
  PROVE  a \div p <= b \div p
<1> DEFINE x == a \div p
           y == b \div p
           r == a % p
           t == b % p
<1>1. /\ x \in Int /\ y \in Int /\ r \in Int /\ t \in Int /\ 0 <= r /\ r < p /\ 0 <= t /\ t < p
      /\ a = p * x + r /\ b = p * y + t
  OBVIOUS
<1> HIDE DEF x, y, r, t
<1>2. p * x < p * (y + 1)
  BY <1>1
<1>3. x < y + 1
  BY <1>1, <1>2, Multiples
<1> QED
  BY <1>1, <1>3 DEF x, y

(* The address of a page. *)
LEMMA AddressOf ==
  ASSUME NEW k \in Nat
  PROVE  PAGE * k \in Nat /\ (PAGE * k) \div PAGE = k /\ (PAGE * k) % PAGE = 0
<1>1. PAGE \in Int /\ PAGE > 0 /\ PAGE \in Nat
  BY BootAssumption
<1>2. PAGE * k \in Nat /\ PAGE * k = PAGE * k + 0
  BY <1>1
<1> DEFINE x == PAGE * k
<1>3. x \in Int /\ x = PAGE * k + 0
  BY <1>2
<1> HIDE DEF x
<1>4. x \div PAGE = k /\ x % PAGE = 0
  BY <1>1, <1>3, Quotient
<1> QED
  BY <1>2, <1>4 DEF x

(* The pages before the end of something, and the end rounded up. *)
LEMMA EndOf ==
  ASSUME NEW e \in Nat, e > 0
  PROVE  /\ (e - 1) \div PAGE \in Nat
         /\ AlignUp(e) = PAGE * ((e - 1) \div PAGE + 1)
         /\ \A k \in Nat : PAGE * k < e <=> k <= (e - 1) \div PAGE
<1> DEFINE l == (e - 1) \div PAGE
           r == (e - 1) % PAGE
<1>1. PAGE \in Int /\ PAGE > 0 /\ e - 1 \in Nat
  BY BootAssumption
<1>2. l \in Nat /\ r \in Nat /\ r < PAGE /\ e - 1 = PAGE * l + r
  BY <1>1, PageOf
<1> HIDE DEF l, r
<1>3. e + PAGE - 1 = PAGE * (l + 1) + r /\ PAGE * l \in Int
  BY <1>1, <1>2
<1>4. (e + PAGE - 1) \div PAGE = l + 1
  <2> DEFINE x == e + PAGE - 1
  <2>1. x \in Int /\ x = PAGE * (l + 1) + r
    BY <1>1, <1>3
  <2> HIDE DEF x
  <2>2. x \div PAGE = l + 1
    BY <1>1, <1>2, <2>1, Quotient
  <2> QED
    BY <2>2 DEF x
<1>5. ASSUME NEW k \in Nat PROVE PAGE * k < e <=> k <= l
  <2>1. PAGE * k \in Int /\ PAGE * l \in Int /\ PAGE * (l + 1) = PAGE * l + PAGE
    BY <1>1, <1>2
  <2>2. CASE k <= l
    <3>1. PAGE * k <= PAGE * l
      BY <1>1, <1>2, <2>2, Multiples
    <3> QED
      BY <1>2, <2>1, <2>2, <3>1
  <2>3. CASE ~(k <= l)
    <3>1. l + 1 <= k
      BY <1>2, <2>3
    <3>2. PAGE * (l + 1) <= PAGE * k
      BY <1>1, <1>2, <3>1, Multiples
    <3> QED
      BY <1>1, <1>2, <2>1, <2>3, <3>2
  <2> QED
    BY <2>2, <2>3
<1>6. AlignUp(e) = PAGE * (l + 1)
  BY <1>4 DEF AlignUp, AlignDown
<1> QED
  BY <1>2, <1>5, <1>6 DEF l

(* The pages that begin between two addresses. *)
LEMMA PagesFromIs ==
  ASSUME NEW k \in Nat, NEW e \in Nat, e > 0
  PROVE  PagesFrom(PAGE * k, e) = k .. (e - 1) \div PAGE
<1>1. PAGE \in Int /\ PAGE > 0
  BY BootAssumption
<1> DEFINE x == PAGE * k + PAGE - 1
           r == PAGE - 1
<1>2. x \in Int /\ r \in Int /\ 0 <= r /\ r < PAGE /\ x = PAGE * k + r
  BY <1>1
<1> HIDE DEF x, r
<1>3. x \div PAGE = k
  BY <1>1, <1>2, Quotient
<1> QED
  BY <1>3 DEF PagesFrom, x

(* The sizes of the space, in pages and in addresses. *)
LEMMA Sizes == /\ T!SpaceSize \in Nat /\ Mappable = PAGE * T!SpaceSize
               /\ T!VPages = 0 .. T!SpaceSize - 1
<1>1. ENTRIES \in Nat
  BY BootAssumption
<1>2. ENTRIES * ENTRIES \in Nat
  BY <1>1
<1>3. ENTRIES * ENTRIES * ENTRIES \in Nat
  BY <1>1, <1>2
<1> QED
  BY <1>3 DEF T!SpaceSize, T!VPages, Mappable

(* What ends below the top of the space has its pages in it. *)
LEMMA BelowTop ==
  ASSUME NEW k \in Nat, PAGE * k < Mappable
  PROVE  k \in T!VPages
<1>1. PAGE \in Int /\ PAGE > 0
  BY BootAssumption
<1> DEFINE n == T!SpaceSize
<1>2. n \in Int /\ PAGE * k < PAGE * n
  BY Sizes
<1> HIDE DEF n
<1>3. k < n
  BY <1>1, <1>2, Multiples
<1> QED
  BY <1>3, Sizes DEF n

(* A section is a range of pages. *)
LEMMA SectionIs ==
  ASSUME NEW m \in Machines, NEW s \in DOMAIN SectionPerms
  PROVE  /\ First(m, s) \in Nat /\ Last(m, s) \in Nat /\ First(m, s) <= Last(m, s)
         /\ m.start[s] = PAGE * First(m, s)
         /\ AlignDown(m.start[s]) = PAGE * First(m, s)
         /\ AlignUp(m.end[s]) = PAGE * (Last(m, s) + 1)
         /\ PagesFrom(m.start[s], m.end[s]) = PagesOf(m, s)
         /\ PagesOf(m, s) \subseteq T!VPages
<1> DEFINE a == m.start[s]
           e == m.end[s]
           f == First(m, s)
           l == Last(m, s)
<1>1. a \in Nat /\ e \in Nat /\ AlignUp(e) <= Mappable /\ a % PAGE = 0 /\ a < e
  BY BootAssumption
<1>2. f = a \div PAGE /\ l = (e - 1) \div PAGE
  BY DEF First, Last
<1> HIDE DEF a, e, f, l
<1>3. f \in Nat /\ a = PAGE * f
  <2>1. PAGE * f \in Int /\ PAGE * f + 0 = PAGE * f
    BY <1>1, <1>2, PageOf, BootAssumption
  <2> QED
    BY <1>1, <1>2, <2>1, PageOf
<1>4. l \in Nat /\ AlignUp(e) = PAGE * (l + 1) /\ \A k \in Nat : PAGE * k < e <=> k <= l
  BY <1>1, <1>2, EndOf
<1>5. f <= l
  BY <1>1, <1>3, <1>4
<1>6. AlignDown(a) = PAGE * f
  BY <1>2 DEF AlignDown
<1>7. PagesFrom(a, e) = f .. l
  BY <1>1, <1>2, <1>3, PagesFromIs
<1>8. ASSUME NEW v \in f .. l PROVE v \in T!VPages
  <2>1. v \in Nat /\ v < l + 1 /\ PAGE \in Int /\ PAGE > 0
    BY <1>3, <1>4, BootAssumption
  <2>2. PAGE * v < PAGE * (l + 1)
    BY <1>4, <2>1, Multiples
  <2>3. PAGE * v < Mappable
    <3>1. PAGE * v \in Int /\ PAGE * (l + 1) \in Int /\ Mappable \in Int
      BY <1>4, <2>1, Sizes
    <3> QED
      BY <1>1, <1>4, <2>2, <3>1
  <2> QED
    BY <2>1, <2>3, BelowTop
<1>9. PagesOf(m, s) = f .. l
  BY DEF PagesOf, f, l
<1> QED
  BY <1>3, <1>4, <1>5, <1>6, <1>7, <1>8, <1>9 DEF a, e, f, l

(* Sections share no page. *)
LEMMA SectionsApart ==
  ASSUME NEW m \in Machines, NEW s \in DOMAIN SectionPerms, NEW t \in DOMAIN SectionPerms, s # t
  PROVE  PagesOf(m, s) \cap PagesOf(m, t) = {}
<1>1. AlignUp(m.end[s]) <= m.start[t] \/ AlignUp(m.end[t]) <= m.start[s]
  BY BootAssumption
<1> DEFINE f == First(m, s)
           l == Last(m, s)
           g == First(m, t)
           h == Last(m, t)
<1>2. /\ f \in Nat /\ l \in Nat /\ m.start[s] = PAGE * f /\ AlignUp(m.end[s]) = PAGE * (l + 1)
      /\ g \in Nat /\ h \in Nat /\ m.start[t] = PAGE * g /\ AlignUp(m.end[t]) = PAGE * (h + 1)
      /\ PagesOf(m, s) = f .. l /\ PagesOf(m, t) = g .. h
  BY SectionIs DEF PagesOf
<1> HIDE DEF f, l, g, h
<1>3. PAGE \in Int /\ PAGE > 0
  BY BootAssumption
<1>4. PAGE * (l + 1) <= PAGE * g \/ PAGE * (h + 1) <= PAGE * f
  BY <1>1, <1>2
<1>5. l + 1 <= g \/ h + 1 <= f
  BY <1>2, <1>3, <1>4, Multiples
<1>6. \A v : ~(v \in f .. l /\ v \in g .. h)
  BY <1>2, <1>5
<1> QED
  BY <1>2, <1>6

(* The blob is a range of pages. *)
LEMMA BlobIs ==
  ASSUME NEW m \in Machines
  PROVE  /\ BlobFirst(m) \in Nat /\ BlobLast(m) \in Nat /\ BlobFirst(m) <= BlobLast(m)
         /\ AlignDown(m.dtb.base) = PAGE * BlobFirst(m)
         /\ \A k \in Nat : PAGE * k < m.dtb.base + m.dtb.size <=> k <= BlobLast(m)
         /\ PagesFrom(AlignDown(m.dtb.base), m.dtb.base + m.dtb.size) = Blob(m)
         /\ Blob(m) \subseteq T!VPages
<1> DEFINE a == m.dtb.base
           e == m.dtb.base + m.dtb.size
           f == BlobFirst(m)
           l == BlobLast(m)
<1>1. a \in Nat /\ e \in Nat /\ e > 0 /\ a <= e - 1 /\ e <= Mappable
  BY BootAssumption
<1>2. f = a \div PAGE /\ l = (e - 1) \div PAGE
  BY DEF BlobFirst, BlobLast
<1> HIDE DEF a, e, f, l
<1>3. f \in Nat /\ PAGE \in Int /\ PAGE > 0
  <2>1. f \in Nat
    BY <1>1, <1>2, PageOf
  <2> QED
    BY <2>1, BootAssumption
<1>4. l \in Nat /\ \A k \in Nat : PAGE * k < e <=> k <= l
  BY <1>1, <1>2, EndOf
<1>5. f <= l
  <2>1. e - 1 \in Nat
    BY <1>1
  <2> QED
    BY <1>1, <1>2, <1>3, <2>1, QuotientOrder
<1>6. AlignDown(a) = PAGE * f
  BY <1>2 DEF AlignDown
<1>7. PagesFrom(AlignDown(a), e) = f .. l
  BY <1>1, <1>2, <1>3, <1>6, PagesFromIs
<1>8. ASSUME NEW v \in f .. l PROVE v \in T!VPages
  <2>1. v \in Nat /\ v <= l
    BY <1>3, <1>4
  <2>2. PAGE * v < e
    BY <1>4, <2>1
  <2>4. PAGE * v \in Int
    BY <1>3, <2>1
  <2>0. Mappable \in Int
    BY <1>3, Sizes
  <2>3. PAGE * v < Mappable
    BY <1>1, <2>0, <2>2, <2>4
  <2> QED
    BY <2>1, <2>3, BelowTop
<1>9. Blob(m) = f .. l
  BY DEF Blob, f, l
<1> QED
  BY <1>3, <1>4, <1>5, <1>6, <1>7, <1>8, <1>9 DEF a, e, f, l

(* The UART is one page, in a part of the space of its own. *)
LEMMA UartIs ==
  ASSUME NEW m \in Machines
  PROVE  /\ First(m, "UART") = Last(m, "UART") /\ First(m, "UART") \in T!VPages
         /\ \A s \in DOMAIN SectionPerms \ {"UART"} : \A v \in PagesOf(m, s) :
              T!Part1(v) # T!Part1(First(m, "UART"))
<1> DEFINE u == First(m, "UART")
           l == Last(m, "UART")
<1>0. "UART" \in DOMAIN SectionPerms
  BY DEF SectionPerms
<1>1. /\ u \in Nat /\ l \in Nat /\ u <= l /\ m.start["UART"] = PAGE * u /\ PagesOf(m, "UART") \subseteq T!VPages
      /\ PagesOf(m, "UART") = u .. l
  BY <1>0, SectionIs DEF PagesOf
<1>2. m.end.UART = m.start.UART + PAGE /\ m.end["UART"] \in Nat /\ m.end["UART"] > 0 /\ PAGE \in Int /\ PAGE > 0
  BY <1>0, BootAssumption
<1>3. l = (m.end["UART"] - 1) \div PAGE
  BY DEF Last
<1> HIDE DEF l
<1>4. u = l
  <2> DEFINE x == m.end["UART"] - 1
             r == PAGE - 1
  <2>1. x \in Int /\ r \in Int /\ 0 <= r /\ r < PAGE /\ x = PAGE * u + r
    BY <1>1, <1>2
  <2> HIDE DEF x, r, u
  <2>2. x \div PAGE = u
    BY <1>1, <1>2, <2>1, Quotient
  <2> QED
    BY <1>3, <2>2 DEF x
<1>5. u \in T!VPages
  BY <1>1, <1>4
<1>6. ASSUME NEW s \in DOMAIN SectionPerms \ {"UART"}, NEW v \in PagesOf(m, s)
      PROVE  T!Part1(v) # T!Part1(u)
  <2>1. PartOf(m.end[s] - 1) < PartOf(m.start.UART) \/ PartOf(m.start.UART) < PartOf(m.start[s])
    BY BootAssumption
  <2> DEFINE f == First(m, s)
             h == Last(m, s)
  <2>2. f \in Nat /\ h \in Nat /\ v \in Nat /\ f <= v /\ v <= h
    BY SectionIs DEF PagesOf
  <2>3. PartOf(m.end[s] - 1) = h \div ENTRIES /\ PartOf(m.start[s]) = f \div ENTRIES
        /\ PartOf(m.start.UART) = u \div ENTRIES
    BY DEF PartOf, First, Last
  <2> HIDE DEF f, h, u
  <2>4. ENTRIES \in Int /\ ENTRIES > 0
    BY BootAssumption
  <2>5. f \div ENTRIES <= v \div ENTRIES /\ v \div ENTRIES <= h \div ENTRIES
    BY <2>2, <2>4, QuotientOrder
  <2>6. /\ f \div ENTRIES \in Int /\ v \div ENTRIES \in Int /\ h \div ENTRIES \in Int
        /\ u \div ENTRIES \in Int
    BY <1>1, <2>2, <2>4
  <2>7. v \div ENTRIES # u \div ENTRIES
    BY <2>1, <2>3, <2>5, <2>6
  <2> QED
    BY <2>7 DEF T!Part1
<1> QED
  BY <1>4, <1>5, <1>6 DEF l

-----------------------------------------------------------------------------
(* The pages kinit goes through.                                           *)

(* The sections, in the order in which they are mapped. *)
LEMMA SectionsAre ==
  /\ Len(Sections) = 6 /\ Sections[6] = "UART"
  /\ \A j \in 1 .. 6 : Sections[j] \in DOMAIN SectionPerms
  /\ \A j \in 1 .. 5 : Sections[j] # "UART"
  /\ \A s \in DOMAIN SectionPerms : \E j \in 1 .. 6 : Sections[j] = s
<1>1. Len(Sections) = 6 /\ Sections[6] = "UART"
  BY DEF Sections
<1>2. DOMAIN SectionPerms = {"TEXT", "RODATA", "DATA", "BSS", "STACK", "UART"}
  BY DEF SectionPerms
<1>3. /\ Sections[1] = "TEXT" /\ Sections[2] = "RODATA" /\ Sections[3] = "DATA"
      /\ Sections[4] = "BSS" /\ Sections[5] = "STACK"
  BY DEF Sections
<1>4. \A j \in 1 .. 6 : j = 1 \/ j = 2 \/ j = 3 \/ j = 4 \/ j = 5 \/ j = 6
  OBVIOUS
<1>5. \A j \in 1 .. 5 : j = 1 \/ j = 2 \/ j = 3 \/ j = 4 \/ j = 5
  OBVIOUS
<1>6. \A j \in 1 .. 6 : Sections[j] \in DOMAIN SectionPerms
  BY <1>1, <1>2, <1>3, <1>4
<1>7. \A j \in 1 .. 5 : Sections[j] # "UART"
  BY <1>3, <1>5
<1>8. 1 \in 1 .. 6 /\ 2 \in 1 .. 6 /\ 3 \in 1 .. 6 /\ 4 \in 1 .. 6 /\ 5 \in 1 .. 6 /\ 6 \in 1 .. 6
  OBVIOUS
<1>9. ASSUME NEW s \in DOMAIN SectionPerms PROVE \E j \in 1 .. 6 : Sections[j] = s
  BY <1>1, <1>2, <1>3, <1>8
<1> QED
  BY <1>1, <1>6, <1>7, <1>9

(* The permissions of a page of a section. *)
LEMMA WantedIs ==
  ASSUME NEW m \in Machines, NEW s \in DOMAIN SectionPerms, NEW v \in PagesOf(m, s)
  PROVE  v \in Kernel(m) /\ Wanted(m, v) = SectionPerms[s]
<1>1. v \in Kernel(m)
  BY DEF Kernel
<1> DEFINE t == CHOOSE x \in DOMAIN SectionPerms : v \in PagesOf(m, x)
<1>2. t \in DOMAIN SectionPerms /\ v \in PagesOf(m, t)
  OBVIOUS
<1>3. Wanted(m, v) = SectionPerms[t]
  BY <1>1 DEF Wanted
<1> HIDE DEF t
<1>4. t = s
  BY <1>2, SectionsApart
<1> QED
  BY <1>1, <1>3, <1>4

(* The kernel lies in the space that can be mapped. *)
LEMMA KernelMappable ==
  ASSUME NEW m \in Machines
  PROVE  Kernel(m) \subseteq T!VPages
BY SectionIs DEF Kernel

(* A page that has been tried is of an earlier section or earlier in its   *)
(* own.                                                                    *)
LEMMA InTried ==
  ASSUME NEW m, NEW n, NEW k, NEW v
  PROVE  v \in Tried(m, n, k) <=>
           \/ \E j \in 1 .. n - 1 : v \in PagesOf(m, Sections[j])
           \/ v \in PagesOf(m, Sections[n]) /\ v < k
<1>1. v \in Earlier(m, n) <=> \E j \in 1 .. n - 1 : v \in PagesOf(m, Sections[j])
  <2> DEFINE J == 1 .. n - 1
             Q(j) == PagesOf(m, Sections[j])
  <2>1. Earlier(m, n) = UNION {Q(j) : j \in J}
    BY Zenon DEF Earlier
  <2>2. (\E j \in J : v \in Q(j)) <=> \E j \in 1 .. n - 1 : v \in PagesOf(m, Sections[j])
    OBVIOUS
  <2> HIDE DEF J, Q
  <2> QED
    BY <2>1, <2>2
<1> QED
  BY <1>1 DEF Tried

(* Nothing has been tried at first. *)
LEMMA TriedNone ==
  ASSUME NEW m \in Machines
  PROVE  Tried(m, 1, First(m, Sections[1])) = {}
<1>1. \A v \in PagesOf(m, Sections[1]) : ~(v < First(m, Sections[1]))
  BY SectionIs, SectionsAre DEF PagesOf
<1>2. 1 .. 1 - 1 = {}
  OBVIOUS
<1>3. ASSUME NEW v PROVE v \notin Tried(m, 1, First(m, Sections[1]))
  BY <1>1, <1>2, InTried
<1> QED
  BY <1>3

(* A round of the loop goes through one more page. *)
LEMMA TriedOneMore ==
  ASSUME NEW m \in Machines, NEW n \in 1 .. 6, NEW k \in PagesOf(m, Sections[n])
  PROVE  Tried(m, n, k + 1) = Tried(m, n, k) \cup {k} /\ k \notin Tried(m, n, k)
<1>1. Sections[n] \in DOMAIN SectionPerms
  BY SectionsAre
<1>2. k \in Int /\ \A v \in PagesOf(m, Sections[n]) : v \in Int
  BY <1>1, SectionIs DEF PagesOf
<1>3. \A v \in PagesOf(m, Sections[n]) : v < k + 1 <=> v < k \/ v = k
  BY <1>2
<1>4. \A j \in 1 .. n - 1 : k \notin PagesOf(m, Sections[j])
  <2>1. ASSUME NEW j \in 1 .. n - 1 PROVE k \notin PagesOf(m, Sections[j])
    <3>1. j \in 1 .. 6 /\ j # n
      OBVIOUS
    <3>2. Sections[j] # Sections[n]
      <4>1. \A i \in 1 .. 6 : i = 1 \/ i = 2 \/ i = 3 \/ i = 4 \/ i = 5 \/ i = 6
        OBVIOUS
      <4> QED
        BY <3>1, <4>1 DEF Sections
    <3>3. Sections[j] \in DOMAIN SectionPerms
      BY <3>1, SectionsAre
    <3> QED
      BY <1>1, <3>2, <3>3, SectionsApart
  <2> QED
    BY <2>1
<1>5. ~(k < k)
  BY <1>2
<1>6. k \notin Tried(m, n, k)
  BY <1>4, <1>5, InTried
<1>7. ASSUME NEW v PROVE v \in Tried(m, n, k + 1) <=> v \in Tried(m, n, k) \cup {k}
  <2>1. v \in Tried(m, n, k + 1) <=>
          \/ \E j \in 1 .. n - 1 : v \in PagesOf(m, Sections[j])
          \/ v \in PagesOf(m, Sections[n]) /\ v < k + 1
    BY InTried
  <2>2. v \in Tried(m, n, k) <=>
          \/ \E j \in 1 .. n - 1 : v \in PagesOf(m, Sections[j])
          \/ v \in PagesOf(m, Sections[n]) /\ v < k
    BY InTried
  <2> QED
    BY <1>3, <2>1, <2>2
<1> QED
  BY <1>6, <1>7

(* At the end of a section the next one begins. *)
LEMMA TriedNext ==
  ASSUME NEW m \in Machines, NEW n \in 1 .. 5
  PROVE  Tried(m, n + 1, First(m, Sections[n + 1])) = Tried(m, n, Last(m, Sections[n]) + 1)
<1>1. Sections[n] \in DOMAIN SectionPerms /\ Sections[n + 1] \in DOMAIN SectionPerms
  BY SectionsAre
<1>2. \A v \in PagesOf(m, Sections[n + 1]) : ~(v < First(m, Sections[n + 1]))
  BY <1>1, SectionIs DEF PagesOf
<1>3. \A v \in PagesOf(m, Sections[n]) : v < Last(m, Sections[n]) + 1
  BY <1>1, SectionIs DEF PagesOf
<1>4. 1 .. (n + 1) - 1 = (1 .. n - 1) \cup {n}
  OBVIOUS
<1>5. ASSUME NEW v
      PROVE  v \in Tried(m, n + 1, First(m, Sections[n + 1])) <=> v \in Tried(m, n, Last(m, Sections[n]) + 1)
  <2>1. v \in Tried(m, n + 1, First(m, Sections[n + 1])) <=>
          \E j \in 1 .. (n + 1) - 1 : v \in PagesOf(m, Sections[j])
    BY <1>2, InTried
  <2>2. v \in Tried(m, n, Last(m, Sections[n]) + 1) <=>
          (\E j \in 1 .. n - 1 : v \in PagesOf(m, Sections[j])) \/ v \in PagesOf(m, Sections[n])
    BY <1>3, InTried
  <2> QED
    BY <1>4, <2>1, <2>2
<1> QED
  BY <1>5

(* At the end of the last section the whole kernel has been gone through. *)
LEMMA TriedAll ==
  ASSUME NEW m \in Machines
  PROVE  Tried(m, 6, Last(m, Sections[6]) + 1) = Kernel(m)
<1>1. Sections[6] \in DOMAIN SectionPerms
  BY SectionsAre
<1>2. \A v \in PagesOf(m, Sections[6]) : v < Last(m, Sections[6]) + 1
  BY <1>1, SectionIs DEF PagesOf
<1>3. ASSUME NEW v
      PROVE  v \in Tried(m, 6, Last(m, Sections[6]) + 1) <=>
               (\E j \in 1 .. 5 : v \in PagesOf(m, Sections[j])) \/ v \in PagesOf(m, Sections[6])
  <2>1. 6 - 1 = 5
    OBVIOUS
  <2>2. v \in Tried(m, 6, Last(m, Sections[6]) + 1) <=>
          \/ \E j \in 1 .. 6 - 1 : v \in PagesOf(m, Sections[j])
          \/ v \in PagesOf(m, Sections[6]) /\ v < Last(m, Sections[6]) + 1
    BY InTried
  <2> QED
    BY <1>2, <2>1, <2>2
<1>4. \A j \in 1 .. 6 : j \in 1 .. 5 \/ j = 6
  OBVIOUS
<1>5. \A s \in DOMAIN SectionPerms : (\E j \in 1 .. 5 : Sections[j] = s) \/ Sections[6] = s
  BY <1>4, SectionsAre
<1>6. \A j \in 1 .. 5 : Sections[j] \in DOMAIN SectionPerms
  BY SectionsAre
<1>7. ASSUME NEW v
      PROVE  v \in Tried(m, 6, Last(m, Sections[6]) + 1) <=> v \in Kernel(m)
  <2>1. v \in Kernel(m) <=> \E s \in DOMAIN SectionPerms : v \in PagesOf(m, s)
    BY DEF Kernel
  <2> QED
    BY <1>1, <1>3, <1>5, <1>6, <2>1
<1> QED
  BY <1>7

(* What has been tried is of the kernel, and before the last section no    *)
(* page in the part of the UART.                                           *)
LEMMA TriedIn ==
  ASSUME NEW m \in Machines, NEW n \in 1 .. 6, NEW k
  PROVE  /\ Tried(m, n, k) \subseteq Kernel(m)
         /\ n < 6 => \A v \in Tried(m, n, k) : T!Part1(v) # T!Part1(First(m, "UART"))
<1>1. ASSUME NEW v \in Tried(m, n, k) PROVE \E j \in 1 .. n : v \in PagesOf(m, Sections[j])
  <2>1. n \in 1 .. n /\ 1 .. n - 1 \subseteq 1 .. n
    OBVIOUS
  <2>2. (\E j \in 1 .. n - 1 : v \in PagesOf(m, Sections[j])) \/ v \in PagesOf(m, Sections[n])
    BY InTried
  <2> QED
    BY <2>1, <2>2
<1>2. \A j \in 1 .. n : j \in 1 .. 6 /\ (n < 6 => j \in 1 .. 5)
  OBVIOUS
<1>3. \A j \in 1 .. n : Sections[j] \in DOMAIN SectionPerms /\ (n < 6 => Sections[j] # "UART")
  BY <1>2, SectionsAre
<1> QED
  BY <1>1, <1>3, UartIs DEF Kernel

-----------------------------------------------------------------------------
(* The operations of Boot's instance of Paging are those of the instance   *)
(* the facts are about.                                                    *)
LEMMA SameMap ==
  ASSUME NEW r, P!Map(r)
  PROVE  T!Map(r)
<1>1. P!Refused(r) = T!Refused(r)
  BY Zenon DEF P!Refused, T!Refused
<1>2. \A op, pg, err, n : P!Result(op, pg, err, n) = T!Result(op, pg, err, n)
  BY DEF P!Result, T!Result
<1>3. \A pg, l : P!Vpn(pg, l) = T!Vpn(pg, l)
  BY Zenon DEF P!Vpn, T!Vpn
<1>4. \A n, q : P!Entry(n, q) = T!Entry(n, q)
  BY DEF P!Entry, T!Entry
<1>5. \A tb, t, i, p : P!NextTables(tb, t, i, p) = T!NextTables(tb, t, i, p)
  BY Zenon DEF P!NextTables, T!NextTables
<1>6. \A tb, t, i, n : P!Link(tb, t, i, n) = T!Link(tb, t, i, n)
  BY <1>4, Zenon DEF P!Link, T!Link
<1>7. CASE P!MapRefused(r)
  BY <1>1, <1>2, <1>7, Zenon DEF P!MapRefused, T!MapRefused, P!Fails, T!Fails, T!Map
<1>8. CASE P!MapNoLevel1(r)
  BY <1>1, <1>2, <1>3, <1>5, <1>8, Zenon DEF P!MapNoLevel1, T!MapNoLevel1, P!Fails, T!Fails, T!Map
<1>9. CASE P!MapNoLevel0(r)
  BY <1>1, <1>2, <1>3, <1>5, <1>6, <1>9, Zenon DEF P!MapNoLevel0, T!MapNoLevel0, T!Map
<1>10. CASE P!MapWalks(r)
  <2> DEFINE i2 == T!Vpn(r.page, 2)
             i1 == T!Vpn(r.page, 1)
             i0 == T!Vpn(r.page, 0)
             ends(tb, n1, n0) ==
               /\ pool' = pool \ {n1, n0}
               /\ IF tb[n0][i0].valid
                  THEN /\ tab' = tb
                       /\ ret' = T!Result("map", r.page, "ERR_PAGING_MAPPING_EXISTS", 0)
                  ELSE /\ tab' = [tb EXCEPT ![n0][i0] = T!Entry(r.ppn, r.perms)]
                       /\ ret' = T!Result("map", r.page, "ERR_OK", 0)
  <2>4. P!Vpn(r.page, 2) = i2 /\ P!Vpn(r.page, 1) = i1 /\ P!Vpn(r.page, 0) = i0
    BY <1>3
  <2>5. PICK l1 \in P!NextTables(tab, ROOT, i2, pool) :
          \E l0 \in P!NextTables(P!Link(tab, ROOT, i2, l1), l1, i1, pool \ {l1}) :
            ends(P!Link(P!Link(tab, ROOT, i2, l1), l1, i1, l0), l1, l0)
    <3> HIDE DEF i2, i1, i0
    <3> QED
      BY <1>2, <1>4, <1>10, <2>4, Zenon DEF P!MapWalks
  <2> HIDE DEF ends, i2, i1, i0
  <2>1. /\ l1 \in T!NextTables(tab, ROOT, i2, pool)
        /\ \E l0 \in T!NextTables(T!Link(tab, ROOT, i2, l1), l1, i1, pool \ {l1}) :
            ends(T!Link(T!Link(tab, ROOT, i2, l1), l1, i1, l0), l1, l0)
    BY <1>5, <1>6, <2>5, Zenon
  <2> USE DEF ends, i2, i1, i0
  <2>2. T!Refused(r) = "ERR_OK"
    BY <1>1, <1>10 DEF P!MapWalks
  <2>3. T!MapWalks(r)
    BY <2>1, <2>2, Zenon DEF T!MapWalks
  <2> QED
    BY <2>3, Zenon DEF T!Map
<1> QED
  BY <1>7, <1>8, <1>9, <1>10, Zenon DEF P!Map

(* The same for what a walk finds. *)
LEMMA SameFound ==
  ASSUME NEW v
  PROVE  P!Slot(v) = T!Slot(v) /\ P!Found(v) = T!Found(v)
<1>1. \A pg, l : P!Vpn(pg, l) = T!Vpn(pg, l)
  BY Zenon DEF P!Vpn, T!Vpn
<1>2. \A e : P!Ends(e) <=> T!Ends(e)
  BY Zenon DEF P!Ends, T!Ends, P!IsLeaf, T!IsLeaf
<1>3. P!Slot(v) = T!Slot(v)
  BY <1>1, <1>2, Zenon DEF P!Slot, T!Slot
<1> QED
  BY <1>3, Zenon DEF P!Found, T!Found

(* And for sv39_unmap. *)
LEMMA SameUnmap ==
  ASSUME NEW r, P!Unmap(r)
  PROVE  T!Unmap(r)
<1>1. P!Slot(r.page) = T!Slot(r.page) /\ P!Found(r.page) = T!Found(r.page)
  BY SameFound
<1>2. \A op, pg, err, n : P!Result(op, pg, err, n) = T!Result(op, pg, err, n)
  BY DEF P!Result, T!Result
<1>3. P!Zero = T!Zero
  BY DEF P!Zero, T!Zero
<1>4. CASE P!UnmapRefused(r)
  BY <1>1, <1>2, <1>4, Zenon DEF P!UnmapRefused, T!UnmapRefused, P!Fails, T!Fails, T!Unmap
<1>5. CASE P!UnmapDone(r)
  BY <1>1, <1>2, <1>3, <1>5, Zenon DEF P!UnmapDone, T!UnmapDone, T!Unmap
<1> QED
  BY <1>4, <1>5, Zenon DEF P!Unmap

(* What the tables show is what the pages are translated to. *)
LEMMA SameTranslation ==
  /\ \A v : P!Translation(v) = T!Meaning(T!At(tab, v)) /\ P!Found(v) = T!At(tab, v)
  /\ P!VPages = T!VPages /\ P!None = T!None /\ P!Tables = T!Tables /\ P!Index = T!Index
  /\ P!Zero = T!Zero
<1>1. ASSUME NEW v PROVE P!Found(v) = T!At(tab, v)
  BY SameFound, Applies, T!FoundIsAt
<1>2. P!None = T!None
  BY DEF P!None, T!None
<1>3. ASSUME NEW v PROVE P!Translation(v) = T!Meaning(T!At(tab, v))
  BY <1>1, <1>2 DEF P!Translation, T!Meaning
<1>4. P!VPages = T!VPages
  BY DEF P!VPages, T!VPages, P!SpaceSize, T!SpaceSize
<1>5. P!Tables = T!Tables /\ P!Index = T!Index /\ P!Zero = T!Zero
  BY DEF P!Tables, T!Tables, P!Index, T!Index, P!Zero, T!Zero
<1> QED
  BY <1>1, <1>2, <1>3, <1>4, <1>5

-----------------------------------------------------------------------------
(* The request for the page at its own address.                            *)
LEMMA IdMapIs ==
  ASSUME NEW k \in Nat, NEW q \in P!Perms
  PROVE  /\ IdMap(PAGE * k, q) = [page |-> k, off |-> 0, ppn |-> k, poff |-> 0,
                                  perms |-> q, type |-> "sv39_Page"]
         /\ IdMap(PAGE * k, q) \in Reqs
         /\ IdMap(PAGE * k, q).page = k /\ IdMap(PAGE * k, q).off = 0
         /\ IdMap(PAGE * k, q).ppn = k /\ IdMap(PAGE * k, q).poff = 0
         /\ IdMap(PAGE * k, q).perms = q /\ IdMap(PAGE * k, q).type = "sv39_Page"
<1>1. (PAGE * k) \div PAGE = k /\ (PAGE * k) % PAGE = 0
  BY AddressOf
<1>2. IdMap(PAGE * k, q) = [page |-> k, off |-> 0, ppn |-> k, poff |-> 0,
                            perms |-> q, type |-> "sv39_Page"]
  BY <1>1 DEF IdMap
<1> QED
  BY <1>2 DEF Reqs

(* The errors of a call with addresses of pages. *)
LEMMA MapErrors ==
  ASSUME NEW k \in Nat, NEW q \in P!Perms, P!Map(IdMap(PAGE * k, q))
  PROVE  ret'.err \in {"ERR_OK", "ERR_PAGING_SETUP_TABLE", "ERR_PAGING_MAPPING_EXISTS"}
<1> DEFINE r == IdMap(PAGE * k, q)
<1>1. r.type = "sv39_Page" /\ r.off = 0 /\ r.poff = 0
  BY IdMapIs
<1> HIDE DEF r
<1>2. P!Refused(r) = "ERR_OK"
  BY <1>1 DEF P!Refused
<1>3. \A op, pg, err, n : P!Result(op, pg, err, n).err = err
  BY DEF P!Result
<1>4. P!Map(r)
  BY DEF r
<1>5. CASE P!MapRefused(r)
  BY <1>2, <1>5 DEF P!MapRefused
<1>6. CASE P!MapNoLevel1(r)
  BY <1>3, <1>6 DEF P!MapNoLevel1, P!Fails
<1>7. CASE P!MapNoLevel0(r)
  BY <1>3, <1>7 DEF P!MapNoLevel0
<1>8. CASE P!MapWalks(r)
  <2>1. \/ ret' = P!Result("map", r.page, "ERR_PAGING_MAPPING_EXISTS", 0)
        \/ ret' = P!Result("map", r.page, "ERR_OK", 0)
    BY <1>8 DEF P!MapWalks
  <2> QED
    BY <1>3, <2>1
<1> QED
  BY <1>4, <1>5, <1>6, <1>7, <1>8 DEF P!Map

(* What a call of sv39_map for page k has done, by the error it returns. *)
Effect(tb, p, tb2, p2, k, q, err) ==
  \/ /\ err = "ERR_OK" /\ ~T!At(tb, k).valid
     /\ T!Changed(tb, p, tb2, p2, k, T!Entry(k, q))
  \/ /\ err = "ERR_PAGING_SETUP_TABLE" /\ T!Kept(tb, p, tb2, p2)
     /\ p2 = {} /\ ~T!Reaches(tb2, k)
  \/ /\ err = "ERR_PAGING_MAPPING_EXISTS" /\ T!Kept(tb, p, tb2, p2)
     /\ T!At(tb, k).valid

(* It has one of these effects. *)
LEMMA MapDoes ==
  ASSUME T!Sound(tab, pool), NEW k \in Nat, NEW q \in P!Perms, Map(PAGE * k, q)
  PROVE  /\ T!LinkedFor(tab, pool, tab', k)
         /\ Effect(tab, pool, tab', pool', k, q, ret'.err)
<1> DEFINE r == IdMap(PAGE * k, q)
<1>1. r \in Reqs /\ r.page = k /\ r.ppn = k /\ r.perms = q
  BY IdMapIs
<1>2. P!Map(r)
  BY DEF Map
<1>3. ret'.err \in {"ERR_OK", "ERR_PAGING_SETUP_TABLE", "ERR_PAGING_MAPPING_EXISTS"}
  BY <1>2, MapErrors
<1> HIDE DEF r
<1>4. T!Map(r)
  BY <1>2, SameMap
<1>5. \A op, pg, err, n : T!Result(op, pg, err, n).err = err
  BY DEF T!Result
<1>6. /\ T!LinkedFor(tab, pool, tab', r.page)
      /\ \/ /\ T!Kept(tab, pool, tab', pool')
            /\ \/ \E err \in {"ERR_PAGING_UNALIGNED_ADDRESS", "ERR_NOT_IMPLEMENTED",
                              "ERR_PAGING_INVALID_TYPE"} : ret' = T!Result("map", r.page, err, 0)
               \/ /\ ret' = T!Result("map", r.page, "ERR_PAGING_SETUP_TABLE", 0)
                  /\ ~T!At(tab, r.page).valid
                  /\ pool' = {} /\ ~T!Reaches(tab', r.page)
               \/ /\ ret' = T!Result("map", r.page, "ERR_PAGING_MAPPING_EXISTS", 0)
                  /\ T!At(tab, r.page).valid
         \/ /\ T!Changed(tab, pool, tab', pool', r.page, T!Entry(r.ppn, r.perms))
            /\ ret' = T!Result("map", r.page, "ERR_OK", 0)
            /\ ~T!At(tab, r.page).valid
  BY <1>1, <1>4, Applies, T!MapEffect
<1> QED
  BY <1>1, <1>3, <1>5, <1>6 DEF Effect

(* What a call of sv39_unmap for page k has done. *)
LEMMA UnmapDoes ==
  ASSUME T!Sound(tab, pool), NEW k \in Nat,
         P!Unmap([page |-> (PAGE * k) \div PAGE, off |-> (PAGE * k) % PAGE])
  PROVE  /\ UNCHANGED pool
         /\ \/ ret'.err = "ERR_OK" /\ T!Changed(tab, pool, tab', pool', k, T!Zero)
            \/ ~T!At(tab, k).valid /\ ret'.err # "ERR_OK" /\ UNCHANGED tab
<1> DEFINE r == [page |-> k, off |-> 0]
<1>1. P!Unmap(r)
  BY AddressOf
<1>2. r \in Ureqs /\ r.page = k /\ r.off = 0
  BY DEF Ureqs
<1> HIDE DEF r
<1>3. T!Unmap(r)
  BY <1>1, SameUnmap
<1>4. \A op, pg, err, n : T!Result(op, pg, err, n).err = err
  BY DEF T!Result
<1>5. \/ /\ T!Kept(tab, pool, tab', pool') /\ UNCHANGED <<tab, pool>>
         /\ \/ ret' = T!Result("unmap", r.page, "ERR_PAGING_UNALIGNED_ADDRESS", 0)
            \/ /\ ret' = T!Result("unmap", r.page, "ERR_PAGING_MAPPING_DOESNT_EXIST", 0)
               /\ ~T!At(tab, r.page).valid
      \/ /\ T!Changed(tab, pool, tab', pool', r.page, T!Zero) /\ UNCHANGED pool
         /\ ret' = T!Result("unmap", r.page, "ERR_OK", T!At(tab, r.page).ppn)
         /\ T!At(tab, r.page).valid
  BY <1>2, <1>3, Applies, T!UnmapEffect
<1>6. ret' # T!Result("unmap", r.page, "ERR_PAGING_UNALIGNED_ADDRESS", 0)
  <2>1. CASE T!UnmapRefused(r)
    BY <1>2, <1>4, <2>1 DEF T!UnmapRefused, T!Fails
  <2>2. CASE T!UnmapDone(r)
    BY <1>4, <2>2 DEF T!UnmapDone
  <2> QED
    BY <1>3, <2>1, <2>2 DEF T!Unmap
<1> QED
  BY <1>2, <1>4, <1>5, <1>6

-----------------------------------------------------------------------------
(* What the tables show after a call.                                      *)
LEMMA VPagesNat == T!VPages \subseteq Nat
BY Sizes

(* A page is mapped when it is to be. *)
LEMMA ShowsValid ==
  ASSUME NEW tb, NEW m, NEW A, Shows(tb, m, A), NEW k \in T!VPages
  PROVE  T!At(tb, k).valid <=> k \in A
<1>1. T!Meaning(T!At(tb, k)) = IF k \in A THEN Identity(k, Wanted(m, k)) ELSE T!None
  BY DEF Shows
<1>2. T!Meaning(T!At(tb, k)) = T!None <=> ~T!At(tb, k).valid
  BY Applies, T!MeaningIs
<1>3. Identity(k, Wanted(m, k)) # T!None
  <2>1. DOMAIN Identity(k, Wanted(m, k)) = {"ppn", "perms"} /\ DOMAIN T!None = {"unmapped"}
    BY DEF Identity, T!None
  <2> QED
    BY <2>1
<1> QED
  BY <1>1, <1>2, <1>3

(* A call that failed has changed nothing that is seen. *)
LEMMA ShowsKept ==
  ASSUME NEW tb, NEW m, NEW A, Shows(tb, m, A), NEW p, NEW tb2, NEW p2, T!Kept(tb, p, tb2, p2)
  PROVE  Shows(tb2, m, A)
BY VPagesNat DEF Shows, T!Kept

(* One more page is mapped. *)
LEMMA ShowsMore ==
  ASSUME NEW tb, NEW m, NEW A, Shows(tb, m, A), NEW p, NEW tb2, NEW p2, NEW k \in T!VPages,
         T!Changed(tb, p, tb2, p2, k, T!Entry(k, Wanted(m, k)))
  PROVE  Shows(tb2, m, A \cup {k})
<1>1. T!Meaning(T!Entry(k, Wanted(m, k))) = Identity(k, Wanted(m, k))
  BY DEF T!Meaning, T!Entry, Identity
<1>2. ASSUME NEW v \in T!VPages
      PROVE  T!Meaning(T!At(tb2, v)) =
               IF v \in A \cup {k} THEN Identity(v, Wanted(m, v)) ELSE T!None
  <2>1. T!Meaning(T!At(tb2, v)) =
          IF T!SamePage(v, k) THEN T!Meaning(T!Entry(k, Wanted(m, k))) ELSE T!Meaning(T!At(tb, v))
    BY VPagesNat DEF T!Changed
  <2>2. T!SamePage(v, k) <=> v = k
    BY Applies, T!OnePage
  <2>3. T!Meaning(T!At(tb, v)) = IF v \in A THEN Identity(v, Wanted(m, v)) ELSE T!None
    BY DEF Shows
  <2>4. CASE v = k
    BY <1>1, <2>1, <2>2, <2>4
  <2>5. CASE v # k
    BY <2>1, <2>2, <2>3, <2>5
  <2> QED
    BY <2>4, <2>5
<1> QED
  BY <1>2 DEF Shows

(* One page is unmapped. *)
LEMMA ShowsLess ==
  ASSUME NEW tb, NEW m, NEW A, Shows(tb, m, A), NEW p, NEW tb2, NEW p2, NEW k \in T!VPages,
         T!Changed(tb, p, tb2, p2, k, T!Zero)
  PROVE  Shows(tb2, m, A \ {k})
<1>1. T!Meaning(T!Zero) = T!None
  BY DEF T!Meaning, T!Zero
<1>2. ASSUME NEW v \in T!VPages
      PROVE  T!Meaning(T!At(tb2, v)) =
               IF v \in A \ {k} THEN Identity(v, Wanted(m, v)) ELSE T!None
  <2>1. T!Meaning(T!At(tb2, v)) =
          IF T!SamePage(v, k) THEN T!Meaning(T!Zero) ELSE T!Meaning(T!At(tb, v))
    BY VPagesNat DEF T!Changed
  <2>2. T!SamePage(v, k) <=> v = k
    BY Applies, T!OnePage
  <2>3. T!Meaning(T!At(tb, v)) = IF v \in A THEN Identity(v, Wanted(m, v)) ELSE T!None
    BY DEF Shows
  <2>4. CASE v = k
    BY <1>1, <2>1, <2>2, <2>4
  <2>5. CASE v # k
    BY <2>1, <2>2, <2>3, <2>5
  <2> QED
    BY <2>4, <2>5
<1> QED
  BY <1>2 DEF Shows

(* The pages of the early heap are still tables or free. *)
LEMMA HeldMore ==
  ASSUME NEW m, NEW tb, NEW p, NEW A, Held(m, tb, p, A), NEW tb2, NEW p2,
         T!Grown(tb, p, tb2, p2), NEW k \in T!VPages, T!LinkedFor(tb, p, tb2, k)
  PROVE  Held(m, tb2, p2, A \cup {k})
<1>1. T!LinksFor(tb2, A \cup {k})
  <2>1. T!LinksFor(tb, A)
    BY DEF Held
  <2> QED
    BY <2>1, Applies, T!LinksForOneMore
<1>2. T!Linked(tb) \cup p = m.heap
  BY DEF Held
<1>3. p2 \subseteq p /\ T!Linked(tb2) = T!Linked(tb) \cup (p \ p2)
  BY DEF T!Grown
<1>4. T!Linked(tb2) \cup p2 = m.heap
  BY <1>2, <1>3
<1>5. T!Sound(tb2, p2)
  BY DEF T!Grown
<1> QED
  BY <1>1, <1>4, <1>5 DEF Held

(* The tables are also for the pages of a larger set. *)
LEMMA LinksForAll ==
  ASSUME NEW tb, NEW A, NEW B, A \subseteq B, T!LinksFor(tb, A)
  PROVE  T!LinksFor(tb, B)
BY DEF T!LinksFor

(* The instance has its own name for the number of elements. *)
LEMMA SameCardinality == \A S : T!Cardinality(S) = Cardinality(S)
BY Zenon DEF T!Cardinality, Cardinality

(* There is no page left and a page has no table: the early heap has fewer *)
(* pages than it takes tables.                                             *)
LEMMA TooFew ==
  ASSUME NEW m \in Machines, NEW tb, NEW A, Held(m, tb, {}, A), A \subseteq Kernel(m) \cup Blob(m),
         NEW k \in Kernel(m) \cup Blob(m), ~T!Reaches(tb, k)
  PROVE  Justified(m)
<1> DEFINE B == Kernel(m) \cup Blob(m)
<1>1. B \in SUBSET T!VPages
  BY KernelMappable, BlobIs
<1>2. T!Sound(tb, {}) /\ T!Linked(tb) = m.heap /\ T!LinksFor(tb, A)
  BY DEF Held
<1> HIDE DEF B
<1>3. k \in B /\ A \subseteq B
  BY DEF B
<1>4. T!LinksFor(tb, B)
  BY <1>2, <1>3, LinksForAll
<1>5. T!Cardinality(T!Linked(tb)) < T!PartsWith(B)
  BY <1>1, <1>2, <1>3, <1>4, Applies, T!FewLinked
<1>6. TablesFor(B) = T!PartsWith(B)
  BY SameCardinality, Zenon DEF TablesFor, T!PartsWith, T!Part1, T!Part2
<1>7. TablesFor(B) > Cardinality(m.heap)
  BY <1>2, <1>5, <1>6, SameCardinality
<1> QED
  BY <1>7 DEF Justified, B

-----------------------------------------------------------------------------
(* The steps of the loops, for any tables and pages.                       *)
LEMMA PermsAre ==
  /\ {"R"} \in P!Perms
  /\ \A s \in DOMAIN SectionPerms :
       SectionPerms[s] \in P!Perms /\ ~({"W", "X"} \subseteq SectionPerms[s])
BY DEF SectionPerms, P!Perms

(* Either effect keeps what is said of the tables and the pages. *)
LEMMA EffectGrows ==
  ASSUME NEW tb, NEW p, NEW tb2, NEW p2, NEW k, NEW q, NEW err, Effect(tb, p, tb2, p2, k, q, err)
  PROVE  T!Grown(tb, p, tb2, p2)
BY DEF Effect, T!Kept, T!Changed

(* A failure that is passed over leaves the UART without a table. *)
LEMMA Starves ==
  ASSUME NEW m \in Machines, NEW n \in 1 .. 6, NEW k \in PagesOf(m, Sections[n]), NEW tb,
         T!LinksFor(tb, Tried(m, n, k + 1)), ~T!Reaches(tb, k)
  PROVE  ~T!Reaches(tb, First(m, "UART"))
<1> DEFINE u == First(m, "UART")
<1>1. u \in T!VPages
  BY UartIs
<1>2. CASE n < 6
  <2>1. \A v \in Tried(m, n, k + 1) : T!Part1(v) # T!Part1(u)
    BY <1>2, TriedIn
  <2> HIDE DEF u
  <2>2. ~T!Reaches(tb, u)
    BY <1>1, <2>1 DEF T!LinksFor
  <2> QED
    BY <2>2 DEF u
<1>3. CASE n = 6
  <2>1. Sections[n] = "UART" /\ "UART" \in DOMAIN SectionPerms
    BY <1>3, SectionsAre DEF SectionPerms
  <2>2. First(m, "UART") \in Nat /\ First(m, "UART") = Last(m, "UART")
    BY <2>1, SectionIs, UartIs
  <2>3. k \in First(m, "UART") .. Last(m, "UART")
    BY <2>1 DEF PagesOf
  <2>4. k = First(m, "UART")
    BY <2>2, <2>3
  <2> QED
    BY <2>4
<1> QED
  BY <1>2, <1>3

(* One round of kernel_id_map_range. *)
LEMMA MapRound ==
  ASSUME NEW m \in Machines, NEW n \in 1 .. 6, NEW k \in Nat, k <= Last(m, Sections[n]),
         NEW tb, NEW p, AtMapPage(m, tb, p, n, k), NEW tb2, NEW p2, NEW err,
         T!LinkedFor(tb, p, tb2, k), Effect(tb, p, tb2, p2, k, SectionPerms[Sections[n]], err)
  PROVE  /\ err = "ERR_OK" \/ ~m.asserts => AtMapPage(m, tb2, p2, n, k + 1)
         /\ err # "ERR_OK" /\ m.asserts => Justified(m)
<1> DEFINE s == Sections[n]
           A == Tried(m, n, k)
<1>1. s \in DOMAIN SectionPerms
  BY SectionsAre
<1>2. First(m, s) \in Nat /\ Last(m, s) \in Nat
  BY <1>1, SectionIs
<1>3. First(m, s) <= k /\ Held(m, tb, p, A) /\ (Shows(tb, m, A) \/ Starved(m, tb, p))
  BY DEF AtMapPage
<1>4. k \in PagesOf(m, s)
  BY <1>2, <1>3 DEF PagesOf
<1>5. k \in T!VPages /\ k \in Kernel(m) /\ Wanted(m, k) = SectionPerms[s]
  BY <1>1, <1>4, SectionIs, WantedIs
<1>6. Tried(m, n, k + 1) = A \cup {k} /\ k \notin A
  BY <1>4, TriedOneMore
<1>7. A \cup {k} \subseteq Kernel(m)
  BY <1>5, TriedIn
<1>8. First(m, s) <= k + 1 /\ k + 1 <= Last(m, s) + 1
  BY <1>2, <1>3
<1> HIDE DEF A
<1>9. Held(m, tb2, p2, A \cup {k})
  BY <1>3, <1>5, HeldMore, EffectGrows
<1>10. Starved(m, tb, p) => Starved(m, tb2, p2)
  <2> SUFFICES ASSUME Starved(m, tb, p) PROVE Starved(m, tb2, p2)
    OBVIOUS
  <2>1. p = {} /\ ~m.asserts /\ ~T!Reaches(tb, First(m, "UART"))
    BY DEF Starved
  <2>2. p2 \subseteq p
    BY EffectGrows DEF T!Grown
  <2>3. First(m, "UART") \in Nat
    BY UartIs, VPagesNat
  <2>4. ~T!Reaches(tb2, First(m, "UART"))
    BY <2>1, <2>3, Applies, T!NoneToLink
  <2> QED
    BY <2>1, <2>2, <2>4 DEF Starved
<1>11. CASE err = "ERR_OK"
  <2>1. T!Changed(tb, p, tb2, p2, k, T!Entry(k, Wanted(m, k)))
    BY <1>5, <1>11 DEF Effect
  <2>2. Shows(tb, m, A) => Shows(tb2, m, A \cup {k})
    BY <1>5, <2>1, ShowsMore
  <2> QED
    BY <1>3, <1>6, <1>8, <1>9, <1>10, <1>11, <2>2 DEF AtMapPage
<1>12. CASE err = "ERR_PAGING_SETUP_TABLE"
  <2>1. p2 = {} /\ ~T!Reaches(tb2, k)
    BY <1>12 DEF Effect
  <2>2. Justified(m)
    <3>1. Held(m, tb2, {}, A \cup {k}) /\ A \cup {k} \subseteq Kernel(m) \cup Blob(m)
      BY <1>7, <1>9, <2>1
    <3>2. k \in Kernel(m) \cup Blob(m)
      BY <1>5
    <3> QED
      BY <2>1, <3>1, <3>2, TooFew
  <2>3. T!LinksFor(tb2, Tried(m, n, k + 1))
    BY <1>6, <1>9 DEF Held
  <2>4. ~T!Reaches(tb2, First(m, "UART"))
    BY <1>4, <2>1, <2>3, Starves
  <2>5. ~m.asserts => Starved(m, tb2, p2)
    BY <2>1, <2>4 DEF Starved
  <2> QED
    BY <1>6, <1>8, <1>9, <1>12, <2>2, <2>5 DEF AtMapPage
<1>13. CASE err = "ERR_PAGING_MAPPING_EXISTS"
  <2>1. T!At(tb, k).valid
    BY <1>13 DEF Effect
  <2>2. ~Shows(tb, m, A)
    BY <1>5, <1>6, <2>1, ShowsValid
  <2>3. Starved(m, tb, p) /\ ~m.asserts
    BY <1>3, <2>2 DEF Starved
  <2> QED
    BY <1>6, <1>8, <1>9, <1>10, <2>3 DEF AtMapPage
<1> QED
  BY <1>11, <1>12, <1>13 DEF Effect

(* One page of the blob. *)
LEMMA BlobRound ==
  ASSUME NEW m \in Machines, NEW k \in Nat, k <= BlobLast(m),
         NEW tb, NEW p, AtBlobPage(m, tb, p, k), NEW tb2, NEW p2, NEW err,
         T!LinkedFor(tb, p, tb2, k), Effect(tb, p, tb2, p2, k, {"R"}, err)
  PROVE  /\ err = "ERR_OK" => AtBlobPage(m, tb2, p2, k + 1)
         /\ err # "ERR_OK" => Justified(m)
<1> DEFINE R(j) == BlobFirst(m) .. j - 1
           A == Kernel(m) \cup R(k)
<1>1. /\ BlobFirst(m) <= k /\ Held(m, tb, p, A) /\ Shows(tb, m, A)
      /\ Kernel(m) \cap R(k) = {}
  BY DEF AtBlobPage
<1>2. BlobFirst(m) \in Nat /\ BlobLast(m) \in Nat
  BY BlobIs
<1>3. k \in Blob(m) /\ R(k) \subseteq Blob(m) /\ R(k + 1) = R(k) \cup {k} /\ k \notin R(k)
  BY <1>1, <1>2 DEF Blob
<1>4. k \in T!VPages
  BY <1>3, BlobIs
<1>5. BlobFirst(m) <= k + 1 /\ k + 1 <= BlobLast(m) + 1
  BY <1>1, <1>2
<1>6. Kernel(m) \cup R(k + 1) = A \cup {k}
  BY <1>3
<1>7. A \subseteq Kernel(m) \cup Blob(m) /\ k \in Kernel(m) \cup Blob(m)
      /\ A \cup {k} \subseteq Kernel(m) \cup Blob(m)
  BY <1>3
<1>8. k \in A => k \in Kernel(m)
  BY <1>3
<1>9. Kernel(m) \subseteq A
  OBVIOUS
<1> HIDE DEF A
<1>10. Held(m, tb2, p2, A \cup {k})
  BY <1>1, <1>4, HeldMore, EffectGrows
<1>11. CASE err = "ERR_OK"
  <2>1. ~T!At(tb, k).valid /\ T!Changed(tb, p, tb2, p2, k, T!Entry(k, {"R"}))
    BY <1>11 DEF Effect
  <2>2. k \notin Kernel(m)
    BY <1>1, <1>4, <1>9, <2>1, ShowsValid
  <2>3. Wanted(m, k) = {"R"}
    BY <2>2 DEF Wanted
  <2>4. Shows(tb2, m, A \cup {k})
    BY <1>1, <1>4, <2>1, <2>3, ShowsMore
  <2>5. Kernel(m) \cap R(k + 1) = {}
    BY <1>1, <1>3, <2>2
  <2>6. AtBlobPage(m, tb2, p2, k + 1)
    <3>1. Held(m, tb2, p2, Kernel(m) \cup R(k + 1)) /\ Shows(tb2, m, Kernel(m) \cup R(k + 1))
      BY <1>6, <1>10, <2>4
    <3> QED
      BY <1>5, <2>5, <3>1 DEF AtBlobPage
  <2> QED
    BY <1>11, <2>6
<1>12. CASE err = "ERR_PAGING_SETUP_TABLE"
  <2>1. p2 = {} /\ ~T!Reaches(tb2, k)
    BY <1>12 DEF Effect
  <2>2. Held(m, tb2, {}, A \cup {k})
    BY <1>10, <2>1
  <2>3. Justified(m)
    BY <1>7, <2>1, <2>2, TooFew
  <2> QED
    BY <1>12, <2>3
<1>13. CASE err = "ERR_PAGING_MAPPING_EXISTS"
  <2>1. T!At(tb, k).valid
    BY <1>13 DEF Effect
  <2>2. k \in A
    BY <1>1, <1>4, <2>1, ShowsValid
  <2>3. k \in Blob(m) \cap Kernel(m)
    BY <1>3, <1>8, <2>2
  <2> QED
    BY <1>13, <2>3 DEF Justified
<1> QED
  BY <1>11, <1>12, <1>13 DEF Effect

(* One page of the blob is unmapped again, which does not fail. *)
LEMMA UnmapRound ==
  ASSUME NEW m \in Machines, NEW k \in Nat, k <= BlobLast(m),
         NEW tb, NEW p, AtUnmapPage(m, tb, p, k), NEW tb2, NEW p2
  PROVE  /\ T!At(tb, k).valid
         /\ T!Changed(tb, p, tb2, p2, k, T!Zero) => AtUnmapPage(m, tb2, p2, k + 1)
<1> DEFINE R(j) == j .. BlobLast(m)
           A == Kernel(m) \cup R(k)
<1>1. BlobFirst(m) <= k /\ Shows(tb, m, A) /\ Kernel(m) \cap Blob(m) = {}
  BY DEF AtUnmapPage
<1>2. BlobFirst(m) \in Nat /\ BlobLast(m) \in Nat
  BY BlobIs
<1>3. k \in Blob(m) /\ R(k) \subseteq Blob(m) /\ R(k + 1) = R(k) \ {k} /\ k \in R(k)
  BY <1>1, <1>2 DEF Blob
<1>4. k \in T!VPages /\ k \in A /\ k \notin Kernel(m)
  BY <1>1, <1>3, BlobIs
<1>5. BlobFirst(m) <= k + 1 /\ k + 1 <= BlobLast(m) + 1
  BY <1>1, <1>2
<1>6. Kernel(m) \cup R(k + 1) = A \ {k}
  BY <1>3, <1>4
<1> HIDE DEF A
<1>7. T!At(tb, k).valid
  BY <1>1, <1>4, ShowsValid
<1>8. ASSUME T!Changed(tb, p, tb2, p2, k, T!Zero) PROVE AtUnmapPage(m, tb2, p2, k + 1)
  <2>1. Shows(tb2, m, A \ {k})
    BY <1>1, <1>4, <1>8, ShowsLess
  <2>2. T!Sound(tb2, p2)
    BY <1>8 DEF T!Changed, T!Grown
  <2>3. Shows(tb2, m, Kernel(m) \cup R(k + 1))
    BY <1>6, <2>1
  <2> QED
    BY <1>1, <1>5, <2>2, <2>3 DEF AtUnmapPage
<1> QED
  BY <1>7, <1>8

(* What a walk finds for a page that is to be mapped. *)
LEMMA ShownEntry ==
  ASSUME NEW tb, NEW m, NEW A, Shows(tb, m, A), NEW v \in T!VPages, v \in A
  PROVE  T!At(tb, v).valid /\ T!At(tb, v).ppn = v /\ T!At(tb, v).perms = Wanted(m, v)
<1>1. T!At(tb, v).valid
  BY ShowsValid
<1>2. T!Meaning(T!At(tb, v)) = Identity(v, Wanted(m, v))
  BY DEF Shows
<1>3. [ppn |-> T!At(tb, v).ppn, perms |-> T!At(tb, v).perms] = [ppn |-> v, perms |-> Wanted(m, v)]
  BY <1>1, <1>2 DEF T!Meaning, Identity
<1> QED
  BY <1>1, <1>3

(* The page of an address that a loop of assertions goes through. *)
LEMMA VerifiedPage ==
  ASSUME NEW m \in Machines, NEW s \in DOMAIN SectionPerms,
         NEW va \in m.start[s] .. m.end[s] - 1, (va - m.start[s]) % PAGE = 0
  PROVE  va \div PAGE \in PagesOf(m, s) /\ va % PAGE = 0
<1> DEFINE f == First(m, s)
           d == va - m.start[s]
           x == d \div PAGE
<1>1. m.start[s] \in Nat /\ m.end[s] \in Nat /\ PAGE \in Nat /\ PAGE > 0
  BY BootAssumption
<1>2. f \in Nat /\ Last(m, s) \in Nat /\ m.start[s] = PAGE * f
  BY SectionIs
<1>3. d \in Nat /\ va \in Nat /\ va <= m.end[s] - 1 /\ m.end[s] > 0 /\ m.end[s] - 1 \in Nat
      /\ va = PAGE * f + d
  BY <1>1, <1>2
<1> HIDE DEF f, d
<1>4. x \in Nat /\ d = PAGE * x + (d % PAGE)
  BY <1>3, PageOf
<1>5. d = PAGE * x
  BY <1>1, <1>4 DEF d
<1> HIDE DEF x
<1>6. va = PAGE * (f + x)
  BY <1>1, <1>2, <1>3, <1>4, <1>5
<1>7. va \div PAGE = f + x /\ va % PAGE = 0
  <2>1. f + x \in Nat
    BY <1>2, <1>4
  <2> QED
    BY <1>6, <2>1, AddressOf
<1>8. va \div PAGE <= (m.end[s] - 1) \div PAGE
  BY <1>1, <1>3, QuotientOrder
<1>9. f + x <= Last(m, s)
  BY <1>7, <1>8 DEF Last
<1> QED
  BY <1>2, <1>4, <1>7, <1>9 DEF PagesOf, f

-----------------------------------------------------------------------------
(* The actions keep the invariant.                                         *)
LEMMA SavedNext ==
  ASSUME BootInv, Next
  PROVE  Saved'
BY SavedKept DEF BootInv

(* An entry of a table is a word of its page. *)
LEMMA EntryIs ==
  ASSUME NEW t \in Nat, NEW i \in T!Index
  PROVE  /\ ENTRIES * t + i \in Nat /\ EntryAt(t, i) = WORD * (ENTRIES * t + i)
         /\ EntryAt(t, i) \in Nat /\ PAGE * t <= EntryAt(t, i) /\ EntryAt(t, i) < PAGE * (t + 1)
<1>1. WORD \in Int /\ WORD > 0 /\ ENTRIES \in Int /\ ENTRIES > 0 /\ PAGE = WORD * ENTRIES
  BY BootAssumption, WordAssumption
<1>2. i \in Nat /\ i < ENTRIES
  BY <1>1 DEF T!Index
<1> DEFINE x == ENTRIES * t
<1>3. x \in Nat /\ PAGE * t = WORD * x
  BY <1>1
<1>4. PAGE * (t + 1) = PAGE * t + WORD * ENTRIES
  BY <1>1
<1> HIDE DEF x
<1>5. WORD * (x + i) = WORD * x + WORD * i /\ WORD * x \in Nat /\ WORD * i \in Nat
  BY <1>1, <1>2, <1>3
<1>6. WORD * i < WORD * ENTRIES
  BY <1>1, <1>2, Multiples
<1>7. WORD * ENTRIES \in Int
  BY <1>1
<1>8. EntryAt(t, i) = WORD * x + WORD * i
  BY <1>3 DEF EntryAt
<1>9. x + i \in Nat
  BY <1>2, <1>3
<1> QED
  BY <1>3, <1>4, <1>5, <1>6, <1>7, <1>8, <1>9 DEF x

(* BSS begins at a word and has every table in it. *)
LEMMA BssIs ==
  ASSUME NEW m \in Machines
  PROVE  /\ m.start.BSS \in Nat /\ m.end.BSS \in Nat /\ m.start.BSS < m.end.BSS
         /\ \E n \in Nat : m.start.BSS = WORD * n
         /\ \A t \in T!Tables : t \in Nat /\ m.start.BSS <= PAGE * t /\ PAGE * (t + 1) <= m.end.BSS
<1>1. "BSS" \in DOMAIN SectionPerms
  BY DEF SectionPerms
<1>2. m.start["BSS"] \in Nat /\ m.end["BSS"] \in Nat /\ m.start["BSS"] < m.end["BSS"]
  BY <1>1, BootAssumption
<1> DEFINE f == First(m, "BSS")
<1>3. f \in Nat /\ m.start["BSS"] = PAGE * f
  BY <1>1, SectionIs
<1> HIDE DEF f
<1>4. WORD \in Nat /\ ENTRIES \in Nat /\ PAGE = WORD * ENTRIES
  BY BootAssumption, WordAssumption
<1>5. ENTRIES * f \in Nat /\ PAGE * f = WORD * (ENTRIES * f)
  BY <1>3, <1>4
<1>6. ASSUME NEW t \in T!Tables
      PROVE  t \in Nat /\ m.start.BSS <= PAGE * t /\ PAGE * (t + 1) <= m.end.BSS
  BY BootAssumption DEF T!Tables
<1> QED
  BY <1>2, <1>3, <1>5, <1>6

(* Zeroing the word at a clears the entries up to the next word. *)
LEMMA ClearsWord ==
  ASSUME NEW n \in Nat, NEW tb, ClearTo(tb, WORD * n), NEW new, T!Tables \subseteq Nat,
         new = [t \in T!Tables |-> [i \in T!Index |-> IF EntryAt(t, i) = WORD * n THEN T!Zero ELSE tb[t][i]]]
  PROVE  ClearTo(new, WORD * (n + 1))
<1> SUFFICES ASSUME NEW t \in T!Tables, NEW i \in T!Index, EntryAt(t, i) < WORD * (n + 1)
             PROVE  new[t][i] = T!Zero
  BY DEF ClearTo
<1> DEFINE x == ENTRIES * t + i
<1>1. x \in Nat /\ EntryAt(t, i) = WORD * x /\ WORD \in Int /\ WORD > 0
  BY EntryIs, WordAssumption
<1> HIDE DEF x
<1>2. x < n + 1
  BY <1>1, Multiples
<1>3. CASE x = n
  BY <1>1, <1>3
<1>4. CASE x < n
  <2>1. EntryAt(t, i) < WORD * n
    BY <1>1, <1>4, Multiples
  <2>2. tb[t][i] = T!Zero
    BY <2>1 DEF ClearTo
  <2> QED
    BY <2>2
<1> QED
  BY <1>1, <1>2, <1>3, <1>4

(* A round of the loop. *)
LEMMA ZeroWordInv ==
  ASSUME BootInv, ZeroWord
  PROVE  BootInv'
<1> DEFINE m == machine
           new == tab'
<1>1. Saved' /\ m \in Machines /\ machine' = m
  BY SavedNext DEF BootInv, Next, ZeroWord
<1>2. pc = "zero" /\ AtZero(m, tab, pa)
  BY DEF BootInv, ZeroWord
<1>3. PICK n \in Nat : pa = WORD * n
  BY <1>2 DEF AtZero
<1>4. /\ pa' = pa + WORD
      /\ pc' = IF pa' < m.end.BSS THEN "zero" ELSE "save"
  BY DEF ZeroWord, Goto
<1>5. tab' = [t \in P!Tables |-> [i \in P!Index |-> IF EntryAt(t, i) = pa THEN P!Zero ELSE tab[t][i]]]
  BY DEF ZeroWord, StoreZero
<1>6. new = [t \in T!Tables |-> [i \in T!Index |-> IF EntryAt(t, i) = WORD * n THEN T!Zero ELSE tab[t][i]]]
  BY <1>3, <1>5, SameTranslation, Zenon
<1>7. WORD \in Nat /\ WORD > 0
  BY WordAssumption
<1>8. pa' = WORD * (n + 1) /\ pa' \in Nat /\ n + 1 \in Nat /\ pa <= pa' /\ pa \in Nat
  BY <1>3, <1>4, <1>7
<1>9. T!Tables \subseteq Nat
  BY <1>1, BssIs
<1>10. ClearTo(new, pa')
  <2>1. ClearTo(tab, WORD * n)
    BY <1>2, <1>3 DEF AtZero
  <2> HIDE DEF new
  <2>2. ClearTo(new, WORD * (n + 1))
    BY <1>6, <1>9, <2>1, ClearsWord
  <2> QED
    BY <1>8, <2>2
<1> HIDE DEF new
<1>11. Shaped(new)
  BY <1>6 DEF Shaped
<1>12. CASE pa' < m.end.BSS
  <2>1. m.start.BSS <= pa'
    BY <1>1, <1>2, <1>8, BssIs DEF AtZero
  <2>2. AtZero(m, new, pa')
    BY <1>8, <1>10, <1>11, <1>12, <2>1 DEF AtZero
  <2>3. pc' = "zero"
    BY <1>4, <1>12
  <2> QED
    BY <1>1, <2>2, <2>3 DEF BootInv, new
<1>13. CASE ~(pa' < m.end.BSS)
  <2>1. pc' = "save"
    BY <1>4, <1>13
  <2>2. ASSUME NEW t \in T!Tables, NEW i \in T!Index PROVE new[t][i] = T!Zero
    <3>1. t \in Nat /\ PAGE * (t + 1) <= m.end.BSS /\ m.end.BSS \in Nat
      BY <1>1, BssIs
    <3>2. EntryAt(t, i) \in Nat /\ EntryAt(t, i) < PAGE * (t + 1) /\ PAGE * (t + 1) \in Int
      BY <3>1, EntryIs, BootAssumption
    <3>3. EntryAt(t, i) < pa'
      BY <1>8, <1>13, <3>1, <3>2
    <3> QED
      BY <1>10, <3>3 DEF ClearTo
  <2>3. new = [t \in T!Tables |-> [i \in T!Index |-> T!Zero]]
    BY <1>11, <2>2 DEF Shaped
  <2> QED
    BY <1>1, <2>1, <2>3 DEF BootInv, new
<1> QED
  BY <1>12, <1>13

(* start, and the first step of kinit. *)
LEMMA StartInv ==
  ASSUME BootInv, Park \/ BeginZeroing \/ SaveBase \/ InitMemory
  PROVE  BootInv'
<1>1. Saved' /\ machine \in Machines /\ machine' = machine
  BY SavedNext DEF BootInv, Next, Park, BeginZeroing, SaveBase, InitMemory
<1>2. CASE Park
  <2>1. pc' = "parked"
    BY <1>2 DEF Park, Goto
  <2> QED
    BY <1>1, <2>1 DEF BootInv
<1>3. CASE BeginZeroing
  <2> DEFINE m == machine
  <2>1. /\ m.start.BSS \in Nat /\ m.end.BSS \in Nat /\ m.start.BSS < m.end.BSS
        /\ \E n \in Nat : m.start.BSS = WORD * n
    BY <1>1, BssIs
  <2>2. pc' = "zero" /\ pa' = m.start.BSS /\ tab' = tab
    BY <1>3, <2>1 DEF BeginZeroing, Goto, pagingVars
  <2>3. Shaped(tab)
    BY <1>3 DEF BootInv, BeginZeroing
  <2>4. ClearTo(tab, m.start.BSS)
    <3> SUFFICES ASSUME NEW t \in T!Tables, NEW i \in T!Index, EntryAt(t, i) < m.start.BSS
                 PROVE  FALSE
      BY DEF ClearTo
    <3>1. t \in Nat /\ m.start.BSS <= PAGE * t
      BY <1>1, BssIs
    <3>2. PAGE * t <= EntryAt(t, i) /\ EntryAt(t, i) \in Nat /\ PAGE * t \in Int
      BY <3>1, EntryIs, BootAssumption
    <3> QED
      BY <2>1, <3>1, <3>2
  <2>5. AtZero(m, tab, m.start.BSS)
    BY <2>1, <2>3, <2>4 DEF AtZero
  <2> QED
    BY <1>1, <2>2, <2>5 DEF BootInv
<1>5. CASE SaveBase
  <2>1. pc' = "pmm" /\ pc = "save" /\ tab' = tab
    BY <1>5 DEF SaveBase, Goto, pagingVars
  <2> QED
    BY <1>1, <2>1 DEF BootInv
<1>4. CASE InitMemory
  <2> DEFINE m == machine
             f == First(m, Sections[1])
  <2>1. /\ pc' = "map" /\ pool' = m.heap /\ sec' = 1 /\ tab' = tab
        /\ pa' = AlignDown(m.start[Sections[1]])
    BY <1>4 DEF InitMemory, Goto
  <2>2. tab' = [t \in T!Tables |-> [i \in T!Index |-> T!Zero]]
    BY <1>4, <2>1 DEF BootInv, InitMemory
  <2>3. Sections[1] \in DOMAIN SectionPerms
    BY SectionsAre
  <2>4. f \in Nat /\ Last(m, Sections[1]) \in Nat /\ f <= Last(m, Sections[1]) /\ pa' = PAGE * f
    BY <1>1, <2>1, <2>3, SectionIs
  <2>5. m.heap \in SUBSET Heap
    BY <1>1, BootAssumption
  <2>6. /\ T!Sound(tab', m.heap) /\ T!Linked(tab') = {} /\ T!LinksFor(tab', {})
        /\ \A v \in T!VPages : T!Meaning(T!At(tab', v)) = T!None
    <3> DEFINE tb == tab'
    <3>1. tb = [t \in T!Tables |-> [i \in T!Index |-> T!Zero]]
      BY <2>2
    <3> HIDE DEF tb
    <3>2. /\ T!Sound(tb, m.heap) /\ T!Linked(tb) = {} /\ T!LinksFor(tb, {})
          /\ \A v \in T!VPages : T!Meaning(T!At(tb, v)) = T!None
      BY <2>5, <3>1, Applies, T!NoTables
    <3> QED
      BY <3>2 DEF tb
  <2>7. Tried(m, 1, f) = {}
    BY <1>1, TriedNone
  <2>8. Held(m, tab', m.heap, Tried(m, 1, f)) /\ Shows(tab', m, Tried(m, 1, f))
    BY <2>6, <2>7 DEF Held, Shows
  <2>9. AtMapPage(m, tab', m.heap, 1, f)
    BY <2>4, <2>8 DEF AtMapPage
  <2>10. AtMap(m, tab', m.heap, 1, pa')
    BY <2>4, <2>9 DEF AtMap
  <2> QED
    BY <1>1, <2>1, <2>10 DEF BootInv
<1> QED
  BY <1>2, <1>3, <1>4, <1>5

(* kernel_id_map_range. *)
LEMMA MapPageInv ==
  ASSUME BootInv, MapPage
  PROVE  BootInv'
<1> DEFINE m == machine
           q == SectionPerms[Sections[sec]]
<1>1. Saved' /\ m \in Machines /\ machine' = m
  BY SavedNext DEF BootInv, Next, MapPage
<1>2. sec \in 1 .. 6 /\ \E k \in Nat : pa = PAGE * k /\ AtMapPage(m, tab, pool, sec, k)
  BY DEF BootInv, MapPage, AtMap
<1>3. PICK k \in Nat : pa = PAGE * k /\ AtMapPage(m, tab, pool, sec, k)
  BY <1>2
<1>4. Sections[sec] \in DOMAIN SectionPerms
  BY <1>2, SectionsAre
<1>5. Last(m, Sections[sec]) \in Nat /\ AlignUp(m.end[Sections[sec]]) = PAGE * (Last(m, Sections[sec]) + 1)
  BY <1>1, <1>4, SectionIs
<1>6. PAGE * k < PAGE * (Last(m, Sections[sec]) + 1)
  BY <1>3, <1>5 DEF MapPage, AlignedEnd, Section
<1>7. k <= Last(m, Sections[sec])
  <2>1. PAGE \in Int /\ PAGE > 0
    BY BootAssumption
  <2>2. k < Last(m, Sections[sec]) + 1
    BY <1>5, <1>6, <2>1, Multiples
  <2> QED
    BY <1>5, <2>2
<1>8. Map(PAGE * k, q)
  BY <1>3 DEF MapPage, Section
<1>9. T!Sound(tab, pool)
  BY <1>3 DEF AtMapPage, Held
<1>10. T!LinkedFor(tab, pool, tab', k) /\ Effect(tab, pool, tab', pool', k, q, ret'.err)
  BY <1>4, <1>8, <1>9, PermsAre, MapDoes
<1>11. /\ ret'.err = "ERR_OK" \/ ~m.asserts => AtMapPage(m, tab', pool', sec, k + 1)
       /\ ret'.err # "ERR_OK" /\ m.asserts => Justified(m)
  BY <1>1, <1>2, <1>3, <1>7, <1>10, MapRound
<1>12. CASE ret'.err = "ERR_OK" \/ ~m.asserts
  <2>1. pa' = pa + PAGE /\ pc' = "map" /\ sec' = sec
    BY <1>12 DEF MapPage
  <2>2. pa' = PAGE * (k + 1) /\ k + 1 \in Nat
    <3>1. PAGE \in Nat
      BY BootAssumption
    <3> QED
      BY <1>3, <2>1, <3>1
  <2>3. AtMap(m, tab', pool', sec, pa')
    BY <1>2, <1>11, <1>12, <2>2 DEF AtMap
  <2> QED
    BY <1>1, <2>1, <2>3 DEF BootInv
<1>13. CASE ret'.err # "ERR_OK" /\ m.asserts
  <2>1. pc' = "panic"
    BY <1>13 DEF MapPage, Goto
  <2> QED
    BY <1>1, <1>11, <1>13, <2>1 DEF BootInv
<1> QED
  BY <1>12, <1>13

(* The end of a section. *)
LEMMA NextRangeInv ==
  ASSUME BootInv, NextRange
  PROVE  BootInv'
<1> DEFINE m == machine
<1>1. Saved' /\ m \in Machines /\ machine' = m /\ tab' = tab /\ pool' = pool
  BY SavedNext DEF BootInv, Next, NextRange, pagingVars
<1>2. sec \in 1 .. 6 /\ \E k \in Nat : pa = PAGE * k /\ AtMapPage(m, tab, pool, sec, k)
  BY DEF BootInv, NextRange, AtMap
<1>3. PICK k \in Nat : pa = PAGE * k /\ AtMapPage(m, tab, pool, sec, k)
  BY <1>2
<1>4. Sections[sec] \in DOMAIN SectionPerms
  BY <1>2, SectionsAre
<1>5. Last(m, Sections[sec]) \in Nat /\ AlignUp(m.end[Sections[sec]]) = PAGE * (Last(m, Sections[sec]) + 1)
  BY <1>1, <1>4, SectionIs
<1>6. PAGE * k >= PAGE * (Last(m, Sections[sec]) + 1)
  BY <1>3, <1>5 DEF NextRange, AlignedEnd, Section
<1>7. k = Last(m, Sections[sec]) + 1
  <2>1. PAGE \in Int /\ PAGE > 0
    BY BootAssumption
  <2>2. PAGE * (Last(m, Sections[sec]) + 1) <= PAGE * k
    BY <1>5, <1>6, <2>1
  <2>3. Last(m, Sections[sec]) + 1 <= k
    BY <1>5, <2>1, <2>2, Multiples
  <2>4. k <= Last(m, Sections[sec]) + 1
    BY <1>3 DEF AtMapPage
  <2> QED
    BY <1>5, <2>3, <2>4
<1>8. /\ Held(m, tab, pool, Tried(m, sec, k))
      /\ Shows(tab, m, Tried(m, sec, k)) \/ Starved(m, tab, pool)
  BY <1>3 DEF AtMapPage
<1>9. CASE sec < Len(Sections)
  <2> DEFINE n == sec + 1
  <2>1. sec' = n /\ pa' = AlignDown(m.start[Sections[n]]) /\ pc' = "map"
    BY <1>9 DEF NextRange
  <2>2. n \in 1 .. 6 /\ sec \in 1 .. 5
    BY <1>2, <1>9, SectionsAre
  <2>3. Sections[n] \in DOMAIN SectionPerms
    BY <2>2, SectionsAre
  <2>4. /\ First(m, Sections[n]) \in Nat /\ Last(m, Sections[n]) \in Nat
        /\ First(m, Sections[n]) <= Last(m, Sections[n])
        /\ AlignDown(m.start[Sections[n]]) = PAGE * First(m, Sections[n])
    BY <1>1, <2>3, SectionIs
  <2>5. Tried(m, n, First(m, Sections[n])) = Tried(m, sec, k)
    BY <1>1, <1>7, <2>2, TriedNext
  <2>6. AtMapPage(m, tab, pool, n, First(m, Sections[n]))
    BY <1>8, <2>4, <2>5 DEF AtMapPage
  <2>7. AtMap(m, tab, pool, n, pa')
    BY <2>1, <2>2, <2>4, <2>6 DEF AtMap
  <2> QED
    BY <1>1, <2>1, <2>7 DEF BootInv
<1>10. CASE ~(sec < Len(Sections))
  <2>1. pc' = "verify"
    BY <1>10 DEF NextRange, Goto
  <2>2. sec = 6
    BY <1>2, <1>10, SectionsAre
  <2>3. Tried(m, sec, k) = Kernel(m)
    BY <1>1, <1>7, <2>2, TriedAll
  <2>4. AtVerify(m, tab, pool)
    BY <1>8, <2>3 DEF AtVerify
  <2> QED
    BY <1>1, <2>1, <2>4 DEF BootInv
<1> QED
  BY <1>9, <1>10

(* The assertions do not fail on a kernel that is mapped. *)
LEMMA AssertionsHold ==
  ASSUME machine \in Machines, Shows(tab, machine, Kernel(machine))
  PROVE  \A va \in Verified : TranslatesToSelf(va)
<1> DEFINE m == machine
<1>1. ASSUME NEW s \in DOMAIN SectionPerms,
             NEW va \in m.start[s] .. m.end[s] - 1, (va - m.start[s]) % PAGE = 0
      PROVE  TranslatesToSelf(va)
  <2> DEFINE v == va \div PAGE
  <2>1. v \in PagesOf(m, s) /\ va % PAGE = 0
    BY <1>1, VerifiedPage
  <2>2. v \in Kernel(m) /\ v \in T!VPages
    BY <2>1, SectionIs, WantedIs
  <2>3. v \in Nat
    BY <2>2, VPagesNat
  <2> HIDE DEF v
  <2>4. P!Found(v).valid /\ P!Found(v).ppn = v
    BY <2>2, ShownEntry, SameTranslation
  <2>5. P!OrLowBit(v, v % 2) = v
    BY <2>3 DEF P!OrLowBit
  <2>6. P!VirtToPhys(v, va % PAGE) = <<v, 0>>
    BY <2>4, <2>5 DEF P!VirtToPhys
  <2> QED
    BY <2>1, <2>4, <2>6 DEF TranslatesToSelf, v
<1>2. ASSUME NEW va \in Verified
      PROVE  \E s \in DOMAIN SectionPerms :
               va \in m.start[s] .. m.end[s] - 1 /\ (va - m.start[s]) % PAGE = 0
  BY DEF Verified
<1> QED
  BY <1>1, <1>2

(* The loops of assertions, and the registers. *)
LEMMA VerifyInv ==
  ASSUME BootInv, VerifyAndSetRegisters
  PROVE  BootInv'
<1> DEFINE m == machine
<1>1. Saved' /\ m \in Machines /\ machine' = m /\ tab' = tab /\ pool' = pool
  BY SavedNext DEF BootInv, Next, VerifyAndSetRegisters, pagingVars
<1>2. AtVerify(m, tab, pool)
  BY DEF BootInv, VerifyAndSetRegisters
<1>3. m.asserts => Shows(tab, m, Kernel(m))
  BY <1>2 DEF AtVerify, Starved
<1>4. pc' = "sret"
  BY <1>1, <1>3, AssertionsHold DEF VerifyAndSetRegisters, Goto
<1> QED
  BY <1>1, <1>2, <1>4 DEF BootInv

(* sret: the kernel prints its first message only when the UART is mapped. *)
LEMMA EnterInv ==
  ASSUME BootInv, EnterKmain
  PROVE  BootInv'
<1> DEFINE m == machine
           u == First(m, "UART")
<1>1. Saved' /\ m \in Machines /\ machine' = m /\ tab' = tab /\ pool' = pool
  BY SavedNext DEF BootInv, Next, EnterKmain, pagingVars
<1>2. AtVerify(m, tab, pool) /\ csr.sepc = "kmain"
  BY DEF BootInv, EnterKmain, Saved
<1>3. CASE ~RunsAt
  <2>1. pc' = "trap"
    BY <1>3 DEF EnterKmain, Goto
  <2> QED
    BY <1>1, <2>1 DEF BootInv
<1>4. CASE RunsAt
  <2>1. pc' = "kmain"
    BY <1>2, <1>4 DEF EnterKmain, Goto
  <2>2. P!Found(u).valid
    BY <1>4 DEF RunsAt, Accessible, First
  <2>3. T!At(tab, u).valid
    BY <2>2, SameTranslation
  <2>4. u \in Nat
    BY <1>1, UartIs, VPagesNat
  <2>5. T!Sound(tab, pool)
    BY <1>2 DEF AtVerify, Held
  <2>6. T!Reaches(tab, u)
    BY <2>3, <2>4, <2>5, Applies, T!MappedReaches
  <2>7. AtKmain(m, tab, pool)
    BY <1>2, <2>6 DEF AtVerify, AtKmain, Starved
  <2> QED
    BY <1>1, <2>1, <2>7 DEF BootInv
<1> QED
  BY <1>3, <1>4

(* dt_initialize begins at the first page of the blob. *)
LEMMA CallInv ==
  ASSUME BootInv, CallDtInitialize
  PROVE  BootInv'
<1> DEFINE m == machine
           f == BlobFirst(m)
<1>1. Saved' /\ m \in Machines /\ machine' = m /\ tab' = tab /\ pool' = pool
  BY SavedNext DEF BootInv, Next, CallDtInitialize, pagingVars
<1>2. AtKmain(m, tab, pool) /\ dtb_base_addr = m.dtb.base
  BY DEF BootInv, CallDtInitialize, Saved
<1>3. f \in Nat /\ BlobLast(m) \in Nat /\ f <= BlobLast(m) /\ AlignDown(m.dtb.base) = PAGE * f
  BY <1>1, BlobIs
<1>4. pc' = "dtFirst" /\ pa' = PAGE * f
  BY <1>2, <1>3 DEF CallDtInitialize, DtBase, Goto
<1>5. f .. f - 1 = {}
  BY <1>3
<1>6. AtBlobPage(m, tab, pool, f)
  <2>1. Kernel(m) \cup f .. f - 1 = Kernel(m) /\ Kernel(m) \cap f .. f - 1 = {}
    BY <1>5
  <2>2. f <= f /\ f <= BlobLast(m) + 1
    BY <1>3
  <2> QED
    BY <1>2, <2>1, <2>2 DEF AtKmain, AtBlobPage
<1>7. AtBlob(m, tab, pool, pa')
  BY <1>3, <1>4, <1>6 DEF AtBlob
<1> QED
  BY <1>1, <1>4, <1>7 DEF BootInv

(* A page of the blob is mapped. *)
LEMMA DtMapInv ==
  ASSUME BootInv, DtMap
  PROVE  BootInv'
<1> DEFINE m == machine
<1>1. Saved' /\ m \in Machines /\ machine' = m /\ dtb_base_addr = m.dtb.base
  BY SavedNext DEF BootInv, Next, DtMap, Saved
<1>2. PICK k \in Nat : pa = PAGE * k /\ AtBlobPage(m, tab, pool, k)
  BY DEF BootInv, DtMap, AtBlob
<1>3. k <= BlobLast(m)
  <2>1. \A j \in Nat : PAGE * j < m.dtb.base + m.dtb.size <=> j <= BlobLast(m)
    BY <1>1, BlobIs
  <2>2. CASE pc = "dtFirst"
    <3>1. PAGE * k = PAGE * BlobFirst(m)
      BY <1>2, <2>2 DEF BootInv
    <3>2. BlobFirst(m) \in Nat /\ BlobFirst(m) <= BlobLast(m)
      BY <1>1, BlobIs
    <3>3. (PAGE * k) \div PAGE = k /\ (PAGE * BlobFirst(m)) \div PAGE = BlobFirst(m)
      BY <3>2, AddressOf
    <3>4. k = BlobFirst(m)
      BY <3>1, <3>3
    <3> QED
      BY <3>2, <3>4
  <2>3. CASE pc # "dtFirst"
    BY <1>1, <1>2, <2>1, <2>3 DEF DtMap, DtEnd
  <2> QED
    BY <2>2, <2>3
<1>4. Map(PAGE * k, {"R"})
  BY <1>2 DEF DtMap
<1>5. T!Sound(tab, pool)
  BY <1>2 DEF AtBlobPage, Held
<1>6. T!LinkedFor(tab, pool, tab', k) /\ Effect(tab, pool, tab', pool', k, {"R"}, ret'.err)
  BY <1>4, <1>5, PermsAre, MapDoes
<1>7. /\ ret'.err = "ERR_OK" => AtBlobPage(m, tab', pool', k + 1)
      /\ ret'.err # "ERR_OK" => Justified(m)
  BY <1>1, <1>2, <1>3, <1>6, BlobRound
<1>8. CASE pc' = "dtRest"
  <2>1. ret'.err = "ERR_OK" /\ pa' = pa + PAGE
    BY <1>8 DEF DtMap, Goto
  <2>2. pa' = PAGE * (k + 1) /\ k + 1 \in Nat
    <3>1. PAGE \in Nat
      BY BootAssumption
    <3> QED
      BY <1>2, <2>1, <3>1
  <2>3. AtBlob(m, tab', pool', pa')
    BY <1>7, <2>1, <2>2 DEF AtBlob
  <2> QED
    BY <1>1, <1>8, <2>3 DEF BootInv
<1>9. CASE pc' = "refused"
  BY <1>1, <1>9 DEF BootInv
<1>10. CASE pc' = "panic" /\ ret'.err # "ERR_OK"
  BY <1>1, <1>7, <1>10 DEF BootInv
<1> QED
  BY <1>8, <1>9, <1>10 DEF DtMap, Goto

(* The blob is parsed, with pages of the early heap. *)
LEMMA DtParseInv ==
  ASSUME BootInv, DtParse
  PROVE  BootInv'
<1> DEFINE m == machine
           f == BlobFirst(m)
           l == BlobLast(m)
<1>1. Saved' /\ m \in Machines /\ machine' = m /\ tab' = tab /\ dtb_base_addr = m.dtb.base
  BY SavedNext DEF BootInv, Next, DtParse, Saved
<1>2. PICK k \in Nat : pa = PAGE * k /\ AtBlobPage(m, tab, pool, k)
  BY DEF BootInv, DtParse, AtBlob
<1>3. f \in Nat /\ l \in Nat /\ f <= l /\ AlignDown(m.dtb.base) = PAGE * f
  BY <1>1, BlobIs
<1>4. k = l + 1
  <2>1. PAGE * k < m.dtb.base + m.dtb.size <=> k <= l
    BY <1>1, BlobIs
  <2>2. pa >= m.dtb.base + m.dtb.size
    BY <1>1 DEF DtParse, DtEnd
  <2>3. PAGE * k \in Nat /\ m.dtb.base + m.dtb.size \in Nat
    BY <1>1, AddressOf, BootAssumption
  <2>4. ~(k <= l)
    BY <1>2, <2>1, <2>2, <2>3
  <2>5. k <= l + 1
    BY <1>2 DEF AtBlobPage
  <2> QED
    BY <1>3, <2>4, <2>5
<1>5. f .. k - 1 = f .. l
  BY <1>3, <1>4
<1>6. /\ T!Sound(tab, pool) /\ Shows(tab, m, Kernel(m) \cup f .. l)
      /\ Kernel(m) \cap Blob(m) = {}
  <2>1. /\ T!Sound(tab, pool) /\ Shows(tab, m, Kernel(m) \cup f .. k - 1)
        /\ Kernel(m) \cap f .. k - 1 = {}
    BY <1>2 DEF AtBlobPage, Held
  <2> QED
    BY <1>5, <2>1 DEF Blob
<1>7. pool' \subseteq pool
  BY DEF DtParse
<1>8. T!Sound(tab, pool')
  <2> DEFINE p2 == pool'
  <2>1. p2 \in SUBSET pool
    BY <1>7
  <2> HIDE DEF p2
  <2>2. T!Sound(tab, p2)
    BY <1>6, <2>1, Applies, T!SoundLess
  <2> QED
    BY <2>2 DEF p2
<1>9. CASE pc' = "dtUnmap"
  <2>1. pa' = PAGE * f
    BY <1>1, <1>3, <1>9 DEF DtParse, Goto, DtBase
  <2>2. f <= f /\ f <= l + 1
    BY <1>3
  <2>3. AtUnmapPage(m, tab, pool', f)
    BY <1>6, <1>8, <2>2 DEF AtUnmapPage
  <2>4. AtUnmap(m, tab, pool', pa')
    BY <1>3, <2>1, <2>3 DEF AtUnmap
  <2> QED
    BY <1>1, <1>9, <2>4 DEF BootInv
<1>10. CASE pc' \in {"refused", "trap"}
  BY <1>1, <1>10 DEF BootInv
<1> QED
  BY <1>9, <1>10 DEF DtParse, Goto

(* A page of the blob is unmapped. *)
LEMMA DtUnmapInv ==
  ASSUME BootInv, DtUnmap
  PROVE  BootInv'
<1> DEFINE m == machine
<1>1. Saved' /\ m \in Machines /\ machine' = m /\ dtb_base_addr = m.dtb.base
  BY SavedNext DEF BootInv, Next, DtUnmap, Saved
<1>2. PICK k \in Nat : pa = PAGE * k /\ AtUnmapPage(m, tab, pool, k)
  BY DEF BootInv, DtUnmap, AtUnmap
<1>3. k <= BlobLast(m)
  <2>1. PAGE * k < m.dtb.base + m.dtb.size <=> k <= BlobLast(m)
    BY <1>1, BlobIs
  <2> QED
    BY <1>1, <1>2, <2>1 DEF DtUnmap, DtEnd
<1>4. P!Unmap([page |-> (PAGE * k) \div PAGE, off |-> (PAGE * k) % PAGE])
  BY <1>2 DEF DtUnmap
<1>5. T!Sound(tab, pool)
  BY <1>2 DEF AtUnmapPage
<1>6. T!At(tab, k).valid
  BY <1>1, <1>2, <1>3, UnmapRound
<1>7. ret'.err = "ERR_OK" /\ T!Changed(tab, pool, tab', pool', k, T!Zero)
  BY <1>4, <1>5, <1>6, UnmapDoes
<1>8. AtUnmapPage(m, tab', pool', k + 1)
  BY <1>1, <1>2, <1>3, <1>7, UnmapRound
<1>9. pc' = "dtUnmap" /\ pa' = pa + PAGE
  BY <1>7 DEF DtUnmap
<1>10. pa' = PAGE * (k + 1) /\ k + 1 \in Nat
  <2>1. PAGE \in Nat
    BY BootAssumption
  <2> QED
    BY <1>2, <1>9, <2>1
<1>11. AtUnmap(m, tab', pool', pa')
  BY <1>8, <1>10 DEF AtUnmap
<1> QED
  BY <1>1, <1>9, <1>11 DEF BootInv

(* dt_initialize returns: no page of the blob is left. *)
LEMMA DtReturnsInv ==
  ASSUME BootInv, DtReturns
  PROVE  BootInv'
<1> DEFINE m == machine
           l == BlobLast(m)
<1>1. Saved' /\ m \in Machines /\ machine' = m /\ tab' = tab /\ pool' = pool /\ dtb_base_addr = m.dtb.base
  BY SavedNext DEF BootInv, Next, DtReturns, Saved, pagingVars
<1>2. PICK k \in Nat : pa = PAGE * k /\ AtUnmapPage(m, tab, pool, k)
  BY DEF BootInv, DtReturns, AtUnmap
<1>3. l \in Nat
  BY <1>1, BlobIs
<1>4. ~(k <= l)
  <2>1. PAGE * k < m.dtb.base + m.dtb.size <=> k <= l
    BY <1>1, BlobIs
  <2>2. pa >= m.dtb.base + m.dtb.size
    BY <1>1 DEF DtReturns, DtEnd
  <2>3. PAGE * k \in Nat /\ m.dtb.base + m.dtb.size \in Nat
    BY <1>1, AddressOf, BootAssumption
  <2> QED
    BY <1>2, <2>1, <2>2, <2>3
<1>5. k .. l = {}
  BY <1>3, <1>4
<1>6. Kernel(m) \cup k .. l = Kernel(m)
  BY <1>5
<1>7. AtLoop(m, tab, pool)
  BY <1>2, <1>6 DEF AtUnmapPage, AtLoop
<1>8. pc' = "loop"
  BY DEF DtReturns, Goto
<1> QED
  BY <1>1, <1>7, <1>8 DEF BootInv

(* The invariant is kept. *)
LEMMA BootKept ==
  ASSUME BootInv, [Next]_vars
  PROVE  BootInv'
<1>0. CASE ZeroWord
  BY <1>0, ZeroWordInv
<1>1. CASE Park \/ BeginZeroing \/ SaveBase \/ InitMemory
  BY <1>1, StartInv
<1>2. CASE MapPage
  BY <1>2, MapPageInv
<1>3. CASE NextRange
  BY <1>3, NextRangeInv
<1>4. CASE VerifyAndSetRegisters
  BY <1>4, VerifyInv
<1>5. CASE EnterKmain
  BY <1>5, EnterInv
<1>6. CASE CallDtInitialize
  BY <1>6, CallInv
<1>7. CASE DtMap
  BY <1>7, DtMapInv
<1>8. CASE DtParse
  BY <1>8, DtParseInv
<1>9. CASE DtUnmap
  BY <1>9, DtUnmapInv
<1>10. CASE DtReturns
  BY <1>10, DtReturnsInv
<1>11. CASE Idle \/ UNCHANGED vars
  <2>1. UNCHANGED <<machine, pc, dtb_base_addr, sec, pa, csr, tab, pool, ret>>
    BY <1>11 DEF Idle, vars, pagingVars
  <2>2. Saved' <=> Saved
    BY <2>1 DEF Saved
  <2> QED
    BY <2>1, <2>2 DEF BootInv
<1> QED
  BY <1>0, <1>1, <1>2, <1>3, <1>4, <1>5, <1>6, <1>7, <1>8, <1>9, <1>10, <1>11 DEF Next

(* It holds at reset. *)
LEMMA BootBegins == Init => BootInv
<1> SUFFICES ASSUME Init PROVE BootInv
  OBVIOUS
<1>1. machine \in Machines /\ pc = "start" /\ Saved
  BY DEF Init, Saved, Places, Settled, Supervisor
<1>2. tab = [t \in T!Tables |-> [i \in T!Index |-> Garbage]]
  BY SameTranslation, Zenon DEF Init
<1>3. Shaped(tab)
  BY <1>2 DEF Shaped
<1> QED
  BY <1>1, <1>3 DEF BootInv

-----------------------------------------------------------------------------
(* What the invariant says of the properties.                              *)
LEMMA PagesAre ==
  ASSUME machine \in Machines
  PROVE  /\ \A s \in DOMAIN SectionPerms : SectionPages(s) = PagesOf(machine, s)
         /\ KernelPages = Kernel(machine) /\ BlobPages = Blob(machine)
<1>1. ASSUME NEW s \in DOMAIN SectionPerms PROVE SectionPages(s) = PagesOf(machine, s)
  BY SectionIs DEF SectionPages
<1>2. KernelPages = Kernel(machine)
  <2>1. ASSUME NEW v PROVE v \in KernelPages <=> v \in Kernel(machine)
    <3>1. v \in KernelPages <=> \E s \in DOMAIN SectionPerms : v \in SectionPages(s)
      BY DEF KernelPages
    <3>2. v \in Kernel(machine) <=> \E s \in DOMAIN SectionPerms : v \in PagesOf(machine, s)
      BY DEF Kernel
    <3> QED
      BY <1>1, <3>1, <3>2
  <2> QED
    BY <2>1
<1>3. BlobPages = Blob(machine)
  BY BlobIs DEF BlobPages
<1> QED
  BY <1>1, <1>2, <1>3

(* In supervisor mode the tables show the kernel and what is mapped of the *)
(* blob.                                                                   *)
LEMMA SupervisorSpace ==
  ASSUME BootInv, pc \in Supervisor
  PROVE  /\ T!Sound(tab, pool) /\ Shows(tab, machine, Kernel(machine) \cup BlobMapped)
         /\ BlobMapped \subseteq Blob(machine) /\ Kernel(machine) \cap BlobMapped = {}
<1> DEFINE m == machine
           f == BlobFirst(m)
           l == BlobLast(m)
<1>1. m \in Machines /\ BlobPages = Blob(m)
  BY PagesAre DEF BootInv
<1>2. f \in Nat /\ l \in Nat /\ PAGE \in Int /\ PAGE > 0
  BY <1>1, BlobIs, BootAssumption
<1>3. CASE pc \in {"kmain", "loop"}
  <2>1. BlobMapped = {}
    BY <1>3 DEF BlobMapped
  <2>2. T!Sound(tab, pool) /\ Shows(tab, m, Kernel(m))
    BY <1>3 DEF BootInv, AtKmain, AtLoop, Held
  <2>3. Kernel(m) \cup {} = Kernel(m)
    OBVIOUS
  <2> QED
    BY <2>1, <2>2, <2>3
<1>4. CASE pc \in {"dtFirst", "dtRest"}
  <2>1. PICK k \in Nat : pa = PAGE * k /\ AtBlobPage(m, tab, pool, k)
    BY <1>4 DEF BootInv, AtBlob
  <2>2. BlobMapped = {v \in Blob(m) : PAGE * v < pa}
    BY <1>1, <1>4 DEF BlobMapped
  <2>3. f <= k /\ k <= l + 1
    BY <2>1 DEF AtBlobPage
  <2>4. \A v \in Blob(m) : PAGE * v < PAGE * k <=> v < k
    BY <1>2, Multiples DEF Blob
  <2>5. BlobMapped = {v \in Blob(m) : v < k}
    BY <2>1, <2>2, <2>4
  <2>6. BlobMapped = f .. k - 1
    BY <1>2, <2>3, <2>5 DEF Blob
  <2> QED
    BY <2>1, <2>5, <2>6 DEF AtBlobPage, Held
<1>5. CASE pc = "dtUnmap"
  <2>1. PICK k \in Nat : pa = PAGE * k /\ AtUnmapPage(m, tab, pool, k)
    BY <1>5 DEF BootInv, AtUnmap
  <2>2. BlobMapped = {v \in Blob(m) : PAGE * v >= pa}
    BY <1>1, <1>5 DEF BlobMapped
  <2>3. f <= k /\ k <= l + 1
    BY <2>1 DEF AtUnmapPage
  <2>4. \A v \in Blob(m) : PAGE * v >= PAGE * k <=> v >= k
    <3>1. ASSUME NEW v \in Blob(m) PROVE PAGE * v >= PAGE * k <=> v >= k
      <4>1. v \in Int /\ k \in Int /\ PAGE * v \in Int /\ PAGE * k \in Int
        BY <1>2 DEF Blob
      <4>2. PAGE * k <= PAGE * v <=> k <= v
        BY <1>2, <4>1, Multiples
      <4> QED
        BY <4>1, <4>2
    <3> QED
      BY <3>1
  <2>5. BlobMapped = {v \in Blob(m) : v >= k}
    BY <2>1, <2>2, <2>4
  <2>6. BlobMapped = k .. l
    BY <1>2, <2>3, <2>5 DEF Blob
  <2>7. BlobMapped \subseteq Blob(m)
    BY <2>5
  <2> QED
    BY <2>1, <2>6, <2>7 DEF AtUnmapPage
<1> QED
  BY <1>3, <1>4, <1>5 DEF Supervisor

(* The address space is the one that kinit means to build. *)
LEMMA InvExact == BootInv => SpaceExact
<1> SUFFICES ASSUME BootInv, pc \in Supervisor
             PROVE  /\ \A s \in DOMAIN SectionPerms : \A v \in SectionPages(s) :
                         P!Translation(v) = Identity(v, SectionPerms[s])
                    /\ \A v \in BlobMapped : P!Translation(v) = Identity(v, {"R"})
                    /\ \A v \in P!VPages \ (KernelPages \cup BlobMapped) : P!Translation(v) = P!None
  BY DEF SpaceExact
<1> DEFINE m == machine
           A == Kernel(m) \cup BlobMapped
<1>1. m \in Machines
  BY DEF BootInv
<1>2. /\ Shows(tab, m, A) /\ BlobMapped \subseteq Blob(m) /\ Kernel(m) \cap BlobMapped = {}
  BY SupervisorSpace
<1>3. \A v \in T!VPages :
        P!Translation(v) = IF v \in A THEN Identity(v, Wanted(m, v)) ELSE P!None
  BY <1>2, SameTranslation DEF Shows
<1>4. ASSUME NEW s \in DOMAIN SectionPerms, NEW v \in SectionPages(s)
      PROVE  P!Translation(v) = Identity(v, SectionPerms[s])
  <2>1. v \in PagesOf(m, s)
    BY <1>1, PagesAre
  <2>2. v \in T!VPages /\ v \in Kernel(m) /\ Wanted(m, v) = SectionPerms[s]
    BY <1>1, <2>1, SectionIs, WantedIs
  <2> QED
    BY <1>3, <2>2
<1>5. ASSUME NEW v \in BlobMapped
      PROVE  P!Translation(v) = Identity(v, {"R"})
  <2>1. v \in T!VPages
    BY <1>1, <1>2, BlobIs
  <2>2. Wanted(m, v) = {"R"}
    BY <1>2 DEF Wanted
  <2> QED
    BY <1>3, <2>1, <2>2
<1>6. ASSUME NEW v \in P!VPages \ (KernelPages \cup BlobMapped)
      PROVE  P!Translation(v) = P!None
  <2>1. v \in T!VPages /\ v \notin A
    BY <1>1, PagesAre, SameTranslation
  <2> QED
    BY <1>3, <2>1
<1> QED
  BY <1>4, <1>5, <1>6

(* A page of a table is a page of the section that holds the tables. *)
LEMMA TableInBss ==
  ASSUME NEW m \in Machines, NEW t \in Heap \cup {ROOT}
  PROVE  t \in PagesOf(m, "BSS") /\ "BSS" \in DOMAIN SectionPerms
<1>1. "BSS" \in DOMAIN SectionPerms
  BY DEF SectionPerms
<1>2. t \in Nat /\ PAGE \in Nat /\ PAGE > 0
  BY BootAssumption
<1>3. m.start.BSS <= PAGE * t /\ PAGE * (t + 1) <= m.end.BSS /\ m.end.BSS \in Nat
  BY <1>1, BootAssumption
<1>4. First(m, "BSS") \in Nat /\ Last(m, "BSS") \in Nat /\ m.start.BSS = PAGE * First(m, "BSS")
  BY <1>1, SectionIs
<1>5. First(m, "BSS") <= t
  BY <1>2, <1>3, <1>4, Multiples
<1>6. PAGE * t < m.end.BSS /\ m.end.BSS > 0
  <2>1. PAGE * (t + 1) = PAGE * t + PAGE /\ PAGE * t \in Nat
    BY <1>2
  <2> HIDE DEF First
  <2> QED
    BY <1>2, <1>3, <2>1
<1>7. t <= Last(m, "BSS")
  BY <1>2, <1>3, <1>6, EndOf DEF Last
<1> QED
  BY <1>1, <1>2, <1>4, <1>5, <1>7 DEF PagesOf

(* The tables can be written, and nothing can be written and executed. *)
LEMMA InvWritable == BootInv => TablesWritable
<1> SUFFICES ASSUME BootInv, pc \in Supervisor
             PROVE  /\ \A t \in Heap \cup {ROOT} : P!Translation(t) = Identity(t, {"R", "W"})
                    /\ \A v \in P!VPages : ~({"W", "X"} \subseteq P!Found(v).perms)
  BY DEF TablesWritable
<1> DEFINE m == machine
           A == Kernel(m) \cup BlobMapped
<1>1. m \in Machines
  BY DEF BootInv
<1>2. T!Sound(tab, pool) /\ Shows(tab, m, A) /\ Kernel(m) \cap BlobMapped = {}
  BY SupervisorSpace
<1>3. ASSUME NEW t \in Heap \cup {ROOT} PROVE P!Translation(t) = Identity(t, {"R", "W"})
  <2>1. t \in SectionPages("BSS") /\ "BSS" \in DOMAIN SectionPerms
    BY <1>1, TableInBss, PagesAre
  <2>2. P!Translation(t) = Identity(t, SectionPerms["BSS"])
    BY <2>1, InvExact DEF SpaceExact
  <2>3. SectionPerms["BSS"] = {"R", "W"}
    BY DEF SectionPerms
  <2> QED
    BY <2>2, <2>3
<1>4. ASSUME NEW v \in P!VPages PROVE ~({"W", "X"} \subseteq P!Found(v).perms)
  <2>1. v \in T!VPages /\ v \in Nat /\ P!Found(v) = T!At(tab, v)
    BY SameTranslation, VPagesNat
  <2> HIDE DEF A
  <2>2. CASE v \notin A
    <3>1. ~T!At(tab, v).valid
      BY <1>2, <2>1, <2>2, ShowsValid
    <3>2. T!At(tab, v) = T!Zero
      BY <1>2, <2>1, <3>1, Applies, T!NothingIsZero
    <3>3. T!Zero.perms = {}
      BY DEF T!Zero
    <3> QED
      BY <2>1, <3>2, <3>3
  <2>3. CASE v \in Kernel(m)
    <3>1. PICK s \in DOMAIN SectionPerms : v \in PagesOf(m, s)
      BY <2>3 DEF Kernel
    <3>2. v \in A
      BY <2>3 DEF A
    <3>3. T!At(tab, v).perms = SectionPerms[s]
      BY <1>1, <1>2, <2>1, <3>1, <3>2, WantedIs, ShownEntry
    <3> QED
      BY <2>1, <3>3, PermsAre
  <2>4. CASE v \in A /\ v \notin Kernel(m)
    <3>1. T!At(tab, v).perms = {"R"}
      BY <1>2, <2>1, <2>4, ShownEntry DEF Wanted
    <3> QED
      BY <2>1, <3>1
  <2> QED
    BY <2>2, <2>3, <2>4
<1> QED
  BY <1>3, <1>4

(* A panic has one of the two reasons. *)
LEMMA InvJustified == BootInv => PanicJustified
<1> SUFFICES ASSUME BootInv, pc = "panic"
             PROVE  \/ TablesFor(KernelPages \cup BlobPages) > Cardinality(machine.heap)
                    \/ BlobPages \cap KernelPages # {}
  BY DEF PanicJustified
<1>1. Justified(machine) /\ machine \in Machines
  BY DEF BootInv
<1>2. KernelPages = Kernel(machine) /\ BlobPages = Blob(machine)
  BY <1>1, PagesAre
<1> QED
  BY <1>1, <1>2 DEF Justified

(* What start has written, and leaves to kinit. *)
LEMMA InvReady == BootInv => BssReady
<1> SUFFICES ASSUME BootInv PROVE BssReady
  OBVIOUS
<1> DEFINE m == machine
<1>1. m \in Machines
  BY DEF BootInv
<1>2. ASSUME pc = "zero", NEW a \in pa .. pa + WORD - 1 PROVE a \div PAGE \in SectionPages("BSS")
  <2>1. AtZero(m, tab, pa)
    BY <1>2 DEF BootInv
  <2>2. PICK n \in Nat : pa = WORD * n
    BY <2>1 DEF AtZero
  <2>3. /\ WORD \in Nat /\ WORD > 0 /\ ENTRIES \in Nat /\ ENTRIES > 0 /\ PAGE = WORD * ENTRIES
        /\ PAGE \in Nat /\ PAGE > 0
    BY BootAssumption, WordAssumption
  <2>4. m.start.BSS \in Nat /\ m.end.BSS \in Nat /\ m.start.BSS <= pa /\ pa <= m.end.BSS - 1 /\ pa \in Nat
    BY <1>1, <2>1, BssIs DEF AtZero
  <2> DEFINE q == n \div ENTRIES
             j == n % ENTRIES
             d == a - pa
  <2>5. q \in Nat /\ j \in Nat /\ j < ENTRIES /\ n = ENTRIES * q + j
    BY <2>3
  <2>6. d \in Nat /\ d < WORD /\ a = pa + d /\ a \in Nat
    BY <1>2, <2>3, <2>4
  <2> HIDE DEF q, j, d
  <2>7. pa = PAGE * q + WORD * j
    BY <2>2, <2>3, <2>5
  <2>8. WORD * (j + 1) <= PAGE /\ WORD * (j + 1) = WORD * j + WORD /\ WORD * j \in Nat
    BY <2>3, <2>5, Multiples
  <2> DEFINE w == WORD * j
  <2>9. pa = PAGE * q + w /\ w \in Nat /\ w + WORD <= PAGE
    BY <2>7, <2>8
  <2> HIDE DEF w
  <2>10. pa \div PAGE = q
    BY <2>3, <2>4, <2>5, <2>9, Quotient
  <2>11. a \div PAGE = q
    <3> DEFINE u == w + d
    <3>1. u \in Int /\ 0 <= u /\ u < PAGE /\ a = PAGE * q + u
      BY <2>3, <2>5, <2>6, <2>9
    <3> HIDE DEF u
    <3> QED
      BY <2>3, <2>5, <2>6, <3>1, Quotient
  <2>12. First(m, "BSS") <= q /\ q <= Last(m, "BSS")
    <3>1. m.end.BSS - 1 \in Nat
      BY <2>4
    <3>2. m.start.BSS \div PAGE <= pa \div PAGE /\ pa \div PAGE <= (m.end.BSS - 1) \div PAGE
      BY <2>3, <2>4, <3>1, QuotientOrder
    <3> QED
      BY <2>10, <3>2 DEF First, Last
  <2>13. "BSS" \in DOMAIN SectionPerms
    BY DEF SectionPerms
  <2>14. SectionPages("BSS") = First(m, "BSS") .. Last(m, "BSS")
    BY <1>1, <2>13, PagesAre DEF PagesOf
  <2>15. First(m, "BSS") \in Nat /\ Last(m, "BSS") \in Nat
    BY <1>1, <2>13, SectionIs
  <2> QED
    BY <2>5, <2>11, <2>12, <2>14, <2>15
<1>3. ASSUME pc = "pmm" PROVE \A t \in P!Tables : \A i \in P!Index : tab[t][i] = P!Zero
  <2>1. tab = [t \in T!Tables |-> [i \in T!Index |-> T!Zero]]
    BY <1>3 DEF BootInv
  <2>2. tab = [t \in P!Tables |-> [i \in P!Index |-> P!Zero]]
    BY <2>1, SameTranslation, Zenon
  <2> QED
    BY <2>2
<1>4. pc \notin {"start", "parked", "zero", "save"} => dtb_base_addr = m.dtb.base
  BY DEF BootInv, Saved
<1> QED
  BY <1>2, <1>3, <1>4 DEF BssReady

(* start, kernel_id_map_range, the loops of assertions and the loops of    *)
(* dt_initialize keep the invariant, on every machine with every image.    *)
THEOREM BootInvariant == Spec => []BootInv
BY BootBegins, BootKept, PTL DEF Spec

(* start hands kinit a root table and an early heap that are zero, and the *)
(* address of the blob, whatever was in memory; and its loop writes into   *)
(* no page but those of BSS, at whatever address the section ends.         *)
THEOREM BssIsReady == Spec => []BssReady
BY BootInvariant, InvReady, PTL

(* From its first message on the kernel runs in exactly the address space  *)
(* that kinit means to build, also in a build without assertions, where a  *)
(* mapping that failed is passed over: each section with its permissions,  *)
(* the blob while dt_initialize runs, nothing else.                        *)
THEOREM SpaceIsExact == Spec => []SpaceExact
BY BootInvariant, InvExact, PTL

(* The kernel can write its tables and the pages that may become tables,   *)
(* and can execute nothing that it can write.                              *)
THEOREM TablesAreWritable == Spec => []TablesWritable
BY BootInvariant, InvWritable, PTL

(* kinit and dt_initialize come to a panic for want of a mapping only when *)
(* the early heap has fewer pages than tables are needed, or the blob lies *)
(* in a page of the kernel.                                                *)
THEOREM PanicIsJustified == Spec => []PanicJustified
BY BootInvariant, InvJustified, PTL
=============================================================================
