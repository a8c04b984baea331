----------------------------- MODULE SlabProofs -----------------------------
(***************************************************************************)
(* The slab allocator keeps its blocks apart, for every block size and all *)
(* buffers whose words are not shared, and behaves like a pool of blocks.  *)
(*                                                                         *)
(* What the walks along the lists of memory compute is proved by looking   *)
(* at the least place where it would be wrong.  The facts are stated for   *)
(* any contents m of memory, so that they apply before and after a step.   *)
(***************************************************************************)
EXTENDS Slab, FiniteSetTheorems, TLAPS

(* A set of numbers has a least one. *)
LEMMA LeastNat ==
  ASSUME NEW S \in SUBSET Nat, S # {}
  PROVE  \E n \in S : \A k \in S : n <= k
<1> DEFINE R == {ss \in Nat \X Nat : ss[1] < ss[2]}
<1>1. IsWellFoundedOn(OpToRel(<, Nat), Nat)
  BY NatLessThanWellFounded
<1>2. OpToRel(<, Nat) = R
  BY DEF OpToRel
<1>3. IsWellFoundedOn(R, Nat)
  BY <1>1, <1>2
<1> HIDE DEF R
<1>4. PICK n \in S : \A k \in S : <<k, n>> \notin R
  BY <1>3, WFMin
<1>5. \A k \in S : ~(k < n)
  BY <1>4 DEF R
<1> QED
  BY <1>5

-----------------------------------------------------------------------------
(* The nodes of a list in memory m that begins at address first.           *)
NodeStep(m, first, g, n) ==
  g = [k \in 0 .. n |-> IF k = 0 THEN first
                        ELSE IF g[k - 1] \in Addr THEN m[g[k - 1]] ELSE g[k - 1]]

NodeIn(m, first, n) ==
  LET node[k \in 0 .. n] ==
        IF k = 0 THEN first
        ELSE IF node[k - 1] \in Addr THEN m[node[k - 1]] ELSE node[k - 1]
  IN node[n]

Avail(m, r) == {NodeIn(m, m[BlocksAt(r)], k) : k \in 0 .. m[FreeAt(r)] - 1}

(* They are the ones of the model. *)
LEMMA AvailableIs == \A r : Available(r) = Avail(mem, r)
<1>1. \A r, n : Node(r, n) = NodeIn(mem, mem[BlocksAt(r)], n)
  BY Zenon DEF Node, NodeIn
<1> QED
  BY <1>1 DEF Available, Avail

(* The recursion has a solution, when one is known. *)
LEMMA NodeDef ==
  ASSUME NEW m, NEW first, NEW n, NEW h, NodeStep(m, first, h, n)
  PROVE  \E g : NodeStep(m, first, g, n) /\ NodeIn(m, first, n) = g[n]
<1> DEFINE g == CHOOSE g : NodeStep(m, first, g, n)
<1>1. NodeStep(m, first, g, n)
  OBVIOUS
<1>2. NodeIn(m, first, n) = g[n]
  BY Zenon DEF NodeIn, NodeStep
<1> QED
  BY <1>1, <1>2

(* The first n nodes of the list, as the function f of their numbers: they *)
(* are different addresses.                                                *)
Chain(m, first, n, f) ==
  /\ n \in Nat /\ f \in [0 .. n - 1 -> Addr]
  /\ \A i, j \in 0 .. n - 1 : f[i] = f[j] => i = j
  /\ n # 0 => f[0] = first
  /\ \A k \in 1 .. n - 1 : f[k] = m[f[k - 1]]

(* The walk along the list visits exactly them. *)
LEMMA ChainNode ==
  ASSUME NEW m, NEW first, NEW n, NEW f, Chain(m, first, n, f), NEW k \in 0 .. n - 1
  PROVE  NodeIn(m, first, k) = f[k]
<1> DEFINE h == [i \in 0 .. k |-> f[i]]
<1>1. n \in Nat /\ n # 0 /\ k \in Nat /\ f[0] = first /\ \A i \in 0 .. k : f[i] \in Addr
  BY DEF Chain
<1>2. \A i \in 1 .. k : f[i] = m[f[i - 1]]
  BY DEF Chain
<1>3. ASSUME NEW i \in 0 .. k
      PROVE  h[i] = IF i = 0 THEN first
                    ELSE IF h[i - 1] \in Addr THEN m[h[i - 1]] ELSE h[i - 1]
  <2>1. CASE i = 0
    BY <1>1, <2>1
  <2>2. CASE i # 0
    <3>1. i - 1 \in 0 .. k /\ i \in 1 .. k
      BY <1>1, <2>2
    <3> QED
      BY <1>1, <1>2, <2>2, <3>1
  <2> QED
    BY <2>1, <2>2
<1>4. NodeStep(m, first, h, k)
  BY <1>3, Zenon DEF NodeStep
<1> HIDE DEF h
<1>5. PICK g : NodeStep(m, first, g, k) /\ NodeIn(m, first, k) = g[k]
  BY <1>4, NodeDef
<1>6. \A i \in 0 .. k : g[i] = IF i = 0 THEN first
                               ELSE IF g[i - 1] \in Addr THEN m[g[i - 1]] ELSE g[i - 1]
  BY <1>5 DEF NodeStep
<1> DEFINE Wrong == {i \in 0 .. k : g[i] # f[i]}
<1>7. ASSUME Wrong # {} PROVE FALSE
  <2>1. Wrong \in SUBSET Nat
    BY <1>1
  <2>2. PICK i \in Wrong : \A j \in Wrong : i <= j
    <3> HIDE DEF Wrong
    <3> QED
      BY <1>7, <2>1, LeastNat
  <2>3. i \in 0 .. k /\ g[i] # f[i]
    OBVIOUS
  <2>4. i # 0
    BY <1>1, <1>6, <2>3
  <2>5. i - 1 \in 0 .. k /\ i - 1 < i /\ i \in 1 .. k
    BY <1>1, <2>3, <2>4
  <2>6. g[i - 1] = f[i - 1]
    BY <2>2, <2>5
  <2>7. g[i] = m[f[i - 1]]
    BY <1>1, <1>6, <2>3, <2>4, <2>5, <2>6
  <2> QED
    BY <1>2, <2>3, <2>5, <2>7
<1>8. k \in 0 .. k
  BY <1>1
<1> QED
  BY <1>5, <1>7, <1>8

(* The blocks of a list that is long enough. *)
ListOf(m, r, f) == Chain(m, m[BlocksAt(r)], m[FreeAt(r)], f)

(* They are the free blocks of the region, as many as region->free says. *)
LEMMA ListBlocks ==
  ASSUME NEW m, NEW r, NEW f, ListOf(m, r, f)
  PROVE  /\ Avail(m, r) = {f[k] : k \in 0 .. m[FreeAt(r)] - 1}
         /\ Avail(m, r) \subseteq Addr
         /\ IsFiniteSet(Avail(m, r)) /\ Cardinality(Avail(m, r)) = m[FreeAt(r)]
<1> DEFINE n == m[FreeAt(r)]
           K == 0 .. n - 1
<1>1. n \in Nat /\ f \in [K -> Addr] /\ \A i, j \in K : f[i] = f[j] => i = j
  BY DEF ListOf, Chain
<1>2. \A k \in K : NodeIn(m, m[BlocksAt(r)], k) = f[k]
  BY ChainNode DEF ListOf
<1>3. Avail(m, r) = {f[k] : k \in K}
  BY <1>2 DEF Avail
<1>4. IsFiniteSet(K) /\ Cardinality(K) = n
  <2>1. 0 \in Int /\ n - 1 \in Int
    BY <1>1
  <2> HIDE DEF n
  <2>2. IsFiniteSet(0 .. n - 1) /\ Cardinality(0 .. n - 1) = IF 0 > n - 1 THEN 0 ELSE (n - 1) - 0 + 1
    BY <2>1, FS_Interval
  <2> QED
    BY <1>1, <2>2
<1> HIDE DEF K, n
<1>5. f \in Bijection(K, Avail(m, r))
  BY <1>1, <1>3 DEF Bijection, Injection, Surjection, IsInjective
<1>6. ExistsBijection(K, Avail(m, r))
  BY <1>5 DEF ExistsBijection
<1>7. IsFiniteSet(Avail(m, r)) /\ Cardinality(Avail(m, r)) = n
  BY <1>4, <1>6, FS_Bijection
<1> QED
  BY <1>1, <1>3, <1>7 DEF K, n

-----------------------------------------------------------------------------
(* What a store does to a list.                                            *)
HasList(m, r) == \E f : ListOf(m, r, f)

(* The list of a region whose words and blocks were not stored to. *)
LEMMA ListKept ==
  ASSUME NEW m, NEW r, HasList(m, r), NEW m2,
         m2[BlocksAt(r)] = m[BlocksAt(r)], m2[FreeAt(r)] = m[FreeAt(r)],
         \A b \in Avail(m, r) : m2[b] = m[b]
  PROVE  HasList(m2, r) /\ Avail(m2, r) = Avail(m, r)
<1>1. PICK f : ListOf(m, r, f)
  BY DEF HasList
<1> DEFINE n == m[FreeAt(r)]
<1>2. Avail(m, r) = {f[k] : k \in 0 .. n - 1}
  BY <1>1, ListBlocks
<1>3. \A k \in 0 .. n - 1 : m2[f[k]] = m[f[k]]
  BY <1>2
<1>4. Chain(m, m[BlocksAt(r)], n, f)
  BY <1>1 DEF ListOf
<1> HIDE DEF n
<1>5. Chain(m2, m[BlocksAt(r)], n, f)
  BY <1>3, <1>4 DEF Chain
<1>6. ListOf(m2, r, f)
  BY <1>5 DEF ListOf, n
<1>7. Avail(m2, r) = {f[k] : k \in 0 .. n - 1}
  BY <1>6, ListBlocks DEF n
<1> QED
  BY <1>2, <1>6, <1>7 DEF HasList

(* slab_alloc takes the first block. *)
LEMMA ListPop ==
  ASSUME NEW m, NEW r, HasList(m, r), m[FreeAt(r)] # 0, NEW m2, NEW sb, sb = m[BlocksAt(r)],
         m2[BlocksAt(r)] = m[sb], m2[FreeAt(r)] = m[FreeAt(r)] - 1,
         \A b \in Avail(m, r) \ {sb} : m2[b] = m[b]
  PROVE  /\ sb \in Avail(m, r)
         /\ HasList(m2, r) /\ Avail(m2, r) = Avail(m, r) \ {sb}
<1>1. PICK f : ListOf(m, r, f)
  BY DEF HasList
<1> DEFINE n == m[FreeAt(r)]
           h == [k \in 0 .. (n - 1) - 1 |-> f[k + 1]]
<1>2. Avail(m, r) = {f[k] : k \in 0 .. n - 1}
  BY <1>1, ListBlocks
<1>3. Chain(m, sb, n, f)
  BY <1>1 DEF ListOf
<1> HIDE DEF n
<1>4. /\ n \in Nat /\ n # 0 /\ f \in [0 .. n - 1 -> Addr] /\ f[0] = sb
      /\ \A i, j \in 0 .. n - 1 : f[i] = f[j] => i = j
      /\ \A k \in 1 .. n - 1 : f[k] = m[f[k - 1]]
  BY <1>3 DEF Chain, n
<1>5. 0 \in 0 .. n - 1 /\ \A k \in 0 .. (n - 1) - 1 : k + 1 \in 1 .. n - 1 /\ k + 1 \in 0 .. n - 1
  BY <1>4
<1>6. \A k \in 1 .. n - 1 : f[k] # sb /\ f[k] \in Avail(m, r)
  BY <1>2, <1>4, <1>5
<1>7. n - 1 \in Nat /\ h \in [0 .. (n - 1) - 1 -> Addr]
  BY <1>4, <1>5
<1>8. \A i, j \in 0 .. (n - 1) - 1 : h[i] = h[j] => i = j
  BY <1>4, <1>5
<1>9. n - 1 # 0 => h[0] = m[sb]
  <2> SUFFICES ASSUME n - 1 # 0 PROVE h[0] = m[sb]
    OBVIOUS
  <2>1. 0 \in 0 .. (n - 1) - 1 /\ 1 \in 1 .. n - 1 /\ 0 + 1 = 1 /\ 1 - 1 = 0
    BY <1>4
  <2>2. f[1] = m[f[0]]
    BY <1>4, <2>1
  <2> QED
    BY <1>4, <2>1, <2>2
<1>10. ASSUME NEW k \in 1 .. (n - 1) - 1 PROVE h[k] = m2[h[k - 1]]
  <2>1. /\ k \in 0 .. (n - 1) - 1 /\ k - 1 \in 0 .. (n - 1) - 1 /\ k \in 1 .. n - 1 /\ k + 1 \in 1 .. n - 1
        /\ (k - 1) + 1 = k /\ (k + 1) - 1 = k
    BY <1>4
  <2>2. h[k] = f[k + 1] /\ h[k - 1] = f[k]
    BY <2>1
  <2>3. f[k + 1] = m[f[k]]
    BY <1>4, <2>1
  <2>4. m2[f[k]] = m[f[k]]
    BY <1>6, <2>1
  <2> QED
    BY <2>2, <2>3, <2>4
<1> DEFINE A2 == {h[k] : k \in 0 .. (n - 1) - 1}
<1>11. A2 = Avail(m, r) \ {sb}
  <2>1. ASSUME NEW b \in A2 PROVE b \in Avail(m, r) \ {sb}
    BY <1>5, <1>6
  <2>2. ASSUME NEW b \in Avail(m, r) \ {sb} PROVE b \in A2
    <3>1. PICK k \in 0 .. n - 1 : b = f[k]
      BY <1>2
    <3>2. k # 0
      BY <1>4, <3>1
    <3>3. k - 1 \in 0 .. (n - 1) - 1 /\ (k - 1) + 1 = k
      BY <1>4, <3>1, <3>2
    <3>4. h[k - 1] = f[k]
      BY <3>3
    <3> HIDE DEF h
    <3> QED
      BY <3>1, <3>3, <3>4
  <2> HIDE DEF A2
  <2> QED
    BY <2>1, <2>2
<1>12. Chain(m2, m[sb], n - 1, h)
  <2> HIDE DEF h
  <2> QED
    BY <1>7, <1>8, <1>9, <1>10 DEF Chain
<1> HIDE DEF h, A2
<1>13. ListOf(m2, r, h)
  BY <1>12 DEF ListOf, n
<1>14. Avail(m2, r) = A2
  <2>1. m2[FreeAt(r)] = n - 1
    BY DEF n
  <2> QED
    BY <1>13, <2>1, ListBlocks DEF A2
<1>15. sb \in Avail(m, r)
  BY <1>2, <1>4, <1>5
<1> QED
  BY <1>11, <1>13, <1>14, <1>15 DEF HasList

(* slab_free puts a block before the first one. *)
LEMMA ListPush ==
  ASSUME NEW m, NEW r, HasList(m, r), NEW b \in Addr \ Avail(m, r), NEW m2,
         m2[BlocksAt(r)] = b, m2[b] = m[BlocksAt(r)], m2[FreeAt(r)] = m[FreeAt(r)] + 1,
         \A c \in Avail(m, r) : m2[c] = m[c]
  PROVE  HasList(m2, r) /\ Avail(m2, r) = Avail(m, r) \cup {b}
<1>1. PICK f : ListOf(m, r, f)
  BY DEF HasList
<1> DEFINE n == m[FreeAt(r)]
           h == [k \in 0 .. (n + 1) - 1 |-> IF k = 0 THEN b ELSE f[k - 1]]
<1>2. Avail(m, r) = {f[k] : k \in 0 .. n - 1}
  BY <1>1, ListBlocks
<1>3. Chain(m, m[BlocksAt(r)], n, f)
  BY <1>1 DEF ListOf
<1> HIDE DEF n
<1>4. /\ n \in Nat /\ f \in [0 .. n - 1 -> Addr] /\ (n # 0 => f[0] = m[BlocksAt(r)])
      /\ \A i, j \in 0 .. n - 1 : f[i] = f[j] => i = j
      /\ \A k \in 1 .. n - 1 : f[k] = m[f[k - 1]]
  BY <1>3 DEF Chain
<1>5. \A k \in 0 .. n - 1 : f[k] # b /\ m2[f[k]] = m[f[k]]
  BY <1>2
<1>6. \A k \in 0 .. (n + 1) - 1 : k = 0 \/ (k - 1 \in 0 .. n - 1 /\ k \in 1 .. n)
  BY <1>4
<1>7. n + 1 \in Nat /\ h \in [0 .. (n + 1) - 1 -> Addr] /\ h[0] = b /\ n + 1 # 0
  BY <1>4, <1>6
<1>8. \A i, j \in 0 .. (n + 1) - 1 : h[i] = h[j] => i = j
  <2>1. \A i \in 0 .. (n + 1) - 1 : i # 0 => h[i] = f[i - 1] /\ h[i] # b
    BY <1>5, <1>6
  <2> QED
    BY <1>4, <1>6, <1>7, <2>1
<1>9. ASSUME NEW k \in 1 .. (n + 1) - 1 PROVE h[k] = m2[h[k - 1]]
  <2>1. k \in 0 .. (n + 1) - 1 /\ k - 1 \in 0 .. (n + 1) - 1 /\ k # 0 /\ k - 1 \in 0 .. n - 1
    BY <1>4
  <2>2. h[k] = f[k - 1]
    BY <2>1
  <2>3. CASE k = 1
    BY <1>4, <1>7, <2>1, <2>2, <2>3
  <2>4. CASE k # 1
    <3>1. k - 1 # 0 /\ k - 1 \in 1 .. n - 1 /\ (k - 1) - 1 \in 0 .. n - 1
      BY <1>4, <2>1, <2>4
    <3>2. h[k - 1] = f[(k - 1) - 1]
      BY <2>1, <3>1
    <3>3. f[k - 1] = m[f[(k - 1) - 1]]
      BY <1>4, <3>1
    <3> QED
      BY <1>5, <2>2, <3>1, <3>2, <3>3
  <2> QED
    BY <2>3, <2>4
<1> DEFINE A2 == {h[k] : k \in 0 .. (n + 1) - 1}
<1>10. A2 = Avail(m, r) \cup {b}
  <2>1. ASSUME NEW c \in A2 PROVE c \in Avail(m, r) \cup {b}
    BY <1>2, <1>6
  <2>2. b \in A2
    <3>1. 0 \in 0 .. (n + 1) - 1
      BY <1>4
    <3> QED
      BY <1>7, <3>1
  <2>3. ASSUME NEW c \in Avail(m, r) PROVE c \in A2
    <3>1. PICK k \in 0 .. n - 1 : c = f[k]
      BY <1>2
    <3>2. k + 1 \in 0 .. (n + 1) - 1 /\ k + 1 # 0 /\ (k + 1) - 1 = k
      BY <1>4, <3>1
    <3>3. h[k + 1] = f[k]
      BY <3>2
    <3> HIDE DEF h
    <3> QED
      BY <3>1, <3>2, <3>3
  <2> HIDE DEF A2
  <2> QED
    BY <2>1, <2>2, <2>3
<1>11. Chain(m2, b, n + 1, h)
  <2> HIDE DEF h
  <2> QED
    BY <1>7, <1>8, <1>9 DEF Chain
<1> HIDE DEF h, A2
<1>12. ListOf(m2, r, h)
  BY <1>11 DEF ListOf, n
<1>13. Avail(m2, r) = A2
  <2>1. m2[FreeAt(r)] = n + 1
    BY DEF n
  <2> QED
    BY <1>12, <2>1, ListBlocks DEF A2
<1> QED
  BY <1>10, <1>12, <1>13 DEF HasList

-----------------------------------------------------------------------------
(* The walk along the regions.                                             *)
RegionStep(m, R, S, w) ==
  w = [r \in R \cup {NULL} |-> IF r \in S \cup {NULL} THEN r ELSE w[m[NextAt(r)]]]

FirstIn(m, R, start, S) ==
  LET walk[r \in R \cup {NULL}] == IF r \in S \cup {NULL} THEN r ELSE walk[m[NextAt(r)]]
  IN walk[start]

(* It is the one of the model. *)
LEMMA FirstOfIs == \A S : FirstOf(S) = FirstIn(mem, RegionList, regions, S)
  BY Zenon DEF FirstOf, FirstIn

(* The recursion has a solution, when one is known. *)
LEMMA WalkDef ==
  ASSUME NEW m, NEW R, NEW start, NEW S, NEW h, RegionStep(m, R, S, h)
  PROVE  \E w : RegionStep(m, R, S, w) /\ FirstIn(m, R, start, S) = w[start]
<1> DEFINE w == CHOOSE w : RegionStep(m, R, S, w)
<1>1. RegionStep(m, R, S, w)
  OBVIOUS
<1>2. FirstIn(m, R, start, S) = w[start]
  BY Zenon DEF FirstIn, RegionStep
<1> QED
  BY <1>1, <1>2

(* The regions in R are linked through their first words, from start to    *)
(* NULL; g numbers them from the end.                                      *)
Linked(m, R, start, n, g) ==
  /\ n \in Nat /\ R \subseteq Addr
  /\ g \in [0 .. n -> R \cup {NULL}] /\ g[0] = NULL /\ g[n] = start
  /\ \A i \in 1 .. n : g[i] \in R /\ m[NextAt(g[i])] = g[i - 1]
  /\ \A i, j \in 0 .. n : g[i] = g[j] => i = j
  /\ \A r \in R : \E i \in 1 .. n : g[i] = r

(* Where the walk from the region with number i stops. *)
StopsAt(g, S, i, j) ==
  /\ j \in 0 .. i /\ g[j] \in S \cup {NULL}
  /\ \A k \in j + 1 .. i : g[k] \notin S \cup {NULL}

(* There is such a place. *)
LEMMA StopExists ==
  ASSUME NEW g, NEW S, NEW i \in Nat, g[0] = NULL
  PROVE  \E j : StopsAt(g, S, i, j)
<1> DEFINE T == {i - j : j \in {k \in 0 .. i : g[k] \in S \cup {NULL}}}
<1>1. T \in SUBSET Nat
  OBVIOUS
<1>2. i - 0 \in T
  OBVIOUS
<1>3. PICK t \in T : \A u \in T : t <= u
  <2> HIDE DEF T
  <2> QED
    BY <1>1, <1>2, LeastNat
<1>4. PICK j \in 0 .. i : g[j] \in S \cup {NULL} /\ t = i - j
  OBVIOUS
<1>5. ASSUME NEW k \in j + 1 .. i, g[k] \in S \cup {NULL} PROVE FALSE
  <2>1. k \in 0 .. i /\ i - k < i - j
    OBVIOUS
  <2>2. i - k \in T
    BY <1>5, <2>1
  <2> HIDE DEF T
  <2>3. i - j <= i - k
    BY <1>3, <1>4, <2>2
  <2> QED
    BY <2>1, <2>3
<1> QED
  BY <1>4, <1>5 DEF StopsAt

(* The walk stops at one place only. *)
LEMMA StopUnique ==
  ASSUME NEW g, NEW S, NEW i \in Nat, NEW j, NEW k, StopsAt(g, S, i, j), StopsAt(g, S, i, k)
  PROVE  j = k
<1>1. j \in Nat /\ k \in Nat /\ j <= i /\ k <= i
  BY DEF StopsAt
<1>2. ~(j < k)
  BY <1>1 DEF StopsAt
<1>3. ~(k < j)
  BY <1>1 DEF StopsAt
<1> QED
  BY <1>1, <1>2, <1>3

(* The walk ends. *)
LEMMA WalkEnds ==
  ASSUME NEW m, NEW R, NEW start, NEW n, NEW g, Linked(m, R, start, n, g), NEW S
  PROVE  \E h : RegionStep(m, R, S, h)
<1> DEFINE No(r) == CHOOSE i \in 0 .. n : g[i] = r
           Stop(i) == CHOOSE j : StopsAt(g, S, i, j)
           h == [r \in R \cup {NULL} |-> g[Stop(No(r))]]
<1>1. /\ n \in Nat /\ g \in [0 .. n -> R \cup {NULL}] /\ g[0] = NULL
      /\ \A i \in 1 .. n : g[i] \in R /\ m[NextAt(g[i])] = g[i - 1]
      /\ \A i, j \in 0 .. n : g[i] = g[j] => i = j
  BY DEF Linked
<1>2. ASSUME NEW r \in R \cup {NULL} PROVE No(r) \in 0 .. n /\ g[No(r)] = r
  <2>1. \E i \in 0 .. n : g[i] = r
    BY <1>1 DEF Linked
  <2> QED
    BY <2>1
<1>3. ASSUME NEW i \in 0 .. n PROVE g[i] \in R \cup {NULL} /\ No(g[i]) = i
  <2>1. g[i] \in R \cup {NULL}
    BY <1>1
  <2>2. No(g[i]) \in 0 .. n /\ g[No(g[i])] = g[i]
    BY <1>2, <2>1
  <2> HIDE DEF No
  <2> QED
    BY <1>1, <2>1, <2>2
<1>4. ASSUME NEW i \in 0 .. n PROVE StopsAt(g, S, i, Stop(i))
  <2>1. i \in Nat
    BY <1>1
  <2>2. \E j : StopsAt(g, S, i, j)
    BY <1>1, <2>1, StopExists
  <2> QED
    BY <2>2
<1>5. ASSUME NEW i \in 0 .. n PROVE h[g[i]] = g[Stop(i)]
  <2> HIDE DEF Stop, No
  <2> QED
    BY <1>3
<1> HIDE DEF Stop
<1>6. ASSUME NEW r \in R \cup {NULL}
      PROVE  h[r] = IF r \in S \cup {NULL} THEN r ELSE h[m[NextAt(r)]]
  <2>1. PICK i \in 0 .. n : g[i] = r
    BY <1>2
  <2> HIDE DEF h
  <2>2. CASE r \in S \cup {NULL}
    <3>1. StopsAt(g, S, i, i)
      BY <1>1, <2>1, <2>2 DEF StopsAt
    <3>2. Stop(i) = i
      BY <1>1, <1>4, <3>1, StopUnique
    <3> QED
      BY <1>5, <2>1, <2>2, <3>2
  <2>3. CASE r \notin S \cup {NULL}
    <3>1. i # 0 /\ i \in 1 .. n /\ i - 1 \in 0 .. n
      BY <1>1, <2>1, <2>3
    <3>2. StopsAt(g, S, i - 1, Stop(i - 1))
      BY <1>4, <3>1
    <3>3. StopsAt(g, S, i, Stop(i - 1))
      BY <1>1, <2>1, <2>3, <3>1, <3>2 DEF StopsAt
    <3>4. Stop(i) = Stop(i - 1)
      BY <1>1, <1>4, <3>3, StopUnique
    <3>5. m[NextAt(r)] = g[i - 1]
      BY <1>1, <2>1, <3>1
    <3>6. h[g[i - 1]] = g[Stop(i - 1)]
      BY <1>5, <3>1
    <3> QED
      BY <1>5, <2>1, <2>3, <3>4, <3>5, <3>6
  <2> QED
    BY <2>2, <2>3
<1>7. RegionStep(m, R, S, h)
  <2>1. h = [r \in R \cup {NULL} |-> h[r]]
    OBVIOUS
  <2> HIDE DEF h
  <2> QED
    BY <1>6, <2>1 DEF RegionStep
<1> QED
  BY <1>7

(* It finds a region of S, if there is one. *)
LEMMA WalkFinds ==
  ASSUME NEW m, NEW R, NEW start, NEW n, NEW g, Linked(m, R, start, n, g), NEW S \in SUBSET R
  PROVE  /\ FirstIn(m, R, start, S) \in S \cup {NULL}
         /\ FirstIn(m, R, start, S) = NULL => S = {}
<1>1. \E h : RegionStep(m, R, S, h)
  BY WalkEnds
<1>2. PICK w : RegionStep(m, R, S, w) /\ FirstIn(m, R, start, S) = w[start]
  BY <1>1, WalkDef
<1>3. /\ n \in Nat /\ g \in [0 .. n -> R \cup {NULL}] /\ g[0] = NULL /\ g[n] = start
      /\ \A i \in 1 .. n : g[i] \in R /\ m[NextAt(g[i])] = g[i - 1]
  BY DEF Linked
<1>4. \A r \in R \cup {NULL} : w[r] = IF r \in S \cup {NULL} THEN r ELSE w[m[NextAt(r)]]
  BY <1>2 DEF RegionStep
<1> DEFINE Right(i) == /\ w[g[i]] \in S \cup {NULL}
                       /\ w[g[i]] = NULL => \A k \in 1 .. i : g[k] \notin S
           Wrong == {i \in 0 .. n : ~Right(i)}
<1>5. NULL \notin S
  BY DEF Linked, Addr, NULL
<1>6. ASSUME NEW i \in 0 .. n, i # 0 => Right(i - 1) PROVE Right(i)
  <2>1. g[i] \in R \cup {NULL}
    BY <1>3
  <2>2. CASE i = 0
    BY <1>3, <1>4, <2>1, <2>2
  <2>3. CASE i # 0 /\ g[i] \in S
    BY <1>4, <1>5, <2>1, <2>3
  <2>4. CASE i # 0 /\ g[i] \notin S
    <3>1. i \in 1 .. n /\ i - 1 \in 0 .. n
      BY <1>3, <2>4
    <3>2. g[i] # NULL
      BY <1>3, <3>1 DEF Linked, Addr, NULL
    <3>3. w[g[i]] = w[g[i - 1]]
      BY <1>3, <1>4, <2>1, <2>4, <3>1, <3>2
    <3>4. \A k \in 1 .. i : k \in 1 .. i - 1 \/ k = i
      BY <3>1
    <3> QED
      BY <1>6, <2>4, <3>3, <3>4
  <2> QED
    BY <2>2, <2>3, <2>4
<1>7. Wrong = {}
  <2> SUFFICES ASSUME Wrong # {} PROVE FALSE
    OBVIOUS
  <2>1. Wrong \in SUBSET Nat
    OBVIOUS
  <2>2. PICK i \in Wrong : \A j \in Wrong : i <= j
    <3> HIDE DEF Wrong
    <3> QED
      BY <2>1, LeastNat
  <2>3. i \in 0 .. n /\ ~Right(i)
    OBVIOUS
  <2> HIDE DEF Right
  <2>4. i # 0 => Right(i - 1)
    <3> SUFFICES ASSUME i # 0, ~Right(i - 1) PROVE FALSE
      OBVIOUS
    <3>1. i - 1 \in 0 .. n /\ i - 1 < i
      BY <1>3, <2>3
    <3>2. i - 1 \in Wrong
      BY <3>1
    <3> HIDE DEF Wrong
    <3> QED
      BY <2>2, <2>3, <3>1, <3>2
  <2> QED
    BY <1>6, <2>3, <2>4
<1>8. Right(n)
  <2>1. n \in 0 .. n
    BY <1>3
  <2> HIDE DEF Right
  <2> QED
    BY <1>7, <2>1
<1>9. \A r \in R : \E i \in 1 .. n : g[i] = r
  BY DEF Linked
<1> QED
  BY <1>2, <1>3, <1>8, <1>9

-----------------------------------------------------------------------------
(* Where slab_grow puts the blocks.                                        *)
Accepted(x) == x \in GrowReqs /\ x[1] # NULL /\ BigEnough(x[2])

BlocksOf(x) == {FirstBlock(x[1], x[2]) + i * BLOCKSIZE : i \in 0 .. BlockCount(x[2]) - 1}

AllBlocks(D) == UNION {BlocksOf(x) : x \in D}

Bufs(D) == {x[1] : x \in D}

(* Buffers that slab_grow has accepted, each once. *)
Placed(D) ==
  /\ \A x \in D : Accepted(x)
  /\ \A x, y \in D : x[1] = y[1] => x = y

(* The rows of B words before the j-th, the i-th among them. *)
LEMMA Rows ==
  ASSUME NEW B \in Nat, NEW i \in Nat, NEW j \in Nat, i < j
  PROVE  i * B \in Nat /\ j * B \in Nat /\ i * B + B <= j * B
<1>1. PICK d \in Nat : j = i + 1 + d
  <2>1. j - i - 1 \in Nat /\ j = i + 1 + (j - i - 1)
    OBVIOUS
  <2> QED
    BY <2>1
<1>2. i * B \in Nat /\ j * B \in Nat /\ d * B \in Nat
  OBVIOUS
<1>3. j * B = i * B + B + d * B
  BY <1>1
<1> QED
  BY <1>2, <1>3

(* The blocks that fit have at most the size that is there. *)
LEMMA Quotient ==
  ASSUME NEW a \in Nat, NEW B \in Nat \ {0}, a >= B
  PROVE  a \div B \in Nat \ {0} /\ (a \div B) * B \in Nat /\ (a \div B) * B <= a
<1> DEFINE q == a \div B
<1>1. q \in Int /\ B * q <= a /\ a < B * q + B
  OBVIOUS
<1> HIDE DEF q
<1>2. q > 0
  BY <1>1
<1>3. q * B = B * q /\ q * B \in Nat
  BY <1>1, <1>2
<1> QED
  BY <1>1, <1>2, <1>3 DEF q

(* The place of the blocks and of the nodes of a buffer. *)
LEMMA Place ==
  ASSUME NEW x, Accepted(x)
  PROVE  /\ x[1] \in Nat /\ x[2] \in Nat
         /\ FirstBlock(x[1], x[2]) \in Int /\ BlockCount(x[2]) \in Nat \ {0}
         /\ BlockCount(x[2]) * BLOCKSIZE \in Nat
         /\ FirstBlock(x[1], x[2]) + BlockCount(x[2]) * BLOCKSIZE <= x[1]
         /\ Extent(x[1], x[2]) = FirstBlock(x[1], x[2]) .. x[1] + 3
         /\ Extent(x[1], x[2]) \subseteq Addr
<1>1. x \in GrowReqs /\ x[1] # NULL /\ BigEnough(x[2])
  BY DEF Accepted
<1>2. x[1] \in Nat /\ x[2] \in Nat
  BY <1>1, SlabAssumption
<1>3. BLOCKSIZE \in Nat \ {0}
  BY SlabAssumption
<1>4. x[2] - HEADER \in Nat /\ x[2] - HEADER >= BLOCKSIZE
  BY <1>1, <1>2, <1>3 DEF BigEnough, HEADER
<1>5. /\ BlockCount(x[2]) \in Nat \ {0} /\ BlockCount(x[2]) * BLOCKSIZE \in Nat
      /\ BlockCount(x[2]) * BLOCKSIZE <= x[2] - HEADER
  BY <1>3, <1>4, Quotient DEF BlockCount
<1>6. FirstBlock(x[1], x[2]) = x[1] - (x[2] - HEADER)
  BY DEF FirstBlock
<1>7. FirstBlock(x[1], x[2]) \in Int /\ FirstBlock(x[1], x[2]) + BlockCount(x[2]) * BLOCKSIZE <= x[1]
  BY <1>2, <1>4, <1>5, <1>6
<1>8. Extent(x[1], x[2]) = FirstBlock(x[1], x[2]) .. x[1] + 3
  BY <1>2 DEF Extent, HEADER
<1>9. Extent(x[1], x[2]) \subseteq Addr
  BY <1>1, SlabAssumption
<1> QED
  BY <1>2, <1>5, <1>7, <1>8, <1>9

(* A block lies before the buffer, after the first one. *)
LEMMA BlockPlace ==
  ASSUME NEW x, Accepted(x), NEW b \in BlocksOf(x)
  PROVE  /\ b \in Int /\ FirstBlock(x[1], x[2]) <= b /\ b + BLOCKSIZE <= x[1]
         /\ b \in Addr
         /\ Words(b, BLOCKSIZE) \subseteq Extent(x[1], x[2])
<1> DEFINE n == BlockCount(x[2])
           F == FirstBlock(x[1], x[2])
<1>1. /\ x[1] \in Nat /\ n \in Nat \ {0} /\ n * BLOCKSIZE \in Nat /\ F \in Int
      /\ F + n * BLOCKSIZE <= x[1]
  BY Place
<1>2. Extent(x[1], x[2]) = F .. x[1] + 3 /\ Extent(x[1], x[2]) \subseteq Addr
  BY Place
<1>3. PICK i \in 0 .. n - 1 : b = F + i * BLOCKSIZE
  BY DEF BlocksOf
<1>4. BLOCKSIZE \in Nat \ {0}
  BY SlabAssumption
<1> HIDE DEF n, F
<1>5. i * BLOCKSIZE \in Nat /\ i * BLOCKSIZE + BLOCKSIZE <= n * BLOCKSIZE
  <2>1. i \in Nat /\ n \in Nat /\ i < n /\ BLOCKSIZE \in Nat
    BY <1>1, <1>4
  <2> QED
    BY <2>1, Rows
<1>6. b \in Int /\ F <= b /\ b + BLOCKSIZE <= x[1]
  BY <1>1, <1>3, <1>4, <1>5
<1>7. Words(b, BLOCKSIZE) \subseteq F .. x[1] + 3
  BY <1>1, <1>4, <1>6 DEF Words
<1>8. b \in F .. x[1] + 3
  BY <1>1, <1>4, <1>6
<1> QED
  BY <1>2, <1>6, <1>7, <1>8 DEF F

(* The words of a block before a buffer and those of its header. *)
LEMMA HeaderPlace ==
  ASSUME NEW x, Accepted(x)
  PROVE  /\ Words(x[1], HEADER) = x[1] .. x[1] + 3
         /\ Words(x[1], HEADER) \subseteq Extent(x[1], x[2])
         /\ x[1] \in Addr
<1> DEFINE F == FirstBlock(x[1], x[2])
<1>1. x[1] \in Nat /\ F \in Int /\ F <= x[1] /\ Extent(x[1], x[2]) = F .. x[1] + 3
  BY Place
<1>2. Extent(x[1], x[2]) \subseteq Addr
  BY Place
<1> HIDE DEF F
<1>3. Words(x[1], HEADER) = x[1] .. x[1] + 3
  BY <1>1 DEF Words, HEADER
<1>4. x[1] \in F .. x[1] + 3 /\ x[1] .. x[1] + 3 \subseteq F .. x[1] + 3
  BY <1>1
<1> QED
  BY <1>1, <1>2, <1>3, <1>4

(* Two blocks of one buffer. *)
LEMMA SameBuffer ==
  ASSUME NEW x, Accepted(x), NEW b \in BlocksOf(x), NEW c \in BlocksOf(x), b # c
  PROVE  Words(b, BLOCKSIZE) \cap Words(c, BLOCKSIZE) = {}
<1> DEFINE n == BlockCount(x[2])
           F == FirstBlock(x[1], x[2])
<1>1. n \in Nat /\ F \in Int /\ BLOCKSIZE \in Nat
  BY Place, SlabAssumption
<1>2. PICK i \in 0 .. n - 1 : b = F + i * BLOCKSIZE
  BY DEF BlocksOf
<1>3. PICK j \in 0 .. n - 1 : c = F + j * BLOCKSIZE
  BY DEF BlocksOf
<1> HIDE DEF n, F
<1>4. i \in Nat /\ j \in Nat /\ i # j
  BY <1>1, <1>2, <1>3
<1>5. CASE i < j
  <2>1. i * BLOCKSIZE \in Nat /\ j * BLOCKSIZE \in Nat /\ i * BLOCKSIZE + BLOCKSIZE <= j * BLOCKSIZE
    BY <1>1, <1>4, <1>5, Rows
  <2>2. b \in Int /\ c \in Int /\ b + BLOCKSIZE <= c
    BY <1>1, <1>2, <1>3, <2>1
  <2> QED
    BY <1>1, <2>2 DEF Words
<1>6. CASE j < i
  <2>1. i * BLOCKSIZE \in Nat /\ j * BLOCKSIZE \in Nat /\ j * BLOCKSIZE + BLOCKSIZE <= i * BLOCKSIZE
    BY <1>1, <1>4, <1>6, Rows
  <2>2. b \in Int /\ c \in Int /\ c + BLOCKSIZE <= b
    BY <1>1, <1>2, <1>3, <2>1
  <2> QED
    BY <1>1, <2>2 DEF Words
<1> QED
  BY <1>4, <1>5, <1>6

(* Two buffers. *)
LEMMA ExtentsApart ==
  ASSUME NEW D, Placed(D), NEW x \in D, NEW y \in D, x # y
  PROVE  Extent(x[1], x[2]) \cap Extent(y[1], y[2]) = {}
<1>1. Accepted(x) /\ Accepted(y) /\ x[1] # y[1]
  BY DEF Placed
<1> QED
  BY <1>1, SlabAssumption DEF Accepted

(* Blocks, and headers, of accepted buffers share no word. *)
LEMMA WordsApart ==
  ASSUME NEW D, Placed(D)
  PROVE  /\ AllBlocks(D) \subseteq Addr
         /\ \A b \in AllBlocks(D) : Words(b, BLOCKSIZE) \subseteq Addr /\ b \in Words(b, BLOCKSIZE)
         /\ \A b, c \in AllBlocks(D) : b # c => Words(b, BLOCKSIZE) \cap Words(c, BLOCKSIZE) = {}
         /\ \A b \in AllBlocks(D), r \in Bufs(D) : Words(b, BLOCKSIZE) \cap Words(r, HEADER) = {}
         /\ \A r, s \in Bufs(D) : r # s => Words(r, HEADER) \cap Words(s, HEADER) = {}
         /\ \A r \in Bufs(D) : /\ r \in Addr /\ Words(r, HEADER) \subseteq Addr
                               /\ NextAt(r) \in Words(r, HEADER) /\ TotalAt(r) \in Words(r, HEADER)
                               /\ FreeAt(r) \in Words(r, HEADER) /\ BlocksAt(r) \in Words(r, HEADER)
<1>1. \A x \in D : Accepted(x)
  BY DEF Placed
<1>2. ASSUME NEW b \in AllBlocks(D)
      PROVE  \E x \in D : b \in BlocksOf(x) /\ Accepted(x)
  BY <1>1 DEF AllBlocks
<1>3. ASSUME NEW r \in Bufs(D)
      PROVE  \E x \in D : r = x[1] /\ Accepted(x)
  BY <1>1 DEF Bufs
<1>4. ASSUME NEW b \in AllBlocks(D)
      PROVE  b \in Addr /\ Words(b, BLOCKSIZE) \subseteq Addr /\ b \in Words(b, BLOCKSIZE)
  <2>1. PICK x \in D : b \in BlocksOf(x) /\ Accepted(x)
    BY <1>2
  <2>2. b \in Int /\ b \in Addr /\ Words(b, BLOCKSIZE) \subseteq Extent(x[1], x[2])
    BY <2>1, BlockPlace
  <2>3. Extent(x[1], x[2]) \subseteq Addr
    BY <2>1, Place
  <2>4. b \in Words(b, BLOCKSIZE)
    BY <2>2, SlabAssumption DEF Words
  <2> QED
    BY <2>2, <2>3, <2>4
<1>5. ASSUME NEW b \in AllBlocks(D), NEW c \in AllBlocks(D), b # c
      PROVE  Words(b, BLOCKSIZE) \cap Words(c, BLOCKSIZE) = {}
  <2>1. PICK x \in D : b \in BlocksOf(x) /\ Accepted(x)
    BY <1>2
  <2>2. PICK y \in D : c \in BlocksOf(y) /\ Accepted(y)
    BY <1>2
  <2>3. CASE x = y
    BY <1>5, <2>1, <2>2, <2>3, SameBuffer
  <2>4. CASE x # y
    <3>1. Extent(x[1], x[2]) \cap Extent(y[1], y[2]) = {}
      BY <2>4, ExtentsApart
    <3>2. Words(b, BLOCKSIZE) \subseteq Extent(x[1], x[2])
      BY <2>1, BlockPlace
    <3>3. Words(c, BLOCKSIZE) \subseteq Extent(y[1], y[2])
      BY <2>2, BlockPlace
    <3> QED
      BY <3>1, <3>2, <3>3
  <2> QED
    BY <2>3, <2>4
<1>6. ASSUME NEW b \in AllBlocks(D), NEW r \in Bufs(D)
      PROVE  Words(b, BLOCKSIZE) \cap Words(r, HEADER) = {}
  <2>1. PICK x \in D : b \in BlocksOf(x) /\ Accepted(x)
    BY <1>2
  <2>2. PICK y \in D : r = y[1] /\ Accepted(y)
    BY <1>3
  <2>3. CASE x = y
    <3>1. b \in Int /\ b + BLOCKSIZE <= r
      BY <2>1, <2>2, <2>3, BlockPlace
    <3>2. Words(r, HEADER) = r .. r + 3 /\ r \in Nat
      BY <2>2, HeaderPlace, Place
    <3>3. BLOCKSIZE \in Nat
      BY SlabAssumption
    <3> QED
      BY <3>1, <3>2, <3>3 DEF Words
  <2>4. CASE x # y
    <3>1. Extent(x[1], x[2]) \cap Extent(y[1], y[2]) = {}
      BY <2>4, ExtentsApart
    <3>2. Words(b, BLOCKSIZE) \subseteq Extent(x[1], x[2])
      BY <2>1, BlockPlace
    <3>3. Words(r, HEADER) \subseteq Extent(y[1], y[2])
      BY <2>2, HeaderPlace
    <3> QED
      BY <3>1, <3>2, <3>3
  <2> QED
    BY <2>3, <2>4
<1>7. ASSUME NEW r \in Bufs(D), NEW s \in Bufs(D), r # s
      PROVE  Words(r, HEADER) \cap Words(s, HEADER) = {}
  <2>1. PICK x \in D : r = x[1] /\ Accepted(x)
    BY <1>3
  <2>2. PICK y \in D : s = y[1] /\ Accepted(y)
    BY <1>3
  <2>3. Extent(x[1], x[2]) \cap Extent(y[1], y[2]) = {}
    BY <1>7, <2>1, <2>2, ExtentsApart
  <2>4. Words(r, HEADER) \subseteq Extent(x[1], x[2])
    BY <2>1, HeaderPlace
  <2>5. Words(s, HEADER) \subseteq Extent(y[1], y[2])
    BY <2>2, HeaderPlace
  <2> QED
    BY <2>3, <2>4, <2>5
<1>8. ASSUME NEW r \in Bufs(D)
      PROVE  /\ r \in Addr /\ Words(r, HEADER) \subseteq Addr
             /\ NextAt(r) \in Words(r, HEADER) /\ TotalAt(r) \in Words(r, HEADER)
             /\ FreeAt(r) \in Words(r, HEADER) /\ BlocksAt(r) \in Words(r, HEADER)
  <2>1. PICK x \in D : r = x[1] /\ Accepted(x)
    BY <1>3
  <2>2. Words(r, HEADER) = r .. r + 3 /\ r \in Nat /\ r \in Addr
    BY <2>1, HeaderPlace, Place
  <2>3. Words(r, HEADER) \subseteq Addr
    BY <2>1, HeaderPlace, Place
  <2> QED
    BY <2>2, <2>3 DEF NextAt, TotalAt, FreeAt, BlocksAt
<1> QED
  BY <1>4, <1>5, <1>6, <1>7, <1>8

-----------------------------------------------------------------------------
(* Memory in order: every region of the buffers in D has a list of blocks  *)
(* of those buffers, no block is in two of the lists, and none of the      *)
(* blocks in H, which clients have, is in one.                             *)
Good(m, D, H) ==
  /\ m \in [Addr -> Int] /\ Placed(D)
  /\ H \subseteq AllBlocks(D)
  /\ \A r \in Bufs(D) : HasList(m, r) /\ Avail(m, r) \subseteq AllBlocks(D) \ H
  /\ \A r, s \in Bufs(D) : r # s => Avail(m, r) \cap Avail(m, s) = {}

AvailIn(m, D) == UNION {Avail(m, r) : r \in Bufs(D)}

(* The words that links of regions are kept in. *)
SameNext(m, m2, R) == \A r \in R : m2[NextAt(r)] = m[NextAt(r)]

(* A list that is not empty gives its first block. *)
LEMMA ListFirst ==
  ASSUME NEW m, NEW r, HasList(m, r), m[FreeAt(r)] # 0
  PROVE  m[BlocksAt(r)] \in Avail(m, r)
<1>1. PICK f : ListOf(m, r, f)
  BY DEF HasList
<1> DEFINE n == m[FreeAt(r)]
<1>2. n \in Nat /\ n # 0 /\ f[0] = m[BlocksAt(r)]
  BY <1>1 DEF ListOf, Chain
<1>3. Avail(m, r) = {f[k] : k \in 0 .. n - 1}
  BY <1>1, ListBlocks
<1> HIDE DEF n
<1>4. 0 \in 0 .. n - 1
  BY <1>2
<1> QED
  BY <1>2, <1>3, <1>4

(* A block is not among the words of another one, nor of a header. *)
LEMMA Outside ==
  ASSUME NEW D, Placed(D), NEW b \in AllBlocks(D), NEW c \in AllBlocks(D), NEW r \in Bufs(D)
  PROVE  /\ b # c => c \notin Words(b, BLOCKSIZE)
         /\ c \notin Words(r, HEADER)
         /\ Words(b, BLOCKSIZE) \cap Words(r, HEADER) = {}
<1>1. c \in Words(c, BLOCKSIZE)
  BY WordsApart
<1>2. b # c => Words(b, BLOCKSIZE) \cap Words(c, BLOCKSIZE) = {}
  BY WordsApart
<1>3. Words(c, BLOCKSIZE) \cap Words(r, HEADER) = {} /\ Words(b, BLOCKSIZE) \cap Words(r, HEADER) = {}
  BY WordsApart
<1> QED
  BY <1>1, <1>2, <1>3

(* Stores outside the header and the blocks of a region. *)
LEMMA Framed ==
  ASSUME NEW m, NEW D, NEW H, Good(m, D, H), NEW r \in Bufs(D), NEW m2, NEW W,
         \A a \in Addr \ W : m2[a] = m[a],
         W \cap Words(r, HEADER) = {}, W \cap Avail(m, r) = {}
  PROVE  HasList(m2, r) /\ Avail(m2, r) = Avail(m, r) /\ m2[NextAt(r)] = m[NextAt(r)]
<1>1. Placed(D) /\ HasList(m, r) /\ Avail(m, r) \subseteq AllBlocks(D)
  BY DEF Good
<1>2. AllBlocks(D) \subseteq Addr
  BY <1>1, WordsApart
<1>3. /\ Words(r, HEADER) \subseteq Addr /\ NextAt(r) \in Words(r, HEADER)
      /\ FreeAt(r) \in Words(r, HEADER) /\ BlocksAt(r) \in Words(r, HEADER)
  BY <1>1, WordsApart
<1>4. m2[NextAt(r)] = m[NextAt(r)] /\ m2[FreeAt(r)] = m[FreeAt(r)] /\ m2[BlocksAt(r)] = m[BlocksAt(r)]
  BY <1>3
<1>5. \A b \in Avail(m, r) : m2[b] = m[b]
  BY <1>1, <1>2
<1> QED
  BY <1>1, <1>4, <1>5, ListKept

(* A client writes a block that it has. *)
LEMMA GoodUse ==
  ASSUME NEW m, NEW D, NEW H, Good(m, D, H), NEW b \in H, NEW m2 \in [Addr -> Int],
         \A a \in Addr \ Words(b, BLOCKSIZE) : m2[a] = m[a]
  PROVE  Good(m2, D, H) /\ AvailIn(m2, D) = AvailIn(m, D) /\ SameNext(m, m2, Bufs(D))
<1>1. Placed(D) /\ b \in AllBlocks(D)
  BY DEF Good
<1>2. ASSUME NEW r \in Bufs(D)
      PROVE  HasList(m2, r) /\ Avail(m2, r) = Avail(m, r) /\ m2[NextAt(r)] = m[NextAt(r)]
  <2>1. Avail(m, r) \subseteq AllBlocks(D) \ H
    BY DEF Good
  <2>2. Words(b, BLOCKSIZE) \cap Words(r, HEADER) = {}
    BY <1>1, Outside
  <2>3. Words(b, BLOCKSIZE) \cap Avail(m, r) = {}
    BY <1>1, <2>1, Outside
  <2> QED
    BY <2>2, <2>3, Framed
<1>3. Good(m2, D, H)
  BY <1>2 DEF Good
<1>4. AvailIn(m2, D) = AvailIn(m, D)
  BY <1>2 DEF AvailIn
<1> QED
  BY <1>2, <1>3, <1>4 DEF SameNext

(* slab_alloc takes the first block of region r. *)
LEMMA GoodAlloc ==
  ASSUME NEW m, NEW D, NEW H, Good(m, D, H), NEW r \in Bufs(D), m[FreeAt(r)] # 0,
         NEW sb, sb = m[BlocksAt(r)], NEW m2 \in [Addr -> Int],
         \A a \in Addr \ (Words(sb, BLOCKSIZE) \cup {BlocksAt(r), FreeAt(r)}) : m2[a] = m[a],
         BlocksAt(r) \notin Words(sb, BLOCKSIZE) => m2[BlocksAt(r)] = m[sb],
         FreeAt(r) \notin Words(sb, BLOCKSIZE) => m2[FreeAt(r)] = m[FreeAt(r)] - 1
  PROVE  /\ sb \in AvailIn(m, D) /\ sb \notin H
         /\ Good(m2, D, H \cup {sb}) /\ AvailIn(m2, D) = AvailIn(m, D) \ {sb}
         /\ SameNext(m, m2, Bufs(D))
<1> DEFINE W == Words(sb, BLOCKSIZE) \cup {BlocksAt(r), FreeAt(r)}
<1>1. Placed(D) /\ HasList(m, r) /\ Avail(m, r) \subseteq AllBlocks(D) \ H
  BY DEF Good
<1>2. sb \in Avail(m, r)
  BY <1>1, ListFirst
<1>3. sb \in AllBlocks(D) /\ sb \notin H
  BY <1>1, <1>2
<1>4. /\ BlocksAt(r) \in Words(r, HEADER) /\ FreeAt(r) \in Words(r, HEADER)
      /\ NextAt(r) \in Words(r, HEADER) /\ Words(r, HEADER) \subseteq Addr /\ r \in Addr
  BY <1>1, WordsApart
<1>5. Words(sb, BLOCKSIZE) \cap Words(r, HEADER) = {}
  BY <1>1, <1>3, Outside
<1>6. NextAt(r) # BlocksAt(r) /\ NextAt(r) # FreeAt(r)
  BY <1>4 DEF NextAt, BlocksAt, FreeAt, Addr
<1>7. m2[BlocksAt(r)] = m[sb] /\ m2[FreeAt(r)] = m[FreeAt(r)] - 1 /\ m2[NextAt(r)] = m[NextAt(r)]
  BY <1>4, <1>5, <1>6
<1>8. ASSUME NEW c \in Avail(m, r) \ {sb} PROVE m2[c] = m[c]
  <2>1. c \in AllBlocks(D) /\ c # sb
    BY <1>1
  <2>2. c \notin Words(sb, BLOCKSIZE) /\ c \notin Words(r, HEADER)
    BY <1>1, <1>3, <2>1, Outside
  <2>3. c \in Addr
    BY <1>1, <2>1, WordsApart
  <2> QED
    BY <1>4, <2>2, <2>3
<1>9. HasList(m2, r) /\ Avail(m2, r) = Avail(m, r) \ {sb}
  BY <1>1, <1>7, <1>8, ListPop
<1>10. ASSUME NEW q \in Bufs(D), q # r
       PROVE  /\ HasList(m2, q) /\ Avail(m2, q) = Avail(m, q) /\ m2[NextAt(q)] = m[NextAt(q)]
              /\ sb \notin Avail(m, q)
  <2>1. Avail(m, q) \subseteq AllBlocks(D) /\ Avail(m, q) \cap Avail(m, r) = {}
    BY <1>10 DEF Good
  <2>2. Words(q, HEADER) \cap Words(r, HEADER) = {}
    BY <1>1, <1>10, WordsApart
  <2>3. Words(sb, BLOCKSIZE) \cap Words(q, HEADER) = {}
    BY <1>1, <1>3, Outside
  <2>4. W \cap Words(q, HEADER) = {}
    BY <1>4, <2>2, <2>3
  <2>5. sb \notin Avail(m, q)
    BY <1>2, <2>1
  <2>6. ASSUME NEW c \in Avail(m, q) PROVE c \notin W
    <3>1. c \in AllBlocks(D) /\ c # sb
      BY <2>1, <2>5
    <3>2. c \notin Words(sb, BLOCKSIZE) /\ c \notin Words(r, HEADER)
      BY <1>1, <1>3, <3>1, Outside
    <3> QED
      BY <1>4, <3>2
  <2>7. W \cap Avail(m, q) = {}
    BY <2>6
  <2>8. \A a \in Addr \ W : m2[a] = m[a]
    OBVIOUS
  <2> HIDE DEF W
  <2>9. HasList(m2, q) /\ Avail(m2, q) = Avail(m, q) /\ m2[NextAt(q)] = m[NextAt(q)]
    BY <2>4, <2>7, <2>8, Framed
  <2> QED
    BY <2>5, <2>9
<1>11. \A q \in Bufs(D) : HasList(m2, q) /\ Avail(m2, q) = Avail(m, q) \ {sb} /\ m2[NextAt(q)] = m[NextAt(q)]
  BY <1>7, <1>9, <1>10
<1>12. Good(m2, D, H \cup {sb})
  BY <1>3, <1>11 DEF Good
<1>13. AvailIn(m2, D) = AvailIn(m, D) \ {sb} /\ sb \in AvailIn(m, D)
  BY <1>2, <1>11 DEF AvailIn
<1> QED
  BY <1>3, <1>11, <1>12, <1>13 DEF SameNext

(* What slab_free makes of memory when a region takes block b. *)
Returned(m, m2, D, H, b) ==
  /\ Good(m2, D, H \ {b}) /\ AvailIn(m2, D) = AvailIn(m, D) \cup {b} /\ b \notin AvailIn(m, D)
  /\ SameNext(m, m2, Bufs(D))

(* The store of the block's link and the two of the header keep order. *)
LEMMA GoodFree ==
  ASSUME NEW m, NEW D, NEW H, Good(m, D, H), NEW r \in Bufs(D), NEW b \in H, NEW m2 \in [Addr -> Int],
         \A a \in Addr \ {b, BlocksAt(r), FreeAt(r)} : m2[a] = m[a],
         b \notin {BlocksAt(r), FreeAt(r)} => m2[b] = m[BlocksAt(r)],
         m2[BlocksAt(r)] = b, m2[FreeAt(r)] = m[FreeAt(r)] + 1
  PROVE  Returned(m, m2, D, H, b)
<1> DEFINE W == {b, BlocksAt(r), FreeAt(r)}
<1>1. Placed(D) /\ HasList(m, r) /\ Avail(m, r) \subseteq AllBlocks(D) \ H /\ b \in AllBlocks(D)
  BY DEF Good
<1>2. \A q \in Bufs(D) : b \notin Avail(m, q)
  BY DEF Good
<1>3. b \in Addr
  BY <1>1, WordsApart
<1>4. /\ BlocksAt(r) \in Words(r, HEADER) /\ FreeAt(r) \in Words(r, HEADER)
      /\ NextAt(r) \in Words(r, HEADER) /\ Words(r, HEADER) \subseteq Addr /\ r \in Addr
  BY <1>1, WordsApart
<1>5. \A c \in AllBlocks(D) : c \notin Words(r, HEADER)
  BY <1>1, Outside
<1>6. NextAt(r) # BlocksAt(r) /\ NextAt(r) # FreeAt(r) /\ NextAt(r) # b
  BY <1>1, <1>4, <1>5 DEF NextAt, BlocksAt, FreeAt, Addr
<1>7. m2[b] = m[BlocksAt(r)] /\ m2[NextAt(r)] = m[NextAt(r)]
  BY <1>1, <1>4, <1>5, <1>6
<1>8. ASSUME NEW c \in Avail(m, r) PROVE m2[c] = m[c]
  <2>1. c \in AllBlocks(D) /\ c # b
    BY <1>1, <1>2
  <2>2. c \in Addr /\ c \notin Words(r, HEADER)
    BY <1>1, <1>5, <2>1, WordsApart
  <2> QED
    BY <1>4, <2>1, <2>2
<1>9. b \in Addr \ Avail(m, r)
  BY <1>2, <1>3
<1>10. HasList(m2, r) /\ Avail(m2, r) = Avail(m, r) \cup {b}
  BY <1>1, <1>7, <1>8, <1>9, ListPush
<1>11. ASSUME NEW q \in Bufs(D), q # r
       PROVE  HasList(m2, q) /\ Avail(m2, q) = Avail(m, q) /\ m2[NextAt(q)] = m[NextAt(q)]
  <2>1. Avail(m, q) \subseteq AllBlocks(D)
    BY DEF Good
  <2>2. Words(q, HEADER) \cap Words(r, HEADER) = {}
    BY <1>1, <1>11, WordsApart
  <2>3. b \notin Words(q, HEADER)
    BY <1>1, Outside
  <2>4. W \cap Words(q, HEADER) = {}
    BY <1>4, <2>2, <2>3
  <2>5. W \cap Avail(m, q) = {}
    BY <1>2, <1>4, <1>5, <2>1
  <2>6. \A a \in Addr \ W : m2[a] = m[a]
    OBVIOUS
  <2> HIDE DEF W
  <2> QED
    BY <2>4, <2>5, <2>6, Framed
<1>12. ASSUME NEW q \in Bufs(D)
       PROVE  /\ HasList(m2, q) /\ m2[NextAt(q)] = m[NextAt(q)]
              /\ Avail(m2, q) = IF q = r THEN Avail(m, q) \cup {b} ELSE Avail(m, q)
  BY <1>7, <1>10, <1>11
<1>13. Good(m2, D, H \ {b})
  <2>1. ASSUME NEW q \in Bufs(D) PROVE Avail(m2, q) \subseteq AllBlocks(D) \ (H \ {b})
    BY <1>1, <1>12 DEF Good
  <2>2. ASSUME NEW q \in Bufs(D), NEW s \in Bufs(D), q # s PROVE Avail(m2, q) \cap Avail(m2, s) = {}
    <3>1. Avail(m, q) \cap Avail(m, s) = {}
      BY <2>2 DEF Good
    <3> QED
      BY <1>2, <1>12, <2>2, <3>1
  <2> QED
    BY <1>12, <2>1, <2>2 DEF Good
<1>14. AvailIn(m2, D) = AvailIn(m, D) \cup {b}
  <2>1. ASSUME NEW c PROVE c \in AvailIn(m2, D) <=> c \in AvailIn(m, D) \cup {b}
    BY <1>12 DEF AvailIn
  <2> QED
    BY <2>1
<1>15. b \notin AvailIn(m, D)
  BY <1>2 DEF AvailIn
<1> QED
  BY <1>12, <1>13, <1>14, <1>15 DEF SameNext, Returned

-----------------------------------------------------------------------------
(* slab_grow adds the buffer x.                                            *)
GrownFrom(m, first, x) ==
  [a \in Addr |->
     CASE a = NextAt(x[1])   -> first
       [] a = TotalAt(x[1])  -> BlockCount(x[2])
       [] a = FreeAt(x[1])   -> BlockCount(x[2])
       [] a = BlocksAt(x[1]) -> FirstBlock(x[1], x[2])
       [] a \in Nodes(x[1], x[2]) \ {x[1]} ->
            IF a = LastNode(x[1], x[2]) THEN NULL ELSE a + BLOCKSIZE
       [] OTHER -> m[a]]

(* What it stores. *)
LEMMA GrownStores ==
  ASSUME NEW m \in [Addr -> Int], NEW first \in Int, NEW x, Accepted(x), NEW m2, m2 = GrownFrom(m, first, x)
  PROVE  /\ m2 \in [Addr -> Int]
         /\ \A a \in Addr \ Extent(x[1], x[2]) : m2[a] = m[a]
         /\ m2[NextAt(x[1])] = first /\ m2[FreeAt(x[1])] = BlockCount(x[2])
         /\ m2[BlocksAt(x[1])] = FirstBlock(x[1], x[2])
         /\ \A i \in 0 .. BlockCount(x[2]) - 1 :
              i + 1 < BlockCount(x[2]) =>
                m2[FirstBlock(x[1], x[2]) + i * BLOCKSIZE] = FirstBlock(x[1], x[2]) + (i + 1) * BLOCKSIZE
<1> DEFINE n == BlockCount(x[2])
           F == FirstBlock(x[1], x[2])
           B == BLOCKSIZE
           buf == x[1]
           N == Nodes(buf, x[2])
           L == LastNode(buf, x[2])
           G(a) == CASE a = buf -> first
                     [] a = buf + 1 -> n
                     [] a = buf + 2 -> n
                     [] a = buf + 3 -> F
                     [] a \in N \ {buf} -> IF a = L THEN NULL ELSE a + B
                     [] OTHER -> m[a]
<1>1. m2 = [a \in Addr |-> G(a)]
  BY Zenon DEF GrownFrom, NextAt, TotalAt, FreeAt, BlocksAt
<1>2. /\ buf \in Nat /\ F \in Int /\ n \in Nat \ {0} /\ n * B \in Nat /\ F + n * B <= buf
      /\ Extent(buf, x[2]) = F .. buf + 3 /\ Extent(buf, x[2]) \subseteq Addr
  BY Place
<1>3. B \in Nat \ {0}
  BY SlabAssumption
<1>4. L = F + n * B
  BY DEF LastNode
<1>5. N = {F + i * B : i \in 0 .. n}
  BY DEF Nodes
<1> HIDE DEF n, F, B, buf, N, L
<1>6. \A i \in 0 .. n : i * B \in Nat /\ i * B <= n * B /\ (i < n => i * B + B <= n * B)
  <2> SUFFICES ASSUME NEW i \in 0 .. n PROVE i * B \in Nat /\ i * B <= n * B /\ (i < n => i * B + B <= n * B)
    OBVIOUS
  <2>1. CASE i = n
    BY <1>2, <2>1
  <2>2. CASE i # n
    <3>1. i \in Nat /\ n \in Nat /\ i < n /\ B \in Nat
      BY <1>2, <1>3, <2>2
    <3>2. i * B \in Nat /\ n * B \in Nat /\ i * B + B <= n * B
      BY <3>1, Rows
    <3> QED
      BY <3>1, <3>2
  <2> QED
    BY <2>1, <2>2
<1>7. N \subseteq F .. buf
  BY <1>2, <1>5, <1>6
<1>8. m2 \in [Addr -> Int]
  <2>1. ASSUME NEW a \in Addr PROVE G(a) \in Int
    <3>1. a \in Int /\ m[a] \in Int /\ NULL \in Int
      BY DEF Addr, NULL
    <3> QED
      BY <1>2, <1>3, <3>1
  <2> HIDE DEF G
  <2> QED
    BY <1>1, <2>1
<1>9. ASSUME NEW a \in Addr \ (F .. buf + 3) PROVE m2[a] = m[a]
  <2>1. a \in Int
    BY DEF Addr
  <2>2. a # buf /\ a # buf + 1 /\ a # buf + 2 /\ a # buf + 3 /\ a \notin N
    BY <1>2, <1>3, <1>6, <1>7, <2>1
  <2>3. G(a) = m[a]
    BY <2>2
  <2> HIDE DEF G
  <2> QED
    BY <1>1, <2>3
<1>10. buf \in Addr /\ buf + 1 \in Addr /\ buf + 2 \in Addr /\ buf + 3 \in Addr
  <2>1. {buf, buf + 1, buf + 2, buf + 3} \subseteq F .. buf + 3
    BY <1>2
  <2> QED
    BY <1>2, <2>1
<1>11. G(buf) = first /\ G(buf + 2) = n /\ G(buf + 3) = F
  <2>1. G(buf) = first
    BY <1>2
  <2>2. buf + 2 \notin N /\ buf + 3 \notin N
    BY <1>2, <1>7
  <2>3. G(buf + 2) = n
    BY <1>2, <2>2
  <2>4. G(buf + 3) = F
    BY <1>2, <2>2
  <2> QED
    BY <2>1, <2>3, <2>4
<1>12. m2[buf] = first /\ m2[buf + 2] = n /\ m2[buf + 3] = F
  <2> HIDE DEF G
  <2> QED
    BY <1>1, <1>10, <1>11
<1>13. ASSUME NEW i \in 0 .. n - 1, i + 1 < n PROVE m2[F + i * B] = F + (i + 1) * B
  <2>1. i \in 0 .. n /\ i + 1 \in 0 .. n
    BY <1>2
  <2>2. i * B \in Nat /\ (i + 1) * B \in Nat /\ (i + 1) * B = i * B + B
    BY <1>3, <2>1
  <2>3. (i + 1) * B + B <= n * B
    BY <1>6, <1>13, <2>1
  <2>4. F + i * B \in N
    BY <1>5, <2>1
  <2> DEFINE a == F + i * B
  <2>5. a \in Int /\ a + B = F + (i + 1) * B /\ a < buf /\ F <= a /\ a # L
    BY <1>2, <1>3, <1>4, <2>2, <2>3
  <2>6. a \in Addr
    <3>1. a \in F .. buf + 3
      BY <1>2, <2>5
    <3> QED
      BY <1>2, <3>1
  <2>7. a \in N
    BY <2>4
  <2> HIDE DEF a
  <2>8. G(a) = a + B
    BY <1>2, <2>5, <2>7
  <2>9. m2[a] = a + B
    <3> HIDE DEF G
    <3> QED
      BY <1>1, <2>6, <2>8
  <2> QED
    BY <2>5, <2>9 DEF a
<1> HIDE DEF G
<1> QED
  BY <1>2, <1>8, <1>9, <1>12, <1>13, Zenon DEF n, F, B, buf, NextAt, FreeAt, BlocksAt

(* The list of the new region. *)
LEMMA ListNew ==
  ASSUME NEW m, NEW x, Accepted(x),
         m[FreeAt(x[1])] = BlockCount(x[2]), m[BlocksAt(x[1])] = FirstBlock(x[1], x[2]),
         \A i \in 0 .. BlockCount(x[2]) - 1 :
           i + 1 < BlockCount(x[2]) =>
             m[FirstBlock(x[1], x[2]) + i * BLOCKSIZE] = FirstBlock(x[1], x[2]) + (i + 1) * BLOCKSIZE
  PROVE  HasList(m, x[1]) /\ Avail(m, x[1]) = BlocksOf(x)
<1> DEFINE n == BlockCount(x[2])
           F == FirstBlock(x[1], x[2])
           B == BLOCKSIZE
           h == [k \in 0 .. n - 1 |-> F + k * B]
<1>1. n \in Nat /\ n # 0 /\ F \in Int /\ B \in Nat \ {0}
  BY Place, SlabAssumption
<1>2. BlocksOf(x) = {F + k * B : k \in 0 .. n - 1}
  BY DEF BlocksOf
<1>3. \A b \in BlocksOf(x) : b \in Addr
  BY BlockPlace
<1>4. \A i \in 0 .. n - 1 : i + 1 < n => m[F + i * B] = F + (i + 1) * B
  OBVIOUS
<1> HIDE DEF n, F, B
<1>5. h \in [0 .. n - 1 -> Addr] /\ \A k \in 0 .. n - 1 : h[k] = F + k * B
  BY <1>2, <1>3
<1>6. BlocksOf(x) = {h[k] : k \in 0 .. n - 1}
  BY <1>2, <1>5
<1> HIDE DEF h
<1>7. ASSUME NEW i \in 0 .. n - 1, NEW j \in 0 .. n - 1, i < j PROVE h[i] # h[j]
  <2>1. i * B \in Nat /\ j * B \in Nat /\ i * B + B <= j * B
    BY <1>1, <1>7, Rows
  <2> QED
    BY <1>1, <1>5, <2>1
<1>8. \A i, j \in 0 .. n - 1 : h[i] = h[j] => i = j
  BY <1>1, <1>7
<1>9. h[0] = F
  BY <1>1, <1>5
<1>10. ASSUME NEW k \in 1 .. n - 1 PROVE h[k] = m[h[k - 1]]
  <2>1. k - 1 \in 0 .. n - 1 /\ (k - 1) + 1 < n /\ (k - 1) + 1 = k /\ k \in 0 .. n - 1
    BY <1>1
  <2>2. m[F + (k - 1) * B] = F + ((k - 1) + 1) * B
    BY <1>4, <2>1
  <2>3. h[k - 1] = F + (k - 1) * B /\ h[k] = F + k * B
    BY <1>5, <2>1
  <2> QED
    BY <2>1, <2>2, <2>3
<1>11. Chain(m, F, n, h)
  BY <1>1, <1>5, <1>8, <1>9, <1>10 DEF Chain
<1>12. ListOf(m, x[1], h)
  BY <1>11 DEF ListOf, n, F
<1>13. Avail(m, x[1]) = {h[k] : k \in 0 .. n - 1}
  BY <1>12, ListBlocks DEF n
<1> QED
  BY <1>6, <1>12, <1>13 DEF HasList

(* Nothing that was there before is in the words slab_grow stores to. *)
LEMMA NewExtent ==
  ASSUME NEW D, NEW x, Placed(D \cup {x}), x \notin D
  PROVE  /\ Placed(D) /\ Accepted(x) /\ AllBlocks(D) \cap Extent(x[1], x[2]) = {}
         /\ \A b \in AllBlocks(D) : Words(b, BLOCKSIZE) \cap Extent(x[1], x[2]) = {}
         /\ \A r \in Bufs(D) : Words(r, HEADER) \cap Extent(x[1], x[2]) = {}
         /\ x[1] \notin Bufs(D)
<1>1. Placed(D) /\ Accepted(x) /\ x[1] \notin Bufs(D)
  BY DEF Placed, Bufs
<1>2. \A y \in D : Accepted(y) /\ Extent(x[1], x[2]) \cap Extent(y[1], y[2]) = {}
  <2> TAKE y \in D
  <2>1. x \in D \cup {x} /\ y \in D \cup {x} /\ x # y
    OBVIOUS
  <2> QED
    BY <2>1, ExtentsApart DEF Placed
<1>3. ASSUME NEW b \in AllBlocks(D) PROVE Words(b, BLOCKSIZE) \cap Extent(x[1], x[2]) = {}
  <2>1. PICK y \in D : b \in BlocksOf(y)
    BY DEF AllBlocks
  <2>2. Words(b, BLOCKSIZE) \subseteq Extent(y[1], y[2])
    BY <1>2, <2>1, BlockPlace
  <2> QED
    BY <1>2, <2>2
<1>4. ASSUME NEW r \in Bufs(D) PROVE Words(r, HEADER) \cap Extent(x[1], x[2]) = {}
  <2>1. PICK y \in D : r = y[1]
    BY DEF Bufs
  <2>2. Words(r, HEADER) \subseteq Extent(y[1], y[2])
    BY <1>2, <2>1, HeaderPlace
  <2> QED
    BY <1>2, <2>2
<1>5. \A b \in AllBlocks(D) : b \in Words(b, BLOCKSIZE)
  BY <1>1, WordsApart
<1> QED
  BY <1>1, <1>3, <1>4, <1>5

(* What slab_grow makes of memory. *)
Extended(m, m2, D, H, x, first) ==
  /\ Good(m2, D \cup {x}, H) /\ AvailIn(m2, D \cup {x}) = AvailIn(m, D) \cup BlocksOf(x)
  /\ AvailIn(m, D) \cap BlocksOf(x) = {}
  /\ IsFiniteSet(BlocksOf(x)) /\ Cardinality(BlocksOf(x)) = BlockCount(x[2])
  /\ SameNext(m, m2, Bufs(D)) /\ m2[NextAt(x[1])] = first
  /\ x[1] \in Addr /\ x[1] \notin Bufs(D)

(* The stores of slab_grow keep order, and add as many blocks as it counts. *)
LEMMA GoodGrow ==
  ASSUME NEW m, NEW D, NEW H, Good(m, D, H), NEW x, Placed(D \cup {x}), x \notin D,
         NEW first \in Int, NEW m2, m2 = GrownFrom(m, first, x)
  PROVE  Extended(m, m2, D, H, x, first)
<1> DEFINE E == Extent(x[1], x[2])
<1>1. /\ Placed(D) /\ Accepted(x) /\ AllBlocks(D) \cap E = {} /\ x[1] \notin Bufs(D)
      /\ \A r \in Bufs(D) : Words(r, HEADER) \cap E = {}
  BY NewExtent
<1>2. m \in [Addr -> Int] /\ H \subseteq AllBlocks(D)
  BY DEF Good
<1>3. m2 \in [Addr -> Int] /\ \A a \in Addr \ E : m2[a] = m[a]
  BY <1>1, <1>2, GrownStores
<1>4. m2[NextAt(x[1])] = first /\ m2[FreeAt(x[1])] = BlockCount(x[2]) /\ m2[BlocksAt(x[1])] = FirstBlock(x[1], x[2])
  BY <1>1, <1>2, GrownStores
<1>5. HasList(m2, x[1]) /\ Avail(m2, x[1]) = BlocksOf(x)
  <2>1. \A i \in 0 .. BlockCount(x[2]) - 1 :
          i + 1 < BlockCount(x[2]) =>
            m2[FirstBlock(x[1], x[2]) + i * BLOCKSIZE] = FirstBlock(x[1], x[2]) + (i + 1) * BLOCKSIZE
    BY <1>1, <1>2, GrownStores
  <2> QED
    BY <1>1, <1>4, <2>1, ListNew
<1> HIDE DEF E
<1>6. ASSUME NEW r \in Bufs(D)
      PROVE  HasList(m2, r) /\ Avail(m2, r) = Avail(m, r) /\ m2[NextAt(r)] = m[NextAt(r)]
  <2>1. Avail(m, r) \subseteq AllBlocks(D)
    BY DEF Good
  <2>2. E \cap Words(r, HEADER) = {} /\ E \cap Avail(m, r) = {}
    BY <1>1, <2>1
  <2> QED
    BY <1>3, <2>2, Framed
<1>7. Bufs(D \cup {x}) = Bufs(D) \cup {x[1]}
  BY DEF Bufs
<1>8. AllBlocks(D \cup {x}) = AllBlocks(D) \cup BlocksOf(x)
  BY DEF AllBlocks
<1>9. BlocksOf(x) \cap AllBlocks(D) = {}
  <2>1. ASSUME NEW b \in BlocksOf(x) PROVE b \in E
    <3>1. Words(b, BLOCKSIZE) \subseteq E /\ b \in Int
      BY <1>1, BlockPlace DEF E
    <3>2. b \in Words(b, BLOCKSIZE)
      BY <3>1, SlabAssumption DEF Words
    <3> QED
      BY <3>1, <3>2
  <2> QED
    BY <1>1, <2>1
<1>10. \A r \in Bufs(D) : Avail(m, r) \subseteq AllBlocks(D) \ H
  BY DEF Good
<1>11. Good(m2, D \cup {x}, H)
  <2>1. ASSUME NEW r \in Bufs(D \cup {x})
        PROVE  HasList(m2, r) /\ Avail(m2, r) \subseteq AllBlocks(D \cup {x}) \ H
    BY <1>2, <1>5, <1>6, <1>7, <1>8, <1>9, <1>10
  <2>2. ASSUME NEW r \in Bufs(D \cup {x}), NEW s \in Bufs(D \cup {x}), r # s
        PROVE  Avail(m2, r) \cap Avail(m2, s) = {}
    <3>1. CASE r \in Bufs(D) /\ s \in Bufs(D)
      BY <1>6, <2>2, <3>1 DEF Good
    <3>2. CASE r = x[1] \/ s = x[1]
      BY <1>1, <1>5, <1>6, <1>7, <1>9, <1>10, <2>2, <3>2
    <3> QED
      BY <1>7, <3>1, <3>2
  <2>3. H \subseteq AllBlocks(D \cup {x})
    BY <1>2, <1>8
  <2> QED
    BY <1>3, <2>1, <2>2, <2>3 DEF Good
<1>12. AvailIn(m2, D \cup {x}) = AvailIn(m, D) \cup BlocksOf(x)
  <2>1. ASSUME NEW c \in AvailIn(m2, D \cup {x}) PROVE c \in AvailIn(m, D) \cup BlocksOf(x)
    <3>1. PICK r \in Bufs(D \cup {x}) : c \in Avail(m2, r)
      BY DEF AvailIn
    <3>2. CASE r \in Bufs(D)
      BY <1>6, <3>1, <3>2 DEF AvailIn
    <3>3. CASE r = x[1]
      BY <1>5, <3>1, <3>3
    <3> QED
      BY <1>7, <3>2, <3>3
  <2>2. ASSUME NEW c \in BlocksOf(x) PROVE c \in AvailIn(m2, D \cup {x})
    <3>1. x[1] \in Bufs(D \cup {x}) /\ c \in Avail(m2, x[1])
      BY <1>5, <1>7
    <3> QED
      BY <3>1 DEF AvailIn
  <2>3. ASSUME NEW c \in AvailIn(m, D) PROVE c \in AvailIn(m2, D \cup {x})
    <3>1. PICK r \in Bufs(D) : c \in Avail(m, r)
      BY DEF AvailIn
    <3>2. r \in Bufs(D \cup {x}) /\ c \in Avail(m2, r)
      BY <1>6, <1>7, <3>1
    <3> QED
      BY <3>2 DEF AvailIn
  <2> QED
    BY <2>1, <2>2, <2>3
<1>13. AvailIn(m, D) \cap BlocksOf(x) = {}
  BY <1>9, <1>10 DEF AvailIn
<1>14. IsFiniteSet(BlocksOf(x)) /\ Cardinality(BlocksOf(x)) = BlockCount(x[2])
  <2>1. PICK f : ListOf(m2, x[1], f)
    BY <1>5 DEF HasList
  <2> QED
    BY <1>4, <1>5, <2>1, ListBlocks
<1>15. x[1] \in Addr
  BY <1>1, HeaderPlace
<1> QED
  BY <1>1, <1>4, <1>6, <1>11, <1>12, <1>13, <1>14, <1>15 DEF SameNext, Extended

-----------------------------------------------------------------------------
(* The counters of the allocator: the blocks in A are free, those in H     *)
(* with clients.                                                           *)
Counted(A, H, fr, tot) ==
  /\ IsFiniteSet(A) /\ IsFiniteSet(H)
  /\ fr = Cardinality(A) /\ fr + Cardinality(H) = tot

(* slab_alloc: one block less is free. *)
LEMMA CountTake ==
  ASSUME NEW A, NEW H, NEW fr, NEW tot, Counted(A, H, fr, tot), NEW b \in A, b \notin H
  PROVE  Counted(A \ {b}, H \cup {b}, fr - 1, tot)
<1>1. IsFiniteSet(A) /\ IsFiniteSet(H) /\ fr = Cardinality(A) /\ fr + Cardinality(H) = tot
  BY DEF Counted
<1>2. Cardinality(A) \in Nat /\ Cardinality(H) \in Nat
  BY <1>1, FS_CardinalityType
<1>3. IsFiniteSet(A \ {b}) /\ Cardinality(A \ {b}) = Cardinality(A) - 1
  BY <1>1, FS_RemoveElement
<1>4. IsFiniteSet(H \cup {b}) /\ Cardinality(H \cup {b}) = Cardinality(H) + 1
  BY <1>1, FS_AddElement
<1> QED
  BY <1>1, <1>2, <1>3, <1>4 DEF Counted

(* slab_free: one block more is free. *)
LEMMA CountReturn ==
  ASSUME NEW A, NEW H, NEW fr, NEW tot, Counted(A, H, fr, tot), NEW b \in H, b \notin A
  PROVE  Counted(A \cup {b}, H \ {b}, fr + 1, tot)
<1>1. IsFiniteSet(A) /\ IsFiniteSet(H) /\ fr = Cardinality(A) /\ fr + Cardinality(H) = tot
  BY DEF Counted
<1>2. Cardinality(A) \in Nat /\ Cardinality(H) \in Nat
  BY <1>1, FS_CardinalityType
<1>3. IsFiniteSet(H \ {b}) /\ Cardinality(H \ {b}) = Cardinality(H) - 1
  BY <1>1, FS_RemoveElement
<1>4. IsFiniteSet(A \cup {b}) /\ Cardinality(A \cup {b}) = Cardinality(A) + 1
  BY <1>1, FS_AddElement
<1> QED
  BY <1>1, <1>2, <1>3, <1>4 DEF Counted

(* slab_grow: both counters grow by the number of new blocks. *)
LEMMA CountAdd ==
  ASSUME NEW A, NEW H, NEW fr, NEW tot, Counted(A, H, fr, tot),
         NEW T, IsFiniteSet(T), A \cap T = {}, NEW k, k = Cardinality(T)
  PROVE  Counted(A \cup T, H, fr + k, tot + k)
<1>1. IsFiniteSet(A) /\ IsFiniteSet(H) /\ fr = Cardinality(A) /\ fr + Cardinality(H) = tot
  BY DEF Counted
<1>2. Cardinality(A) \in Nat /\ Cardinality(H) \in Nat /\ Cardinality(T) \in Nat
  BY <1>1, FS_CardinalityType
<1>3. IsFiniteSet(A \cup T) /\ Cardinality(A \cup T) = Cardinality(A) + Cardinality(T) - Cardinality(A \cap T)
  BY <1>1, FS_Union
<1>4. Cardinality(A \cap T) = 0
  BY FS_EmptySet
<1> QED
  BY <1>1, <1>2, <1>3, <1>4 DEF Counted

(* The region list stays linked. *)
LEMMA LinkedKept ==
  ASSUME NEW m, NEW R, NEW start, NEW n, NEW g, Linked(m, R, start, n, g),
         NEW m2, SameNext(m, m2, R)
  PROVE  Linked(m2, R, start, n, g)
  BY DEF Linked, SameNext

(* slab_grow puts its region before the others. *)
LEMMA LinkedNew ==
  ASSUME NEW m, NEW R, NEW start, NEW n, NEW g, Linked(m, R, start, n, g),
         NEW m2, SameNext(m, m2, R), NEW r \in Addr \ R, m2[NextAt(r)] = start
  PROVE  \E k, h : Linked(m2, R \cup {r}, r, k, h)
<1> DEFINE h == [i \in 0 .. n + 1 |-> IF i = n + 1 THEN r ELSE g[i]]
<1>1. /\ n \in Nat /\ R \subseteq Addr /\ g \in [0 .. n -> R \cup {NULL}] /\ g[0] = NULL /\ g[n] = start
      /\ \A i \in 1 .. n : g[i] \in R /\ m[NextAt(g[i])] = g[i - 1]
      /\ \A i, j \in 0 .. n : g[i] = g[j] => i = j
      /\ \A s \in R : \E i \in 1 .. n : g[i] = s
  BY DEF Linked
<1>2. r # NULL /\ r \notin R
  BY DEF Addr, NULL
<1>3. \A i \in 0 .. n + 1 : i = n + 1 \/ i \in 0 .. n
  BY <1>1
<1>4. \A i \in 0 .. n : i \in 0 .. n + 1 /\ i # n + 1
  BY <1>1
<1>5. h[n + 1] = r /\ \A i \in 0 .. n : h[i] = g[i]
  BY <1>1, <1>4
<1>6. h \in [0 .. n + 1 -> (R \cup {r}) \cup {NULL}]
  BY <1>1, <1>3
<1> HIDE DEF h
<1>7. h[0] = NULL
  BY <1>1, <1>5
<1>8. ASSUME NEW i \in 1 .. n + 1 PROVE h[i] \in R \cup {r} /\ m2[NextAt(h[i])] = h[i - 1]
  <2>1. CASE i = n + 1
    <3>1. i - 1 = n /\ n \in 0 .. n
      BY <1>1, <2>1
    <3> QED
      BY <1>1, <1>5, <2>1, <3>1
  <2>2. CASE i # n + 1
    <3>1. i \in 1 .. n /\ i \in 0 .. n /\ i - 1 \in 0 .. n
      BY <1>1, <2>2
    <3>2. g[i] \in R /\ m[NextAt(g[i])] = g[i - 1]
      BY <1>1, <3>1
    <3> QED
      BY <1>5, <3>1, <3>2 DEF SameNext
  <2> QED
    BY <2>1, <2>2
<1>9. \A i, j \in 0 .. n + 1 : h[i] = h[j] => i = j
  <2>1. \A i \in 0 .. n : h[i] # r
    BY <1>1, <1>2, <1>5
  <2> QED
    BY <1>1, <1>3, <1>5, <2>1
<1>10. ASSUME NEW s \in R \cup {r} PROVE \E i \in 1 .. n + 1 : h[i] = s
  <2>1. CASE s = r
    <3>1. n + 1 \in 1 .. n + 1
      BY <1>1
    <3> QED
      BY <1>5, <2>1, <3>1
  <2>2. CASE s \in R
    <3>1. PICK i \in 1 .. n : g[i] = s
      BY <1>1, <2>2
    <3>2. i \in 1 .. n + 1 /\ i \in 0 .. n
      BY <1>1, <3>1
    <3> QED
      BY <1>5, <3>1, <3>2
  <2> QED
    BY <2>1, <2>2
<1>11. n + 1 \in Nat /\ R \cup {r} \subseteq Addr
  BY <1>1
<1>12. Linked(m2, R \cup {r}, r, n + 1, h)
  BY <1>5, <1>6, <1>7, <1>8, <1>9, <1>10, <1>11 DEF Linked
<1> QED
  BY <1>12

-----------------------------------------------------------------------------
(* The inductive invariant.                                                *)
SlabInv ==
  /\ Good(mem, donated, held)
  /\ \E n, g : Linked(mem, Bufs(donated), regions, n, g)
  /\ Counted(AvailIn(mem, donated), held, free, total)

(* The free blocks of the model are those of memory. *)
LEMMA AllAvailableIs == AllAvailable = AvailIn(mem, donated)
<1>1. \A r : Available(r) = Avail(mem, r)
  BY AvailableIs
<1>2. RegionList = Bufs(donated)
  BY DEF RegionList, Bufs
<1> QED
  BY <1>1, <1>2 DEF AllAvailable, AvailIn

(* The walks of slab_alloc and slab_free find a region if there is one. *)
LEMMA Found ==
  ASSUME SlabInv, NEW S \in SUBSET RegionList
  PROVE  FirstOf(S) \in S \cup {NULL} /\ (FirstOf(S) = NULL => S = {})
<1>1. RegionList = Bufs(donated)
  BY DEF RegionList, Bufs
<1>2. PICK n, g : Linked(mem, RegionList, regions, n, g)
  BY <1>1 DEF SlabInv
<1>3. FirstOf(S) = FirstIn(mem, RegionList, regions, S)
  BY FirstOfIs
<1> QED
  BY <1>2, <1>3, WalkFinds

(* The stores of slab_alloc. *)
LEMMA AllocStores ==
  ASSUME NEW m \in [Addr -> Int], NEW r, NEW sb \in Addr, BlocksAt(r) \in Addr, FreeAt(r) \in Addr,
         BlocksAt(r) # FreeAt(r),
         BlocksAt(r) \notin Words(sb, BLOCKSIZE), FreeAt(r) \notin Words(sb, BLOCKSIZE), NEW m2,
         m2 = [a \in Addr |-> CASE a \in Words(sb, BLOCKSIZE) -> 0
                                [] a = BlocksAt(r) -> m[sb]
                                [] a = FreeAt(r) -> m[a] - 1
                                [] OTHER -> m[a]]
  PROVE  /\ m2 \in [Addr -> Int]
         /\ \A a \in Addr \ (Words(sb, BLOCKSIZE) \cup {BlocksAt(r), FreeAt(r)}) : m2[a] = m[a]
         /\ m2[BlocksAt(r)] = m[sb] /\ m2[FreeAt(r)] = m[FreeAt(r)] - 1
<1> DEFINE G(a) == CASE a \in Words(sb, BLOCKSIZE) -> 0
                     [] a = BlocksAt(r) -> m[sb]
                     [] a = FreeAt(r) -> m[a] - 1
                     [] OTHER -> m[a]
<1>1. m2 = [a \in Addr |-> G(a)]
  BY Zenon
<1>2. ASSUME NEW a \in Addr PROVE G(a) \in Int
  <2>1. m[a] \in Int /\ m[sb] \in Int
    OBVIOUS
  <2> QED
    BY <2>1
<1>3. ASSUME NEW a \in Addr \ (Words(sb, BLOCKSIZE) \cup {BlocksAt(r), FreeAt(r)}) PROVE G(a) = m[a]
  OBVIOUS
<1>4. G(BlocksAt(r)) = m[sb] /\ G(FreeAt(r)) = m[FreeAt(r)] - 1
  OBVIOUS
<1> HIDE DEF G
<1> QED
  BY <1>1, <1>2, <1>3, <1>4

(* The stores of slab_free. *)
LEMMA FreeStores ==
  ASSUME NEW m \in [Addr -> Int], NEW r, NEW b \in Addr, BlocksAt(r) \in Addr, FreeAt(r) \in Addr,
         BlocksAt(r) # FreeAt(r), b # BlocksAt(r), b # FreeAt(r), NEW m2,
         m2 = [m EXCEPT ![b] = m[BlocksAt(r)], ![BlocksAt(r)] = b, ![FreeAt(r)] = @ + 1]
  PROVE  /\ m2 \in [Addr -> Int]
         /\ \A a \in Addr \ {b, BlocksAt(r), FreeAt(r)} : m2[a] = m[a]
         /\ m2[b] = m[BlocksAt(r)] /\ m2[BlocksAt(r)] = b /\ m2[FreeAt(r)] = m[FreeAt(r)] + 1
<1> DEFINE p == BlocksAt(r)
           q == FreeAt(r)
<1>1. p \in Addr /\ q \in Addr /\ p # q /\ b # p /\ b # q
  OBVIOUS
<1>2. m2 = [m EXCEPT ![b] = m[p], ![p] = b, ![q] = m[q] + 1]
  OBVIOUS
<1> HIDE DEF p, q
<1>3. b \in Int /\ m[p] \in Int /\ m[q] + 1 \in Int
  BY <1>1 DEF Addr
<1>4. m2 \in [Addr -> Int]
  BY <1>1, <1>2, <1>3
<1>5. \A a \in Addr \ {b, p, q} : m2[a] = m[a]
  BY <1>1, <1>2
<1>6. m2[b] = m[p] /\ m2[p] = b /\ m2[q] = m[q] + 1
  BY <1>1, <1>2
<1> QED
  BY <1>4, <1>5, <1>6 DEF p, q

-----------------------------------------------------------------------------
(* What each operation does to memory in order.                            *)

(* slab_alloc. *)
LEMMA AllocEffect ==
  ASSUME SlabInv, AllocGives
  PROVE  \E r \in Bufs(donated), sb \in AvailIn(mem, donated) :
           /\ got' = sb /\ held' = held \cup {sb} /\ sb \notin held /\ free' = free - 1
           /\ UNCHANGED <<regions, total, donated>>
           /\ Good(mem', donated, held \cup {sb})
           /\ AvailIn(mem', donated) = AvailIn(mem, donated) \ {sb}
           /\ SameNext(mem, mem', Bufs(donated))
           /\ \A a \in Addr \ (Words(sb, BLOCKSIZE) \cup Words(r, HEADER)) : mem'[a] = mem[a]
<1> DEFINE S == {q \in RegionList : mem[FreeAt(q)] # 0}
           r == WithFree
           sb == mem[BlocksAt(r)]
           m2 == mem'
<1>1. Good(mem, donated, held) /\ mem \in [Addr -> Int] /\ Placed(donated)
  BY DEF SlabInv, Good
<1>2. /\ free # 0 /\ r # NULL
      /\ m2 = [a \in Addr |-> CASE a \in Words(sb, BLOCKSIZE) -> 0
                                [] a = BlocksAt(r) -> mem[sb]
                                [] a = FreeAt(r) -> mem[a] - 1
                                [] OTHER -> mem[a]]
  BY Zenon DEF AllocGives
<1>3. free' = free - 1 /\ held' = held \cup {sb} /\ got' = sb /\ UNCHANGED <<regions, total, donated>>
  BY DEF AllocGives
<1>4. r \in S \cup {NULL}
  BY Found DEF WithFree
<1>5. r \in Bufs(donated) /\ mem[FreeAt(r)] # 0
  BY <1>2, <1>4 DEF RegionList, Bufs
<1> HIDE DEF r, sb, m2, S
<1>6. sb = mem[BlocksAt(r)]
  BY DEF sb
<1>7. HasList(mem, r) /\ Avail(mem, r) \subseteq AllBlocks(donated)
  BY <1>1, <1>5 DEF Good
<1>8. sb \in AllBlocks(donated)
  BY <1>5, <1>6, <1>7, ListFirst
<1>9. sb \in Addr
  BY <1>1, <1>8, WordsApart
<1>10. /\ r \in Addr /\ Words(r, HEADER) \subseteq Addr
       /\ FreeAt(r) \in Words(r, HEADER) /\ BlocksAt(r) \in Words(r, HEADER)
  BY <1>1, <1>5, WordsApart
<1>11. Words(sb, BLOCKSIZE) \cap Words(r, HEADER) = {}
  BY <1>1, <1>5, <1>8, Outside
<1>12. FreeAt(r) # BlocksAt(r)
  BY <1>10 DEF FreeAt, BlocksAt, Addr
<1>13. /\ BlocksAt(r) \in Addr /\ FreeAt(r) \in Addr
       /\ BlocksAt(r) \notin Words(sb, BLOCKSIZE) /\ FreeAt(r) \notin Words(sb, BLOCKSIZE)
  BY <1>10, <1>11
<1>14. /\ m2 \in [Addr -> Int]
       /\ \A a \in Addr \ (Words(sb, BLOCKSIZE) \cup {BlocksAt(r), FreeAt(r)}) : m2[a] = mem[a]
       /\ m2[BlocksAt(r)] = mem[sb] /\ m2[FreeAt(r)] = mem[FreeAt(r)] - 1
  BY <1>1, <1>2, <1>9, <1>12, <1>13, AllocStores
<1>15. /\ sb \in AvailIn(mem, donated) /\ sb \notin held
       /\ Good(m2, donated, held \cup {sb}) /\ AvailIn(m2, donated) = AvailIn(mem, donated) \ {sb}
       /\ SameNext(mem, m2, Bufs(donated))
  BY <1>1, <1>5, <1>6, <1>14, GoodAlloc
<1>16. \A a \in Addr \ (Words(sb, BLOCKSIZE) \cup Words(r, HEADER)) : m2[a] = mem[a]
  BY <1>10, <1>14
<1>17. sb \in AvailIn(mem, donated)
  BY <1>15
<1> QED
  BY <1>3, <1>5, <1>15, <1>16, <1>17 DEF m2

(* slab_free. *)
LEMMA FreeEffect ==
  ASSUME SlabInv, NEW b \in held \cup {NULL}, FreeTakes(b)
  PROVE  \E r \in Bufs(donated) :
           /\ b \in held /\ b \notin AvailIn(mem, donated)
           /\ held' = held \ {b} /\ free' = free + 1
           /\ UNCHANGED <<regions, total, donated, got>>
           /\ Good(mem', donated, held \ {b})
           /\ AvailIn(mem', donated) = AvailIn(mem, donated) \cup {b}
           /\ SameNext(mem, mem', Bufs(donated))
           /\ \A a \in Addr \ ({b} \cup Words(r, HEADER)) : mem'[a] = mem[a]
<1> DEFINE S == {q \in RegionList : Owns(q, b)}
           r == Owner(b)
           m2 == mem'
<1>1. Good(mem, donated, held) /\ mem \in [Addr -> Int] /\ Placed(donated) /\ held \subseteq AllBlocks(donated)
  BY DEF SlabInv, Good
<1>2. /\ b # NULL /\ r # NULL
      /\ m2 = [mem EXCEPT ![b] = mem[BlocksAt(r)], ![BlocksAt(r)] = b, ![FreeAt(r)] = @ + 1]
  BY DEF FreeTakes
<1>3. free' = free + 1 /\ held' = held \ {b} /\ UNCHANGED <<regions, total, donated, got>>
  BY DEF FreeTakes
<1>4. r \in S \cup {NULL}
  BY Found DEF Owner
<1>5. r \in Bufs(donated) /\ b \in held
  BY <1>2, <1>4 DEF RegionList, Bufs
<1> HIDE DEF r, m2, S
<1>6. b \in AllBlocks(donated)
  BY <1>1, <1>5
<1>7. b \in Addr
  BY <1>1, <1>6, WordsApart
<1>8. /\ r \in Addr /\ Words(r, HEADER) \subseteq Addr
      /\ FreeAt(r) \in Words(r, HEADER) /\ BlocksAt(r) \in Words(r, HEADER)
  BY <1>1, <1>5, WordsApart
<1>9. b \notin Words(r, HEADER)
  BY <1>1, <1>5, <1>6, Outside
<1>10. FreeAt(r) # BlocksAt(r)
  BY <1>8 DEF FreeAt, BlocksAt, Addr
<1>11. BlocksAt(r) \in Addr /\ FreeAt(r) \in Addr /\ b # BlocksAt(r) /\ b # FreeAt(r)
  BY <1>8, <1>9
<1>12. /\ m2 \in [Addr -> Int]
       /\ \A a \in Addr \ {b, BlocksAt(r), FreeAt(r)} : m2[a] = mem[a]
       /\ m2[b] = mem[BlocksAt(r)] /\ m2[BlocksAt(r)] = b /\ m2[FreeAt(r)] = mem[FreeAt(r)] + 1
  BY <1>1, <1>2, <1>7, <1>10, <1>11, FreeStores
<1>13. Returned(mem, m2, donated, held, b)
  BY <1>1, <1>5, <1>12, GoodFree
<1>14. \A a \in Addr \ ({b} \cup Words(r, HEADER)) : m2[a] = mem[a]
  BY <1>8, <1>12
<1> QED
  BY <1>3, <1>5, <1>13, <1>14 DEF m2, Returned

(* A client's writes. *)
LEMMA UseEffect ==
  ASSUME SlabInv, NEW b \in held, Use(b)
  PROVE  /\ UNCHANGED <<regions, total, free, held, donated, got>>
         /\ Good(mem', donated, held)
         /\ AvailIn(mem', donated) = AvailIn(mem, donated)
         /\ SameNext(mem, mem', Bufs(donated))
         /\ \A a \in Addr \ Words(b, BLOCKSIZE) : mem'[a] = mem[a]
<1> DEFINE m2 == mem'
<1>1. Good(mem, donated, held) /\ mem \in [Addr -> Int]
  BY DEF SlabInv, Good
<1>2. m2 = [a \in Addr |-> IF a \in Words(b, BLOCKSIZE) THEN JUNK ELSE mem[a]]
  BY DEF Use
<1>3. UNCHANGED <<regions, total, free, held, donated, got>>
  BY DEF Use
<1> HIDE DEF m2
<1>4. m2 \in [Addr -> Int] /\ \A a \in Addr \ Words(b, BLOCKSIZE) : m2[a] = mem[a]
  BY <1>1, <1>2 DEF JUNK
<1>5. Good(m2, donated, held) /\ AvailIn(m2, donated) = AvailIn(mem, donated) /\ SameNext(mem, m2, Bufs(donated))
  BY <1>1, <1>4, GoodUse
<1> QED
  BY <1>3, <1>4, <1>5 DEF m2

(* slab_grow. *)
LEMMA GrowEffect ==
  ASSUME SlabInv, NEW x \in GrowReqs, GrowAccepted(x[1], x[2])
  PROVE  /\ UNCHANGED <<held, got>> /\ regions' = x[1] /\ donated' = donated \cup {x}
         /\ free' = free + BlockCount(x[2]) /\ total' = total + BlockCount(x[2])
         /\ Placed(donated \cup {x}) /\ x \notin donated
         /\ Good(mem', donated \cup {x}, held)
         /\ AvailIn(mem', donated \cup {x}) = AvailIn(mem, donated) \cup BlocksOf(x)
         /\ AvailIn(mem, donated) \cap BlocksOf(x) = {}
         /\ IsFiniteSet(BlocksOf(x)) /\ Cardinality(BlocksOf(x)) = BlockCount(x[2])
         /\ SameNext(mem, mem', Bufs(donated)) /\ mem'[NextAt(x[1])] = regions
         /\ x[1] \in Addr /\ x[1] \notin Bufs(donated)
         /\ \A a \in Addr \ Extent(x[1], x[2]) : mem'[a] = mem[a]
<1> DEFINE m2 == mem'
<1>1. Good(mem, donated, held) /\ mem \in [Addr -> Int] /\ Placed(donated)
  BY DEF SlabInv, Good
<1>2. /\ x[1] # NULL /\ BigEnough(x[2]) /\ \A y \in donated : y[1] # x[1]
      /\ m2 = Grown(x[1], x[2])
  BY DEF GrowAccepted
<1>3. x = <<x[1], x[2]>>
  BY SlabAssumption
<1>4. /\ UNCHANGED <<held, got>> /\ regions' = x[1] /\ donated' = donated \cup {x}
      /\ free' = free + BlockCount(x[2]) /\ total' = total + BlockCount(x[2])
  BY <1>3 DEF GrowAccepted
<1>5. Placed(donated \cup {x}) /\ x \notin donated
  BY <1>1, <1>2 DEF Placed, Accepted
<1>6. m2 = GrownFrom(mem, regions, x)
  <2>1. Grown(x[1], x[2]) = GrownFrom(mem, regions, x)
    BY Zenon DEF Grown, GrownFrom
  <2> QED
    BY <1>2, <2>1
<1>7. regions \in Int
  BY DEF SlabInv, Linked, Addr, NULL
<1> HIDE DEF m2
<1>8. Extended(mem, m2, donated, held, x, regions)
  BY <1>1, <1>5, <1>6, <1>7, GoodGrow
<1>9. Accepted(x)
  BY <1>5 DEF Placed
<1>10. \A a \in Addr \ Extent(x[1], x[2]) : m2[a] = mem[a]
  BY <1>1, <1>6, <1>7, <1>9, GrownStores
<1> QED
  BY <1>4, <1>5, <1>8, <1>10 DEF m2, Extended

-----------------------------------------------------------------------------
(* The invariant holds at first. *)
LEMMA SlabInit == Init => SlabInv
<1> SUFFICES ASSUME Init PROVE SlabInv
  OBVIOUS
<1>1. Bufs(donated) = {} /\ AllBlocks(donated) = {} /\ AvailIn(mem, donated) = {}
  BY DEF Init, Bufs, AllBlocks, AvailIn
<1>2. mem \in [Addr -> Int] /\ Placed(donated) /\ held = {} /\ regions = NULL /\ free = 0 /\ total = 0
  BY DEF Init, Placed
<1>3. Good(mem, donated, held)
  BY <1>1, <1>2 DEF Good
<1>4. Counted({}, {}, 0, 0)
  BY FS_EmptySet DEF Counted
<1> DEFINE g == [i \in 0 .. 0 |-> NULL]
<1>5. 0 \in Nat /\ g \in [0 .. 0 -> {} \cup {NULL}] /\ g[0] = NULL
  OBVIOUS
<1>6. Linked(mem, {}, NULL, 0, g)
  <2>1. \A i \in 0 .. 0 : i = 0
    OBVIOUS
  <2> HIDE DEF g
  <2> QED
    BY <1>5, <2>1 DEF Linked
<1> HIDE DEF g
<1> QED
  BY <1>1, <1>2, <1>3, <1>4, <1>6 DEF SlabInv

(* Every operation keeps it. *)
LEMMA SlabStep == SlabInv /\ [Next]_vars => SlabInv'
<1> SUFFICES ASSUME SlabInv, [Next]_vars PROVE SlabInv'
  OBVIOUS
<1>1. PICK n, g : Linked(mem, Bufs(donated), regions, n, g)
  BY DEF SlabInv
<1>2. Counted(AvailIn(mem, donated), held, free, total) /\ Good(mem, donated, held)
  BY DEF SlabInv
<1>3. ASSUME UNCHANGED <<mem, regions, total, free, held, donated>> PROVE SlabInv'
  BY <1>1, <1>2, <1>3 DEF SlabInv
<1>4. ASSUME NEW x \in GrowReqs, GrowAccepted(x[1], x[2]) PROVE SlabInv'
  <2>1. /\ held' = held /\ regions' = x[1] /\ donated' = donated \cup {x}
        /\ free' = free + BlockCount(x[2]) /\ total' = total + BlockCount(x[2])
    BY <1>4, GrowEffect
  <2>2. Good(mem', donated \cup {x}, held)
    BY <1>4, GrowEffect
  <2>3. SameNext(mem, mem', Bufs(donated)) /\ mem'[NextAt(x[1])] = regions /\ x[1] \in Addr \ Bufs(donated)
    BY <1>4, GrowEffect
  <2>4. \E k, h : Linked(mem', Bufs(donated) \cup {x[1]}, x[1], k, h)
    BY <1>1, <2>3, LinkedNew
  <2>5. Bufs(donated \cup {x}) = Bufs(donated) \cup {x[1]}
    BY DEF Bufs
  <2>6. /\ AvailIn(mem, donated) \cap BlocksOf(x) = {}
        /\ IsFiniteSet(BlocksOf(x)) /\ Cardinality(BlocksOf(x)) = BlockCount(x[2])
    BY <1>4, GrowEffect
  <2>7. Counted(AvailIn(mem, donated) \cup BlocksOf(x), held, free + BlockCount(x[2]), total + BlockCount(x[2]))
    BY <1>2, <2>6, CountAdd
  <2>8. AvailIn(mem', donated \cup {x}) = AvailIn(mem, donated) \cup BlocksOf(x)
    BY <1>4, GrowEffect
  <2> QED
    BY <2>1, <2>2, <2>4, <2>5, <2>7, <2>8 DEF SlabInv
<1>5. CASE AllocGives
  <2>1. PICK r \in Bufs(donated), sb \in AvailIn(mem, donated) :
           /\ got' = sb /\ held' = held \cup {sb} /\ sb \notin held /\ free' = free - 1
           /\ UNCHANGED <<regions, total, donated>>
           /\ Good(mem', donated, held \cup {sb})
           /\ AvailIn(mem', donated) = AvailIn(mem, donated) \ {sb}
           /\ SameNext(mem, mem', Bufs(donated))
           /\ \A a \in Addr \ (Words(sb, BLOCKSIZE) \cup Words(r, HEADER)) : mem'[a] = mem[a]
    BY <1>5, AllocEffect
  <2>2. Linked(mem', Bufs(donated), regions, n, g)
    BY <1>1, <2>1, LinkedKept
  <2>3. Counted(AvailIn(mem, donated) \ {sb}, held \cup {sb}, free - 1, total)
    BY <1>2, <2>1, CountTake
  <2> QED
    BY <2>1, <2>2, <2>3 DEF SlabInv
<1>6. ASSUME NEW b \in held \cup {NULL}, FreeTakes(b) PROVE SlabInv'
  <2>1. PICK r \in Bufs(donated) :
           /\ b \in held /\ b \notin AvailIn(mem, donated)
           /\ held' = held \ {b} /\ free' = free + 1
           /\ UNCHANGED <<regions, total, donated, got>>
           /\ Good(mem', donated, held \ {b})
           /\ AvailIn(mem', donated) = AvailIn(mem, donated) \cup {b}
           /\ SameNext(mem, mem', Bufs(donated))
           /\ \A a \in Addr \ ({b} \cup Words(r, HEADER)) : mem'[a] = mem[a]
    BY <1>6, FreeEffect
  <2>2. Linked(mem', Bufs(donated), regions, n, g)
    BY <1>1, <2>1, LinkedKept
  <2>3. Counted(AvailIn(mem, donated) \cup {b}, held \ {b}, free + 1, total)
    BY <1>2, <2>1, CountReturn
  <2> QED
    BY <2>1, <2>2, <2>3 DEF SlabInv
<1>7. ASSUME NEW b \in held, Use(b) PROVE SlabInv'
  <2>1. /\ UNCHANGED <<regions, total, free, held, donated>>
        /\ Good(mem', donated, held)
        /\ AvailIn(mem', donated) = AvailIn(mem, donated)
        /\ SameNext(mem, mem', Bufs(donated))
    BY <1>7, UseEffect
  <2>2. Linked(mem', Bufs(donated), regions, n, g)
    BY <1>1, <2>1, LinkedKept
  <2> QED
    BY <1>2, <2>1, <2>2 DEF SlabInv
<1>8. CASE \E x \in GrowReqs : GrowRefused(x[1], x[2])
  BY <1>3, <1>8 DEF GrowRefused, Fails
<1>9. CASE AllocFails
  BY <1>3, <1>9 DEF AllocFails
<1>10. CASE \E b \in held \cup {NULL} : FreeRefused(b)
  BY <1>3, <1>10 DEF FreeRefused, Fails
<1>11. CASE UNCHANGED vars
  BY <1>3, <1>11 DEF vars
<1> QED
  BY <1>4, <1>5, <1>6, <1>7, <1>8, <1>9, <1>10, <1>11 DEF Next, Grow, Alloc, Free

(* Memory stays in order: the region list is linked, every list is as long *)
(* as its counter, the counters of the allocator are right.                *)
THEOREM SlabInvariant == Spec => []SlabInv
  BY SlabInit, SlabStep, PTL DEF Spec

-----------------------------------------------------------------------------
(* BlocksApart: the blocks of clients, the free blocks and the headers are *)
(* different words, for every size of blocks and of memory.                *)
THEOREM SlabBlocksApart == Spec => []BlocksApart
<1>1. SlabInv => BlocksApart
  <2> SUFFICES ASSUME SlabInv PROVE BlocksApart
    OBVIOUS
  <2>1. Good(mem, donated, held)
    BY DEF SlabInv
  <2>2. Placed(donated) /\ held \subseteq AllBlocks(donated)
    BY <2>1 DEF Good
  <2>3. AllAvailable \subseteq AllBlocks(donated)
    BY <2>1, AllAvailableIs DEF Good, AvailIn
  <2>4. RegionList = Bufs(donated)
    BY DEF RegionList, Bufs
  <2>5. \A b, c \in AllBlocks(donated) : b # c => Words(b, BLOCKSIZE) \cap Words(c, BLOCKSIZE) = {}
    BY <2>2, WordsApart
  <2>6. \A b \in AllBlocks(donated), r \in Bufs(donated) : Words(b, BLOCKSIZE) \cap Words(r, HEADER) = {}
    BY <2>2, WordsApart
  <2> QED
    BY <2>2, <2>3, <2>4, <2>5, <2>6 DEF BlocksApart
<1> QED
  BY <1>1, SlabInvariant, PTL

(* ListsCoverCounters: slab_alloc never follows a NULL pointer and never   *)
(* gives a block away twice, and slabs->free and slabs->total count the    *)
(* blocks.                                                                 *)
THEOREM SlabListsCoverCounters == Spec => []ListsCoverCounters
<1>1. SlabInv => ListsCoverCounters
  <2> SUFFICES ASSUME SlabInv PROVE ListsCoverCounters
    OBVIOUS
  <2>1. Good(mem, donated, held) /\ Counted(AvailIn(mem, donated), held, free, total)
    BY DEF SlabInv
  <2>2. AllAvailable = AvailIn(mem, donated) /\ RegionList = Bufs(donated)
    BY AllAvailableIs DEF RegionList, Bufs
  <2>3. ASSUME NEW r \in RegionList
        PROVE  Available(r) \subseteq Addr \ held /\ Cardinality(Available(r)) = mem[FreeAt(r)]
    <3>1. Available(r) = Avail(mem, r)
      BY AvailableIs
    <3>2. Avail(mem, r) \subseteq AllBlocks(donated) \ held /\ HasList(mem, r)
      BY <2>1, <2>2, <2>3 DEF Good
    <3>3. PICK f : ListOf(mem, r, f)
      BY <3>2 DEF HasList
    <3>4. Avail(mem, r) \subseteq Addr /\ Cardinality(Avail(mem, r)) = mem[FreeAt(r)]
      BY <3>3, ListBlocks
    <3> QED
      BY <3>1, <3>2, <3>4
  <2>4. ASSUME NEW r \in RegionList, NEW s \in RegionList, r # s
        PROVE  Available(r) \cap Available(s) = {}
    <3>1. Available(r) = Avail(mem, r) /\ Available(s) = Avail(mem, s)
      BY AvailableIs
    <3> QED
      BY <2>1, <2>2, <2>4, <3>1 DEF Good
  <2>5. free = Cardinality(AllAvailable) /\ free + Cardinality(held) = total
    BY <2>1, <2>2 DEF Counted
  <2> QED
    BY <2>3, <2>4, <2>5 DEF ListsCoverCounters
<1> QED
  BY <1>1, SlabInvariant, PTL

(* What a step leaves alone in the words of a block that stays with its    *)
(* client.                                                                 *)
LEMMA HeldStep ==
  ASSUME SlabInv, [Next]_vars, NEW b \in held \cap held',
         NEW a \in Words(b, BLOCKSIZE), mem'[a] # mem[a]
  PROVE  Use(b)
<1>1. Placed(donated) /\ b \in AllBlocks(donated) /\ held \subseteq AllBlocks(donated)
  BY DEF SlabInv, Good
<1>2. a \in Addr
  BY <1>1, WordsApart
<1>3. \A r \in Bufs(donated) : a \notin Words(r, HEADER)
  BY <1>1, WordsApart
<1>4. \A c \in AllBlocks(donated) : c # b => a \notin Words(c, BLOCKSIZE) /\ a # c
  <2> TAKE c \in AllBlocks(donated)
  <2>1. c # b => Words(b, BLOCKSIZE) \cap Words(c, BLOCKSIZE) = {}
    BY <1>1, WordsApart
  <2>2. c \in Words(c, BLOCKSIZE)
    BY <1>1, WordsApart
  <2> QED
    BY <2>1, <2>2
<1>5. ASSUME NEW x \in GrowReqs, GrowAccepted(x[1], x[2]) PROVE FALSE
  <2>1. Placed(donated \cup {x}) /\ x \notin donated
    BY <1>5, GrowEffect
  <2>2. Words(b, BLOCKSIZE) \cap Extent(x[1], x[2]) = {}
    BY <1>1, <2>1, NewExtent
  <2>3. \A d \in Addr \ Extent(x[1], x[2]) : mem'[d] = mem[d]
    BY <1>5, GrowEffect
  <2> QED
    BY <1>2, <2>2, <2>3
<1>6. ASSUME AllocGives PROVE FALSE
  <2>1. PICK r \in Bufs(donated), sb \in AvailIn(mem, donated) :
           /\ sb \notin held
           /\ \A d \in Addr \ (Words(sb, BLOCKSIZE) \cup Words(r, HEADER)) : mem'[d] = mem[d]
    BY <1>6, AllocEffect
  <2>2. sb \in AllBlocks(donated)
    BY <2>1 DEF SlabInv, Good, AvailIn
  <2>3. sb # b
    BY <2>1
  <2> QED
    BY <1>2, <1>3, <1>4, <2>1, <2>2, <2>3
<1>7. ASSUME NEW c \in held \cup {NULL}, FreeTakes(c) PROVE FALSE
  <2>1. PICK r \in Bufs(donated) :
           /\ c \in held /\ held' = held \ {c}
           /\ \A d \in Addr \ ({c} \cup Words(r, HEADER)) : mem'[d] = mem[d]
    BY <1>7, FreeEffect
  <2>2. c # b /\ c \in AllBlocks(donated)
    BY <1>1, <2>1
  <2> QED
    BY <1>2, <1>3, <1>4, <2>1, <2>2
<1>8. ASSUME NEW c \in held, Use(c) PROVE c = b
  <2>1. \A d \in Addr \ Words(c, BLOCKSIZE) : mem'[d] = mem[d]
    BY <1>8, UseEffect
  <2> QED
    BY <1>1, <1>2, <1>4, <2>1
<1>9. mem' # mem
  OBVIOUS
<1>10. PICK c \in held : Use(c)
  BY <1>5, <1>6, <1>7, <1>9
     DEF Next, Grow, Alloc, Free, GrowRefused, AllocFails, FreeRefused, Fails, vars
<1> QED
  BY <1>8, <1>10

(* HeldUntouched: neither slab_grow nor slab_alloc nor slab_free nor       *)
(* another client writes into a block that a client has.                   *)
THEOREM SlabHeldUntouched == Spec => HeldUntouched
<1>1. SlabInv /\ [Next]_vars =>
        [\A b \in held \cap held' : (\E a \in Words(b, BLOCKSIZE) : mem'[a] # mem[a]) => Use(b)]_vars
  BY HeldStep
<1> QED
  BY <1>1, SlabInvariant, PTL DEF Spec, HeldUntouched

-----------------------------------------------------------------------------
(* The free blocks after a step. *)
LEMMA AllAvailableNext == (AllAvailable = AvailIn(mem, donated))'
  BY AllAvailableIs, PTL

(* A step of the allocator is a step of the pool. *)
LEMMA PoolStep == SlabInv /\ [Next]_vars => [Pool!Next]_Pool!vars
<1> SUFFICES ASSUME SlabInv, [Next]_vars PROVE [Pool!Next]_Pool!vars
  OBVIOUS
<1>1. AllAvailable = AvailIn(mem, donated)
  BY AllAvailableIs
<1>2. AllAvailable' = AvailIn(mem', donated')
  BY AllAvailableNext
<1>3. ASSUME UNCHANGED <<mem, donated, held, got>> PROVE UNCHANGED Pool!vars
  BY <1>1, <1>2, <1>3 DEF Pool!vars
<1>4. ASSUME NEW x \in GrowReqs, GrowAccepted(x[1], x[2]) PROVE Pool!Donate
  <2>1. UNCHANGED <<held, got>> /\ donated' = donated \cup {x} /\ Good(mem', donated \cup {x}, held)
    BY <1>4, GrowEffect
  <2>2. AvailIn(mem', donated \cup {x}) = AvailIn(mem, donated) \cup BlocksOf(x)
    BY <1>4, GrowEffect
  <2>3. AllAvailable \subseteq AllAvailable'
    BY <1>1, <1>2, <2>1, <2>2
  <2>4. AvailIn(mem', donated \cup {x}) \subseteq AllBlocks(donated \cup {x}) \ held
    BY <2>1 DEF Good, AvailIn
  <2>5. AllBlocks(donated \cup {x}) \subseteq Addr
    BY <2>1, WordsApart DEF Good
  <2>6. AllAvailable' \subseteq Addr \ held
    BY <1>2, <2>1, <2>4, <2>5
  <2> QED
    BY <2>1, <2>3, <2>6 DEF Pool!Donate
<1>5. CASE AllocGives
  <2>1. PICK r \in Bufs(donated), sb \in AvailIn(mem, donated) :
           /\ got' = sb /\ held' = held \cup {sb} /\ UNCHANGED donated
           /\ AvailIn(mem', donated) = AvailIn(mem, donated) \ {sb}
    BY <1>5, AllocEffect
  <2> QED
    BY <1>1, <1>2, <2>1 DEF Pool!Take, Pool!Next
<1>6. CASE AllocFails
  <2>1. UNCHANGED <<mem, donated, held>> /\ got' = NULL /\ (free = 0 \/ WithFree = NULL)
    BY <1>6 DEF AllocFails
  <2>2. ASSUME free = 0 PROVE AllAvailable = {}
    BY <1>1, <2>2, FS_EmptySet DEF SlabInv, Counted
  <2>3. ASSUME WithFree = NULL PROVE AllAvailable = {}
    <3>1. {r \in RegionList : mem[FreeAt(r)] # 0} = {}
      BY <2>3, Found DEF WithFree
    <3>2. \A r \in Bufs(donated) : Avail(mem, r) = {}
      BY <3>1 DEF Avail, RegionList, Bufs
    <3> QED
      BY <1>1, <3>2 DEF AvailIn
  <2>4. AllAvailable = {}
    BY <2>1, <2>2, <2>3
  <2> QED
    BY <1>1, <1>2, <2>1, <2>4 DEF Pool!TakeNothing, Pool!Next
<1>7. ASSUME NEW b \in held \cup {NULL}, FreeTakes(b) PROVE Pool!Return
  <2>1. PICK r \in Bufs(donated) :
           /\ b \in held /\ held' = held \ {b} /\ UNCHANGED <<donated, got>>
           /\ AvailIn(mem', donated) = AvailIn(mem, donated) \cup {b}
    BY <1>7, FreeEffect
  <2> QED
    BY <1>1, <1>2, <2>1 DEF Pool!Return
<1>8. ASSUME NEW b \in held, Use(b) PROVE UNCHANGED Pool!vars
  <2>1. UNCHANGED <<held, donated, got>> /\ AvailIn(mem', donated) = AvailIn(mem, donated)
    BY <1>8, UseEffect
  <2> QED
    BY <1>1, <1>2, <2>1 DEF Pool!vars
<1>9. CASE \E x \in GrowReqs : GrowRefused(x[1], x[2])
  BY <1>3, <1>9 DEF GrowRefused, Fails
<1>10. CASE \E b \in held \cup {NULL} : FreeRefused(b)
  BY <1>3, <1>10 DEF FreeRefused, Fails
<1>11. CASE UNCHANGED vars
  BY <1>3, <1>11 DEF vars
<1> QED
  BY <1>4, <1>5, <1>6, <1>7, <1>8, <1>9, <1>10, <1>11 DEF Next, Grow, Alloc, Free, Pool!Next

(* PoolSpec: the allocator implements the pool of blocks.  A request fails *)
(* only when no region has a free block, and gives a block that was free.  *)
THEOREM SlabIsPool == Spec => PoolSpec
<1>1. Init => Pool!Init
  <2> SUFFICES ASSUME Init PROVE Pool!Init
    OBVIOUS
  <2>1. AllAvailable = {} /\ held = {} /\ got = NULL
    BY DEF Init, AllAvailable, RegionList
  <2> QED
    BY <2>1 DEF Pool!Init
<1> QED
  BY <1>1, SlabInvariant, PoolStep, PTL DEF Spec, PoolSpec, Pool!Spec
=============================================================================
