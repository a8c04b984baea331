-------------------------- MODULE DeviceTreeProofs --------------------------
(***************************************************************************)
(* dt_initialize on every blob: no pointer it keeps dangles, although the  *)
(* arrays move while it keeps pointers into them; the blob is mapped       *)
(* whenever it is read; the tree it leaves is the tree of the blob; the    *)
(* rewrite pass meets every property once, reads it with the cells of its  *)
(* node, and its lists number by number; and a blob that follows the       *)
(* format is not refused for anything but memory or a mapping.             *)
(*                                                                         *)
(* The first part needs nothing of what the list of siblings ends in: a    *)
(* store through whatever LastSibling gives changes an element or nothing. *)
(* The second part follows the tree token by token (Built, Rooted,         *)
(* Orderly) and then the calls of dtb_recursive_property_rewrite over it   *)
(* (Path, Ahead, Behind).  The third part says what those calls have       *)
(* settled: the cells of the nodes they entered and of the properties they *)
(* left behind (NodesSettled, CallsSettled, PropsSettled).  The fourth     *)
(* follows the loops that fill the lists (ReadingTo, Filled), and the last *)
(* puts all of it together for a blob in order (AcceptOK).                 *)
(***************************************************************************)
EXTENDS DeviceTree, SequenceTheorems, FiniteSetTheorems, NaturalsInduction,
        WellFoundedInduction, TLAPS

(* A sequence, of whatever it holds. *)
IsSeq(s) == Len(s) \in Nat /\ s = [k \in 1 .. Len(s) |-> s[k]]

ArrayOK(mem) == IsSeq(mem) /\ \A i \in DOMAIN mem : IsSeq(mem[i])

(* The elements of all the blocks that an array has or has had. *)
Elements(mem) == UNION {{mem[i][j] : j \in DOMAIN mem[i]} : i \in DOMAIN mem}

NodeOK(n, P, Q) ==
  /\ {"parent", "children", "sibling", "properties"} \subseteq DOMAIN n
  /\ {n.parent, n.children, n.sibling} \subseteq P
  /\ n.properties \in Q

PropOK(p, Q) == "next" \in DOMAIN p /\ p.next \in Q

FrameOK(f, P, Q) ==
  /\ {"node", "prop", "child"} \subseteq DOMAIN f
  /\ f.node \in P \ {NULL} /\ f.prop \in Q /\ f.child \in P

(* The calls of dtb_recursive_property_rewrite: every one but the          *)
(* innermost is at a child.                                                *)
FramesOK(fr, P, Q) ==
  /\ IsSeq(fr)
  /\ \A i \in DOMAIN fr : FrameOK(fr[i], P, Q)
  /\ \A i \in DOMAIN fr : i < Len(fr) => fr[i].child # NULL

TreeOK(nd, pr) ==
  /\ ArrayOK(nd) /\ ArrayOK(pr)
  /\ \A n \in Elements(nd) : NodeOK(n, Pointers(nd), Pointers(pr))
  /\ \A p \in Elements(pr) : PropOK(p, Pointers(pr))

(* The inductive invariant. *)
PointersOK ==
  /\ pc \in Ended \cup {"map", "mapRest", "reserve", "parse", "rewrite", "print", "unmap"}
  /\ TreeOK(nodes, props)
  /\ {curr, root} \subseteq Pointers(nodes)
  /\ FramesOK(frames, Pointers(nodes), Pointers(props))
  /\ pc = "rewrite" => frames # <<>>
-----------------------------------------------------------------------------
(* A function on 1 .. n is a sequence of length n. *)
LEMMA Sequence ==
  ASSUME NEW s, NEW n \in Nat, s = [k \in 1 .. n |-> s[k]]
  PROVE  Len(s) = n /\ IsSeq(s)
<1> DEFINE S == {s[k] : k \in 1 .. n}
<1>1. s \in [1 .. n -> S] /\ DOMAIN s = 1 .. n
  OBVIOUS
<1>2. s \in Seq(S)
  BY <1>1, SeqDef
<1>3. Len(s) = n
  BY <1>1, <1>2, LenProperties
<1> QED
  BY <1>1, <1>3 DEF IsSeq

(* What a sequence becomes by Append. *)
LEMMA Appended ==
  ASSUME NEW s, NEW v, IsSeq(s)
  PROVE  /\ IsSeq(Append(s, v))
         /\ Len(Append(s, v)) = Len(s) + 1
         /\ DOMAIN s = 1 .. Len(s) /\ DOMAIN Append(s, v) = 1 .. Len(s) + 1
         /\ \A k \in 1 .. Len(s) : Append(s, v)[k] = s[k]
         /\ Append(s, v)[Len(s) + 1] = v
<1> DEFINE S == {s[k] : k \in 1 .. Len(s)} \cup {v}
<1>1. Len(s) \in Nat /\ s \in [1 .. Len(s) -> S] /\ v \in S
  BY DEF IsSeq
<1>2. s \in Seq(S) /\ v \in S
  BY <1>1, SeqDef
<1> HIDE DEF S
<1>3. /\ Append(s, v) \in Seq(S)
      /\ Len(Append(s, v)) = Len(s) + 1
      /\ \A k \in 1 .. Len(s) : Append(s, v)[k] = s[k]
      /\ Append(s, v)[Len(s) + 1] = v
  BY <1>2, AppendProperties
<1>4. DOMAIN s = 1 .. Len(s) /\ DOMAIN Append(s, v) = 1 .. Len(s) + 1
  BY <1>2, <1>3, LenProperties
<1>5. Append(s, v) = [k \in 1 .. Len(s) + 1 |-> Append(s, v)[k]]
  BY <1>3, <1>4, LenProperties
<1> QED
  BY <1>1, <1>3, <1>4, <1>5 DEF IsSeq

Replaced(t, s, n, v) == t = [s EXCEPT ![n] = v]

(* What it becomes when its last element is replaced. *)
LEMMA LastReplaced ==
  ASSUME NEW s, NEW n, n = Len(s), n # 0, IsSeq(s), NEW v, NEW t, Replaced(t, s, n, v)
  PROVE  /\ IsSeq(t) /\ Len(t) = n /\ DOMAIN t = 1 .. n
         /\ t[n] = v /\ \A k \in 1 .. n : k # n => t[k] = s[k]
<1>1. DOMAIN s = 1 .. n /\ n \in 1 .. n /\ n \in Nat
  BY DEF IsSeq
<1>2. DOMAIN t = 1 .. n /\ t[n] = v /\ \A k \in 1 .. n : k # n => t[k] = s[k]
  BY <1>1 DEF Replaced
<1>3. t = [k \in 1 .. n |-> t[k]]
  BY <1>1 DEF Replaced
<1>4. IsSeq(t) /\ Len(t) = n
  BY <1>1, <1>3, Sequence
<1> QED
  BY <1>2, <1>4

(* A pointer, in terms of its two parts. *)
LEMMA PointerIs ==
  ASSUME NEW mem, ArrayOK(mem), NEW p
  PROVE  p \in Pointers(mem) \ {NULL} <=>
           \E i \in DOMAIN mem : \E j \in DOMAIN mem[i] : p = <<i, j>>
<1>1. \A i \in DOMAIN mem : i # 0
  BY DEF ArrayOK, IsSeq
<1> QED
  BY <1>1 DEF Pointers, NULL

(* The block and the slot of a pointer. *)
LEMMA PointerAt ==
  ASSUME NEW mem, ArrayOK(mem), NEW p \in Pointers(mem) \ {NULL}
  PROVE  \E i \in DOMAIN mem, j \in Nat : j \in DOMAIN mem[i] /\ p = <<i, j>>
<1>1. PICK i \in DOMAIN mem : \E j \in DOMAIN mem[i] : p = <<i, j>>
  BY PointerIs
<1>2. PICK j \in DOMAIN mem[i] : p = <<i, j>>
  BY <1>1
<1>3. IsSeq(mem[i])
  BY DEF ArrayOK
<1>4. j \in Nat
  BY <1>3 DEF IsSeq
<1> QED
  BY <1>2, <1>4

(* What a pointer leads to is an element. *)
LEMMA DerefElement ==
  ASSUME NEW mem, ArrayOK(mem), NEW p \in Pointers(mem) \ {NULL}
  PROVE  Deref(mem, p) \in Elements(mem)
BY PointerIs DEF Deref, Elements

(* A write through a pointer changes no block's length. *)
LEMMA Stored ==
  ASSUME NEW mem, ArrayOK(mem), NEW q, NEW v
  PROVE  /\ ArrayOK(Store(mem, q, v))
         /\ Pointers(Store(mem, q, v)) = Pointers(mem)
         /\ Len(Store(mem, q, v)) = Len(mem)
<1> DEFINE new == Store(mem, q, v)
<1>1. /\ DOMAIN new = DOMAIN mem
      /\ \A i \in DOMAIN mem : new[i] = IF i = q[1] THEN [mem[i] EXCEPT ![q[2]] = v] ELSE mem[i]
  BY DEF Store
<1>2. \A i \in DOMAIN mem : DOMAIN new[i] = DOMAIN mem[i]
  BY <1>1
<1>3. Pointers(new) = Pointers(mem)
  BY <1>1, <1>2 DEF Pointers
<1>4. Len(new) = Len(mem) /\ IsSeq(new)
  <2>1. Len(mem) \in Nat /\ new = [k \in 1 .. Len(mem) |-> new[k]]
    BY <1>1 DEF ArrayOK, IsSeq, Store
  <2> HIDE DEF new
  <2> QED
    BY <2>1, Sequence
<1>5. ASSUME NEW i \in DOMAIN mem
      PROVE  IsSeq(new[i])
  <2>1. IsSeq(mem[i])
    BY DEF ArrayOK
  <2>2. Len(mem[i]) \in Nat /\ new[i] = [k \in 1 .. Len(mem[i]) |-> new[i][k]]
    BY <1>1, <1>2, <2>1 DEF IsSeq
  <2> HIDE DEF new
  <2> QED
    BY <2>2, Sequence
<1> QED
  BY <1>1, <1>3, <1>4, <1>5 DEF ArrayOK

(* It changes the element the pointer leads to, or none. *)
LEMMA StoredElements ==
  ASSUME NEW mem, ArrayOK(mem), NEW q, NEW v
  PROVE  \/ Elements(Store(mem, q, v)) \subseteq Elements(mem)
         \/ /\ Deref(mem, q) \in Elements(mem)
            /\ Elements(Store(mem, q, v)) \subseteq Elements(mem) \cup {v}
<1> DEFINE new == Store(mem, q, v)
<1>1. /\ DOMAIN new = DOMAIN mem
      /\ \A i \in DOMAIN mem : new[i] = IF i = q[1] THEN [mem[i] EXCEPT ![q[2]] = v] ELSE mem[i]
  BY DEF Store
<1>2. \A i \in DOMAIN mem : DOMAIN new[i] = DOMAIN mem[i]
  BY <1>1
<1>3. \A i \in DOMAIN mem : \A j \in DOMAIN mem[i] :
        new[i][j] = IF i = q[1] /\ j = q[2] THEN v ELSE mem[i][j]
  BY <1>1
<1> HIDE DEF new
<1>4. CASE q[1] \in DOMAIN mem /\ q[2] \in DOMAIN mem[q[1]]
  <2>1. Deref(mem, q) \in Elements(mem)
    BY <1>4 DEF Deref, Elements
  <2>2. Elements(new) \subseteq Elements(mem) \cup {v}
    BY <1>1, <1>2, <1>3 DEF Elements
  <2> QED
    BY <2>1, <2>2 DEF new
<1>5. CASE ~(q[1] \in DOMAIN mem /\ q[2] \in DOMAIN mem[q[1]])
  <2>1. Elements(new) \subseteq Elements(mem)
    BY <1>1, <1>2, <1>3, <1>5 DEF Elements
  <2> QED
    BY <2>1 DEF new
<1> QED
  BY <1>4, <1>5

(* The first element of an array. *)
LEMMA PushedFirst ==
  ASSUME NEW v
  PROVE  /\ ArrayOK(<<<<v>>>>)
         /\ Newest(<<<<v>>>>) = <<1, 1>>
         /\ Pointers(<<<<v>>>>) = {NULL, <<1, 1>>}
         /\ Elements(<<<<v>>>>) = {v}
<1> DEFINE s == <<v>>
           m == <<s>>
<1>1. /\ Len(s) = 1 /\ DOMAIN s = {1} /\ s[1] = v /\ s = [k \in 1 .. 1 |-> s[k]]
      /\ Len(m) = 1 /\ DOMAIN m = {1} /\ m[1] = s /\ m = [k \in 1 .. 1 |-> m[k]]
      /\ m # <<>>
  OBVIOUS
<1> HIDE DEF s, m
<1>2. ArrayOK(m)
  BY <1>1 DEF ArrayOK, IsSeq
<1>3. Newest(m) = <<1, 1>>
  BY <1>1 DEF Newest, ARRAY_SIZE, ARRAY_INIT, Data
<1>4. Pointers(m) = {NULL, <<1, 1>>}
  BY <1>1 DEF Pointers
<1>5. Elements(m) = {v}
  BY <1>1 DEF Elements
<1> QED
  BY <1>2, <1>3, <1>4, <1>5 DEF s, m

(* The block that an array has now, and what is known of an array that has *)
(* one.                                                                    *)
LEMMA HasData ==
  ASSUME NEW mem, ArrayOK(mem), mem # ARRAY_INIT
  PROVE  /\ Len(mem) \in DOMAIN mem /\ DOMAIN mem = 1 .. Len(mem) /\ Len(mem) \in Nat
         /\ IsSeq(Data(mem)) /\ ARRAY_SIZE(mem) = Len(Data(mem))
<1>1. Len(mem) \in Nat /\ DOMAIN mem = 1 .. Len(mem) /\ mem = [k \in 1 .. Len(mem) |-> mem[k]]
  BY DEF ArrayOK, IsSeq
<1>2. Len(mem) # 0
  <2> SUFFICES ASSUME Len(mem) = 0
               PROVE  mem = <<>>
    BY DEF ARRAY_INIT
  <2>1. mem = [k \in 1 .. 0 |-> mem[k]] /\ 1 .. 0 = {}
    BY <1>1
  <2> QED
    BY <2>1
<1> QED
  BY <1>1, <1>2 DEF ArrayOK, Data, ARRAY_SIZE

(* ARRAY_PUSH keeps every pointer good: the blocks that were there stay,   *)
(* one has the value at its end, and the elements are the old ones and the *)
(* value.                                                                  *)
LEMMA Pushed ==
  ASSUME NEW mem, ArrayOK(mem), NEW first, NEW v
  PROVE  LET new == ARRAY_PUSH(mem, first, v)
         IN /\ ArrayOK(new)
            /\ Pointers(mem) \subseteq Pointers(new)
            /\ Newest(new) \in Pointers(new) \ {NULL}
            /\ Elements(new) \subseteq Elements(mem) \cup {v}
<1> DEFINE new == ARRAY_PUSH(mem, first, v)
<1>1. CASE mem = ARRAY_INIT
  <2>1. new = <<<<v>>>> /\ Pointers(mem) = {NULL}
    BY <1>1 DEF ARRAY_PUSH, ARRAY_INIT, Pointers
  <2> QED
    BY <2>1, PushedFirst DEF NULL
<1>2. CASE mem # ARRAY_INIT
  <2> DEFINE d == Data(mem)
             e == Append(d, v)
             n == Len(mem)
  <2>1. /\ n \in DOMAIN mem /\ DOMAIN mem = 1 .. n /\ n \in Nat
        /\ IsSeq(d) /\ d = mem[n] /\ IsSeq(mem)
    BY <1>2, HasData DEF Data, ArrayOK
  <2>2. /\ IsSeq(e) /\ Len(e) = Len(d) + 1 /\ DOMAIN d = 1 .. Len(d)
        /\ DOMAIN e = 1 .. Len(d) + 1 /\ Len(d) \in Nat
        /\ \A k \in 1 .. Len(d) : e[k] = d[k]
        /\ e[Len(d) + 1] = v
    <3> HIDE DEF d
    <3>1. Len(d) \in Nat
      BY <2>1 DEF IsSeq
    <3> QED
      BY <2>1, <3>1, Appended
  <2>3. new = Append(mem, e) \/ new = [mem EXCEPT ![n] = e]
    BY <1>2 DEF ARRAY_PUSH, Data
  <2> HIDE DEF d, e, n, new
  <2> DEFINE m == Len(new)
  <2>4. /\ IsSeq(new) /\ DOMAIN new = 1 .. m /\ m \in Nat /\ n <= m /\ m > 0
        /\ new[m] = e
        /\ \A i \in 1 .. m : i # m => i \in 1 .. n /\ new[i] = mem[i]
        /\ \A i \in 1 .. n : new[i] = mem[i] \/ (i = n /\ new[i] = e)
    <3>1. CASE new = Append(mem, e)
      <4>1. /\ IsSeq(new) /\ Len(new) = n + 1 /\ DOMAIN new = 1 .. n + 1
            /\ \A k \in 1 .. n : new[k] = mem[k]
            /\ new[n + 1] = e
        BY <3>1, <2>1, Appended DEF n
      <4> QED
        BY <4>1, <2>1
    <3>2. CASE new = [mem EXCEPT ![n] = e]
      <4>1. /\ new = [k \in 1 .. n |-> new[k]] /\ DOMAIN new = 1 .. n
            /\ \A k \in 1 .. n : k # n => new[k] = mem[k]
            /\ new[n] = e
        BY <3>2, <2>1
      <4>2. Len(new) = n /\ IsSeq(new)
        BY <4>1, <2>1, Sequence
      <4> QED
        BY <4>1, <4>2, <2>1
    <3> QED
      BY <2>3, <3>1, <3>2
  <2> HIDE DEF m
  <2>5. ArrayOK(new)
    BY <2>1, <2>2, <2>4 DEF ArrayOK
  <2>6. ASSUME NEW i \in DOMAIN mem, NEW j \in DOMAIN mem[i]
        PROVE  i \in DOMAIN new /\ j \in DOMAIN new[i]
    <3>1. i \in 1 .. n /\ i \in 1 .. m
      BY <2>1, <2>4
    <3>2. CASE new[i] = mem[i]
      BY <3>1, <3>2, <2>4
    <3>3. CASE i = n /\ new[i] = e
      BY <3>1, <3>3, <2>1, <2>2, <2>4
    <3> QED
      BY <3>1, <3>2, <3>3, <2>4
  <2>7. Pointers(mem) \subseteq Pointers(new)
    BY <2>6 DEF Pointers
  <2>8. ARRAY_SIZE(new) = Len(d) + 1 /\ Len(d) + 1 \in DOMAIN new[m]
    <3>1. new # ARRAY_INIT
      BY <2>4 DEF ARRAY_INIT
    <3>2. Data(new) = e
      BY <2>4 DEF Data, m
    <3> QED
      BY <3>1, <3>2, <2>2, <2>4 DEF ARRAY_SIZE
  <2>9. Newest(new) \in Pointers(new) \ {NULL}
    <3> DEFINE p == Newest(new)
               k == Len(d) + 1
    <3>1. p = <<m, k>>
      BY <2>8 DEF Newest, m
    <3>2. m \in DOMAIN new /\ k \in DOMAIN new[m]
      BY <2>4, <2>8
    <3> HIDE DEF p, k
    <3>3. p \in Pointers(new) \ {NULL}
      BY <3>1, <3>2, <2>5, PointerIs
    <3> QED
      BY <3>3 DEF p
  <2>10. ASSUME NEW i \in DOMAIN new, NEW j \in DOMAIN new[i]
         PROVE  new[i][j] \in Elements(mem) \cup {v}
    <3>1. CASE i # m
      BY <3>1, <2>1, <2>4 DEF Elements
    <3>2. CASE i = m /\ j \in 1 .. Len(d)
      <4>1. new[i][j] = mem[n][j] /\ j \in DOMAIN mem[n]
        BY <3>2, <2>1, <2>2, <2>4
      <4> QED
        BY <4>1, <2>1 DEF Elements
    <3>3. CASE i = m /\ j = Len(d) + 1
      BY <3>3, <2>2, <2>4
    <3> QED
      BY <3>1, <3>2, <3>3, <2>2, <2>4
  <2>11. Elements(new) \subseteq Elements(mem) \cup {v}
    BY <2>10 DEF Elements
  <2> QED
    BY <2>5, <2>7, <2>9, <2>11 DEF new
<1> QED
  BY <1>1, <1>2

-----------------------------------------------------------------------------
(* A pointer that is good stays good when there are more. *)
LEMMA MoreIsFine ==
  ASSUME NEW P, NEW Q, NEW P2, NEW Q2, P \subseteq P2, Q \subseteq Q2
  PROVE  /\ \A n : NodeOK(n, P, Q) => NodeOK(n, P2, Q2)
         /\ \A p : PropOK(p, Q) => PropOK(p, Q2)
         /\ \A fr : FramesOK(fr, P, Q) => FramesOK(fr, P2, Q2)
BY DEF NodeOK, PropOK, FramesOK, FrameOK

(* A new node. *)
LEMMA NodePushed ==
  ASSUME NEW nd, NEW pr, TreeOK(nd, pr), NEW first, NEW v,
         NodeOK(v, Pointers(nd), Pointers(pr))
  PROVE  TreeOK(ARRAY_PUSH(nd, first, v), pr)
<1> DEFINE new == ARRAY_PUSH(nd, first, v)
<1>1. /\ ArrayOK(new) /\ Pointers(nd) \subseteq Pointers(new)
      /\ Elements(new) \subseteq Elements(nd) \cup {v}
  BY Pushed DEF TreeOK
<1> HIDE DEF new
<1>2. \A n : NodeOK(n, Pointers(nd), Pointers(pr)) => NodeOK(n, Pointers(new), Pointers(pr))
  BY <1>1, MoreIsFine
<1>3. TreeOK(new, pr)
  BY <1>1, <1>2 DEF TreeOK
<1> QED
  BY <1>3 DEF new

(* A new property. *)
LEMMA PropPushed ==
  ASSUME NEW nd, NEW pr, TreeOK(nd, pr), NEW first, NEW v, PropOK(v, Pointers(pr))
  PROVE  TreeOK(nd, ARRAY_PUSH(pr, first, v))
<1> DEFINE new == ARRAY_PUSH(pr, first, v)
<1>1. /\ ArrayOK(new) /\ Pointers(pr) \subseteq Pointers(new)
      /\ Elements(new) \subseteq Elements(pr) \cup {v}
  BY Pushed DEF TreeOK
<1> HIDE DEF new
<1>2. /\ \A n : NodeOK(n, Pointers(nd), Pointers(pr)) => NodeOK(n, Pointers(nd), Pointers(new))
      /\ \A p : PropOK(p, Pointers(pr)) => PropOK(p, Pointers(new))
  BY <1>1, MoreIsFine
<1>3. TreeOK(nd, new)
  BY <1>1, <1>2 DEF TreeOK
<1> QED
  BY <1>3 DEF new

(* A node that is written through a pointer. *)
LEMMA NodeStored ==
  ASSUME NEW nd, NEW pr, TreeOK(nd, pr), NEW q, NEW v,
         Deref(nd, q) \in Elements(nd) => NodeOK(v, Pointers(nd), Pointers(pr))
  PROVE  TreeOK(Store(nd, q, v), pr) /\ Pointers(Store(nd, q, v)) = Pointers(nd)
<1> DEFINE new == Store(nd, q, v)
<1>1. ArrayOK(nd)
  BY DEF TreeOK
<1>2. ArrayOK(new) /\ Pointers(new) = Pointers(nd)
  BY <1>1, Stored
<1>3. \/ Elements(new) \subseteq Elements(nd)
      \/ Deref(nd, q) \in Elements(nd) /\ Elements(new) \subseteq Elements(nd) \cup {v}
  BY <1>1, StoredElements
<1> HIDE DEF new
<1>4. TreeOK(new, pr)
  BY <1>2, <1>3 DEF TreeOK
<1> QED
  BY <1>2, <1>4 DEF new

(* A property that is written through a pointer. *)
LEMMA PropStored ==
  ASSUME NEW nd, NEW pr, TreeOK(nd, pr), NEW q, NEW v,
         Deref(pr, q) \in Elements(pr) => PropOK(v, Pointers(pr))
  PROVE  TreeOK(nd, Store(pr, q, v)) /\ Pointers(Store(pr, q, v)) = Pointers(pr)
<1> DEFINE new == Store(pr, q, v)
<1>1. ArrayOK(pr)
  BY DEF TreeOK
<1>2. ArrayOK(new) /\ Pointers(new) = Pointers(pr)
  BY <1>1, Stored
<1>3. \/ Elements(new) \subseteq Elements(pr)
      \/ Deref(pr, q) \in Elements(pr) /\ Elements(new) \subseteq Elements(pr) \cup {v}
  BY <1>1, StoredElements
<1> HIDE DEF new
<1>4. TreeOK(nd, new)
  BY <1>2, <1>3 DEF TreeOK
<1> QED
  BY <1>2, <1>4 DEF new

(* The fields of a node that the parser and the rewrite pass assign. *)
LEMMA NodeWritten ==
  ASSUME NEW n, NEW P, NEW Q, NodeOK(n, P, Q), NEW x \in P, NEW y \in Q, NEW a, NEW s
  PROVE  /\ NodeOK([n EXCEPT !.children = x], P, Q)
         /\ NodeOK([n EXCEPT !.sibling = x], P, Q)
         /\ NodeOK([n EXCEPT !.properties = y], P, Q)
         /\ NodeOK([n EXCEPT !.address_cells = a, !.size_cells = s], P, Q)
BY DEF NodeOK

(* The links from a node's parent or its elder sibling. *)
LEMMA Linked ==
  ASSUME NEW nd, NEW pr, TreeOK(nd, pr), NEW p \in Pointers(nd), NEW new \in Pointers(nd)
  PROVE  TreeOK(Link(nd, p, new), pr) /\ Pointers(Link(nd, p, new)) = Pointers(nd)
<1> DEFINE c == Deref(nd, p).children
           last == LastSibling(nd, c)
<1>1. CASE p = NULL
  BY <1>1 DEF Link
<1>2. CASE p # NULL /\ c = NULL
  <2> DEFINE v == [Deref(nd, p) EXCEPT !.children = new]
  <2>1. Deref(nd, p) \in Elements(nd)
    BY <1>2, DerefElement DEF TreeOK
  <2>2. NodeOK(Deref(nd, p), Pointers(nd), Pointers(pr))
    BY <2>1 DEF TreeOK
  <2>3. NodeOK(v, Pointers(nd), Pointers(pr))
    <3> DEFINE d == Deref(nd, p)
               P == Pointers(nd)
               Q == Pointers(pr)
    <3> HIDE DEF d, P, Q
    <3> QED
      BY <2>2 DEF NodeOK, d, P, Q
  <2>4. Link(nd, p, new) = Store(nd, p, v)
    BY <1>2 DEF Link
  <2> HIDE DEF v
  <2> QED
    BY <2>3, <2>4, NodeStored
<1>3. CASE p # NULL /\ c # NULL
  <2> DEFINE v == [Deref(nd, last) EXCEPT !.sibling = new]
  <2>1. ASSUME Deref(nd, last) \in Elements(nd)
        PROVE  NodeOK(v, Pointers(nd), Pointers(pr))
    <3> DEFINE d == Deref(nd, last)
    <3>1. NodeOK(d, Pointers(nd), Pointers(pr))
      BY <2>1 DEF TreeOK
    <3> HIDE DEF d
    <3>2. NodeOK([d EXCEPT !.sibling = new], Pointers(nd), Pointers(pr))
      BY <3>1 DEF NodeOK
    <3> QED
      BY <3>2 DEF d
  <2>2. Link(nd, p, new) = Store(nd, last, v)
    BY <1>3 DEF Link
  <2> HIDE DEF v, last
  <2> QED
    BY <2>1, <2>2, NodeStored
<1> QED
  BY <1>1, <1>2, <1>3

-----------------------------------------------------------------------------
(* dtb_parse_node keeps the pointers good. *)
LEMMA ParseNodeKeeps ==
  ASSUME PointersOK, ParseNode
  PROVE  PointersOK'
<1>1. CASE UNCHANGED <<nodes, parsing>> /\ pc' = "panic"
  BY <1>1 DEF ParseNode, PointersOK, parsing, Ended
<1>2. CASE /\ LET pushed == ARRAY_PUSH(nodes, NODE_CAP, NewNode)
                  new    == Newest(pushed)
              IN nodes' = Link(pushed, curr, new) /\ curr' = new
           /\ pc' = pc
  <2> DEFINE v == NewNode
             pushed == ARRAY_PUSH(nodes, NODE_CAP, v)
             new == Newest(pushed)
  <2>1. TreeOK(nodes, props) /\ curr \in Pointers(nodes)
    BY DEF PointersOK
  <2>2. NodeOK(v, Pointers(nodes), Pointers(props))
    BY <2>1 DEF NewNode, NodeOK, Pointers
  <2>3. nodes' = Link(pushed, curr, new) /\ curr' = new
    BY <1>2
  <2>4. UNCHANGED <<props, root, frames>>
    BY DEF ParseNode
  <2> HIDE DEF v
  <2>5. TreeOK(pushed, props)
    BY <2>1, <2>2, NodePushed
  <2>6. Pointers(nodes) \subseteq Pointers(pushed) /\ new \in Pointers(pushed)
    BY <2>1, Pushed DEF TreeOK
  <2> HIDE DEF pushed, new
  <2>7. TreeOK(nodes', props) /\ Pointers(nodes') = Pointers(pushed)
    BY <2>1, <2>3, <2>5, <2>6, Linked
  <2>8. FramesOK(frames, Pointers(nodes'), Pointers(props))
    BY <2>6, <2>7, MoreIsFine DEF PointersOK
  <2> QED
    BY <1>2, <2>3, <2>4, <2>6, <2>7, <2>8 DEF PointersOK
<1> QED
  BY <1>1, <1>2 DEF ParseNode, Panic

(* dtb_parse_property keeps them good. *)
LEMMA ParsePropertyKeeps ==
  ASSUME PointersOK, ParseProperty
  PROVE  PointersOK'
<1>1. CASE UNCHANGED <<nodes, props>> /\ pc' \in {"panic", "trap"}
  BY <1>1 DEF ParseProperty, PointersOK, Ended
<1>2. ASSUME curr # NULL, pc' = pc, NEW named \in BOOLEAN, NEW copied,
             props' = ARRAY_PUSH(props, PROP_CAP, NewProperty(named, copied)),
             nodes' = Store(nodes, curr,
                        [Deref(nodes, curr) EXCEPT !.properties = Newest(props')])
      PROVE  PointersOK'
  <2> DEFINE v == NewProperty(named, copied)
             d == Deref(nodes, curr)
             w == [d EXCEPT !.properties = Newest(props')]
  <2>1. TreeOK(nodes, props) /\ curr \in Pointers(nodes) \ {NULL}
    BY <1>2 DEF PointersOK
  <2>2. d \in Elements(nodes)
    BY <2>1, DerefElement DEF TreeOK
  <2>3. NodeOK(d, Pointers(nodes), Pointers(props))
    BY <2>1, <2>2 DEF TreeOK
  <2>4. PropOK(v, Pointers(props))
    BY <2>3 DEF NewProperty, PropOK, NodeOK
  <2>5. UNCHANGED <<curr, root, frames>>
    BY DEF ParseProperty
  <2> HIDE DEF v, d
  <2>6. TreeOK(nodes, props')
    BY <1>2, <2>1, <2>4, PropPushed DEF v
  <2>7. Pointers(props) \subseteq Pointers(props') /\ Newest(props') \in Pointers(props')
    BY <1>2, <2>1, Pushed DEF TreeOK
  <2>8. NodeOK(d, Pointers(nodes), Pointers(props'))
    BY <2>3, <2>7, MoreIsFine
  <2>9. NodeOK(w, Pointers(nodes), Pointers(props'))
    BY <2>7, <2>8 DEF NodeOK
  <2> HIDE DEF w
  <2>10. nodes' = Store(nodes, curr, w)
    BY <1>2 DEF w, d
  <2>11. TreeOK(nodes', props') /\ Pointers(nodes') = Pointers(nodes)
    BY <2>6, <2>9, <2>10, NodeStored
  <2>12. FramesOK(frames, Pointers(nodes'), Pointers(props'))
    BY <2>7, <2>11, MoreIsFine DEF PointersOK
  <2> QED
    BY <1>2, <2>5, <2>11, <2>12 DEF PointersOK
<1> QED
  BY <1>1, <1>2 DEF ParseProperty, Panic, Trap

(* A node that is given its cells, and the call for it. *)
LEMMA CalledOK ==
  ASSUME NEW nd, NEW pr, TreeOK(nd, pr), NEW p \in Pointers(nd) \ {NULL}, NEW a, NEW s
  PROVE  LET new == WithCells(nd, p, a, s)
         IN /\ TreeOK(new, pr) /\ Pointers(new) = Pointers(nd)
            /\ FrameOK(Frame(new, p), Pointers(nd), Pointers(pr))
<1> DEFINE d == Deref(nd, p)
           w == [d EXCEPT !.address_cells = a, !.size_cells = s]
           new == WithCells(nd, p, a, s)
<1>1. d \in Elements(nd)
  BY DerefElement DEF TreeOK
<1>2. NodeOK(d, Pointers(nd), Pointers(pr))
  BY <1>1 DEF TreeOK
<1>3. new = Store(nd, p, w)
  BY DEF WithCells
<1> HIDE DEF d, new
<1>4. NodeOK(w, Pointers(nd), Pointers(pr))
  BY <1>2 DEF NodeOK
<1> HIDE DEF w
<1>5. TreeOK(new, pr) /\ Pointers(new) = Pointers(nd)
  BY <1>3, <1>4, NodeStored
<1>6. Deref(new, p) \in Elements(new)
  BY <1>5, DerefElement DEF TreeOK
<1>7. NodeOK(Deref(new, p), Pointers(nd), Pointers(pr))
  BY <1>5, <1>6 DEF TreeOK
<1>8. FrameOK(Frame(new, p), Pointers(nd), Pointers(pr))
  BY <1>7 DEF FrameOK, Frame, NodeOK
<1> QED
  BY <1>5, <1>8 DEF new

(* The first call is a stack of one. *)
LEMMA OneFrame ==
  ASSUME NEW f, NEW P, NEW Q, FrameOK(f, P, Q)
  PROVE  FramesOK(<<f>>, P, Q) /\ <<f>> # <<>>
<1>1. /\ Len(<<f>>) = 1 /\ DOMAIN <<f>> = {1} /\ <<f>>[1] = f
      /\ <<f>> = [k \in 1 .. 1 |-> <<f>>[k]] /\ <<f>> # <<>>
  OBVIOUS
<1> DEFINE s == <<f>>
<1> HIDE DEF s
<1>2. Len(s) = 1 /\ DOMAIN s = {1} /\ s[1] = f /\ s = [k \in 1 .. 1 |-> s[k]]
  BY <1>1 DEF s
<1>3. IsSeq(s) /\ FramesOK(s, P, Q)
  BY <1>2 DEF FramesOK, IsSeq
<1> QED
  BY <1>1, <1>3 DEF s

(* FDT_END keeps them good. *)
LEMMA ParseEndKeeps ==
  ASSUME PointersOK, ParseEnd
  PROVE  PointersOK'
<1>1. CASE UNCHANGED <<nodes, root, frames>> /\ pc' \in {"panic", "failed"}
  BY <1>1 DEF ParseEnd, PointersOK, parsing, Ended
<1>2. ASSUME ARRAY_SIZE(nodes) > 0, root' = First(nodes),
             nodes' = WithCells(nodes, root', 2, 1),
             frames' = <<Frame(nodes', root')>>, pc' = "rewrite"
      PROVE  PointersOK'
  <2>1. TreeOK(nodes, props) /\ curr \in Pointers(nodes) /\ UNCHANGED <<curr, props>>
    BY DEF PointersOK, ParseEnd, parsing
  <2>2. root' \in Pointers(nodes) \ {NULL}
    <3>1. nodes # ARRAY_INIT /\ ArrayOK(nodes)
      BY <1>2, <2>1 DEF ARRAY_SIZE, TreeOK
    <3>2. Len(nodes) \in DOMAIN nodes /\ IsSeq(Data(nodes)) /\ ARRAY_SIZE(nodes) = Len(Data(nodes))
      BY <3>1, HasData
    <3>3. 1 \in DOMAIN Data(nodes)
      BY <1>2, <3>2 DEF IsSeq
    <3>4. root' = <<Len(nodes), 1>> /\ 1 \in DOMAIN nodes[Len(nodes)]
      BY <1>2, <3>3 DEF First, Data
    <3> QED
      BY <3>1, <3>2, <3>4, PointerIs
  <2> DEFINE r == First(nodes)
             f == Frame(nodes', r)
  <2>3. r \in Pointers(nodes) \ {NULL} /\ nodes' = WithCells(nodes, r, 2, 1)
    BY <1>2, <2>2
  <2> HIDE DEF r
  <2>4. /\ TreeOK(nodes', props) /\ Pointers(nodes') = Pointers(nodes)
        /\ FrameOK(f, Pointers(nodes), Pointers(props))
    BY <2>1, <2>3, CalledOK
  <2> HIDE DEF f
  <2>5. FramesOK(<<f>>, Pointers(nodes), Pointers(props)) /\ <<f>> # <<>>
    BY <2>4, OneFrame
  <2>6. frames' = <<f>>
    BY <1>2 DEF f, r
  <2> QED
    BY <1>2, <2>1, <2>2, <2>4, <2>5, <2>6 DEF PointersOK
<1> QED
  BY <1>1, <1>2 DEF ParseEnd, Panic, Return, Goto

(* The innermost call. *)
LEMMA TopOK ==
  ASSUME PointersOK, pc = "rewrite"
  PROVE  /\ Len(frames) \in DOMAIN frames /\ DOMAIN frames = 1 .. Len(frames) /\ Len(frames) \in Nat
         /\ frames = [k \in 1 .. Len(frames) |-> frames[k]]
         /\ FrameOK(Top, Pointers(nodes), Pointers(props))
<1>1. Len(frames) \in Nat /\ DOMAIN frames = 1 .. Len(frames) /\ frames = [k \in 1 .. Len(frames) |-> frames[k]]
  BY DEF PointersOK, FramesOK, IsSeq
<1>2. Len(frames) # 0
  <2> SUFFICES ASSUME Len(frames) = 0
               PROVE  frames = <<>>
    BY DEF PointersOK
  <2>1. frames = [k \in 1 .. 0 |-> frames[k]] /\ 1 .. 0 = {}
    BY <1>1
  <2> QED
    BY <2>1
<1>3. Len(frames) \in DOMAIN frames
  BY <1>1, <1>2
<1> QED
  BY <1>1, <1>3 DEF PointersOK, FramesOK, Top

(* A round of the loop over the properties of a node. *)
LEMMA RewritePropertyKeeps ==
  ASSUME PointersOK, RewriteProperty
  PROVE  PointersOK'
<1> DEFINE p == Deref(props, Top.prop)
<1>1. pc = "rewrite" /\ Top.prop # NULL /\ UNCHANGED <<nodes, root, curr>>
  BY DEF RewriteProperty, parsing
<1>2. /\ Len(frames) \in DOMAIN frames /\ DOMAIN frames = 1 .. Len(frames) /\ Len(frames) \in Nat
      /\ frames = [k \in 1 .. Len(frames) |-> frames[k]]
      /\ FrameOK(Top, Pointers(nodes), Pointers(props))
  BY <1>1, TopOK
<1>3. TreeOK(nodes, props) /\ Top.prop \in Pointers(props) \ {NULL}
  BY <1>1, <1>2 DEF PointersOK, FrameOK
<1>4. p \in Elements(props)
  BY <1>3, DerefElement DEF TreeOK
<1>5. PropOK(p, Pointers(props))
  BY <1>3, <1>4 DEF TreeOK
<1> HIDE DEF p
<1>6. ASSUME NEW t, NEW x, NEW y,
             props' = Store(props, Top.prop, [p EXCEPT !.type = t, !.num = x, !.data = y])
      PROVE  TreeOK(nodes, props') /\ Pointers(props') = Pointers(props)
  <2> DEFINE w == [p EXCEPT !.type = t, !.num = x, !.data = y]
  <2>1. PropOK(w, Pointers(props))
    BY <1>5 DEF PropOK
  <2>2. props' = Store(props, Top.prop, w)
    BY <1>6
  <2> HIDE DEF w
  <2> QED
    BY <1>3, <2>1, <2>2, PropStored
<1>7. ASSUME NEW r, frames' = SetTop(NextFrame(Top, p, r))
      PROVE  FramesOK(frames', Pointers(nodes), Pointers(props)) /\ frames' # <<>>
  <2> DEFINE f == NextFrame(Top, p, r)
             n == Len(frames)
  <2>1. FrameOK(f, Pointers(nodes), Pointers(props))
    <3> DEFINE t == Top
               P == Pointers(nodes)
               Q == Pointers(props)
    <3>1. FrameOK(t, P, Q) /\ p.next \in Q /\ f = NextFrame(t, p, r)
      BY <1>2, <1>5 DEF PropOK
    <3> HIDE DEF t, P, Q, f
    <3>2. /\ f.node = t.node /\ f.prop = p.next /\ f.child = t.child
          /\ {"node", "prop", "child"} \subseteq DOMAIN f
      BY <3>1 DEF FrameOK, NextFrame
    <3>3. FrameOK(f, P, Q)
      BY <3>1, <3>2 DEF FrameOK
    <3> QED
      BY <3>3 DEF P, Q
  <2>2. frames' = [frames EXCEPT ![n] = f]
    BY <1>7 DEF SetTop
  <2> HIDE DEF f
  <2>3. /\ IsSeq(frames') /\ Len(frames') = n /\ DOMAIN frames' = 1 .. n
        /\ frames'[n] = f /\ \A k \in 1 .. n : k # n => frames'[k] = frames[k]
    <3> DEFINE new == [frames EXCEPT ![n] = f]
    <3>1. n = Len(frames) /\ n # 0 /\ IsSeq(frames)
      BY <1>2 DEF IsSeq
    <3> HIDE DEF n
    <3>2. Replaced(new, frames, n, f)
      BY DEF Replaced
    <3> HIDE DEF new
    <3>3. /\ IsSeq(new) /\ Len(new) = n /\ DOMAIN new = 1 .. n
          /\ new[n] = f /\ \A k \in 1 .. n : k # n => new[k] = frames[k]
      BY <3>1, <3>2, LastReplaced
    <3> QED
      BY <2>2, <3>3 DEF new
  <2>4. n \in Nat /\ n > 0
    BY <1>2
  <2> HIDE DEF n
  <2>5. \A k \in 1 .. n : /\ FrameOK(frames'[k], Pointers(nodes), Pointers(props))
                          /\ k < n => frames'[k].child # NULL
    BY <2>1, <2>3, <1>2 DEF PointersOK, FramesOK, n
  <2> QED
    BY <2>3, <2>4, <2>5 DEF FramesOK
<1>8. PICK r : \/ /\ props' = Store(props, Top.prop, [p EXCEPT !.type = r.type, !.num = r.num, !.data = r.data])
                  /\ frames' = SetTop(NextFrame(Top, p, r)) /\ pc' = pc
               \/ /\ props' = Store(props, Top.prop, [p EXCEPT !.type = r.type, !.num = r.num, !.data = r.data])
                  /\ pc' = "failed" /\ UNCHANGED frames
               \/ /\ pc' \in {"panic", "trap"}
                  /\ UNCHANGED <<props, frames>>
  BY DEF RewriteProperty, p, Return, Goto
<1>9. CASE /\ props' = Store(props, Top.prop, [p EXCEPT !.type = r.type, !.num = r.num, !.data = r.data])
           /\ frames' = SetTop(NextFrame(Top, p, r)) /\ pc' = pc
  <2>1. TreeOK(nodes, props') /\ Pointers(props') = Pointers(props)
    BY <1>6, <1>9
  <2>2. FramesOK(frames', Pointers(nodes), Pointers(props)) /\ frames' # <<>>
    BY <1>7, <1>9
  <2> QED
    BY <1>1, <1>9, <2>1, <2>2 DEF PointersOK
<1>10. CASE /\ props' = Store(props, Top.prop, [p EXCEPT !.type = r.type, !.num = r.num, !.data = r.data])
            /\ pc' = "failed" /\ UNCHANGED frames
  <2>1. TreeOK(nodes, props') /\ Pointers(props') = Pointers(props)
    BY <1>6, <1>10
  <2> QED
    BY <1>1, <1>10, <2>1 DEF PointersOK, Ended
<1>11. CASE pc' \in {"panic", "trap"} /\ UNCHANGED <<props, frames>>
  BY <1>1, <1>11 DEF PointersOK, Ended
<1> QED
  BY <1>8, <1>9, <1>10, <1>11

(* The recursive call. *)
LEMMA RewriteChildKeeps ==
  ASSUME PointersOK, RewriteChild
  PROVE  PointersOK'
<1> DEFINE c == Top.child
           a == Top.next_address_cells
           s == Top.next_size_cells
           f == Frame(nodes', c)
<1>1. /\ pc = "rewrite" /\ c # NULL /\ UNCHANGED <<pc, props, root, curr>>
      /\ nodes' = WithCells(nodes, c, a, s) /\ frames' = Append(frames, f)
  BY DEF RewriteChild, parsing
<1>2. /\ Len(frames) \in DOMAIN frames /\ DOMAIN frames = 1 .. Len(frames) /\ Len(frames) \in Nat
      /\ FrameOK(Top, Pointers(nodes), Pointers(props)) /\ IsSeq(frames)
  BY <1>1, TopOK DEF PointersOK, FramesOK
<1>3. TreeOK(nodes, props) /\ c \in Pointers(nodes) \ {NULL}
  BY <1>1, <1>2 DEF PointersOK, FrameOK
<1>4. frames[Len(frames)].child = c
  BY DEF Top
<1> HIDE DEF c, a, s
<1>5. /\ TreeOK(nodes', props) /\ Pointers(nodes') = Pointers(nodes)
      /\ FrameOK(f, Pointers(nodes), Pointers(props))
  BY <1>1, <1>3, CalledOK
<1> HIDE DEF f
<1>6. /\ IsSeq(frames') /\ Len(frames') = Len(frames) + 1 /\ DOMAIN frames' = 1 .. Len(frames) + 1
      /\ \A k \in 1 .. Len(frames) : frames'[k] = frames[k]
      /\ frames'[Len(frames) + 1] = f
  BY <1>1, <1>2, Appended
<1>7. \A k \in 1 .. Len(frames) + 1 :
        /\ FrameOK(frames'[k], Pointers(nodes), Pointers(props))
        /\ k < Len(frames) + 1 => frames'[k].child # NULL
  BY <1>1, <1>2, <1>3, <1>4, <1>5, <1>6 DEF PointersOK, FramesOK
<1>8. FramesOK(frames', Pointers(nodes), Pointers(props)) /\ frames' # <<>>
  <2>1. frames' # <<>>
    BY <1>2, <1>6
  <2> QED
    BY <1>6, <1>7, <2>1 DEF FramesOK
<1> QED
  BY <1>1, <1>5, <1>8 DEF PointersOK

(* The return from it. *)
LEMMA RewriteReturnKeeps ==
  ASSUME PointersOK, RewriteReturn
  PROVE  PointersOK'
<1> DEFINE n == Len(frames) - 1
           new == [i \in 1 .. n |->
                     IF i = n THEN [frames[i] EXCEPT !.child = Deref(nodes, @).sibling] ELSE frames[i]]
<1>1. /\ pc = "rewrite" /\ UNCHANGED <<props, nodes, root, curr>>
      /\ frames' = new /\ (IF Len(frames) = 1 THEN pc' = "print" ELSE pc' = pc)
  BY DEF RewriteReturn, parsing, treeVars, Callers, Goto
<1>2. /\ Len(frames) \in DOMAIN frames /\ DOMAIN frames = 1 .. Len(frames) /\ Len(frames) \in Nat
  BY <1>1, TopOK
<1>3. n \in Nat /\ n < Len(frames) /\ 1 .. n \subseteq DOMAIN frames
  BY <1>2
<1>4. ASSUME NEW k \in 1 .. n
      PROVE  FrameOK(new[k], Pointers(nodes), Pointers(props)) /\ (k < n => new[k].child # NULL)
  <2>1. FrameOK(frames[k], Pointers(nodes), Pointers(props)) /\ frames[k].child # NULL
    BY <1>2, <1>3 DEF PointersOK, FramesOK
  <2>2. CASE k # n
    BY <2>1, <2>2
  <2>3. CASE k = n
    <3> DEFINE f == frames[k]
               y == Deref(nodes, f.child).sibling
    <3>1. f.child \in Pointers(nodes) \ {NULL}
      BY <2>1 DEF FrameOK
    <3>2. Deref(nodes, f.child) \in Elements(nodes)
      BY <3>1, DerefElement DEF PointersOK, TreeOK
    <3>3. y \in Pointers(nodes)
      BY <3>2 DEF PointersOK, TreeOK, NodeOK
    <3>4. new[k] = [f EXCEPT !.child = y]
      BY <2>3
    <3> HIDE DEF y, f, new
    <3>5. FrameOK(f, Pointers(nodes), Pointers(props))
      BY <2>1 DEF f
    <3>6. FrameOK([f EXCEPT !.child = y], Pointers(nodes), Pointers(props))
      BY <3>3, <3>5 DEF FrameOK
    <3> QED
      BY <2>3, <3>4, <3>6
  <2> QED
    BY <2>2, <2>3
<1>5. new = [k \in 1 .. n |-> new[k]] /\ DOMAIN new = 1 .. n
  OBVIOUS
<1> HIDE DEF n, new
<1>6. IsSeq(new) /\ Len(new) = n
  BY <1>3, <1>5, Sequence
<1>7. n # 0 => new # <<>>
  BY <1>6
<1>8. FramesOK(new, Pointers(nodes), Pointers(props))
  BY <1>4, <1>5, <1>6 DEF FramesOK
<1>9. n = 0 => Len(frames) = 1
  <2>1. ASSUME NEW l \in Nat, l - 1 = 0
        PROVE  l = 1
    BY <2>1
  <2> QED
    BY <1>2, <2>1 DEF n
<1> QED
  BY <1>1, <1>7, <1>8, <1>9 DEF PointersOK

(* Every step keeps the pointers good. *)
LEMMA PointersKept ==
  ASSUME PointersOK, [Next]_vars
  PROVE  PointersOK'
<1>1. ASSUME UNCHANGED <<treeVars, curr, frames>>,
             pc' \in Ended \cup {"map", "mapRest", "reserve", "parse", "print", "unmap"}
      PROVE  PointersOK'
  BY <1>1 DEF PointersOK, treeVars, Ended
<1> USE DEF Ended, parsing, Goto, Return, Panic, Trap
<1>2. CASE MapFirst
  BY <1>1, <1>2 DEF MapFirst
<1>3. CASE MapRest
  BY <1>1, <1>3 DEF MapRest
<1>4. CASE MapFails
  BY <1>1, <1>4 DEF MapFails
<1>5. CASE AllocBuffer
  BY <1>1, <1>5 DEF AllocBuffer
<1>6. CASE Reserve
  BY <1>1, <1>6 DEF Reserve
<1>7. CASE ReserveEnds
  BY <1>1, <1>7 DEF ReserveEnds
<1>8. CASE ParseEndNode
  <2>1. CASE curr = NULL
    BY <1>1, <1>8, <2>1 DEF ParseEndNode
  <2>2. CASE curr # NULL
    <3>1. TreeOK(nodes, props) /\ curr \in Pointers(nodes) \ {NULL}
      BY <2>2 DEF PointersOK
    <3>2. Deref(nodes, curr) \in Elements(nodes)
      BY <3>1, DerefElement DEF TreeOK
    <3>3. Deref(nodes, curr).parent \in Pointers(nodes)
      BY <3>1, <3>2 DEF TreeOK, NodeOK
    <3> QED
      BY <1>8, <2>2, <3>3 DEF ParseEndNode, PointersOK, treeVars
  <2> QED
    BY <2>1, <2>2
<1>9. CASE ParseNop
  BY <1>1, <1>9 DEF ParseNop
<1>10. CASE ParseUnknown
  BY <1>1, <1>10 DEF ParseUnknown
<1>11. CASE PrintTree
  BY <1>1, <1>11 DEF PrintTree
<1>12. CASE Unmap
  BY <1>1, <1>12 DEF Unmap
<1>13. CASE Done
  BY <1>1, <1>13 DEF Done
<1>14. CASE UNCHANGED vars
  BY <1>14 DEF vars, PointersOK, treeVars
<1> QED
  BY <1>2, <1>3, <1>4, <1>5, <1>6, <1>7, <1>8, <1>9, <1>10, <1>11, <1>12, <1>13, <1>14,
     ParseNodeKeeps, ParsePropertyKeeps, ParseEndKeeps, RewritePropertyKeeps,
     RewriteChildKeeps, RewriteReturnKeeps
  DEF Next

(* At the start no pointer is set. *)
LEMMA PointersInit == Init => PointersOK
<1> SUFFICES ASSUME Init
             PROVE  PointersOK
  OBVIOUS
<1>1. /\ nodes = <<>> /\ props = <<>> /\ frames = <<>> /\ pc = "map"
      /\ curr = NULL /\ root = NULL
  BY DEF Init, ARRAY_INIT
<1>2. IsSeq(<<>>) /\ DOMAIN <<>> = {}
  BY DEF IsSeq
<1>3. ArrayOK(<<>>) /\ Elements(<<>>) = {} /\ NULL \in Pointers(<<>>)
  BY <1>2 DEF ArrayOK, Elements, Pointers
<1> QED
  BY <1>1, <1>2, <1>3 DEF PointersOK, TreeOK, FramesOK

(* No pointer in the tree that dt_initialize builds, nor the ones it works *)
(* with, ever dangles: it is NULL or refers to an element of a block that  *)
(* the array has, or has had and has not freed.                            *)
THEOREM PointersGood == Spec => []TypeOK
<1>1. PointersOK => TypeOK
  <2> SUFFICES ASSUME PointersOK
               PROVE  TypeOK
    OBVIOUS
  <2>1. ASSUME NEW p \in Pointers(nodes) \ {NULL}
        PROVE  /\ {Deref(nodes, p).parent, Deref(nodes, p).children, Deref(nodes, p).sibling}
                    \subseteq Pointers(nodes)
               /\ Deref(nodes, p).properties \in Pointers(props)
    <3>1. Deref(nodes, p) \in Elements(nodes)
      BY DerefElement DEF PointersOK, TreeOK
    <3> QED
      BY <3>1 DEF PointersOK, TreeOK, NodeOK
  <2>2. ASSUME NEW p \in Pointers(props) \ {NULL}
        PROVE  Deref(props, p).next \in Pointers(props)
    <3>1. Deref(props, p) \in Elements(props)
      BY DerefElement DEF PointersOK, TreeOK
    <3> QED
      BY <3>1 DEF PointersOK, TreeOK, PropOK
  <2> QED
    BY <2>1, <2>2 DEF PointersOK, TypeOK
<1> QED
  BY <1>1, PointersInit, PointersKept, PTL DEF Spec
-----------------------------------------------------------------------------
(***************************************************************************)
(* The pages of the blob                                                   *)
(***************************************************************************)
Multiples(a, b) == {x \in Nat : x % PAGE = 0 /\ a <= x /\ x < b}

(* The inductive invariant: what the loops have mapped so far. *)
MappedOK ==
  /\ blob \in Blobs
  /\ pc = "mapRest" =>
       /\ pa \in Nat /\ pa % PAGE = 0 /\ AlignedBase < pa /\ pa < BlobEnd + PAGE
       /\ mapped = Multiples(AlignedBase, pa)
  /\ pc \in {"reserve", "parse", "rewrite", "print"} => mapped = Multiples(AlignedBase, BlobEnd)
  /\ pc = "unmap" =>
       /\ pa \in Nat /\ pa % PAGE = 0 /\ mapped = Multiples(pa, BlobEnd)
  /\ pc = "done" => mapped = {}

(* Multiples of the size of a page. *)
LEMMA PageMultiples ==
  /\ PAGE \in Nat /\ PAGE > 0
  /\ \A x \in Nat : /\ PAGE * (x \div PAGE) \in Nat /\ (PAGE * (x \div PAGE)) % PAGE = 0
                    /\ PAGE * (x \div PAGE) <= x /\ x < PAGE * (x \div PAGE) + PAGE
  /\ \A x \in Nat : x % PAGE = 0 => (x + PAGE) % PAGE = 0
  /\ \A x, y \in Nat : x % PAGE = 0 /\ y % PAGE = 0 /\ x < y => x + PAGE <= y
<1>1. PAGE \in Nat /\ PAGE > 0 /\ PAGE \in Int
  BY DeviceTreeAssumption
<1>2. ASSUME NEW x \in Nat
      PROVE  /\ x \div PAGE \in Nat /\ x = PAGE * (x \div PAGE) + (x % PAGE)
             /\ x % PAGE \in 0 .. PAGE - 1
  BY <1>1
<1>3. ASSUME NEW k \in Int
      PROVE  (PAGE * k) % PAGE = 0 /\ PAGE * k \in Int
  BY <1>1
<1>4. ASSUME NEW x \in Nat
      PROVE  /\ PAGE * (x \div PAGE) \in Nat /\ (PAGE * (x \div PAGE)) % PAGE = 0
             /\ PAGE * (x \div PAGE) <= x /\ x < PAGE * (x \div PAGE) + PAGE
  <2> DEFINE k == x \div PAGE
             m == PAGE * k
  <2>1. k \in Int /\ k \in Nat
    BY <1>2
  <2> HIDE DEF k
  <2>2. m % PAGE = 0 /\ m \in Int /\ m >= 0
    BY <1>1, <1>3, <2>1
  <2>3. x = m + (x % PAGE) /\ x % PAGE \in 0 .. PAGE - 1
    BY <1>2 DEF k
  <2> HIDE DEF m
  <2>4. m \in Nat /\ m % PAGE = 0 /\ m <= x /\ x < m + PAGE
    BY <1>1, <2>2, <2>3
  <2> QED
    BY <2>4 DEF m, k
<1>5. ASSUME NEW x \in Nat, x % PAGE = 0
      PROVE  (x + PAGE) % PAGE = 0
  <2> DEFINE k == x \div PAGE
  <2>1. k \in Nat /\ x = PAGE * k
    BY <1>1, <1>2, <1>5
  <2> HIDE DEF k
  <2>2. x + PAGE = PAGE * (k + 1) /\ k + 1 \in Int
    BY <1>1, <2>1
  <2> QED
    BY <1>3, <2>2
<1>6. ASSUME NEW x \in Nat, NEW y \in Nat, x % PAGE = 0, y % PAGE = 0, x < y
      PROVE  x + PAGE <= y
  <2> DEFINE k == x \div PAGE
             l == y \div PAGE
  <2>1. k \in Nat /\ x = PAGE * k /\ l \in Nat /\ y = PAGE * l
    BY <1>1, <1>2, <1>6
  <2> HIDE DEF k, l
  <2>2. k < l
    BY <1>1, <1>6, <2>1
  <2>3. PAGE * (k + 1) <= PAGE * l
    BY <1>1, <2>1, <2>2
  <2> QED
    BY <1>1, <2>1, <2>3
<1> QED
  BY <1>1, <1>4, <1>5, <1>6

(* The loops go from one multiple to the next. *)
LEMMA NextMultiple ==
  ASSUME NEW x \in Nat, x % PAGE = 0
  PROVE  /\ Multiples(x, x + PAGE) = {x}
         /\ \A a \in Nat : a <= x => Multiples(a, x + PAGE) = Multiples(a, x) \cup {x}
         /\ \A b \in Nat : x < b => Multiples(x + PAGE, b) = Multiples(x, b) \ {x}
         /\ \A a, b \in Nat : b <= x /\ x < b + PAGE => Multiples(a, x) = Multiples(a, b)
<1>1. PAGE \in Nat /\ PAGE > 0
  BY PageMultiples
<1>2. \A y \in Nat : y % PAGE = 0 => (y < x => y + PAGE <= x) /\ (x < y => x + PAGE <= y)
  BY PageMultiples
<1> QED
  BY <1>1, <1>2 DEF Multiples

(* The first page of the blob. *)
LEMMA FirstPage ==
  ASSUME blob \in Blobs
  PROVE  /\ AlignedBase \in Nat /\ AlignedBase % PAGE = 0 /\ BlobEnd \in Nat
         /\ AlignedBase <= blob.base /\ blob.base < BlobEnd
         /\ blob.base \in Nat /\ blob.size \in Nat
<1>1. blob.base \in Nat /\ blob.size \in Nat \ {0}
  BY DeviceTreeAssumption
<1> QED
  BY <1>1, PageMultiples DEF AlignedBase, BlobEnd

(* Every step keeps the account of the pages. *)
LEMMA MappedKept ==
  ASSUME MappedOK, [Next]_vars
  PROVE  MappedOK'
<1>1. /\ AlignedBase \in Nat /\ AlignedBase % PAGE = 0 /\ BlobEnd \in Nat
      /\ AlignedBase <= blob.base /\ blob.base < BlobEnd /\ AlignedBase < BlobEnd
      /\ blob \in Blobs /\ PAGE \in Nat /\ PAGE > 0
  BY FirstPage, PageMultiples DEF MappedOK
<1>2. ASSUME UNCHANGED <<blob, mapped, pa>>, pc' = pc \/ pc' \in {"failed", "panic", "trap"}
      PROVE  MappedOK'
  BY <1>2 DEF MappedOK, AlignedBase, BlobEnd
<1>3. ASSUME UNCHANGED <<blob, mapped>>,
             pc \in {"reserve", "parse", "rewrite", "print"},
             pc' \in {"reserve", "parse", "rewrite", "print"}
      PROVE  MappedOK'
  BY <1>3 DEF MappedOK, AlignedBase, BlobEnd
<1> USE DEF mapVars, Goto, Return, Panic, Trap
<1>4. CASE MapFirst
  <2>1. Multiples(AlignedBase, AlignedBase + PAGE) = {AlignedBase}
    BY <1>1, NextMultiple
  <2>2. (AlignedBase + PAGE) % PAGE = 0 /\ AlignedBase + PAGE \in Nat
    BY <1>1, PageMultiples
  <2>3. /\ blob' = blob /\ AlignedBase' = AlignedBase /\ BlobEnd' = BlobEnd
        /\ mapped' = {AlignedBase} /\ pa' = AlignedBase + PAGE /\ pc' \in {"mapRest", "failed"}
    BY <1>4 DEF MapFirst, AlignedBase, BlobEnd
  <2> QED
    BY <1>1, <2>1, <2>2, <2>3 DEF MappedOK
<1>5. CASE MapRest
  <2>1. /\ blob' = blob /\ AlignedBase' = AlignedBase /\ BlobEnd' = BlobEnd /\ pc = "mapRest"
        /\ mapped' = mapped \cup {pa} /\ pa' = pa + PAGE /\ pc' = pc /\ pa < BlobEnd
    BY <1>5 DEF MapRest, AlignedBase, BlobEnd
  <2>2. /\ pa \in Nat /\ pa % PAGE = 0 /\ AlignedBase < pa
        /\ mapped = Multiples(AlignedBase, pa)
    BY <2>1 DEF MappedOK
  <2>3. Multiples(AlignedBase, pa + PAGE) = Multiples(AlignedBase, pa) \cup {pa}
    <3>1. AlignedBase <= pa /\ AlignedBase \in Nat
      BY <1>1, <2>2
    <3> QED
      BY <2>2, <3>1, NextMultiple
  <2>4. (pa + PAGE) % PAGE = 0 /\ pa + PAGE \in Nat /\ AlignedBase < pa + PAGE /\ pa + PAGE < BlobEnd + PAGE
    BY <1>1, <2>1, <2>2, PageMultiples
  <2> QED
    BY <1>1, <2>1, <2>2, <2>3, <2>4 DEF MappedOK
<1>6. CASE AllocBuffer
  <2>1. /\ blob' = blob /\ AlignedBase' = AlignedBase /\ BlobEnd' = BlobEnd /\ pc = "mapRest"
        /\ mapped' = mapped /\ pc' \in {"reserve", "failed"} /\ pa >= BlobEnd
    BY <1>6 DEF AllocBuffer, AlignedBase, BlobEnd
  <2>2. /\ pa \in Nat /\ pa % PAGE = 0 /\ pa < BlobEnd + PAGE
        /\ mapped = Multiples(AlignedBase, pa)
    BY <2>1 DEF MappedOK
  <2>3. Multiples(AlignedBase, pa) = Multiples(AlignedBase, BlobEnd)
    BY <1>1, <2>1, <2>2, NextMultiple
  <2> QED
    BY <1>1, <2>1, <2>2, <2>3 DEF MappedOK
<1>7. CASE PrintTree
  <2>1. /\ blob' = blob /\ AlignedBase' = AlignedBase /\ BlobEnd' = BlobEnd /\ pc = "print"
        /\ mapped' = mapped /\ pa' = AlignedBase /\ pc' = "unmap"
    BY <1>7 DEF PrintTree, AlignedBase, BlobEnd
  <2> QED
    BY <1>1, <2>1 DEF MappedOK
<1>8. CASE Unmap
  <2>1. /\ blob' = blob /\ AlignedBase' = AlignedBase /\ BlobEnd' = BlobEnd /\ pc = "unmap"
        /\ mapped' = mapped \ {pa} /\ pa' = pa + PAGE /\ pa < BlobEnd /\ pc' \in {"unmap", "failed"}
    BY <1>8 DEF Unmap, AlignedBase, BlobEnd
  <2>2. pa \in Nat /\ pa % PAGE = 0 /\ mapped = Multiples(pa, BlobEnd)
    BY <2>1 DEF MappedOK
  <2>3. Multiples(pa + PAGE, BlobEnd) = Multiples(pa, BlobEnd) \ {pa}
    BY <1>1, <2>1, <2>2, NextMultiple
  <2>4. (pa + PAGE) % PAGE = 0 /\ pa + PAGE \in Nat
    BY <1>1, <2>2, PageMultiples
  <2> QED
    BY <1>1, <2>1, <2>2, <2>3, <2>4 DEF MappedOK
<1>9. CASE Done
  <2>1. /\ blob' = blob /\ pc = "unmap" /\ mapped' = mapped /\ pa >= BlobEnd /\ pc' = "done"
    BY <1>9 DEF Done
  <2>2. pa \in Nat /\ mapped = Multiples(pa, BlobEnd)
    BY <2>1 DEF MappedOK
  <2>3. mapped' = {}
    BY <1>1, <2>1, <2>2 DEF Multiples
  <2> QED
    BY <1>1, <2>1, <2>3 DEF MappedOK
<1>10. CASE MapFails
  BY <1>2, <1>10 DEF MapFails
<1>11. CASE Reserve
  BY <1>2, <1>11 DEF Reserve
<1>12. CASE ReserveEnds
  BY <1>3, <1>12 DEF ReserveEnds
<1>13. CASE ParseNode
  BY <1>2, <1>13 DEF ParseNode
<1>14. CASE ParseProperty
  BY <1>2, <1>14 DEF ParseProperty
<1>15. CASE ParseEndNode \/ ParseNop \/ ParseUnknown
  BY <1>2, <1>15 DEF ParseEndNode, ParseNop, ParseUnknown
<1>16. CASE ParseEnd
  BY <1>2, <1>3, <1>16 DEF ParseEnd
<1>17. CASE RewriteProperty
  BY <1>2, <1>17 DEF RewriteProperty
<1>18. CASE RewriteChild
  BY <1>2, <1>18 DEF RewriteChild
<1>19. CASE RewriteReturn
  BY <1>2, <1>3, <1>19 DEF RewriteReturn
<1>20. CASE UNCHANGED vars
  BY <1>2, <1>20 DEF vars
<1> QED
  BY <1>4, <1>5, <1>6, <1>7, <1>8, <1>9, <1>10, <1>11, <1>12, <1>13, <1>14, <1>15, <1>16, <1>17, <1>18,
     <1>19, <1>20
  DEF Next

(* The whole blob is mapped, from its first byte to its last and wherever  *)
(* in a page it begins, as long as the parser reads it, and no page of it  *)
(* is when dt_initialize has succeeded.                                    *)
THEOREM BlobMapped == Spec => []MappedWhileRead
<1>1. Init => MappedOK
  BY DEF Init, MappedOK
<1>2. MappedOK => MappedWhileRead
  <2> SUFFICES ASSUME MappedOK, pc \in {"reserve", "parse"},
                      NEW a \in blob.base .. blob.base + blob.size - 1
               PROVE  \E m \in mapped : m <= a /\ a < m + PAGE
    BY DEF MappedWhileRead, MappedOK
  <2> DEFINE m == PAGE * (a \div PAGE)
  <2>1. /\ AlignedBase \in Nat /\ AlignedBase % PAGE = 0 /\ BlobEnd \in Nat
        /\ AlignedBase <= blob.base /\ blob.base \in Nat /\ blob.size \in Nat
        /\ PAGE \in Nat /\ PAGE > 0
    BY FirstPage, PageMultiples DEF MappedOK
  <2>2. a \in Nat /\ AlignedBase <= a /\ a < BlobEnd
    BY <2>1 DEF BlobEnd
  <2>3. m \in Nat /\ m % PAGE = 0 /\ m <= a /\ a < m + PAGE
    BY <2>2, PageMultiples
  <2> HIDE DEF m
  <2>4. AlignedBase <= m
    BY <2>1, <2>2, <2>3, PageMultiples
  <2>5. m \in Multiples(AlignedBase, BlobEnd)
    BY <2>1, <2>2, <2>3, <2>4 DEF Multiples
  <2> QED
    BY <2>3, <2>5 DEF MappedOK
<1> QED
  BY <1>1, <1>2, MappedKept, PTL DEF Spec

-----------------------------------------------------------------------------
(* A set of natural numbers has a least element. *)
LEMMA LeastNat ==
  ASSUME NEW S \in SUBSET Nat, S # {}
  PROVE  \E n \in S : \A k \in S : n <= k
<1> DEFINE R == {ss \in Nat \X Nat : ss[1] < ss[2]}
<1>1. IsWellFoundedOn(OpToRel(<, Nat), Nat)
  BY NatLessThanWellFounded
<1>2. OpToRel(<, Nat) = R
  BY DEF OpToRel
<1>3. IsWellFoundedOn(R, Nat)
  BY <1>1, <1>2
<1> HIDE DEF R
<1>4. PICK n \in S : \A k \in S : <<k, n>> \notin R
  BY <1>3, WFMin
<1>5. \A k \in S : ~(k < n)
  BY <1>4 DEF R
<1> QED
  BY <1>5

(* A set of numbers below a bound has a greatest element. *)
LEMMA GreatestNat ==
  ASSUME NEW b \in Nat, NEW S \in SUBSET (0 .. b), S # {}
  PROVE  \E n \in S : \A k \in S : k <= n
<1> DEFINE D == {b - k : k \in S}
<1>1. D \in SUBSET Nat /\ D # {}
  <2>1. \A k \in S : b - k \in Nat
    OBVIOUS
  <2>2. PICK k \in S : TRUE
    OBVIOUS
  <2>3. b - k \in D
    BY <2>2
  <2> QED
    BY <2>1, <2>3
<1>2. PICK d \in D : \A e \in D : d <= e
  <2> HIDE DEF D
  <2> QED
    BY <1>1, LeastNat
<1>3. PICK n \in S : d = b - n
  OBVIOUS
<1>4. \A k \in S : k <= n
  <2> SUFFICES ASSUME NEW k \in S
               PROVE  k <= n
    OBVIOUS
  <2>1. b - k \in D /\ k \in 0 .. b /\ n \in 0 .. b
    OBVIOUS
  <2>2. d <= b - k
    BY <1>2, <2>1
  <2> QED
    BY <1>3, <2>1, <2>2
<1> QED
  BY <1>4

(* Max and Min are what they should be. *)
LEMMA MaxIs ==
  ASSUME NEW b \in Nat, NEW S \in SUBSET (0 .. b), S # {}
  PROVE  Max(S) \in S /\ \A k \in S : k <= Max(S)
<1>1. \E n \in S : \A k \in S : n >= k
  BY GreatestNat
<1> QED
  BY <1>1 DEF Max

(* The least of a set of numbers. *)
LEMMA MinIs ==
  ASSUME NEW S \in SUBSET Nat, S # {}
  PROVE  Min(S) \in S /\ \A k \in S : Min(S) <= k
<1>1. \E n \in S : \A k \in S : n <= k
  BY LeastNat
<1> QED
  BY <1>1 DEF Min

-----------------------------------------------------------------------------
(* The tokens of a blob, and what they mean.  These are the operators of   *)
(* DeviceTree with the tokens as a parameter; 0 stands for no node.        *)
CountIn(t, kind, k) == Cardinality({j \in 1 .. k - 1 : t[j].kind = kind})
LevelIn(t, k) == CountIn(t, "FDT_BEGIN_NODE", k) - CountIn(t, "FDT_END_NODE", k)

NodesTo(t, k) == {j \in 1 .. k - 1 : t[j].kind = "FDT_BEGIN_NODE"}
PropsTo(t, k) == {j \in 1 .. k - 1 : t[j].kind = "FDT_PROP"}

Openers(t, k) == {j \in NodesTo(t, k) : LevelIn(t, j) = LevelIn(t, k) - 1}

(* The node that token k is within. *)
Owner(t, k) == IF LevelIn(t, k) = 0 THEN 0 ELSE Max(Openers(t, k))

(* No node is closed that was not opened, up to token n. *)
Nested(t, n) == n \in Nat \ {0} /\ \A k \in 1 .. n : LevelIn(t, k) \in Nat

(* One token more. *)
LEMMA CountStep ==
  ASSUME NEW t, NEW kind, NEW k \in Nat \ {0}
  PROVE  /\ CountIn(t, kind, k) \in Nat
         /\ CountIn(t, kind, k + 1) = CountIn(t, kind, k) + IF t[k].kind = kind THEN 1 ELSE 0
<1> DEFINE S == {j \in 1 .. k - 1 : t[j].kind = kind}
           S2 == {j \in 1 .. (k + 1) - 1 : t[j].kind = kind}
<1>1. IsFiniteSet(1 .. k - 1)
  BY FS_Interval
<1>2. IsFiniteSet(S)
  BY <1>1, FS_Subset
<1>3. Cardinality(S) \in Nat
  BY <1>2, FS_CardinalityType
<1>4. S2 = (IF t[k].kind = kind THEN S \cup {k} ELSE S) /\ k \notin S
  <2>1. 1 .. (k + 1) - 1 = (1 .. k - 1) \cup {k}
    OBVIOUS
  <2> QED
    BY <2>1
<1>5. Cardinality(S \cup {k}) = Cardinality(S) + 1
  BY <1>2, <1>4, FS_AddElement
<1>6. Cardinality(S2) = Cardinality(S) + IF t[k].kind = kind THEN 1 ELSE 0
  <2> HIDE DEF S, S2
  <2> QED
    BY <1>3, <1>4, <1>5
<1> QED
  BY <1>3, <1>6 DEF CountIn

(* The level changes by one, at the beginning and at the end of a node. *)
LEMMA LevelStep ==
  ASSUME NEW t, NEW k \in Nat \ {0}
  PROVE  /\ LevelIn(t, k) \in Int
         /\ LevelIn(t, k + 1) = LevelIn(t, k)
              + IF t[k].kind = "FDT_BEGIN_NODE" THEN 1
                ELSE IF t[k].kind = "FDT_END_NODE" THEN -1 ELSE 0
<1> DEFINE a == CountIn(t, "FDT_BEGIN_NODE", k)
           b == CountIn(t, "FDT_END_NODE", k)
           a2 == CountIn(t, "FDT_BEGIN_NODE", k + 1)
           b2 == CountIn(t, "FDT_END_NODE", k + 1)
<1>1. a \in Nat /\ a2 = a + IF t[k].kind = "FDT_BEGIN_NODE" THEN 1 ELSE 0
  BY CountStep
<1>2. b \in Nat /\ b2 = b + IF t[k].kind = "FDT_END_NODE" THEN 1 ELSE 0
  BY CountStep
<1>3. LevelIn(t, k) = a - b /\ LevelIn(t, k + 1) = a2 - b2
  BY DEF LevelIn
<1> HIDE DEF a, b, a2, b2
<1> QED
  BY <1>1, <1>2, <1>3

(* No node is open at the first token. *)
LEMMA LevelFirst == \A t : LevelIn(t, 1) = 0
<1> SUFFICES ASSUME NEW t
             PROVE  LevelIn(t, 1) = 0
  OBVIOUS
<1>1. \A kind : {j \in 1 .. 1 - 1 : t[j].kind = kind} = {}
  OBVIOUS
<1>2. \A kind : CountIn(t, kind, 1) = 0
  BY <1>1, FS_EmptySet DEF CountIn
<1> QED
  BY <1>2 DEF LevelIn

(* The last token before k at a lower level than l begins a node. *)
LEMMA LastBelow ==
  ASSUME NEW t, NEW k \in Nat \ {0}, NEW l \in Int, LevelIn(t, k) >= l,
         NEW x \in 1 .. k, LevelIn(t, x) < l
  PROVE  \E m \in x .. k - 1 :
           /\ t[m].kind = "FDT_BEGIN_NODE" /\ LevelIn(t, m) = l - 1
           /\ \A i \in m + 1 .. k : LevelIn(t, i) >= l
<1> DEFINE S == {m \in x .. k : LevelIn(t, m) < l}
<1>1. S \in SUBSET (0 .. k) /\ S # {}
  OBVIOUS
<1>2. PICK m \in S : \A i \in S : i <= m
  <2> HIDE DEF S
  <2> QED
    BY <1>1, GreatestNat
<1>3. m \in x .. k - 1 /\ LevelIn(t, m) < l
  <2>1. m \in x .. k /\ LevelIn(t, m) < l
    OBVIOUS
  <2>2. m # k
    <3>1. LevelIn(t, k) \in Int
      BY LevelStep
    <3> QED
      BY <2>1, <3>1
  <2> QED
    BY <2>1, <2>2
<1>4. ASSUME NEW i \in m + 1 .. k
      PROVE  LevelIn(t, i) >= l
  <2>1. i \notin S
    BY <1>2, <1>3
  <2>2. LevelIn(t, i) \in Int
    BY <1>3, LevelStep
  <2> QED
    BY <1>3, <2>1, <2>2
<1>5. LevelIn(t, m + 1) >= l
  BY <1>3, <1>4
<1>6. /\ LevelIn(t, m) \in Int
      /\ LevelIn(t, m + 1) = LevelIn(t, m)
           + IF t[m].kind = "FDT_BEGIN_NODE" THEN 1
             ELSE IF t[m].kind = "FDT_END_NODE" THEN -1 ELSE 0
  BY <1>3, LevelStep
<1>7. t[m].kind = "FDT_BEGIN_NODE" /\ LevelIn(t, m) = l - 1
  BY <1>3, <1>5, <1>6
<1> QED
  BY <1>3, <1>4, <1>7

(* The node that a token is within has begun before it and goes on until   *)
(* it.                                                                     *)
WithinNode(t, p, k) ==
  /\ p \in 1 .. k - 1 /\ t[p].kind = "FDT_BEGIN_NODE" /\ LevelIn(t, p) = LevelIn(t, k) - 1
  /\ \A i \in p + 1 .. k : LevelIn(t, i) >= LevelIn(t, k)

(* Inside a node there is such a token, and Owner is it. *)
LEMMA OwnerIs ==
  ASSUME NEW t, NEW k \in Nat \ {0}, LevelIn(t, k) > 0
  PROVE  WithinNode(t, Owner(t, k), k)
<1>0. LevelIn(t, k) \in Int /\ LevelIn(t, 1) = 0
  BY LevelStep, LevelFirst
<1>1. PICK m \in 1 .. k - 1 :
           /\ t[m].kind = "FDT_BEGIN_NODE" /\ LevelIn(t, m) = LevelIn(t, k) - 1
           /\ \A i \in m + 1 .. k : LevelIn(t, i) >= LevelIn(t, k)
  <2>1. 1 \in 1 .. k /\ LevelIn(t, 1) < LevelIn(t, k)
    BY <1>0
  <2> DEFINE l == LevelIn(t, k)
  <2>2. l \in Int /\ LevelIn(t, k) >= l /\ LevelIn(t, 1) < l
    BY <1>0, <2>1
  <2> HIDE DEF l
  <2>3. \E m \in 1 .. k - 1 :
           /\ t[m].kind = "FDT_BEGIN_NODE" /\ LevelIn(t, m) = l - 1
           /\ \A i \in m + 1 .. k : LevelIn(t, i) >= l
    BY <2>1, <2>2, LastBelow
  <2> QED
    BY <2>3 DEF l
<1>2. m \in Openers(t, k) /\ Openers(t, k) \in SUBSET (0 .. k)
  BY <1>1 DEF Openers, NodesTo
<1>3. /\ Max(Openers(t, k)) \in Openers(t, k)
      /\ \A j \in Openers(t, k) : j <= Max(Openers(t, k))
  BY <1>2, MaxIs
<1>4. Max(Openers(t, k)) = m
  <2> DEFINE x == Max(Openers(t, k))
  <2> HIDE DEF x
  <2>1. x \in Openers(t, k) /\ m <= x
    BY <1>2, <1>3 DEF x
  <2>2. x \in 1 .. k - 1 /\ LevelIn(t, x) = LevelIn(t, k) - 1
    BY <2>1 DEF Openers, NodesTo
  <2>3. ~(x \in m + 1 .. k)
    BY <1>0, <1>1, <2>2
  <2>4. x = m
    BY <2>1, <2>2, <2>3
  <2> QED
    BY <2>4 DEF x
<1> QED
  BY <1>0, <1>1, <1>4 DEF Owner, WithinNode

(* It is the only one. *)
LEMMA OwnerUnique ==
  ASSUME NEW t, NEW k \in Nat \ {0}, LevelIn(t, k) > 0, NEW p, WithinNode(t, p, k)
  PROVE  Owner(t, k) = p
<1>1. LevelIn(t, k) \in Int
  BY LevelStep
<1> DEFINE x == Owner(t, k)
<1>2. WithinNode(t, x, k)
  BY OwnerIs
<1> HIDE DEF x
<1>3. ~(x < p) /\ ~(p < x)
  BY <1>1, <1>2 DEF WithinNode
<1>4. x \in Nat /\ p \in Nat
  BY <1>2 DEF WithinNode
<1>5. x = p
  BY <1>3, <1>4
<1> QED
  BY <1>5 DEF x

(* What token k does to it. *)
LEMMA OwnerBegin ==
  ASSUME NEW t, NEW k \in Nat \ {0}, t[k].kind = "FDT_BEGIN_NODE", LevelIn(t, k) \in Nat
  PROVE  Owner(t, k + 1) = k
<1>1. LevelIn(t, k + 1) = LevelIn(t, k) + 1
  BY LevelStep
<1>2. WithinNode(t, k, k + 1)
  BY <1>1 DEF WithinNode
<1> QED
  BY <1>1, <1>2, OwnerUnique

(* A token that neither begins nor ends a node leaves the node that is     *)
(* open.                                                                   *)
LEMMA OwnerSame ==
  ASSUME NEW t, NEW k \in Nat \ {0}, t[k].kind \notin {"FDT_BEGIN_NODE", "FDT_END_NODE"},
         LevelIn(t, k) \in Nat
  PROVE  Owner(t, k + 1) = Owner(t, k) /\ LevelIn(t, k + 1) = LevelIn(t, k)
<1>1. LevelIn(t, k + 1) = LevelIn(t, k)
  BY LevelStep
<1>2. CASE LevelIn(t, k) = 0
  BY <1>1, <1>2 DEF Owner
<1>3. CASE LevelIn(t, k) > 0
  <2> DEFINE p == Owner(t, k)
  <2>1. WithinNode(t, p, k)
    BY <1>3, OwnerIs
  <2> HIDE DEF p
  <2>2. \A i \in p + 1 .. k + 1 : i \in p + 1 .. k \/ i = k + 1
    BY <2>1 DEF WithinNode
  <2>3. WithinNode(t, p, k + 1)
    BY <1>1, <2>1, <2>2 DEF WithinNode
  <2>4. Owner(t, k + 1) = p
    BY <1>1, <1>3, <2>3, OwnerUnique
  <2> QED
    BY <1>1, <2>4 DEF p
<1> QED
  BY <1>2, <1>3

(* FDT_END_NODE goes back to the node around it. *)
LEMMA OwnerEnd ==
  ASSUME NEW t, NEW k \in Nat \ {0}, t[k].kind = "FDT_END_NODE", LevelIn(t, k) \in Nat \ {0}
  PROVE  Owner(t, k + 1) = Owner(t, Owner(t, k)) /\ LevelIn(t, k + 1) \in Nat
<1>1. LevelIn(t, k + 1) = LevelIn(t, k) - 1
  BY LevelStep
<1> DEFINE p == Owner(t, k)
           q == Owner(t, p)
<1>2. WithinNode(t, p, k)
  BY OwnerIs
<1> HIDE DEF p
<1>3. LevelIn(t, p) = LevelIn(t, k + 1) /\ p \in Nat \ {0} /\ p < k
  BY <1>1, <1>2 DEF WithinNode
<1>4. CASE LevelIn(t, p) = 0
  BY <1>1, <1>3, <1>4 DEF Owner, p
<1>5. CASE LevelIn(t, p) > 0
  <2>1. WithinNode(t, q, p)
    BY <1>3, <1>5, OwnerIs
  <2> HIDE DEF q
  <2>2. ASSUME NEW i \in q + 1 .. k + 1
        PROVE  LevelIn(t, i) >= LevelIn(t, k + 1)
    <3>1. CASE i \in q + 1 .. p
      BY <1>3, <2>1, <3>1 DEF WithinNode
    <3>2. CASE i \in p + 1 .. k
      <4>1. LevelIn(t, i) >= LevelIn(t, k) /\ LevelIn(t, i) \in Int
        BY <1>2, <3>2, LevelStep DEF WithinNode
      <4> QED
        BY <1>1, <4>1
    <3>3. CASE i = k + 1
      BY <1>1, <3>3
    <3> QED
      BY <1>3, <2>1, <3>1, <3>2, <3>3 DEF WithinNode
  <2>3. WithinNode(t, q, k + 1)
    BY <1>3, <2>1, <2>2 DEF WithinNode
  <2>4. Owner(t, k + 1) = q
    BY <1>1, <1>3, <1>5, <2>3, OwnerUnique
  <2> QED
    BY <1>1, <2>4 DEF q, p
<1>6. LevelIn(t, p) \in Nat
  BY <1>1, <1>3
<1> QED
  BY <1>4, <1>5, <1>6

-----------------------------------------------------------------------------
(* What a pointer leads to after a write through another. *)
LEMMA StoredDeref ==
  ASSUME NEW mem, ArrayOK(mem), NEW q \in Pointers(mem) \ {NULL}, NEW v,
         NEW p \in Pointers(mem) \ {NULL}
  PROVE  Deref(Store(mem, q, v), p) = IF p = q THEN v ELSE Deref(mem, p)
<1>1. PICK i \in DOMAIN mem, j \in Nat : j \in DOMAIN mem[i] /\ p = <<i, j>>
  BY PointerAt
<1>2. PICK k \in DOMAIN mem, l \in Nat : l \in DOMAIN mem[k] /\ q = <<k, l>>
  BY PointerAt
<1>3. Store(mem, q, v) = [mem EXCEPT ![k][l] = v]
  BY <1>2 DEF Store
<1>4. Deref(Store(mem, q, v), p) = Store(mem, q, v)[i][j] /\ Deref(mem, p) = mem[i][j]
  BY <1>1 DEF Deref
<1>5. [mem EXCEPT ![k][l] = v][i][j] = IF i = k /\ j = l THEN v ELSE mem[i][j]
  BY <1>1, <1>2
<1> QED
  BY <1>1, <1>2, <1>3, <1>4, <1>5

(* The size of an array is not changed by it. *)
LEMMA StoredSize ==
  ASSUME NEW mem, ArrayOK(mem), NEW q, NEW v
  PROVE  /\ ARRAY_SIZE(Store(mem, q, v)) = ARRAY_SIZE(mem)
         /\ First(Store(mem, q, v)) = First(mem)
         /\ mem # ARRAY_INIT => Store(mem, q, v) # ARRAY_INIT
<1> DEFINE new == Store(mem, q, v)
<1>1. ArrayOK(new) /\ Len(new) = Len(mem)
  BY Stored
<1>2. First(new) = First(mem)
  BY <1>1 DEF First
<1>3. CASE mem = ARRAY_INIT
  <2>1. new = mem
    BY <1>3 DEF Store, ARRAY_INIT
  <2> QED
    BY <1>2, <1>3, <2>1
<1>4. CASE mem # ARRAY_INIT
  <2> DEFINE n == Len(mem)
  <2>1. n \in DOMAIN mem /\ DOMAIN mem = 1 .. n /\ n \in Nat /\ IsSeq(mem[n]) /\ ARRAY_SIZE(mem) = Len(mem[n])
    BY <1>4, HasData DEF Data
  <2>2. DOMAIN new = DOMAIN mem /\ DOMAIN new[n] = DOMAIN mem[n]
    BY <2>1 DEF Store
  <2> HIDE DEF new, n
  <2>3. new # ARRAY_INIT
    BY <2>1, <2>2 DEF ARRAY_INIT
  <2>4. IsSeq(new[n]) /\ ARRAY_SIZE(new) = Len(new[n])
    BY <1>1, <2>1, <2>2, <2>3 DEF ArrayOK, ARRAY_SIZE, Data, n
  <2>5. Len(new[n]) = Len(mem[n])
    BY <2>1, <2>2, <2>4 DEF IsSeq
  <2> QED
    BY <1>2, <2>1, <2>3, <2>4, <2>5 DEF new
<1> QED
  BY <1>3, <1>4

(* What ARRAY_PUSH leaves and what it adds. *)
PushedTo(mem, first, v, new) ==
  /\ \A p \in Pointers(mem) \ {NULL} : Deref(new, p) = Deref(mem, p)
  /\ Newest(new) \notin Pointers(mem) /\ Deref(new, Newest(new)) = v
  /\ Newest(new)[2] = ARRAY_SIZE(mem) + 1 /\ ARRAY_SIZE(new) = ARRAY_SIZE(mem) + 1
  /\ ARRAY_SIZE(mem) \in Nat /\ new # ARRAY_INIT
  /\ mem = ARRAY_INIT => Newest(new) = <<1, 1>> /\ First(new) = <<1, 1>>
  /\ mem # ARRAY_INIT /\ ~MustGrow(mem, first) => First(new) = First(mem)
  /\ ARRAY_SIZE(mem) # 0 => Deref(new, First(new)) = Deref(mem, First(mem))

(* ARRAY_PUSH, whether the block grows in place or moves. *)
LEMMA PushedKeeps ==
  ASSUME NEW mem, ArrayOK(mem), NEW first, NEW v
  PROVE  PushedTo(mem, first, v, ARRAY_PUSH(mem, first, v))
<1> DEFINE new == ARRAY_PUSH(mem, first, v)
<1>1. CASE mem = ARRAY_INIT
  <2> DEFINE s == <<<<v>>>>
  <2>1. new = s /\ Pointers(mem) = {NULL} /\ ARRAY_SIZE(mem) = 0
    BY <1>1 DEF ARRAY_PUSH, ARRAY_INIT, Pointers, ARRAY_SIZE
  <2>2. Newest(s) = <<1, 1>>
    BY PushedFirst
  <2>3. Len(s) = 1 /\ s[1][1] = v /\ Len(s[1]) = 1 /\ s # <<>>
    OBVIOUS
  <2> HIDE DEF s, new
  <2>4. First(s) = <<1, 1>> /\ Deref(s, <<1, 1>>) = v /\ ARRAY_SIZE(s) = 1
    BY <2>3 DEF First, Deref, ARRAY_SIZE, Data, ARRAY_INIT
  <2>5. <<1, 1>> # NULL /\ <<1, 1>>[2] = 1 /\ s # ARRAY_INIT
    BY <2>3 DEF NULL, ARRAY_INIT
  <2> QED
    BY <1>1, <2>1, <2>2, <2>4, <2>5 DEF PushedTo, new
<1>2. CASE mem # ARRAY_INIT
  <2> DEFINE d == Data(mem)
             e == Append(d, v)
             n == Len(mem)
  <2>1. /\ n \in DOMAIN mem /\ DOMAIN mem = 1 .. n /\ n \in Nat
        /\ IsSeq(d) /\ d = mem[n] /\ IsSeq(mem) /\ ARRAY_SIZE(mem) = Len(d)
    BY <1>2, HasData DEF Data, ArrayOK
  <2>2. /\ Len(e) = Len(d) + 1 /\ DOMAIN d = 1 .. Len(d) /\ Len(d) \in Nat
        /\ \A k \in 1 .. Len(d) : e[k] = d[k]
        /\ e[Len(d) + 1] = v
    <3> HIDE DEF d
    <3>1. Len(d) \in Nat
      BY <2>1 DEF IsSeq
    <3> QED
      BY <2>1, <3>1, Appended
  <2>3. IF MustGrow(mem, first) THEN new = Append(mem, e) ELSE new = [mem EXCEPT ![n] = e]
    BY <1>2 DEF ARRAY_PUSH, Data
  <2> HIDE DEF d, e, n, new
  <2> DEFINE m == Len(new)
  <2>4. /\ m \in Nat /\ m \in {n, n + 1} /\ (~MustGrow(mem, first) => m = n)
        /\ new[m] = e
        /\ \A i \in 1 .. n : i # m => new[i] = mem[i]
    <3>1. CASE MustGrow(mem, first)
      <4>1. /\ Len(new) = n + 1
            /\ \A k \in 1 .. n : new[k] = mem[k]
            /\ new[n + 1] = e
        BY <3>1, <2>1, <2>3, Appended DEF n
      <4> QED
        BY <3>1, <4>1, <2>1
    <3>2. CASE ~MustGrow(mem, first)
      <4>1. /\ new = [k \in 1 .. n |-> new[k]]
            /\ \A k \in 1 .. n : k # n => new[k] = mem[k]
            /\ new[n] = e
        BY <3>2, <2>1, <2>3
      <4>2. Len(new) = n
        BY <4>1, <2>1, Sequence
      <4> QED
        BY <3>2, <4>1, <4>2, <2>1
    <3> QED
      BY <3>1, <3>2
  <2>5. First(new) = <<m, 1>> /\ First(mem) = <<n, 1>>
    BY DEF First, n
  <2>6. new # ARRAY_INIT
    <3>1. m # 0
      BY <2>1, <2>4
    <3> QED
      BY <3>1 DEF ARRAY_INIT
  <2>7. ARRAY_SIZE(new) = Len(d) + 1 /\ Newest(new) = <<m, Len(d) + 1>>
    <3>1. Data(new) = e
      BY <2>4 DEF Data
    <3>2. ARRAY_SIZE(new) = Len(d) + 1
      BY <3>1, <2>6, <2>2 DEF ARRAY_SIZE
    <3> QED
      BY <3>2 DEF Newest
  <2> HIDE DEF m
  <2>8. ASSUME NEW p \in Pointers(mem) \ {NULL}
        PROVE  Deref(new, p) = Deref(mem, p) /\ p # Newest(new)
    <3>1. PICK i \in DOMAIN mem, j \in Nat : j \in DOMAIN mem[i] /\ p = <<i, j>>
      BY PointerAt
    <3>2. i \in 1 .. n
      BY <2>1, <3>1
    <3>3. CASE i # m
      BY <2>4, <2>7, <3>1, <3>2, <3>3 DEF Deref
    <3>4. CASE i = m
      <4>1. i = n /\ j \in 1 .. Len(d)
        BY <2>1, <2>2, <2>4, <3>1, <3>2, <3>4
      <4> QED
        BY <2>1, <2>2, <2>4, <2>7, <3>1, <3>4, <4>1 DEF Deref
    <3> QED
      BY <3>3, <3>4
  <2>9. Newest(new) # NULL
    BY <2>2, <2>7 DEF NULL
  <2>10. Deref(new, Newest(new)) = v /\ Newest(new)[2] = Len(d) + 1
    BY <2>2, <2>4, <2>7 DEF Deref
  <2>11. ASSUME ARRAY_SIZE(mem) # 0
         PROVE  Deref(new, First(new)) = Deref(mem, First(mem))
    <3>1. 1 \in 1 .. Len(d)
      BY <2>1, <2>2, <2>11
    <3>2. Deref(new, First(new)) = e[1] /\ Deref(mem, First(mem)) = d[1]
      BY <2>1, <2>4, <2>5 DEF Deref
    <3> QED
      BY <2>2, <3>1, <3>2
  <2> QED
    BY <1>2, <2>1, <2>2, <2>4, <2>5, <2>6, <2>7, <2>8, <2>9, <2>10, <2>11 DEF PushedTo, new
<1> QED
  BY <1>1, <1>2

-----------------------------------------------------------------------------
(* Nodes and properties by their places among the tokens before n: the     *)
(* children of a node, its younger siblings, its properties.               *)
Lowest(S)  == IF S = {} THEN 0 ELSE Min(S)
Highest(S) == IF S = {} THEN 0 ELSE Max(S)

Kids(t, k, n)    == {c \in NodesTo(t, n) : Owner(t, c) = k}
Younger(t, k, n) == {c \in NodesTo(t, n) : c > k /\ Owner(t, c) = Owner(t, k) /\ Owner(t, c) # 0}
Own(t, k, n)     == {j \in PropsTo(t, n) : Owner(t, j) = k}

(* The lowest of a set of tokens, or 0. *)
LEMMA LowestIs ==
  ASSUME NEW S \in SUBSET (Nat \ {0})
  PROVE  /\ S = {} => Lowest(S) = 0
         /\ S # {} => Lowest(S) \in S /\ \A k \in S : Lowest(S) <= k
BY MinIs DEF Lowest

(* The highest of a set of tokens, or 0. *)
LEMMA HighestIs ==
  ASSUME NEW b \in Nat, NEW S \in SUBSET (1 .. b)
  PROVE  /\ S = {} => Highest(S) = 0
         /\ S # {} => Highest(S) \in S /\ \A k \in S : k <= Highest(S)
<1>1. S \in SUBSET (0 .. b)
  OBVIOUS
<1> QED
  BY <1>1, MaxIs DEF Highest

(* A number above all of a set is added to it. *)
LEMMA AddedAbove ==
  ASSUME NEW n \in Nat \ {0}, NEW S \in SUBSET (1 .. n - 1)
  PROVE  /\ Lowest(S \cup {n}) = IF S = {} THEN n ELSE Lowest(S)
         /\ Highest(S \cup {n}) = n
<1> DEFINE T == S \cup {n}
<1>1. T \in SUBSET (1 .. n) /\ T # {} /\ T \in SUBSET (Nat \ {0}) /\ S \in SUBSET (Nat \ {0})
  OBVIOUS
<1>2. Lowest(T) \in T /\ \A k \in T : Lowest(T) <= k
  <2> HIDE DEF T
  <2> QED
    BY <1>1, LowestIs
<1>3. Highest(T) \in T /\ \A k \in T : k <= Highest(T)
  <2> HIDE DEF T
  <2> QED
    BY <1>1, HighestIs
<1>4. S # {} => Lowest(S) \in S /\ \A k \in S : Lowest(S) <= k
  BY <1>1, LowestIs
<1> DEFINE x == Lowest(T)
           y == Highest(T)
           z == Lowest(S)
<1> HIDE DEF x, y, z
<1>5. /\ x \in S \cup {n} /\ \A k \in S \cup {n} : x <= k
      /\ y \in S \cup {n} /\ \A k \in S \cup {n} : k <= y
      /\ S # {} => z \in S /\ \A k \in S : z <= k
  BY <1>2, <1>3, <1>4 DEF x, y, z
<1>6. y = n
  <2>1. n <= y /\ y \in 1 .. n
    BY <1>5
  <2> QED
    BY <2>1
<1>7. S = {} => x = n
  BY <1>5
<1>8. S # {} => x = z
  <2> SUFFICES ASSUME S # {}
               PROVE  x = z
    OBVIOUS
  <2>1. z \in S
    BY <1>5
  <2>2. x <= z /\ z <= n - 1 /\ z \in Nat
    BY <1>5, <2>1
  <2>3. x \in S
    <3>1. x # n
      BY <2>2
    <3> QED
      BY <1>5, <3>1
  <2>4. z <= x /\ x \in Nat
    BY <1>5, <2>3
  <2> QED
    BY <2>2, <2>4
<1>9. x = IF S = {} THEN n ELSE z
  BY <1>7, <1>8
<1> QED
  BY <1>6, <1>9 DEF x, y, z, T

(* The owner of a token is a node before it. *)
LEMMA OwnerBefore ==
  ASSUME NEW t, NEW n, Nested(t, n), NEW k \in 1 .. n
  PROVE  /\ Owner(t, k) \in 0 .. k - 1
         /\ LevelIn(t, k) = 0 <=> Owner(t, k) = 0
         /\ Owner(t, k) # 0 => WithinNode(t, Owner(t, k), k) /\ Owner(t, k) \in NodesTo(t, n)
<1>1. LevelIn(t, k) \in Nat /\ n \in Nat
  BY DEF Nested
<1>2. CASE LevelIn(t, k) = 0
  BY <1>2 DEF Owner
<1>3. CASE LevelIn(t, k) # 0
  <2>1. WithinNode(t, Owner(t, k), k)
    BY <1>1, <1>3, OwnerIs
  <2> HIDE DEF Owner
  <2>2. Owner(t, k) \in 1 .. k - 1 /\ Owner(t, k) \in NodesTo(t, n)
    BY <1>1, <2>1 DEF WithinNode, NodesTo
  <2> QED
    BY <1>3, <2>1, <2>2
<1> QED
  BY <1>2, <1>3

(* A node that begins at token n. *)
LEMMA NodeMore ==
  ASSUME NEW t, NEW n, Nested(t, n), t[n].kind = "FDT_BEGIN_NODE"
  PROVE  /\ NodesTo(t, n + 1) = NodesTo(t, n) \cup {n} /\ n \notin NodesTo(t, n)
         /\ PropsTo(t, n + 1) = PropsTo(t, n)
         /\ \A k : Kids(t, k, n + 1) = Kids(t, k, n) \cup (IF k = Owner(t, n) THEN {n} ELSE {})
         /\ Kids(t, n, n + 1) = {}
         /\ \A k \in NodesTo(t, n) :
              Younger(t, k, n + 1) =
                Younger(t, k, n) \cup
                  (IF Owner(t, k) = Owner(t, n) /\ Owner(t, n) # 0 THEN {n} ELSE {})
         /\ Younger(t, n, n + 1) = {}
         /\ \A k : Own(t, k, n + 1) = Own(t, k, n)
         /\ Own(t, n, n + 1) = {}
<1>1. n \in Nat \ {0} /\ (1 .. (n + 1) - 1) = (1 .. n - 1) \cup {n}
  BY DEF Nested
<1>2. NodesTo(t, n + 1) = NodesTo(t, n) \cup {n} /\ n \notin NodesTo(t, n)
  BY <1>1 DEF NodesTo
<1>3. PropsTo(t, n + 1) = PropsTo(t, n)
  BY <1>1 DEF PropsTo
<1>4. \A k \in 1 .. n : Owner(t, k) \in 0 .. k - 1
  BY OwnerBefore
<1>5. \A k \in NodesTo(t, n) \cup PropsTo(t, n) \cup {n} : k \in 1 .. n /\ Owner(t, k) < n
  BY <1>1, <1>4 DEF NodesTo, PropsTo
<1>6. Kids(t, n, n + 1) = {} /\ Own(t, n, n + 1) = {}
  BY <1>1, <1>2, <1>3, <1>5 DEF Kids, Own
<1>7. Younger(t, n, n + 1) = {}
  BY <1>1, <1>2, <1>5 DEF Younger
<1>8. \A k : Kids(t, k, n + 1) = Kids(t, k, n) \cup (IF k = Owner(t, n) THEN {n} ELSE {})
  BY <1>2 DEF Kids
<1>9. \A k : Own(t, k, n + 1) = Own(t, k, n)
  BY <1>3 DEF Own
<1>10. \A k \in NodesTo(t, n) : n > k
  BY <1>1 DEF NodesTo
<1>11. \A k \in NodesTo(t, n) :
         Younger(t, k, n + 1) =
           Younger(t, k, n) \cup
             (IF Owner(t, k) = Owner(t, n) /\ Owner(t, n) # 0 THEN {n} ELSE {})
  BY <1>2, <1>10 DEF Younger
<1> QED
  BY <1>2, <1>3, <1>6, <1>7, <1>8, <1>9, <1>11

(* A property at token n. *)
LEMMA PropMore ==
  ASSUME NEW t, NEW n, Nested(t, n), t[n].kind = "FDT_PROP"
  PROVE  /\ PropsTo(t, n + 1) = PropsTo(t, n) \cup {n} /\ n \notin PropsTo(t, n)
         /\ NodesTo(t, n + 1) = NodesTo(t, n)
         /\ \A k : Kids(t, k, n + 1) = Kids(t, k, n) /\ Younger(t, k, n + 1) = Younger(t, k, n)
         /\ \A k : Own(t, k, n + 1) = Own(t, k, n) \cup (IF k = Owner(t, n) THEN {n} ELSE {})
<1>1. n \in Nat \ {0} /\ (1 .. (n + 1) - 1) = (1 .. n - 1) \cup {n}
  BY DEF Nested
<1>2. NodesTo(t, n + 1) = NodesTo(t, n)
  BY <1>1 DEF NodesTo
<1>3. PropsTo(t, n + 1) = PropsTo(t, n) \cup {n} /\ n \notin PropsTo(t, n)
  BY <1>1 DEF PropsTo
<1>4. \A k : Kids(t, k, n + 1) = Kids(t, k, n) /\ Younger(t, k, n + 1) = Younger(t, k, n)
  BY <1>2 DEF Kids, Younger
<1>5. \A k : Own(t, k, n + 1) = Own(t, k, n) \cup (IF k = Owner(t, n) THEN {n} ELSE {})
  BY <1>3 DEF Own
<1> QED
  BY <1>2, <1>3, <1>4, <1>5

(* Any other token. *)
LEMMA NoMore ==
  ASSUME NEW t, NEW n \in Nat \ {0}, t[n].kind \notin {"FDT_BEGIN_NODE", "FDT_PROP"}
  PROVE  /\ PropsTo(t, n + 1) = PropsTo(t, n) /\ NodesTo(t, n + 1) = NodesTo(t, n)
         /\ \A k : /\ Kids(t, k, n + 1) = Kids(t, k, n) /\ Younger(t, k, n + 1) = Younger(t, k, n)
                   /\ Own(t, k, n + 1) = Own(t, k, n)
<1>1. (1 .. (n + 1) - 1) = (1 .. n - 1) \cup {n}
  OBVIOUS
<1>2. NodesTo(t, n + 1) = NodesTo(t, n) /\ PropsTo(t, n + 1) = PropsTo(t, n)
  BY <1>1 DEF NodesTo, PropsTo
<1> QED
  BY <1>2 DEF Kids, Younger, Own

-----------------------------------------------------------------------------
(* The tree in memory.  f gives the place at which each node was put, q    *)
(* that of each property; copies in later blocks are not meant.            *)
Ptr(f, k) == IF k = 0 THEN NULL ELSE f[k]

NodeFields == {"name", "address_cells", "size_cells", "properties", "parent", "children", "sibling"}
PropFields == {"name", "next", "type", "value", "null", "num", "data", "at"}

Places(f, S, mem) ==
  /\ f \in [S -> Pointers(mem) \ {NULL}]
  /\ \A x, y \in S : f[x] = f[y] => x = y

NodeIs(t, n, f, q, k, e) ==
  /\ e.name = k
  /\ e.parent = Ptr(f, Owner(t, k))
  /\ e.children = Ptr(f, Lowest(Kids(t, k, n)))
  /\ e.sibling = Ptr(f, Lowest(Younger(t, k, n)))
  /\ e.properties = Ptr(q, Highest(Own(t, k, n)))

PropIs(t, q, j, e) ==
  /\ e.at = j /\ e.value = t[j].value /\ e.name \in {"", t[j].name}
  /\ e.null \in BOOLEAN /\ (e.value = <<>> => e.null)
  /\ e.next = Ptr(q, Highest(Own(t, Owner(t, j), j)))

(* The sibling of any copy of a node is a node with a parent. *)
SiblingOK(t, n, f, e) ==
  e.sibling = NULL \/ \E c \in NodesTo(t, n) : Owner(t, c) # 0 /\ e.sibling = f[c]

Built(t, n, nd, pr, f, q) ==
  /\ Nested(t, n) /\ ArrayOK(nd) /\ ArrayOK(pr)
  /\ Places(f, NodesTo(t, n), nd) /\ Places(q, PropsTo(t, n), pr)
  /\ \A p \in Pointers(nd) \ {NULL} :
       DOMAIN Deref(nd, p) = NodeFields /\ SiblingOK(t, n, f, Deref(nd, p))
  /\ \A p \in Pointers(pr) \ {NULL} : DOMAIN Deref(pr, p) = PropFields
  /\ \A k \in NodesTo(t, n) : NodeIs(t, n, f, q, k, Deref(nd, f[k]))
  /\ \A j \in PropsTo(t, n) : PropIs(t, q, j, Deref(pr, q[j]))

-----------------------------------------------------------------------------
(* The walk along the siblings. *)
WalkStep(mem, g) ==
  g = [q \in Pointers(mem) \ {NULL} |->
         LET s == Deref(mem, q).sibling IN IF s = NULL THEN q ELSE g[s]]

(* A function that follows the siblings is what LastSibling uses. *)
LEMMA WalkDef ==
  ASSUME NEW mem, NEW p, NEW h, WalkStep(mem, h)
  PROVE  \E g : WalkStep(mem, g) /\ LastSibling(mem, p) = g[p]
<1> DEFINE g == CHOOSE g : WalkStep(mem, g)
<1>1. WalkStep(mem, g)
  OBVIOUS
<1>2. LastSibling(mem, p) = g[p]
  BY Zenon DEF LastSibling, WalkStep
<1> QED
  BY <1>1, <1>2

(* The youngest of the siblings of c. *)
Youngest(t, n, c) == Highest(Kids(t, Owner(t, c), n))

(* The youngest sibling is reached through the next one. *)
LEMMA YoungestIs ==
  ASSUME NEW t, NEW n, Nested(t, n), NEW c \in NodesTo(t, n), Owner(t, c) # 0
  PROVE  /\ Younger(t, c, n) = {} => Youngest(t, n, c) = c
         /\ Younger(t, c, n) # {} =>
              LET d == Lowest(Younger(t, c, n))
              IN /\ d \in NodesTo(t, n) /\ d > c /\ Owner(t, d) = Owner(t, c)
                 /\ Youngest(t, n, d) = Youngest(t, n, c)
<1> DEFINE K == Kids(t, Owner(t, c), n)
           h == Highest(K)
<1>1. n \in Nat /\ K \in SUBSET (1 .. n - 1) /\ c \in K /\ c \in Nat
  BY DEF Nested, Kids, NodesTo
<1>2. h \in K /\ \A k \in K : k <= h
  <2> HIDE DEF K
  <2>1. K \in SUBSET (1 .. n) /\ K # {}
    BY <1>1
  <2> QED
    BY <1>1, <2>1, HighestIs
<1>3. ASSUME Younger(t, c, n) = {}
      PROVE  Youngest(t, n, c) = c
  <2>1. h \notin Younger(t, c, n) /\ c <= h
    BY <1>1, <1>2, <1>3
  <2>2. h \in NodesTo(t, n) /\ Owner(t, h) = Owner(t, c) /\ h \in Nat
    BY <1>1, <1>2 DEF Kids
  <2> HIDE DEF h
  <2>3. h = c
    BY <1>1, <2>1, <2>2 DEF Younger
  <2> QED
    BY <2>3 DEF Youngest, h
<1>4. ASSUME Younger(t, c, n) # {}
      PROVE  LET d == Lowest(Younger(t, c, n))
             IN /\ d \in NodesTo(t, n) /\ d > c /\ Owner(t, d) = Owner(t, c)
                /\ Youngest(t, n, d) = Youngest(t, n, c)
  <2>1. Younger(t, c, n) \in SUBSET (Nat \ {0})
    BY DEF Younger, NodesTo
  <2>2. Lowest(Younger(t, c, n)) \in Younger(t, c, n)
    BY <1>4, <2>1, LowestIs
  <2> QED
    BY <2>2 DEF Younger, Youngest
<1> QED
  BY <1>3, <1>4

(* It ends at the youngest. *)
LEMMA LastIs ==
  ASSUME NEW t, NEW n, Nested(t, n), NEW mem, NEW f, NEW o,
         Places(f, NodesTo(t, n), mem),
         \A p \in Pointers(mem) \ {NULL} : SiblingOK(t, n, f, Deref(mem, p)),
         \A k \in NodesTo(t, n) : Deref(mem, f[k]).sibling = Ptr(f, Lowest(Younger(t, k, n))),
         o # 0, Kids(t, o, n) # {}
  PROVE  LastSibling(mem, f[Lowest(Kids(t, o, n))]) = f[Highest(Kids(t, o, n))]
<1> DEFINE N == NodesTo(t, n)
           S == Pointers(mem) \ {NULL}
           s(p) == Deref(mem, p).sibling
           c(p) == CHOOSE c \in N : f[c] = p
           h == [p \in S |-> IF s(p) = NULL THEN p ELSE f[Youngest(t, n, c(s(p)))]]
<1>1. /\ \A k \in N : f[k] \in S
      /\ \A k \in N : c(f[k]) = k
  BY DEF Places
<1>2. \A k \in N : Owner(t, k) # 0 =>
         /\ s(f[k]) = NULL => Youngest(t, n, k) = k
         /\ s(f[k]) # NULL => \E d \in N : /\ s(f[k]) = f[d] /\ d > k /\ Owner(t, d) = Owner(t, k)
                                          /\ Youngest(t, n, d) = Youngest(t, n, k)
  <2> SUFFICES ASSUME NEW k \in N, Owner(t, k) # 0
               PROVE  /\ s(f[k]) = NULL => Youngest(t, n, k) = k
                      /\ s(f[k]) # NULL => \E d \in N : /\ s(f[k]) = f[d] /\ d > k
                                                        /\ Owner(t, d) = Owner(t, k)
                                                        /\ Youngest(t, n, d) = Youngest(t, n, k)
    OBVIOUS
  <2>1. s(f[k]) = Ptr(f, Lowest(Younger(t, k, n)))
    OBVIOUS
  <2>2. CASE Younger(t, k, n) = {}
    <3>1. Youngest(t, n, k) = k
      BY <2>2, YoungestIs
    <3>2. s(f[k]) = NULL
      BY <2>1, <2>2 DEF Ptr, Lowest
    <3> QED
      BY <3>1, <3>2
  <2>3. CASE Younger(t, k, n) # {}
    <3> DEFINE d == Lowest(Younger(t, k, n))
    <3>1. /\ d \in N /\ d > k /\ Owner(t, d) = Owner(t, k)
          /\ Youngest(t, n, d) = Youngest(t, n, k)
      BY <2>3, YoungestIs
    <3> HIDE DEF d
    <3>2. d # 0
      BY <3>1 DEF NodesTo
    <3>3. s(f[k]) = f[d]
      BY <2>1, <3>2 DEF Ptr, d
    <3>4. f[d] # NULL
      BY <1>1, <3>1
    <3> QED
      BY <3>1, <3>3, <3>4
  <2> QED
    BY <2>2, <2>3
<1>3. \A p \in S : s(p) # NULL => \E k \in N : Owner(t, k) # 0 /\ s(p) = f[k]
  BY DEF SiblingOK
<1> HIDE DEF s, c, S, N
<1>4. ASSUME NEW p \in S, s(p) # NULL
      PROVE  h[p] = h[s(p)]
  <2>1. PICK k \in N : Owner(t, k) # 0 /\ s(p) = f[k]
    BY <1>3, <1>4
  <2>2. h[p] = f[Youngest(t, n, k)]
    BY <1>1, <1>4, <2>1
  <2>3. f[k] \in S
    BY <1>1
  <2>4. CASE s(f[k]) = NULL
    BY <1>2, <2>1, <2>2, <2>3, <2>4
  <2>5. CASE s(f[k]) # NULL
    <3>1. PICK d \in N : s(f[k]) = f[d] /\ Youngest(t, n, d) = Youngest(t, n, k)
      BY <1>2, <2>1, <2>5
    <3>2. h[f[k]] = f[Youngest(t, n, d)]
      BY <1>1, <2>3, <2>5, <3>1
    <3> QED
      BY <2>1, <2>2, <3>1, <3>2
  <2> QED
    BY <2>4, <2>5
<1>5. \A p \in S : h[p] = IF s(p) = NULL THEN p ELSE h[s(p)]
  BY <1>4
<1>6. DOMAIN h = S /\ h = [p \in S |-> h[p]]
  OBVIOUS
<1> HIDE DEF h
<1>7. h = [p \in S |-> IF s(p) = NULL THEN p ELSE h[s(p)]]
  BY <1>5, <1>6
<1>8. WalkStep(mem, h)
  BY <1>7, Zenon DEF WalkStep, S, s
<1> DEFINE K == Kids(t, o, n)
           first == Lowest(K)
           last == Highest(K)
<1>9. PICK g : WalkStep(mem, g) /\ LastSibling(mem, f[first]) = g[f[first]]
  BY <1>8, WalkDef
<1>10. \A p \in S : g[p] = IF s(p) = NULL THEN p ELSE g[s(p)]
  BY <1>9, Zenon DEF WalkStep, S, s
<1>11. /\ n \in Nat /\ K \in SUBSET (1 .. n - 1) /\ K \subseteq N /\ K # {}
       /\ \A k \in N : k \in K <=> Owner(t, k) = o
  BY DEF Nested, Kids, NodesTo, N
<1>12. first \in K
  <2> HIDE DEF K
  <2>1. K \in SUBSET (Nat \ {0})
    BY <1>11
  <2> QED
    BY <1>11, <2>1, LowestIs
<1>13. \A k \in K : Youngest(t, n, k) = last
  BY <1>11 DEF Youngest
<1> HIDE DEF K, first, last
<1> DEFINE Wrong == {k \in K : g[f[k]] # f[last]}
<1>14. ASSUME Wrong # {} PROVE FALSE
  <2>1. Wrong \in SUBSET (0 .. n)
    <3>1. Wrong \subseteq K /\ 1 .. n - 1 \subseteq 0 .. n
      BY <1>11
    <3> QED
      BY <1>11, <3>1
  <2>2. PICK k \in Wrong : \A j \in Wrong : j <= k
    <3> HIDE DEF Wrong
    <3> QED
      BY <1>11, <1>14, <2>1, GreatestNat
  <2>3. k \in K /\ k \in N /\ Owner(t, k) = o /\ f[k] \in S /\ g[f[k]] # f[last] /\ k \in Nat
    BY <1>1, <1>11
  <2>4. CASE s(f[k]) = NULL
    <3>1. g[f[k]] = f[k] /\ Youngest(t, n, k) = k
      BY <1>2, <1>10, <2>3, <2>4
    <3> QED
      BY <1>13, <2>3, <3>1
  <2>5. CASE s(f[k]) # NULL
    <3>1. PICK d \in N : s(f[k]) = f[d] /\ d > k /\ Owner(t, d) = o
      BY <1>2, <2>3, <2>5
    <3>2. d \in K /\ d \in Nat
      BY <1>11, <3>1
    <3>3. d \notin Wrong
      BY <2>2, <2>3, <3>1, <3>2
    <3>4. g[f[d]] = f[last]
      BY <3>2, <3>3
    <3>5. g[f[k]] = g[f[d]]
      BY <1>10, <2>3, <2>5, <3>1
    <3> QED
      BY <2>3, <3>4, <3>5
  <2> QED
    BY <2>4, <2>5
<1>15. g[f[first]] = f[last]
  BY <1>12, <1>14
<1> QED
  BY <1>9, <1>15 DEF K, first, last

-----------------------------------------------------------------------------
(* A place more. *)
Extend(f, x, p) == [y \in DOMAIN f \cup {x} |-> IF y = x THEN p ELSE f[y]]

(* It is a place like the others, and they stay. *)
LEMMA Extended ==
  ASSUME NEW f, NEW S, NEW mem, Places(f, S, mem), NEW x, x \notin S, NEW new,
         Pointers(mem) \subseteq Pointers(new), NEW p \in Pointers(new) \ {NULL}, p \notin Pointers(mem)
  PROVE  /\ Places(Extend(f, x, p), S \cup {x}, new)
         /\ \A y \in S : Extend(f, x, p)[y] = f[y]
         /\ Extend(f, x, p)[x] = p
BY DEF Extend, Places

(* What each element of memory is after ARRAY_PUSH. *)
LEMMA PushedEach ==
  ASSUME NEW mem, ArrayOK(mem), NEW first, NEW v, NEW new, new = ARRAY_PUSH(mem, first, v),
         NEW p \in Pointers(new) \ {NULL}
  PROVE  Deref(new, p) = v \/ \E x \in Pointers(mem) \ {NULL} : Deref(new, p) = Deref(mem, x)
<1>1. ArrayOK(new) /\ Elements(new) \subseteq Elements(mem) \cup {v}
  BY Pushed
<1>2. Deref(new, p) \in Elements(mem) \cup {v}
  BY <1>1, DerefElement
<1>3. CASE Deref(new, p) \in Elements(mem)
  <2>1. PICK i \in DOMAIN mem : \E j \in DOMAIN mem[i] : Deref(new, p) = mem[i][j]
    BY <1>3 DEF Elements
  <2>2. PICK j \in DOMAIN mem[i] : Deref(new, p) = mem[i][j]
    BY <2>1
  <2>3. <<i, j>> \in Pointers(mem) \ {NULL}
    BY <2>1, <2>2, PointerIs
  <2>4. Deref(mem, <<i, j>>) = mem[i][j]
    BY DEF Deref
  <2> QED
    BY <2>2, <2>3, <2>4
<1> QED
  BY <1>2, <1>3

(* The lowest child and sibling, when a node begins at n. *)
LEMMA LowestMore ==
  ASSUME NEW t, NEW n, Nested(t, n), t[n].kind = "FDT_BEGIN_NODE", NEW k \in NodesTo(t, n)
  PROVE  /\ Lowest(Kids(t, k, n + 1)) =
              IF k = Owner(t, n) /\ Kids(t, k, n) = {} THEN n ELSE Lowest(Kids(t, k, n))
         /\ Lowest(Younger(t, k, n + 1)) =
              IF Owner(t, k) = Owner(t, n) /\ Owner(t, n) # 0 /\ Younger(t, k, n) = {}
              THEN n ELSE Lowest(Younger(t, k, n))
         /\ Owner(t, k) \in NodesTo(t, n) \cup {0}
         /\ Lowest(Kids(t, k, n)) \in NodesTo(t, n) \cup {0}
         /\ Lowest(Younger(t, k, n)) \in NodesTo(t, n) \cup {0}
<1>1. n \in Nat \ {0} /\ k \in 1 .. n - 1
  BY DEF Nested, NodesTo
<1> DEFINE K == Kids(t, k, n)
           Y == Younger(t, k, n)
           N == NodesTo(t, n)
<1>2. /\ K \in SUBSET (1 .. n - 1) /\ Y \in SUBSET (1 .. n - 1) /\ N \in SUBSET (1 .. n - 1)
      /\ K \subseteq N /\ Y \subseteq N
  BY DEF Kids, Younger, NodesTo
<1>3. /\ Kids(t, k, n + 1) = K \cup (IF k = Owner(t, n) THEN {n} ELSE {})
      /\ Younger(t, k, n + 1) = Y \cup (IF Owner(t, k) = Owner(t, n) /\ Owner(t, n) # 0 THEN {n} ELSE {})
  BY NodeMore
<1>4. Owner(t, k) \in N \cup {0}
  <2>1. k \in 1 .. n
    BY <1>1
  <2> QED
    BY <2>1, OwnerBefore
<1> HIDE DEF K, Y, N
<1>5. /\ Lowest(K \cup {n}) = IF K = {} THEN n ELSE Lowest(K)
      /\ Lowest(Y \cup {n}) = IF Y = {} THEN n ELSE Lowest(Y)
  BY <1>1, <1>2, AddedAbove
<1>6. Lowest(K) \in N \cup {0} /\ Lowest(Y) \in N \cup {0}
  <2>1. K \in SUBSET (Nat \ {0}) /\ Y \in SUBSET (Nat \ {0})
    BY <1>2
  <2>2. K = {} => Lowest(K) = 0
    BY <2>1, LowestIs
  <2>3. K # {} => Lowest(K) \in K
    BY <2>1, LowestIs
  <2>4. Y = {} => Lowest(Y) = 0
    BY <2>1, LowestIs
  <2>5. Y # {} => Lowest(Y) \in Y
    BY <2>1, LowestIs
  <2> QED
    BY <1>2, <2>2, <2>3, <2>4, <2>5
<1>7. K \cup {} = K /\ Y \cup {} = Y
  OBVIOUS
<1>8. Lowest(Kids(t, k, n + 1)) = IF k = Owner(t, n) /\ K = {} THEN n ELSE Lowest(K)
  BY <1>3, <1>5, <1>7
<1>9. Lowest(Younger(t, k, n + 1)) =
        IF Owner(t, k) = Owner(t, n) /\ Owner(t, n) # 0 /\ Y = {} THEN n ELSE Lowest(Y)
  BY <1>3, <1>5, <1>7
<1> QED
  BY <1>4, <1>6, <1>8, <1>9 DEF K, Y, N

(* Which node is without a younger sibling. *)
LEMMA YoungestOne ==
  ASSUME NEW t, NEW n, Nested(t, n), NEW o, o # 0, Kids(t, o, n) # {}
  PROVE  /\ Highest(Kids(t, o, n)) \in NodesTo(t, n)
         /\ \A k \in NodesTo(t, n) :
              Owner(t, k) = o /\ Younger(t, k, n) = {} <=> k = Highest(Kids(t, o, n))
<1> DEFINE K == Kids(t, o, n)
           h == Highest(K)
<1>1. n \in Nat /\ K \in SUBSET (1 .. n) /\ \A k \in K : k \in NodesTo(t, n) /\ Owner(t, k) = o
  BY DEF Nested, Kids, NodesTo
<1>2. h \in K /\ \A k \in K : k <= h
  <2> HIDE DEF K
  <2>1. K # {}
    BY DEF K
  <2> QED
    BY <1>1, <2>1, HighestIs
<1>3. ASSUME NEW k \in NodesTo(t, n), Owner(t, k) = o, Younger(t, k, n) = {}
      PROVE  k = h
  BY <1>3, YoungestIs DEF Youngest
<1>4. Younger(t, h, n) = {}
  <2> HIDE DEF h
  <2> SUFFICES ASSUME NEW c \in Younger(t, h, n)
               PROVE  FALSE
    OBVIOUS
  <2>1. c \in K /\ c > h
    BY <1>1, <1>2 DEF Younger, Kids
  <2> QED
    BY <1>1, <1>2, <2>1
<1> QED
  BY <1>1, <1>2, <1>3, <1>4

(* dtb_parse_node builds the tree of one token more. *)
NewNodeIs(v, n, cur) ==
  /\ DOMAIN v = NodeFields
  /\ v.name = n /\ v.parent = cur /\ v.children = NULL /\ v.sibling = NULL /\ v.properties = NULL

(* Where Link writes. *)
LinkedAt(t, n, f, mem, new, nd2) ==
  LET o == Owner(t, n)
      l == Highest(Kids(t, o, n))
  IN \/ o = 0 /\ nd2 = mem
     \/ /\ o # 0 /\ Kids(t, o, n) = {}
        /\ nd2 = Store(mem, f[o], [Deref(mem, f[o]) EXCEPT !.children = new])
     \/ /\ o # 0 /\ Kids(t, o, n) # {}
        /\ nd2 = Store(mem, f[l], [Deref(mem, f[l]) EXCEPT !.sibling = new])

(* With the new node linked, the tree is that of one token more. *)
LEMMA NodeBuilt ==
  ASSUME NEW t, NEW n, NEW nd, NEW pr, NEW f, NEW q, Built(t, n, nd, pr, f, q),
         t[n].kind = "FDT_BEGIN_NODE", NEW cur, cur = Ptr(f, Owner(t, n)),
         NEW v, NewNodeIs(v, n, cur), NEW first, NEW mem, mem = ARRAY_PUSH(nd, first, v),
         NEW new, new = Newest(mem), NEW nd2, nd2 = Link(mem, cur, new)
  PROVE  /\ Built(t, n + 1, nd2, pr, Extend(f, n, new), q)
         /\ \A k \in NodesTo(t, n) : Extend(f, n, new)[k] = f[k]
         /\ Extend(f, n, new)[n] = new
         /\ LinkedAt(t, n, f, mem, new, nd2)
<1> DEFINE N == NodesTo(t, n)
           f2 == Extend(f, n, new)
           o == Owner(t, n)
<1>1. /\ Nested(t, n) /\ ArrayOK(nd) /\ ArrayOK(pr)
      /\ Places(f, N, nd) /\ Places(q, PropsTo(t, n), pr)
      /\ \A p \in Pointers(nd) \ {NULL} : DOMAIN Deref(nd, p) = NodeFields /\ SiblingOK(t, n, f, Deref(nd, p))
      /\ \A p \in Pointers(pr) \ {NULL} : DOMAIN Deref(pr, p) = PropFields
      /\ \A k \in N : NodeIs(t, n, f, q, k, Deref(nd, f[k]))
      /\ \A j \in PropsTo(t, n) : PropIs(t, q, j, Deref(pr, q[j]))
  BY DEF Built
<1>2. n \in Nat \ {0} /\ LevelIn(t, n) \in Nat /\ Nested(t, n + 1)
  <2>1. n \in Nat \ {0} /\ LevelIn(t, n) \in Nat
    BY <1>1 DEF Nested
  <2>2. LevelIn(t, n + 1) \in Nat
    BY <2>1, LevelStep
  <2> QED
    BY <1>1, <2>1, <2>2 DEF Nested
<1>3. /\ ArrayOK(mem) /\ Pointers(nd) \subseteq Pointers(mem) /\ new \in Pointers(mem) \ {NULL}
  BY <1>1, Pushed
<1>4. PushedTo(nd, first, v, mem)
  BY <1>1, PushedKeeps
<1>5. /\ \A p \in Pointers(nd) \ {NULL} : Deref(mem, p) = Deref(nd, p)
      /\ new \notin Pointers(nd) /\ Deref(mem, new) = v
  BY <1>4 DEF PushedTo
<1>6. NodesTo(t, n + 1) = N \cup {n} /\ n \notin N /\ PropsTo(t, n + 1) = PropsTo(t, n)
  BY <1>1, NodeMore
<1>7. /\ Places(f2, N \cup {n}, mem)
      /\ \A k \in N : f2[k] = f[k]
      /\ f2[n] = new
  <2> HIDE DEF N
  <2>1. Places(f, N, nd) /\ n \notin N
    BY <1>1, <1>6
  <2>2. Places(f2, N \cup {n}, mem)
    BY <1>3, <1>5, <2>1, Extended
  <2>3. \A k \in N : f2[k] = f[k]
    BY <2>1 DEF Places, Extend
  <2>4. f2[n] = new
    BY <2>1 DEF Places, Extend
  <2> QED
    BY <2>2, <2>3, <2>4
<1>8. \A k \in N : f[k] \in Pointers(nd) \ {NULL} /\ f[k] # new
  BY <1>1, <1>5 DEF Places
<1>9. \A k \in N : NodeIs(t, n, f, q, k, Deref(mem, f[k])) /\ DOMAIN Deref(mem, f[k]) = NodeFields
  BY <1>1, <1>5, <1>8
<1>10. \A x \in N \cup {0} : Ptr(f2, x) = Ptr(f, x)
  BY <1>7 DEF Ptr
<1>11. n \in 1 .. n /\ o \in N \cup {0} /\ o # n
  <2>1. n \in 1 .. n
    BY <1>2
  <2> QED
    BY <1>1, <1>6, <2>1, OwnerBefore
<1>12. \A p \in Pointers(mem) \ {NULL} :
         DOMAIN Deref(mem, p) = NodeFields /\ SiblingOK(t, n, f, Deref(mem, p))
  <2> SUFFICES ASSUME NEW p \in Pointers(mem) \ {NULL}
               PROVE  DOMAIN Deref(mem, p) = NodeFields /\ SiblingOK(t, n, f, Deref(mem, p))
    OBVIOUS
  <2>1. Deref(mem, p) = v \/ \E x \in Pointers(nd) \ {NULL} : Deref(mem, p) = Deref(nd, x)
    BY <1>1, PushedEach
  <2> QED
    BY <1>1, <2>1 DEF NewNodeIs, SiblingOK
<1>13. \A e : SiblingOK(t, n, f, e) => SiblingOK(t, n + 1, f2, e)
  BY <1>6, <1>7 DEF SiblingOK
(* What is left to show of the memory that Link leaves. *)
<1>14. ASSUME ArrayOK(nd2), Pointers(nd2) = Pointers(mem), Deref(nd2, new) = v,
              \A p \in Pointers(mem) \ {NULL} :
                DOMAIN Deref(nd2, p) = NodeFields /\ SiblingOK(t, n + 1, f2, Deref(nd2, p)),
              \A k \in N : NodeIs(t, n + 1, f2, q, k, Deref(nd2, f[k]))
       PROVE  Built(t, n + 1, nd2, pr, f2, q)
  <2>1. NodeIs(t, n + 1, f2, q, n, v)
    <3>1. Kids(t, n, n + 1) = {} /\ Younger(t, n, n + 1) = {} /\ Own(t, n, n + 1) = {}
      BY <1>1, NodeMore
    <3>2. Lowest({}) = 0 /\ Highest({}) = 0
      BY DEF Lowest, Highest
    <3>3. \A g : Ptr(g, 0) = NULL
      BY DEF Ptr
    <3>4. Ptr(f2, o) = cur
      BY <1>10, <1>11
    <3> QED
      BY <3>1, <3>2, <3>3, <3>4 DEF NodeIs, NewNodeIs
  <2>2. Places(f2, NodesTo(t, n + 1), nd2)
    BY <1>6, <1>7, <1>14 DEF Places
  <2>3. \A k \in NodesTo(t, n + 1) : NodeIs(t, n + 1, f2, q, k, Deref(nd2, f2[k]))
    BY <1>6, <1>7, <1>14, <2>1
  <2> HIDE DEF f2
  <2> QED
    BY <1>1, <1>2, <1>6, <1>14, <2>2, <2>3 DEF Built
<1>15. ASSUME NEW k \in N
       PROVE  /\ Lowest(Kids(t, k, n + 1)) = IF k = o /\ Kids(t, k, n) = {} THEN n ELSE Lowest(Kids(t, k, n))
              /\ Lowest(Younger(t, k, n + 1)) =
                   IF Owner(t, k) = o /\ o # 0 /\ Younger(t, k, n) = {} THEN n ELSE Lowest(Younger(t, k, n))
              /\ Owner(t, k) \in N \cup {0}
              /\ Lowest(Kids(t, k, n)) \in N \cup {0}
              /\ Lowest(Younger(t, k, n)) \in N \cup {0}
              /\ Own(t, k, n + 1) = Own(t, k, n)
  BY <1>1, LowestMore, NodeMore
<1> HIDE DEF f2, N, o
(* A node of which nothing changes. *)
<1>16. ASSUME NEW k \in N, NEW e, NodeIs(t, n, f, q, k, e),
              ~(k = o /\ Kids(t, k, n) = {}), ~(Owner(t, k) = o /\ o # 0 /\ Younger(t, k, n) = {})
       PROVE  NodeIs(t, n + 1, f2, q, k, e)
  <2>1. /\ Lowest(Kids(t, k, n + 1)) = Lowest(Kids(t, k, n))
        /\ Lowest(Younger(t, k, n + 1)) = Lowest(Younger(t, k, n))
        /\ Own(t, k, n + 1) = Own(t, k, n)
    BY <1>15, <1>16
  <2>2. /\ Ptr(f2, Owner(t, k)) = Ptr(f, Owner(t, k))
        /\ Ptr(f2, Lowest(Kids(t, k, n))) = Ptr(f, Lowest(Kids(t, k, n)))
        /\ Ptr(f2, Lowest(Younger(t, k, n))) = Ptr(f, Lowest(Younger(t, k, n)))
    BY <1>10, <1>15
  <2> QED
    BY <1>16, <2>1, <2>2 DEF NodeIs
<1>17. CASE o = 0
  <2>1. nd2 = mem
    BY <1>17 DEF Link, Ptr, o
  <2>2. \A k \in N : k # 0
    BY DEF N, NodesTo
  <2>3. \A k \in N : NodeIs(t, n + 1, f2, q, k, Deref(mem, f[k]))
    BY <1>9, <1>16, <1>17, <2>2
  <2>4. Built(t, n + 1, nd2, pr, f2, q)
    BY <1>3, <1>5, <1>12, <1>13, <1>14, <2>1, <2>3
  <2>5. LinkedAt(t, n, f, mem, new, nd2)
    BY <1>17, <2>1 DEF LinkedAt, o
  <2> QED
    BY <1>7, <2>4, <2>5 DEF f2, N
<1>18. CASE o # 0 /\ Kids(t, o, n) = {}
  <2> DEFINE e == Deref(mem, f[o])
             w == [e EXCEPT !.children = new]
  <2>1. o \in N /\ cur = f[o] /\ f[o] # NULL /\ f[o] \in Pointers(mem) \ {NULL}
    BY <1>3, <1>8, <1>11, <1>18 DEF Ptr, o, N
  <2>2. NodeIs(t, n, f, q, o, e) /\ DOMAIN e = NodeFields
    BY <1>9, <2>1
  <2>3. e.children = NULL
    BY <1>18, <2>2 DEF NodeIs, Ptr, Lowest
  <2>4. nd2 = Store(mem, f[o], w)
    BY <2>1, <2>3 DEF Link
  <2>5. ArrayOK(nd2) /\ Pointers(nd2) = Pointers(mem)
    BY <1>3, <2>4, Stored
  <2>13. LinkedAt(t, n, f, mem, new, nd2)
    BY <1>18, <2>4 DEF LinkedAt, o
  <2> HIDE DEF e
  <2>6. /\ DOMAIN w = NodeFields /\ w.sibling = e.sibling /\ w.children = new /\ w.name = e.name
        /\ w.parent = e.parent /\ w.properties = e.properties
    BY <2>2 DEF NodeFields
  <2> HIDE DEF w
  <2>7. \A p \in Pointers(mem) \ {NULL} : Deref(nd2, p) = IF p = f[o] THEN w ELSE Deref(mem, p)
    BY <1>3, <2>1, <2>4, StoredDeref
  <2>8. Deref(nd2, new) = v
    BY <1>3, <1>5, <1>8, <2>1, <2>7
  <2>9. SiblingOK(t, n, f, w)
    <3>1. SiblingOK(t, n, f, e)
      BY <1>12, <2>1 DEF e
    <3> QED
      BY <2>6, <3>1 DEF SiblingOK
  <2>10. \A p \in Pointers(mem) \ {NULL} :
           DOMAIN Deref(nd2, p) = NodeFields /\ SiblingOK(t, n + 1, f2, Deref(nd2, p))
    BY <1>12, <1>13, <2>6, <2>7, <2>9
  <2>11. ASSUME NEW k \in N
         PROVE  NodeIs(t, n + 1, f2, q, k, Deref(nd2, f[k]))
    <3>1. Owner(t, k) # o
      BY <1>18 DEF Kids, N
    <3>2. CASE k # o
      <4>1. f[k] # f[o] /\ f[k] \in Pointers(mem) \ {NULL}
        BY <1>1, <1>3, <1>8, <2>1, <3>2 DEF Places, N
      <4>2. Deref(nd2, f[k]) = Deref(mem, f[k])
        BY <2>7, <4>1
      <4>3. NodeIs(t, n, f, q, k, Deref(mem, f[k]))
        BY <1>9
      <4> QED
        BY <1>16, <3>1, <3>2, <4>2, <4>3
    <3>3. CASE k = o
      <4>1. Deref(nd2, f[k]) = w
        BY <2>1, <2>7, <3>3
      <4>2. /\ Lowest(Kids(t, o, n + 1)) = n /\ n # 0
            /\ Lowest(Younger(t, o, n + 1)) = Lowest(Younger(t, o, n))
            /\ Own(t, o, n + 1) = Own(t, o, n)
        BY <1>2, <1>15, <1>18, <3>1, <3>3
      <4>3. /\ Ptr(f2, Owner(t, o)) = Ptr(f, Owner(t, o))
            /\ Ptr(f2, Lowest(Younger(t, o, n))) = Ptr(f, Lowest(Younger(t, o, n)))
        BY <1>10, <1>15, <2>1
      <4>4. Ptr(f2, n) = new
        BY <1>7, <4>2 DEF Ptr
      <4>5. NodeIs(t, n + 1, f2, q, o, w)
        BY <2>2, <2>6, <4>2, <4>3, <4>4 DEF NodeIs
      <4> QED
        BY <3>3, <4>1, <4>5
    <3> QED
      BY <3>2, <3>3
  <2>12. Built(t, n + 1, nd2, pr, f2, q)
    BY <1>14, <2>5, <2>8, <2>10, <2>11
  <2> QED
    BY <1>7, <2>12, <2>13 DEF f2, N
<1>19. CASE o # 0 /\ Kids(t, o, n) # {}
  <2> DEFINE l == Highest(Kids(t, o, n))
             e == Deref(mem, f[l])
             w == [e EXCEPT !.sibling = new]
  <2>1. o \in N /\ cur = f[o] /\ f[o] # NULL
    BY <1>8, <1>11, <1>19 DEF Ptr, o, N
  <2>2. l \in N /\ \A k \in N : Owner(t, k) = o /\ Younger(t, k, n) = {} <=> k = l
    BY <1>1, <1>19, YoungestOne DEF N
  <2> HIDE DEF l
  <2>3. f[l] \in Pointers(mem) \ {NULL} /\ f[l] # new
    BY <1>3, <1>8, <2>2
  <2>4. NodeIs(t, n, f, q, l, e) /\ DOMAIN e = NodeFields
    BY <1>9, <2>2
  <2>5. NodeIs(t, n, f, q, o, Deref(mem, f[o]))
    BY <1>9, <2>1
  <2>6. Lowest(Kids(t, o, n)) \in N
    <3>1. Kids(t, o, n) \in SUBSET (Nat \ {0}) /\ Kids(t, o, n) \subseteq N
      BY DEF Kids, NodesTo, N
    <3> QED
      BY <1>19, <3>1, LowestIs
  <2>7. Deref(mem, f[o]).children = f[Lowest(Kids(t, o, n))] /\ f[Lowest(Kids(t, o, n))] # NULL
    <3>1. Lowest(Kids(t, o, n)) # 0
      BY <2>6 DEF N, NodesTo
    <3> QED
      BY <1>8, <2>5, <2>6, <3>1 DEF NodeIs, Ptr
  <2>8. LastSibling(mem, f[Lowest(Kids(t, o, n))]) = f[l]
    <3>1. Places(f, N, mem)
      BY <1>1, <1>3 DEF Places
    <3>2. \A k \in N : Deref(mem, f[k]).sibling = Ptr(f, Lowest(Younger(t, k, n)))
      BY <1>9 DEF NodeIs
    <3>3. \A p \in Pointers(mem) \ {NULL} : SiblingOK(t, n, f, Deref(mem, p))
      BY <1>12
    <3> QED
      BY <1>1, <1>19, <3>1, <3>2, <3>3, LastIs DEF N, l
  <2>9. nd2 = Store(mem, f[l], w)
    BY <2>1, <2>7, <2>8 DEF Link
  <2>10. ArrayOK(nd2) /\ Pointers(nd2) = Pointers(mem)
    BY <1>3, <2>9, Stored
  <2>18. LinkedAt(t, n, f, mem, new, nd2)
    BY <1>19, <2>9 DEF LinkedAt, o, l
  <2> HIDE DEF e
  <2>11. /\ DOMAIN w = NodeFields /\ w.sibling = new /\ w.children = e.children /\ w.name = e.name
         /\ w.parent = e.parent /\ w.properties = e.properties
    BY <2>4 DEF NodeFields
  <2> HIDE DEF w
  <2>12. \A p \in Pointers(mem) \ {NULL} : Deref(nd2, p) = IF p = f[l] THEN w ELSE Deref(mem, p)
    BY <1>3, <2>3, <2>9, StoredDeref
  <2>13. Deref(nd2, new) = v
    BY <1>3, <1>5, <2>3, <2>12
  <2>14. SiblingOK(t, n + 1, f2, w)
    BY <1>6, <1>7, <1>19, <2>11 DEF SiblingOK, o
  <2>15. \A p \in Pointers(mem) \ {NULL} :
           DOMAIN Deref(nd2, p) = NodeFields /\ SiblingOK(t, n + 1, f2, Deref(nd2, p))
    BY <1>12, <1>13, <2>11, <2>12, <2>14
  <2>16. ASSUME NEW k \in N
         PROVE  NodeIs(t, n + 1, f2, q, k, Deref(nd2, f[k]))
    <3>1. ~(k = o /\ Kids(t, k, n) = {})
      BY <1>19
    <3>2. CASE k # l
      <4>1. f[k] # f[l] /\ f[k] \in Pointers(mem) \ {NULL}
        BY <1>1, <1>3, <1>8, <2>2, <3>2 DEF Places, N
      <4>2. Deref(nd2, f[k]) = Deref(mem, f[k])
        BY <2>12, <4>1
      <4>3. NodeIs(t, n, f, q, k, Deref(mem, f[k]))
        BY <1>9
      <4> QED
        BY <1>16, <2>2, <3>1, <3>2, <4>2, <4>3
    <3>3. CASE k = l
      <4>1. Deref(nd2, f[k]) = w
        BY <2>3, <2>12, <3>3
      <4>2. Owner(t, l) = o /\ Younger(t, l, n) = {}
        BY <2>2
      <4>3. /\ Lowest(Kids(t, l, n + 1)) = Lowest(Kids(t, l, n)) /\ n # 0
            /\ Lowest(Younger(t, l, n + 1)) = n
            /\ Own(t, l, n + 1) = Own(t, l, n)
        BY <1>2, <1>15, <1>19, <3>1, <3>3, <4>2
      <4>4. /\ Ptr(f2, Owner(t, l)) = Ptr(f, Owner(t, l))
            /\ Ptr(f2, Lowest(Kids(t, l, n))) = Ptr(f, Lowest(Kids(t, l, n)))
        BY <1>10, <1>15, <2>2
      <4>5. Ptr(f2, n) = new
        BY <1>7, <4>3 DEF Ptr
      <4>6. NodeIs(t, n + 1, f2, q, l, w)
        BY <2>4, <2>11, <4>3, <4>4, <4>5 DEF NodeIs
      <4> QED
        BY <3>3, <4>1, <4>6
    <3> QED
      BY <3>2, <3>3
  <2>17. Built(t, n + 1, nd2, pr, f2, q)
    BY <1>14, <2>10, <2>13, <2>15, <2>16
  <2> QED
    BY <1>7, <2>17, <2>18 DEF f2, N
<1> QED
  BY <1>17, <1>18, <1>19

-----------------------------------------------------------------------------
(* The highest property of a node is one that has been read. *)
LEMMA HighestOwn ==
  ASSUME NEW t, NEW n \in Nat \ {0}, NEW m \in 1 .. n, NEW k
  PROVE  Highest(Own(t, k, m)) \in PropsTo(t, n) \cup {0}
<1> DEFINE S == Own(t, k, m)
<1>1. S \in SUBSET (1 .. n) /\ S \subseteq PropsTo(t, n)
  BY DEF Own, PropsTo
<1> HIDE DEF S
<1>2. S = {} => Highest(S) = 0
  BY <1>1, HighestIs
<1>3. S # {} => Highest(S) \in S
  BY <1>1, HighestIs
<1>4. Highest(S) \in PropsTo(t, n) \cup {0}
  BY <1>1, <1>2, <1>3
<1> QED
  BY <1>4 DEF S

(* dtb_parse_property builds the tree of one token more. *)
NewPropIs(v, t, n) ==
  /\ DOMAIN v = PropFields
  /\ v.at = n /\ v.value = t[n].value /\ v.name \in {"", t[n].name}
  /\ v.null \in BOOLEAN /\ (v.value = <<>> => v.null)

(* With the new property in front of the list of its node, the tree is     *)
(* that of one token more.                                                 *)
LEMMA PropBuilt ==
  ASSUME NEW t, NEW n, NEW nd, NEW pr, NEW f, NEW q, Built(t, n, nd, pr, f, q),
         t[n].kind = "FDT_PROP", NEW o, o = Owner(t, n), o # 0, NEW cur, cur = Ptr(f, o),
         NEW v, NewPropIs(v, t, n), v.next = Deref(nd, cur).properties,
         NEW first, NEW pr2, pr2 = ARRAY_PUSH(pr, first, v),
         NEW new, new = Newest(pr2),
         NEW nd2, nd2 = Store(nd, cur, [Deref(nd, cur) EXCEPT !.properties = new])
  PROVE  /\ Built(t, n + 1, nd2, pr2, f, Extend(q, n, new))
         /\ \A j \in PropsTo(t, n) : Extend(q, n, new)[j] = q[j]
         /\ Extend(q, n, new)[n] = new
<1> DEFINE N == NodesTo(t, n)
           J == PropsTo(t, n)
           q2 == Extend(q, n, new)
<1>1. /\ Nested(t, n) /\ ArrayOK(nd) /\ ArrayOK(pr)
      /\ Places(f, N, nd) /\ Places(q, J, pr)
      /\ \A p \in Pointers(nd) \ {NULL} : DOMAIN Deref(nd, p) = NodeFields /\ SiblingOK(t, n, f, Deref(nd, p))
      /\ \A p \in Pointers(pr) \ {NULL} : DOMAIN Deref(pr, p) = PropFields
      /\ \A k \in N : NodeIs(t, n, f, q, k, Deref(nd, f[k]))
      /\ \A j \in J : PropIs(t, q, j, Deref(pr, q[j]))
  BY DEF Built
<1>2. n \in Nat \ {0} /\ LevelIn(t, n) \in Nat /\ Nested(t, n + 1)
  <2>1. n \in Nat \ {0} /\ LevelIn(t, n) \in Nat
    BY <1>1 DEF Nested
  <2>2. LevelIn(t, n + 1) \in Nat
    BY <2>1, LevelStep
  <2> QED
    BY <1>1, <2>1, <2>2 DEF Nested
<1>3. /\ ArrayOK(pr2) /\ Pointers(pr) \subseteq Pointers(pr2) /\ new \in Pointers(pr2) \ {NULL}
  BY <1>1, Pushed
<1>4. PushedTo(pr, first, v, pr2)
  BY <1>1, PushedKeeps
<1>5. /\ \A p \in Pointers(pr) \ {NULL} : Deref(pr2, p) = Deref(pr, p)
      /\ new \notin Pointers(pr) /\ Deref(pr2, new) = v
  BY <1>4 DEF PushedTo
<1>6. /\ PropsTo(t, n + 1) = J \cup {n} /\ n \notin J /\ NodesTo(t, n + 1) = N
      /\ \A k : Kids(t, k, n + 1) = Kids(t, k, n) /\ Younger(t, k, n + 1) = Younger(t, k, n)
      /\ \A k : Own(t, k, n + 1) = Own(t, k, n) \cup (IF k = o THEN {n} ELSE {})
  BY <1>1, PropMore
<1>7. /\ Places(q2, J \cup {n}, pr2)
      /\ \A j \in J : q2[j] = q[j]
      /\ q2[n] = new
  <2> HIDE DEF J
  <2>1. Places(q, J, pr) /\ n \notin J
    BY <1>1, <1>6
  <2>2. Places(q2, J \cup {n}, pr2)
    BY <1>3, <1>5, <2>1, Extended
  <2>3. \A j \in J : q2[j] = q[j]
    BY <2>1 DEF Places, Extend
  <2>4. q2[n] = new
    BY <2>1 DEF Places, Extend
  <2> QED
    BY <2>2, <2>3, <2>4
<1>8. \A x \in J \cup {0} : Ptr(q2, x) = Ptr(q, x)
  BY <1>7 DEF Ptr
<1>9. o \in N /\ cur = f[o] /\ f[o] \in Pointers(nd) \ {NULL}
  <2>1. n \in 1 .. n
    BY <1>2
  <2>2. o \in N
    BY <1>1, <2>1, OwnerBefore
  <2> QED
    BY <1>1, <2>2 DEF Places, Ptr
<1> DEFINE e == Deref(nd, cur)
           w == [e EXCEPT !.properties = new]
<1>10. NodeIs(t, n, f, q, o, e) /\ DOMAIN e = NodeFields /\ SiblingOK(t, n, f, e)
  BY <1>1, <1>9
<1>11. nd2 = Store(nd, f[o], w)
  BY <1>9
<1> HIDE DEF e
<1>12. /\ DOMAIN w = NodeFields /\ w.sibling = e.sibling /\ w.children = e.children /\ w.name = e.name
       /\ w.parent = e.parent /\ w.properties = new
  BY <1>10 DEF NodeFields
<1> HIDE DEF w
<1>13. ArrayOK(nd2) /\ Pointers(nd2) = Pointers(nd)
  BY <1>1, <1>11, Stored
<1>14. \A p \in Pointers(nd) \ {NULL} : Deref(nd2, p) = IF p = f[o] THEN w ELSE Deref(nd, p)
  BY <1>1, <1>9, <1>11, StoredDeref
<1>15. \A p \in Pointers(nd2) \ {NULL} :
         DOMAIN Deref(nd2, p) = NodeFields /\ SiblingOK(t, n + 1, f, Deref(nd2, p))
  <2>1. SiblingOK(t, n, f, w)
    BY <1>10, <1>12 DEF SiblingOK
  <2>2. \A x : SiblingOK(t, n, f, x) => SiblingOK(t, n + 1, f, x)
    BY <1>6 DEF SiblingOK
  <2> QED
    BY <1>1, <1>12, <1>13, <1>14, <2>1, <2>2
<1>16. \A p \in Pointers(pr2) \ {NULL} : DOMAIN Deref(pr2, p) = PropFields
  <2> SUFFICES ASSUME NEW p \in Pointers(pr2) \ {NULL}
               PROVE  DOMAIN Deref(pr2, p) = PropFields
    OBVIOUS
  <2>1. Deref(pr2, p) = v \/ \E x \in Pointers(pr) \ {NULL} : Deref(pr2, p) = Deref(pr, x)
    BY <1>1, PushedEach
  <2> QED
    BY <1>1, <2>1 DEF NewPropIs
<1>17. ASSUME NEW k \in N
       PROVE  NodeIs(t, n + 1, f, q2, k, Deref(nd2, f[k]))
  <2>1. NodeIs(t, n, f, q, k, Deref(nd, f[k])) /\ f[k] \in Pointers(nd) \ {NULL}
    BY <1>1 DEF Places
  <2>2. CASE k # o
    <3>1. f[k] # f[o]
      BY <1>1, <1>9, <2>2 DEF Places
    <3>2. Deref(nd2, f[k]) = Deref(nd, f[k])
      BY <1>14, <2>1, <3>1
    <3>3. Own(t, k, n + 1) = Own(t, k, n)
      BY <1>6, <2>2
    <3>4. Ptr(q2, Highest(Own(t, k, n))) = Ptr(q, Highest(Own(t, k, n)))
      <4>1. n \in 1 .. n
        BY <1>2
      <4> QED
        BY <1>2, <1>8, <4>1, HighestOwn
    <3> QED
      BY <1>6, <2>1, <3>2, <3>3, <3>4 DEF NodeIs
  <2>3. CASE k = o
    <3>1. Deref(nd2, f[k]) = w
      BY <1>9, <1>14, <2>3
    <3>2. Highest(Own(t, o, n + 1)) = n
      <4>1. Own(t, o, n) \in SUBSET (1 .. n - 1)
        BY DEF Own, PropsTo
      <4>2. Highest(Own(t, o, n) \cup {n}) = n
        BY <1>2, <4>1, AddedAbove
      <4> QED
        BY <1>6, <4>2
    <3>3. Ptr(q2, n) = new
      BY <1>2, <1>7 DEF Ptr
    <3>4. NodeIs(t, n + 1, f, q2, o, w)
      BY <1>6, <1>10, <1>12, <3>2, <3>3 DEF NodeIs
    <3> QED
      BY <2>3, <3>1, <3>4
  <2> QED
    BY <2>2, <2>3
<1>18. ASSUME NEW j \in J \cup {n}
       PROVE  PropIs(t, q2, j, Deref(pr2, q2[j]))
  <2>1. CASE j \in J
    <3>1. PropIs(t, q, j, Deref(pr, q[j])) /\ q[j] \in Pointers(pr) \ {NULL}
      BY <1>1, <2>1 DEF Places
    <3>2. Deref(pr2, q2[j]) = Deref(pr, q[j])
      BY <1>5, <1>7, <2>1, <3>1
    <3>3. j \in 1 .. n
      BY <1>2, <2>1 DEF PropsTo
    <3>4. Ptr(q2, Highest(Own(t, Owner(t, j), j))) = Ptr(q, Highest(Own(t, Owner(t, j), j)))
      BY <1>2, <1>8, <3>3, HighestOwn
    <3> QED
      BY <3>1, <3>2, <3>4 DEF PropIs
  <2>2. CASE j = n
    <3>1. Deref(pr2, q2[j]) = v
      BY <1>5, <1>7, <2>2
    <3>2. n \in 1 .. n
      BY <1>2
    <3>3. Ptr(q2, Highest(Own(t, o, n))) = Ptr(q, Highest(Own(t, o, n)))
      BY <1>2, <1>8, <3>2, HighestOwn
    <3>4. v.next = Ptr(q, Highest(Own(t, o, n)))
      BY <1>10 DEF NodeIs, e
    <3> QED
      BY <2>2, <3>1, <3>3, <3>4 DEF PropIs, NewPropIs
  <2> QED
    BY <2>1, <2>2
<1> HIDE DEF q2, N, J
<1>19. Places(f, N, nd2)
  BY <1>1, <1>13 DEF Places
<1>20. Built(t, n + 1, nd2, pr2, f, q2)
  BY <1>2, <1>3, <1>6, <1>7, <1>13, <1>15, <1>16, <1>17, <1>18, <1>19 DEF Built
<1> QED
  BY <1>7, <1>20 DEF q2, J

(* Other tokens build nothing. *)
LEMMA NothingBuilt ==
  ASSUME NEW t, NEW n, NEW nd, NEW pr, NEW f, NEW q, Built(t, n, nd, pr, f, q),
         t[n].kind \notin {"FDT_BEGIN_NODE", "FDT_PROP"}, LevelIn(t, n + 1) \in Nat
  PROVE  Built(t, n + 1, nd, pr, f, q)
<1>1. n \in Nat \ {0} /\ Nested(t, n + 1)
  BY DEF Built, Nested
<1>2. PropsTo(t, n + 1) = PropsTo(t, n) /\ NodesTo(t, n + 1) = NodesTo(t, n)
  BY <1>1, NoMore
<1>3. \A k : /\ Kids(t, k, n + 1) = Kids(t, k, n) /\ Younger(t, k, n + 1) = Younger(t, k, n)
             /\ Own(t, k, n + 1) = Own(t, k, n)
  BY <1>1, NoMore
<1>4. \A k, e : NodeIs(t, n, f, q, k, e) => NodeIs(t, n + 1, f, q, k, e)
  BY <1>3 DEF NodeIs
<1>5. \A e : SiblingOK(t, n, f, e) => SiblingOK(t, n + 1, f, e)
  BY <1>2 DEF SiblingOK
<1> QED
  BY <1>1, <1>2, <1>4, <1>5 DEF Built

-----------------------------------------------------------------------------
(* The first element of the array of nodes, which becomes state.root: it   *)
(* is the root, or a copy of it.  Only the place of the root is in slot 1. *)

(* The tokens before m are in the order the format demands: one root, and  *)
(* the properties of a node before its subnodes.                           *)
Orderly(t, m) ==
  /\ \A i, k \in NodesTo(t, m) : i < k => Owner(t, k) # 0
  /\ \A j \in PropsTo(t, m), c \in NodesTo(t, m) :
       Owner(t, c) = Owner(t, j) /\ Owner(t, j) # 0 => j < c

RootIs(t, n, nd, f, q, r, e) ==
  /\ e.name = r /\ e.sibling = NULL
  /\ e.children \in {NULL, Ptr(f, Lowest(Kids(t, r, n)))}
  /\ e.properties \in {NULL} \cup {q[j] : j \in Own(t, r, n)}
  /\ Orderly(t, n) => /\ e.children = Ptr(f, Lowest(Kids(t, r, n)))
                      /\ e.properties = Ptr(q, Highest(Own(t, r, n)))

Rooted(t, n, nd, f, q) ==
  /\ NodesTo(t, n) = {} => nd = ARRAY_INIT
  /\ NodesTo(t, n) # {} =>
       LET r == Lowest(NodesTo(t, n))
       IN /\ f[r] = <<1, 1>> /\ \A k \in NodesTo(t, n) : k # r => f[k][2] # 1
          /\ ARRAY_SIZE(nd) \in Nat \ {0}
          /\ NodesTo(t, n) = {r} => ARRAY_SIZE(nd) = 1 /\ Len(nd) = 1
          /\ First(nd) \in Pointers(nd) \ {NULL}
          /\ RootIs(t, n, nd, f, q, r, Deref(nd, First(nd)))

(* Order up to a token is order before it. *)
LEMMA OrderlyBefore ==
  ASSUME NEW t, NEW m \in Nat, NEW n \in 1 .. m, Orderly(t, m)
  PROVE  Orderly(t, n)
<1>1. NodesTo(t, n) \subseteq NodesTo(t, m) /\ PropsTo(t, n) \subseteq PropsTo(t, m)
  BY DEF NodesTo, PropsTo
<1> QED
  BY <1>1 DEF Orderly

(* The root is in no node. *)
LEMMA RootOutside ==
  ASSUME NEW t, NEW n, Nested(t, n), NodesTo(t, n) # {}
  PROVE  LET r == Lowest(NodesTo(t, n))
         IN r \in NodesTo(t, n) /\ (\A k \in NodesTo(t, n) : r <= k) /\ Owner(t, r) = 0
<1> DEFINE N == NodesTo(t, n)
           r == Lowest(N)
<1>1. n \in Nat /\ N \in SUBSET (1 .. n - 1)
  BY DEF Nested, NodesTo
<1>2. r \in N /\ \A k \in N : r <= k
  <2> HIDE DEF N
  <2>1. N \in SUBSET (Nat \ {0}) /\ N # {}
    BY <1>1 DEF N
  <2> QED
    BY <2>1, LowestIs
<1>3. r \in 1 .. n
  BY <1>1, <1>2
<1>4. /\ Owner(t, r) \in 0 .. r - 1
      /\ Owner(t, r) # 0 => Owner(t, r) \in N
  BY <1>3, OwnerBefore
<1>5. Owner(t, r) = 0
  <2> HIDE DEF r, N
  <2> QED
    BY <1>1, <1>2, <1>3, <1>4
<1> QED
  BY <1>2, <1>5

(* With one root, the second node is its child. *)
LEMMA SecondNode ==
  ASSUME NEW t, NEW n, Nested(t, n), NodesTo(t, n) # {}, Orderly(t, n),
         Kids(t, Lowest(NodesTo(t, n)), n) = {}
  PROVE  NodesTo(t, n) = {Lowest(NodesTo(t, n))}
<1> DEFINE N == NodesTo(t, n)
           r == Lowest(N)
           M == N \ {r}
           c == Lowest(M)
<1>1. r \in N /\ (\A k \in N : r <= k) /\ Owner(t, r) = 0
  BY RootOutside
<1>2. n \in Nat /\ N \in SUBSET (1 .. n - 1)
  BY DEF Nested, NodesTo
<1>3. ASSUME M # {} PROVE FALSE
  <2>1. c \in M /\ \A k \in M : c <= k
    <3> HIDE DEF M
    <3>1. M \in SUBSET (Nat \ {0})
      BY <1>2 DEF M
    <3> QED
      BY <1>3, <3>1, LowestIs
  <2> HIDE DEF c, r
  <2>2. r < c /\ c \in N /\ c \in 1 .. n
    BY <1>1, <1>2, <2>1
  <2>3. Owner(t, c) # 0
    BY <1>1, <2>2 DEF Orderly
  <2>4. Owner(t, c) \in N /\ Owner(t, c) < c
    BY <2>2, <2>3, OwnerBefore
  <2>5. Owner(t, c) = r
    BY <1>2, <2>1, <2>2, <2>4
  <2>6. c \in Kids(t, r, n)
    BY <2>2, <2>5 DEF Kids
  <2> QED
    BY <2>6 DEF r
<1> HIDE DEF N, r
<1>4. N = {r}
  BY <1>1, <1>3
<1> QED
  BY <1>4 DEF N, r

-----------------------------------------------------------------------------
(* An array of one element has room for another. *)
LEMMA RoomForTwo ==
  ASSUME NEW mem, ARRAY_SIZE(mem) = 1, Len(mem) = 1, NEW first \in Nat \ {0, 1}
  PROVE  ~MustGrow(mem, first) /\ mem # ARRAY_INIT
<1>1. mem # ARRAY_INIT
  BY DEF ARRAY_SIZE
<1>2. 2 ^ (Len(mem) - 1) = 1
  <2>1. Len(mem) - 1 = 0 /\ 2 ^ 0 = 1
    OBVIOUS
  <2> QED
    BY <2>1
<1>3. ARRAY_CAPACITY(mem, first) = first
  BY <1>1, <1>2 DEF ARRAY_CAPACITY
<1> QED
  BY <1>1, <1>3 DEF MustGrow

(* The first element has a place. *)
LEMMA FirstPlace ==
  ASSUME NEW mem, ArrayOK(mem), ARRAY_SIZE(mem) \in Nat \ {0}
  PROVE  First(mem) \in Pointers(mem) \ {NULL} /\ First(mem)[2] = 1
<1>1. mem # ARRAY_INIT
  BY DEF ARRAY_SIZE
<1>2. Len(mem) \in DOMAIN mem /\ IsSeq(Data(mem)) /\ ARRAY_SIZE(mem) = Len(Data(mem))
  BY <1>1, HasData
<1>3. 1 \in DOMAIN mem[Len(mem)]
  BY <1>2 DEF IsSeq, Data
<1>4. First(mem) = <<Len(mem), 1>>
  BY DEF First
<1> QED
  BY <1>2, <1>3, <1>4, PointerIs

(* dtb_parse_node. *)
LEMMA NodeRooted ==
  ASSUME NEW t, NEW n, NEW nd, NEW pr, NEW f, NEW q, Built(t, n, nd, pr, f, q),
         t[n].kind = "FDT_BEGIN_NODE", NEW cur, cur = Ptr(f, Owner(t, n)),
         NEW v, NewNodeIs(v, n, cur), NEW first \in Nat \ {0, 1},
         NEW mem, mem = ARRAY_PUSH(nd, first, v),
         NEW new, new = Newest(mem), NEW nd2, nd2 = Link(mem, cur, new),
         Rooted(t, n, nd, f, q)
  PROVE  Rooted(t, n + 1, nd2, Extend(f, n, new), q)
<1> DEFINE N == NodesTo(t, n)
           f2 == Extend(f, n, new)
           o == Owner(t, n)
           r == Lowest(N)
<1>1. Nested(t, n) /\ ArrayOK(nd) /\ Places(f, N, nd) /\ n \in Nat \ {0}
  BY DEF Built, Nested
<1>2. /\ Built(t, n + 1, nd2, pr, f2, q)
      /\ \A k \in N : f2[k] = f[k]
      /\ f2[n] = new
      /\ LinkedAt(t, n, f, mem, new, nd2)
  BY NodeBuilt
<1>3. /\ ArrayOK(mem) /\ Pointers(nd) \subseteq Pointers(mem) /\ new \in Pointers(mem) \ {NULL}
  BY <1>1, Pushed
<1>4. PushedTo(nd, first, v, mem)
  BY <1>1, PushedKeeps
<1>5. NodesTo(t, n + 1) = N \cup {n} /\ n \notin N /\ N \in SUBSET (1 .. n - 1)
  BY <1>1, NodeMore DEF NodesTo
<1>6. Lowest(N \cup {n}) = IF N = {} THEN n ELSE r
  BY <1>1, <1>5, AddedAbove
<1>7. \A k : /\ Kids(t, k, n + 1) = Kids(t, k, n) \cup (IF k = o THEN {n} ELSE {})
             /\ Own(t, k, n + 1) = Own(t, k, n)
  BY <1>1, NodeMore
<1>8. Kids(t, n, n + 1) = {} /\ Own(t, n, n + 1) = {}
  BY <1>1, NodeMore
<1>9. n \in 1 .. n /\ o \in N \cup {0}
  <2>1. n \in 1 .. n
    BY <1>1
  <2> QED
    BY <1>1, <2>1, OwnerBefore
<1>10. ArrayOK(nd2) /\ Nested(t, n + 1)
  BY <1>2 DEF Built
<1>11. ARRAY_SIZE(nd2) = ARRAY_SIZE(mem) /\ First(nd2) = First(mem)
  <2>1. nd2 = mem \/ \E p, w : nd2 = Store(mem, p, w)
    BY <1>2 DEF LinkedAt
  <2> QED
    BY <1>3, <2>1, StoredSize
<1>12. ARRAY_SIZE(nd2) = ARRAY_SIZE(nd) + 1 /\ ARRAY_SIZE(nd) \in Nat
  BY <1>4, <1>11 DEF PushedTo
<1>13. First(nd2) \in Pointers(nd2) \ {NULL} /\ First(nd2)[2] = 1
  BY <1>10, <1>12, FirstPlace
<1>14. First(mem) \in Pointers(mem) \ {NULL}
  <2>1. ARRAY_SIZE(mem) \in Nat \ {0}
    BY <1>11, <1>12
  <2> QED
    BY <1>3, <2>1, FirstPlace
<1>15. CASE N = {}
  <2>1. o = 0 /\ nd2 = mem
    BY <1>2, <1>9, <1>15 DEF LinkedAt
  <2>2. nd = ARRAY_INIT /\ ARRAY_SIZE(nd) = 0
    BY <1>15 DEF Rooted, ARRAY_SIZE
  <2>3. new = <<1, 1>> /\ First(mem) = <<1, 1>> /\ Deref(mem, new) = v
    BY <1>4, <2>2 DEF PushedTo
  <2>4. Len(nd2) = 1
    BY <2>1, <2>2 DEF ARRAY_PUSH
  <2>5. Lowest({}) = 0 /\ \A g : Ptr(g, 0) = NULL
    BY DEF Lowest, Ptr
  <2>6. Highest({}) = 0
    BY DEF Highest
  <2>7. RootIs(t, n + 1, nd2, f2, q, n, v)
    BY <1>8, <2>5, <2>6 DEF RootIs, NewNodeIs
  <2>8. NodesTo(t, n + 1) = {n} /\ Lowest(NodesTo(t, n + 1)) = n
    BY <1>5, <1>6, <1>15
  <2> HIDE DEF f2
  <2>9. Rooted(t, n + 1, nd2, f2, q)
    BY <1>2, <1>12, <1>13, <2>1, <2>2, <2>3, <2>4, <2>7, <2>8 DEF Rooted
  <2> QED
    BY <2>9 DEF f2
<1>16. CASE N # {}
  <2>1. r \in N /\ (\A k \in N : r <= k) /\ Owner(t, r) = 0
    BY <1>1, <1>16, RootOutside
  <2>2. /\ f[r] = <<1, 1>> /\ \A k \in N : k # r => f[k][2] # 1
        /\ ARRAY_SIZE(nd) \in Nat \ {0}
        /\ N = {r} => ARRAY_SIZE(nd) = 1 /\ Len(nd) = 1
        /\ First(nd) \in Pointers(nd) \ {NULL}
        /\ RootIs(t, n, nd, f, q, r, Deref(nd, First(nd)))
    BY <1>16 DEF Rooted
  <2>3. Lowest(NodesTo(t, n + 1)) = r /\ NodesTo(t, n + 1) # {} /\ NodesTo(t, n + 1) # {r}
    BY <1>5, <1>6, <1>16, <2>1
  <2>4. new[2] # 1
    BY <1>4, <2>2 DEF PushedTo
  <2>5. /\ f2[r] = <<1, 1>>
        /\ \A k \in NodesTo(t, n + 1) : k # r => f2[k][2] # 1
    BY <1>2, <1>5, <2>1, <2>2, <2>4
  <2> DEFINE e == Deref(mem, First(mem))
             e2 == Deref(nd2, First(nd2))
  <2>6. e = Deref(nd, First(nd)) /\ DOMAIN e = NodeFields
    <3>1. e = Deref(nd, First(nd))
      BY <1>4, <2>2 DEF PushedTo
    <3>2. DOMAIN Deref(nd, First(nd)) = NodeFields
      BY <2>2 DEF Built
    <3> QED
      BY <3>1, <3>2
  <2>7. RootIs(t, n, nd, f, q, r, e)
    BY <2>2, <2>6
  <2>8. Orderly(t, n + 1) => Orderly(t, n)
    <3>1. n + 1 \in Nat /\ n \in 1 .. n + 1
      BY <1>1
    <3> QED
      BY <3>1, OrderlyBefore
  <2>9. \A k \in N \cup {0} : Ptr(f2, k) = Ptr(f, k)
    BY <1>2 DEF Ptr
  <2>10. Kids(t, r, n) # {} => Lowest(Kids(t, r, n)) \in N /\ Lowest(Kids(t, r, n)) # 0
    <3>1. Kids(t, r, n) \in SUBSET (Nat \ {0}) /\ Kids(t, r, n) \subseteq N
      BY DEF Kids, NodesTo
    <3> QED
      BY <3>1, LowestIs
  <2>11. ASSUME e2 = e, ~(o = r /\ Kids(t, r, n) = {})
         PROVE  RootIs(t, n + 1, nd2, f2, q, r, e2)
    <3>1. Lowest(Kids(t, r, n + 1)) = Lowest(Kids(t, r, n))
      BY <1>1, <2>1, <2>11, LowestMore
    <3>2. Lowest(Kids(t, r, n)) \in N \cup {0}
      BY <1>1, <2>1, LowestMore
    <3>3. Ptr(f2, Lowest(Kids(t, r, n))) = Ptr(f, Lowest(Kids(t, r, n)))
      BY <2>9, <3>2
    <3> HIDE DEF e, e2, f2, r
    <3> QED
      BY <1>7, <2>7, <2>8, <2>11, <3>1, <3>3 DEF RootIs
  <2>12. ASSUME o = r, Kids(t, r, n) = {}
         PROVE  RootIs(t, n + 1, nd2, f2, q, r, e2)
    <3>1. r # 0 /\ f[r] \in Pointers(mem) \ {NULL}
      BY <1>1, <1>3, <2>1 DEF Places, NodesTo
    <3>2. nd2 = Store(mem, f[r], [Deref(mem, f[r]) EXCEPT !.children = new])
      BY <1>2, <2>12, <3>1 DEF LinkedAt
    <3>3. Lowest(Kids(t, r, n + 1)) = n
      BY <1>1, <2>1, <2>12, LowestMore
    <3>4. Ptr(f2, n) = new
      BY <1>1, <1>2 DEF Ptr
    <3>5. Lowest(Kids(t, r, n)) = 0 /\ Ptr(f, 0) = NULL
      BY <2>12 DEF Lowest, Ptr
    <3>6. CASE First(mem) = f[r]
      <4> DEFINE w == [e EXCEPT !.children = new]
      <4>1. e2 = w
        <5>1. nd2 = Store(mem, First(mem), w)
          BY <3>2, <3>6
        <5>2. Deref(Store(mem, First(mem), w), First(mem)) = w
          <6> HIDE DEF w
          <6> QED
            BY <1>3, <1>14, StoredDeref
        <5> QED
          BY <1>11, <5>1, <5>2
      <4> HIDE DEF e, e2
      <4>2. w.children = new /\ w.name = e.name /\ w.sibling = e.sibling /\ w.properties = e.properties
        BY <2>6 DEF NodeFields
      <4> HIDE DEF w, f2, r
      <4>3. RootIs(t, n + 1, nd2, f2, q, r, w)
        BY <1>7, <2>7, <2>8, <3>3, <3>4, <4>2 DEF RootIs
      <4> QED
        BY <4>1, <4>3
    <3>7. CASE First(mem) # f[r]
      <4>1. e2 = e
        BY <1>3, <1>11, <1>14, <3>1, <3>2, <3>7, StoredDeref
      <4>2. ~Orderly(t, n + 1)
        <5> SUFFICES ASSUME Orderly(t, n + 1)
                     PROVE  FALSE
          OBVIOUS
        <5>1. N = {r}
          BY <1>1, <1>16, <2>8, <2>12, SecondNode
        <5>2. ARRAY_SIZE(nd) = 1 /\ Len(nd) = 1
          BY <2>2, <5>1
        <5>3. ~MustGrow(nd, first) /\ nd # ARRAY_INIT
          BY <5>2, RoomForTwo
        <5>4. First(mem) = First(nd)
          BY <1>4, <5>3 DEF PushedTo
        <5>5. First(nd) = <<1, 1>>
          BY <5>2 DEF First
        <5> QED
          BY <2>2, <3>7, <5>4, <5>5
      <4>3. e.children = NULL
        BY <2>7, <3>5 DEF RootIs
      <4> HIDE DEF e, e2, f2, r
      <4> QED
        BY <1>7, <2>7, <4>1, <4>2, <4>3 DEF RootIs
    <3> QED
      BY <3>6, <3>7
  <2>13. ASSUME ~(o = r /\ Kids(t, r, n) = {})
         PROVE  RootIs(t, n + 1, nd2, f2, q, r, e2)
    <3>1. CASE nd2 = mem
      BY <2>11, <2>13, <3>1
    <3>2. ASSUME NEW x \in N, x # r, NEW w, nd2 = Store(mem, f[x], w)
          PROVE  RootIs(t, n + 1, nd2, f2, q, r, e2)
      <4>1. f[x] \in Pointers(mem) \ {NULL} /\ f[x][2] # 1
        BY <1>1, <1>3, <2>2, <3>2 DEF Places
      <4>2. First(mem) # f[x]
        BY <1>11, <1>13, <4>1
      <4>3. e2 = e
        BY <1>3, <1>11, <1>14, <3>2, <4>1, <4>2, StoredDeref
      <4> QED
        BY <2>11, <2>13, <4>3
    <3>3. ASSUME o # 0, Kids(t, o, n) # {}
          PROVE  Highest(Kids(t, o, n)) \in N /\ Highest(Kids(t, o, n)) # r
      <4> DEFINE l == Highest(Kids(t, o, n))
      <4>1. l \in N /\ Owner(t, l) = o
        BY <1>1, <3>3, YoungestOne
      <4> HIDE DEF l
      <4>2. l # r
        BY <2>1, <3>3, <4>1
      <4> QED
        BY <4>1, <4>2 DEF l
    <3> QED
      BY <1>2, <1>9, <2>13, <3>1, <3>2, <3>3 DEF LinkedAt
  <2>14. RootIs(t, n + 1, nd2, f2, q, r, e2)
    BY <2>12, <2>13
  <2> HIDE DEF f2, r
  <2>15. Rooted(t, n + 1, nd2, f2, q)
    BY <1>12, <1>13, <2>2, <2>3, <2>5, <2>14 DEF Rooted
  <2> QED
    BY <2>15 DEF f2
<1> QED
  BY <1>15, <1>16

-----------------------------------------------------------------------------
(* dtb_parse_property. *)
LEMMA PropRooted ==
  ASSUME NEW t, NEW n, NEW nd, NEW pr, NEW f, NEW q, Built(t, n, nd, pr, f, q),
         t[n].kind = "FDT_PROP", NEW o, o = Owner(t, n), o # 0, NEW cur, cur = Ptr(f, o),
         NEW new, NEW nd2, nd2 = Store(nd, cur, [Deref(nd, cur) EXCEPT !.properties = new]),
         Rooted(t, n, nd, f, q), NEW q2, \A j \in PropsTo(t, n) : q2[j] = q[j], q2[n] = new
  PROVE  Rooted(t, n + 1, nd2, f, q2)
<1> DEFINE N == NodesTo(t, n)
           r == Lowest(N)
<1>1. Nested(t, n) /\ ArrayOK(nd) /\ Places(f, N, nd) /\ n \in Nat \ {0}
  BY DEF Built, Nested
<1>2. /\ PropsTo(t, n + 1) = PropsTo(t, n) \cup {n} /\ NodesTo(t, n + 1) = N
      /\ \A k : Kids(t, k, n + 1) = Kids(t, k, n)
      /\ \A k : Own(t, k, n + 1) = Own(t, k, n) \cup (IF k = o THEN {n} ELSE {})
  BY <1>1, PropMore
<1>3. n \in 1 .. n /\ o \in N /\ N # {} /\ cur = f[o] /\ f[o] \in Pointers(nd) \ {NULL}
  <2>1. n \in 1 .. n
    BY <1>1
  <2>2. o \in N
    BY <1>1, <2>1, OwnerBefore
  <2> QED
    BY <1>1, <2>1, <2>2 DEF Places, Ptr
<1>4. r \in N /\ (\A k \in N : r <= k) /\ Owner(t, r) = 0
  BY <1>1, <1>3, RootOutside
<1>5. /\ f[r] = <<1, 1>> /\ \A k \in N : k # r => f[k][2] # 1
      /\ ARRAY_SIZE(nd) \in Nat \ {0}
      /\ N = {r} => ARRAY_SIZE(nd) = 1 /\ Len(nd) = 1
      /\ First(nd) \in Pointers(nd) \ {NULL}
      /\ RootIs(t, n, nd, f, q, r, Deref(nd, First(nd)))
  BY <1>3 DEF Rooted
<1>6. /\ ArrayOK(nd2) /\ Pointers(nd2) = Pointers(nd) /\ Len(nd2) = Len(nd)
      /\ ARRAY_SIZE(nd2) = ARRAY_SIZE(nd) /\ First(nd2) = First(nd)
  BY <1>1, Stored, StoredSize
<1>7. \A x \in PropsTo(t, n) \cup {0} : Ptr(q2, x) = Ptr(q, x)
  BY DEF Ptr
<1> DEFINE e == Deref(nd, First(nd))
           e2 == Deref(nd2, First(nd2))
           w == [Deref(nd, f[o]) EXCEPT !.properties = new]
<1>8. e2 = IF First(nd) = f[o] THEN w ELSE e
  <2>1. nd2 = Store(nd, f[o], w)
    BY <1>3
  <2> HIDE DEF w
  <2> QED
    BY <1>1, <1>3, <1>5, <1>6, <2>1, StoredDeref
<1>9. DOMAIN e = NodeFields
  BY <1>5 DEF Built
<1>10. First(nd)[2] = 1
  BY <1>1, <1>5, FirstPlace
<1>11. Own(t, r, n) \subseteq PropsTo(t, n) /\ Own(t, r, n) \in SUBSET (1 .. n - 1)
  BY DEF Own, PropsTo
<1>12. {q[j] : j \in Own(t, r, n)} \subseteq {q2[j] : j \in Own(t, r, n + 1)}
  <2> SUFFICES ASSUME NEW j \in Own(t, r, n)
               PROVE  q[j] \in {q2[i] : i \in Own(t, r, n + 1)}
    OBVIOUS
  <2>1. j \in Own(t, r, n + 1) /\ q2[j] = q[j]
    BY <1>2, <1>11
  <2> QED
    BY <2>1
<1>13. Orderly(t, n + 1) => Orderly(t, n)
  <2>1. n + 1 \in Nat /\ n \in 1 .. n + 1
    BY <1>1
  <2> QED
    BY <2>1, OrderlyBefore
<1>14. ASSUME First(nd) = f[o]
       PROVE  RootIs(t, n + 1, nd2, f, q2, r, e2)
  <2>1. o = r
    BY <1>3, <1>5, <1>10, <1>14
  <2>2. Own(t, r, n + 1) = Own(t, r, n) \cup {n} /\ n \in Own(t, r, n + 1)
    BY <1>2, <2>1
  <2>3. Highest(Own(t, r, n + 1)) = n
    BY <1>1, <1>11, <2>2, AddedAbove
  <2>4. Ptr(q2, n) = new
    BY <1>1 DEF Ptr
  <2>5. e2 = [e EXCEPT !.properties = new]
    BY <1>8, <1>14
  <2> HIDE DEF e, e2
  <2>6. e2.name = e.name /\ e2.sibling = e.sibling /\ e2.children = e.children /\ e2.properties = new
    BY <1>9, <2>5 DEF NodeFields
  <2>7. new \in {q2[j] : j \in Own(t, r, n + 1)}
    BY <2>2
  <2>8. RootIs(t, n, nd, f, q, r, e)
    BY <1>5 DEF e
  <2> HIDE DEF r
  <2> QED
    BY <1>2, <1>13, <2>3, <2>4, <2>6, <2>7, <2>8 DEF RootIs
<1>15. ASSUME First(nd) # f[o]
       PROVE  RootIs(t, n + 1, nd2, f, q2, r, e2)
  <2>1. e2 = e
    BY <1>8, <1>15
  <2>2. ASSUME Orderly(t, n + 1)
        PROVE  o # r
    <3> SUFFICES ASSUME o = r
                 PROVE  FALSE
      OBVIOUS
    <3>1. N # {r}
      <4>1. Len(nd) = 1 => First(nd) = <<1, 1>>
        BY DEF First
      <4> QED
        BY <1>5, <1>15, <4>1
    <3>2. Kids(t, r, n) # {}
      <4> SUFFICES ASSUME Kids(t, r, n) = {}
                   PROVE  N = {r}
        BY <3>1
      <4>1. Orderly(t, n)
        BY <1>13, <2>2
      <4> QED
        BY <1>1, <1>3, <4>1, SecondNode
    <3>3. PICK c \in N : Owner(t, c) = r
      BY <3>2 DEF Kids
    <3>4. n \in PropsTo(t, n + 1) /\ c \in NodesTo(t, n + 1) /\ c < n /\ c \in Nat
      BY <1>1, <1>2, <3>3 DEF NodesTo
    <3>5. \A a \in PropsTo(t, n + 1), b \in NodesTo(t, n + 1) :
            Owner(t, a) # 0 /\ Owner(t, b) = Owner(t, a) => a < b
      BY <2>2 DEF Orderly
    <3>6. Owner(t, n) = r /\ r # 0
      BY <1>3
    <3>7. n < c
      <4> HIDE DEF N, r
      <4> QED
        BY <3>3, <3>4, <3>5, <3>6
    <3> QED
      BY <1>1, <3>4, <3>7
  <2>3. ASSUME Orderly(t, n + 1)
        PROVE  Ptr(q2, Highest(Own(t, r, n + 1))) = Ptr(q, Highest(Own(t, r, n)))
    <3>1. Own(t, r, n + 1) = Own(t, r, n)
      BY <1>2, <2>2, <2>3
    <3>2. Highest(Own(t, r, n)) \in PropsTo(t, n) \cup {0}
      BY <1>1, <1>3, HighestOwn
    <3> QED
      BY <1>7, <3>1, <3>2
  <2> HIDE DEF e, e2
  <2>4. RootIs(t, n, nd, f, q, r, e)
    BY <1>5 DEF e
  <2> HIDE DEF r
  <2> QED
    BY <1>2, <1>12, <1>13, <2>1, <2>3, <2>4 DEF RootIs
<1>16. RootIs(t, n + 1, nd2, f, q2, r, e2)
  BY <1>14, <1>15
<1> QED
  BY <1>2, <1>3, <1>5, <1>6, <1>16 DEF Rooted

(* Other tokens. *)
LEMMA OtherRooted ==
  ASSUME NEW t, NEW n \in Nat \ {0}, NEW nd, NEW f, NEW q,
         t[n].kind \notin {"FDT_BEGIN_NODE", "FDT_PROP"}, Rooted(t, n, nd, f, q)
  PROVE  Rooted(t, n + 1, nd, f, q)
<1>1. PropsTo(t, n + 1) = PropsTo(t, n) /\ NodesTo(t, n + 1) = NodesTo(t, n)
  BY NoMore
<1>2. \A k : Kids(t, k, n + 1) = Kids(t, k, n) /\ Own(t, k, n + 1) = Own(t, k, n)
  BY NoMore
<1>3. Orderly(t, n + 1) => Orderly(t, n)
  BY <1>1 DEF Orderly
<1>4. \A r, e : RootIs(t, n, nd, f, q, r, e) => RootIs(t, n + 1, nd, f, q, r, e)
  BY <1>2, <1>3 DEF RootIs
<1> QED
  BY <1>1, <1>4 DEF Rooted

-----------------------------------------------------------------------------
(* The rewrite pass gives a node its cells; the shape of the tree stays. *)
LEMMA CellsKeepTree ==
  ASSUME NEW t, NEW n, NEW nd, NEW pr, NEW f, NEW q, Built(t, n, nd, pr, f, q),
         Rooted(t, n, nd, f, q), NEW p \in Pointers(nd) \ {NULL}, NEW a, NEW s
  PROVE  LET nd2 == WithCells(nd, p, a, s)
         IN /\ Built(t, n, nd2, pr, f, q) /\ Rooted(t, n, nd2, f, q)
            /\ First(nd2) = First(nd) /\ Pointers(nd2) = Pointers(nd)
<1> DEFINE w == [Deref(nd, p) EXCEPT !.address_cells = a, !.size_cells = s]
           nd2 == Store(nd, p, w)
<1>0. WithCells(nd, p, a, s) = nd2
  BY DEF WithCells
<1>1. ArrayOK(nd) /\ n \in Nat
  BY DEF Built, Nested
<1>2. /\ ArrayOK(nd2) /\ Pointers(nd2) = Pointers(nd) /\ Len(nd2) = Len(nd)
      /\ ARRAY_SIZE(nd2) = ARRAY_SIZE(nd) /\ First(nd2) = First(nd)
  BY <1>1, Stored, StoredSize
<1>3. \A x \in Pointers(nd) \ {NULL} : DOMAIN Deref(nd, x) = NodeFields
  BY DEF Built
<1>4. ASSUME NEW x \in Pointers(nd) \ {NULL}
      PROVE  LET e == Deref(nd, x)
                 e2 == Deref(nd2, x)
             IN /\ DOMAIN e2 = DOMAIN e /\ e2.name = e.name /\ e2.parent = e.parent
                /\ e2.children = e.children /\ e2.sibling = e.sibling
                /\ e2.properties = e.properties
  <2>1. Deref(nd2, x) = IF x = p THEN w ELSE Deref(nd, x)
    <3> HIDE DEF w
    <3> QED
      BY <1>1, StoredDeref
  <2>2. DOMAIN Deref(nd, p) = NodeFields
    BY <1>3
  <2>3. /\ DOMAIN w = DOMAIN Deref(nd, p) /\ w.name = Deref(nd, p).name
        /\ w.parent = Deref(nd, p).parent /\ w.children = Deref(nd, p).children
        /\ w.sibling = Deref(nd, p).sibling /\ w.properties = Deref(nd, p).properties
    BY <2>2 DEF NodeFields
  <2> HIDE DEF w, nd2
  <2> QED
    BY <2>1, <2>3
<1> HIDE DEF nd2
<1>5. Built(t, n, nd2, pr, f, q)
  <2>1. Places(f, NodesTo(t, n), nd2)
    BY <1>2 DEF Built, Places
  <2>2. ASSUME NEW x \in Pointers(nd2) \ {NULL}
        PROVE  DOMAIN Deref(nd2, x) = NodeFields /\ SiblingOK(t, n, f, Deref(nd2, x))
    <3>1. SiblingOK(t, n, f, Deref(nd, x)) /\ DOMAIN Deref(nd, x) = NodeFields
      BY <1>2 DEF Built
    <3> QED
      BY <1>2, <1>4, <3>1 DEF SiblingOK
  <2>3. ASSUME NEW k \in NodesTo(t, n)
        PROVE  NodeIs(t, n, f, q, k, Deref(nd2, f[k]))
    <3>1. f[k] \in Pointers(nd) \ {NULL} /\ NodeIs(t, n, f, q, k, Deref(nd, f[k]))
      BY DEF Built, Places
    <3> QED
      BY <1>4, <3>1 DEF NodeIs
  <2> QED
    BY <1>2, <2>1, <2>2, <2>3 DEF Built
<1>6. Rooted(t, n, nd2, f, q)
  <2>1. CASE NodesTo(t, n) = {}
    <3>1. nd = <<>> /\ Pointers(nd) = {NULL}
      BY <2>1 DEF Rooted, ARRAY_INIT, Pointers
    <3> QED
      BY <3>1
  <2>2. CASE NodesTo(t, n) # {}
    <3> DEFINE r == Lowest(NodesTo(t, n))
    <3>1. First(nd) \in Pointers(nd) \ {NULL} /\ RootIs(t, n, nd, f, q, r, Deref(nd, First(nd)))
      BY <2>2 DEF Rooted
    <3>2. RootIs(t, n, nd2, f, q, r, Deref(nd2, First(nd)))
      <4> HIDE DEF r
      <4> QED
        BY <1>4, <3>1 DEF RootIs
    <3> QED
      BY <1>2, <2>2, <3>1, <3>2 DEF Rooted
  <2> QED
    BY <2>1, <2>2
<1> QED
  BY <1>0, <1>2, <1>5, <1>6 DEF nd2

(* It gives a property its type and what goes with it. *)
TypeGiven(pr, p, w, pr2) ==
  /\ pr2 = Store(pr, p, w) /\ DOMAIN w = DOMAIN Deref(pr, p)
  /\ w.next = Deref(pr, p).next /\ w.at = Deref(pr, p).at
  /\ w.value = Deref(pr, p).value /\ w.name = Deref(pr, p).name
  /\ w.null = Deref(pr, p).null

(* Such a store leaves the tree as it is. *)
LEMMA TypeKeepsTree ==
  ASSUME NEW t, NEW n, NEW nd, NEW pr, NEW f, NEW q, Built(t, n, nd, pr, f, q),
         NEW p \in Pointers(pr) \ {NULL}, NEW w, NEW pr2, TypeGiven(pr, p, w, pr2)
  PROVE  /\ Built(t, n, nd, pr2, f, q) /\ Pointers(pr2) = Pointers(pr)
         /\ \A x \in Pointers(pr) \ {NULL} : Deref(pr2, x) = IF x = p THEN w ELSE Deref(pr, x)
<1>1. ArrayOK(pr)
  BY DEF Built
<1>2. ArrayOK(pr2) /\ Pointers(pr2) = Pointers(pr)
  BY <1>1, Stored DEF TypeGiven
<1>3. \A x \in Pointers(pr) \ {NULL} : DOMAIN Deref(pr, x) = PropFields
  BY DEF Built
<1>4. ASSUME NEW x \in Pointers(pr) \ {NULL}
      PROVE  Deref(pr2, x) = IF x = p THEN w ELSE Deref(pr, x)
  BY <1>1, StoredDeref DEF TypeGiven
<1>5. Built(t, n, nd, pr2, f, q)
  <2>1. Places(q, PropsTo(t, n), pr2)
    BY <1>2 DEF Built, Places
  <2>2. ASSUME NEW x \in Pointers(pr2) \ {NULL}
        PROVE  DOMAIN Deref(pr2, x) = PropFields
    BY <1>2, <1>3, <1>4 DEF TypeGiven
  <2>3. ASSUME NEW j \in PropsTo(t, n)
        PROVE  PropIs(t, q, j, Deref(pr2, q[j]))
    <3>1. q[j] \in Pointers(pr) \ {NULL} /\ PropIs(t, q, j, Deref(pr, q[j]))
      BY DEF Built, Places
    <3> QED
      BY <1>4, <3>1 DEF PropIs, TypeGiven
  <2> QED
    BY <1>2, <2>1, <2>2, <2>3 DEF Built
<1> QED
  BY <1>2, <1>4, <1>5

(* What is written over a property is such a record. *)
Written(p, r) == [p EXCEPT !.type = r.type, !.num = r.num, !.data = r.data]

(* It changes the type and what goes with it, nothing else. *)
LEMMA WrittenGiven ==
  ASSUME NEW pr, NEW p, DOMAIN Deref(pr, p) = PropFields, NEW r
  PROVE  LET w == Written(Deref(pr, p), r)
         IN /\ TypeGiven(pr, p, w, Store(pr, p, w))
            /\ w.type = r.type /\ w.num = r.num /\ w.data = r.data
BY DEF Written, TypeGiven, PropFields

-----------------------------------------------------------------------------
(* What dt_initialize keeps true of the tree: at every token it is the     *)
(* tree of the tokens before it, and curr the node that is open.           *)
TreeIs(f, q) ==
  /\ Built(blob.tokens, off, nodes, props, f, q)
  /\ Rooted(blob.tokens, off, nodes, f, q)
  /\ curr = Ptr(f, Owner(blob.tokens, off))

Read == off \in Nat \ {0} /\ \A k \in 1 .. off - 1 : Kind(k) \notin {"FDT_END", "unknown"}

(* The tokens have all been read. *)
ReadAll ==
  /\ Token.kind = "FDT_END" /\ curr = NULL
  /\ root = First(nodes) /\ NodesTo(blob.tokens, off) # {}

ShapeOK ==
  /\ blob \in Blobs
  /\ Read
  /\ pc \in {"map", "mapRest", "reserve"} =>
       off = 1 /\ curr = NULL /\ nodes = ARRAY_INIT /\ props = ARRAY_INIT
  /\ pc \in {"parse", "rewrite", "print", "unmap", "done"} => \E f, q : TreeIs(f, q)
  /\ pc \in {"rewrite", "print", "unmap", "done"} => ReadAll

(* Before the first token. *)
LEMMA EmptyTree ==
  ASSUME off = 1, curr = NULL, nodes = ARRAY_INIT, props = ARRAY_INIT
  PROVE  TreeIs(<<>>, <<>>)
<1> DEFINE t == blob.tokens
<1>1. LevelIn(t, 1) = 0
  BY LevelFirst
<1>2. NodesTo(t, 1) = {} /\ PropsTo(t, 1) = {}
  BY DEF NodesTo, PropsTo
<1>3. Nested(t, 1) /\ Owner(t, 1) = 0
  BY <1>1 DEF Nested, Owner
<1>4. ArrayOK(<<>>) /\ Pointers(<<>>) = {NULL}
  BY DEF ArrayOK, IsSeq, Pointers
<1>5. Places(<<>>, {}, <<>>)
  BY DEF Places
<1>6. Built(t, 1, <<>>, <<>>, <<>>, <<>>)
  BY <1>2, <1>3, <1>4, <1>5 DEF Built
<1>7. Rooted(t, 1, <<>>, <<>>, <<>>)
  BY <1>2 DEF Rooted, ARRAY_INIT
<1> QED
  BY <1>3, <1>6, <1>7 DEF TreeIs, ARRAY_INIT, Ptr

(* dtb_parse_node adds the node at the token. *)
LEMMA ParseNodeTree ==
  ASSUME DeviceTreeAssumption, NEW f, NEW q, TreeIs(f, q), ParseNode, pc' = "parse"
  PROVE  (\E g : TreeIs(g, q)') /\ off' = off + 1
<1> DEFINE t == blob.tokens
           mem == ARRAY_PUSH(nodes, NODE_CAP, NewNode)
           new == Newest(mem)
<1>1. /\ t[off].kind = "FDT_BEGIN_NODE" /\ nodes' = Link(mem, curr, new) /\ curr' = new
      /\ off' = off + 1 /\ blob' = blob /\ props' = props
  BY DEF ParseNode, Token, Panic
<1>2. NewNodeIs(NewNode, off, curr)
  BY DEF NewNodeIs, NewNode, NodeFields
<1>3. Built(t, off, nodes, props, f, q) /\ Rooted(t, off, nodes, f, q) /\ curr = Ptr(f, Owner(t, off))
  BY DEF TreeIs
<1>4. NODE_CAP \in Nat \ {0, 1}
  BY DEF DeviceTreeAssumption
<1>5. off \in Nat \ {0} /\ LevelIn(t, off) \in Nat
  BY <1>3 DEF Built, Nested
<1> DEFINE g == Extend(f, off, new)
<1> HIDE DEF mem, new, t, g
<1>6. mem = ARRAY_PUSH(nodes, NODE_CAP, NewNode) /\ new = Newest(mem)
  BY DEF mem, new
<1>7. Built(t, off + 1, nodes', props, g, q) /\ g[off] = new
  BY <1>1, <1>2, <1>3, <1>6, NodeBuilt DEF g
<1>8. Rooted(t, off + 1, nodes', g, q)
  BY <1>1, <1>2, <1>3, <1>4, <1>6, NodeRooted DEF g
<1>9. Owner(t, off + 1) = off
  BY <1>1, <1>5, OwnerBegin
<1>10. PICK h : h = g
  OBVIOUS
<1>11. TreeIs(h, q)'
  BY <1>1, <1>5, <1>7, <1>8, <1>9, <1>10 DEF TreeIs, t, Ptr
<1> QED
  BY <1>1, <1>11

(* dtb_parse_property adds the property at the token. *)
LEMMA ParsePropertyTree ==
  ASSUME NEW f, NEW q, TreeIs(f, q), ParseProperty, pc' = "parse"
  PROVE  (\E g : TreeIs(f, g)') /\ off' = off + 1
<1> DEFINE t == blob.tokens
           new == Newest(props')
<1>1. PICK named \in BOOLEAN, copied \in BOOLEAN :
        /\ t[off].kind = "FDT_PROP" /\ curr # NULL
        /\ props' = ARRAY_PUSH(props, PROP_CAP, NewProperty(named, copied))
        /\ nodes' = Store(nodes, curr, [Deref(nodes, curr) EXCEPT !.properties = new])
        /\ off' = off + 1 /\ blob' = blob /\ curr' = curr
  BY DEF ParseProperty, Token, Panic, Trap
<1> DEFINE v == NewProperty(named, copied)
<1>2. NewPropIs(v, t, off) /\ v.next = Deref(nodes, curr).properties
  BY DEF NewPropIs, NewProperty, PropFields, Token
<1>3. Built(t, off, nodes, props, f, q) /\ Rooted(t, off, nodes, f, q) /\ curr = Ptr(f, Owner(t, off))
  BY DEF TreeIs
<1>4. Owner(t, off) # 0
  BY <1>1, <1>3 DEF Ptr
<1>5. off \in Nat \ {0} /\ LevelIn(t, off) \in Nat
  BY <1>3 DEF Built, Nested
<1> DEFINE g == Extend(q, off, new)
<1> HIDE DEF v, new, t, g
<1>6. props' = ARRAY_PUSH(props, PROP_CAP, v) /\ new = Newest(props')
  BY <1>1 DEF new, v
<1>7. /\ Built(t, off + 1, nodes', props', f, g)
      /\ \A j \in PropsTo(t, off) : g[j] = q[j]
      /\ g[off] = new
  BY <1>1, <1>2, <1>3, <1>4, <1>6, PropBuilt DEF g
<1>8. Rooted(t, off + 1, nodes', f, g)
  BY <1>1, <1>3, <1>4, <1>7, PropRooted
<1>9. Owner(t, off + 1) = Owner(t, off)
  BY <1>1, <1>5, OwnerSame
<1>10. PICK h : h = g
  OBVIOUS
<1>11. TreeIs(f, h)'
  BY <1>1, <1>3, <1>7, <1>8, <1>9, <1>10 DEF TreeIs, t
<1> QED
  BY <1>1, <1>11

(* The end of a node, and a token that is skipped. *)
LEMMA ParseOtherTree ==
  ASSUME NEW f, NEW q, TreeIs(f, q), ParseEndNode \/ ParseNop, pc' = "parse"
  PROVE  TreeIs(f, q)' /\ off' = off + 1
<1> DEFINE t == blob.tokens
<1>1. /\ t[off].kind \in {"FDT_END_NODE", "FDT_NOP"} /\ off' = off + 1
      /\ blob' = blob /\ nodes' = nodes /\ props' = props
  BY DEF ParseEndNode, ParseNop, Token, Trap, treeVars
<1>2. Built(t, off, nodes, props, f, q) /\ Rooted(t, off, nodes, f, q) /\ curr = Ptr(f, Owner(t, off))
  BY DEF TreeIs
<1>3. off \in Nat \ {0} /\ LevelIn(t, off) \in Nat /\ Nested(t, off) /\ off \in 1 .. off
  BY <1>2 DEF Built, Nested
<1>4. LevelIn(t, off + 1) \in Nat /\ curr' = Ptr(f, Owner(t, off + 1))
  <2>1. CASE t[off].kind = "FDT_NOP"
    <3>1. curr' = curr
      BY <2>1 DEF ParseEndNode, ParseNop, Token
    <3>2. Owner(t, off + 1) = Owner(t, off) /\ LevelIn(t, off + 1) = LevelIn(t, off)
      BY <1>3, <2>1, OwnerSame
    <3> QED
      BY <1>2, <1>3, <3>1, <3>2
  <2>2. CASE t[off].kind = "FDT_END_NODE"
    <3>1. curr # NULL /\ curr' = Deref(nodes, curr).parent
      BY <2>2 DEF ParseEndNode, ParseNop, Token, Trap
    <3> DEFINE o == Owner(t, off)
    <3>2. o # 0 /\ curr = f[o]
      BY <1>2, <3>1 DEF Ptr
    <3>3. LevelIn(t, off) # 0 /\ o \in NodesTo(t, off)
      BY <1>3, <3>2, OwnerBefore
    <3>4. Deref(nodes, f[o]).parent = Ptr(f, Owner(t, o))
      BY <1>2, <3>3 DEF Built, NodeIs
    <3>5. Owner(t, off + 1) = Owner(t, o) /\ LevelIn(t, off + 1) \in Nat
      BY <1>3, <2>2, <3>3, OwnerEnd
    <3> QED
      BY <3>1, <3>2, <3>4, <3>5
  <2> QED
    BY <1>1, <2>1, <2>2
<1>5. Built(t, off + 1, nodes, props, f, q)
  BY <1>1, <1>2, <1>4, NothingBuilt
<1>6. Rooted(t, off + 1, nodes, f, q)
  BY <1>1, <1>2, <1>3, OtherRooted
<1> QED
  BY <1>1, <1>4, <1>5, <1>6 DEF TreeIs

-----------------------------------------------------------------------------
(* FDT_END, when there is a tree: its root is nodes.data[0]. *)
LEMMA ParseEndTree ==
  ASSUME NEW f, NEW q, TreeIs(f, q), ParseEnd, pc' = "rewrite"
  PROVE  /\ TreeIs(f, q)' /\ ReadAll' /\ off' = off /\ curr = NULL /\ props' = props
         /\ Token.kind = "FDT_END" /\ NodesTo(blob.tokens, off) # {}
         /\ nodes' = WithCells(nodes, First(nodes), 2, 1)
         /\ First(nodes) \in Pointers(nodes) \ {NULL} /\ root' = First(nodes)
         /\ frames' = <<Frame(nodes', root')>>
<1> DEFINE t == blob.tokens
           r == First(nodes)
<1>1. /\ t[off].kind = "FDT_END" /\ off' = off /\ blob' = blob /\ props' = props
      /\ curr' = curr /\ curr = NULL /\ ARRAY_SIZE(nodes) > 0
      /\ root' = r /\ nodes' = WithCells(nodes, r, 2, 1)
      /\ frames' = <<Frame(nodes', root')>>
  BY DEF ParseEnd, Token, Panic, Return, Goto, parsing
<1>2. Built(t, off, nodes, props, f, q) /\ Rooted(t, off, nodes, f, q) /\ curr = Ptr(f, Owner(t, off))
  BY DEF TreeIs
<1>3. NodesTo(t, off) # {}
  BY <1>1, <1>2 DEF Rooted, ARRAY_SIZE
<1>4. r \in Pointers(nodes) \ {NULL}
  BY <1>2, <1>3 DEF Rooted
<1>5. /\ Built(t, off, nodes', props, f, q) /\ Rooted(t, off, nodes', f, q)
      /\ First(nodes') = First(nodes)
  <2> HIDE DEF t, r
  <2> QED
    BY <1>1, <1>2, <1>4, CellsKeepTree
<1>6. TreeIs(f, q)'
  BY <1>1, <1>2, <1>5 DEF TreeIs
<1>7. ReadAll'
  BY <1>1, <1>3, <1>5 DEF ReadAll, Token
<1> QED
  BY <1>1, <1>3, <1>4, <1>6, <1>7 DEF Token

(* One round of the loop over the properties: what the chain of            *)
(* comparisons comes to for the property and the cells of its node.        *)
RewriteOf(full) ==
  Rewrite(Deref(props, Top.prop), Deref(nodes, Top.node).address_cells,
          Deref(nodes, Top.node).size_cells, full)

Round(r) ==
  LET p == Deref(props, Top.prop)
      written == Store(props, Top.prop, Written(p, r))
  IN \/ /\ r.how = "ok" /\ props' = written
        /\ frames' = SetTop(NextFrame(Top, p, r)) /\ UNCHANGED <<pc, err>>
     \/ /\ r.how = "failed" /\ props' = written
        /\ Return("ERR_DTB_REWRITE_FAILED") /\ UNCHANGED frames
     \/ r.how \in {"panic", "trap"} /\ Goto(r.how) /\ UNCHANGED <<props, frames>>

(* A step of the loop is such a round. *)
LEMMA PropertyStep ==
  ASSUME RewriteProperty
  PROVE  /\ pc = "rewrite" /\ Top.prop # NULL
         /\ \E full \in BOOLEAN : Round(RewriteOf(full)) /\ Refused(IF full THEN 1 ELSE 0)
         /\ UNCHANGED <<blob, pages, mapVars, reserved, nodes, root, parsing>>
<1> DEFINE p == Deref(props, Top.prop)
           S == IF p.name \in Allocating THEN BOOLEAN ELSE {FALSE}
<1>1. PICK full \in S : Round(RewriteOf(full)) /\ Refused(IF full THEN 1 ELSE 0)
  BY Zenon DEF RewriteProperty, Round, RewriteOf, Written
<1>2. full \in BOOLEAN
  BY <1>1
<1>3. /\ pc = "rewrite" /\ Top.prop # NULL
      /\ UNCHANGED <<blob, pages, mapVars, reserved, nodes, root, parsing>>
  BY DEF RewriteProperty
<1> QED
  BY <1>1, <1>2, <1>3

(* The rewrite pass. *)
LEMMA RewriteTree ==
  ASSUME NEW f, NEW q, TreeIs(f, q), ReadAll, PointersOK,
         RewriteProperty \/ RewriteChild \/ RewriteReturn
  PROVE  TreeIs(f, q)' /\ ReadAll' /\ UNCHANGED <<blob, off, curr>>
<1> DEFINE t == blob.tokens
<1>0. pc = "rewrite" /\ UNCHANGED <<blob, off, curr, root>>
  BY DEF RewriteProperty, RewriteChild, RewriteReturn, parsing, treeVars
<1>1. Built(t, off, nodes, props, f, q) /\ Rooted(t, off, nodes, f, q) /\ curr = Ptr(f, Owner(t, off))
  BY DEF TreeIs
<1>2. FrameOK(Top, Pointers(nodes), Pointers(props))
  BY <1>0, TopOK
<1>3. CASE RewriteProperty
  <2>1. nodes' = nodes /\ Top.prop \in Pointers(props) \ {NULL}
    BY <1>2, <1>3 DEF RewriteProperty, FrameOK
  <2>2. Built(t, off, nodes, props', f, q)
    <3>1. CASE props' = props
      BY <1>1, <3>1
    <3>2. CASE props' # props
      <4>1. PICK full \in BOOLEAN : Round(RewriteOf(full))
        BY <1>3, PropertyStep
      <4> DEFINE r == RewriteOf(full)
      <4> HIDE DEF r
      <4>2. props' = Store(props, Top.prop, Written(Deref(props, Top.prop), r))
        BY <3>2, <4>1 DEF Round, r
      <4> DEFINE x == Top.prop
                 w == Written(Deref(props, x), r)
      <4>3. DOMAIN Deref(props, x) = PropFields
        BY <1>1, <2>1 DEF Built
      <4>4. x \in Pointers(props) \ {NULL} /\ props' = Store(props, x, w)
        BY <2>1, <4>2
      <4> HIDE DEF t, x
      <4>5. TypeGiven(props, x, w, props')
        BY <4>3, <4>4, WrittenGiven
      <4> HIDE DEF w
      <4> QED
        BY <1>1, <4>4, <4>5, TypeKeepsTree
    <3> QED
      BY <3>1, <3>2
  <2> QED
    BY <1>0, <1>1, <2>1, <2>2 DEF TreeIs, ReadAll, Token
<1>4. CASE RewriteChild
  <2>1. PICK a, s : nodes' = WithCells(nodes, Top.child, a, s)
    BY <1>4 DEF RewriteChild
  <2>2. props' = props /\ Top.child \in Pointers(nodes) \ {NULL}
    BY <1>2, <1>4 DEF RewriteChild, FrameOK
  <2>3. /\ Built(t, off, nodes', props, f, q) /\ Rooted(t, off, nodes', f, q)
        /\ First(nodes') = First(nodes)
    <3> HIDE DEF t
    <3> QED
      BY <1>1, <2>1, <2>2, CellsKeepTree
  <2> QED
    BY <1>0, <1>1, <2>2, <2>3 DEF TreeIs, ReadAll, Token
<1>5. CASE RewriteReturn
  BY <1>0, <1>5 DEF RewriteReturn, treeVars, TreeIs, ReadAll, Token
<1> QED
  BY <1>0, <1>3, <1>4, <1>5

(* One token more has been read. *)
LEMMA OneRead ==
  ASSUME Read, blob' = blob, off' = off + 1, Token.kind \notin {"FDT_END", "unknown"}
  PROVE  Read'
<1>1. \A k \in 1 .. off : Kind(k) \notin {"FDT_END", "unknown"}
  BY DEF Read, Token, Kind
<1>2. off \in Nat /\ (off + 1) - 1 = off
  BY DEF Read
<1> QED
  BY <1>1, <1>2 DEF Read, Kind

(* Every step of dt_initialize keeps the shape. *)
LEMMA ShapeKept ==
  ASSUME DeviceTreeAssumption, PointersOK, ShapeOK, [Next]_vars
  PROVE  ShapeOK'
<1> USE DEF Goto, Return, Panic, Trap
<1>0. blob \in Blobs /\ blob' = blob
  BY DEF ShapeOK, Next, vars, MapFirst, MapRest, MapFails, AllocBuffer, Reserve, ReserveEnds,
     ParseNode, ParseProperty, ParseEndNode, ParseNop, ParseUnknown, ParseEnd,
     RewriteProperty, RewriteChild, RewriteReturn, PrintTree, Unmap, Done
<1>1. Read
  BY DEF ShapeOK
<1>2. ASSUME pc' \in {"failed", "panic", "trap"}, off' = off
      PROVE  ShapeOK'
  BY <1>0, <1>1, <1>2 DEF ShapeOK, Read, Kind
<1>3. ASSUME NEW f, NEW g, TreeIs(f, g)', pc' = "parse", off' = off + 1,
             Token.kind \notin {"FDT_END", "unknown"}
      PROVE  ShapeOK'
  <2>1. Read'
    BY <1>0, <1>1, <1>3, OneRead
  <2> QED
    BY <1>0, <1>3, <2>1 DEF ShapeOK
<1>4. CASE MapFirst \/ MapRest \/ MapFails \/ AllocBuffer \/ Reserve
  <2>1. UNCHANGED <<off, curr, nodes, props>> /\ pc \in {"map", "mapRest", "reserve"}
        /\ pc' \in {"map", "mapRest", "reserve", "failed", "panic"}
    BY <1>4 DEF MapFirst, MapRest, MapFails, AllocBuffer, Reserve, treeVars, parsing
  <2> QED
    BY <1>0, <2>1 DEF ShapeOK, Read, Kind
<1>5. CASE ReserveEnds
  <2>1. UNCHANGED <<off, curr, nodes, props>> /\ pc = "reserve" /\ pc' = "parse"
    BY <1>5 DEF ReserveEnds, treeVars, parsing
  <2>2. TreeIs(<<>>, <<>>)
    BY <2>1, EmptyTree DEF ShapeOK
  <2> QED
    BY <1>0, <1>1, <2>1, <2>2 DEF ShapeOK, Read, Kind, TreeIs
<1>6. ASSUME pc = "parse"
      PROVE  \E f, g : TreeIs(f, g)
  BY <1>6 DEF ShapeOK
<1>7. CASE ParseNode
  <2>1. pc = "parse" /\ Token.kind = "FDT_BEGIN_NODE"
        /\ (pc' = "parse" \/ (pc' = "panic" /\ off' = off))
    BY <1>7 DEF ParseNode, parsing
  <2>2. PICK f, g : TreeIs(f, g)
    BY <1>6, <2>1
  <2>3. pc' = "parse" => (\E h : TreeIs(h, g)') /\ off' = off + 1
    BY <1>7, <2>2, ParseNodeTree
  <2> QED
    BY <1>2, <1>3, <2>1, <2>3
<1>8. CASE ParseProperty
  <2>1. pc = "parse" /\ Token.kind = "FDT_PROP"
        /\ (pc' = "parse" \/ (pc' \in {"panic", "trap"} /\ off' = off))
    BY <1>8 DEF ParseProperty
  <2>2. PICK f, g : TreeIs(f, g)
    BY <1>6, <2>1
  <2>3. pc' = "parse" => (\E h : TreeIs(f, h)') /\ off' = off + 1
    BY <1>8, <2>2, ParsePropertyTree
  <2> QED
    BY <1>2, <1>3, <2>1, <2>3
<1>9. CASE ParseEndNode \/ ParseNop
  <2>1. pc = "parse" /\ Token.kind \in {"FDT_END_NODE", "FDT_NOP"}
        /\ (pc' = "parse" \/ (pc' = "trap" /\ off' = off))
    BY <1>9 DEF ParseEndNode, ParseNop, parsing
  <2>2. PICK f, g : TreeIs(f, g)
    BY <1>6, <2>1
  <2>3. pc' = "parse" => TreeIs(f, g)' /\ off' = off + 1
    BY <1>9, <2>2, ParseOtherTree
  <2> QED
    BY <1>2, <1>3, <2>1, <2>3
<1>10. CASE ParseUnknown
  <2>1. pc' = "panic" /\ off' = off
    BY <1>10 DEF ParseUnknown, parsing
  <2> QED
    BY <1>2, <2>1
<1>11. CASE ParseEnd
  <2>1. pc = "parse" /\ off' = off /\ pc' \in {"panic", "failed", "rewrite"}
    BY <1>11 DEF ParseEnd, parsing
  <2>2. PICK f, g : TreeIs(f, g)
    BY <1>6, <2>1
  <2>3. CASE pc' = "rewrite"
    <3>1. TreeIs(f, g)' /\ ReadAll'
      BY <1>11, <2>2, <2>3, ParseEndTree
    <3> QED
      BY <1>0, <1>1, <2>1, <2>3, <3>1 DEF ShapeOK, Read, Kind
  <2> QED
    BY <1>2, <2>1, <2>3
<1>12. CASE RewriteProperty \/ RewriteChild \/ RewriteReturn
  <2>1. pc = "rewrite" /\ pc' \in {"rewrite", "print", "failed", "panic", "trap"}
    BY <1>12 DEF RewriteProperty, RewriteChild, RewriteReturn
  <2>2. PICK f, g : TreeIs(f, g)
    BY <2>1 DEF ShapeOK
  <2>3. ReadAll
    BY <2>1 DEF ShapeOK
  <2>4. TreeIs(f, g)' /\ ReadAll' /\ off' = off
    BY <1>12, <2>2, <2>3, RewriteTree
  <2> QED
    BY <1>0, <1>1, <2>1, <2>4 DEF ShapeOK, Read, Kind
<1>13. CASE PrintTree \/ Unmap \/ Done
  <2>1. /\ UNCHANGED <<blob, off, curr, nodes, props, root>> /\ pc \in {"print", "unmap"}
        /\ pc' \in {"unmap", "done", "failed"}
    BY <1>13 DEF PrintTree, Unmap, Done, treeVars, parsing
  <2> QED
    BY <2>1 DEF ShapeOK, Read, Kind, TreeIs, ReadAll, Token
<1>14. CASE UNCHANGED vars
  <2>1. UNCHANGED <<blob, off, curr, nodes, props, root, pc>>
    BY <1>14 DEF vars, treeVars, parsing
  <2> QED
    BY <2>1 DEF ShapeOK, Read, Kind, TreeIs, ReadAll, Token
<1> QED
  BY <1>4, <1>5, <1>7, <1>8, <1>9, <1>10, <1>11, <1>12, <1>13, <1>14 DEF Next

-----------------------------------------------------------------------------
(* The tokens that were read are all the tokens, when the blob follows the *)
(* format.                                                                 *)
LEMMA AllRead ==
  ASSUME DeviceTreeAssumption, ShapeOK, Token.kind = "FDT_END", WellFormed
  PROVE  /\ off = Len(blob.tokens) /\ DOMAIN blob.tokens = 1 .. off
         /\ Begins = NodesTo(blob.tokens, off) /\ Begins \in SUBSET (1 .. off - 1)
<1> DEFINE t == blob.tokens
<1>1. /\ DOMAIN t = 1 .. Len(t) /\ Len(t) \in Nat
      /\ \E k \in DOMAIN t : t[k].kind \in {"FDT_END", "unknown"}
  <2>1. blob \in Blobs
    BY DEF ShapeOK
  <2>2. t \in Seq({t[k] : k \in DOMAIN t}) /\ \E k \in DOMAIN t : t[k].kind \in {"FDT_END", "unknown"}
    BY <2>1 DEF DeviceTreeAssumption
  <2> DEFINE S == {t[k] : k \in DOMAIN t}
  <2>3. t \in Seq(S)
    BY <2>2
  <2> HIDE DEF S, t
  <2>4. DOMAIN t = 1 .. Len(t) /\ Len(t) \in Nat
    BY <2>3
  <2> QED
    BY <2>2, <2>4
<1>2. off \in Nat \ {0} /\ \A k \in 1 .. off - 1 : t[k].kind \notin {"FDT_END", "unknown"}
  BY DEF ShapeOK, Read, Kind
<1>3. off \in DOMAIN t
  <2>1. PICK k \in DOMAIN t : t[k].kind \in {"FDT_END", "unknown"}
    BY <1>1
  <2>2. k \in Nat /\ k <= Len(t) /\ k >= 1 /\ k \notin 1 .. off - 1
    BY <1>1, <1>2, <2>1
  <2> QED
    BY <1>1, <1>2, <2>2
<1>4. off = Len(t)
  BY <1>3 DEF WellFormed, Kind, Token
<1>5. t[off].kind = "FDT_END"
  BY DEF Token
<1>6. Begins = NodesTo(t, off)
  <2>1. ASSUME NEW k
        PROVE  k \in 1 .. off /\ t[k].kind = "FDT_BEGIN_NODE" <=> k \in 1 .. off - 1 /\ t[k].kind = "FDT_BEGIN_NODE"
    <3>1. k \in 1 .. off /\ k # off => k \in 1 .. off - 1
      BY <1>2
    <3>2. k \in 1 .. off - 1 => k \in 1 .. off
      BY <1>2
    <3> QED
      BY <1>5, <3>1, <3>2
  <2> QED
    BY <1>1, <1>4, <2>1 DEF Begins, NodesTo, Kind
<1> QED
  BY <1>1, <1>4, <1>6 DEF NodesTo

(* Levels and open nodes, with the tokens as a parameter. *)
LEMMA LevelSame == \A k : Level(k) = LevelIn(blob.tokens, k)
BY DEF Level, LevelIn, Before, CountIn, Kind

(* In a well formed blob the node open at a token is its owner. *)
LEMMA OpenSame ==
  ASSUME DeviceTreeAssumption, ShapeOK, Token.kind = "FDT_END", WellFormed,
         NEW k \in 1 .. off, Level(k) # 0
  PROVE  OpenAt(k) = Owner(blob.tokens, k)
<1> DEFINE t == blob.tokens
<1>1. off \in Nat /\ Begins = NodesTo(t, off)
  BY AllRead DEF ShapeOK, Read
<1>2. {j \in Begins : j < k /\ Level(j) = Level(k) - 1} = Openers(t, k)
  <2>1. \A j : j \in NodesTo(t, off) /\ j < k <=> j \in NodesTo(t, k)
    BY <1>1 DEF NodesTo
  <2> QED
    BY <1>1, <2>1, LevelSame DEF Openers
<1> QED
  BY <1>2, LevelSame DEF OpenAt, Owner

(* A blob that follows the format: which node is within which, and the     *)
(* order of its tokens.                                                    *)
LEMMA WellFormedMeans ==
  ASSUME DeviceTreeAssumption, ShapeOK, Token.kind = "FDT_END", WellFormed
  PROVE  LET t == blob.tokens
             r == Lowest(NodesTo(t, off))
         IN /\ Begins # {} /\ RootAt = r /\ r \in Begins /\ (\A k \in Begins : r <= k)
            /\ \A k \in Begins : k # r => OpenAt(k) = Owner(t, k) /\ Level(k) > 0
            /\ \A j \in PropsTo(t, off) : OpenAt(j) = Owner(t, j) /\ Level(j) > 0
            /\ \A k \in 1 .. off - 1 : LevelIn(t, k) \in Int
<1> DEFINE t == blob.tokens
           r == Lowest(NodesTo(t, off))
<1>1. /\ off = Len(t) /\ DOMAIN t = 1 .. off /\ off \in Nat \ {0}
      /\ Begins = NodesTo(t, off) /\ Begins \in SUBSET (1 .. off - 1)
  BY AllRead DEF ShapeOK, Read
<1>2. Begins # {} /\ Begins \in SUBSET Nat
  BY <1>1 DEF WellFormed
<1>3. RootAt = r /\ r \in Begins /\ \A k \in Begins : r <= k
  <2>1. RootAt \in Begins /\ \A k \in Begins : RootAt <= k
    BY <1>2, MinIs DEF RootAt
  <2>2. RootAt = r
    BY <1>1, <1>2 DEF RootAt, Lowest
  <2> QED
    BY <2>1, <2>2
<1>4. ASSUME NEW k \in 1 .. off - 1, k # RootAt, Kind(k) \in {"FDT_BEGIN_NODE", "FDT_PROP"}
      PROVE  Level(k) > 0 /\ OpenAt(k) = Owner(t, k)
  <2>1. Level(k) > 0
    <3>1. k \in DOMAIN t /\ k < off /\ Kind(k) # "FDT_NOP"
      BY <1>1, <1>4
    <3> QED
      BY <1>1, <1>4, <3>1 DEF WellFormed
  <2>2. k \in 1 .. off /\ Level(k) # 0
    BY <1>1, <2>1
  <2> QED
    BY <2>1, <2>2, OpenSame
<1>5. \A k \in 1 .. off - 1 : LevelIn(t, k) \in Int
  BY <1>1, LevelStep
<1>6. ASSUME NEW k \in Begins, k # r
      PROVE  OpenAt(k) = Owner(t, k) /\ Level(k) > 0
  <2>1. k \in 1 .. off - 1 /\ Kind(k) = "FDT_BEGIN_NODE"
    BY <1>1 DEF Begins
  <2> QED
    BY <1>3, <1>4, <1>6, <2>1
<1>7. ASSUME NEW j \in PropsTo(t, off)
      PROVE  OpenAt(j) = Owner(t, j) /\ Level(j) > 0
  <2>1. j \in 1 .. off - 1 /\ Kind(j) = "FDT_PROP"
    BY DEF PropsTo, Kind
  <2>2. j # RootAt
    BY <1>3, <2>1 DEF Begins
  <2> QED
    BY <1>4, <2>1, <2>2
<1> QED
  BY <1>2, <1>3, <1>5, <1>6, <1>7

-----------------------------------------------------------------------------
(* The subnodes and the properties of a node, and their order. *)
LEMMA FamilySame ==
  ASSUME DeviceTreeAssumption, ShapeOK, Token.kind = "FDT_END", WellFormed,
         Nested(blob.tokens, off)
  PROVE  LET t == blob.tokens
         IN /\ \A k \in Begins : ChildrenOf(k) = Kids(t, k, off) /\ OwnProps(k) = Own(t, k, off)
            /\ Orderly(t, off)
            /\ Owner(t, RootAt) = 0
            /\ \A k \in Begins \ {RootAt} : Owner(t, k) \in Begins /\ Owner(t, k) < k
<1> DEFINE t == blob.tokens
           r == Lowest(NodesTo(t, off))
<1>1. /\ off = Len(t) /\ DOMAIN t = 1 .. off /\ off \in Nat \ {0}
      /\ Begins = NodesTo(t, off) /\ Begins \in SUBSET (1 .. off - 1)
  BY AllRead DEF ShapeOK, Read
<1>2. /\ Begins # {} /\ RootAt = r /\ r \in Begins /\ (\A k \in Begins : r <= k)
      /\ \A k \in Begins : k # r => OpenAt(k) = Owner(t, k) /\ Level(k) > 0
      /\ \A j \in PropsTo(t, off) : OpenAt(j) = Owner(t, j) /\ Level(j) > 0
  BY WellFormedMeans
<1>3. Owner(t, r) = 0
  BY <1>1, <1>2, RootOutside
<1>4. ASSUME NEW k \in 1 .. off - 1, Level(k) > 0
      PROVE  Owner(t, k) # 0 /\ Owner(t, k) \in NodesTo(t, off) /\ Owner(t, k) < k
  <2>1. k \in 1 .. off /\ LevelIn(t, k) # 0
    BY <1>1, <1>4, LevelSame
  <2>2. Owner(t, k) \in 0 .. k - 1 /\ Owner(t, k) # 0
    BY <2>1, OwnerBefore
  <2>3. Owner(t, k) \in NodesTo(t, off)
    BY <2>1, <2>2, OwnerBefore
  <2> QED
    BY <2>2, <2>3
<1>5. ASSUME NEW k \in Begins
      PROVE  ChildrenOf(k) = Kids(t, k, off)
  <2>1. k # 0
    BY <1>1
  <2>2. \A j \in Begins : j # r /\ OpenAt(j) = k <=> Owner(t, j) = k
    BY <1>2, <1>3, <2>1
  <2> QED
    BY <1>1, <1>2, <2>2 DEF ChildrenOf, Kids
<1>6. ASSUME NEW j
      PROVE  j \in DOMAIN t /\ Kind(j) = "FDT_PROP" <=> j \in PropsTo(t, off)
  <2>1. Kind(off) = "FDT_END"
    BY DEF Kind, Token
  <2>2. j \in 1 .. off /\ j # off <=> j \in 1 .. off - 1
    BY <1>1
  <2> QED
    BY <1>1, <2>1, <2>2 DEF PropsTo, Kind
<1>7. ASSUME NEW k \in Begins
      PROVE  OwnProps(k) = Own(t, k, off)
  BY <1>2, <1>6 DEF OwnProps, Own
<1>8. Orderly(t, off)
  <2>1. ASSUME NEW i \in NodesTo(t, off), NEW k \in NodesTo(t, off), i < k
        PROVE  Owner(t, k) # 0
    <3>1. k # r /\ k \in 1 .. off - 1
      BY <1>1, <1>2, <2>1
    <3> QED
      BY <1>1, <1>2, <1>4, <3>1
  <2>2. ASSUME NEW j \in PropsTo(t, off), NEW c \in NodesTo(t, off),
               Owner(t, c) = Owner(t, j), Owner(t, j) # 0
        PROVE  j < c
    <3>1. j \in 1 .. off - 1 /\ Owner(t, j) \in Begins
      BY <1>1, <1>2, <1>4 DEF PropsTo
    <3>2. j \in OwnProps(Owner(t, j))
      BY <1>7, <3>1 DEF Own
    <3>3. c \in ChildrenOf(Owner(t, j))
      BY <1>5, <2>2, <3>1 DEF Kids
    <3> QED
      BY <3>1, <3>2, <3>3 DEF WellFormed
  <2> QED
    BY <2>1, <2>2 DEF Orderly
<1>9. ASSUME NEW k \in Begins \ {RootAt}
      PROVE  Owner(t, k) \in Begins /\ Owner(t, k) < k
  BY <1>1, <1>2, <1>4
<1> QED
  BY <1>2, <1>3, <1>5, <1>7, <1>8, <1>9

-----------------------------------------------------------------------------
(* Placed, a recursive function, has one value: the one that satisfies its *)
(* equation.                                                               *)
PlacedBody(At, k) ==
  IF k = RootAt THEN root
  ELSE LET elder == {j \in ChildrenOf(OpenAt(k)) : j < k}
       IN IF elder = {} THEN Follow(At[OpenAt(k)], "children")
          ELSE Follow(At[Max(elder)], "sibling")

(* Placed is a function of that kind when there is one. *)
LEMMA PlacedEquation ==
  ASSUME NEW W, W = [k \in Begins |-> PlacedBody(W, k)]
  PROVE  Placed = [k \in Begins |-> PlacedBody(Placed, k)]
<1> DEFINE P(At) == At = [k \in Begins |->
                           IF k = RootAt THEN root
                           ELSE LET elder == {j \in ChildrenOf(OpenAt(k)) : j < k}
                                IN IF elder = {} THEN Follow(At[OpenAt(k)], "children")
                                   ELSE Follow(At[Max(elder)], "sibling")]
<1>1. P(W)
  BY Zenon DEF PlacedBody
<1>2. Placed = CHOOSE At : P(At)
  BY Zenon DEF Placed
<1> HIDE DEF P
<1>3. P(CHOOSE At : P(At))
  BY <1>1, Zenon
<1>4. P(Placed)
  BY <1>2, <1>3
<1> QED
  BY <1>4, Zenon DEF P, PlacedBody

(* And there is one only, as every node comes after the one around it. *)
LEMMA PlacedUnique ==
  ASSUME Begins \in SUBSET Nat,
         NEW W, W = [k \in Begins |-> PlacedBody(W, k)],
         \A k \in Begins \ {RootAt} :
           OpenAt(k) \in Begins /\ OpenAt(k) < k /\ ChildrenOf(OpenAt(k)) \subseteq Begins
  PROVE  Placed = W
<1> DEFINE A == Placed
           Bad == {k \in Begins : A[k] # W[k]}
<1>1. A = [k \in Begins |-> PlacedBody(A, k)]
  BY PlacedEquation
<1> HIDE DEF A
<1>2. Bad = {}
  <2> SUFFICES ASSUME Bad # {}
               PROVE  FALSE
    OBVIOUS
  <2>1. PICK k \in Bad : \A j \in Bad : k <= j
    BY LeastNat
  <2>2. A[k] = PlacedBody(A, k) /\ W[k] = PlacedBody(W, k) /\ k \in Begins /\ A[k] # W[k]
    BY <1>1, <2>1
  <2>3. k # RootAt
    BY <2>2 DEF PlacedBody
  <2>4. \A j \in Begins : j < k => A[j] = W[j]
    BY <2>1
  <2> DEFINE elder == {j \in ChildrenOf(OpenAt(k)) : j < k}
  <2>5. A[OpenAt(k)] = W[OpenAt(k)]
    BY <2>2, <2>3, <2>4
  <2>6. ASSUME elder # {}
        PROVE  A[Max(elder)] = W[Max(elder)]
    <3>1. elder \subseteq Begins /\ elder \in SUBSET (0 .. k) /\ k \in Nat
      BY <2>2, <2>3
    <3>2. Max(elder) \in elder
      <4> HIDE DEF elder
      <4> QED
        BY <2>6, <3>1, MaxIs
    <3> QED
      BY <2>4, <3>1, <3>2
  <2>7. PlacedBody(A, k) = PlacedBody(W, k)
    BY <2>3, <2>5, <2>6 DEF PlacedBody
  <2> QED
    BY <2>2, <2>7
<1>3. \A k \in Begins : A[k] = W[k]
  BY <1>2
<1>4. A = [k \in Begins |-> A[k]] /\ W = [k \in Begins |-> W[k]]
  BY <1>1
<1> QED
  BY <1>3, <1>4 DEF A

-----------------------------------------------------------------------------
(* The place of a node in the tree: the root is the element that root      *)
(* refers to, which may be a copy of the one at f.                         *)
Where(f) == [k \in Begins |-> IF k = RootAt THEN root ELSE f[k]]

(* What lies there. *)
RightAt(f, q, k) ==
  LET t == blob.tokens
      e == Deref(nodes, Where(f)[k])
  IN /\ Where(f)[k] \in Pointers(nodes) \ {NULL}
     /\ e.name = k
     /\ e.children = Ptr(f, Lowest(Kids(t, k, off)))
     /\ e.sibling = Ptr(f, Lowest(Younger(t, k, off)))
     /\ e.properties = Ptr(q, Highest(Own(t, k, off)))

(* In the tree of the blob every node is right. *)
LEMMA RightNode ==
  ASSUME DeviceTreeAssumption, ShapeOK, ReadAll, WellFormed,
         NEW f, NEW q, TreeIs(f, q), NEW k \in Begins
  PROVE  RightAt(f, q, k)
<1> DEFINE t == blob.tokens
           r == Lowest(NodesTo(t, off))
<1>1. Built(t, off, nodes, props, f, q) /\ Rooted(t, off, nodes, f, q) /\ Nested(t, off)
  BY DEF TreeIs, Built
<1>2. /\ Token.kind = "FDT_END" /\ root = First(nodes)
  BY DEF ReadAll
<1>3. Begins = NodesTo(t, off) /\ RootAt = r /\ r \in Begins /\ Begins # {}
  BY <1>2, AllRead, WellFormedMeans
<1>4. Orderly(t, off) /\ Owner(t, r) = 0
  BY <1>1, <1>2, <1>3, FamilySame
<1>5. CASE k = r
  <2>1. Where(f)[k] = First(nodes)
    BY <1>2, <1>3, <1>5 DEF Where
  <2>2. /\ First(nodes) \in Pointers(nodes) \ {NULL}
        /\ RootIs(t, off, nodes, f, q, r, Deref(nodes, First(nodes)))
    BY <1>1, <1>3 DEF Rooted
  <2>3. Younger(t, k, off) = {}
    BY <1>4, <1>5 DEF Younger
  <2>4. Ptr(f, Lowest(Younger(t, k, off))) = NULL
    BY <2>3 DEF Lowest, Ptr
  <2> HIDE DEF r
  <2> QED
    BY <1>4, <1>5, <2>1, <2>2, <2>4 DEF RootIs, RightAt
<1>6. CASE k # r
  <2>1. Where(f)[k] = f[k]
    BY <1>3, <1>6 DEF Where
  <2>2. f[k] \in Pointers(nodes) \ {NULL} /\ NodeIs(t, off, f, q, k, Deref(nodes, f[k]))
    BY <1>1, <1>3 DEF Built, Places
  <2> QED
    BY <2>1, <2>2 DEF NodeIs, RightAt
<1> QED
  BY <1>5, <1>6

(* Following children and sibling from the root leads to that place. *)
LEMMA PlacedIs ==
  ASSUME DeviceTreeAssumption, ShapeOK, ReadAll, WellFormed,
         NEW f, NEW q, TreeIs(f, q)
  PROVE  Placed = Where(f)
<1> DEFINE t == blob.tokens
           W == Where(f)
<1>1. Built(t, off, nodes, props, f, q) /\ Nested(t, off)
  BY DEF TreeIs, Built
<1>2. Token.kind = "FDT_END" /\ off \in Nat
  BY DEF ReadAll, ShapeOK, Read
<1>3. /\ Begins = NodesTo(t, off) /\ Begins \in SUBSET (1 .. off - 1)
      /\ \A k \in Begins \ {RootAt} : OpenAt(k) = Owner(t, k)
      /\ RootAt \in Begins /\ \A k \in Begins : RootAt <= k
  BY <1>2, AllRead, WellFormedMeans
<1>4. /\ \A k \in Begins : ChildrenOf(k) = Kids(t, k, off)
      /\ Owner(t, RootAt) = 0
      /\ \A k \in Begins \ {RootAt} : Owner(t, k) \in Begins /\ Owner(t, k) < k
  BY <1>1, <1>2, FamilySame
<1>5. \A k \in Begins \ {RootAt} :
        OpenAt(k) \in Begins /\ OpenAt(k) < k /\ ChildrenOf(OpenAt(k)) \subseteq Begins
  BY <1>3, <1>4 DEF ChildrenOf
<1>6. ASSUME NEW k \in Begins, k # RootAt
      PROVE  W[k] = PlacedBody(W, k)
  <2> DEFINE o == Owner(t, k)
             elder == {j \in Kids(t, o, off) : j < k}
             kids == Kids(t, o, off)
             m == Max(elder)
  <2>1. /\ o \in Begins /\ o < k /\ OpenAt(k) = o /\ ChildrenOf(o) = Kids(t, o, off)
        /\ k \in Kids(t, o, off) /\ o # 0 /\ k \in Nat \ {0}
    BY <1>3, <1>4, <1>6 DEF Kids
  <2>2. W[k] = f[k]
    BY <1>6 DEF Where
  <2>3. PlacedBody(W, k) = IF elder = {} THEN Follow(W[o], "children") ELSE Follow(W[m], "sibling")
    BY <1>6, <2>1 DEF PlacedBody
  <2>4. kids \in SUBSET (Nat \ {0}) /\ kids \subseteq Begins
    BY <1>3 DEF Kids
  <2>5. CASE elder = {}
    <3>1. Lowest(kids) \in kids /\ \A j \in kids : Lowest(kids) <= j
      <4> HIDE DEF kids
      <4> QED
        BY <2>1, <2>4, LowestIs DEF kids
    <3>2. Lowest(kids) = k
      BY <2>1, <2>4, <2>5, <3>1
    <3>3. W[o] # NULL /\ Deref(nodes, W[o]).children = Ptr(f, Lowest(kids))
      BY <2>1, RightNode DEF RightAt
    <3> QED
      BY <2>1, <2>2, <2>3, <2>5, <3>2, <3>3 DEF Follow, Ptr
  <2>6. CASE elder # {}
    <3>1. m \in elder /\ \A j \in elder : j <= m
      <4>1. elder \in SUBSET (0 .. k) /\ k \in Nat
        BY <2>1, <2>4
      <4> HIDE DEF elder
      <4> QED
        BY <2>6, <4>1, MaxIs
    <3>2. m \in Begins /\ Owner(t, m) = o /\ m < k /\ m \in Nat
      BY <2>4, <3>1 DEF Kids
    <3> DEFINE Y == Younger(t, m, off)
    <3>3. /\ k \in Y /\ \A j \in Y : k <= j
      <4>1. k \in Y
        BY <1>3, <2>1, <3>2 DEF Younger
      <4>2. ASSUME NEW j \in Y
            PROVE  k <= j
        <5>1. j \in kids /\ j > m /\ j \in Nat
          BY <2>4, <3>2 DEF Younger, Kids
        <5>2. ~(j < k)
          <6>1. j < k => j \in elder
            BY <5>1
          <6>2. j \in elder => j <= m
            BY <3>1
          <6> HIDE DEF elder, m
          <6> QED
            BY <3>2, <5>1, <6>1, <6>2
        <5> QED
          BY <2>1, <5>1, <5>2
      <4> QED
        BY <4>1, <4>2
    <3>4. Y \in SUBSET (Nat \ {0})
      BY <1>3 DEF Younger
    <3> HIDE DEF Y
    <3>5. Lowest(Y) \in Y /\ \A j \in Y : Lowest(Y) <= j
      BY <3>3, <3>4, LowestIs
    <3>6. Lowest(Y) = k
      <4> DEFINE l == Lowest(Y)
      <4>1. l \in Nat /\ l <= k /\ k <= l
        BY <3>3, <3>4, <3>5
      <4> HIDE DEF l
      <4>2. l = k
        BY <2>1, <4>1
      <4> QED
        BY <4>2 DEF l
    <3>7. W[m] # NULL /\ Deref(nodes, W[m]).sibling = Ptr(f, Lowest(Y))
      <4> HIDE DEF m
      <4> QED
        BY <3>2, RightNode DEF RightAt, Y
    <3> QED
      BY <2>1, <2>2, <2>3, <2>6, <3>6, <3>7 DEF Follow, Ptr
  <2> QED
    BY <2>5, <2>6
<1>7. W[RootAt] = root /\ PlacedBody(W, RootAt) = root
  BY <1>3 DEF Where, PlacedBody
<1>8. W = [k \in Begins |-> PlacedBody(W, k)]
  <2>1. \A k \in Begins : W[k] = PlacedBody(W, k)
    BY <1>6, <1>7
  <2>2. W = [k \in Begins |-> W[k]]
    BY DEF Where
  <2> HIDE DEF W
  <2> QED
    BY <2>1, <2>2
<1>9. Begins \in SUBSET Nat
  BY <1>3
<1> HIDE DEF W
<1> QED
  BY <1>5, <1>8, <1>9, PlacedUnique DEF W

-----------------------------------------------------------------------------
(* The function within ListsBackwards, and what is asked of it. *)
ListBody(At, p, own, j) ==
  IF j = Max(own) THEN p
  ELSE LET x == At[Min({i \in own : i > j})]
       IN IF x = NULL THEN NULL ELSE Deref(props, x).next

ListGood(At, p, own) ==
  IF own = {} THEN p = NULL
  ELSE /\ \A j \in own : At[j] # NULL /\ Deref(props, At[j]).at = j
       /\ Deref(props, At[Min(own)]).next = NULL

(* The places that ListsBackwards follows, when there are such. *)
LEMMA ListEquation ==
  ASSUME NEW p, NEW own, NEW W, W = [j \in own |-> ListBody(W, p, own, j)]
  PROVE  \E A : /\ A = [j \in own |-> ListBody(A, p, own, j)]
                /\ ListGood(A, p, own) => ListsBackwards(p, own)
<1> DEFINE P(At) == At = [j \in own |->
                           IF j = Max(own) THEN p
                           ELSE LET q == At[Min({i \in own : i > j})]
                                IN IF q = NULL THEN NULL ELSE Deref(props, q).next]
           A == CHOOSE At : P(At)
<1>1. P(W)
  BY Zenon DEF ListBody
<1>2. P(A)
  <2> HIDE DEF P
  <2> QED
    BY <1>1, Zenon
<1>3. A = [j \in own |-> ListBody(A, p, own, j)]
  <2> HIDE DEF A
  <2> QED
    BY <1>2, Zenon DEF ListBody
<1>4. ListGood(A, p, own) => ListsBackwards(p, own)
  BY Zenon DEF ListGood, ListsBackwards
<1> HIDE DEF A
<1> QED
  BY <1>3, <1>4

(* The list of a node has its properties, the last of them first. *)
LEMMA ListIs ==
  ASSUME NEW f, NEW q, TreeIs(f, q), NEW k \in Nat \ {0}
  PROVE  ListsBackwards(Ptr(q, Highest(Own(blob.tokens, k, off))), Own(blob.tokens, k, off))
<1> DEFINE t == blob.tokens
           own == Own(t, k, off)
           p == Ptr(q, Highest(own))
           W == [j \in own |-> q[j]]
<1>1. Built(t, off, nodes, props, f, q) /\ off \in Nat \ {0}
  BY DEF TreeIs, Built, Nested
<1>2. own \in SUBSET (1 .. off - 1) /\ own \subseteq PropsTo(t, off)
  BY DEF Own, PropsTo
<1>3. \A j \in own : j \in Nat /\ j # 0 /\ j < off
  BY <1>1, <1>2
<1>4. ASSUME NEW j \in own
      PROVE  /\ q[j] \in Pointers(props) \ {NULL} /\ Deref(props, q[j]).at = j
             /\ Deref(props, q[j]).next = Ptr(q, Highest({i \in own : i < j}))
  <2>1. j \in PropsTo(t, off) /\ Owner(t, j) = k /\ j \in 1 .. off - 1
    BY <1>2 DEF Own
  <2>2. Own(t, k, j) = {i \in own : i < j}
    BY <1>1, <2>1 DEF Own, PropsTo
  <2>3. PropIs(t, q, j, Deref(props, q[j])) /\ q[j] \in Pointers(props) \ {NULL}
    BY <1>1, <2>1 DEF Built, Places
  <2> QED
    BY <2>1, <2>2, <2>3 DEF PropIs
<1>5. ASSUME own # {}
      PROVE  /\ Max(own) \in own /\ (\A j \in own : j <= Max(own)) /\ p = q[Max(own)]
             /\ Min(own) \in own /\ (\A j \in own : Min(own) <= j)
  <2>1. own \in SUBSET (0 .. off) /\ own \in SUBSET Nat
    BY <1>1, <1>2
  <2> HIDE DEF own
  <2>2. /\ Max(own) \in own /\ (\A j \in own : j <= Max(own))
        /\ Min(own) \in own /\ (\A j \in own : Min(own) <= j)
    BY <1>1, <1>5, <2>1, MaxIs, MinIs
  <2>3. Max(own) # 0
    BY <1>2, <2>2
  <2> QED
    BY <1>5, <2>2, <2>3 DEF Highest, Ptr
<1> HIDE DEF own, p
<1>6. ASSUME NEW j \in own, j # Max(own)
      PROVE  LET up == {i \in own : i > j}
                 i == Min(up)
             IN /\ i \in own /\ i > j /\ Highest({x \in own : x < i}) = j
  <2> DEFINE up == {i \in own : i > j}
             i == Min(up)
             dn == {x \in own : x < i}
  <2>1. Max(own) \in up /\ up \in SUBSET Nat
    BY <1>5, <1>6, <1>3
  <2>2. i \in up /\ \A x \in up : i <= x
    <3> HIDE DEF up
    <3> QED
      BY <2>1, MinIs
  <2> HIDE DEF i
  <2>3. j \in dn /\ \A x \in dn : x <= j
    BY <1>3, <2>2
  <2>4. dn \in SUBSET (1 .. off - 1) /\ off - 1 \in Nat
    BY <1>1, <1>3
  <2> HIDE DEF dn
  <2>5. Highest(dn) \in dn /\ \A x \in dn : x <= Highest(dn)
    BY <2>3, <2>4, HighestIs
  <2>6. Highest(dn) = j
    <3> DEFINE h == Highest(dn)
    <3>1. h \in Nat /\ j \in Nat /\ h <= j /\ j <= h
      BY <1>3, <2>3, <2>4, <2>5 DEF dn
    <3> HIDE DEF h
    <3>2. h = j
      BY <3>1
    <3> QED
      BY <3>2 DEF h
  <2> QED
    BY <2>2, <2>6 DEF dn, i
<1>7. ASSUME NEW j \in own, NEW A, j # Max(own), A[Min({i \in own : i > j})] = q[Min({i \in own : i > j})]
      PROVE  ListBody(A, p, own, j) = q[j]
  <2> DEFINE i == Min({x \in own : x > j})
  <2>1. i \in own /\ Highest({x \in own : x < i}) = j
    BY <1>6, <1>7
  <2>2. A[i] = q[i]
    BY <1>7
  <2> HIDE DEF i
  <2>3. Deref(props, q[i]).next = q[j] /\ q[i] # NULL
    BY <1>2, <1>4, <2>1 DEF Ptr
  <2> QED
    BY <1>7, <2>2, <2>3 DEF ListBody, i
<1>8. ASSUME NEW j \in own, NEW A, j = Max(own)
      PROVE  ListBody(A, p, own, j) = q[j]
  BY <1>5, <1>8 DEF ListBody
<1>9. W = [j \in own |-> ListBody(W, p, own, j)]
  <2>1. ASSUME NEW j \in own
        PROVE  ListBody(W, p, own, j) = q[j]
    <3>1. CASE j # Max(own)
      <4> DEFINE i == Min({x \in own : x > j})
      <4>1. i \in own
        BY <1>6, <3>1
      <4>2. W[i] = q[i]
        BY <4>1
      <4> HIDE DEF W
      <4> QED
        BY <1>7, <3>1, <4>2
    <3> HIDE DEF W
    <3> QED
      BY <1>8, <3>1
  <2> QED
    BY <2>1
<1> HIDE DEF W
<1>10. PICK A : /\ A = [j \in own |-> ListBody(A, p, own, j)]
                /\ ListGood(A, p, own) => ListsBackwards(p, own)
  BY <1>9, ListEquation
<1> DEFINE Bad == {j \in own : A[j] # q[j]}
<1>11. Bad = {}
  <2> SUFFICES ASSUME Bad # {}
               PROVE  FALSE
    OBVIOUS
  <2>1. Bad \in SUBSET (0 .. off) /\ Bad \subseteq own
    BY <1>1, <1>3
  <2>2. PICK j \in Bad : \A i \in Bad : i <= j
    <3> HIDE DEF Bad
    <3> QED
      BY <1>1, <2>1, GreatestNat
  <2>3. j \in own /\ A[j] # q[j] /\ A[j] = ListBody(A, p, own, j)
    BY <1>10, <2>2
  <2>4. j # Max(own)
    BY <1>8, <2>3
  <2> DEFINE i == Min({x \in own : x > j})
  <2>5. i \in own /\ i > j
    BY <1>6, <2>3, <2>4
  <2>6. i \in Nat /\ j \in Nat
    BY <1>3, <2>3, <2>5
  <2> HIDE DEF i
  <2>7. A[i] = q[i]
    BY <2>2, <2>5, <2>6
  <2> QED
    BY <1>7, <2>3, <2>4, <2>7 DEF i
<1>12. ListGood(A, p, own)
  <2>1. CASE own = {}
    BY <2>1 DEF ListGood, p, Ptr, Highest
  <2>2. CASE own # {}
    <3>1. \A j \in own : A[j] = q[j]
      BY <1>11
    <3>2. \A j \in own : A[j] # NULL /\ Deref(props, A[j]).at = j
      BY <1>4, <3>1
    <3> DEFINE m == Min(own)
    <3>3. m \in own /\ \A j \in own : m <= j
      BY <1>5, <2>2
    <3> HIDE DEF m
    <3>4. {i \in own : i < m} = {}
      BY <1>3, <3>3
    <3>5. Deref(props, A[m]).next = NULL
      BY <1>4, <3>1, <3>3, <3>4 DEF Highest, Ptr
    <3> QED
      BY <2>2, <3>2, <3>5 DEF ListGood, m
  <2> QED
    BY <2>1, <2>2
<1> QED
  BY <1>10, <1>12 DEF p, own

(* From the invariant to the property. *)
LEMMA ShapeIsRight ==
  ASSUME DeviceTreeAssumption, ShapeOK
  PROVE  TreeRight
<1> SUFFICES ASSUME pc = "done", WellFormed
             PROVE  TreeRight
  BY DEF TreeRight
<1> DEFINE t == blob.tokens
<1>1. PICK f, q : TreeIs(f, q)
  BY DEF ShapeOK
<1>2. ReadAll /\ Token.kind = "FDT_END" /\ off \in Nat
  BY DEF ShapeOK, ReadAll, Read
<1>3. Nested(t, off)
  BY <1>1 DEF TreeIs, Built
<1>4. Placed = Where(f)
  BY <1>1, <1>2, PlacedIs
<1>5. /\ Begins = NodesTo(t, off) /\ Begins \in SUBSET (1 .. off - 1)
      /\ \A k \in Begins \ {RootAt} : OpenAt(k) = Owner(t, k)
  BY <1>2, AllRead, WellFormedMeans
<1>6. /\ \A k \in Begins : ChildrenOf(k) = Kids(t, k, off) /\ OwnProps(k) = Own(t, k, off)
      /\ Owner(t, RootAt) = 0
      /\ \A k \in Begins \ {RootAt} : Owner(t, k) \in Begins /\ Owner(t, k) < k
  BY <1>2, <1>3, FamilySame
<1>7. ASSUME NEW k \in Begins
      PROVE  LET p == Placed[k]
             IN /\ p # NULL
                /\ Deref(nodes, p).name = k
                /\ ChildrenOf(k) = {} => Deref(nodes, p).children = NULL
                /\ k = RootAt \/ k = Max(ChildrenOf(OpenAt(k))) => Deref(nodes, p).sibling = NULL
                /\ ListsBackwards(Deref(nodes, p).properties, OwnProps(k))
  <2> DEFINE p == Where(f)[k]
             e == Deref(nodes, p)
  <2>1. /\ p \in Pointers(nodes) \ {NULL} /\ e.name = k
        /\ e.children = Ptr(f, Lowest(Kids(t, k, off)))
        /\ e.sibling = Ptr(f, Lowest(Younger(t, k, off)))
        /\ e.properties = Ptr(q, Highest(Own(t, k, off)))
    <3>1. RightAt(f, q, k)
      BY <1>1, <1>2, RightNode
    <3> QED
      BY <3>1, Zenon DEF RightAt
  <2> HIDE DEF e, p
  <2>2. ChildrenOf(k) = {} => e.children = NULL
    BY <1>6, <2>1 DEF Lowest, Ptr
  <2>3. ASSUME k = RootAt \/ k = Max(ChildrenOf(OpenAt(k)))
        PROVE  e.sibling = NULL
    <3>1. Younger(t, k, off) = {}
      <4>1. CASE k = RootAt
        BY <1>6, <4>1 DEF Younger
      <4>2. CASE k # RootAt
        <5> DEFINE S == ChildrenOf(OpenAt(k))
        <5>1. S = Kids(t, Owner(t, k), off) /\ k \in S /\ S \in SUBSET (0 .. off)
          BY <1>2, <1>5, <1>6, <4>2 DEF Kids
        <5>2. \A c \in S : c <= k
          <6> HIDE DEF S
          <6>1. \A c \in S : c <= Max(S)
            BY <1>2, <5>1, MaxIs
          <6> QED
            BY <2>3, <4>2, <6>1 DEF S
        <5> HIDE DEF S
        <5> QED
          BY <1>2, <1>5, <5>1, <5>2 DEF Younger, Kids
      <4> QED
        BY <4>1, <4>2
    <3> QED
      BY <2>1, <3>1 DEF Lowest, Ptr
  <2>4. k \in Nat \ {0}
    BY <1>2, <1>5
  <2>5. ListsBackwards(e.properties, OwnProps(k))
    BY <1>1, <1>6, <2>1, <2>4, ListIs
  <2> QED
    BY <1>4, <2>1, <2>2, <2>3, <2>5 DEF e, p
<1> QED
  BY <1>7 DEF TreeRight

(* Before the blob is read. *)
LEMMA ShapeInit == Init => ShapeOK
BY DEF Init, ShapeOK, Read

(* When dt_initialize succeeds on a blob that follows the format,          *)
(* state.root is the tree of the blob, every node at its place among its   *)
(* siblings and with all its properties, however often the arrays were     *)
(* moved while it was built.                                               *)
THEOREM TreeIsTheBlobs == Spec => []TreeRight
<1>1. Init => PointersOK /\ ShapeOK
  BY PointersInit, ShapeInit
<1>2. PointersOK /\ ShapeOK /\ [Next]_vars => (PointersOK /\ ShapeOK)'
  BY DeviceTreeAssumption, PointersKept, ShapeKept
<1>3. PointersOK /\ ShapeOK => TreeRight
  BY DeviceTreeAssumption, ShapeIsRight
<1> QED
  BY <1>1, <1>2, <1>3, PTL DEF Spec

-----------------------------------------------------------------------------
(* The calls of dtb_recursive_property_rewrite are at the nodes ks[1] to   *)
(* ks[d], each within the one before, and nothing that was left behind     *)
(* lies in between.                                                        *)
Path(t, n, ks, d) ==
  /\ d \in Nat \ {0}
  /\ \A i \in 1 .. d : ks[i] \in NodesTo(t, n)
  /\ \A i \in 1 .. d - 1 : Owner(t, ks[i + 1]) = ks[i]
  /\ \A i \in 1 .. d : /\ ks[i] <= ks[d]
                       /\ \A x \in ks[i] + 1 .. ks[d] : LevelIn(t, x) > LevelIn(t, ks[i])

(* The nodes that the calls have still to enter, from the call at ks[i],   *)
(* when the last call is at its subnode c (0: at none).                    *)
AheadAt(t, n, ks, d, c, i) ==
  {x \in Kids(t, ks[i], n) : IF i < d THEN x > ks[i + 1] ELSE c # 0 /\ x >= c}

Ahead(t, n, ks, d, c) == UNION {AheadAt(t, n, ks, d, c, i) : i \in 1 .. d}

(* A subnode begins after its node, one level above it. *)
LEMMA KidIs ==
  ASSUME NEW t, NEW n, Nested(t, n), NEW k \in NodesTo(t, n), NEW x \in Kids(t, k, n)
  PROVE  /\ x \in NodesTo(t, n) /\ k < x /\ LevelIn(t, x) = LevelIn(t, k) + 1
         /\ \A y \in k + 1 .. x : LevelIn(t, y) > LevelIn(t, k)
<1>1. n \in Nat \ {0} /\ x \in NodesTo(t, n) /\ Owner(t, x) = k /\ k \in 1 .. n - 1 /\ x \in 1 .. n
  BY DEF Nested, Kids, NodesTo
<1>2. WithinNode(t, k, x)
  BY <1>1, OwnerBefore
<1>3. LevelIn(t, k) \in Int /\ LevelIn(t, x) \in Int
  BY <1>1, LevelStep
<1>4. ASSUME NEW y \in k + 1 .. x
      PROVE  LevelIn(t, y) > LevelIn(t, k)
  <2>1. y \in Nat \ {0} /\ LevelIn(t, y) >= LevelIn(t, x)
    BY <1>1, <1>2 DEF WithinNode
  <2>2. LevelIn(t, y) \in Int
    BY <2>1, LevelStep
  <2> QED
    BY <1>2, <1>3, <2>1, <2>2 DEF WithinNode
<1> QED
  BY <1>1, <1>2, <1>3, <1>4 DEF WithinNode

(* What is ahead begins after all that has been entered. *)
LEMMA AheadIsLater ==
  ASSUME NEW t, NEW n, Nested(t, n), NEW ks, NEW d, Path(t, n, ks, d), NEW c,
         NEW x \in Ahead(t, n, ks, d, c)
  PROVE  x > ks[d] /\ x \in NodesTo(t, n)
<1>1. PICK i \in 1 .. d : x \in AheadAt(t, n, ks, d, c, i)
  BY DEF Ahead
<1>2. /\ d \in Nat \ {0} /\ i \in Nat /\ ks[i] \in NodesTo(t, n) /\ x \in Kids(t, ks[i], n)
      /\ ks[d] \in NodesTo(t, n)
  BY <1>1 DEF AheadAt, Path
<1>3. x \in NodesTo(t, n) /\ x > ks[i] /\ LevelIn(t, x) = LevelIn(t, ks[i]) + 1
  BY <1>2, KidIs
<1>4. n \in Nat /\ \A k \in NodesTo(t, n) : k \in Nat \ {0}
  BY DEF Nested, NodesTo
<1>5. CASE i = d
  BY <1>3, <1>4, <1>5
<1>6. CASE i # d
  <2> DEFINE k == ks[i + 1]
  <2>1. i < d /\ i + 1 \in 1 .. d /\ i \in 1 .. d - 1
    BY <1>1, <1>2, <1>6
  <2>2. x > k /\ k \in NodesTo(t, n) /\ Owner(t, k) = ks[i]
    BY <1>1, <2>1 DEF AheadAt, Path
  <2>3. k \in Kids(t, ks[i], n)
    BY <2>2 DEF Kids
  <2>4. LevelIn(t, k) = LevelIn(t, ks[i]) + 1
    BY <1>2, <2>3, KidIs
  <2>5. \A y \in k + 1 .. ks[d] : LevelIn(t, y) > LevelIn(t, k)
    BY <2>1 DEF Path
  <2> HIDE DEF k
  <2>6. x \notin k + 1 .. ks[d]
    <3>1. LevelIn(t, ks[i]) \in Int
      BY <1>2, <1>4, LevelStep
    <3> QED
      BY <1>3, <2>4, <2>5, <3>1
  <2>7. x \in Nat /\ k \in Nat /\ ks[d] \in Nat
    BY <1>2, <1>3, <1>4, <2>2
  <2> QED
    BY <1>3, <2>2, <2>6, <2>7
<1> QED
  BY <1>5, <1>6

(* The recursive call for subnode c. *)
Longer(ks, d, c) == [i \in 1 .. d + 1 |-> IF i = d + 1 THEN c ELSE ks[i]]

(* It makes the path one node longer. *)
LEMMA EnterPath ==
  ASSUME NEW t, NEW n, Nested(t, n), NEW ks, NEW d, Path(t, n, ks, d), NEW c \in Kids(t, ks[d], n)
  PROVE  Path(t, n, Longer(ks, d, c), d + 1)
<1> DEFINE ls == Longer(ks, d, c)
<1>1. d \in Nat \ {0} /\ ks[d] \in NodesTo(t, n) /\ d \in 1 .. d
  BY DEF Path
<1>2. /\ c \in NodesTo(t, n) /\ ks[d] < c /\ Owner(t, c) = ks[d]
      /\ LevelIn(t, c) = LevelIn(t, ks[d]) + 1
      /\ \A y \in ks[d] + 1 .. c : LevelIn(t, y) > LevelIn(t, ks[d])
  BY <1>1, KidIs DEF Kids
<1>3. ls[d + 1] = c /\ \A i \in 1 .. d : ls[i] = ks[i]
  BY <1>1 DEF Longer
<1> HIDE DEF ls
<1>4. \A k \in NodesTo(t, n) : k \in Nat \ {0} /\ LevelIn(t, k) \in Int
  BY LevelStep DEF NodesTo
<1>5. ASSUME NEW i \in 1 .. d + 1
      PROVE  /\ ls[i] \in NodesTo(t, n) /\ ls[i] <= ls[d + 1]
             /\ \A x \in ls[i] + 1 .. ls[d + 1] : LevelIn(t, x) > LevelIn(t, ls[i])
  <2>1. CASE i = d + 1
    BY <1>2, <1>3, <1>4, <2>1
  <2>2. CASE i # d + 1
    <3>1. i \in 1 .. d
      BY <1>1, <2>2
    <3>2. /\ ls[i] = ks[i] /\ ks[i] \in NodesTo(t, n) /\ ks[i] <= ks[d]
          /\ \A x \in ks[i] + 1 .. ks[d] : LevelIn(t, x) > LevelIn(t, ks[i])
      BY <1>3, <3>1 DEF Path
    <3>3. ks[i] \in Nat \ {0} /\ ks[d] \in Nat \ {0} /\ c \in Nat \ {0}
      BY <1>1, <1>2, <1>4, <3>2
    <3>4. LevelIn(t, ks[d]) >= LevelIn(t, ks[i])
      <4>1. CASE ks[i] = ks[d]
        BY <1>1, <1>4, <4>1
      <4>2. CASE ks[i] # ks[d]
        <5>1. ks[d] \in ks[i] + 1 .. ks[d]
          BY <3>2, <3>3, <4>2
        <5>2. LevelIn(t, ks[d]) > LevelIn(t, ks[i])
          BY <3>2, <5>1
        <5> QED
          BY <1>1, <1>4, <3>2, <5>2
      <4> QED
        BY <4>1, <4>2
    <3>5. ASSUME NEW x \in ks[i] + 1 .. c
          PROVE  LevelIn(t, x) > LevelIn(t, ks[i])
      <4>1. x \in Nat \ {0} /\ LevelIn(t, x) \in Int
        BY <3>3, LevelStep
      <4>2. CASE x <= ks[d]
        BY <3>2, <3>3, <4>1, <4>2
      <4>3. CASE ~(x <= ks[d])
        <5>1. x \in ks[d] + 1 .. c
          BY <3>3, <4>1, <4>3
        <5>2. LevelIn(t, x) > LevelIn(t, ks[d])
          BY <1>2, <5>1
        <5>3. LevelIn(t, ks[d]) \in Int /\ LevelIn(t, ks[i]) \in Int
          BY <1>1, <1>4, <3>2
        <5> QED
          BY <3>4, <4>1, <5>2, <5>3
      <4> QED
        BY <4>2, <4>3
    <3> QED
      BY <1>2, <1>3, <3>2, <3>3, <3>5
  <2> QED
    BY <2>1, <2>2
<1>6. ASSUME NEW i \in 1 .. (d + 1) - 1
      PROVE  Owner(t, ls[i + 1]) = ls[i]
  <2>1. i \in 1 .. d
    BY <1>1
  <2>2. CASE i = d
    BY <1>1, <1>2, <1>3, <2>2
  <2>3. CASE i # d
    <3>1. i \in 1 .. d - 1 /\ i + 1 \in 1 .. d
      BY <1>1, <2>1, <2>3
    <3> QED
      BY <1>3, <2>1, <3>1 DEF Path
  <2> QED
    BY <2>2, <2>3
<1> QED
  BY <1>1, <1>5, <1>6 DEF Path, ls

(* After the call the subnodes of c are ahead, and c no longer is. *)
LEMMA EnterAhead ==
  ASSUME NEW t, NEW n, Nested(t, n), NEW ks, NEW d, Path(t, n, ks, d), NEW c \in Kids(t, ks[d], n)
  PROVE  /\ Ahead(t, n, Longer(ks, d, c), d + 1, Lowest(Kids(t, c, n)))
              = (Ahead(t, n, ks, d, c) \ {c}) \cup Kids(t, c, n)
         /\ c \in Ahead(t, n, ks, d, c)
         /\ \A x \in Ahead(t, n, ks, d, c) : c <= x
<1> DEFINE ls == Longer(ks, d, c)
           l == Lowest(Kids(t, c, n))
           A == Ahead(t, n, ks, d, c)
<1>1. d \in Nat \ {0} /\ ks[d] \in NodesTo(t, n) /\ d \in 1 .. d
  BY DEF Path
<1>2. ls[d + 1] = c /\ \A i \in 1 .. d : ls[i] = ks[i]
  BY <1>1 DEF Longer
<1>3. c \in NodesTo(t, n) /\ ks[d] < c
  BY <1>1, KidIs
<1>4. /\ \A k \in NodesTo(t, n) : k \in Nat \ {0}
      /\ \A k : Kids(t, k, n) \subseteq NodesTo(t, n)
  BY DEF NodesTo, Kids
<1>5. AheadAt(t, n, ls, d + 1, l, d + 1) = Kids(t, c, n)
  <2> DEFINE K == Kids(t, c, n)
  <2>1. K \in SUBSET (Nat \ {0})
    BY <1>4
  <2>2. K # {} => l \in K /\ \A x \in K : l <= x
    <3> HIDE DEF K
    <3> QED
      BY <2>1, LowestIs DEF K
  <2>3. \A x \in K : l # 0 /\ x >= l
    BY <2>1, <2>2
  <2>4. ~(d + 1 < d + 1)
    BY <1>1
  <2> HIDE DEF l, ls
  <2> QED
    BY <1>2, <2>3, <2>4 DEF AheadAt
<1>6. AheadAt(t, n, ls, d + 1, l, d) = AheadAt(t, n, ks, d, c, d) \ {c}
  <2>1. d < d + 1 /\ ~(d < d) /\ ls[d] = ks[d]
    BY <1>1, <1>2
  <2>2. \A x \in Kids(t, ks[d], n) : x > c <=> c # 0 /\ x >= c /\ x # c
    BY <1>3, <1>4
  <2> HIDE DEF l, ls
  <2> QED
    BY <1>2, <2>1, <2>2 DEF AheadAt
<1>7. ASSUME NEW i \in 1 .. d - 1
      PROVE  AheadAt(t, n, ls, d + 1, l, i) = AheadAt(t, n, ks, d, c, i)
  <2>1. i < d /\ i < d + 1 /\ i \in 1 .. d /\ i + 1 \in 1 .. d
    BY <1>1
  <2>2. ls[i] = ks[i] /\ ls[i + 1] = ks[i + 1]
    BY <1>2, <2>1
  <2> HIDE DEF l, ls
  <2> QED
    BY <2>1, <2>2 DEF AheadAt
<1>8. c \in AheadAt(t, n, ks, d, c, d)
  <2>1. ~(d < d) /\ c # 0 /\ c >= c
    BY <1>1, <1>3, <1>4
  <2> QED
    BY <2>1 DEF AheadAt
<1>9. \A x \in A : c <= x
  <2> SUFFICES ASSUME NEW x \in A
               PROVE  c <= x
    OBVIOUS
  <2>1. PICK i \in 1 .. d : x \in AheadAt(t, n, ks, d, c, i)
    BY DEF Ahead
  <2>2. CASE i = d
    <3>1. ~(d < d)
      BY <1>1
    <3> QED
      BY <2>1, <2>2, <3>1, <1>3, <1>4 DEF AheadAt
  <2>3. CASE i # d
    <3>1. i \in 1 .. d - 1
      BY <1>1, <2>3
    <3>2. x \in AheadAt(t, n, ls, d + 1, l, i) /\ i \in 1 .. d + 1
      BY <1>1, <1>7, <2>1, <3>1
    <3>3. x \in Ahead(t, n, ls, d + 1, l)
      BY <3>2 DEF Ahead
    <3>4. Path(t, n, ls, d + 1)
      BY EnterPath
    <3>5. x > ls[d + 1] /\ x \in NodesTo(t, n)
      <4> HIDE DEF ls, l
      <4> QED
        BY <3>3, <3>4, AheadIsLater
    <3> QED
      BY <1>2, <1>3, <1>4, <3>5
  <2> QED
    BY <2>2, <2>3
<1>10. ASSUME NEW i \in 1 .. d - 1
       PROVE  c \notin AheadAt(t, n, ks, d, c, i)
  <2>1. i \in 1 .. d /\ ks[i] \in NodesTo(t, n) /\ ks[i + 1] \in NodesTo(t, n) /\ i + 1 \in 1 .. d
    BY <1>1 DEF Path
  <2>2. ks[i + 1] \in Kids(t, ks[i], n)
    BY <2>1 DEF Path, Kids
  <2>3. ks[i] < ks[i + 1] /\ ks[i + 1] <= ks[d]
    BY <2>1, <2>2, KidIs DEF Path
  <2>4. Owner(t, c) = ks[d]
    BY DEF Kids
  <2>5. ks[i] # ks[d]
    BY <1>1, <1>4, <2>1, <2>3
  <2> QED
    BY <2>4, <2>5 DEF AheadAt, Kids
<1>11. ASSUME NEW x
       PROVE  x \in Ahead(t, n, ls, d + 1, l) <=> (x \in A /\ x # c) \/ x \in Kids(t, c, n)
  <2>1. \A i : i \in 1 .. d + 1 <=> i \in 1 .. d - 1 \/ i = d \/ i = d + 1
    BY <1>1
  <2>2. \A i : i \in 1 .. d <=> i \in 1 .. d - 1 \/ i = d
    BY <1>1
  <2>3. x \in Ahead(t, n, ls, d + 1, l) <=>
          \/ \E i \in 1 .. d - 1 : x \in AheadAt(t, n, ls, d + 1, l, i)
          \/ x \in AheadAt(t, n, ls, d + 1, l, d)
          \/ x \in AheadAt(t, n, ls, d + 1, l, d + 1)
    <3> HIDE DEF ls, l
    <3> QED
      BY <2>1 DEF Ahead
  <2>4. x \in A <=> \/ \E i \in 1 .. d - 1 : x \in AheadAt(t, n, ks, d, c, i)
                    \/ x \in AheadAt(t, n, ks, d, c, d)
    BY <2>2 DEF Ahead
  <2> HIDE DEF ls, l, A
  <2> QED
    BY <1>5, <1>6, <1>7, <1>10, <2>3, <2>4
<1> HIDE DEF ls, l, A
<1>12. Ahead(t, n, ls, d + 1, l) = (A \ {c}) \cup Kids(t, c, n)
  BY <1>11
<1>13. c \in A
  BY <1>1, <1>8 DEF Ahead, A
<1> QED
  BY <1>9, <1>12, <1>13 DEF ls, l, A

(* The return to the call before: the same nodes are ahead, though they    *)
(* are now found through the sibling of the node that was left.            *)
LEMMA LeaveAhead ==
  ASSUME NEW t, NEW n, Nested(t, n), NEW ks, NEW d, Path(t, n, ks, d), d # 1
  PROVE  /\ Path(t, n, ks, d - 1)
         /\ Ahead(t, n, ks, d - 1, Lowest(Younger(t, ks[d], n))) = Ahead(t, n, ks, d, 0)
         /\ Lowest(Younger(t, ks[d], n)) \in Kids(t, ks[d - 1], n) \cup {0}
<1> DEFINE e == d - 1
           Y == Younger(t, ks[d], n)
           l == Lowest(Y)
<1>1. /\ d \in Nat \ {0, 1} /\ ks[d] \in NodesTo(t, n) /\ d \in 1 .. d
      /\ e \in Nat \ {0} /\ e \in 1 .. d /\ e \in 1 .. d - 1 /\ e + 1 = d /\ e < d
  BY DEF Path
<1>2. /\ \A k \in NodesTo(t, n) : k \in Nat \ {0}
      /\ \A k : Kids(t, k, n) \subseteq NodesTo(t, n)
  BY DEF NodesTo, Kids
<1>3. Owner(t, ks[d]) = ks[e] /\ ks[e] \in NodesTo(t, n) /\ ks[e] <= ks[d]
  BY <1>1 DEF Path
<1>4. Y = {x \in Kids(t, ks[e], n) : x > ks[d]}
  <2>1. ks[e] # 0
    BY <1>2, <1>3
  <2> QED
    BY <1>3, <2>1 DEF Younger, Kids
<1>5. Path(t, n, ks, e)
  <2>1. ASSUME NEW i \in 1 .. e
        PROVE  /\ ks[i] \in NodesTo(t, n) /\ ks[i] <= ks[e]
               /\ \A x \in ks[i] + 1 .. ks[e] : LevelIn(t, x) > LevelIn(t, ks[i])
    <3>1. i \in 1 .. d
      BY <1>1
    <3>2. /\ ks[i] \in NodesTo(t, n) /\ ks[i] <= ks[d]
          /\ \A x \in ks[i] + 1 .. ks[d] : LevelIn(t, x) > LevelIn(t, ks[i])
      BY <3>1 DEF Path
    <3>3. ks[i] \in Nat /\ ks[d] \in Nat /\ ks[e] \in Nat
      BY <1>1, <1>2, <1>3, <3>2
    <3>4. \A x \in ks[i] + 1 .. ks[e] : x \in ks[i] + 1 .. ks[d]
      BY <1>3, <3>3
    <3>5. ks[i] <= ks[e]
      <4> SUFFICES ASSUME ~(ks[i] <= ks[e])
                   PROVE  FALSE
        OBVIOUS
      <4>1. ks[i] \in ks[e] + 1 .. ks[d]
        BY <3>2, <3>3
      <4>2. LevelIn(t, ks[i]) > LevelIn(t, ks[e])
        BY <1>1, <4>1 DEF Path
      <4>3. ks[d] \in Kids(t, ks[e], n)
        BY <1>1, <1>3 DEF Kids
      <4>4. LevelIn(t, ks[d]) = LevelIn(t, ks[e]) + 1
        BY <1>3, <4>3, KidIs
      <4>5. LevelIn(t, ks[e]) \in Int /\ LevelIn(t, ks[i]) \in Int
        BY <1>2, <1>3, <3>2, LevelStep
      <4>6. ks[i] = ks[d]
        <5> SUFFICES ASSUME ks[i] # ks[d]
                     PROVE  FALSE
          OBVIOUS
        <5>1. ks[d] \in ks[i] + 1 .. ks[d]
          BY <3>2, <3>3
        <5> QED
          BY <3>2, <4>2, <4>4, <4>5, <5>1
      <4>7. i < d
        BY <1>1
      <4>8. i \in 1 .. d - 1 /\ i + 1 \in 1 .. d
        BY <1>1, <4>7
      <4>9. ks[i + 1] \in Kids(t, ks[i], n) /\ ks[i + 1] <= ks[d] /\ ks[i + 1] \in NodesTo(t, n)
        BY <4>8 DEF Path, Kids
      <4>10. ks[i] < ks[i + 1]
        BY <3>2, <4>9, KidIs
      <4> QED
        BY <1>2, <3>3, <4>6, <4>9, <4>10
    <3> QED
      BY <3>2, <3>4, <3>5
  <2>2. ASSUME NEW i \in 1 .. e - 1
        PROVE  Owner(t, ks[i + 1]) = ks[i]
    <3>1. i \in 1 .. d - 1
      BY <1>1
    <3> QED
      BY <3>1 DEF Path
  <2> HIDE DEF e
  <2> QED
    BY <1>1, <2>1, <2>2 DEF Path
<1>6. Y \in SUBSET (Nat \ {0})
  BY <1>2, <1>4
<1>7. /\ Y = {} => l = 0
      /\ Y # {} => l \in Y /\ \A x \in Y : l <= x
  <2> HIDE DEF Y
  <2> QED
    BY <1>6, LowestIs
<1>8. l \in Kids(t, ks[e], n) \cup {0}
  BY <1>4, <1>7
<1>9. AheadAt(t, n, ks, e, l, e) = AheadAt(t, n, ks, d, 0, e)
  <2>1. ~(e < e) /\ e < d /\ ks[e + 1] = ks[d]
    BY <1>1
  <2>2. ASSUME NEW x \in Kids(t, ks[e], n)
        PROVE  l # 0 /\ x >= l <=> x > ks[d]
    <3>1. x \in Nat \ {0} /\ ks[d] \in Nat \ {0}
      BY <1>1, <1>2
    <3>2. x > ks[d] => x \in Y
      BY <1>4
    <3>3. l # 0 => l \in Y /\ l > ks[d] /\ l \in Nat
      BY <1>4, <1>6, <1>7
    <3>4. x \in Y => l # 0 /\ l <= x /\ l \in Nat
      BY <1>6, <1>7
    <3> HIDE DEF l, Y
    <3> QED
      BY <3>1, <3>2, <3>3, <3>4
  <2> HIDE DEF e, l
  <2> QED
    BY <2>1, <2>2 DEF AheadAt
<1>10. AheadAt(t, n, ks, d, 0, d) = {}
  BY <1>1 DEF AheadAt
<1>11. ASSUME NEW i \in 1 .. e - 1
       PROVE  AheadAt(t, n, ks, e, l, i) = AheadAt(t, n, ks, d, 0, i)
  <2>1. i < e /\ i < d
    BY <1>1
  <2> HIDE DEF e, l
  <2> QED
    BY <2>1 DEF AheadAt
<1>12. ASSUME NEW x
       PROVE  x \in Ahead(t, n, ks, e, l) <=> x \in Ahead(t, n, ks, d, 0)
  <2>1. \A i : i \in 1 .. e <=> i \in 1 .. e - 1 \/ i = e
    BY <1>1
  <2>2. \A i : i \in 1 .. d <=> i \in 1 .. e - 1 \/ i = e \/ i = d
    BY <1>1
  <2>3. x \in Ahead(t, n, ks, e, l) <=>
          \/ \E i \in 1 .. e - 1 : x \in AheadAt(t, n, ks, e, l, i)
          \/ x \in AheadAt(t, n, ks, e, l, e)
    <3> HIDE DEF e, l
    <3> QED
      BY <2>1 DEF Ahead
  <2>4. x \in Ahead(t, n, ks, d, 0) <=>
          \/ \E i \in 1 .. e - 1 : x \in AheadAt(t, n, ks, d, 0, i)
          \/ x \in AheadAt(t, n, ks, d, 0, e)
          \/ x \in AheadAt(t, n, ks, d, 0, d)
    <3> HIDE DEF e, l
    <3> QED
      BY <2>2 DEF Ahead
  <2> HIDE DEF e, l
  <2> QED
    BY <1>9, <1>10, <1>11, <2>3, <2>4
<1> HIDE DEF l, e
<1>13. Ahead(t, n, ks, e, l) = Ahead(t, n, ks, d, 0)
  <2> DEFINE A == Ahead(t, n, ks, e, l)
             B == Ahead(t, n, ks, d, 0)
  <2>1. \A x : x \in A <=> x \in B
    BY <1>12
  <2> HIDE DEF A, B
  <2>2. A = B
    BY <2>1
  <2> QED
    BY <2>2 DEF A, B
<1> QED
  BY <1>5, <1>8, <1>13 DEF e, l

-----------------------------------------------------------------------------
(* What a step of the rewrite pass does to the calls: the last one goes on *)
(* to the next property,                                                   *)
LEMMA PropertyFrames ==
  ASSUME PointersOK, RewriteProperty, pc' = "rewrite"
  PROVE  LET d == Len(frames)
             p == Deref(props, Top.prop)
         IN /\ d \in Nat \ {0} /\ Top = frames[d] /\ Top.prop \in Pointers(props) \ {NULL}
            /\ Len(frames') = d /\ \A i \in 1 .. d - 1 : frames'[i] = frames[i]
            /\ \E full \in BOOLEAN :
                 LET r == RewriteOf(full)
                 IN /\ r.how = "ok" /\ props' = Store(props, Top.prop, Written(p, r))
                    /\ frames'[d] = NextFrame(Top, p, r)
<1> DEFINE d == Len(frames)
           p == Deref(props, Top.prop)
<1>1. pc = "rewrite" /\ Top.prop # NULL
  BY PropertyStep
<1>2. d \in Nat \ {0} /\ IsSeq(frames) /\ FrameOK(Top, Pointers(nodes), Pointers(props))
  BY <1>1, TopOK DEF PointersOK, FramesOK
<1>3. PICK full \in BOOLEAN : Round(RewriteOf(full))
  BY PropertyStep
<1> DEFINE r == RewriteOf(full)
<1> HIDE DEF r
<1>4. /\ r.how = "ok" /\ props' = Store(props, Top.prop, Written(p, r))
      /\ frames' = SetTop(NextFrame(Top, p, r))
  BY <1>3 DEF Round, Return, Goto, r
<1> DEFINE v == NextFrame(Top, p, r)
           new == frames'
<1>5. Replaced(new, frames, d, v)
  BY <1>4 DEF SetTop, Replaced
<1> HIDE DEF v, new
<1>6. Len(new) = d /\ new[d] = v /\ \A k \in 1 .. d : k # d => new[k] = frames[k]
  BY <1>2, <1>5, LastReplaced
<1>7. \A i \in 1 .. d - 1 : i \in 1 .. d /\ i # d
  BY <1>2
<1>8. Top.prop \in Pointers(props) \ {NULL} /\ Top = frames[d]
  BY <1>1, <1>2 DEF FrameOK, Top
<1>9. \A i \in 1 .. d - 1 : frames'[i] = frames[i]
  BY <1>6, <1>7 DEF new
<1>10. Len(frames') = d /\ frames'[d] = NextFrame(Top, p, r)
  BY <1>6 DEF new, v
<1> QED
  BY <1>2, <1>4, <1>8, <1>9, <1>10 DEF r

(* it calls itself for a subnode,                                          *)
LEMMA ChildFrames ==
  ASSUME PointersOK, RewriteChild
  PROVE  LET d == Len(frames)
         IN /\ d \in Nat \ {0} /\ Top = frames[d]
            /\ Top.child \in Pointers(nodes) \ {NULL} /\ Top.prop = NULL
            /\ Len(frames') = d + 1 /\ \A i \in 1 .. d : frames'[i] = frames[i]
            /\ frames'[d + 1] = Frame(nodes', Top.child)
            /\ nodes' = WithCells(nodes, Top.child, Top.next_address_cells, Top.next_size_cells)
            /\ pc = "rewrite" /\ pc' = pc /\ props' = props
<1> DEFINE d == Len(frames)
           c == Top.child
           v == Frame(nodes', c)
<1>1. /\ pc = "rewrite" /\ pc' = pc /\ Top.prop = NULL /\ c # NULL /\ props' = props
      /\ frames' = Append(frames, v)
      /\ nodes' = WithCells(nodes, Top.child, Top.next_address_cells, Top.next_size_cells)
  BY DEF RewriteChild
<1>2. d \in Nat \ {0} /\ IsSeq(frames) /\ FrameOK(Top, Pointers(nodes), Pointers(props))
  BY <1>1, TopOK DEF PointersOK, FramesOK
<1>3. c \in Pointers(nodes) \ {NULL} /\ Top = frames[d]
  BY <1>1, <1>2 DEF FrameOK, Top
<1> HIDE DEF v
<1>4. Len(frames') = d + 1 /\ (\A i \in 1 .. d : frames'[i] = frames[i]) /\ frames'[d + 1] = v
  BY <1>1, <1>2, Appended
<1> QED
  BY <1>1, <1>2, <1>3, <1>4 DEF v

(* or it returns.                                                          *)
LEMMA ReturnFrames ==
  ASSUME PointersOK, RewriteReturn
  PROVE  LET d == Len(frames)
             e == d - 1
         IN /\ d \in Nat \ {0} /\ Top = frames[d] /\ Top.child = NULL /\ Top.prop = NULL
            /\ pc = "rewrite" /\ props' = props /\ nodes' = nodes
            /\ pc' = IF d = 1 THEN "print" ELSE "rewrite"
            /\ d # 1 => /\ Len(frames') = e /\ e \in Nat \ {0}
                        /\ \A i \in 1 .. e - 1 : frames'[i] = frames[i]
                        /\ frames'[e] = [frames[e] EXCEPT !.child = Deref(nodes, @).sibling]
<1> DEFINE d == Len(frames)
           e == d - 1
           new == [i \in 1 .. e |->
                     IF i = e THEN [frames[i] EXCEPT !.child = Deref(nodes, @).sibling] ELSE frames[i]]
<1>1. /\ pc = "rewrite" /\ Top.prop = NULL /\ Top.child = NULL /\ props' = props /\ nodes' = nodes
      /\ frames' = new /\ pc' = IF d = 1 THEN "print" ELSE "rewrite"
  BY DEF RewriteReturn, Callers, Goto, treeVars
<1>2. d \in Nat \ {0} /\ Top = frames[d]
  BY <1>1, TopOK DEF Top
<1>3. e \in Nat /\ new = [k \in 1 .. e |-> new[k]]
  BY <1>2
<1>4. Len(new) = e
  <2> HIDE DEF e, new
  <2> QED
    BY <1>3, Sequence
<1>5. ASSUME d # 1
      PROVE  /\ e \in Nat \ {0} /\ \A i \in 1 .. e - 1 : new[i] = frames[i]
             /\ new[e] = [frames[e] EXCEPT !.child = Deref(nodes, @).sibling]
  <2>1. e \in Nat \ {0} /\ e \in 1 .. e /\ \A i \in 1 .. e - 1 : i \in 1 .. e /\ i # e
    BY <1>2, <1>5
  <2> HIDE DEF e
  <2> QED
    BY <2>1
<1> HIDE DEF new
<1> QED
  BY <1>1, <1>2, <1>4, <1>5
-----------------------------------------------------------------------------
FrameFields == {"node", "prop", "child", "next_address_cells", "next_size_cells"}

(* The calls, in terms of the tokens: call i is at node ks[i], and the     *)
(* last one at its subnode c and its property p, or past the last of them. *)
Calls(t, n, nd, fr, d, f, q, ks, c, p) ==
  /\ Path(t, n, ks, d) /\ ks[1] = Lowest(NodesTo(t, n))
  /\ \A i \in 1 .. d : /\ DOMAIN fr[i] = FrameFields
                       /\ fr[i].node = IF i = 1 THEN First(nd) ELSE f[ks[i]]
  /\ \A i \in 1 .. d - 1 : fr[i].child = f[ks[i + 1]] /\ fr[i].prop = NULL
  /\ c \in Kids(t, ks[d], n) \cup {0} /\ fr[d].child = Ptr(f, c)
  /\ p \in Own(t, ks[d], n) \cup {0} /\ fr[d].prop = Ptr(q, p)

(* Property j belongs to a node that has been entered, and comes after the *)
(* properties that the last call has still to see.                         *)
Behind(t, n, ks, d, c, p, j) ==
  /\ \A x \in Ahead(t, n, ks, d, c) : Owner(t, j) < x
  /\ p # 0 => Owner(t, j) < ks[d] \/ (Owner(t, j) = ks[d] /\ j > p)

(* What is not raw any more is such a property: no copy that the array left *)
(* behind.                                                                 *)
RawAhead(t, n, pr, q, ks, d, c, p) ==
  \A x \in Pointers(pr) \ {NULL} :
    Deref(pr, x).type # "RAW" =>
      \E j \in PropsTo(t, n) : x = q[j] /\ Behind(t, n, ks, d, c, p, j)

(* The step to the next property. *)
LEMMA CallsProperty ==
  ASSUME NEW t, NEW n, NEW nd, NEW pr, NEW fr, NEW d, NEW f, NEW q, NEW ks, NEW c, NEW p,
         Calls(t, n, nd, fr, d, f, q, ks, c, p), Built(t, n, nd, pr, f, q), fr[d].prop # NULL,
         NEW fr2, \A i \in 1 .. d - 1 : fr2[i] = fr[i],
         NEW r, fr2[d] = NextFrame(fr[d], Deref(pr, fr[d].prop), r)
  PROVE  /\ p # 0 /\ p \in Own(t, ks[d], n) /\ fr[d].prop = q[p]
         /\ Calls(t, n, nd, fr2, d, f, q, ks, c, Highest(Own(t, ks[d], p)))
         /\ fr2[d].next_address_cells =
              IF r.type = "ADDRESS_CELLS" THEN r.num ELSE fr[d].next_address_cells
         /\ fr2[d].next_size_cells =
              IF r.type = "SIZE_CELLS" THEN r.num ELSE fr[d].next_size_cells
<1> DEFINE k == ks[d]
           p2 == Highest(Own(t, k, p))
<1>1. p # 0 /\ p \in Own(t, k, n) /\ fr[d].prop = q[p]
  BY DEF Calls, Ptr
<1>2. p \in PropsTo(t, n) /\ Owner(t, p) = k /\ n \in Nat \ {0} /\ p \in 1 .. n
  BY <1>1 DEF Own, PropsTo, Built, Nested
<1>3. Deref(pr, q[p]).next = Ptr(q, p2)
  BY <1>2 DEF Built, PropIs
<1>4. p2 \in Own(t, k, n) \cup {0}
  <2> DEFINE S == Own(t, k, p)
  <2>1. S \in SUBSET (1 .. p) /\ S \subseteq Own(t, k, n) /\ p \in Nat
    BY <1>2 DEF Own, PropsTo
  <2> HIDE DEF S
  <2>2. Highest(S) \in S \cup {0}
    BY <2>1, HighestIs
  <2> QED
    BY <2>1, <2>2 DEF S
<1>5. d \in Nat \ {0} /\ d \in 1 .. d /\ DOMAIN fr[d] = FrameFields
  BY DEF Calls, Path
<1> DEFINE a == fr[d]
           b == fr2[d]
           pp == Deref(pr, fr[d].prop)
<1>6. b = NextFrame(a, pp, r) /\ DOMAIN a = FrameFields /\ pp.next = Ptr(q, p2)
  BY <1>1, <1>3, <1>5
<1> HIDE DEF a, b, pp
<1>7. /\ DOMAIN b = FrameFields /\ b.node = a.node /\ b.child = a.child /\ b.prop = Ptr(q, p2)
      /\ b.next_address_cells = IF r.type = "ADDRESS_CELLS" THEN r.num ELSE a.next_address_cells
      /\ b.next_size_cells = IF r.type = "SIZE_CELLS" THEN r.num ELSE a.next_size_cells
  BY <1>6 DEF NextFrame, FrameFields
<1>8. \A i \in 1 .. d : i \in 1 .. d - 1 \/ i = d
  BY <1>5
<1> HIDE DEF p2
<1>9. /\ \A i \in 1 .. d : /\ DOMAIN fr2[i] = FrameFields
                           /\ fr2[i].node = IF i = 1 THEN First(nd) ELSE f[ks[i]]
  BY <1>5, <1>7, <1>8 DEF Calls, a, b
<1>10. Calls(t, n, nd, fr2, d, f, q, ks, c, p2)
  BY <1>4, <1>5, <1>7, <1>9 DEF Calls, a, b
<1> QED
  BY <1>1, <1>7, <1>10 DEF a, b, p2

(* The call for a subnode. *)
LEMMA CallsChild ==
  ASSUME NEW t, NEW n, NEW nd, NEW nd2, NEW pr, NEW fr, NEW d, NEW f, NEW q, NEW ks, NEW c, NEW p,
         Calls(t, n, nd, fr, d, f, q, ks, c, p), Built(t, n, nd2, pr, f, q),
         fr[d].child # NULL, fr[d].prop = NULL, First(nd2) = First(nd),
         NEW fr2, \A i \in 1 .. d : fr2[i] = fr[i], fr2[d + 1] = Frame(nd2, fr[d].child)
  PROVE  /\ c # 0 /\ c \in Kids(t, ks[d], n) /\ fr[d].child = f[c]
         /\ Calls(t, n, nd2, fr2, d + 1, f, q, Longer(ks, d, c),
                  Lowest(Kids(t, c, n)), Highest(Own(t, c, n)))
<1> DEFINE ls == Longer(ks, d, c)
           c2 == Lowest(Kids(t, c, n))
           p2 == Highest(Own(t, c, n))
<1>1. c # 0 /\ c \in Kids(t, ks[d], n) /\ fr[d].child = f[c]
  BY DEF Calls, Ptr
<1>2. c \in NodesTo(t, n) /\ Nested(t, n) /\ n \in Nat \ {0} /\ d \in Nat \ {0} /\ 1 \in 1 .. d
  BY <1>1 DEF Kids, Built, Nested, Calls, Path
<1>3. NodeIs(t, n, f, q, c, Deref(nd2, f[c]))
  BY <1>2 DEF Built
<1>4. /\ fr2[d + 1].node = f[c] /\ fr2[d + 1].child = Ptr(f, c2) /\ fr2[d + 1].prop = Ptr(q, p2)
      /\ DOMAIN fr2[d + 1] = FrameFields
  BY <1>1, <1>3 DEF Frame, NodeIs, FrameFields
<1>5. Path(t, n, ls, d + 1)
  BY <1>1, <1>2, EnterPath DEF Calls
<1>6. ls[d + 1] = c /\ \A i \in 1 .. d : ls[i] = ks[i]
  BY <1>2 DEF Longer
<1> DEFINE K == Kids(t, c, n)
           O == Own(t, c, n)
<1>7. K \in SUBSET (Nat \ {0}) /\ O \in SUBSET (1 .. n - 1) /\ n - 1 \in Nat
  BY <1>2 DEF Kids, Own, NodesTo, PropsTo
<1>8. c2 \in K \cup {0} /\ p2 \in O \cup {0}
  <2> HIDE DEF K, O
  <2> QED
    BY <1>7, LowestIs, HighestIs DEF K, O
<1> HIDE DEF ls, c2, p2, K, O
<1>9. ASSUME NEW i \in 1 .. d + 1
      PROVE  /\ DOMAIN fr2[i] = FrameFields
             /\ fr2[i].node = IF i = 1 THEN First(nd2) ELSE f[ls[i]]
  <2>1. CASE i = d + 1
    <3>1. i # 1
      BY <1>2, <2>1
    <3> QED
      BY <1>4, <1>6, <2>1, <3>1
  <2>2. CASE i # d + 1
    <3>1. i \in 1 .. d
      BY <1>2, <2>2
    <3> QED
      BY <1>6, <3>1 DEF Calls
  <2> QED
    BY <2>1, <2>2
<1>10. ASSUME NEW i \in 1 .. (d + 1) - 1
       PROVE  fr2[i].child = f[ls[i + 1]] /\ fr2[i].prop = NULL
  <2>1. i \in 1 .. d /\ fr2[i] = fr[i]
    BY <1>2
  <2>2. CASE i = d
    BY <1>1, <1>6, <2>1, <2>2
  <2>3. CASE i # d
    <3>1. i \in 1 .. d - 1 /\ i + 1 \in 1 .. d
      BY <1>2, <2>1, <2>3
    <3> QED
      BY <1>6, <2>1, <3>1 DEF Calls
  <2> QED
    BY <2>2, <2>3
<1>11. ls[1] = Lowest(NodesTo(t, n))
  BY <1>2, <1>6 DEF Calls
<1>12. Calls(t, n, nd2, fr2, d + 1, f, q, ls, c2, p2)
  BY <1>4, <1>5, <1>6, <1>8, <1>9, <1>10, <1>11 DEF Calls, K, O
<1> QED
  BY <1>1, <1>12 DEF ls, c2, p2

(* The return. *)
LEMMA CallsReturn ==
  ASSUME NEW t, NEW n, NEW nd, NEW pr, NEW fr, NEW d, NEW f, NEW q, NEW ks, NEW c, NEW p,
         Calls(t, n, nd, fr, d, f, q, ks, c, p), Built(t, n, nd, pr, f, q), d # 1,
         NEW e, e = d - 1, NEW fr2, \A i \in 1 .. e - 1 : fr2[i] = fr[i],
         fr2[e] = [fr[e] EXCEPT !.child = Deref(nd, @).sibling]
  PROVE  Calls(t, n, nd, fr2, e, f, q, ks, Lowest(Younger(t, ks[d], n)), 0)
<1> DEFINE c2 == Lowest(Younger(t, ks[d], n))
<1>1. /\ d \in Nat \ {0, 1} /\ e \in Nat \ {0} /\ e + 1 = d /\ e \in 1 .. d /\ e \in 1 .. d - 1
      /\ d \in 1 .. d /\ Nested(t, n) /\ Path(t, n, ks, d)
  BY DEF Calls, Path, Built
<1>2. Path(t, n, ks, e) /\ c2 \in Kids(t, ks[e], n) \cup {0}
  BY <1>1, LeaveAhead
<1>3. ks[d] \in NodesTo(t, n) /\ fr[e].child = f[ks[d]] /\ fr[e].prop = NULL /\ DOMAIN fr[e] = FrameFields
  BY <1>1 DEF Calls, Path
<1>4. Deref(nd, f[ks[d]]).sibling = Ptr(f, c2)
  BY <1>3 DEF Built, NodeIs
<1> HIDE DEF c2
<1> DEFINE a == fr[e]
           b == fr2[e]
<1>5. /\ DOMAIN b = FrameFields /\ b.node = a.node /\ b.prop = NULL /\ b.child = Ptr(f, c2)
  <2>1. b = [a EXCEPT !.child = Ptr(f, c2)]
    BY <1>3, <1>4
  <2>2. DOMAIN a = FrameFields /\ a.prop = NULL
    BY <1>3
  <2> HIDE DEF a, b
  <2> QED
    BY <2>1, <2>2 DEF FrameFields
<1>6. \A i \in 1 .. e : i \in 1 .. d /\ (i \in 1 .. e - 1 \/ i = e)
  BY <1>1
<1>7. ASSUME NEW i \in 1 .. e
      PROVE  /\ DOMAIN fr2[i] = FrameFields
             /\ fr2[i].node = IF i = 1 THEN First(nd) ELSE f[ks[i]]
  <2>1. /\ DOMAIN fr[i] = FrameFields
        /\ fr[i].node = IF i = 1 THEN First(nd) ELSE f[ks[i]]
    BY <1>6 DEF Calls
  <2>2. CASE i = e
    BY <1>5, <2>1, <2>2
  <2>3. CASE i # e
    BY <1>6, <2>1, <2>3
  <2> QED
    BY <2>2, <2>3
<1>8. ASSUME NEW i \in 1 .. e - 1
      PROVE  fr2[i].child = f[ks[i + 1]] /\ fr2[i].prop = NULL
  <2>1. i \in 1 .. d - 1
    BY <1>1
  <2> QED
    BY <2>1 DEF Calls
<1>9. Ptr(q, 0) = NULL /\ ks[1] = Lowest(NodesTo(t, n))
  BY DEF Ptr, Calls
<1> QED
  BY <1>2, <1>5, <1>7, <1>8, <1>9 DEF Calls, c2

-----------------------------------------------------------------------------
(* A property is rewritten: it is behind the next one. *)
LEMMA RawProperty ==
  ASSUME NEW t, NEW n, NEW pr, NEW q, NEW ks, NEW d, NEW c, NEW p, Nested(t, n), Path(t, n, ks, d),
         RawAhead(t, n, pr, q, ks, d, c, p), p \in Own(t, ks[d], n), p # 0,
         NEW pr2, Pointers(pr2) = Pointers(pr),
         \A x \in Pointers(pr) \ {NULL} : x # q[p] => Deref(pr2, x) = Deref(pr, x),
         NEW p2, p2 = Highest(Own(t, ks[d], p))
  PROVE  RawAhead(t, n, pr2, q, ks, d, c, p2)
<1>1. n \in Nat \ {0} /\ p \in PropsTo(t, n) /\ p \in Nat /\ Owner(t, p) = ks[d]
  BY DEF Own, PropsTo, Nested
<1>2. p2 \in Nat /\ (p2 # 0 => p2 < p)
  <2> DEFINE S == Own(t, ks[d], p)
  <2>1. S \in SUBSET (1 .. p) /\ \A x \in S : x < p /\ x \in Nat
    BY <1>1 DEF Own, PropsTo
  <2> HIDE DEF S
  <2>2. Highest(S) \in S \cup {0}
    BY <1>1, <2>1, HighestIs
  <2> QED
    BY <2>1, <2>2 DEF S
<1> SUFFICES ASSUME NEW x \in Pointers(pr) \ {NULL}, Deref(pr2, x).type # "RAW"
             PROVE  \E j \in PropsTo(t, n) : x = q[j] /\ Behind(t, n, ks, d, c, p2, j)
  BY DEF RawAhead
<1>3. CASE x = q[p]
  <2>1. \A y \in Ahead(t, n, ks, d, c) : Owner(t, p) < y
    <3> SUFFICES ASSUME NEW y \in Ahead(t, n, ks, d, c)
                 PROVE  Owner(t, p) < y
      OBVIOUS
    <3>1. y > ks[d] /\ y \in NodesTo(t, n)
      BY AheadIsLater
    <3>2. ks[d] \in Nat /\ y \in Nat
      BY <3>1 DEF Path, NodesTo
    <3> QED
      BY <1>1, <3>1, <3>2
  <2>2. Behind(t, n, ks, d, c, p2, p)
    BY <1>1, <1>2, <2>1 DEF Behind
  <2> QED
    BY <1>1, <1>3, <2>2
<1>4. CASE x # q[p]
  <2>1. PICK j \in PropsTo(t, n) : x = q[j] /\ Behind(t, n, ks, d, c, p, j)
    BY <1>4 DEF RawAhead
  <2>2. j \in Nat
    BY DEF PropsTo
  <2>3. Behind(t, n, ks, d, c, p2, j)
    BY <1>1, <1>2, <2>1, <2>2 DEF Behind
  <2> QED
    BY <2>1, <2>3
<1> QED
  BY <1>3, <1>4

(* A subnode is entered: all of its properties are raw. *)
LEMMA RawChild ==
  ASSUME NEW t, NEW n, NEW pr, NEW q, NEW ks, NEW d, NEW c, NEW p, Nested(t, n), Path(t, n, ks, d),
         RawAhead(t, n, pr, q, ks, d, c, p), c \in Kids(t, ks[d], n), NEW p2
  PROVE  RawAhead(t, n, pr, q, Longer(ks, d, c), d + 1, Lowest(Kids(t, c, n)), p2)
<1> DEFINE ls == Longer(ks, d, c)
           c2 == Lowest(Kids(t, c, n))
           A == Ahead(t, n, ks, d, c)
           B == Ahead(t, n, ls, d + 1, c2)
<1>1. B = (A \ {c}) \cup Kids(t, c, n) /\ c \in A
  BY EnterAhead
<1>2. d \in Nat \ {0} /\ ls[d + 1] = c
  BY DEF Path, Longer
<1>3. c \in NodesTo(t, n) /\ c \in Nat
  BY DEF Kids, NodesTo
<1> SUFFICES ASSUME NEW j \in PropsTo(t, n), Behind(t, n, ks, d, c, p, j)
             PROVE  Behind(t, n, ls, d + 1, c2, p2, j)
  BY DEF RawAhead
<1>4. Owner(t, j) < c
  BY <1>1 DEF Behind
<1>5. Owner(t, j) \in Nat
  <2>1. j \in 1 .. n
    BY DEF PropsTo, Nested
  <2> QED
    BY <2>1, OwnerBefore
<1>6. ASSUME NEW x \in B
      PROVE  Owner(t, j) < x
  <2>1. CASE x \in A
    BY <2>1 DEF Behind
  <2>2. CASE x \in Kids(t, c, n)
    <3>1. c < x /\ x \in NodesTo(t, n)
      BY <1>3, <2>2, KidIs
    <3>2. x \in Nat
      BY <3>1 DEF NodesTo
    <3> QED
      BY <1>3, <1>4, <1>5, <3>1, <3>2
  <2> QED
    BY <1>1, <2>1, <2>2
<1> HIDE DEF ls, c2
<1> QED
  BY <1>2, <1>4, <1>6 DEF Behind

(* The return: the same nodes are ahead. *)
LEMMA RawReturn ==
  ASSUME NEW t, NEW n, NEW pr, NEW q, NEW ks, NEW d, NEW p, Nested(t, n), Path(t, n, ks, d),
         RawAhead(t, n, pr, q, ks, d, 0, p), d # 1, NEW e, e = d - 1
  PROVE  RawAhead(t, n, pr, q, ks, e, Lowest(Younger(t, ks[d], n)), 0)
<1> DEFINE c2 == Lowest(Younger(t, ks[d], n))
<1>1. Ahead(t, n, ks, e, c2) = Ahead(t, n, ks, d, 0)
  BY LeaveAhead
<1> HIDE DEF c2
<1>2. \A j : Behind(t, n, ks, d, 0, p, j) => Behind(t, n, ks, e, c2, 0, j)
  BY <1>1 DEF Behind
<1> QED
  BY <1>2 DEF RawAhead, c2
-----------------------------------------------------------------------------
(* The rewrite pass, with its place in the tokens. *)
Walking(f, q, ks, c, p) ==
  LET t == blob.tokens
      d == Len(frames)
  IN /\ TreeIs(f, q)
     /\ Calls(t, off, nodes, frames, d, f, q, ks, c, p)
     /\ RawAhead(t, off, props, q, ks, d, c, p)

AllRaw == \A x \in Elements(props) : x.type = "RAW"

(* It starts at the root, before its last property and its first subnode   *)
(* (a root that is out of order may be a copy that lacks them).            *)
LEMMA WalkStart ==
  ASSUME NEW f, NEW q, TreeIs(f, q), ParseEnd, pc' = "rewrite", AllRaw,
         NEW r, r = Lowest(NodesTo(blob.tokens, off)), NEW ks, ks = [i \in {1} |-> r]
  PROVE  /\ \E c, p : Walking(f, q, ks, c, p)'
         /\ Orderly(blob.tokens, off) =>
              \E c, p : /\ Walking(f, q, ks, c, p)'
                        /\ c = Lowest(Kids(blob.tokens, r, off))
                        /\ p = Highest(Own(blob.tokens, r, off))
         /\ Len(frames') = 1 /\ frames'[1] = Frame(nodes', First(nodes))
<1> DEFINE t == blob.tokens
           nd2 == nodes'
           fr2 == frames'
           x == First(nodes)
           e == Deref(nd2, x)
<1>1. /\ TreeIs(f, q)' /\ off' = off /\ props' = props /\ NodesTo(t, off) # {}
      /\ x \in Pointers(nodes) \ {NULL}
      /\ frames' = <<Frame(nodes', x)>> /\ nodes' = WithCells(nodes, x, 2, 1)
  BY ParseEndTree
<1>2. blob' = blob
  BY DEF ParseEnd
<1>3. /\ Built(t, off, nd2, props, f, q) /\ Rooted(t, off, nd2, f, q) /\ Nested(t, off)
      /\ off \in Nat \ {0}
  BY <1>1, <1>2 DEF TreeIs, Built, Nested
<1>4. First(nd2) = x
  <2>1. Built(t, off, nodes, props, f, q) /\ Rooted(t, off, nodes, f, q)
    BY DEF TreeIs
  <2>2. x = First(nodes)
    OBVIOUS
  <2> HIDE DEF t, x
  <2>3. First(nodes') = First(nodes)
    BY <1>1, <2>1, CellsKeepTree
  <2> QED
    BY <2>2, <2>3
<1>5. RootIs(t, off, nd2, f, q, r, e)
  <2>1. RootIs(t, off, nd2, f, q, Lowest(NodesTo(t, off)), Deref(nd2, First(nd2)))
    BY <1>1, <1>3 DEF Rooted
  <2>2. r = Lowest(NodesTo(t, off))
    OBVIOUS
  <2> HIDE DEF t, nd2, x
  <2> QED
    BY <1>4, <2>1, <2>2
<1>6. r \in NodesTo(t, off)
  BY <1>1, <1>3, RootOutside
<1>7. Len(fr2) = 1 /\ fr2[1] = Frame(nd2, x)
  BY <1>1
<1>8. /\ fr2[1].node = x /\ fr2[1].child = e.children /\ fr2[1].prop = e.properties
      /\ DOMAIN fr2[1] = FrameFields
  BY <1>7 DEF Frame, FrameFields
<1> DEFINE K == Kids(t, r, off)
           O == Own(t, r, off)
<1>9. Lowest(K) \in K \cup {0} /\ Highest(O) \in O \cup {0}
  <2>1. K \in SUBSET (Nat \ {0}) /\ O \in SUBSET (1 .. off - 1) /\ off - 1 \in Nat
    BY <1>3 DEF Kids, Own, NodesTo, PropsTo
  <2> HIDE DEF K, O
  <2> QED
    BY <2>1, LowestIs, HighestIs
<1>10. Path(t, off, ks, 1) /\ ks[1] = r
  <2>1. r \in Nat /\ ks[1] = r
    BY <1>6 DEF NodesTo
  <2>2. 1 .. 1 = {1} /\ 1 .. 1 - 1 = {} /\ r + 1 .. r = {}
    BY <2>1
  <2> QED
    BY <1>6, <2>1, <2>2 DEF Path
<1>11. ASSUME NEW c \in K \cup {0}, NEW p \in O \cup {0},
              e.children = Ptr(f, c), e.properties = Ptr(q, p)
       PROVE  Walking(f, q, ks, c, p)'
  <2>1. Calls(t, off, nd2, fr2, 1, f, q, ks, c, p)
    <3>1. 1 .. 1 = {1} /\ 1 .. 1 - 1 = {}
      OBVIOUS
    <3>2. r = Lowest(NodesTo(t, off)) /\ c \in Kids(t, r, off) \cup {0} /\ p \in Own(t, r, off) \cup {0}
      OBVIOUS
    <3> HIDE DEF nd2, fr2, x, e, t
    <3> QED
      BY <1>4, <1>8, <1>10, <1>11, <3>1, <3>2 DEF Calls
  <2>2. RawAhead(t, off, props, q, ks, 1, c, p)
    <3>1. ArrayOK(props)
      BY <1>3 DEF Built
    <3>2. \A y \in Pointers(props) \ {NULL} : Deref(props, y) \in Elements(props)
      BY <3>1, DerefElement
    <3> QED
      BY <3>2 DEF RawAhead, AllRaw
  <2>3. Calls(t, off, nodes', frames', Len(frames'), f, q, ks, c, p)
    BY <1>7, <2>1
  <2>4. RawAhead(t, off, props', q, ks, Len(frames'), c, p)
    BY <1>1, <1>7, <2>2
  <2> HIDE DEF t
  <2> QED
    BY <1>1, <1>2, <2>3, <2>4 DEF Walking, t
<1>12. PICK c \in K \cup {0} : e.children = Ptr(f, c)
  <2>1. e.children \in {NULL, Ptr(f, Lowest(K))}
    BY <1>5 DEF RootIs
  <2> HIDE DEF K, e
  <2>2. NULL = Ptr(f, 0)
    BY DEF Ptr
  <2> QED
    BY <1>9, <2>1, <2>2
<1>13. PICK p \in O \cup {0} : e.properties = Ptr(q, p)
  <2>1. e.properties \in {NULL} \cup {q[j] : j \in O}
    BY <1>5 DEF RootIs
  <2>2. NULL = Ptr(q, 0) /\ \A j \in O : q[j] = Ptr(q, j)
    BY DEF Ptr, Own, PropsTo
  <2> HIDE DEF O, e
  <2> QED
    BY <2>1, <2>2
<1>14. Orderly(t, off) => e.children = Ptr(f, Lowest(K)) /\ e.properties = Ptr(q, Highest(O))
  BY <1>5 DEF RootIs
<1>15. PICK c0, p0 : c0 = Lowest(K) /\ p0 = Highest(O)
  OBVIOUS
<1> HIDE DEF K, O, e
<1>16. Orderly(t, off) => Walking(f, q, ks, c0, p0)'
  BY <1>9, <1>11, <1>14, <1>15
<1>17. Walking(f, q, ks, c, p)'
  BY <1>11, <1>12, <1>13
<1> QED
  BY <1>7, <1>15, <1>16, <1>17 DEF K, O

-----------------------------------------------------------------------------
(* One step of the rewrite pass, at the property, *)
LEMMA WalkProperty ==
  ASSUME PointersOK, ReadAll, NEW f, NEW q, NEW ks, NEW c, NEW p, Walking(f, q, ks, c, p),
         RewriteProperty, pc' = "rewrite",
         NEW p2, p2 = Highest(Own(blob.tokens, ks[Len(frames)], p))
  PROVE  /\ p # 0 /\ p \in Own(blob.tokens, ks[Len(frames)], off) /\ Top.prop = q[p]
         /\ Len(frames') = Len(frames)
         /\ Walking(f, q, ks, c, p2)'
<1> DEFINE t == blob.tokens
           d == Len(frames)
<1>1. TreeIs(f, q) /\ Calls(t, off, nodes, frames, d, f, q, ks, c, p) /\ RawAhead(t, off, props, q, ks, d, c, p)
  BY DEF Walking
<1>2. TreeIs(f, q)' /\ UNCHANGED <<blob, off, nodes>>
  <2>1. TreeIs(f, q)' /\ UNCHANGED <<blob, off>>
    BY <1>1, RewriteTree
  <2> QED
    BY <2>1 DEF RewriteProperty
<1>3. Built(t, off, nodes, props, f, q) /\ Nested(t, off) /\ Path(t, off, ks, d)
  BY <1>1 DEF TreeIs, Built, Calls
<1>4. /\ d \in Nat \ {0} /\ Top = frames[d] /\ Top.prop \in Pointers(props) \ {NULL}
      /\ Len(frames') = d /\ \A i \in 1 .. d - 1 : frames'[i] = frames[i]
  BY PropertyFrames
<1>5. PICK full \in BOOLEAN :
        LET r == RewriteOf(full)
            e == Deref(props, Top.prop)
        IN props' = Store(props, Top.prop, Written(e, r)) /\ frames'[d] = NextFrame(Top, e, r)
  BY PropertyFrames
<1> DEFINE r == RewriteOf(full)
           e == Deref(props, Top.prop)
           w == Written(e, r)
<1> HIDE DEF r
<1>6. props' = Store(props, Top.prop, w) /\ frames'[d] = NextFrame(frames[d], Deref(props, frames[d].prop), r)
  BY <1>4, <1>5 DEF r
<1> HIDE DEF t, d
<1>7. /\ p # 0 /\ p \in Own(t, ks[d], off) /\ frames[d].prop = q[p]
      /\ Calls(t, off, nodes, frames', d, f, q, ks, c, p2)
  <2>1. p2 = Highest(Own(t, ks[d], p))
    BY DEF t, d
  <2>2. frames[d].prop # NULL
    BY <1>4
  <2> DEFINE fr2 == frames'
  <2>3. /\ \A i \in 1 .. d - 1 : fr2[i] = frames[i]
        /\ fr2[d] = NextFrame(frames[d], Deref(props, frames[d].prop), r)
    BY <1>4, <1>6
  <2> HIDE DEF e, w, fr2
  <2>4. p # 0 /\ p \in Own(t, ks[d], off) /\ frames[d].prop = q[p]
    BY <1>1, <1>3, <2>2, <2>3, CallsProperty
  <2>5. Calls(t, off, nodes, fr2, d, f, q, ks, c, Highest(Own(t, ks[d], p)))
    BY <1>1, <1>3, <2>2, <2>3, CallsProperty
  <2> QED
    BY <2>1, <2>4, <2>5 DEF fr2
<1>8. /\ Pointers(props') = Pointers(props)
      /\ \A x \in Pointers(props) \ {NULL} : x # q[p] => Deref(props', x) = Deref(props, x)
  <2>1. ArrayOK(props) /\ Top.prop = q[p]
    BY <1>3, <1>4, <1>7 DEF Built
  <2> HIDE DEF w
  <2>2. Pointers(props') = Pointers(props)
    BY <1>6, <2>1, Stored
  <2>3. ASSUME NEW x \in Pointers(props) \ {NULL}, x # q[p]
        PROVE  Deref(props', x) = Deref(props, x)
    BY <1>4, <1>6, <2>1, <2>3, StoredDeref
  <2> QED
    BY <2>2, <2>3
<1>9. RawAhead(t, off, props', q, ks, d, c, p2)
  <2>1. p2 = Highest(Own(t, ks[d], p))
    BY DEF t, d
  <2> QED
    BY <1>1, <1>3, <1>7, <1>8, <2>1, RawProperty
<1>10. Walking(f, q, ks, c, p2)'
  BY <1>2, <1>4, <1>7, <1>9 DEF Walking, t, d
<1> QED
  BY <1>4, <1>7, <1>10 DEF t, d

(* at the call for a subnode,                                              *)
LEMMA WalkChild ==
  ASSUME PointersOK, ReadAll, NEW f, NEW q, NEW ks, NEW c, NEW p, Walking(f, q, ks, c, p),
         RewriteChild, NEW ls, ls = Longer(ks, Len(frames), c),
         NEW c2, c2 = Lowest(Kids(blob.tokens, c, off)), NEW p2, p2 = Highest(Own(blob.tokens, c, off))
  PROVE  /\ c # 0 /\ c \in Kids(blob.tokens, ks[Len(frames)], off) /\ Top.child = f[c] /\ p = 0
         /\ Len(frames') = Len(frames) + 1
         /\ Walking(f, q, ls, c2, p2)'
<1> DEFINE t == blob.tokens
           d == Len(frames)
<1>1. TreeIs(f, q) /\ Calls(t, off, nodes, frames, d, f, q, ks, c, p) /\ RawAhead(t, off, props, q, ks, d, c, p)
  BY DEF Walking
<1>2. TreeIs(f, q)' /\ UNCHANGED <<blob, off, props>>
  <2>1. TreeIs(f, q)' /\ UNCHANGED <<blob, off>>
    BY <1>1, RewriteTree
  <2> QED
    BY <2>1 DEF RewriteChild
<1>3. Built(t, off, nodes, props, f, q) /\ Rooted(t, off, nodes, f, q) /\ Nested(t, off) /\ Path(t, off, ks, d)
  BY <1>1 DEF TreeIs, Built, Calls
<1>4. Built(t, off, nodes', props, f, q)
  BY <1>2 DEF TreeIs
<1>5. /\ d \in Nat \ {0} /\ Top = frames[d]
      /\ Top.child \in Pointers(nodes) \ {NULL} /\ Top.prop = NULL
      /\ Len(frames') = d + 1 /\ \A i \in 1 .. d : frames'[i] = frames[i]
      /\ frames'[d + 1] = Frame(nodes', Top.child)
      /\ nodes' = WithCells(nodes, Top.child, Top.next_address_cells, Top.next_size_cells)
  BY ChildFrames
<1>6. First(nodes') = First(nodes)
  <2> DEFINE x == Top.child
             a == Top.next_address_cells
             s == Top.next_size_cells
  <2>1. x \in Pointers(nodes) \ {NULL} /\ nodes' = WithCells(nodes, x, a, s)
    BY <1>5
  <2> HIDE DEF t, x, a, s
  <2> QED
    BY <1>3, <2>1, CellsKeepTree
<1>7. /\ ls = Longer(ks, d, c) /\ c2 = Lowest(Kids(t, c, off)) /\ p2 = Highest(Own(t, c, off))
  OBVIOUS
<1> HIDE DEF t, d
<1>8. frames[d].child # NULL /\ frames[d].prop = NULL /\ frames'[d + 1] = Frame(nodes', frames[d].child)
  BY <1>5
<1>9. /\ c # 0 /\ c \in Kids(t, ks[d], off) /\ frames[d].child = f[c]
      /\ Calls(t, off, nodes', frames', d + 1, f, q, ls, c2, p2)
  <2>1. /\ c # 0 /\ c \in Kids(t, ks[d], off) /\ frames[d].child = f[c]
        /\ Calls(t, off, nodes', frames', d + 1, f, q, Longer(ks, d, c),
                 Lowest(Kids(t, c, off)), Highest(Own(t, c, off)))
    BY <1>1, <1>4, <1>5, <1>6, <1>8, CallsChild
  <2> QED
    BY <1>7, <2>1
<1>10. RawAhead(t, off, props, q, ls, d + 1, c2, p2)
  <2>1. RawAhead(t, off, props, q, Longer(ks, d, c), d + 1, Lowest(Kids(t, c, off)), p2)
    BY <1>1, <1>3, <1>9, RawChild
  <2> QED
    BY <1>7, <2>1
<1>11. p = 0
  <2>1. p \in Own(t, ks[d], off) \cup {0} /\ frames[d].prop = Ptr(q, p)
    BY <1>1 DEF Calls
  <2>2. p \in PropsTo(t, off) => q[p] # NULL
    BY <1>3 DEF Built, Places
  <2> QED
    BY <1>8, <2>1, <2>2 DEF Ptr, Own
<1>12. Walking(f, q, ls, c2, p2)'
  BY <1>2, <1>5, <1>9, <1>10 DEF Walking, t, d
<1> QED
  BY <1>5, <1>9, <1>11, <1>12 DEF t, d

(* and at the return.                                                      *)
LEMMA WalkReturn ==
  ASSUME PointersOK, ReadAll, NEW f, NEW q, NEW ks, NEW c, NEW p, Walking(f, q, ks, c, p),
         RewriteReturn, NEW c2, c2 = Lowest(Younger(blob.tokens, ks[Len(frames)], off))
  PROVE  /\ c = 0 /\ p = 0
         /\ Len(frames) # 1 => Len(frames') = Len(frames) - 1 /\ Walking(f, q, ks, c2, 0)'
<1> DEFINE t == blob.tokens
           d == Len(frames)
           e == d - 1
<1>1. TreeIs(f, q) /\ Calls(t, off, nodes, frames, d, f, q, ks, c, p) /\ RawAhead(t, off, props, q, ks, d, c, p)
  BY DEF Walking
<1>2. TreeIs(f, q)' /\ UNCHANGED <<blob, off>>
  BY <1>1, RewriteTree
<1>3. Built(t, off, nodes, props, f, q) /\ Nested(t, off) /\ Path(t, off, ks, d)
  BY <1>1 DEF TreeIs, Built, Calls
<1>4. /\ d \in Nat \ {0} /\ Top = frames[d] /\ Top.child = NULL /\ Top.prop = NULL
      /\ props' = props /\ nodes' = nodes
      /\ d # 1 => /\ Len(frames') = e /\ e \in Nat \ {0}
                  /\ \A i \in 1 .. e - 1 : frames'[i] = frames[i]
                  /\ frames'[e] = [frames[e] EXCEPT !.child = Deref(nodes, @).sibling]
  BY ReturnFrames
<1>5. c = 0 /\ p = 0
  <2>1. /\ p \in Own(t, ks[d], off) \cup {0} /\ frames[d].prop = Ptr(q, p)
        /\ c \in Kids(t, ks[d], off) \cup {0} /\ frames[d].child = Ptr(f, c)
    BY <1>1 DEF Calls
  <2>2. /\ p \in PropsTo(t, off) => q[p] # NULL
        /\ c \in NodesTo(t, off) => f[c] # NULL
    BY <1>3 DEF Built, Places
  <2> QED
    BY <1>4, <2>1, <2>2 DEF Ptr, Own, Kids
<1>6. ASSUME d # 1
      PROVE  Len(frames') = e /\ Walking(f, q, ks, c2, 0)'
  <2>1. c2 = Lowest(Younger(t, ks[d], off)) /\ e = d - 1
    OBVIOUS
  <2> HIDE DEF t, d, e
  <2>2. Calls(t, off, nodes, frames', e, f, q, ks, Lowest(Younger(t, ks[d], off)), 0)
    BY <1>1, <1>3, <1>4, <1>6, <2>1, CallsReturn
  <2>3. RawAhead(t, off, props, q, ks, e, Lowest(Younger(t, ks[d], off)), 0)
    BY <1>1, <1>3, <1>5, <1>6, <2>1, RawReturn
  <2> QED
    BY <1>2, <1>4, <1>6, <2>1, <2>2, <2>3 DEF Walking, t
<1> QED
  BY <1>5, <1>6

-----------------------------------------------------------------------------
(* The invariant of the rewrite pass. *)
WalkOK ==
  /\ pc \in {"map", "mapRest", "reserve", "parse"} => AllRaw
  /\ pc = "rewrite" => \E f, q, ks, c, p : Walking(f, q, ks, c, p)

(* Every step of dt_initialize keeps it. *)
LEMMA WalkKept ==
  ASSUME DeviceTreeAssumption, PointersOK, ShapeOK, WalkOK, [Next]_vars
  PROVE  WalkOK'
<1> USE DEF Goto, Return, Panic, Trap
<1>1. ASSUME props' = props, pc' \notin {"rewrite", "parse"}, pc' \in {"map", "mapRest", "reserve"} =>
               pc \in {"map", "mapRest", "reserve"}
      PROVE  WalkOK'
  BY <1>1 DEF WalkOK, AllRaw
<1>2. CASE MapFirst \/ MapRest \/ MapFails \/ AllocBuffer \/ Reserve
  BY <1>1, <1>2 DEF MapFirst, MapRest, MapFails, AllocBuffer, Reserve, treeVars
<1>3. ASSUME pc = "parse" \/ pc = "reserve", props' = props, pc' \notin {"rewrite"}
      PROVE  WalkOK'
  BY <1>3 DEF WalkOK, AllRaw
<1>4. CASE ReserveEnds \/ ParseNode \/ ParseEndNode \/ ParseNop \/ ParseUnknown
  BY <1>3, <1>4 DEF ReserveEnds, ParseNode, ParseEndNode, ParseNop, ParseUnknown, treeVars
<1>5. CASE ParseProperty
  <2>1. pc = "parse" /\ pc' \in {"parse", "panic", "trap"} /\ ArrayOK(props) /\ AllRaw
    BY <1>5 DEF ParseProperty, PointersOK, TreeOK, WalkOK
  <2>2. CASE pc' # "parse"
    BY <2>1, <2>2 DEF WalkOK
  <2>3. CASE pc' = "parse"
    <3>1. PICK named \in BOOLEAN, copied \in BOOLEAN :
            props' = ARRAY_PUSH(props, PROP_CAP, NewProperty(named, copied))
      BY <1>5, <2>3 DEF ParseProperty
    <3> DEFINE v == NewProperty(named, copied)
    <3>2. v.type = "RAW"
      BY DEF NewProperty
    <3> HIDE DEF v
    <3>3. Elements(props') \subseteq Elements(props) \cup {v}
      BY <2>1, <3>1, Pushed DEF v
    <3> QED
      BY <2>1, <2>3, <3>2, <3>3 DEF WalkOK, AllRaw
  <2> QED
    BY <2>2, <2>3
<1>6. CASE ParseEnd
  <2>1. pc = "parse" /\ pc' \in {"panic", "failed", "rewrite"} /\ AllRaw
    BY <1>6 DEF ParseEnd, WalkOK
  <2>2. CASE pc' = "rewrite"
    <3>1. PICK f, q : TreeIs(f, q)
      BY <2>1 DEF ShapeOK
    <3>2. PICK r : r = Lowest(NodesTo(blob.tokens, off))
      OBVIOUS
    <3>3. PICK ks : ks = [i \in {1} |-> r]
      OBVIOUS
    <3>4. \E c, p : Walking(f, q, ks, c, p)'
      BY <1>6, <2>1, <2>2, <3>1, <3>2, <3>3, WalkStart
    <3> QED
      BY <2>2, <3>4 DEF WalkOK
  <2> QED
    BY <2>1, <2>2 DEF WalkOK
<1>7. ASSUME RewriteProperty \/ RewriteChild \/ RewriteReturn
      PROVE  /\ pc = "rewrite" /\ ReadAll /\ pc' \in {"rewrite", "print", "failed", "panic", "trap"}
             /\ \E f, q, ks, c, p : Walking(f, q, ks, c, p)
  BY <1>7 DEF RewriteProperty, RewriteChild, RewriteReturn, ShapeOK, WalkOK
<1>8. ASSUME pc' \in {"print", "failed", "panic", "trap"}
      PROVE  WalkOK'
  BY <1>8 DEF WalkOK
<1>9. ASSUME NEW f, NEW q, NEW ks, NEW c, NEW p, Walking(f, q, ks, c, p)', pc' = "rewrite"
      PROVE  WalkOK'
  BY <1>9 DEF WalkOK
<1>10. CASE RewriteProperty
  <2>1. PICK f, q, ks, c, p : Walking(f, q, ks, c, p)
    BY <1>7, <1>10
  <2>2. PICK p2 : p2 = Highest(Own(blob.tokens, ks[Len(frames)], p))
    OBVIOUS
  <2>3. pc' = "rewrite" => Walking(f, q, ks, c, p2)'
    BY <1>7, <1>10, <2>1, <2>2, WalkProperty
  <2> QED
    BY <1>7, <1>8, <1>9, <1>10, <2>3
<1>11. CASE RewriteChild
  <2>1. PICK f, q, ks, c, p : Walking(f, q, ks, c, p)
    BY <1>7, <1>11
  <2>2. PICK ls, c2, p2 : /\ ls = Longer(ks, Len(frames), c)
                          /\ c2 = Lowest(Kids(blob.tokens, c, off))
                          /\ p2 = Highest(Own(blob.tokens, c, off))
    OBVIOUS
  <2>3. Walking(f, q, ls, c2, p2)'
    BY <1>7, <1>11, <2>1, <2>2, WalkChild
  <2> QED
    BY <1>7, <1>8, <1>9, <1>11, <2>3
<1>12. CASE RewriteReturn
  <2>1. PICK f, q, ks, c, p : Walking(f, q, ks, c, p)
    BY <1>7, <1>12
  <2>2. PICK c2 : c2 = Lowest(Younger(blob.tokens, ks[Len(frames)], off))
    OBVIOUS
  <2>3. Len(frames) # 1 => Walking(f, q, ks, c2, 0)'
    BY <1>7, <1>12, <2>1, <2>2, WalkReturn
  <2>4. pc' = IF Len(frames) = 1 THEN "print" ELSE "rewrite"
    BY <1>12, ReturnFrames
  <2> QED
    BY <1>8, <1>9, <2>3, <2>4
<1>13. CASE PrintTree \/ Unmap \/ Done
  <2>1. pc' \in {"unmap", "done", "failed"}
    BY <1>13 DEF PrintTree, Unmap, Done
  <2> QED
    BY <2>1 DEF WalkOK
<1>14. CASE UNCHANGED vars
  <2>1. UNCHANGED <<blob, off, curr, nodes, props, frames, pc>>
    BY <1>14 DEF vars, treeVars, parsing
  <2> QED
    BY <2>1 DEF WalkOK, Walking, TreeIs, AllRaw
<1> QED
  BY <1>2, <1>4, <1>5, <1>6, <1>10, <1>11, <1>12, <1>13, <1>14 DEF Next

(* What the walk is about to rewrite is raw. *)
LEMMA WalksRaw ==
  ASSUME PointersOK, WalkOK
  PROVE  MeetsOnlyRaw
<1> SUFFICES ASSUME pc = "rewrite", Top.prop # NULL, Deref(props, Top.prop).type # "RAW"
             PROVE  FALSE
  BY DEF MeetsOnlyRaw
<1> DEFINE t == blob.tokens
           d == Len(frames)
<1>1. PICK f, q, ks, c, p : Walking(f, q, ks, c, p)
  BY DEF WalkOK
<1>2. /\ Calls(t, off, nodes, frames, d, f, q, ks, c, p) /\ RawAhead(t, off, props, q, ks, d, c, p)
      /\ Built(t, off, nodes, props, f, q)
  BY <1>1 DEF Walking, TreeIs
<1>3. Top = frames[d] /\ p \in Own(t, ks[d], off) /\ p # 0 /\ Top.prop = q[p]
  BY <1>2 DEF Calls, Ptr, Top
<1>4. p \in PropsTo(t, off) /\ Owner(t, p) = ks[d] /\ p \in Nat
  BY <1>3 DEF Own, PropsTo
<1>5. Places(q, PropsTo(t, off), props)
  BY <1>2 DEF Built
<1>6. PICK j \in PropsTo(t, off) : q[p] = q[j] /\ Behind(t, off, ks, d, c, p, j)
  BY <1>2, <1>3, <1>4, <1>5 DEF RawAhead, Places
<1>7. j = p
  BY <1>4, <1>5, <1>6 DEF Places
<1>8. ks[d] \in Nat
  BY <1>2 DEF Calls, Path, NodesTo
<1> QED
  BY <1>3, <1>4, <1>6, <1>7, <1>8 DEF Behind

(* The rewrite pass meets every property once: what it is about to rewrite *)
(* is raw, on any blob at all.                                             *)
THEOREM PropertiesMetOnce == Spec => []MeetsOnlyRaw
<1>1. Init => PointersOK /\ ShapeOK /\ WalkOK
  <2> SUFFICES ASSUME Init
               PROVE  WalkOK
    BY PointersInit, ShapeInit
  <2>1. props = <<>> /\ pc = "map"
    BY DEF Init, ARRAY_INIT
  <2>2. Elements(<<>>) = {}
    BY DEF Elements
  <2> QED
    BY <2>1, <2>2 DEF WalkOK, AllRaw
<1>2. PointersOK /\ ShapeOK /\ WalkOK /\ [Next]_vars => (PointersOK /\ ShapeOK /\ WalkOK)'
  BY DeviceTreeAssumption, PointersKept, ShapeKept, WalkKept
<1>3. PointersOK /\ WalkOK => MeetsOnlyRaw
  BY WalksRaw
<1> QED
  BY <1>1, <1>2, <1>3, PTL DEF Spec

-----------------------------------------------------------------------------
(* The cells of the nodes, with the tokens as a parameter: what a node     *)
(* declares for its subnodes, and the cells that follow from it.           *)
Decl(t, n, k, name, default) ==
  LET d == {j \in Own(t, k, n) : t[j].name = name}
  IN IF d = {} \/ \E j \in d : t[j].value = <<>> THEN default ELSE t[Min(d)].value[1]

CellsFrom(t, n, C, k) ==
  IF k = Lowest(NodesTo(t, n)) THEN <<2, 1>>
  ELSE <<Decl(t, n, Owner(t, k), "#address-cells", C[Owner(t, k)][1]),
         Decl(t, n, Owner(t, k), "#size-cells", C[Owner(t, k)][2])>>

IsCells(t, n, C) == \A k \in NodesTo(t, n) : C[k] = CellsFrom(t, n, C, k)

(* Every node but the first is within another one. *)
LEMMA OwnerOfNode ==
  ASSUME NEW t, NEW n, Nested(t, n), Orderly(t, n), NEW k \in NodesTo(t, n), k # Lowest(NodesTo(t, n))
  PROVE  Owner(t, k) \in NodesTo(t, n) /\ Owner(t, k) < k /\ Owner(t, k) # 0
<1> DEFINE r == Lowest(NodesTo(t, n))
<1>1. r \in NodesTo(t, n) /\ r <= k
  BY RootOutside
<1>2. r < k /\ k \in 1 .. n
  <2>1. r \in Nat /\ k \in Nat /\ k \in 1 .. n
    BY <1>1 DEF NodesTo, Nested
  <2> HIDE DEF r
  <2>2. r # k
    BY DEF r
  <2> QED
    BY <1>1, <2>1, <2>2
<1>3. Owner(t, k) # 0
  <2> HIDE DEF r
  <2> QED
    BY <1>1, <1>2 DEF Orderly
<1>4. Owner(t, k) \in 0 .. k - 1
  BY <1>2, OwnerBefore
<1>5. Owner(t, k) \in NodesTo(t, n)
  BY <1>2, <1>3, OwnerBefore
<1> QED
  BY <1>2, <1>3, <1>4, <1>5

(* There are such cells for every tree. *)
LEMMA CellsExist ==
  ASSUME NEW t, NEW n, Nested(t, n), Orderly(t, n)
  PROVE  \E C : IsCells(t, n, C)
<1> DEFINE N == NodesTo(t, n)
           Eq(C, k) == C[k] = CellsFrom(t, n, C, k)
           Bad == {m \in 0 .. n : ~ \E C : \A k \in N : k <= m => Eq(C, k)}
<1>1. n \in Nat \ {0} /\ N \in SUBSET (1 .. n - 1) /\ \A k \in N : k \in Nat \ {0} /\ k <= n
  BY DEF Nested, NodesTo
<1>2. Bad = {}
  <2> SUFFICES ASSUME Bad # {}
               PROVE  FALSE
    OBVIOUS
  <2>1. Bad \in SUBSET Nat
    BY <1>1
  <2>2. PICK m \in Bad : \A j \in Bad : m <= j
    <3> HIDE DEF Bad
    <3> QED
      BY <2>1, LeastNat
  <2>3. m \in 0 .. n /\ ~ \E C : \A k \in N : k <= m => Eq(C, k)
    BY <2>2
  <2>4. m # 0
    <3> SUFFICES ASSUME m = 0
                 PROVE  \A k \in N : k <= m => Eq(<<>>, k)
      BY <2>3
    <3> QED
      BY <1>1
  <2>5. m - 1 \in 0 .. n /\ m - 1 \notin Bad
    <3>1. m - 1 \in 0 .. n /\ ~(m <= m - 1)
      BY <1>1, <2>3, <2>4
    <3> HIDE DEF Bad
    <3> QED
      BY <2>2, <3>1
  <2>6. PICK C : \A k \in N : k <= m - 1 => Eq(C, k)
    BY <2>5
  <2> DEFINE C2 == [k \in 1 .. n |-> IF k = m THEN CellsFrom(t, n, C, k) ELSE C[k]]
  <2>7. \A k \in 1 .. n : k # m => C2[k] = C[k]
    OBVIOUS
  <2>8. ASSUME NEW k \in N, k <= m
        PROVE  CellsFrom(t, n, C2, k) = CellsFrom(t, n, C, k)
    <3>1. CASE k = Lowest(N)
      BY <3>1 DEF CellsFrom
    <3>2. CASE k # Lowest(N)
      <4> DEFINE o == Owner(t, k)
      <4>1. o \in N /\ o < k
        BY <3>2, OwnerOfNode
      <4>2. o \in 1 .. n /\ o # m
        BY <1>1, <2>3, <2>8, <4>1
      <4>3. C2[o] = C[o]
        BY <2>7, <4>2
      <4> HIDE DEF o, C2
      <4> QED
        BY <4>3 DEF CellsFrom, o
    <3> QED
      BY <3>1, <3>2
  <2>9. ASSUME NEW k \in N, k <= m
        PROVE  Eq(C2, k)
    <3>1. k \in 1 .. n
      BY <1>1
    <3>2. CASE k = m
      <4>1. C2[k] = CellsFrom(t, n, C, k)
        BY <3>1, <3>2
      <4> HIDE DEF C2
      <4> QED
        BY <2>8, <2>9, <4>1
    <3>3. CASE k # m
      <4>1. C2[k] = C[k]
        BY <2>7, <3>1, <3>3
      <4>2. k <= m - 1
        BY <1>1, <2>3, <2>9, <3>1, <3>3
      <4>3. Eq(C, k)
        BY <2>6, <4>2
      <4> HIDE DEF C2
      <4> QED
        BY <2>8, <2>9, <4>1, <4>3
    <3> QED
      BY <3>2, <3>3
  <2> HIDE DEF C2, Eq
  <2> QED
    BY <2>3, <2>9
<1>3. PICK C : \A k \in N : k <= n => Eq(C, k)
  BY <1>1, <1>2
<1>4. \A k \in N : Eq(C, k)
  BY <1>1, <1>3
<1> QED
  BY <1>4 DEF IsCells

(* And only one such assignment of cells. *)
LEMMA CellsUnique ==
  ASSUME NEW t, NEW n, Nested(t, n), Orderly(t, n), NEW C, IsCells(t, n, C), NEW D, IsCells(t, n, D)
  PROVE  \A k \in NodesTo(t, n) : C[k] = D[k]
<1> DEFINE N == NodesTo(t, n)
           Bad == {k \in N : C[k] # D[k]}
<1>1. N \in SUBSET Nat /\ Bad \in SUBSET Nat
  BY DEF NodesTo
<1>2. Bad = {}
  <2> SUFFICES ASSUME Bad # {}
               PROVE  FALSE
    OBVIOUS
  <2>1. PICK k \in Bad : \A j \in Bad : k <= j
    <3> HIDE DEF Bad
    <3> QED
      BY <1>1, LeastNat
  <2>2. k \in N /\ C[k] # D[k] /\ C[k] = CellsFrom(t, n, C, k) /\ D[k] = CellsFrom(t, n, D, k)
    BY <2>1 DEF IsCells
  <2>3. k # Lowest(N)
    BY <2>2 DEF CellsFrom
  <2> DEFINE o == Owner(t, k)
  <2>4. o \in N /\ o < k
    BY <2>2, <2>3, OwnerOfNode
  <2>5. o \notin Bad
    <3>1. o \in Nat /\ k \in Nat
      BY <1>1, <2>2, <2>4
    <3> HIDE DEF Bad, o
    <3> QED
      BY <2>1, <2>4, <3>1
  <2>6. C[o] = D[o]
    BY <2>4, <2>5
  <2> HIDE DEF o
  <2> QED
    BY <2>2, <2>6 DEF CellsFrom, o
<1> QED
  BY <1>2

(* The cells are numbers. *)
CellValues(t, n) ==
  \A j \in PropsTo(t, n) :
    t[j].name \in {"#address-cells", "#size-cells"} /\ t[j].value # <<>> => t[j].value[1] \in Nat

(* When every declaration is a number, all cells are. *)
LEMMA CellsAreNat ==
  ASSUME NEW t, NEW n, Nested(t, n), Orderly(t, n), CellValues(t, n), NEW C, IsCells(t, n, C),
         NEW k \in NodesTo(t, n)
  PROVE  C[k][1] \in Nat /\ C[k][2] \in Nat
<1> DEFINE N == NodesTo(t, n)
           Bad == {x \in N : ~(C[x][1] \in Nat /\ C[x][2] \in Nat)}
<1>1. N \in SUBSET Nat /\ Bad \in SUBSET Nat /\ n \in Nat \ {0}
  BY DEF NodesTo, Nested
<1>2. ASSUME NEW x, NEW name \in {"#address-cells", "#size-cells"}, NEW v \in Nat
      PROVE  Decl(t, n, x, name, v) \in Nat
  <2> DEFINE d == {j \in Own(t, x, n) : t[j].name = name}
  <2>1. d \in SUBSET Nat /\ d \subseteq PropsTo(t, n)
    BY DEF Own, PropsTo
  <2>2. CASE d = {} \/ \E j \in d : t[j].value = <<>>
    BY <2>2 DEF Decl
  <2>3. CASE ~(d = {} \/ \E j \in d : t[j].value = <<>>)
    <3>1. Min(d) \in d
      <4> HIDE DEF d
      <4> QED
        BY <2>1, <2>3, MinIs
    <3> DEFINE m == Min(d)
    <3>2. Decl(t, n, x, name, v) = t[m].value[1]
      BY <2>3 DEF Decl
    <3> HIDE DEF m
    <3>3. m \in PropsTo(t, n) /\ t[m].name = name /\ t[m].value # <<>>
      BY <2>1, <2>3, <3>1 DEF m
    <3> QED
      BY <3>2, <3>3 DEF CellValues
  <2> QED
    BY <2>2, <2>3
<1>3. Bad = {}
  <2> SUFFICES ASSUME Bad # {}
               PROVE  FALSE
    OBVIOUS
  <2>1. PICK x \in Bad : \A j \in Bad : x <= j
    <3> HIDE DEF Bad
    <3> QED
      BY <1>1, LeastNat
  <2>2. x \in N /\ ~(C[x][1] \in Nat /\ C[x][2] \in Nat) /\ C[x] = CellsFrom(t, n, C, x)
    BY <2>1 DEF IsCells
  <2>3. x # Lowest(N)
    BY <2>2 DEF CellsFrom
  <2> DEFINE o == Owner(t, x)
  <2>4. o \in N /\ o < x
    BY <2>2, <2>3, OwnerOfNode
  <2>5. o \notin Bad
    <3>1. o \in Nat /\ x \in Nat
      BY <1>1, <2>2, <2>4
    <3> HIDE DEF Bad, o
    <3> QED
      BY <2>1, <2>4, <3>1
  <2>6. C[o][1] \in Nat /\ C[o][2] \in Nat
    BY <2>4, <2>5
  <2> HIDE DEF o
  <2>7. C[x] = <<Decl(t, n, o, "#address-cells", C[o][1]), Decl(t, n, o, "#size-cells", C[o][2])>>
    BY <2>2, <2>3 DEF CellsFrom, o
  <2> QED
    BY <1>2, <2>2, <2>6, <2>7
<1> QED
  BY <1>3

-----------------------------------------------------------------------------
(* What the loop over the properties of node k has found of a declaration, *)
(* when it is at property p and has seen those after it.                   *)
Found(t, n, k, p, name, default, v) ==
  LET d == {j \in Own(t, k, n) : j > p /\ t[j].name = name}
  IN IF d = {} THEN v = default ELSE \E j \in d : t[j].value # <<>> /\ v = t[j].value[1]

(* No two properties of a node have the same name. *)
OneName(t, n) ==
  \A k \in NodesTo(t, n) : \A i, j \in Own(t, k, n) : t[i].name = t[j].name => i = j

(* At the start it has found nothing. *)
LEMMA FoundNone ==
  ASSUME NEW t, NEW n, Nested(t, n), NEW k, NEW p, p = Highest(Own(t, k, n)), NEW name, NEW v
  PROVE  Found(t, n, k, p, name, v, v)
<1> DEFINE O == Own(t, k, n)
<1>1. O \in SUBSET (1 .. n) /\ n \in Nat /\ \A j \in O : j \in Nat
  BY DEF Own, PropsTo, Nested
<1>2. \A j \in O : j <= Highest(O) /\ Highest(O) \in Nat
  <2> HIDE DEF O
  <2> QED
    BY <1>1, HighestIs
<1>3. \A j \in Own(t, k, n) : ~(j > p)
  BY <1>1, <1>2
<1>4. {j \in Own(t, k, n) : j > p /\ t[j].name = name} = {}
  BY <1>3
<1> QED
  BY <1>4 DEF Found

(* The next property: it is the declaration, or another one. *)
LEMMA FoundNext ==
  ASSUME NEW t, NEW n, Nested(t, n), NEW k, NEW p \in Own(t, k, n), NEW name, NEW default,
         NEW v, Found(t, n, k, p, name, default, v), NEW p2, p2 = Highest(Own(t, k, p)),
         NEW v2, IF t[p].name = name THEN t[p].value # <<>> /\ v2 = t[p].value[1] ELSE v2 = v
  PROVE  Found(t, n, k, p2, name, default, v2)
<1> DEFINE O == Own(t, k, n)
           S == Own(t, k, p)
           A == {j \in O : j > p /\ t[j].name = name}
           B == {j \in O : j > p2 /\ t[j].name = name}
<1>1. p \in Nat \ {0} /\ \A j \in O : j \in Nat
  BY DEF Own, PropsTo
<1>2. S \in SUBSET (1 .. p) /\ \A j \in S : j < p /\ j \in Nat
  BY <1>1 DEF Own, PropsTo
<1>3. p2 \in Nat /\ p2 < p /\ \A j \in S : j <= p2
  <2>1. p2 = Highest(S)
    OBVIOUS
  <2> HIDE DEF S
  <2>2. p2 = 0 \/ p2 \in S
    BY <1>1, <1>2, <2>1, HighestIs
  <2>3. \A j \in S : j <= p2
    BY <1>1, <1>2, <2>1, HighestIs
  <2>4. CASE p2 = 0
    BY <1>1, <2>3, <2>4
  <2>5. CASE p2 \in S
    BY <1>2, <2>3, <2>5
  <2> QED
    BY <2>2, <2>4, <2>5
<1>4. \A j \in O : j < p => j \in S
  BY <1>1 DEF Own, PropsTo
<1>5. \A j \in O : j > p2 <=> j = p \/ j > p
  <2> HIDE DEF O, S
  <2> QED
    BY <1>1, <1>3, <1>4
<1>6. IF A = {} THEN v = default ELSE \E j \in A : t[j].value # <<>> /\ v = t[j].value[1]
  BY DEF Found
<1> SUFFICES IF B = {} THEN v2 = default ELSE \E j \in B : t[j].value # <<>> /\ v2 = t[j].value[1]
  BY DEF Found
<1>7. CASE t[p].name = name
  <2>1. p \in B
    BY <1>5, <1>7
  <2> HIDE DEF B
  <2> QED
    BY <1>7, <2>1
<1>8. CASE t[p].name # name
  <2>1. A = B
    BY <1>5, <1>8
  <2> HIDE DEF A, B
  <2> QED
    BY <1>6, <1>8, <2>1
<1> QED
  BY <1>7, <1>8

(* At the end it has found what the node declares. *)
LEMMA FoundAll ==
  ASSUME NEW t, NEW n, OneName(t, n), NEW k \in NodesTo(t, n), NEW name, NEW default,
         NEW v, Found(t, n, k, 0, name, default, v)
  PROVE  Decl(t, n, k, name, default) = v
<1> DEFINE A == {j \in Own(t, k, n) : j > 0 /\ t[j].name = name}
           B == {j \in Own(t, k, n) : t[j].name = name}
<1>1. B \in SUBSET Nat /\ \A j \in Own(t, k, n) : j > 0
  BY DEF Own, PropsTo
<1>2. A = B
  BY <1>1
<1>3. IF B = {} THEN v = default ELSE \E j \in B : t[j].value # <<>> /\ v = t[j].value[1]
  BY <1>2 DEF Found
<1>4. CASE B = {}
  BY <1>3, <1>4 DEF Decl
<1>5. CASE B # {}
  <2>1. PICK j \in B : t[j].value # <<>> /\ v = t[j].value[1]
    BY <1>3, <1>5
  <2>2. \A i \in B : i = j
    BY DEF OneName
  <2>3. Min(B) = j
    <3> HIDE DEF B
    <3> QED
      BY <1>1, <1>5, <2>2, MinIs
  <2>4. ~ \E i \in B : t[i].value = <<>>
    BY <2>1, <2>2
  <2> QED
    BY <1>5, <2>1, <2>3, <2>4 DEF Decl
<1> QED
  BY <1>4, <1>5
-----------------------------------------------------------------------------
(* What has been read into a property fits the cells of its node. *)
LikeReads(e, r) == e.num = r.num /\ e.data = r.data

RightProp(e, a, s) ==
  /\ e.type = "REG" => /\ a + s # 0 /\ Len(e.value) % (a + s) = 0
                       /\ LikeReads(e, Reads("REG", e.value, <<a, s>>))
  /\ e.type \in {"RANGES", "DMA_RANGES"} =>
       a # 0 /\ s # 0 /\ LikeReads(e, Reads("RANGES", e.value, <<a, a, s>>))

(* A declaration of cells was read as one. *)
DeclRead(e, r, name, type) ==
  IF e.name = name THEN e.value # <<>> /\ r.type = type /\ r.num = e.value[1] ELSE r.type # type

(* The rewrite of a property that goes well. *)
GoodRewrite(e, a, s, r) ==
  /\ e.name # ""
  /\ DeclRead(e, r, "#address-cells", "ADDRESS_CELLS")
  /\ DeclRead(e, r, "#size-cells", "SIZE_CELLS")
  /\ r.type = "REG" => /\ a + s # 0 /\ Len(e.value) % (a + s) = 0
                       /\ LikeReads(r, Reads("REG", e.value, <<a, s>>))
  /\ r.type \in {"RANGES", "DMA_RANGES"} =>
       a # 0 /\ s # 0 /\ LikeReads(r, Reads("RANGES", e.value, <<a, a, s>>))

(* Any rewrite that goes well is such a one. *)
LEMMA RewriteIs ==
  ASSUME NEW e, NEW a, NEW s, NEW full, e.value = <<>> => e.null,
         NEW r, r = Rewrite(e, a, s, full), r.how = "ok"
  PROVE  GoodRewrite(e, a, s, r)
<1> USE DEF DeclRead, GoodRewrite
<1>1. CASE e.name = ""
  BY <1>1 DEF Rewrite, Stops
<1>2. CASE e.name = "compatible"
  BY <1>2 DEF Rewrite, Compatible, Stops, Becomes
<1>3. CASE e.name = "model"
  BY <1>3 DEF Rewrite, Becomes
<1>4. CASE e.name \in {"phandle", "linux,phandle"}
  BY <1>4 DEF Rewrite, Number, Stops, Becomes
<1>5. CASE e.name = "status"
  BY <1>5 DEF Rewrite, Status, Stops, Becomes
<1>6. CASE e.name = "#address-cells"
  BY <1>6 DEF Rewrite, Cells, Number, Stops, Becomes
<1>7. CASE e.name = "#size-cells"
  BY <1>7 DEF Rewrite, Cells, Number, Stops, Becomes
<1>8. CASE e.name \in {"dma-coherent", "dma-noncoherent"}
  BY <1>8 DEF Rewrite, Becomes
<1>9. CASE e.name = "device_type"
  BY <1>9 DEF Rewrite, Becomes
<1>10. CASE e.name = "reg"
  <2>1. r = Reg(e, a, s, full)
    BY <1>10 DEF Rewrite
  <2>2. ~(a + s = 0) /\ Len(e.value) % (a + s) = 0 /\ r = Reads("REG", e.value, <<a, s>>)
    BY <2>1 DEF Reg, Stops
  <2>3. r.type = "REG"
    BY <2>2 DEF Reads
  <2> QED
    BY <1>10, <2>2, <2>3 DEF LikeReads
<1>11. ASSUME NEW x, x = Ranges(e, a, s, full), x.how = "ok"
       PROVE  a # 0 /\ s # 0 /\ x = Reads("RANGES", e.value, <<a, a, s>>) /\ x.type = "RANGES"
  <2>1. a # 0 /\ s # 0 /\ x = Reads("RANGES", e.value, <<a, a, s>>)
    BY <1>11 DEF Ranges, Stops
  <2> QED
    BY <2>1 DEF Reads
<1>12. CASE e.name = "ranges"
  <2>1. r = Ranges(e, a, s, full)
    BY <1>12 DEF Rewrite
  <2> QED
    BY <1>11, <1>12, <2>1 DEF LikeReads
<1>13. CASE e.name = "dma-ranges"
  <2> DEFINE x == Ranges(e, a, s, full)
  <2>1. r = IF x.how = "ok" THEN [x EXCEPT !.type = "DMA_RANGES"] ELSE x
    BY <1>13 DEF Rewrite
  <2>2. x.how = "ok"
    <3> HIDE DEF x
    <3> QED
      BY <2>1
  <2>3. a # 0 /\ s # 0 /\ x = Reads("RANGES", e.value, <<a, a, s>>)
    BY <1>11, <2>2
  <2> HIDE DEF x
  <2> DEFINE y == Reads("RANGES", e.value, <<a, a, s>>)
  <2>4. DOMAIN y = {"how", "type", "num", "data"}
    BY DEF Reads
  <2> HIDE DEF y
  <2>5. r = [y EXCEPT !.type = "DMA_RANGES"]
    BY <2>1, <2>2, <2>3 DEF y
  <2>6. DOMAIN r = DOMAIN y /\ r.type = "DMA_RANGES" /\ r.num = y.num /\ r.data = y.data
    BY <2>4, <2>5
  <2> QED
    BY <1>13, <2>3, <2>6 DEF LikeReads, y
<1>14. CASE e.name \notin {"", "compatible", "model", "phandle", "linux,phandle", "status", "#address-cells",
                           "#size-cells", "dma-coherent", "dma-noncoherent", "device_type", "reg", "ranges",
                           "dma-ranges"}
  <2>1. r = Becomes("RAW", 0)
    BY <1>14 DEF Rewrite
  <2>2. r.type = "RAW"
    BY <2>1 DEF Becomes
  <2> QED
    BY <1>14, <2>2
<1> QED
  BY <1>1, <1>2, <1>3, <1>4, <1>5, <1>6, <1>7, <1>8, <1>9, <1>10, <1>12, <1>13, <1>14

-----------------------------------------------------------------------------
(* The place of a node in the tree that state.root will be. *)
Here(t, n, nd, f, k) == IF k = Lowest(NodesTo(t, n)) THEN First(nd) ELSE f[k]

CellsAre(e, v) == e.address_cells = v[1] /\ e.size_cells = v[2]

(* The cells of a call, for the subnodes of node k, past the properties    *)
(* after p.                                                                *)
FrameCells(t, n, k, p, v, fr) ==
  /\ Found(t, n, k, p, "#address-cells", v[1], fr.next_address_cells)
  /\ Found(t, n, k, p, "#size-cells", v[2], fr.next_size_cells)

(* The nodes of E have been entered: their subnodes are of them or ahead.  *)
Entered(t, n, ks, d, c, E) ==
  /\ E \subseteq NodesTo(t, n) /\ Lowest(NodesTo(t, n)) \in E
  /\ \A i \in 1 .. d : ks[i] \in E
  /\ \A k \in E : Kids(t, k, n) \subseteq E \cup Ahead(t, n, ks, d, c)

(* They have their cells, every call has those it has found, and what has  *)
(* been read into properties fits them.                                    *)
NodesSettled(t, n, nd, f, C, E) == \A k \in E : CellsAre(Deref(nd, Here(t, n, nd, f, k)), C[k])

CallsSettled(t, n, fr, d, ks, p, C) ==
  /\ FrameCells(t, n, ks[d], p, C[ks[d]], fr[d])
  /\ \A i \in 1 .. d - 1 : FrameCells(t, n, ks[i], 0, C[ks[i]], fr[i])

PropsSettled(t, n, pr, q, C) ==
  \A j \in PropsTo(t, n) : RightProp(Deref(pr, q[j]), C[Owner(t, j)][1], C[Owner(t, j)][2])

(* Cells are written to a node and to no other. *)
GivesCells(t, n, nd, f, c, a, s, nd2) == nd2 = WithCells(nd, Here(t, n, nd, f, c), a, s)

(* A node that is given cells has them, and every other node keeps its     *)
(* own.                                                                    *)
LEMMA CellsGiven ==
  ASSUME NEW t, NEW n, NEW nd, NEW pr, NEW f, NEW q, Built(t, n, nd, pr, f, q), Rooted(t, n, nd, f, q),
         NEW c \in NodesTo(t, n), NEW a, NEW s,
         NEW nd2, GivesCells(t, n, nd, f, c, a, s, nd2), NEW k \in NodesTo(t, n)
  PROVE  /\ k = c => CellsAre(Deref(nd2, Here(t, n, nd2, f, k)), <<a, s>>)
         /\ k # c => \A v : CellsAre(Deref(nd, Here(t, n, nd, f, k)), v) =>
                               CellsAre(Deref(nd2, Here(t, n, nd2, f, k)), v)
<1> DEFINE r == Lowest(NodesTo(t, n))
           x == Here(t, n, nd, f, c)
           y == Here(t, n, nd, f, k)
           w == [Deref(nd, x) EXCEPT !.address_cells = a, !.size_cells = s]
<1>1. /\ First(nd) \in Pointers(nd) \ {NULL} /\ \A z \in NodesTo(t, n) : z # r => f[z][2] # 1
  BY DEF Rooted
<1>2. \A z \in NodesTo(t, n) : f[z] \in Pointers(nd) \ {NULL}
  BY DEF Built, Places
<1>3. First(nd)[2] = 1
  BY DEF First
<1>4. x \in Pointers(nd) \ {NULL} /\ y \in Pointers(nd) \ {NULL}
  BY <1>1, <1>2 DEF Here
<1>5. x = y <=> k = c
  <2>1. Places(f, NodesTo(t, n), nd)
    BY DEF Built
  <2>2. CASE k = c
    BY <2>2
  <2>3. CASE k # c
    <3>1. f[k] # f[c]
      BY <2>1, <2>3 DEF Places
    <3>2. k # r => f[k] # First(nd)
      BY <1>1, <1>3
    <3>3. c # r => f[c] # First(nd)
      BY <1>1, <1>3
    <3> QED
      BY <2>3, <3>1, <3>2, <3>3 DEF Here
  <2> QED
    BY <2>2, <2>3
<1>6. First(nd2) = First(nd)
  <2> HIDE DEF x
  <2>1. nd2 = WithCells(nd, x, a, s)
    BY DEF GivesCells, x
  <2> QED
    BY <1>4, <2>1, CellsKeepTree
<1>7. Here(t, n, nd2, f, k) = y
  BY <1>6 DEF Here
<1>8. DOMAIN Deref(nd, x) = NodeFields /\ ArrayOK(nd)
  BY <1>4 DEF Built
<1>9. w.address_cells = a /\ w.size_cells = s
  <2> DEFINE e == Deref(nd, x)
  <2>1. DOMAIN e = NodeFields
    BY <1>8
  <2> HIDE DEF e
  <2> QED
    BY <2>1 DEF NodeFields, e
<1>10. nd2 = Store(nd, x, w)
  BY DEF GivesCells, WithCells
<1> HIDE DEF x, y, w
<1>11. Deref(nd2, y) = IF y = x THEN w ELSE Deref(nd, y)
  BY <1>4, <1>8, <1>10, StoredDeref
<1> QED
  BY <1>5, <1>7, <1>9, <1>11 DEF CellsAre, y

(* The start of the rewrite pass. *)
LEMMA SettledStart ==
  ASSUME NEW t, NEW n, NEW nd, NEW pr, NEW f, NEW q, Built(t, n, nd, pr, f, q), Rooted(t, n, nd, f, q),
         NodesTo(t, n) # {}, NEW r, r = Lowest(NodesTo(t, n)), NEW C, IsCells(t, n, C),
         NEW nd2, nd2 = WithCells(nd, First(nd), 2, 1),
         NEW fr, fr[1] = Frame(nd2, First(nd)), NEW ks, ks[1] = r,
         NEW c, c = Lowest(Kids(t, r, n)), NEW p, p = Highest(Own(t, r, n)),
         \A j \in PropsTo(t, n) : Deref(pr, q[j]).type = "RAW"
  PROVE  /\ Entered(t, n, ks, 1, c, {r}) /\ NodesSettled(t, n, nd2, f, C, {r})
         /\ CallsSettled(t, n, fr, 1, ks, p, C) /\ PropsSettled(t, n, pr, q, C)
<1>1. Nested(t, n) /\ r \in NodesTo(t, n)
  BY RootOutside DEF Built
<1>2. C[r] = <<2, 1>> /\ C[r][1] = 2 /\ C[r][2] = 1
  <2>1. C[r] = <<2, 1>>
    BY <1>1 DEF IsCells, CellsFrom
  <2> QED
    BY <2>1
<1>3. GivesCells(t, n, nd, f, r, 2, 1, nd2)
  BY DEF GivesCells, Here
<1>4. CellsAre(Deref(nd2, Here(t, n, nd2, f, r)), <<2, 1>>)
  BY <1>1, <1>3, CellsGiven
<1>5. NodesSettled(t, n, nd2, f, C, {r})
  BY <1>2, <1>4 DEF NodesSettled
<1>6. First(nd2) = First(nd)
  <2>1. First(nd) \in Pointers(nd) \ {NULL}
    BY DEF Rooted
  <2> QED
    BY <2>1, CellsKeepTree
<1>7. fr[1].next_address_cells = 2 /\ fr[1].next_size_cells = 1
  <2>1. Here(t, n, nd2, f, r) = First(nd)
    BY <1>6 DEF Here
  <2>2. Deref(nd2, First(nd)).address_cells = 2 /\ Deref(nd2, First(nd)).size_cells = 1
    BY <1>4, <2>1 DEF CellsAre
  <2> QED
    BY <2>2 DEF Frame
<1>8. CallsSettled(t, n, fr, 1, ks, p, C)
  <2>1. \A name, v : Found(t, n, r, p, name, v, v)
    BY <1>1, FoundNone
  <2>2. 1 .. 1 - 1 = {}
    OBVIOUS
  <2> QED
    BY <1>2, <1>7, <2>1, <2>2 DEF CallsSettled, FrameCells
<1>9. PropsSettled(t, n, pr, q, C)
  BY DEF PropsSettled, RightProp
<1>10. Entered(t, n, ks, 1, c, {r})
  <2> DEFINE K == Kids(t, r, n)
  <2>1. K \in SUBSET (Nat \ {0})
    BY DEF Kids, NodesTo
  <2>2. \A x \in K : c # 0 /\ x >= c
    <3>1. c = Lowest(K)
      OBVIOUS
    <3> HIDE DEF K
    <3>2. ASSUME NEW x \in K
          PROVE  c # 0 /\ x >= c
      <4>1. c \in K /\ c <= x
        BY <2>1, <3>1, LowestIs
      <4> QED
        BY <2>1, <4>1
    <3> QED
      BY <3>2
  <2>3. K \subseteq AheadAt(t, n, ks, 1, c, 1)
    BY <2>2 DEF AheadAt
  <2>4. K \subseteq Ahead(t, n, ks, 1, c)
    BY <2>3 DEF Ahead
  <2>5. 1 .. 1 = {1}
    OBVIOUS
  <2> QED
    BY <1>1, <2>4, <2>5 DEF Entered
<1> QED
  BY <1>5, <1>8, <1>9, <1>10

(* A property is rewritten. *)
PropertyDone(t, n, nd, pr, f, q, ks, d, p, fr, pr2, fr2) ==
  \E full, x : LET r == Rewrite(Deref(pr, q[p]), Deref(nd, x).address_cells, Deref(nd, x).size_cells, full)
               IN /\ x = Here(t, n, nd, f, ks[d]) /\ r.how = "ok"
                  /\ pr2 = Store(pr, q[p], Written(Deref(pr, q[p]), r))
                  /\ \A i \in 1 .. d - 1 : fr2[i] = fr[i]
                  /\ fr2[d].next_address_cells =
                       IF r.type = "ADDRESS_CELLS" THEN r.num ELSE fr[d].next_address_cells
                  /\ fr2[d].next_size_cells = IF r.type = "SIZE_CELLS" THEN r.num ELSE fr[d].next_size_cells

(* The rewrite of one property keeps it. *)
LEMMA SettledProperty ==
  ASSUME NEW t, NEW n, NEW nd, NEW pr, NEW f, NEW q, Built(t, n, nd, pr, f, q),
         NEW ks, NEW d, Path(t, n, ks, d), NEW C, NEW E, NEW fr, NEW p, p \in Own(t, ks[d], n),
         NEW c, Entered(t, n, ks, d, c, E), NodesSettled(t, n, nd, f, C, E),
         CallsSettled(t, n, fr, d, ks, p, C), PropsSettled(t, n, pr, q, C),
         NEW pr2, NEW fr2, PropertyDone(t, n, nd, pr, f, q, ks, d, p, fr, pr2, fr2)
  PROVE  /\ CallsSettled(t, n, fr2, d, ks, Highest(Own(t, ks[d], p)), C)
         /\ PropsSettled(t, n, pr2, q, C)
<1>0. PICK full, x :
        LET r == Rewrite(Deref(pr, q[p]), Deref(nd, x).address_cells, Deref(nd, x).size_cells, full)
        IN /\ x = Here(t, n, nd, f, ks[d]) /\ r.how = "ok"
           /\ pr2 = Store(pr, q[p], Written(Deref(pr, q[p]), r))
           /\ \A i \in 1 .. d - 1 : fr2[i] = fr[i]
           /\ fr2[d].next_address_cells = IF r.type = "ADDRESS_CELLS" THEN r.num ELSE fr[d].next_address_cells
           /\ fr2[d].next_size_cells = IF r.type = "SIZE_CELLS" THEN r.num ELSE fr[d].next_size_cells
  BY Zenon DEF PropertyDone
<1> DEFINE p2 == Highest(Own(t, ks[d], p))
           r == Rewrite(Deref(pr, q[p]), Deref(nd, x).address_cells, Deref(nd, x).size_cells, full)
<1>a. /\ x = Here(t, n, nd, f, ks[d]) /\ r.how = "ok"
      /\ pr2 = Store(pr, q[p], Written(Deref(pr, q[p]), r))
      /\ \A i \in 1 .. d - 1 : fr2[i] = fr[i]
  BY <1>0
<1>b. /\ fr2[d].next_address_cells = IF r.type = "ADDRESS_CELLS" THEN r.num ELSE fr[d].next_address_cells
      /\ fr2[d].next_size_cells = IF r.type = "SIZE_CELLS" THEN r.num ELSE fr[d].next_size_cells
  BY <1>0
<1> DEFINE k == ks[d]
           e == Deref(pr, q[p])
           a == Deref(nd, x).address_cells
           s == Deref(nd, x).size_cells
           w == Written(e, r)
<1>1. Nested(t, n) /\ ArrayOK(pr) /\ Places(q, PropsTo(t, n), pr) /\ d \in Nat \ {0} /\ d \in 1 .. d
  BY DEF Built, Path
<1>2. p \in PropsTo(t, n) /\ Owner(t, p) = k /\ PropIs(t, q, p, e)
  BY DEF Own, Built
<1>3. e.value = t[p].value /\ e.name \in {"", t[p].name} /\ (e.value = <<>> => e.null)
  BY <1>2 DEF PropIs
<1>4. q[p] \in Pointers(pr) \ {NULL} /\ DOMAIN e = PropFields
  BY <1>1, <1>2 DEF Places, Built
<1>5. a = C[k][1] /\ s = C[k][2]
  <2>1. k \in E
    BY <1>1 DEF Entered
  <2> QED
    BY <1>a, <2>1 DEF NodesSettled, CellsAre
<1>6. r = Rewrite(e, a, s, full) /\ r.how = "ok"
  BY <1>a
<1> HIDE DEF e, a, s, r, p2
<1>7. GoodRewrite(e, a, s, r)
  BY <1>3, <1>6, RewriteIs
<1>8. w.value = e.value /\ w.type = r.type /\ w.num = r.num /\ w.data = r.data
  BY <1>4 DEF Written, PropFields
<1> HIDE DEF w
<1>9. RightProp(w, a, s)
  BY <1>7, <1>8 DEF RightProp, LikeReads, GoodRewrite
<1>10. PropsSettled(t, n, pr2, q, C)
  <2> SUFFICES ASSUME NEW j \in PropsTo(t, n)
               PROVE  RightProp(Deref(pr2, q[j]), C[Owner(t, j)][1], C[Owner(t, j)][2])
    BY DEF PropsSettled
  <2>1. Deref(pr2, q[j]) = IF q[j] = q[p] THEN w ELSE Deref(pr, q[j])
    <3>1. pr2 = Store(pr, q[p], w) /\ q[j] \in Pointers(pr) \ {NULL}
      BY <1>1, <1>a DEF Places, w, e
    <3> QED
      BY <1>1, <1>4, <3>1, StoredDeref
  <2>2. CASE j = p
    BY <1>2, <1>5, <1>9, <2>1, <2>2
  <2>3. CASE j # p
    <3>1. q[j] # q[p]
      BY <1>1, <1>2, <2>3 DEF Places
    <3> QED
      BY <2>1, <3>1 DEF PropsSettled
  <2> QED
    BY <2>2, <2>3
<1>11. FrameCells(t, n, k, p2, C[k], fr2[d])
  <2>1. p2 = Highest(Own(t, k, p)) /\ p \in Own(t, k, n)
    BY DEF p2
  <2>2. FrameCells(t, n, k, p, C[k], fr[d])
    BY DEF CallsSettled
  <2> HIDE DEF k
  <2>3. Found(t, n, k, p2, "#address-cells", C[k][1], fr2[d].next_address_cells)
    <3>1. Found(t, n, k, p, "#address-cells", C[k][1], fr[d].next_address_cells)
      BY <2>2 DEF FrameCells
    <3>2. IF t[p].name = "#address-cells"
          THEN t[p].value # <<>> /\ fr2[d].next_address_cells = t[p].value[1]
          ELSE fr2[d].next_address_cells = fr[d].next_address_cells
      BY <1>3, <1>7, <1>b DEF DeclRead, GoodRewrite
    <3> QED
      BY <1>1, <2>1, <3>1, <3>2, FoundNext
  <2>4. Found(t, n, k, p2, "#size-cells", C[k][2], fr2[d].next_size_cells)
    <3>1. Found(t, n, k, p, "#size-cells", C[k][2], fr[d].next_size_cells)
      BY <2>2 DEF FrameCells
    <3>2. IF t[p].name = "#size-cells"
          THEN t[p].value # <<>> /\ fr2[d].next_size_cells = t[p].value[1]
          ELSE fr2[d].next_size_cells = fr[d].next_size_cells
      BY <1>3, <1>7, <1>b DEF DeclRead, GoodRewrite
    <3> QED
      BY <1>1, <2>1, <3>1, <3>2, FoundNext
  <2> QED
    BY <2>3, <2>4 DEF FrameCells
<1>12. CallsSettled(t, n, fr2, d, ks, p2, C)
  BY <1>11, <1>a DEF CallsSettled
<1> QED
  BY <1>10, <1>12 DEF p2

-----------------------------------------------------------------------------
(* A subnode is entered, with the cells that its node has declared.        *)
ChildDone(nd, f, d, c, fr, nd2, fr2) ==
  /\ nd2 = WithCells(nd, f[c], fr[d].next_address_cells, fr[d].next_size_cells)
  /\ \A i \in 1 .. d : fr2[i] = fr[i]
  /\ fr2[d + 1] = Frame(nd2, f[c])

(* The call for a child of the node on top keeps it. *)
LEMMA SettledChild ==
  ASSUME NEW t, NEW n, NEW nd, NEW pr, NEW f, NEW q, Built(t, n, nd, pr, f, q), Rooted(t, n, nd, f, q),
         Orderly(t, n), OneName(t, n), NEW C, IsCells(t, n, C), NEW E,
         NEW ks, NEW d, Path(t, n, ks, d), NEW fr, NEW c, c \in Kids(t, ks[d], n),
         Entered(t, n, ks, d, c, E), NodesSettled(t, n, nd, f, C, E), CallsSettled(t, n, fr, d, ks, 0, C),
         NEW nd2, NEW fr2, ChildDone(nd, f, d, c, fr, nd2, fr2)
  PROVE  /\ Entered(t, n, Longer(ks, d, c), d + 1, Lowest(Kids(t, c, n)), E \cup {c})
         /\ NodesSettled(t, n, nd2, f, C, E \cup {c})
         /\ CallsSettled(t, n, fr2, d + 1, Longer(ks, d, c), Highest(Own(t, c, n)), C)
<1>0. PICK a, s, ls, c2, p2, E2 :
        /\ a = fr[d].next_address_cells /\ s = fr[d].next_size_cells
        /\ ls = Longer(ks, d, c) /\ c2 = Lowest(Kids(t, c, n))
        /\ p2 = Highest(Own(t, c, n)) /\ E2 = E \cup {c}
  OBVIOUS
<1>a. /\ nd2 = WithCells(nd, f[c], a, s) /\ fr2[d + 1] = Frame(nd2, f[c])
      /\ \A i \in 1 .. d : fr2[i] = fr[i]
  BY <1>0 DEF ChildDone
<1> DEFINE k == ks[d]
           N == NodesTo(t, n)
<1>1. Nested(t, n) /\ d \in Nat \ {0} /\ d \in 1 .. d /\ k \in N /\ c \in N /\ Owner(t, c) = k
  BY DEF Built, Path, Kids
<1>2. k < c /\ k \in Nat /\ c \in Nat
  <2>1. k < c
    BY <1>1, KidIs
  <2> QED
    BY <1>1, <2>1 DEF NodesTo
<1>3. c # Lowest(N)
  <2>1. Lowest(N) <= k /\ Lowest(N) \in Nat
    <3>1. Lowest(N) \in N /\ Lowest(N) <= k
      BY <1>1, RootOutside
    <3> QED
      BY <3>1 DEF NodesTo
  <2> HIDE DEF N, k
  <2> QED
    BY <1>2, <2>1
<1>4. C[c] = <<a, s>> /\ C[c][1] = a /\ C[c][2] = s
  <2>1. FrameCells(t, n, k, 0, C[k], fr[d])
    BY DEF CallsSettled
  <2>2. Decl(t, n, k, "#address-cells", C[k][1]) = a
    BY <1>0, <1>1, <2>1, FoundAll DEF FrameCells
  <2>3. Decl(t, n, k, "#size-cells", C[k][2]) = s
    BY <1>0, <1>1, <2>1, FoundAll DEF FrameCells
  <2>4. C[c] = CellsFrom(t, n, C, c)
    BY <1>1 DEF IsCells
  <2>5. C[c] = <<a, s>>
    BY <1>1, <1>3, <2>2, <2>3, <2>4 DEF CellsFrom
  <2> QED
    BY <2>5
<1>5. Here(t, n, nd, f, c) = f[c] /\ Here(t, n, nd2, f, c) = f[c]
  BY <1>3 DEF Here
<1>6. GivesCells(t, n, nd, f, c, a, s, nd2) /\ CellsAre(Deref(nd2, f[c]), <<a, s>>)
  <2>1. GivesCells(t, n, nd, f, c, a, s, nd2)
    BY <1>5, <1>a DEF GivesCells
  <2> QED
    BY <1>1, <1>5, <2>1, CellsGiven
<1>7. NodesSettled(t, n, nd2, f, C, E2)
  <2> SUFFICES ASSUME NEW x \in E2
               PROVE  CellsAre(Deref(nd2, Here(t, n, nd2, f, x)), C[x])
    BY DEF NodesSettled
  <2>0. x \in E \/ x = c
    BY <1>0
  <2>1. CASE x = c
    BY <1>4, <1>5, <1>6, <2>1
  <2>2. CASE x # c
    <3>1. x \in E /\ x \in N
      BY <2>0, <2>2 DEF Entered
    <3>2. CellsAre(Deref(nd, Here(t, n, nd, f, x)), C[x])
      BY <3>1 DEF NodesSettled
    <3> QED
      BY <1>1, <1>6, <2>2, <3>1, <3>2, CellsGiven
  <2> QED
    BY <2>1, <2>2
<1>8. ls[d + 1] = c /\ \A i \in 1 .. d : ls[i] = ks[i]
  BY <1>0, <1>1 DEF Longer
<1>9. CallsSettled(t, n, fr2, d + 1, ls, p2, C)
  <2>1. FrameCells(t, n, c, p2, C[c], fr2[d + 1])
    <3>1. fr2[d + 1].next_address_cells = a /\ fr2[d + 1].next_size_cells = s
      BY <1>6, <1>a DEF Frame, CellsAre
    <3>2. \A name, v : Found(t, n, c, p2, name, v, v)
      BY <1>0, <1>1, FoundNone
    <3> QED
      BY <1>4, <3>1, <3>2 DEF FrameCells
  <2>2. ASSUME NEW i \in 1 .. (d + 1) - 1
        PROVE  FrameCells(t, n, ls[i], 0, C[ls[i]], fr2[i])
    <3>1. i \in 1 .. d /\ (i = d \/ i \in 1 .. d - 1)
      BY <1>1
    <3>2. FrameCells(t, n, ks[i], 0, C[ks[i]], fr[i])
      BY <3>1 DEF CallsSettled
    <3> QED
      BY <1>8, <1>a, <3>1, <3>2
  <2> QED
    BY <1>8, <2>1, <2>2 DEF CallsSettled
<1>10. Entered(t, n, ls, d + 1, c2, E2)
  <2> DEFINE A == Ahead(t, n, ks, d, c)
             B == Ahead(t, n, ls, d + 1, c2)
  <2>1. B = (A \ {c}) \cup Kids(t, c, n)
    BY <1>0, <1>1, EnterAhead
  <2> HIDE DEF A, B
  <2>2. \A x \in E2 : Kids(t, x, n) \subseteq E2 \cup B
    BY <1>0, <2>1 DEF Entered, A
  <2>3. \A i \in 1 .. d + 1 : i = d + 1 \/ i \in 1 .. d
    BY <1>1
  <2>4. \A i \in 1 .. d + 1 : ls[i] \in E2
    BY <1>0, <1>8, <2>3 DEF Entered
  <2> QED
    BY <1>0, <1>1, <2>2, <2>4 DEF Entered, B
<1> QED
  BY <1>0, <1>7, <1>9, <1>10

(* A return: the same nodes are ahead.                                     *)
LEMMA SettledReturn ==
  ASSUME NEW t, NEW n, Nested(t, n), NEW C, NEW E, NEW ks, NEW d, Path(t, n, ks, d), d # 1, NEW fr,
         Entered(t, n, ks, d, 0, E), CallsSettled(t, n, fr, d, ks, 0, C),
         NEW e, e = d - 1, NEW fr2, \A i \in 1 .. e - 1 : fr2[i] = fr[i],
         fr2[e].next_address_cells = fr[e].next_address_cells, fr2[e].next_size_cells = fr[e].next_size_cells,
         NEW c2, c2 = Lowest(Younger(t, ks[d], n))
  PROVE  Entered(t, n, ks, e, c2, E) /\ CallsSettled(t, n, fr2, e, ks, 0, C)
<1>1. d \in Nat \ {0, 1} /\ e \in Nat \ {0} /\ e \in 1 .. d - 1 /\ \A i \in 1 .. e : i \in 1 .. d
  BY DEF Path
<1>2. Ahead(t, n, ks, e, c2) = Ahead(t, n, ks, d, 0)
  BY LeaveAhead
<1>3. Entered(t, n, ks, e, c2, E)
  BY <1>1, <1>2 DEF Entered
<1>4. \A i \in 1 .. e - 1 : i \in 1 .. d - 1
  BY <1>1
<1>5. CallsSettled(t, n, fr2, e, ks, 0, C)
  BY <1>1, <1>4 DEF CallsSettled, FrameCells
<1> QED
  BY <1>3, <1>5

(* The last return: all nodes have been entered.                           *)
LEMMA SettledEnd ==
  ASSUME NEW t, NEW n, Nested(t, n), Orderly(t, n), NEW E, NEW ks, Entered(t, n, ks, 1, 0, E)
  PROVE  E = NodesTo(t, n)
<1> DEFINE N == NodesTo(t, n)
           Bad == N \ E
<1>1. Bad \in SUBSET Nat
  BY DEF NodesTo
<1>2. Ahead(t, n, ks, 1, 0) = {}
  <2>1. \A i \in 1 .. 1 : AheadAt(t, n, ks, 1, 0, i) = {}
    BY DEF AheadAt
  <2> QED
    BY <2>1 DEF Ahead
<1>3. Bad = {}
  <2> SUFFICES ASSUME Bad # {}
               PROVE  FALSE
    OBVIOUS
  <2>1. PICK k \in Bad : \A j \in Bad : k <= j
    <3> HIDE DEF Bad
    <3> QED
      BY <1>1, LeastNat
  <2>2. k \in N /\ k # Lowest(N)
    BY DEF Entered
  <2> DEFINE o == Owner(t, k)
  <2>3. o \in N /\ o < k
    BY <2>2, OwnerOfNode
  <2>4. o \in Nat /\ k \in Nat
    BY <2>2, <2>3 DEF NodesTo
  <2>5. o \in E
    <3>1. o \notin Bad
      <4> HIDE DEF Bad, o
      <4> QED
        BY <2>1, <2>3, <2>4
    <3> QED
      BY <2>3, <3>1
  <2>6. k \in Kids(t, o, n)
    BY <2>2 DEF Kids
  <2> HIDE DEF o
  <2> QED
    BY <1>2, <2>1, <2>5, <2>6 DEF Entered
<1> QED
  BY <1>3 DEF Entered

-----------------------------------------------------------------------------
(* The rewrite pass over a blob in order, with the cells C that the tokens *)
(* give and the nodes E entered so far.                                    *)
InOrder == Orderly(blob.tokens, off) /\ OneName(blob.tokens, off)

Settling(f, q, ks, c, p, C, E) ==
  LET t == blob.tokens
      d == Len(frames)
  IN /\ Walking(f, q, ks, c, p) /\ IsCells(t, off, C)
     /\ Entered(t, off, ks, d, c, E) /\ NodesSettled(t, off, nodes, f, C, E)
     /\ CallsSettled(t, off, frames, d, ks, p, C) /\ PropsSettled(t, off, props, q, C)

(* And the tree it leaves. *)
AllSettled(f, q, C) ==
  LET t == blob.tokens
  IN /\ TreeIs(f, q) /\ IsCells(t, off, C)
     /\ NodesSettled(t, off, nodes, f, C, NodesTo(t, off)) /\ PropsSettled(t, off, props, q, C)
     /\ \A x \in Pointers(props) \ {NULL} :
          Deref(props, x).type # "RAW" => \E j \in PropsTo(t, off) : x = q[j]

(* Its start. *)
LEMMA SettleStart ==
  ASSUME NEW f, NEW q, TreeIs(f, q), ParseEnd, pc' = "rewrite", AllRaw, InOrder
  PROVE  \E ks, c, p, C, E : Settling(f, q, ks, c, p, C, E)'
<1> DEFINE t == blob.tokens
<1>1. PICK r, ks : r = Lowest(NodesTo(t, off)) /\ ks = [i \in {1} |-> r]
  OBVIOUS
<1>2. Len(frames') = 1 /\ frames'[1] = Frame(nodes', First(nodes))
  BY <1>1, WalkStart
<1>3. PICK c, p : Walking(f, q, ks, c, p)' /\ c = Lowest(Kids(t, r, off)) /\ p = Highest(Own(t, r, off))
  BY <1>1, WalkStart DEF InOrder
<1>4. /\ off' = off /\ props' = props /\ NodesTo(t, off) # {} /\ nodes' = WithCells(nodes, First(nodes), 2, 1)
  BY ParseEndTree
<1>5. blob' = blob
  BY DEF ParseEnd
<1>6. /\ Built(t, off, nodes, props, f, q) /\ Rooted(t, off, nodes, f, q) /\ Nested(t, off)
      /\ ArrayOK(props) /\ Places(q, PropsTo(t, off), props)
  BY DEF TreeIs, Built
<1>7. PICK C : IsCells(t, off, C)
  BY <1>6, CellsExist DEF InOrder
<1>8. \A j \in PropsTo(t, off) : Deref(props, q[j]).type = "RAW"
  <2>1. \A j \in PropsTo(t, off) : q[j] \in Pointers(props) \ {NULL}
    BY <1>6 DEF Places
  <2>2. \A j \in PropsTo(t, off) : Deref(props, q[j]) \in Elements(props)
    BY <1>6, <2>1, DerefElement
  <2> QED
    BY <2>2 DEF AllRaw
<1>9. ks[1] = r
  BY <1>1
<1> DEFINE nd2 == nodes'
           fr2 == frames'
<1>10. nd2 = WithCells(nodes, First(nodes), 2, 1) /\ fr2[1] = Frame(nd2, First(nodes))
  BY <1>2, <1>4
<1> HIDE DEF nd2, fr2, t
<1>11. /\ Entered(t, off, ks, 1, c, {r}) /\ NodesSettled(t, off, nd2, f, C, {r})
       /\ CallsSettled(t, off, fr2, 1, ks, p, C) /\ PropsSettled(t, off, props, q, C)
  BY <1>1, <1>3, <1>4, <1>6, <1>7, <1>8, <1>9, <1>10, SettledStart
<1>12. Settling(f, q, ks, c, p, C, {r})'
  BY <1>2, <1>3, <1>4, <1>5, <1>7, <1>11 DEF Settling, nd2, fr2, t
<1> QED
  BY <1>12

(* The node of the last call is at its place. *)
LEMMA TopHere ==
  ASSUME NEW f, NEW q, NEW ks, NEW c, NEW p, Walking(f, q, ks, c, p)
  PROVE  Top.node = Here(blob.tokens, off, nodes, f, ks[Len(frames)])
<1> DEFINE t == blob.tokens
           d == Len(frames)
           r == Lowest(NodesTo(t, off))
<1>1. Calls(t, off, nodes, frames, d, f, q, ks, c, p) /\ Nested(t, off)
  BY DEF Walking, TreeIs, Built
<1>2. d \in Nat \ {0} /\ d \in 1 .. d /\ ks[1] = r /\ ks[d] \in NodesTo(t, off)
  BY <1>1 DEF Calls, Path
<1>3. Top.node = IF d = 1 THEN First(nodes) ELSE f[ks[d]]
  BY <1>1, <1>2 DEF Calls, Top
<1>4. d # 1 => ks[d] # r
  <2> SUFFICES ASSUME d # 1
               PROVE  ks[d] # r
    OBVIOUS
  <2>1. d - 1 \in 1 .. d - 1 /\ (d - 1) + 1 = d /\ d - 1 \in 1 .. d
    BY <1>2
  <2>2. Owner(t, ks[d]) = ks[d - 1] /\ ks[d - 1] \in NodesTo(t, off)
    <3> HIDE DEF d
    <3> QED
      BY <1>1, <2>1 DEF Calls, Path
  <2>3. ks[d - 1] # 0
    BY <2>2 DEF NodesTo
  <2>4. Owner(t, r) = 0
    BY <1>1, <1>2, RootOutside
  <2> HIDE DEF r, d
  <2> QED
    BY <2>2, <2>3, <2>4
<1> QED
  BY <1>2, <1>3, <1>4 DEF Here

(* A round of the loop over the properties. *)
LEMMA SettleProperty ==
  ASSUME PointersOK, ReadAll, NEW f, NEW q, NEW ks, NEW c, NEW p, NEW C, NEW E,
         Settling(f, q, ks, c, p, C, E), RewriteProperty, pc' = "rewrite"
  PROVE  \E p2 : Settling(f, q, ks, c, p2, C, E)'
<1> DEFINE t == blob.tokens
           d == Len(frames)
<1>1. PICK p2 : p2 = Highest(Own(t, ks[d], p))
  OBVIOUS
<1>2. Walking(f, q, ks, c, p)
  BY DEF Settling
<1>3. /\ p # 0 /\ p \in Own(t, ks[d], off) /\ Top.prop = q[p]
      /\ Len(frames') = d /\ Walking(f, q, ks, c, p2)'
  BY <1>1, <1>2, WalkProperty
<1>4. /\ TreeIs(f, q) /\ Calls(t, off, nodes, frames, d, f, q, ks, c, p)
  BY <1>2 DEF Walking
<1>5. Built(t, off, nodes, props, f, q) /\ Path(t, off, ks, d)
  BY <1>4 DEF TreeIs, Calls
<1>6. /\ UNCHANGED <<blob, off, nodes>>
  <2>1. UNCHANGED <<blob, off>>
    BY <1>4, RewriteTree
  <2> QED
    BY <2>1 DEF RewriteProperty
<1>7. /\ d \in Nat \ {0} /\ Top = frames[d] /\ \A i \in 1 .. d - 1 : frames'[i] = frames[i]
  BY PropertyFrames
<1>8. PICK full \in BOOLEAN :
        LET r == RewriteOf(full)
            e == Deref(props, Top.prop)
        IN r.how = "ok" /\ props' = Store(props, Top.prop, Written(e, r)) /\ frames'[d] = NextFrame(Top, e, r)
  BY PropertyFrames
<1> DEFINE x == Here(t, off, nodes, f, ks[d])
           r == Rewrite(Deref(props, q[p]), Deref(nodes, x).address_cells, Deref(nodes, x).size_cells, full)
           fr2 == frames'
           pr2 == props'
<1>9. RewriteOf(full) = r
  BY <1>2, <1>3, TopHere DEF RewriteOf
<1> HIDE DEF x, r
<1>10. /\ r.how = "ok" /\ pr2 = Store(props, q[p], Written(Deref(props, q[p]), r))
       /\ fr2[d] = NextFrame(frames[d], Deref(props, frames[d].prop), r)
       /\ \A i \in 1 .. d - 1 : fr2[i] = frames[i]
  BY <1>3, <1>7, <1>8, <1>9
<1>11. frames[d].prop # NULL
  BY <1>7 DEF RewriteProperty
<1>12. /\ r = Rewrite(Deref(props, q[p]), Deref(nodes, x).address_cells, Deref(nodes, x).size_cells, full)
       /\ x = Here(t, off, nodes, f, ks[d])
  BY DEF r, x
<1>13. /\ Entered(t, off, ks, d, c, E) /\ NodesSettled(t, off, nodes, f, C, E) /\ IsCells(t, off, C)
       /\ CallsSettled(t, off, frames, d, ks, p, C) /\ PropsSettled(t, off, props, q, C)
  BY DEF Settling
<1> HIDE DEF t, d, fr2, pr2
<1>14. fr2[d].next_address_cells = IF r.type = "ADDRESS_CELLS" THEN r.num ELSE frames[d].next_address_cells
  BY <1>4, <1>5, <1>10, <1>11, CallsProperty
<1>15. fr2[d].next_size_cells = IF r.type = "SIZE_CELLS" THEN r.num ELSE frames[d].next_size_cells
  BY <1>4, <1>5, <1>10, <1>11, CallsProperty
<1>16. CallsSettled(t, off, fr2, d, ks, p2, C) /\ PropsSettled(t, off, pr2, q, C)
  <2>1. PropertyDone(t, off, nodes, props, f, q, ks, d, p, frames, pr2, fr2)
    BY <1>10, <1>12, <1>14, <1>15 DEF PropertyDone
  <2>2. p2 = Highest(Own(t, ks[d], p))
    BY <1>1 DEF t, d
  <2>3. /\ CallsSettled(t, off, fr2, d, ks, Highest(Own(t, ks[d], p)), C)
        /\ PropsSettled(t, off, pr2, q, C)
    BY <1>3, <1>5, <1>13, <2>1, SettledProperty
  <2> QED
    BY <2>2, <2>3
<1>17. Settling(f, q, ks, c, p2, C, E)'
  <2>1. blob'.tokens = t /\ off' = off /\ nodes' = nodes /\ Len(frames') = d
    BY <1>3, <1>6 DEF t, d
  <2>2. /\ Entered(blob'.tokens, off', ks, Len(frames'), c, E) /\ IsCells(blob'.tokens, off', C)
        /\ NodesSettled(blob'.tokens, off', nodes', f, C, E)
        /\ CallsSettled(blob'.tokens, off', frames', Len(frames'), ks, p2, C)
        /\ PropsSettled(blob'.tokens, off', props', q, C)
    BY <1>13, <1>16, <2>1 DEF fr2, pr2
  <2> QED
    BY <1>3, <2>2 DEF Settling
<1> QED
  BY <1>17

(* The call for a subnode. *)
LEMMA SettleChild ==
  ASSUME PointersOK, ReadAll, InOrder, NEW f, NEW q, NEW ks, NEW c, NEW p, NEW C, NEW E,
         Settling(f, q, ks, c, p, C, E), RewriteChild
  PROVE  \E ls, c2, p2, E2 : Settling(f, q, ls, c2, p2, C, E2)'
<1> DEFINE t == blob.tokens
           d == Len(frames)
<1>1. PICK ls, c2, p2, E2 :
        /\ ls = Longer(ks, d, c) /\ c2 = Lowest(Kids(t, c, off))
        /\ p2 = Highest(Own(t, c, off)) /\ E2 = E \cup {c}
  OBVIOUS
<1>2. Walking(f, q, ks, c, p)
  BY DEF Settling
<1>3. /\ c # 0 /\ c \in Kids(t, ks[d], off) /\ Top.child = f[c] /\ p = 0
      /\ Len(frames') = d + 1 /\ Walking(f, q, ls, c2, p2)'
  BY <1>1, <1>2, WalkChild
<1>4. /\ TreeIs(f, q) /\ Calls(t, off, nodes, frames, d, f, q, ks, c, p)
  BY <1>2 DEF Walking
<1>5. Built(t, off, nodes, props, f, q) /\ Rooted(t, off, nodes, f, q) /\ Path(t, off, ks, d)
  BY <1>4 DEF TreeIs, Calls
<1>6. /\ UNCHANGED <<blob, off, props>>
  <2>1. UNCHANGED <<blob, off>>
    BY <1>4, RewriteTree
  <2> QED
    BY <2>1 DEF RewriteChild
<1>7. /\ Top = frames[d] /\ \A i \in 1 .. d : frames'[i] = frames[i]
      /\ frames'[d + 1] = Frame(nodes', Top.child)
      /\ nodes' = WithCells(nodes, Top.child, Top.next_address_cells, Top.next_size_cells)
  BY ChildFrames
<1> DEFINE fr2 == frames'
           nd2 == nodes'
           a == frames[d].next_address_cells
           s == frames[d].next_size_cells
<1>8. /\ \A i \in 1 .. d : fr2[i] = frames[i]
      /\ fr2[d + 1] = Frame(nd2, f[c]) /\ nd2 = WithCells(nodes, f[c], a, s)
  BY <1>3, <1>7
<1>9. /\ Entered(t, off, ks, d, c, E) /\ NodesSettled(t, off, nodes, f, C, E) /\ IsCells(t, off, C)
      /\ CallsSettled(t, off, frames, d, ks, 0, C) /\ PropsSettled(t, off, props, q, C)
  BY <1>3 DEF Settling
<1>10. Orderly(t, off) /\ OneName(t, off)
  BY DEF InOrder
<1>11. a = frames[d].next_address_cells /\ s = frames[d].next_size_cells
  OBVIOUS
<1> HIDE DEF t, d, fr2, nd2, a, s
<1>12. /\ Entered(t, off, ls, d + 1, c2, E2) /\ NodesSettled(t, off, nd2, f, C, E2)
       /\ CallsSettled(t, off, fr2, d + 1, ls, p2, C)
  <2>1. ChildDone(nodes, f, d, c, frames, nd2, fr2)
    BY <1>8, <1>11 DEF ChildDone
  <2>2. /\ Entered(t, off, Longer(ks, d, c), d + 1, Lowest(Kids(t, c, off)), E \cup {c})
        /\ NodesSettled(t, off, nd2, f, C, E \cup {c})
        /\ CallsSettled(t, off, fr2, d + 1, Longer(ks, d, c), Highest(Own(t, c, off)), C)
    BY <1>3, <1>5, <1>9, <1>10, <2>1, SettledChild
  <2> QED
    BY <1>1, <2>2 DEF t, d
<1>13. Settling(f, q, ls, c2, p2, C, E2)'
  <2>1. blob'.tokens = t /\ off' = off /\ props' = props /\ Len(frames') = d + 1
    BY <1>3, <1>6 DEF t, d
  <2>2. /\ Entered(blob'.tokens, off', ls, Len(frames'), c2, E2) /\ IsCells(blob'.tokens, off', C)
        /\ NodesSettled(blob'.tokens, off', nodes', f, C, E2)
        /\ CallsSettled(blob'.tokens, off', frames', Len(frames'), ls, p2, C)
        /\ PropsSettled(blob'.tokens, off', props', q, C)
    BY <1>9, <1>12, <2>1 DEF fr2, nd2
  <2> QED
    BY <1>3, <2>2 DEF Settling
<1> QED
  BY <1>13

(* A return. *)
LEMMA SettleReturn ==
  ASSUME PointersOK, ReadAll, InOrder, NEW f, NEW q, NEW ks, NEW c, NEW p, NEW C, NEW E,
         Settling(f, q, ks, c, p, C, E), RewriteReturn
  PROVE  IF Len(frames) # 1 THEN \E c2 : Settling(f, q, ks, c2, 0, C, E)' ELSE AllSettled(f, q, C)'
<1> DEFINE t == blob.tokens
           d == Len(frames)
           e == d - 1
<1>1. PICK c2 : c2 = Lowest(Younger(t, ks[d], off))
  OBVIOUS
<1>2. Walking(f, q, ks, c, p)
  BY DEF Settling
<1>3. /\ c = 0 /\ p = 0
      /\ d # 1 => Len(frames') = e /\ Walking(f, q, ks, c2, 0)'
  BY <1>1, <1>2, WalkReturn
<1>4. /\ TreeIs(f, q) /\ Calls(t, off, nodes, frames, d, f, q, ks, c, p)
      /\ RawAhead(t, off, props, q, ks, d, c, p)
  BY <1>2 DEF Walking
<1>5. Nested(t, off) /\ Path(t, off, ks, d)
  BY <1>4 DEF TreeIs, Built, Calls
<1>6. TreeIs(f, q)' /\ UNCHANGED <<blob, off>>
  BY <1>4, RewriteTree
<1>7. /\ d \in Nat \ {0} /\ props' = props /\ nodes' = nodes
      /\ d # 1 => /\ e \in Nat \ {0} /\ \A i \in 1 .. e - 1 : frames'[i] = frames[i]
                  /\ frames'[e] = [frames[e] EXCEPT !.child = Deref(nodes, @).sibling]
  BY ReturnFrames
<1>8. /\ Entered(t, off, ks, d, 0, E) /\ NodesSettled(t, off, nodes, f, C, E) /\ IsCells(t, off, C)
      /\ CallsSettled(t, off, frames, d, ks, 0, C) /\ PropsSettled(t, off, props, q, C)
  BY <1>3 DEF Settling
<1>9. Orderly(t, off)
  BY DEF InOrder
<1>10. CASE d # 1
  <2> DEFINE fr2 == frames'
             a == frames[e]
             b == fr2[e]
  <2>1. e \in 1 .. d
    <3>1. d \in Nat \ {0} /\ d # 1
      BY <1>7, <1>10
    <3> HIDE DEF d
    <3> QED
      BY <3>1
  <2>2. DOMAIN a = FrameFields /\ b = [a EXCEPT !.child = Deref(nodes, @).sibling]
    <3> HIDE DEF d, e
    <3> QED
      BY <1>4, <1>7, <1>10, <2>1 DEF Calls
  <2>3. b.next_address_cells = a.next_address_cells /\ b.next_size_cells = a.next_size_cells
    <3> HIDE DEF a, b
    <3> QED
      BY <2>2 DEF FrameFields
  <2>4. \A i \in 1 .. e - 1 : fr2[i] = frames[i]
    BY <1>7, <1>10
  <2>5. e = d - 1
    OBVIOUS
  <2> HIDE DEF t, d, e, fr2
  <2>6. Entered(t, off, ks, e, c2, E) /\ CallsSettled(t, off, fr2, e, ks, 0, C)
    BY <1>1, <1>5, <1>8, <1>10, <2>3, <2>4, <2>5, SettledReturn
  <2>7. Settling(f, q, ks, c2, 0, C, E)'
    <3>1. blob'.tokens = t /\ off' = off /\ nodes' = nodes /\ props' = props /\ Len(frames') = e
      BY <1>3, <1>6, <1>7, <1>10 DEF t
    <3>2. /\ Entered(blob'.tokens, off', ks, Len(frames'), c2, E) /\ IsCells(blob'.tokens, off', C)
          /\ NodesSettled(blob'.tokens, off', nodes', f, C, E)
          /\ CallsSettled(blob'.tokens, off', frames', Len(frames'), ks, 0, C)
          /\ PropsSettled(blob'.tokens, off', props', q, C)
      BY <1>8, <2>6, <3>1 DEF fr2
    <3> QED
      BY <1>3, <1>10, <3>2 DEF Settling
  <2> QED
    BY <1>10, <2>7 DEF d
<1>11. CASE d = 1
  <2>1. E = NodesTo(t, off)
    <3> HIDE DEF t, d
    <3> QED
      BY <1>5, <1>8, <1>9, <1>11, SettledEnd
  <2>2. \A x \in Pointers(props) \ {NULL} :
          Deref(props, x).type # "RAW" => \E j \in PropsTo(t, off) : x = q[j]
    BY <1>4 DEF RawAhead
  <2>3. AllSettled(f, q, C)'
    BY <1>6, <1>7, <1>8, <2>1, <2>2 DEF AllSettled
  <2> QED
    BY <1>11, <2>3
<1> QED
  BY <1>10, <1>11

-----------------------------------------------------------------------------
(* What the rewrite pass keeps and leaves, on a blob in order. *)
SettledOK ==
  InOrder =>
    /\ pc = "rewrite" => \E f, q, ks, c, p, C, E : Settling(f, q, ks, c, p, C, E)
    /\ pc \in {"print", "unmap", "done"} => \E f, q, C : AllSettled(f, q, C)

(* Every step of dt_initialize keeps it. *)
LEMMA SettledKept ==
  ASSUME PointersOK, ShapeOK, WalkOK, SettledOK, [Next]_vars
  PROVE  SettledOK'
<1> USE DEF Goto, Return, Panic, Trap
<1>1. ASSUME pc' \notin {"rewrite", "print", "unmap", "done"}
      PROVE  SettledOK'
  BY <1>1 DEF SettledOK
<1>2. CASE MapFirst \/ MapRest \/ MapFails \/ AllocBuffer \/ Reserve \/ ReserveEnds
  <2>1. pc' \in {"map", "mapRest", "reserve", "parse", "failed", "panic", "trap"}
    BY <1>2 DEF MapFirst, MapRest, MapFails, AllocBuffer, Reserve, ReserveEnds
  <2> QED
    BY <1>1, <2>1
<1>3. CASE ParseNode \/ ParseProperty \/ ParseEndNode \/ ParseNop \/ ParseUnknown
  <2>1. pc' \in {"parse", "failed", "panic", "trap"}
    BY <1>3 DEF ParseNode, ParseProperty, ParseEndNode, ParseNop, ParseUnknown
  <2> QED
    BY <1>1, <2>1
<1>4. CASE ParseEnd
  <2>1. pc = "parse" /\ pc' \in {"panic", "failed", "rewrite"} /\ AllRaw /\ blob' = blob
    BY <1>4 DEF ParseEnd, WalkOK
  <2>2. CASE pc' = "rewrite"
    <3>1. PICK f, q : TreeIs(f, q)
      BY <2>1 DEF ShapeOK
    <3>2. off' = off
      BY <1>4, <2>2, <3>1, ParseEndTree
    <3>3. InOrder => \E ks, c, p, C, E : Settling(f, q, ks, c, p, C, E)'
      BY <1>4, <2>1, <2>2, <3>1, SettleStart
    <3> QED
      BY <2>1, <2>2, <3>2, <3>3 DEF SettledOK, InOrder
  <2> QED
    BY <1>1, <2>1, <2>2
<1>5. ASSUME RewriteProperty \/ RewriteChild \/ RewriteReturn, InOrder
      PROVE  /\ pc = "rewrite" /\ ReadAll /\ pc' \in {"rewrite", "print", "failed", "panic", "trap"}
             /\ \E f, q, ks, c, p, C, E : Settling(f, q, ks, c, p, C, E)
  <2>1. pc = "rewrite"
    BY <1>5 DEF RewriteProperty, RewriteChild, RewriteReturn
  <2>2. pc' \in {"rewrite", "print", "failed", "panic", "trap"}
    BY <1>5, <2>1 DEF RewriteProperty, RewriteChild, RewriteReturn
  <2> QED
    BY <1>5, <2>1, <2>2 DEF ShapeOK, SettledOK
<1>6. ASSUME RewriteProperty \/ RewriteChild \/ RewriteReturn
      PROVE  InOrder' = InOrder
  <2>1. UNCHANGED <<blob, off>>
    BY <1>6 DEF RewriteProperty, RewriteChild, RewriteReturn, parsing
  <2> QED
    BY <2>1 DEF InOrder
<1>7. ASSUME NEW f, NEW q, NEW ks, NEW c, NEW p, NEW C, NEW E, Settling(f, q, ks, c, p, C, E)', pc' = "rewrite"
      PROVE  SettledOK'
  BY <1>7 DEF SettledOK
<1>8. CASE RewriteProperty
  <2>0. pc' \in {"rewrite", "failed", "panic", "trap"}
    BY <1>8 DEF RewriteProperty
  <2> SUFFICES ASSUME InOrder, pc' = "rewrite"
               PROVE  SettledOK'
    BY <1>1, <1>6, <1>8, <2>0 DEF SettledOK
  <2>1. PICK f, q, ks, c, p, C, E : Settling(f, q, ks, c, p, C, E)
    BY <1>5, <1>8
  <2>2. PICK p2 : Settling(f, q, ks, c, p2, C, E)'
    BY <1>5, <1>8, <2>1, SettleProperty
  <2> QED
    BY <1>7, <2>2
<1>9. CASE RewriteChild
  <2> SUFFICES ASSUME InOrder
               PROVE  SettledOK'
    BY <1>6, <1>9 DEF SettledOK
  <2>1. PICK f, q, ks, c, p, C, E : Settling(f, q, ks, c, p, C, E)
    BY <1>5, <1>9
  <2>2. PICK ls, c2, p2, E2 : Settling(f, q, ls, c2, p2, C, E2)'
    BY <1>5, <1>9, <2>1, SettleChild
  <2>3. pc' = "rewrite"
    BY <1>9 DEF RewriteChild
  <2> QED
    BY <1>7, <2>2, <2>3
<1>10. CASE RewriteReturn
  <2> SUFFICES ASSUME InOrder
               PROVE  SettledOK'
    BY <1>6, <1>10 DEF SettledOK
  <2>1. PICK f, q, ks, c, p, C, E : Settling(f, q, ks, c, p, C, E)
    BY <1>5, <1>10
  <2>2. IF Len(frames) # 1 THEN \E c2 : Settling(f, q, ks, c2, 0, C, E)' ELSE AllSettled(f, q, C)'
    BY <1>5, <1>10, <2>1, SettleReturn
  <2>3. pc' = IF Len(frames) = 1 THEN "print" ELSE "rewrite"
    BY <1>10, ReturnFrames
  <2>4. CASE Len(frames) # 1
    <3>1. PICK c2 : Settling(f, q, ks, c2, 0, C, E)'
      BY <2>2, <2>4
    <3> QED
      BY <1>7, <2>3, <2>4, <3>1
  <2>5. CASE Len(frames) = 1
    <3>1. AllSettled(f, q, C)' /\ pc' = "print"
      BY <2>2, <2>3, <2>5
    <3> QED
      BY <3>1 DEF SettledOK
  <2> QED
    BY <2>4, <2>5
<1>11. CASE PrintTree \/ Unmap \/ Done
  <2>1. /\ UNCHANGED <<blob, off, curr, nodes, props>> /\ pc \in {"print", "unmap"}
        /\ pc' \in {"unmap", "done", "failed"}
    BY <1>11 DEF PrintTree, Unmap, Done, parsing, treeVars
  <2> QED
    BY <2>1 DEF SettledOK, InOrder, AllSettled, TreeIs
<1>12. CASE UNCHANGED vars
  <2>1. UNCHANGED <<blob, off, curr, nodes, props, frames, pc>>
    BY <1>12 DEF vars, treeVars, parsing
  <2> QED
    BY <2>1 DEF SettledOK, InOrder, AllSettled, Settling, Walking, TreeIs
<1> QED
  BY <1>2, <1>3, <1>4, <1>8, <1>9, <1>10, <1>11, <1>12 DEF Next
-----------------------------------------------------------------------------
(* The cells before a field are the sum of those of the fields before it.  *)
SumStep(fields, S) ==
  S = [g \in 0 .. Len(fields) |-> IF g = 0 THEN 0 ELSE S[g - 1] + fields[g]]

(* CellsBefore adds up the fields before the k-th. *)
LEMMA BeforeEquation ==
  ASSUME NEW fields, NEW W, SumStep(fields, W)
  PROVE  \E S : SumStep(fields, S) /\ \A x : CellsBefore(fields, x) = S[x - 1]
<1> DEFINE S == CHOOSE S : SumStep(fields, S)
<1>1. SumStep(fields, S)
  OBVIOUS
<1>2. ASSUME NEW x
      PROVE  CellsBefore(fields, x) = S[x - 1]
  BY Zenon DEF CellsBefore, SumStep
<1> QED
  BY <1>1, <1>2

(* Two fields, *)
LEMMA CellsOfTwo ==
  ASSUME NEW a \in Nat, NEW s \in Nat
  PROVE  LET fields == <<a, s>>
         IN CellsBefore(fields, 1) = 0 /\ CellsBefore(fields, 2) = a /\ CellsBefore(fields, 3) = a + s
<1> DEFINE fields == <<a, s>>
           W == [g \in 0 .. 2 |-> IF g = 0 THEN 0 ELSE IF g = 1 THEN a ELSE a + s]
<1>1. Len(fields) = 2 /\ fields[1] = a /\ fields[2] = s
  OBVIOUS
<1> HIDE DEF fields
<1>2. W[0] = 0 /\ W[1] = a /\ W[2] = a + s
  OBVIOUS
<1>3. W = [g \in 0 .. 2 |-> IF g = 0 THEN 0 ELSE W[g - 1] + fields[g]]
  <2>1. ASSUME NEW g \in 0 .. 2
        PROVE  W[g] = IF g = 0 THEN 0 ELSE W[g - 1] + fields[g]
    <3>1. g = 0 \/ g = 1 \/ g = 2
      OBVIOUS
    <3> QED
      BY <1>1, <1>2, <3>1
  <2> QED
    BY <2>1
<1>4. SumStep(fields, W)
  BY <1>1, <1>3 DEF SumStep
<1> HIDE DEF W
<1>5. PICK S : SumStep(fields, S) /\ \A x : CellsBefore(fields, x) = S[x - 1]
  BY <1>4, BeforeEquation
<1>6. S = [g \in 0 .. 2 |-> IF g = 0 THEN 0 ELSE S[g - 1] + fields[g]]
  BY <1>1, <1>5 DEF SumStep
<1>7. S[0] = 0
  BY <1>6
<1>8. S[1] = S[0] + fields[1]
  BY <1>6
<1>9. S[2] = S[1] + fields[2]
  BY <1>6
<1>10. 1 - 1 = 0 /\ 2 - 1 = 1 /\ 3 - 1 = 2
  OBVIOUS
<1>11. CellsBefore(fields, 1) = S[0] /\ CellsBefore(fields, 2) = S[1] /\ CellsBefore(fields, 3) = S[2]
  BY <1>5, <1>10
<1> QED
  BY <1>1, <1>7, <1>8, <1>9, <1>11 DEF fields

(* and three. *)
LEMMA CellsOfThree ==
  ASSUME NEW a \in Nat, NEW b \in Nat, NEW s \in Nat
  PROVE  LET fields == <<a, b, s>>
         IN /\ CellsBefore(fields, 1) = 0 /\ CellsBefore(fields, 2) = a /\ CellsBefore(fields, 3) = a + b
            /\ CellsBefore(fields, 4) = a + b + s
<1> DEFINE fields == <<a, b, s>>
           W == [g \in 0 .. 3 |-> IF g = 0 THEN 0 ELSE IF g = 1 THEN a ELSE IF g = 2 THEN a + b ELSE a + b + s]
<1>1. Len(fields) = 3 /\ fields[1] = a /\ fields[2] = b /\ fields[3] = s
  OBVIOUS
<1> HIDE DEF fields
<1>2. W[0] = 0 /\ W[1] = a /\ W[2] = a + b /\ W[3] = a + b + s
  OBVIOUS
<1>3. W = [g \in 0 .. 3 |-> IF g = 0 THEN 0 ELSE W[g - 1] + fields[g]]
  <2>1. ASSUME NEW g \in 0 .. 3
        PROVE  W[g] = IF g = 0 THEN 0 ELSE W[g - 1] + fields[g]
    <3>1. g = 0 \/ g = 1 \/ g = 2 \/ g = 3
      OBVIOUS
    <3> QED
      BY <1>1, <1>2, <3>1
  <2> QED
    BY <2>1
<1>4. SumStep(fields, W)
  BY <1>1, <1>3 DEF SumStep
<1> HIDE DEF W
<1>5. PICK S : SumStep(fields, S) /\ \A x : CellsBefore(fields, x) = S[x - 1]
  BY <1>4, BeforeEquation
<1>6. S = [g \in 0 .. 3 |-> IF g = 0 THEN 0 ELSE S[g - 1] + fields[g]]
  BY <1>1, <1>5 DEF SumStep
<1>7. S[0] = 0
  BY <1>6
<1>8. S[1] = S[0] + fields[1]
  BY <1>6
<1>9. S[2] = S[1] + fields[2]
  BY <1>6
<1>10. S[3] = S[2] + fields[3]
  BY <1>6
<1>11. 1 - 1 = 0 /\ 2 - 1 = 1 /\ 3 - 1 = 2 /\ 4 - 1 = 3
  OBVIOUS
<1>12. /\ CellsBefore(fields, 1) = S[0] /\ CellsBefore(fields, 2) = S[1]
       /\ CellsBefore(fields, 3) = S[2] /\ CellsBefore(fields, 4) = S[3]
  BY <1>5, <1>11
<1> QED
  BY <1>1, <1>7, <1>8, <1>9, <1>10, <1>12 DEF fields

-----------------------------------------------------------------------------
(* The cells that the tokens give are those of the property. *)
CellsBody(C, k) ==
  IF k = RootAt THEN <<2, 1>>
  ELSE LET p == OpenAt(k)
       IN <<Declared(p, "#address-cells", C[p][1]), Declared(p, "#size-cells", C[p][2])>>

(* CellsOf is such a function when there is one. *)
LEMMA CellsEquation ==
  ASSUME NEW W, W = [k \in Begins |-> CellsBody(W, k)]
  PROVE  CellsOf = [k \in Begins |-> CellsBody(CellsOf, k)]
<1> DEFINE P(C) == C = [k \in Begins |->
                         IF k = RootAt THEN <<2, 1>>
                         ELSE LET p == OpenAt(k)
                              IN <<Declared(p, "#address-cells", C[p][1]),
                                   Declared(p, "#size-cells", C[p][2])>>]
<1>1. P(W)
  BY Zenon DEF CellsBody
<1>2. CellsOf = CHOOSE C : P(C)
  BY Zenon DEF CellsOf
<1> HIDE DEF P
<1>3. P(CHOOSE C : P(C))
  BY <1>1, Zenon
<1>4. P(CellsOf)
  BY <1>2, <1>3
<1> QED
  BY <1>4, Zenon DEF P, CellsBody

(* A blob that follows the format is in order, and its cells are those of  *)
(* its tokens.                                                             *)
LEMMA FormatInOrder ==
  ASSUME DeviceTreeAssumption, ShapeOK, Token.kind = "FDT_END", WellFormed, Nested(blob.tokens, off)
  PROVE  InOrder
<1> DEFINE t == blob.tokens
<1>1. /\ \A k \in Begins : OwnProps(k) = Own(t, k, off)
      /\ Orderly(t, off)
  BY FamilySame
<1>2. Begins = NodesTo(t, off)
  BY AllRead
<1>3. OneName(t, off)
  <2> SUFFICES ASSUME NEW k \in NodesTo(t, off), NEW i \in Own(t, k, off), NEW j \in Own(t, k, off),
                      t[i].name = t[j].name
               PROVE  i = j
    BY DEF OneName
  <2>1. k \in Begins /\ i \in OwnProps(k) /\ j \in OwnProps(k)
    BY <1>1, <1>2
  <2> QED
    BY <2>1 DEF WellFormed
<1> QED
  BY <1>1, <1>3 DEF InOrder

(* CellsOf is that assignment. *)
LEMMA CellsOfIs ==
  ASSUME DeviceTreeAssumption, ShapeOK, Token.kind = "FDT_END", WellFormed, Nested(blob.tokens, off),
         NEW C, IsCells(blob.tokens, off, C)
  PROVE  \A k \in Begins : CellsOf[k] = C[k]
<1> DEFINE t == blob.tokens
           W == [k \in Begins |-> C[k]]
<1>1. /\ \A k \in Begins : OwnProps(k) = Own(t, k, off)
      /\ \A k \in Begins \ {RootAt} : Owner(t, k) \in Begins
  BY FamilySame
<1>2. Begins = NodesTo(t, off) /\ RootAt = Lowest(NodesTo(t, off))
  BY AllRead, WellFormedMeans
<1>3. \A k \in Begins \ {RootAt} : OpenAt(k) = Owner(t, k)
  BY <1>2, WellFormedMeans
<1>4. \A k \in Begins : \A name, v : Declared(k, name, v) = Decl(t, off, k, name, v)
  BY <1>1 DEF Declared, Decl
<1>5. ASSUME NEW D, NEW k \in Begins
      PROVE  CellsBody(D, k) = CellsFrom(t, off, D, k)
  <2>1. CASE k = RootAt
    BY <1>2, <2>1 DEF CellsBody, CellsFrom
  <2>2. CASE k # RootAt
    <3> DEFINE o == Owner(t, k)
    <3>1. OpenAt(k) = o /\ o \in Begins
      BY <1>1, <1>3, <2>2
    <3>2. CellsBody(D, k) = <<Declared(o, "#address-cells", D[o][1]), Declared(o, "#size-cells", D[o][2])>>
      BY <2>2, <3>1 DEF CellsBody
    <3>3. CellsFrom(t, off, D, k) =
            <<Decl(t, off, o, "#address-cells", D[o][1]), Decl(t, off, o, "#size-cells", D[o][2])>>
      BY <1>2, <2>2 DEF CellsFrom
    <3> HIDE DEF o
    <3> QED
      BY <1>4, <3>1, <3>2, <3>3
  <2> QED
    BY <2>1, <2>2
<1>6. ASSUME NEW k \in Begins
      PROVE  C[k] = CellsBody(W, k)
  <2>1. C[k] = CellsFrom(t, off, C, k)
    BY <1>2 DEF IsCells
  <2>2. CellsFrom(t, off, C, k) = CellsFrom(t, off, W, k)
    <3>1. CASE k = RootAt
      BY <1>2, <3>1 DEF CellsFrom
    <3>2. CASE k # RootAt
      <4> DEFINE o == Owner(t, k)
      <4>1. W[o] = C[o]
        BY <1>1, <3>2
      <4> HIDE DEF W, o
      <4> QED
        BY <1>2, <3>2, <4>1 DEF CellsFrom, o
    <3> QED
      BY <3>1, <3>2
  <2> HIDE DEF W
  <2> QED
    BY <1>5, <2>1, <2>2
<1>7. W = [k \in Begins |-> CellsBody(W, k)]
  BY <1>6
<1> HIDE DEF W
<1>8. CellsOf = [k \in Begins |-> CellsBody(CellsOf, k)]
  BY <1>7, CellsEquation
<1>9. \A k \in Begins : CellsOf[k] = CellsBody(CellsOf, k)
  BY <1>8, Zenon
<1>10. IsCells(t, off, CellsOf)
  BY <1>2, <1>5, <1>9 DEF IsCells
<1>11. Orderly(t, off)
  BY FormatInOrder DEF InOrder
<1> QED
  BY <1>2, <1>10, <1>11, CellsUnique

(* The declarations of cells in a blob are numbers. *)
LEMMA DeclaredNumbers ==
  ASSUME DeviceTreeAssumption, ShapeOK, Token.kind = "FDT_END", WellFormed
  PROVE  CellValues(blob.tokens, off)
<1> SUFFICES ASSUME NEW j \in PropsTo(blob.tokens, off),
                    blob.tokens[j].name \in {"#address-cells", "#size-cells"}, blob.tokens[j].value # <<>>
             PROVE  blob.tokens[j].value[1] \in Nat
  BY DEF CellValues
<1>1. j \in DOMAIN blob.tokens
  <2>1. DOMAIN blob.tokens = 1 .. off /\ off \in Nat
    BY AllRead DEF ShapeOK, Read
  <2> QED
    BY <2>1 DEF PropsTo
<1> QED
  BY <1>1 DEF ShapeOK, DeviceTreeAssumption

-----------------------------------------------------------------------------
(* A length that is a multiple. *)
LEMMA WholeEntries ==
  ASSUME NEW l \in Nat, NEW m \in Nat \ {0}, l % m = 0
  PROVE  (l \div m) * m = l
OBVIOUS

(* A reg that has been read has as many entries as fit it. *)
LEMMA RegEntries ==
  ASSUME NEW e, NEW a \in Nat, NEW s \in Nat, RightProp(e, a, s), e.type = "REG", Len(e.value) \in Nat
  PROVE  e.num * (a + s) = Len(e.value)
<1> DEFINE l == Len(e.value)
           m == a + s
<1>0. m # 0 /\ l % m = 0 /\ LikeReads(e, Reads("REG", e.value, <<a, s>>))
  BY Zenon DEF RightProp
<1>6. m \in Nat \ {0}
  BY <1>0
<1>7. e.num = Reads("REG", e.value, <<a, s>>).num
  BY <1>0, Zenon DEF LikeReads
<1>1. m \in Nat \ {0} /\ l % m = 0 /\ e.num = Reads("REG", e.value, <<a, s>>).num
  BY <1>0, <1>6, <1>7
<1>2. Reads("REG", e.value, <<a, s>>).num = l \div CellsBefore(<<a, s>>, Len(<<a, s>>) + 1)
  BY DEF Reads
<1>3. Len(<<a, s>>) + 1 = 3 /\ CellsBefore(<<a, s>>, 3) = m
  BY CellsOfTwo
<1>4. e.num = l \div m
  BY <1>1, <1>2, <1>3
<1> HIDE DEF l, m
<1>5. l \in Nat
  BY DEF l
<1> QED
  BY <1>1, <1>4, <1>5, WholeEntries DEF l, m

(* From the invariant to the property. *)
LEMMA SettledIsRight ==
  ASSUME DeviceTreeAssumption, ShapeOK, SettledOK
  PROVE  CellsRight
<1> SUFFICES ASSUME pc = "done", WellFormed
             PROVE  CellsRight
  BY DEF CellsRight
<1> DEFINE t == blob.tokens
<1>1. ReadAll /\ Token.kind = "FDT_END" /\ off \in Nat /\ root = First(nodes)
  BY DEF ShapeOK, ReadAll, Read
<1>2. Nested(t, off)
  <2>1. PICK f, q : TreeIs(f, q)
    BY DEF ShapeOK
  <2> QED
    BY <2>1 DEF TreeIs, Built
<1>3. InOrder
  BY <1>1, <1>2, FormatInOrder
<1>4. PICK f, q, C : AllSettled(f, q, C)
  BY <1>3 DEF SettledOK
<1>5. /\ TreeIs(f, q) /\ IsCells(t, off, C) /\ NodesSettled(t, off, nodes, f, C, NodesTo(t, off))
      /\ PropsSettled(t, off, props, q, C)
  BY <1>4 DEF AllSettled
<1>6. \A x \in Pointers(props) \ {NULL} :
        Deref(props, x).type # "RAW" => \E j \in PropsTo(t, off) : x = q[j]
  BY <1>4 DEF AllSettled
<1>7. Placed = Where(f)
  BY <1>1, <1>5, PlacedIs
<1>8. Begins = NodesTo(t, off) /\ RootAt = Lowest(NodesTo(t, off)) /\ DOMAIN t = 1 .. off
  BY <1>1, AllRead, WellFormedMeans
<1>9. \A k \in Begins : CellsOf[k] = C[k]
  BY <1>1, <1>2, <1>5, CellsOfIs
<1>10. \A k \in Begins : OwnProps(k) = Own(t, k, off)
  BY <1>1, <1>2, FamilySame
<1>11. ASSUME NEW k \in Begins
       PROVE  C[k] = <<C[k][1], C[k][2]>> /\ C[k][1] \in Nat /\ C[k][2] \in Nat
  <2>1. C[k] = CellsFrom(t, off, C, k)
    BY <1>5, <1>8 DEF IsCells
  <2>2. \E u, v : C[k] = <<u, v>>
    BY <2>1 DEF CellsFrom
  <2>3. C[k][1] \in Nat /\ C[k][2] \in Nat
    BY <1>1, <1>2, <1>3, <1>5, <1>8, DeclaredNumbers, CellsAreNat DEF InOrder
  <2> QED
    BY <2>2, <2>3
<1>12. ASSUME NEW k \in Begins
       PROVE  LET e == Deref(nodes, Placed[k])
              IN <<e.address_cells, e.size_cells>> = CellsOf[k]
  <2>1. Placed[k] = Here(t, off, nodes, f, k)
    BY <1>1, <1>7, <1>8 DEF Where, Here
  <2>2. CellsAre(Deref(nodes, Placed[k]), C[k])
    BY <1>5, <1>8, <2>1 DEF NodesSettled
  <2> QED
    BY <1>9, <1>11, <2>2 DEF CellsAre
<1>13. ASSUME NEW k \in Begins, NEW x \in Pointers(props) \ {NULL},
              Deref(props, x).type = "REG", Deref(props, x).at \in OwnProps(k)
       PROVE  Deref(props, x).num * (CellsOf[k][1] + CellsOf[k][2]) = Len(Deref(props, x).value)
  <2> DEFINE e == Deref(props, x)
  <2>1. PICK j \in PropsTo(t, off) : x = q[j]
    BY <1>6, <1>13
  <2>2. e.at = j /\ e.value = t[j].value
    BY <1>5, <2>1 DEF TreeIs, Built, PropIs
  <2>3. Owner(t, j) = k
    BY <1>10, <1>13, <2>2 DEF Own
  <2>4. RightProp(e, C[k][1], C[k][2])
    BY <1>5, <2>1, <2>3 DEF PropsSettled
  <2>5. Len(e.value) \in Nat
    <3> DEFINE v == t[j].value
               S == {v[i] : i \in DOMAIN v}
    <3>1. j \in DOMAIN t
      BY <1>1, <1>8 DEF PropsTo
    <3>2. v \in Seq(S)
      BY <3>1 DEF ShapeOK, DeviceTreeAssumption
    <3> HIDE DEF S, v
    <3>3. Len(v) \in Nat
      BY <3>2
    <3> QED
      BY <2>2, <3>3 DEF v
  <2> HIDE DEF e
  <2>6. e.type = "REG"
    BY <1>13 DEF e
  <2>7. e.num * (C[k][1] + C[k][2]) = Len(e.value)
    BY <1>11, <2>4, <2>5, <2>6, RegEntries
  <2> QED
    BY <1>9, <2>7 DEF e
<1> QED
  BY <1>12, <1>13 DEF CellsRight

(* When dt_initialize succeeds on a blob that follows the format, every    *)
(* node has the cells that the nodes around it declare or inherit, and     *)
(* every reg was divided by them, wherever in its node it stands.          *)
THEOREM CellsAreInherited == Spec => []CellsRight
<1>1. Init => PointersOK /\ ShapeOK /\ WalkOK /\ SettledOK
  <2> SUFFICES ASSUME Init
               PROVE  WalkOK /\ SettledOK
    BY PointersInit, ShapeInit
  <2>1. props = <<>> /\ pc = "map"
    BY DEF Init, ARRAY_INIT
  <2>2. Elements(<<>>) = {}
    BY DEF Elements
  <2> QED
    BY <2>1, <2>2 DEF WalkOK, AllRaw, SettledOK
<1>2. /\ PointersOK /\ ShapeOK /\ WalkOK /\ SettledOK /\ [Next]_vars
      => (PointersOK /\ ShapeOK /\ WalkOK /\ SettledOK)'
  BY DeviceTreeAssumption, PointersKept, ShapeKept, WalkKept, SettledKept
<1>3. ShapeOK /\ SettledOK => CellsRight
  BY DeviceTreeAssumption, SettledIsRight
<1> QED
  BY <1>1, <1>2, <1>3, PTL DEF Spec

-----------------------------------------------------------------------------
(* No node and no call has more than two cells for sizes: a declaration of *)
(* more is refused when it is read.                                        *)
SmallNode(e) == "size_cells" \in DOMAIN e /\ ~(e.size_cells > 2)

SmallNodes(nd) == \A e \in Elements(nd) : SmallNode(e)

SmallFrames(fr) ==
  \A i \in DOMAIN fr : {"next_size_cells"} \subseteq DOMAIN fr[i] /\ ~(fr[i].next_size_cells > 2)

SmallSizes == SmallNodes(nodes) /\ SmallFrames(frames)

(* The fields of a node that are assigned without its cells. *)
LEMMA SmallWritten ==
  ASSUME NEW e, SmallNode(e), NEW x
  PROVE  /\ SmallNode([e EXCEPT !.children = x])
         /\ SmallNode([e EXCEPT !.sibling = x])
         /\ SmallNode([e EXCEPT !.properties = x])
BY DEF SmallNode

(* A node that is written. *)
LEMMA SmallStored ==
  ASSUME NEW nd, ArrayOK(nd), SmallNodes(nd), NEW q, NEW v, Deref(nd, q) \in Elements(nd) => SmallNode(v)
  PROVE  SmallNodes(Store(nd, q, v))
<1> DEFINE new == Store(nd, q, v)
<1>1. \/ Elements(new) \subseteq Elements(nd)
      \/ Deref(nd, q) \in Elements(nd) /\ Elements(new) \subseteq Elements(nd) \cup {v}
  BY StoredElements
<1> HIDE DEF new
<1>2. SmallNodes(new)
  BY <1>1 DEF SmallNodes
<1> QED
  BY <1>2 DEF new

(* A new node that is linked. *)
LEMMA SmallLinked ==
  ASSUME NEW nd, ArrayOK(nd), SmallNodes(nd), NEW p \in Pointers(nd), NEW new
  PROVE  SmallNodes(Link(nd, p, new))
<1> DEFINE c == Deref(nd, p).children
           last == LastSibling(nd, c)
<1>1. CASE p = NULL
  BY <1>1 DEF Link
<1>2. CASE p # NULL /\ c = NULL
  <2> DEFINE v == [Deref(nd, p) EXCEPT !.children = new]
  <2>1. Deref(nd, p) \in Elements(nd) => SmallNode(v)
    BY SmallWritten DEF SmallNodes
  <2>2. Link(nd, p, new) = Store(nd, p, v)
    BY <1>2 DEF Link
  <2> HIDE DEF v
  <2> QED
    BY <2>1, <2>2, SmallStored
<1>3. CASE p # NULL /\ c # NULL
  <2> DEFINE v == [Deref(nd, last) EXCEPT !.sibling = new]
  <2>1. Deref(nd, last) \in Elements(nd) => SmallNode(v)
    BY SmallWritten DEF SmallNodes
  <2>2. Link(nd, p, new) = Store(nd, last, v)
    BY <1>3 DEF Link
  <2> HIDE DEF v, last
  <2> QED
    BY <2>1, <2>2, SmallStored
<1> QED
  BY <1>1, <1>2, <1>3

(* A node that is given few cells, and the call for it. *)
LEMMA SmallCalled ==
  ASSUME NEW nd, ArrayOK(nd), SmallNodes(nd), NEW p \in Pointers(nd) \ {NULL}, NEW a, NEW s, ~(s > 2)
  PROVE  LET new == WithCells(nd, p, a, s)
         IN /\ SmallNodes(new)
            /\ {"next_size_cells"} \subseteq DOMAIN Frame(new, p) /\ ~(Frame(new, p).next_size_cells > 2)
<1> DEFINE d == Deref(nd, p)
           w == [d EXCEPT !.address_cells = a, !.size_cells = s]
           new == WithCells(nd, p, a, s)
<1>1. d \in Elements(nd)
  BY DerefElement
<1>2. SmallNode(d)
  BY <1>1 DEF SmallNodes
<1>3. new = Store(nd, p, w)
  BY DEF WithCells
<1> HIDE DEF d, new
<1>4. SmallNode(w)
  BY <1>2 DEF SmallNode
<1> HIDE DEF w
<1>5. SmallNodes(new)
  BY <1>3, <1>4, SmallStored
<1>6. Pointers(new) = Pointers(nd) /\ ArrayOK(new)
  BY <1>3, Stored
<1>7. Deref(new, p) \in Elements(new)
  BY <1>6, DerefElement
<1>8. SmallNode(Deref(new, p))
  BY <1>5, <1>7 DEF SmallNodes
<1>9. {"next_size_cells"} \subseteq DOMAIN Frame(new, p) /\ ~(Frame(new, p).next_size_cells > 2)
  BY <1>8 DEF Frame, SmallNode
<1> QED
  BY <1>5, <1>9 DEF new

(* A declaration of sizes that is read is at most two. *)
LEMMA SizesRead ==
  ASSUME NEW e, NEW a, NEW s, NEW full, NEW r, r = Rewrite(e, a, s, full), r.how = "ok", r.type = "SIZE_CELLS"
  PROVE  ~(r.num > 2)
<1>1. e.name = "#size-cells"
  <2> SUFFICES ASSUME e.name # "#size-cells"
               PROVE  FALSE
    OBVIOUS
  <2>1. CASE e.name \in {"", "compatible", "model", "phandle", "linux,phandle"}
    BY <2>1 DEF Rewrite, Compatible, Number, Stops, Becomes
  <2>2. CASE e.name \in {"status", "dma-coherent", "dma-noncoherent", "device_type"}
    BY <2>2 DEF Rewrite, Status, Stops, Becomes
  <2>3. CASE e.name = "#address-cells"
    BY <2>3 DEF Rewrite, Cells, Number, Stops, Becomes
  <2>4. CASE e.name = "reg"
    <3>1. r = Reg(e, a, s, full)
      BY <2>4 DEF Rewrite
    <3> QED
      BY <3>1 DEF Reg, Stops, Reads
  <2>5. ASSUME NEW x, x = Ranges(e, a, s, full)
        PROVE  x.type # "SIZE_CELLS" /\ "type" \in DOMAIN x
    BY <2>5 DEF Ranges, Stops, Reads
  <2>6. CASE e.name = "ranges"
    BY <2>5, <2>6 DEF Rewrite
  <2>7. CASE e.name = "dma-ranges"
    <3> DEFINE x == Ranges(e, a, s, full)
    <3>1. r = IF x.how = "ok" THEN [x EXCEPT !.type = "DMA_RANGES"] ELSE x
      BY <2>7 DEF Rewrite
    <3>2. x.type # "SIZE_CELLS" /\ "type" \in DOMAIN x
      BY <2>5
    <3> HIDE DEF x
    <3> QED
      BY <3>1, <3>2
  <2>8. CASE e.name \notin {"", "compatible", "model", "phandle", "linux,phandle", "status", "#address-cells",
                            "#size-cells", "dma-coherent", "dma-noncoherent", "device_type", "reg", "ranges",
                            "dma-ranges"}
    <3>1. r = Becomes("RAW", 0)
      BY <2>8 DEF Rewrite
    <3> QED
      BY <3>1 DEF Becomes
  <2> QED
    BY <2>1, <2>2, <2>3, <2>4, <2>6, <2>7, <2>8
<1>2. r = Cells(e, "SIZE_CELLS", 2)
  BY <1>1 DEF Rewrite
<1> DEFINE n == Number(e, "SIZE_CELLS")
<1>3. r = IF n.num > 2 THEN [n EXCEPT !.how = "failed"] ELSE n
  BY <1>2 DEF Cells
<1>4. "how" \in DOMAIN n
  BY DEF Number, Becomes, Stops
<1> HIDE DEF n
<1> QED
  BY <1>3, <1>4

(* Every step of dt_initialize keeps the sizes small. *)
LEMMA SmallKept ==
  ASSUME PointersOK, SmallSizes, [Next]_vars
  PROVE  SmallSizes'
<1>0. /\ ArrayOK(nodes) /\ curr \in Pointers(nodes) /\ SmallNodes(nodes) /\ SmallFrames(frames)
      /\ IsSeq(frames)
  BY DEF PointersOK, TreeOK, SmallSizes, FramesOK
<1>1. ASSUME UNCHANGED <<nodes, frames>>
      PROVE  SmallSizes'
  BY <1>1 DEF SmallSizes
<1>2. ASSUME SmallNodes(nodes'), frames' = frames
      PROVE  SmallSizes'
  BY <1>2 DEF SmallSizes
<1>3. CASE ParseNode
  <2> DEFINE v == NewNode
             pushed == ARRAY_PUSH(nodes, NODE_CAP, v)
             new == Newest(pushed)
  <2>1. frames' = frames /\ (nodes' = nodes \/ nodes' = Link(pushed, curr, new))
    BY <1>3 DEF ParseNode
  <2>2. SmallNode(v)
    BY DEF NewNode, SmallNode
  <2> HIDE DEF v
  <2>3. ArrayOK(pushed) /\ Elements(pushed) \subseteq Elements(nodes) \cup {v} /\ Pointers(nodes) \subseteq Pointers(pushed)
    BY <1>0, Pushed
  <2> HIDE DEF pushed, new
  <2>4. SmallNodes(pushed)
    BY <1>0, <2>2, <2>3 DEF SmallNodes
  <2>5. SmallNodes(Link(pushed, curr, new))
    BY <1>0, <2>3, <2>4, SmallLinked
  <2> QED
    BY <1>1, <1>2, <2>1, <2>5
<1>4. CASE ParseProperty
  <2> DEFINE d == Deref(nodes, curr)
             w == [d EXCEPT !.properties = Newest(props')]
  <2>1. frames' = frames /\ (nodes' = nodes \/ nodes' = Store(nodes, curr, w))
    BY <1>4 DEF ParseProperty
  <2>2. d \in Elements(nodes) => SmallNode(w)
    BY <1>0, SmallWritten DEF SmallNodes
  <2> HIDE DEF w, d
  <2>3. SmallNodes(Store(nodes, curr, w))
    BY <1>0, <2>2, SmallStored DEF d
  <2> QED
    BY <1>1, <1>2, <2>1, <2>3
<1>5. CASE ParseEnd
  <2>1. ASSUME ~ UNCHANGED <<nodes, frames>>
        PROVE  /\ pc' = "rewrite" /\ root' = First(nodes) /\ nodes' = WithCells(nodes, root', 2, 1)
               /\ frames' = <<Frame(nodes', root')>> /\ ARRAY_SIZE(nodes) > 0
    BY <1>5, <2>1 DEF ParseEnd, Goto
  <2>2. ASSUME ~ UNCHANGED <<nodes, frames>>
        PROVE  SmallSizes'
    <3> DEFINE x == First(nodes)
               f == Frame(nodes', x)
    <3>1. nodes' = WithCells(nodes, x, 2, 1) /\ frames' = <<f>> /\ ARRAY_SIZE(nodes) > 0
      BY <2>1, <2>2
    <3>2. x \in Pointers(nodes) \ {NULL}
      <4>1. nodes # ARRAY_INIT
        BY <3>1 DEF ARRAY_SIZE
      <4>2. Len(nodes) \in DOMAIN nodes /\ IsSeq(Data(nodes)) /\ ARRAY_SIZE(nodes) = Len(Data(nodes))
        BY <1>0, <4>1, HasData
      <4>3. 1 \in DOMAIN Data(nodes)
        BY <3>1, <4>2 DEF IsSeq
      <4>4. x = <<Len(nodes), 1>> /\ 1 \in DOMAIN nodes[Len(nodes)]
        BY <4>3 DEF First, Data
      <4> QED
        BY <1>0, <4>2, <4>4, PointerIs
    <3> HIDE DEF x
    <3>3. /\ SmallNodes(nodes') /\ {"next_size_cells"} \subseteq DOMAIN f /\ ~(f.next_size_cells > 2)
      BY <1>0, <3>1, <3>2, SmallCalled
    <3> HIDE DEF f
    <3>4. DOMAIN <<f>> = {1} /\ <<f>>[1] = f
      OBVIOUS
    <3>5. SmallFrames(<<f>>)
      BY <3>3, <3>4 DEF SmallFrames
    <3> QED
      BY <3>1, <3>3, <3>5 DEF SmallSizes
  <2> QED
    BY <1>1, <2>2
<1>6. CASE RewriteProperty
  <2> DEFINE p == Deref(props, Top.prop)
             n == Deref(nodes, Top.node)
  <2>1. pc = "rewrite" /\ nodes' = nodes
    BY <1>6 DEF RewriteProperty
  <2>2. Len(frames) \in DOMAIN frames
    BY <2>1, TopOK
  <2>3. frames' = frames \/ \E full : LET r == Rewrite(p, n.address_cells, n.size_cells, full)
                                      IN r.how = "ok" /\ frames' = SetTop(NextFrame(Top, p, r))
    BY <1>6 DEF RewriteProperty
  <2>4. ASSUME NEW full, NEW r, r = Rewrite(p, n.address_cells, n.size_cells, full), r.how = "ok",
               frames' = SetTop(NextFrame(Top, p, r))
        PROVE  SmallSizes'
    <3>1. r.type = "SIZE_CELLS" => ~(r.num > 2)
      BY <2>4, SizesRead
    <3> HIDE DEF p, n
    <3> DEFINE u == Top
               f == NextFrame(u, p, r)
    <3>2. "next_size_cells" \in DOMAIN u /\ ~(u.next_size_cells > 2)
      BY <1>0, <2>2 DEF SmallFrames, Top
    <3>3. frames' = [frames EXCEPT ![Len(frames)] = f]
      BY <2>4 DEF SetTop
    <3> HIDE DEF u
    <3>4. "next_size_cells" \in DOMAIN f /\ ~(f.next_size_cells > 2)
      BY <3>1, <3>2 DEF NextFrame
    <3> HIDE DEF f
    <3>5. SmallFrames(frames')
      BY <1>0, <3>3, <3>4 DEF SmallFrames
    <3> QED
      BY <1>0, <2>1, <3>5 DEF SmallSizes
  <2> QED
    BY <1>1, <2>1, <2>3, <2>4
<1>7. CASE RewriteChild
  <2> DEFINE c == Top.child
             a == Top.next_address_cells
             s == Top.next_size_cells
             f == Frame(nodes', c)
  <2>1. /\ pc = "rewrite" /\ c # NULL
        /\ nodes' = WithCells(nodes, c, a, s) /\ frames' = Append(frames, f)
    BY <1>7 DEF RewriteChild
  <2>2. Len(frames) \in DOMAIN frames /\ FrameOK(Top, Pointers(nodes), Pointers(props))
    BY <2>1, TopOK
  <2>3. c \in Pointers(nodes) \ {NULL} /\ ~(s > 2)
    BY <1>0, <2>1, <2>2 DEF FrameOK, SmallFrames, Top
  <2> HIDE DEF c, a, s
  <2>4. /\ SmallNodes(nodes') /\ {"next_size_cells"} \subseteq DOMAIN f /\ ~(f.next_size_cells > 2)
    BY <1>0, <2>1, <2>3, SmallCalled
  <2> HIDE DEF f
  <2>5. /\ DOMAIN frames' = 1 .. Len(frames) + 1 /\ \A k \in 1 .. Len(frames) : frames'[k] = frames[k]
        /\ frames'[Len(frames) + 1] = f /\ DOMAIN frames = 1 .. Len(frames) /\ Len(frames) \in Nat
    BY <1>0, <2>1, Appended DEF IsSeq
  <2>6. SmallFrames(frames')
    BY <1>0, <2>4, <2>5 DEF SmallFrames
  <2> QED
    BY <2>4, <2>6 DEF SmallSizes
<1>8. CASE RewriteReturn
  <2>1. pc = "rewrite" /\ nodes' = nodes /\ frames' = Callers
    BY <1>8 DEF RewriteReturn, treeVars
  <2>2. Len(frames) \in Nat /\ DOMAIN frames = 1 .. Len(frames)
    BY <2>1, TopOK
  <2>3. ASSUME NEW i \in 1 .. Len(frames) - 1
        PROVE  /\ i \in DOMAIN frames
               /\ Callers[i] = [frames[i] EXCEPT !.child = Deref(nodes, @).sibling] \/ Callers[i] = frames[i]
    BY <2>2, <2>3 DEF Callers
  <2>4. DOMAIN Callers = 1 .. Len(frames) - 1
    BY DEF Callers
  <2>5. SmallFrames(Callers)
    <3> SUFFICES ASSUME NEW i \in DOMAIN Callers
                 PROVE  {"next_size_cells"} \subseteq DOMAIN Callers[i] /\ ~(Callers[i].next_size_cells > 2)
      BY DEF SmallFrames
    <3> DEFINE f == frames[i]
               y == Deref(nodes, f.child).sibling
    <3>1. {"next_size_cells"} \subseteq DOMAIN f /\ ~(f.next_size_cells > 2)
      BY <1>0, <2>3, <2>4 DEF SmallFrames
    <3>2. Callers[i] = [f EXCEPT !.child = y] \/ Callers[i] = f
      BY <2>3, <2>4
    <3> HIDE DEF f, y
    <3> QED
      BY <3>1, <3>2
  <2> QED
    BY <1>0, <2>1, <2>5 DEF SmallSizes
<1>9. CASE \/ MapFirst \/ MapRest \/ MapFails \/ AllocBuffer \/ Reserve \/ ReserveEnds \/ ParseEndNode
           \/ ParseNop \/ ParseUnknown \/ PrintTree \/ Unmap \/ Done
  BY <1>1, <1>9 DEF MapFirst, MapRest, MapFails, AllocBuffer, Reserve, ReserveEnds, ParseEndNode,
                    ParseNop, ParseUnknown, PrintTree, Unmap, Done, treeVars
<1>10. CASE UNCHANGED vars
  BY <1>1, <1>10 DEF vars, treeVars
<1> QED
  BY <1>3, <1>4, <1>5, <1>6, <1>7, <1>8, <1>9, <1>10 DEF Next

-----------------------------------------------------------------------------
(* One step of the reading of an entry: the t-th field. *)
ReadField(value, fields, n, t, prev) ==
  LET m == Len(fields)
      f == ((t - 1) % m) + 1
      k == (t - 1) \div m
      w == Width(fields[f])
      number == CellsAt(value, InValue(fields, f, k), w)
      at == InLists(fields, f, k, n)
  IN [c \in DOMAIN prev |-> IF at <= c /\ c < at + w THEN number[w - (c - at)] ELSE prev[c]]

Blank(fields, n) == [c \in 0 .. n * CellsBefore(fields, Len(fields) + 1) - 1 |-> 0]

(* The lists after every one of the first z fields. *)
ReadingTo(value, fields, n, z, L) ==
  L = [t \in 0 .. z |-> IF t = 0 THEN Blank(fields, n) ELSE ReadField(value, fields, n, t, L[t - 1])]

(* There is such a sequence of lists, *)
LEMMA ReadingExists ==
  ASSUME NEW value, NEW fields, NEW n, NEW z \in Nat
  PROVE  \E L : ReadingTo(value, fields, n, z, L)
<1> DEFINE P(x) == \E L : ReadingTo(value, fields, n, x, L)
           Bad == {x \in Nat : ~P(x)}
<1>1. Bad = {}
  <2> SUFFICES ASSUME Bad # {}
               PROVE  FALSE
    OBVIOUS
  <2>1. PICK x \in Bad : \A j \in Bad : x <= j
    <3>1. Bad \in SUBSET Nat
      OBVIOUS
    <3> HIDE DEF Bad
    <3> QED
      BY <3>1, LeastNat
  <2>2. x \in Nat /\ ~P(x)
    BY <2>1
  <2>3. CASE x = 0
    <3> DEFINE L == [t \in 0 .. 0 |-> Blank(fields, n)]
    <3>1. L = [t \in 0 .. 0 |-> IF t = 0 THEN Blank(fields, n) ELSE ReadField(value, fields, n, t, L[t - 1])]
      OBVIOUS
    <3> QED
      BY <2>2, <2>3, <3>1 DEF ReadingTo
  <2>4. CASE x # 0
    <3>1. x - 1 \in Nat /\ x - 1 < x
      BY <2>2, <2>4
    <3>2. P(x - 1)
      BY <2>1, <3>1
    <3>3. PICK K : ReadingTo(value, fields, n, x - 1, K)
      BY <3>2
    <3> DEFINE last == ReadField(value, fields, n, x, K[x - 1])
               L == [t \in 0 .. x |-> IF t = x THEN last ELSE K[t]]
    <3>4. ASSUME NEW t \in 0 .. x
          PROVE  L[t] = IF t = 0 THEN Blank(fields, n) ELSE ReadField(value, fields, n, t, L[t - 1])
      <4>1. CASE t = x
        <5>1. L[t - 1] = K[x - 1] /\ t # 0 /\ L[t] = last
          BY <2>2, <2>4, <3>1, <4>1
        <5> HIDE DEF L
        <5> QED
          BY <4>1, <5>1
      <4>2. CASE t # x
        <5>1. t \in 0 .. x - 1 /\ L[t] = K[t]
          BY <2>2, <4>2
        <5>2. K[t] = IF t = 0 THEN Blank(fields, n) ELSE ReadField(value, fields, n, t, K[t - 1])
          BY <3>3, <5>1 DEF ReadingTo
        <5>3. t # 0 => L[t - 1] = K[t - 1]
          BY <2>2, <5>1
        <5> HIDE DEF L
        <5> QED
          BY <5>1, <5>2, <5>3
      <4> QED
        BY <4>1, <4>2
    <3>5. L = [t \in 0 .. x |-> L[t]]
      OBVIOUS
    <3> HIDE DEF L
    <3>6. ReadingTo(value, fields, n, x, L)
      BY <3>4, <3>5 DEF ReadingTo
    <3> QED
      BY <2>2, <3>6
  <2> QED
    BY <2>3, <2>4
<1> QED
  BY <1>1

(* and ReadLists is its last. *)
LEMMA ReadIs ==
  ASSUME NEW value, NEW fields, NEW n, n * Len(fields) \in Nat
  PROVE  \E L : /\ ReadingTo(value, fields, n, n * Len(fields), L)
                /\ ReadLists(value, fields, n) = L[n * Len(fields)]
<1> DEFINE z == n * Len(fields)
           L == CHOOSE L : ReadingTo(value, fields, n, z, L)
<1>1. ReadingTo(value, fields, n, z, L)
  BY ReadingExists
<1>2. ReadLists(value, fields, n) = L[z]
  BY Zenon DEF ReadLists, ReadingTo, ReadField, Blank
<1> QED
  BY <1>1, <1>2

-----------------------------------------------------------------------------
(* The fields of an entry: two or three, of at most two cells each. *)
FewFields(fields, b) ==
  /\ Len(fields) \in {2, 3}
  /\ \A f \in 1 .. Len(fields) : fields[f] \in 0 .. 2
  /\ b[1] = 0 /\ \A f \in 1 .. Len(fields) : b[f + 1] = b[f] + fields[f]
  /\ \A f \in 1 .. Len(fields) + 1 : b[f] \in Nat /\ CellsBefore(fields, f) = b[f]

(* Products that the provers need spelled out. *)
LEMMA Times ==
  ASSUME NEW n \in Nat, NEW x \in Nat, NEW w \in 0 .. 2
  PROVE  /\ n * x \in Nat /\ n * w \in Nat /\ n * (x + w) = n * x + n * w
         /\ \A k \in 0 .. n - 1 : k * w \in Nat /\ k * w + w <= n * w
<1>1. n * x \in Nat /\ n * w \in Nat /\ n * (x + w) = n * x + n * w
  OBVIOUS
<1>2. w = 0 \/ w = 1 \/ w = 2
  OBVIOUS
<1>3. ASSUME NEW k \in 0 .. n - 1
      PROVE  k * w \in Nat /\ k * w + w <= n * w
  BY <1>2
<1> QED
  BY <1>1, <1>3

(* Entry k of a list ends before entry j, if k < j. *)
LEMMA EntriesApart ==
  ASSUME NEW k \in Nat, NEW j \in Nat, k < j, NEW w \in 0 .. 2
  PROVE  k * w \in Nat /\ j * w \in Nat /\ k * w + w <= j * w
<1>1. w = 0 \/ w = 1 \/ w = 2
  OBVIOUS
<1> QED
  BY <1>1

(* All of list f comes before list g, if f < g. *)
LEMMA ListsApart ==
  ASSUME NEW fields, NEW b, FewFields(fields, b), NEW n \in Nat,
         NEW f \in 1 .. Len(fields), NEW g \in 1 .. Len(fields), f < g
  PROVE  n * b[f] \in Nat /\ n * b[g] \in Nat /\ n * b[f] + n * fields[f] <= n * b[g]
<1>1. \A h \in 1 .. Len(fields) : /\ n * b[h] \in Nat /\ n * fields[h] \in Nat
                                  /\ n * b[h + 1] = n * b[h] + n * fields[h]
  <2> SUFFICES ASSUME NEW h \in 1 .. Len(fields)
               PROVE  /\ n * b[h] \in Nat /\ n * fields[h] \in Nat
                      /\ n * b[h + 1] = n * b[h] + n * fields[h]
    OBVIOUS
  <2>1. h \in 1 .. Len(fields) + 1 /\ b[h + 1] = b[h] + fields[h] /\ fields[h] \in 0 .. 2 /\ b[h] \in Nat
    BY DEF FewFields
  <2>2. /\ n * b[h] \in Nat /\ n * fields[h] \in Nat /\ n * (b[h] + fields[h]) = n * b[h] + n * fields[h]
    BY <2>1, Times
  <2> QED
    BY <2>1, <2>2
<1>2. Len(fields) = 2 \/ Len(fields) = 3
  BY DEF FewFields
<1>3. (f = 1 /\ g = 2) \/ (f = 2 /\ g = 3) \/ (f = 1 /\ g = 3)
  <2>1. f \in 1 .. 3 /\ g \in 1 .. 3
    <3>1. \A x \in 1 .. 2 : x \in 1 .. 3
      OBVIOUS
    <3> QED
      BY <1>2, <3>1, Zenon
  <2>2. \A x, y \in 1 .. 3 : x < y => (x = 1 /\ y = 2) \/ (x = 2 /\ y = 3) \/ (x = 1 /\ y = 3)
    OBVIOUS
  <2> QED
    BY <2>1, <2>2
<1>4. 1 + 1 = 2 /\ 2 + 1 = 3
  OBVIOUS
<1>5. CASE g = f + 1
  <2> DEFINE p == n * b[f]
             u == n * fields[f]
             r == n * b[g]
  <2>1. p \in Nat /\ u \in Nat /\ r \in Nat
    BY <1>1
  <2>2. r = p + u
    BY <1>1, <1>5
  <2> HIDE DEF p, u, r
  <2>3. p + u <= r
    BY <2>1, <2>2
  <2> QED
    BY <2>1, <2>3 DEF p, u, r
<1>6. CASE f = 1 /\ g = 3
  <2>1. 2 \in 1 .. Len(fields)
    BY <1>2, <1>6
  <2>2. n * b[2] = n * b[1] + n * fields[1] /\ n * b[3] = n * b[2] + n * fields[2]
    BY <1>1, <1>4, <1>6, <2>1
  <2>3. n * b[1] \in Nat /\ n * fields[1] \in Nat /\ n * fields[2] \in Nat
    BY <1>1, <1>6, <2>1
  <2> QED
    BY <1>6, <2>2, <2>3
<1> QED
  BY <1>3, <1>4, <1>5, <1>6

(* Where cell c of the element for entry k of field f is in the lists, and *)
(* where it is in the value.                                               *)
CellOf(fields, b, n, f, k, c)   == n * b[f] + k * fields[f] + fields[f] - c
CellFrom(fields, b, f, k, c) == k * b[Len(fields) + 1] + b[f] + c

(* They are all different, and within the lists and the value. *)
LEMMA CellsApart ==
  ASSUME NEW fields, NEW b, FewFields(fields, b), NEW n \in Nat,
         NEW f \in 1 .. Len(fields), NEW k \in 0 .. n - 1, NEW c \in 1 .. fields[f],
         NEW g \in 1 .. Len(fields), NEW j \in 0 .. n - 1, ~(f = g /\ k = j)
  PROVE  LET x == CellOf(fields, b, n, f, k, c)
             at == n * b[g] + j * fields[g]
         IN ~(at <= x /\ x < at + fields[g])
<1> DEFINE x == CellOf(fields, b, n, f, k, c)
           at == n * b[g] + j * fields[g]
<1>1. /\ fields[f] \in 0 .. 2 /\ fields[g] \in 0 .. 2 /\ b[f] \in Nat /\ b[g] \in Nat /\ Len(fields) \in Nat
  BY DEF FewFields
<1>2. /\ n * b[f] \in Nat /\ n * b[g] \in Nat /\ k * fields[f] \in Nat /\ j * fields[g] \in Nat
      /\ k * fields[f] + fields[f] <= n * fields[f] /\ j * fields[g] + fields[g] <= n * fields[g]
      /\ n * fields[f] \in Nat /\ n * fields[g] \in Nat
  <2>1. n * b[f] \in Nat /\ n * fields[f] \in Nat /\ k * fields[f] \in Nat /\ k * fields[f] + fields[f] <= n * fields[f]
    BY <1>1, Times
  <2>2. n * b[g] \in Nat /\ n * fields[g] \in Nat /\ j * fields[g] \in Nat /\ j * fields[g] + fields[g] <= n * fields[g]
    BY <1>1, Times
  <2> QED
    BY <2>1, <2>2
<1> DEFINE F == n * b[f]
           G == n * b[g]
           K == k * fields[f]
           J == j * fields[g]
           NF == n * fields[f]
           NG == n * fields[g]
           u == fields[f]
           v == fields[g]
<1> SUFFICES ~(at <= x /\ x < at + v)
  OBVIOUS
<1>3. x = F + K + u - c /\ at = G + J
  BY DEF CellOf
<1>4. /\ F \in Nat /\ G \in Nat /\ K \in Nat /\ J \in Nat /\ K + u <= NF /\ J + v <= NG
      /\ NF \in Nat /\ NG \in Nat /\ u \in Nat /\ v \in Nat /\ c \in 1 .. u
  <2>1. u \in Nat /\ v \in Nat /\ c \in 1 .. u
    BY <1>1
  <2> QED
    BY <1>2, <2>1
<1>5. /\ f < g => F + NF <= G
      /\ g < f => G + NG <= F
  BY ListsApart
<1>6. f = g => /\ F = G /\ u = v
               /\ k < j => K + u <= J
               /\ j < k => J + v <= K
  BY <1>1, EntriesApart
<1>7. f \in Nat /\ g \in Nat /\ k \in Nat /\ j \in Nat
  BY <1>1
<1>8. (f < g \/ g < f) \/ (f = g /\ (k < j \/ j < k))
  BY <1>7
<1> HIDE DEF F, G, K, J, NF, NG, u, v, x, at
<1>9. CASE f < g
  BY <1>3, <1>4, <1>5, <1>9
<1>10. CASE g < f
  BY <1>3, <1>4, <1>5, <1>10
<1>11. CASE f = g /\ k < j
  BY <1>3, <1>4, <1>6, <1>11
<1>12. CASE f = g /\ j < k
  BY <1>3, <1>4, <1>6, <1>12
<1> QED
  BY <1>8, <1>9, <1>10, <1>11, <1>12

(* A cell of an element is in the lists, *)
LEMMA CellInLists ==
  ASSUME NEW fields, NEW b, FewFields(fields, b), NEW n \in Nat,
         NEW f \in 1 .. Len(fields), NEW k \in 0 .. n - 1, NEW c \in 1 .. fields[f]
  PROVE  CellOf(fields, b, n, f, k, c) \in 0 .. n * b[Len(fields) + 1] - 1
<1> DEFINE m == Len(fields)
<1>1. /\ fields[f] \in 0 .. 2 /\ b[f] \in Nat /\ m \in {2, 3} /\ fields[m] \in 0 .. 2 /\ b[m] \in Nat
      /\ b[m + 1] = b[m] + fields[m]
  BY DEF FewFields
<1>2. /\ n * b[f] \in Nat /\ n * fields[f] \in Nat /\ k * fields[f] \in Nat
      /\ k * fields[f] + fields[f] <= n * fields[f]
  BY <1>1, Times
<1>3. n * b[m + 1] = n * b[m] + n * fields[m] /\ n * b[m] \in Nat /\ n * fields[m] \in Nat
  BY <1>1, Times
<1>4. n * b[f] + n * fields[f] <= n * b[m + 1]
  <2>1. CASE f = m
    BY <1>2, <1>3, <2>1
  <2>2. CASE f # m
    <3>1. n * b[f] + n * fields[f] <= n * b[m]
      BY <1>1, <2>2, ListsApart
    <3> QED
      BY <1>2, <1>3, <3>1
  <2> QED
    BY <2>1, <2>2
<1>5. \A p, q, r, s, u \in Nat : p + q <= r /\ s + u <= q /\ c <= u => p + s + u - c \in 0 .. r - 1
  BY <1>1
<1>6. n * b[m + 1] \in Nat /\ fields[f] \in Nat /\ c <= fields[f]
  BY <1>1, <1>3
<1>7. n * b[f] + k * fields[f] + fields[f] - c \in 0 .. n * b[m + 1] - 1
  BY <1>2, <1>4, <1>5, <1>6
<1> QED
  BY <1>7 DEF CellOf

(* and it comes from within the value. *)
LEMMA CellInValue ==
  ASSUME NEW fields, NEW b, FewFields(fields, b), NEW n \in Nat,
         NEW f \in 1 .. Len(fields), NEW k \in 0 .. n - 1, NEW c \in 1 .. fields[f]
  PROVE  CellFrom(fields, b, f, k, c) \in 1 .. n * b[Len(fields) + 1]
<1> DEFINE m == Len(fields)
           T == b[m + 1]
<1>1. m = 2 \/ m = 3
  BY DEF FewFields
<1>2. \A h \in 1 .. m : b[h] \in Nat /\ fields[h] \in 0 .. 2 /\ b[h + 1] = b[h] + fields[h]
  BY DEF FewFields
<1>3. T \in Nat /\ b[f] \in Nat /\ fields[f] \in 0 .. 2 /\ b[f] + fields[f] <= T
  <2>1. CASE m = 2
    <3>1. b[1 + 1] = b[1] + fields[1] /\ b[2 + 1] = b[2] + fields[2]
      BY <1>2, <2>1
    <3> QED
      BY <1>2, <2>1, <3>1
  <2>2. CASE m = 3
    <3>1. b[1 + 1] = b[1] + fields[1] /\ b[2 + 1] = b[2] + fields[2] /\ b[3 + 1] = b[3] + fields[3]
      BY <1>2, <2>2
    <3> QED
      BY <1>2, <2>2, <3>1
  <2> QED
    BY <1>1, <2>1, <2>2
<1> HIDE DEF T
<1>4. k * T \in Nat /\ n * T \in Nat /\ k * T + T <= n * T
  <2>1. PICK d \in Nat : n = k + 1 + d
    <3>1. n - k - 1 \in Nat /\ n = k + 1 + (n - k - 1)
      OBVIOUS
    <3> QED
      BY <3>1
  <2>2. n * T = k * T + T + d * T /\ d * T \in Nat /\ k * T \in Nat
    BY <1>3, <2>1
  <2> QED
    BY <1>3, <2>2
<1> DEFINE p == k * T
           r == n * T
           q == b[f]
           u == fields[f]
<1>6. p \in Nat /\ r \in Nat /\ p + T <= r /\ q \in Nat /\ q + u <= T /\ c \in 1 .. u /\ u \in Nat /\ T \in Nat
  BY <1>3, <1>4
<1> HIDE DEF p, r, q, u
<1>7. p + q + c \in 1 .. r
  BY <1>6
<1>5. k * T + b[f] + c \in 1 .. n * T
  BY <1>7 DEF p, q, r
<1> QED
  BY <1>5 DEF CellFrom, T

-----------------------------------------------------------------------------
(* The t-th field that is read is one of one of the entries, *)
LEMMA FieldOf ==
  ASSUME NEW m \in {2, 3}, NEW n \in Nat, NEW t \in 1 .. n * m
  PROVE  LET f == ((t - 1) % m) + 1
             k == (t - 1) \div m
         IN f \in 1 .. m /\ k \in 0 .. n - 1 /\ t = k * m + f
<1>1. CASE m = 2
  BY <1>1
<1>2. CASE m = 3
  BY <1>2
<1> QED
  BY <1>1, <1>2

(* and of no other. *)
LEMMA OneField ==
  ASSUME NEW m \in {2, 3}, NEW f \in 1 .. m, NEW k \in Nat, NEW g \in 1 .. m, NEW j \in Nat,
         k * m + f = j * m + g
  PROVE  f = g /\ k = j
<1>1. CASE m = 2
  BY <1>1
<1>2. CASE m = 3
  BY <1>2
<1> QED
  BY <1>1, <1>2

(* The elements for the first t fields hold their numbers. *)
Filled(value, fields, b, n, t, D) ==
  \A f \in 1 .. Len(fields), k \in 0 .. n - 1 : k * Len(fields) + f <= t =>
    \A c \in 1 .. fields[f] : D[CellOf(fields, b, n, f, k, c)] = value[CellFrom(fields, b, f, k, c)]

(* Reading one more field. *)
LEMMA FieldRead ==
  ASSUME NEW value, NEW fields, NEW b, FewFields(fields, b), NEW n \in Nat, Len(value) \in Nat,
         n * b[Len(fields) + 1] <= Len(value), NEW t \in 1 .. n * Len(fields),
         NEW prev, DOMAIN prev = 0 .. n * b[Len(fields) + 1] - 1, Filled(value, fields, b, n, t - 1, prev),
         NEW new, new = ReadField(value, fields, n, t, prev)
  PROVE  DOMAIN new = DOMAIN prev /\ Filled(value, fields, b, n, t, new)
<1> DEFINE m == Len(fields)
           f == ((t - 1) % m) + 1
           k == (t - 1) \div m
           w == fields[f]
           at == n * b[f] + k * w
           number == CellsAt(value, k * b[m + 1] + b[f], w)
<1>1. m \in {2, 3} /\ m \in Nat
  BY DEF FewFields
<1>2. f \in 1 .. m /\ k \in 0 .. n - 1 /\ t = k * m + f
  <2>1. t \in 1 .. n * m
    OBVIOUS
  <2> HIDE DEF m
  <2> QED
    BY <1>1, <2>1, FieldOf
<1>3. new = [c \in DOMAIN prev |-> IF at <= c /\ c < at + w THEN number[w - (c - at)] ELSE prev[c]]
  <2>1. Width(fields[f]) = w
    <3>1. fields[f] \in 0 .. 2
      BY <1>2 DEF FewFields
    <3> HIDE DEF f
    <3> QED
      BY <3>1 DEF Width
  <2>2. CellsBefore(fields, f) = b[f] /\ CellsBefore(fields, m + 1) = b[m + 1]
    BY <1>1, <1>2 DEF FewFields
  <2>3. InValue(fields, f, k) = k * b[m + 1] + b[f] /\ InLists(fields, f, k, n) = at
    BY <2>1, <2>2, Zenon DEF InValue, InLists
  <2> QED
    BY <2>1, <2>3, Zenon DEF ReadField
<1> HIDE DEF f, k, m
<1>4. w \in 0 .. 2 /\ b[f] \in Nat /\ b[m + 1] \in Nat
  BY <1>1, <1>2 DEF FewFields, m
<1>5. DOMAIN new = DOMAIN prev
  BY <1>3
<1>6. ASSUME NEW g \in 1 .. m, NEW j \in 0 .. n - 1, j * m + g <= t, NEW c \in 1 .. fields[g]
      PROVE  new[CellOf(fields, b, n, g, j, c)] = value[CellFrom(fields, b, g, j, c)]
  <2> DEFINE x == CellOf(fields, b, n, g, j, c)
  <2>1. x \in DOMAIN prev
    BY <1>6, CellInLists DEF m
  <2>2. CASE g = f /\ j = k
    <3> DEFINE from == k * b[m + 1] + b[f]
    <3>1. n * b[f] \in Nat /\ k * w \in Nat /\ at \in Nat
      <4>1. n * b[f] \in Nat /\ k * w \in Nat
        BY <1>2, <1>4, Times
      <4> QED
        BY <4>1
    <3>2. x = at + w - c /\ c \in 1 .. w
      BY <1>6, <2>2 DEF CellOf
    <3>3. CellFrom(fields, b, f, k, c) = from + c /\ from + c \in 1 .. n * b[m + 1]
      BY <1>2, <1>6, <2>2, CellInValue DEF CellFrom, m
    <3>4. n * b[m + 1] <= Len(value) /\ n * b[m + 1] \in Nat
      BY <1>4, Times DEF m
    <3> DEFINE top == n * b[m + 1]
    <3> HIDE DEF at, w, from, top
    <3>5. at <= x /\ x < at + w /\ w - (x - at) = c
      BY <1>4, <3>1, <3>2
    <3>6. from + c <= Len(value)
      BY <3>3, <3>4 DEF top
    <3>7. number[c] = value[from + c]
      <4>1. number = [z \in 1 .. w |-> IF from + z <= Len(value) THEN value[from + z] ELSE "?"]
        BY DEF CellsAt, from
      <4> HIDE DEF number
      <4> QED
        BY <3>2, <3>6, <4>1
    <3>8. new[x] = number[w - (x - at)]
      BY <1>3, <2>1, <3>5
    <3> QED
      BY <2>2, <3>3, <3>5, <3>7, <3>8
  <2>3. CASE ~(g = f /\ j = k)
    <3>1. ~(at <= x /\ x < at + w)
      BY <1>2, <1>6, <2>3, CellsApart DEF m
    <3>2. new[x] = prev[x]
      BY <1>3, <2>1, <3>1
    <3>3. j * m + g # t
      BY <1>1, <1>2, <1>6, <2>3, OneField
    <3>4. j * m + g <= t - 1
      <4>1. j * m + g \in Nat /\ t \in Nat
        BY <1>1, <1>2
      <4> QED
        BY <1>6, <3>3, <4>1
    <3>5. prev[x] = value[CellFrom(fields, b, g, j, c)]
      BY <1>6, <3>4 DEF Filled, m
    <3> QED
      BY <3>2, <3>5
  <2> QED
    BY <2>2, <2>3
<1> QED
  BY <1>5, <1>6 DEF Filled, m

(* When all are read, all elements hold their numbers. *)
LEMMA ListsFilled ==
  ASSUME NEW value, NEW fields, NEW b, FewFields(fields, b), NEW n \in Nat, Len(value) \in Nat,
         n * b[Len(fields) + 1] <= Len(value)
  PROVE  \A f \in 1 .. Len(fields), k \in 0 .. n - 1 : \A c \in 1 .. fields[f] :
           ReadLists(value, fields, n)[CellOf(fields, b, n, f, k, c)] = value[CellFrom(fields, b, f, k, c)]
<1> DEFINE m == Len(fields)
           z == n * m
<1>1. m \in {2, 3} /\ m \in Nat /\ z \in Nat
  <2>1. m = 2 \/ m = 3
    BY DEF FewFields
  <2> QED
    BY <2>1
<1>2. PICK L : ReadingTo(value, fields, n, z, L) /\ ReadLists(value, fields, n) = L[z]
  BY <1>1, ReadIs
<1> DEFINE Good(t) == DOMAIN L[t] = 0 .. n * b[m + 1] - 1 /\ Filled(value, fields, b, n, t, L[t])
           Bad == {t \in 0 .. z : ~Good(t)}
<1>3. L[0] = Blank(fields, n) /\ \A t \in 1 .. z : L[t] = ReadField(value, fields, n, t, L[t - 1])
  <2> HIDE DEF z
  <2> QED
    BY <1>1, <1>2 DEF ReadingTo
<1>4. Good(0)
  <2>1. CellsBefore(fields, m + 1) = b[m + 1]
    BY <1>1 DEF FewFields
  <2>2. DOMAIN L[0] = 0 .. n * b[m + 1] - 1
    BY <1>3, <2>1 DEF Blank
  <2>3. \A f \in 1 .. m, k \in 0 .. n - 1 : ~(k * m + f <= 0)
    <3>1. m = 2 \/ m = 3
      BY <1>1
    <3> HIDE DEF m
    <3> QED
      BY <3>1
  <2> QED
    BY <2>2, <2>3 DEF Filled
<1>5. Bad = {}
  <2> SUFFICES ASSUME Bad # {}
               PROVE  FALSE
    OBVIOUS
  <2>1. PICK t \in Bad : \A j \in Bad : t <= j
    <3>1. Bad \in SUBSET Nat
      BY <1>1
    <3> HIDE DEF Bad
    <3> QED
      BY <3>1, LeastNat
  <2>2. t \in 1 .. z /\ t - 1 \in 0 .. z /\ ~(t <= t - 1)
    BY <1>1, <1>4, <2>1
  <2>3. Good(t - 1)
    BY <2>1, <2>2
  <2>4. Good(t)
    <3> DEFINE prev == L[t - 1]
               new == L[t]
    <3>1. new = ReadField(value, fields, n, t, prev)
      BY <1>3, <2>2
    <3>2. DOMAIN prev = 0 .. n * b[m + 1] - 1 /\ Filled(value, fields, b, n, t - 1, prev)
      BY <2>3
    <3> HIDE DEF prev, new
    <3>3. DOMAIN new = DOMAIN prev /\ Filled(value, fields, b, n, t, new)
      BY <2>2, <3>1, <3>2, FieldRead
    <3> QED
      BY <3>2, <3>3 DEF new
  <2> QED
    BY <2>1, <2>4
<1>6. Filled(value, fields, b, n, z, L[z])
  BY <1>1, <1>5
<1>7. \A f \in 1 .. m, k \in 0 .. n - 1 : k * m + f <= z
  <2>1. m = 2 \/ m = 3
    BY <1>1
  <2> HIDE DEF m
  <2> QED
    BY <2>1
<1> QED
  BY <1>2, <1>6, <1>7 DEF Filled

-----------------------------------------------------------------------------
(* As many entries as fit. *)
LEMMA EntriesFit ==
  ASSUME NEW l \in Nat, NEW m \in Nat \ {0}
  PROVE  l \div m \in Nat /\ (l \div m) * m <= l
OBVIOUS

(* An element read backwards is the piece of the value it was read from. *)
ElementRight(value, fields, n, f, k) ==
  LET total == CellsBefore(fields, Len(fields) + 1)
  IN [c \in 1 .. fields[f] |->
        ReadLists(value, fields, n)[n * CellsBefore(fields, f) + (k + 1) * fields[f] - c]]
     = SubSeq(value, k * total + CellsBefore(fields, f) + 1, k * total + CellsBefore(fields, f + 1))

(* This is so for every field of every entry. *)
LEMMA ElementIs ==
  ASSUME NEW S, NEW value \in Seq(S), NEW fields, NEW b, FewFields(fields, b), NEW n \in Nat,
         n * b[Len(fields) + 1] <= Len(value), NEW f \in 1 .. Len(fields), NEW k \in 0 .. n - 1
  PROVE  ElementRight(value, fields, n, f, k)
<1> DEFINE m == Len(fields)
           D == ReadLists(value, fields, n)
           w == fields[f]
           total == CellsBefore(fields, m + 1)
           lo == k * total + CellsBefore(fields, f)
           hi == k * total + CellsBefore(fields, f + 1)
<1>1. /\ w \in 0 .. 2 /\ m \in Nat /\ total = b[m + 1] /\ CellsBefore(fields, f) = b[f]
      /\ CellsBefore(fields, f + 1) = b[f + 1] /\ b[f + 1] = b[f] + w /\ b[f] \in Nat /\ total \in Nat
  BY DEF FewFields
<1>2. \A c \in 1 .. w : D[CellOf(fields, b, n, f, k, c)] = value[CellFrom(fields, b, f, k, c)]
  BY ListsFilled
<1>3. ASSUME NEW c \in 1 .. w
      PROVE  /\ CellOf(fields, b, n, f, k, c) = n * CellsBefore(fields, f) + (k + 1) * w - c
             /\ CellFrom(fields, b, f, k, c) = lo + c
  <2>1. k * w \in Nat /\ n * b[f] \in Nat /\ (k + 1) * w = k * w + w
    <3>1. w = 0 \/ w = 1 \/ w = 2
      BY <1>1
    <3>2. n * b[f] \in Nat
      BY <1>1, Times
    <3> QED
      BY <3>1, <3>2
  <2>2. CellOf(fields, b, n, f, k, c) = n * b[f] + k * w + w - c
    BY DEF CellOf
  <2>3. CellFrom(fields, b, f, k, c) = k * b[m + 1] + b[f] + c
    BY DEF CellFrom
  <2> DEFINE p == n * b[f]
             u == k * w
             v == (k + 1) * w
  <2>4. p + u + w - c = p + v - c
    <3>1. p \in Nat /\ u \in Nat /\ v = u + w /\ w \in Nat
      BY <1>1, <2>1
    <3> HIDE DEF p, u, v, w
    <3> QED
      BY <3>1
  <2> QED
    BY <1>1, <2>2, <2>3, <2>4
<1>4. lo \in Nat /\ hi = lo + w
  <2>1. k * total \in Nat
    BY <1>1
  <2> DEFINE p == k * total
  <2> HIDE DEF p
  <2>2. p \in Nat /\ lo = p + b[f] /\ hi = p + (b[f] + w)
    BY <1>1, <2>1 DEF p
  <2> HIDE DEF lo, hi, w
  <2> QED
    BY <1>1, <2>2
<1> DEFINE new == [c \in 1 .. w |-> D[n * CellsBefore(fields, f) + (k + 1) * w - c]]
<1>5. \A c \in 1 .. w : new[c] = value[lo + c]
  BY <1>2, <1>3
<1>6. new = [c \in 1 .. w |-> new[c]]
  OBVIOUS
<1> HIDE DEF lo, hi, w, new
<1>7. SubSeq(value, lo + 1, hi) = [c \in 1 .. w |-> value[lo + c]]
  <2> DEFINE V == {value[i] : i \in lo + 1 .. hi}
             sub == SubSeq(value, lo + 1, hi)
  <2>1. lo + 1 \in Int /\ hi \in Int /\ w \in Nat /\ hi - (lo + 1) + 1 = w
    BY <1>1, <1>4
  <2>2. \A i \in lo + 1 .. hi : value[i] \in V
    OBVIOUS
  <2> HIDE DEF V
  <2>3. /\ sub \in Seq(V) /\ Len(sub) = IF lo + 1 <= hi THEN hi - (lo + 1) + 1 ELSE 0
        /\ \A i \in 1 .. hi - (lo + 1) + 1 : sub[i] = value[lo + 1 + i - 1]
    BY <2>1, <2>2, SubSeqProperties
  <2> HIDE DEF sub
  <2>4. Len(sub) = w /\ DOMAIN sub = 1 .. w /\ sub = [c \in DOMAIN sub |-> sub[c]]
    <3>1. Len(sub) = w
      BY <1>4, <2>1, <2>3
    <3> QED
      BY <2>3, <3>1
  <2>5. \A c \in 1 .. w : sub[c] = value[lo + c]
    <3>1. \A c \in 1 .. w : lo + 1 + c - 1 = lo + c
      BY <1>4, <2>1
    <3> QED
      BY <2>1, <2>3, <3>1
  <2>6. sub = [c \in 1 .. w |-> value[lo + c]]
    BY <2>4, <2>5
  <2> QED
    BY <2>6 DEF sub
<1>8. new = SubSeq(value, lo + 1, hi)
  BY <1>5, <1>6, <1>7
<1> QED
  BY <1>8 DEF lo, hi, w, new, ElementRight

(* The fields of reg, and those of ranges. *)
LEMMA FieldsAreFew ==
  ASSUME NEW a \in 0 .. 2, NEW s \in 0 .. 2
  PROVE  /\ FewFields(<<a, s>>, [f \in 1 .. 3 |-> CellsBefore(<<a, s>>, f)])
         /\ FewFields(<<a, a, s>>, [f \in 1 .. 4 |-> CellsBefore(<<a, a, s>>, f)])
<1>1. FewFields(<<a, s>>, [f \in 1 .. 3 |-> CellsBefore(<<a, s>>, f)])
  <2> DEFINE fields == <<a, s>>
             b == [f \in 1 .. 3 |-> CellsBefore(fields, f)]
  <2>1. CellsBefore(fields, 1) = 0 /\ CellsBefore(fields, 2) = a /\ CellsBefore(fields, 3) = a + s
    BY CellsOfTwo
  <2>2. Len(fields) = 2 /\ fields[1] = a /\ fields[2] = s
    OBVIOUS
  <2>3. b[1] = 0 /\ b[2] = a /\ b[3] = a + s /\ \A f \in 1 .. 3 : CellsBefore(fields, f) = b[f]
    BY <2>1
  <2> HIDE DEF fields, b
  <2>4. \A f \in 1 .. 2 : fields[f] \in 0 .. 2 /\ b[f + 1] = b[f] + fields[f]
    <3>1. \A f \in 1 .. 2 : f = 1 \/ f = 2
      OBVIOUS
    <3> QED
      BY <2>2, <2>3, <3>1
  <2>5. \A f \in 1 .. 3 : b[f] \in Nat
    <3>1. \A f \in 1 .. 3 : f = 1 \/ f = 2 \/ f = 3
      OBVIOUS
    <3> QED
      BY <2>3, <3>1
  <2>6. 2 + 1 = 3
    OBVIOUS
  <2>7. FewFields(fields, b)
    BY <2>2, <2>3, <2>4, <2>5, <2>6 DEF FewFields
  <2> QED
    BY <2>7 DEF fields, b
<1>2. FewFields(<<a, a, s>>, [f \in 1 .. 4 |-> CellsBefore(<<a, a, s>>, f)])
  <2> DEFINE fields == <<a, a, s>>
             b == [f \in 1 .. 4 |-> CellsBefore(fields, f)]
  <2>1. /\ CellsBefore(fields, 1) = 0 /\ CellsBefore(fields, 2) = a /\ CellsBefore(fields, 3) = a + a
        /\ CellsBefore(fields, 4) = a + a + s
    BY CellsOfThree
  <2>2. Len(fields) = 3 /\ fields[1] = a /\ fields[2] = a /\ fields[3] = s
    OBVIOUS
  <2>3. b[1] = 0 /\ b[2] = a /\ b[3] = a + a /\ b[4] = a + a + s /\ \A f \in 1 .. 4 : CellsBefore(fields, f) = b[f]
    BY <2>1
  <2> HIDE DEF fields, b
  <2>4. \A f \in 1 .. 3 : fields[f] \in 0 .. 2 /\ b[f + 1] = b[f] + fields[f]
    <3>1. \A f \in 1 .. 3 : f = 1 \/ f = 2 \/ f = 3
      OBVIOUS
    <3> QED
      BY <2>2, <2>3, <3>1
  <2>5. \A f \in 1 .. 4 : b[f] \in Nat
    <3>1. \A f \in 1 .. 4 : f = 1 \/ f = 2 \/ f = 3 \/ f = 4
      OBVIOUS
    <3> QED
      BY <2>3, <3>1
  <2>6. 3 + 1 = 4
    OBVIOUS
  <2>7. FewFields(fields, b)
    BY <2>2, <2>3, <2>4, <2>5, <2>6 DEF FewFields
  <2> QED
    BY <2>7 DEF fields, b
<1> QED
  BY <1>1, <1>2

(* What a property has when it was divided by the cells of the fields. *)
WellRead(e, fields) ==
  /\ DOMAIN fields = 1 .. Len(fields) /\ e.num \in Nat
  /\ e.num = Len(e.value) \div CellsBefore(fields, Len(fields) + 1)
  /\ e.data = ReadLists(e.value, fields, e.num)
  /\ \E b : FewFields(fields, b) /\ e.num * b[Len(fields) + 1] <= Len(e.value)

(* The lists of a reg or ranges that has been read. *)
LEMMA ReadRight ==
  ASSUME NEW e, NEW S, e.value \in Seq(S), NEW a \in 0 .. 2, NEW s \in 0 .. 2, RightProp(e, a, s),
         e.type \in {"REG", "RANGES", "DMA_RANGES"},
         NEW fields, fields = IF e.type = "REG" THEN <<a, s>> ELSE <<a, a, s>>
  PROVE  WellRead(e, fields)
<1> DEFINE total == CellsBefore(fields, Len(fields) + 1)
           l == Len(e.value)
<1>1. l \in Nat
  OBVIOUS
<1>2. CASE e.type = "REG"
  <2>1. fields = <<a, s>>
    BY <1>2
  <2>2. LikeReads(e, Reads("REG", e.value, fields)) /\ a + s # 0
    BY <1>2, <2>1, Zenon DEF RightProp
  <2>3. e.num = l \div total /\ e.data = ReadLists(e.value, fields, l \div total)
    BY <2>2 DEF LikeReads, Reads
  <2> DEFINE b == [f \in 1 .. 3 |-> CellsBefore(<<a, s>>, f)]
  <2>4. FewFields(fields, b)
    BY <2>1, FieldsAreFew
  <2>5. Len(fields) = 2 /\ DOMAIN fields = 1 .. 2 /\ 2 + 1 = 3
    BY <2>1
  <2>6. total = a + s /\ b[3] = total
    BY <2>1, <2>5, CellsOfTwo
  <2>7. total \in Nat \ {0}
    BY <2>2, <2>6
  <2> HIDE DEF total, l, b
  <2>8. l \div total \in Nat /\ (l \div total) * total <= l
    BY <1>1, <2>7, EntriesFit
  <2>9. e.num * b[Len(fields) + 1] <= l /\ e.num \in Nat /\ DOMAIN fields = 1 .. Len(fields)
    BY <2>3, <2>5, <2>6, <2>8
  <2> QED
    BY <2>3, <2>4, <2>9 DEF l, total, WellRead
<1>3. CASE e.type \in {"RANGES", "DMA_RANGES"}
  <2>1. fields = <<a, a, s>>
    BY <1>3
  <2>2. LikeReads(e, Reads("RANGES", e.value, fields)) /\ a # 0
    BY <1>3, <2>1, Zenon DEF RightProp
  <2>3. e.num = l \div total /\ e.data = ReadLists(e.value, fields, l \div total)
    BY <2>2 DEF LikeReads, Reads
  <2> DEFINE b == [f \in 1 .. 4 |-> CellsBefore(<<a, a, s>>, f)]
  <2>4. FewFields(fields, b)
    BY <2>1, FieldsAreFew
  <2>5. Len(fields) = 3 /\ DOMAIN fields = 1 .. 3 /\ 3 + 1 = 4
    BY <2>1
  <2>6. total = a + a + s /\ b[4] = total
    BY <2>1, <2>5, CellsOfThree
  <2>7. total \in Nat \ {0}
    BY <2>2, <2>6
  <2> HIDE DEF total, l, b
  <2>8. l \div total \in Nat /\ (l \div total) * total <= l
    BY <1>1, <2>7, EntriesFit
  <2>9. e.num * b[Len(fields) + 1] <= l /\ e.num \in Nat /\ DOMAIN fields = 1 .. Len(fields)
    BY <2>3, <2>5, <2>6, <2>8
  <2> QED
    BY <2>3, <2>4, <2>9 DEF l, total, WellRead
<1> QED
  BY <1>2, <1>3

(* A pair is the pair of its two members. *)
LEMMA PairIs ==
  ASSUME NEW c, NEW a, NEW s, c = <<a, s>>
  PROVE  c = <<c[1], c[2]>>
  OBVIOUS

-----------------------------------------------------------------------------
(* Every property that has been read fits the cells of its node. *)
LEMMA ReadsFit ==
  ASSUME DeviceTreeAssumption, ShapeOK, SettledOK, PointersOK, SmallSizes, pc = "done", WellFormed,
         NEW k \in Begins, NEW x \in Pointers(props) \ {NULL},
         Deref(props, x).type # "RAW", Deref(props, x).at \in OwnProps(k)
  PROVE  /\ RightProp(Deref(props, x), CellsOf[k][1], CellsOf[k][2])
         /\ CellsOf[k] = <<CellsOf[k][1], CellsOf[k][2]>>
         /\ \E S : Deref(props, x).value \in Seq(S)
         /\ CellsOf[k][1] \in Nat /\ CellsOf[k][2] \in 0 .. 2
<1> DEFINE t == blob.tokens
           e == Deref(props, x)
<1>1. ReadAll /\ Token.kind = "FDT_END" /\ off \in Nat /\ root = First(nodes)
  BY DEF ShapeOK, ReadAll, Read
<1>2. Nested(t, off)
  <2>1. PICK f, q : TreeIs(f, q)
    BY DEF ShapeOK
  <2> QED
    BY <2>1 DEF TreeIs, Built
<1>3. InOrder
  BY <1>1, <1>2, FormatInOrder
<1>4. PICK f, q, C : AllSettled(f, q, C)
  BY <1>3 DEF SettledOK
<1>5. /\ TreeIs(f, q) /\ IsCells(t, off, C) /\ NodesSettled(t, off, nodes, f, C, NodesTo(t, off))
      /\ PropsSettled(t, off, props, q, C)
  BY <1>4 DEF AllSettled
<1>6. PICK j \in PropsTo(t, off) : x = q[j]
  BY <1>4 DEF AllSettled
<1>7. Begins = NodesTo(t, off) /\ DOMAIN t = 1 .. off
  BY <1>1, AllRead, WellFormedMeans
<1>8. CellsOf[k] = C[k]
  BY <1>1, <1>2, <1>5, CellsOfIs
<1>9. OwnProps(k) = Own(t, k, off)
  BY <1>1, <1>2, FamilySame
<1>10. e.at = j /\ e.value = t[j].value
  BY <1>5, <1>6 DEF TreeIs, Built, PropIs
<1>11. Owner(t, j) = k
  BY <1>9, <1>10 DEF Own
<1>12. RightProp(e, C[k][1], C[k][2])
  BY <1>5, <1>6, <1>11 DEF PropsSettled
<1>13. \E S : e.value \in Seq(S)
  <2>1. j \in DOMAIN t
    BY <1>1, <1>7 DEF PropsTo
  <2>2. t[j].value \in Seq({t[j].value[i] : i \in DOMAIN t[j].value})
    BY <2>1 DEF ShapeOK, DeviceTreeAssumption
  <2> HIDE DEF e
  <2> QED
    BY <1>10, <2>2
<1>14. C[k][1] \in Nat /\ C[k][2] \in Nat
  BY <1>1, <1>2, <1>3, <1>5, <1>7, DeclaredNumbers, CellsAreNat DEF InOrder
<1>15. ~(C[k][2] > 2)
  <2> DEFINE h == Here(t, off, nodes, f, k)
  <2>1. CellsAre(Deref(nodes, h), C[k])
    BY <1>5, <1>7 DEF NodesSettled
  <2>2. h \in Pointers(nodes) \ {NULL}
    <3>1. Placed = Where(f)
      BY <1>1, <1>5, PlacedIs
    <3>2. h = IF k = Lowest(NodesTo(t, off)) THEN First(nodes) ELSE f[k]
      BY DEF Here
    <3>3. Rooted(t, off, nodes, f, q) /\ Built(t, off, nodes, props, f, q)
      BY <1>5 DEF TreeIs
    <3>4. First(nodes) \in Pointers(nodes) \ {NULL}
      BY <1>7, <3>3 DEF Rooted
    <3>5. f[k] \in Pointers(nodes) \ {NULL}
      BY <1>7, <3>3 DEF Built, Places
    <3> QED
      BY <3>2, <3>4, <3>5
  <2> HIDE DEF h
  <2>3. Deref(nodes, h) \in Elements(nodes)
    BY <2>2, DerefElement DEF PointersOK, TreeOK
  <2>4. ~(Deref(nodes, h).size_cells > 2)
    BY <2>3 DEF SmallSizes, SmallNodes, SmallNode
  <2> QED
    BY <2>1, <2>4 DEF CellsAre
<1>16. C[k][2] \in 0 .. 2
  BY <1>14, <1>15
<1>17. C[k] = <<C[k][1], C[k][2]>>
  <2> DEFINE first == k = Lowest(NodesTo(t, off))
             a == IF first THEN 2 ELSE Decl(t, off, Owner(t, k), "#address-cells", C[Owner(t, k)][1])
             s == IF first THEN 1 ELSE Decl(t, off, Owner(t, k), "#size-cells", C[Owner(t, k)][2])
  <2>1. k \in NodesTo(t, off)
    BY <1>7
  <2>2. C[k] = CellsFrom(t, off, C, k)
    BY <1>5, <2>1 DEF IsCells
  <2>3. CellsFrom(t, off, C, k) = <<a, s>>
    <3>1. CASE first
      BY <3>1, Zenon DEF CellsFrom
    <3>2. CASE ~first
      BY <3>2, Zenon DEF CellsFrom
    <3> QED
      BY <3>1, <3>2
  <2> HIDE DEF a, s
  <2> QED
    BY <2>2, <2>3, PairIs
<1> QED
  BY <1>8, <1>12, <1>13, <1>14, <1>16, <1>17

(* The lists of one property, read with a and s cells, hold its entries. *)
FieldsRead(type, a, s) == IF type = "REG" THEN <<a, s>> ELSE <<a, a, s>>
ElementsRight(p, a, s) == HoldsEntries(p, FieldsRead(p.type, a, s))

(* They do when it was read with few cells. *)
LEMMA ReadElements ==
  ASSUME NEW p, NEW S, p.value \in Seq(S), NEW a \in 0 .. 2, NEW s \in 0 .. 2, RightProp(p, a, s),
         p.type \in {"REG", "RANGES", "DMA_RANGES"}
  PROVE  ElementsRight(p, a, s)
<1> DEFINE fields == IF p.type = "REG" THEN <<a, s>> ELSE <<a, a, s>>
           total == CellsBefore(fields, Len(fields) + 1)
           v == p.value
           n == p.num
<1>1. fields = IF p.type = "REG" THEN <<a, s>> ELSE <<a, a, s>>
  OBVIOUS
<1> HIDE DEF fields
<1>2. /\ DOMAIN fields = 1 .. Len(fields) /\ n \in Nat /\ p.data = ReadLists(v, fields, n)
      /\ n = Len(v) \div total
      /\ \E b : FewFields(fields, b) /\ n * b[Len(fields) + 1] <= Len(v)
  <2>1. WellRead(p, fields)
    BY <1>1, ReadRight
  <2> QED
    BY <2>1, Zenon DEF WellRead
<1>3. PICK b : FewFields(fields, b) /\ n * b[Len(fields) + 1] <= Len(v)
  BY <1>2
<1>4. v \in Seq(S)
  OBVIOUS
<1>5. ElementsRight(p, a, s) <=>
        /\ n = Len(v) \div total
        /\ \A f \in DOMAIN fields, e \in 0 .. n - 1 :
             [c \in 1 .. fields[f] |-> p.data[n * CellsBefore(fields, f) + (e + 1) * fields[f] - c]]
             = SubSeq(v, e * total + CellsBefore(fields, f) + 1, e * total + CellsBefore(fields, f + 1))
  BY Zenon DEF ElementsRight, HoldsEntries, FieldsRead, fields
<1> HIDE DEF v, n
<1>6. ASSUME NEW f \in DOMAIN fields, NEW e \in 0 .. n - 1
      PROVE  [c \in 1 .. fields[f] |-> ReadLists(v, fields, n)[n * CellsBefore(fields, f) + (e + 1) * fields[f] - c]]
             = SubSeq(v, e * total + CellsBefore(fields, f) + 1, e * total + CellsBefore(fields, f + 1))
  <2>1. f \in 1 .. Len(fields)
    BY <1>2
  <2>2. ElementRight(v, fields, n, f, e)
    BY <1>2, <1>3, <1>4, <2>1, ElementIs
  <2> QED
    BY <2>2, Zenon DEF ElementRight
<1> QED
  BY <1>2, <1>5, <1>6

(* A bus that has the cells of its parent's space has entries of them. *)
LEMMA SameCells ==
  ASSUME NEW k \in Begins, NEW type, type = "REG" \/ BusCells(k) = CellsOf[k],
         NEW a, NEW s, CellsOf[k] = <<a, s>>
  PROVE  EntryFields(k, type) = FieldsRead(type, a, s)
BY DEF EntryFields, FieldsRead

(* From there to the property. *)
LEMMA ReadIsRight ==
  ASSUME DeviceTreeAssumption, ShapeOK, SettledOK, PointersOK, SmallSizes
  PROVE  ListsRight
<1>1. ASSUME pc = "done", WellFormed, NEW k \in Begins, NEW x \in Pointers(props) \ {NULL},
             Deref(props, x).at \in OwnProps(k), Deref(props, x).type \in {"REG", "RANGES", "DMA_RANGES"},
             CellsOf[k][1] <= 2, Deref(props, x).type = "REG" \/ BusCells(k) = CellsOf[k]
      PROVE  HoldsEntries(Deref(props, x), EntryFields(k, Deref(props, x).type))
  <2> DEFINE p == Deref(props, x)
             a == CellsOf[k][1]
             s == CellsOf[k][2]
  <2>1. RightProp(p, a, s) /\ (\E S : p.value \in Seq(S)) /\ a \in Nat /\ s \in 0 .. 2 /\ CellsOf[k] = <<a, s>>
    BY <1>1, ReadsFit
  <2>2. p.type \in {"REG", "RANGES", "DMA_RANGES"} /\ a <= 2
    BY <1>1
  <2>6. EntryFields(k, p.type) = FieldsRead(p.type, a, s)
    <3>1. p.type = "REG" \/ BusCells(k) = CellsOf[k]
      BY <1>1
    <3> HIDE DEF p, a, s
    <3> QED
      BY <2>1, <3>1, SameCells
  <2> HIDE DEF p, a, s
  <2>3. PICK S : p.value \in Seq(S)
    BY <2>1
  <2>4. a \in 0 .. 2
    BY <2>1, <2>2
  <2>5. ElementsRight(p, a, s)
    BY <2>1, <2>2, <2>3, <2>4, ReadElements
  <2> QED
    BY <2>5, <2>6 DEF p, ElementsRight
<1> QED
  BY <1>1, Zenon DEF ListsRight

(* When dt_initialize succeeds on a blob that follows the format, every    *)
(* reg, and every ranges and dma-ranges of a bus that has the cells of its *)
(* parent's space, has been read completely: an entry for each one in the  *)
(* value, and the numbers of each field in a list of their own and in      *)
(* their order, for addresses of at most two cells.                        *)
THEOREM ListsAreRead == Spec => []ListsRight
<1>1. Init => PointersOK /\ ShapeOK /\ WalkOK /\ SettledOK /\ SmallSizes
  <2> SUFFICES ASSUME Init
               PROVE  WalkOK /\ SettledOK /\ SmallSizes
    BY PointersInit, ShapeInit
  <2>1. props = <<>> /\ nodes = <<>> /\ frames = <<>> /\ pc = "map"
    BY DEF Init, ARRAY_INIT
  <2>2. Elements(<<>>) = {} /\ DOMAIN <<>> = {}
    BY DEF Elements
  <2> QED
    BY <2>1, <2>2 DEF WalkOK, AllRaw, SettledOK, SmallSizes, SmallNodes, SmallFrames
<1>2. /\ PointersOK /\ ShapeOK /\ WalkOK /\ SettledOK /\ SmallSizes /\ [Next]_vars
      => (PointersOK /\ ShapeOK /\ WalkOK /\ SettledOK /\ SmallSizes)'
  BY DeviceTreeAssumption, PointersKept, ShapeKept, WalkKept, SettledKept, SmallKept
<1>3. PointersOK /\ ShapeOK /\ SettledOK /\ SmallSizes => ListsRight
  BY DeviceTreeAssumption, ReadIsRight
<1> QED
  BY <1>1, <1>2, <1>3, PTL DEF Spec

-----------------------------------------------------------------------------
(* A raw property that was copied. *)
Copied(e) == e.name # "" /\ (e.null => e.value = <<>>)

(* The number of entries in an empty value. *)
LEMMA NoEntries ==
  ASSUME NEW l, l = 0, NEW m \in Nat \ {0}
  PROVE  ~(l \div m > 0)
OBVIOUS

(* A declaration of cells is a number. *)
Counts(e) ==
  e.name \in {"#address-cells", "#size-cells"} /\ e.value # <<>> => e.value[1] \in Nat

(* Its rewrite goes well if its value is right, and memory suffices. *)
LEMMA GoesWell ==
  ASSUME NEW e, NEW S, NEW v \in Seq(S), e.value = v, e.type = "RAW", e.name \in PropertyNames, Copied(e),
         Counts(e), NEW a \in Nat, NEW s \in Nat, ValueRight(e.name, v, <<a, s>>),
         NEW full, ~full, NEW r, r = Rewrite(e, a, s, full)
  PROVE  r.how = "ok"
<1>0. v # <<>> => ~e.null
  BY Zenon DEF Copied
<1>1. CASE e.name = "compatible"
  <2>1. r = Compatible(e, full)
    BY <1>1 DEF Rewrite
  <2>2. ~(e.null /\ v # <<>>)
    BY <1>0, Zenon
  <2> QED
    BY <2>1, <2>2 DEF Compatible, Becomes
<1>2. CASE e.name \in {"model", "dma-coherent", "dma-noncoherent", "device_type", "other"}
  BY <1>2 DEF Rewrite, Becomes
<1>3. CASE e.name \in {"phandle", "linux,phandle"}
  <2>1. v # <<>>
    BY <1>3 DEF ValueRight
  <2> QED
    BY <1>0, <1>3, <2>1 DEF Rewrite, Number, Becomes
<1>4. CASE e.name = "status"
  <2>1. /\ v # <<>>
        /\ ~ \A i \in DOMAIN StatusValues : StatusValues[i] # v[1]
    BY <1>4 DEF ValueRight
  <2>2. r = Status(e)
    BY <1>4 DEF Rewrite
  <2> QED
    BY <1>0, <2>1, <2>2 DEF Status, Becomes
<1>5. ASSUME NEW type, NEW limit \in Nat, v # <<>>, v[1] <= limit, v[1] \in Nat, r = Cells(e, type, limit)
      PROVE  r.how = "ok"
  <2>1. Number(e, type) = Becomes(type, v[1])
    BY <1>0, <1>5 DEF Number
  <2>2. Becomes(type, v[1]).num = v[1] /\ Becomes(type, v[1]).how = "ok"
    BY DEF Becomes
  <2>3. ~(v[1] > limit)
    BY <1>5
  <2>4. r = Becomes(type, v[1])
    BY <1>5, <2>1, <2>2, <2>3 DEF Cells
  <2> QED
    BY <2>2, <2>4
<1>6. CASE e.name = "#address-cells"
  <2>1. v # <<>> /\ v[1] <= 3
    BY <1>6 DEF ValueRight
  <2>2. v[1] \in Nat
    BY <1>6, <2>1 DEF Counts
  <2>3. r = Cells(e, "ADDRESS_CELLS", 3)
    BY <1>6 DEF Rewrite
  <2> QED
    BY <1>5, <2>1, <2>2, <2>3
<1>7. CASE e.name = "#size-cells"
  <2>1. v # <<>> /\ v[1] <= 2
    BY <1>7 DEF ValueRight
  <2>2. v[1] \in Nat
    BY <1>7, <2>1 DEF Counts
  <2>3. r = Cells(e, "SIZE_CELLS", 2)
    BY <1>7 DEF Rewrite
  <2> QED
    BY <1>5, <2>1, <2>2, <2>3
<1>8. CASE e.name = "reg"
  <2>1. a + s > 0 /\ v # <<>> /\ Len(v) % (a + s) = 0
    BY <1>8 DEF ValueRight
  <2>2. ~(a + s = 0) /\ Len(v) # 0
    BY <2>1
  <2>3. r = Reg(e, a, s, full)
    BY <1>8 DEF Rewrite
  <2>4. r = Reads("REG", v, <<a, s>>)
    BY <1>0, <2>1, <2>2, <2>3 DEF Reg
  <2> QED
    BY <2>4 DEF Reads
<1>9. ASSUME e.name \in {"ranges", "dma-ranges"}
      PROVE  Ranges(e, a, s, full) = Reads("RANGES", v, <<a, a, s>>)
  <2>1. a > 0 /\ s > 0
    BY <1>9 DEF ValueRight
  <2>2. ~(a = 0) /\ ~(s = 0) /\ 2 * a + s \in Nat \ {0}
    BY <2>1
  <2>3. v = <<>> => ~(Len(v) \div (2 * a + s) > 0)
    <3> SUFFICES ASSUME v = <<>>
                 PROVE  ~(Len(v) \div (2 * a + s) > 0)
      OBVIOUS
    <3>1. Len(v) = 0
      OBVIOUS
    <3> DEFINE l == Len(v)
               m == 2 * a + s
    <3> HIDE DEF l, m
    <3> QED
      BY <2>2, <3>1, NoEntries DEF l, m
  <2>4. ~(Len(v) \div (2 * a + s) > 0 /\ (full \/ e.null))
    BY <1>0, <2>3, Zenon
  <2> QED
    BY <2>2, <2>4, Zenon DEF Ranges
<1>10. Reads("RANGES", v, <<a, a, s>>).how = "ok" /\ "how" \in DOMAIN Reads("RANGES", v, <<a, a, s>>)
  BY DEF Reads
<1>11. CASE e.name = "ranges"
  BY <1>9, <1>10, <1>11 DEF Rewrite
<1>12. CASE e.name = "dma-ranges"
  <2> DEFINE x == Ranges(e, a, s, full)
  <2>1. r = IF x.how = "ok" THEN [x EXCEPT !.type = "DMA_RANGES"] ELSE x
    BY <1>12 DEF Rewrite
  <2>2. x.how = "ok" /\ "how" \in DOMAIN x
    BY <1>9, <1>10, <1>12
  <2> HIDE DEF x
  <2> QED
    BY <2>1, <2>2
<1> QED
  BY <1>1, <1>2, <1>3, <1>4, <1>6, <1>7, <1>8, <1>11, <1>12 DEF PropertyNames

(* The property that a blob in order meets next has a right value. *)
LEMMA MetWell ==
  ASSUME DeviceTreeAssumption, PointersOK, ShapeOK, WalkOK, SettledOK, Valid, pc = "rewrite", Top.prop # NULL,
         \A e \in Elements(props) : Copied(e), NEW full, ~full
  PROVE  RewriteOf(full).how = "ok"
<1> DEFINE t == blob.tokens
           d == Len(frames)
<1>1. ReadAll /\ Token.kind = "FDT_END" /\ off \in Nat /\ WellFormed /\ blob \in Blobs
  BY DEF ShapeOK, ReadAll, Read, Valid
<1>2. Nested(t, off)
  <2>1. PICK f, q : TreeIs(f, q)
    BY DEF ShapeOK
  <2> QED
    BY <2>1 DEF TreeIs, Built
<1>3. InOrder
  BY <1>1, <1>2, FormatInOrder
<1>4. PICK f, q, ks, c, p, C, E : Settling(f, q, ks, c, p, C, E)
  BY <1>3 DEF SettledOK
<1>5. /\ Walking(f, q, ks, c, p) /\ IsCells(t, off, C)
      /\ Entered(t, off, ks, d, c, E) /\ NodesSettled(t, off, nodes, f, C, E)
  BY <1>4 DEF Settling
<1>6. p # 0 /\ p \in Own(t, ks[d], off) /\ Top.prop = q[p]
  <2>1. Calls(t, off, nodes, frames, d, f, q, ks, c, p)
    BY <1>5 DEF Walking
  <2> QED
    BY <2>1 DEF Calls, Ptr, Top
<1>7. TreeIs(f, q) /\ Path(t, off, ks, d) /\ Built(t, off, nodes, props, f, q)
  BY <1>5 DEF Walking, Calls, TreeIs
<1> DEFINE k == ks[d]
           e == Deref(props, q[p])
           x == Here(t, off, nodes, f, k)
<1>8. k \in NodesTo(t, off) /\ k \in E
  BY <1>5, <1>7 DEF Path, Entered
<1>9. Begins = NodesTo(t, off) /\ DOMAIN t = 1 .. off
  BY <1>1, AllRead
<1>10. CellsOf[k] = C[k] /\ OwnProps(k) = Own(t, k, off)
  BY <1>1, <1>2, <1>5, <1>8, <1>9, CellsOfIs, FamilySame
<1>11. C[k][1] \in Nat /\ C[k][2] \in Nat
  BY <1>1, <1>2, <1>3, <1>5, <1>8, DeclaredNumbers, CellsAreNat DEF InOrder
<1>24. C[k] = <<C[k][1], C[k][2]>>
  <2>1. C[k] = CellsFrom(t, off, C, k)
    BY <1>5, <1>8 DEF IsCells
  <2>2. \E u, v : C[k] = <<u, v>>
    BY <2>1 DEF CellsFrom
  <2> QED
    BY <2>2
<1>12. CellsAre(Deref(nodes, x), C[k])
  BY <1>5, <1>8 DEF NodesSettled
<1>13. PropIs(t, q, p, e) /\ q[p] \in Pointers(props) \ {NULL}
  BY <1>6, <1>7 DEF Built, Own, Places
<1>14. e \in Elements(props)
  BY <1>13, DerefElement DEF PointersOK, TreeOK
<1>15. Copied(e)
  BY <1>14
<1>16. e.name = t[p].name /\ e.value = t[p].value
  BY <1>13, <1>15 DEF PropIs, Copied
<1>17. e.type = "RAW"
  BY <1>6, WalksRaw DEF MeetsOnlyRaw
<1>18. ValueRight(t[p].name, t[p].value, CellsOf[k])
  BY <1>6, <1>8, <1>9, <1>10 DEF Valid
<1>19. p \in DOMAIN t
  BY <1>1, <1>6, <1>9 DEF Own, PropsTo
<1>20. /\ t[p].name \in PropertyNames
       /\ t[p].name \in {"#address-cells", "#size-cells"} /\ t[p].value # <<>> => t[p].value[1] \in Nat
       /\ t[p].value \in Seq({t[p].value[i] : i \in DOMAIN t[p].value})
  BY <1>1, <1>19 DEF DeviceTreeAssumption
<1>21. \E S : t[p].value \in Seq(S)
  BY <1>20
<1>22. RewriteOf(full) = Rewrite(e, C[k][1], C[k][2], full)
  <2>1. Top.node = x
    BY <1>5, TopHere
  <2> QED
    BY <1>6, <1>12, <2>1 DEF RewriteOf, CellsAre
<1> HIDE DEF e, k, t
<1>23. Rewrite(e, C[k][1], C[k][2], full).how = "ok"
  <2>1. PICK S : e.value \in Seq(S)
    BY <1>16, <1>21
  <2>2. ValueRight(e.name, e.value, <<C[k][1], C[k][2]>>) /\ e.name \in PropertyNames
    BY <1>10, <1>16, <1>18, <1>20, <1>24
  <2>3. Counts(e)
    BY <1>16, <1>20 DEF Counts
  <2> QED
    BY <1>11, <1>15, <1>17, <2>1, <2>2, <2>3, GoesWell
<1> QED
  BY <1>22, <1>23

-----------------------------------------------------------------------------
(* A blob that follows the format and reserves nothing, and memory so far. *)
Calm == Valid /\ ~MoreReserved /\ refusals = 0 /\ pages > 0

(* The inductive invariant: all goes well, and everything was copied. *)
AcceptOK ==
  /\ refusals \in Nat /\ pages \in Nat
  /\ Calm => /\ pc \notin {"panic", "trap"}
             /\ pc = "failed" => err = "ERR_DTB_MAPPING_FAILED"
             /\ \A e \in Elements(props) : Copied(e)

(* The blob stays. *)
LEMMA BlobStays ==
  ASSUME [Next]_vars
  PROVE  blob' = blob
BY DEF Next, vars, MapFirst, MapRest, MapFails, AllocBuffer, Reserve, ReserveEnds, ParseNode, ParseProperty,
       ParseEndNode, ParseNop, ParseUnknown, ParseEnd, RewriteProperty, RewriteChild, RewriteReturn, PrintTree,
       Unmap, Done

(* and with it what it is. *)
LEMMA ValidStays ==
  ASSUME blob' = blob
  PROVE  Valid' = Valid /\ MoreReserved' = MoreReserved
<1>1. WellFormed' = WellFormed
  BY DEF WellFormed, Begins, Kind, Level, Before, OpenAt, RootAt, OwnProps, ChildrenOf
<1>2. CellsOf' = CellsOf
  BY DEF CellsOf, Declared, Begins, Kind, Level, Before, OpenAt, RootAt, OwnProps
<1>3. Begins' = Begins /\ \A k : OwnProps(k)' = OwnProps(k)
  BY DEF Begins, OwnProps, OpenAt, Kind, Level, Before
<1>4. MoreReserved' = MoreReserved
  BY DEF MoreReserved
<1>5. Valid' = (/\ blob'.magic /\ WellFormed'
                /\ \A k \in Begins' : \A j \in OwnProps(k)' :
                     ValueRight(blob'.tokens[j].name, blob'.tokens[j].value, CellsOf'[k]))
  BY Zenon DEF Valid
<1>6. Valid' = Valid
  BY <1>1, <1>2, <1>3, <1>5 DEF Valid
<1> QED
  BY <1>4, <1>6

(* Memory only runs out: what is calm after a step was so before it. *)
LEMMA CalmBefore ==
  ASSUME refusals \in Nat, pages \in Nat, MaxRefusals \in Nat, [Next]_vars
  PROVE  /\ refusals' \in Nat /\ pages' \in Nat
         /\ Calm' => Calm /\ refusals' = refusals
<1>1. refusals' \in Nat /\ refusals <= refusals' /\ pages' \in Nat /\ pages' <= pages
  <2>1. ASSUME UNCHANGED <<refusals, pages>>
        PROVE  refusals' \in Nat /\ refusals <= refusals' /\ pages' \in Nat /\ pages' <= pages
    BY <2>1
  <2>2. CASE AllocBuffer
    BY <2>2 DEF AllocBuffer
  <2>3. CASE Reserve
    BY <2>3 DEF Reserve, HasRoom, Pay
  <2>4. CASE ParseNode
    BY <2>4 DEF ParseNode, HasRoom, Pay, Refused
  <2>5. CASE ParseProperty
    <3>1. refusals' = refusals \/ \E n \in 0 .. 2 : refusals' = refusals + n
      <4>1. ASSUME NEW named, NEW copied
            PROVE  Cardinality({x \in {"name", "value"} : (x = "name" /\ ~named) \/ (x = "value" /\ ~copied)}) \in 0 .. 2
        <5> DEFINE X == {x \in {"name", "value"} : (x = "name" /\ ~named) \/ (x = "value" /\ ~copied)}
        <5>1. Cardinality({"name", "value"}) <= 2 /\ IsFiniteSet({"name", "value"})
          <6>1. Cardinality({"name"}) = 1 /\ IsFiniteSet({"name"})
            BY FS_Singleton
          <6>2. {"name", "value"} = {"name"} \cup {"value"} /\ "value" \notin {"name"}
            OBVIOUS
          <6>3. IsFiniteSet({"name"} \cup {"value"}) /\ Cardinality({"name"} \cup {"value"}) = 1 + 1
            BY <6>1, <6>2, FS_AddElement
          <6> QED
            BY <6>2, <6>3
        <5>2. X \subseteq {"name", "value"}
          OBVIOUS
        <5> HIDE DEF X
        <5>3. Cardinality(X) \in Nat /\ Cardinality(X) <= Cardinality({"name", "value"}) /\ Cardinality({"name", "value"}) \in Nat
          BY <5>1, <5>2, FS_Subset, FS_CardinalityType
        <5>4. Cardinality(X) \in 0 .. 2
          BY <5>1, <5>3
        <5> QED
          BY <5>4 DEF X
      <4> QED
        BY <2>5, <4>1 DEF ParseProperty, Refused
    <3>2. pages' = pages \/ (pages' = pages - 1 /\ pages > 0)
      BY <2>5 DEF ParseProperty, HasRoom, Pay
    <3> QED
      BY <3>1, <3>2
  <2>6. CASE RewriteProperty
    <3>1. pages' = pages /\ (refusals' = refusals + 1 \/ refusals' = refusals + 0)
      BY <2>6 DEF RewriteProperty, Refused
    <3> QED
      BY <3>1
  <2>7. CASE \/ MapFirst \/ MapRest \/ MapFails \/ ReserveEnds \/ ParseEndNode \/ ParseNop \/ ParseUnknown
             \/ ParseEnd \/ RewriteChild \/ RewriteReturn \/ PrintTree \/ Unmap \/ Done \/ UNCHANGED vars
    BY <2>1, <2>7 DEF MapFirst, MapRest, MapFails, ReserveEnds, ParseEndNode, ParseNop, ParseUnknown,
                      ParseEnd, RewriteChild, RewriteReturn, PrintTree, Unmap, Done, vars
  <2> QED
    BY <2>2, <2>3, <2>4, <2>5, <2>6, <2>7 DEF Next
<1>2. Valid' = Valid /\ MoreReserved' = MoreReserved
  BY BlobStays, ValidStays
<1>3. Calm' = (Valid' /\ ~MoreReserved' /\ refusals' = 0 /\ pages' > 0)
  BY DEF Calm
<1>4. ASSUME refusals' = 0, pages' > 0
      PROVE  refusals = 0 /\ pages > 0
  BY <1>1, <1>4
<1> QED
  BY <1>1, <1>2, <1>3, <1>4 DEF Calm

-----------------------------------------------------------------------------
(* The next token is one of the blob: none behind its end is read. *)
LEMMA OffWithin ==
  ASSUME DeviceTreeAssumption, ShapeOK, pc = "parse"
  PROVE  /\ DOMAIN blob.tokens = 1 .. Len(blob.tokens) /\ Len(blob.tokens) \in Nat
         /\ off \in DOMAIN blob.tokens
<1> DEFINE t == blob.tokens
<1>3. /\ DOMAIN t = 1 .. Len(t) /\ Len(t) \in Nat
      /\ \E k \in DOMAIN t : t[k].kind \in {"FDT_END", "unknown"}
  <2>1. blob \in Blobs
    BY DEF ShapeOK
  <2>2. t \in Seq({t[k] : k \in DOMAIN t}) /\ \E k \in DOMAIN t : t[k].kind \in {"FDT_END", "unknown"}
    BY <2>1 DEF DeviceTreeAssumption
  <2> DEFINE S == {t[k] : k \in DOMAIN t}
  <2>3. t \in Seq(S)
    BY <2>2
  <2> HIDE DEF S, t
  <2>4. DOMAIN t = 1 .. Len(t) /\ Len(t) \in Nat
    BY <2>3
  <2> QED
    BY <2>2, <2>4
<1>4. off \in Nat \ {0} /\ \A k \in 1 .. off - 1 : t[k].kind \notin {"FDT_END", "unknown"}
  BY DEF ShapeOK, Read, Kind
<1>5. off \in DOMAIN t
  <2>1. PICK k \in DOMAIN t : t[k].kind \in {"FDT_END", "unknown"}
    BY <1>3
  <2>2. k \in Nat /\ k <= Len(t) /\ k >= 1 /\ k \notin 1 .. off - 1
    BY <1>3, <1>4, <2>1
  <2> QED
    BY <1>3, <1>4, <2>2
<1> QED
  BY <1>3, <1>5

(* In a blob that follows the format, a property and the end of a node are *)
(* within a node.                                                          *)
LEMMA WithinOne ==
  ASSUME DeviceTreeAssumption, ShapeOK, WellFormed, pc = "parse", Token.kind \in {"FDT_PROP", "FDT_END_NODE"}
  PROVE  curr # NULL
<1> DEFINE t == blob.tokens
<1>1. PICK f, q : TreeIs(f, q)
  BY DEF ShapeOK
<1>2. Built(t, off, nodes, props, f, q) /\ curr = Ptr(f, Owner(t, off))
  BY <1>1 DEF TreeIs
<1>3. DOMAIN t = 1 .. Len(t) /\ Len(t) \in Nat /\ off \in DOMAIN t
  BY OffWithin
<1>4. off \in Nat \ {0}
  BY <1>3
<1>5. off \in DOMAIN t
  BY <1>3
<1>6. t[off].kind \in {"FDT_PROP", "FDT_END_NODE"}
  BY DEF Token
<1>7. off < Len(t)
  <2>1. off # Len(t)
    BY <1>5, <1>6 DEF WellFormed, Kind
  <2> QED
    BY <1>3, <1>5, <2>1
<1>8. off # RootAt
  <2>1. Begins # {} /\ Begins \in SUBSET Nat
    BY <1>3 DEF WellFormed, Begins
  <2>2. RootAt \in Begins
    BY <2>1, MinIs DEF RootAt
  <2> QED
    BY <1>6, <2>2 DEF Begins, Kind
<1>9. Level(off) > 0
  BY <1>5, <1>6, <1>7, <1>8 DEF WellFormed, Kind
<1>10. LevelIn(t, off) > 0
  BY <1>9, LevelSame
<1>11. WithinNode(t, Owner(t, off), off)
  BY <1>4, <1>10, OwnerIs
<1>12. Owner(t, off) \in NodesTo(t, off) /\ Owner(t, off) # 0
  BY <1>4, <1>11 DEF WithinNode, NodesTo
<1>13. f[Owner(t, off)] \in Pointers(nodes) \ {NULL}
  BY <1>2, <1>12 DEF Built, Places
<1> QED
  BY <1>2, <1>12, <1>13 DEF Ptr

(* At its end it has had nodes, and none is open. *)
LEMMA EndsClosed ==
  ASSUME DeviceTreeAssumption, ShapeOK, WellFormed, pc = "parse", Token.kind = "FDT_END"
  PROVE  curr = NULL /\ ARRAY_SIZE(nodes) > 0
<1> DEFINE t == blob.tokens
<1>1. PICK f, q : TreeIs(f, q)
  BY DEF ShapeOK
<1>2. Rooted(t, off, nodes, f, q) /\ curr = Ptr(f, Owner(t, off))
  BY <1>1 DEF TreeIs
<1>3. off = Len(t) /\ Begins = NodesTo(t, off) /\ Begins # {}
  BY AllRead DEF WellFormed
<1>4. LevelIn(t, off) = 0
  <2>1. Level(off) = 0
    BY <1>3 DEF WellFormed
  <2> QED
    BY <2>1, LevelSame
<1>5. Owner(t, off) = 0
  BY <1>4 DEF Owner
<1>6. ARRAY_SIZE(nodes) \in Nat \ {0}
  BY <1>2, <1>3 DEF Rooted
<1> QED
  BY <1>2, <1>5, <1>6 DEF Ptr

(* A property keeps its copies when it is rewritten. *)
LEMMA CopiedWritten ==
  ASSUME NEW e, Copied(e), DOMAIN e = PropFields, NEW r
  PROVE  Copied(Written(e, r))
<1> DEFINE w == Written(e, r)
<1>1. \A x \in DOMAIN e \ {"type", "num", "data"} : w[x] = e[x]
  BY DEF Written
<1>2. {"name", "value", "null"} \subseteq DOMAIN e \ {"type", "num", "data"}
  BY DEF PropFields
<1>3. w["name"] = e["name"] /\ w["value"] = e["value"] /\ w["null"] = e["null"]
  BY <1>1, <1>2, Zenon
<1> HIDE DEF w
<1>4. Copied(w)
  BY <1>3, Zenon DEF Copied
<1> QED
  BY <1>4 DEF w

-----------------------------------------------------------------------------
(* A property of which both parts were copied. *)
LEMMA CopiedNew ==
  ASSUME NEW named, named, NEW copied, copied, Token.name # ""
  PROVE  Copied(NewProperty(named, copied))
<1> DEFINE w == NewProperty(named, copied)
<1>1. w.name = Token.name /\ w.value = Token.value
  BY DEF NewProperty
<1>2. w.null = (~copied \/ Token.value = <<>>)
  BY Zenon DEF NewProperty
<1> HIDE DEF w
<1>3. Copied(w)
  BY <1>1, <1>2, Zenon DEF Copied
<1> QED
  BY <1>3 DEF w

(* When nothing is refused, both were. *)
LEMMA NoneRefused ==
  ASSUME NEW named, NEW copied,
         Cardinality({x \in {"name", "value"} : (x = "name" /\ ~named) \/ (x = "value" /\ ~copied)}) = 0
  PROVE  named /\ copied
<1> DEFINE X == {x \in {"name", "value"} : (x = "name" /\ ~named) \/ (x = "value" /\ ~copied)}
<1>1. IsFiniteSet({"name", "value"}) /\ X \subseteq {"name", "value"}
  <2>1. IsFiniteSet({"name"})
    BY FS_Singleton
  <2>2. {"name", "value"} = {"name"} \cup {"value"}
    OBVIOUS
  <2>3. IsFiniteSet({"name"} \cup {"value"})
    BY <2>1, FS_AddElement
  <2>4. IsFiniteSet({"name", "value"})
    BY <2>2, <2>3
  <2> QED
    BY <2>4
<1>2. Cardinality(X) = 0
  OBVIOUS
<1> HIDE DEF X
<1>3. X = {}
  BY <1>1, <1>2, FS_Subset, FS_EmptySet
<1>4. "name" \notin X /\ "value" \notin X
  BY <1>3
<1>5. (~named => "name" \in X) /\ (~copied => "value" \in X)
  BY Zenon DEF X
<1> QED
  BY <1>4, <1>5, Zenon

(* Parsing a property, *)
LEMMA PropertyCopied ==
  ASSUME DeviceTreeAssumption, PointersOK, ShapeOK, WellFormed, ParseProperty, refusals \in Nat, refusals' = refusals,
         pages > 0, \A e \in Elements(props) : Copied(e)
  PROVE  UNCHANGED <<pc, err>> /\ \A e \in Elements(props') : Copied(e)
<1>1. pc = "parse" /\ Token.kind = "FDT_PROP"
  BY DEF ParseProperty
<1>2. curr # NULL
  BY <1>1, WithinOne
<1>3. HasRoom(props, PROP_CAP)
  BY DEF HasRoom
<1>4. PICK named \in BOOLEAN, copied \in (IF Token.value = <<>> THEN {TRUE} ELSE BOOLEAN) :
        /\ Refused(Cardinality({x \in {"name", "value"} : (x = "name" /\ ~named) \/ (x = "value" /\ ~copied)}))
        /\ props' = ARRAY_PUSH(props, PROP_CAP, NewProperty(named, copied))
        /\ UNCHANGED <<pc, err>>
  BY <1>2, <1>3, Zenon DEF ParseProperty
<1>5. named /\ copied
  <2> DEFINE X == {x \in {"name", "value"} : (x = "name" /\ ~named) \/ (x = "value" /\ ~copied)}
  <2>1. Refused(Cardinality(X))
    BY <1>4
  <2>3. Cardinality(X) \in Nat
    <3>1. IsFiniteSet({"name", "value"}) /\ X \subseteq {"name", "value"}
      <4>1. IsFiniteSet({"name"})
        BY FS_Singleton
      <4>2. {"name", "value"} = {"name"} \cup {"value"}
        OBVIOUS
      <4>3. IsFiniteSet({"name"} \cup {"value"})
        BY <4>1, FS_AddElement
      <4>4. IsFiniteSet({"name", "value"})
        BY <4>2, <4>3
      <4> QED
        BY <4>4
    <3> HIDE DEF X
    <3> QED
      BY <3>1, FS_Subset, FS_CardinalityType
  <2> HIDE DEF X
  <2>4. Cardinality(X) = 0
    BY <2>1, <2>3 DEF Refused
  <2> QED
    BY <2>4, NoneRefused DEF X
<1>6. Token.name # ""
  <2>1. off \in DOMAIN blob.tokens /\ blob \in Blobs
    BY <1>1, OffWithin DEF ShapeOK
  <2>2. Token.name \in PropertyNames
    BY <2>1 DEF DeviceTreeAssumption, Token
  <2> QED
    BY <2>2 DEF PropertyNames
<1> DEFINE w == NewProperty(named, copied)
<1>7. Copied(w)
  BY <1>5, <1>6, CopiedNew
<1>8. props' = ARRAY_PUSH(props, PROP_CAP, w) /\ UNCHANGED <<pc, err>>
  BY <1>4
<1> HIDE DEF w
<1>9. Elements(props') \subseteq Elements(props) \cup {w}
  BY <1>8, Pushed DEF PointersOK, TreeOK
<1> QED
  BY <1>7, <1>8, <1>9

(* and rewriting one. *)
LEMMA PropertyAccepted ==
  ASSUME DeviceTreeAssumption, PointersOK, ShapeOK, WalkOK, SettledOK, Valid, RewriteProperty,
         refusals \in Nat, refusals' = refusals, \A e \in Elements(props) : Copied(e)
  PROVE  UNCHANGED <<pc, err>> /\ \A e \in Elements(props') : Copied(e)
<1>1. pc = "rewrite" /\ Top.prop # NULL
  BY PropertyStep
<1>2. PICK full \in BOOLEAN : Round(RewriteOf(full)) /\ Refused(IF full THEN 1 ELSE 0)
  BY PropertyStep
<1>3. ~full
  <2>1. full => Refused(1)
    BY <1>2
  <2>2. ~Refused(1)
    BY DEF Refused
  <2> QED
    BY <2>1, <2>2, Zenon
<1> DEFINE r == RewriteOf(full)
           x == Top.prop
           e == Deref(props, x)
           w == Written(e, r)
<1>4. r.how = "ok"
  BY <1>1, <1>3, MetWell
<1>5. Round(r)
  BY <1>2
<1> HIDE DEF r
<1>6. props' = Store(props, x, w) /\ UNCHANGED <<pc, err>>
  BY <1>4, <1>5 DEF Round
<1>7. x \in Pointers(props) \ {NULL}
  BY <1>1, TopOK DEF FrameOK
<1>8. DOMAIN e = PropFields
  <2>1. PICK f, q : TreeIs(f, q)
    BY <1>1 DEF ShapeOK
  <2>2. Built(blob.tokens, off, nodes, props, f, q)
    BY <2>1 DEF TreeIs
  <2> QED
    BY <1>7, <2>2 DEF Built
<1>9. e \in Elements(props)
  BY <1>7, DerefElement DEF PointersOK, TreeOK
<1> HIDE DEF x, e
<1>10. Copied(w)
  BY <1>8, <1>9, CopiedWritten
<1> HIDE DEF w
<1>11. Elements(props') \subseteq Elements(props) \cup {w}
  BY <1>6, StoredElements DEF PointersOK, TreeOK
<1> QED
  BY <1>6, <1>10, <1>11

-----------------------------------------------------------------------------
(* Every step of dt_initialize keeps it. *)
LEMMA AcceptKept ==
  ASSUME DeviceTreeAssumption, PointersOK, ShapeOK, WalkOK, SettledOK, MappedOK, AcceptOK, [Next]_vars
  PROVE  AcceptOK'
<1>1. /\ refusals' \in Nat /\ pages' \in Nat
      /\ Calm' => Calm /\ refusals' = refusals
  BY CalmBefore DEF AcceptOK, DeviceTreeAssumption
<1> DEFINE Fine == /\ pc \notin {"panic", "trap"}
                   /\ pc = "failed" => err = "ERR_DTB_MAPPING_FAILED"
                   /\ \A e \in Elements(props) : Copied(e)
<1>2. SUFFICES ASSUME Calm, refusals' = refusals, pages' > 0
               PROVE  Fine'
  <2>1. Calm' => pages' > 0
    BY DEF Calm
  <2> QED
    BY <1>1, <1>2, <2>1 DEF AcceptOK
<1>3. Fine /\ refusals \in Nat /\ pages > 0 /\ Valid /\ WellFormed /\ blob.magic /\ ~MoreReserved
  BY <1>2 DEF AcceptOK, Calm, Valid
<1>4. ~Refused(1)
  BY <1>2, <1>3 DEF Refused
<1>5. ASSUME UNCHANGED <<pc, err, props>>
      PROVE  Fine'
  BY <1>3, <1>5
<1>6. ASSUME pc' \notin {"panic", "trap", "failed"}, props' = props
      PROVE  Fine'
  BY <1>3, <1>6
<1>7. CASE MapFirst
  BY <1>3, <1>6, <1>7 DEF MapFirst, Goto, treeVars
<1>8. CASE MapFails
  BY <1>3, <1>8 DEF MapFails, Return, treeVars
<1>9. CASE MapRest \/ RewriteChild \/ ParseNop \/ UNCHANGED vars
  BY <1>5, <1>9 DEF MapRest, RewriteChild, ParseNop, vars, treeVars
<1>10. CASE AllocBuffer
  BY <1>3, <1>6, <1>10 DEF AllocBuffer, Goto, treeVars
<1>11. CASE Reserve
  BY <1>3, <1>11 DEF Reserve
<1>12. CASE ReserveEnds \/ PrintTree \/ Done
  BY <1>6, <1>12 DEF ReserveEnds, PrintTree, Done, Goto, treeVars
<1>13. CASE ParseNode
  <2>1. HasRoom(nodes, NODE_CAP)
    BY <1>3 DEF HasRoom
  <2> QED
    BY <1>4, <1>5, <1>13, <2>1 DEF ParseNode
<1>14. CASE ParseProperty
  <2>1. UNCHANGED <<pc, err>> /\ \A e \in Elements(props') : Copied(e)
    BY <1>2, <1>3, <1>14, PropertyCopied
  <2> QED
    BY <1>3, <2>1
<1>15. CASE ParseEndNode
  <2>1. curr # NULL
    BY <1>3, <1>15, WithinOne DEF ParseEndNode
  <2> QED
    BY <1>5, <1>15, <2>1 DEF ParseEndNode, treeVars
<1>16. CASE ParseUnknown
  <2>1. off \in DOMAIN blob.tokens
    BY <1>16, OffWithin DEF ParseUnknown
  <2> QED
    BY <1>3, <1>16, <2>1 DEF ParseUnknown, Token, WellFormed, Kind
<1>17. CASE ParseEnd
  <2>1. curr = NULL /\ ARRAY_SIZE(nodes) > 0
    BY <1>3, <1>17, EndsClosed DEF ParseEnd
  <2>2. ARRAY_SIZE(nodes) # 0
    BY <2>1
  <2> QED
    BY <1>6, <1>17, <2>1, <2>2 DEF ParseEnd, Goto
<1>18. CASE RewriteProperty
  <2>1. UNCHANGED <<pc, err>> /\ \A e \in Elements(props') : Copied(e)
    BY <1>2, <1>3, <1>18, PropertyAccepted
  <2> QED
    BY <1>3, <2>1
<1>19. CASE RewriteReturn
  <2>1. UNCHANGED <<pc, err>> \/ pc' = "print"
    BY <1>19 DEF RewriteReturn, Goto
  <2>2. props' = props
    BY <1>19 DEF RewriteReturn, treeVars
  <2> QED
    BY <1>5, <1>6, <2>1, <2>2
<1>20. CASE Unmap
  <2>1. pa \in mapped
    BY <1>20 DEF Unmap, MappedOK, Multiples
  <2> QED
    BY <1>5, <1>20, <2>1 DEF Unmap, treeVars
<1> QED
  BY <1>7, <1>8, <1>9, <1>10, <1>11, <1>12, <1>13, <1>14, <1>15, <1>16, <1>17, <1>18, <1>19, <1>20 DEF Next

(* A blob that follows the format and reserves no memory is refused only   *)
(* when a page of it cannot be mapped or memory runs out: no assertion of  *)
(* the parser or of the rewrite pass fails on it, no pointer is NULL where *)
(* it is used, and all of it can be unmapped again.                        *)
THEOREM ValidIsAccepted == Spec => []ValidAccepted
<1>1. Init => PointersOK /\ ShapeOK /\ WalkOK /\ SettledOK /\ MappedOK /\ AcceptOK
  <2> SUFFICES ASSUME Init
               PROVE  WalkOK /\ SettledOK /\ MappedOK /\ AcceptOK
    BY PointersInit, ShapeInit
  <2>1. props = <<>> /\ nodes = <<>> /\ frames = <<>> /\ pc = "map"
    BY DEF Init, ARRAY_INIT
  <2>2. Elements(<<>>) = {} /\ DOMAIN <<>> = {}
    BY DEF Elements
  <2>3. MappedOK
    BY DEF Init, MappedOK
  <2>4. refusals \in Nat /\ pages \in Nat
    BY DeviceTreeAssumption DEF Init, DeviceTreeAssumption
  <2>5. AcceptOK
    BY <2>1, <2>2, <2>4 DEF AcceptOK
  <2> QED
    BY <2>1, <2>2, <2>3, <2>5 DEF WalkOK, AllRaw, SettledOK
<1>2. /\ PointersOK /\ ShapeOK /\ WalkOK /\ SettledOK /\ MappedOK /\ AcceptOK /\ [Next]_vars
      => (PointersOK /\ ShapeOK /\ WalkOK /\ SettledOK /\ MappedOK /\ AcceptOK)'
  BY DeviceTreeAssumption, PointersKept, ShapeKept, WalkKept, SettledKept, MappedKept, AcceptKept
<1>3. AcceptOK => ValidAccepted
  BY DEF AcceptOK, Calm, ValidAccepted
<1> QED
  BY <1>1, <1>2, <1>3, PTL DEF Spec
=============================================================================
