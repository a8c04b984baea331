---------------------------- MODULE PagingProofs ----------------------------
(***************************************************************************)
(* The page tables of paging.c form a tree in every state, for every       *)
(* number of entries, every set of pages and every set of requests, and    *)
(* implement an address space.                                             *)
(*                                                                         *)
(* The definitions of Paging are about the current tables.  sv39_map       *)
(* writes up to three entries in one call, so the facts below are stated   *)
(* for any tables tb and any pool p, and applied to each write in turn.    *)
(***************************************************************************)
EXTENDS Paging, FiniteSetTheorems, TLAPS

EntryT == [valid : BOOLEAN, ppn : Nat, perms : Perms]
TabT   == [Tables -> [Index -> EntryT]]

(* The tables whose valid entries refer to tables. *)
Mid(tb)   == {n \in Tables : \E i \in Index : tb[ROOT][i].valid /\ tb[ROOT][i].ppn = n}
Upper(tb) == {ROOT} \cup Mid(tb)

(* The inductive invariant, part by part. *)
Zeroed(tb, p) == \A t \in p : \A i \in Index : tb[t][i] = Zero

LinksDown(tb, p) ==
  \A t \in Upper(tb) : \A i \in Index :
    tb[t][i].valid => tb[t][i].ppn \in TablePages \ p /\ tb[t][i].perms = {}

LinksOnce(tb) ==
  \A t, u \in Upper(tb) : \A i, j \in Index :
    tb[t][i].valid /\ tb[u][j].valid /\ tb[t][i].ppn = tb[u][j].ppn => t = u /\ i = j

(* The pages that have become tables. *)
Linked(tb) ==
  {n \in TablePages : \E t \in Upper(tb) : \E i \in Index : tb[t][i].valid /\ tb[t][i].ppn = n}

(* An entry that is not valid is all zero. *)
Clean(tb) == \A t \in Tables : \A i \in Index : tb[t][i].valid \/ tb[t][i] = Zero

(* Entries of the last level are leaves, when no page is mapped without a  *)
(* permission.                                                             *)
LeavesBelow(tb) ==
  (\A r \in MapReqs : r.perms # {}) =>
    \A t \in Tables \ Upper(tb) : \A i \in Index : tb[t][i].valid => tb[t][i].perms # {}

Sound(tb, p) ==
  /\ tb \in TabT /\ p \subseteq TablePages
  /\ Zeroed(tb, p) /\ LinksDown(tb, p) /\ LinksOnce(tb) /\ Clean(tb)
  /\ LeavesBelow(tb)

(* Nothing but a table is taken from the pages. *)
Tree(tb, p) == Sound(tb, p) /\ TablePages \ p = Linked(tb)

-----------------------------------------------------------------------------
(* Writing one entry.                                                      *)
Wrote(tb, tb2, t, i, e) ==
  /\ tb2 \in TabT /\ tb2[t][i] = e
  /\ \A u \in Tables : \A j \in Index : (u # t \/ j # i) => tb2[u][j] = tb[u][j]

(* The EXCEPT of the model writes one entry. *)
LEMMA WriteOne ==
  ASSUME NEW tb \in TabT, NEW t \in Tables, NEW i \in Index, NEW e \in EntryT
  PROVE  Wrote(tb, [tb EXCEPT ![t][i] = e], t, i, e)
<1> DEFINE row == [tb[t] EXCEPT ![i] = e]
           tb2 == [tb EXCEPT ![t] = row]
<1>1. tb[t] \in [Index -> EntryT]
  BY DEF TabT
<1>2. row \in [Index -> EntryT] /\ row[i] = e /\ \A j \in Index : j # i => row[j] = tb[t][j]
  BY <1>1
<1> HIDE DEF row
<1>3. tb2 \in TabT /\ tb2[t] = row /\ \A u \in Tables : u # t => tb2[u] = tb[u]
  BY <1>2 DEF TabT
<1>4. tb2 = [tb EXCEPT ![t][i] = e]
  BY DEF row
<1> HIDE DEF tb2
<1>5. Wrote(tb, tb2, t, i, e)
  BY <1>2, <1>3 DEF Wrote
<1> QED
  BY <1>4, <1>5

(* The entries of a table, and the tables. *)
LEMMA EntryTypes ==
  /\ Zero \in EntryT /\ ~Zero.valid
  /\ \A n \in Nat, q \in Perms :
       Entry(n, q) \in EntryT /\ Entry(n, q).valid /\ Entry(n, q).ppn = n /\ Entry(n, q).perms = q
  /\ {} \in Perms /\ ROOT \in Tables /\ TablePages \subseteq Tables /\ Tables \subseteq Nat
  /\ ROOT \notin TablePages
BY PagingAssumption DEF EntryT, Entry, Zero, Perms, Tables

(* Page n has become a table. *)
OneMore(tb, tb2, n) == Linked(tb2) = Linked(tb) \cup {n}

(* A page that becomes a table of level 1: it is one more table whose      *)
(* entries are links, and it has none yet.                                 *)
LEMMA LinkRoot ==
  ASSUME NEW tb, NEW p, Sound(tb, p), NEW i \in Index, ~tb[ROOT][i].valid, NEW n \in p,
         NEW tb2, Wrote(tb, tb2, ROOT, i, Entry(n, {}))
  PROVE  /\ Sound(tb2, p \ {n}) /\ Mid(tb2) = Mid(tb) \cup {n}
         /\ OneMore(tb, tb2, n)
<1> DEFINE p2 == p \ {n}
<1>1. /\ tb2 \in TabT /\ p \subseteq TablePages /\ p2 \subseteq TablePages /\ n \in TablePages
      /\ Zeroed(tb, p) /\ LinksDown(tb, p) /\ LinksOnce(tb) /\ Clean(tb)
      /\ LeavesBelow(tb)
  BY DEF Sound, Wrote
<1>2. /\ tb2[ROOT][i].valid /\ tb2[ROOT][i].ppn = n /\ tb2[ROOT][i].perms = {}
      /\ \A u \in Tables : \A j \in Index : (u # ROOT \/ j # i) => tb2[u][j] = tb[u][j]
  BY <1>1, EntryTypes DEF Wrote
<1>3. n \in Tables /\ n # ROOT /\ ROOT \in Tables
  BY <1>1, EntryTypes
<1>4. Mid(tb2) = Mid(tb) \cup {n}
  BY <1>2, <1>3 DEF Mid
<1>5. Upper(tb2) = Upper(tb) \cup {n} /\ Upper(tb) \subseteq Tables
  BY <1>3, <1>4 DEF Upper, Mid
<1>6. \A j \in Index : ~tb2[n][j].valid /\ ~tb[n][j].valid
  BY <1>1, <1>2, <1>3, EntryTypes DEF Zeroed
<1>7. Zeroed(tb2, p2)
  BY <1>1, <1>2, <1>3, EntryTypes DEF Zeroed
<1>8. LinksDown(tb2, p2)
  BY <1>1, <1>2, <1>3, <1>5, <1>6 DEF LinksDown
<1>9. \A t \in Upper(tb) : \A j \in Index : tb[t][j].valid => tb[t][j].ppn # n
  BY <1>1 DEF LinksDown
<1>10. \A t \in Upper(tb2) : \A j \in Index : tb2[t][j].valid =>
         \/ t = ROOT /\ j = i /\ tb2[t][j].ppn = n
         \/ t \in Upper(tb) /\ tb[t][j].valid /\ tb2[t][j].ppn = tb[t][j].ppn
            /\ tb2[t][j].ppn # n
  BY <1>2, <1>3, <1>5, <1>6, <1>9
<1>11. LinksOnce(tb2)
  BY <1>1, <1>10 DEF LinksOnce
<1>12. Clean(tb2) /\ Linked(tb2) = Linked(tb) \cup {n}
  <2>1. Clean(tb2)
    BY <1>1, <1>2 DEF Clean
  <2>2. ASSUME NEW m \in Linked(tb) PROVE m \in Linked(tb2)
    <3>1. PICK t \in Upper(tb), j \in Index : tb[t][j].valid /\ tb[t][j].ppn = m
      BY DEF Linked
    <3>2. t # ROOT \/ j # i
      BY <3>1
    <3> QED
      BY <1>2, <1>5, <3>1, <3>2 DEF Linked
  <2>3. n \in Linked(tb2)
    BY <1>1, <1>2 DEF Linked, Upper
  <2>4. Linked(tb2) \subseteq Linked(tb) \cup {n}
    BY <1>10 DEF Linked
  <2> QED
    BY <2>1, <2>2, <2>3, <2>4
<1>13. LeavesBelow(tb2)
  BY <1>1, <1>2, <1>3, <1>5 DEF LeavesBelow, Upper
<1> QED
  BY <1>1, <1>4, <1>7, <1>8, <1>11, <1>12, <1>13 DEF Sound, OneMore

(* A page that becomes a table of level 0, linked from table t of level 1. *)
LEMMA LinkMid ==
  ASSUME NEW tb, NEW p, Sound(tb, p), NEW t \in Mid(tb), NEW i \in Index, ~tb[t][i].valid,
         NEW n \in p, NEW tb2, Wrote(tb, tb2, t, i, Entry(n, {}))
  PROVE  /\ Sound(tb2, p \ {n}) /\ Mid(tb2) = Mid(tb)
         /\ OneMore(tb, tb2, n)
<1> DEFINE p2 == p \ {n}
<1>1. /\ tb2 \in TabT /\ p \subseteq TablePages /\ p2 \subseteq TablePages /\ n \in TablePages
      /\ Zeroed(tb, p) /\ LinksDown(tb, p) /\ LinksOnce(tb) /\ Clean(tb)
      /\ LeavesBelow(tb)
  BY DEF Sound, Wrote
<1>2. /\ tb2[t][i].valid /\ tb2[t][i].ppn = n /\ tb2[t][i].perms = {}
      /\ \A u \in Tables : \A j \in Index : (u # t \/ j # i) => tb2[u][j] = tb[u][j]
  BY <1>1, EntryTypes DEF Wrote
<1>3. n \in Tables /\ ROOT \in Tables /\ t \in Tables /\ t \in Upper(tb)
  BY <1>1, EntryTypes DEF Mid, Upper
<1>4. t \in TablePages \ p /\ t # ROOT
  <2>1. PICK j \in Index : tb[ROOT][j].valid /\ tb[ROOT][j].ppn = t
    BY DEF Mid
  <2>2. ROOT \in Upper(tb)
    BY DEF Upper
  <2> QED
    BY <1>1, <2>1, <2>2, EntryTypes DEF LinksDown
<1>5. Mid(tb2) = Mid(tb)
  BY <1>2, <1>3, <1>4 DEF Mid
<1>6. Upper(tb2) = Upper(tb) /\ Upper(tb) \subseteq Tables
  BY <1>3, <1>5 DEF Upper, Mid
<1>7. Zeroed(tb2, p2)
  BY <1>1, <1>2, <1>4, EntryTypes DEF Zeroed
<1>8. LinksDown(tb2, p2)
  BY <1>1, <1>2, <1>6 DEF LinksDown
<1>9. \A u \in Upper(tb) : \A j \in Index : tb[u][j].valid => tb[u][j].ppn # n
  BY <1>1 DEF LinksDown
<1>10. \A u \in Upper(tb2) : \A j \in Index : tb2[u][j].valid =>
         \/ u = t /\ j = i /\ tb2[u][j].ppn = n
         \/ tb[u][j].valid /\ tb2[u][j].ppn = tb[u][j].ppn /\ tb2[u][j].ppn # n
  BY <1>2, <1>6, <1>9
<1>11. LinksOnce(tb2)
  BY <1>1, <1>6, <1>10 DEF LinksOnce
<1>12. Clean(tb2) /\ Linked(tb2) = Linked(tb) \cup {n}
  <2>1. Clean(tb2)
    BY <1>1, <1>2 DEF Clean
  <2>2. ASSUME NEW m \in Linked(tb) PROVE m \in Linked(tb2)
    <3>1. PICK u \in Upper(tb), j \in Index : tb[u][j].valid /\ tb[u][j].ppn = m
      BY DEF Linked
    <3>2. u # t \/ j # i
      BY <3>1
    <3> QED
      BY <1>2, <1>6, <3>1, <3>2 DEF Linked
  <2>3. n \in Linked(tb2)
    BY <1>1, <1>2, <1>3, <1>6 DEF Linked
  <2>4. Linked(tb2) \subseteq Linked(tb) \cup {n}
    BY <1>6, <1>10 DEF Linked
  <2> QED
    BY <2>1, <2>2, <2>3, <2>4
<1>13. LeavesBelow(tb2)
  BY <1>1, <1>2, <1>3, <1>6 DEF LeavesBelow
<1> QED
  BY <1>1, <1>5, <1>7, <1>8, <1>11, <1>12, <1>13 DEF Sound, OneMore

(* An entry of the last level is set or cleared. *)
LEMMA WriteLeaf ==
  ASSUME NEW tb, NEW p, Sound(tb, p), NEW t \in (Tables \ Upper(tb)) \ p, NEW i \in Index, NEW e,
         NEW tb2, Wrote(tb, tb2, t, i, e), e.valid \/ e = Zero,
         (\A r \in MapReqs : r.perms # {}) => ~e.valid \/ e.perms # {}
  PROVE  Sound(tb2, p) /\ Mid(tb2) = Mid(tb) /\ Linked(tb2) = Linked(tb)
<1>1. /\ tb2 \in TabT /\ p \subseteq TablePages
      /\ Zeroed(tb, p) /\ LinksDown(tb, p) /\ LinksOnce(tb) /\ Clean(tb)
      /\ LeavesBelow(tb)
  BY DEF Sound, Wrote
<1>2. /\ tb2[t][i] = e
      /\ \A u \in Tables : \A j \in Index : (u # t \/ j # i) => tb2[u][j] = tb[u][j]
  BY DEF Wrote
<1>3. ROOT \in Tables /\ t \in Tables /\ t # ROOT
  BY EntryTypes DEF Upper
<1>4. Mid(tb2) = Mid(tb)
  BY <1>2, <1>3 DEF Mid
<1>5. Upper(tb2) = Upper(tb) /\ Upper(tb) \subseteq Tables
  BY <1>3, <1>4 DEF Upper, Mid
<1>6. \A u \in Upper(tb) : \A j \in Index : tb2[u][j] = tb[u][j]
  BY <1>2, <1>5
<1>7. Zeroed(tb2, p)
  BY <1>1, <1>2, EntryTypes DEF Zeroed
<1>8. LinksDown(tb2, p)
  BY <1>1, <1>5, <1>6 DEF LinksDown
<1>9. LinksOnce(tb2)
  BY <1>1, <1>5, <1>6 DEF LinksOnce
<1>10. Clean(tb2) /\ Linked(tb2) = Linked(tb)
  BY <1>1, <1>2, <1>5, <1>6 DEF Clean, Linked
<1>11. LeavesBelow(tb2)
  BY <1>1, <1>2, <1>5 DEF LeavesBelow
<1> QED
  BY <1>1, <1>4, <1>7, <1>8, <1>9, <1>10, <1>11 DEF Sound

-----------------------------------------------------------------------------
(* The walk.                                                               *)

(* The indices of a page are indices of a table. *)
LEMMA VpnIndex ==
  ASSUME NEW v \in Nat
  PROVE  Vpn(v, 0) \in Index /\ Vpn(v, 1) \in Index /\ Vpn(v, 2) \in Index
<1> DEFINE a == v \div ENTRIES
           b == v \div (ENTRIES * ENTRIES)
<1>1. ENTRIES \in Nat /\ ENTRIES > 0
  BY PagingAssumption
<1>2. a \in Int /\ b \in Int
  <2>1. ENTRIES * ENTRIES \in Nat /\ ENTRIES * ENTRIES > 0
    BY <1>1
  <2> QED
    BY <1>1, <2>1
<1>3. Vpn(v, 0) = v % ENTRIES /\ Vpn(v, 1) = a % ENTRIES /\ Vpn(v, 2) = b % ENTRIES
  BY DEF Vpn
<1> HIDE DEF a, b
<1>4. \A x \in Int : x % ENTRIES \in 0 .. ENTRIES - 1
  BY <1>1
<1> QED
  BY <1>2, <1>3, <1>4 DEF Index

(* A table of level 1 is a page in use. *)
LEMMA MidInUse ==
  ASSUME NEW tb, NEW p, Sound(tb, p), NEW t \in Mid(tb)
  PROVE  t \in TablePages \ p /\ t # ROOT /\ t \in Tables
<1>1. PICK j \in Index : tb[ROOT][j].valid /\ tb[ROOT][j].ppn = t
  BY DEF Mid
<1>2. ROOT \in Upper(tb)
  BY DEF Upper
<1> QED
  BY <1>1, <1>2, EntryTypes DEF LinksDown, Sound

(* A table that an entry of level 1 refers to is at the last level. *)
LEMMA BelowMid ==
  ASSUME NEW tb, NEW p, Sound(tb, p), NEW t \in Mid(tb), NEW i \in Index, tb[t][i].valid
  PROVE  tb[t][i].ppn \in (Tables \ Upper(tb)) \ p
<1> DEFINE n == tb[t][i].ppn
<1>1. LinksDown(tb, p) /\ LinksOnce(tb) /\ t \in Upper(tb) /\ ROOT \in Upper(tb)
  BY DEF Sound, Upper
<1>2. n \in TablePages \ p
  BY <1>1 DEF LinksDown
<1>3. n \notin Mid(tb)
  <2>1. SUFFICES ASSUME NEW j \in Index, tb[ROOT][j].valid, tb[ROOT][j].ppn = n PROVE FALSE
    BY DEF Mid
  <2>2. t = ROOT
    BY <1>1, <2>1 DEF LinksOnce
  <2> QED
    BY <2>2, MidInUse
<1> QED
  BY <1>2, <1>3, EntryTypes DEF Upper

(* The entry at which the walk of a page through tb ends, and what the     *)
(* page is translated to.                                                  *)
E2(tb, v) == tb[ROOT][Vpn(v, 2)]
E1(tb, v) == tb[E2(tb, v).ppn][Vpn(v, 1)]
E0(tb, v) == tb[E1(tb, v).ppn][Vpn(v, 0)]
At(tb, v) == IF Ends(E2(tb, v)) THEN E2(tb, v) ELSE IF Ends(E1(tb, v)) THEN E1(tb, v) ELSE E0(tb, v)

Meaning(e) == IF e.valid THEN [ppn |-> e.ppn, perms |-> e.perms] ELSE None

(* The walk goes through all levels or ends at an invalid entry. *)
LEMMA Descent ==
  ASSUME NEW tb, NEW p, Sound(tb, p), NEW v \in Nat
  PROVE  /\ ~E2(tb, v).valid => ~At(tb, v).valid
         /\ E2(tb, v).valid =>
              /\ E2(tb, v).ppn \in Mid(tb)
              /\ ~E1(tb, v).valid => ~At(tb, v).valid
              /\ E1(tb, v).valid =>
                   /\ E1(tb, v).ppn \in (Tables \ Upper(tb)) \ p
                   /\ At(tb, v) = E0(tb, v)
<1>1. Vpn(v, 0) \in Index /\ Vpn(v, 1) \in Index /\ Vpn(v, 2) \in Index
  BY VpnIndex
<1>2. LinksDown(tb, p) /\ ROOT \in Upper(tb) /\ Mid(tb) \subseteq Upper(tb)
  BY DEF Sound, Upper
<1>3. ~E2(tb, v).valid => ~At(tb, v).valid
  BY DEF At, Ends
<1>4. ASSUME E2(tb, v).valid
      PROVE  E2(tb, v).ppn \in Mid(tb) /\ ~Ends(E2(tb, v))
  <2>1. E2(tb, v).ppn \in TablePages \ p /\ E2(tb, v).perms = {}
    BY <1>1, <1>2, <1>4 DEF LinksDown, E2
  <2> QED
    BY <1>1, <1>4, <2>1, EntryTypes DEF Mid, E2, Ends, IsLeaf
<1>5. ASSUME E2(tb, v).valid, ~E1(tb, v).valid PROVE ~At(tb, v).valid
  BY <1>4, <1>5 DEF At, Ends
<1>6. ASSUME E2(tb, v).valid, E1(tb, v).valid
      PROVE  E1(tb, v).ppn \in (Tables \ Upper(tb)) \ p /\ At(tb, v) = E0(tb, v)
  <2>1. E2(tb, v).ppn \in Mid(tb) /\ E2(tb, v).ppn \in Upper(tb)
    BY <1>2, <1>4, <1>6
  <2>2. E1(tb, v).ppn \in (Tables \ Upper(tb)) \ p
    BY <1>1, <1>6, <2>1, BelowMid DEF E1
  <2>3. E1(tb, v).perms = {}
    BY <1>1, <1>2, <1>6, <2>1 DEF LinksDown, E1
  <2> QED
    BY <1>4, <1>6, <2>2, <2>3 DEF At, Ends, IsLeaf
<1> QED
  BY <1>3, <1>4, <1>5, <1>6

(* Linking an empty table changes no translation. *)
LEMMA SameAfterLinkRoot ==
  ASSUME NEW tb, NEW p, Sound(tb, p), NEW i \in Index, ~tb[ROOT][i].valid, NEW n \in p,
         NEW tb2, Wrote(tb, tb2, ROOT, i, Entry(n, {})), NEW v \in Nat
  PROVE  Meaning(At(tb2, v)) = Meaning(At(tb, v))
<1>1. Sound(tb2, p \ {n})
  BY LinkRoot
<1>2. Vpn(v, 0) \in Index /\ Vpn(v, 1) \in Index /\ Vpn(v, 2) \in Index
  BY VpnIndex
<1>3. /\ p \subseteq TablePages /\ \A j \in Index : tb[n][j] = Zero
      /\ n \in Tables /\ n # ROOT /\ n \in Nat
  BY EntryTypes DEF Sound, Zeroed
<1>4. /\ tb2[ROOT][i] = Entry(n, {})
      /\ \A u \in Tables : \A j \in Index : (u # ROOT \/ j # i) => tb2[u][j] = tb[u][j]
  BY DEF Wrote
<1>5. CASE Vpn(v, 2) = i
  <2>1. ~At(tb, v).valid
    BY <1>5, Descent DEF E2
  <2>2. E2(tb2, v).valid /\ E2(tb2, v).ppn = n
    BY <1>3, <1>4, <1>5, EntryTypes DEF E2
  <2>3. ~E1(tb2, v).valid
    BY <1>2, <1>3, <1>4, <2>2, EntryTypes DEF E1
  <2>4. ~At(tb2, v).valid
    BY <1>1, <2>2, <2>3, Descent
  <2> QED
    BY <2>1, <2>4 DEF Meaning
<1>6. CASE Vpn(v, 2) # i
  <2>1. E2(tb2, v) = E2(tb, v)
    BY <1>2, <1>4, <1>6, EntryTypes DEF E2
  <2>2. CASE ~E2(tb, v).valid
    BY <1>1, <2>1, <2>2, Descent DEF Meaning
  <2>3. CASE E2(tb, v).valid
    <3>1. E2(tb, v).ppn \in Tables /\ E2(tb, v).ppn # ROOT
      BY <2>3, Descent, MidInUse
    <3>2. E1(tb2, v) = E1(tb, v)
      BY <1>2, <1>4, <2>1, <3>1 DEF E1
    <3>3. CASE ~E1(tb, v).valid
      BY <1>1, <2>1, <2>3, <3>2, <3>3, Descent DEF Meaning
    <3>4. CASE E1(tb, v).valid
      <4>1. E1(tb, v).ppn \in Tables /\ E1(tb, v).ppn # ROOT
        BY <2>3, <3>4, Descent DEF Upper
      <4>2. E0(tb2, v) = E0(tb, v)
        BY <1>2, <1>4, <3>2, <4>1 DEF E0
      <4> QED
        BY <1>1, <2>1, <2>3, <3>2, <3>4, <4>2, Descent
    <3> QED
      BY <3>3, <3>4
  <2> QED
    BY <2>2, <2>3
<1> QED
  BY <1>5, <1>6

(* The same for a new table of the last level. *)
LEMMA SameAfterLinkMid ==
  ASSUME NEW tb, NEW p, Sound(tb, p), NEW t \in Mid(tb), NEW i \in Index, ~tb[t][i].valid,
         NEW n \in p, NEW tb2, Wrote(tb, tb2, t, i, Entry(n, {})), NEW v \in Nat
  PROVE  Meaning(At(tb2, v)) = Meaning(At(tb, v))
<1>1. Sound(tb2, p \ {n})
  BY LinkMid
<1>2. Vpn(v, 0) \in Index /\ Vpn(v, 1) \in Index /\ Vpn(v, 2) \in Index
  BY VpnIndex
<1>3. /\ \A j \in Index : tb[n][j] = Zero
      /\ n \in Tables /\ n \in Nat /\ t # ROOT /\ t # n /\ t \in Upper(tb)
  <2>1. t # ROOT /\ t \notin p
    BY MidInUse
  <2> QED
    BY <2>1, EntryTypes DEF Sound, Zeroed, Upper
<1>4. /\ tb2[t][i] = Entry(n, {})
      /\ \A u \in Tables : \A j \in Index : (u # t \/ j # i) => tb2[u][j] = tb[u][j]
  BY DEF Wrote
<1>5. E2(tb2, v) = E2(tb, v)
  BY <1>2, <1>3, <1>4, EntryTypes DEF E2
<1>6. CASE ~E2(tb, v).valid
  BY <1>1, <1>5, <1>6, Descent DEF Meaning
<1>7. CASE E2(tb, v).valid /\ E2(tb, v).ppn = t /\ Vpn(v, 1) = i
  <2>1. ~At(tb, v).valid
    BY <1>7, Descent DEF E1
  <2>2. E1(tb2, v).valid /\ E1(tb2, v).ppn = n
    BY <1>3, <1>4, <1>5, <1>7, EntryTypes DEF E1
  <2>3. ~E0(tb2, v).valid
    BY <1>2, <1>3, <1>4, <2>2, EntryTypes DEF E0
  <2>4. ~At(tb2, v).valid
    BY <1>1, <1>5, <1>7, <2>2, <2>3, Descent
  <2> QED
    BY <2>1, <2>4 DEF Meaning
<1>8. CASE E2(tb, v).valid /\ ~(E2(tb, v).ppn = t /\ Vpn(v, 1) = i)
  <2>1. E2(tb, v).ppn \in Tables
    BY <1>8, Descent, MidInUse
  <2>2. E1(tb2, v) = E1(tb, v)
    BY <1>2, <1>4, <1>5, <1>8, <2>1 DEF E1
  <2>3. CASE ~E1(tb, v).valid
    BY <1>1, <1>5, <1>8, <2>2, <2>3, Descent DEF Meaning
  <2>4. CASE E1(tb, v).valid
    <3>1. E1(tb, v).ppn \in Tables /\ E1(tb, v).ppn # t
      BY <1>3, <1>8, <2>4, Descent
    <3>2. E0(tb2, v) = E0(tb, v)
      BY <1>2, <1>4, <2>2, <3>1 DEF E0
    <3> QED
      BY <1>1, <1>5, <1>8, <2>2, <2>4, <3>2, Descent
  <2> QED
    BY <2>3, <2>4
<1> QED
  BY <1>6, <1>7, <1>8

(* There is a table of the last level for page v. *)
Reaches(tb, v) == E2(tb, v).valid /\ E1(tb, v).valid

(* A new table of level 1 is there for the pages of its part of the space, *)
(* and leads to no further table.                                          *)
LEMMA ReachAfterLinkRoot ==
  ASSUME NEW tb, NEW p, Sound(tb, p), NEW i \in Index, ~tb[ROOT][i].valid, NEW n \in p,
         NEW tb2, Wrote(tb, tb2, ROOT, i, Entry(n, {})), NEW v \in Nat
  PROVE  /\ E2(tb2, v).valid => E2(tb, v).valid \/ Vpn(v, 2) = i
         /\ Reaches(tb2, v) => Reaches(tb, v)
<1>1. Vpn(v, 1) \in Index /\ Vpn(v, 2) \in Index
  BY VpnIndex
<1>2. /\ \A j \in Index : tb[n][j] = Zero
      /\ n \in Tables /\ n # ROOT /\ n \in Nat
  BY EntryTypes DEF Sound, Zeroed
<1>3. /\ tb2[ROOT][i] = Entry(n, {})
      /\ \A u \in Tables : \A j \in Index : (u # ROOT \/ j # i) => tb2[u][j] = tb[u][j]
  BY DEF Wrote
<1>4. CASE Vpn(v, 2) = i
  <2>1. E2(tb2, v).ppn = n
    BY <1>2, <1>3, <1>4, EntryTypes DEF E2
  <2>2. ~E1(tb2, v).valid
    BY <1>1, <1>2, <1>3, <2>1, EntryTypes DEF E1
  <2> QED
    BY <1>4, <2>2 DEF Reaches
<1>5. CASE Vpn(v, 2) # i
  <2>1. E2(tb2, v) = E2(tb, v)
    BY <1>1, <1>3, <1>5, EntryTypes DEF E2
  <2>2. ASSUME E2(tb, v).valid PROVE E1(tb2, v) = E1(tb, v)
    <3>1. E2(tb, v).ppn \in Tables /\ E2(tb, v).ppn # ROOT
      BY <2>2, Descent, MidInUse
    <3> QED
      BY <1>1, <1>3, <2>1, <3>1 DEF E1
  <2> QED
    BY <2>1, <2>2 DEF Reaches
<1> QED
  BY <1>4, <1>5

(* A new table of level 0 is there for the pages of the entry it is linked *)
(* from.                                                                   *)
LEMMA ReachAfterLinkMid ==
  ASSUME NEW tb, NEW p, Sound(tb, p), NEW t \in Mid(tb), NEW i \in Index, ~tb[t][i].valid,
         NEW n \in p, NEW tb2, Wrote(tb, tb2, t, i, Entry(n, {})), NEW v \in Nat
  PROVE  /\ E2(tb2, v) = E2(tb, v)
         /\ Reaches(tb2, v) => Reaches(tb, v) \/ (E2(tb, v).ppn = t /\ Vpn(v, 1) = i)
<1>1. Vpn(v, 1) \in Index /\ Vpn(v, 2) \in Index
  BY VpnIndex
<1>2. \A u \in Tables : \A j \in Index : (u # t \/ j # i) => tb2[u][j] = tb[u][j]
  BY DEF Wrote
<1>3. E2(tb2, v) = E2(tb, v)
  BY <1>1, <1>2, EntryTypes, MidInUse DEF E2
<1>4. ASSUME E2(tb, v).valid, E2(tb, v).ppn # t \/ Vpn(v, 1) # i PROVE E1(tb2, v) = E1(tb, v)
  <2>1. E2(tb, v).ppn \in Tables
    BY <1>4, Descent, MidInUse
  <2> QED
    BY <1>1, <1>2, <1>3, <1>4, <2>1 DEF E1
<1> QED
  BY <1>3, <1>4 DEF Reaches

(* Writing an entry of the last level changes no walk above it. *)
LEMMA ReachAfterLeaf ==
  ASSUME NEW tb, NEW p, Sound(tb, p), NEW t \in Tables \ Upper(tb), NEW i \in Index, NEW e,
         NEW tb2, Wrote(tb, tb2, t, i, e), NEW v \in Nat
  PROVE  E2(tb2, v) = E2(tb, v) /\ (Reaches(tb2, v) <=> Reaches(tb, v))
<1>1. Vpn(v, 1) \in Index /\ Vpn(v, 2) \in Index
  BY VpnIndex
<1>2. \A u \in Tables : \A j \in Index : (u # t \/ j # i) => tb2[u][j] = tb[u][j]
  BY DEF Wrote
<1>3. E2(tb2, v) = E2(tb, v)
  BY <1>1, <1>2, EntryTypes DEF E2, Upper
<1>4. ASSUME E2(tb, v).valid PROVE E1(tb2, v) = E1(tb, v)
  <2>1. E2(tb, v).ppn \in Tables /\ E2(tb, v).ppn # t
    BY <1>4, Descent, MidInUse DEF Upper
  <2> QED
    BY <1>1, <1>2, <1>3, <2>1 DEF E1
<1> QED
  BY <1>3, <1>4 DEF Reaches

(* Two page numbers with the same indices. *)
SamePage(v, w) == Vpn(v, 0) = Vpn(w, 0) /\ Vpn(v, 1) = Vpn(w, 1) /\ Vpn(v, 2) = Vpn(w, 2)

(* Writing the entry at which the walk for page w ends changes what w is   *)
(* translated to, and nothing else.                                        *)
LEMMA OnlyThatPage ==
  ASSUME NEW tb, NEW p, Sound(tb, p), NEW w \in Nat, E2(tb, w).valid, E1(tb, w).valid, NEW e,
         NEW tb2, Wrote(tb, tb2, E1(tb, w).ppn, Vpn(w, 0), e), Sound(tb2, p), NEW v \in Nat
  PROVE  Meaning(At(tb2, v)) = IF SamePage(v, w) THEN Meaning(e) ELSE Meaning(At(tb, v))
<1> DEFINE t == E1(tb, w).ppn
<1>1. /\ Vpn(v, 0) \in Index /\ Vpn(v, 1) \in Index /\ Vpn(v, 2) \in Index
      /\ Vpn(w, 0) \in Index /\ Vpn(w, 1) \in Index /\ Vpn(w, 2) \in Index
  BY VpnIndex
<1>2. t \in Tables /\ t \notin Upper(tb) /\ t # ROOT /\ E2(tb, w).ppn \in Mid(tb)
  BY Descent DEF Upper
<1>3. /\ tb2[t][Vpn(w, 0)] = e
      /\ \A u \in Tables : \A j \in Index : (u # t \/ j # Vpn(w, 0)) => tb2[u][j] = tb[u][j]
  BY DEF Wrote
<1>4. LinksOnce(tb) /\ Mid(tb) \subseteq Upper(tb) /\ ROOT \in Upper(tb) /\ ROOT \in Tables
  BY EntryTypes DEF Sound, Upper
<1>5. E2(tb2, v) = E2(tb, v)
  BY <1>1, <1>2, <1>3, <1>4 DEF E2
<1>6. CASE ~E2(tb, v).valid
  <2>1. ~SamePage(v, w)
    BY <1>6 DEF SamePage, E2
  <2> QED
    BY <1>5, <1>6, <2>1, Descent DEF Meaning
<1>7. CASE E2(tb, v).valid
  <2>1. E2(tb, v).ppn \in Mid(tb) /\ E2(tb, v).ppn \in Tables /\ E2(tb, v).ppn # t
    BY <1>2, <1>4, <1>7, Descent, MidInUse
  <2>2. E1(tb2, v) = E1(tb, v)
    BY <1>1, <1>3, <1>5, <2>1 DEF E1
  <2>3. CASE ~E1(tb, v).valid
    <3>1. ~SamePage(v, w)
      BY <2>3 DEF SamePage, E1, E2
    <3> QED
      BY <1>5, <1>7, <2>2, <2>3, <3>1, Descent DEF Meaning
  <2>4. CASE E1(tb, v).valid
    <3>1. At(tb, v) = E0(tb, v) /\ At(tb2, v) = E0(tb2, v) /\ E1(tb, v).ppn \in Tables
      BY <1>5, <1>7, <2>2, <2>4, Descent
    <3>2. CASE SamePage(v, w)
      <4>1. E0(tb2, v) = e
        BY <1>3, <2>2, <3>2 DEF E0, E1, E2, SamePage
      <4> QED
        BY <3>1, <3>2, <4>1
    <3>3. CASE ~SamePage(v, w)
      <4>1. E1(tb, v).ppn # t \/ Vpn(v, 0) # Vpn(w, 0)
        <5>1. SUFFICES ASSUME E1(tb, v).ppn = t, Vpn(v, 0) = Vpn(w, 0) PROVE FALSE
          OBVIOUS
        <5>2. E2(tb, v).ppn = E2(tb, w).ppn /\ Vpn(v, 1) = Vpn(w, 1)
          BY <1>1, <1>2, <1>4, <2>1, <2>4, <5>1 DEF LinksOnce, E1
        <5>3. Vpn(v, 2) = Vpn(w, 2)
          BY <1>1, <1>4, <1>7, <5>2 DEF LinksOnce, E2
        <5> QED
          BY <3>3, <5>1, <5>2, <5>3 DEF SamePage
      <4>2. E0(tb2, v) = E0(tb, v)
        BY <1>1, <1>3, <2>2, <3>1, <4>1 DEF E0
      <4> QED
        BY <3>1, <3>3, <4>2
    <3> QED
      BY <3>2, <3>3
  <2> QED
    BY <2>3, <2>4
<1> QED
  BY <1>6, <1>7

-----------------------------------------------------------------------------
(* The calls.                                                              *)

(* The tables stay a tree, and the pages taken for it are linked into it. *)
Grown(tb, p, tb2, p2) ==
  Sound(tb2, p2) /\ p2 \subseteq p /\ Linked(tb2) = Linked(tb) \cup (p \ p2)

(* No page or just page w is translated differently. *)
Kept(tb, p, tb2, p2) ==
  Grown(tb, p, tb2, p2) /\ \A v \in Nat : Meaning(At(tb2, v)) = Meaning(At(tb, v))

Changed(tb, p, tb2, p2, w, e) ==
  /\ Grown(tb, p, tb2, p2)
  /\ \A v \in Nat : Meaning(At(tb2, v)) = IF SamePage(v, w) THEN Meaning(e) ELSE Meaning(At(tb, v))

(* What is linked is linked for page w, from a page of p. *)
LinkedFor(tb, p, tb2, w) ==
  \A v \in Nat :
    /\ E2(tb2, v).valid => E2(tb, v).valid \/ (p # {} /\ Vpn(v, 2) = Vpn(w, 2))
    /\ Reaches(tb2, v) =>
         Reaches(tb, v) \/ (p # {} /\ Vpn(v, 2) = Vpn(w, 2) /\ Vpn(v, 1) = Vpn(w, 1))

(* The same for the step at index i of the root, and at index i of table t. *)
LinkedAtRoot(tb, p, tb2, i) ==
  \A v \in Nat :
    /\ E2(tb2, v).valid => E2(tb, v).valid \/ (p # {} /\ Vpn(v, 2) = i)
    /\ Reaches(tb2, v) => Reaches(tb, v)

LinkedAtMid(tb, p, tb2, t, i) ==
  \A v \in Nat :
    /\ E2(tb2, v) = E2(tb, v)
    /\ Reaches(tb2, v) => Reaches(tb, v) \/ (p # {} /\ E2(tb, v).ppn = t /\ Vpn(v, 1) = i)

(* A page of the pool becomes a table of level 1. *)
LEMMA NewRoot ==
  ASSUME NEW tb, NEW p, Sound(tb, p), NEW i \in Index, ~tb[ROOT][i].valid, NEW n \in p,
         NEW tb2, Wrote(tb, tb2, ROOT, i, Entry(n, {}))
  PROVE  /\ Kept(tb, p, tb2, p \ {n}) /\ n \in Mid(tb2) /\ LinkedAtRoot(tb, p, tb2, i)
         /\ tb2[ROOT][i] = Entry(n, {})
<1>1. p # {} /\ p \ (p \ {n}) = {n} /\ p \ {n} \subseteq p
  OBVIOUS
<1>2. Grown(tb, p, tb2, p \ {n}) /\ n \in Mid(tb2)
  <2>1. Sound(tb2, p \ {n}) /\ Mid(tb2) = Mid(tb) \cup {n} /\ OneMore(tb, tb2, n)
    BY LinkRoot
  <2> QED
    BY <1>1, <2>1 DEF Grown, OneMore
<1>3. ASSUME NEW v \in Nat
      PROVE  /\ Meaning(At(tb2, v)) = Meaning(At(tb, v))
             /\ E2(tb2, v).valid => E2(tb, v).valid \/ (p # {} /\ Vpn(v, 2) = i)
             /\ Reaches(tb2, v) => Reaches(tb, v)
  BY <1>1, SameAfterLinkRoot, ReachAfterLinkRoot
<1>4. tb2[ROOT][i] = Entry(n, {})
  BY DEF Wrote
<1> QED
  BY <1>2, <1>3, <1>4 DEF Kept, LinkedAtRoot

(* A page of the pool becomes a table of level 0. *)
LEMMA NewMid ==
  ASSUME NEW tb, NEW p, Sound(tb, p), NEW t \in Mid(tb), NEW i \in Index, ~tb[t][i].valid,
         NEW n \in p, NEW tb2, Wrote(tb, tb2, t, i, Entry(n, {}))
  PROVE  /\ Kept(tb, p, tb2, p \ {n}) /\ LinkedAtMid(tb, p, tb2, t, i)
         /\ tb2[t][i] = Entry(n, {}) /\ \A j \in Index : tb2[ROOT][j] = tb[ROOT][j]
<1>1. p # {} /\ p \ (p \ {n}) = {n} /\ p \ {n} \subseteq p
  OBVIOUS
<1>2. Grown(tb, p, tb2, p \ {n}) /\ Mid(tb2) = Mid(tb)
  <2>1. Sound(tb2, p \ {n}) /\ Mid(tb2) = Mid(tb) /\ OneMore(tb, tb2, n)
    BY LinkMid
  <2> QED
    BY <1>1, <2>1 DEF Grown, OneMore
<1>3. ASSUME NEW v \in Nat
      PROVE  /\ Meaning(At(tb2, v)) = Meaning(At(tb, v))
             /\ E2(tb2, v) = E2(tb, v)
             /\ Reaches(tb2, v) => Reaches(tb, v) \/ (p # {} /\ E2(tb, v).ppn = t /\ Vpn(v, 1) = i)
  BY <1>1, SameAfterLinkMid, ReachAfterLinkMid
<1>4. tb2[t][i] = Entry(n, {}) /\ \A j \in Index : tb2[ROOT][j] = tb[ROOT][j]
  BY EntryTypes, MidInUse DEF Wrote
<1> QED
  BY <1>2, <1>3, <1>4 DEF Kept, LinkedAtMid

(* After the first step of the walk of sv39_map there is a level-1 table. *)
LEMMA LinkedRoot ==
  ASSUME NEW tb, NEW p, Sound(tb, p), NEW i \in Index, NEW n \in NextTables(tb, ROOT, i, p),
         NEW tb2, tb2 = Link(tb, ROOT, i, n)
  PROVE  /\ Kept(tb, p, tb2, p \ {n}) /\ n \in Mid(tb2) /\ tb2[ROOT][i].valid /\ tb2[ROOT][i].ppn = n
         /\ LinkedAtRoot(tb, p, tb2, i)
<1>0. tb \in TabT /\ LinksDown(tb, p) /\ p \subseteq TablePages /\ ROOT \in Upper(tb)
  BY DEF Sound, Upper
<1>1. CASE tb[ROOT][i].valid
  <2>1. n = tb[ROOT][i].ppn /\ tb2 = tb
    BY <1>1 DEF NextTables, Link
  <2>2. n \in TablePages \ p
    BY <1>0, <1>1, <2>1 DEF LinksDown
  <2>3. p \ {n} = p /\ n \in Mid(tb)
    BY <1>1, <2>1, <2>2, EntryTypes DEF Mid
  <2> QED
    BY <1>1, <2>1, <2>3 DEF Kept, Grown, LinkedAtRoot
<1>2. CASE ~tb[ROOT][i].valid
  <2>1. n \in p /\ tb2 = [tb EXCEPT ![ROOT][i] = Entry(n, {})]
    BY <1>2 DEF NextTables, Link
  <2>2. Entry(n, {}) \in EntryT /\ ROOT \in Tables /\ Entry(n, {}).valid /\ Entry(n, {}).ppn = n
    BY <1>0, <2>1, EntryTypes
  <2>3. Wrote(tb, tb2, ROOT, i, Entry(n, {}))
    <3> DEFINE e == Entry(n, {})
               x == [tb EXCEPT ![ROOT][i] = e]
    <3>1. e \in EntryT
      BY <2>2
    <3> HIDE DEF e
    <3>2. Wrote(tb, x, ROOT, i, e)
      BY <1>0, <2>2, <3>1, WriteOne
    <3>3. tb2 = x
      BY <2>1 DEF e
    <3> HIDE DEF x
    <3> QED
      BY <3>2, <3>3 DEF e
  <2>4. /\ Kept(tb, p, tb2, p \ {n}) /\ n \in Mid(tb2) /\ LinkedAtRoot(tb, p, tb2, i)
        /\ tb2[ROOT][i] = Entry(n, {})
    <3>1. n \in p /\ ~tb[ROOT][i].valid
      BY <1>2, <2>1
    <3>2. Kept(tb, p, tb2, p \ {n})
      BY <2>3, <3>1, NewRoot
    <3>3. n \in Mid(tb2)
      BY <2>3, <3>1, NewRoot
    <3>4. LinkedAtRoot(tb, p, tb2, i)
      BY <2>3, <3>1, NewRoot
    <3>5. tb2[ROOT][i] = Entry(n, {})
      BY <2>3 DEF Wrote
    <3> QED
      BY <3>2, <3>3, <3>4, <3>5
  <2> QED
    BY <2>2, <2>4
<1> QED
  BY <1>1, <1>2

(* After the second step there is a level-0 table. *)
LEMMA LinkedMid ==
  ASSUME NEW tb, NEW p, Sound(tb, p), NEW t \in Mid(tb), NEW i \in Index,
         NEW n \in NextTables(tb, t, i, p), NEW tb2, tb2 = Link(tb, t, i, n)
  PROVE  /\ Kept(tb, p, tb2, p \ {n}) /\ tb2[t][i].valid /\ tb2[t][i].ppn = n
         /\ \A j \in Index : tb2[ROOT][j] = tb[ROOT][j]
         /\ LinkedAtMid(tb, p, tb2, t, i)
<1>0. /\ tb \in TabT /\ LinksDown(tb, p) /\ p \subseteq TablePages /\ t \in Upper(tb)
      /\ t \in Tables /\ t # ROOT
  BY MidInUse DEF Sound, Upper
<1>1. CASE tb[t][i].valid
  <2>1. n = tb[t][i].ppn /\ tb2 = tb
    BY <1>1 DEF NextTables, Link
  <2>2. n \in TablePages \ p
    BY <1>0, <1>1, <2>1 DEF LinksDown
  <2>3. p \ {n} = p
    BY <2>2
  <2> QED
    BY <1>1, <2>1, <2>3 DEF Kept, Grown, LinkedAtMid
<1>2. CASE ~tb[t][i].valid
  <2>1. n \in p /\ tb2 = [tb EXCEPT ![t][i] = Entry(n, {})]
    BY <1>2 DEF NextTables, Link
  <2>2. Entry(n, {}) \in EntryT /\ Entry(n, {}).valid /\ Entry(n, {}).ppn = n /\ ROOT \in Tables
    BY <1>0, <2>1, EntryTypes
  <2>3. Wrote(tb, tb2, t, i, Entry(n, {}))
    <3> DEFINE e == Entry(n, {})
               x == [tb EXCEPT ![t][i] = e]
    <3>1. e \in EntryT
      BY <2>2
    <3> HIDE DEF e
    <3>2. Wrote(tb, x, t, i, e)
      BY <1>0, <2>2, <3>1, WriteOne
    <3>3. tb2 = x
      BY <2>1 DEF e
    <3> HIDE DEF x
    <3> QED
      BY <3>2, <3>3 DEF e
  <2>4. /\ Kept(tb, p, tb2, p \ {n}) /\ LinkedAtMid(tb, p, tb2, t, i)
        /\ tb2[t][i] = Entry(n, {}) /\ \A j \in Index : tb2[ROOT][j] = tb[ROOT][j]
    <3>1. n \in p /\ ~tb[t][i].valid
      BY <1>2, <2>1
    <3>2. Kept(tb, p, tb2, p \ {n})
      BY <2>3, <3>1, NewMid
    <3>3. LinkedAtMid(tb, p, tb2, t, i)
      BY <2>3, <3>1, NewMid
    <3>4. tb2[t][i] = Entry(n, {}) /\ \A j \in Index : tb2[ROOT][j] = tb[ROOT][j]
      BY <1>0, <2>2, <2>3 DEF Wrote
    <3> QED
      BY <3>2, <3>3, <3>4
  <2> QED
    BY <2>2, <2>4
<1> QED
  BY <1>1, <1>2

(* Two writes after each other that keep all translations. *)
LEMMA KeptTwice ==
  ASSUME NEW tb, NEW tb1, NEW tb2, NEW p, NEW p1, NEW p2,
         Kept(tb, p, tb1, p1), Kept(tb1, p1, tb2, p2)
  PROVE  Kept(tb, p, tb2, p2)
<1>1. p2 \subseteq p1 /\ p1 \subseteq p
  BY DEF Kept, Grown
<1>2. p \ p2 = (p \ p1) \cup (p1 \ p2)
  BY <1>1
<1> QED
  BY <1>1, <1>2 DEF Kept, Grown

(* What sv39_map does: a call that fails changes no translation, also when *)
(* it has linked new tables, and a call that succeeds maps its page.       *)
LEMMA MapEffect ==
  ASSUME Sound(tab, pool), NEW r \in MapReqs, Map(r)
  PROVE  /\ LinkedFor(tab, pool, tab', r.page)
         /\ \/ /\ Kept(tab, pool, tab', pool')
               /\ \/ \E err \in {"ERR_PAGING_UNALIGNED_ADDRESS", "ERR_NOT_IMPLEMENTED",
                                 "ERR_PAGING_INVALID_TYPE"} : ret' = Result("map", r.page, err, 0)
                  \/ /\ ret' = Result("map", r.page, "ERR_PAGING_SETUP_TABLE", 0)
                     /\ ~At(tab, r.page).valid
                     /\ pool' = {} /\ ~Reaches(tab', r.page)
                  \/ /\ ret' = Result("map", r.page, "ERR_PAGING_MAPPING_EXISTS", 0)
                     /\ At(tab, r.page).valid
            \/ /\ Changed(tab, pool, tab', pool', r.page, Entry(r.ppn, r.perms))
               /\ ret' = Result("map", r.page, "ERR_OK", 0)
               /\ ~At(tab, r.page).valid
<1> DEFINE w == r.page
           i2 == Vpn(w, 2)
           i1 == Vpn(w, 1)
           i0 == Vpn(w, 0)
<1>0. /\ w \in Nat /\ r.ppn \in Nat /\ r.perms \in Perms
  BY PagingAssumption
<1>1. i2 \in Index /\ i1 \in Index /\ i0 \in Index
  BY <1>0, VpnIndex
<1>2. ASSUME UNCHANGED <<tab, pool>>
      PROVE  Kept(tab, pool, tab', pool') /\ LinkedFor(tab, pool, tab', w)
  <2>1. pool \ pool = {}
    OBVIOUS
  <2> QED
    BY <1>2, <2>1 DEF Kept, Grown, LinkedFor
<1>3. CASE MapRefused(r)
  <2>1. Refused(r) \in {"ERR_PAGING_UNALIGNED_ADDRESS", "ERR_NOT_IMPLEMENTED",
                        "ERR_PAGING_INVALID_TYPE"}
    BY <1>3 DEF MapRefused, Refused
  <2>2. ret' = Result("map", r.page, Refused(r), 0) /\ UNCHANGED <<tab, pool>>
    BY <1>3 DEF MapRefused, Fails
  <2> QED
    BY <1>2, <2>1, <2>2
<1>4. CASE MapNoLevel1(r)
  <2>1. /\ NextTables(tab, ROOT, i2, pool) = {} /\ UNCHANGED <<tab, pool>>
        /\ ret' = Result("map", r.page, "ERR_PAGING_SETUP_TABLE", 0)
    BY <1>4 DEF MapNoLevel1, Fails
  <2>2. ~E2(tab, w).valid /\ pool = {}
    BY <2>1 DEF NextTables, E2
  <2>3. ~At(tab, w).valid /\ pool' = {} /\ ~Reaches(tab', w)
    BY <1>0, <2>1, <2>2, Descent DEF Reaches
  <2> QED
    BY <1>2, <2>1, <2>3
<1>5. CASE MapNoLevel0(r)
  <2>1. PICK l1 \in NextTables(tab, ROOT, i2, pool) :
          /\ NextTables(Link(tab, ROOT, i2, l1), l1, i1, pool \ {l1}) = {}
          /\ tab' = Link(tab, ROOT, i2, l1)
          /\ pool' = pool \ {l1}
    BY <1>5 DEF MapNoLevel0
  <2>2. ret' = Result("map", r.page, "ERR_PAGING_SETUP_TABLE", 0)
    BY <1>5 DEF MapNoLevel0
  <2> DEFINE tb == Link(tab, ROOT, i2, l1)
             p == pool \ {l1}
  <2>3. tab' = tb /\ pool' = p /\ NextTables(tb, l1, i1, p) = {}
    BY <2>1
  <2>4. /\ Kept(tab, pool, tb, p) /\ tb[ROOT][i2].valid /\ tb[ROOT][i2].ppn = l1
        /\ LinkedAtRoot(tab, pool, tb, i2)
    BY <1>1, LinkedRoot
  <2> HIDE DEF tb, p
  <2>5. Sound(tb, p) /\ Meaning(At(tb, w)) = Meaning(At(tab, w))
    BY <1>0, <2>4 DEF Kept, Grown
  <2>6. E2(tb, w).valid /\ ~E1(tb, w).valid /\ p = {}
    BY <2>3, <2>4 DEF NextTables, E2, E1
  <2>7. ~At(tb, w).valid
    BY <1>0, <2>5, <2>6, Descent
  <2>8. ~At(tab, w).valid
    BY <2>5, <2>7 DEF Meaning, None
  <2>9. LinkedFor(tab, pool, tb, w)
    BY <2>4 DEF LinkedFor, LinkedAtRoot
  <2> QED
    BY <2>2, <2>3, <2>4, <2>6, <2>8, <2>9 DEF Reaches
<1>6. CASE MapWalks(r)
  <2>1. PICK l1 \in NextTables(tab, ROOT, i2, pool) :
        \E l0 \in NextTables(Link(tab, ROOT, i2, l1), l1, i1, pool \ {l1}) :
          LET tb0 == Link(Link(tab, ROOT, i2, l1), l1, i1, l0)
          IN /\ pool' = pool \ {l1, l0}
             /\ IF tb0[l0][i0].valid
                THEN /\ tab' = tb0
                     /\ ret' = Result("map", r.page, "ERR_PAGING_MAPPING_EXISTS", 0)
                ELSE /\ tab' = [tb0 EXCEPT ![l0][i0] = Entry(r.ppn, r.perms)]
                     /\ ret' = Result("map", r.page, "ERR_OK", 0)
    BY <1>6 DEF MapWalks
  <2> DEFINE tb1 == Link(tab, ROOT, i2, l1)
             p1 == pool \ {l1}
  <2>2. /\ Kept(tab, pool, tb1, p1) /\ l1 \in Mid(tb1)
        /\ tb1[ROOT][i2].valid /\ tb1[ROOT][i2].ppn = l1
        /\ LinkedAtRoot(tab, pool, tb1, i2)
    BY <1>1, LinkedRoot
  <2>3. PICK l0 \in NextTables(tb1, l1, i1, p1) :
          LET tb0 == Link(tb1, l1, i1, l0)
          IN /\ pool' = pool \ {l1, l0}
             /\ IF tb0[l0][i0].valid
                THEN /\ tab' = tb0
                     /\ ret' = Result("map", r.page, "ERR_PAGING_MAPPING_EXISTS", 0)
                ELSE /\ tab' = [tb0 EXCEPT ![l0][i0] = Entry(r.ppn, r.perms)]
                     /\ ret' = Result("map", r.page, "ERR_OK", 0)
    BY <2>1
  <2> DEFINE tb0 == Link(tb1, l1, i1, l0)
             p0 == p1 \ {l0}
             e == Entry(r.ppn, r.perms)
  <2>4. /\ pool' = p0
        /\ \/ /\ tb0[l0][i0].valid /\ tab' = tb0
              /\ ret' = Result("map", r.page, "ERR_PAGING_MAPPING_EXISTS", 0)
           \/ /\ ~tb0[l0][i0].valid /\ tab' = [tb0 EXCEPT ![l0][i0] = e]
              /\ ret' = Result("map", r.page, "ERR_OK", 0)
    BY <2>3
  <2> HIDE DEF tb1, p1
  <2>5. Sound(tb1, p1) /\ p1 \subseteq pool
    BY <2>2 DEF Kept, Grown
  <2>6. /\ Kept(tb1, p1, tb0, p0) /\ tb0[l1][i1].valid /\ tb0[l1][i1].ppn = l0
        /\ tb0[ROOT][i2] = tb1[ROOT][i2]
        /\ LinkedAtMid(tb1, p1, tb0, l1, i1)
    BY <1>1, <2>2, <2>5, LinkedMid
  <2> HIDE DEF tb0, p0, e
  <2>7. Kept(tab, pool, tb0, p0)
    BY <2>2, <2>6, KeptTwice
  <2>8. /\ Sound(tb0, p0) /\ Grown(tab, pool, tb0, p0)
        /\ \A v \in Nat : Meaning(At(tb0, v)) = Meaning(At(tab, v))
    BY <2>7 DEF Kept, Grown
  <2>0. LinkedFor(tab, pool, tb0, w)
    <3> HIDE DEF i2, i1
    <3>1. ASSUME NEW v \in Nat, E2(tb1, v).valid, E2(tb1, v).ppn = l1 PROVE Vpn(v, 2) = i2
      <4>1. LinksOnce(tb1) /\ ROOT \in Upper(tb1) /\ Vpn(v, 2) \in Index
        BY <2>5, VpnIndex DEF Sound, Upper
      <4> QED
        BY <1>1, <2>2, <3>1, <4>1 DEF LinksOnce, E2
    <3>2. ASSUME NEW v \in Nat, E2(tb0, v).valid PROVE E2(tab, v).valid \/ (pool # {} /\ Vpn(v, 2) = i2)
      BY <2>2, <2>6, <3>2 DEF LinkedAtRoot, LinkedAtMid
    <3>3. ASSUME NEW v \in Nat, Reaches(tb0, v)
          PROVE  Reaches(tab, v) \/ (pool # {} /\ Vpn(v, 2) = i2 /\ Vpn(v, 1) = i1)
      <4>1. E2(tb1, v).valid
        BY <2>6, <3>3 DEF Reaches, LinkedAtMid
      <4>2. p1 # {} => pool # {}
        BY <2>5
      <4>3. Reaches(tb1, v) \/ (p1 # {} /\ E2(tb1, v).ppn = l1 /\ Vpn(v, 1) = i1)
        BY <2>6, <3>3 DEF LinkedAtMid
      <4>4. Reaches(tb1, v) => Reaches(tab, v)
        BY <2>2 DEF LinkedAtRoot
      <4> QED
        BY <3>1, <4>1, <4>2, <4>3, <4>4
    <3> QED
      BY <3>2, <3>3 DEF LinkedFor, i2, i1
  <2>9. E2(tb0, w).valid /\ E1(tb0, w).valid /\ E1(tb0, w).ppn = l0 /\ E0(tb0, w) = tb0[l0][i0]
    BY <2>2, <2>6 DEF E2, E1, E0
  <2>10. At(tb0, w) = tb0[l0][i0] /\ l0 \in (Tables \ Upper(tb0)) \ p0
    BY <1>0, <2>8, <2>9, Descent
  <2>11. At(tab, w).valid <=> tb0[l0][i0].valid
    <3>1. Meaning(tb0[l0][i0]) = Meaning(At(tab, w))
      BY <1>0, <2>8, <2>10
    <3> QED
      BY <3>1 DEF Meaning, None
  <2>12. CASE /\ tb0[l0][i0].valid /\ tab' = tb0
              /\ ret' = Result("map", r.page, "ERR_PAGING_MAPPING_EXISTS", 0)
    BY <2>0, <2>4, <2>7, <2>11, <2>12
  <2>13. CASE /\ ~tb0[l0][i0].valid /\ tab' = [tb0 EXCEPT ![l0][i0] = e]
              /\ ret' = Result("map", r.page, "ERR_OK", 0)
    <3> DEFINE tb2 == [tb0 EXCEPT ![l0][i0] = e]
    <3>1. e \in EntryT /\ e.perms = r.perms /\ e.valid
      BY <1>0, EntryTypes DEF e
    <3>2. Wrote(tb0, tb2, l0, i0, e)
      BY <1>1, <2>8, <2>10, <3>1, WriteOne DEF Sound
    <3> HIDE DEF tb2
    <3>3. Sound(tb2, p0) /\ Grown(tab, pool, tb2, p0)
      <4>1. Sound(tb2, p0) /\ Linked(tb2) = Linked(tb0)
        BY <1>1, <2>8, <2>10, <3>1, <3>2, WriteLeaf
      <4> QED
        BY <2>8, <4>1 DEF Grown
    <3>4. \A v \in Nat : Meaning(At(tb2, v)) = IF SamePage(v, w) THEN Meaning(e) ELSE Meaning(At(tb0, v))
      <4>1. Wrote(tb0, tb2, E1(tb0, w).ppn, Vpn(w, 0), e)
        BY <2>9, <3>2
      <4>2. w \in Nat /\ Sound(tb0, p0) /\ E2(tb0, w).valid /\ E1(tb0, w).valid
        BY <1>0, <2>8, <2>9
      <4> HIDE DEF w
      <4>3. ASSUME NEW v \in Nat
            PROVE  Meaning(At(tb2, v)) = IF SamePage(v, w) THEN Meaning(e) ELSE Meaning(At(tb0, v))
        BY <3>3, <4>1, <4>2, OnlyThatPage
      <4> QED
        BY <4>3
    <3>5. Changed(tab, pool, tb2, p0, w, e)
      BY <2>8, <3>3, <3>4 DEF Changed
    <3>6. tab' = tb2
      BY <2>13 DEF tb2
    <3>7. LinkedFor(tab, pool, tb2, w)
      <4>1. \A v \in Nat : E2(tb2, v) = E2(tb0, v) /\ (Reaches(tb2, v) <=> Reaches(tb0, v))
        BY <1>1, <2>8, <2>10, <3>2, ReachAfterLeaf
      <4> QED
        BY <2>0, <4>1 DEF LinkedFor
    <3> QED
      BY <2>4, <2>11, <2>13, <3>5, <3>6, <3>7 DEF e
  <2> QED
    BY <2>4, <2>12, <2>13
<1> QED
  BY <1>3, <1>4, <1>5, <1>6 DEF Map

(* The walk of the model and the walk through any tables. *)
LEMMA FoundIsAt == \A v : Found(v) = At(tab, v)
<1> TAKE v
<1>1. CASE Ends(E2(tab, v))
  BY <1>1 DEF Found, Slot, At, E2
<1>2. CASE ~Ends(E2(tab, v)) /\ Ends(E1(tab, v))
  BY <1>2 DEF Found, Slot, At, E2, E1
<1>3. CASE ~Ends(E2(tab, v)) /\ ~Ends(E1(tab, v))
  BY <1>3 DEF Found, Slot, At, E2, E1, E0
<1> QED
  BY <1>1, <1>2, <1>3

(* What sv39_unmap does: it clears the entry of its page or changes        *)
(* nothing.                                                                *)
LEMMA UnmapEffect ==
  ASSUME Sound(tab, pool), NEW r \in UnmapReqs, Unmap(r)
  PROVE  \/ /\ Kept(tab, pool, tab', pool') /\ UNCHANGED <<tab, pool>>
            /\ \/ ret' = Result("unmap", r.page, "ERR_PAGING_UNALIGNED_ADDRESS", 0)
               \/ /\ ret' = Result("unmap", r.page, "ERR_PAGING_MAPPING_DOESNT_EXIST", 0)
                  /\ ~At(tab, r.page).valid
         \/ /\ Changed(tab, pool, tab', pool', r.page, Zero) /\ UNCHANGED pool
            /\ ret' = Result("unmap", r.page, "ERR_OK", At(tab, r.page).ppn)
            /\ At(tab, r.page).valid
<1> DEFINE w == r.page
<1>0. w \in Nat
  BY PagingAssumption
<1>1. Found(w) = At(tab, w)
  BY FoundIsAt
<1>2. CASE UnmapRefused(r)
  <2>1. UNCHANGED <<tab, pool>>
    BY <1>2 DEF UnmapRefused, Fails
  <2>2. Kept(tab, pool, tab', pool')
    <3>1. pool \ pool = {}
      OBVIOUS
    <3> QED
      BY <2>1, <3>1 DEF Kept, Grown
  <2> QED
    BY <1>1, <1>2, <2>1, <2>2 DEF UnmapRefused, Fails
<1>3. CASE UnmapDone(r)
  <2>1. /\ At(tab, w).valid /\ pool' = pool
        /\ tab' = [tab EXCEPT ![Slot(w)[1]][Slot(w)[2]] = Zero]
        /\ ret' = Result("unmap", r.page, "ERR_OK", At(tab, w).ppn)
    BY <1>1, <1>3 DEF UnmapDone
  <2>2. E2(tab, w).valid /\ E1(tab, w).valid
    BY <1>0, <2>1, Descent
  <2> DEFINE t == E1(tab, w).ppn
             i == Vpn(w, 0)
  <2>3. t \in (Tables \ Upper(tab)) \ pool /\ E2(tab, w).ppn \in Mid(tab)
    BY <1>0, <2>2, Descent
  <2>4. ~Ends(E2(tab, w)) /\ ~Ends(E1(tab, w))
    <3>1. LinksDown(tab, pool) /\ ROOT \in Upper(tab) /\ E2(tab, w).ppn \in Upper(tab)
      BY <2>3 DEF Sound, Upper
    <3>2. Vpn(w, 2) \in Index /\ Vpn(w, 1) \in Index
      BY <1>0, VpnIndex
    <3> QED
      BY <2>2, <3>1, <3>2 DEF LinksDown, Ends, IsLeaf, E1, E2
  <2>5. Slot(w) = <<t, i>>
    BY <2>4 DEF Slot, E2, E1
  <2>6. tab' = [tab EXCEPT ![t][i] = Zero] /\ i \in Index
    BY <1>0, <2>1, <2>5, VpnIndex
  <2> DEFINE x == [tab EXCEPT ![t][i] = Zero]
  <2> HIDE DEF t, i
  <2>7. Wrote(tab, x, t, i, Zero)
    BY <2>3, <2>6, EntryTypes, WriteOne DEF Sound
  <2>8. Wrote(tab, tab', t, i, Zero)
    BY <2>6, <2>7
  <2> HIDE DEF x
  <2>9. Sound(tab', pool) /\ Grown(tab, pool, tab', pool)
    <3>1. Sound(tab', pool) /\ Linked(tab') = Linked(tab)
      BY <2>3, <2>6, <2>8, EntryTypes, WriteLeaf
    <3>2. pool \ pool = {}
      OBVIOUS
    <3> QED
      BY <3>1, <3>2 DEF Grown
  <2>10. Wrote(tab, tab', E1(tab, w).ppn, Vpn(w, 0), Zero)
    BY <2>8 DEF t, i
  <2> HIDE DEF w
  <2>11. ASSUME NEW v \in Nat
         PROVE  Meaning(At(tab', v)) = IF SamePage(v, w) THEN Meaning(Zero) ELSE Meaning(At(tab, v))
    BY <1>0, <2>2, <2>9, <2>10, OnlyThatPage
  <2>12. Changed(tab, pool, tab', pool', w, Zero)
    BY <2>1, <2>9, <2>11 DEF Changed
  <2> QED
    BY <2>1, <2>12 DEF w
<1> QED
  BY <1>2, <1>3 DEF Unmap
-----------------------------------------------------------------------------
(* The invariants.                                                         *)

(* The tables are a tree in every state. *)
LEMMA InitTree == Init => Tree(tab, pool)
<1> SUFFICES ASSUME Init PROVE Tree(tab, pool)
  OBVIOUS
<1>1. tab = [t \in Tables |-> [i \in Index |-> Zero]] /\ pool = TablePages
  BY DEF Init
<1>2. tab \in TabT /\ \A t \in Tables : \A i \in Index : tab[t][i] = Zero /\ ~tab[t][i].valid
  BY <1>1, EntryTypes DEF TabT
<1>3. Mid(tab) = {} /\ Upper(tab) = {ROOT} /\ ROOT \in Tables /\ TablePages \subseteq Tables
  BY <1>2, EntryTypes DEF Mid, Upper
<1>4. Zeroed(tab, pool) /\ Clean(tab) /\ TablePages \ pool = Linked(tab)
  BY <1>1, <1>2, <1>3 DEF Zeroed, Clean, Linked
<1>5. LinksDown(tab, pool) /\ LinksOnce(tab) /\ LeavesBelow(tab)
  BY <1>2, <1>3 DEF LinksDown, LinksOnce, LeavesBelow
<1> QED
  BY <1>1, <1>2, <1>4, <1>5 DEF Tree, Sound

(* Every call keeps them one. *)
LEMMA NextTree ==
  ASSUME Tree(tab, pool), [Next]_vars
  PROVE  Tree(tab, pool)'
<1>1. CASE UNCHANGED vars
  BY <1>1 DEF vars
<1>2. ASSUME Grown(tab, pool, tab', pool') PROVE Tree(tab', pool')
  <2>1. /\ Sound(tab', pool') /\ pool' \subseteq pool /\ pool \subseteq TablePages
        /\ Linked(tab') = Linked(tab) \cup (pool \ pool') /\ TablePages \ pool = Linked(tab)
    BY <1>2 DEF Grown, Tree, Sound
  <2>2. TablePages \ pool' = Linked(tab')
    BY <2>1
  <2> QED
    BY <2>1, <2>2 DEF Tree
<1>3. ASSUME NEW r \in MapReqs, Map(r) PROVE Grown(tab, pool, tab', pool')
  BY <1>3, MapEffect DEF Kept, Changed, Tree
<1>4. ASSUME NEW r \in UnmapReqs, Unmap(r) PROVE Grown(tab, pool, tab', pool')
  BY <1>4, UnmapEffect DEF Kept, Changed, Tree
<1> QED
  BY <1>1, <1>2, <1>3, <1>4 DEF Next

(* The inductive invariant of the page tables: the pages taken from the    *)
(* physical memory manager are linked, each from one entry, into a tree    *)
(* whose last level alone holds leaves.                                    *)
THEOREM TablesAreTree == Spec => []Tree(tab, pool)
<1>1. Init => Tree(tab, pool)
  BY InitTree
<1>2. Tree(tab, pool) /\ [Next]_vars => Tree(tab, pool)'
  BY NextTree
<1> QED
  BY <1>1, <1>2, PTL DEF Spec

(* The tables that entries of the tables T refer to. *)
LEMMA ChildrenOf ==
  ASSUME NEW T
  PROVE  \A n : n \in Children(T) <=>
                \E t \in T : \E i \in Index : tab[t][i].valid /\ tab[t][i].ppn = n
<1> TAKE n
<1>1. ASSUME n \in Children(T)
      PROVE  \E t \in T : \E i \in Index : tab[t][i].valid /\ tab[t][i].ppn = n
  <2>1. PICK x \in T \X Index : tab[x[1]][x[2]].valid /\ tab[x[1]][x[2]].ppn = n
    BY <1>1 DEF Children
  <2>2. x[1] \in T /\ x[2] \in Index
    BY <2>1
  <2> QED
    BY <2>1, <2>2
<1>2. ASSUME NEW t \in T, NEW i \in Index, tab[t][i].valid, tab[t][i].ppn = n
      PROVE  n \in Children(T)
  <2> DEFINE x == <<t, i>>
  <2>1. x \in T \X Index /\ x[1] = t /\ x[2] = i
    OBVIOUS
  <2> HIDE DEF x
  <2>2. tab[x[1]][x[2]].valid /\ tab[x[1]][x[2]].ppn = n
    BY <1>2, <2>1
  <2> QED
    BY <2>1, <2>2 DEF Children
<1> QED
  BY <1>1, <1>2

(* The tables of the middle level, in the terms of Paging. *)
LEMMA Levels ==
  ASSUME Tree(tab, pool)
  PROVE  Level1 = Mid(tab) /\ {ROOT} \cup Level1 = Upper(tab)
<1>1. \A n : n \in Level1 <=> \E i \in Index : tab[ROOT][i].valid /\ tab[ROOT][i].ppn = n
  BY ChildrenOf DEF Level1
<1>2. \A i \in Index : tab[ROOT][i].valid => tab[ROOT][i].ppn \in Tables
  BY EntryTypes DEF Tree, Sound, LinksDown, Upper
<1>3. Level1 = Mid(tab)
  BY <1>1, <1>2 DEF Mid
<1> QED
  BY <1>3 DEF Upper

(* Entries and pool are typed, and a page that is not in use is zeroed, so *)
(* a new table starts without a valid entry.                               *)
THEOREM TypeCorrect == Spec => []TypeOK
<1>1. Tree(tab, pool) => TypeOK
  BY DEF Tree, Sound, Zeroed, TypeOK, TabT, EntryT
<1> QED
  BY <1>1, TablesAreTree, PTL

(* No table is linked from two entries or used at two levels: writing an   *)
(* entry for one page changes no translation of another.                   *)
THEOREM NoTableShared == Spec => []TreeShaped
<1>1. Tree(tab, pool) => TreeShaped
  <2> SUFFICES ASSUME Tree(tab, pool) PROVE TreeShaped
    OBVIOUS
  <2> DEFINE links(T) == {x \in T \X Index : tab[x[1]][x[2]].valid}
             target(x) == tab[x[1]][x[2]].ppn
             upper == links({ROOT} \cup Level1)
  <2>1. LinksDown(tab, pool) /\ LinksOnce(tab)
    BY DEF Tree, Sound
  <2>2. ASSUME NEW x \in upper
        PROVE  x[1] \in Upper(tab) /\ x[2] \in Index /\ tab[x[1]][x[2]].valid /\ x = <<x[1], x[2]>>
    BY Levels
  <2>3. \A x \in upper : target(x) \in TablePages \ pool /\ ~IsLeaf(tab[x[1]][x[2]])
    BY <2>1, <2>2 DEF LinksDown, IsLeaf
  <2>4. ASSUME NEW x \in upper, NEW y \in upper, target(x) = target(y) PROVE x = y
    <3>1. x[1] = y[1] /\ x[2] = y[2]
      BY <2>1, <2>2, <2>4 DEF LinksOnce
    <3> QED
      BY <2>2, <3>1
  <2> HIDE DEF upper, target
  <2>5. /\ \A x \in upper : target(x) \in TablePages \ pool /\ ~IsLeaf(tab[x[1]][x[2]])
        /\ \A x, y \in upper : target(x) = target(y) => x = y
    BY <2>3, <2>4
  <2> QED
    BY <2>5 DEF TreeShaped, upper, target, links
<1> QED
  BY <1>1, TablesAreTree, PTL

(* A page taken from the physical memory manager is a table of the tree,   *)
(* also after a call of sv39_map that ran out of pages halfway.            *)
THEOREM TablesKept == Spec => []NoTableLost
<1>1. Tree(tab, pool) => NoTableLost
  <2> SUFFICES ASSUME Tree(tab, pool) PROVE NoTableLost
    OBVIOUS
  <2>1. LinksDown(tab, pool) /\ TablePages \ pool = Linked(tab)
    BY DEF Tree, Sound
  <2>2. \A n : n \in Level1 \cup Level0 <=>
               \E t \in Upper(tab) : \E i \in Index : tab[t][i].valid /\ tab[t][i].ppn = n
    <3>1. \A n : n \in Level1 <=> \E i \in Index : tab[ROOT][i].valid /\ tab[ROOT][i].ppn = n
      BY ChildrenOf DEF Level1
    <3>2. \A n : n \in Level0 <=>
                 \E t \in Mid(tab) : \E i \in Index : tab[t][i].valid /\ tab[t][i].ppn = n
      BY ChildrenOf, Levels DEF Level0
    <3> QED
      BY <3>1, <3>2 DEF Upper
  <2>3. \A n : n \in TablePages \ pool <=>
               \E t \in Upper(tab) : \E i \in Index : tab[t][i].valid /\ tab[t][i].ppn = n
    BY <2>1 DEF LinksDown, Linked
  <2> QED
    BY <2>2, <2>3 DEF NoTableLost
<1> QED
  BY <1>1, TablesAreTree, PTL

(* The walk for a page that was mapped with a permission ends at a leaf,   *)
(* so sv39_virt_to_phys does not reach the end of its loop.                *)
THEOREM WalkEndsAtLeaf == Spec => []WalksEndAtLeaf
<1>1. Tree(tab, pool) => WalksEndAtLeaf
  <2> SUFFICES ASSUME Tree(tab, pool), \A r \in MapReqs : r.perms # {},
                      NEW v \in VPages, Found(v).valid
               PROVE  IsLeaf(Found(v))
    BY DEF WalksEndAtLeaf
  <2>1. v \in Nat
    BY DEF VPages
  <2>2. At(tab, v).valid /\ Found(v) = At(tab, v)
    BY FoundIsAt
  <2>3. E1(tab, v).ppn \in Tables \ Upper(tab) /\ At(tab, v) = E0(tab, v)
    BY <2>1, <2>2, Descent DEF Tree
  <2>4. Vpn(v, 0) \in Index /\ LeavesBelow(tab)
    BY <2>1, VpnIndex DEF Tree, Sound
  <2> QED
    BY <2>2, <2>3, <2>4 DEF LeavesBelow, IsLeaf, E0
<1> QED
  BY <1>1, TablesAreTree, PTL
-----------------------------------------------------------------------------
(* Pages and their indices.                                                *)

(* Quotient and remainder are determined by what they add up to. *)
LEMMA DivUnique ==
  ASSUME NEW x \in Int, NEW p \in Int, p > 0, NEW q \in Int, NEW m \in Int,
         0 <= m, m < p, x = p * q + m
  PROVE  x \div p = q /\ x % p = m
OBVIOUS

(* The number of a page, put together from its indices. *)
FromIndices(d2, d1, d0) == ENTRIES * (ENTRIES * d2 + d1) + d0

(* Index and remainder below their bounds: a number below the product. *)
LEMMA Product ==
  ASSUME NEW a \in Nat, NEW b \in Nat, a > 0, NEW d \in 0 .. b - 1, NEW m \in 0 .. a - 1
  PROVE  0 <= a * d + m /\ a * d + m < a * b
<1>1. a * d >= 0 /\ a * d + a <= a * b
  <2>1. d \in Nat /\ d + 1 <= b
    OBVIOUS
  <2>2. a * d \in Nat /\ a * (d + 1) = a * d + a
    BY <2>1
  <2>3. PICK k \in Nat : b = d + 1 + k
    <3>1. b - (d + 1) \in Nat /\ b = d + 1 + (b - (d + 1))
      BY <2>1
    <3> QED
      BY <3>1
  <2>4. a * b = a * (d + 1) + a * k /\ a * k \in Nat
    BY <2>1, <2>3
  <2> QED
    BY <2>2, <2>4
<1> QED
  BY <1>1

(* The three indices of a page, and its number in the address space. *)
LEMMA Indices ==
  ASSUME NEW q2 \in Int, NEW d2 \in Index, NEW d1 \in Index, NEW d0 \in Index,
         NEW x \in Int, x = ENTRIES * (ENTRIES * (ENTRIES * q2 + d2) + d1) + d0
  PROVE  /\ Vpn(x, 0) = d0 /\ Vpn(x, 1) = d1 /\ Vpn(x, 2) = d2
         /\ x % SpaceSize = FromIndices(d2, d1, d0)
<1> DEFINE n == ENTRIES
           q1 == n * q2 + d2
           q0 == n * q1 + d1
<1>1. n \in Nat /\ n \in Int /\ n > 0 /\ d2 \in 0 .. n - 1 /\ d1 \in 0 .. n - 1 /\ d0 \in 0 .. n - 1
  BY PagingAssumption DEF Index
<1>2. n * n \in Nat /\ n * n > 0 /\ n * n * n \in Nat /\ n * n * n > 0 /\ n * n * n = n * (n * n)
  BY <1>1
<1>3. q1 \in Int /\ q0 \in Int /\ x = n * q0 + d0
  BY <1>1
<1>4. x \div n = q0 /\ x % n = d0
  BY <1>1, <1>3, DivUnique
<1>5. q0 % n = d1
  BY <1>1, <1>3, DivUnique
<1>6. q1 % n = d2
  BY <1>1, <1>3, DivUnique
<1>7. 0 <= n * d1 + d0 /\ n * d1 + d0 < n * n /\ n * d1 + d0 \in Int
  BY <1>1, Product
<1>8. x = (n * n) * q1 + (n * d1 + d0)
  BY <1>1, <1>3
<1>9. x \div (n * n) = q1
  <2> DEFINE p == n * n
             m == n * d1 + d0
  <2>1. p \in Int /\ p > 0 /\ m \in Int /\ 0 <= m /\ m < p /\ x = p * q1 + m
    BY <1>2, <1>7, <1>8
  <2> HIDE DEF p, m, q1
  <2>2. x \div p = q1
    BY <1>3, <2>1, DivUnique
  <2> QED
    BY <2>2 DEF p
<1>10. Vpn(x, 0) = d0 /\ Vpn(x, 1) = d1 /\ Vpn(x, 2) = d2
  <2>1. Vpn(x, 0) = x % n /\ Vpn(x, 1) = (x \div n) % n /\ Vpn(x, 2) = (x \div (n * n)) % n
    BY DEF Vpn
  <2> HIDE DEF q0, q1
  <2> QED
    BY <1>4, <1>5, <1>6, <1>9, <2>1
<1>11. FromIndices(d2, d1, d0) = (n * n) * d2 + (n * d1 + d0)
  BY <1>1 DEF FromIndices
<1>12. /\ 0 <= (n * n) * d2 + (n * d1 + d0) /\ (n * n) * d2 + (n * d1 + d0) < n * n * n
       /\ (n * n) * d2 + (n * d1 + d0) \in Int
  <2> DEFINE p == n * n
             m == n * d1 + d0
  <2>1. p \in Nat /\ p > 0 /\ m \in 0 .. p - 1
    BY <1>2, <1>7
  <2> HIDE DEF p, m
  <2>2. 0 <= p * d2 + m /\ p * d2 + m < p * n /\ p * d2 + m \in Int
    BY <1>1, <2>1, Product
  <2> QED
    BY <2>2 DEF p, m
<1>13. x = (n * n * n) * q2 + ((n * n) * d2 + (n * d1 + d0))
  <2>1. (n * n) * (n * q2 + d2) = (n * n * n) * q2 + (n * n) * d2
    BY <1>1
  <2> QED
    BY <1>1, <1>8, <2>1
<1>14. x % (n * n * n) = (n * n) * d2 + (n * d1 + d0)
  <2> DEFINE p == n * n * n
             m == (n * n) * d2 + (n * d1 + d0)
  <2>1. p \in Int /\ p > 0 /\ m \in Int /\ 0 <= m /\ m < p /\ x = p * q2 + m
    BY <1>2, <1>12, <1>13
  <2> HIDE DEF p, m
  <2>2. x % p = m
    BY <2>1, DivUnique
  <2> QED
    BY <2>2 DEF p, m
<1> QED
  BY <1>10, <1>11, <1>14 DEF SpaceSize

(* Every page number has three indices. *)
LEMMA HasIndices ==
  ASSUME NEW x \in Nat
  PROVE  \E q2 \in Int : \E d2, d1, d0 \in Index :
           x = ENTRIES * (ENTRIES * (ENTRIES * q2 + d2) + d1) + d0
<1> DEFINE n == ENTRIES
           q0 == x \div n
           q1 == q0 \div n
           q2 == q1 \div n
<1>1. n \in Nat /\ n > 0
  BY PagingAssumption
<1>2. \A y \in Int : y \div n \in Int /\ y % n \in Index /\ y = n * (y \div n) + (y % n)
  BY <1>1 DEF Index
<1>3. q0 \in Int /\ x % n \in Index /\ x = n * q0 + (x % n)
  BY <1>2
<1> HIDE DEF q0
<1>4. q1 \in Int /\ q0 % n \in Index /\ q0 = n * q1 + (q0 % n)
  BY <1>2, <1>3
<1> HIDE DEF q1
<1>5. q2 \in Int /\ q1 % n \in Index /\ q1 = n * q2 + (q1 % n)
  BY <1>2, <1>4
<1> HIDE DEF q2
<1>6. x = n * (n * (n * q2 + (q1 % n)) + (q0 % n)) + (x % n)
  BY <1>3, <1>4, <1>5
<1> QED
  BY <1>3, <1>4, <1>5, <1>6

(* Virtual pages with the same three indices differ by a multiple of the   *)
(* size of the address space.                                              *)
LEMMA SamePageIs ==
  ASSUME NEW w \in Nat
  PROVE  /\ w % SpaceSize \in VPages
         /\ \A v \in VPages : SamePage(v, w) <=> v = w % SpaceSize
<1>0. SpaceSize \in Nat /\ SpaceSize > 0
  BY PagingAssumption DEF SpaceSize
<1>1. PICK q2 \in Int, d2 \in Index, d1 \in Index, d0 \in Index :
        w = ENTRIES * (ENTRIES * (ENTRIES * q2 + d2) + d1) + d0
  BY HasIndices
<1>2. /\ Vpn(w, 0) = d0 /\ Vpn(w, 1) = d1 /\ Vpn(w, 2) = d2
      /\ w % SpaceSize = FromIndices(d2, d1, d0)
  BY <1>1, Indices
<1> DEFINE y == w % SpaceSize
<1>3. y \in VPages /\ y \in Int
  BY <1>0 DEF VPages
<1>4. y = ENTRIES * (ENTRIES * (ENTRIES * 0 + d2) + d1) + d0
  BY <1>2, PagingAssumption DEF FromIndices, Index
<1> HIDE DEF y
<1>5. Vpn(y, 0) = d0 /\ Vpn(y, 1) = d1 /\ Vpn(y, 2) = d2
  BY <1>3, <1>4, Indices
<1>6. SamePage(y, w)
  BY <1>2, <1>5 DEF SamePage
<1>7. ASSUME NEW v \in VPages, SamePage(v, w) PROVE v = y
  <2>1. v \in Nat /\ v \in Int /\ v % SpaceSize = v
    BY <1>0 DEF VPages
  <2>2. PICK r2 \in Int, e2 \in Index, e1 \in Index, e0 \in Index :
          v = ENTRIES * (ENTRIES * (ENTRIES * r2 + e2) + e1) + e0
    BY <2>1, HasIndices
  <2>3. /\ Vpn(v, 0) = e0 /\ Vpn(v, 1) = e1 /\ Vpn(v, 2) = e2
        /\ v % SpaceSize = FromIndices(e2, e1, e0)
    BY <2>1, <2>2, Indices
  <2>4. e0 = d0 /\ e1 = d1 /\ e2 = d2
    BY <1>2, <1>7, <2>3 DEF SamePage
  <2> QED
    BY <1>2, <2>1, <2>3, <2>4 DEF y
<1> QED
  BY <1>3, <1>6, <1>7 DEF y
-----------------------------------------------------------------------------
(* The refinement.                                                         *)

VMap == [v \in VPages |-> Translation(v)]
Said == [ret EXCEPT !.page = @ % SpaceSize]

(* What the address space shows of the tables. *)
LEMMA Shown ==
  /\ VMap = [v \in VPages |-> Meaning(At(tab, v))]
  /\ VMap' = [v \in VPages |-> Meaning(At(tab', v))]
<1>1. \A v : Translation(v) = Meaning(At(tab, v))
  BY FoundIsAt DEF Translation, Meaning
<1>2. \A v : Translation(v)' = Meaning(At(tab', v))
  <2>1. ASSUME NEW v PROVE Found(v)' = At(tab', v)
    <3>1. CASE Ends(E2(tab', v))
      BY <3>1 DEF Found, Slot, At, E2
    <3>2. CASE ~Ends(E2(tab', v)) /\ Ends(E1(tab', v))
      BY <3>2 DEF Found, Slot, At, E2, E1
    <3>3. CASE ~Ends(E2(tab', v)) /\ ~Ends(E1(tab', v))
      BY <3>3 DEF Found, Slot, At, E2, E1, E0
    <3> QED
      BY <3>1, <3>2, <3>3
  <2> QED
    BY <2>1 DEF Translation, Meaning
<1> QED
  BY <1>1, <1>2 DEF VMap

(* A mapped page has a translation. *)
LEMMA MeaningIs ==
  \A e : (Meaning(e) = None <=> ~e.valid) /\ (e.valid => Meaning(e).ppn = e.ppn)
BY DEF Meaning, None

(* When no translation changes, the address space does not. *)
LEMMA ShownKept ==
  ASSUME NEW p2, Kept(tab, pool, tab', p2)
  PROVE  VMap' = VMap
<1>1. \A v \in VPages : v \in Nat
  BY DEF VPages
<1> QED
  BY <1>1, Shown DEF Kept

(* When one translation changes, one page of the address space does. *)
LEMMA ShownChanged ==
  ASSUME NEW p2, NEW w \in Nat, NEW e, Changed(tab, pool, tab', p2, w, e)
  PROVE  VMap' = [VMap EXCEPT ![w % SpaceSize] = Meaning(e)]
<1> DEFINE y == w % SpaceSize
<1>1. \A v \in VPages : v \in Nat
  BY DEF VPages
<1>2. y \in VPages /\ \A v \in VPages : SamePage(v, w) <=> v = y
  BY SamePageIs
<1> HIDE DEF y
<1>3. \A v \in VPages : Meaning(At(tab', v)) = IF v = y THEN Meaning(e) ELSE Meaning(At(tab, v))
  BY <1>1, <1>2 DEF Changed
<1>4. VMap' = [VMap EXCEPT ![y] = Meaning(e)]
  BY <1>2, <1>3, Shown
<1> QED
  BY <1>4 DEF y

(* The result of a call, as the address space states it. *)
LEMMA SaidIs ==
  ASSUME NEW op, NEW w, NEW err, NEW ppn, ret' = Result(op, w, err, ppn)
  PROVE  Said' = Result(op, w % SpaceSize, err, ppn)
BY DEF Said, Result

(* The initial tables are an empty address space. *)
LEMMA InitSpace == Init => Space!Init
<1> SUFFICES ASSUME Init PROVE Space!Init
  OBVIOUS
<1>1. Tree(tab, pool)
  BY InitTree
<1>2. \A v \in VPages : Meaning(At(tab, v)) = None
  <2>1. ASSUME NEW v \in VPages PROVE ~At(tab, v).valid
    <3>1. v \in Nat /\ Vpn(v, 2) \in Index
      BY VpnIndex DEF VPages
    <3>2. E2(tab, v) = Zero
      BY <3>1, EntryTypes DEF Init, E2
    <3> QED
      BY <1>1, <3>1, <3>2, Descent, EntryTypes DEF Tree
  <2> QED
    BY <2>1, MeaningIs
<1>3. VMap = [v \in VPages |-> None]
  BY <1>2, Shown
<1>4. Said = Result("init", 0, "ERR_OK", 0)
  <2>1. 0 % SpaceSize = 0
    BY PagingAssumption DEF SpaceSize
  <2> QED
    BY <2>1 DEF Init, Said, Result
<1> QED
  BY <1>3, <1>4 DEF Space!Init, Space!Result, Result, VMap, Said

(* Every call of sv39_map is a step of the address space. *)
LEMMA MapSpace ==
  ASSUME Tree(tab, pool), NEW r \in MapReqs, Map(r)
  PROVE  Space!Next
<1> DEFINE w == r.page
           y == w % SpaceSize
<1>0. w \in Nat /\ r.ppn \in Nat /\ r.perms \in Perms
  BY PagingAssumption
<1>1. y \in VPages /\ y \in Nat /\ SamePage(y, w)
  BY <1>0, SamePageIs DEF VPages
<1>2. VMap[y] = Meaning(At(tab, w))
  <2>1. At(tab, y) = At(tab, w)
    BY <1>1 DEF SamePage, At, E2, E1, E0
  <2> QED
    BY <1>1, <2>1, Shown
<1>3. \A err : ret' = Result("map", w, err, 0) => Said' = Result("map", y, err, 0)
  BY SaidIs
<1> HIDE DEF y, w
<1>4. ASSUME NEW err \in {"ERR_PAGING_UNALIGNED_ADDRESS", "ERR_NOT_IMPLEMENTED",
                          "ERR_PAGING_INVALID_TYPE"},
             Kept(tab, pool, tab', pool'), ret' = Result("map", w, err, 0)
      PROVE  Space!Refuse("map", y)
  <2>1. VMap' = VMap /\ Said' = Result("map", y, err, 0)
    BY <1>3, <1>4, ShownKept
  <2> QED
    BY <2>1 DEF Space!Refuse, Space!Result, Result, VMap, Said
<1>5. ASSUME Kept(tab, pool, tab', pool'), ret' = Result("map", w, "ERR_PAGING_SETUP_TABLE", 0),
             ~At(tab, w).valid
      PROVE  Space!MapNoMemory(y)
  <2>1. VMap' = VMap /\ Said' = Result("map", y, "ERR_PAGING_SETUP_TABLE", 0) /\ VMap[y] = None
    BY <1>2, <1>3, <1>5, ShownKept, MeaningIs
  <2> QED
    BY <2>1 DEF Space!MapNoMemory, Space!Result, Result, VMap, Said
<1>6. ASSUME Kept(tab, pool, tab', pool'), ret' = Result("map", w, "ERR_PAGING_MAPPING_EXISTS", 0),
             At(tab, w).valid
      PROVE  Space!MapExists(y)
  <2>1. VMap' = VMap /\ Said' = Result("map", y, "ERR_PAGING_MAPPING_EXISTS", 0) /\ VMap[y] # None
    BY <1>2, <1>3, <1>6, ShownKept, MeaningIs
  <2> QED
    BY <2>1 DEF Space!MapExists, Space!Result, Result, VMap, Said
<1>7. ASSUME Changed(tab, pool, tab', pool', w, Entry(r.ppn, r.perms)),
             ret' = Result("map", w, "ERR_OK", 0), ~At(tab, w).valid
      PROVE  Space!Map(y)
  <2>1. VMap' = [VMap EXCEPT ![y] = Meaning(Entry(r.ppn, r.perms))]
    BY <1>0, <1>7, ShownChanged DEF y
  <2>2. Meaning(Entry(r.ppn, r.perms)) = [ppn |-> r.ppn, perms |-> r.perms]
    BY DEF Meaning, Entry
  <2>3. Said' = Result("map", y, "ERR_OK", 0) /\ VMap[y] = None
    BY <1>2, <1>3, <1>7, MeaningIs
  <2>4. r.ppn \in {x.ppn : x \in MapReqs}
    OBVIOUS
  <2> QED
    BY <1>0, <2>1, <2>2, <2>3, <2>4 DEF Space!Map, Space!Result, Result, VMap, Said
<1>8. \/ Space!Refuse("map", y) \/ Space!MapNoMemory(y) \/ Space!MapExists(y) \/ Space!Map(y)
  BY <1>4, <1>5, <1>6, <1>7, MapEffect DEF w, Tree
<1> QED
  BY <1>1, <1>8 DEF Space!Next

(* Every call of sv39_unmap is a step of the address space. *)
LEMMA UnmapSpace ==
  ASSUME Tree(tab, pool), NEW r \in UnmapReqs, Unmap(r)
  PROVE  Space!Next
<1> DEFINE w == r.page
           y == w % SpaceSize
<1>0. w \in Nat
  BY PagingAssumption
<1>1. y \in VPages /\ y \in Nat /\ SamePage(y, w)
  BY <1>0, SamePageIs DEF VPages
<1>2. VMap[y] = Meaning(At(tab, w))
  <2>1. At(tab, y) = At(tab, w)
    BY <1>1 DEF SamePage, At, E2, E1, E0
  <2> QED
    BY <1>1, <2>1, Shown
<1>3. \A err, n : ret' = Result("unmap", w, err, n) => Said' = Result("unmap", y, err, n)
  BY SaidIs
<1> HIDE DEF y, w
<1>4. ASSUME Kept(tab, pool, tab', pool'), ret' = Result("unmap", w, "ERR_PAGING_UNALIGNED_ADDRESS", 0)
      PROVE  Space!Refuse("unmap", y)
  <2>1. VMap' = VMap /\ Said' = Result("unmap", y, "ERR_PAGING_UNALIGNED_ADDRESS", 0)
    BY <1>3, <1>4, ShownKept
  <2> QED
    BY <2>1 DEF Space!Refuse, Space!Result, Result, VMap, Said
<1>5. ASSUME Kept(tab, pool, tab', pool'), ~At(tab, w).valid,
             ret' = Result("unmap", w, "ERR_PAGING_MAPPING_DOESNT_EXIST", 0)
      PROVE  Space!UnmapMissing(y)
  <2>1. /\ VMap' = VMap /\ VMap[y] = None
        /\ Said' = Result("unmap", y, "ERR_PAGING_MAPPING_DOESNT_EXIST", 0)
    BY <1>2, <1>3, <1>5, ShownKept, MeaningIs
  <2> QED
    BY <2>1 DEF Space!UnmapMissing, Space!Result, Result, VMap, Said
<1>6. ASSUME Changed(tab, pool, tab', pool', w, Zero), At(tab, w).valid,
             ret' = Result("unmap", w, "ERR_OK", At(tab, w).ppn)
      PROVE  Space!Unmap(y)
  <2>1. VMap' = [VMap EXCEPT ![y] = None]
    <3>1. VMap' = [VMap EXCEPT ![y] = Meaning(Zero)]
      BY <1>0, <1>6, ShownChanged DEF y
    <3> QED
      BY <3>1, MeaningIs, EntryTypes
  <2>2. VMap[y] # None /\ VMap[y].ppn = At(tab, w).ppn
    BY <1>2, <1>6, MeaningIs
  <2>3. Said' = Result("unmap", y, "ERR_OK", VMap[y].ppn)
    BY <1>3, <1>6, <2>2
  <2> QED
    BY <2>1, <2>2, <2>3 DEF Space!Unmap, Space!Result, Result, VMap, Said
<1>7. Space!Refuse("unmap", y) \/ Space!UnmapMissing(y) \/ Space!Unmap(y)
  BY <1>4, <1>5, <1>6, UnmapEffect DEF w, Tree
<1> QED
  BY <1>1, <1>7 DEF Space!Next

(* The page tables implement an address space: sv39_map changes what its   *)
(* page is translated to and nothing else, fails without an effect when    *)
(* the page is mapped or a table cannot be had, and sv39_unmap returns     *)
(* the page that was mapped.                                               *)
THEOREM ImplementsSpace == Spec => SpaceSpec
<1>1. Init => Space!Init
  BY InitSpace
<1>2. Tree(tab, pool) /\ [Next]_vars => [Space!Next]_(Space!vars)
  <2> SUFFICES ASSUME Tree(tab, pool), [Next]_vars PROVE [Space!Next]_(Space!vars)
    OBVIOUS
  <2>1. CASE UNCHANGED vars
    <3>1. VMap' = VMap /\ Said' = Said
      BY <2>1, Shown DEF vars, Said
    <3> QED
      BY <3>1 DEF Space!vars, VMap, Said
  <2>2. ASSUME NEW r \in MapReqs, Map(r) PROVE Space!Next
    BY <2>2, MapSpace
  <2>3. ASSUME NEW r \in UnmapReqs, Unmap(r) PROVE Space!Next
    BY <2>3, UnmapSpace
  <2> QED
    BY <2>1, <2>2, <2>3 DEF Next
<1> QED
  BY <1>1, <1>2, TablesAreTree, PTL DEF Spec, SpaceSpec, Space!Spec

-----------------------------------------------------------------------------
(* How many tables it takes.                                               *)

(* The parts of the space that a table of level 0 and of level 1 is for. *)
Part1(v) == v \div ENTRIES
Part2(v) == v \div (ENTRIES * ENTRIES)

(* The part of a page, from its indices. *)
LEMMA PartIs ==
  ASSUME NEW v \in VPages
  PROVE  /\ Part2(v) = Vpn(v, 2) /\ Part1(v) = ENTRIES * Vpn(v, 2) + Vpn(v, 1)
         /\ Part1(v) \div ENTRIES = Vpn(v, 2) /\ Part1(v) % ENTRIES = Vpn(v, 1)
         /\ Part1(v) \in 0 .. ENTRIES * ENTRIES - 1
<1> DEFINE n == ENTRIES
<1>0. SpaceSize \in Nat /\ SpaceSize > 0
  BY PagingAssumption DEF SpaceSize
<1>1. v \in Nat /\ v \in Int /\ v % SpaceSize = v
  BY <1>0 DEF VPages
<1>2. PICK q2 \in Int, d2 \in Index, d1 \in Index, d0 \in Index :
        v = ENTRIES * (ENTRIES * (ENTRIES * q2 + d2) + d1) + d0
  BY <1>1, HasIndices
<1>3. Vpn(v, 1) = d1 /\ Vpn(v, 2) = d2 /\ v = FromIndices(d2, d1, d0)
  BY <1>1, <1>2, Indices
<1>4. n \in Nat /\ n \in Int /\ n > 0 /\ d2 \in 0 .. n - 1 /\ d1 \in 0 .. n - 1 /\ d0 \in 0 .. n - 1
  BY PagingAssumption DEF Index
<1>5. n * d2 + d1 \in Int /\ v = n * (n * d2 + d1) + d0
  BY <1>3, <1>4 DEF FromIndices
<1>6. v \div n = n * d2 + d1
  BY <1>1, <1>4, <1>5, DivUnique
<1>7. (n * d2 + d1) \div n = d2 /\ (n * d2 + d1) % n = d1
  BY <1>4, <1>5, DivUnique
<1>8. v \div (n * n) = d2
  <2> DEFINE p == n * n
             m == n * d1 + d0
  <2>1. p \in Int /\ p > 0 /\ m \in Int /\ v = p * d2 + m
    BY <1>4, <1>5
  <2>2. 0 <= m /\ m < p
    BY <1>4, Product
  <2> HIDE DEF p, m
  <2>3. v \div p = d2
    BY <1>1, <1>4, <2>1, <2>2, DivUnique
  <2> QED
    BY <2>3 DEF p
<1>9. n * d2 + d1 \in 0 .. n * n - 1
  <2>1. 0 <= n * d2 + d1 /\ n * d2 + d1 < n * n
    BY <1>4, Product
  <2> QED
    BY <1>4, <1>5, <2>1
<1> HIDE DEF n
<1> QED
  BY <1>3, <1>6, <1>7, <1>8, <1>9 DEF Part1, Part2, n

(* There is a page with any two upper indices. *)
LEMMA PageAt ==
  ASSUME NEW i \in Index, NEW j \in Index
  PROVE  \E v \in VPages : Vpn(v, 2) = i /\ Vpn(v, 1) = j
<1> DEFINE x == FromIndices(i, j, 0)
<1>1. ENTRIES \in Nat /\ ENTRIES > 0 /\ 0 \in Index /\ i \in Int /\ j \in Int
  BY PagingAssumption DEF Index
<1> DEFINE z == 0
<1>2. x \in Int /\ x = ENTRIES * (ENTRIES * (ENTRIES * z + i) + j) + z
  BY <1>1 DEF FromIndices
<1>0. z \in Int /\ z \in Index
  BY <1>1
<1> HIDE DEF x, z
<1>3. Vpn(x, 1) = j /\ Vpn(x, 2) = i /\ x % SpaceSize = FromIndices(i, j, z)
  BY <1>0, <1>2, Indices
<1>4. SpaceSize \in Nat /\ SpaceSize > 0
  BY PagingAssumption DEF SpaceSize
<1>5. x \in VPages
  BY <1>2, <1>3, <1>4 DEF VPages, x, z
<1> QED
  BY <1>3, <1>5

(* Every table is for a part of the space in which a page of A lies. *)
LinksFor(tb, A) ==
  \A v \in VPages :
    /\ E2(tb, v).valid => \E u \in A : Part2(u) = Part2(v)
    /\ Reaches(tb, v) => \E u \in A : Part1(u) = Part1(v)

(* How many parts there are with a page of A, at both levels. *)
PartsWith(A) == Cardinality({Part1(v) : v \in A}) + Cardinality({Part2(v) : v \in A})

(* There are no more tables than parts with a page of A; there are fewer   *)
(* when a page of A has no table.                                          *)
LEMMA FewLinked ==
  ASSUME NEW tb, NEW p, Sound(tb, p), NEW A \in SUBSET VPages, LinksFor(tb, A),
         NEW w \in A, ~Reaches(tb, w)
  PROVE  Cardinality(Linked(tb)) < PartsWith(A)
<1> DEFINE Q1 == {Part1(v) : v \in A}
           Q2 == {Part2(v) : v \in A}
           B2 == {k \in Q2 : tb[ROOT][k].valid}
           B1 == {k \in Q1 : \E v \in A : Part1(v) = k /\ Reaches(tb, v)}
           Low == {n \in TablePages : \E t \in Mid(tb) : \E i \in Index : tb[t][i].valid /\ tb[t][i].ppn = n}
           f2 == [k \in B2 |-> tb[ROOT][k].ppn]
           f1 == [k \in B1 |-> tb[tb[ROOT][k \div ENTRIES].ppn][k % ENTRIES].ppn]
<1>1. \A v \in VPages : v \in Nat /\ Vpn(v, 2) \in Index /\ Vpn(v, 1) \in Index
  BY VpnIndex DEF VPages
<1>2. IsFiniteSet(Q1) /\ IsFiniteSet(Q2)
  <2>1. Q1 \subseteq 0 .. ENTRIES * ENTRIES - 1
    BY PartIs
  <2>2. Q2 \subseteq 0 .. ENTRIES - 1
    BY <1>1, PartIs DEF Index
  <2>3. 0 \in Int /\ ENTRIES * ENTRIES - 1 \in Int /\ ENTRIES - 1 \in Int
    BY PagingAssumption
  <2> HIDE DEF Q1, Q2
  <2>4. IsFiniteSet(0 .. ENTRIES * ENTRIES - 1) /\ IsFiniteSet(0 .. ENTRIES - 1)
    BY <2>3, FS_Interval
  <2> QED
    BY <2>1, <2>2, <2>4, FS_Subset
<1>3. LinksDown(tb, p) /\ ROOT \in Upper(tb) /\ Mid(tb) \subseteq Upper(tb) /\ Mid(tb) \subseteq TablePages
  BY MidInUse DEF Sound, Upper
<1>4. Linked(tb) = Mid(tb) \cup Low
  <2>1. \A n : n \in Mid(tb) <=> n \in TablePages /\ \E i \in Index : tb[ROOT][i].valid /\ tb[ROOT][i].ppn = n
    BY <1>3, EntryTypes DEF Mid
  <2> QED
    BY <2>1 DEF Linked, Upper
<1>5. f2 \in Surjection(B2, Mid(tb))
  <2>1. ASSUME NEW k \in B2 PROVE f2[k] \in Mid(tb)
    <3>1. k \in Index /\ tb[ROOT][k].valid
      BY <1>1, PartIs
    <3>2. tb[ROOT][k].ppn \in Tables
      BY <1>3, <3>1, EntryTypes DEF LinksDown
    <3> QED
      BY <3>1, <3>2 DEF Mid
  <2>2. ASSUME NEW n \in Mid(tb) PROVE \E k \in B2 : f2[k] = n
    <3>1. PICK i \in Index : tb[ROOT][i].valid /\ tb[ROOT][i].ppn = n
      BY DEF Mid
    <3>2. PICK v \in VPages : Vpn(v, 2) = i
      BY PageAt
    <3>3. E2(tb, v).valid
      BY <3>1, <3>2 DEF E2
    <3>4. PICK u \in A : Part2(u) = Part2(v)
      BY <3>3 DEF LinksFor
    <3>5. Part2(v) = i
      BY <3>2, PartIs
    <3>6. i \in B2
      BY <3>1, <3>4, <3>5
    <3> QED
      BY <3>1, <3>6
  <2> HIDE DEF B2
  <2>3. f2 \in [B2 -> Mid(tb)]
    BY <2>1
  <2> HIDE DEF f2
  <2> QED
    BY <2>2, <2>3 DEF Surjection
<1>6. ASSUME NEW v \in VPages
      PROVE  tb[tb[ROOT][Part1(v) \div ENTRIES].ppn][Part1(v) % ENTRIES].ppn = E1(tb, v).ppn
  BY PartIs DEF E1, E2
<1>7. f1 \in Surjection(B1, Low)
  <2>1. ASSUME NEW k \in B1 PROVE f1[k] \in Low
    <3>1. PICK v \in A : Part1(v) = k /\ Reaches(tb, v)
      OBVIOUS
    <3>2. v \in Nat /\ Vpn(v, 1) \in Index
      BY <1>1
    <3>3. E2(tb, v).ppn \in Mid(tb) /\ E1(tb, v).valid
      BY <3>1, <3>2, Descent DEF Reaches
    <3>4. E1(tb, v).ppn \in TablePages
      BY <1>3, <3>2, <3>3 DEF LinksDown, E1
    <3>5. E1(tb, v).ppn \in Low
      BY <3>2, <3>3, <3>4 DEF E1
    <3>6. f1[k] = E1(tb, v).ppn
      BY <1>6, <3>1
    <3> QED
      BY <3>5, <3>6
  <2>2. ASSUME NEW n \in Low PROVE \E k \in B1 : f1[k] = n
    <3>1. PICK t \in Mid(tb), j \in Index : tb[t][j].valid /\ tb[t][j].ppn = n
      OBVIOUS
    <3>2. PICK i \in Index : tb[ROOT][i].valid /\ tb[ROOT][i].ppn = t
      BY DEF Mid
    <3>3. PICK v \in VPages : Vpn(v, 2) = i /\ Vpn(v, 1) = j
      BY PageAt
    <3>4. Reaches(tb, v) /\ E1(tb, v).ppn = n
      BY <3>1, <3>2, <3>3 DEF E2, E1, Reaches
    <3>5. PICK u \in A : Part1(u) = Part1(v)
      BY <3>4 DEF LinksFor
    <3>6. Vpn(u, 2) = i /\ Vpn(u, 1) = j
      BY <3>3, <3>5, PartIs
    <3>7. Reaches(tb, u)
      BY <3>3, <3>4, <3>6 DEF Reaches, E1, E2
    <3>8. Part1(v) \in B1
      BY <3>5, <3>7
    <3>9. f1[Part1(v)] = n
      BY <1>6, <3>4, <3>8
    <3> QED
      BY <3>8, <3>9
  <2> HIDE DEF B1, Low
  <2>3. f1 \in [B1 -> Low]
    BY <2>1
  <2> HIDE DEF f1
  <2> QED
    BY <2>2, <2>3 DEF Surjection
<1>8. B2 \in SUBSET Q2 /\ B1 \in SUBSET Q1
  OBVIOUS
<1>9. B2 # Q2 \/ B1 # Q1
  <2>1. CASE ~E2(tb, w).valid
    <3>1. Part2(w) \in Q2 /\ Part2(w) = Vpn(w, 2)
      BY PartIs
    <3>2. ~tb[ROOT][Part2(w)].valid
      BY <2>1, <3>1 DEF E2
    <3> QED
      BY <3>1, <3>2
  <2>2. CASE E2(tb, w).valid
    <3>1. Part1(w) \in Q1
      OBVIOUS
    <3>2. ASSUME NEW v \in A, Part1(v) = Part1(w) PROVE ~Reaches(tb, v)
      <4>1. Vpn(v, 2) = Vpn(w, 2) /\ Vpn(v, 1) = Vpn(w, 1)
        BY <3>2, PartIs
      <4> QED
        BY <4>1 DEF Reaches, E1, E2
    <3> QED
      BY <3>1, <3>2
  <2> QED
    BY <2>1, <2>2
<1> HIDE DEF Q1, Q2, B1, B2, Low, f1, f2
<1>10. IsFiniteSet(B2) /\ Cardinality(B2) <= Cardinality(Q2) /\ (Cardinality(Q2) = Cardinality(B2) => Q2 = B2)
  BY <1>2, <1>8, FS_Subset
<1>11. IsFiniteSet(B1) /\ Cardinality(B1) <= Cardinality(Q1) /\ (Cardinality(Q1) = Cardinality(B1) => Q1 = B1)
  BY <1>2, <1>8, FS_Subset
<1>12. IsFiniteSet(Mid(tb)) /\ Cardinality(Mid(tb)) <= Cardinality(B2)
  BY <1>5, <1>10, FS_Surjection
<1>13. IsFiniteSet(Low) /\ Cardinality(Low) <= Cardinality(B1)
  BY <1>7, <1>11, FS_Surjection
<1>14. /\ Cardinality(Mid(tb) \cup Low) = Cardinality(Mid(tb)) + Cardinality(Low) - Cardinality(Mid(tb) \cap Low)
       /\ IsFiniteSet(Mid(tb) \cup Low)
  BY <1>12, <1>13, FS_Union
<1>15. IsFiniteSet(Mid(tb) \cap Low)
  BY <1>12, FS_Intersection
<1>16. /\ Cardinality(Mid(tb) \cap Low) \in Nat /\ Cardinality(Mid(tb)) \in Nat /\ Cardinality(Low) \in Nat
       /\ Cardinality(B1) \in Nat /\ Cardinality(B2) \in Nat /\ Cardinality(Q1) \in Nat /\ Cardinality(Q2) \in Nat
  BY <1>2, <1>10, <1>11, <1>12, <1>13, <1>15, FS_CardinalityType
<1>17. Cardinality(Linked(tb)) < Cardinality(Q1) + Cardinality(Q2)
  <2>1. Cardinality(Linked(tb)) <= Cardinality(Mid(tb)) + Cardinality(Low)
    BY <1>4, <1>14, <1>16
  <2>2. Cardinality(Linked(tb)) \in Nat
    BY <1>4, <1>14, FS_CardinalityType
  <2>3. Cardinality(B2) # Cardinality(Q2) \/ Cardinality(B1) # Cardinality(Q1)
    BY <1>9, <1>10, <1>11
  <2>4. Cardinality(B2) < Cardinality(Q2) \/ Cardinality(B1) < Cardinality(Q1)
    BY <1>10, <1>11, <1>16, <2>3
  <2> QED
    BY <1>10, <1>11, <1>12, <1>13, <1>16, <2>1, <2>2, <2>4
<1> QED
  BY <1>17 DEF Q1, Q2, PartsWith

(* A call of sv39_map links tables for its page only. *)
LEMMA LinksForOneMore ==
  ASSUME NEW tb, NEW p, NEW tb2, NEW w \in VPages, LinkedFor(tb, p, tb2, w), NEW A, LinksFor(tb, A)
  PROVE  LinksFor(tb2, A \cup {w})
<1> SUFFICES ASSUME NEW v \in VPages
             PROVE  /\ E2(tb2, v).valid => \E u \in A \cup {w} : Part2(u) = Part2(v)
                    /\ Reaches(tb2, v) => \E u \in A \cup {w} : Part1(u) = Part1(v)
  BY DEF LinksFor
<1>1. v \in Nat
  BY DEF VPages
<1>2. Vpn(v, 2) = Vpn(w, 2) => Part2(w) = Part2(v)
  BY PartIs
<1>3. Vpn(v, 2) = Vpn(w, 2) /\ Vpn(v, 1) = Vpn(w, 1) => Part1(w) = Part1(v)
  BY PartIs
<1>4. E2(tb2, v).valid => E2(tb, v).valid \/ Part2(w) = Part2(v)
  BY <1>1, <1>2 DEF LinkedFor
<1>5. Reaches(tb2, v) => Reaches(tb, v) \/ Part1(w) = Part1(v)
  BY <1>1, <1>3 DEF LinkedFor
<1>6. /\ E2(tb, v).valid => \E u \in A : Part2(u) = Part2(v)
      /\ Reaches(tb, v) => \E u \in A : Part1(u) = Part1(v)
  BY DEF LinksFor
<1> QED
  BY <1>4, <1>5, <1>6

(* Without a page to take, a table is not had for a page that has none. *)
LEMMA NoneToLink ==
  ASSUME NEW tb, NEW tb2, NEW w, LinkedFor(tb, {}, tb2, w), NEW v \in Nat, ~Reaches(tb, v)
  PROVE  ~Reaches(tb2, v)
BY DEF LinkedFor

(* The same table of the last level serves all pages of a part. *)
LEMMA SamePart ==
  ASSUME NEW tb, NEW v \in VPages, NEW w \in VPages, Part1(v) = Part1(w)
  PROVE  Reaches(tb, v) <=> Reaches(tb, w)
<1>1. Vpn(v, 2) = Vpn(w, 2) /\ Vpn(v, 1) = Vpn(w, 1)
  BY PartIs
<1> QED
  BY <1>1 DEF Reaches, E1, E2

(* A page that has a translation has a table. *)
LEMMA MappedReaches ==
  ASSUME NEW tb, NEW p, Sound(tb, p), NEW v \in Nat, At(tb, v).valid
  PROVE  Reaches(tb, v)
BY Descent DEF Reaches

(* A walk that finds nothing finds zeros. *)
LEMMA NothingIsZero ==
  ASSUME NEW tb, NEW p, Sound(tb, p), NEW v \in Nat, ~At(tb, v).valid
  PROVE  At(tb, v) = Zero
<1>1. Vpn(v, 0) \in Index /\ Vpn(v, 1) \in Index /\ Vpn(v, 2) \in Index
  BY VpnIndex
<1>2. Clean(tb) /\ ROOT \in Tables
  BY EntryTypes DEF Sound
<1>3. CASE ~E2(tb, v).valid
  <2>1. At(tb, v) = E2(tb, v)
    BY <1>3 DEF At, Ends
  <2> QED
    BY <1>1, <1>2, <1>3, <2>1 DEF Clean, E2
<1>4. CASE E2(tb, v).valid
  <2>1. E2(tb, v).ppn \in Mid(tb) /\ E2(tb, v).ppn \in Tables
    BY <1>4, Descent, MidInUse
  <2>2. CASE E1(tb, v).valid
    <3>1. E1(tb, v).ppn \in Tables /\ At(tb, v) = E0(tb, v)
      BY <1>4, <2>2, Descent
    <3> QED
      BY <1>1, <1>2, <3>1 DEF Clean, E0
  <2>3. CASE ~E1(tb, v).valid
    <3>1. At(tb, v) = E1(tb, v)
      <4>1. ~Ends(E2(tb, v))
        BY <1>1, <1>4 DEF Sound, LinksDown, Upper, Ends, IsLeaf, E2
      <4> QED
        BY <2>3, <4>1 DEF At, Ends
    <3> QED
      BY <1>1, <1>2, <2>1, <2>3, <3>1 DEF Clean, E1
  <2> QED
    BY <2>2, <2>3
<1> QED
  BY <1>3, <1>4

(* A page more or less in the pool does not matter to the tables. *)
LEMMA SoundLess ==
  ASSUME NEW tb, NEW p, Sound(tb, p), NEW q \in SUBSET p
  PROVE  Sound(tb, q)
BY DEF Sound, Zeroed, LinksDown

(* Tables without an entry. *)
LEMMA NoTables ==
  ASSUME NEW tb, tb = [t \in Tables |-> [i \in Index |-> Zero]], NEW p \in SUBSET TablePages
  PROVE  /\ Sound(tb, p) /\ Linked(tb) = {} /\ LinksFor(tb, {})
         /\ \A v \in VPages : Meaning(At(tb, v)) = None
<1>1. tb \in TabT /\ \A t \in Tables : \A i \in Index : tb[t][i] = Zero /\ ~tb[t][i].valid
  BY EntryTypes DEF TabT
<1>2. Mid(tb) = {} /\ Upper(tb) = {ROOT} /\ ROOT \in Tables /\ TablePages \subseteq Tables
  BY <1>1, EntryTypes DEF Mid, Upper
<1>3. Zeroed(tb, p) /\ Clean(tb) /\ Linked(tb) = {}
  BY <1>1, <1>2 DEF Zeroed, Clean, Linked
<1>4. LinksDown(tb, p) /\ LinksOnce(tb) /\ LeavesBelow(tb)
  BY <1>1, <1>2 DEF LinksDown, LinksOnce, LeavesBelow
<1>5. Sound(tb, p)
  BY <1>1, <1>3, <1>4 DEF Sound
<1>6. ASSUME NEW v \in VPages PROVE ~E2(tb, v).valid
  <2>1. v \in Nat /\ Vpn(v, 2) \in Index
    BY VpnIndex DEF VPages
  <2> QED
    BY <1>1, <1>2, <2>1 DEF E2
<1>7. ASSUME NEW v \in VPages PROVE Meaning(At(tb, v)) = None
  <2>1. v \in Nat
    BY DEF VPages
  <2> QED
    BY <1>5, <1>6, <2>1, Descent DEF Meaning
<1>8. LinksFor(tb, {})
  BY <1>6 DEF LinksFor, Reaches
<1> QED
  BY <1>3, <1>5, <1>7, <1>8

(* In the address space a page has one number. *)
LEMMA OnePage ==
  ASSUME NEW v \in VPages, NEW w \in VPages
  PROVE  SamePage(v, w) <=> v = w
<1>1. SpaceSize \in Nat /\ SpaceSize > 0
  BY PagingAssumption DEF SpaceSize
<1>2. w \in Nat /\ w % SpaceSize = w
  BY <1>1 DEF VPages
<1> QED
  BY <1>2, SamePageIs
=============================================================================
