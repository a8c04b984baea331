--------------------------- MODULE FmtPrintProofs ---------------------------
(***************************************************************************)
(* Theorems about FmtPrint: numbers stay in the buffer, and the output is  *)
(* what the format says.                                                   *)
(***************************************************************************)
EXTENDS FmtPrint, FiniteSetTheorems, SequenceTheorems, NaturalsInduction, TLAPS

-----------------------------------------------------------------------------
(* A set of natural numbers has a least element. *)
LEMMA LeastNat ==
  ASSUME NEW S \in SUBSET Nat, S # {}
  PROVE  \E n \in S : \A k \in S : n <= k
<1> DEFINE R == {ss \in Nat \X Nat : ss[1] < ss[2]}
<1>1. IsWellFoundedOn(OpToRel(<, Nat), Nat)
  BY NatLessThanWellFounded
<1>2. OpToRel(<, Nat) = R
  BY DEF OpToRel
<1>3. IsWellFoundedOn(R, Nat)
  BY <1>1, <1>2
<1> HIDE DEF R
<1>4. PICK n \in S : \A k \in S : <<k, n>> \notin R
  BY <1>3, WFMin
<1>5. \A k \in S : ~(k < n)
  BY <1>4 DEF R
<1> QED
  BY <1>5

(* Powers of 2, through the number of subsets: one more element doubles it. *)
LEMMA PowStep ==
  ASSUME NEW n \in Nat
  PROVE  2^n \in Nat /\ 2^(n+1) = 2 * 2^n
<1> DEFINE S == 1 .. n
           T == 1 .. n + 1
<1>1. IsFiniteSet(S) /\ Cardinality(S) = n /\ IsFiniteSet(T) /\ Cardinality(T) = n + 1
  BY FS_Interval
<1>2. IsFiniteSet(SUBSET S) /\ Cardinality(SUBSET S) = 2^n
  BY <1>1, FS_SUBSET
<1>3. IsFiniteSet(SUBSET T) /\ Cardinality(SUBSET T) = 2^(n + 1)
  BY <1>1, FS_SUBSET
<1>4. n + 1 \notin S /\ T = S \cup {n + 1}
  OBVIOUS
<1> HIDE DEF S, T
<1> DEFINE x == n + 1
           A == {B \in SUBSET T : x \in B}
           f == [B \in SUBSET S |-> B \cup {x}]
<1>5. x \notin S /\ T = S \cup {x}
  BY <1>4
<1> HIDE DEF x
<1>6. f \in [SUBSET S -> A] /\ \A B \in SUBSET S : f[B] = B \cup {x}
  BY <1>5
<1>7. \A B, C \in SUBSET S : B \cup {x} = C \cup {x} => B = C
  BY <1>5
<1>8. \A C \in A : C \ {x} \in SUBSET S /\ C = (C \ {x}) \cup {x}
  BY <1>5
<1>9. f \in Bijection(SUBSET S, A)
  <2> HIDE DEF f, A
  <2>1. \A B, C \in SUBSET S : f[B] = f[C] => B = C
    BY <1>6, <1>7
  <2>2. \A C \in A : f[C \ {x}] = C /\ C \ {x} \in SUBSET S
    <3> TAKE C \in A
    <3>1. C \ {x} \in SUBSET S /\ C = (C \ {x}) \cup {x}
      BY <1>8
    <3> QED
      BY <1>6, <3>1
  <2>3. DOMAIN f = SUBSET S
    BY <1>6
  <2>4. f \in Injection(SUBSET S, A)
    BY <1>6, <2>1, <2>3, Zenon DEF Injection, IsInjective
  <2>5. f \in Surjection(SUBSET S, A)
    BY <1>6, <2>2, Zenon DEF Surjection
  <2> QED
    BY <2>4, <2>5, Zenon DEF Bijection
<1>10. IsFiniteSet(A) /\ Cardinality(A) = 2^n
  <2> HIDE DEF f, A
  <2>1. ExistsBijection(SUBSET S, A)
    BY <1>9 DEF ExistsBijection
  <2> QED
    BY <1>2, <2>1, FS_Bijection
<1>11. SUBSET T = (SUBSET S) \cup A /\ (SUBSET S) \cap A = {}
  BY <1>5
<1> HIDE DEF A
<1>12. Cardinality(SUBSET T) = Cardinality(SUBSET S) + Cardinality(A) - Cardinality((SUBSET S) \cap A)
  BY <1>2, <1>10, <1>11, FS_Union
<1>13. Cardinality((SUBSET S) \cap A) = 0
  BY <1>11, FS_EmptySet
<1>14. Cardinality(SUBSET S) \in Nat
  BY <1>2, FS_CardinalityType
<1> DEFINE p == 2^n
           q == 2^(n + 1)
<1>15. p \in Nat /\ q = p + p
  <2>1. p = Cardinality(SUBSET S) /\ q = Cardinality(SUBSET T)
    BY <1>2, <1>3
  <2> HIDE DEF p, q
  <2> QED
    BY <1>2, <1>10, <1>12, <1>13, <1>14, <2>1
<1> HIDE DEF p, q
<1>16. q = 2 * p
  BY <1>15
<1> QED
  BY <1>15, <1>16 DEF p, q

(* The least power is 1. *)
LEMMA PowZero == 2^0 = 1
  OBVIOUS

(* And this one is 16. *)
LEMMA PowFour == 2^4 = 16
<1>1. 2^1 = 2 * 2^0
  <2>1. 0 \in Nat /\ 0 + 1 = 1
    OBVIOUS
  <2> QED
    BY <2>1, PowStep
<1>2. 2^2 = 2 * 2^1
  <2>1. 1 \in Nat /\ 1 + 1 = 2
    OBVIOUS
  <2> QED
    BY <2>1, PowStep
<1>3. 2^3 = 2 * 2^2
  <2>1. 2 \in Nat /\ 2 + 1 = 3
    OBVIOUS
  <2> QED
    BY <2>1, PowStep
<1>4. 2^4 = 2 * 2^3
  <2>1. 3 \in Nat /\ 3 + 1 = 4
    OBVIOUS
  <2> QED
    BY <2>1, PowStep
<1> QED
  BY <1>1, <1>2, <1>3, <1>4, PowZero

(* Powers of 2 are positive and grow. *)
LEMMA PowMono ==
  ASSUME NEW m \in Nat, NEW n \in Nat, m <= n
  PROVE  2^m \in Nat /\ 2^n \in Nat /\ 1 <= 2^m /\ 2^m <= 2^n
<1>1. ASSUME NEW h \in Nat  PROVE 2^h \in Nat
  BY PowStep
<1>2. ASSUME NEW h \in Nat  PROVE 1 <= 2^h
  <2> DEFINE S == {k \in Nat : ~(1 <= 2^k)}
  <2>1. SUFFICES ASSUME S # {}  PROVE FALSE
    OBVIOUS
  <2>2. PICK k \in S : \A l \in S : k <= l
    <3> HIDE DEF S
    <3>1. S \in SUBSET Nat
      BY DEF S
    <3> QED
      BY <2>1, <3>1, LeastNat
  <2>3. k \in Nat /\ ~(1 <= 2^k)
    OBVIOUS
  <2>4. k # 0
    <3>1. k = 0 => 2^k = 2^0
      BY Zenon
    <3> QED
      BY <2>3, <3>1, PowZero
  <2>5. k - 1 \in Nat /\ k = (k - 1) + 1
    BY <2>3, <2>4
  <2>6. 2^k = 2 * 2^(k - 1) /\ 2^(k - 1) \in Nat
    BY <2>5, PowStep
  <2>7. 1 <= 2^(k - 1)
    BY <2>2, <2>5
  <2> DEFINE p == 2^k
             q == 2^(k - 1)
  <2>8. p = 2 * q /\ q \in Nat /\ 1 <= q /\ ~(1 <= p)
    BY <2>3, <2>6, <2>7
  <2> HIDE DEF p, q
  <2> QED
    BY <2>8
<1>3. 2^m <= 2^n
  <2> DEFINE S == {k \in Nat : ~(2^m <= 2^(m + k))}
  <2>1. SUFFICES ASSUME S # {}  PROVE FALSE
    <3>1. n - m \in Nat /\ m + (n - m) = n
      OBVIOUS
    <3> QED
      BY <3>1
  <2>2. PICK k \in S : \A l \in S : k <= l
    <3> HIDE DEF S
    <3>1. S \in SUBSET Nat
      BY DEF S
    <3> QED
      BY <2>1, <3>1, LeastNat
  <2>3. k \in Nat /\ ~(2^m <= 2^(m + k))
    OBVIOUS
  <2>4. k # 0
    <3>1. k = 0 => m + k = m
      OBVIOUS
    <3>2. 2^m \in Nat
      BY <1>1
    <3> QED
      BY <2>3, <3>1, <3>2
  <2>5. k - 1 \in Nat /\ m + (k - 1) \in Nat /\ m + k = (m + (k - 1)) + 1
    BY <2>3, <2>4
  <2>6. 2^(m + k) = 2 * 2^(m + (k - 1)) /\ 2^(m + (k - 1)) \in Nat
    BY <2>5, PowStep
  <2>7. 2^m <= 2^(m + (k - 1))
    <3>1. k - 1 \notin S
      BY <2>2, <2>5
    <3> QED
      BY <2>5, <3>1
  <2> DEFINE p == 2^m
             q == 2^(m + (k - 1))
             r == 2^(m + k)
  <2>8. r = 2 * q /\ q \in Nat /\ p <= q /\ ~(p <= r) /\ p \in Nat
    BY <2>3, <2>6, <2>7, <1>1
  <2> HIDE DEF p, q, r
  <2> QED
    BY <2>8
<1> QED
  BY <1>1, <1>2, <1>3

(* The word is larger than its number of bits, by more than four. *)
LEMMA WordBig == W \in Nat /\ W >= 4 /\ Word \in Nat /\ Word > W + 4
<1> DEFINE S == {k \in Nat : ~(2^(k + 4) > k + 8)}
<1>1. W \in Nat /\ W >= 4
  <2>1. W \in Nat /\ W # 0 /\ W # 1 /\ W # 2 /\ W % 2 = 0
    BY FmtPrintAssumption
  <2>2. W # 3
    BY <2>1
  <2> QED
    BY <2>1, <2>2
<1>2. ASSUME NEW h \in Nat  PROVE 2^h \in Nat
  BY PowStep
<1>3. S = {}
  <2>1. SUFFICES ASSUME S # {}  PROVE FALSE
    OBVIOUS
  <2>2. PICK k \in S : \A l \in S : k <= l
    <3> HIDE DEF S
    <3>1. S \in SUBSET Nat
      BY DEF S
    <3> QED
      BY <2>1, <3>1, LeastNat
  <2>3. k \in Nat /\ ~(2^(k + 4) > k + 8)
    OBVIOUS
  <2>4. k # 0
    <3>1. k = 0 => k + 4 = 4 /\ k + 8 = 8
      OBVIOUS
    <3>2. k = 0 => 2^(k + 4) = 2^4
      BY <3>1, Zenon
    <3> QED
      BY <2>3, <3>1, <3>2, PowFour
  <2>5. k - 1 \in Nat /\ (k - 1) + 4 \in Nat /\ k + 4 = ((k - 1) + 4) + 1
    BY <2>3, <2>4
  <2>6. 2^(k + 4) = 2 * 2^((k - 1) + 4) /\ 2^((k - 1) + 4) \in Nat
    BY <2>5, PowStep
  <2>7. 2^((k - 1) + 4) > (k - 1) + 8
    <3>1. k - 1 \notin S
      BY <2>2, <2>5
    <3> QED
      BY <2>5, <3>1
  <2> DEFINE p == 2^(k + 4)
             q == 2^((k - 1) + 4)
  <2>8. p = 2 * q /\ q \in Nat /\ q > (k - 1) + 8 /\ ~(p > k + 8)
    BY <2>3, <2>6, <2>7
  <2> HIDE DEF p, q
  <2> QED
    BY <2>3, <2>8
<1>4. W - 4 \in Nat /\ (W - 4) + 4 = W /\ (W - 4) + 8 = W + 4
  BY <1>1
<1>5. 2^((W - 4) + 4) > (W - 4) + 8
  BY <1>3, <1>4
<1> QED
  BY <1>1, <1>2, <1>4, <1>5 DEF Word

-----------------------------------------------------------------------------
(* There are n characters % right before k. *)
Run(f, k, n) ==
  /\ n \in 0 .. k - 1
  /\ \A j \in k - n .. k - 1 : f[j] = "%"
  /\ k - n > 1 => f[k - n - 1] # "%"

(* There are always some number of them. *)
LEMMA RunExists ==
  ASSUME NEW f, NEW k \in Nat, k >= 1
  PROVE  \E n : Run(f, k, n)
<1> DEFINE S == {n \in 0 .. k - 1 : k - n > 1 => f[k - n - 1] # "%"}
<1>1. k - 1 \in S /\ S \in SUBSET Nat
  OBVIOUS
<1>2. PICK n \in S : \A m \in S : n <= m
  <2> HIDE DEF S
  <2> QED
    BY <1>1, LeastNat
<1>3. n \in 0 .. k - 1 /\ (k - n > 1 => f[k - n - 1] # "%")
  OBVIOUS
<1>4. ASSUME NEW j \in k - n .. k - 1  PROVE f[j] = "%"
  <2>1. k - 1 - j \in 0 .. n - 1 /\ j = k - (k - 1 - j) - 1
    BY <1>3
  <2>2. k - 1 - j \notin S
    <3> HIDE DEF S
    <3> QED
      BY <1>2, <1>3, <2>1
  <2> QED
    BY <1>3, <2>1, <2>2
<1> QED
  BY <1>3, <1>4 DEF Run

(* And only one. *)
LEMMA RunUnique ==
  ASSUME NEW f, NEW k \in Nat, NEW m, NEW n, Run(f, k, m), Run(f, k, n)
  PROVE  m = n
<1>1. ASSUME NEW a \in Nat, NEW b \in Nat, Run(f, k, a), Run(f, k, b)  PROVE ~(a < b)
  <2>1. SUFFICES ASSUME a < b  PROVE FALSE
    OBVIOUS
  <2>2. k - a - 1 \in k - b .. k - 1 /\ k - a > 1
    BY <1>1, <2>1 DEF Run
  <2> QED
    BY <1>1, <2>2 DEF Run
<1>2. m \in Nat /\ n \in Nat
  BY DEF Run
<1>3. ~(m < n) /\ ~(n < m)
  BY <1>1, <1>2
<1> QED
  BY <1>2, <1>3

(* A % after one that escapes opens, and the other way round. *)
LEMMA OpensNext ==
  ASSUME NEW f, NEW k \in Nat, k >= 2, f[k] = "%", f[k - 1] = "%"
  PROVE  Opens(f, k) <=> ~Opens(f, k - 1)
<1>1. PICK n : Run(f, k - 1, n)
  <2>1. k - 1 \in Nat /\ k - 1 >= 1
    OBVIOUS
  <2> QED
    BY <2>1, RunExists
<1>2. n \in 0 .. k - 2
  BY <1>1 DEF Run
<1>3. Run(f, k, n + 1)
  <2>1. ASSUME NEW j \in k - (n + 1) .. k - 1  PROVE f[j] = "%"
    <3>1. j = k - 1 \/ j \in (k - 1) - n .. (k - 1) - 1
      BY <1>2
    <3> QED
      BY <1>1, <3>1 DEF Run
  <2>2. n + 1 \in 0 .. k - 1 /\ k - (n + 1) = (k - 1) - n
    BY <1>2
  <2> QED
    BY <1>1, <2>1, <2>2 DEF Run
<1>4. Opens(f, k - 1) <=> n % 2 = 0
  <2>1. ASSUME Opens(f, k - 1)  PROVE n % 2 = 0
    <3>1. PICK m \in 0 .. (k - 1) - 1 : m % 2 = 0 /\ Run(f, k - 1, m)
      BY <2>1 DEF Opens, Run
    <3>2. m = n
      BY <1>1, <3>1, RunUnique
    <3> QED
      BY <3>1, <3>2
  <2>2. ASSUME n % 2 = 0  PROVE Opens(f, k - 1)
    BY <1>1, <2>2 DEF Opens, Run
  <2> QED
    BY <2>1, <2>2
<1>5. Opens(f, k) <=> (n + 1) % 2 = 0
  <2>1. ASSUME Opens(f, k)  PROVE (n + 1) % 2 = 0
    <3>1. PICK m \in 0 .. k - 1 : m % 2 = 0 /\ Run(f, k, m)
      BY <2>1 DEF Opens, Run
    <3>2. m = n + 1
      BY <1>3, <3>1, RunUnique
    <3> QED
      BY <3>1, <3>2
  <2>2. ASSUME (n + 1) % 2 = 0  PROVE Opens(f, k)
    BY <1>3, <2>2 DEF Opens, Run
  <2> QED
    BY <2>1, <2>2
<1>6. (n + 1) % 2 = 0 <=> ~(n % 2 = 0)
  BY <1>2
<1> QED
  BY <1>4, <1>5, <1>6

(* A % before which there is none opens a conversion. *)
LEMMA OpensFirst ==
  ASSUME NEW f, NEW k \in Nat, k >= 1, f[k] = "%", k > 1 => f[k - 1] # "%"
  PROVE  Opens(f, k)
<1>1. 0 \in 0 .. k - 1 /\ 0 % 2 = 0 /\ k - 0 = k /\ k - 0 - 1 = k - 1
  OBVIOUS
<1>2. \A j \in k - 0 .. k - 1 : f[j] = "%"
  OBVIOUS
<1> QED
  BY <1>1, <1>2 DEF Opens

(* Whether a conversion waits after one more character. *)
LEMMA WaitsNext ==
  ASSUME NEW f, NEW k \in Nat, k >= 1
  PROVE  Waits(f, k + 1) <=> Opens(f, k) \/ (f[k] = "l" /\ Waits(f, k))
<1>1. ASSUME Waits(f, k + 1)  PROVE Opens(f, k) \/ (f[k] = "l" /\ Waits(f, k))
  <2>1. PICK j \in 1 .. k : Opens(f, j) /\ \A m \in j + 1 .. k : f[m] = "l"
    BY <1>1 DEF Waits
  <2>2. ASSUME j # k  PROVE f[k] = "l" /\ Waits(f, k)
    <3>1. j \in 1 .. k - 1 /\ k \in j + 1 .. k /\ \A m \in j + 1 .. k - 1 : m \in j + 1 .. k
      BY <2>2
    <3> QED
      BY <2>1, <3>1 DEF Waits
  <2> QED
    BY <2>1, <2>2
<1>2. ASSUME Opens(f, k)  PROVE Waits(f, k + 1)
  <2>1. k \in 1 .. (k + 1) - 1 /\ \A m \in k + 1 .. (k + 1) - 1 : f[m] = "l"
    OBVIOUS
  <2> QED
    BY <1>2, <2>1 DEF Waits
<1>3. ASSUME f[k] = "l", Waits(f, k)  PROVE Waits(f, k + 1)
  <2>1. PICK j \in 1 .. k - 1 : Opens(f, j) /\ \A m \in j + 1 .. k - 1 : f[m] = "l"
    BY <1>3 DEF Waits
  <2>2. \A m \in j + 1 .. (k + 1) - 1 : m = k \/ m \in j + 1 .. k - 1
    OBVIOUS
  <2>3. \A m \in j + 1 .. (k + 1) - 1 : f[m] = "l"
    BY <1>3, <2>1, <2>2
  <2>4. j \in 1 .. (k + 1) - 1
    OBVIOUS
  <2> QED
    BY <2>1, <2>3, <2>4 DEF Waits
<1> QED
  BY <1>1, <1>2, <1>3

(* In a proper format a % opens a conversion unless one waits. *)
LEMMA WaitsPercent ==
  ASSUME NEW f \in Seq(Character), ProperFormat(f), NEW k \in 1 .. Len(f), f[k] = "%"
  PROVE  Opens(f, k) <=> ~Waits(f, k)
<1>1. k \in Nat /\ k >= 1 /\ Len(f) \in Nat /\ DOMAIN f = 1 .. Len(f)
  OBVIOUS
<1>2. ASSUME Waits(f, k)  PROVE ~Opens(f, k)
  <2>1. PICK j \in 1 .. k - 1 : Opens(f, j) /\ \A m \in j + 1 .. k - 1 : f[m] = "l"
    BY <1>2 DEF Waits
  <2>2. j \in DOMAIN f /\ k \in j + 1 .. Len(f)
    BY <1>1
  <2>3. \/ j < Len(f) /\ f[j + 1] = "%"
        \/ \E m \in j + 1 .. Len(f) : f[m] \in Conversions /\ \A h \in j + 1 .. m - 1 : f[h] = "l"
        \/ \A h \in j + 1 .. Len(f) : f[h] = "l"
    BY <2>1, <2>2 DEF ProperFormat
  <2>4. ~ \A h \in j + 1 .. Len(f) : f[h] = "l"
    BY <2>2
  <2>5. ~ \E m \in j + 1 .. Len(f) : f[m] \in Conversions /\ \A h \in j + 1 .. m - 1 : f[h] = "l"
    <3>1. SUFFICES ASSUME NEW m \in j + 1 .. Len(f), f[m] \in Conversions,
                          \A h \in j + 1 .. m - 1 : f[h] = "l"
                   PROVE  FALSE
      OBVIOUS
    <3>2. CASE m = k
      BY <3>1, <3>2 DEF Conversions
    <3>3. CASE m < k
      <4>1. m \in j + 1 .. k - 1
        BY <1>1, <3>3
      <4> QED
        BY <2>1, <3>1, <4>1 DEF Conversions
    <3>4. CASE m > k
      <4>1. k \in j + 1 .. m - 1
        BY <1>1, <3>4
      <4> QED
        BY <3>1, <4>1
    <3> QED
      BY <1>1, <3>2, <3>3, <3>4
  <2>6. f[j + 1] = "%"
    BY <2>3, <2>4, <2>5
  <2>7. j + 1 = k
    <3>1. j + 1 # k => j + 1 \in j + 1 .. k - 1
      BY <1>1
    <3> QED
      BY <2>1, <2>6, <3>1
  <2>8. j = k - 1 /\ k >= 2
    BY <1>1, <2>7
  <2>9. Opens(f, k - 1) /\ f[k - 1] = "%"
    BY <2>1, <2>8 DEF Opens
  <2> QED
    BY <1>1, <2>8, <2>9, OpensNext
<1>3. ASSUME ~Waits(f, k)  PROVE Opens(f, k)
  <2>1. CASE k > 1 => f[k - 1] # "%"
    BY <1>1, <2>1, OpensFirst
  <2>2. CASE k > 1 /\ f[k - 1] = "%"
    <3>1. k - 1 \in 1 .. k - 1 /\ \A m \in (k - 1) + 1 .. k - 1 : f[m] = "l"
      BY <1>1, <2>2
    <3>2. ~Opens(f, k - 1)
      BY <1>3, <3>1 DEF Waits
    <3>3. k >= 2
      BY <1>1, <2>2
    <3> QED
      BY <1>1, <2>2, <3>2, <3>3, OpensNext
  <2> QED
    BY <2>1, <2>2
<1> QED
  BY <1>2, <1>3

(* Where a conversion waits in a proper format there is an l, the letter   *)
(* of a conversion or a %.                                                 *)
LEMMA WaitingFor ==
  ASSUME NEW f \in Seq(Character), ProperFormat(f), NEW k \in 1 .. Len(f), Waits(f, k),
         f[k] # "%", f[k] \notin Conversions
  PROVE  f[k] = "l"
<1>1. k \in Nat /\ k >= 1 /\ Len(f) \in Nat /\ DOMAIN f = 1 .. Len(f)
  OBVIOUS
<1>2. PICK j \in 1 .. k - 1 : Opens(f, j) /\ \A m \in j + 1 .. k - 1 : f[m] = "l"
  BY DEF Waits
<1>3. j \in DOMAIN f /\ k \in j + 1 .. Len(f)
  BY <1>1
<1>4. \/ j < Len(f) /\ f[j + 1] = "%"
      \/ \E m \in j + 1 .. Len(f) : f[m] \in Conversions /\ \A h \in j + 1 .. m - 1 : f[h] = "l"
      \/ \A h \in j + 1 .. Len(f) : f[h] = "l"
  BY <1>2, <1>3 DEF ProperFormat
<1>5. CASE \A h \in j + 1 .. Len(f) : f[h] = "l"
  BY <1>3, <1>5
<1>6. CASE \E m \in j + 1 .. Len(f) : f[m] \in Conversions /\ \A h \in j + 1 .. m - 1 : f[h] = "l"
  <2>1. PICK m \in j + 1 .. Len(f) : f[m] \in Conversions /\ \A h \in j + 1 .. m - 1 : f[h] = "l"
    BY <1>6
  <2>2. m # k
    BY <2>1
  <2>3. ~(m < k)
    <3>1. m < k => m \in j + 1 .. k - 1
      BY <1>1
    <3> QED
      BY <1>2, <2>1, <3>1 DEF Conversions
  <2>4. k \in j + 1 .. m - 1
    BY <1>1, <2>2, <2>3
  <2> QED
    BY <2>1, <2>4
<1>7. CASE j < Len(f) /\ f[j + 1] = "%"
  <2>1. j + 1 # k
    BY <1>7
  <2>2. j + 1 \in j + 1 .. k - 1
    BY <1>1, <2>1
  <2> QED
    BY <1>2, <1>7, <2>2
<1> QED
  BY <1>4, <1>5, <1>6, <1>7

(* No conversion is counted before the first character. *)
LEMMA ConversionZero == \A f : Conversion(f, 0) = 0 /\ ~Waits(f, 1)
<1> TAKE f
<1>1. {j \in 1 .. 0 : Converts(f, j)} = {}
  OBVIOUS
<1>2. Conversion(f, 0) = 0
  BY <1>1, FS_EmptySet DEF Conversion
<1>3. ~Waits(f, 1)
  BY DEF Waits
<1> QED
  BY <1>2, <1>3

(* The count goes up at a conversion only. *)
LEMMA ConversionNext ==
  ASSUME NEW f, NEW k \in Nat, k >= 1
  PROVE  /\ Conversion(f, k) \in Nat /\ Conversion(f, k - 1) \in Nat
         /\ Conversion(f, k) = IF Converts(f, k) THEN Conversion(f, k - 1) + 1
                               ELSE Conversion(f, k - 1)
<1> DEFINE S == {j \in 1 .. k : Converts(f, j)}
           T == {j \in 1 .. k - 1 : Converts(f, j)}
<1>1. IsFiniteSet(T)
  <2>1. IsFiniteSet(1 .. k - 1)
    BY FS_Interval
  <2>2. T \subseteq 1 .. k - 1
    OBVIOUS
  <2> HIDE DEF T
  <2> QED
    BY <2>1, <2>2, FS_Subset
<1>2. k \notin T
  OBVIOUS
<1>3. \A j : j \in 1 .. k <=> j \in 1 .. k - 1 \/ j = k
  OBVIOUS
<1>4. Converts(f, k) => S = T \cup {k}
  BY <1>3
<1>5. ~Converts(f, k) => S = T
  BY <1>3
<1>6. Cardinality(T) \in Nat /\ Cardinality(T \cup {k}) = Cardinality(T) + 1
  <2> HIDE DEF T
  <2>1. Cardinality(T \cup {k}) = IF k \in T THEN Cardinality(T) ELSE Cardinality(T) + 1
    BY <1>1, FS_AddElement
  <2> QED
    BY <1>1, <1>2, <2>1, FS_CardinalityType
<1>7. Conversion(f, k) = Cardinality(S) /\ Conversion(f, k - 1) = Cardinality(T)
  BY DEF Conversion
<1> HIDE DEF S, T
<1>8. CASE Converts(f, k)
  <2>1. Cardinality(S) = Cardinality(T) + 1
    BY <1>4, <1>6, <1>8
  <2> QED
    BY <1>6, <1>7, <1>8, <2>1
<1>9. CASE ~Converts(f, k)
  <2>1. Cardinality(S) = Cardinality(T)
    BY <1>5, <1>9
  <2> QED
    BY <1>6, <1>7, <1>9, <2>1
<1> QED
  BY <1>8, <1>9

-----------------------------------------------------------------------------
Bases == {2, 8, 10, 16}

(* Dividing by a base. *)
LEMMA DivBase ==
  ASSUME NEW v \in Nat, NEW b \in Bases
  PROVE  /\ v \div b \in Nat /\ v % b \in 0 .. 15 /\ 2 * (v \div b) <= v
         /\ v < b => v \div b = 0 /\ v % b = v
         /\ v >= b => v \div b \in 0 .. v - 1
<1>1. CASE b = 2
  BY <1>1
<1>2. CASE b = 8
  BY <1>2
<1>3. CASE b = 10
  BY <1>3
<1>4. CASE b = 16
  BY <1>4
<1> QED
  BY <1>1, <1>2, <1>3, <1>4 DEF Bases

(* The digits are characters. *)
LEMMA DigitIs ==
  ASSUME NEW k \in 0 .. 15
  PROVE  Digits[k + 1] \in Character
<1>1. k + 1 \in 1 .. 16 /\ Len(Digits) = 16
  BY DEF Digits
<1>2. Digits \in Seq(Character)
  BY FmtPrintAssumption
<1>3. k + 1 \in 1 .. Len(Digits)
  BY <1>1
<1> QED
  BY <1>2, <1>3, ElementOfSeq, Zenon

(* The recursion that defines a numeral. *)
NumStep(g, b, n) ==
  g = [v \in 0 .. n |->
         IF v < b THEN <<Digits[v + 1]>> ELSE Append(g[v \div b], Digits[(v % b) + 1])]

(* It has a solution. *)
LEMMA NumExists ==
  ASSUME NEW b \in Bases, NEW n \in Nat
  PROVE  \E g : NumStep(g, b, n) /\ g \in [0 .. n -> Seq(Character)]
<1> DEFINE P(k) == \E g : NumStep(g, b, k) /\ g \in [0 .. k -> Seq(Character)]
           S == {k \in Nat : ~P(k)}
<1>1. SUFFICES ASSUME S # {}  PROVE FALSE
  OBVIOUS
<1>2. PICK k \in S : \A l \in S : k <= l
  <2> HIDE DEF S
  <2>1. S \in SUBSET Nat
    BY DEF S
  <2> QED
    BY <1>1, <2>1, LeastNat
<1>3. k \in Nat /\ ~P(k)
  OBVIOUS
<1>4. b \in Nat /\ b >= 2 /\ b <= 16
  BY DEF Bases
<1>5. ASSUME NEW l \in Nat  PROVE /\ Digits[(l % b) + 1] \in Character
                                  /\ l < b => Digits[l + 1] \in Character
  <2>1. l % b \in 0 .. 15 /\ (l < b => l \in 0 .. 15)
    BY <1>4, DivBase
  <2> QED
    BY <2>1, DigitIs
<1>6. PICK f : f \in [0 .. k - 1 -> Seq(Character)] /\ \A v \in 0 .. k - 1 :
         f[v] = IF v < b THEN <<Digits[v + 1]>> ELSE Append(f[v \div b], Digits[(v % b) + 1])
  <2>1. CASE k = 0
    <3> DEFINE f == [v \in 0 .. k - 1 |-> <<>>]
    <3>1. f \in [0 .. k - 1 -> Seq(Character)] /\ \A v \in 0 .. k - 1 : FALSE
      BY <2>1
    <3> HIDE DEF f
    <3> QED
      BY <3>1
  <2>2. CASE k # 0
    <3>1. k - 1 \in Nat /\ P(k - 1)
      <4> HIDE DEF P
      <4>1. k - 1 \in Nat /\ ~(k <= k - 1)
        BY <1>3, <2>2
      <4>2. k - 1 \notin S
        <5> HIDE DEF S
        <5> QED
          BY <1>2, <4>1
      <4> QED
        BY <4>1, <4>2
    <3>2. PICK g : NumStep(g, b, k - 1) /\ g \in [0 .. k - 1 -> Seq(Character)]
      BY <3>1
    <3>3. \A v \in 0 .. k - 1 :
         g[v] = IF v < b THEN <<Digits[v + 1]>> ELSE Append(g[v \div b], Digits[(v % b) + 1])
      <4> TAKE v \in 0 .. k - 1
      <4> DEFINE e(u) == IF u < b THEN <<Digits[u + 1]>> ELSE Append(g[u \div b], Digits[(u % b) + 1])
      <4>1. g = [u \in 0 .. k - 1 |-> e(u)]
        BY <3>2 DEF NumStep
      <4> HIDE DEF e
      <4>2. g[v] = e(v)
        BY <4>1
      <4> QED
        BY <4>2 DEF e
    <3> QED
      BY <3>2, <3>3
  <2> QED
    BY <2>1, <2>2
<1> DEFINE top == IF k < b THEN <<Digits[k + 1]>> ELSE Append(f[k \div b], Digits[(k % b) + 1])
           h == [v \in 0 .. k |-> IF v = k THEN top ELSE f[v]]
<1>7. k >= b => k \div b \in 0 .. k - 1
  BY <1>3, <1>4, DivBase
<1>8. top \in Seq(Character)
  <2>1. CASE k < b
    BY <1>3, <1>5, <2>1
  <2>2. CASE ~(k < b)
    <3>1. k \div b \in 0 .. k - 1
      BY <1>3, <1>4, <1>7, <2>2
    <3>2. f[k \div b] \in Seq(Character)
      BY <1>6, <3>1
    <3>3. Digits[(k % b) + 1] \in Character
      BY <1>3, <1>5
    <3> QED
      BY <2>2, <3>2, <3>3
  <2> QED
    BY <2>1, <2>2
<1>9. h \in [0 .. k -> Seq(Character)]
  <2> HIDE DEF top
  <2>1. \A v \in 0 .. k : v # k => v \in 0 .. k - 1
    BY <1>3
  <2> QED
    BY <1>6, <1>8, <2>1
<1>10. ASSUME NEW v \in 0 .. k
       PROVE  h[v] = IF v < b THEN <<Digits[v + 1]>> ELSE Append(h[v \div b], Digits[(v % b) + 1])
  <2>0. v \in Nat /\ (v >= b => v \div b \in 0 .. v - 1)
    <3> HIDE DEF top, h, S, P
    <3>1. v \in Nat
      BY <1>3
    <3> QED
      BY <3>1, DivBase
  <2>1. v >= b => h[v \div b] = f[v \div b]
    <3> HIDE DEF top
    <3> QED
      BY <1>3, <2>0
  <2>2. CASE v = k
    <3>1. h[v] = top
      BY <2>2
    <3>2. v < b => h[v] = <<Digits[v + 1]>>
      BY <2>2, <3>1
    <3>3. ~(v < b) => h[v] = Append(f[v \div b], Digits[(v % b) + 1])
      BY <2>2, <3>1
    <3>4. ~(v < b) => v >= b
      BY <1>4, <2>0
    <3> HIDE DEF h, top
    <3> QED
      BY <2>1, <3>2, <3>3, <3>4
  <2>3. CASE v # k
    <3>1. v \in 0 .. k - 1
      BY <1>3, <2>3
    <3>2. h[v] = f[v]
      BY <2>3
    <3>3. ~(v < b) => v >= b
      BY <1>4, <2>0
    <3> HIDE DEF h, top
    <3> QED
      BY <1>6, <2>1, <3>1, <3>2, <3>3
  <2> QED
    BY <2>2, <2>3
<1>11. NumStep(h, b, k)
  <2> DEFINE e(u) == IF u < b THEN <<Digits[u + 1]>> ELSE Append(h[u \div b], Digits[(u % b) + 1])
  <2>1. h \in [0 .. k -> Seq(Character)] /\ \A v \in 0 .. k : h[v] = e(v)
    BY <1>9, <1>10
  <2>2. NumStep(h, b, k) <=> h = [v \in 0 .. k |-> e(v)]
    BY DEF NumStep
  <2> HIDE DEF e, h, top
  <2>3. h = [v \in 0 .. k |-> e(v)]
    BY <2>1
  <2> QED
    BY <2>2, <2>3
<1> HIDE DEF h
<1> QED
  BY <1>3, <1>9, <1>11

(* The recursion defines the numerals. *)
LEMMA NumDef ==
  ASSUME NEW b, NEW h, NumStep(h, b, Word - 1)
  PROVE  \E g : NumStep(g, b, Word - 1) /\ \A n : Numeral(n, b) = g[n]
<1> DEFINE g == CHOOSE g : NumStep(g, b, Word - 1)
<1>1. NumStep(g, b, Word - 1)
  OBVIOUS
<1>2. \A n : Numeral(n, b) = g[n]
  BY Zenon DEF Numeral, NumStep
<1> QED
  BY <1>1, <1>2

(* A numeral is the numeral of the number without its last digit, and this *)
(* digit.                                                                  *)
LEMMA NumeralIs ==
  ASSUME NEW b \in Bases, NEW n \in 0 .. Word - 1
  PROVE  Numeral(n, b) = IF n < b THEN <<Digits[n + 1]>>
                         ELSE Append(Numeral(n \div b, b), Digits[(n % b) + 1])
<1>1. Word - 1 \in Nat
  BY WordBig
<1>2. PICK h : NumStep(h, b, Word - 1)
  BY <1>1, NumExists
<1>3. PICK g : NumStep(g, b, Word - 1) /\ \A m : Numeral(m, b) = g[m]
  BY <1>2, NumDef, Zenon
<1> DEFINE e(u) == IF u < b THEN <<Digits[u + 1]>> ELSE Append(g[u \div b], Digits[(u % b) + 1])
<1>4. g = [u \in 0 .. Word - 1 |-> e(u)]
  BY <1>3 DEF NumStep
<1>5. g[n] = e(n)
  <2> HIDE DEF e
  <2> QED
    BY <1>4
<1> QED
  BY <1>3, <1>5

(* A numeral is a string. *)
LEMMA NumeralString ==
  ASSUME NEW b \in Bases, NEW n \in 0 .. Word - 1
  PROVE  Numeral(n, b) \in Seq(Character)
<1> DEFINE S == {k \in 0 .. Word - 1 : Numeral(k, b) \notin Seq(Character)}
<1>1. SUFFICES ASSUME S # {}  PROVE FALSE
  OBVIOUS
<1>2. Word \in Nat /\ b \in Nat /\ b <= 16
  BY WordBig DEF Bases
<1>3. PICK k \in S : \A l \in S : k <= l
  <2> HIDE DEF S
  <2>1. S \in SUBSET Nat
    BY <1>2 DEF S
  <2> QED
    BY <1>1, <2>1, LeastNat
<1>4. k \in 0 .. Word - 1 /\ k \in Nat /\ Numeral(k, b) \notin Seq(Character)
  BY <1>2
<1>5. CASE k < b
  <2>1. Numeral(k, b) = <<Digits[k + 1]>>
    BY <1>4, <1>5, NumeralIs
  <2>2. Digits[k + 1] \in Character
    <3>1. k \in 0 .. 15
      BY <1>2, <1>4, <1>5
    <3> QED
      BY <3>1, DigitIs
  <2> QED
    BY <1>4, <2>1, <2>2
<1>6. CASE ~(k < b)
  <2>1. Numeral(k, b) = Append(Numeral(k \div b, b), Digits[(k % b) + 1])
    BY <1>4, <1>6, NumeralIs
  <2>2. k \div b \in 0 .. k - 1 /\ k % b \in 0 .. 15
    <3>1. k >= b /\ k \in Nat
      BY <1>2, <1>4, <1>6
    <3> HIDE DEF S
    <3> QED
      BY <3>1, DivBase
  <2>3. Digits[(k % b) + 1] \in Character
    BY <2>2, DigitIs
  <2>4. k \div b \in 0 .. Word - 1 /\ ~(k <= k \div b)
    BY <1>2, <1>4, <2>2
  <2>5. Numeral(k \div b, b) \in Seq(Character)
    <3>1. k \div b \notin S
      <4> HIDE DEF S
      <4> QED
        BY <1>3, <2>4
    <3> QED
      BY <2>4, <3>1
  <2> QED
    BY <1>4, <2>1, <2>3, <2>5
<1> QED
  BY <1>5, <1>6

(* The digits that are left of a number; none of 0. *)
Left(v, b) == IF v = 0 THEN <<>> ELSE Numeral(v, b)

(* One digit is taken from the end. *)
LEMMA LeftStep ==
  ASSUME NEW b \in Bases, NEW v \in 1 .. Word - 1
  PROVE  /\ v \div b \in 0 .. v - 1 /\ v % b \in 0 .. 15
         /\ Left(v, b) = Append(Left(v \div b, b), Digits[(v % b) + 1])
<1>1. Word \in Nat /\ b \in Nat /\ b >= 2 /\ b <= 16 /\ v \in Nat /\ v \in 0 .. Word - 1 /\ v # 0
  BY WordBig DEF Bases
<1>2. CASE v < b
  <2>1. v \div b = 0 /\ v % b = v
    BY <1>1, <1>2, DivBase
  <2>2. Left(v, b) = <<Digits[v + 1]>>
    BY <1>1, <1>2, NumeralIs DEF Left
  <2>3. Left(v \div b, b) = <<>>
    BY <2>1 DEF Left
  <2>4. Append(<<>>, Digits[v + 1]) = <<Digits[v + 1]>>
    OBVIOUS
  <2> QED
    BY <1>1, <1>2, <2>1, <2>2, <2>3, <2>4
<1>3. CASE ~(v < b)
  <2>1. v >= b
    BY <1>1, <1>3
  <2>2. v \div b \in 0 .. v - 1 /\ v % b \in 0 .. 15
    <3>1. v \in Nat
      BY <1>1
    <3> QED
      BY <2>1, <3>1, DivBase
  <2>3. Left(v, b) = Append(Numeral(v \div b, b), Digits[(v % b) + 1])
    BY <1>1, <1>3, NumeralIs DEF Left
  <2>4. v \div b # 0
    <3>1. CASE b = 2
      BY <1>1, <2>1, <3>1
    <3>2. CASE b = 8
      BY <1>1, <2>1, <3>2
    <3>3. CASE b = 10
      BY <1>1, <2>1, <3>3
    <3>4. CASE b = 16
      BY <1>1, <2>1, <3>4
    <3> QED
      BY <3>1, <3>2, <3>3, <3>4 DEF Bases
  <2>5. Left(v \div b, b) = Numeral(v \div b, b)
    BY <2>4 DEF Left
  <2> QED
    BY <2>2, <2>3, <2>5
<1> QED
  BY <1>2, <1>3

(* What is left is a string. *)
LEMMA LeftString ==
  ASSUME NEW b \in Bases, NEW v \in 0 .. Word - 1
  PROVE  Left(v, b) \in Seq(Character)
BY NumeralString DEF Left

(* Concatenation is associative, for one character in the middle. *)
LEMMA AppendConcat ==
  ASSUME NEW C, NEW s \in Seq(C), NEW c \in C, NEW t \in Seq(C)
  PROVE  Append(s, c) \o t = s \o (<<c>> \o t)
<1>1. /\ Append(s, c) \o t \in Seq(C) /\ s \o (<<c>> \o t) \in Seq(C)
      /\ Len(Append(s, c) \o t) = Len(s) + 1 + Len(t)
      /\ Len(s \o (<<c>> \o t)) = Len(s) + 1 + Len(t)
  OBVIOUS
<1>2. ASSUME NEW n \in 1 .. Len(s) + 1 + Len(t)
      PROVE  (Append(s, c) \o t)[n] = (s \o (<<c>> \o t))[n]
  <2>1. CASE n <= Len(s)
    BY <2>1
  <2>2. CASE n = Len(s) + 1
    BY <2>2
  <2>3. CASE n > Len(s) + 1
    BY <2>3
  <2> QED
    BY <2>1, <2>2, <2>3
<1> QED
  BY <1>1, <1>2, SeqEqual

-----------------------------------------------------------------------------
(* Small numbers modulo the word. *)
LEMMA ModWord ==
  ASSUME NEW x \in Int, 0 - (W + 3) <= x, x <= W + 3
  PROVE  x % Word = IF x >= 0 THEN x ELSE x + Word
<1>1. W \in Nat /\ Word \in Nat /\ Word > W + 4
  BY WordBig
<1> DEFINE r == x % Word
           q == x \div Word
<1>2. r \in 0 .. Word - 1 /\ q \in Int /\ x = Word * q + r
  BY <1>1
<1> HIDE DEF r, q
<1>3. q = 0 \/ q = -1
  <2>1. CASE q >= 1
    <3>1. Word * q >= Word
      BY <1>1, <1>2, <2>1
    <3> QED
      BY <1>1, <1>2, <3>1
  <2>2. CASE q <= -2
    <3>1. Word * q <= Word * (-2)
      BY <1>1, <1>2, <2>2
    <3> QED
      BY <1>1, <1>2, <3>1
  <2> QED
    BY <1>2, <2>1, <2>2
<1>4. r = IF x >= 0 THEN x ELSE x + Word
  <2>1. CASE q = 0
    BY <1>1, <1>2, <2>1
  <2>2. CASE q = -1
    BY <1>1, <1>2, <2>2
  <2> QED
    BY <1>3, <2>1, <2>2
<1> QED
  BY <1>4 DEF r

Buffers == {bf \in [0 .. W + 2 -> Character \cup {"NUL"}] : bf[W + 2] = "NUL"}

(* WriteBack in a buffer bf. *)
Wrote(bf, k, s) ==
  [c \in DOMAIN bf |->
     LET j == ((k - c) % Word) + 1 IN IF j \in DOMAIN s THEN s[j] ELSE bf[c]]

(* What it writes: nothing behind k, and nothing is lost before 0. *)
LEMMA WroteIs ==
  ASSUME NEW bf \in Buffers, NEW k \in 0 .. W + 1, NEW s \in Seq(Character),
         Len(s) <= 3, Len(s) <= k + 1
  PROVE  /\ Wrote(bf, k, s) \in Buffers
         /\ \A c \in 0 .. W + 2 : Wrote(bf, k, s)[c] =
              IF c \in k - Len(s) + 1 .. k THEN s[k - c + 1] ELSE bf[c]
<1>1. W \in Nat /\ Word \in Nat /\ Word > W + 4 /\ k \in Nat /\ Len(s) \in Nat
  BY WordBig
<1>2. bf \in [0 .. W + 2 -> Character \cup {"NUL"}] /\ bf[W + 2] = "NUL" /\ DOMAIN bf = 0 .. W + 2
  BY DEF Buffers
<1>3. DOMAIN s = 1 .. Len(s)
  OBVIOUS
<1>4. ASSUME NEW c \in 0 .. W + 2
      PROVE  Wrote(bf, k, s)[c] = IF c \in k - Len(s) + 1 .. k THEN s[k - c + 1] ELSE bf[c]
  <2> DEFINE j == ((k - c) % Word) + 1
  <2>1. Wrote(bf, k, s)[c] = IF j \in DOMAIN s THEN s[j] ELSE bf[c]
    BY <1>2 DEF Wrote
  <2>2. (k - c) % Word = IF k - c >= 0 THEN k - c ELSE (k - c) + Word
    <3>1. k - c \in Int /\ 0 - (W + 3) <= k - c /\ k - c <= W + 3
      BY <1>1
    <3> QED
      BY <3>1, ModWord
  <2>3. CASE c <= k
    <3>1. j = k - c + 1
      BY <1>1, <2>2, <2>3
    <3> HIDE DEF j
    <3>2. j \in DOMAIN s <=> c \in k - Len(s) + 1 .. k
      BY <1>1, <1>3, <2>3, <3>1
    <3> QED
      BY <2>1, <3>1, <3>2
  <2>4. CASE c > k
    <3>1. j = (k - c) + Word + 1
      BY <1>1, <2>2, <2>4
    <3> HIDE DEF j
    <3>2. j \notin DOMAIN s /\ c \notin k - Len(s) + 1 .. k
      BY <1>1, <1>3, <2>4, <3>1
    <3> QED
      BY <2>1, <3>2
  <2> QED
    BY <1>1, <2>3, <2>4
<1>5. ASSUME NEW c \in 0 .. W + 2  PROVE Wrote(bf, k, s)[c] \in Character \cup {"NUL"}
  <2>1. CASE c \in k - Len(s) + 1 .. k
    <3>1. k - c + 1 \in 1 .. Len(s)
      BY <1>1, <2>1
    <3>2. s[k - c + 1] \in Character
      BY <3>1, ElementOfSeq
    <3> QED
      BY <1>4, <2>1, <3>2
  <2>2. CASE c \notin k - Len(s) + 1 .. k
    BY <1>2, <1>4, <2>2
  <2> QED
    BY <2>1, <2>2
<1>6. Wrote(bf, k, s)[W + 2] = "NUL"
  <2>1. W + 2 \in 0 .. W + 2 /\ W + 2 \notin k - Len(s) + 1 .. k
    BY <1>1
  <2> QED
    BY <1>2, <1>4, <2>1
<1>7. Wrote(bf, k, s) = [c \in 0 .. W + 2 |-> Wrote(bf, k, s)[c]]
  BY <1>2 DEF Wrote
<1>8. Wrote(bf, k, s) \in [0 .. W + 2 -> Character \cup {"NUL"}]
  BY <1>5, <1>7
<1> QED
  BY <1>4, <1>6, <1>8 DEF Buffers

(* The string in the buffer after index k, and that no NUL is in it. *)
Kept(bf, k) == [n \in 1 .. (W + 1) - k |-> bf[k + n]]

Shown(bf, k) == \A c \in k + 1 .. W + 1 : bf[c] \in Character

(* It has a character for each index up to the last one. *)
LEMMA KeptString ==
  ASSUME NEW bf, NEW k \in -1 .. W + 1, Shown(bf, k)
  PROVE  Kept(bf, k) \in Seq(Character) /\ Len(Kept(bf, k)) = (W + 1) - k
<1>1. W \in Nat /\ (W + 1) - k \in Nat
  BY WordBig
<1>2. \A n \in 1 .. (W + 1) - k : bf[k + n] \in Character
  <2> TAKE n \in 1 .. (W + 1) - k
  <2>1. k + n \in k + 1 .. W + 1
    BY <1>1
  <2> QED
    BY <2>1 DEF Shown
<1> QED
  BY <1>1, <1>2 DEF Kept

Reversed(s) == [n \in 1 .. Len(s) |-> s[Len(s) + 1 - n]]

(* What is written stands before it, in reverse order. *)
LEMMA KeptMore ==
  ASSUME NEW bf \in Buffers, NEW k \in 0 .. W + 1, NEW s \in Seq(Character),
         Len(s) <= 3, Len(s) <= k + 1, Shown(bf, k)
  PROVE  /\ Shown(Wrote(bf, k, s), k - Len(s))
         /\ Kept(Wrote(bf, k, s), k - Len(s)) = Reversed(s) \o Kept(bf, k)
<1> DEFINE w == Wrote(bf, k, s)
           l == k - Len(s)
<1>1. W \in Nat /\ k \in Nat /\ Len(s) \in Nat /\ l \in -1 .. W + 1 /\ DOMAIN bf = 0 .. W + 2
  BY WordBig DEF Buffers
<1>2. \A c \in 0 .. W + 2 : w[c] = IF c \in l + 1 .. k THEN s[k - c + 1] ELSE bf[c]
  BY WroteIs
<1> HIDE DEF w
<1>3. ASSUME NEW c \in l + 1 .. W + 1  PROVE w[c] \in Character
  <2>1. c \in 0 .. W + 2
    BY <1>1
  <2>2. CASE c <= k
    <3>1. k - c + 1 \in 1 .. Len(s) /\ c \in l + 1 .. k
      BY <1>1, <2>1, <2>2
    <3>2. s[k - c + 1] \in Character
      BY <3>1, ElementOfSeq
    <3> HIDE DEF l
    <3> QED
      BY <1>2, <2>1, <3>1, <3>2
  <2>3. CASE c > k
    <3>1. c \in k + 1 .. W + 1 /\ c \notin l + 1 .. k
      BY <1>1, <2>1, <2>3
    <3> HIDE DEF l
    <3> QED
      BY <1>2, <2>1, <3>1 DEF Shown
  <2> QED
    BY <1>1, <2>1, <2>2, <2>3
<1>4. Shown(w, l)
  BY <1>3 DEF Shown
<1> DEFINE x == Kept(w, l)
           y == Reversed(s)
           z == Kept(bf, k)
<1>5. x \in Seq(Character) /\ Len(x) = (W + 1) - l
  BY <1>1, <1>4, KeptString
<1>6. z \in Seq(Character) /\ Len(z) = (W + 1) - k
  <2>1. k \in -1 .. W + 1
    BY <1>1
  <2> QED
    BY <2>1, KeptString
<1>7. y \in Seq(Character) /\ Len(y) = Len(s) /\ \A n \in 1 .. Len(s) : y[n] = s[Len(s) + 1 - n]
  <2>1. \A n \in 1 .. Len(s) : s[Len(s) + 1 - n] \in Character
    <3> TAKE n \in 1 .. Len(s)
    <3>1. Len(s) + 1 - n \in 1 .. Len(s)
      BY <1>1
    <3> QED
      BY <3>1, ElementOfSeq
  <2> QED
    BY <1>1, <2>1 DEF Reversed
<1>8. \A n \in 1 .. (W + 1) - l : x[n] = w[l + n]
  BY DEF Kept
<1>9. \A n \in 1 .. (W + 1) - k : z[n] = bf[k + n]
  BY DEF Kept
<1> HIDE DEF x, y, z
<1>10. (W + 1) - l = Len(y) + Len(z)
  BY <1>1, <1>6, <1>7
<1>11. ASSUME NEW n \in 1 .. Len(y) + Len(z)  PROVE x[n] = (y \o z)[n]
  <2>1. x[n] = w[l + n] /\ l + n \in 0 .. W + 2
    BY <1>1, <1>8, <1>10
  <2>2. CASE n <= Len(s)
    <3>1. l + n \in l + 1 .. k /\ k - (l + n) + 1 = Len(s) + 1 - n /\ n \in 1 .. Len(y)
      BY <1>1, <1>7, <2>2
    <3>2. w[l + n] = s[Len(s) + 1 - n]
      BY <1>2, <2>1, <3>1
    <3>3. (y \o z)[n] = y[n]
      BY <1>6, <1>7, <3>1
    <3> QED
      BY <1>7, <2>1, <3>1, <3>2, <3>3
  <2>3. CASE n > Len(s)
    <3>0. n \in Int /\ k \in Int /\ Len(s) \in Nat /\ Len(y) = Len(s) /\ Len(z) \in Nat
      BY <1>1, <1>6, <1>7
    <3>1. l + n \notin l + 1 .. k /\ n - Len(y) \in 1 .. Len(z) /\ k + (n - Len(y)) = l + n
      BY <2>3, <3>0
    <3>2. w[l + n] = bf[l + n]
      <4> HIDE DEF l
      <4> QED
        BY <1>2, <2>1, <3>1
    <3>3. (y \o z)[n] = z[n - Len(y)]
      BY <1>6, <1>7, <2>3, <3>1
    <3> QED
      BY <1>6, <1>9, <2>1, <3>1, <3>2, <3>3
  <2> QED
    BY <1>1, <2>2, <2>3
<1>12. y \o z \in Seq(Character) /\ Len(y \o z) = Len(y) + Len(z)
  BY <1>6, <1>7
<1>13. x = y \o z
  BY <1>5, <1>10, <1>11, <1>12, SeqEqual
<1> QED
  BY <1>4, <1>13 DEF w, x, y, z

(* StringAt in a buffer bf. *)
StringIn(bf, k) ==
  LET nul == Min({c \in DOMAIN bf : c >= k /\ bf[c] = "NUL"})
  IN [n \in 1 .. nul - k |-> bf[k + n - 1]]

(* It ends at the last character of the buffer. *)
LEMMA StringIs ==
  ASSUME NEW bf \in Buffers, NEW k \in 0 .. W + 2, Shown(bf, k - 1)
  PROVE  StringIn(bf, k) = Kept(bf, k - 1)
<1>1. W \in Nat /\ DOMAIN bf = 0 .. W + 2 /\ bf[W + 2] = "NUL"
  BY WordBig DEF Buffers
<1> DEFINE S == {c \in DOMAIN bf : c >= k /\ bf[c] = "NUL"}
<1>2. S = {W + 2}
  <2>1. W + 2 \in S
    BY <1>1
  <2>2. ASSUME NEW c \in S  PROVE c = W + 2
    <3>1. c \in 0 .. W + 2 /\ c >= k /\ bf[c] = "NUL"
      BY <1>1
    <3>2. c # W + 2 => c \in (k - 1) + 1 .. W + 1
      BY <1>1, <3>1
    <3>3. "NUL" \notin Character
      BY FmtPrintAssumption
    <3> QED
      BY <3>1, <3>2, <3>3 DEF Shown
  <2> HIDE DEF S
  <2> QED
    BY <2>1, <2>2
<1>3. Min(S) = W + 2
  <2> HIDE DEF S
  <2> QED
    BY <1>1, <1>2 DEF Min
<1> HIDE DEF S
<1>4. StringIn(bf, k) = [n \in 1 .. (W + 2) - k |-> bf[k + n - 1]]
  BY <1>3 DEF StringIn, S
<1>5. (W + 2) - k = (W + 1) - (k - 1) /\ \A n \in Int : k + n - 1 = (k - 1) + n
  BY <1>1
<1> QED
  BY <1>4, <1>5 DEF Kept

-----------------------------------------------------------------------------
(* The characters of a number before its digits, in the order in which     *)
(* they are written and in the order in which they are read.               *)
FrontOf(b, n) ==
  (IF n = 0 THEN <<"0">> ELSE <<>>)
    \o (CASE b = 16 -> <<"x", "0">> [] b = 8 -> <<"o", "0">> [] b = 2 -> <<"b", "0">>
          [] OTHER -> <<>>)

Sign(b) ==
  CASE b = 16 -> <<"0", "x">> [] b = 8 -> <<"0", "o">> [] b = 2 -> <<"0", "b">>
    [] OTHER -> <<>>

(* Short sequences. *)
LEMMA ShortSeqs ==
  ASSUME NEW C, NEW a \in C, NEW b \in C, NEW c \in C
  PROVE  /\ <<a>> \o <<b, c>> = <<a, b, c>> /\ <<a, b>> \o <<c>> = <<a, b, c>>
         /\ Reversed(<<a>>) = <<a>> /\ Reversed(<<a, b>>) = <<b, a>>
         /\ Reversed(<<a, b, c>>) = <<c, b, a>>
<1> DEFINE s == <<a>> \o <<b, c>>
           t == <<a, b>> \o <<c>>
           u == <<a, b, c>>
<1>1. s \in Seq(C) /\ Len(s) = 3 /\ s[1] = a /\ s[2] = b /\ s[3] = c
  OBVIOUS
<1>2. t \in Seq(C) /\ Len(t) = 3 /\ t[1] = a /\ t[2] = b /\ t[3] = c
  OBVIOUS
<1>3. u \in Seq(C) /\ Len(u) = 3 /\ u[1] = a /\ u[2] = b /\ u[3] = c
  OBVIOUS
<1>4. s = u /\ t = u
  <2> HIDE DEF s, t, u
  <2>1. \A n \in 1 .. 3 : n = 1 \/ n = 2 \/ n = 3
    OBVIOUS
  <2>2. \A n \in 1 .. 3 : s[n] = u[n] /\ t[n] = u[n]
    BY <1>1, <1>2, <1>3, <2>1
  <2> QED
    BY <1>1, <1>2, <1>3, <2>2, SeqEqual
<1>5. Reversed(<<a>>) = <<a>> /\ Reversed(<<a, b>>) = <<b, a>>
  BY DEF Reversed
<1>6. Reversed(<<a, b, c>>) = <<c, b, a>>
  BY DEF Reversed
<1> QED
  BY <1>4, <1>5, <1>6

(* Before a number of which the prefix is a character and a 0. *)
LEMMA FrontTwo ==
  ASSUME NEW b, NEW n, NEW z \in Character, NEW c \in Character, z = "0",
         FrontOf(b, n) = (IF n = 0 THEN <<z>> ELSE <<>>) \o <<c, z>>, Sign(b) = <<z, c>>
  PROVE  /\ FrontOf(b, n) \in Seq(Character) /\ Sign(b) \in Seq(Character)
         /\ Len(FrontOf(b, n)) <= 3
         /\ n # 0 => Len(FrontOf(b, n)) <= 2 /\ Reversed(FrontOf(b, n)) = Sign(b)
         /\ n = 0 => Reversed(FrontOf(b, n)) = Sign(b) \o <<z>>
<1>1. CASE n = 0
  <2>1. FrontOf(b, n) = <<z, c, z>>
    BY <1>1, ShortSeqs
  <2>2. Reversed(<<z, c, z>>) = <<z, c, z>>
    BY ShortSeqs
  <2>3. <<z, c>> \o <<z>> = <<z, c, z>>
    BY ShortSeqs
  <2>4. FrontOf(b, n) \in Seq(Character) /\ Len(FrontOf(b, n)) <= 3
    BY <2>1
  <2>5. Sign(b) \in Seq(Character)
    OBVIOUS
  <2>6. Reversed(FrontOf(b, n)) = Sign(b) \o <<z>>
    BY <2>1, <2>2, <2>3, Zenon
  <2> QED
    BY <1>1, <2>4, <2>5, <2>6
<1>2. CASE n # 0
  <2>1. FrontOf(b, n) = <<c, z>>
    BY <1>2
  <2>2. Reversed(<<c, z>>) = <<z, c>>
    BY ShortSeqs
  <2> QED
    BY <1>2, <2>1, <2>2
<1> QED
  BY <1>1, <1>2

(* They are three at most, and three only for 0. *)
LEMMA FrontIs ==
  ASSUME NEW b \in Bases, NEW n
  PROVE  /\ FrontOf(b, n) \in Seq(Character) /\ Sign(b) \in Seq(Character)
         /\ Len(FrontOf(b, n)) <= 3
         /\ n # 0 => Len(FrontOf(b, n)) <= 2 /\ Reversed(FrontOf(b, n)) = Sign(b)
         /\ n = 0 => Reversed(FrontOf(b, n)) = Sign(b) \o <<"0">>
<1>1. {"0", "x", "o", "b"} \subseteq Character
  <2>1. Digits[0 + 1] \in Character /\ Digits[1] = "0" /\ 0 + 1 = 1
    <3>1. 0 \in 0 .. 15
      OBVIOUS
    <3>2. Digits[0 + 1] \in Character
      BY <3>1, DigitIs
    <3> QED
      BY <3>2 DEF Digits
  <2> QED
    BY <2>1, FmtPrintAssumption
<1>2. CASE b = 2
  <2>1. Sign(b) = <<"0", "b">>
    BY <1>2 DEF Sign
  <2>2. FrontOf(b, n) = (IF n = 0 THEN <<"0">> ELSE <<>>) \o <<"b", "0">>
    BY <1>2 DEF FrontOf
  <2> QED
    BY <1>1, <2>1, <2>2, FrontTwo
<1>3. CASE b = 8
  <2>1. Sign(b) = <<"0", "o">>
    BY <1>3 DEF Sign
  <2>2. FrontOf(b, n) = (IF n = 0 THEN <<"0">> ELSE <<>>) \o <<"o", "0">>
    BY <1>3 DEF FrontOf
  <2> QED
    BY <1>1, <2>1, <2>2, FrontTwo
<1>4. CASE b = 16
  <2>1. Sign(b) = <<"0", "x">>
    BY <1>4 DEF Sign
  <2>2. FrontOf(b, n) = (IF n = 0 THEN <<"0">> ELSE <<>>) \o <<"x", "0">>
    BY <1>4 DEF FrontOf
  <2> QED
    BY <1>1, <2>1, <2>2, FrontTwo
<1>5. CASE b = 10
  <2>1. Sign(b) = <<>>
    BY <1>5 DEF Sign
  <2>2. FrontOf(b, n) = (IF n = 0 THEN <<"0">> ELSE <<>>) \o <<>>
    BY <1>5 DEF FrontOf
  <2>3. n = 0 => FrontOf(b, n) = <<"0">>
    BY <2>2
  <2>4. n # 0 => FrontOf(b, n) = <<>>
    BY <2>2
  <2>5. Reversed(<<"0">>) = <<"0">> /\ Reversed(<<>>) = <<>> /\ <<>> \o <<"0">> = <<"0">>
    BY DEF Reversed
  <2>6. Sign(b) \in Seq(Character)
    BY <2>1
  <2>7. CASE n = 0
    <3>1. FrontOf(b, n) \in Seq(Character) /\ Len(FrontOf(b, n)) <= 3
      <4>1. <<"0">> \in Seq(Character) /\ Len(<<"0">>) = 1
        BY <1>1
      <4>2. FrontOf(b, n) = <<"0">>
        BY <2>3, <2>7
      <4> QED
        BY <4>1, <4>2
    <3>2. Reversed(FrontOf(b, n)) = Sign(b) \o <<"0">>
      BY <2>1, <2>3, <2>5, <2>7, Zenon
    <3> QED
      BY <2>6, <2>7, <3>1, <3>2
  <2>8. CASE n # 0
    <3>1. FrontOf(b, n) \in Seq(Character) /\ Len(FrontOf(b, n)) <= 2
      BY <2>4, <2>8
    <3>2. Reversed(FrontOf(b, n)) = Sign(b)
      BY <2>1, <2>4, <2>5, <2>8, Zenon
    <3> QED
      BY <2>6, <2>8, <3>1, <3>2
  <2> QED
    BY <2>7, <2>8
<1> QED
  BY <1>2, <1>3, <1>4, <1>5 DEF Bases

-----------------------------------------------------------------------------
(* The concatenation of the first n sequences of a, and its recursion. *)
FlatOf(a, n) ==
  IF n = 0 THEN <<>>
  ELSE LET flatten[k \in 1 .. Len(a)] == IF k = 1 THEN a[k] ELSE flatten[k - 1] \o a[k]
       IN flatten[n]

FlatStep(g, a, n) == g = [k \in 1 .. n |-> IF k = 1 THEN a[k] ELSE g[k - 1] \o a[k]]

(* The recursion has a solution. *)
LEMMA FlatExists ==
  ASSUME NEW a, NEW n \in Nat
  PROVE  \E g : FlatStep(g, a, n)
<1> DEFINE P(k) == \E g : FlatStep(g, a, k)
           S == {k \in Nat : ~P(k)}
<1>1. SUFFICES ASSUME S # {}  PROVE FALSE
  OBVIOUS
<1>2. PICK k \in S : \A l \in S : k <= l
  <2> HIDE DEF S
  <2>1. S \in SUBSET Nat
    BY DEF S
  <2> QED
    BY <1>1, <2>1, LeastNat
<1>3. k \in Nat /\ ~P(k)
  OBVIOUS
<1>4. CASE k = 0
  <2> DEFINE g == [m \in 1 .. k |-> <<>>]
             e(m) == IF m = 1 THEN a[m] ELSE g[m - 1] \o a[m]
  <2>1. FlatStep(g, a, k) <=> g = [m \in 1 .. k |-> e(m)]
    BY DEF FlatStep
  <2>2. 1 .. k = {}
    BY <1>4
  <2>3. g = [m \in 1 .. k |-> e(m)]
    <3> HIDE DEF e
    <3> QED
      BY <2>2
  <2> HIDE DEF g
  <2> QED
    BY <1>3, <2>1, <2>3
<1>5. CASE k # 0
  <2>1. k - 1 \in Nat /\ P(k - 1)
    <3> HIDE DEF P
    <3>1. k - 1 \in Nat /\ ~(k <= k - 1)
      BY <1>3, <1>5
    <3>2. k - 1 \notin S
      <4> HIDE DEF S
      <4> QED
        BY <1>2, <3>1
    <3> QED
      BY <3>1, <3>2
  <2>2. PICK g : FlatStep(g, a, k - 1)
    BY <2>1
  <2> DEFINE e(m) == IF m = 1 THEN a[m] ELSE g[m - 1] \o a[m]
             h == [m \in 1 .. k |-> e(m)]
             d(m) == IF m = 1 THEN a[m] ELSE h[m - 1] \o a[m]
  <2>3. \A m \in 1 .. k - 1 : g[m] = e(m)
    <3>1. g = [m \in 1 .. k - 1 |-> e(m)]
      BY <2>2 DEF FlatStep
    <3> HIDE DEF e, h
    <3> QED
      BY <3>1
  <2>4. \A m \in 1 .. k : h[m] = e(m)
    <3> HIDE DEF e
    <3> QED
      OBVIOUS
  <2>5. ASSUME NEW m \in 1 .. k  PROVE e(m) = d(m)
    <3>1. m # 1 => m - 1 \in 1 .. k - 1 /\ m - 1 \in 1 .. k
      BY <1>3
    <3>2. m # 1 => h[m - 1] = g[m - 1]
      <4> HIDE DEF e, h
      <4> QED
        BY <2>3, <2>4, <3>1
    <3> HIDE DEF h
    <3> QED
      BY <3>2
  <2>6. h = [m \in 1 .. k |-> d(m)]
    <3>1. \A m \in 1 .. k : e(m) = d(m)
      BY <2>5
    <3>2. h = [m \in 1 .. k |-> e(m)]
      OBVIOUS
    <3> HIDE DEF e, d, h
    <3> QED
      BY <3>1, <3>2
  <2>7. FlatStep(h, a, k) <=> h = [m \in 1 .. k |-> d(m)]
    BY DEF FlatStep
  <2> HIDE DEF h
  <2> QED
    BY <1>3, <2>6, <2>7
<1> QED
  BY <1>4, <1>5

(* Its solution is what FlattenSeq uses. *)
LEMMA FlatDef ==
  ASSUME NEW a, NEW h, FlatStep(h, a, Len(a))
  PROVE  \E g : /\ FlatStep(g, a, Len(a))
                /\ \A n : n # 0 => FlatOf(a, n) = g[n]
                /\ Len(a) # 0 => FlattenSeq(a) = g[Len(a)]
<1> DEFINE g == CHOOSE g : FlatStep(g, a, Len(a))
<1>1. FlatStep(g, a, Len(a))
  OBVIOUS
<1>2. \A n : n # 0 => FlatOf(a, n) = g[n]
  BY Zenon DEF FlatOf, FlatStep
<1>3. Len(a) # 0 => FlattenSeq(a) = g[Len(a)]
  BY Zenon DEF FlattenSeq, FlatStep
<1> QED
  BY <1>1, <1>2, <1>3

(* One sequence after the other. *)
LEMMA FlatNext ==
  ASSUME NEW C, NEW a, Len(a) \in Nat, NEW n \in 1 .. Len(a), a[n] \in Seq(C)
  PROVE  FlatOf(a, n) = FlatOf(a, n - 1) \o a[n]
<1>1. PICK h : FlatStep(h, a, Len(a))
  BY FlatExists
<1>2. PICK g : FlatStep(g, a, Len(a)) /\ \A m : m # 0 => FlatOf(a, m) = g[m]
  BY <1>1, FlatDef, Zenon
<1> DEFINE e(m) == IF m = 1 THEN a[m] ELSE g[m - 1] \o a[m]
<1>3. g = [m \in 1 .. Len(a) |-> e(m)]
  BY <1>2 DEF FlatStep
<1>4. g[n] = e(n)
  <2> HIDE DEF e
  <2> QED
    BY <1>3
<1>5. FlatOf(a, n) = e(n)
  <2>1. n # 0
    OBVIOUS
  <2> HIDE DEF e
  <2> QED
    BY <1>2, <1>4, <2>1
<1>6. CASE n = 1
  <2>1. FlatOf(a, n - 1) = <<>>
    BY <1>6 DEF FlatOf
  <2>2. e(n) = a[n]
    BY <1>6
  <2>3. <<>> \o a[n] = a[n]
    OBVIOUS
  <2> HIDE DEF e
  <2> QED
    BY <1>5, <2>1, <2>2, <2>3
<1>7. CASE n # 1
  <2>1. n - 1 # 0
    BY <1>7
  <2>2. FlatOf(a, n - 1) = g[n - 1]
    BY <1>2, <2>1
  <2>3. e(n) = g[n - 1] \o a[n]
    BY <1>7
  <2> HIDE DEF e
  <2> QED
    BY <1>5, <2>2, <2>3
<1> QED
  BY <1>6, <1>7

(* And in the end all of them. *)
LEMMA FlatAll ==
  ASSUME NEW C, NEW a \in Seq(C)
  PROVE  FlattenSeq(a) = FlatOf(a, Len(a))
<1>1. Len(a) \in Nat
  OBVIOUS
<1>2. CASE Len(a) = 0
  <2>1. a = <<>>
    BY <1>2, EmptySeq
  <2>2. FlattenSeq(a) = a
    BY <1>2 DEF FlattenSeq
  <2> QED
    BY <1>2, <2>1, <2>2 DEF FlatOf
<1>3. CASE Len(a) # 0
  <2>1. PICK h : FlatStep(h, a, Len(a))
    BY <1>1, FlatExists
  <2>2. PICK g : /\ \A m : m # 0 => FlatOf(a, m) = g[m]
                 /\ Len(a) # 0 => FlattenSeq(a) = g[Len(a)]
    BY <2>1, FlatDef, Zenon
  <2> QED
    BY <1>3, <2>2
<1> QED
  BY <1>2, <1>3

-----------------------------------------------------------------------------
(* A format string and its arguments, as the assumption describes them. *)
Good(f, a) ==
  /\ f \in Seq(Character) /\ a \in Seq(Numbers \cup Texts)
  /\ ProperFormat(f) /\ GoTogether(f, a)

(* All calls are made with such. *)
LEMMA PrintsGood == \A p \in Prints : Good(p.fmt, p.args)
  BY FmtPrintAssumption DEF Good

(* What va_arg yields for a number is a size_t. *)
LEMMA SizeTIs ==
  ASSUME NEW x \in Numbers
  PROVE  SizeTOf(x) \in 0 .. Word - 1 /\ x.val \in 0 .. Word - 1
<1> DEFINE h == 2 ^ (W \div 2)
           g == 2 ^ ((W \div 2) - 1)
<1>1. W \in Nat /\ W >= 4 /\ Word \in Nat
  BY WordBig
<1>2. W \div 2 \in Nat /\ W \div 2 <= W /\ (W \div 2) - 1 \in Nat
  BY <1>1
<1>3. h \in Nat /\ h <= Word
  BY <1>1, <1>2, PowMono DEF Word
<1>4. \/ x.type = "size_t" /\ x.val \in 0 .. Word - 1
      \/ x.type = "u32" /\ x.val \in 0 .. h - 1
  BY DEF Numbers
<1>5. SizeTOf(x) = IF x.type = "u32" /\ x.val >= g THEN Word - h + x.val ELSE x.val
  BY DEF SizeTOf
<1> HIDE DEF h, g
<1>6. CASE x.type = "size_t"
  <2>1. x.type # "u32"
    BY <1>6
  <2> QED
    BY <1>4, <1>5, <2>1
<1>7. CASE x.type = "u32" /\ x.val \in 0 .. h - 1
  BY <1>1, <1>3, <1>5, <1>7
<1> QED
  BY <1>4, <1>6, <1>7

(* The letters and bases of numbers. *)
NumberLetters == {"d", "x", "o", "b"}

(* The base of a letter, and the prefix of a base. *)
LEMMA BaseIs ==
  /\ BaseOf("d") = 10 /\ BaseOf("x") = 16 /\ BaseOf("o") = 8 /\ BaseOf("b") = 2
  /\ Sign(10) = <<>> /\ Sign(16) = <<"0", "x">> /\ Sign(8) = <<"0", "o">> /\ Sign(2) = <<"0", "b">>
  /\ \A c \in NumberLetters : BaseOf(c) \in Bases
<1>1. BaseOf("d") = 10 /\ BaseOf("x") = 16 /\ BaseOf("o") = 8 /\ BaseOf("b") = 2
  BY DEF BaseOf
<1>2. Sign(10) = <<>> /\ Sign(16) = <<"0", "x">> /\ Sign(8) = <<"0", "o">> /\ Sign(2) = <<"0", "b">>
  BY DEF Sign
<1>3. \A c \in NumberLetters : BaseOf(c) \in Bases
  BY <1>1 DEF NumberLetters, Bases
<1> QED
  BY <1>1, <1>2, <1>3

(* What a % adds. *)
LEMMA AddsPercent ==
  ASSUME NEW f, NEW a, Good(f, a), NEW k \in 1 .. Len(f), f[k] = "%"
  PROVE  Adds(f, a, k) = IF Waits(f, k) THEN <<"%">> ELSE <<>>
<1>1. ~Converts(f, k)
  BY DEF Converts, Conversions
<1>2. Opens(f, k) <=> ~Waits(f, k)
  BY WaitsPercent DEF Good
<1>3. Adds(f, a, k) = IF Opens(f, k) THEN <<>> ELSE <<"%">>
  BY <1>1 DEF Adds
<1> QED
  BY <1>2, <1>3

(* What another character adds that is not part of a conversion. *)
LEMMA AddsPlain ==
  ASSUME NEW f, NEW a, NEW k, f[k] # "%", ~(Waits(f, k) /\ f[k] \in Conversions)
  PROVE  Adds(f, a, k) = <<f[k]>> /\ ~Converts(f, k)
<1>1. ~Converts(f, k)
  BY DEF Converts
<1> QED
  BY <1>1 DEF Adds

(* What a conversion to text adds. *)
LEMMA AddsText ==
  ASSUME NEW f, NEW a, Good(f, a), NEW k \in 1 .. Len(f), Converts(f, k), f[k] \in {"s", "c"}
  PROVE  /\ Adds(f, a, k) = Chars(a[Conversion(f, k)])
         /\ Chars(a[Conversion(f, k)]) \in Seq(Character)
<1> DEFINE x == a[Conversion(f, k)]
<1>1. k \in DOMAIN f
  BY DEF Good
<1>2. x \in Texts
  BY <1>1 DEF Good, GoTogether
<1>3. Chars(x) \in Seq(Character)
  BY <1>2 DEF Chars, Texts
<1>4. Adds(f, a, k) = Written(f[k], x)
  BY DEF Adds
<1> HIDE DEF x
<1>5. Written(f[k], x) = Chars(x)
  BY DEF Written
<1> QED
  BY <1>3, <1>4, <1>5 DEF x

(* What the conversion of a number adds. *)
LEMMA AddsNumber ==
  ASSUME NEW f, NEW a, Good(f, a), NEW k \in 1 .. Len(f), Converts(f, k), f[k] \in NumberLetters
  PROVE  /\ a[Conversion(f, k)] \in Numbers
         /\ Adds(f, a, k) = Sign(BaseOf(f[k])) \o Numeral(a[Conversion(f, k)].val, BaseOf(f[k]))
         /\ Adds(f, a, k) \in Seq(Character)
         /\ Faithful(a) => SizeTOf(a[Conversion(f, k)]) = a[Conversion(f, k)].val
<1> DEFINE x == a[Conversion(f, k)]
           b == BaseOf(f[k])
<1>1. k \in DOMAIN f
  BY DEF Good
<1>2. Conversion(f, k) \in DOMAIN a
  BY <1>1 DEF Good, GoTogether
<1>3. x \in Numbers
  <2>1. f[k] \notin {"s", "c"}
    BY DEF NumberLetters
  <2> QED
    BY <1>1, <2>1 DEF Good, GoTogether
<1>4. b \in Bases
  BY BaseIs
<1>5. Faithful(a) => SizeTOf(x) = x.val
  <2>1. x.type # "u32" => SizeTOf(x) = x.val
    BY DEF SizeTOf
  <2>2. Faithful(a) /\ x.type = "u32" => x.val = SizeTOf(x)
    BY <1>2 DEF Faithful
  <2> QED
    BY <2>1, <2>2
<1>6. Adds(f, a, k) = Written(f[k], x)
  BY DEF Adds, NumberLetters
<1>7. x.val \in 0 .. Word - 1
  BY <1>3, SizeTIs
<1>8. Numeral(x.val, b) \in Seq(Character)
  BY <1>4, <1>7, NumeralString
<1>9. Sign(b) \in Seq(Character)
  BY <1>4, FrontIs
<1> HIDE DEF x
<1>10. Written(f[k], x) = Sign(b) \o Numeral(x.val, b)
  <2>1. CASE f[k] = "d"
    <3>1. Written(f[k], x) = Numeral(x.val, 10)
      BY <2>1 DEF Written
    <3>2. b = 10 /\ Sign(b) = <<>>
      BY <2>1, BaseIs
    <3>3. <<>> \o Numeral(x.val, b) = Numeral(x.val, b)
      <4> HIDE DEF b
      <4> QED
        BY <1>8
    <3> HIDE DEF b
    <3> QED
      BY <3>1, <3>2, <3>3, Zenon
  <2>2. CASE f[k] = "x"
    <3>1. Written(f[k], x) = <<"0", "x">> \o Numeral(x.val, 16)
      BY <2>2 DEF Written
    <3>2. b = 16 /\ Sign(b) = <<"0", "x">>
      BY <2>2, BaseIs
    <3> HIDE DEF b
    <3> QED
      BY <3>1, <3>2, Zenon
  <2>3. CASE f[k] = "o"
    <3>1. Written(f[k], x) = <<"0", "o">> \o Numeral(x.val, 8)
      BY <2>3 DEF Written
    <3>2. b = 8 /\ Sign(b) = <<"0", "o">>
      BY <2>3, BaseIs
    <3> HIDE DEF b
    <3> QED
      BY <3>1, <3>2, Zenon
  <2>4. CASE f[k] = "b"
    <3>1. Written(f[k], x) = <<"0", "b">> \o Numeral(x.val, 2)
      BY <2>4 DEF Written
    <3>2. b = 2 /\ Sign(b) = <<"0", "b">>
      BY <2>4, BaseIs
    <3> HIDE DEF b
    <3> QED
      BY <3>1, <3>2, Zenon
  <2> QED
    BY <2>1, <2>2, <2>3, <2>4 DEF NumberLetters
<1> HIDE DEF b
<1>11. Adds(f, a, k) \in Seq(Character)
  BY <1>6, <1>8, <1>9, <1>10
<1> QED
  BY <1>3, <1>5, <1>6, <1>10, <1>11 DEF x, b

(* In any case it is a string. *)
LEMMA AddsString ==
  ASSUME NEW f, NEW a, Good(f, a), NEW k \in 1 .. Len(f)
  PROVE  Adds(f, a, k) \in Seq(Character)
<1>1. f[k] \in Character /\ "%" \in Character
  BY FmtPrintAssumption DEF Good
<1>2. CASE f[k] = "%"
  <2>1. Adds(f, a, k) = IF Waits(f, k) THEN <<"%">> ELSE <<>>
    BY <1>2, AddsPercent
  <2>2. <<"%">> \in Seq(Character) /\ <<>> \in Seq(Character)
    BY <1>1
  <2> QED
    BY <2>1, <2>2, Zenon
<1>3. CASE Converts(f, k) /\ f[k] \in {"s", "c"}
  BY <1>3, AddsText
<1>4. CASE Converts(f, k) /\ f[k] \in NumberLetters
  BY <1>4, AddsNumber
<1>5. CASE f[k] # "%" /\ ~Converts(f, k)
  <2>1. Adds(f, a, k) = <<f[k]>>
    BY <1>5, AddsPlain DEF Converts
  <2> QED
    BY <1>1, <2>1
<1>6. Converts(f, k) => f[k] \in {"s", "c"} \/ f[k] \in NumberLetters
  BY DEF Converts, Conversions, NumberLetters
<1> QED
  BY <1>2, <1>3, <1>4, <1>5, <1>6

(* What the first n characters of the format say. *)
Parts(f, a) == [k \in DOMAIN f |-> Adds(f, a, k)]

Said(f, a, n) == FlatOf(Parts(f, a), n)

(* It grows by what the next character adds, up to what all of them say. *)
LEMMA SaidNext ==
  ASSUME NEW f, NEW a, Good(f, a)
  PROVE  /\ Said(f, a, 0) = <<>>
         /\ \A k \in 1 .. Len(f) : Said(f, a, k) = Said(f, a, k - 1) \o Adds(f, a, k)
         /\ FlattenSeq(Parts(f, a)) = Said(f, a, Len(f))
<1> DEFINE p == Parts(f, a)
<1>1. DOMAIN f = 1 .. Len(f) /\ Len(f) \in Nat
  BY DEF Good
<1>2. \A k \in 1 .. Len(f) : p[k] = Adds(f, a, k) /\ p[k] \in Seq(Character)
  BY <1>1, AddsString DEF Parts
<1>3. p = [k \in 1 .. Len(f) |-> p[k]]
  BY <1>1 DEF Parts
<1> HIDE DEF p
<1>4. p \in Seq(Seq(Character)) /\ Len(p) = Len(f)
  BY <1>1, <1>2, <1>3
<1>5. FlatOf(p, 0) = <<>>
  BY DEF FlatOf
<1>6. ASSUME NEW k \in 1 .. Len(f)  PROVE FlatOf(p, k) = FlatOf(p, k - 1) \o Adds(f, a, k)
  <2>1. Len(p) \in Nat /\ k \in 1 .. Len(p) /\ p[k] \in Seq(Character) /\ p[k] = Adds(f, a, k)
    BY <1>1, <1>2, <1>4
  <2>2. FlatOf(p, k) = FlatOf(p, k - 1) \o p[k]
    BY <2>1, FlatNext
  <2> QED
    BY <2>1, <2>2
<1>7. FlattenSeq(p) = FlatOf(p, Len(f))
  BY <1>4, FlatAll
<1> QED
  BY <1>5, <1>6, <1>7 DEF p, Said

-----------------------------------------------------------------------------
(* strlib_print_int in its loop: the digits that are left and those in the *)
(* buffer make up the number, and there is room for those that are left.   *)
Halfway(bf, k, v, b, n) ==
  /\ k \in 1 .. W + 1 /\ v \in 0 .. Word - 1 /\ v < 2 ^ (k - 1)
  /\ Shown(bf, k)
  /\ n = 0 => k = W + 1 /\ v = 0
  /\ Left(v, b) \o Kept(bf, k) = Left(n, b)

(* At the end the string that begins at index k is all of the number. *)
Complete(bf, k, b, n) ==
  /\ k \in 0 .. W + 2 /\ Shown(bf, k - 1)
  /\ Kept(bf, k - 1) = Sign(b) \o Numeral(n, b)

(* It begins with all digits left. *)
LEMMA AllLeft ==
  ASSUME NEW bf \in Buffers, NEW b \in Bases, NEW n \in 0 .. Word - 1
  PROVE  Halfway(bf, MAX_INT_BUF_SIZE - 2, n, b, n)
<1> DEFINE k == MAX_INT_BUF_SIZE - 2
<1>1. W \in Nat /\ Word \in Nat /\ k = W + 1 /\ k - 1 = W
  BY WordBig DEF MAX_INT_BUF_SIZE
<1> HIDE DEF k
<1>2. n < 2 ^ (k - 1)
  BY <1>1 DEF Word
<1>3. Shown(bf, k) /\ k \in 1 .. W + 1
  BY <1>1 DEF Shown
<1>4. Kept(bf, k) = <<>>
  <2>1. k \in -1 .. W + 1
    BY <1>1
  <2>2. Kept(bf, k) \in Seq(Character) /\ Len(Kept(bf, k)) = 0
    BY <1>1, <1>3, <2>1, KeptString
  <2> QED
    BY <2>2, EmptySeq
<1>5. Left(n, b) \o Kept(bf, k) = Left(n, b)
  BY <1>4, LeftString
<1> QED
  BY <1>1, <1>2, <1>3, <1>5 DEF Halfway, k

(* A round of the loop. *)
LEMMA DigitWritten ==
  ASSUME NEW bf \in Buffers, NEW k, NEW v, NEW b \in Bases, NEW n \in 0 .. Word - 1,
         Halfway(bf, k, v, b, n), v # 0
  PROVE  /\ Wrote(bf, k, <<Digits[(v % b) + 1]>>) \in Buffers
         /\ Halfway(Wrote(bf, k, <<Digits[(v % b) + 1]>>), (k - 1) % Word, v \div b, b, n)
<1> DEFINE d == Digits[(v % b) + 1]
           w == Wrote(bf, k, <<d>>)
           q == v \div b
<1>1. W \in Nat /\ Word \in Nat /\ k \in 1 .. W + 1 /\ v \in 1 .. Word - 1 /\ v \in Nat /\ n # 0
  BY WordBig DEF Halfway
<1>2. q \in 0 .. v - 1 /\ v % b \in 0 .. 15 /\ Left(v, b) = Append(Left(q, b), d)
  BY <1>1, LeftStep
<1>3. 2 * q <= v
  BY <1>1, DivBase
<1>4. d \in Character
  BY <1>2, DigitIs
<1> HIDE DEF d, q
<1>5. k - 1 # 0
  <2>1. k - 1 = 0 => 2 ^ (k - 1) = 2 ^ 0
    BY Zenon
  <2>2. v < 2 ^ (k - 1)
    BY DEF Halfway
  <2>3. k - 1 = 0 => v < 1
    BY <2>1, <2>2, PowZero
  <2> QED
    BY <1>1, <2>3
<1>6. (k - 1) % Word = k - 1
  <2>1. k - 1 \in Int /\ 0 - (W + 3) <= k - 1 /\ k - 1 <= W + 3 /\ k - 1 >= 0
    BY <1>1
  <2> QED
    BY <2>1, ModWord
<1>7. q < 2 ^ ((k - 1) - 1)
  <2> DEFINE p == 2 ^ (k - 1)
             r == 2 ^ ((k - 1) - 1)
  <2>1. (k - 1) - 1 \in Nat /\ ((k - 1) - 1) + 1 = k - 1
    BY <1>1, <1>5
  <2>2. r \in Nat /\ p = 2 * r
    BY <2>1, PowStep
  <2>3. v < p
    BY DEF Halfway
  <2> HIDE DEF p, r
  <2>4. q < r
    BY <1>1, <1>2, <1>3, <2>2, <2>3
  <2> QED
    BY <2>4 DEF r
<1>8. <<d>> \in Seq(Character) /\ Len(<<d>>) = 1 /\ Reversed(<<d>>) = <<d>>
  <2>1. <<d>> \in Seq(Character) /\ Len(<<d>>) = 1
    BY <1>4
  <2>2. Reversed(<<d>>) = <<d>>
    BY <1>4, ShortSeqs
  <2> QED
    BY <2>1, <2>2
<1> DEFINE s == <<d>>
<1> HIDE DEF s
<1>9. s \in Seq(Character) /\ Len(s) = 1 /\ Reversed(s) = s
  BY <1>8 DEF s
<1>10. k \in 0 .. W + 1 /\ Len(s) <= 3 /\ Len(s) <= k + 1 /\ k - Len(s) = k - 1
  BY <1>1, <1>9
<1>11. Shown(bf, k)
  BY DEF Halfway
<1>12. Wrote(bf, k, s) \in Buffers
  BY <1>9, <1>10, WroteIs
<1>13. /\ Shown(Wrote(bf, k, s), k - 1)
       /\ Kept(Wrote(bf, k, s), k - 1) = s \o Kept(bf, k)
  <2>1. /\ Shown(Wrote(bf, k, s), k - Len(s))
        /\ Kept(Wrote(bf, k, s), k - Len(s)) = Reversed(s) \o Kept(bf, k)
    BY <1>9, <1>10, <1>11, KeptMore
  <2> QED
    BY <1>9, <1>10, <2>1
<1>14. Left(q, b) \o Kept(Wrote(bf, k, s), k - 1) = Left(n, b)
  <2>1. Left(v, b) \o Kept(bf, k) = Left(n, b)
    BY DEF Halfway
  <2>2. Left(q, b) \in Seq(Character)
    <3>1. q \in 0 .. Word - 1
      BY <1>1, <1>2
    <3> QED
      BY <3>1, LeftString
  <2>3. Kept(bf, k) \in Seq(Character)
    <3>1. k \in -1 .. W + 1
      BY <1>1
    <3> QED
      BY <1>11, <3>1, KeptString
  <2>4. Append(Left(q, b), d) \o Kept(bf, k) = Left(q, b) \o (<<d>> \o Kept(bf, k))
    BY <1>4, <2>2, <2>3, AppendConcat
  <2> QED
    BY <1>2, <1>13, <2>1, <2>4, Zenon DEF s
<1>15. k - 1 \in 1 .. W + 1 /\ q \in 0 .. Word - 1
  BY <1>1, <1>2, <1>5
<1>16. Halfway(Wrote(bf, k, s), k - 1, q, b, n)
  BY <1>1, <1>7, <1>13, <1>14, <1>15 DEF Halfway
<1> QED
  BY <1>6, <1>12, <1>16 DEF s, d, q

(* There is room for what comes before the digits. *)
LEMMA FrontFits ==
  ASSUME NEW bf, NEW k, NEW b \in Bases, NEW n, Halfway(bf, k, 0, b, n)
  PROVE  Len(FrontOf(b, n)) <= k + 1
<1>1. W \in Nat /\ W >= 4 /\ k \in 1 .. W + 1 /\ (n = 0 => k = W + 1)
  BY WordBig DEF Halfway
<1>2. FrontOf(b, n) \in Seq(Character) /\ Len(FrontOf(b, n)) <= 3
      /\ (n # 0 => Len(FrontOf(b, n)) <= 2)
  BY FrontIs
<1>3. Len(FrontOf(b, n)) \in Nat
  BY <1>2
<1>4. CASE n = 0
  BY <1>1, <1>2, <1>3, <1>4
<1>5. CASE n # 0
  BY <1>1, <1>2, <1>3, <1>5
<1> QED
  BY <1>4, <1>5

(* After the loop: the number is complete. *)
LEMMA FrontWritten ==
  ASSUME NEW bf \in Buffers, NEW k, NEW b \in Bases, NEW n \in 0 .. Word - 1,
         Halfway(bf, k, 0, b, n)
  PROVE  /\ Wrote(bf, k, FrontOf(b, n)) \in Buffers
         /\ Complete(Wrote(bf, k, FrontOf(b, n)),
                     (((k - Len(FrontOf(b, n))) % Word) + 1) % Word, b, n)
<1> DEFINE s == FrontOf(b, n)
           l == Len(s)
           w == Wrote(bf, k, s)
<1>1. W \in Nat /\ W >= 4 /\ Word \in Nat /\ Word > W + 4 /\ k \in 1 .. W + 1 /\ k \in 0 .. W + 1
  BY WordBig DEF Halfway
<1>2. s \in Seq(Character) /\ l <= 3 /\ l <= k + 1 /\ l \in Nat
  BY FrontIs, FrontFits
<1>3. Shown(bf, k)
  BY DEF Halfway
<1>4. w \in Buffers
  BY <1>1, <1>2, <1>3, WroteIs
<1>5. Shown(w, k - l) /\ Kept(w, k - l) = Reversed(s) \o Kept(bf, k)
  BY <1>1, <1>2, <1>3, KeptMore
<1>6. Kept(bf, k) \in Seq(Character) /\ Len(Kept(bf, k)) = (W + 1) - k
  <2>1. k \in -1 .. W + 1
    BY <1>1
  <2> QED
    BY <1>3, <2>1, KeptString
<1>7. Kept(bf, k) = Left(n, b)
  <2>1. <<>> \o Kept(bf, k) = Kept(bf, k)
    BY <1>6
  <2>2. Left(0, b) = <<>>
    BY DEF Left
  <2> QED
    BY <2>1, <2>2 DEF Halfway
<1>8. Reversed(s) \o Kept(bf, k) = Sign(b) \o Numeral(n, b)
  <2>1. CASE n = 0
    <3>1. Kept(bf, k) = <<>>
      BY <1>7, <2>1 DEF Left
    <3>2. Numeral(n, b) = <<"0">>
      <4>1. b >= 2 /\ b \in Nat
        BY DEF Bases
      <4>2. n < b
        BY <2>1, <4>1
      <4>3. Numeral(n, b) = <<Digits[n + 1]>>
        BY <4>2, NumeralIs
      <4>4. Digits[n + 1] = "0"
        <5>1. n + 1 = 1
          BY <2>1
        <5>2. Digits[1] = "0"
          BY DEF Digits
        <5> QED
          BY <5>1, <5>2
      <4> QED
        BY <4>3, <4>4
    <3>3. Reversed(s) = Sign(b) \o <<"0">>
      BY <2>1, FrontIs
    <3>4. Sign(b) \o <<"0">> \in Seq(Character)
      <4>1. Numeral(n, b) \in Seq(Character)
        BY NumeralString
      <4>2. Sign(b) \in Seq(Character)
        BY FrontIs
      <4> QED
        BY <3>2, <4>1, <4>2
    <3>5. (Sign(b) \o <<"0">>) \o <<>> = Sign(b) \o <<"0">>
      <4> DEFINE t == Sign(b) \o <<"0">>
      <4>1. t \in Seq(Character)
        BY <3>4
      <4> HIDE DEF t
      <4>2. t \o <<>> = t
        BY <4>1
      <4> QED
        BY <4>2 DEF t
    <3> HIDE DEF s
    <3> QED
      BY <3>1, <3>2, <3>3, <3>5, Zenon
  <2>2. CASE n # 0
    <3>1. Kept(bf, k) = Numeral(n, b)
      BY <1>7, <2>2 DEF Left
    <3>2. Reversed(s) = Sign(b)
      BY <2>2, FrontIs
    <3> HIDE DEF s
    <3> QED
      BY <3>1, <3>2, Zenon
  <2> QED
    BY <2>1, <2>2
<1> HIDE DEF s, w
<1>9. (((k - l) % Word) + 1) % Word = k - l + 1
  <2>1. k - l \in Int /\ 0 - (W + 3) <= k - l /\ k - l <= W + 3 /\ k - l >= -1
    BY <1>1, <1>2
  <2>2. (k - l) % Word = IF k - l >= 0 THEN k - l ELSE (k - l) + Word
    BY <2>1, ModWord
  <2>3. CASE k - l >= 0
    <3>1. (k - l) + 1 \in Int /\ 0 - (W + 3) <= (k - l) + 1 /\ (k - l) + 1 <= W + 3 /\ (k - l) + 1 >= 0
      BY <1>1, <1>2, <2>1, <2>3
    <3>2. ((k - l) + 1) % Word = (k - l) + 1
      BY <3>1, ModWord
    <3> HIDE DEF l
    <3> QED
      BY <2>2, <2>3, <3>2
  <2>4. CASE k - l = -1
    <3>1. ((k - l) % Word) + 1 = Word
      BY <1>1, <2>2, <2>4
    <3>2. Word % Word = 0
      BY <1>1
    <3> HIDE DEF l
    <3> QED
      BY <2>4, <3>1, <3>2
  <2> QED
    BY <2>1, <2>3, <2>4
<1>10. k - l + 1 \in 0 .. W + 2 /\ (k - l + 1) - 1 = k - l
  BY <1>1, <1>2
<1> HIDE DEF l
<1>11. Complete(w, k - l + 1, b, n)
  BY <1>5, <1>8, <1>10 DEF Complete
<1> QED
  BY <1>4, <1>9, <1>11 DEF s, w, l

-----------------------------------------------------------------------------
(***************************************************************************)
(* The invariant.                                                          *)
(***************************************************************************)
Called == pc \in {"scan", "digits", "emit"}

(* The interpreter is in step with the meaning of the format: it knows     *)
(* whether a conversion waits, and which argument is the next.             *)
InStep ==
  /\ Good(fmt, args)
  /\ pos \in 1 .. Len(fmt) + 1
  /\ fmt_spec \in BOOLEAN /\ (fmt_spec <=> Waits(fmt, pos))
  /\ arg = Conversion(fmt, pos - 1) + 1

(* The number that is printed is that of the conversion at k. *)
NumberAt(f, a, k, b, n) ==
  /\ k \in 1 .. Len(f) /\ Converts(f, k) /\ f[k] \in NumberLetters
  /\ b = BaseOf(f[k]) /\ n = SizeTOf(a[Conversion(f, k)])

FmtInv ==
  /\ pc \in {"idle", "scan", "digits", "emit", "trap"}
  /\ calls \in Nat /\ buf \in Buffers
  /\ Called => InStep
  /\ pc \in {"digits", "emit"} => NumberAt(fmt, args, pos - 1, base, number)
  /\ pc = "digits" => Halfway(buf, i, val, base, number)
  /\ pc = "emit" => Complete(buf, (i + 1) % Word, base, number)
  /\ pc = "scan" /\ Faithful(args) => out = Said(fmt, args, pos - 1)
  /\ pc \in {"digits", "emit"} /\ Faithful(args) => out = Said(fmt, args, pos - 2)
  /\ OutputRight

(* The number is a size_t in one of the bases. *)
LEMMA NumberRange ==
  ASSUME NEW f, NEW a, NEW k, NEW b, NEW n, Good(f, a), NumberAt(f, a, k, b, n)
  PROVE  b \in Bases /\ n \in 0 .. Word - 1
<1>1. a[Conversion(f, k)] \in Numbers
  BY AddsNumber DEF NumberAt
<1>2. n \in 0 .. Word - 1
  BY <1>1, SizeTIs DEF NumberAt
<1>3. b \in Bases
  BY BaseIs DEF NumberAt
<1> QED
  BY <1>2, <1>3

(* The next character is passed over. *)
LEMMA PosNext ==
  ASSUME NEW f \in Seq(Character), NEW k \in 1 .. Len(f)
  PROVE  k + 1 \in 1 .. Len(f) + 1 /\ (k + 1) - 1 = k /\ k \in Nat /\ k >= 1
OBVIOUS

(* It holds at first. *)
LEMMA FmtInit == Init => FmtInv
<1> SUFFICES ASSUME Init  PROVE FmtInv
  OBVIOUS
<1>1. W \in Nat
  BY WordBig
<1>2. buf \in Buffers
  <2>1. 0 .. MAX_INT_BUF_SIZE - 1 = 0 .. W + 2 /\ W + 2 \in 0 .. W + 2
    BY <1>1 DEF MAX_INT_BUF_SIZE
  <2>2. buf = [k \in 0 .. W + 2 |-> "NUL"]
    BY <2>1 DEF Init
  <2> QED
    BY <2>1, <2>2 DEF Buffers
<1>3. pc = "idle" /\ calls = 0
  BY DEF Init
<1> QED
  BY <1>2, <1>3 DEF FmtInv, Called, OutputRight

(* strlib_initialize changes nothing that it speaks of. *)
LEMMA InitializeKeeps == FmtInv /\ Initialize => FmtInv'
<1> SUFFICES ASSUME FmtInv, Initialize  PROVE FmtInv'
  OBVIOUS
<1>1. pc = "idle" /\ pc' = pc /\ UNCHANGED <<calls, fmt, args, newline, buf, out>>
  BY DEF Initialize, callVars
<1> QED
  BY <1>1 DEF FmtInv, Called, OutputRight

(* The beginning of a call. *)
LEMMA CallKeeps == FmtInv /\ Call => FmtInv'
<1> SUFFICES ASSUME FmtInv, Call  PROVE FmtInv'
  OBVIOUS
<1>1. pc' = "scan" /\ calls' = calls + 1 /\ buf' = buf /\ pos' = 1 /\ arg' = 1
      /\ fmt_spec' = FALSE /\ out' = <<>>
  BY DEF Call
<1>2. Good(fmt', args')
  BY PrintsGood DEF Call
<1>3. Len(fmt') \in Nat
  BY <1>2 DEF Good
<1>4. pos' - 1 = 0 /\ pos' \in 1 .. Len(fmt') + 1
  BY <1>1, <1>3
<1>5. InStep'
  <2>1. ~Waits(fmt', pos') /\ arg' = Conversion(fmt', pos' - 1) + 1
    BY <1>1, <1>4, ConversionZero
  <2> QED
    BY <1>1, <1>2, <1>4, <2>1 DEF InStep
<1>6. out' = Said(fmt', args', pos' - 1)
  BY <1>1, <1>2, <1>4, SaidNext
<1> QED
  BY <1>1, <1>5, <1>6 DEF FmtInv, OutputRight

(* A trap keeps it: it says nothing of one. *)
LEMMA TrapKeeps == FmtInv /\ pc' = "trap" /\ UNCHANGED <<calls, buf>> => FmtInv'
  BY DEF FmtInv, Called, OutputRight

(* What the interpreter knows when it looks at a character. *)
LEMMA ScanFacts ==
  ASSUME FmtInv, Scanning
  PROVE  /\ Good(fmt, args) /\ fmt \in Seq(Character) /\ pos \in 1 .. Len(fmt)
         /\ pos + 1 \in 1 .. Len(fmt) + 1 /\ (pos + 1) - 1 = pos /\ pos \in Nat /\ pos >= 1
         /\ fmt_spec \in BOOLEAN /\ (fmt_spec <=> Waits(fmt, pos))
         /\ arg = Conversion(fmt, pos - 1) + 1
         /\ Faithful(args) => out = Said(fmt, args, pos - 1)
<1>1. InStep /\ pos <= Len(fmt) /\ (Faithful(args) => out = Said(fmt, args, pos - 1))
  BY DEF FmtInv, Called, Scanning
<1>2. Good(fmt, args) /\ fmt \in Seq(Character) /\ Len(fmt) \in Nat
  BY <1>1 DEF InStep, Good
<1>3. pos \in 1 .. Len(fmt)
  BY <1>1, <1>2 DEF InStep
<1>4. pos + 1 \in 1 .. Len(fmt) + 1 /\ (pos + 1) - 1 = pos /\ pos \in Nat /\ pos >= 1
  BY <1>2, <1>3, PosNext
<1> QED
  BY <1>1, <1>2, <1>3, <1>4 DEF InStep

(* A character is passed over as it should be. *)
LEMMA ScanKeeps ==
  ASSUME FmtInv, Scanning, pc' = "scan", UNCHANGED <<calls, buf, fmt, args>>,
         pos' = pos + 1, fmt_spec' \in BOOLEAN, fmt_spec' <=> Waits(fmt, pos + 1),
         arg' = Conversion(fmt, pos) + 1, out' = out \o Adds(fmt, args, pos)
  PROVE  FmtInv'
<1>1. /\ Good(fmt, args) /\ pos \in 1 .. Len(fmt) /\ pos + 1 \in 1 .. Len(fmt) + 1
      /\ (pos + 1) - 1 = pos
      /\ Faithful(args) => out = Said(fmt, args, pos - 1)
  BY ScanFacts
<1>2. InStep'
  BY <1>1 DEF InStep
<1>3. Faithful(args) => out' = Said(fmt, args, pos)
  <2>1. Said(fmt, args, pos) = Said(fmt, args, pos - 1) \o Adds(fmt, args, pos)
    BY <1>1, SaidNext
  <2> QED
    BY <1>1, <2>1
<1>4. pc' = "scan" /\ Faithful(args') => out' = Said(fmt', args', pos' - 1)
  BY <1>1, <1>3
<1>5. calls' \in Nat /\ buf' \in Buffers
  BY DEF FmtInv
<1> QED
  BY <1>2, <1>4, <1>5 DEF FmtInv, OutputRight

(* A %. *)
LEMMA PercentKeeps == FmtInv /\ Percent => FmtInv'
<1> SUFFICES ASSUME FmtInv, Percent  PROVE FmtInv'
  OBVIOUS
<1> DEFINE s == IF fmt_spec THEN <<Cur>> ELSE <<>>
<1>1. Scanning /\ fmt[pos] = "%" /\ Put(s, "scan") /\ fmt_spec' = ~fmt_spec /\ pos' = pos + 1
      /\ UNCHANGED <<calls, buf, fmt, args>> /\ arg' = arg
  BY DEF Percent, Cur, callVars
<1>2. /\ Good(fmt, args) /\ fmt \in Seq(Character) /\ pos \in 1 .. Len(fmt) /\ pos \in Nat /\ pos >= 1
      /\ fmt_spec \in BOOLEAN /\ (fmt_spec <=> Waits(fmt, pos))
      /\ arg = Conversion(fmt, pos - 1) + 1
  BY <1>1, ScanFacts
<1>3. CASE pc' = "trap"
  BY <1>1, <1>3, TrapKeeps
<1>4. CASE pc' = "scan" /\ out' = out \o s
  <2>1. Waits(fmt, pos + 1) <=> Opens(fmt, pos)
    <3>1. Waits(fmt, pos + 1) <=> (Opens(fmt, pos) \/ (fmt[pos] = "l" /\ Waits(fmt, pos)))
      BY <1>2, WaitsNext
    <3>2. fmt[pos] # "l"
      BY <1>1
    <3> QED
      BY <3>1, <3>2
  <2>2. Opens(fmt, pos) <=> ~Waits(fmt, pos)
    BY <1>1, <1>2, WaitsPercent DEF Good
  <2>3. ~Converts(fmt, pos)
    BY <1>1 DEF Converts, Conversions
  <2>4. Conversion(fmt, pos) = Conversion(fmt, pos - 1)
    BY <1>2, <2>3, ConversionNext
  <2>5. Adds(fmt, args, pos) = s
    <3>1. Adds(fmt, args, pos) = IF Waits(fmt, pos) THEN <<"%">> ELSE <<>>
      BY <1>1, <1>2, AddsPercent
    <3> QED
      BY <1>1, <1>2, <3>1 DEF Cur
  <2> HIDE DEF s
  <2>6. out' = out \o Adds(fmt, args, pos)
    BY <1>4, <2>5
  <2>7. fmt_spec' \in BOOLEAN /\ (fmt_spec' <=> Waits(fmt, pos + 1))
    BY <1>1, <1>2, <2>1, <2>2
  <2>8. arg' = Conversion(fmt, pos) + 1
    BY <1>1, <1>2, <2>4
  <2> QED
    BY <1>1, <1>4, <2>6, <2>7, <2>8, ScanKeeps
<1> HIDE DEF s
<1>5. pc' = "trap" \/ (pc' = "scan" /\ out' = out \o s)
  BY <1>1 DEF Put
<1> QED
  BY <1>3, <1>4, <1>5

(* Another character. *)
LEMMA PlainKeeps == FmtInv /\ Plain => FmtInv'
<1> SUFFICES ASSUME FmtInv, Plain  PROVE FmtInv'
  OBVIOUS
<1>1. Scanning /\ fmt[pos] # "%" /\ ~(fmt_spec /\ fmt[pos] \in Conversions)
      /\ Put(<<fmt[pos]>>, "scan") /\ fmt_spec' = fmt_spec /\ pos' = pos + 1
      /\ UNCHANGED <<calls, buf, fmt, args>> /\ arg' = arg
  BY DEF Plain, Cur, callVars
<1>2. /\ Good(fmt, args) /\ fmt \in Seq(Character) /\ pos \in 1 .. Len(fmt) /\ pos \in Nat /\ pos >= 1
      /\ fmt_spec \in BOOLEAN /\ (fmt_spec <=> Waits(fmt, pos))
      /\ arg = Conversion(fmt, pos - 1) + 1
  BY <1>1, ScanFacts
<1>3. CASE pc' = "trap"
  BY <1>1, <1>3, TrapKeeps
<1>4. CASE pc' = "scan" /\ out' = out \o <<fmt[pos]>>
  <2>1. Waits(fmt, pos + 1) <=> fmt[pos] = "l" /\ Waits(fmt, pos)
    <3>1. Waits(fmt, pos + 1) <=> (Opens(fmt, pos) \/ (fmt[pos] = "l" /\ Waits(fmt, pos)))
      BY <1>2, WaitsNext
    <3>2. ~Opens(fmt, pos)
      BY <1>1 DEF Opens
    <3> QED
      BY <3>1, <3>2
  <2>2. Waits(fmt, pos) => fmt[pos] = "l"
    BY <1>1, <1>2, WaitingFor DEF Good
  <2>3. Adds(fmt, args, pos) = <<fmt[pos]>> /\ ~Converts(fmt, pos)
    BY <1>1, <1>2, AddsPlain
  <2>4. Conversion(fmt, pos) = Conversion(fmt, pos - 1)
    BY <1>2, <2>3, ConversionNext
  <2>5. out' = out \o Adds(fmt, args, pos)
    BY <1>4, <2>3
  <2>6. fmt_spec' \in BOOLEAN /\ (fmt_spec' <=> Waits(fmt, pos + 1))
    BY <1>1, <1>2, <2>1, <2>2
  <2>7. arg' = Conversion(fmt, pos) + 1
    BY <1>1, <1>2, <2>4
  <2> QED
    BY <1>1, <1>4, <2>5, <2>6, <2>7, ScanKeeps
<1>5. pc' = "trap" \/ (pc' = "scan" /\ out' = out \o <<fmt[pos]>>)
  BY <1>1 DEF Put
<1> QED
  BY <1>3, <1>4, <1>5

(* After the letter of a conversion: none waits, and the next argument is  *)
(* for the next one.                                                       *)
LEMMA AfterConversion ==
  ASSUME FmtInv, Scanning, fmt_spec, fmt[pos] \in Conversions
  PROVE  /\ Converts(fmt, pos) /\ ~Waits(fmt, pos + 1)
         /\ arg = Conversion(fmt, pos) /\ arg + 1 = Conversion(fmt, (pos + 1) - 1) + 1
<1>1. /\ pos \in Nat /\ pos >= 1 /\ (fmt_spec <=> Waits(fmt, pos)) /\ (pos + 1) - 1 = pos
      /\ arg = Conversion(fmt, pos - 1) + 1
  BY ScanFacts
<1>2. Converts(fmt, pos)
  BY <1>1 DEF Converts
<1>3. ~Waits(fmt, pos + 1)
  <2>1. Waits(fmt, pos + 1) <=> (Opens(fmt, pos) \/ (fmt[pos] = "l" /\ Waits(fmt, pos)))
    BY <1>1, WaitsNext
  <2>2. ~Opens(fmt, pos) /\ fmt[pos] # "l"
    BY DEF Opens, Conversions
  <2> QED
    BY <2>1, <2>2
<1>4. Conversion(fmt, pos) = Conversion(fmt, pos - 1) + 1
  BY <1>1, <1>2, ConversionNext
<1> QED
  BY <1>1, <1>2, <1>3, <1>4

(* %s and %c. *)
LEMMA TextKeeps == FmtInv /\ Text => FmtInv'
<1> SUFFICES ASSUME FmtInv, Text  PROVE FmtInv'
  OBVIOUS
<1> DEFINE s == Chars(args[arg])
<1>1. Scanning /\ fmt_spec /\ fmt[pos] \in {"s", "c"} /\ Put(s, "scan") /\ fmt_spec' = FALSE
      /\ pos' = pos + 1 /\ UNCHANGED <<calls, buf, fmt, args>> /\ arg' = arg + 1
  BY DEF Text, Cur, callVars
<1>2. Good(fmt, args) /\ pos \in 1 .. Len(fmt) /\ (pos + 1) - 1 = pos
  BY <1>1, ScanFacts
<1>3. /\ Converts(fmt, pos) /\ ~Waits(fmt, pos + 1)
      /\ arg = Conversion(fmt, pos) /\ arg + 1 = Conversion(fmt, (pos + 1) - 1) + 1
  BY <1>1, AfterConversion DEF Conversions
<1>4. CASE pc' = "trap"
  BY <1>1, <1>4, TrapKeeps
<1>5. CASE pc' = "scan" /\ out' = out \o s
  <2>1. Adds(fmt, args, pos) = s
    BY <1>1, <1>2, <1>3, AddsText
  <2> HIDE DEF s
  <2>2. out' = out \o Adds(fmt, args, pos)
    BY <1>5, <2>1
  <2>3. fmt_spec' \in BOOLEAN /\ (fmt_spec' <=> Waits(fmt, pos + 1))
    BY <1>1, <1>3
  <2>4. arg' = Conversion(fmt, pos) + 1
    BY <1>1, <1>2, <1>3
  <2> QED
    BY <1>1, <1>5, <2>2, <2>3, <2>4, ScanKeeps
<1> HIDE DEF s
<1>6. pc' = "trap" \/ (pc' = "scan" /\ out' = out \o s)
  BY <1>1 DEF Put
<1> QED
  BY <1>4, <1>5, <1>6

(* %d, %x, %o and %b. *)
LEMMA NumberKeeps == FmtInv /\ Number => FmtInv'
<1> SUFFICES ASSUME FmtInv, Number  PROVE FmtInv'
  OBVIOUS
<1>1. Scanning /\ fmt_spec /\ fmt[pos] \in NumberLetters /\ fmt_spec' = FALSE
      /\ pos' = pos + 1 /\ UNCHANGED <<calls, buf, fmt, args, out>> /\ arg' = arg + 1
      /\ val' = SizeTOf(args[arg]) /\ base' = BaseOf(fmt[pos]) /\ i' = MAX_INT_BUF_SIZE - 2
      /\ number' = val' /\ pc' = "digits"
  BY DEF Number, Cur, callVars, NumberLetters
<1>2. /\ Good(fmt, args) /\ pos \in 1 .. Len(fmt) /\ (pos + 1) - 1 = pos
      /\ pos + 1 \in 1 .. Len(fmt) + 1 /\ pos \in Nat
      /\ Faithful(args) => out = Said(fmt, args, pos - 1)
  BY <1>1, ScanFacts
<1>3. /\ Converts(fmt, pos) /\ ~Waits(fmt, pos + 1)
      /\ arg = Conversion(fmt, pos) /\ arg + 1 = Conversion(fmt, (pos + 1) - 1) + 1
  BY <1>1, AfterConversion DEF Conversions, NumberLetters
<1>4. InStep'
  BY <1>1, <1>2, <1>3 DEF InStep
<1>5. NumberAt(fmt, args, pos, base', number')
  BY <1>1, <1>2, <1>3 DEF NumberAt
<1>6. base' \in Bases /\ number' \in 0 .. Word - 1
  BY <1>2, <1>5, NumberRange
<1>7. buf \in Buffers /\ calls \in Nat
  BY DEF FmtInv
<1>8. Halfway(buf, MAX_INT_BUF_SIZE - 2, number', base', number')
  BY <1>6, <1>7, AllLeft
<1>9. Halfway(buf, i, val, base, number)'
  BY <1>1, <1>8
<1>10. NumberAt(fmt, args, pos - 1, base, number)'
  BY <1>1, <1>2, <1>5
<1>11. (Faithful(args) => out = Said(fmt, args, pos - 2))'
  <2>1. (pos + 1) - 2 = pos - 1
    BY <1>2
  <2> QED
    BY <1>1, <1>2, <2>1
<1> QED
  BY <1>1, <1>4, <1>7, <1>9, <1>10, <1>11 DEF FmtInv, OutputRight

(* The end of a call. *)
LEMMA FinishKeeps == FmtInv /\ Finish => FmtInv'
<1> SUFFICES ASSUME FmtInv, Finish  PROVE FmtInv'
  OBVIOUS
<1> DEFINE s == IF newline THEN <<"NL">> ELSE <<>>
<1>1. pc = "scan" /\ pos > Len(fmt) /\ Put(s, "idle")
      /\ UNCHANGED <<calls, buf, fmt, args, newline>>
  BY DEF Finish, callVars
<1>2. CASE pc' = "trap"
  BY <1>1, <1>2, TrapKeeps
<1>3. CASE pc' = "idle" /\ out' = out \o s
  <2>1. InStep /\ (Faithful(args) => out = Said(fmt, args, pos - 1))
    BY <1>1 DEF FmtInv, Called
  <2>2. Good(fmt, args) /\ Len(fmt) \in Nat
    BY <2>1 DEF InStep, Good
  <2>3. pos - 1 = Len(fmt)
    BY <1>1, <2>1, <2>2 DEF InStep
  <2>4. Faithful(args) => out = FlattenSeq(Parts(fmt, args))
    BY <2>1, <2>2, <2>3, SaidNext
  <2>5. Faithful(args) => out' = FlattenSeq([k \in DOMAIN fmt |-> Adds(fmt, args, k)]) \o s
    <3> HIDE DEF s
    <3> QED
      BY <1>3, <2>4 DEF Parts
  <2>6. OutputRight'
    BY <1>1, <2>5 DEF OutputRight
  <2>7. calls' \in Nat /\ buf' \in Buffers
    BY <1>1 DEF FmtInv
  <2> QED
    BY <1>3, <2>6, <2>7 DEF FmtInv, Called
<1> HIDE DEF s
<1>4. pc' = "trap" \/ (pc' = "idle" /\ out' = out \o s)
  BY <1>1 DEF Put
<1> QED
  BY <1>2, <1>3, <1>4

-----------------------------------------------------------------------------
(* What strlib_print_int knows. *)
LEMMA NumberFacts ==
  ASSUME FmtInv, pc \in {"digits", "emit"}
  PROVE  /\ InStep /\ Good(fmt, args) /\ NumberAt(fmt, args, pos - 1, base, number)
         /\ base \in Bases /\ number \in 0 .. Word - 1 /\ buf \in Buffers /\ calls \in Nat
         /\ Faithful(args) => out = Said(fmt, args, pos - 2)
<1>1. InStep /\ NumberAt(fmt, args, pos - 1, base, number) /\ buf \in Buffers /\ calls \in Nat
      /\ (Faithful(args) => out = Said(fmt, args, pos - 2))
  BY DEF FmtInv, Called
<1>2. Good(fmt, args)
  BY <1>1 DEF InStep
<1>3. base \in Bases /\ number \in 0 .. Word - 1
  BY <1>1, <1>2, NumberRange
<1> QED
  BY <1>1, <1>2, <1>3

(* A digit. *)
LEMMA DigitKeeps == FmtInv /\ Digit => FmtInv'
<1> SUFFICES ASSUME FmtInv, Digit  PROVE FmtInv'
  OBVIOUS
<1> DEFINE s == <<Digits[(val % base) + 1]>>
<1>1. pc = "digits" /\ val # 0 /\ buf' = Wrote(buf, i, s) /\ i' = (i - 1) % Word
      /\ val' = val \div base
      /\ UNCHANGED <<calls, pc, fmt, args, newline, pos, arg, fmt_spec, base, number, out>>
  BY DEF Digit, WriteBack, Wrote, Back, callVars
<1>2. /\ InStep /\ NumberAt(fmt, args, pos - 1, base, number)
      /\ base \in Bases /\ number \in 0 .. Word - 1 /\ buf \in Buffers /\ calls \in Nat
      /\ Faithful(args) => out = Said(fmt, args, pos - 2)
  BY <1>1, NumberFacts
<1>3. Halfway(buf, i, val, base, number)
  BY <1>1 DEF FmtInv
<1>4. /\ Wrote(buf, i, s) \in Buffers
      /\ Halfway(Wrote(buf, i, s), (i - 1) % Word, val \div base, base, number)
  BY <1>1, <1>2, <1>3, DigitWritten
<1> HIDE DEF s
<1>5. Halfway(buf, i, val, base, number)' /\ buf' \in Buffers
  BY <1>1, <1>4
<1>6. InStep'
  BY <1>1, <1>2 DEF InStep
<1> QED
  BY <1>1, <1>2, <1>5, <1>6 DEF FmtInv, OutputRight

(* What comes before the digits. *)
LEMMA FrontCharsIs == FrontChars = FrontOf(base, number)
  BY DEF FrontChars, Prefix, FrontOf

(* The step that writes it. *)
LEMMA PrependKeeps == FmtInv /\ Prepend => FmtInv'
<1> SUFFICES ASSUME FmtInv, Prepend  PROVE FmtInv'
  OBVIOUS
<1> DEFINE s == FrontOf(base, number)
<1>1. pc = "digits" /\ (val = 0 \/ i = 0) /\ buf' = Wrote(buf, i, s) /\ i' = (i - Len(s)) % Word
      /\ UNCHANGED <<calls, fmt, args, newline, pos, arg, fmt_spec, base, number, out>>
      /\ pc' = "emit"
  BY FrontCharsIs DEF Prepend, WriteBack, Wrote, Back, callVars
<1>2. /\ InStep /\ NumberAt(fmt, args, pos - 1, base, number)
      /\ base \in Bases /\ number \in 0 .. Word - 1 /\ buf \in Buffers /\ calls \in Nat
      /\ Faithful(args) => out = Said(fmt, args, pos - 2)
  BY <1>1, NumberFacts
<1>3. Halfway(buf, i, val, base, number)
  BY <1>1 DEF FmtInv
<1>4. val = 0
  <2>1. i # 0
    BY <1>3, WordBig DEF Halfway
  <2> QED
    BY <1>1, <2>1
<1>5. /\ Wrote(buf, i, s) \in Buffers
      /\ Complete(Wrote(buf, i, s), (((i - Len(s)) % Word) + 1) % Word, base, number)
  BY <1>2, <1>3, <1>4, FrontWritten
<1> HIDE DEF s
<1>6. Complete(buf, (i + 1) % Word, base, number)' /\ buf' \in Buffers
  BY <1>1, <1>5
<1>7. InStep'
  BY <1>1, <1>2 DEF InStep
<1> QED
  BY <1>1, <1>2, <1>6, <1>7 DEF FmtInv, OutputRight

(* The number is printed. *)
LEMMA EmitKeeps == FmtInv /\ Emit => FmtInv'
<1> SUFFICES ASSUME FmtInv, Emit  PROVE FmtInv'
  OBVIOUS
<1> DEFINE k == (i + 1) % Word
           s == StringIn(buf, k)
<1>1. pc = "emit" /\ Put(s, "scan")
      /\ UNCHANGED <<calls, fmt, args, newline, pos, arg, fmt_spec, buf>>
  BY DEF Emit, StringAt, StringIn, callVars
<1>2. /\ InStep /\ Good(fmt, args) /\ NumberAt(fmt, args, pos - 1, base, number)
      /\ base \in Bases /\ number \in 0 .. Word - 1 /\ buf \in Buffers /\ calls \in Nat
      /\ Faithful(args) => out = Said(fmt, args, pos - 2)
  BY <1>1, NumberFacts
<1>3. Complete(buf, k, base, number)
  BY <1>1 DEF FmtInv
<1> HIDE DEF k
<1>4. s = Sign(base) \o Numeral(number, base)
  BY <1>2, <1>3, StringIs DEF Complete
<1> HIDE DEF s
<1>5. CASE pc' = "trap"
  BY <1>1, <1>5, TrapKeeps
<1>6. CASE pc' = "scan" /\ out' = out \o s
  <2> DEFINE p == pos - 1
  <2>1. p \in 1 .. Len(fmt) /\ p - 1 = pos - 2
    BY <1>2 DEF NumberAt, InStep
  <2>2. ASSUME Faithful(args)  PROVE Adds(fmt, args, p) = s
    <3>1. Converts(fmt, p) /\ fmt[p] \in NumberLetters /\ base = BaseOf(fmt[p])
          /\ number = SizeTOf(args[Conversion(fmt, p)])
      BY <1>2 DEF NumberAt
    <3> HIDE DEF p
    <3> DEFINE x == args[Conversion(fmt, p)]
    <3>2. Adds(fmt, args, p) = Sign(BaseOf(fmt[p])) \o Numeral(x.val, BaseOf(fmt[p]))
          /\ SizeTOf(x) = x.val
      BY <1>2, <2>1, <2>2, <3>1, AddsNumber
    <3> HIDE DEF x
    <3>3. number = x.val
      BY <3>1, <3>2 DEF x
    <3> QED
      BY <1>4, <3>1, <3>2, <3>3, Zenon
  <2>3. Said(fmt, args, p) = Said(fmt, args, p - 1) \o Adds(fmt, args, p)
    <3> HIDE DEF p
    <3> QED
      BY <1>2, <2>1, SaidNext
  <2>4. Faithful(args) => out' = Said(fmt, args, p)
    <3> HIDE DEF p
    <3> QED
      BY <1>2, <1>6, <2>1, <2>2, <2>3
  <2>5. InStep'
    BY <1>1, <1>2 DEF InStep
  <2>6. (Faithful(args) => out = Said(fmt, args, pos - 1))'
    BY <1>1, <2>4
  <2>7. buf' \in Buffers /\ calls' \in Nat
    BY <1>1, <1>2
  <2> QED
    BY <1>6, <2>5, <2>6, <2>7 DEF FmtInv, OutputRight
<1>7. pc' = "trap" \/ (pc' = "scan" /\ out' = out \o s)
  BY <1>1 DEF Put
<1> QED
  BY <1>5, <1>6, <1>7

-----------------------------------------------------------------------------
(* Each step keeps the invariant, and so does standing still. *)
LEMMA NextKeeps == FmtInv /\ [Next]_vars => FmtInv'
<1> SUFFICES ASSUME FmtInv, [Next]_vars  PROVE FmtInv'
  OBVIOUS
<1>1. CASE UNCHANGED vars
  <2>1. UNCHANGED <<calls, pc, fmt, args, newline, pos, arg, fmt_spec, val, base, i, number, buf, out>>
    BY <1>1 DEF vars, callVars, intVars
  <2>2. InStep => InStep'
    BY <2>1 DEF InStep
  <2> QED
    BY <2>1, <2>2 DEF FmtInv, Called, OutputRight
<1>2. CASE Initialize
  BY <1>2, InitializeKeeps
<1>3. CASE Call
  BY <1>3, CallKeeps
<1>4. CASE Percent
  BY <1>4, PercentKeeps
<1>5. CASE Plain
  BY <1>5, PlainKeeps
<1>6. CASE Text
  BY <1>6, TextKeeps
<1>7. CASE Number
  BY <1>7, NumberKeeps
<1>8. CASE Finish
  BY <1>8, FinishKeeps
<1>9. CASE Digit
  BY <1>9, DigitKeeps
<1>10. CASE Prepend
  BY <1>10, PrependKeeps
<1>11. CASE Emit
  BY <1>11, EmitKeeps
<1> QED
  BY <1>1, <1>2, <1>3, <1>4, <1>5, <1>6, <1>7, <1>8, <1>9, <1>10, <1>11
     DEF Next, Step, Trapped

(* The interpreter of strlib_formatted_print stays in step with the format *)
(* and the buffer of strlib_print_int holds the digits written so far.     *)
THEOREM FmtInvariant == Spec => []FmtInv
<1>1. Init => FmtInv
  BY FmtInit
<1>2. FmtInv /\ [Next]_vars => FmtInv'
  BY NextKeeps
<1> QED
  BY <1>1, <1>2, PTL DEF Spec

(* strlib_print_int never writes outside its buffer nor over its last      *)
(* character, for every width of a size_t and every number and base.       *)
THEOREM NumbersFit == Spec => []InBuffer
<1>1. FmtInv => InBuffer
  <2> SUFFICES ASSUME FmtInv  PROVE InBuffer
    OBVIOUS
  <2>1. W \in Nat /\ buf[W + 2] = "NUL" /\ MAX_INT_BUF_SIZE - 1 = W + 2
    BY WordBig DEF FmtInv, Buffers, MAX_INT_BUF_SIZE
  <2>2. ASSUME pc = "digits"  PROVE i < MAX_INT_BUF_SIZE - 1 /\ i # 0
    BY <2>1, <2>2 DEF FmtInv, Halfway
  <2>3. ASSUME pc = "digits", val = 0  PROVE i + 1 >= Len(FrontChars)
    <3>1. Halfway(buf, i, 0, base, number) /\ base \in Bases
      BY <2>3, NumberFacts DEF FmtInv
    <3>2. Len(FrontOf(base, number)) <= i + 1
      BY <3>1, FrontFits
    <3>3. i \in Nat
      BY <2>1, <3>1 DEF Halfway
    <3>4. Len(FrontOf(base, number)) \in Nat
      BY <3>1, FrontIs
    <3> QED
      BY <3>2, <3>3, <3>4, FrontCharsIs
  <2> QED
    BY <2>1, <2>2, <2>3 DEF InBuffer
<1> QED
  BY <1>1, FmtInvariant, PTL

(* print and println print what their format says, whatever was printed    *)
(* before, for every format and the arguments that go with it.             *)
THEOREM PrintsWhatIsSaid == Spec => []OutputRight
<1>1. FmtInv => OutputRight
  BY DEF FmtInv
<1> QED
  BY <1>1, FmtInvariant, PTL

=============================================================================
