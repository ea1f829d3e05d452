------------------------- MODULE SubsequencesProofs -------------------------
(***************************************************************************)
(* What Kept keeps: the elements at the positions, in their order and no   *)
(* others; and, for a filter, what it leaves distinct, in range or in      *)
(* order.                                                                  *)
(***************************************************************************)
EXTENDS Subsequences, FiniteSetTheorems, SequenceTheorems, TLAPS

(* Induction over the naturals, for a set: otherwise the elements of S up  *)
(* to n that S lacks would go one-to-one, by their successors, into those  *)
(* of them that are not zero.                                              *)
LEMMA SetInduction ==
    ASSUME NEW S \in SUBSET Nat, 0 \in S, \A n \in Nat : n \in S => n + 1 \in S
    PROVE  S = Nat
<1> SUFFICES ASSUME NEW n \in Nat, n \notin S PROVE FALSE
  OBVIOUS
<1> DEFINE A == {i \in S : i <= n}
           f == [i \in A |-> i + 1]
<1>1. A \in SUBSET (0 .. n) /\ 0 \in A
  <2>1. \A i \in S : i \in Nat /\ (i <= n => i \in 0 .. n)
    OBVIOUS
  <2>2. 0 <= n
    OBVIOUS
  <2> QED BY <2>1, <2>2
<1>2. IsFiniteSet(A) /\ Cardinality(A) \in Nat
  <2> HIDE DEF A
  <2>1. 0 \in Int /\ n \in Int
    OBVIOUS
  <2>2. IsFiniteSet(0 .. n)
    BY <2>1, FS_Interval
  <2>3. IsFiniteSet(A)
    BY <1>1, <2>2, FS_Subset
  <2> QED BY <2>3, FS_CardinalityType
<1>3. IsFiniteSet(A \ {0}) /\ Cardinality(A \ {0}) = Cardinality(A) - 1
  BY <1>1, <1>2, FS_RemoveElement
<1>4. f \in [A -> A \ {0}]
  <2> SUFFICES ASSUME NEW i \in A PROVE i + 1 \in A \ {0}
    OBVIOUS
  <2>1. i \in Nat /\ i \in S /\ i < n
    <3>1. i # n
      OBVIOUS
    <3> QED BY <3>1
  <2> QED BY <2>1
<1>5. Cardinality(A \ {0}) < Cardinality(A)
  BY <1>2, <1>3
<1>6. \E x, y \in A : x # y /\ f[x] = f[y]
  <2> HIDE DEF A, f
  <2> QED BY <1>2, <1>3, <1>4, <1>5, FS_PigeonHole
<1>7. \A x, y \in A : f[x] = f[y] => x = y
  <2>1. \A x \in A : f[x] = x + 1 /\ x \in Nat
    OBVIOUS
  <2> QED BY <2>1
<1> QED BY <1>6, <1>7

(* The positions kept, counted. *)
LEMMA UpToCounts ==
    ASSUME NEW n \in Nat, NEW I \in SUBSET (1 .. n)
    PROVE  /\ IsFiniteSet(I) /\ Cardinality(I) \in Nat
           /\ \A i \in Nat : IsFiniteSet(UpTo(I, i)) /\ Cardinality(UpTo(I, i)) \in Nat
           /\ Cardinality(UpTo(I, 0)) = 0 /\ UpTo(I, n) = I
           /\ \A i \in Nat : Cardinality(UpTo(I, i + 1)) =
                IF i + 1 \in I THEN Cardinality(UpTo(I, i)) + 1 ELSE Cardinality(UpTo(I, i))
           /\ \A i, j \in Nat : i <= j => Cardinality(UpTo(I, i)) <= Cardinality(UpTo(I, j))
<1>0. \A i \in I : i \in Nat /\ i >= 1 /\ i <= n
  OBVIOUS
<1>1. IsFiniteSet(I) /\ Cardinality(I) \in Nat
  <2>1. 1 \in Int /\ n \in Int
    OBVIOUS
  <2>2. IsFiniteSet(1 .. n)
    BY <2>1, FS_Interval
  <2>3. IsFiniteSet(I)
    BY <2>2, FS_Subset
  <2> QED BY <2>3, FS_CardinalityType
<1>2. \A i : UpTo(I, i) \in SUBSET I
  BY DEF UpTo
<1>3. \A i \in Nat : IsFiniteSet(UpTo(I, i)) /\ Cardinality(UpTo(I, i)) \in Nat
  BY <1>1, <1>2, FS_Subset, FS_CardinalityType
<1>4. UpTo(I, 0) = {} /\ UpTo(I, n) = I
  <2>1. \A i \in I : ~(i <= 0)
    BY <1>0
  <2> QED BY <1>0, <2>1 DEF UpTo
<1>5. ASSUME NEW i \in Nat
      PROVE  Cardinality(UpTo(I, i + 1)) =
                IF i + 1 \in I THEN Cardinality(UpTo(I, i)) + 1 ELSE Cardinality(UpTo(I, i))
  <2>1. CASE i + 1 \in I
    <3>0. \A j \in I : j <= i + 1 <=> j <= i \/ j = i + 1
      BY <1>0
    <3>1. UpTo(I, i + 1) = UpTo(I, i) \cup {i + 1} /\ i + 1 \notin UpTo(I, i)
      <4>1. i + 1 <= i + 1 /\ ~(i + 1 <= i)
        OBVIOUS
      <4> QED BY <2>1, <3>0, <4>1 DEF UpTo
    <3> QED BY <1>3, <2>1, <3>1, FS_AddElement
  <2>2. CASE i + 1 \notin I
    <3>1. UpTo(I, i + 1) = UpTo(I, i)
      <4>1. \A j \in I : j <= i + 1 <=> j <= i
        <5>1. \A j \in I : j \in Nat /\ j # i + 1
          BY <1>0, <2>2
        <5> QED BY <5>1
      <4> QED BY <4>1 DEF UpTo
    <3> QED BY <2>2, <3>1
  <2> QED BY <2>1, <2>2
<1>6. ASSUME NEW i \in Nat, NEW j \in Nat, i <= j
      PROVE  Cardinality(UpTo(I, i)) <= Cardinality(UpTo(I, j))
  <2>0. \A k \in I : k <= i => k <= j
    BY <1>0, <1>6
  <2>1. UpTo(I, i) \in SUBSET UpTo(I, j)
    BY <2>0 DEF UpTo
  <2> QED BY <1>3, <2>1, FS_Subset
<1> QED BY <1>1, <1>3, <1>4, <1>5, <1>6, FS_EmptySet

LEMMA NthEffect ==
    ASSUME NEW n \in Nat, NEW I \in SUBSET (1 .. n)
    PROVE  /\ Cardinality(I) \in Nat
           /\ \A k \in 1 .. Cardinality(I) :
                Nth(I, k) \in I /\ Cardinality(UpTo(I, Nth(I, k))) = k
           /\ \A k, l \in 1 .. Cardinality(I) : k < l => Nth(I, k) < Nth(I, l)
           /\ \A i \in I : \E k \in 1 .. Cardinality(I) : Nth(I, k) = i
<1> DEFINE c(i) == Cardinality(UpTo(I, i))
           S == {m \in Nat : \A k \in 1 .. c(m) : \E i \in I : c(i) = k}
<1>0. \A i \in I : i \in Nat /\ i >= 1 /\ i <= n
  OBVIOUS
<1>1. /\ Cardinality(I) \in Nat /\ c(0) = 0 /\ c(n) = Cardinality(I)
      /\ \A i \in Nat : c(i) \in Nat
      /\ \A i \in Nat : c(i + 1) = IF i + 1 \in I THEN c(i) + 1 ELSE c(i)
      /\ \A i, j \in Nat : i <= j => c(i) <= c(j)
  BY UpToCounts
<1> HIDE DEF c
<1>2. S = Nat
  <2>1. 0 \in S
    BY <1>1
  <2>2. ASSUME NEW m \in Nat, m \in S PROVE m + 1 \in S
    <3> SUFFICES ASSUME NEW k \in 1 .. c(m + 1) PROVE \E i \in I : c(i) = k
      OBVIOUS
    <3>1. CASE k \in 1 .. c(m)
      BY <2>2, <3>1
    <3>2. CASE k \notin 1 .. c(m)
      <4>0. /\ c(m) \in Nat /\ c(m + 1) \in Nat
            /\ c(m + 1) = IF m + 1 \in I THEN c(m) + 1 ELSE c(m)
        <5>1. m + 1 \in Nat
          OBVIOUS
        <5> QED BY <1>1, <5>1
      <4>1. m + 1 \in I /\ c(m + 1) = k
        BY <3>2, <4>0
      <4> QED BY <4>1
    <3> QED BY <3>1, <3>2
  <2>3. S \in SUBSET Nat
    OBVIOUS
  <2> HIDE DEF S
  <2> QED BY <2>1, <2>2, <2>3, SetInduction
<1>3. \A k \in 1 .. Cardinality(I) : \E i \in I : c(i) = k
  BY <1>1, <1>2
<1>4. \A k \in 1 .. Cardinality(I) : Nth(I, k) \in I /\ c(Nth(I, k)) = k
  BY <1>3 DEF Nth, c
<1>5. \A i, j \in I : i < j => c(i) < c(j)
  <2> SUFFICES ASSUME NEW i \in I, NEW j \in I, i < j PROVE c(i) < c(j)
    OBVIOUS
  <2>1. i \in Nat /\ j - 1 \in Nat /\ i <= j - 1 /\ (j - 1) + 1 = j
    BY <1>0
  <2>2. c(j) = c(j - 1) + 1 /\ c(i) <= c(j - 1) /\ c(i) \in Nat /\ c(j - 1) \in Nat
    BY <1>1, <2>1
  <2> QED BY <2>2
<1>6. \A k, l \in 1 .. Cardinality(I) : k < l => Nth(I, k) < Nth(I, l)
  <2> SUFFICES ASSUME NEW k \in 1 .. Cardinality(I), NEW l \in 1 .. Cardinality(I), k < l
               PROVE  Nth(I, k) < Nth(I, l)
    OBVIOUS
  <2>1. /\ Nth(I, k) \in I /\ Nth(I, l) \in I
        /\ c(Nth(I, k)) = k /\ c(Nth(I, l)) = l
    BY <1>4
  <2>2. Nth(I, k) \in Nat /\ Nth(I, l) \in Nat /\ k \in Nat /\ l \in Nat
    BY <1>0, <1>1, <2>1
  <2>3. ~(c(Nth(I, l)) <= c(Nth(I, k)))
    BY <2>1, <2>2
  <2>4. ~(Nth(I, l) <= Nth(I, k))
    BY <1>1, <2>2, <2>3
  <2> QED BY <2>2, <2>4
<1>7. ASSUME NEW i \in I PROVE \E k \in 1 .. Cardinality(I) : Nth(I, k) = i
  <2>1. i \in Nat /\ i <= n /\ i >= 1
    BY <1>0
  <2>2. c(i) \in 1 .. Cardinality(I)
    <3>1. i - 1 \in Nat /\ (i - 1) + 1 = i
      BY <2>1
    <3>2. c(i) = c(i - 1) + 1 /\ c(i - 1) \in Nat /\ c(i) <= c(n)
      BY <1>1, <2>1, <3>1
    <3> QED BY <1>1, <3>2
  <2>3. Nth(I, c(i)) \in I /\ c(Nth(I, c(i))) = c(i)
    BY <1>4, <2>2
  <2>4. ~(Nth(I, c(i)) < i) /\ ~(i < Nth(I, c(i)))
    <3>1. c(i) \in Nat /\ ~(c(i) < c(i))
      BY <1>1, <2>1
    <3> QED BY <1>5, <2>3, <3>1
  <2>5. Nth(I, c(i)) = i
    <3>1. Nth(I, c(i)) \in Nat
      BY <1>0, <2>3
    <3> QED BY <2>1, <2>4, <3>1
  <2> QED BY <2>2, <2>5
<1> QED BY <1>1, <1>4, <1>6, <1>7 DEF c

LEMMA Positions ==
    ASSUME NEW n \in Nat, NEW D \in SUBSET (1 .. n), NEW I, I = (1 .. n) \ D
    PROVE  IsFiniteSet(I) /\ Cardinality(I) = n - Cardinality(D)
<1>1. 1 \in Int /\ n \in Int
  OBVIOUS
<1>2. IsFiniteSet(1 .. n) /\ Cardinality(1 .. n) = n
  BY <1>1, FS_Interval
<1>3. (1 .. n) \cap D = D
  OBVIOUS
<1>4. Cardinality((1 .. n) \ D) = Cardinality(1 .. n) - Cardinality((1 .. n) \cap D)
      /\ IsFiniteSet((1 .. n) \ D)
  BY <1>2, FS_Difference
<1> QED BY <1>2, <1>3, <1>4

(* At least m elements are among the first m.                              *)
LEMMA FirstOnes ==
    ASSUME NEW n \in Nat, NEW I \in SUBSET (1 .. n), NEW m \in Nat, m <= Cardinality(I),
           NEW D, D = {i \in I : Cardinality(UpTo(I, i)) <= m}
    PROVE  IsFiniteSet(D) /\ Cardinality(D) \in Nat /\ Cardinality(D) >= m
<1>1. /\ IsFiniteSet(I) /\ Cardinality(I) \in Nat
      /\ \A i, j \in Nat : i <= j => Cardinality(UpTo(I, i)) <= Cardinality(UpTo(I, j))
  BY UpToCounts
<1>2. IsFiniteSet(D) /\ Cardinality(D) \in Nat
  <2>1. D \in SUBSET I
    OBVIOUS
  <2> QED BY <1>1, <2>1, FS_Subset, FS_CardinalityType
<1>3. CASE m = 0
  BY <1>2, <1>3
<1>4. CASE m # 0
  <2>1. m \in 1 .. Cardinality(I)
    BY <1>1, <1>4
  <2> DEFINE x == Nth(I, m)
  <2>2. x \in I /\ Cardinality(UpTo(I, x)) = m
    BY <2>1, NthEffect
  <2> HIDE DEF x
  <2>3. \A i \in I : i \in Nat
    OBVIOUS
  <2>4. \A i \in I : i <= x => Cardinality(UpTo(I, i)) <= m
    BY <1>1, <2>2, <2>3
  <2>5. UpTo(I, x) \subseteq D
    BY <2>4 DEF UpTo
  <2>6. Cardinality(UpTo(I, x)) <= Cardinality(D)
    BY <1>2, <2>5, FS_Subset
  <2> QED BY <1>2, <2>2, <2>6
<1> QED BY <1>3, <1>4

(* What is kept, in order, and nothing else: e says where it was.          *)
Embeds(e, q, I, r) ==
  /\ e \in [DOMAIN r -> I]
  /\ \A k \in DOMAIN r : r[k] = q[e[k]]
  /\ \A k, l \in DOMAIN r : k < l => e[k] < e[l]
  /\ \A i \in I : \E k \in DOMAIN r : e[k] = i

LEMMA KeptEffect ==
    ASSUME NEW T, NEW q \in Seq(T), NEW I \in SUBSET DOMAIN q, NEW r, r = Kept(q, I)
    PROVE  /\ r \in Seq(T) /\ Len(r) = Cardinality(I) /\ Cardinality(I) \in Nat
           /\ \E e : Embeds(e, q, I, r)
<1> DEFINE e == [k \in 1 .. Cardinality(I) |-> Nth(I, k)]
<1>1. Len(q) \in Nat /\ I \in SUBSET (1 .. Len(q)) /\ DOMAIN q = 1 .. Len(q)
  OBVIOUS
<1>2. /\ Cardinality(I) \in Nat
      /\ \A k \in 1 .. Cardinality(I) : Nth(I, k) \in I
      /\ \A k, l \in 1 .. Cardinality(I) : k < l => Nth(I, k) < Nth(I, l)
      /\ \A i \in I : \E k \in 1 .. Cardinality(I) : Nth(I, k) = i
  BY <1>1, NthEffect
<1>3. r = [k \in 1 .. Cardinality(I) |-> q[Nth(I, k)]]
  BY DEF Kept
<1>4. r \in Seq(T) /\ Len(r) = Cardinality(I) /\ DOMAIN r = 1 .. Cardinality(I)
  <2>1. \A k \in 1 .. Cardinality(I) : q[Nth(I, k)] \in T
    BY <1>2
  <2> QED BY <1>2, <1>3, <2>1, IsASeq, LenProperties
<1>5. Embeds(e, q, I, r)
  BY <1>2, <1>3, <1>4 DEF Embeds
<1> HIDE DEF e
<1> QED BY <1>2, <1>4, <1>5

(* The elements of a sequence, and of a sequence with one more.            *)
LEMMA Elements ==
    ASSUME NEW T, NEW q \in Seq(T)
    PROVE  /\ Len(q) \in Nat /\ DOMAIN q = 1 .. Len(q)
           /\ \A i \in DOMAIN q : i \in Nat /\ i >= 1 /\ i <= Len(q) /\ q[i] \in T
OBVIOUS

LEMMA Appended ==
    ASSUME NEW T, NEW q \in Seq(T), NEW x \in T
    PROVE  /\ Append(q, x) \in Seq(T) /\ Len(Append(q, x)) = Len(q) + 1
           /\ Len(q) \in Nat /\ Len(q) + 1 \in DOMAIN Append(q, x)
           /\ Append(q, x)[Len(q) + 1] = x
           /\ \A i \in DOMAIN q : /\ i \in Nat /\ i < Len(q) + 1 /\ q[i] \in T
                                  /\ i \in DOMAIN Append(q, x) /\ Append(q, x)[i] = q[i]
           /\ \A i \in DOMAIN Append(q, x) :
                \/ i \in DOMAIN q /\ Append(q, x)[i] = q[i]
                \/ i = Len(q) + 1 /\ Append(q, x)[i] = x
OBVIOUS

(* The kept elements are those of the kept positions.                      *)
LEMMA KeptElements ==
    ASSUME NEW T, NEW q \in Seq(T), NEW I \in SUBSET DOMAIN q, NEW r, r = Kept(q, I)
    PROVE  /\ r \in Seq(T)
           /\ \A k \in DOMAIN r : \E i \in I : r[k] = q[i]
           /\ \A i \in I : \E k \in DOMAIN r : r[k] = q[i]
<1>1. r \in Seq(T)
  BY KeptEffect
<1>2. PICK e : Embeds(e, q, I, r)
  BY KeptEffect
<1>3. \A k \in DOMAIN r : e[k] \in I
  BY <1>2 DEF Embeds
<1>4. \A k \in DOMAIN r : \E i \in I : r[k] = q[i]
  BY <1>2, <1>3 DEF Embeds
<1>5. \A i \in I : \E k \in DOMAIN r : r[k] = q[i]
  BY <1>2 DEF Embeds
<1> QED BY <1>1, <1>4, <1>5

LEMMA KeptDistinct ==
    ASSUME NEW T, NEW q \in Seq(T), NEW I \in SUBSET DOMAIN q, NEW r, r = Kept(q, I),
           \A i, j \in DOMAIN q : i # j => q[i] # q[j]
    PROVE  \A k, l \in DOMAIN r : k # l => r[k] # r[l]
<1>1. \A i \in I : i \in DOMAIN q /\ i \in Nat
  BY Elements
<1>2. r \in Seq(T)
  BY KeptEffect
<1>3. PICK e : Embeds(e, q, I, r)
  BY KeptEffect
<1>4. \A k \in DOMAIN r : k \in Nat /\ e[k] \in I
  BY <1>2, <1>3, Elements DEF Embeds
<1>5. \A k, l \in DOMAIN r : k # l => e[k] # e[l]
  <2>1. \A k, l \in DOMAIN r : k # l => k < l \/ l < k
    BY <1>4
  <2>2. \A x, y \in Nat : x < y => x # y
    OBVIOUS
  <2> QED BY <1>1, <1>3, <1>4, <2>1, <2>2 DEF Embeds
<1> QED BY <1>1, <1>3, <1>4, <1>5 DEF Embeds

(* Two sequences, one after the other.                                     *)
Joins(r, p, q) ==
  /\ Len(r) = Len(p) + Len(q) /\ Len(p) \in Nat /\ Len(q) \in Nat
  /\ DOMAIN r = 1 .. Len(p) + Len(q)
  /\ \A i \in DOMAIN p : i \in DOMAIN r /\ i <= Len(p) /\ r[i] = p[i]
  /\ \A i \in DOMAIN q : i + Len(p) \in DOMAIN r /\ r[i + Len(p)] = q[i]
  /\ \A i \in DOMAIN r : \/ i \in DOMAIN p /\ i <= Len(p) /\ r[i] = p[i]
                         \/ i > Len(p) /\ i - Len(p) \in DOMAIN q /\ r[i] = q[i - Len(p)]

LEMMA Concatenated ==
    ASSUME NEW T, NEW p \in Seq(T), NEW q \in Seq(T), NEW r, r = p \o q
    PROVE  r \in Seq(T) /\ Joins(r, p, q)
<1>1. /\ Len(p) \in Nat /\ Len(q) \in Nat /\ DOMAIN p = 1 .. Len(p) /\ DOMAIN q = 1 .. Len(q)
      /\ r \in Seq(T)
  OBVIOUS
<1>2. Len(r) = Len(p) + Len(q)
  OBVIOUS
<1>3. DOMAIN r = 1 .. Len(p) + Len(q)
  BY <1>1, <1>2
<1>4. \A i \in 1 .. Len(p) : r[i] = p[i]
  OBVIOUS
<1>5. \A i \in 1 .. Len(p) + Len(q) : i > Len(p) => r[i] = q[i - Len(p)]
  OBVIOUS
<1>6. \A i \in DOMAIN p : i \in DOMAIN r /\ i <= Len(p) /\ r[i] = p[i]
  BY <1>1, <1>3, <1>4
<1>7. ASSUME NEW i \in DOMAIN q PROVE i + Len(p) \in DOMAIN r /\ r[i + Len(p)] = q[i]
  <2>1. i \in 1 .. Len(q) /\ i \in Nat /\ i >= 1 /\ i + Len(p) \in 1 .. Len(p) + Len(q)
        /\ i + Len(p) > Len(p) /\ (i + Len(p)) - Len(p) = i
    BY <1>1
  <2> QED BY <1>3, <1>5, <2>1
<1>8. ASSUME NEW i \in DOMAIN r
      PROVE  \/ i \in DOMAIN p /\ i <= Len(p) /\ r[i] = p[i]
             \/ i > Len(p) /\ i - Len(p) \in DOMAIN q /\ r[i] = q[i - Len(p)]
  <2>1. i \in 1 .. Len(p) + Len(q)
    BY <1>3
  <2>2. CASE i <= Len(p)
    BY <1>1, <1>4, <2>1, <2>2
  <2>3. CASE i > Len(p)
    <3>1. i - Len(p) \in 1 .. Len(q)
      BY <1>1, <2>1, <2>3
    <3> QED BY <1>1, <1>5, <2>1, <2>3, <3>1
  <2> QED BY <1>1, <2>1, <2>2, <2>3
<1> QED BY <1>1, <1>2, <1>3, <1>6, <1>7, <1>8 DEF Joins

(* The places of I in order, and all of them, are the first ones of Nth.   *)
Orders(e, I, m) ==
  /\ \A k \in 1 .. m : e[k] \in I
  /\ \A k, l \in 1 .. m : k < l => e[k] < e[l]
  /\ \A i \in I : \E k \in 1 .. m : e[k] = i

LEMMA NthIs ==
    ASSUME NEW n \in Nat, NEW I \in SUBSET (1 .. n), NEW m \in Nat, NEW e, Orders(e, I, m)
    PROVE  Cardinality(I) = m /\ \A k \in 1 .. m : Nth(I, k) = e[k]
<1> DEFINE c(i) == Cardinality(UpTo(I, i))
           S == {k \in Nat : k \in 1 .. m => c(e[k]) = k}
<1>0. \A i \in I : i \in Nat /\ i >= 1 /\ i <= n
  OBVIOUS
<1>1. m \in Nat
  OBVIOUS
<1>2. \A k \in 1 .. m : e[k] \in I /\ e[k] \in Nat /\ e[k] >= 1 /\ e[k] <= n
  BY <1>0 DEF Orders
<1>3. \A k, l \in 1 .. m : k < l => e[k] < e[l]
  BY DEF Orders
<1>4. \A i \in I : \E k \in 1 .. m : e[k] = i
  BY DEF Orders
<1>5. /\ Cardinality(I) \in Nat /\ c(0) = 0 /\ c(n) = Cardinality(I)
      /\ \A i \in Nat : c(i) \in Nat
      /\ \A i \in Nat : c(i + 1) = IF i + 1 \in I THEN c(i) + 1 ELSE c(i)
      /\ \A i, j \in Nat : i <= j => c(i) <= c(j)
  BY UpToCounts
<1>6. 0 \in S
  BY <1>1
<1>7. ASSUME NEW k \in Nat, k \in S PROVE k + 1 \in S
  <2> SUFFICES ASSUME k + 1 \in 1 .. m PROVE c(e[k + 1]) = k + 1
    BY <1>1
  <2> DEFINE x == e[k + 1] - 1
  <2>1. x \in Nat /\ x + 1 = e[k + 1] /\ e[k + 1] \in I
    BY <1>2
  <2>2. c(e[k + 1]) = c(x) + 1
    <3> HIDE DEF c, x
    <3> QED BY <1>5, <2>1
  <2>3. c(x) = k
    <3>1. CASE k = 0
      <4>1. UpTo(I, x) = UpTo(I, 0)
        <5> SUFFICES ASSUME NEW i \in I, i <= x PROVE FALSE
          <6>1. \A i \in I : ~(i <= 0)
            BY <1>0
          <6> QED BY <6>1 DEF UpTo
        <5>1. PICK l \in 1 .. m : e[l] = i
          BY <1>4
        <5>2. l = 1 \/ 1 < l
          BY <5>1
        <5>3. e[1] <= e[l] /\ e[1] = e[k + 1]
          BY <1>1, <1>2, <1>3, <3>1, <5>1, <5>2
        <5> QED BY <1>2, <2>1, <5>1, <5>3
      <4> QED BY <1>5, <3>1, <4>1
    <3>2. CASE k # 0
      <4>1. k \in 1 .. m /\ k < k + 1
        BY <1>1, <3>2
      <4>2. e[k] < e[k + 1] /\ e[k] <= x /\ e[k] \in Nat
        BY <1>2, <1>3, <2>1, <4>1
      <4>3. UpTo(I, x) = UpTo(I, e[k])
        <5> SUFFICES ASSUME NEW i \in I, i <= x PROVE i <= e[k]
          <6>1. \A i \in I : i \in Nat
            BY <1>0
          <6>2. \A i \in I : i <= x <=> i <= e[k]
            BY <2>1, <4>2, <6>1
          <6> QED BY <6>2 DEF UpTo
        <5>1. PICK l \in 1 .. m : e[l] = i
          BY <1>4
        <5>2. ~(l >= k + 1)
          <6> SUFFICES ASSUME l >= k + 1 PROVE FALSE
            OBVIOUS
          <6>1. l = k + 1 \/ k + 1 < l
            BY <5>1
          <6>2. e[k + 1] <= e[l]
            BY <1>2, <1>3, <5>1, <6>1
          <6> QED BY <1>2, <2>1, <5>1, <6>2
        <5>3. l = k \/ l < k
          BY <5>2
        <5> QED BY <1>2, <1>3, <4>1, <5>1, <5>3
      <4> QED BY <1>1, <1>7, <4>1, <4>3
    <3> QED BY <3>1, <3>2
  <2> QED BY <2>2, <2>3
<1>8. S \in SUBSET Nat
  OBVIOUS
<1>9. \A k \in 1 .. m : c(e[k]) = k
  <2>1. S = Nat
    <3> HIDE DEF S
    <3> QED BY <1>6, <1>7, <1>8, SetInduction
  <2> QED BY <1>1, <2>1
<1>10. Cardinality(I) = m
  <2>1. CASE m = 0
    <3>1. I = {}
      BY <1>4, <2>1
    <3> QED BY <2>1, <3>1, FS_EmptySet
  <2>2. CASE m # 0
    <3>1. m \in 1 .. m
      BY <1>1, <2>2
    <3>2. UpTo(I, e[m]) = I
      <4> SUFFICES ASSUME NEW i \in I PROVE i <= e[m]
        BY DEF UpTo
      <4>1. PICK l \in 1 .. m : e[l] = i
        BY <1>4
      <4>2. l = m \/ l < m
        BY <1>1
      <4> QED BY <1>2, <1>3, <3>1, <4>1, <4>2
    <3> QED BY <1>9, <3>1, <3>2
  <2> QED BY <2>1, <2>2
<1>11. /\ \A k \in 1 .. m : Nth(I, k) \in I /\ c(Nth(I, k)) = k
       /\ \A k, l \in 1 .. m : k < l => Nth(I, k) < Nth(I, l)
       /\ \A i \in I : \E k \in 1 .. m : Nth(I, k) = i
  <2>1. /\ \A k \in 1 .. Cardinality(I) : Nth(I, k) \in I /\ c(Nth(I, k)) = k
        /\ \A k, l \in 1 .. Cardinality(I) : k < l => Nth(I, k) < Nth(I, l)
        /\ \A i \in I : \E k \in 1 .. Cardinality(I) : Nth(I, k) = i
    BY NthEffect
  <2> QED BY <1>10, <2>1
<1>12. ASSUME NEW k \in 1 .. m PROVE Nth(I, k) = e[k]
  <2>1. PICK l \in 1 .. m : Nth(I, l) = e[k]
    BY <1>2, <1>11
  <2>2. l = k
    BY <1>9, <1>11, <2>1
  <2> QED BY <2>1, <2>2
<1> QED BY <1>10, <1>12

(* What embeds like what is kept is what is kept.                          *)
LEMMA KeptIs ==
    ASSUME NEW T, NEW q \in Seq(T), NEW I \in SUBSET DOMAIN q,
           NEW r \in Seq(T), NEW e, Embeds(e, q, I, r)
    PROVE  r = Kept(q, I)
<1> DEFINE n == Len(q)
           m == Len(r)
<1>1. n \in Nat /\ m \in Nat /\ DOMAIN q = 1 .. n /\ DOMAIN r = 1 .. m
  OBVIOUS
<1>2. /\ \A k \in 1 .. m : e[k] \in I /\ r[k] = q[e[k]]
      /\ \A k, l \in 1 .. m : k < l => e[k] < e[l]
      /\ \A i \in I : \E k \in 1 .. m : e[k] = i
  BY <1>1 DEF Embeds
<1> HIDE DEF n, m
<1>3. Cardinality(I) = m /\ \A k \in 1 .. m : Nth(I, k) = e[k]
  <2>1. I \in SUBSET (1 .. n)
    BY <1>1
  <2>2. Orders(e, I, m)
    BY <1>2 DEF Orders
  <2>5. n \in Nat /\ m \in Nat
    BY <1>1
  <2> QED BY <2>1, <2>2, <2>5, NthIs
<1> DEFINE t == Kept(q, I)
<1>4. t \in Seq(T) /\ Len(t) = m
  <2>1. t \in Seq(T) /\ Len(t) = Cardinality(I)
    BY KeptEffect
  <2> QED BY <1>3, <2>1
<1>5. \A k \in 1 .. m : t[k] = q[Nth(I, k)]
  BY <1>3 DEF Kept
<1> HIDE DEF t
<1>6. r = t
  BY <1>2, <1>3, <1>4, <1>5, SeqEqual DEF m
<1> QED BY <1>6 DEF t

(* What is kept of a stretch after what is kept before it is what is kept  *)
(* up to its end.                                                          *)
Follows(T, p, J, d, q, I, K) ==
  /\ q \in Seq(T) /\ I \in SUBSET DOMAIN q
  /\ p \in Seq(T) /\ J \in SUBSET DOMAIN p /\ d \in Nat
  /\ \A j \in J : j + d \in DOMAIN q /\ p[j] = q[j + d]
  /\ \A i \in I, j \in J : i < j + d
  /\ K = I \cup {j + d : j \in J}

LEMMA KeptGrows ==
    ASSUME NEW T, NEW p, NEW J, NEW d, NEW q, NEW I, NEW K, Follows(T, p, J, d, q, I, K)
    PROVE  Kept(q, I) \o Kept(p, J) = Kept(q, K)
<1> DEFINE u == Kept(q, I)
           v == Kept(p, J)
           m == Len(u)
           n == Len(v)
<1>a. /\ \A j \in J : j + d \in DOMAIN q /\ p[j] = q[j + d]
      /\ \A i \in I, j \in J : i < j + d
      /\ K = I \cup {j + d : j \in J}
  BY DEF Follows
<1>b. /\ q \in Seq(T) /\ I \in SUBSET DOMAIN q
       /\ p \in Seq(T) /\ J \in SUBSET DOMAIN p /\ d \in Nat
  BY DEF Follows
<1>1. u \in Seq(T) /\ \E e : Embeds(e, q, I, u)
  BY <1>b, KeptEffect
<1>2. v \in Seq(T) /\ \E f : Embeds(f, p, J, v)
  BY <1>b, KeptEffect
<1> HIDE DEF u, v
<1>3. m \in Nat /\ DOMAIN u = 1 .. m /\ n \in Nat /\ DOMAIN v = 1 .. n
  BY <1>1, <1>2
<1>4. PICK e : Embeds(e, q, I, u)
  BY <1>1
<1>5. PICK f : Embeds(f, p, J, v)
  BY <1>2
<1> DEFINE r == u \o v
<1>6. r \in Seq(T) /\ Joins(r, u, v)
  BY <1>1, <1>2, Concatenated
<1> HIDE DEF r
<1>7. /\ DOMAIN r = 1 .. m + n
      /\ \A k \in DOMAIN r : \/ k \in DOMAIN u /\ k <= m /\ r[k] = u[k]
                             \/ ~(k <= m) /\ k - m \in DOMAIN v /\ r[k] = v[k - m]
      /\ \A k \in DOMAIN u : k \in DOMAIN r /\ k <= m
      /\ \A k \in DOMAIN v : k + m \in DOMAIN r /\ ~(k + m <= m) /\ (k + m) - m = k
  <2>1. \A k \in DOMAIN v : ~(k + m <= m) /\ (k + m) - m = k
    BY <1>3
  <2>2. \A k \in 1 .. m + n : k > m => ~(k <= m)
    BY <1>3
  <2> QED BY <1>6, <2>1, <2>2 DEF Joins
<1> HIDE DEF m, n
<1> DEFINE g == [k \in DOMAIN r |-> IF k <= m THEN e[k] ELSE f[k - m] + d]
<1>8. /\ \A k \in DOMAIN u : e[k] \in I /\ u[k] = q[e[k]]
      /\ \A k, l \in DOMAIN u : k < l => e[k] < e[l]
      /\ \A i \in I : \E k \in DOMAIN u : e[k] = i
  BY <1>4 DEF Embeds
<1>9. /\ \A k \in DOMAIN v : f[k] \in J /\ v[k] = p[f[k]]
      /\ \A k, l \in DOMAIN v : k < l => f[k] < f[l]
      /\ \A j \in J : \E k \in DOMAIN v : f[k] = j
  BY <1>5 DEF Embeds
<1>10. \A j \in J : j \in Nat
  BY <1>b, Elements
<1>11. \A k \in DOMAIN r : \/ k \in DOMAIN u /\ g[k] = e[k] /\ g[k] \in I /\ r[k] = q[g[k]]
                           \/ /\ ~(k <= m) /\ k - m \in DOMAIN v /\ g[k] = f[k - m] + d
                              /\ f[k - m] \in J /\ g[k] \in K /\ r[k] = q[g[k]]
  <2> SUFFICES ASSUME NEW k \in DOMAIN r
               PROVE  \/ k \in DOMAIN u /\ g[k] = e[k] /\ g[k] \in I /\ r[k] = q[g[k]]
                      \/ /\ ~(k <= m) /\ k - m \in DOMAIN v /\ g[k] = f[k - m] + d
                         /\ f[k - m] \in J /\ g[k] \in K /\ r[k] = q[g[k]]
    OBVIOUS
  <2>1. CASE k \in DOMAIN u /\ k <= m /\ r[k] = u[k]
    <3>1. g[k] = e[k]
      BY <2>1
    <3> QED BY <1>8, <2>1, <3>1
  <2>2. CASE ~(k <= m) /\ k - m \in DOMAIN v /\ r[k] = v[k - m]
    <3>1. g[k] = f[k - m] + d
      BY <2>2
    <3> HIDE DEF g
    <3>2. f[k - m] \in J /\ v[k - m] = p[f[k - m]]
      BY <1>9, <2>2
    <3>3. g[k] \in K /\ p[f[k - m]] = q[g[k]]
      BY <1>a, <3>1, <3>2
    <3> QED BY <2>2, <3>1, <3>2, <3>3
  <2> QED BY <1>7, <2>1, <2>2
<1>12. g \in [DOMAIN r -> K]
  <2> SUFFICES ASSUME NEW k \in DOMAIN r PROVE g[k] \in K
    OBVIOUS
  <2> QED BY <1>a, <1>11
<1>13. \A i \in K : \E k \in DOMAIN r : g[k] = i
  <2> SUFFICES ASSUME NEW i \in K PROVE \E k \in DOMAIN r : g[k] = i
    OBVIOUS
  <2>1. CASE i \in I
    <3>1. PICK k \in DOMAIN u : e[k] = i
      BY <1>8, <2>1
    <3>2. k \in DOMAIN r /\ g[k] = e[k]
      BY <1>7
    <3> QED BY <3>1, <3>2
  <2>2. CASE i \notin I
    <3>1. PICK j \in J : i = j + d
      BY <1>a, <2>2
    <3>2. PICK k \in DOMAIN v : f[k] = j
      BY <1>9
    <3>3. k + m \in DOMAIN r /\ g[k + m] = f[(k + m) - m] + d /\ (k + m) - m = k
      BY <1>7
    <3> HIDE DEF g
    <3> QED BY <3>1, <3>2, <3>3
  <2> QED BY <2>1, <2>2
<1> HIDE DEF g
<1>14. ASSUME NEW k \in DOMAIN r, NEW l \in DOMAIN r, k < l PROVE g[k] < g[l]
  <2>1. k \in Nat /\ l \in Nat /\ m \in Nat /\ n \in Nat
    BY <1>3, <1>7
  <2>2. CASE k \in DOMAIN u /\ g[k] = e[k] /\ l \in DOMAIN u /\ g[l] = e[l]
    BY <1>8, <1>14, <2>2
  <2>3. CASE k \in DOMAIN u /\ g[k] = e[k] /\ l - m \in DOMAIN v /\ g[l] = f[l - m] + d
    BY <1>a, <1>b, <1>8, <1>9, <2>3
  <2>4. CASE /\ k - m \in DOMAIN v /\ g[k] = f[k - m] + d
             /\ l - m \in DOMAIN v /\ g[l] = f[l - m] + d
    <3>1. k - m < l - m
      BY <1>14, <2>1
    <3>2. f[k - m] < f[l - m]
      BY <1>9, <2>4, <3>1
    <3>3. f[k - m] \in Nat /\ f[l - m] \in Nat
      BY <1>9, <1>10, <2>4
    <3> QED BY <1>b, <2>4, <3>2, <3>3
  <2>5. CASE ~(k <= m) /\ l \in DOMAIN u
    <3>1. l <= m
      BY <1>7, <2>5
    <3> QED BY <1>14, <2>1, <2>5, <3>1
  <2> QED BY <1>11, <2>2, <2>3, <2>4, <2>5
<1>15. Embeds(g, q, K, r)
  <2>1. \A k \in DOMAIN r : r[k] = q[g[k]]
    BY <1>11
  <2>2. \A k, l \in DOMAIN r : k < l => g[k] < g[l]
    BY <1>14
  <2> QED BY <1>12, <1>13, <2>1, <2>2 DEF Embeds
<1>16. K \in SUBSET DOMAIN q
  BY <1>a, <1>b
<1>17. r = Kept(q, K)
  BY <1>b, <1>6, <1>15, <1>16, KeptIs
<1> QED BY <1>17 DEF r, u, v

LEMMA NothingKept ==
    ASSUME NEW T, NEW q \in Seq(T)
    PROVE  Kept(q, {}) = <<>>
<1>1. Kept(q, {}) \in Seq(T) /\ Len(Kept(q, {})) = 0
  BY KeptEffect, FS_EmptySet
<1> QED BY <1>1, EmptySeq
=============================================================================
