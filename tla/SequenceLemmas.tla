--------------------------- MODULE SequenceLemmas ---------------------------
(***************************************************************************)
(* Facts about sequences of any length that the proofs about data rest on. *)
(* Induction is over the least element of a set of naturals: a property of *)
(* numbers is given as the set of the numbers that have it.                *)
(***************************************************************************)
EXTENDS Integers, SequencesExt, SequenceTheorems, WellFoundedInduction, TLAPS

(* A set of naturals that is not empty has a least element. *)
LEMMA LeastNatural ==
  ASSUME NEW S \in SUBSET Nat, S # {}
  PROVE  \E m \in S : \A k \in S : m <= k
<1> DEFINE R == OpToRel(<, Nat)
<1>1. IsWellFoundedOn(R, Nat)
  BY NatLessThanWellFounded, Zenon
<1>2. \A x, y \in Nat : <<x, y>> \in R <=> x < y
  BY DEF OpToRel
<1> HIDE DEF R
<1>3. PICK m \in S : \A k \in S : ~ (<<k, m>> \in R)
  BY <1>1, WFMin
<1>4. \A k \in S : ~(k < m)
  BY <1>2, <1>3
<1>5. \A k \in S : k \in Nat /\ m \in Nat
  OBVIOUS
<1>6. \A k \in S : m <= k
  BY <1>4, <1>5
<1>7. QED
  BY <1>6

(* Induction from m up to n, P being the set of the numbers reached. *)
LEMMA Induction ==
  ASSUME NEW P, NEW m \in Nat, NEW n \in Nat, m \in P, \A k \in m..(n - 1) : k \in P => k + 1 \in P
  PROVE  \A k \in m..n : k \in P
<1> DEFINE Outside == (m..n) \ P
<1> SUFFICES ASSUME Outside # {} PROVE FALSE
  OBVIOUS
<1>1. Outside \in SUBSET Nat
  OBVIOUS
<1>2. \A k \in Outside : k \in m..n /\ k \notin P
  OBVIOUS
<1>3. \A k \in m..n : k \notin P => k \in Outside
  OBVIOUS
<1> HIDE DEF Outside
<1>4. PICK x \in Outside : \A k \in Outside : x <= k
  BY <1>1, LeastNatural
<1>5. x \in m..n /\ x # m /\ x - 1 \in m..(n - 1) /\ x - 1 \in m..n /\ ~(x <= x - 1) /\ (x - 1) + 1 = x
  BY <1>2, <1>4
<1>6. x - 1 \in P
  BY <1>3, <1>4, <1>5
<1>7. QED
  BY <1>2, <1>4, <1>5, <1>6

(* The running concatenation that FlattenSeq computes is a function. *)
Concats(s, g, n) == g = [j \in 1..n |-> IF j = 1 THEN s[j] ELSE g[j - 1] \o s[j]]

(* It exists for every length. *)
LEMMA ConcatsExist ==
  ASSUME NEW s, NEW n \in Nat \ {0}
  PROVE  \E g : Concats(s, g, n)
<1> DEFINE P == {m \in Nat : \E g : Concats(s, g, m)}
<1>1. 1 \in P
  <2> DEFINE h == [j \in 1..1 |-> s[j]]
  <2>1. h = [j \in 1..1 |-> IF j = 1 THEN s[j] ELSE h[j - 1] \o s[j]]
    OBVIOUS
  <2>2. Concats(s, h, 1)
    BY <2>1 DEF Concats
  <2>3. QED
    BY <2>2
<1>2. ASSUME NEW m \in 1..(n - 1), m \in P PROVE m + 1 \in P
  <2>1. PICK g : Concats(s, g, m)
    BY <1>2
  <2>2. \A j \in 1..m : g[j] = IF j = 1 THEN s[j] ELSE g[j - 1] \o s[j]
    BY <2>1 DEF Concats
  <2> DEFINE h == [j \in 1..(m + 1) |-> IF j <= m THEN g[j] ELSE g[m] \o s[m + 1]]
  <2>3. ASSUME NEW j \in 1..(m + 1) PROVE h[j] = IF j = 1 THEN s[j] ELSE h[j - 1] \o s[j]
    <3>1. CASE j <= m
      <4>1. j \in 1..m /\ h[j] = g[j]
        BY <3>1
      <4>2. j # 1 => j - 1 \in 1..(m + 1) /\ j - 1 <= m /\ h[j - 1] = g[j - 1]
        BY <3>1
      <4>3. QED
        BY <2>2, <4>1, <4>2
    <3>2. CASE j = m + 1
      <4>1. m \in Nat /\ m \in 1..(m + 1) /\ m + 1 \in 1..(m + 1) /\ ~(m + 1 <= m) /\ m <= m /\ m + 1 # 1
        BY <1>2
      <4>2. h[m + 1] = g[m] \o s[m + 1] /\ h[m] = g[m]
        BY <4>1
      <4>3. (m + 1) - 1 = m
        BY <4>1
      <4> HIDE DEF h
      <4>4. QED
        BY <3>2, <4>1, <4>2, <4>3
    <3>3. QED
      BY <3>1, <3>2
  <2>4. h = [j \in 1..(m + 1) |-> IF j = 1 THEN s[j] ELSE h[j - 1] \o s[j]]
    BY <2>3
  <2>5. Concats(s, h, m + 1)
    BY <2>4 DEF Concats
  <2>6. QED
    BY <2>5
<1> HIDE DEF P
<1>3. n \in P
  BY <1>1, <1>2, Induction
<1>4. QED
  BY <1>3 DEF P

(* FlattenSeq returns its last value. *)
LEMMA FlattenUnfolds ==
  ASSUME NEW s, Len(s) \in Nat \ {0}
  PROVE  \E g : Concats(s, g, Len(s)) /\ FlattenSeq(s) = g[Len(s)]
<1>1. \E g : Concats(s, g, Len(s))
  BY ConcatsExist
<1>2. QED
  BY <1>1 DEF FlattenSeq, Concats

(* What is in the concatenation c of a and b, and where. *)
Glued(S, a, b, c) ==
  /\ c \in Seq(S) /\ Len(a) \in Nat /\ Len(b) \in Nat /\ Len(c) = Len(a) + Len(b)
  /\ \A p \in 1..Len(a) : c[p] = a[p]
  /\ \A j \in 1..Len(b) : c[Len(a) + j] = b[j]

LEMMA ConcatFacts ==
  ASSUME NEW S, NEW a \in Seq(S), NEW b \in Seq(S)
  PROVE  Glued(S, a, b, a \o b)
<1> DEFINE c == a \o b
<1>1. Len(a) \in Nat /\ Len(b) \in Nat
  BY LenProperties
<1>2. /\ c \in Seq(S) /\ Len(c) = Len(a) + Len(b)
      /\ \A p \in 1..(Len(a) + Len(b)) : c[p] = IF p <= Len(a) THEN a[p] ELSE b[p - Len(a)]
  BY ConcatProperties, Zenon
<1> HIDE DEF c
<1>3. ASSUME NEW p \in 1..Len(a) PROVE c[p] = a[p]
  <2>1. p \in 1..(Len(a) + Len(b)) /\ p <= Len(a)
    BY <1>1
  <2>2. QED
    BY <1>2, <2>1, Zenon
<1>4. ASSUME NEW j \in 1..Len(b) PROVE c[Len(a) + j] = b[j]
  <2> DEFINE p == Len(a) + j
  <2>1. p \in 1..(Len(a) + Len(b)) /\ ~(p <= Len(a)) /\ p - Len(a) = j
    BY <1>1
  <2> HIDE DEF p
  <2>2. c[p] = b[j]
    BY <1>2, <2>1, Zenon
  <2>3. QED
    BY <2>2 DEF p
<1>5. Glued(S, a, b, c)
  BY <1>1, <1>2, <1>3, <1>4, Zenon DEF Glued
<1>6. QED
  BY <1>5, Zenon DEF c

(* Each value is the one before it and the next piece. *)
Extends(s, g, k) ==
  /\ Len(g[k]) = Len(g[k - 1]) + Len(s[k])
  /\ \A p \in 1..Len(g[k - 1]) : g[k][p] = g[k - 1][p]
  /\ \A j \in 1..Len(s[k]) : g[k][Len(g[k - 1]) + j] = s[k][j]

LEMMA ConcatsGrow ==
  ASSUME NEW S, NEW s \in Seq(Seq(S)), NEW g, Concats(s, g, Len(s))
  PROVE  /\ \A k \in 1..Len(s) : g[k] \in Seq(S) /\ Len(g[k]) \in Nat /\ Len(s[k]) \in Nat
         /\ Len(s) > 0 => g[1] = s[1]
         /\ \A k \in 2..Len(s) : Extends(s, g, k)
<1>1. Len(s) \in Nat /\ \A k \in 1..Len(s) : s[k] \in Seq(S)
  BY ElementOfSeq, LenProperties
<1>2. \A k \in 1..Len(s) : g[k] = IF k = 1 THEN s[k] ELSE g[k - 1] \o s[k]
  BY DEF Concats
<1>3. Len(s) > 0 => g[1] = s[1]
  BY <1>1, <1>2
<1>4. \A k \in 2..Len(s) : g[k] = g[k - 1] \o s[k]
  <2>1. ASSUME NEW k \in 2..Len(s) PROVE k \in 1..Len(s) /\ k # 1
    BY <1>1
  <2>2. QED
    BY <1>2, <2>1, Zenon
<1>5. ASSUME Len(s) > 0 PROVE \A k \in 1..Len(s) : g[k] \in Seq(S)
  <2> DEFINE P == {k \in Nat : g[k] \in Seq(S)}
  <2>1. 1 \in P
    BY <1>1, <1>3, <1>5
  <2>2. ASSUME NEW k \in 1..(Len(s) - 1), k \in P PROVE k + 1 \in P
    <3>1. k \in Nat /\ k + 1 \in Nat /\ k + 1 \in 2..Len(s) /\ (k + 1) - 1 = k /\ k + 1 \in 1..Len(s)
      BY <1>1
    <3>2. g[k + 1] = g[k] \o s[k + 1]
      BY <1>4, <3>1
    <3>3. g[k] \in Seq(S) /\ s[k + 1] \in Seq(S)
      BY <1>1, <2>2, <3>1
    <3>4. g[k + 1] \in Seq(S)
      BY <3>2, <3>3, ConcatProperties, Zenon
    <3>5. QED
      BY <3>1, <3>4
  <2> HIDE DEF P
  <2>3. \A k \in 1..Len(s) : k \in P
    BY <1>1, <2>1, <2>2, Induction
  <2>4. QED
    BY <2>3 DEF P
<1>6. \A k \in 1..Len(s) : g[k] \in Seq(S)
  BY <1>1, <1>5
<1>7. \A k \in 1..Len(s) : Len(g[k]) \in Nat /\ Len(s[k]) \in Nat
  BY <1>1, <1>6, LenProperties, Zenon
<1>8. ASSUME NEW k \in 2..Len(s) PROVE Extends(s, g, k)
  <2> DEFINE a == g[k - 1]
             b == s[k]
             c == g[k]
  <2>1. k \in 1..Len(s) /\ k - 1 \in 1..Len(s)
    BY <1>1
  <2>2. a \in Seq(S) /\ b \in Seq(S) /\ c = a \o b
    BY <1>1, <1>4, <1>6, <2>1, Zenon
  <2> HIDE DEF a, b, c
  <2>3. /\ Len(c) = Len(a) + Len(b)
        /\ \A p \in 1..Len(a) : c[p] = a[p]
        /\ \A j \in 1..Len(b) : c[Len(a) + j] = b[j]
    <3>1. Glued(S, a, b, c)
      BY <2>2, ConcatFacts, Zenon
    <3>2. QED
      BY <3>1, Zenon DEF Glued
  <2>4. QED
    BY <2>3, Zenon DEF a, b, c, Extends
<1>9. QED
  BY <1>3, <1>6, <1>7, <1>8, Zenon

(* What has been concatenated stays in front. *)
LEMMA ConcatsPrefix ==
  ASSUME NEW S, NEW s \in Seq(Seq(S)), NEW g, Concats(s, g, Len(s)),
         NEW k \in 1..Len(s)
  PROVE  \A m \in k..Len(s) : /\ Len(g[k]) <= Len(g[m])
                              /\ \A p \in 1..Len(g[k]) : g[m][p] = g[k][p]
<1> DEFINE P == {m \in Nat : Len(g[k]) <= Len(g[m]) /\ \A p \in 1..Len(g[k]) : g[m][p] = g[k][p]}
<1>1. Len(s) \in Nat /\ k \in Nat /\ \A m \in 1..Len(s) : s[m] \in Seq(S)
  BY ElementOfSeq, LenProperties
<1>2. /\ \A m \in 1..Len(s) : Len(g[m]) \in Nat /\ Len(s[m]) \in Nat
      /\ \A m \in 2..Len(s) : Extends(s, g, m)
  BY ConcatsGrow, Zenon
<1>3. k \in P
  BY <1>1, <1>2
<1>4. ASSUME NEW m \in k..(Len(s) - 1), m \in P PROVE m + 1 \in P
  <2>1. m \in 1..Len(s) /\ m + 1 \in 2..Len(s) /\ m + 1 \in 1..Len(s) /\ (m + 1) - 1 = m /\ m + 1 \in Nat
    BY <1>1
  <2>2. Len(g[m]) \in Nat /\ Len(s[m + 1]) \in Nat /\ Len(g[k]) \in Nat /\ Len(g[m + 1]) \in Nat
    BY <1>2, <2>1, Zenon
  <2>3. /\ Len(g[m + 1]) = Len(g[m]) + Len(s[m + 1])
        /\ \A p \in 1..Len(g[m]) : g[m + 1][p] = g[m][p]
    <3>1. Extends(s, g, m + 1)
      BY <1>2, <2>1, Zenon
    <3>2. QED
      BY <2>1, <3>1, Zenon DEF Extends
  <2>5. Len(g[k]) <= Len(g[m]) /\ \A p \in 1..Len(g[k]) : g[m][p] = g[k][p]
    BY <1>4
  <2>6. Len(g[k]) <= Len(g[m + 1])
    <3> DEFINE a == Len(g[k])
               b == Len(g[m])
               c == Len(s[m + 1])
    <3>1. a \in Nat /\ b \in Nat /\ c \in Nat /\ a <= b
      BY <2>2, <2>5
    <3>2. Len(g[m + 1]) = b + c
      BY <2>3
    <3> HIDE DEF a, b, c
    <3>3. a <= b + c
      BY <3>1
    <3>4. QED
      BY <3>2, <3>3 DEF a
  <2>7. ASSUME NEW p \in 1..Len(g[k]) PROVE g[m + 1][p] = g[k][p]
    <3>1. p \in 1..Len(g[m])
      BY <2>2, <2>5
    <3>2. QED
      BY <2>3, <2>5, <3>1, Zenon
  <2>8. QED
    BY <2>1, <2>6, <2>7
<1> HIDE DEF P
<1>5. \A m \in k..Len(s) : m \in P
  BY <1>1, <1>3, <1>4, Induction
<1>6. QED
  BY <1>5 DEF P

(* Where the pieces of a concatenation begin: after off[k - 1] elements    *)
(* comes the k-th one.                                                     *)
Layout(s, t, off) ==
  /\ off \in [0..Len(s) -> Nat] /\ off[0] = 0 /\ off[Len(s)] = Len(t)
  /\ \A k \in 1..Len(s) :
       /\ off[k] = off[k - 1] + Len(s[k]) /\ off[k] <= Len(t)
       /\ \A j \in 1..Len(s[k]) : t[off[k - 1] + j] = s[k][j]

(* FlattenSeq lays its pieces out one after the other. *)
LEMMA FlattenLayout ==
  ASSUME NEW S, NEW s \in Seq(Seq(S))
  PROVE  FlattenSeq(s) \in Seq(S) /\ \E off : Layout(s, FlattenSeq(s), off)
<1>1. Len(s) \in Nat /\ \A k \in 1..Len(s) : s[k] \in Seq(S) /\ Len(s[k]) \in Nat
  BY ElementOfSeq, LenProperties
<1>2. CASE Len(s) = 0
  <2>1. s = <<>> /\ FlattenSeq(s) = <<>>
    BY <1>2, EmptySeq DEF FlattenSeq
  <2> DEFINE off == [k \in 0..0 |-> 0]
  <2>2. Layout(s, <<>>, off)
    BY <1>2, <2>1 DEF Layout
  <2>3. QED
    BY <2>1, <2>2
<1>3. CASE Len(s) # 0
  <2>1. PICK g : Concats(s, g, Len(s)) /\ FlattenSeq(s) = g[Len(s)]
    BY <1>1, <1>3, FlattenUnfolds
  <2>2. Len(s) > 0
    BY <1>1, <1>3
  <2> DEFINE t == g[Len(s)]
             off == [k \in 0..Len(s) |-> IF k = 0 THEN 0 ELSE Len(g[k])]
  <2>3. /\ off \in [0..Len(s) -> Nat] /\ off[0] = 0
        /\ \A k \in 1..Len(s) : off[k] = Len(g[k])
    <3>1. \A k \in 1..Len(s) : Len(g[k]) \in Nat
      BY <2>1, ConcatsGrow, Zenon
    <3>2. QED
      BY <1>1, <3>1
  <2> HIDE DEF off
  <2>4. \A k \in 1..Len(s) : Len(g[k]) <= Len(t) /\ \A p \in 1..Len(g[k]) : t[p] = g[k][p]
    <3>1. \A k \in 1..Len(s) : Len(s) \in k..Len(s)
      BY <1>1
    <3>2. QED
      BY <2>1, <3>1, ConcatsPrefix
  <2>5. ASSUME NEW k \in 1..Len(s)
        PROVE  /\ off[k] = off[k - 1] + Len(s[k])
               /\ \A j \in 1..Len(s[k]) : g[k][off[k - 1] + j] = s[k][j]
    <3>1. CASE k = 1
      <4>1. g[1] = s[1] /\ Len(s[1]) \in Nat
        BY <1>1, <2>1, <2>2, <3>1, ConcatsGrow
      <4>2. QED
        BY <2>3, <3>1, <4>1
    <3>2. CASE k # 1
      <4>1. k \in 2..Len(s) /\ k - 1 \in 1..Len(s)
        BY <1>1, <3>2
      <4>2. off[k] = Len(g[k]) /\ off[k - 1] = Len(g[k - 1])
        BY <2>3, <4>1, Zenon
      <4>3. Extends(s, g, k)
        BY <2>1, <4>1, ConcatsGrow, Zenon
      <4>4. QED
        BY <4>2, <4>3, Zenon DEF Extends
    <3>3. QED
      BY <3>1, <3>2
  <2>6. ASSUME NEW k \in 1..Len(s), NEW j \in 1..Len(s[k])
        PROVE  t[off[k - 1] + j] = s[k][j]
    <3>1. k - 1 \in 0..Len(s)
      BY <1>1
    <3>2. off[k - 1] \in Nat /\ off[k] = off[k - 1] + Len(s[k]) /\ off[k] = Len(g[k]) /\ Len(s[k]) \in Nat
      BY <1>1, <2>3, <2>5, <3>1, Zenon
    <3>3. off[k - 1] + j \in 1..Len(g[k])
      BY <3>2
    <3>4. QED
      BY <2>4, <2>5, <3>3, Zenon
  <2>7. Len(s) \in 1..Len(s)
    BY <1>1, <1>3
  <2>8. Layout(s, t, off)
    BY <2>3, <2>4, <2>5, <2>6, <2>7 DEF Layout
  <2>9. t \in Seq(S)
    BY <2>1, <2>7, ConcatsGrow, Zenon
  <2>10. QED
    BY <2>1, <2>8, <2>9
<1>4. QED
  BY <1>2, <1>3

(* Two and three pieces. *)
LEMMA FlattenTwo ==
  ASSUME NEW s, Len(s) = 2
  PROVE  FlattenSeq(s) = s[1] \o s[2]
<1>1. PICK g : Concats(s, g, 2) /\ FlattenSeq(s) = g[2]
  <2>1. Len(s) \in Nat \ {0}
    OBVIOUS
  <2>2. QED
    BY <2>1, FlattenUnfolds, Zenon
<1>2. \A j \in 1..2 : g[j] = IF j = 1 THEN s[j] ELSE g[j - 1] \o s[j]
  BY <1>1, Zenon DEF Concats
<1>3. 1 \in 1..2 /\ 2 \in 1..2 /\ 2 # 1 /\ 2 - 1 = 1
  OBVIOUS
<1>4. g[1] = s[1] /\ g[2] = g[1] \o s[2]
  BY <1>2, <1>3, Zenon
<1>5. QED
  BY <1>1, <1>4, Zenon

LEMMA FlattenThree ==
  ASSUME NEW s, Len(s) = 3
  PROVE  FlattenSeq(s) = (s[1] \o s[2]) \o s[3]
<1>1. PICK g : Concats(s, g, 3) /\ FlattenSeq(s) = g[3]
  <2>1. Len(s) \in Nat \ {0}
    OBVIOUS
  <2>2. QED
    BY <2>1, FlattenUnfolds, Zenon
<1>2. \A j \in 1..3 : g[j] = IF j = 1 THEN s[j] ELSE g[j - 1] \o s[j]
  BY <1>1, Zenon DEF Concats
<1>3. 1 \in 1..3 /\ 2 \in 1..3 /\ 3 \in 1..3 /\ 2 # 1 /\ 3 # 1 /\ 2 - 1 = 1 /\ 3 - 1 = 2
  OBVIOUS
<1>4. g[1] = s[1] /\ g[2] = g[1] \o s[2] /\ g[3] = g[2] \o s[3]
  BY <1>2, <1>3, Zenon
<1>5. QED
  BY <1>1, <1>4, Zenon

(* A concatenation ends with its second part, and the first is what is in  *)
(* front of that.                                                          *)
LEMMA SuffixOfConcat ==
  ASSUME NEW S, NEW a \in Seq(S), NEW b \in Seq(S)
  PROVE  IsSuffix(b, a \o b) /\ SubSeq(a \o b, 1, Len(a \o b) - Len(b)) = a
<1> DEFINE c == a \o b
<1>1. Glued(S, a, b, c)
  BY ConcatFacts, Zenon
<1> HIDE DEF c
<1> DEFINE x == Len(a)
           y == Len(b)
<1>2. /\ c \in Seq(S) /\ x \in Nat /\ y \in Nat /\ Len(c) = x + y
      /\ \A p \in 1..x : c[p] = a[p]
      /\ \A j \in 1..y : c[x + j] = b[j]
  BY <1>1, Zenon DEF Glued
<1>3. SubSeq(c, 1, Len(c) - y) = a
  <2> DEFINE s == SubSeq(c, 1, x)
  <2>1. Len(c) - y = x /\ x \in Int
    BY <1>2
  <2>2. \A p \in 1..x : c[p] \in S
    BY <1>2
  <2>3. s \in Seq(S) /\ Len(s) = (IF 1 <= x THEN x - 1 + 1 ELSE 0) /\ \A p \in 1..(x - 1 + 1) : s[p] = c[1 + p - 1]
    BY <2>1, <2>2, SubSeqProperties
  <2> HIDE DEF s
  <2>4. Len(s) = x /\ \A p \in 1..x : s[p] = a[p]
    BY <1>2, <2>3
  <2>5. s = a
    BY <2>3, <2>4, SeqEqual
  <2>6. QED
    BY <2>1, <2>5 DEF s
<1>4. IsSuffix(b, c)
  <2> DEFINE rb == Reverse(b)
             rc == Reverse(c)
             u == SubSeq(rb, 1, y)
             v == SubSeq(rc, 1, y)
  <2>1. \A p \in 1..y : b[p] \in S
    OBVIOUS
  <2>2. Len(rb) = y /\ \A p \in 1..y : rb[p] = b[(y - p) + 1]
    BY <1>2 DEF Reverse
  <2>3. Len(rc) = x + y /\ \A p \in 1..(x + y) : rc[p] = c[(x + y - p) + 1]
    BY <1>2 DEF Reverse
  <2> HIDE DEF rb, rc
  <2>4. ASSUME NEW p \in 1..y PROVE rb[p] \in S /\ rc[p] = rb[p]
    <3> DEFINE j == (y - p) + 1
    <3>1. j \in 1..y /\ p \in 1..(x + y) /\ (x + y - p) + 1 = x + j
      BY <1>2
    <3> HIDE DEF j
    <3>2. rb[p] = b[j] /\ rc[p] = c[x + j]
      BY <2>2, <2>3, <3>1, Zenon DEF j
    <3>3. QED
      BY <1>2, <2>1, <3>1, <3>2, Zenon
  <2>5. y \in Int /\ 1 \in Int
    BY <1>2
  <2>6. u \in Seq(S) /\ Len(u) = (IF 1 <= y THEN y - 1 + 1 ELSE 0) /\ \A p \in 1..(y - 1 + 1) : u[p] = rb[1 + p - 1]
    BY <2>4, <2>5, SubSeqProperties
  <2>7. v \in Seq(S) /\ Len(v) = (IF 1 <= y THEN y - 1 + 1 ELSE 0) /\ \A p \in 1..(y - 1 + 1) : v[p] = rc[1 + p - 1]
    BY <2>4, <2>5, SubSeqProperties
  <2> HIDE DEF u, v
  <2>8. Len(u) = y /\ \A p \in 1..y : u[p] = rb[p]
    BY <1>2, <2>6
  <2>9. Len(v) = y /\ \A p \in 1..y : v[p] = rc[p]
    BY <1>2, <2>7
  <2>10. \A p \in 1..y : u[p] = v[p]
    BY <2>4, <2>8, <2>9, Zenon
  <2>11. u = v
    BY <2>6, <2>7, <2>8, <2>9, <2>10, SeqEqual
  <2>12. Len(rb) <= Len(rc)
    BY <1>2, <2>2, <2>3
  <2>13. QED
    BY <2>2, <2>11, <2>12 DEF IsSuffix, IsPrefix, rb, rc, u, v
<1>5. QED
  BY <1>3, <1>4, Zenon DEF c

(* The greatest element of a set of numbers, and the least. *)
LEMMA MaxIs ==
  ASSUME NEW S \in SUBSET Int, NEW m \in S, \A y \in S : m >= y
  PROVE  Max(S) = m
<1>1. \A x \in S : (\A y \in S : x >= y) => x = m
  OBVIOUS
<1>2. QED
  BY <1>1, Zenon DEF Max

LEMMA MinIs ==
  ASSUME NEW S \in SUBSET Int, NEW m \in S, \A y \in S : m <= y
  PROVE  Min(S) = m
<1>1. \A x \in S : (\A y \in S : x <= y) => x = m
  OBVIOUS
<1>2. QED
  BY <1>1, Zenon DEF Min

LEMMA PartsOfConcat ==
  ASSUME NEW S, NEW a \in Seq(S), a # <<>>, NEW b \in Seq(S), b # <<>>
  PROVE  /\ SubSeq(a \o b, 1, Len(a)) = a
         /\ SubSeq(a \o b, Len(a) + 1, Len(a) + Len(b)) = b
<1> DEFINE m == Len(a)
           n == Len(b)
<1>1. m \in Nat /\ n \in Nat /\ m # 0 /\ n # 0
  BY EmptySeq, LenProperties
<1>2. /\ 1 \in 1..m /\ m \in 1..m /\ m + 1 \in (m + 1)..(m + n) /\ m + n \in (m + 1)..(m + n)
      /\ (m + 1) - m = 1 /\ (m + n) - m = n
  BY <1>1
<1>3. SubSeq(a \o b, 1, m) = SubSeq(a, 1, m)
  BY <1>2, SubSeqOfConcat1, Zenon
<1>4. SubSeq(a \o b, m + 1, m + n) = SubSeq(b, (m + 1) - m, (m + n) - m)
  <2> DEFINE p == m + 1
             q == m + n
  <2>1. p \in (Len(a) + 1)..(Len(a) + Len(b)) /\ q \in (Len(a) + 1)..(Len(a) + Len(b))
    BY <1>2
  <2> HIDE DEF p, q
  <2>2. SubSeq(a \o b, p, q) = SubSeq(b, p - Len(a), q - Len(a))
    BY <2>1, SubSeqOfConcat2, Zenon
  <2>3. QED
    BY <2>2, Zenon DEF p, q
<1>5. SubSeq(a, 1, m) = a /\ SubSeq(b, 1, n) = b
  BY SubSeqFull, Zenon
<1>6. QED
  BY <1>2, <1>3, <1>4, <1>5, Zenon
=============================================================================
