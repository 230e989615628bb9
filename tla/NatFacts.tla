------------------------------ MODULE NatFacts ------------------------------
(***************************************************************************)
(* Facts about natural numbers and sequences that the proofs of several    *)
(* components use.                                                         *)
(***************************************************************************)
EXTENDS Integers, Sequences, TLAPS, WellFoundedInduction

(* A set of naturals that is not empty has a least element.                *)
LEMMA LeastNat ==
  ASSUME NEW S \in SUBSET Nat, S # {}
  PROVE  \E x \in S : \A y \in S : x <= y
<1>1. \E x \in S : \A y \in S : ~(<<y, x>> \in OpToRel(<, Nat))
  BY NatLessThanWellFounded, WFMin
<1>2. PICK x \in S : \A y \in S : ~(<<y, x>> \in OpToRel(<, Nat))
  BY <1>1
<1>3. ASSUME NEW y \in S PROVE x <= y
  <2>1. ~(<<y, x>> \in OpToRel(<, Nat))
    BY <1>2
  <2>2. ~(y < x)
    BY <2>1 DEF OpToRel
  <2> QED
    BY <2>2
<1> QED
  BY <1>3

LEMMA Concatenated ==
  ASSUME NEW S, NEW c \in Seq(S), NEW d \in Seq(S)
  PROVE  /\ c \o d \in Seq(S) /\ Len(c \o d) = Len(c) + Len(d)
         /\ \A i \in 1 .. Len(c) + Len(d) :
               (c \o d)[i] = IF i <= Len(c) THEN c[i] ELSE d[i - Len(c)]
OBVIOUS

(* A sequence without its k-th element.                                    *)
LEMMA Removed ==
  ASSUME NEW S, NEW c \in Seq(S), NEW k \in DOMAIN c
  PROVE  LET r == SubSeq(c, 1, k - 1) \o SubSeq(c, k + 1, Len(c))
         IN  /\ r \in Seq(S) /\ Len(r) = Len(c) - 1
             /\ \A i \in 1 .. Len(c) - 1 : r[i] = IF i < k THEN c[i] ELSE c[i + 1]
<1> DEFINE front == SubSeq(c, 1, k - 1)
           back == SubSeq(c, k + 1, Len(c))
<1>1. k \in 1 .. Len(c) /\ Len(c) \in Nat
  OBVIOUS
<1>2. /\ front \in Seq(S) /\ Len(front) = k - 1
      /\ \A i \in 1 .. k - 1 : front[i] = c[i]
  BY <1>1
<1>3. /\ back \in Seq(S) /\ Len(back) = Len(c) - k
      /\ \A i \in 1 .. Len(c) - k : back[i] = c[i + k]
  BY <1>1
<1> HIDE DEF front, back
<1>4. Len(front) + Len(back) = Len(c) - 1 /\ k - 1 \in Nat
  BY <1>1, <1>2, <1>3
<1>5. /\ front \o back \in Seq(S) /\ Len(front \o back) = Len(front) + Len(back)
      /\ \A i \in 1 .. Len(front) + Len(back) :
            (front \o back)[i] = IF i <= Len(front) THEN front[i]
                                 ELSE back[i - Len(front)]
  BY <1>2, <1>3, Concatenated
<1>6. ASSUME NEW i \in 1 .. Len(c) - 1
      PROVE  (front \o back)[i] = IF i < k THEN c[i] ELSE c[i + 1]
  <2>1. CASE i < k
    BY <1>1, <1>2, <1>4, <1>5, <2>1
  <2>2. CASE ~ (i < k)
    <3>1. i - (k - 1) \in 1 .. Len(c) - k /\ (i - (k - 1)) + k = i + 1
      BY <1>1, <2>2
    <3>2. back[i - (k - 1)] = c[(i - (k - 1)) + k]
      BY <1>3, <3>1
    <3>3. (front \o back)[i] = back[i - (k - 1)]
      BY <1>1, <1>2, <1>4, <1>5, <2>2
    <3> QED
      BY <2>2, <3>1, <3>2, <3>3
  <2> QED
    BY <2>1, <2>2
<1> QED
  BY <1>4, <1>5, <1>6 DEF front, back

(* Sequences with the same elements are the same.                          *)
LEMMA SameSeq ==
  ASSUME NEW S, NEW T, NEW c \in Seq(S), NEW d \in Seq(T), Len(c) = Len(d),
         \A i \in 1 .. Len(c) : c[i] = d[i]
  PROVE  c = d
<1>1. c = [i \in 1 .. Len(c) |-> c[i]] /\ d = [i \in 1 .. Len(d) |-> d[i]]
  OBVIOUS
<1> QED
  BY <1>1

LEMMA SameElements ==
  ASSUME NEW S, NEW c \in Seq(S), NEW d \in Seq(S), Len(c) = Len(d),
         \A i \in 1 .. Len(c) : c[i] = d[i]
  PROVE  c = d
BY SameSeq

LEMMA Joined ==
  ASSUME NEW B, NEW a \in Seq(B), NEW b \in Seq(B), NEW c \in Seq(B)
  PROVE  (a \o b) \o c = a \o (b \o c)
<1>1. /\ a \o b \in Seq(B) /\ Len(a \o b) = Len(a) + Len(b)
      /\ b \o c \in Seq(B) /\ Len(b \o c) = Len(b) + Len(c)
  BY Concatenated
<1>2. /\ (a \o b) \o c \in Seq(B) /\ Len((a \o b) \o c) = Len(a) + Len(b) + Len(c)
      /\ a \o (b \o c) \in Seq(B) /\ Len(a \o (b \o c)) = Len(a) + Len(b) + Len(c)
  BY <1>1, Concatenated
<1>3. ASSUME NEW i \in 1 .. Len(a) + Len(b) + Len(c)
      PROVE  ((a \o b) \o c)[i] = (a \o (b \o c))[i]
  <2>1. i \in Int /\ Len(a) \in Nat /\ Len(b) \in Nat /\ Len(c) \in Nat
    OBVIOUS
  <2>2. /\ ((a \o b) \o c)[i] = IF i <= Len(a) + Len(b) THEN (a \o b)[i]
                               ELSE c[i - (Len(a) + Len(b))]
        /\ (a \o (b \o c))[i] = IF i <= Len(a) THEN a[i] ELSE (b \o c)[i - Len(a)]
    BY <1>1, <2>1, Concatenated
  <2>3. CASE i <= Len(a)
    <3>1. (a \o b)[i] = a[i]
      BY <2>1, <2>3, Concatenated
    <3> QED
      BY <2>1, <2>2, <2>3, <3>1
  <2>4. CASE i > Len(a) /\ i <= Len(a) + Len(b)
    <3>1. (a \o b)[i] = b[i - Len(a)] /\ (b \o c)[i - Len(a)] = b[i - Len(a)]
      BY <2>1, <2>4, Concatenated
    <3> QED
      BY <2>1, <2>2, <2>4, <3>1
  <2>5. CASE i > Len(a) + Len(b)
    <3>1. (b \o c)[i - Len(a)] = c[(i - Len(a)) - Len(b)]
      BY <2>1, <2>5, Concatenated
    <3>2. (i - Len(a)) - Len(b) = i - (Len(a) + Len(b))
      BY <2>1
    <3> QED
      BY <2>1, <2>2, <2>5, <3>1, <3>2
  <2> QED
    BY <2>1, <2>3, <2>4, <2>5
<1> QED
  BY <1>2, <1>3, SameElements

(* Induction up to n.                                                      *)
LEMMA UpTo ==
  ASSUME NEW n \in Nat, NEW Q \in SUBSET Nat, 0 \in Q,
         \A k \in 1 .. n : k - 1 \in Q => k \in Q
  PROVE  n \in Q
<1> DEFINE Bad == 0 .. n \ Q
<1>1. ASSUME Bad # {} PROVE FALSE
  <2>1. Bad \in SUBSET Nat
    OBVIOUS
  <2>2. PICK k \in Bad : \A j \in Bad : k <= j
    <3> HIDE DEF Bad
    <3> QED
      BY <1>1, <2>1, LeastNat
  <2>3. k \in 1 .. n /\ k - 1 \in 0 .. n
    BY <2>2
  <2>4. k - 1 \in Q
    BY <2>2, <2>3
  <2> QED
    BY <2>2, <2>3, <2>4
<1> QED
  BY <1>1

=============================================================================
