------------------------- MODULE AllocatorProofs -------------------------
(***************************************************************************)
(* Proof that the implicit and the explicit heap stay sound after any      *)
(* sequence of calls, for every chunk, every memory and any sizes: the     *)
(* blocks tile the heap, no word is lost, no block overlaps another, the   *)
(* allocated ones are those the client holds, and the explicit list links  *)
(* the free ones, once each and both ways.                                 *)
(*                                                                         *)
(* The set of the blocks is quantified, not computed: a call cuts the heap *)
(* in three parts, tiles the middle one anew, and joins them again.  So is *)
(* the order of the list: some numbering of the nodes grows along it.      *)
(***************************************************************************)
EXTENDS ImplicitHeap, NatFacts, FiniteSetTheorems

-----------------------------------------------------------------------------
(* Boundary tags.                                                          *)

(* At b begins a block of n words with equal tags.                         *)
Tagged(m, b, n) == /\ n \in Nat /\ n % 2 = 0 /\ 4 <= n
                   /\ m[b] \in {4 * n, 4 * n + 1}
                   /\ m[b + n - 1] = m[b]

(* What a tag says of its block.                                           *)
LEMMA TagRead ==
  ASSUME NEW m, NEW b \in Nat, NEW n \in Nat, n % 2 = 0, NEW a \in {0, 1},
         m[b] = 4 * n + a
  PROVE  /\ block_size(m, b) = 4 * n
         /\ block_next(m, b) = b + n
         /\ footer(m, b) = b + n - 1
         /\ IsFree(m, b) <=> a = 0
<1>1. PICK q \in Nat : n = 2 * q
  <2>1. n \div 2 \in Nat /\ n = 2 * (n \div 2)
    OBVIOUS
  <2> QED
    BY <2>1
<1>2. m[b] = 8 * q + a
  BY <1>1
<1>3. m[b] % 8 = a /\ m[b] % 2 = a
  BY <1>2
<1>4. block_size(m, b) = 4 * n
  BY <1>1, <1>2, <1>3 DEF block_size
<1>5. block_next(m, b) = b + n
  BY <1>4 DEF block_next, WSIZE
<1>6. footer(m, b) = b + n - 1
  BY <1>5 DEF footer
<1>7. IsFree(m, b) <=> a = 0
  BY <1>3 DEF IsFree
<1> QED
  BY <1>4, <1>5, <1>6, <1>7

LEMMA PrevRead ==
  ASSUME NEW m, NEW b \in Nat, 0 < b, NEW n \in Nat, n % 2 = 0, NEW a \in {0, 1},
         m[b - 1] = 4 * n + a
  PROVE  block_prev(m, b) = b - n
<1>1. b - 1 \in Nat
  OBVIOUS
<1>2. block_size(m, b - 1) = 4 * n
  BY <1>1, TagRead
<1> QED
  BY <1>2 DEF block_prev, WSIZE

(* A tag that stays says what it said.                                     *)
LEMMA SameTag ==
  ASSUME NEW m, NEW n, NEW b, n[b] = m[b]
  PROVE  /\ block_size(n, b) = block_size(m, b)
         /\ block_next(n, b) = block_next(m, b)
         /\ IsFree(n, b) <=> IsFree(m, b)
BY DEF block_size, block_next, IsFree

LEMMA TaggedBlock ==
  ASSUME NEW m, NEW b \in Nat, NEW n, Tagged(m, b, n)
  PROVE  /\ block_size(m, b) = 4 * n
         /\ block_next(m, b) = b + n
         /\ footer(m, b) = b + n - 1
         /\ IsFree(m, b) <=> m[b] = 4 * n
<1>1. n \in Nat /\ n % 2 = 0
  BY DEF Tagged
<1>2. CASE m[b] = 4 * n
  <2>1. m[b] = 4 * n + 0
    BY <1>1, <1>2
  <2> QED
    BY <1>1, <1>2, <2>1, TagRead
<1>3. CASE m[b] = 4 * n + 1
  <2>1. m[b] # 4 * n
    BY <1>1, <1>3
  <2>2. ~ (1 = 0)
    OBVIOUS
  <2> QED
    BY <1>1, <1>3, <2>1, <2>2, TagRead
<1> QED
  BY <1>2, <1>3 DEF Tagged

-----------------------------------------------------------------------------
(* B are the blocks of m from word s up to word e.                         *)
Tiles(m, B, s, e) ==
  /\ s \in Nat /\ e \in Nat /\ s % 2 = 1 /\ s \in B \cup {e}
  /\ \A b \in B : /\ b \in Nat /\ s <= b /\ b < e /\ b % 2 = 1
                  /\ Tagged(m, b, block_next(m, b) - b)
                  /\ block_next(m, b) \in B \cup {e}
  /\ \A b, c \in B : b < c => block_next(m, b) <= c
  /\ \A c \in B \cup {e} : c # s => \E b \in B : block_next(m, b) = c

(* What it says of one block.                                              *)
LEMMA BlockFacts ==
  ASSUME NEW m, NEW B, NEW s, NEW e, Tiles(m, B, s, e), NEW b \in B
  PROVE  /\ b \in Nat /\ s <= b /\ b % 2 = 1
         /\ block_next(m, b) \in Nat /\ b + 4 <= block_next(m, b)
         /\ block_next(m, b) <= e
         /\ block_next(m, b) \in B \cup {e}
         /\ block_size(m, b) = 4 * (block_next(m, b) - b)
         /\ (block_next(m, b) - b) % 2 = 0
         /\ m[b] \in {block_size(m, b), block_size(m, b) + 1}
         /\ IsFree(m, b) <=> m[b] = block_size(m, b)
         /\ m[block_next(m, b) - 1] = m[b]
<1> DEFINE n == block_next(m, b)
<1>1. b \in Nat /\ s <= b /\ b % 2 = 1 /\ s \in Nat /\ e \in Nat
      /\ Tagged(m, b, n - b) /\ n \in B \cup {e}
  BY DEF Tiles
<1>2. n \in Nat /\ n <= e
  <2>1. \A c \in B : c \in Nat /\ c < e
    BY DEF Tiles
  <2>2. CASE n = e
    BY <2>2, <1>1
  <2>3. CASE n \in B
    <3>1. n \in Nat /\ n < e
      BY <2>1, <2>3
    <3> HIDE DEF n
    <3> QED
      BY <3>1, <1>1
  <2> QED
    BY <2>2, <2>3, <1>1
<1>3. /\ n - b \in Nat /\ (n - b) % 2 = 0 /\ 4 <= n - b
      /\ m[b] \in {4 * (n - b), 4 * (n - b) + 1} /\ m[b + (n - b) - 1] = m[b]
  BY <1>1 DEF Tagged
<1>4. block_size(m, b) = 4 * (n - b) /\ (IsFree(m, b) <=> m[b] = 4 * (n - b))
  BY <1>1, TaggedBlock
<1>5. b + (n - b) - 1 = n - 1 /\ b + 4 <= n
  BY <1>1, <1>2, <1>3
<1>6. m[b] \in {block_size(m, b), block_size(m, b) + 1}
  BY <1>3, <1>4
<1>7. IsFree(m, b) <=> m[b] = block_size(m, b)
  BY <1>4
<1>8. m[n - 1] = m[b]
  BY <1>3, <1>5
<1> QED
  BY <1>1, <1>2, <1>3, <1>4, <1>5, <1>6, <1>7, <1>8

(* A heap cut at a block, or at its end.                                   *)
LEMMA TilesCut ==
  ASSUME NEW m, NEW B, NEW s, NEW e, Tiles(m, B, s, e), NEW f \in B \cup {e}
  PROVE  /\ Tiles(m, {b \in B : b < f}, s, f)
         /\ Tiles(m, {b \in B : f <= b}, f, e)
<1> DEFINE lo == {b \in B : b < f}
           hi == {b \in B : f <= b}
<1>1. /\ s \in Nat /\ e \in Nat /\ s % 2 = 1 /\ s \in B \cup {e}
      /\ \A b \in B : b \in Nat /\ s <= b /\ b < e
  BY DEF Tiles
<1>2. f \in Nat /\ s <= f /\ f <= e
  BY <1>1
<1>3. \A b \in B : /\ b \in Nat /\ b % 2 = 1 /\ b < block_next(m, b)
                   /\ Tagged(m, b, block_next(m, b) - b)
                   /\ block_next(m, b) \in B \cup {e}
                   /\ block_next(m, b) \in Nat
                   /\ b < f => block_next(m, b) <= f
  <2> SUFFICES ASSUME NEW b \in B
               PROVE  /\ b \in Nat /\ b % 2 = 1 /\ b < block_next(m, b)
                      /\ Tagged(m, b, block_next(m, b) - b)
                      /\ block_next(m, b) \in B \cup {e}
                      /\ block_next(m, b) \in Nat
                      /\ b < f => block_next(m, b) <= f
    OBVIOUS
  <2>1. Tagged(m, b, block_next(m, b) - b)
    BY DEF Tiles
  <2>2. b < f => block_next(m, b) <= f
    <3>1. CASE f = e
      BY <3>1, BlockFacts
    <3>2. CASE f \in B
      BY <3>2 DEF Tiles
    <3> QED
      BY <3>1, <3>2
  <2> QED
    BY <2>1, <2>2, BlockFacts
<1>4. \A b, c \in B : b < c => block_next(m, b) <= c
  BY DEF Tiles
<1>5. \A c \in B \cup {e} : c # s => \E b \in B : block_next(m, b) = c
  BY DEF Tiles
<1>6. s \in lo \cup {f}
  BY <1>1, <1>2
<1>7. \A b \in lo : block_next(m, b) \in lo \cup {f}
  BY <1>2, <1>3
<1>8. \A b \in hi : block_next(m, b) \in hi \cup {e}
  BY <1>2, <1>3
<1>9. ASSUME NEW c \in lo \cup {f}, c # s
      PROVE  \E b \in lo : block_next(m, b) = c
  <2>1. PICK b \in B : block_next(m, b) = c
    BY <1>5, <1>9
  <2> QED
    BY <2>1, <1>2, <1>3
<1>10. ASSUME NEW c \in hi \cup {e}, c # f
       PROVE  \E b \in hi : block_next(m, b) = c
  <2>1. c # s /\ c \in Nat /\ f < c
    BY <1>1, <1>2, <1>10
  <2>2. PICK b \in B : block_next(m, b) = c
    BY <1>5, <1>10, <2>1
  <2> QED
    BY <2>1, <2>2, <1>2, <1>3
<1>11. f % 2 = 1
  <2>1. CASE f = s
    BY <2>1, <1>1
  <2>2. CASE f # s
    <3>1. PICK b \in B : block_next(m, b) = f
      BY <1>5, <2>2
    <3>2. b % 2 = 1 /\ (block_next(m, b) - b) % 2 = 0 /\ b \in Nat
          /\ block_next(m, b) - b \in Nat
      BY <1>3 DEF Tagged
    <3> QED
      BY <3>1, <3>2, <1>2
  <2> QED
    BY <2>1, <2>2
<1>12. f \in hi \cup {e}
  BY <1>2
<1> QED
  BY <1>1, <1>2, <1>3, <1>4, <1>6, <1>7, <1>8, <1>9, <1>10, <1>11, <1>12 DEF Tiles

(* Two heaps side by side are one.                                         *)
LEMMA TilesJoin ==
  ASSUME NEW m, NEW B, NEW C, NEW s, NEW f, NEW e,
         Tiles(m, B, s, f), Tiles(m, C, f, e)
  PROVE  Tiles(m, B \cup C, s, e)
<1>1. /\ s \in Nat /\ f \in Nat /\ e \in Nat /\ s % 2 = 1
      /\ s \in B \cup {f} /\ f \in C \cup {e}
      /\ \A b \in B : b \in Nat /\ s <= b /\ b < f
      /\ \A b \in C : b \in Nat /\ f <= b /\ b < e
  BY DEF Tiles
<1>2. /\ \A b \in B : b % 2 = 1 /\ Tagged(m, b, block_next(m, b) - b)
                      /\ block_next(m, b) \in B \cup {f}
      /\ \A b \in C : b % 2 = 1 /\ Tagged(m, b, block_next(m, b) - b)
                      /\ block_next(m, b) \in C \cup {e}
      /\ \A b, c \in B : b < c => block_next(m, b) <= c
      /\ \A b, c \in C : b < c => block_next(m, b) <= c
      /\ \A c \in B \cup {f} : c # s => \E b \in B : block_next(m, b) = c
      /\ \A c \in C \cup {e} : c # f => \E b \in C : block_next(m, b) = c
  BY DEF Tiles
<1>3. s <= f /\ f <= e
  BY <1>1
<1>4. \A b \in B \cup C : block_next(m, b) \in (B \cup C) \cup {e}
  BY <1>1, <1>2
<1>5. ASSUME NEW b \in B \cup C, NEW c \in B \cup C, b < c
      PROVE  block_next(m, b) <= c
  <2>1. CASE b \in B /\ c \in B
    BY <2>1, <1>2, <1>5
  <2>2. CASE b \in C /\ c \in C
    BY <2>2, <1>2, <1>5
  <2>3. CASE b \in B /\ c \in C
    <3>1. block_next(m, b) \in Nat /\ block_next(m, b) <= f
      BY <2>3, BlockFacts
    <3> QED
      BY <2>3, <3>1, <1>1
  <2>4. CASE b \in C /\ c \in B
    BY <2>4, <1>1, <1>5
  <2> QED
    BY <2>1, <2>2, <2>3, <2>4
<1>6. \A c \in (B \cup C) \cup {e} : c # s => \E b \in B \cup C : block_next(m, b) = c
  BY <1>1, <1>2
<1>7. /\ \A b \in B \cup C : b \in Nat /\ s <= b /\ b < e
      /\ s \in (B \cup C) \cup {e}
  BY <1>1, <1>3
<1> QED
  BY <1>1, <1>2, <1>4, <1>5, <1>6, <1>7 DEF Tiles

(* What becomes of the words outside the blocks does not matter to them.   *)
LEMMA TilesStay ==
  ASSUME NEW m, NEW n, NEW B, NEW s, NEW e, Tiles(m, B, s, e),
         \A b \in B : n[b] = m[b] /\ n[block_next(m, b) - 1] = m[block_next(m, b) - 1]
  PROVE  /\ Tiles(n, B, s, e)
         /\ \A b \in B : block_next(n, b) = block_next(m, b)
<1>1. \A b \in B : block_next(n, b) = block_next(m, b)
  BY SameTag
<1>2. ASSUME NEW b \in B PROVE Tagged(n, b, block_next(n, b) - b)
  <2>1. Tagged(m, b, block_next(m, b) - b) /\ b \in Nat /\ block_next(m, b) \in Nat
    BY BlockFacts DEF Tiles
  <2>2. b + (block_next(m, b) - b) - 1 = block_next(m, b) - 1
    BY <2>1
  <2> QED
    BY <1>1, <2>1, <2>2 DEF Tagged
<1> QED
  BY <1>1, <1>2 DEF Tiles

LEMMA TilesOne ==
  ASSUME NEW m, NEW b \in Nat, b % 2 = 1, NEW n, Tagged(m, b, n)
  PROVE  Tiles(m, {b}, b, b + n) /\ block_next(m, b) = b + n
<1>1. block_next(m, b) = b + n
  BY TaggedBlock
<1>2. n \in Nat /\ 4 <= n /\ (b + n) - b = n
  BY DEF Tagged
<1>3. b + n \in Nat /\ b <= b /\ b < b + n
  BY <1>2
<1>4. \A c \in {b} \cup {b + n} : c # b => \E a \in {b} : block_next(m, a) = c
  BY <1>1
<1>5. \A a, c \in {b} : a < c => block_next(m, a) <= c
  OBVIOUS
<1> QED
  BY <1>1, <1>2, <1>3, <1>4, <1>5 DEF Tiles

(* The block before another.                                               *)
LEMMA BlockBefore ==
  ASSUME NEW m, NEW B, NEW s, NEW e, Tiles(m, B, s, e), NEW c \in B \cup {e}, c # s
  PROVE  /\ block_prev(m, c) \in B
         /\ block_next(m, block_prev(m, c)) = c
         /\ m[c - 1] = m[block_prev(m, c)]
<1>1. PICK b \in B : block_next(m, b) = c
  BY DEF Tiles
<1> DEFINE n == c - b
<1>2. /\ b \in Nat /\ c \in Nat /\ 0 < c /\ n \in Nat /\ n % 2 = 0
      /\ block_size(m, b) = 4 * n /\ m[c - 1] = m[b]
      /\ m[b] \in {block_size(m, b), block_size(m, b) + 1}
  BY <1>1, BlockFacts
<1>3. \E a \in {0, 1} : m[c - 1] = 4 * n + a
  <2>1. CASE m[b] = block_size(m, b)
    <3>1. m[c - 1] = 4 * n + 0
      BY <1>2, <2>1
    <3> QED
      BY <3>1
  <2>2. CASE m[b] = block_size(m, b) + 1
    BY <1>2, <2>2
  <2> QED
    BY <1>2, <2>1, <2>2
<1>4. block_prev(m, c) = c - n
  <2> HIDE DEF n
  <2> QED
    BY <1>2, <1>3, PrevRead
<1>5. block_prev(m, c) = b
  BY <1>2, <1>4
<1> QED
  BY <1>1, <1>2, <1>5

-----------------------------------------------------------------------------
(* BlocksBetween.                                                          *)

(* A function on an interval may be computed from larger arguments.        *)
Onward(f, nx, s, e) ==
  [b \in s .. e |-> IF b < e /\ nx[b] \in b + 1 .. e THEN {b} \cup f[nx[b]] ELSE {}]

LEMMA OnwardExists ==
  ASSUME NEW s \in Nat, NEW e \in Nat, s <= e, NEW nx
  PROVE  \E f : f = Onward(f, nx, s, e)
<1> DEFINE Open == {k \in 0 .. e - s : ~ \E f : f = Onward(f, nx, e - k, e)}
<1>1. SUFFICES ASSUME Open # {} PROVE FALSE
  <2>1. e - s \in 0 .. e - s /\ e - (e - s) = s
    OBVIOUS
  <2>2. (e - s) \notin Open => \E f : f = Onward(f, nx, e - (e - s), e)
    BY <2>1
  <2> QED
    BY <1>1, <2>1, <2>2
<1>2. PICK k \in Open : \A j \in Open : k <= j
  <2>1. Open \in SUBSET Nat
    OBVIOUS
  <2> HIDE DEF Open
  <2> QED
    BY <1>1, <2>1, LeastNat
<1>3. k \in 0 .. e - s /\ k \in Nat /\ ~ \E f : f = Onward(f, nx, e - k, e)
  OBVIOUS
<1>4. CASE k = 0
  <2> DEFINE g == [b \in e .. e |-> {}]
  <2>1. \A b \in e .. e : ~ (b < e)
    OBVIOUS
  <2>2. g = Onward(g, nx, e, e)
    BY <2>1 DEF Onward
  <2>3. e - k = e
    BY <1>4
  <2> QED
    BY <1>3, <2>2, <2>3
<1>5. CASE k # 0
  <2> DEFINE n == e - k
  <2>1. k - 1 \in 0 .. e - s /\ ~ (k <= k - 1) /\ e - (k - 1) = n + 1 /\ n \in Nat
        /\ n < e /\ e - k = n
    BY <1>3, <1>5
  <2>2. (k - 1) \notin Open
    BY <1>2, <2>1
  <2>3. PICK f : f = Onward(f, nx, n + 1, e)
    BY <2>1, <2>2
  <2> HIDE DEF n
  <2> DEFINE g == [b \in n .. e |->
                     IF b = n THEN IF nx[n] \in n + 1 .. e THEN {n} \cup f[nx[n]] ELSE {}
                              ELSE f[b]]
  <2>4. \A b \in n + 1 .. e : /\ g[b] = f[b] /\ b \in n .. e
                              /\ f[b] = IF b < e /\ nx[b] \in b + 1 .. e
                                        THEN {b} \cup f[nx[b]] ELSE {}
    <3> HIDE DEF g
    <3>1. \A b \in n + 1 .. e :
             f[b] = IF b < e /\ nx[b] \in b + 1 .. e THEN {b} \cup f[nx[b]] ELSE {}
      BY <2>3 DEF Onward
    <3>2. \A b \in n + 1 .. e : g[b] = f[b] /\ b \in n .. e
      BY <2>1 DEF g
    <3> QED
      BY <3>1, <3>2
  <2>5. ASSUME NEW b \in n .. e
        PROVE  g[b] = IF b < e /\ nx[b] \in b + 1 .. e THEN {b} \cup g[nx[b]] ELSE {}
    <3>1. CASE b = n
      <4>1. g[b] = IF nx[n] \in n + 1 .. e THEN {n} \cup f[nx[n]] ELSE {}
        BY <3>1
      <4> HIDE DEF g
      <4> QED
        BY <2>1, <2>4, <3>1, <4>1
    <3>2. CASE b # n
      <4>1. b \in n + 1 .. e
        BY <2>1, <3>2
      <4>2. \A c \in b + 1 .. e : c \in n + 1 .. e
        BY <2>1, <4>1
      <4> HIDE DEF g
      <4> QED
        BY <2>4, <4>1, <4>2
    <3> QED
      BY <3>1, <3>2
  <2>6. g = Onward(g, nx, n, e)
    <3>1. g = [b \in n .. e |-> g[b]]
      OBVIOUS
    <3> HIDE DEF g
    <3>2. g = [b \in n .. e |-> IF b < e /\ nx[b] \in b + 1 .. e
                                THEN {b} \cup g[nx[b]] ELSE {}]
      BY <2>5, <3>1
    <3> QED
      BY <3>2 DEF Onward
  <2> QED
    BY <1>3, <2>1, <2>6
<1> QED
  BY <1>4, <1>5

(* BlocksBetween finds the blocks, and stops where they end.               *)
LEMMA BlocksAre ==
  ASSUME NEW m, NEW B, NEW s, NEW e, Tiles(m, B, s, e),
         NEW end \in Nat, e <= end, e = end \/ block_next(m, e) = e
  PROVE  BlocksBetween(m, s, end) = B
<1> DEFINE step(f) == [b \in s .. end |->
                         IF b < end /\ block_next(m, b) \in b + 1 .. end
                         THEN {b} \cup f[block_next(m, b)] ELSE {}]
           from == CHOOSE f : f = step(f)
           nx == [b \in s .. end |-> block_next(m, b)]
<1>1. /\ s \in Nat /\ e \in Nat /\ s <= e /\ s \in B \cup {e}
      /\ \A b \in B : b \in Nat /\ s <= b /\ b < e
  BY DEF Tiles
<1>2. from = step(from)
  <2>1. PICK f : f = Onward(f, nx, s, end)
    <3> HIDE DEF nx
    <3>1. s <= end
      BY <1>1
    <3> QED
      BY <1>1, <3>1, OnwardExists
  <2>2. Onward(f, nx, s, end) = step(f)
    BY DEF Onward
  <2>3. \E g : g = step(g)
    BY <2>1, <2>2
  <2> HIDE DEF step
  <2> QED
    BY <2>3
<1>3. BlocksBetween(m, s, end) = from[s]
  BY DEF BlocksBetween
<1> HIDE DEF from
<1>4. \A b \in s .. end : from[b] = IF b < end /\ block_next(m, b) \in b + 1 .. end
                                    THEN {b} \cup from[block_next(m, b)] ELSE {}
  BY <1>2
<1>5. from[e] = {}
  <2>1. e \in s .. end /\ ~ (e \in e + 1 .. end) /\ ~ (end < end)
    BY <1>1
  <2> QED
    BY <1>4, <2>1
<1> DEFINE Onwards(b) == {c \in B : b <= c}
           Wrong == {k \in Nat : e - k \in B /\ from[e - k] # Onwards(e - k)}
<1>6. Wrong = {}
  <2> SUFFICES ASSUME Wrong # {} PROVE FALSE
    OBVIOUS
  <2>1. PICK k \in Wrong : \A j \in Wrong : k <= j
    <3>1. Wrong \in SUBSET Nat
      OBVIOUS
    <3> HIDE DEF Wrong
    <3> QED
      BY <3>1, LeastNat
  <2> DEFINE b == e - k
             n == block_next(m, b)
  <2>2. k \in Nat /\ b \in B /\ from[b] # Onwards(b)
    OBVIOUS
  <2>3. b \in Nat /\ s <= b /\ b < e /\ n \in Nat /\ b + 4 <= n /\ n <= e /\ n \in B \cup {e}
    BY <1>1, <2>2, BlockFacts
  <2>4. from[n] = Onwards(n)
    <3>1. CASE n = e
      <4>1. \A c \in B : ~ (e <= c)
        BY <1>1
      <4>2. Onwards(e) = {}
        BY <4>1
      <4> HIDE DEF n, Onwards
      <4> QED
        BY <1>5, <3>1, <4>2
    <3>2. CASE n \in B
      <4>1. e - n \in Nat /\ e - (e - n) = n /\ e - n < k
        BY <1>1, <2>2, <2>3
      <4>2. (e - n) \notin Wrong
        <5> HIDE DEF Wrong, n
        <5> QED
          BY <2>1, <2>2, <4>1
      <4> HIDE DEF n, Onwards
      <4> QED
        BY <3>2, <4>1, <4>2
    <3> QED
      BY <2>3, <3>1, <3>2
  <2> HIDE DEF Wrong
  <2>5. from[b] = {b} \cup from[n]
    <3>1. b \in s .. end /\ b < end /\ n \in b + 1 .. end
      BY <1>1, <2>3
    <3> QED
      BY <1>4, <3>1
  <2>6. \A c \in B : b < c => n <= c
    BY <2>2 DEF Tiles
  <2>7. \A c \in B : b <= c <=> c = b \/ n <= c
    <3> HIDE DEF b, n
    <3> QED
      BY <1>1, <2>3, <2>6
  <2>8. Onwards(b) = {b} \cup Onwards(n)
    <3> HIDE DEF b, n
    <3> QED
      BY <2>2, <2>7
  <2> QED
    BY <2>2, <2>4, <2>5, <2>8
<1>7. ASSUME s \in B PROVE from[s] = Onwards(s)
  <2>1. e - s \in Nat /\ e - (e - s) = s
    BY <1>1
  <2>2. (e - s) \notin Wrong
    BY <1>6
  <2> QED
    BY <1>7, <2>1, <2>2
<1>8. Onwards(s) = B
  BY <1>1
<1>9. s \notin B => s = e /\ B = {}
  BY <1>1
<1> QED
  BY <1>3, <1>5, <1>7, <1>8, <1>9

-----------------------------------------------------------------------------
(* What the calls do to the blocks.                                        *)
Allocated(m, B) == {b \in B : ~ IsFree(m, b)}

(* No two free blocks follow each other.                                   *)
Apart(m, B) ==
  \A b \in B : IsFree(m, b) /\ block_next(m, b) \in B => ~ IsFree(m, block_next(m, b))

(* The words of the block at b are in n what they are in m.                *)
Kept(m, n, b) == \A x \in b .. block_next(m, b) - 1 : n[x] = m[x]

LEMMA KeptTag ==
  ASSUME NEW m, NEW n, NEW B, NEW s, NEW e, Tiles(m, B, s, e), NEW b \in B, Kept(m, n, b)
  PROVE  /\ n[b] = m[b] /\ n[block_next(m, b) - 1] = m[block_next(m, b) - 1]
         /\ block_next(n, b) = block_next(m, b) /\ block_size(n, b) = block_size(m, b)
         /\ IsFree(n, b) <=> IsFree(m, b)
<1>1. b \in Nat /\ block_next(m, b) \in Nat /\ b + 4 <= block_next(m, b)
  BY BlockFacts
<1>2. /\ b \in b .. block_next(m, b) - 1
      /\ block_next(m, b) - 1 \in b .. block_next(m, b) - 1
  BY <1>1
<1>3. n[b] = m[b] /\ n[block_next(m, b) - 1] = m[block_next(m, b) - 1]
  BY <1>2 DEF Kept
<1> QED
  BY <1>3, SameTag

(* The blocks that do not lie between f and t.                             *)
Outside(B, f, t) == {b \in B : b < f \/ t <= b}

(* The blocks N take the place of those from word f to word t; the words   *)
(* of all others are left alone.                                           *)
LEMMA TilesReplaced ==
  ASSUME NEW m, NEW n, NEW B, NEW s, NEW e, NEW N, Tiles(m, B, s, e),
         NEW f \in B \cup {e}, NEW t \in B \cup {e}, f <= t, Tiles(n, N, f, t),
         \A x \in Nat : x < e /\ (x < f \/ t <= x) => n[x] = m[x]
  PROVE  /\ Tiles(n, Outside(B, f, t) \cup N, s, e)
         /\ \A b \in B : b < f \/ t <= b => Kept(m, n, b)
<1> DEFINE lo == {b \in B : b < f}
           hi == {b \in B : t <= b}
<1>1. Tiles(m, lo, s, f) /\ Tiles(m, hi, t, e)
  BY TilesCut
<1>2. f \in Nat /\ t \in Nat /\ e \in Nat
  BY DEF Tiles
<1>3. ASSUME NEW b \in B, b < f \/ t <= b PROVE Kept(m, n, b)
  <2>1. b \in Nat /\ block_next(m, b) \in Nat /\ block_next(m, b) <= e
    BY BlockFacts
  <2>2. b < f => block_next(m, b) <= f
    <3>1. ASSUME b < f PROVE b \in lo
      BY <3>1
    <3> QED
      BY <1>1, <3>1, BlockFacts
  <2>3. \A x \in b .. block_next(m, b) - 1 : x \in Nat /\ x < e /\ (x < f \/ t <= x)
    BY <1>2, <1>3, <2>1, <2>2
  <2> QED
    BY <2>3 DEF Kept
<1>4. \A b \in B : b < f \/ t <= b =>
         n[b] = m[b] /\ n[block_next(m, b) - 1] = m[block_next(m, b) - 1]
  BY <1>3, KeptTag
<1>5. Tiles(n, lo, s, f) /\ Tiles(n, hi, t, e)
  <2>1. \A b \in lo : n[b] = m[b] /\ n[block_next(m, b) - 1] = m[block_next(m, b) - 1]
    BY <1>4
  <2>2. \A b \in hi : n[b] = m[b] /\ n[block_next(m, b) - 1] = m[block_next(m, b) - 1]
    BY <1>4
  <2> HIDE DEF lo, hi
  <2> QED
    BY <1>1, <2>1, <2>2, TilesStay
<1>6. Tiles(n, (lo \cup N) \cup hi, s, e)
  <2>1. Tiles(n, lo \cup N, s, t)
    BY <1>5, TilesJoin
  <2> QED
    BY <1>5, <2>1, TilesJoin
<1>7. (lo \cup N) \cup hi = Outside(B, f, t) \cup N
  BY DEF Outside
<1> QED
  BY <1>3, <1>6, <1>7

LEMMA TilesEnd ==
  ASSUME NEW m, NEW B, NEW s, NEW e, Tiles(m, B, s, e), NEW f \in B \cup {e}
  PROVE  f \in Nat /\ f % 2 = 1 /\ s <= f /\ f <= e
<1>1. Tiles(m, {b \in B : f <= b}, f, e)
  BY TilesCut
<1> QED
  BY <1>1 DEF Tiles

(* What lies between two blocks is one of them, or behind the first.       *)
LEMMA NextIsNext ==
  ASSUME NEW m, NEW B, NEW s, NEW e, Tiles(m, B, s, e), NEW b \in B, NEW c \in B
  PROVE  /\ b < c => block_next(m, b) <= c
         /\ block_next(m, b) = block_next(m, c) => b = c
<1>1. /\ b \in Nat /\ block_next(m, b) \in Nat /\ b < block_next(m, b)
      /\ c \in Nat /\ block_next(m, c) \in Nat /\ c < block_next(m, c)
  BY BlockFacts
<1>2. /\ b < c => block_next(m, b) <= c
      /\ c < b => block_next(m, c) <= b
  BY DEF Tiles
<1> QED
  BY <1>1, <1>2

-----------------------------------------------------------------------------
(* coalesce.                                                               *)

(* What stands before the first block and after the last.                  *)
Fences(m, e) == m[1] = 9 /\ m[2] = 9 /\ m[e] = 1

(* What a call that cuts, joins and marks blocks may do to the rest of the *)
(* heap.                                                                   *)
Spared(m, n, B, e) ==
  /\ DOMAIN n = Addr
  /\ \A b \in Allocated(m, B) : Kept(m, n, b)
  /\ \A x \in Addr : x < FirstBlock \/ e <= x => n[x] = m[x]

(* Free blocks follow each other nowhere but at b.                         *)
ApartBut(m, B, b) ==
  \A c \in B : c # b /\ IsFree(m, c) /\ block_next(m, c) \in B /\ block_next(m, c) # b
               => ~ IsFree(m, block_next(m, c))

LEMMA FencesRead ==
  ASSUME NEW m, NEW e \in Nat, Fences(m, e)
  PROVE  /\ ~ IsFree(m, e) /\ block_next(m, e) = e /\ block_size(m, e) = 0
         /\ block_prev(m, FirstBlock) = 1 /\ ~ IsFree(m, 1)
<1>1. m[e] = 1 /\ m[2] = 9 /\ m[1] = 9
  BY DEF Fences
<1>2. 1 % 2 = 1 /\ 1 - (1 % 8) = 0 /\ 0 \div 4 = 0 /\ 9 % 2 = 1 /\ 9 - (9 % 8) = 8 /\ 8 \div 4 = 2
  OBVIOUS
<1>3. ~ IsFree(m, e) /\ block_size(m, e) = 0
  BY <1>1, <1>2 DEF IsFree, block_size
<1>4. block_next(m, e) = e + 0
  BY <1>2, <1>3 DEF block_next, WSIZE
<1>5. block_size(m, 2) = 8
  BY <1>1, <1>2 DEF block_size
<1>6. block_prev(m, 3) = 1
  BY <1>2, <1>5 DEF block_prev, WSIZE
<1>7. ~ IsFree(m, 1)
  BY <1>1, <1>2 DEF IsFree
<1> QED
  BY <1>3, <1>4, <1>6, <1>7 DEF FirstBlock

(* The blocks coalesce takes together.                                     *)
LEMMA Neighbours ==
  ASSUME NEW m, NEW B, NEW e, Tiles(m, B, FirstBlock, e), Fences(m, e),
         NEW b \in B, IsFree(m, b)
  PROVE  LET f == First(m, b)
             l == IF IsFree(m, block_next(m, b)) THEN block_next(m, b) ELSE b
         IN  /\ f \in B /\ IsFree(m, f) /\ f <= b
             /\ f # b => block_next(m, f) = b
             /\ f = b => \A c \in B : block_next(m, c) = b => ~ IsFree(m, c)
             /\ l \in B /\ IsFree(m, l) /\ b <= l
             /\ l # b => block_next(m, b) = l
             /\ l = b => ~ IsFree(m, block_next(m, b))
             /\ \A c \in B : f <= c /\ c < block_next(m, l) => IsFree(m, c)
<1> DEFINE f == First(m, b)
           n == block_next(m, b)
           l == IF IsFree(m, n) THEN n ELSE b
<1>1. e \in Nat /\ FirstBlock \in Nat /\ FirstBlock # e
  BY BlockFacts DEF Tiles, FirstBlock
<1>2. /\ b \in Nat /\ FirstBlock <= b /\ n \in Nat /\ b + 4 <= n /\ n \in B \cup {e}
  BY BlockFacts
<1>3. /\ ~ IsFree(m, e) /\ block_prev(m, FirstBlock) = 1 /\ ~ IsFree(m, 1)
  BY <1>1, FencesRead
<1>4. /\ f \in B /\ IsFree(m, f) /\ f <= b
      /\ f # b => block_next(m, f) = b
      /\ f = b => \A c \in B : block_next(m, c) = b => ~ IsFree(m, c)
  <2>1. CASE b = FirstBlock
    <3>1. f = b
      BY <1>3, <2>1 DEF First
    <3>2. \A c \in B : block_next(m, c) # b
      BY <1>1, <2>1, BlockFacts
    <3> QED
      BY <1>2, <3>1, <3>2
  <2>2. CASE b # FirstBlock
    <3> DEFINE p == block_prev(m, b)
    <3>1. p \in B /\ block_next(m, p) = b
      BY <2>2, BlockBefore
    <3>2. p \in Nat /\ p + 4 <= b
      BY <3>1, BlockFacts
    <3>3. \A c \in B : block_next(m, c) = b => c = p
      BY <3>1, NextIsNext
    <3>4. f = IF IsFree(m, p) THEN p ELSE b
      BY DEF First
    <3> HIDE DEF p, f
    <3>5. p # b /\ p <= b /\ b <= b
      BY <1>2, <3>2
    <3> QED
      BY <3>1, <3>3, <3>4, <3>5
  <2> QED
    BY <2>1, <2>2
<1>5. /\ l \in B /\ IsFree(m, l) /\ b <= l
      /\ l # b => n = l
      /\ l = b => ~ IsFree(m, n)
  <2>1. IsFree(m, n) => n \in B
    BY <1>2, <1>3
  <2>2. b <= b /\ b <= n /\ n # b
    BY <1>2
  <2> HIDE DEF n
  <2> QED
    BY <2>1, <2>2
<1>6. ASSUME NEW c \in B, f <= c, c < block_next(m, l)
      PROVE  IsFree(m, c)
  <2>1. /\ f < c => block_next(m, f) <= c
        /\ b < c => n <= c
        /\ l < c => block_next(m, l) <= c
    BY <1>4, <1>5, NextIsNext
  <2>2. /\ c \in Nat /\ f \in Nat /\ l \in Nat /\ block_next(m, f) \in Nat
        /\ block_next(m, l) \in Nat
    BY <1>4, <1>5, BlockFacts
  <2>3. c \in {f, b, l}
    <3> HIDE DEF f, n, l
    <3> QED
      BY <1>2, <1>4, <1>5, <1>6, <2>1, <2>2
  <2> QED
    BY <1>4, <1>5, <2>3
<1> QED
  BY <1>4, <1>5, <1>6

(* The block that is left when all from f to l are taken together.         *)
LEMMA Merged ==
  ASSUME NEW m, NEW B, NEW s, NEW e, Tiles(m, B, s, e), DOMAIN m = Addr, e <= MaxHeap,
         NEW f \in B, NEW l \in B, f <= l
  PROVE  LET r == Merge(m, f, l)
             t == block_next(m, l)
         IN  /\ DOMAIN r = Addr
             /\ \A x \in Addr : x # f /\ x # t - 1 => r[x] = m[x]
             /\ Tiles(r, {f}, f, t) /\ IsFree(r, f) /\ block_next(r, f) = t
<1> DEFINE t == block_next(m, l)
           n == t - f
           r == Merge(m, f, l)
<1>1. /\ MaxHeap \in Nat /\ e \in Nat /\ f \in Nat /\ l \in Nat /\ t \in Nat
      /\ l + 4 <= t /\ t <= e /\ t \in B \cup {e} /\ f % 2 = 1
  <2>1. MaxHeap \in Nat /\ e \in Nat
    BY HeapAssumption DEF Tiles
  <2>2. f \in Nat /\ f % 2 = 1
    BY BlockFacts
  <2>3. l \in Nat /\ t \in Nat /\ l + 4 <= t /\ t <= e /\ t \in B \cup {e}
    BY BlockFacts
  <2> QED
    BY <2>1, <2>2, <2>3
<1>2. t % 2 = 1
  BY <1>1, TilesEnd
<1>3. n \in Nat /\ n % 2 = 0 /\ 4 <= n /\ f + n = t
  BY <1>1, <1>2
<1>4. footer(m, l) = t - 1
  BY DEF footer
<1>5. /\ f \in Addr /\ t - 1 \in Addr /\ f # t - 1 /\ WSIZE * n + 0 = 4 * n
  BY <1>1, <1>3 DEF Addr, WSIZE
<1>6. r = [m EXCEPT ![f] = 4 * n, ![t - 1] = 4 * n]
  <2>1. PACK(WSIZE * n, 0) = 4 * n
    BY <1>5 DEF PACK
  <2> QED
    BY <1>4, <2>1 DEF Merge
<1> HIDE DEF t, n, r
<1>7. /\ DOMAIN r = Addr /\ r[f] = 4 * n /\ r[t - 1] = 4 * n
      /\ \A x \in Addr : x # f /\ x # t - 1 => r[x] = m[x]
  BY <1>5, <1>6
<1>8. f + n - 1 = t - 1
  BY <1>1, <1>3
<1>9. Tagged(r, f, n)
  BY <1>3, <1>7, <1>8 DEF Tagged
<1>10. IsFree(r, f)
  BY <1>1, <1>7, <1>9, TaggedBlock
<1>11. Tiles(r, {f}, f, t) /\ block_next(r, f) = t
  BY <1>1, <1>3, <1>9, TilesOne
<1> QED
  BY <1>7, <1>10, <1>11 DEF t, r

LEMMA CoalesceKeeps ==
  ASSUME NEW m, NEW B, NEW e, Tiles(m, B, FirstBlock, e), DOMAIN m = Addr, e < MaxHeap,
         Fences(m, e), NEW b \in B, IsFree(m, b), ApartBut(m, B, b)
  PROVE  LET r == coalesce(m, b)
             f == First(m, b)
         IN  \E C : /\ Tiles(r, C, FirstBlock, e) /\ Apart(r, C)
                    /\ Allocated(r, C) = Allocated(m, B)
                    /\ Spared(m, r, B, e)
                    /\ f \in C /\ IsFree(r, f) /\ f <= b
                    /\ block_next(m, b) <= block_next(r, f)
<1> DEFINE f == First(m, b)
           n == block_next(m, b)
           l == IF IsFree(m, n) THEN n ELSE b
           t == block_next(m, l)
           r == coalesce(m, b)
           C == Outside(B, f, t) \cup {f}
<1>1. /\ f \in B /\ IsFree(m, f) /\ f <= b
      /\ f # b => block_next(m, f) = b
      /\ f = b => \A c \in B : block_next(m, c) = b => ~ IsFree(m, c)
      /\ l \in B /\ IsFree(m, l) /\ b <= l
      /\ l # b => n = l
      /\ l = b => ~ IsFree(m, n)
      /\ \A c \in B : f <= c /\ c < t => IsFree(m, c)
  BY Neighbours
<1>2. /\ b \in Nat /\ f \in Nat /\ l \in Nat /\ t \in Nat /\ n \in Nat
      /\ b + 4 <= n /\ l + 4 <= t /\ t <= e /\ t \in B \cup {e} /\ e \in Nat
      /\ MaxHeap \in Nat /\ FirstBlock = 3 /\ 3 <= f
  <2>1. MaxHeap \in Nat /\ e \in Nat /\ FirstBlock = 3
    BY HeapAssumption DEF Tiles, FirstBlock
  <2>2. b \in Nat /\ n \in Nat /\ b + 4 <= n
    BY BlockFacts
  <2>3. f \in Nat /\ FirstBlock <= f
    BY <1>1, BlockFacts
  <2>4. l \in Nat /\ t \in Nat /\ l + 4 <= t /\ t <= e /\ t \in B \cup {e}
    BY <1>1, BlockFacts
  <2> QED
    BY <2>1, <2>2, <2>3, <2>4
<1>3. r = Merge(m, f, l)
  BY DEF coalesce
<1> HIDE DEF f, n, l, r
<1>4. f <= l /\ f <= t
  BY <1>1, <1>2
<1>5. /\ DOMAIN r = Addr
      /\ \A x \in Addr : x # f /\ x # t - 1 => r[x] = m[x]
      /\ Tiles(r, {f}, f, t) /\ IsFree(r, f) /\ block_next(r, f) = t
  <2>1. e <= MaxHeap
    BY <1>2
  <2> QED
    BY <1>1, <1>3, <1>4, <2>1, Merged
<1>6. \A x \in Addr : x < f \/ t <= x => r[x] = m[x]
  BY <1>2, <1>4, <1>5 DEF Addr
<1>7. /\ Tiles(r, C, FirstBlock, e)
      /\ \A c \in B : c < f \/ t <= c => Kept(m, r, c)
  <2>1. \A x \in Nat : x < e /\ (x < f \/ t <= x) => r[x] = m[x]
    BY <1>2, <1>6 DEF Addr
  <2>2. f \in B \cup {e} /\ t \in B \cup {e}
    BY <1>1, <1>2
  <2> HIDE DEF t
  <2> QED
    BY <1>4, <1>5, <2>1, <2>2, TilesReplaced
<1>8. \A c \in B : c < f \/ t <= c => /\ block_next(r, c) = block_next(m, c)
                                      /\ IsFree(r, c) <=> IsFree(m, c)
  BY <1>7, KeptTag
<1>9. \A c \in B : c \in Nat /\ block_next(m, c) \in Nat /\ c + 4 <= block_next(m, c)
  BY BlockFacts
<1>10. Allocated(r, C) = Allocated(m, B)
  <2>1. \A c \in Allocated(m, B) : c < f \/ t <= c
    BY <1>1, <1>2, <1>9 DEF Allocated
  <2> HIDE DEF t
  <2> QED
    BY <1>1, <1>5, <1>8, <2>1 DEF Allocated, Outside
<1>11. Spared(m, r, B, e)
  <2>1. \A c \in Allocated(m, B) : c \in B /\ (c < f \/ t <= c)
    BY <1>1, <1>2, <1>9 DEF Allocated
  <2>2. \A x \in Addr : x < FirstBlock \/ e <= x => x < f \/ t <= x
    BY <1>2 DEF Addr
  <2> HIDE DEF t
  <2> QED
    BY <1>5, <1>6, <1>7, <2>1, <2>2 DEF Spared
<1>12. Apart(r, C)
  <2> SUFFICES ASSUME NEW c \in C, IsFree(r, c), block_next(r, c) \in C,
                      IsFree(r, block_next(r, c))
               PROVE  FALSE
    BY DEF Apart
  <2>1. CASE c = f
    <3>1. t \in B /\ IsFree(r, t)
      <4>1. t # f
        BY <1>2, <1>4
      <4> QED
        BY <1>5, <2>1, <4>1 DEF Outside
    <3>2. IsFree(m, t)
      <4>1. t <= t
        BY <1>2
      <4> HIDE DEF t
      <4> QED
        BY <1>8, <3>1, <4>1
    <3>3. CASE l = b
      BY <1>1, <3>2, <3>3 DEF n
    <3>4. CASE l # b
      <4>1. t # b
        BY <1>1, <1>2
      <4> HIDE DEF t
      <4> QED
        BY <1>1, <3>1, <3>2, <3>4, <4>1 DEF ApartBut, t
    <3> QED
      BY <3>3, <3>4
  <2>2. CASE c # f
    <3> DEFINE d == block_next(m, c)
    <3>1. c \in B /\ (c < f \/ t <= c) /\ d = block_next(r, c) /\ IsFree(m, c)
      BY <1>8, <2>2 DEF Outside
    <3>2. c \in Nat /\ d \in Nat /\ c + 4 <= d
      BY <1>9, <3>1
    <3>3. CASE d = f
      <4>1. c # b
        BY <1>1, <1>2, <3>2, <3>3
      <4>2. f # b
        BY <1>1, <3>1, <3>3
      <4> QED
        BY <1>1, <3>1, <3>3, <4>1, <4>2 DEF ApartBut
    <3>4. CASE d # f
      <4>1. d \in B /\ (d < f \/ t <= d) /\ IsFree(r, d)
        BY <3>1, <3>4 DEF Outside
      <4>2. IsFree(m, d)
        BY <1>8, <4>1
      <4>3. c # b
        BY <1>1, <1>2, <3>1
      <4>4. d # b
        BY <1>1, <1>2, <4>1
      <4> QED
        BY <3>1, <4>1, <4>2, <4>3, <4>4 DEF ApartBut
    <3> QED
      BY <3>3, <3>4
  <2> QED
    BY <2>1, <2>2
<1>13. n <= t
  BY <1>1, <1>2 DEF n
<1> QED
  <2>1. f \in C
    OBVIOUS
  <2> HIDE DEF C, t
  <2>2. n <= block_next(r, f)
    BY <1>5, <1>13
  <2> QED
    BY <1>1, <1>5, <1>7, <1>10, <1>11, <1>12, <2>1, <2>2 DEF f, n, r

-----------------------------------------------------------------------------
(* Marking and cutting a block.                                            *)

(* New blocks in the place of one.                                         *)
LEMMA BlockReplaced ==
  ASSUME NEW m, NEW n, NEW B, NEW s, NEW e, NEW N, Tiles(m, B, s, e), NEW b \in B,
         Tiles(n, N, b, block_next(m, b)),
         \A x \in Nat : x < e /\ (x < b \/ block_next(m, b) <= x) => n[x] = m[x]
  PROVE  /\ Tiles(n, (B \ {b}) \cup N, s, e)
         /\ \A c \in B \ {b} : Kept(m, n, c)
<1> DEFINE t == block_next(m, b)
<1>1. b \in B \cup {e} /\ t \in B \cup {e} /\ b <= t /\ b \in Nat /\ t \in Nat /\ b < t
  BY BlockFacts
<1>2. /\ Tiles(n, Outside(B, b, t) \cup N, s, e)
      /\ \A c \in B : c < b \/ t <= c => Kept(m, n, c)
  BY <1>1, TilesReplaced
<1>3. ASSUME NEW c \in B PROVE (c < b \/ t <= c) <=> c # b
  <2>1. c \in Nat /\ (b < c => t <= c)
    BY BlockFacts, NextIsNext
  <2> QED
    BY <1>1, <2>1
<1>4. Outside(B, b, t) = B \ {b}
  BY <1>3 DEF Outside
<1> QED
  BY <1>2, <1>3, <1>4

(* The n words at b are to be a block.                                     *)
Place(m, b, n) == /\ DOMAIN m = Addr /\ b \in Nat /\ b % 2 = 1
                  /\ n \in Nat /\ n % 2 = 0 /\ 4 <= n /\ b + n <= MaxHeap

TaggedAs(m, r, b, n, a) ==
  /\ DOMAIN r = Addr
  /\ \A x \in Addr : x # b /\ x # b + n - 1 => r[x] = m[x]
  /\ Tiles(r, {b}, b, b + n) /\ block_next(r, b) = b + n
  /\ block_size(r, b) = 4 * n /\ (IsFree(r, b) <=> a = 0)

LEMMA TagWords ==
  ASSUME NEW m, NEW b, NEW n, Place(m, b, n), NEW a \in {0, 1}
  PROVE  TaggedAs(m, Tag(m, b, 4 * n, a), b, n, a)
<1> USE DEF Place
<1> DEFINE r == Tag(m, b, 4 * n, a)
           z == b + n - 1
<1>1. MaxHeap \in Nat /\ z \in Nat /\ b \in Addr /\ z \in Addr /\ b # z
  BY HeapAssumption DEF Addr
<1>2. b + ((4 * n) \div WSIZE) - 1 = z
  BY DEF WSIZE
<1>3. r = [m EXCEPT ![b] = 4 * n + a, ![z] = 4 * n + a]
  BY <1>2 DEF Tag, PACK
<1> HIDE DEF r, z
<1>4. /\ DOMAIN r = Addr /\ r[b] = 4 * n + a /\ r[z] = 4 * n + a
      /\ \A x \in Addr : x # b /\ x # z => r[x] = m[x]
  BY <1>1, <1>3
<1>5. Tagged(r, b, n)
  <2>1. r[b] \in {4 * n, 4 * n + 1}
    BY <1>4
  <2> QED
    BY <1>4, <2>1 DEF Tagged, z
<1>6. Tiles(r, {b}, b, b + n) /\ block_next(r, b) = b + n
  BY <1>5, TilesOne
<1>7. block_size(r, b) = 4 * n /\ (IsFree(r, b) <=> a = 0)
  BY <1>4, TagRead
<1> QED
  BY <1>4, <1>6, <1>7 DEF r, z, TaggedAs

LEMMA MarkKeeps ==
  ASSUME NEW m, NEW B, NEW s, NEW e, Tiles(m, B, s, e), DOMAIN m = Addr, e <= MaxHeap,
         NEW b \in B, NEW a \in {0, 1}
  PROVE  LET r == block_mark(m, b, a)
         IN  /\ DOMAIN r = Addr /\ Tiles(r, B, s, e)
             /\ \A x \in Addr : x < b \/ block_next(m, b) <= x => r[x] = m[x]
             /\ r[b + 1] = m[b + 1] /\ r[b + 2] = m[b + 2]
             /\ \A c \in B \ {b} : Kept(m, r, c)
             /\ IsFree(r, b) <=> a = 0
             /\ block_next(r, b) = block_next(m, b) /\ block_size(r, b) = block_size(m, b)
<1> DEFINE r == block_mark(m, b, a)
           t == block_next(m, b)
           n == t - b
<1>1. MaxHeap \in Nat /\ e \in Nat
  BY HeapAssumption DEF Tiles
<1>2. /\ b \in Nat /\ b % 2 = 1 /\ t \in Nat /\ b + 4 <= t /\ t <= e /\ n % 2 = 0
      /\ block_size(m, b) = 4 * n
  BY BlockFacts
<1>3. n \in Nat /\ 4 <= n /\ b + n = t /\ b + n <= MaxHeap
  BY <1>1, <1>2
<1>4. r = Tag(m, b, 4 * n, a)
  BY <1>2 DEF block_mark
<1> HIDE DEF n, r
<1>5. /\ DOMAIN r = Addr
      /\ \A x \in Addr : x # b /\ x # b + n - 1 => r[x] = m[x]
      /\ Tiles(r, {b}, b, b + n) /\ block_next(r, b) = b + n
      /\ block_size(r, b) = 4 * n /\ (IsFree(r, b) <=> a = 0)
  <2>1. Place(m, b, n)
    BY <1>2, <1>3 DEF Place
  <2>2. TaggedAs(m, Tag(m, b, 4 * n, a), b, n, a)
    BY <2>1, TagWords
  <2> QED
    BY <1>4, <2>2 DEF TaggedAs
<1>6. \A x \in Addr : x < b \/ t <= x => r[x] = m[x]
  BY <1>1, <1>2, <1>3, <1>5 DEF Addr
<1>7. \A x \in Nat : x < e /\ (x < b \/ t <= x) => r[x] = m[x]
  BY <1>1, <1>6 DEF Addr
<1>8. Tiles(r, {b}, b, t)
  BY <1>3, <1>5
<1>9. /\ Tiles(r, (B \ {b}) \cup {b}, s, e)
      /\ \A c \in B \ {b} : Kept(m, r, c)
  <2> HIDE DEF t
  <2> QED
    BY <1>7, <1>8, BlockReplaced DEF t
<1>10. (B \ {b}) \cup {b} = B
  OBVIOUS
<1>11. r[b + 1] = m[b + 1] /\ r[b + 2] = m[b + 2]
  <2>1. b + 1 \in Addr /\ b + 2 \in Addr /\ b + 1 # b + n - 1 /\ b + 2 # b + n - 1
    BY <1>1, <1>2, <1>3 DEF Addr
  <2>2. b + 1 # b /\ b + 2 # b
    BY <1>2
  <2> QED
    BY <1>5, <2>1, <2>2
<1> QED
  BY <1>2, <1>3, <1>5, <1>6, <1>9, <1>10, <1>11 DEF r

(* A block cut in two, the first one allocated.                            *)
CutsInto(m, r, B, b, k, s, e) ==
  /\ DOMAIN r = Addr
  /\ Tiles(r, (B \ {b}) \cup {b, b + k}, s, e)
  /\ \A x \in Addr : x < b \/ block_next(m, b) <= x => r[x] = m[x]
  /\ \A c \in B \ {b} : Kept(m, r, c)
  /\ ~ IsFree(r, b) /\ block_size(r, b) = 4 * k /\ block_next(r, b) = b + k
  /\ IsFree(r, b + k) /\ block_next(r, b + k) = block_next(m, b)
  /\ r[b + 1] = m[b + 1] /\ r[b + 2] = m[b + 2]

LEMMA CutKeeps ==
  ASSUME NEW m, NEW B, NEW s, NEW e, Tiles(m, B, s, e), DOMAIN m = Addr, e <= MaxHeap,
         NEW b \in B, NEW k \in Nat, k % 2 = 0, 4 <= k, b + k + 4 <= block_next(m, b)
  PROVE  CutsInto(m, Tag(Tag(m, b, 4 * k, 1), b + k, 4 * (block_next(m, b) - (b + k)), 0),
                  B, b, k, s, e)
<1> DEFINE t == block_next(m, b)
           d == b + k
           n == t - d
           u == Tag(m, b, 4 * k, 1)
           r == Tag(u, d, 4 * n, 0)
<1>1. MaxHeap \in Nat /\ e \in Nat
  BY HeapAssumption DEF Tiles
<1>2. /\ b \in Nat /\ b % 2 = 1 /\ t \in Nat /\ t <= e /\ (t - b) % 2 = 0
  BY BlockFacts
<1>3. /\ d \in Nat /\ d % 2 = 1 /\ n \in Nat /\ n % 2 = 0 /\ 4 <= n /\ d + n = t
      /\ d <= MaxHeap /\ t <= MaxHeap /\ b + 4 <= d /\ d + 4 <= t
  BY <1>1, <1>2
<1>4. b + k = d
  OBVIOUS
<1> HIDE DEF d, n, u, r, t
<1>5. /\ DOMAIN u = Addr
      /\ \A x \in Addr : x # b /\ x # d - 1 => u[x] = m[x]
      /\ Tiles(u, {b}, b, d) /\ block_next(u, b) = d
      /\ block_size(u, b) = 4 * k /\ ~ IsFree(u, b)
  <2>1. ~ (1 = 0) /\ 1 \in {0, 1}
    OBVIOUS
  <2>2. Place(m, b, k)
    BY <1>2, <1>3, <1>4 DEF Place
  <2>3. TaggedAs(m, Tag(m, b, 4 * k, 1), b, k, 1)
    BY <2>1, <2>2, TagWords
  <2>4. TaggedAs(m, u, b, k, 1)
    BY <2>3 DEF u
  <2>5. /\ DOMAIN u = Addr
        /\ \A x \in Addr : x # b /\ x # b + k - 1 => u[x] = m[x]
        /\ Tiles(u, {b}, b, b + k) /\ block_next(u, b) = b + k
        /\ block_size(u, b) = 4 * k /\ ~ IsFree(u, b)
    BY <2>1, <2>4 DEF TaggedAs
  <2>6. Tiles(u, {b}, b, d) /\ block_next(u, b) = d
    BY <1>4, <2>5, Zenon
  <2>7. \A x \in Addr : x # b /\ x # d - 1 => u[x] = m[x]
    <3>1. b + k - 1 = d - 1
      BY <1>2, <1>3, <1>4
    <3> QED
      BY <2>5, <3>1, Zenon
  <2> QED
    BY <2>5, <2>6, <2>7
<1>6. /\ DOMAIN r = Addr
      /\ \A x \in Addr : x # d /\ x # t - 1 => r[x] = u[x]
      /\ Tiles(r, {d}, d, t) /\ block_next(r, d) = t /\ IsFree(r, d)
  <2>1. 0 \in {0, 1} /\ 0 = 0
    OBVIOUS
  <2>2. Place(u, d, n)
    BY <1>3, <1>5 DEF Place
  <2>3. TaggedAs(u, Tag(u, d, 4 * n, 0), d, n, 0)
    BY <2>1, <2>2, TagWords
  <2> QED
    BY <1>3, <2>3 DEF TaggedAs, r
<1>7. b \in Addr /\ d - 1 \in Addr /\ r[b] = u[b] /\ r[d - 1] = u[d - 1]
  BY <1>1, <1>2, <1>3, <1>6 DEF Addr
<1>8. Tiles(r, {b}, b, d)
  <2>1. \A c \in {b} : r[c] = u[c] /\ r[block_next(u, c) - 1] = u[block_next(u, c) - 1]
    BY <1>5, <1>7
  <2> QED
    BY <1>5, <2>1, TilesStay
<1>9. Tiles(r, {b, d}, b, t)
  <2>1. Tiles(r, {b} \cup {d}, b, t)
    BY <1>6, <1>8, TilesJoin
  <2>2. {b} \cup {d} = {b, d}
    OBVIOUS
  <2> QED
    BY <2>1, <2>2
<1>10. \A x \in Addr : x < b \/ t <= x => r[x] = m[x]
  BY <1>1, <1>2, <1>3, <1>5, <1>6 DEF Addr
<1>11. \A x \in Nat : x < e /\ (x < b \/ t <= x) => r[x] = m[x]
  BY <1>1, <1>10 DEF Addr
<1>12. /\ Tiles(r, (B \ {b}) \cup {b, d}, s, e)
       /\ \A c \in B \ {b} : Kept(m, r, c)
  BY <1>9, <1>11, BlockReplaced DEF t
<1>13. block_size(r, b) = 4 * k /\ block_next(r, b) = d /\ ~ IsFree(r, b)
  BY <1>5, <1>7, SameTag
<1>14. r[b + 1] = m[b + 1] /\ r[b + 2] = m[b + 2]
  <2>1. /\ b + 1 \in Addr /\ b + 1 # b /\ b + 1 # d - 1 /\ b + 1 # d /\ b + 1 # t - 1
        /\ b + 2 \in Addr /\ b + 2 # b /\ b + 2 # d - 1 /\ b + 2 # d /\ b + 2 # t - 1
    BY <1>1, <1>2, <1>3 DEF Addr
  <2> QED
    BY <1>5, <1>6, <2>1
<1> QED
  BY <1>4, <1>6, <1>10, <1>12, <1>13, <1>14 DEF r, u, n, t, CutsInto

LEMMA PlaceKeeps ==
  ASSUME NEW m, NEW B, NEW e, Tiles(m, B, FirstBlock, e), DOMAIN m = Addr, e < MaxHeap,
         Fences(m, e), Apart(m, B), NEW b \in B, IsFree(m, b),
         NEW a \in Nat, a % 8 = 0, 16 <= a, a <= block_size(m, b)
  PROVE  LET r == place(m, b, a)
         IN  \E C : /\ Tiles(r, C, FirstBlock, e) /\ Apart(r, C)
                    /\ Allocated(r, C) = Allocated(m, B) \cup {b}
                    /\ Spared(m, r, B, e)
                    /\ b \in C /\ a <= block_size(r, b)
<1> DEFINE r == place(m, b, a)
           t == block_next(m, b)
           rest == block_size(m, b) - a
           k == a \div 4
<1>1. MaxHeap \in Nat /\ e \in Nat /\ FirstBlock \in Nat /\ e <= MaxHeap
  BY HeapAssumption DEF Tiles
<1>2. /\ b \in Nat /\ t \in Nat /\ b + 4 <= t /\ (t - b) % 2 = 0 /\ FirstBlock <= b
      /\ t <= e /\ t \in B \cup {e} /\ block_size(m, b) = 4 * (t - b)
  BY BlockFacts
<1>3. k \in Nat /\ k % 2 = 0 /\ 4 <= k /\ a = 4 * k
  OBVIOUS
<1>4. rest = 4 * (t - (b + k))
  BY <1>2, <1>3
<1>5. \A c \in B : c \in Nat /\ block_next(m, c) \in Nat /\ c + 4 <= block_next(m, c)
  BY BlockFacts
<1>6. ~ IsFree(m, t) \/ t \notin B
  BY DEF Apart
<1>7. b \notin Allocated(m, B)
  BY DEF Allocated
<1>8. \A x \in Addr : x < FirstBlock \/ e <= x => x < b \/ t <= x
  BY <1>1, <1>2 DEF Addr
<1>9. CASE rest >= 16
  <2> DEFINE d == b + k
             C == (B \ {b}) \cup {b, d}
  <2>1. r = Tag(Tag(m, b, 4 * k, 1), d, 4 * (t - d), 0)
    <3>1. a \div WSIZE = k /\ 2 * DSIZE = 16
      BY DEF WSIZE, DSIZE
    <3> QED
      BY <1>3, <1>4, <1>9, <3>1 DEF place
  <2>2. b + k + 4 <= t
    BY <1>2, <1>3, <1>4, <1>9
  <2> HIDE DEF r, k, t
  <2>3. /\ DOMAIN r = Addr
        /\ Tiles(r, C, FirstBlock, e)
        /\ \A x \in Addr : x < b \/ t <= x => r[x] = m[x]
        /\ \A c \in B \ {b} : Kept(m, r, c)
        /\ ~ IsFree(r, b) /\ block_size(r, b) = 4 * k /\ block_next(r, b) = d
        /\ IsFree(r, d) /\ block_next(r, d) = t
    <3>1. b + k = d
      OBVIOUS
    <3> HIDE DEF d
    <3>2. CutsInto(m, Tag(Tag(m, b, 4 * k, 1), d, 4 * (t - d), 0), B, b, k, FirstBlock, e)
      BY <1>1, <1>3, <2>2, <3>1, CutKeeps DEF t
    <3>3. CutsInto(m, r, B, b, k, FirstBlock, e)
      BY <2>1, <3>2
    <3> QED
      BY <3>1, <3>3 DEF CutsInto, C, t
  <2>4. d \notin B /\ d # b /\ d \in Nat
    <3>1. d \in Nat /\ b < d /\ d < t
      BY <1>2, <1>3, <2>2
    <3>2. \A c \in B : b < c => t <= c
      BY NextIsNext DEF t
    <3> QED
      BY <1>2, <3>1, <3>2
  <2>5. \A c \in B \ {b} : /\ block_next(r, c) = block_next(m, c)
                           /\ IsFree(r, c) <=> IsFree(m, c)
    BY <2>3, KeptTag
  <2> HIDE DEF d
  <2>6. Allocated(r, C) = Allocated(m, B) \cup {b}
    BY <2>3, <2>4, <2>5, <1>7 DEF Allocated
  <2>7. Apart(r, C)
    <3> SUFFICES ASSUME NEW c \in C, IsFree(r, c), block_next(r, c) \in C,
                        IsFree(r, block_next(r, c))
                 PROVE  FALSE
      BY DEF Apart
    <3>1. c # b
      BY <2>3
    <3>2. CASE c = d
      <4>1. t \in C /\ IsFree(r, t) /\ t # b /\ t # d
        BY <1>2, <2>2, <2>3, <3>2 DEF d
      <4>2. t \in B /\ IsFree(m, t)
        BY <2>5, <4>1
      <4> QED
        BY <1>6, <4>2
    <3>3. CASE c # d
      <4> DEFINE n == block_next(m, c)
      <4>1. c \in B /\ n = block_next(r, c) /\ IsFree(m, c)
        BY <2>5, <3>1, <3>3
      <4>2. n # d
        <5>1. n \in B \cup {e}
          BY <4>1, BlockFacts
        <5>2. d < e
          <6>1. d + 4 <= t
            BY <2>2 DEF d
          <6> QED
            BY <1>1, <1>2, <2>4, <6>1
        <5> QED
          BY <1>1, <2>4, <5>1, <5>2
      <4>3. n \in B /\ IsFree(m, n) /\ n # b
        <5>1. n # b
          BY <2>3, <4>1
        <5> QED
          BY <2>5, <4>1, <4>2, <5>1
      <4> QED
        BY <4>1, <4>3 DEF Apart
    <3> QED
      BY <3>2, <3>3
  <2>8. Spared(m, r, B, e)
    BY <1>7, <1>8, <2>3 DEF Spared, Allocated
  <2>9. b \in C /\ a <= block_size(r, b)
    BY <1>3, <2>3
  <2> QED
    BY <2>3, <2>6, <2>7, <2>8, <2>9 DEF r
<1>10. CASE ~ (rest >= 16)
  <2>1. r = block_mark(m, b, 1)
    <3>1. 2 * DSIZE = 16
      BY DEF DSIZE
    <3> QED
      BY <1>10, <3>1 DEF place
  <2>2. 1 \in {0, 1} /\ ~ (1 = 0)
    OBVIOUS
  <2> HIDE DEF r, t
  <2>3. /\ DOMAIN r = Addr /\ Tiles(r, B, FirstBlock, e)
        /\ \A x \in Addr : x < b \/ t <= x => r[x] = m[x]
        /\ \A c \in B \ {b} : Kept(m, r, c)
        /\ ~ IsFree(r, b)
        /\ block_next(r, b) = t /\ block_size(r, b) = block_size(m, b)
    BY <1>1, <2>1, <2>2, MarkKeeps DEF t
  <2>4. \A c \in B \ {b} : /\ block_next(r, c) = block_next(m, c)
                           /\ IsFree(r, c) <=> IsFree(m, c)
    BY <2>3, KeptTag
  <2>5. Allocated(r, B) = Allocated(m, B) \cup {b}
    BY <2>3, <2>4 DEF Allocated
  <2>6. Apart(r, B)
    BY <2>3, <2>4 DEF Apart
  <2>7. Spared(m, r, B, e)
    BY <1>7, <1>8, <2>3 DEF Spared, Allocated
  <2> QED
    BY <2>3, <2>5, <2>6, <2>7 DEF r
<1> QED
  BY <1>9, <1>10

(* Words written between the tags of a block change no block.              *)
LEMMA PayloadWritten ==
  ASSUME NEW m, NEW r, NEW B, NEW s, NEW e, Tiles(m, B, s, e), e <= MaxHeap,
         NEW b \in B,
         \A x \in Addr : ~ (b < x /\ x < block_next(m, b) - 1) => r[x] = m[x]
  PROVE  /\ Tiles(r, B, s, e)
         /\ Allocated(r, B) = Allocated(m, B)
         /\ \A x \in Addr : x < s \/ e <= x => r[x] = m[x]
         /\ \A c \in B \ {b} : Kept(m, r, c)
         /\ \A c \in B : /\ block_next(r, c) = block_next(m, c)
                         /\ block_size(r, c) = block_size(m, c)
                         /\ IsFree(r, c) <=> IsFree(m, c)
<1> DEFINE t == block_next(m, b)
<1>1. MaxHeap \in Nat /\ e \in Nat /\ s \in Nat
  BY HeapAssumption DEF Tiles
<1>2. /\ b \in Nat /\ t \in Nat /\ b + 4 <= t /\ s <= b /\ t <= e
  BY BlockFacts
<1>3. ASSUME NEW c \in B, c # b PROVE Kept(m, r, c)
  <2> DEFINE d == block_next(m, c)
  <2>1. c \in Nat /\ d \in Nat /\ c + 4 <= d /\ d <= e
    BY BlockFacts
  <2>2. /\ c < b => d <= b
        /\ b < c => t <= c
    BY NextIsNext
  <2>3. \A x \in c .. d - 1 : x \in Addr /\ ~ (b < x /\ x < t - 1)
    BY <1>1, <1>2, <1>3, <2>1, <2>2 DEF Addr
  <2> QED
    BY <2>3 DEF Kept
<1>4. \A c \in B : r[c] = m[c] /\ r[block_next(m, c) - 1] = m[block_next(m, c) - 1]
  <2>1. r[b] = m[b] /\ r[t - 1] = m[t - 1]
    <3>1. b \in Addr /\ t - 1 \in Addr /\ ~ (b < b) /\ ~ (t - 1 < t - 1)
      BY <1>1, <1>2 DEF Addr
    <3> QED
      BY <3>1
  <2> QED
    BY <1>3, <2>1, KeptTag
<1>5. Tiles(r, B, s, e)
  BY <1>4, TilesStay
<1>6. \A c \in B : /\ block_next(r, c) = block_next(m, c)
                   /\ block_size(r, c) = block_size(m, c)
                   /\ IsFree(r, c) <=> IsFree(m, c)
  BY <1>4, SameTag
<1>7. Allocated(r, B) = Allocated(m, B)
  BY <1>6 DEF Allocated
<1>8. \A x \in Addr : x < s \/ e <= x => r[x] = m[x]
  BY <1>1, <1>2 DEF Addr
<1> QED
  BY <1>3, <1>5, <1>6, <1>7, <1>8

-----------------------------------------------------------------------------
(* The heaps of the two allocators.  The lists of the explicit one are     *)
(* those of its own module; its words and blocks are the ones above.       *)
Explicit == INSTANCE ExplicitHeap

Kinds == {"implicit", "explicit"}

(* Where the blocks begin and end: the explicit heap has no epilogue.      *)
Start(kind) == IF kind = "implicit" THEN 3 ELSE 5

End(kind, h) == IF kind = "implicit" THEN h.brk - 1 ELSE h.brk

Frees(m, B) == {b \in B : IsFree(m, b)}

(* The nodes F are on the list that begins in the prologue, at 1, and ends *)
(* at the epilogue, at 4: each node points to one after it, which points   *)
(* back, and r numbers them in that order.                                 *)
Linked(m, F, r) ==
  /\ r \in [Addr -> Int]
  /\ \A b \in F \cup {1} : m[b + 1] \in F \cup {4}
  /\ \A b \in F \cup {1} : m[b + 1] \in F => m[m[b + 1] + 2] = b /\ r[b] < r[m[b + 1]]
  /\ \A b \in F : m[b + 2] \in F \cup {1} /\ m[m[b + 2] + 1] = b /\ r[1] < r[b]

ListOf(m, F) == \E r : Linked(m, F, r)

(* The heap h is laid out in the blocks B.                                 *)
Laid(kind, h, B) ==
  /\ h = [mem |-> h.mem, brk |-> h.brk] /\ DOMAIN h.mem = Addr
  /\ h.brk \in Nat /\ h.brk <= MaxHeap
  /\ Tiles(h.mem, B, Start(kind), End(kind, h))
  /\ kind = "implicit" => Fences(h.mem, h.brk - 1) /\ Apart(h.mem, B)
  /\ kind = "explicit" => h.mem[4] = 1 /\ ListOf(h.mem, Frees(h.mem, B))

(* From h to g no block that stays allocated changes.                      *)
Serves(kind, h, B, g, C) ==
  /\ Laid(kind, g, C)
  /\ \A b \in Allocated(h.mem, B) \cap Allocated(g.mem, C) : Kept(h.mem, g.mem, b)

LEMMA LaidFacts ==
  ASSUME NEW kind \in Kinds, NEW h, NEW B, Laid(kind, h, B)
  PROVE  /\ MaxHeap \in Nat /\ h.brk \in Nat /\ h.brk <= MaxHeap
         /\ End(kind, h) \in Nat /\ End(kind, h) <= MaxHeap
         /\ Start(kind) \in {3, 5} /\ Start(kind) <= End(kind, h)
         /\ End(kind, h) % 2 = 1
         /\ Tiles(h.mem, B, Start(kind), End(kind, h))
<1>1. MaxHeap \in Nat /\ h.brk \in Nat /\ h.brk <= MaxHeap
  BY HeapAssumption DEF Laid
<1>2. Tiles(h.mem, B, Start(kind), End(kind, h))
  BY DEF Laid
<1>3. Start(kind) \in {3, 5} /\ End(kind, h) \in {h.brk - 1, h.brk}
  BY DEF Start, End
<1> DEFINE e == End(kind, h)
           s == Start(kind)
<1>4. e \in B \cup {e}
  OBVIOUS
<1> HIDE DEF e, s
<1>5. Tiles(h.mem, B, s, e)
  BY <1>2 DEF e, s
<1>6. e \in Nat /\ e % 2 = 1 /\ s <= e
  BY <1>4, <1>5, TilesEnd
<1> QED
  BY <1>1, <1>2, <1>3, <1>6 DEF e, s

LEMMA ImplicitLaid ==
  ASSUME NEW h, NEW B
  PROVE  Laid("implicit", h, B) <=>
           /\ h = [mem |-> h.mem, brk |-> h.brk] /\ DOMAIN h.mem = Addr
           /\ h.brk \in Nat /\ h.brk <= MaxHeap
           /\ Tiles(h.mem, B, FirstBlock, h.brk - 1)
           /\ Fences(h.mem, h.brk - 1) /\ Apart(h.mem, B)
<1>1. Start("implicit") = FirstBlock /\ End("implicit", h) = h.brk - 1
  BY DEF Start, End, FirstBlock
<1> QED
  BY <1>1 DEF Laid

LEMMA ImplicitFacts ==
  ASSUME NEW h, NEW B, Laid("implicit", h, B)
  PROVE  /\ MaxHeap \in Nat /\ h.brk \in Nat /\ h.brk <= MaxHeap
         /\ h.brk - 1 \in Nat /\ h.brk - 1 < MaxHeap /\ FirstBlock = 3
         /\ 3 <= h.brk - 1 /\ (h.brk - 1) % 2 = 1
<1>1. Start("implicit") = 3 /\ End("implicit", h) = h.brk - 1 /\ "implicit" \in Kinds
  BY DEF Start, End, Kinds
<1>2. /\ MaxHeap \in Nat /\ h.brk \in Nat /\ h.brk <= MaxHeap
      /\ h.brk - 1 \in Nat /\ 3 <= h.brk - 1 /\ (h.brk - 1) % 2 = 1
  BY <1>1, LaidFacts
<1> QED
  BY <1>2 DEF FirstBlock

LEMMA AllocatedFacts ==
  ASSUME NEW kind \in Kinds, NEW h, NEW B, Laid(kind, h, B), NEW b \in Allocated(h.mem, B)
  PROVE  /\ b \in B /\ ~ IsFree(h.mem, b) /\ b \in Nat /\ 3 <= b /\ b % 2 = 1
         /\ block_next(h.mem, b) \in Nat /\ b + 4 <= block_next(h.mem, b)
         /\ block_next(h.mem, b) <= MaxHeap
         /\ block_size(h.mem, b) = 4 * (block_next(h.mem, b) - b)
<1>1. b \in B /\ ~ IsFree(h.mem, b)
  BY DEF Allocated
<1>2. /\ b \in Nat /\ Start(kind) <= b /\ b % 2 = 1
      /\ block_next(h.mem, b) \in Nat /\ b + 4 <= block_next(h.mem, b)
      /\ block_next(h.mem, b) <= End(kind, h)
      /\ block_size(h.mem, b) = 4 * (block_next(h.mem, b) - b)
  BY <1>1, LaidFacts, BlockFacts
<1>3. MaxHeap \in Nat /\ End(kind, h) \in Nat /\ End(kind, h) <= MaxHeap /\ Start(kind) \in {3, 5}
  BY LaidFacts
<1> QED
  BY <1>1, <1>2, <1>3

LEMMA ServesOn ==
  ASSUME NEW kind \in Kinds, NEW h, NEW B, NEW g, NEW C, NEW k, NEW D, Laid(kind, h, B),
         Serves(kind, h, B, g, C), Serves(kind, g, C, k, D),
         Allocated(h.mem, B) \cap Allocated(k.mem, D) \subseteq Allocated(g.mem, C)
  PROVE  Serves(kind, h, B, k, D)
<1> SUFFICES ASSUME NEW b, b \in Allocated(h.mem, B), b \in Allocated(k.mem, D)
             PROVE  Kept(h.mem, k.mem, b)
  BY DEF Serves
<1>1. b \in Allocated(g.mem, C)
  OBVIOUS
<1>2. Kept(h.mem, g.mem, b) /\ Kept(g.mem, k.mem, b)
  BY <1>1 DEF Serves
<1>3. b \in B
  BY DEF Allocated
<1>4. block_next(g.mem, b) = block_next(h.mem, b)
  <2>1. b \in Nat /\ block_next(h.mem, b) \in Nat /\ b + 4 <= block_next(h.mem, b)
    BY AllocatedFacts
  <2>2. b \in b .. block_next(h.mem, b) - 1
    BY <2>1
  <2>3. g.mem[b] = h.mem[b]
    BY <1>2, <2>2 DEF Kept
  <2> QED
    BY ONLY <2>3, SameTag
<1> QED
  BY <1>2, <1>4 DEF Kept

LEMMA MallocSize ==
  ASSUME NEW size \in Nat, size # 0
  PROVE  LET a == getMallocSize(size)
             w == Max({a, CHUNKSIZE}) \div WSIZE
         IN  /\ a \in Nat /\ a % 8 = 0 /\ 16 <= a /\ size + 8 <= a
             /\ w \in Nat /\ w % 2 = 0 /\ 4 <= w /\ a <= 4 * w
<1> DEFINE a == getMallocSize(size)
           x == Max({a, CHUNKSIZE})
<1>1. a \in Nat /\ a % 8 = 0 /\ 16 <= a /\ size + 8 <= a
  <2>1. CASE size <= 8
    BY <2>1 DEF getMallocSize, DSIZE
  <2>2. CASE ~ (size <= 8)
    <3>1. a = 8 * ((size + 15) \div 8)
      BY <2>2 DEF getMallocSize, DSIZE
    <3> DEFINE q == (size + 15) \div 8
    <3>2. q \in Nat /\ size + 15 < 8 * q + 8 /\ 2 <= q
      BY <2>2
    <3> QED
      BY <3>1, <3>2
  <2> QED
    BY <2>1, <2>2
<1>2. CHUNKSIZE \in Nat /\ CHUNKSIZE % 8 = 0 /\ 16 <= CHUNKSIZE
  BY HeapAssumption
<1> HIDE DEF a
<1>3. x \in {a, CHUNKSIZE} /\ a <= x
  <2>1. \E y \in {a, CHUNKSIZE} : \A z \in {a, CHUNKSIZE} : z <= y
    BY <1>1, <1>2
  <2>2. x \in {a, CHUNKSIZE} /\ \A z \in {a, CHUNKSIZE} : z <= x
    BY <2>1 DEF Max
  <2> QED
    BY <2>2
<1>4. x \in Nat /\ x % 8 = 0 /\ 16 <= x /\ a <= x
  BY <1>1, <1>2, <1>3
<1> HIDE DEF x
<1> DEFINE w == x \div 4
<1>5. w \in Nat /\ w % 2 = 0 /\ 4 <= w /\ 4 * w = x
  BY <1>4
<1>6. WSIZE = 4
  BY DEF WSIZE
<1> QED
  BY <1>1, <1>4, <1>5, <1>6 DEF a, x

(* malloc of that size gave the block at d, or none.                       *)
Granted(kind, h, B, size, g, p, C) ==
  /\ Serves(kind, h, B, g, C)
  /\ size = 0 => p = NULL
  /\ p = NULL => Allocated(g.mem, C) = Allocated(h.mem, B)
  /\ p # NULL => /\ p \in Nat /\ p - 1 \notin Allocated(h.mem, B)
                 /\ Allocated(g.mem, C) = Allocated(h.mem, B) \cup {p - 1}
                 /\ size + 8 <= block_size(g.mem, p - 1)

(* The client, or realloc, writes into the payload of a block.             *)
PayloadOnly(m, b, w) ==
  /\ DOMAIN w = Addr
  /\ \A x \in Addr : ~ (b < x /\ x < block_next(m, b) - 1) => w[x] = m[x]

-----------------------------------------------------------------------------
(* The calls of the implicit list.                                         *)
(* A block of the given number of words is put before the epilogue.        *)
LEMMA GrowKeeps ==
  ASSUME NEW h, NEW B, Laid("implicit", h, B), NEW n \in Nat, n % 2 = 0, 4 <= n,
         h.brk + n <= MaxHeap
  PROVE  LET m == Extended(h, n).mem
             b == h.brk - 1
             e == h.brk + n - 1
         IN  /\ Tiles(m, B \cup {b}, FirstBlock, e) /\ Fences(m, e)
             /\ DOMAIN m = Addr
             /\ b \notin B /\ IsFree(m, b) /\ block_next(m, b) = e
             /\ \A c \in B : Kept(h.mem, m, c)
<1> DEFINE b == h.brk - 1
           e == h.brk + n - 1
           u == Tag(h.mem, b, 4 * n, 0)
           m == Extended(h, n).mem
<1>1. /\ MaxHeap \in Nat /\ b \in Nat /\ 3 <= b /\ b % 2 = 1 /\ e \in Nat
      /\ e < MaxHeap /\ b + n = e /\ FirstBlock = 3
  BY ImplicitFacts
<1>2. /\ Tiles(h.mem, B, FirstBlock, b) /\ Fences(h.mem, b) /\ DOMAIN h.mem = Addr
  BY ImplicitLaid
<1>3. m = [u EXCEPT ![e] = 1]
  <2>1. 4 * n = n * WSIZE /\ PACK(0, 1) = 1
    BY DEF WSIZE, PACK
  <2> HIDE DEF e
  <2>2. Extended(h, n).mem = [Tag(h.mem, b, 4 * n, 0) EXCEPT ![e] = 1]
    BY <1>1, <2>1 DEF Extended
  <2> QED
    BY <2>2
<1> HIDE DEF b, e, u, m
<1>4. TaggedAs(h.mem, u, b, n, 0)
  <2>1. Place(h.mem, b, n)
    BY <1>1, <1>2 DEF Place
  <2> QED
    BY <2>1, TagWords DEF u
<1>5. /\ DOMAIN u = Addr
      /\ \A x \in Addr : x # b /\ x # b + n - 1 => u[x] = h.mem[x]
      /\ Tiles(u, {b}, b, b + n) /\ block_next(u, b) = b + n /\ IsFree(u, b)
  BY <1>4 DEF TaggedAs
<1>6. /\ DOMAIN m = Addr /\ m[e] = 1
      /\ \A x \in Addr : x # e => m[x] = u[x]
      /\ \A x \in Addr : x < b => m[x] = h.mem[x]
  <2>1. e \in Addr
    BY <1>1 DEF Addr
  <2>2. /\ DOMAIN m = Addr /\ m[e] = 1
        /\ \A x \in Addr : x # e => m[x] = u[x]
    BY <1>3, <1>5, <2>1
  <2>3. \A x \in Addr : x < b => x # b /\ x # b + n - 1 /\ x # e
    BY <1>1 DEF Addr
  <2> QED
    BY <1>5, <2>2, <2>3
<1>7. Tiles(m, {b}, b, e) /\ block_next(m, b) = e /\ IsFree(m, b)
  <2>1. Tiles(u, {b}, b, e) /\ block_next(u, b) = e
    BY <1>1, <1>5, Zenon
  <2>2. b \in Addr /\ e - 1 \in Addr /\ b # e /\ e - 1 # e
    BY <1>1 DEF Addr
  <2>3. m[b] = u[b] /\ m[e - 1] = u[e - 1]
    BY <1>6, <2>2
  <2>4. \A c \in {b} : m[c] = u[c] /\ m[block_next(u, c) - 1] = u[block_next(u, c) - 1]
    BY <2>1, <2>3
  <2> QED
    BY <1>5, <2>1, <2>3, <2>4, TilesStay, SameTag
<1>8. \A c \in B : Kept(h.mem, m, c) /\ c \in Nat /\ c < b
  <2> SUFFICES ASSUME NEW c \in B PROVE Kept(h.mem, m, c) /\ c \in Nat /\ c < b
    OBVIOUS
  <2>1. c \in Nat /\ block_next(h.mem, c) \in Nat /\ block_next(h.mem, c) <= b
        /\ c + 4 <= block_next(h.mem, c)
    BY <1>2, BlockFacts
  <2>2. \A x \in c .. block_next(h.mem, c) - 1 : x \in Addr /\ x < b
    BY <1>1, <2>1 DEF Addr
  <2> QED
    BY <1>1, <1>6, <2>1, <2>2 DEF Kept
<1>9. Tiles(m, B, FirstBlock, b)
  <2>1. \A c \in B : /\ m[c] = h.mem[c]
                     /\ m[block_next(h.mem, c) - 1] = h.mem[block_next(h.mem, c) - 1]
    BY <1>2, <1>8, KeptTag
  <2> QED
    BY <1>2, <2>1, TilesStay
<1>10. Tiles(m, B \cup {b}, FirstBlock, e)
  BY <1>7, <1>9, TilesJoin
<1>11. Fences(m, e)
  <2>1. 1 \in Addr /\ 2 \in Addr /\ 1 < b /\ 2 < b
    BY <1>1 DEF Addr
  <2> QED
    BY <1>2, <1>6, <2>1 DEF Fences
<1>12. b \notin B
  BY <1>1, <1>8
<1> QED
  BY <1>6, <1>7, <1>8, <1>10, <1>11, <1>12 DEF b, e, m

LEMMA ExtendKeeps ==
  ASSUME NEW h, NEW B, Laid("implicit", h, B), NEW n \in Nat, n % 2 = 0, 4 <= n,
         h.brk + n <= MaxHeap
  PROVE  LET g == extend_heap(h, n)
             f == First(Extended(h, n).mem, h.brk - 1)
         IN  \E C : /\ Serves("implicit", h, B, g, C)
                    /\ Allocated(g.mem, C) = Allocated(h.mem, B)
                    /\ f \in C /\ IsFree(g.mem, f) /\ 4 * n <= block_size(g.mem, f)
<1> DEFINE b == h.brk - 1
           e == h.brk + n - 1
           m == Extended(h, n).mem
           f == First(m, b)
           g == extend_heap(h, n)
           A == B \cup {b}
<1>1. /\ Tiles(m, A, FirstBlock, e) /\ Fences(m, e) /\ DOMAIN m = Addr
      /\ b \notin B /\ IsFree(m, b) /\ block_next(m, b) = e
      /\ \A c \in B : Kept(h.mem, m, c)
  BY GrowKeeps
<1>2. /\ Tiles(h.mem, B, FirstBlock, b) /\ Apart(h.mem, B)
  BY ImplicitLaid
<1>3. /\ b \in Nat /\ e \in Nat /\ e < MaxHeap /\ b + n = e /\ h.brk + n \in Nat
      /\ (h.brk + n) - 1 = e /\ FirstBlock = 3 /\ 3 <= e
  BY ImplicitFacts
<1>4. g = [mem |-> coalesce(m, b), brk |-> h.brk + n]
  <2>1. n + (n % 2) = n
    OBVIOUS
  <2>2. extend_heap(h, n) = [Extended(h, n) EXCEPT !.mem = coalesce(@, h.brk - 1)]
    BY <2>1, Zenon DEF extend_heap
  <2>3. Extended(h, n) = [mem |-> m, brk |-> h.brk + n]
    BY DEF Extended
  <2> HIDE DEF m
  <2> QED
    BY <2>2, <2>3
<1> HIDE DEF b, e, m
<1>5. \A c \in B : /\ block_next(m, c) = block_next(h.mem, c)
                   /\ IsFree(m, c) <=> IsFree(h.mem, c)
  BY <1>1, <1>2, KeptTag
<1>6. ApartBut(m, A, b)
  BY <1>2, <1>5 DEF ApartBut, Apart
<1>7. Allocated(m, A) = Allocated(h.mem, B)
  BY <1>1, <1>5 DEF Allocated
<1> DEFINE r == coalesce(m, b)
<1>8. PICK C : /\ Tiles(r, C, FirstBlock, e) /\ Apart(r, C)
               /\ Allocated(r, C) = Allocated(m, A)
               /\ Spared(m, r, A, e)
               /\ f \in C /\ IsFree(r, f) /\ f <= b
               /\ block_next(m, b) <= block_next(r, f)
  <2>1. b \in A
    OBVIOUS
  <2> HIDE DEF A
  <2> QED
    BY <1>1, <1>3, <1>6, <2>1, CoalesceKeeps
<1> HIDE DEF r, f, g, A
<1>9. Fences(r, e) /\ DOMAIN r = Addr
  <2>1. 1 \in Addr /\ 2 \in Addr /\ e \in Addr /\ 1 < FirstBlock /\ 2 < FirstBlock /\ e <= e
    BY <1>3, ImplicitFacts DEF Addr
  <2> QED
    BY <1>1, <1>8, <2>1 DEF Fences, Spared
<1>10. g.mem = r /\ g.brk = h.brk + n
  BY <1>4 DEF r
<1>11. Laid("implicit", g, C)
  <2>1. g = [mem |-> g.mem, brk |-> g.brk] /\ DOMAIN g.mem = Addr
    BY <1>4, <1>9, <1>10 DEF r
  <2>2. g.brk \in Nat /\ g.brk <= MaxHeap /\ g.brk - 1 = e
    BY <1>3, <1>10
  <2> QED
    BY <1>8, <1>9, <1>10, <2>1, <2>2, ImplicitLaid
<1>12. ASSUME NEW c \in Allocated(h.mem, B) PROVE Kept(h.mem, g.mem, c)
  <2>1. c \in B /\ block_next(m, c) = block_next(h.mem, c)
    BY <1>5 DEF Allocated
  <2>2. Kept(h.mem, m, c) /\ Kept(m, r, c)
    BY <1>1, <1>7, <1>8, <2>1 DEF Spared
  <2> QED
    BY <1>10, <2>1, <2>2 DEF Kept
<1>13. 4 * n <= block_size(g.mem, f)
  <2>1. /\ f \in Nat /\ block_next(r, f) \in Nat
        /\ block_size(r, f) = 4 * (block_next(r, f) - f)
    BY <1>8, BlockFacts
  <2> QED
    BY <1>1, <1>3, <1>8, <1>10, <2>1
<1> QED
  BY <1>7, <1>8, <1>10, <1>11, <1>12, <1>13 DEF f, g, m, b, Serves

LEMMA ImplicitFreeKeeps ==
  ASSUME NEW h, NEW B, Laid("implicit", h, B), NEW b \in Allocated(h.mem, B)
  PROVE  LET g == free(h, b + 1)
         IN  \E C : /\ Serves("implicit", h, B, g, C)
                    /\ Allocated(g.mem, C) = Allocated(h.mem, B) \ {b}
<1> DEFINE e == h.brk - 1
           m == block_mark(h.mem, b, 0)
           r == coalesce(m, b)
           g == free(h, b + 1)
<1>1. /\ Tiles(h.mem, B, FirstBlock, e) /\ Apart(h.mem, B) /\ Fences(h.mem, e)
      /\ DOMAIN h.mem = Addr
  BY ImplicitLaid
<1>2. /\ b \in B /\ ~ IsFree(h.mem, b) /\ b \in Nat /\ 3 <= b
      /\ block_next(h.mem, b) \in Nat
  BY AllocatedFacts DEF Kinds
<1>3. e \in Nat /\ e < MaxHeap /\ FirstBlock = 3 /\ 3 <= e /\ MaxHeap \in Nat
  BY ImplicitFacts
<1>4. g = [mem |-> r, brk |-> h.brk]
  <2>1. (b + 1) - 1 = b
    BY <1>2
  <2>2. g = [h EXCEPT !.mem = coalesce(block_mark(@, b, 0), b)]
    BY <2>1, Zenon DEF free
  <2>3. h = [mem |-> h.mem, brk |-> h.brk]
    BY ImplicitLaid
  <2> QED
    BY <2>2, <2>3
<1>5. block_next(h.mem, b) <= e
  BY <1>1, <1>2, BlockFacts
<1> HIDE DEF e, g, m
<1>6. /\ DOMAIN m = Addr /\ Tiles(m, B, FirstBlock, e)
      /\ \A x \in Addr : x < b \/ block_next(h.mem, b) <= x => m[x] = h.mem[x]
      /\ \A c \in B \ {b} : Kept(h.mem, m, c)
      /\ IsFree(m, b) /\ block_next(m, b) = block_next(h.mem, b)
  <2>1. 0 \in {0, 1} /\ 0 = 0
    OBVIOUS
  <2> QED
    BY <1>1, <1>2, <1>3, <2>1, MarkKeeps DEF m
<1>7. \A c \in B \ {b} : /\ block_next(m, c) = block_next(h.mem, c)
                         /\ IsFree(m, c) <=> IsFree(h.mem, c)
  BY <1>1, <1>6, KeptTag
<1>8. ApartBut(m, B, b)
  BY <1>1, <1>7 DEF ApartBut, Apart
<1>9. Allocated(m, B) = Allocated(h.mem, B) \ {b}
  BY <1>6, <1>7 DEF Allocated
<1>10. 1 \in Addr /\ 2 \in Addr /\ e \in Addr /\ 1 < FirstBlock /\ 2 < FirstBlock /\ e <= e
       /\ 1 < b /\ 2 < b
  BY <1>2, <1>3 DEF Addr
<1>11. Fences(m, e)
  BY <1>1, <1>5, <1>6, <1>10 DEF Fences
<1>12. PICK C : /\ Tiles(r, C, FirstBlock, e) /\ Apart(r, C)
                /\ Allocated(r, C) = Allocated(m, B)
                /\ Spared(m, r, B, e)
  BY <1>2, <1>3, <1>6, <1>8, <1>11, CoalesceKeeps
<1> HIDE DEF r
<1>13. Fences(r, e) /\ DOMAIN r = Addr
  BY <1>10, <1>11, <1>12 DEF Fences, Spared
<1>14. Laid("implicit", g, C)
  <2>1. g.mem = r /\ g.brk = h.brk /\ g = [mem |-> g.mem, brk |-> g.brk]
    BY <1>4
  <2>2. h.brk \in Nat /\ h.brk <= MaxHeap
    BY ImplicitLaid
  <2> QED
    BY <1>12, <1>13, <2>1, <2>2, ImplicitLaid DEF e
<1>15. ASSUME NEW c \in Allocated(h.mem, B) \ {b} PROVE Kept(h.mem, r, c)
  <2>1. c \in B \ {b} /\ block_next(m, c) = block_next(h.mem, c)
    BY <1>7 DEF Allocated
  <2>2. Kept(h.mem, m, c) /\ Kept(m, r, c)
    BY <1>6, <1>9, <1>12, <2>1 DEF Spared
  <2> QED
    BY <2>1, <2>2 DEF Kept
<1>16. g.mem = r
  BY <1>4
<1> QED
  BY <1>9, <1>12, <1>14, <1>15, <1>16 DEF g, Serves

LEMMA PlacedKeeps ==
  ASSUME NEW h, NEW B, Laid("implicit", h, B), NEW b \in B, IsFree(h.mem, b),
         NEW a \in Nat, a % 8 = 0, 16 <= a, a <= block_size(h.mem, b)
  PROVE  LET g == [h EXCEPT !.mem = place(@, b, a)]
         IN  \E C : /\ Serves("implicit", h, B, g, C)
                    /\ Allocated(g.mem, C) = Allocated(h.mem, B) \cup {b}
                    /\ a <= block_size(g.mem, b)
<1> DEFINE e == h.brk - 1
           r == place(h.mem, b, a)
           g == [h EXCEPT !.mem = place(@, b, a)]
<1>1. /\ Tiles(h.mem, B, FirstBlock, e) /\ Apart(h.mem, B) /\ Fences(h.mem, e)
      /\ DOMAIN h.mem = Addr /\ h.brk \in Nat /\ h.brk <= MaxHeap
  BY ImplicitLaid
<1>2. e \in Nat /\ e < MaxHeap /\ FirstBlock = 3 /\ 3 <= e
  BY ImplicitFacts
<1>3. g = [mem |-> r, brk |-> h.brk]
  <2>1. h = [mem |-> h.mem, brk |-> h.brk]
    BY ImplicitLaid
  <2> QED
    BY <2>1
<1>4. PICK C : /\ Tiles(r, C, FirstBlock, e) /\ Apart(r, C)
               /\ Allocated(r, C) = Allocated(h.mem, B) \cup {b}
               /\ Spared(h.mem, r, B, e)
               /\ b \in C /\ a <= block_size(r, b)
  <2> HIDE DEF e
  <2> QED
    BY <1>1, <1>2, PlaceKeeps
<1> HIDE DEF e, r, g
<1>5. Fences(r, e) /\ DOMAIN r = Addr
  <2>1. 1 \in Addr /\ 2 \in Addr /\ e \in Addr /\ 1 < FirstBlock /\ 2 < FirstBlock /\ e <= e
    BY <1>2, ImplicitFacts DEF Addr
  <2> QED
    BY <1>1, <1>4, <2>1 DEF Fences, Spared
<1>6. g.mem = r /\ g.brk = h.brk /\ g = [mem |-> g.mem, brk |-> g.brk]
  BY <1>3
<1>7. Laid("implicit", g, C)
  BY <1>1, <1>4, <1>5, <1>6, ImplicitLaid DEF e
<1>8. \A c \in Allocated(h.mem, B) : Kept(h.mem, r, c)
  BY <1>4 DEF Spared
<1> QED
  BY <1>4, <1>6, <1>7, <1>8 DEF Serves, g

LEMMA FirstFit ==
  ASSUME NEW h, NEW B, Laid("implicit", h, B), NEW size
  PROVE  LET fit == find_first_fit(h.mem, size)
         IN  fit # NULL => fit \in B /\ IsFree(h.mem, fit) /\ size <= block_size(h.mem, fit)
<1> DEFINE e == h.brk - 1
           fits == {b \in B : size <= block_size(h.mem, b) /\ IsFree(h.mem, b)}
           fit == find_first_fit(h.mem, size)
<1>1. Tiles(h.mem, B, FirstBlock, e) /\ Fences(h.mem, e)
  BY ImplicitLaid
<1>2. e \in Nat /\ MaxHeap - 1 \in Nat /\ e <= MaxHeap - 1
  BY ImplicitFacts
<1>3. block_next(h.mem, e) = e
  BY <1>1, <1>2, FencesRead
<1>4. BlocksBetween(h.mem, FirstBlock, MaxHeap - 1) = B
  <2> HIDE DEF e
  <2> QED
    BY <1>1, <1>2, <1>3, BlocksAre
<1>5. fit = IF fits = {} THEN NULL ELSE Min(fits)
  BY <1>4 DEF find_first_fit
<1>6. fits \in SUBSET Nat
  BY <1>1, BlockFacts
<1>7. ASSUME fits # {} PROVE Min(fits) \in fits
  <2> HIDE DEF fits
  <2>1. \E x \in fits : \A y \in fits : x <= y
    BY <1>6, <1>7, LeastNat
  <2> QED
    BY <2>1 DEF Min
<1>8. fit # NULL => fit \in fits
  <2> HIDE DEF fits
  <2> QED
    BY <1>5, <1>7
<1> QED
  BY <1>8

LEMMA ImplicitMallocKeeps ==
  ASSUME NEW h, NEW B, Laid("implicit", h, B), NEW size \in Nat
  PROVE  LET r == malloc(h, size)
         IN  \E C : Granted("implicit", h, B, size, r.heap, r.ptr, C)
<1> DEFINE r == malloc(h, size)
           a == getMallocSize(size)
           fit == find_first_fit(h.mem, a)
           w == Max({a, CHUNKSIZE}) \div WSIZE
           grown == extend_heap(h, w)
           last == First(Extended(h, w).mem, h.brk - 1)
           Given(g, b) == [heap |-> [g EXCEPT !.mem = place(@, b, a)], ptr |-> b + 1]
           Result(q) == \E C : Granted("implicit", h, B, size, q.heap, q.ptr, C)
<1> SUFFICES Result(r)
  OBVIOUS
<1>1. r = IF size = 0 THEN [heap |-> h, ptr |-> NULL]
          ELSE IF fit # NULL THEN Given(h, fit)
          ELSE IF CanGrow(h, w) THEN Given(grown, last)
          ELSE [heap |-> h, ptr |-> NULL]
  BY DEF malloc
<1>2. Result([heap |-> h, ptr |-> NULL])
  <2>1. Serves("implicit", h, B, h, B)
    BY DEF Serves, Kept
  <2> QED
    BY <2>1 DEF Granted
<1>3. ASSUME NEW g, NEW C, Serves("implicit", h, B, g, C), Allocated(g.mem, C) = Allocated(h.mem, B),
             NEW b \in C, IsFree(g.mem, b), a <= block_size(g.mem, b), size # 0
      PROVE  Result(Given(g, b))
  <2> DEFINE k == [g EXCEPT !.mem = place(@, b, a)]
  <2>1. a \in Nat /\ a % 8 = 0 /\ 16 <= a /\ size + 8 <= a
    BY <1>3, MallocSize
  <2> HIDE DEF a
  <2>2. Laid("implicit", g, C)
    BY <1>3 DEF Serves
  <2>3. PICK D : /\ Serves("implicit", g, C, k, D)
                 /\ Allocated(k.mem, D) = Allocated(g.mem, C) \cup {b}
                 /\ a <= block_size(k.mem, b)
    BY <1>3, <2>1, <2>2, PlacedKeeps
  <2>4. Given(g, b).heap = k /\ Given(g, b).ptr = b + 1
    OBVIOUS
  <2> HIDE DEF k, Given
  <2>5. Laid("implicit", k, D) /\ b \in Allocated(k.mem, D)
    BY <2>3 DEF Serves
  <2>6. b \in Nat /\ block_size(k.mem, b) \in Nat
    <3>1. /\ b \in Nat /\ block_next(k.mem, b) \in Nat /\ b + 4 <= block_next(k.mem, b)
          /\ block_size(k.mem, b) = 4 * (block_next(k.mem, b) - b)
      BY <2>5, AllocatedFacts DEF Kinds
    <3> QED
      BY <3>1
  <2>7. b \notin Allocated(h.mem, B)
    BY <1>3 DEF Allocated
  <2>8. Serves("implicit", h, B, k, D)
    <3>1. Allocated(h.mem, B) \cap Allocated(k.mem, D) \subseteq Allocated(g.mem, C)
      BY <1>3
    <3> QED
      BY <1>3, <2>3, <3>1, ServesOn DEF Kinds
  <2>9. size + 8 <= block_size(k.mem, b)
    BY <2>1, <2>3, <2>6
  <2>10. b + 1 \in Nat /\ b + 1 # NULL /\ (b + 1) - 1 = b
    BY <2>6 DEF NULL
  <2>11. Allocated(k.mem, D) = Allocated(h.mem, B) \cup {b}
    BY <1>3, <2>3
  <2>12. /\ Given(g, b).heap = k /\ Given(g, b).ptr \in Nat /\ Given(g, b).ptr # NULL
         /\ Given(g, b).ptr - 1 = b
    BY <2>4, <2>10
  <2> HIDE DEF NULL
  <2> QED
    BY <1>3, <2>7, <2>8, <2>9, <2>11, <2>12 DEF Granted
<1>4. CASE size = 0
  BY <1>1, <1>2, <1>4
<1>5. CASE size # 0 /\ fit # NULL
  <2>1. fit \in B /\ IsFree(h.mem, fit) /\ a <= block_size(h.mem, fit)
    BY <1>5, FirstFit
  <2>2. Serves("implicit", h, B, h, B)
    BY DEF Serves, Kept
  <2>3. r = Given(h, fit)
    BY <1>1, <1>5
  <2>4. size # 0
    BY <1>5
  <2> HIDE DEF r, fit, a, Given, Result
  <2> QED
    BY <1>3, <2>1, <2>2, <2>3, <2>4
<1>6. CASE size # 0 /\ fit = NULL /\ CanGrow(h, w)
  <2>1. /\ a \in Nat /\ w \in Nat /\ w % 2 = 0 /\ 4 <= w /\ a <= 4 * w
    BY <1>6, MallocSize
  <2>2. r = Given(grown, last)
    BY <1>1, <1>6
  <2>3. h.brk + w <= MaxHeap
    BY <1>6 DEF CanGrow
  <2>4. PICK C : /\ Serves("implicit", h, B, grown, C)
                 /\ Allocated(grown.mem, C) = Allocated(h.mem, B)
                 /\ last \in C /\ IsFree(grown.mem, last)
                 /\ 4 * w <= block_size(grown.mem, last)
    <3> HIDE DEF w
    <3> QED
      BY <2>1, <2>3, ExtendKeeps
  <2> HIDE DEF grown, last, a, w
  <2>5. a <= block_size(grown.mem, last)
    <3>1. Tiles(grown.mem, C, FirstBlock, grown.brk - 1)
      BY <2>4, ImplicitLaid DEF Serves
    <3>2. /\ last \in Nat /\ block_next(grown.mem, last) \in Nat
          /\ block_size(grown.mem, last) = 4 * (block_next(grown.mem, last) - last)
      BY <2>4, <3>1, BlockFacts
    <3> QED
      BY <2>1, <2>4, <3>2
  <2>6. size # 0
    BY <1>6
  <2> HIDE DEF r, Given, Result
  <2> QED
    BY <1>3, <2>2, <2>4, <2>5, <2>6
<1>7. CASE size # 0 /\ fit = NULL /\ ~ CanGrow(h, w)
  BY <1>1, <1>2, <1>7
<1> QED
  BY <1>4, <1>5, <1>6, <1>7

(* A write into the payload of the block b.                                *)
Overwrites(kind, h, B, b, g) ==
  /\ Laid(kind, g, B) /\ Allocated(g.mem, B) = Allocated(h.mem, B)
  /\ \A c \in Allocated(h.mem, B) \ {b} : Kept(h.mem, g.mem, c)
  /\ \A c \in B : /\ block_next(g.mem, c) = block_next(h.mem, c)
                  /\ block_size(g.mem, c) = block_size(h.mem, c)

LEMMA ImplicitWriteKeeps ==
  ASSUME NEW h, NEW B, Laid("implicit", h, B), NEW b \in Allocated(h.mem, B), NEW w,
         PayloadOnly(h.mem, b, w)
  PROVE  LET g == [h EXCEPT !.mem = w]
         IN  g.mem = w /\ Overwrites("implicit", h, B, b, g)
<1> DEFINE e == h.brk - 1
           g == [h EXCEPT !.mem = w]
<1>1. /\ h = [mem |-> h.mem, brk |-> h.brk] /\ h.brk \in Nat /\ h.brk <= MaxHeap
      /\ Tiles(h.mem, B, FirstBlock, e) /\ Fences(h.mem, e) /\ Apart(h.mem, B)
  BY ImplicitLaid
<1>2. e \in Nat /\ e < MaxHeap /\ e <= MaxHeap /\ FirstBlock = 3 /\ 3 <= e /\ MaxHeap \in Nat
  BY ImplicitFacts
<1>3. b \in B
  BY DEF Allocated
<1>4. g = [mem |-> w, brk |-> h.brk]
  BY <1>1
<1>5. g.mem = w /\ g.brk = h.brk /\ g = [mem |-> g.mem, brk |-> g.brk]
  BY <1>4
<1> HIDE DEF e, g
<1>6. /\ Tiles(w, B, FirstBlock, e) /\ Apart(w, B) /\ Fences(w, e)
      /\ Allocated(w, B) = Allocated(h.mem, B)
      /\ \A c \in B \ {b} : Kept(h.mem, w, c)
      /\ \A c \in B : block_next(w, c) = block_next(h.mem, c)
                      /\ block_size(w, c) = block_size(h.mem, c)
  <2> DEFINE n == h.mem
  <2>1. Tiles(n, B, FirstBlock, e) /\ Fences(n, e) /\ Apart(n, B)
    BY <1>1
  <2>2. \A x \in Addr : ~ (b < x /\ x < block_next(n, b) - 1) => w[x] = n[x]
    BY DEF PayloadOnly
  <2> HIDE DEF n
  <2>3. /\ Tiles(w, B, FirstBlock, e)
        /\ Allocated(w, B) = Allocated(n, B)
        /\ \A x \in Addr : x < FirstBlock \/ e <= x => w[x] = n[x]
        /\ \A c \in B \ {b} : Kept(n, w, c)
        /\ \A c \in B : /\ block_next(w, c) = block_next(n, c)
                        /\ block_size(w, c) = block_size(n, c)
                        /\ IsFree(w, c) <=> IsFree(n, c)
    BY <1>2, <1>3, <2>1, <2>2, PayloadWritten
  <2>4. Apart(w, B)
    BY <2>1, <2>3 DEF Apart
  <2>5. Fences(w, e)
    <3>1. 1 \in Addr /\ 2 \in Addr /\ e \in Addr /\ 1 < FirstBlock /\ 2 < FirstBlock /\ e <= e
      BY <1>2 DEF Addr
    <3> QED
      BY <2>1, <2>3, <3>1 DEF Fences
  <2> QED
    BY <2>3, <2>4, <2>5 DEF n
<1>7. Laid("implicit", g, B)
  BY <1>1, <1>5, <1>6, ImplicitLaid DEF e, PayloadOnly
<1>8. \A c \in Allocated(h.mem, B) \ {b} : Kept(h.mem, w, c)
  BY <1>6 DEF Allocated
<1> QED
  BY <1>5, <1>6, <1>7, <1>8 DEF g, Overwrites

LEMMA ImplicitInitKeeps == \E B : Laid("implicit", mm_init, B) /\ Allocated(mm_init.mem, B) = {}
<1> DEFINE m == [a \in Addr |-> CASE a \in {1, 2} -> PACK(DSIZE, 1)
                                  [] a = 3 -> PACK(0, 1)
                                  [] OTHER -> 0]
           empty == [mem |-> m, brk |-> 4]
           n == CHUNKSIZE \div WSIZE
<1>1. n \in Nat /\ n % 2 = 0 /\ 4 <= n /\ 4 + n <= MaxHeap /\ MaxHeap \in Nat
  <2>1. /\ CHUNKSIZE \in Nat /\ CHUNKSIZE % 8 = 0 /\ 16 <= CHUNKSIZE /\ MaxHeap \in Nat
        /\ 4 + CHUNKSIZE \div 4 <= MaxHeap
    BY HeapAssumption
  <2>2. n = CHUNKSIZE \div 4
    BY DEF WSIZE
  <2> QED
    BY <2>1, <2>2
<1>2. m[1] = 9 /\ m[2] = 9 /\ m[3] = 1 /\ DOMAIN m = Addr
  <2>1. 1 \in Addr /\ 2 \in Addr /\ 3 \in Addr
    BY <1>1 DEF Addr
  <2>2. PACK(DSIZE, 1) = 9 /\ PACK(0, 1) = 1
    BY DEF PACK, DSIZE
  <2>3. m[1] = PACK(DSIZE, 1) /\ m[2] = PACK(DSIZE, 1) /\ m[3] = PACK(0, 1)
    BY <2>1
  <2> QED
    BY <2>2, <2>3
<1>3. mm_init = extend_heap(empty, n)
  BY DEF mm_init
<1>4. empty.mem = m /\ empty.brk = 4 /\ empty = [mem |-> empty.mem, brk |-> empty.brk]
  OBVIOUS
<1> HIDE DEF m, n, empty
<1>5. Tiles(m, {}, 3, 3)
  <2>1. 3 % 2 = 1
    OBVIOUS
  <2> QED
    BY <2>1 DEF Tiles
<1>6. Laid("implicit", empty, {})
  <2>1. 4 - 1 = 3 /\ 4 \in Nat /\ 4 <= MaxHeap
    BY <1>1
  <2>2. Fences(m, 3) /\ Apart(m, {})
    BY <1>2 DEF Fences, Apart
  <2> QED
    BY <1>2, <1>4, <1>5, <2>1, <2>2, ImplicitLaid DEF FirstBlock
<1>7. Allocated(empty.mem, {}) = {}
  BY DEF Allocated
<1>8. PICK C : /\ Serves("implicit", empty, {}, mm_init, C)
               /\ Allocated(mm_init.mem, C) = Allocated(empty.mem, {})
  BY <1>1, <1>3, <1>4, <1>6, ExtendKeeps
<1> QED
  BY <1>7, <1>8 DEF Serves

-----------------------------------------------------------------------------
(* The words and blocks of the explicit list are those above.              *)
LEMMA ExplicitTags ==
  /\ Explicit!NULL = NULL /\ Explicit!WSIZE = WSIZE /\ Explicit!DSIZE = DSIZE
  /\ Explicit!Addr = Addr
  /\ \A s, a : Explicit!PACK(s, a) = PACK(s, a)
  /\ \A s : Explicit!Min(s) = Min(s) /\ Explicit!Max(s) = Max(s)
  /\ \A m, b : /\ Explicit!block_size(m, b) = block_size(m, b)
               /\ Explicit!IsFree(m, b) <=> IsFree(m, b)
               /\ Explicit!block_prev(m, b) = block_prev(m, b)
               /\ Explicit!block_next(m, b) = block_next(m, b)
               /\ Explicit!footer(m, b) = footer(m, b)
  /\ \A h, w : Explicit!CanGrow(h, w) <=> CanGrow(h, w)
  /\ \A s : Explicit!getMallocSize(s) = getMallocSize(s)
BY DEF Explicit!NULL, NULL, Explicit!WSIZE, WSIZE, Explicit!DSIZE, DSIZE,
       Explicit!Addr, Addr, Explicit!PACK, PACK, Explicit!Min, Min, Explicit!Max, Max,
       Explicit!block_size, block_size, Explicit!IsFree, IsFree,
       Explicit!block_prev, block_prev, Explicit!block_next, block_next,
       Explicit!footer, footer, Explicit!CanGrow, CanGrow,
       Explicit!getMallocSize, getMallocSize

LEMMA ExplicitTag ==
  ASSUME NEW m, NEW b, NEW size, NEW alloc
  PROVE  Explicit!Tag(m, b, size, alloc) = Tag(m, b, size, alloc)
BY ExplicitTags DEF Explicit!Tag, Tag

LEMMA ExplicitMark ==
  ASSUME NEW m, NEW b, NEW alloc
  PROVE  Explicit!block_mark(m, b, alloc) = block_mark(m, b, alloc)
BY ExplicitTags, ExplicitTag DEF Explicit!block_mark, block_mark

LEMMA ExplicitMerge ==
  ASSUME NEW m, NEW f, NEW l
  PROVE  Explicit!Merge(m, f, l) = Merge(m, f, l)
BY ExplicitTags DEF Explicit!Merge, Merge

LEMMA ExplicitCopy ==
  ASSUME NEW m, NEW f, NEW t, NEW n
  PROVE  Explicit!Copy(m, f, t, n) = Copy(m, f, t, n)
BY ExplicitTags DEF Explicit!Copy, Copy, Explicit!Word, Word

(* The list functions, for the one list that begins at 1.                  *)
placeFreeBlock(m, b) ==
  LET placed == [m EXCEPT ![b + 1] = m[2], ![b + 2] = 1, ![2] = b]
  IN  IF IsFree(placed, m[2]) THEN [placed EXCEPT ![m[2] + 2] = b] ELSE placed

removeBlock(m, b) ==
  LET removed == [m EXCEPT ![m[b + 2] + 1] = m[b + 1]]
  IN  IF IsFree(removed, m[b + 1]) THEN [removed EXCEPT ![m[b + 1] + 2] = m[b + 2]]
      ELSE removed

Relink(m, b, rest) ==
  LET linked == [m EXCEPT ![rest + 1] = m[b + 1], ![rest + 2] = m[b + 2],
                          ![m[b + 2] + 1] = rest]
  IN  IF IsFree(linked, m[b + 1]) THEN [linked EXCEPT ![m[b + 1] + 2] = rest] ELSE linked

LEMMA ExplicitLists ==
  ASSUME NEW m, NEW b, NEW rest
  PROVE  /\ Explicit!List!placeFreeBlock(m, b) = placeFreeBlock(m, b)
         /\ Explicit!List!removeBlock(m, b) = removeBlock(m, b)
         /\ Explicit!List!Relink(m, b, rest) = Relink(m, b, rest)
<1>1. Explicit!Link(1) = 2 /\ \A p : Explicit!Link(p) = p + 1
  BY DEF Explicit!Link
<1>2. \A size : Explicit!ListHead(size) = 1
  BY DEF Explicit!ListHead, Explicit!heap_ptr
<1>3. Explicit!List!placeFreeBlock(m, b) = placeFreeBlock(m, b)
  BY <1>1, <1>2 DEF Explicit!List!placeFreeBlock, placeFreeBlock, Explicit!List!IsFree, IsFree
<1>4. Explicit!List!removeBlock(m, b) = removeBlock(m, b)
  BY <1>1 DEF Explicit!List!removeBlock, removeBlock, Explicit!List!IsFree, IsFree
<1>5. Explicit!List!Relink(m, b, rest) = Relink(m, b, rest)
  BY <1>1 DEF Explicit!List!Relink, Relink, Explicit!List!IsFree, IsFree
<1> QED
  BY <1>3, <1>4, <1>5

-----------------------------------------------------------------------------
(* The list of the explicit heap: what its functions do to the nodes F.    *)

(* Blocks that do not overlap, in the memory behind the prologue.          *)
Spread(F) == \A c \in F : /\ c \in Nat /\ 5 <= c /\ c + 4 <= MaxHeap
                          /\ \A d \in F : c < d => c + 4 <= d

(* From m to n only words that link the nodes F, or the prologue, change.  *)
OnlyLinks(m, n, F) ==
  /\ DOMAIN n = Addr
  /\ \A x \in Addr : x # 2 /\ (\A c \in F : x # c + 1 /\ x # c + 2) => n[x] = m[x]

(* The list of m has the nodes F; the epilogue is not free.                *)
FreeList(m, F) == DOMAIN m = Addr /\ Spread(F) /\ ListOf(m, F) /\ m[4] = 1

LEMMA NodeFacts ==
  ASSUME NEW F, Spread(F), NEW c \in F
  PROVE  /\ c \in Nat /\ 5 <= c /\ c \in Addr /\ c + 1 \in Addr /\ c + 2 \in Addr
         /\ \A d \in F : /\ c + 1 # d /\ c + 2 # d /\ c + 1 # d + 2
                         /\ c # d => c + 1 # d + 1 /\ c + 2 # d + 2
         /\ 1 \in Addr /\ 2 \in Addr /\ 4 \in Addr
<1>1. /\ c \in Nat /\ 5 <= c /\ c + 4 <= MaxHeap /\ MaxHeap \in Nat
      /\ \A d \in F : d \in Nat /\ (c < d => c + 4 <= d) /\ (d < c => d + 4 <= c)
  BY HeapAssumption DEF Spread
<1>2. \A d \in F : /\ c + 1 # d /\ c + 2 # d /\ c + 1 # d + 2
                   /\ c # d => c + 1 # d + 1 /\ c + 2 # d + 2
  BY <1>1
<1> QED
  BY <1>1, <1>2 DEF Addr

LEMMA OddOne == \A m : m[4] = 1 => ~ IsFree(m, 4) /\ block_size(m, 4) = 0
<1>1. 1 % 2 = 1 /\ 1 % 8 = 1 /\ 1 - 1 = 0
  OBVIOUS
<1> QED
  BY <1>1 DEF IsFree, block_size

(* What Linked says of the first node.                                     *)
LEMMA FirstNode ==
  ASSUME NEW m, NEW F, NEW r, Linked(m, F, r)
  PROVE  /\ m[2] \in F \cup {4}
         /\ m[2] \in F => m[m[2] + 2] = 1 /\ r[1] < r[m[2]]
         /\ \A c \in F : m[c + 2] = 1 => m[2] = c
<1>1. 1 + 1 = 2
  OBVIOUS
<1>2. 1 \in F \cup {1}
  OBVIOUS
<1>3. m[1 + 1] \in F \cup {4} /\ (m[1 + 1] \in F => m[m[1 + 1] + 2] = 1 /\ r[1] < r[m[1 + 1]])
  BY <1>2 DEF Linked
<1>4. \A c \in F : m[m[c + 2] + 1] = c
  BY DEF Linked
<1>5. \A c \in F : m[c + 2] = 1 => m[1 + 1] = c
  BY <1>4
<1> QED
  BY <1>1, <1>3, <1>5

LEMMA PlacedFirst ==
  ASSUME NEW m, NEW F, NEW b, FreeList(m, F), b \notin F, Spread(F \cup {b}),
         \A c \in F : IsFree(m, c)
  PROVE  LET n == placeFreeBlock(m, b)
         IN  ListOf(n, F \cup {b}) /\ OnlyLinks(m, n, F \cup {b})
<1> DEFINE n == placeFreeBlock(m, b)
           G == F \cup {b}
           q == m[2]
           p == [m EXCEPT ![b + 1] = q, ![b + 2] = 1, ![2] = b]
<1>1. PICK r : Linked(m, F, r)
  BY DEF FreeList, ListOf
<1>2. q \in F \cup {4} /\ (q \in F => m[q + 2] = 1 /\ r[1] < r[q])
  BY <1>1, FirstNode
<1>3. /\ DOMAIN m = Addr /\ m[4] = 1 /\ \A c \in F : IsFree(m, c)
  BY DEF FreeList
<1>4. ASSUME NEW c \in G
      PROVE  /\ c \in Nat /\ 5 <= c /\ c \in Addr /\ c + 1 \in Addr /\ c + 2 \in Addr
             /\ \A d \in G : /\ c + 1 # d /\ c + 2 # d /\ c + 1 # d + 2
                             /\ c # d => c + 1 # d + 1 /\ c + 2 # d + 2
             /\ 1 \in Addr /\ 2 \in Addr /\ 4 \in Addr
  BY NodeFacts
<1>5. b \in G /\ 2 \in Addr /\ 1 \in Addr /\ b \in Nat /\ 5 <= b /\ b \in Addr
      /\ b + 1 \in Addr /\ b + 2 \in Addr /\ 4 \in Addr
  BY <1>4
<1> HIDE DEF G, q
<1>6. /\ DOMAIN p = Addr /\ p[b + 1] = q /\ p[b + 2] = 1 /\ p[2] = b
      /\ \A x \in Addr : x # b + 1 /\ x # b + 2 /\ x # 2 => p[x] = m[x]
  BY <1>3, <1>5
<1> HIDE DEF p
<1>7. F \subseteq G /\ \A c \in G : c \in F \/ c = b
  BY DEF G
<1>8. IsFree(p, q) <=> q \in F
  <2>1. CASE q \in F
    <3>1. q \in Addr /\ q # b + 1 /\ q # b + 2 /\ q # 2
      BY <1>4, <1>5, <1>7, <2>1
    <3> QED
      BY <1>3, <1>6, <2>1, <3>1, SameTag
  <2>2. CASE q = 4
    <3>1. p[4] = 1 /\ 4 \notin F
      BY <1>3, <1>4, <1>5, <1>6, <1>7
    <3> QED
      BY <2>2, <3>1, OddOne
  <2> QED
    BY <1>2, <2>1, <2>2
<1>9. n = IF q \in F THEN [p EXCEPT ![q + 2] = b] ELSE p
  BY <1>8 DEF placeFreeBlock, p, q
<1> HIDE DEF n
<1>10. /\ DOMAIN n = Addr /\ n[b + 1] = q /\ n[b + 2] = 1 /\ n[2] = b
       /\ q \in F => n[q + 2] = b
       /\ \A x \in Addr : x # b + 1 /\ x # b + 2 /\ x # 2 /\ (q \in F => x # q + 2) => n[x] = m[x]
  <2>1. CASE q \in F
    <3>1. /\ q + 2 \in Addr /\ q + 2 # b + 1 /\ q + 2 # b + 2 /\ q + 2 # 2
      <4>1. q \in G /\ q # b
        BY <1>7, <2>1
      <4> QED
        BY <1>4, <1>5, <4>1
    <3>2. n = [p EXCEPT ![q + 2] = b]
      BY <1>9, <2>1
    <3>3. /\ DOMAIN n = Addr /\ n[q + 2] = b
          /\ \A x \in Addr : x # q + 2 => n[x] = p[x]
      BY <1>6, <3>1, <3>2
    <3>4. n[b + 1] = q /\ n[b + 2] = 1 /\ n[2] = b
      BY <1>5, <1>6, <3>1, <3>3
    <3> QED
      BY <1>6, <2>1, <3>3, <3>4
  <2>2. CASE q \notin F
    BY <1>6, <1>9, <2>2
  <2> QED
    BY <2>1, <2>2
<1>11. OnlyLinks(m, n, G)
  <2>1. ASSUME NEW x \in Addr, x # 2, \A c \in G : x # c + 1 /\ x # c + 2
        PROVE  n[x] = m[x]
    <3>1. x # b + 1 /\ x # b + 2 /\ (q \in F => x # q + 2)
      BY <1>5, <1>7, <2>1
    <3> QED
      BY <1>10, <2>1, <3>1
  <2> QED
    BY <1>10, <2>1 DEF OnlyLinks
(* The words of the nodes that were on the list before.                    *)
<1>12. ASSUME NEW c \in F
       PROVE  n[c + 1] = m[c + 1] /\ (c # q => n[c + 2] = m[c + 2])
  <2>1. c \in G /\ c # b /\ (q \in F => q \in G)
    BY <1>7, <1>12
  <2>2. /\ c + 1 \in Addr /\ c + 2 \in Addr
        /\ c + 1 # b + 1 /\ c + 1 # b + 2 /\ c + 1 # 2 /\ (q \in F => c + 1 # q + 2)
        /\ c + 2 # b + 2 /\ c + 2 # b + 1 /\ c + 2 # 2
        /\ (q \in F /\ c # q => c + 2 # q + 2)
    <3>1. /\ c \in Nat /\ 5 <= c /\ c + 1 \in Addr /\ c + 2 \in Addr
          /\ \A d \in G : c + 1 # d + 2 /\ (c # d => c + 1 # d + 1 /\ c + 2 # d + 2)
      BY <1>4, <2>1
    <3>2. b + 1 # c + 2
      BY <1>4, <1>5, <2>1
    <3>3. c + 1 # 2 /\ c + 2 # 2
      BY <3>1
    <3> QED
      BY <1>5, <2>1, <3>1, <3>2, <3>3
  <2> QED
    BY <1>10, <2>2
<1> DEFINE s == [r EXCEPT ![b] = r[1], ![1] = r[1] - 1]
<1>13. r \in [Addr -> Int]
  BY <1>1 DEF Linked
<1>14. /\ s \in [Addr -> Int] /\ s[b] = r[1] /\ s[1] = r[1] - 1 /\ r[1] \in Int
       /\ \A c \in F : s[c] = r[c] /\ r[c] \in Int
  <2>1. \A c \in F : c \in Addr /\ c # b /\ c # 1
    BY <1>4, <1>7
  <2>2. b # 1 /\ r[1] \in Int /\ r[1] - 1 \in Int
    BY <1>5, <1>13
  <2>3. s \in [Addr -> Int] /\ s[b] = r[1] /\ s[1] = r[1] - 1
    BY <1>5, <1>13, <2>2
  <2>4. \A x \in Addr : x # b /\ x # 1 => s[x] = r[x] /\ r[x] \in Int
    BY <1>5, <1>13
  <2> QED
    BY <2>1, <2>2, <2>3, <2>4
<1> HIDE DEF s
<1>15. /\ \A c \in F \cup {1} : m[c + 1] \in F \cup {4}
       /\ \A c \in F \cup {1} : m[c + 1] \in F => m[m[c + 1] + 2] = c /\ r[c] < r[m[c + 1]]
       /\ \A c \in F : m[c + 2] \in F \cup {1} /\ m[m[c + 2] + 1] = c /\ r[1] < r[c]
       /\ \A c \in F : m[c + 2] = 1 => c = q
  BY <1>1, FirstNode DEF Linked, q
<1>16. 1 + 1 = 2 /\ b # 4 /\ 1 \notin G /\ 4 \notin G
  BY <1>4, <1>5
<1>17. ASSUME NEW c \in G \cup {1} PROVE n[c + 1] \in G \cup {4}
  BY <1>2, <1>7, <1>10, <1>12, <1>15, <1>16, <1>17, <1>5
<1>18. ASSUME NEW c \in G \cup {1}, n[c + 1] \in G
       PROVE  n[n[c + 1] + 2] = c /\ s[c] < s[n[c + 1]]
  <2>1. CASE c = 1
    BY <1>10, <1>14, <1>16, <2>1
  <2>2. CASE c = b
    <3>1. n[c + 1] = q /\ q \in F
      BY <1>2, <1>10, <1>16, <1>18, <2>2
    <3> QED
      BY <1>2, <1>10, <1>14, <2>2, <3>1
  <2>3. CASE c \in F
    <3> DEFINE d == m[c + 1]
    <3>1. n[c + 1] = d /\ d \in F /\ m[d + 2] = c /\ r[c] < r[d]
      <4>1. n[c + 1] = d /\ d \in F \cup {4}
        BY <1>12, <1>15, <2>3
      <4>2. d \in F
        BY <1>16, <1>18, <4>1
      <4> QED
        BY <1>15, <2>3, <4>1, <4>2
    <3>2. d # q
      <4>1. c # 1
        BY <1>7, <1>16, <2>3
      <4> QED
        BY <1>2, <3>1, <4>1
    <3> HIDE DEF d
    <3>3. n[d + 2] = c
      BY <1>12, <3>1, <3>2
    <3> QED
      BY <1>14, <2>3, <3>1, <3>3
  <2> QED
    BY <1>7, <2>1, <2>2, <2>3
<1>19. ASSUME NEW c \in G
       PROVE  n[c + 2] \in G \cup {1} /\ n[n[c + 2] + 1] = c /\ s[1] < s[c]
  <2>1. CASE c = b
    BY <1>10, <1>14, <1>16, <2>1
  <2>2. CASE c = q /\ q \in F
    <3>1. n[c + 2] = b /\ n[b + 1] = q
      BY <1>10, <2>2
    <3>2. r[1] < r[c] /\ s[c] = r[c] /\ r[c] \in Int
      BY <1>14, <1>15, <2>2
    <3> QED
      BY <1>5, <1>14, <2>2, <3>1, <3>2
  <2>3. CASE c \in F /\ c # q
    <3> DEFINE d == m[c + 2]
    <3>1. n[c + 2] = d /\ d \in F /\ m[d + 1] = c /\ r[1] < r[c]
      BY <1>12, <1>15, <2>3
    <3> HIDE DEF d
    <3>2. n[d + 1] = c
      BY <1>12, <3>1
    <3> QED
      BY <1>7, <1>14, <2>3, <3>1, <3>2
  <2> QED
    BY <1>7, <2>1, <2>2, <2>3
<1>20. Linked(n, G, s)
  BY <1>14, <1>17, <1>18, <1>19 DEF Linked
<1> QED
  BY <1>11, <1>20 DEF ListOf, n, G

(* The nodes before and after a node.                                      *)
LEMMA NodesAround ==
  ASSUME NEW m, NEW F, NEW r, Linked(m, F, r), Spread(F), NEW b \in F
  PROVE  LET p == m[b + 2]
             q == m[b + 1]
         IN  /\ p \in F \cup {1} /\ q \in F \cup {4} /\ p # b /\ q # b /\ p # q
             /\ m[p + 1] = b /\ r[p] < r[b]
             /\ q \in F => m[q + 2] = b /\ r[b] < r[q]
             /\ \A c \in F \cup {1} : m[c + 1] = b => c = p
             /\ \A c \in F : m[c + 2] = b => c = q
             /\ r[1] \in Int /\ \A c \in F : r[c] \in Int
<1> DEFINE p == m[b + 2]
           q == m[b + 1]
<1>1. /\ r \in [Addr -> Int]
      /\ \A c \in F \cup {1} : m[c + 1] \in F \cup {4}
      /\ \A c \in F \cup {1} : m[c + 1] \in F => m[m[c + 1] + 2] = c /\ r[c] < r[m[c + 1]]
      /\ \A c \in F : m[c + 2] \in F \cup {1} /\ m[m[c + 2] + 1] = c /\ r[1] < r[c]
  BY DEF Linked
<1>2. p \in F \cup {1} /\ q \in F \cup {4} /\ m[p + 1] = b /\ r[p] < r[b]
  BY <1>1
<1>3. q \in F => m[q + 2] = b /\ r[b] < r[q]
  BY <1>1
<1>4. \A c \in F \cup {1} : m[c + 1] = b => c = p
  BY <1>1
<1>5. \A c \in F : m[c + 2] = b => c = q
  BY <1>1
<1>6. r[1] \in Int /\ \A c \in F : r[c] \in Int /\ c # 4 /\ c # 1
  <2>1. \A c \in F : c \in Addr /\ 1 \in Addr /\ c # 4 /\ c # 1
    BY NodeFacts
  <2> QED
    BY <1>1, <2>1
<1> HIDE DEF p, q
<1>7. p # b /\ q # b /\ p # q
  <2>1. b # 4 /\ r[p] \in Int /\ r[b] \in Int
    BY <1>2, <1>6
  <2>2. p # b
    BY <1>2, <2>1
  <2>3. CASE q = 4
    BY <1>2, <1>6, <2>1, <2>2, <2>3
  <2>4. CASE q \in F
    <3>1. r[q] \in Int
      BY <1>6, <2>4
    <3> QED
      BY <1>2, <1>3, <2>1, <2>2, <2>4, <3>1
  <2> QED
    BY <1>2, <2>3, <2>4
<1> QED
  BY <1>2, <1>3, <1>4, <1>5, <1>6, <1>7 DEF p, q

LEMMA Unlinked ==
  ASSUME NEW m, NEW F, NEW b \in F, FreeList(m, F), \A c \in F \ {b} : IsFree(m, c)
  PROVE  LET n == removeBlock(m, b)
         IN  ListOf(n, F \ {b}) /\ OnlyLinks(m, n, F)
<1> DEFINE n == removeBlock(m, b)
           p == m[b + 2]
           q == m[b + 1]
           u == [m EXCEPT ![p + 1] = q]
           G == F \ {b}
<1>1. PICK r : Linked(m, F, r)
  BY DEF FreeList, ListOf
<1>2. Spread(F) /\ DOMAIN m = Addr /\ m[4] = 1
  BY DEF FreeList
<1>3. /\ p \in F \cup {1} /\ q \in F \cup {4} /\ p # b /\ q # b /\ p # q
      /\ m[p + 1] = b /\ r[p] < r[b]
      /\ q \in F => m[q + 2] = b /\ r[b] < r[q]
      /\ \A c \in F \cup {1} : m[c + 1] = b => c = p
      /\ \A c \in F : m[c + 2] = b => c = q
      /\ r[1] \in Int /\ \A c \in F : r[c] \in Int
  BY <1>1, <1>2, NodesAround
<1>4. ASSUME NEW c \in F
      PROVE  /\ c \in Nat /\ 5 <= c /\ c \in Addr /\ c + 1 \in Addr /\ c + 2 \in Addr
             /\ \A d \in F : /\ c + 1 # d /\ c + 2 # d /\ c + 1 # d + 2
                             /\ c # d => c + 1 # d + 1 /\ c + 2 # d + 2
             /\ 1 \in Addr /\ 2 \in Addr /\ 4 \in Addr
  BY <1>2, NodeFacts
<1>5. 1 \in Addr /\ 2 \in Addr /\ 4 \in Addr
  BY <1>4
<1> HIDE DEF p, q
<1>6. p + 1 \in Addr /\ p + 1 # 4 /\ \A d \in F : p + 1 # d /\ p + 1 # d + 2
  <2>1. CASE p = 1
    <3>1. p + 1 = 2
      BY <2>1
    <3>2. \A d \in F : 2 # d /\ 2 # d + 2
      BY <1>4
    <3> QED
      BY <1>5, <3>1, <3>2
  <2>2. CASE p \in F
    BY <1>4, <2>2
  <2> QED
    BY <1>3, <2>1, <2>2
<1>7. /\ DOMAIN u = Addr /\ u[p + 1] = q
      /\ \A x \in Addr : x # p + 1 => u[x] = m[x]
  BY <1>2, <1>6
<1> HIDE DEF u
<1>8. IsFree(u, q) <=> q \in F
  <2>1. CASE q \in F
    <3>1. u[q] = m[q] /\ IsFree(m, q)
      BY <1>3, <1>4, <1>6, <1>7, <2>1
    <3> QED
      BY <2>1, <3>1, SameTag
  <2>2. CASE q = 4
    <3>1. u[4] = 1 /\ 4 \notin F
      BY <1>2, <1>4, <1>5, <1>6, <1>7
    <3> QED
      BY <2>2, <3>1, OddOne
  <2> QED
    BY <1>3, <2>1, <2>2
<1>9. n = IF q \in F THEN [u EXCEPT ![q + 2] = p] ELSE u
  BY <1>8 DEF removeBlock, u, p, q
<1> HIDE DEF n
<1>10. /\ DOMAIN n = Addr /\ n[p + 1] = q
       /\ q \in F => n[q + 2] = p
       /\ \A x \in Addr : x # p + 1 /\ (q \in F => x # q + 2) => n[x] = m[x]
  <2>1. CASE q \in F
    <3>1. q + 2 \in Addr /\ p + 1 # q + 2
      BY <1>4, <1>6, <2>1
    <3>2. n = [u EXCEPT ![q + 2] = p]
      BY <1>9, <2>1
    <3>3. /\ DOMAIN n = Addr /\ n[q + 2] = p
          /\ \A x \in Addr : x # q + 2 => n[x] = u[x]
      BY <1>7, <3>1, <3>2
    <3> QED
      BY <1>6, <1>7, <2>1, <3>1, <3>3
  <2>2. CASE q \notin F
    BY <1>6, <1>7, <1>9, <2>2
  <2> QED
    BY <2>1, <2>2
<1>11. OnlyLinks(m, n, F)
  <2>1. ASSUME NEW x \in Addr, x # 2, \A c \in F : x # c + 1 /\ x # c + 2
        PROVE  n[x] = m[x]
    <3>1. x # p + 1
      <4>1. CASE p = 1
        BY <2>1, <4>1
      <4>2. CASE p \in F
        BY <2>1, <4>2
      <4> QED
        BY <1>3, <4>1, <4>2
    <3> QED
      BY <1>10, <2>1, <3>1
  <2> QED
    BY <1>10, <2>1 DEF OnlyLinks
<1>12. \A c \in F \cup {1} : c # p => n[c + 1] = m[c + 1]
  <2> SUFFICES ASSUME NEW c \in F \cup {1}, c # p PROVE n[c + 1] = m[c + 1]
    OBVIOUS
  <2>1. c \in Nat /\ c + 1 \in Addr /\ (q \in F => c + 1 # q + 2)
    <3>1. CASE c = 1
      <4>1. c + 1 = 2
        BY <3>1
      <4>2. q \in F => 2 # q + 2
        BY <1>4
      <4> QED
        BY <1>5, <3>1, <4>1, <4>2
    <3>2. CASE c \in F
      BY <1>4, <3>2
    <3> QED
      BY <3>1, <3>2
  <2>2. c + 1 # p + 1
    <3>1. p \in Nat
      BY <1>3, <1>4
    <3> QED
      BY <2>1, <3>1
  <2> QED
    BY <1>10, <2>1, <2>2
<1>13. \A c \in F : c # q => n[c + 2] = m[c + 2]
  <2> SUFFICES ASSUME NEW c \in F, c # q PROVE n[c + 2] = m[c + 2]
    OBVIOUS
  <2>1. c + 2 \in Addr /\ c + 2 # p + 1 /\ (q \in F => c + 2 # q + 2)
    BY <1>4, <1>6
  <2> QED
    BY <1>10, <2>1
<1>14. /\ r \in [Addr -> Int]
       /\ \A c \in F \cup {1} : m[c + 1] \in F \cup {4}
       /\ \A c \in F \cup {1} : m[c + 1] \in F => m[m[c + 1] + 2] = c /\ r[c] < r[m[c + 1]]
       /\ \A c \in F : m[c + 2] \in F \cup {1} /\ m[m[c + 2] + 1] = c /\ r[1] < r[c]
  BY <1>1 DEF Linked
<1>15. ASSUME NEW c \in G \cup {1}
       PROVE  /\ n[c + 1] \in G \cup {4}
              /\ n[c + 1] \in G => n[n[c + 1] + 2] = c /\ r[c] < r[n[c + 1]]
  <2>1. CASE c = p
    <3>1. n[c + 1] = q /\ q \in G \cup {4}
      BY <1>3, <1>10, <2>1
    <3>2. CASE q \in G
      <4>1. r[p] \in Int /\ r[b] \in Int /\ r[q] \in Int
        BY <1>3, <3>2
      <4>2. r[p] < r[q]
        BY <1>3, <3>2, <4>1
      <4> QED
        BY <1>10, <2>1, <3>1, <3>2, <4>2
    <3> QED
      BY <3>1, <3>2
  <2>2. CASE c # p
    <3> DEFINE d == m[c + 1]
    <3>1. n[c + 1] = d /\ d \in F \cup {4} /\ d # b
      BY <1>3, <1>12, <1>14, <2>2
    <3>2. ASSUME d \in G PROVE n[d + 2] = c /\ r[c] < r[d]
      <4>1. m[d + 2] = c /\ r[c] < r[d]
        BY <1>14, <3>2
      <4>2. d # q
        <5>1. c # b
          BY <1>4
        <5> QED
          BY <1>3, <3>2, <4>1, <5>1
      <4> QED
        BY <1>13, <3>2, <4>1, <4>2
    <3> QED
      BY <3>1, <3>2
  <2> QED
    BY <2>1, <2>2
<1>16. ASSUME NEW c \in G
       PROVE  n[c + 2] \in G \cup {1} /\ n[n[c + 2] + 1] = c /\ r[1] < r[c]
  <2>1. r[1] < r[c]
    BY <1>14
  <2>2. CASE c = q
    BY <1>3, <1>10, <2>1, <2>2
  <2>3. CASE c # q
    <3> DEFINE d == m[c + 2]
    <3>1. n[c + 2] = d /\ d \in F \cup {1} /\ m[d + 1] = c /\ d # b
      BY <1>3, <1>13, <1>14, <2>3
    <3>2. d # p
      BY <1>3, <3>1
    <3> HIDE DEF d
    <3> QED
      BY <1>12, <2>1, <3>1, <3>2
  <2> QED
    BY <2>2, <2>3
<1>17. Linked(n, G, r)
  BY <1>14, <1>15, <1>16 DEF Linked
<1> QED
  BY <1>11, <1>17 DEF ListOf, n, G

LEMMA Relinked ==
  ASSUME NEW m, NEW F, NEW b \in F, NEW d, FreeList(m, F), d \notin F, Spread(F \cup {d}),
         \A c \in F \ {b} : IsFree(m, c)
  PROVE  LET n == Relink(m, b, d)
         IN  ListOf(n, (F \ {b}) \cup {d}) /\ OnlyLinks(m, n, F \cup {d})
<1> DEFINE n == Relink(m, b, d)
           p == m[b + 2]
           q == m[b + 1]
           u == [m EXCEPT ![d + 1] = q, ![d + 2] = p, ![p + 1] = d]
           H == F \cup {d}
           G == (F \ {b}) \cup {d}
<1>1. PICK r : Linked(m, F, r)
  BY DEF FreeList, ListOf
<1>2. Spread(F) /\ DOMAIN m = Addr /\ m[4] = 1
  BY DEF FreeList
<1>3. /\ p \in F \cup {1} /\ q \in F \cup {4} /\ p # b /\ q # b /\ p # q
      /\ m[p + 1] = b /\ r[p] < r[b]
      /\ q \in F => m[q + 2] = b /\ r[b] < r[q]
      /\ \A c \in F \cup {1} : m[c + 1] = b => c = p
      /\ \A c \in F : m[c + 2] = b => c = q
      /\ r[1] \in Int /\ \A c \in F : r[c] \in Int
  BY <1>1, <1>2, NodesAround
<1>4. ASSUME NEW c \in H
      PROVE  /\ c \in Nat /\ 5 <= c /\ c \in Addr /\ c + 1 \in Addr /\ c + 2 \in Addr
             /\ \A x \in H : /\ c + 1 # x /\ c + 2 # x /\ c + 1 # x + 2
                             /\ c # x => c + 1 # x + 1 /\ c + 2 # x + 2
             /\ 1 \in Addr /\ 2 \in Addr /\ 4 \in Addr
  BY NodeFacts
<1>5. /\ 1 \in Addr /\ 2 \in Addr /\ 4 \in Addr /\ d \in H /\ F \subseteq H
      /\ d + 1 \in Addr /\ d + 2 \in Addr /\ d \in Nat /\ 5 <= d /\ d \in Addr
  <2>1. d \in H /\ F \subseteq H
    OBVIOUS
  <2> HIDE DEF H
  <2> QED
    BY <1>4, <2>1
<1> HIDE DEF p, q, H
<1>6. /\ p + 1 \in Addr /\ p + 1 # 4 /\ p \in Nat
      /\ \A x \in H : p + 1 # x /\ p + 1 # x + 2
      /\ p + 1 # d + 1
  <2>1. CASE p = 1
    <3>1. p + 1 = 2
      BY <2>1
    <3>2. \A x \in H : 2 # x /\ 2 # x + 2
      BY <1>4
    <3> QED
      BY <1>5, <2>1, <3>1, <3>2
  <2>2. CASE p \in F
    <3>1. p \in H /\ p # d
      BY <1>5, <2>2
    <3> QED
      BY <1>4, <1>5, <3>1
  <2> QED
    BY <1>3, <2>1, <2>2
<1>7. /\ DOMAIN u = Addr /\ u[d + 1] = q /\ u[d + 2] = p /\ u[p + 1] = d
      /\ \A x \in Addr : x # d + 1 /\ x # d + 2 /\ x # p + 1 => u[x] = m[x]
  <2>1. p + 1 # d + 2 /\ d + 1 # d + 2
    BY <1>5, <1>6
  <2> QED
    BY <1>2, <1>5, <1>6, <2>1
<1> HIDE DEF u
<1>8. IsFree(u, q) <=> q \in F
  <2>1. CASE q \in F
    <3>1. q \in Addr /\ q # d + 1 /\ q # d + 2 /\ q # p + 1
      BY <1>4, <1>5, <1>6, <2>1
    <3>2. u[q] = m[q] /\ IsFree(m, q)
      BY <1>3, <1>7, <2>1, <3>1
    <3> QED
      BY <2>1, <3>2, SameTag
  <2>2. CASE q = 4
    <3>1. u[4] = 1 /\ 4 \notin F
      BY <1>2, <1>4, <1>5, <1>6, <1>7
    <3> QED
      BY <2>2, <3>1, OddOne
  <2> QED
    BY <1>3, <2>1, <2>2
<1>9. n = IF q \in F THEN [u EXCEPT ![q + 2] = d] ELSE u
  BY <1>8 DEF Relink, u, p, q
<1> HIDE DEF n
<1>10. /\ DOMAIN n = Addr /\ n[d + 1] = q /\ n[d + 2] = p /\ n[p + 1] = d
       /\ q \in F => n[q + 2] = d
       /\ \A x \in Addr : x # d + 1 /\ x # d + 2 /\ x # p + 1 /\ (q \in F => x # q + 2)
                          => n[x] = m[x]
  <2>1. CASE q \in F
    <3>1. q \in H /\ q # d
      BY <1>5, <2>1
    <3>2. q + 2 \in Addr /\ q + 2 # p + 1 /\ q + 2 # d + 1 /\ q + 2 # d + 2
      BY <1>4, <1>5, <1>6, <3>1
    <3>3. n = [u EXCEPT ![q + 2] = d]
      BY <1>9, <2>1
    <3>4. /\ DOMAIN n = Addr /\ n[q + 2] = d
          /\ \A x \in Addr : x # q + 2 => n[x] = u[x]
      BY <1>7, <3>2, <3>3
    <3> QED
      BY <1>5, <1>6, <1>7, <2>1, <3>2, <3>4
  <2>2. CASE q \notin F
    BY <1>7, <1>9, <2>2
  <2> QED
    BY <2>1, <2>2
<1>11. OnlyLinks(m, n, H)
  <2>1. ASSUME NEW x \in Addr, x # 2, \A c \in H : x # c + 1 /\ x # c + 2
        PROVE  n[x] = m[x]
    <3>1. x # p + 1
      <4>1. CASE p = 1
        BY <2>1, <4>1
      <4>2. CASE p \in F
        BY <1>5, <2>1, <4>2
      <4> QED
        BY <1>3, <4>1, <4>2
    <3> QED
      BY <1>5, <1>10, <2>1, <3>1
  <2> QED
    BY <1>10, <2>1 DEF OnlyLinks
<1>12. \A c \in F \cup {1} : c # p => n[c + 1] = m[c + 1]
  <2> SUFFICES ASSUME NEW c \in F \cup {1}, c # p PROVE n[c + 1] = m[c + 1]
    OBVIOUS
  <2>1. c \in Nat /\ c + 1 \in Addr /\ (q \in F => c + 1 # q + 2) /\ c + 1 # d + 2 /\ c + 1 # d + 1
    <3>1. CASE c = 1
      <4>1. c + 1 = 2
        BY <3>1
      <4>2. (q \in F => 2 # q + 2) /\ 2 # d + 2 /\ 2 # d + 1
        <5>1. \A x \in H : x \in Nat /\ 5 <= x
          BY <1>4
        <5>2. \A x \in H : 2 # x + 2 /\ 2 # x + 1
          BY <5>1
        <5> QED
          BY <1>5, <5>2
      <4> QED
        BY <1>5, <3>1, <4>1, <4>2
    <3>2. CASE c \in F
      <4>1. c \in H /\ c # d /\ (q \in F => q \in H)
        BY <1>5, <3>2
      <4> QED
        BY <1>4, <1>5, <4>1
    <3> QED
      BY <3>1, <3>2
  <2>2. c + 1 # p + 1
    BY <1>6, <2>1
  <2> QED
    BY <1>10, <2>1, <2>2
<1>13. \A c \in F : c # q => n[c + 2] = m[c + 2]
  <2> SUFFICES ASSUME NEW c \in F, c # q PROVE n[c + 2] = m[c + 2]
    OBVIOUS
  <2>1. c \in H /\ c # d /\ (q \in F => q \in H)
    BY <1>5
  <2>2. c + 2 \in Addr /\ c + 2 # p + 1 /\ (q \in F => c + 2 # q + 2) /\ c + 2 # d + 2
    BY <1>4, <1>5, <1>6, <2>1
  <2>3. c + 2 # d + 1
    BY <1>4, <1>5, <2>1
  <2> QED
    BY <1>10, <2>2, <2>3
<1>14. /\ r \in [Addr -> Int]
       /\ \A c \in F \cup {1} : m[c + 1] \in F \cup {4}
       /\ \A c \in F \cup {1} : m[c + 1] \in F => m[m[c + 1] + 2] = c /\ r[c] < r[m[c + 1]]
       /\ \A c \in F : m[c + 2] \in F \cup {1} /\ m[m[c + 2] + 1] = c /\ r[1] < r[c]
  BY <1>1 DEF Linked
<1> DEFINE s == [r EXCEPT ![d] = r[b]]
<1>15. s \in [Addr -> Int] /\ s[d] = r[b] /\ \A c \in F \cup {1} : s[c] = r[c] /\ r[c] \in Int
  <2>1. \A c \in F \cup {1} : c \in Addr /\ c # d
    BY <1>4, <1>5
  <2> QED
    BY <1>3, <1>5, <1>14, <2>1
<1> HIDE DEF s
<1>16. b # 1 /\ b # 4 /\ d # 1 /\ d # 4 /\ 4 \notin F /\ 1 \notin F
  BY <1>4, <1>5
<1> HIDE DEF G
<1>17. \A c : c \in G <=> (c \in F /\ c # b) \/ c = d
  BY DEF G
<1>18. ASSUME NEW c \in G \cup {1}
       PROVE  /\ n[c + 1] \in G \cup {4}
              /\ n[c + 1] \in G => n[n[c + 1] + 2] = c /\ s[c] < s[n[c + 1]]
  <2>1. CASE c = d
    <3>1. n[c + 1] = q /\ q \in G \cup {4} /\ q # d
      BY <1>3, <1>10, <1>16, <1>17, <2>1
    <3>2. ASSUME q \in G PROVE n[q + 2] = d /\ s[d] < s[q]
      <4>1. q \in F
        BY <1>17, <3>1, <3>2
      <4> QED
        BY <1>3, <1>10, <1>15, <4>1
    <3> QED
      BY <2>1, <3>1, <3>2
  <2>2. CASE c = p /\ c # d
    <3>1. n[c + 1] = d /\ n[d + 2] = c /\ s[c] = r[p] /\ s[d] = r[b]
      BY <1>3, <1>10, <1>15, <2>2
    <3> QED
      BY <1>3, <1>17, <3>1, <2>2
  <2>3. CASE c # p /\ c # d
    <3> DEFINE x == m[c + 1]
    <3>1. c \in F \cup {1} /\ c # b
      BY <1>16, <1>17, <2>3
    <3>2. n[c + 1] = x /\ x \in F \cup {4} /\ x # b
      BY <1>3, <1>12, <1>14, <2>3, <3>1
    <3>3. ASSUME x \in F PROVE n[x + 2] = c /\ s[c] < s[x]
      <4>1. m[x + 2] = c /\ r[c] < r[x]
        BY <1>14, <3>1, <3>3
      <4>2. x # q
        BY <1>3, <3>1, <3>3, <4>1
      <4> QED
        BY <1>13, <1>15, <3>1, <3>3, <4>1, <4>2
    <3> HIDE DEF x
    <3>4. x # d
      BY <1>16, <3>2
    <3> QED
      BY <1>17, <3>2, <3>3, <3>4
  <2> QED
    BY <2>1, <2>2, <2>3
<1>19. ASSUME NEW c \in G
       PROVE  n[c + 2] \in G \cup {1} /\ n[n[c + 2] + 1] = c /\ s[1] < s[c]
  <2>1. CASE c = d
    <3>1. n[c + 2] = p /\ n[p + 1] = c /\ p \in G \cup {1}
      BY <1>3, <1>10, <1>17, <2>1
    <3>2. s[1] < s[c]
      BY <1>14, <1>15, <2>1
    <3> QED
      BY <3>1, <3>2
  <2>2. CASE c # d /\ c = q
    <3>1. c \in F
      BY <1>17, <2>2
    <3>2. s[1] < s[c]
      BY <1>14, <1>15, <3>1
    <3>3. n[c + 2] = d /\ n[d + 1] = c
      BY <1>10, <2>2, <3>1
    <3> QED
      BY <1>17, <3>2, <3>3
  <2>3. CASE c # d /\ c # q
    <3> DEFINE x == m[c + 2]
    <3>1. c \in F /\ c # b
      BY <1>17, <2>3
    <3>2. n[c + 2] = x /\ x \in F \cup {1} /\ m[x + 1] = c /\ x # b
      BY <1>3, <1>13, <1>14, <2>3, <3>1
    <3>3. x # p
      BY <1>3, <3>1, <3>2
    <3>4. s[1] < s[c]
      BY <1>14, <1>15, <3>1
    <3> HIDE DEF x
    <3> QED
      BY <1>12, <1>17, <3>2, <3>3, <3>4
  <2> QED
    BY <2>1, <2>2, <2>3
<1>20. Linked(n, G, s)
  BY <1>15, <1>18, <1>19 DEF Linked
<1> QED
  BY <1>11, <1>20 DEF ListOf, n, G, H

(* Where the links of the nodes stay, the list does.                       *)
LEMMA ListStays ==
  ASSUME NEW m, NEW n, NEW F, Spread(F), ListOf(m, F), n[2] = m[2],
         \A c \in F : n[c + 1] = m[c + 1] /\ n[c + 2] = m[c + 2]
  PROVE  ListOf(n, F)
<1>1. PICK r : Linked(m, F, r)
  BY DEF ListOf
<1>2. \A c \in F \cup {1} : n[c + 1] = m[c + 1]
  <2>1. 1 + 1 = 2
    OBVIOUS
  <2> QED
    BY <2>1
<1>3. Linked(n, F, r)
  BY <1>1, <1>2 DEF Linked
<1> QED
  BY <1>3 DEF ListOf

-----------------------------------------------------------------------------
(* The list and the blocks.                                                *)

(* The words that link a block lie between its tags.                       *)
LEMMA LinksInside ==
  ASSUME NEW m, NEW B, NEW s, NEW e, Tiles(m, B, s, e), NEW c \in B,
         NEW t \in B \cup {e}
  PROVE  /\ c + 1 # t /\ c + 2 # t /\ c + 1 # t - 1 /\ c + 2 # t - 1 /\ c # t - 1
         /\ c < t => c + 4 <= t
         /\ c \in Nat /\ t \in Nat /\ s \in Nat /\ s <= c /\ c + 4 <= e /\ s <= t /\ t <= e
<1>1. /\ c \in Nat /\ s <= c /\ block_next(m, c) \in Nat /\ c + 4 <= block_next(m, c)
      /\ block_next(m, c) <= e
  BY BlockFacts
<1>2. t \in Nat /\ s <= t /\ t <= e /\ s \in Nat /\ e \in Nat
  <2>1. t \in Nat /\ s <= t /\ t <= e
    BY TilesEnd
  <2> QED
    BY <2>1 DEF Tiles
<1>3. c < t => block_next(m, c) <= t
  <2>1. CASE t = e
    BY <1>1, <2>1
  <2>2. CASE t \in B
    BY <2>2, NextIsNext
  <2> QED
    BY <2>1, <2>2
<1> QED
  BY <1>1, <1>2, <1>3

LEMMA BlocksSpread ==
  ASSUME NEW m, NEW B, NEW s, NEW e, Tiles(m, B, s, e), 5 <= s, e <= MaxHeap,
         NEW F \in SUBSET B
  PROVE  Spread(F)
<1> SUFFICES ASSUME NEW c \in F
             PROVE  /\ c \in Nat /\ 5 <= c /\ c + 4 <= MaxHeap
                    /\ \A d \in F : c < d => c + 4 <= d
  BY DEF Spread
<1>1. c \in B /\ MaxHeap \in Nat
  BY HeapAssumption
<1>2. /\ c \in Nat /\ s \in Nat /\ s <= c /\ c + 4 <= e /\ e \in Nat
      /\ \A d \in F : c < d => c + 4 <= d
  <2>1. \A d \in B \cup {e} : /\ c < d => c + 4 <= d
                             /\ c \in Nat /\ s \in Nat /\ s <= c /\ c + 4 <= e
    BY <1>1, LinksInside
  <2>2. e \in Nat /\ F \subseteq B \cup {e} /\ e \in B \cup {e}
    BY DEF Tiles
  <2> QED
    BY <2>1, <2>2
<1> QED
  BY <1>1, <1>2

LEMMA LinksOn ==
  ASSUME NEW m, NEW n, NEW F, NEW G, OnlyLinks(m, n, F), F \subseteq G, Spread(G)
  PROVE  /\ OnlyLinks(m, n, G)
         /\ n[4] = m[4]
         /\ \A c \in G : n[c] = m[c]
<1>1. OnlyLinks(m, n, G)
  BY DEF OnlyLinks
<1>2. 4 \in Addr /\ 4 # 2
  <2>1. MaxHeap \in Nat /\ 4 + CHUNKSIZE \div 4 <= MaxHeap /\ CHUNKSIZE \in Nat /\ 16 <= CHUNKSIZE
    BY HeapAssumption
  <2>2. 4 <= CHUNKSIZE \div 4
    BY <2>1
  <2> QED
    BY <2>1, <2>2 DEF Addr
<1>3. n[4] = m[4]
  <2>1. \A c \in F : 4 # c + 1 /\ 4 # c + 2
    BY DEF Spread
  <2> QED
    BY <1>2, <2>1 DEF OnlyLinks
<1>4. ASSUME NEW c \in G PROVE n[c] = m[c]
  <2>1. c \in Addr /\ c # 2 /\ \A d \in G : c # d + 1 /\ c # d + 2
    BY NodeFacts
  <2> QED
    BY <2>1 DEF OnlyLinks
<1> QED
  BY <1>1, <1>3, <1>4

LEMMA LinksTwice ==
  ASSUME NEW k, NEW m, NEW n, NEW F, OnlyLinks(k, m, F), OnlyLinks(m, n, F)
  PROVE  OnlyLinks(k, n, F)
BY DEF OnlyLinks

(* Linking blocks of B leaves the blocks C, which are some of them, and    *)
(* the words of those that are not linked.                                 *)
Relinks(m, B, a, C, n, F) ==
  /\ \A c \in C : /\ block_next(n, c) = block_next(a, c)
                  /\ block_size(n, c) = block_size(a, c)
                  /\ IsFree(n, c) <=> IsFree(a, c)
  /\ \A d \in B \ F : \A x \in d .. block_next(m, d) - 1 : n[x] = a[x]

LEMMA LinkWords ==
  ASSUME NEW m, NEW B, NEW e, Tiles(m, B, 5, e), e <= MaxHeap,
         NEW a, NEW C \in SUBSET B, Tiles(a, C, 5, e), NEW F \in SUBSET B, NEW n,
         OnlyLinks(a, n, F)
  PROVE  Tiles(n, C, 5, e) /\ Relinks(m, B, a, C, n, F)
<1>1. MaxHeap \in Nat /\ e \in Nat /\ e <= MaxHeap
  BY HeapAssumption DEF Tiles
<1>2. ASSUME NEW d \in B \ F, NEW x \in d .. block_next(m, d) - 1
      PROVE  n[x] = a[x]
  <2>1. /\ d \in Nat /\ 5 <= d /\ block_next(m, d) \in Nat /\ block_next(m, d) <= e
        /\ block_next(m, d) \in B \cup {e}
    BY BlockFacts
  <2>2. x \in Addr /\ x # 2 /\ x \in Nat /\ d <= x /\ x < block_next(m, d)
    BY <1>1, <2>1 DEF Addr
  <2>3. ASSUME NEW c \in F PROVE x # c + 1 /\ x # c + 2
    <3>1. c \in B /\ c \in Nat /\ c # d
      BY BlockFacts
    <3>2. /\ c < d => c + 4 <= d
          /\ d < c => block_next(m, d) <= c
      <4>1. d \in B \cup {e}
        OBVIOUS
      <4> QED
        BY <3>1, <4>1, LinksInside, NextIsNext
    <3> QED
      BY <2>1, <2>2, <3>1, <3>2
  <2> QED
    BY <2>2, <2>3 DEF OnlyLinks
<1>3. ASSUME NEW c \in C
      PROVE  n[c] = a[c] /\ n[block_next(a, c) - 1] = a[block_next(a, c) - 1]
  <2> DEFINE t == block_next(a, c)
  <2>1. c \in B /\ t \in B \cup {e} /\ t \in Nat /\ c \in Nat /\ 5 <= c /\ c + 4 <= t /\ t <= e
    BY BlockFacts
  <2>2. c \in B \cup {e}
    BY <2>1
  <2> HIDE DEF t
  <2>3. \A d \in F : c # d + 1 /\ c # d + 2 /\ t - 1 # d + 1 /\ t - 1 # d + 2
    <3> SUFFICES ASSUME NEW d \in F
                 PROVE  c # d + 1 /\ c # d + 2 /\ t - 1 # d + 1 /\ t - 1 # d + 2
      OBVIOUS
    <3>1. d \in B
      OBVIOUS
    <3>2. d + 1 # c /\ d + 2 # c
      BY <2>2, <3>1, LinksInside
    <3>3. d + 1 # t - 1 /\ d + 2 # t - 1
      BY <2>1, <3>1, LinksInside
    <3> QED
      BY <3>2, <3>3
  <2>4. c \in Addr /\ t - 1 \in Addr /\ c # 2 /\ t - 1 # 2
    BY <1>1, <2>1 DEF Addr
  <2>5. n[c] = a[c] /\ n[t - 1] = a[t - 1]
    BY <2>3, <2>4 DEF OnlyLinks
  <2> QED
    BY <2>5 DEF t
<1>4. Tiles(n, C, 5, e)
  BY <1>3, TilesStay
<1>5. \A c \in C : /\ block_next(n, c) = block_next(a, c)
                   /\ block_size(n, c) = block_size(a, c)
                   /\ IsFree(n, c) <=> IsFree(a, c)
  BY <1>3, SameTag
<1> QED
  BY <1>2, <1>4, <1>5 DEF Relinks

(* The blocks B of an explicit heap, and the list of the free ones that    *)
(* are not in U.                                                           *)
Listing(m, B, e, U) ==
  /\ DOMAIN m = Addr /\ e <= MaxHeap /\ Tiles(m, B, 5, e) /\ m[4] = 1
  /\ ListOf(m, Frees(m, B) \ U)

LEMMA ExplicitLaid ==
  ASSUME NEW h, NEW B
  PROVE  Laid("explicit", h, B) <=>
           /\ h = [mem |-> h.mem, brk |-> h.brk] /\ h.brk \in Nat
           /\ Listing(h.mem, B, h.brk, {})
<1>1. Start("explicit") = 5 /\ End("explicit", h) = h.brk
  BY DEF Start, End
<1>2. Frees(h.mem, B) \ {} = Frees(h.mem, B)
  OBVIOUS
<1> QED
  BY <1>1, <1>2 DEF Laid, Listing

LEMMA ListingFacts ==
  ASSUME NEW m, NEW B, NEW e, NEW U, Listing(m, B, e, U)
  PROVE  /\ FreeList(m, Frees(m, B) \ U)
         /\ \A c \in Frees(m, B) : IsFree(m, c)
         /\ \A F \in SUBSET B : Spread(F)
         /\ Frees(m, B) \in SUBSET B
         /\ MaxHeap \in Nat /\ e \in Nat /\ 5 <= e /\ e \in B \cup {e}
<1>1. Tiles(m, B, 5, e) /\ e <= MaxHeap /\ DOMAIN m = Addr /\ m[4] = 1
      /\ ListOf(m, Frees(m, B) \ U)
  BY DEF Listing
<1>2. \A F \in SUBSET B : Spread(F)
  <2>1. 5 <= 5
    OBVIOUS
  <2> QED
    BY <1>1, <2>1, BlocksSpread
<1>3. Frees(m, B) \in SUBSET B /\ \A c \in Frees(m, B) : IsFree(m, c)
  BY DEF Frees
<1>4. MaxHeap \in Nat /\ e \in Nat
  BY <1>1, HeapAssumption DEF Tiles
<1>5. e \in B \cup {e}
  OBVIOUS
<1>6. 5 <= e
  BY <1>1, <1>5, TilesEnd
<1> QED
  BY <1>1, <1>2, <1>3, <1>4, <1>5, <1>6 DEF FreeList

-----------------------------------------------------------------------------
(* coalesce of the explicit list.                                          *)
PrevOrIt(m, b) == IF IsFree(m, b - 1) THEN block_prev(m, b) ELSE b

NextOrIt(m, b) == IF IsFree(m, block_next(m, b)) THEN block_next(m, b) ELSE b

LEMMA ExplicitCoalesceIs ==
  ASSUME NEW h, NEW b
  PROVE  LET m     == h.mem
             p     == PrevOrIt(m, b)
             q     == NextOrIt(m, b)
             all   == Merge(m, p, q)
             alone == IF p = b THEN all ELSE removeBlock(all, p)
             off   == IF q = b THEN alone ELSE removeBlock(alone, q)
         IN  Explicit!coalesce(h, b) =
               IF block_next(m, b) >= h.brk THEN placeFreeBlock(m, b)
               ELSE IF p # b /\ q = b THEN all ELSE placeFreeBlock(off, p)
BY ExplicitTags, ExplicitMerge, ExplicitLists DEF Explicit!coalesce, PrevOrIt, NextOrIt

LEMMA Around ==
  ASSUME NEW m, NEW B, NEW e, Tiles(m, B, 5, e), m[4] = 1, NEW b \in B, block_next(m, b) < e
  PROVE  LET p == PrevOrIt(m, b)
             q == NextOrIt(m, b)
         IN  /\ p \in B /\ q \in B /\ p <= b /\ b <= q
             /\ p # b => IsFree(m, p) /\ block_next(m, p) = b
             /\ q # b => IsFree(m, q) /\ q = block_next(m, b)
             /\ \A c \in B : p <= c /\ c < block_next(m, q) => c \in {p, b, q}
<1> DEFINE p == PrevOrIt(m, b)
           q == NextOrIt(m, b)
           t == block_next(m, b)
<1>1. b \in Nat /\ 5 <= b /\ t \in Nat /\ b + 4 <= t /\ t \in B \cup {e} /\ e \in Nat
  <2>1. e \in Nat
    BY DEF Tiles
  <2> QED
    BY <2>1, BlockFacts
<1>2. t \in B
  BY <1>1
<1>3. p \in B /\ p <= b /\ (p # b => IsFree(m, p) /\ block_next(m, p) = b)
  <2>1. CASE IsFree(m, b - 1)
    <3>1. b # 5
      <4>1. 5 - 1 = 4
        OBVIOUS
      <4> QED
        BY <2>1, <4>1, OddOne
    <3>2. b \in B \cup {e}
      OBVIOUS
    <3>3. /\ block_prev(m, b) \in B /\ block_next(m, block_prev(m, b)) = b
          /\ m[b - 1] = m[block_prev(m, b)]
      BY <3>1, <3>2, BlockBefore
    <3>4. p = block_prev(m, b)
      BY <2>1 DEF PrevOrIt
    <3>5. IsFree(m, p)
      BY <2>1, <3>3, <3>4 DEF IsFree
    <3>6. p \in Nat /\ p + 4 <= block_next(m, p)
      <4> HIDE DEF p
      <4> QED
        BY <3>3, <3>4, BlockFacts
    <3> HIDE DEF p
    <3> QED
      BY <1>1, <3>3, <3>4, <3>5, <3>6
  <2>2. CASE ~ IsFree(m, b - 1)
    BY <1>1, <2>2 DEF PrevOrIt
  <2> QED
    BY <2>1, <2>2
<1>4. q \in B /\ b <= q /\ (q # b => IsFree(m, q) /\ q = t)
  BY <1>1, <1>2 DEF NextOrIt
<1> HIDE DEF p, q
<1>5. ASSUME NEW c \in B, p <= c, c < block_next(m, q), c # b PROVE c = p \/ c = q
  <2>1. c \in Nat /\ p \in Nat /\ q \in Nat /\ block_next(m, q) \in Nat
        /\ block_next(m, c) \in Nat /\ c + 4 <= block_next(m, c)
    BY <1>3, <1>4, BlockFacts
  <2>2. CASE c < b
    <3>1. p < c => block_next(m, p) <= c
      BY <1>3, NextIsNext
    <3> QED
      BY <1>1, <1>3, <1>5, <2>1, <2>2, <3>1
  <2>3. CASE b < c
    <3>1. t <= c /\ (q < c => block_next(m, q) <= c) /\ (c < q => block_next(m, c) <= q)
      BY <1>4, <2>3, NextIsNext
    <3> QED
      BY <1>1, <1>4, <1>5, <2>1, <2>3, <3>1
  <2> QED
    BY <1>1, <1>5, <2>1, <2>2, <2>3
<1> QED
  BY <1>3, <1>4, <1>5 DEF p, q, t

(* What coalesce leaves of the heap m with blocks B when b was not on the  *)
(* list.                                                                   *)
Coalesces(m, B, e, b, r, C) ==
  /\ Listing(r, C, e, {})
  /\ Allocated(r, C) = Allocated(m, B)
  /\ \A c \in Allocated(m, B) : Kept(m, r, c)
  /\ block_next(m, b) = e => /\ b \in C /\ IsFree(r, b)
                             /\ block_size(r, b) = block_size(m, b)

LEMMA PlacedAtBreak ==
  ASSUME NEW m, NEW B, NEW e, NEW b \in B, Listing(m, B, e, {b}), IsFree(m, b)
  PROVE  Coalesces(m, B, e, b, placeFreeBlock(m, b), B)
<1> DEFINE r == placeFreeBlock(m, b)
           F == Frees(m, B) \ {b}
           G == Frees(m, B)
<1>1. /\ FreeList(m, F) /\ \A c \in F : IsFree(m, c)
      /\ Spread(G) /\ G \in SUBSET B
  BY ListingFacts
<1>2. b \notin F /\ F \cup {b} = G
  BY DEF Frees
<1>3. Tiles(m, B, 5, e) /\ e <= MaxHeap /\ m[4] = 1
  BY DEF Listing
<1> HIDE DEF r, F, G
<1>4. ListOf(r, G) /\ OnlyLinks(m, r, G)
  BY <1>1, <1>2, PlacedFirst DEF r
<1>5. Tiles(r, B, 5, e) /\ Relinks(m, B, m, B, r, G)
  <2>1. B \in SUBSET B
    OBVIOUS
  <2> QED
    BY <1>1, <1>3, <1>4, <2>1, LinkWords
<1>6. /\ \A c \in B : block_size(r, c) = block_size(m, c) /\ (IsFree(r, c) <=> IsFree(m, c))
      /\ \A d \in B \ G : Kept(m, r, d)
  BY <1>5 DEF Relinks, Kept
<1>7. Frees(r, B) = G /\ Allocated(r, B) = Allocated(m, B) /\ Allocated(m, B) = B \ G
  BY <1>6 DEF Frees, Allocated, G
<1>8. r[4] = 1 /\ DOMAIN r = Addr
  <2>1. G \subseteq G
    OBVIOUS
  <2> QED
    BY <1>1, <1>3, <1>4, <2>1, LinksOn DEF OnlyLinks
<1>9. Listing(r, B, e, {})
  <2>1. G \ {} = G
    OBVIOUS
  <2> QED
    BY <1>3, <1>4, <1>5, <1>7, <1>8, <2>1 DEF Listing
<1> QED
  BY <1>6, <1>7, <1>9 DEF Coalesces, r

(* The heap with b and its free neighbours taken together: their links are *)
(* still there.                                                            *)
Gathers(m, B, e, b, p, q, a, C) ==
  /\ C \in SUBSET B /\ Tiles(a, C, 5, e) /\ FreeList(a, Frees(m, B) \ {b})
  /\ \A c \in Frees(m, B) : IsFree(a, c)
  /\ Frees(a, C) = (Frees(m, B) \ {b, p, q}) \cup {p}
  /\ Allocated(a, C) = Allocated(m, B)
  /\ \A c \in Allocated(m, B) : Kept(m, a, c)

LEMMA Gathered ==
  ASSUME NEW m, NEW B, NEW e, NEW b \in B, Listing(m, B, e, {b}), IsFree(m, b),
         block_next(m, b) < e
  PROVE  LET p == PrevOrIt(m, b)
             q == NextOrIt(m, b)
         IN  /\ \E C : Gathers(m, B, e, b, p, q, Merge(m, p, q), C)
             /\ p \in Frees(m, B) /\ q \in Frees(m, B) /\ (p # b => p # q)
<1> DEFINE p == PrevOrIt(m, b)
           q == NextOrIt(m, b)
           t == block_next(m, q)
           a == Merge(m, p, q)
           C == Outside(B, p, t) \cup {p}
           G == Frees(m, B)
           F == G \ {b}
<1>1. Tiles(m, B, 5, e) /\ e <= MaxHeap /\ m[4] = 1 /\ DOMAIN m = Addr /\ ListOf(m, F)
  BY DEF Listing
<1>2. /\ FreeList(m, F) /\ \A c \in G : IsFree(m, c)
      /\ Spread(G) /\ G \in SUBSET B /\ MaxHeap \in Nat /\ e \in Nat
  BY ListingFacts
<1>3. /\ p \in B /\ q \in B /\ p <= b /\ b <= q
      /\ p # b => IsFree(m, p) /\ block_next(m, p) = b
      /\ q # b => IsFree(m, q) /\ q = block_next(m, b)
      /\ \A c \in B : p <= c /\ c < t => c \in {p, b, q}
  BY <1>1, Around
<1>4. p \in G /\ q \in G /\ b \in G
  <2>1. IsFree(m, p) /\ IsFree(m, q)
    BY <1>3
  <2> HIDE DEF p, q
  <2> QED
    BY <1>3, <2>1 DEF Frees
<1> HIDE DEF p, q
<1>5. /\ p \in Nat /\ b \in Nat /\ q \in Nat /\ t \in Nat /\ q + 4 <= t /\ 5 <= p
      /\ t \in B \cup {e} /\ t <= e /\ p <= q
  <2>1. p \in Nat /\ 5 <= p /\ b \in Nat
    BY <1>1, <1>3, BlockFacts
  <2>2. q \in Nat /\ t \in Nat /\ q + 4 <= t /\ t \in B \cup {e} /\ t <= e
    BY <1>1, <1>3, BlockFacts
  <2> QED
    BY <1>3, <2>1, <2>2
<1> HIDE DEF t, a, G
<1>6. /\ DOMAIN a = Addr
      /\ \A x \in Addr : x # p /\ x # t - 1 => a[x] = m[x]
      /\ Tiles(a, {p}, p, t) /\ IsFree(a, p) /\ block_next(a, p) = t
  <2>1. LET k == Merge(m, p, q)
            u == block_next(m, q)
        IN  /\ DOMAIN k = Addr
            /\ \A x \in Addr : x # p /\ x # u - 1 => k[x] = m[x]
            /\ Tiles(k, {p}, p, u) /\ IsFree(k, p) /\ block_next(k, p) = u
    <3>1. Tiles(m, B, 5, e) /\ DOMAIN m = Addr /\ e <= MaxHeap
      BY <1>1
    <3>2. p \in B /\ q \in B /\ p <= q
      BY <1>3, <1>5
    <3> QED
      BY ONLY <3>1, <3>2, Merged
  <2> QED
    BY <2>1 DEF a, t
<1>7. \A x \in Nat : x < e /\ (x < p \/ t <= x) => a[x] = m[x]
  <2>1. \A x \in Nat : x < e => x \in Addr
    BY <1>1, <1>2 DEF Addr
  <2>2. \A x \in Nat : x < p \/ t <= x => x # p /\ x # t - 1
    BY <1>5
  <2> QED
    BY <1>6, <2>1, <2>2
<1>8. /\ Tiles(a, C, 5, e)
      /\ \A c \in B : c < p \/ t <= c => Kept(m, a, c)
  <2>1. p \in B \cup {e} /\ t \in B \cup {e} /\ p <= t
    BY <1>3, <1>5
  <2> DEFINE N == {p}
  <2>2. Tiles(a, N, p, t)
    BY <1>6
  <2> HIDE DEF N
  <2>3. /\ Tiles(a, Outside(B, p, t) \cup N, 5, e)
        /\ \A c \in B : c < p \/ t <= c => Kept(m, a, c)
    <3>1. Tiles(m, B, 5, e)
      BY <1>1
    <3> QED
      BY ONLY <1>7, <2>1, <2>2, <3>1, TilesReplaced
  <2> QED
    BY <2>3 DEF N
<1>9. \A c \in B : c \notin {p, b, q} => c < p \/ t <= c
  <2>1. \A c \in B : c \in Nat
    BY <1>1, BlockFacts
  <2> QED
    BY <1>3, <1>5, <2>1
<1>10. ~ (p < p \/ t <= p) /\ ~ (b < p \/ t <= b) /\ ~ (q < p \/ t <= q)
  BY <1>3, <1>5
<1>11. C = (B \ {p, b, q}) \cup {p}
  BY <1>3, <1>9, <1>10 DEF Outside
<1>12. \A c \in B : c \notin {p, b, q} => (IsFree(a, c) <=> IsFree(m, c)) /\ Kept(m, a, c)
  BY <1>1, <1>8, <1>9, KeptTag
<1>13. ASSUME NEW c \in G
       PROVE  /\ IsFree(a, c)
              /\ a[c + 1] = m[c + 1] /\ a[c + 2] = m[c + 2]
  <2>1. c \in B /\ IsFree(m, c)
    BY <1>2
  <2>2. /\ c + 1 # p /\ c + 2 # p /\ c + 1 # t - 1 /\ c + 2 # t - 1 /\ c # t - 1
    <3>1. p \in B \cup {e}
      BY <1>3
    <3> QED
      BY <1>1, <1>5, <2>1, <3>1, LinksInside
  <2>3. c \in Addr /\ c + 1 \in Addr /\ c + 2 \in Addr
    BY <1>2, NodeFacts
  <2>4. IsFree(a, c)
    <3>1. CASE c = p
      BY <1>6, <3>1
    <3>2. CASE c # p
      BY <1>6, <2>1, <2>2, <2>3, <3>2, SameTag
    <3> QED
      BY <3>1, <3>2
  <2> QED
    BY <1>6, <2>2, <2>3, <2>4
<1>14. a[2] = m[2] /\ a[4] = 1
  <2>1. 2 \in Addr /\ 4 \in Addr
    BY <1>2, <1>4, NodeFacts
  <2>2. 2 # p /\ 2 # t - 1 /\ 4 # p /\ 4 # t - 1
    BY <1>5
  <2> QED
    BY <1>1, <1>6, <2>1, <2>2
<1>15. FreeList(a, F)
  <2>1. Spread(F) /\ ListOf(m, F)
    BY <1>2 DEF FreeList
  <2>2. \A c \in F : a[c + 1] = m[c + 1] /\ a[c + 2] = m[c + 2]
    BY <1>13
  <2> HIDE DEF F
  <2>3. ListOf(a, F)
    BY <1>14, <2>1, <2>2, ListStays
  <2> QED
    BY <1>6, <1>14, <2>1, <2>3 DEF FreeList
<1>16. Frees(a, C) = (G \ {b, p, q}) \cup {p}
  BY <1>6, <1>11, <1>12, <1>4 DEF Frees, G
<1>17. Allocated(a, C) = Allocated(m, B)
  BY <1>2, <1>4, <1>6, <1>11, <1>12 DEF Allocated
<1>18. \A c \in Allocated(m, B) : Kept(m, a, c)
  BY <1>2, <1>4, <1>12 DEF Allocated
<1>19. p # b => p # q
  <2>1. p # b => p < b
    BY <1>3, <1>5
  <2> QED
    BY <1>3, <1>5, <2>1
<1>20. C \in SUBSET B
  BY <1>3, <1>11
<1>21. Gathers(m, B, e, b, p, q, a, C)
  BY <1>8, <1>13, <1>15, <1>16, <1>17, <1>18, <1>20 DEF Gathers, G
<1> QED
  BY <1>4, <1>19, <1>21 DEF p, q, a, G

(* Blocks X are on the list of n, which was made from a by linking blocks  *)
(* of G.                                                                   *)
OnList(a, G, n, X) == FreeList(n, X) /\ OnlyLinks(a, n, G) /\ \A c \in G : IsFree(n, c)

LEMMA OffList ==
  ASSUME NEW a, NEW G, Spread(G), NEW n, NEW X, X \subseteq G, OnList(a, G, n, X), NEW c \in X
  PROVE  OnList(a, G, removeBlock(n, c), X \ {c})
<1> DEFINE k == removeBlock(n, c)
<1>1. FreeList(n, X) /\ OnlyLinks(a, n, G) /\ \A x \in G : IsFree(n, x)
  BY DEF OnList
<1>2. ListOf(k, X \ {c}) /\ OnlyLinks(n, k, X)
  BY <1>1, Unlinked
<1> HIDE DEF k
<1>3. OnlyLinks(n, k, G) /\ k[4] = n[4] /\ \A x \in G : k[x] = n[x]
  BY <1>2, LinksOn
<1>4. OnlyLinks(a, k, G)
  BY <1>1, <1>3, LinksTwice
<1>5. \A x \in G : IsFree(k, x)
  BY <1>1, <1>3, SameTag
<1>6. Spread(X \ {c}) /\ DOMAIN k = Addr /\ k[4] = 1
  BY <1>1, <1>2, <1>3 DEF OnlyLinks, FreeList, Spread
<1> QED
  BY <1>2, <1>4, <1>5, <1>6 DEF FreeList, OnList, k

(* The block that was gathered is put on the list when the others are off. *)
LEMMA GatheredPlaced ==
  ASSUME NEW m, NEW B, NEW e, NEW b \in B, Listing(m, B, e, {b}),
         NEW p \in Frees(m, B), NEW q \in Frees(m, B), NEW a, NEW C,
         Gathers(m, B, e, b, p, q, a, C), p # b => p # q, block_next(m, b) < e
  PROVE  LET alone == IF p = b THEN a ELSE removeBlock(a, p)
             off   == IF q = b THEN alone ELSE removeBlock(alone, q)
         IN  Coalesces(m, B, e, b, placeFreeBlock(off, p), C)
<1> DEFINE G == Frees(m, B)
           F == G \ {b}
           alone == IF p = b THEN a ELSE removeBlock(a, p)
           off == IF q = b THEN alone ELSE removeBlock(alone, q)
           r == placeFreeBlock(off, p)
<1>1. Tiles(m, B, 5, e) /\ e <= MaxHeap
  BY DEF Listing
<1>2. Spread(G) /\ G \in SUBSET B /\ \A X \in SUBSET B : Spread(X)
  BY ListingFacts
<1>3. /\ C \in SUBSET B /\ Tiles(a, C, 5, e) /\ FreeList(a, F)
      /\ \A c \in G : IsFree(a, c)
      /\ Frees(a, C) = (G \ {b, p, q}) \cup {p}
      /\ Allocated(a, C) = Allocated(m, B)
      /\ \A c \in Allocated(m, B) : Kept(m, a, c)
  BY DEF Gathers
<1>4. p \in G /\ q \in G
  OBVIOUS
<1> HIDE DEF G, alone, off, r
<1> DEFINE On(n, X) == OnList(a, G, n, X)
<1>5. ASSUME NEW n, NEW X \in SUBSET G, On(n, X), NEW c \in X
      PROVE  On(removeBlock(n, c), X \ {c})
  BY <1>2, <1>5, OffList
<1>6. On(a, F)
  BY <1>3 DEF OnlyLinks, FreeList, OnList
<1>7. On(alone, F \ {p})
  <2>1. CASE p = b
    <3>1. F \ {p} = F /\ alone = a
      BY <2>1 DEF alone
    <3> QED
      BY <1>6, <3>1
  <2>2. CASE p # b
    <3>1. p \in F /\ F \in SUBSET G /\ alone = removeBlock(a, p)
      BY <1>4, <2>2 DEF alone
    <3> HIDE DEF F, On
    <3> QED
      BY <1>5, <1>6, <3>1
  <2> QED
    BY <2>1, <2>2
<1>8. On(off, F \ {p, q})
  <2>1. CASE q = b
    <3>1. F \ {p, q} = F \ {p} /\ off = alone
      BY <2>1 DEF off
    <3> HIDE DEF F, On
    <3> QED
      BY <1>7, <3>1
  <2>2. CASE q # b
    <3>1. q \in F \ {p} /\ F \ {p} \in SUBSET G /\ off = removeBlock(alone, q)
      BY <1>4, <2>2 DEF off
    <3>2. (F \ {p}) \ {q} = F \ {p, q}
      OBVIOUS
    <3> HIDE DEF F, On
    <3>3. On(off, (F \ {p}) \ {q})
      BY <1>5, <1>7, <3>1
    <3> QED
      BY <3>2, <3>3
  <2> QED
    BY <2>1, <2>2
<1> DEFINE X == F \ {p, q}
           Y == X \cup {p}
<1>9. X \subseteq G /\ p \notin X /\ Y \subseteq G /\ Y = Frees(a, C)
  BY <1>3, <1>4
<1> HIDE DEF X
<1>10. ListOf(r, Y) /\ OnlyLinks(off, r, Y)
  <2>1. FreeList(off, X) /\ \A c \in X : IsFree(off, c)
    BY <1>8, <1>9 DEF X, OnList
  <2>2. Spread(Y)
    BY <1>2, <1>9
  <2> QED
    BY <1>9, <2>1, <2>2, PlacedFirst DEF r
<1> HIDE DEF Y
<1>11. OnlyLinks(a, r, G) /\ r[4] = 1 /\ DOMAIN r = Addr
  <2>1. OnlyLinks(off, r, G) /\ r[4] = off[4]
    BY <1>2, <1>9, <1>10, LinksOn
  <2> QED
    BY <1>8, <2>1, LinksTwice DEF FreeList, OnlyLinks, OnList
<1>12. Tiles(r, C, 5, e) /\ Relinks(m, B, a, C, r, G)
  BY <1>1, <1>2, <1>3, <1>11, LinkWords
<1>13. /\ \A c \in C : IsFree(r, c) <=> IsFree(a, c)
       /\ \A d \in B \ G : \A x \in d .. block_next(m, d) - 1 : r[x] = a[x]
  BY <1>12 DEF Relinks
<1>14. Frees(r, C) = Y /\ Allocated(r, C) = Allocated(m, B)
  <2>1. Frees(r, C) = Frees(a, C)
    BY <1>13 DEF Frees
  <2>2. Allocated(r, C) = Allocated(a, C)
    BY <1>13 DEF Allocated
  <2> QED
    BY <1>3, <1>9, <2>1, <2>2
<1>15. \A c \in Allocated(m, B) : Kept(m, r, c)
  <2> SUFFICES ASSUME NEW c \in Allocated(m, B) PROVE Kept(m, r, c)
    OBVIOUS
  <2>1. c \in B \ G
    BY DEF Allocated, G, Frees
  <2>2. Kept(m, a, c)
    BY <1>3
  <2> QED
    BY <1>13, <2>1, <2>2 DEF Kept
<1>16. Listing(r, C, e, {})
  <2>1. Y \ {} = Y
    OBVIOUS
  <2> QED
    BY <1>1, <1>10, <1>11, <1>12, <1>14, <2>1 DEF Listing
<1>17. block_next(m, b) # e
  <2>1. block_next(m, b) \in Nat /\ e \in Nat
    BY <1>1, BlockFacts DEF Tiles
  <2> QED
    BY <2>1
<1> QED
  BY <1>14, <1>15, <1>16, <1>17 DEF Coalesces, r, off, alone

LEMMA ExplicitCoalesceKeeps ==
  ASSUME NEW m, NEW B, NEW e, NEW b \in B, Listing(m, B, e, {b}), IsFree(m, b),
         NEW h, h.mem = m, h.brk = e
  PROVE  \E C : Coalesces(m, B, e, b, Explicit!coalesce(h, b), C)
<1> DEFINE p == PrevOrIt(m, b)
           q == NextOrIt(m, b)
           a == Merge(m, p, q)
           alone == IF p = b THEN a ELSE removeBlock(a, p)
           off == IF q = b THEN alone ELSE removeBlock(alone, q)
           r == Explicit!coalesce(h, b)
<1>1. r = IF block_next(m, b) >= e THEN placeFreeBlock(m, b)
          ELSE IF p # b /\ q = b THEN a ELSE placeFreeBlock(off, p)
  BY ExplicitCoalesceIs
<1>2. block_next(m, b) \in Nat /\ e \in Nat /\ Tiles(m, B, 5, e)
  BY BlockFacts DEF Listing, Tiles
<1> HIDE DEF r, p, q, a, off
<1>3. CASE block_next(m, b) >= e
  BY <1>1, <1>3, PlacedAtBreak DEF r
<1>4. CASE block_next(m, b) < e
  <2>1. ~ (block_next(m, b) >= e)
    BY <1>2, <1>4
  <2>2. /\ \E C : Gathers(m, B, e, b, p, q, a, C)
        /\ p \in Frees(m, B) /\ q \in Frees(m, B) /\ (p # b => p # q)
    BY <1>4, Gathered DEF p, q, a
  <2>3. PICK C : Gathers(m, B, e, b, p, q, a, C)
    BY <2>2
  <2>4. CASE p # b /\ q = b
    <3>1. r = a
      BY <1>1, <2>1, <2>4
    <3>2. /\ Tiles(a, C, 5, e) /\ FreeList(a, Frees(m, B) \ {b})
          /\ Frees(a, C) = (Frees(m, B) \ {b, p, q}) \cup {p}
          /\ Allocated(a, C) = Allocated(m, B)
          /\ \A c \in Allocated(m, B) : Kept(m, a, c)
      BY <2>3 DEF Gathers
    <3>3. (Frees(m, B) \ {b, p, q}) \cup {p} = Frees(m, B) \ {b}
      BY <2>2, <2>4
    <3>4. Frees(a, C) \ {} = Frees(m, B) \ {b}
      BY <3>2, <3>3
    <3>5. Listing(a, C, e, {})
      BY <3>2, <3>4 DEF Listing, FreeList
    <3>6. block_next(m, b) # e
      BY <1>2, <1>4
    <3>7. Coalesces(m, B, e, b, a, C)
      BY <3>2, <3>5, <3>6 DEF Coalesces
    <3> QED
      BY <3>1, <3>7 DEF r
  <2>5. CASE ~ (p # b /\ q = b)
    <3>1. r = placeFreeBlock(off, p)
      BY <1>1, <2>1, <2>5
    <3>2. Coalesces(m, B, e, b, placeFreeBlock(off, p), C)
      BY <1>4, <2>2, <2>3, GatheredPlaced DEF off
    <3> QED
      BY <3>1, <3>2 DEF r
  <2> QED
    BY <2>4, <2>5
<1> QED
  BY <1>2, <1>3, <1>4

-----------------------------------------------------------------------------
(* The nodes that Nodes finds on the list.                                 *)
NodesStep(m, f, top) ==
  [k \in 0 .. top |->
     [c \in Addr |->
        IF k = 0 \/ block_size(m, c) = 0 \/ m[c + 1] \notin Addr THEN <<c>>
        ELSE <<c>> \o f[k - 1][m[c + 1]]]]

LEMMA NodesExist ==
  ASSUME NEW m, NEW top \in Nat
  PROVE  \E f : f = NodesStep(m, f, top)
<1> DEFINE Q == {k \in Nat : \E f : f = NodesStep(m, f, k)}
<1>1. 0 \in Q
  <2> DEFINE f == [k \in 0 .. 0 |-> [c \in Addr |-> <<c>>]]
  <2>1. \A k \in 0 .. 0 : k = 0
    OBVIOUS
  <2>2. f = NodesStep(m, f, 0)
    BY <2>1 DEF NodesStep
  <2> QED
    BY <2>2
<1>2. ASSUME NEW n \in 1 .. top, n - 1 \in Q PROVE n \in Q
  <2>1. PICK f : f = NodesStep(m, f, n - 1)
    BY <1>2
  <2> DEFINE Row(h, k) == [c \in Addr |->
               IF k = 0 \/ block_size(m, c) = 0 \/ m[c + 1] \notin Addr THEN <<c>>
               ELSE <<c>> \o h[k - 1][m[c + 1]]]
             g == [k \in 0 .. n |-> IF k = n THEN Row(f, n) ELSE f[k]]
  <2>2. \A k \in 0 .. n - 1 : f[k] = Row(f, k)
    <3> HIDE DEF Row
    <3>1. f = [k \in 0 .. n - 1 |-> Row(f, k)]
      BY <2>1 DEF NodesStep, Row
    <3> QED
      BY <3>1
  <2>3. \A k \in 0 .. n - 1 : g[k] = f[k]
    <3> HIDE DEF Row
    <3> QED
      OBVIOUS
  <2>4. g[n] = Row(f, n)
    <3> HIDE DEF Row
    <3> QED
      OBVIOUS
  <2>5. \A k \in 1 .. n : Row(g, k) = Row(f, k)
    <3> SUFFICES ASSUME NEW k \in 1 .. n PROVE Row(g, k) = Row(f, k)
      OBVIOUS
    <3>1. k - 1 \in 0 .. n - 1
      OBVIOUS
    <3>2. g[k - 1] = f[k - 1]
      BY <2>3, <3>1
    <3> HIDE DEF g
    <3> QED
      BY <3>2
  <2>6. Row(g, 0) = Row(f, 0)
    OBVIOUS
  <2>7. \A k \in 0 .. n : g[k] = Row(g, k)
    <3> HIDE DEF Row, g
    <3> SUFFICES ASSUME NEW k \in 0 .. n PROVE g[k] = Row(g, k)
      OBVIOUS
    <3>1. CASE k = n
      BY <2>4, <2>5, <3>1
    <3>2. CASE k # n
      <4>1. k \in 0 .. n - 1 /\ (k # 0 => k \in 1 .. n)
        BY <3>2
      <4> QED
        BY <2>2, <2>3, <2>5, <2>6, <4>1
    <3> QED
      BY <3>1, <3>2
  <2>8. g = [k \in 0 .. n |-> g[k]]
    <3> HIDE DEF Row
    <3> QED
      OBVIOUS
  <2>9. g = [k \in 0 .. n |-> Row(g, k)]
    <3> HIDE DEF Row, g
    <3> QED
      BY <2>7, <2>8
  <2>10. g = NodesStep(m, g, n)
    <3> HIDE DEF g
    <3> QED
      BY <2>9 DEF NodesStep
  <2> QED
    BY <2>10
<1>3. Q \in SUBSET Nat
  OBVIOUS
<1>4. top \in Q
  <2> HIDE DEF Q
  <2> QED
    BY <1>1, <1>2, <1>3, UpTo
<1> QED
  BY <1>4

(* The nodes w lead from c along the next pointers of the blocks F.        *)
Leads(m, F, c, w) ==
  /\ w \in Seq(F \cup {4}) /\ 1 <= Len(w) /\ w[1] = c
  /\ \A i \in 1 .. Len(w) - 1 : w[i] \in F /\ w[i + 1] = m[w[i] + 1]

LEMMA LeadsOn ==
  ASSUME NEW m, NEW F, NEW c \in F, NEW w, Leads(m, F, m[c + 1], w)
  PROVE  Leads(m, F, c, <<c>> \o w) /\ (<<c>> \o w)[Len(<<c>> \o w)] = w[Len(w)]
<1> DEFINE v == <<c>> \o w
           B == F \cup {4}
<1>1. /\ w \in Seq(B) /\ 1 <= Len(w) /\ w[1] = m[c + 1] /\ Len(w) \in Nat
      /\ \A i \in 1 .. Len(w) - 1 : w[i] \in F /\ w[i + 1] = m[w[i] + 1]
  BY DEF Leads
<1>2. <<c>> \in Seq(B) /\ Len(<<c>>) = 1 /\ <<c>>[1] = c
  OBVIOUS
<1> HIDE DEF v, B
<1>3. /\ v \in Seq(B) /\ Len(v) = 1 + Len(w)
      /\ \A i \in 1 .. 1 + Len(w) : v[i] = IF i <= 1 THEN <<c>>[i] ELSE w[i - 1]
  BY <1>1, <1>2, Concatenated DEF v
<1>4. v[1] = c /\ \A i \in 2 .. Len(v) : v[i] = w[i - 1]
  BY <1>1, <1>2, <1>3
<1>5. ASSUME NEW i \in 1 .. Len(v) - 1 PROVE v[i] \in F /\ v[i + 1] = m[v[i] + 1]
  <2>1. v[i + 1] = w[i]
    <3>1. i + 1 \in 2 .. Len(v) /\ (i + 1) - 1 = i
      BY <1>1, <1>3
    <3> QED
      BY <1>4, <3>1
  <2>2. CASE i = 1
    BY <1>1, <1>4, <2>1, <2>2
  <2>3. CASE i # 1
    <3>1. i \in 2 .. Len(v) /\ i - 1 \in 1 .. Len(w) - 1 /\ (i - 1) + 1 = i
      BY <1>1, <1>3, <2>3
    <3>2. v[i] = w[i - 1] /\ w[i - 1] \in F /\ w[i] = m[w[i - 1] + 1]
      BY <1>1, <1>4, <3>1
    <3> QED
      BY <2>1, <3>2
  <2> QED
    BY <2>2, <2>3
<1>6. v[Len(v)] = w[Len(w)]
  <2>1. Len(v) \in 2 .. Len(v) /\ Len(v) - 1 = Len(w)
    BY <1>1, <1>3
  <2> QED
    BY <1>4, <2>1
<1> QED
  BY <1>1, <1>3, <1>4, <1>5, <1>6 DEF v, B, Leads

(* The nodes of F from c on.                                               *)
Ahead(F, r, c) == {y \in F : r[c] <= r[y]}

LEMMA AheadFacts ==
  ASSUME NEW m, NEW F, NEW r, Linked(m, F, r), Spread(F), NEW c \in F
  PROVE  /\ IsFiniteSet(Ahead(F, r, c))
         /\ Cardinality(Ahead(F, r, c)) \in Nat \ {0}
         /\ Cardinality(Ahead(F, r, c)) <= MaxHeap
         /\ m[c + 1] \in F =>
              Cardinality(Ahead(F, r, m[c + 1])) < Cardinality(Ahead(F, r, c))
<1> DEFINE A == Ahead(F, r, c)
           d == m[c + 1]
           D == Ahead(F, r, d)
<1>1. MaxHeap \in Nat /\ 1 <= MaxHeap
  <2>1. MaxHeap \in Nat /\ 4 + CHUNKSIZE \div 4 <= MaxHeap /\ CHUNKSIZE \in Nat
    BY HeapAssumption
  <2>2. CHUNKSIZE \div 4 \in Nat
    BY <2>1
  <2> QED
    BY <2>1, <2>2
<1>2. \A y \in F : y \in Nat /\ y <= MaxHeap - 1
  BY <1>1 DEF Spread
<1>3. r[c] \in Int /\ \A y \in F : r[y] \in Int
  BY NodesAround
<1>4. A \in SUBSET Nat /\ c \in A /\ \A y \in A : y <= MaxHeap - 1
  BY <1>2, <1>3 DEF Ahead
<1> HIDE DEF A, d
<1>5. IsFiniteSet(A) /\ Cardinality(A) <= (MaxHeap - 1) + 1
  <2>1. MaxHeap - 1 \in Nat
    BY <1>1
  <2> QED
    BY <1>4, <2>1, FS_BoundedSetOfNaturals
<1>6. /\ IsFiniteSet(A \ {c}) /\ Cardinality(A \ {c}) = Cardinality(A) - 1
      /\ Cardinality(A) \in Nat /\ Cardinality(A \ {c}) \in Nat
  BY <1>4, <1>5, FS_RemoveElement, FS_CardinalityType
<1>7. ASSUME d \in F PROVE Cardinality(D) < Cardinality(A)
  <2>1. r[c] < r[d] /\ r[d] \in Int
    BY <1>3, <1>7 DEF Linked, d
  <2>2. D \subseteq A \ {c}
    BY <1>3, <2>1 DEF Ahead, A
  <2> HIDE DEF D
  <2>3. Cardinality(D) <= Cardinality(A \ {c}) /\ IsFiniteSet(D)
    BY <1>6, <2>2, FS_Subset
  <2>4. Cardinality(D) \in Nat
    BY <2>3, FS_CardinalityType
  <2> QED
    BY <1>6, <2>3, <2>4
<1>8. Cardinality(A) # 0 /\ Cardinality(A) <= MaxHeap
  BY <1>1, <1>5, <1>6
<1> QED
  BY <1>5, <1>6, <1>7, <1>8 DEF A, d

LEMMA NodesLead ==
  ASSUME NEW m, NEW F, FreeList(m, F), \A c \in F : block_size(m, c) # 0
  PROVE  LET w == Explicit!List!Nodes(m, 1)
         IN  Leads(m, F, m[2], w) /\ w[Len(w)] = 4
<1>1. DOMAIN m = Addr /\ Spread(F) /\ m[4] = 1
  BY DEF FreeList
<1>2. PICK r : Linked(m, F, r)
  BY DEF FreeList, ListOf
<1>3. MaxHeap \in Nat /\ 4 \in Addr
  <2>1. MaxHeap \in Nat /\ 4 + CHUNKSIZE \div 4 <= MaxHeap /\ CHUNKSIZE \in Nat /\ 16 <= CHUNKSIZE
    BY HeapAssumption
  <2>2. 4 <= CHUNKSIZE \div 4
    BY <2>1
  <2> QED
    BY <2>1, <2>2 DEF Addr
<1> DEFINE from == CHOOSE f : f = NodesStep(m, f, MaxHeap)
<1>4. from = NodesStep(m, from, MaxHeap)
  BY <1>3, NodesExist
<1>5. Explicit!List!Nodes(m, 1) = from[MaxHeap][m[2]]
  <2>1. Explicit!Link(1) = 2
    BY DEF Explicit!Link
  <2>2. Explicit!List!Nodes(m, 1) = from[MaxHeap][m[Explicit!Link(1)]]
    BY DEF Explicit!List!Nodes, NodesStep, Explicit!List!block_size, block_size,
           Explicit!List!Addr, Addr
  <2> QED
    BY <2>1, <2>2
<1> HIDE DEF from
<1>6. \A k \in 0 .. MaxHeap, c \in Addr :
         from[k][c] = IF k = 0 \/ block_size(m, c) = 0 \/ m[c + 1] \notin Addr THEN <<c>>
                      ELSE <<c>> \o from[k - 1][m[c + 1]]
  <2> DEFINE Row(k) == [c \in Addr |->
               IF k = 0 \/ block_size(m, c) = 0 \/ m[c + 1] \notin Addr THEN <<c>>
               ELSE <<c>> \o from[k - 1][m[c + 1]]]
  <2>1. from = [k \in 0 .. MaxHeap |-> Row(k)]
    BY <1>4 DEF NodesStep
  <2> HIDE DEF Row
  <2>2. \A k \in 0 .. MaxHeap : from[k] = Row(k)
    BY <2>1
  <2> USE DEF Row
  <2>3. \A k \in 0 .. MaxHeap, c \in Addr :
           Row(k)[c] = IF k = 0 \/ block_size(m, c) = 0 \/ m[c + 1] \notin Addr THEN <<c>>
                       ELSE <<c>> \o from[k - 1][m[c + 1]]
    OBVIOUS
  <2> HIDE DEF Row
  <2> QED
    BY <2>2, <2>3
<1>7. \A c \in F : c \in Addr /\ m[c + 1] \in F \cup {4} /\ m[c + 1] \in Addr
  <2>1. \A c \in F : c \in Addr
    BY <1>1, NodeFacts
  <2>2. \A c \in F : m[c + 1] \in F \cup {4}
    BY <1>2 DEF Linked
  <2> QED
    BY <1>3, <2>1, <2>2
<1>8. \A k \in 0 .. MaxHeap : from[k][4] = <<4>>
  <2>1. block_size(m, 4) = 0
    BY <1>1, OddOne
  <2> QED
    BY <1>3, <1>6, <2>1
<1>9. \A c \in F : from[0][c] = <<c>>
  <2>1. 0 \in 0 .. MaxHeap
    BY <1>3
  <2> QED
    BY <1>6, <1>7, <2>1
<1>10. \A c \in F, k \in 1 .. MaxHeap : from[k][c] = <<c>> \o from[k - 1][m[c + 1]]
  <2> SUFFICES ASSUME NEW c \in F, NEW k \in 1 .. MaxHeap
               PROVE  from[k][c] = <<c>> \o from[k - 1][m[c + 1]]
    OBVIOUS
  <2>1. k \in 0 .. MaxHeap /\ k # 0 /\ c \in Addr /\ m[c + 1] \in Addr /\ block_size(m, c) # 0
    BY <1>7
  <2> QED
    BY <1>6, <2>1
<1> DEFINE Good(k) == \A c \in F \cup {4} :
                        /\ Leads(m, F, c, from[k][c])
                        /\ (c \in F => Cardinality(Ahead(F, r, c)) <= k)
                             => from[k][c][Len(from[k][c])] = 4
           Q == {k \in Nat : k <= MaxHeap => Good(k)}
<1>11. \A c \in F \cup {4} : Leads(m, F, c, <<c>>) /\ <<c>>[Len(<<c>>)] = c
  <2> SUFFICES ASSUME NEW c \in F \cup {4}
               PROVE  Leads(m, F, c, <<c>>) /\ <<c>>[Len(<<c>>)] = c
    OBVIOUS
  <2>1. <<c>> \in Seq(F \cup {4}) /\ Len(<<c>>) = 1 /\ <<c>>[1] = c
    OBVIOUS
  <2>2. \A i \in 1 .. Len(<<c>>) - 1 : FALSE
    BY <2>1
  <2> QED
    BY <2>1, <2>2 DEF Leads
<1>12. 0 \in Q
  <2>1. ASSUME NEW c \in F PROVE ~ (Cardinality(Ahead(F, r, c)) <= 0)
    BY <1>1, <1>2, <2>1, AheadFacts
  <2>2. Good(0)
    <3>1. 0 \in 0 .. MaxHeap
      BY <1>3
    <3>2. from[0][4] = <<4>> /\ Leads(m, F, 4, <<4>>) /\ <<4>>[Len(<<4>>)] = 4
      BY <1>8, <1>11, <3>1
    <3>3. \A c \in F : from[0][c] = <<c>> /\ Leads(m, F, c, <<c>>)
      BY <1>9, <1>11
    <3> QED
      BY <2>1, <3>2, <3>3
  <2> QED
    BY <2>2
<1>13. ASSUME NEW k \in 1 .. MaxHeap, k - 1 \in Q PROVE k \in Q
  <2>1. Good(k - 1) /\ k \in Nat /\ k \in 0 .. MaxHeap
    BY <1>3, <1>13
  <2>2. Good(k)
    <3> SUFFICES ASSUME NEW c \in F \cup {4}
                 PROVE  /\ Leads(m, F, c, from[k][c])
                        /\ (c \in F => Cardinality(Ahead(F, r, c)) <= k)
                             => from[k][c][Len(from[k][c])] = 4
      OBVIOUS
    <3>1. CASE c \notin F
      <4>1. c = 4 /\ from[k][c] = <<4>>
        BY <1>8, <2>1, <3>1
      <4> QED
        BY <1>11, <4>1
    <3>2. CASE c \in F
      <4> DEFINE d == m[c + 1]
                 rest == from[k - 1][d]
      <4>1. from[k][c] = <<c>> \o rest /\ d \in F \cup {4}
        BY <1>7, <1>10, <3>2
      <4>2. Leads(m, F, d, rest)
        BY <2>1, <4>1
      <4>3. Leads(m, F, c, from[k][c]) /\ from[k][c][Len(from[k][c])] = rest[Len(rest)]
        <5>1. Leads(m, F, m[c + 1], rest) /\ from[k][c] = <<c>> \o rest
          BY <4>1, <4>2
        <5> HIDE DEF rest, d
        <5>2. Leads(m, F, c, <<c>> \o rest) /\ (<<c>> \o rest)[Len(<<c>> \o rest)] = rest[Len(rest)]
          <6> DEFINE P(v) == Leads(m, F, m[c + 1], v)
          <6>1. \A v : P(v) => Leads(m, F, c, <<c>> \o v) /\ (<<c>> \o v)[Len(<<c>> \o v)] = v[Len(v)]
            BY <3>2, LeadsOn
          <6> QED
            BY <5>1, <6>1
        <5> QED
          BY <5>1, <5>2
      <4>4. ASSUME Cardinality(Ahead(F, r, c)) <= k
            PROVE  d \in F => Cardinality(Ahead(F, r, d)) <= k - 1
        <5> SUFFICES ASSUME d \in F PROVE Cardinality(Ahead(F, r, d)) <= k - 1
          OBVIOUS
        <5>1. Cardinality(Ahead(F, r, c)) \in Nat /\ Cardinality(Ahead(F, r, d)) \in Nat
          BY <1>1, <1>2, <3>2, AheadFacts
        <5>2. Cardinality(Ahead(F, r, d)) < Cardinality(Ahead(F, r, c))
          BY <1>1, <1>2, <3>2, AheadFacts
        <5> QED
          BY <4>4, <5>1, <5>2
      <4>5. Cardinality(Ahead(F, r, c)) <= k => rest[Len(rest)] = 4
        BY <2>1, <4>1, <4>4
      <4> HIDE DEF rest, d
      <4> QED
        BY <3>2, <4>3, <4>5
    <3> QED
      BY <3>1, <3>2
  <2> QED
    BY <2>1, <2>2
<1>14. Q \in SUBSET Nat
  OBVIOUS
<1>15. MaxHeap \in Q
  <2> HIDE DEF Q
  <2> QED
    BY <1>3, <1>12, <1>13, <1>14, UpTo
<1>16. Good(MaxHeap)
  BY <1>3, <1>15
<1>17. m[2] \in F \cup {4}
  BY <1>2, FirstNode
<1>18. \A c \in F : Cardinality(Ahead(F, r, c)) <= MaxHeap
  BY <1>1, <1>2, AheadFacts
<1> QED
  BY <1>5, <1>16, <1>17, <1>18

(* The list that Nodes follows is sound and has the blocks F.              *)
LEMMA ListIsSound ==
  ASSUME NEW m, NEW F, FreeList(m, F), \A c \in F : block_size(m, c) # 0
  PROVE  /\ Explicit!List!ListSound(m, 1, 4)
         /\ Explicit!List!Listed(m, 1) = F
         /\ \A i \in DOMAIN Explicit!List!Nodes(m, 1) :
               Explicit!List!Nodes(m, 1)[i] \in F \cup {4}
<1> DEFINE w == Explicit!List!Nodes(m, 1)
           n == Len(w)
           X == {w[i] : i \in 1 .. n - 1}
<1>1. DOMAIN m = Addr /\ Spread(F) /\ m[4] = 1
  BY DEF FreeList
<1>2. PICK r : Linked(m, F, r)
  BY DEF FreeList, ListOf
<1>3. Leads(m, F, m[2], w) /\ w[n] = 4
  BY NodesLead
<1> HIDE DEF w
<1>4. /\ w \in Seq(F \cup {4}) /\ n \in Nat /\ 1 <= n /\ w[1] = m[2]
      /\ \A i \in 1 .. n - 1 : w[i] \in F /\ w[i + 1] = m[w[i] + 1]
      /\ DOMAIN w = 1 .. n
  BY <1>3 DEF Leads
<1> HIDE DEF n
<1>5. 4 \notin F
  BY <1>1 DEF Spread
<1>6. /\ m[2] \in F => m[m[2] + 2] = 1
      /\ \A c \in F : m[c + 1] \in F => m[m[c + 1] + 2] = c
      /\ \A c \in F : /\ m[c + 2] \in F \cup {1} /\ m[m[c + 2] + 1] = c
                      /\ r[m[c + 2]] < r[c] /\ r[1] < r[c] /\ r[c] \in Int
      /\ r[1] \in Int \/ F = {}
  <2>1. m[2] \in F => m[m[2] + 2] = 1
    BY <1>2, FirstNode
  <2>2. \A c \in F : m[c + 1] \in F => m[m[c + 1] + 2] = c
    BY <1>2 DEF Linked
  <2>3. \A c \in F : /\ m[c + 2] \in F \cup {1} /\ m[m[c + 2] + 1] = c
                     /\ r[m[c + 2]] < r[c] /\ r[c] \in Int /\ r[1] \in Int
    BY <1>1, <1>2, NodesAround
  <2>4. \A c \in F : r[1] < r[c]
    BY <1>2 DEF Linked
  <2> QED
    BY <2>1, <2>2, <2>3, <2>4
<1>7. ASSUME NEW k \in 1 .. n - 1
      PROVE  m[w[k] + 2] = IF k = 1 THEN 1 ELSE w[k - 1]
  <2>1. CASE k = 1
    <3>1. w[1] \in F /\ w[1] = m[2]
      BY <1>4, <1>7, <2>1
    <3> QED
      BY <1>6, <2>1, <3>1
  <2>2. CASE k # 1
    <3>1. k - 1 \in 1 .. n - 1 /\ (k - 1) + 1 = k
      BY <1>4, <2>2
    <3>2. w[k - 1] \in F /\ w[k] = m[w[k - 1] + 1] /\ w[k] \in F
      BY <1>4, <3>1
    <3>3. m[w[k] + 2] = w[k - 1]
      BY <1>6, <3>2
    <3> QED
      BY <2>2, <3>3
  <2> QED
    BY <2>1, <2>2
<1>8. ASSUME NEW y \in F, m[y + 2] \in X \cup {1} PROVE y \in X
  <2>1. y # 4 /\ m[m[y + 2] + 1] = y
    BY <1>5, <1>6
  <2>2. PICK k \in 1 .. n : w[k] = y
    <3>1. CASE m[y + 2] = 1
      <4>1. 1 + 1 = 2 /\ 1 \in 1 .. n
        BY <1>4
      <4>2. w[1] = y
        BY <1>4, <2>1, <3>1, <4>1
      <4> QED
        BY <4>1, <4>2
    <3>2. CASE m[y + 2] \in X
      <4>1. PICK i \in 1 .. n - 1 : m[y + 2] = w[i]
        BY <3>2
      <4>2. i + 1 \in 1 .. n /\ w[i + 1] = y
        BY <1>4, <2>1, <4>1
      <4> QED
        BY <4>2
    <3> QED
      BY <1>8, <3>1, <3>2
  <2>3. k # n
    BY <1>3, <2>1, <2>2
  <2>4. k \in 1 .. n - 1
    BY <1>4, <2>3
  <2> QED
    BY <2>2, <2>4
<1>9. X \subseteq F
  BY <1>4
<1> HIDE DEF X
<1>10. F \subseteq X
  <2> SUFFICES ASSUME F \ X # {} PROVE FALSE
    OBVIOUS
  <2> DEFINE D == {r[y] - r[1] : y \in F \ X}
  <2>1. D \in SUBSET Nat /\ D # {}
    <3>1. \A y \in F : r[y] - r[1] \in Nat
      BY <1>6
    <3> QED
      BY <3>1
  <2> HIDE DEF D
  <2>2. PICK d \in D : \A x \in D : d <= x
    BY <2>1, LeastNat
  <2>3. PICK y \in F \ X : d = r[y] - r[1]
    BY DEF D
  <2> DEFINE p == m[y + 2]
  <2>4. p \in F /\ p \notin X
    BY <1>6, <1>8, <2>3
  <2>5. r[p] - r[1] \in D
    <3> HIDE DEF p
    <3> QED
      BY <2>4 DEF D
  <2>6. r[p] < r[y] /\ r[p] \in Int /\ r[y] \in Int /\ r[1] \in Int
    BY <1>6, <2>3, <2>4
  <2> HIDE DEF p
  <2> QED
    BY <2>2, <2>3, <2>5, <2>6
<1>11. Explicit!List!Last(w) = 4
  BY <1>3 DEF Explicit!List!Last, n
<1>12. Explicit!List!ToSet(Explicit!List!Front(w)) = X
  <2> DEFINE v == SubSeq(w, 1, n - 1)
  <2>1. v = [i \in 1 .. n - 1 |-> w[i]]
    <3>1. v = [i \in 1 .. (n - 1) - 1 + 1 |-> w[1 + i - 1]]
      BY <1>4 DEF n
    <3>2. (n - 1) - 1 + 1 = n - 1 /\ \A i \in 1 .. n - 1 : 1 + i - 1 = i
      BY <1>4
    <3> QED
      BY <3>1, <3>2
  <2>2. Explicit!List!Front(w) = v
    BY DEF Explicit!List!Front, n
  <2> HIDE DEF v
  <2>3. DOMAIN v = 1 .. n - 1 /\ \A i \in 1 .. n - 1 : v[i] = w[i]
    BY <2>1
  <2>4. Explicit!List!ToSet(v) = X
    BY <2>3 DEF Explicit!List!ToSet, X
  <2> QED
    BY <2>2, <2>4
<1>13. Explicit!List!ListSound(m, 1, 4)
  <2>1. \A k \in 1 .. Len(w) - 1 : m[w[k] + 2] = IF k = 1 THEN 1 ELSE w[k - 1]
    BY <1>7 DEF n
  <2> QED
    BY <1>11, <2>1 DEF Explicit!List!ListSound, w
<1>14. Explicit!List!Listed(m, 1) = F
  BY <1>9, <1>10, <1>12 DEF Explicit!List!Listed, w
<1>15. \A i \in DOMAIN w : w[i] \in F \cup {4}
  BY <1>4
<1> QED
  BY <1>13, <1>14, <1>15 DEF w

-----------------------------------------------------------------------------
(* The calls of the explicit list.                                         *)

(* What changes one block and not its links leaves the list.               *)
LEMMA ListKept ==
  ASSUME NEW m, NEW B, NEW e, NEW U, Listing(m, B, e, U), NEW b \in B,
         NEW r, DOMAIN r = Addr,
         \A x \in Addr : x < b \/ block_next(m, b) <= x => r[x] = m[x],
         IsFree(m, b) => r[b + 1] = m[b + 1] /\ r[b + 2] = m[b + 2]
  PROVE  FreeList(r, Frees(m, B) \ U)
<1> DEFINE F == Frees(m, B) \ U
           t == block_next(m, b)
<1>1. Tiles(m, B, 5, e) /\ e <= MaxHeap /\ DOMAIN m = Addr /\ m[4] = 1 /\ ListOf(m, F)
  BY DEF Listing
<1>2. /\ Spread(F) /\ F \subseteq B /\ \A c \in F : IsFree(m, c)
      /\ MaxHeap \in Nat /\ e \in Nat /\ 5 <= e
  <2>1. Frees(m, B) \in SUBSET B /\ \A X \in SUBSET B : Spread(X)
    BY ListingFacts
  <2>2. F \in SUBSET B
    BY <2>1
  <2> QED
    BY <2>1, <2>2, ListingFacts
<1>3. b \in Nat /\ 5 <= b /\ b + 4 <= t /\ t \in Nat /\ t <= e
  BY <1>1, BlockFacts
<1> HIDE DEF F
<1>4. ASSUME NEW c \in F PROVE r[c + 1] = m[c + 1] /\ r[c + 2] = m[c + 2]
  <2>1. CASE c = b
    BY <1>2, <2>1
  <2>2. CASE c # b
    <3>1. c \in B /\ b \in B \cup {e} /\ c \in Nat
      BY <1>1, <1>2, BlockFacts
    <3>2. (c < b => c + 4 <= b) /\ (b < c => t <= c)
      BY <1>1, <3>1, LinksInside, NextIsNext
    <3>3. c + 1 \in Addr /\ c + 2 \in Addr
      BY <1>2, NodeFacts
    <3> HIDE DEF t
    <3>4. (c + 1 < b /\ c + 2 < b) \/ (t <= c + 1 /\ t <= c + 2)
      BY <1>3, <2>2, <3>1, <3>2
    <3> QED
      BY <3>3, <3>4 DEF t
  <2> QED
    BY <2>1, <2>2
<1>5. r[2] = m[2] /\ r[4] = 1
  <2>1. 2 \in Addr /\ 4 \in Addr /\ 2 < b /\ 4 < b
    BY <1>1, <1>2, <1>3 DEF Addr
  <2> QED
    BY <1>1, <2>1
<1>6. ListOf(r, F)
  BY <1>1, <1>2, <1>4, <1>5, ListStays
<1> QED
  BY <1>2, <1>5, <1>6 DEF FreeList, F

LEMMA ExplicitFreeKeeps ==
  ASSUME NEW h, NEW B, Laid("explicit", h, B), NEW b \in Allocated(h.mem, B)
  PROVE  LET g == Explicit!free(h, b + 1)
         IN  \E C : /\ Serves("explicit", h, B, g, C)
                    /\ Allocated(g.mem, C) = Allocated(h.mem, B) \ {b}
<1> DEFINE e == h.brk
           n == h.mem
           m == block_mark(n, b, 0)
           k == [h EXCEPT !.mem = m]
           r == Explicit!coalesce(k, b)
           g == Explicit!free(h, b + 1)
<1>1. /\ h = [mem |-> n, brk |-> e] /\ e \in Nat /\ Listing(n, B, e, {})
  BY ExplicitLaid
<1>2. Tiles(n, B, 5, e) /\ DOMAIN n = Addr /\ e <= MaxHeap
  BY <1>1 DEF Listing
<1>3. b \in B /\ ~ IsFree(n, b) /\ b \in Nat
  <2>1. "explicit" \in Kinds
    BY DEF Kinds
  <2> QED
    BY <2>1, AllocatedFacts
<1>4. k.mem = m /\ k.brk = e
  <2>1. k = [mem |-> m, brk |-> e]
    BY <1>1
  <2> QED
    BY <2>1
<1>5. g.mem = r /\ g = [mem |-> g.mem, brk |-> e]
  <2>1. (b + 1) - 1 = b
    BY <1>3
  <2>2. Explicit!block_mark(h.mem, b, 0) = m
    BY ExplicitMark
  <2>3. [h EXCEPT !.mem = Explicit!block_mark(@, b, 0)] = k
    BY <2>2
  <2>4. g = [h EXCEPT !.mem = r]
    BY <2>1, <2>3, Zenon DEF Explicit!free
  <2>5. g = [mem |-> r, brk |-> e]
    BY <1>1, <2>4
  <2> QED
    BY <2>5
<1> HIDE DEF e, g, m, k, n
<1>6. /\ DOMAIN m = Addr /\ Tiles(m, B, 5, e)
      /\ \A x \in Addr : x < b \/ block_next(n, b) <= x => m[x] = n[x]
      /\ \A c \in B \ {b} : Kept(n, m, c)
      /\ IsFree(m, b) /\ m[b + 1] = n[b + 1] /\ m[b + 2] = n[b + 2]
  <2>1. 0 \in {0, 1} /\ 0 = 0
    OBVIOUS
  <2> QED
    BY <1>2, <1>3, <2>1, MarkKeeps DEF m
<1>7. \A c \in B \ {b} : /\ block_next(m, c) = block_next(n, c)
                         /\ IsFree(m, c) <=> IsFree(n, c)
  BY <1>2, <1>6, KeptTag
<1>8. /\ Frees(m, B) \ {b} = Frees(n, B) \ {}
      /\ Allocated(m, B) = Allocated(n, B) \ {b}
  BY <1>3, <1>6, <1>7 DEF Frees, Allocated
<1>9. FreeList(m, Frees(n, B) \ {})
  BY <1>1, <1>3, <1>6, ListKept
<1>10. Listing(m, B, e, {b})
  BY <1>2, <1>6, <1>8, <1>9 DEF Listing, FreeList
<1>11. PICK C : Coalesces(m, B, e, b, r, C)
  <2> HIDE DEF r
  <2> QED
    BY <1>3, <1>4, <1>6, <1>10, ExplicitCoalesceKeeps DEF r
<1> HIDE DEF r
<1>12. /\ Listing(r, C, e, {}) /\ Allocated(r, C) = Allocated(m, B)
       /\ \A c \in Allocated(m, B) : Kept(m, r, c)
  BY <1>11 DEF Coalesces
<1>13. Laid("explicit", g, C)
  <2>1. g.brk = e
    BY <1>5
  <2> QED
    BY <1>1, <1>5, <1>12, <2>1, ExplicitLaid
<1>14. ASSUME NEW c \in Allocated(n, B) \ {b} PROVE Kept(n, r, c)
  <2>1. c \in B \ {b} /\ block_next(m, c) = block_next(n, c)
    BY <1>7 DEF Allocated
  <2>2. Kept(n, m, c) /\ Kept(m, r, c)
    BY <1>6, <1>8, <1>12, <2>1
  <2> QED
    BY <2>1, <2>2 DEF Kept
<1>15. Allocated(g.mem, C) = Allocated(n, B) \ {b}
  BY <1>5, <1>8, <1>12
<1>16. Serves("explicit", h, B, g, C)
  BY <1>5, <1>13, <1>14, <1>15 DEF Serves, n
<1> QED
  BY <1>15, <1>16 DEF g, n

(* The new words are a block at the break, which is put on the list.       *)
LEMMA ExplicitExtendKeeps ==
  ASSUME NEW h, NEW B, Laid("explicit", h, B), NEW n \in Nat, n % 2 = 0, 4 <= n,
         h.brk + n <= MaxHeap
  PROVE  LET g == Explicit!extend_heap(h, n)
         IN  \E C : /\ Serves("explicit", h, B, g, C)
                    /\ Allocated(g.mem, C) = Allocated(h.mem, B)
                    /\ h.brk \in C /\ IsFree(g.mem, h.brk)
                    /\ block_size(g.mem, h.brk) = 4 * n
<1> DEFINE b == h.brk
           e == b + n
           w == h.mem
           m == Tag(w, b, 4 * n, 0)
           k == [mem |-> m, brk |-> e]
           r == Explicit!coalesce(k, b)
           g == Explicit!extend_heap(h, n)
           D == B \cup {b}
           F == Frees(w, B)
<1>1. b \in Nat /\ Listing(w, B, b, {})
  BY ExplicitLaid
<1>2. Tiles(w, B, 5, b) /\ DOMAIN w = Addr /\ b <= MaxHeap /\ w[4] = 1 /\ ListOf(w, F)
  <2>1. F \ {} = F
    OBVIOUS
  <2> QED
    BY <1>1, <2>1 DEF Listing
<1>3. g.mem = r /\ g.brk = e /\ g = [mem |-> g.mem, brk |-> g.brk]
  <2>1. n + (n % 2) = n /\ n * Explicit!WSIZE = 4 * n
    BY DEF Explicit!WSIZE
  <2>2. Explicit!Tag(w, b, 4 * n, 0) = m
    BY ExplicitTag
  <2>3. g = [k EXCEPT !.mem = r]
    BY <2>1, <2>2 DEF Explicit!extend_heap
  <2>4. g = [mem |-> r, brk |-> e]
    BY <2>3
  <2> QED
    BY <2>4
<1>4. k.mem = m /\ k.brk = e
  OBVIOUS
<1>5. /\ MaxHeap \in Nat /\ e \in Nat /\ e <= MaxHeap /\ 5 <= b /\ b % 2 = 1 /\ Spread(F)
      /\ F \subseteq B
  <2>1. MaxHeap \in Nat /\ Spread(F) /\ F \in SUBSET B /\ b \in B \cup {b}
    BY <1>1, ListingFacts
  <2>2. b % 2 = 1 /\ 5 <= b
    BY <1>2, <2>1, TilesEnd
  <2> QED
    BY <1>1, <2>1, <2>2
<1> HIDE DEF w, m, k, r, g, F
<1>6. /\ DOMAIN m = Addr
      /\ \A x \in Addr : x # b /\ x # b + n - 1 => m[x] = w[x]
      /\ Tiles(m, {b}, b, e) /\ block_next(m, b) = e
      /\ block_size(m, b) = 4 * n /\ IsFree(m, b)
  <2>1. 0 \in {0, 1} /\ 0 = 0
    OBVIOUS
  <2>2. Place(w, b, n)
    BY <1>1, <1>2, <1>5 DEF Place
  <2>3. TaggedAs(w, Tag(w, b, 4 * n, 0), b, n, 0)
    BY <2>1, <2>2, TagWords
  <2> QED
    BY <2>1, <2>3 DEF TaggedAs, m
<1>7. \A x \in Nat : x < b => m[x] = w[x]
  BY <1>1, <1>5, <1>6 DEF Addr
<1>8. ASSUME NEW c \in B
      PROVE  /\ c \in Nat /\ 5 <= c /\ c + 4 <= block_next(w, c)
             /\ block_next(w, c) \in Nat /\ block_next(w, c) <= b
             /\ Kept(w, m, c)
  <2>1. /\ c \in Nat /\ 5 <= c /\ c + 4 <= block_next(w, c)
        /\ block_next(w, c) \in Nat /\ block_next(w, c) <= b
    BY <1>2, BlockFacts
  <2>2. \A x \in c .. block_next(w, c) - 1 : x \in Nat /\ x < b
    BY <1>1, <2>1
  <2>3. Kept(w, m, c)
    BY <1>7, <2>2 DEF Kept
  <2> QED
    BY <2>1, <2>3
<1>9. /\ Tiles(m, B, 5, b)
      /\ \A c \in B : /\ block_next(m, c) = block_next(w, c)
                      /\ IsFree(m, c) <=> IsFree(w, c)
  <2>1. \A c \in B : /\ block_next(m, c) = block_next(w, c)
                     /\ m[c] = w[c] /\ m[block_next(w, c) - 1] = w[block_next(w, c) - 1]
                     /\ IsFree(m, c) <=> IsFree(w, c)
    <3> SUFFICES ASSUME NEW c \in B
                 PROVE  /\ block_next(m, c) = block_next(w, c)
                        /\ m[c] = w[c] /\ m[block_next(w, c) - 1] = w[block_next(w, c) - 1]
                        /\ IsFree(m, c) <=> IsFree(w, c)
      OBVIOUS
    <3>1. /\ c \in c .. block_next(w, c) - 1
          /\ block_next(w, c) - 1 \in c .. block_next(w, c) - 1
      BY <1>8
    <3>2. m[c] = w[c] /\ m[block_next(w, c) - 1] = w[block_next(w, c) - 1]
      BY <1>8, <3>1 DEF Kept
    <3> QED
      BY <3>2, SameTag
  <2>2. Tiles(m, B, 5, b)
    BY <1>2, <2>1, TilesStay
  <2> QED
    BY <2>1, <2>2
<1>10. Tiles(m, D, 5, e)
  BY <1>6, <1>9, TilesJoin
<1>11. b \notin B
  <2>1. b \in B => b + 4 <= b
    BY <1>8
  <2> QED
    BY <1>1, <2>1
<1>12. \A c \in B : IsFree(m, c) <=> IsFree(w, c)
  BY <1>9
<1>13. /\ Frees(m, D) \ {b} = F
       /\ Allocated(m, D) = Allocated(w, B)
  BY <1>6, <1>11, <1>12 DEF Frees, Allocated, F
<1>14. m[2] = w[2] /\ m[4] = 1
  <2>1. 2 \in Nat /\ 2 < b /\ 4 \in Nat /\ 4 < b
    BY <1>1, <1>5
  <2> QED
    BY <1>2, <1>7, <2>1
<1>15. ListOf(m, F)
  <2>1. \A c \in F : m[c + 1] = w[c + 1] /\ m[c + 2] = w[c + 2]
    <3> SUFFICES ASSUME NEW c \in F
                 PROVE  m[c + 1] = w[c + 1] /\ m[c + 2] = w[c + 2]
      OBVIOUS
    <3>1. c + 1 \in Nat /\ c + 1 < b /\ c + 2 \in Nat /\ c + 2 < b
      BY <1>1, <1>5, <1>8
    <3> QED
      BY <1>7, <3>1
  <2> QED
    BY <1>2, <1>5, <1>14, <2>1, ListStays
<1>16. Listing(m, D, e, {b})
  BY <1>5, <1>6, <1>10, <1>13, <1>14, <1>15 DEF Listing
<1>17. b \in D
  OBVIOUS
<1> HIDE DEF D, e, b
<1>18. PICK C : Coalesces(m, D, e, b, r, C)
  BY <1>4, <1>6, <1>16, <1>17, ExplicitCoalesceKeeps DEF r
<1>19. /\ Listing(r, C, e, {}) /\ Allocated(r, C) = Allocated(m, D)
       /\ \A c \in Allocated(m, D) : Kept(m, r, c)
       /\ b \in C /\ IsFree(r, b) /\ block_size(r, b) = 4 * n
  BY <1>6, <1>18 DEF Coalesces
<1>20. Laid("explicit", g, C)
  BY <1>3, <1>5, <1>19, ExplicitLaid
<1>21. ASSUME NEW c \in Allocated(w, B) PROVE Kept(w, r, c)
  <2>1. c \in B /\ Kept(m, r, c)
    BY <1>13, <1>19 DEF Allocated
  <2>2. Kept(w, m, c) /\ block_next(m, c) = block_next(w, c)
    BY <1>8, <1>9, <2>1
  <2> QED
    BY <2>1, <2>2 DEF Kept
<1>22. Serves("explicit", h, B, g, C)
  BY <1>3, <1>20, <1>21 DEF Serves, w
<1>23. Allocated(g.mem, C) = Allocated(w, B) /\ b \in C /\ IsFree(g.mem, b)
       /\ block_size(g.mem, b) = 4 * n
  BY <1>3, <1>13, <1>19
<1> QED
  BY <1>22, <1>23 DEF w, g, b

(* b is taken from the list: of the memory u, where it is allocated, links *)
(* of the blocks X are changed.                                            *)
Takes(h, B, b, u, D, X, n, g) ==
  /\ g = [h EXCEPT !.mem = n]
  /\ Laid("explicit", h, B) /\ b \in B /\ b \in D
  /\ Tiles(u, D, 5, h.brk) /\ DOMAIN u = Addr /\ u[4] = 1
  /\ Allocated(u, D) = Allocated(h.mem, B) \cup {b}
  /\ \A c \in Allocated(h.mem, B) : Kept(h.mem, u, c)
  /\ X \in SUBSET D /\ X \cap Allocated(h.mem, B) = {}
  /\ OnlyLinks(u, n, X) /\ ListOf(n, Frees(u, D))

LEMMA Taken ==
  ASSUME NEW h, NEW B, NEW b, NEW u, NEW D, NEW X, NEW n, NEW g,
         Takes(h, B, b, u, D, X, n, g)
  PROVE  /\ Serves("explicit", h, B, g, D)
         /\ Allocated(g.mem, D) = Allocated(h.mem, B) \cup {b}
         /\ block_size(g.mem, b) = block_size(u, b)
<1> DEFINE e == h.brk
           w == h.mem
<1> USE DEF Takes
<1>1. /\ h = [mem |-> w, brk |-> e] /\ e \in Nat /\ Listing(w, B, e, {})
  BY ExplicitLaid
<1>2. Tiles(w, B, 5, e) /\ e <= MaxHeap
  BY <1>1 DEF Listing
<1>3. g.mem = n /\ g.brk = e /\ g = [mem |-> g.mem, brk |-> g.brk]
  <2>1. g = [mem |-> n, brk |-> e]
    BY <1>1
  <2> QED
    BY <2>1
<1>4. Tiles(u, D, 5, e)
  OBVIOUS
<1> HIDE DEF e, w
<1>5. Tiles(n, D, 5, e) /\ Relinks(u, D, u, D, n, X)
  <2>1. D \in SUBSET D
    OBVIOUS
  <2> QED
    BY <1>2, <1>4, <2>1, LinkWords
<1>6. /\ \A c \in D : block_size(n, c) = block_size(u, c) /\ (IsFree(n, c) <=> IsFree(u, c))
      /\ \A c \in D \ X : Kept(u, n, c)
  BY <1>5 DEF Relinks, Kept
<1>7. Frees(n, D) = Frees(u, D) /\ Allocated(n, D) = Allocated(u, D)
  BY <1>6 DEF Frees, Allocated
<1>8. n[4] = 1 /\ DOMAIN n = Addr
  <2>1. 5 <= 5
    OBVIOUS
  <2>2. Spread(X)
    BY <1>2, <1>4, <2>1, BlocksSpread
  <2> QED
    BY <2>2, LinksOn DEF OnlyLinks
<1>9. Listing(n, D, e, {})
  <2>1. Frees(n, D) \ {} = Frees(u, D)
    BY <1>7
  <2> QED
    BY <1>2, <1>5, <1>8, <2>1 DEF Listing
<1>10. Laid("explicit", g, D)
  BY <1>1, <1>3, <1>9, ExplicitLaid
<1>11. ASSUME NEW c \in Allocated(w, B) PROVE Kept(w, n, c)
  <2>1. Kept(w, u, c) /\ c \in B /\ c \in D \ X
    BY DEF w, Allocated
  <2>2. Kept(u, n, c)
    BY <1>6, <2>1
  <2>3. block_next(u, c) = block_next(w, c)
    BY <1>2, <2>1, KeptTag
  <2> QED
    BY <2>1, <2>2, <2>3 DEF Kept
<1>12. Allocated(g.mem, D) = Allocated(w, B) \cup {b}
  BY <1>3, <1>7 DEF w
<1>13. Serves("explicit", h, B, g, D)
  BY <1>3, <1>10, <1>11 DEF Serves, w
<1>14. block_size(g.mem, b) = block_size(u, b)
  BY <1>3, <1>6
<1> QED
  BY <1>12, <1>13, <1>14 DEF w

LEMMA ExplicitPlaceIs ==
  ASSUME NEW m, NEW b, NEW a
  PROVE  LET rest == b + a \div WSIZE
             cut == Tag(Tag(m, b, a, 1), rest, block_size(m, b) - a, 0)
         IN  Explicit!place(m, b, a) =
               IF block_size(m, b) - a >= 16 THEN Relink(cut, b, rest)
               ELSE removeBlock(block_mark(m, b, 1), b)
<1>1. Explicit!DSIZE = 8 /\ 2 * 8 = 16
  BY DEF Explicit!DSIZE
<1> QED
  BY <1>1, ExplicitTags, ExplicitTag, ExplicitMark, ExplicitLists DEF Explicit!place

LEMMA ExplicitCutKeeps ==
  ASSUME NEW h, NEW B, Laid("explicit", h, B), NEW b \in B, IsFree(h.mem, b),
         NEW k \in Nat, k % 2 = 0, 4 <= k, b + k + 4 <= block_next(h.mem, b)
  PROVE  LET u == Tag(Tag(h.mem, b, 4 * k, 1), b + k, 4 * (block_next(h.mem, b) - (b + k)), 0)
             g == [h EXCEPT !.mem = Relink(u, b, b + k)]
         IN  \E C : /\ Serves("explicit", h, B, g, C)
                    /\ Allocated(g.mem, C) = Allocated(h.mem, B) \cup {b}
                    /\ block_size(g.mem, b) = 4 * k
<1> DEFINE m == h.mem
           e == h.brk
           t == block_next(m, b)
           d == b + k
           u == Tag(Tag(m, b, 4 * k, 1), d, 4 * (t - d), 0)
           n == Relink(u, b, d)
           F == Frees(m, B)
           D == (B \ {b}) \cup {b, d}
           X == F \cup {d}
<1>1. e \in Nat /\ Listing(m, B, e, {})
  BY ExplicitLaid
<1>2. Tiles(m, B, 5, e) /\ DOMAIN m = Addr /\ e <= MaxHeap /\ m[4] = 1
  BY <1>1 DEF Listing
<1>3. F \in SUBSET B /\ b \in F /\ \A c \in F : IsFree(m, c)
  BY DEF Frees
<1>4. /\ b \in Nat /\ 5 <= b /\ t \in Nat /\ t <= e /\ d \in Nat /\ b < d /\ d < t
  BY <1>2, BlockFacts
<1>5. d \notin B
  <2>1. d \in B => t <= d
    BY <1>2, <1>4, NextIsNext
  <2> QED
    BY <1>4, <2>1
<1>6. CutsInto(m, u, B, b, k, 5, e)
  BY <1>2, CutKeeps
<1>7. b + k = d
  OBVIOUS
<1> HIDE DEF m, e, t, u, n, F, d
<1>8. /\ DOMAIN u = Addr
      /\ Tiles(u, D, 5, e)
      /\ \A x \in Addr : x < b \/ t <= x => u[x] = m[x]
      /\ \A c \in B \ {b} : Kept(m, u, c)
      /\ ~ IsFree(u, b) /\ block_size(u, b) = 4 * k
      /\ IsFree(u, d)
      /\ u[b + 1] = m[b + 1] /\ u[b + 2] = m[b + 2]
  BY <1>6, <1>7 DEF CutsInto, t
<1>9. \A c \in B \ {b} : IsFree(u, c) <=> IsFree(m, c)
  BY <1>2, <1>8, KeptTag
<1>10. FreeList(u, F)
  <2>1. F \ {} = F
    OBVIOUS
  <2>2. FreeList(u, F \ {})
    BY <1>1, <1>8, ListKept DEF F, t
  <2> QED
    BY <2>1, <2>2
<1>11. X \in SUBSET D /\ Spread(X)
  <2>1. X \in SUBSET D
    BY <1>3
  <2>2. 5 <= 5
    OBVIOUS
  <2> HIDE DEF X, D
  <2> QED
    BY <1>2, <1>8, <2>1, <2>2, BlocksSpread
<1>12. \A c \in F \ {b} : IsFree(u, c)
  BY <1>3, <1>9
<1>13. ListOf(n, (F \ {b}) \cup {d}) /\ OnlyLinks(u, n, X)
  <2>1. d \notin F
    BY <1>3, <1>5
  <2> QED
    BY <1>3, <1>10, <1>11, <1>12, <2>1, Relinked DEF n
<1>14. /\ Frees(u, D) = (F \ {b}) \cup {d}
       /\ Allocated(u, D) = Allocated(m, B) \cup {b}
       /\ X \cap Allocated(m, B) = {}
  <2>1. Frees(u, D) = (F \ {b}) \cup {d}
    BY <1>3, <1>5, <1>8, <1>9 DEF Frees, F
  <2>2. Allocated(u, D) = Allocated(m, B) \cup {b}
    BY <1>5, <1>8, <1>9 DEF Allocated
  <2>3. X \cap Allocated(m, B) = {}
    BY <1>3, <1>5 DEF Allocated
  <2> QED
    BY <2>1, <2>2, <2>3
<1>15. \A c \in Allocated(m, B) : Kept(m, u, c)
  BY <1>3, <1>8 DEF Allocated
<1>16. u[4] = 1
  <2>1. 4 \in Addr /\ 4 < b
    BY <1>2, <1>4, HeapAssumption DEF Addr
  <2> QED
    BY <1>2, <1>8, <2>1
<1>17. LET g == [h EXCEPT !.mem = n]
       IN  /\ Serves("explicit", h, B, g, D)
           /\ Allocated(g.mem, D) = Allocated(m, B) \cup {b}
           /\ block_size(g.mem, b) = block_size(u, b)
  <2>1. b \in D /\ Tiles(u, D, 5, h.brk)
    BY <1>8 DEF e
  <2>2. ListOf(n, Frees(u, D))
    BY <1>13, <1>14
  <2> HIDE DEF D, X
  <2> DEFINE g == [h EXCEPT !.mem = n]
  <2>3. Takes(h, B, b, u, D, X, n, g)
    BY <1>8, <1>11, <1>13, <1>14, <1>15, <1>16, <2>1, <2>2 DEF Takes, m
  <2> HIDE DEF g
  <2>4. /\ Serves("explicit", h, B, g, D)
        /\ Allocated(g.mem, D) = Allocated(h.mem, B) \cup {b}
        /\ block_size(g.mem, b) = block_size(u, b)
    BY <2>3, Taken
  <2> QED
    BY <2>4 DEF m, g
<1> HIDE DEF D
<1> QED
  BY <1>8, <1>17 DEF n, u, m, t, d

LEMMA ExplicitWholeKeeps ==
  ASSUME NEW h, NEW B, Laid("explicit", h, B), NEW b \in B, IsFree(h.mem, b)
  PROVE  LET g == [h EXCEPT !.mem = removeBlock(block_mark(@, b, 1), b)]
         IN  \E C : /\ Serves("explicit", h, B, g, C)
                    /\ Allocated(g.mem, C) = Allocated(h.mem, B) \cup {b}
                    /\ block_size(g.mem, b) = block_size(h.mem, b)
<1> DEFINE m == h.mem
           e == h.brk
           u == block_mark(m, b, 1)
           n == removeBlock(u, b)
           F == Frees(m, B)
<1>1. e \in Nat /\ Listing(m, B, e, {})
  BY ExplicitLaid
<1>2. Tiles(m, B, 5, e) /\ DOMAIN m = Addr /\ e <= MaxHeap /\ m[4] = 1
  BY <1>1 DEF Listing
<1>3. F \in SUBSET B /\ b \in F /\ \A c \in F : IsFree(m, c)
  BY DEF Frees
<1>4. b \in Nat /\ 5 <= b
  BY <1>2, BlockFacts
<1> HIDE DEF m, e, u, n, F
<1>5. /\ DOMAIN u = Addr /\ Tiles(u, B, 5, e)
      /\ \A x \in Addr : x < b \/ block_next(m, b) <= x => u[x] = m[x]
      /\ u[b + 1] = m[b + 1] /\ u[b + 2] = m[b + 2]
      /\ \A c \in B \ {b} : Kept(m, u, c)
      /\ ~ IsFree(u, b) /\ block_size(u, b) = block_size(m, b)
  <2>1. 1 \in {0, 1} /\ ~ (1 = 0)
    OBVIOUS
  <2> QED
    BY <1>2, <2>1, MarkKeeps DEF u
<1>6. \A c \in B \ {b} : IsFree(u, c) <=> IsFree(m, c)
  BY <1>2, <1>5, KeptTag
<1>7. FreeList(u, F)
  <2>1. F \ {} = F
    OBVIOUS
  <2>2. FreeList(u, F \ {})
    BY <1>1, <1>5, ListKept DEF F
  <2> QED
    BY <2>1, <2>2
<1>8. \A c \in F \ {b} : IsFree(u, c)
  BY <1>3, <1>6
<1>9. ListOf(n, F \ {b}) /\ OnlyLinks(u, n, F)
  BY <1>3, <1>7, <1>8, Unlinked DEF n
<1>10. /\ Frees(u, B) = F \ {b}
       /\ Allocated(u, B) = Allocated(m, B) \cup {b}
       /\ F \cap Allocated(m, B) = {}
  <2>1. Frees(u, B) = F \ {b}
    BY <1>5, <1>6 DEF Frees, F
  <2>2. Allocated(u, B) = Allocated(m, B) \cup {b}
    BY <1>5, <1>6 DEF Allocated
  <2>3. F \cap Allocated(m, B) = {}
    BY <1>3 DEF Allocated
  <2> QED
    BY <2>1, <2>2, <2>3
<1>11. \A c \in Allocated(m, B) : Kept(m, u, c)
  BY <1>3, <1>5 DEF Allocated, m
<1>12. u[4] = 1
  <2>1. 4 \in Addr /\ 4 < b
    BY <1>2, <1>4, HeapAssumption DEF Addr
  <2> QED
    BY <1>2, <1>5, <2>1
<1>13. LET g == [h EXCEPT !.mem = n]
       IN  /\ Serves("explicit", h, B, g, B)
           /\ Allocated(g.mem, B) = Allocated(m, B) \cup {b}
           /\ block_size(g.mem, b) = block_size(u, b)
  <2>1. Tiles(u, B, 5, h.brk)
    BY <1>5 DEF e
  <2>2. ListOf(n, Frees(u, B))
    BY <1>9, <1>10
  <2> DEFINE g == [h EXCEPT !.mem = n]
  <2>3. Takes(h, B, b, u, B, F, n, g)
    BY <1>3, <1>5, <1>9, <1>10, <1>11, <1>12, <2>1, <2>2 DEF Takes, m
  <2> HIDE DEF g
  <2>4. /\ Serves("explicit", h, B, g, B)
        /\ Allocated(g.mem, B) = Allocated(h.mem, B) \cup {b}
        /\ block_size(g.mem, b) = block_size(u, b)
    BY <2>3, Taken
  <2> QED
    BY <2>4 DEF m, g
<1> QED
  BY <1>5, <1>13 DEF n, u, m

LEMMA ExplicitPlacedKeeps ==
  ASSUME NEW h, NEW B, Laid("explicit", h, B), NEW b \in B, IsFree(h.mem, b),
         NEW a \in Nat, a % 8 = 0, 16 <= a, a <= block_size(h.mem, b)
  PROVE  LET g == [h EXCEPT !.mem = Explicit!place(@, b, a)]
         IN  \E C : /\ Serves("explicit", h, B, g, C)
                    /\ Allocated(g.mem, C) = Allocated(h.mem, B) \cup {b}
                    /\ a <= block_size(g.mem, b)
<1> DEFINE m == h.mem
           size == block_size(m, b)
           t == block_next(m, b)
           k == a \div 4
           u == Tag(Tag(m, b, a, 1), b + a \div WSIZE, size - a, 0)
           cut == Relink(u, b, b + a \div WSIZE)
           whole == removeBlock(block_mark(m, b, 1), b)
           Fits(g) == \E C : /\ Serves("explicit", h, B, g, C)
                             /\ Allocated(g.mem, C) = Allocated(h.mem, B) \cup {b}
                             /\ a <= block_size(g.mem, b)
<1>1. /\ b \in Nat /\ t \in Nat /\ size = 4 * (t - b) /\ (t - b) % 2 = 0
  <2>1. Tiles(m, B, 5, h.brk)
    BY ExplicitLaid DEF Listing
  <2> QED
    BY <2>1, BlockFacts
<1>2. k \in Nat /\ k % 2 = 0 /\ 4 <= k /\ a = 4 * k /\ a \div WSIZE = k
  BY DEF WSIZE
<1>3. Explicit!place(m, b, a) = IF size - a >= 16 THEN cut ELSE whole
  BY ExplicitPlaceIs
<1>4. [h EXCEPT !.mem = Explicit!place(@, b, a)] = [h EXCEPT !.mem = IF size - a >= 16 THEN cut ELSE whole]
  BY <1>3
<1>5. CASE size - a >= 16
  <2>1. b + k + 4 <= t /\ size - a = 4 * (t - (b + k))
    BY <1>1, <1>2, <1>5
  <2>2. u = Tag(Tag(m, b, 4 * k, 1), b + k, 4 * (t - (b + k)), 0) /\ cut = Relink(u, b, b + k)
    BY <1>2, <2>1
  <2> HIDE DEF k, cut
  <2>3. \E C : /\ Serves("explicit", h, B, [h EXCEPT !.mem = cut], C)
               /\ Allocated([h EXCEPT !.mem = cut].mem, C) = Allocated(h.mem, B) \cup {b}
               /\ block_size([h EXCEPT !.mem = cut].mem, b) = 4 * k
    BY <1>2, <2>1, <2>2, ExplicitCutKeeps
  <2>4. a <= 4 * k
    BY <1>2
  <2>5. Fits([h EXCEPT !.mem = cut])
    BY <2>3, <2>4
  <2>6. [h EXCEPT !.mem = Explicit!place(@, b, a)] = [h EXCEPT !.mem = cut]
    BY <1>3, <1>5
  <2> HIDE DEF Fits
  <2>7. Fits([h EXCEPT !.mem = Explicit!place(@, b, a)])
    BY <2>5, <2>6
  <2> QED
    BY <2>7 DEF Fits
<1>6. CASE ~ (size - a >= 16)
  <2> HIDE DEF cut
  <2>1. \E C : /\ Serves("explicit", h, B, [h EXCEPT !.mem = whole], C)
               /\ Allocated([h EXCEPT !.mem = whole].mem, C) = Allocated(h.mem, B) \cup {b}
               /\ block_size([h EXCEPT !.mem = whole].mem, b) = size
    BY ExplicitWholeKeeps
  <2>2. Fits([h EXCEPT !.mem = whole])
    BY <2>1
  <2>3. [h EXCEPT !.mem = Explicit!place(@, b, a)] = [h EXCEPT !.mem = whole]
    BY <1>3, <1>6
  <2> HIDE DEF Fits
  <2>4. Fits([h EXCEPT !.mem = Explicit!place(@, b, a)])
    BY <2>2, <2>3
  <2> QED
    BY <2>4 DEF Fits
<1> QED
  BY <1>5, <1>6

(* The blocks of the list are free and not empty.                          *)
LEMMA ListIsTrue ==
  ASSUME NEW h, NEW B, Laid("explicit", h, B)
  PROVE  /\ FreeList(h.mem, Frees(h.mem, B))
         /\ \A c \in Frees(h.mem, B) : block_size(h.mem, c) # 0
<1> DEFINE m == h.mem
           e == h.brk
           F == Frees(m, B)
<1>1. Listing(m, B, e, {}) /\ F \ {} = F
  BY ExplicitLaid
<1>2. Tiles(m, B, 5, e)
  BY <1>1 DEF Listing
<1>3. F \in SUBSET B
  BY DEF Frees
<1> HIDE DEF F, m, e
<1>4. FreeList(m, F)
  <2>1. FreeList(m, F \ {})
    BY <1>1, ListingFacts DEF F
  <2> QED
    BY <1>1, <2>1
<1>5. ASSUME NEW c \in F PROVE block_size(m, c) # 0
  <2>1. /\ c \in Nat /\ block_next(m, c) \in Nat /\ c + 4 <= block_next(m, c)
        /\ block_size(m, c) = 4 * (block_next(m, c) - c)
    BY <1>2, <1>3, BlockFacts
  <2> QED
    BY <2>1
<1> QED
  BY <1>4, <1>5 DEF F, m

LEMMA ExplicitFirstFit ==
  ASSUME NEW h, NEW B, Laid("explicit", h, B), NEW size
  PROVE  LET fit == Explicit!find_first_fit(h.mem, size)
         IN  fit # NULL => fit \in B /\ IsFree(h.mem, fit) /\ size <= block_size(h.mem, fit)
<1> DEFINE m == h.mem
           F == Frees(m, B)
           w == Explicit!List!Nodes(m, 1)
           fits == {i \in DOMAIN w : size <= block_size(m, w[i]) /\ IsFree(m, w[i])}
           fit == Explicit!find_first_fit(m, size)
<1>1. FreeList(m, F) /\ \A c \in F : block_size(m, c) # 0
  BY ListIsTrue
<1>2. Leads(m, F, m[2], w) /\ \A i \in DOMAIN w : w[i] \in F \cup {4}
  <2> HIDE DEF m, F
  <2> QED
    BY <1>1, NodesLead, ListIsSound
<1>3. m[4] = 1 /\ F \subseteq B
  BY <1>1 DEF FreeList, Frees
<1>4. fit = IF fits = {} THEN NULL ELSE w[Min(fits)]
  BY DEF Explicit!find_first_fit, Explicit!heap_ptr, Explicit!List!FindFrom,
         Explicit!List!IsFree, IsFree, Explicit!List!block_size, block_size,
         Explicit!List!Min, Min, Explicit!List!NULL, NULL
<1> HIDE DEF w, m, F
<1>5. fits \in SUBSET Nat
  <2>1. DOMAIN w \in SUBSET Nat
    BY <1>2 DEF Leads
  <2> QED
    BY <2>1
<1>6. ASSUME fits # {} PROVE Min(fits) \in fits
  <2> HIDE DEF fits
  <2>1. \E x \in fits : \A y \in fits : x <= y
    BY <1>5, <1>6, LeastNat
  <2> QED
    BY <2>1 DEF Min
<1>7. ASSUME NEW i \in fits PROVE w[i] \in B /\ IsFree(m, w[i]) /\ size <= block_size(m, w[i])
  <2>1. w[i] \in F \cup {4} /\ IsFree(m, w[i]) /\ size <= block_size(m, w[i])
    BY <1>2
  <2>2. w[i] # 4
    BY <1>3, <2>1, OddOne
  <2> QED
    BY <1>3, <2>1, <2>2
<1>8. fit # NULL => fits # {} /\ fit = w[Min(fits)]
  <2> HIDE DEF fits, fit
  <2> QED
    BY <1>4
<1> HIDE DEF fits
<1>9. fit # NULL => fit \in B /\ IsFree(m, fit) /\ size <= block_size(m, fit)
  <2> HIDE DEF fit
  <2> QED
    BY <1>6, <1>7, <1>8
<1> QED
  BY <1>9 DEF m

LEMMA ExplicitMallocKeeps ==
  ASSUME NEW h, NEW B, Laid("explicit", h, B), NEW size \in Nat
  PROVE  LET r == Explicit!malloc(h, size)
         IN  \E C : Granted("explicit", h, B, size, r.heap, r.ptr, C)
<1> DEFINE r == Explicit!malloc(h, size)
           a == getMallocSize(size)
           fit == Explicit!find_first_fit(h.mem, a)
           w == Max({a, CHUNKSIZE}) \div WSIZE
           grown == Explicit!extend_heap(h, w)
           last == h.brk
           Given(g, b) == [heap |-> [g EXCEPT !.mem = Explicit!place(@, b, a)], ptr |-> b + 1]
           Result(q) == \E C : Granted("explicit", h, B, size, q.heap, q.ptr, C)
<1> SUFFICES Result(r)
  OBVIOUS
<1>0. "explicit" \in Kinds
  BY DEF Kinds
<1>1. r = IF size = 0 THEN [heap |-> h, ptr |-> NULL]
          ELSE IF fit # NULL THEN Given(h, fit)
          ELSE IF CanGrow(h, w) THEN Given(grown, last)
          ELSE [heap |-> h, ptr |-> NULL]
  BY ExplicitTags DEF Explicit!malloc
<1>2. Result([heap |-> h, ptr |-> NULL])
  <2>1. Serves("explicit", h, B, h, B)
    BY DEF Serves, Kept
  <2> QED
    BY <2>1 DEF Granted
<1>3. ASSUME NEW g, NEW C, Serves("explicit", h, B, g, C), Allocated(g.mem, C) = Allocated(h.mem, B),
             NEW b \in C, IsFree(g.mem, b), a <= block_size(g.mem, b), size # 0
      PROVE  Result(Given(g, b))
  <2> DEFINE k == [g EXCEPT !.mem = Explicit!place(@, b, a)]
  <2>1. a \in Nat /\ a % 8 = 0 /\ 16 <= a /\ size + 8 <= a
    BY <1>3, MallocSize
  <2> HIDE DEF a
  <2>2. Laid("explicit", g, C)
    BY <1>3 DEF Serves
  <2>3. PICK D : /\ Serves("explicit", g, C, k, D)
                 /\ Allocated(k.mem, D) = Allocated(g.mem, C) \cup {b}
                 /\ a <= block_size(k.mem, b)
    BY <1>3, <2>1, <2>2, ExplicitPlacedKeeps
  <2>4. Given(g, b).heap = k /\ Given(g, b).ptr = b + 1
    OBVIOUS
  <2> HIDE DEF k, Given
  <2>5. Laid("explicit", k, D) /\ b \in Allocated(k.mem, D)
    BY <2>3 DEF Serves
  <2>6. b \in Nat /\ block_size(k.mem, b) \in Nat
    <3>1. /\ b \in Nat /\ block_next(k.mem, b) \in Nat /\ b + 4 <= block_next(k.mem, b)
          /\ block_size(k.mem, b) = 4 * (block_next(k.mem, b) - b)
      BY <1>0, <2>5, AllocatedFacts
    <3> QED
      BY <3>1
  <2>7. b \notin Allocated(h.mem, B)
    BY <1>3 DEF Allocated
  <2>8. Serves("explicit", h, B, k, D)
    <3>1. Allocated(h.mem, B) \cap Allocated(k.mem, D) \subseteq Allocated(g.mem, C)
      BY <1>3
    <3> QED
      BY <1>0, <1>3, <2>3, <3>1, ServesOn
  <2>9. size + 8 <= block_size(k.mem, b)
    BY <2>1, <2>3, <2>6
  <2>10. b + 1 \in Nat /\ b + 1 # NULL /\ (b + 1) - 1 = b
    BY <2>6 DEF NULL
  <2>11. Allocated(k.mem, D) = Allocated(h.mem, B) \cup {b}
    BY <1>3, <2>3
  <2>12. /\ Given(g, b).heap = k /\ Given(g, b).ptr \in Nat /\ Given(g, b).ptr # NULL
         /\ Given(g, b).ptr - 1 = b
    BY <2>4, <2>10
  <2> HIDE DEF NULL
  <2> QED
    BY <1>3, <2>7, <2>8, <2>9, <2>11, <2>12 DEF Granted
<1>4. CASE size = 0
  BY <1>1, <1>2, <1>4
<1>5. CASE size # 0 /\ fit # NULL
  <2>1. fit \in B /\ IsFree(h.mem, fit) /\ a <= block_size(h.mem, fit)
    BY <1>5, ExplicitFirstFit
  <2>2. Serves("explicit", h, B, h, B)
    BY DEF Serves, Kept
  <2>3. r = Given(h, fit)
    BY <1>1, <1>5
  <2>4. size # 0
    BY <1>5
  <2> HIDE DEF r, fit, a, Given, Result
  <2> QED
    BY <1>3, <2>1, <2>2, <2>3, <2>4
<1>6. CASE size # 0 /\ fit = NULL /\ CanGrow(h, w)
  <2>1. /\ a \in Nat /\ w \in Nat /\ w % 2 = 0 /\ 4 <= w /\ a <= 4 * w
    BY <1>6, MallocSize
  <2>2. r = Given(grown, last)
    BY <1>1, <1>6
  <2>3. h.brk + w <= MaxHeap
    BY <1>6 DEF CanGrow
  <2>4. PICK C : /\ Serves("explicit", h, B, grown, C)
                 /\ Allocated(grown.mem, C) = Allocated(h.mem, B)
                 /\ last \in C /\ IsFree(grown.mem, last)
                 /\ block_size(grown.mem, last) = 4 * w
    <3> HIDE DEF w
    <3> QED
      BY <2>1, <2>3, ExplicitExtendKeeps
  <2> HIDE DEF grown, last, a, w
  <2>5. a <= block_size(grown.mem, last)
    BY <2>1, <2>4
  <2>6. size # 0
    BY <1>6
  <2> HIDE DEF r, Given, Result
  <2> QED
    BY <1>3, <2>2, <2>4, <2>5, <2>6
<1>7. CASE size # 0 /\ fit = NULL /\ ~ CanGrow(h, w)
  BY <1>1, <1>2, <1>7
<1> QED
  BY <1>4, <1>5, <1>6, <1>7

LEMMA ExplicitWriteKeeps ==
  ASSUME NEW h, NEW B, Laid("explicit", h, B), NEW b \in Allocated(h.mem, B), NEW w,
         PayloadOnly(h.mem, b, w)
  PROVE  LET g == [h EXCEPT !.mem = w]
         IN  g.mem = w /\ Overwrites("explicit", h, B, b, g)
<1> DEFINE e == h.brk
           m == h.mem
           g == [h EXCEPT !.mem = w]
<1>1. h = [mem |-> m, brk |-> e] /\ e \in Nat /\ Listing(m, B, e, {})
  BY ExplicitLaid
<1>2. Tiles(m, B, 5, e) /\ e <= MaxHeap /\ DOMAIN m = Addr
  BY <1>1 DEF Listing
<1>3. b \in B /\ ~ IsFree(m, b)
  BY DEF Allocated
<1>4. g.mem = w /\ g.brk = e /\ g = [mem |-> g.mem, brk |-> g.brk]
  <2>1. g = [mem |-> w, brk |-> e]
    BY <1>1
  <2> QED
    BY <2>1
<1>5. /\ DOMAIN w = Addr
      /\ \A x \in Addr : ~ (b < x /\ x < block_next(m, b) - 1) => w[x] = m[x]
  BY DEF PayloadOnly
<1> HIDE DEF e, g, m
<1>6. /\ Tiles(w, B, 5, e)
      /\ Allocated(w, B) = Allocated(m, B)
      /\ \A c \in B \ {b} : Kept(m, w, c)
      /\ \A c \in B : /\ block_next(w, c) = block_next(m, c)
                      /\ block_size(w, c) = block_size(m, c)
                      /\ IsFree(w, c) <=> IsFree(m, c)
  BY <1>2, <1>3, <1>5, PayloadWritten
<1>7. /\ b \in Nat /\ block_next(m, b) \in Nat
  BY <1>2, <1>3, BlockFacts
<1>8. \A x \in Addr : x < b \/ block_next(m, b) <= x => w[x] = m[x]
  <2> SUFFICES ASSUME NEW x \in Addr, x < b \/ block_next(m, b) <= x PROVE w[x] = m[x]
    OBVIOUS
  <2>1. x \in Nat /\ ~ (b < x /\ x < block_next(m, b) - 1)
    BY <1>7 DEF Addr
  <2> QED
    BY <1>5, <2>1
<1>9. FreeList(w, Frees(m, B) \ {})
  BY <1>1, <1>3, <1>5, <1>8, ListKept
<1>10. Frees(w, B) = Frees(m, B)
  BY <1>6 DEF Frees
<1>11. Listing(w, B, e, {})
  BY <1>2, <1>5, <1>6, <1>9, <1>10 DEF Listing, FreeList
<1>12. Laid("explicit", g, B)
  BY <1>1, <1>4, <1>11, ExplicitLaid
<1>13. \A c \in Allocated(m, B) \ {b} : Kept(m, w, c)
  BY <1>6 DEF Allocated
<1> QED
  BY <1>4, <1>6, <1>12, <1>13 DEF g, m, Overwrites

(* mm_init needs one word more for the prologue than that of the implicit  *)
(* list.                                                                   *)
LEMMA ExplicitInitKeeps ==
  ASSUME 5 + CHUNKSIZE \div 4 <= MaxHeap
  PROVE  \E B : Laid("explicit", Explicit!mm_init, B) /\ Allocated(Explicit!mm_init.mem, B) = {}
<1> DEFINE m == [a \in Addr |-> CASE a \in {1, 3} -> PACK(2 * DSIZE, 1)
                                  [] a = 2 -> 4
                                  [] a = 4 -> PACK(0, 1)
                                  [] OTHER -> 0]
           empty == [mem |-> m, brk |-> 5]
           n == CHUNKSIZE \div 4
           g == Explicit!mm_init
<1>1. n \in Nat /\ n % 2 = 0 /\ 4 <= n /\ 5 + n <= MaxHeap /\ MaxHeap \in Nat
  BY HeapAssumption
<1>2. m[2] = 4 /\ m[4] = 1 /\ DOMAIN m = Addr
  <2>1. 2 \in Addr /\ 4 \in Addr
    BY <1>1 DEF Addr
  <2>2. PACK(0, 1) = 1
    BY DEF PACK
  <2>3. m[2] = 4 /\ m[4] = PACK(0, 1)
    BY <2>1
  <2> QED
    BY <2>2, <2>3
<1>3. g = Explicit!extend_heap(empty, n)
  <2>1. Explicit!WSIZE = 4 /\ Explicit!EpilogueList = 4
    BY DEF Explicit!WSIZE, Explicit!EpilogueList
  <2> QED
    BY <2>1, ExplicitTags DEF Explicit!mm_init
<1>4. empty.mem = m /\ empty.brk = 5 /\ empty = [mem |-> empty.mem, brk |-> empty.brk]
  OBVIOUS
<1> HIDE DEF m, n, empty, g
<1>5. Tiles(m, {}, 5, 5)
  <2>1. 5 % 2 = 1
    OBVIOUS
  <2> QED
    BY <2>1 DEF Tiles
<1>6. ListOf(m, {})
  <2> DEFINE r == [x \in Addr |-> 0]
  <2>1. r \in [Addr -> Int] /\ 1 + 1 = 2
    OBVIOUS
  <2> HIDE DEF r
  <2>2. Linked(m, {}, r)
    BY <1>2, <2>1 DEF Linked
  <2> QED
    BY <2>2 DEF ListOf
<1>7. Laid("explicit", empty, {}) /\ Allocated(empty.mem, {}) = {}
  <2>1. Frees(m, {}) \ {} = {} /\ Allocated(m, {}) = {}
    BY DEF Frees, Allocated
  <2>2. Listing(m, {}, 5, {})
    <3>1. ListOf(m, Frees(m, {}) \ {})
      BY <1>6, <2>1
    <3>2. 5 <= MaxHeap
      BY <1>1
    <3> QED
      BY <1>2, <1>5, <3>1, <3>2 DEF Listing
  <2> QED
    BY <1>4, <2>1, <2>2, ExplicitLaid
<1>8. PICK C : Serves("explicit", empty, {}, g, C) /\ Allocated(g.mem, C) = Allocated(empty.mem, {})
  BY <1>1, <1>3, <1>4, <1>7, ExplicitExtendKeeps
<1> QED
  BY <1>7, <1>8 DEF Serves, g

-----------------------------------------------------------------------------
(* The calls of both.                                                      *)
mallocOf(kind, h, size) ==
  IF kind = "implicit" THEN malloc(h, size) ELSE Explicit!malloc(h, size)

freeOf(kind, h, p) == IF kind = "implicit" THEN free(h, p) ELSE Explicit!free(h, p)

reallocOf(kind, h, p, size) ==
  IF kind = "implicit" THEN realloc(h, p, size) ELSE Explicit!realloc(h, p, size)

initOf(kind) == IF kind = "implicit" THEN mm_init ELSE Explicit!mm_init

(* The explicit heap begins with a word more.                              *)
Room(kind) == kind = "explicit" => 5 + CHUNKSIZE \div 4 <= MaxHeap

LEMMA OneOfTwo == /\ "implicit" # "explicit"
                  /\ \A kind \in Kinds : kind = "implicit" \/ kind = "explicit"
BY DEF Kinds

LEMMA MallocKeeps ==
  ASSUME NEW kind \in Kinds, NEW h, NEW B, Laid(kind, h, B), NEW size \in Nat
  PROVE  LET r == mallocOf(kind, h, size)
         IN  \E C : Granted(kind, h, B, size, r.heap, r.ptr, C)
<1>1. CASE kind = "implicit"
  BY <1>1, ImplicitMallocKeeps DEF mallocOf
<1>2. CASE kind = "explicit"
  <2>1. mallocOf(kind, h, size) = Explicit!malloc(h, size)
    BY <1>2, OneOfTwo DEF mallocOf
  <2> QED
    BY <1>2, <2>1, ExplicitMallocKeeps
<1> QED
  BY <1>1, <1>2, OneOfTwo

LEMMA FreeKeeps ==
  ASSUME NEW kind \in Kinds, NEW h, NEW B, Laid(kind, h, B), NEW b \in Allocated(h.mem, B)
  PROVE  LET g == freeOf(kind, h, b + 1)
         IN  \E C : /\ Serves(kind, h, B, g, C)
                    /\ Allocated(g.mem, C) = Allocated(h.mem, B) \ {b}
<1>1. CASE kind = "implicit"
  BY <1>1, ImplicitFreeKeeps DEF freeOf
<1>2. CASE kind = "explicit"
  <2>1. freeOf(kind, h, b + 1) = Explicit!free(h, b + 1)
    BY <1>2, OneOfTwo DEF freeOf
  <2> QED
    BY <1>2, <2>1, ExplicitFreeKeeps
<1> QED
  BY <1>1, <1>2, OneOfTwo

LEMMA WriteKeeps ==
  ASSUME NEW kind \in Kinds, NEW h, NEW B, Laid(kind, h, B), NEW b \in Allocated(h.mem, B),
         NEW w, PayloadOnly(h.mem, b, w), NEW g, g = [h EXCEPT !.mem = w]
  PROVE  g.mem = w /\ Overwrites(kind, h, B, b, g)
<1>1. CASE kind = "implicit"
  BY <1>1, ImplicitWriteKeeps
<1>2. CASE kind = "explicit"
  BY <1>2, ExplicitWriteKeeps
<1> QED
  BY <1>1, <1>2, OneOfTwo

LEMMA InitKeeps ==
  ASSUME NEW kind \in Kinds, Room(kind)
  PROVE  \E B : Laid(kind, initOf(kind), B) /\ Allocated(initOf(kind).mem, B) = {}
<1>1. CASE kind = "implicit"
  BY <1>1, ImplicitInitKeeps DEF initOf
<1>2. CASE kind = "explicit"
  <2>1. initOf(kind) = Explicit!mm_init
    BY <1>2, OneOfTwo DEF initOf
  <2> QED
    BY <1>2, <2>1, ExplicitInitKeeps DEF Room
<1> QED
  BY <1>1, <1>2, OneOfTwo

(* A request of that many bytes ends before the footer.                    *)
LEMMA Within ==
  ASSUME NEW kind \in Kinds, NEW h, NEW B, Laid(kind, h, B), NEW b \in Allocated(h.mem, B),
         NEW size \in Nat, size + 8 <= block_size(h.mem, b)
  PROVE  /\ size \div WSIZE \in Nat
         /\ (b + 1) + size \div WSIZE <= block_next(h.mem, b) - 1
<1>1. /\ b \in Nat /\ block_next(h.mem, b) \in Nat
      /\ block_size(h.mem, b) = 4 * (block_next(h.mem, b) - b)
  BY AllocatedFacts
<1> DEFINE t == block_next(h.mem, b)
           s == block_size(h.mem, b)
<1> HIDE DEF t, s
<1>2. b \in Nat /\ t \in Nat /\ s = 4 * (t - b) /\ size + 8 <= s
  BY <1>1 DEF t, s
<1>3. size \div 4 \in Nat /\ 4 * (size \div 4) <= size
  OBVIOUS
<1>4. (b + 1) + size \div 4 <= t - 1
  BY <1>2, <1>3
<1> QED
  BY <1>3, <1>4 DEF t, WSIZE

(* A block that is kept has its size and all its words.                    *)
Unchanged(m, n, b) ==
  /\ block_next(n, b) = block_next(m, b) /\ block_size(n, b) = block_size(m, b)
  /\ \A x \in Nat : b <= x /\ x < block_next(m, b) => n[x] = m[x]

LEMMA KeptFacts ==
  ASSUME NEW kind \in Kinds, NEW h, NEW B, Laid(kind, h, B), NEW m,
         NEW b \in Allocated(h.mem, B), Kept(h.mem, m, b)
  PROVE  Unchanged(h.mem, m, b)
<1> DEFINE n == h.mem
<1>1. Kept(n, m, b)
  OBVIOUS
<1>2. b \in Nat /\ block_next(n, b) \in Nat /\ b + 4 <= block_next(n, b)
  BY AllocatedFacts
<1> HIDE DEF n
<1>3. block_next(m, b) = block_next(n, b) /\ block_size(m, b) = block_size(n, b)
  <2>1. b \in b .. block_next(n, b) - 1
    BY <1>2
  <2>2. m[b] = n[b]
    BY <1>1, <2>1 DEF Kept
  <2> QED
    BY ONLY <2>2, SameTag
<1>4. \A x \in Nat : b <= x /\ x < block_next(n, b) => m[x] = n[x]
  <2>1. \A x \in Nat : b <= x /\ x < block_next(n, b) => x \in b .. block_next(n, b) - 1
    BY <1>2
  <2> QED
    BY <1>1, <2>1 DEF Kept
<1> QED
  BY <1>3, <1>4 DEF n, Unchanged

(* realloc writes only into the block malloc gave it: k words from p to q. *)
Copied(m, w, p, q, k) ==
  /\ DOMAIN w = Addr
  /\ \A x \in Addr : ~ (q <= x /\ x < q + k) => w[x] = m[x]
  /\ \A i \in Nat : i < k /\ p + i \in Addr /\ q + i \in Addr => w[q + i] = m[p + i]

LEMMA CopyWords ==
  ASSUME NEW m, NEW p \in Nat, NEW q \in Nat, NEW bytes \in Nat
  PROVE  Copied(m, Copy(m, p, q, bytes), p, q, bytes \div WSIZE)
<1> DEFINE w == Copy(m, p, q, bytes)
           k == bytes \div WSIZE
<1>1. k \in Nat
  BY DEF WSIZE
<1> HIDE DEF k
<1>2. w = [a \in Addr |-> IF a \in q .. q + k - 1 THEN Word(m, p + (a - q)) ELSE m[a]]
  BY DEF Copy, k
<1> HIDE DEF w
<1>3. DOMAIN w = Addr
  BY <1>2
<1>4. MaxHeap \in Nat
  BY HeapAssumption
<1>5. \A x \in Addr : ~ (q <= x /\ x < q + k) => w[x] = m[x]
  <2>1. \A x \in Addr : x \in q .. q + k - 1 => q <= x /\ x < q + k
    BY <1>1, <1>4 DEF Addr
  <2> QED
    BY <1>2, <2>1
<1>6. ASSUME NEW i \in Nat, i < k, p + i \in Addr, q + i \in Addr
      PROVE  w[q + i] = m[p + i]
  <2> DEFINE a == q + i
             c == p + i
  <2>1. a \in q .. q + k - 1 /\ p + (a - q) = c
    BY <1>1, <1>6
  <2>2. a \in Addr /\ c \in Addr
    BY <1>6
  <2> HIDE DEF a, c
  <2>3. w[a] = Word(m, p + (a - q))
    BY <1>2, <2>1, <2>2
  <2>4. w[a] = m[c]
    BY <2>1, <2>2, <2>3 DEF Word
  <2> QED
    BY <2>4 DEF a, c
<1> QED
  BY <1>3, <1>5, <1>6 DEF w, k, Copied

(* How many bytes realloc copies.                                          *)
LEMMA LeastOfTwo ==
  ASSUME NEW x \in Nat, NEW y \in Nat
  PROVE  Min({x, y}) \in Nat /\ Min({x, y}) = IF x <= y THEN x ELSE y
<1>1. \E z \in {x, y} : \A u \in {x, y} : z <= u
  OBVIOUS
<1>2. Min({x, y}) \in {x, y} /\ \A u \in {x, y} : Min({x, y}) <= u
  BY <1>1 DEF Min
<1> QED
  BY <1>2

(* What realloc of the block b to that size makes of the heap.             *)
Relocated(kind, h, B, b, size, r, C) ==
  /\ Serves(kind, h, B, r.heap, C)
  /\ size = 0 => r.ptr = NULL /\ Allocated(r.heap.mem, C) = Allocated(h.mem, B) \ {b}
  /\ size # 0 /\ r.ptr = NULL => Allocated(r.heap.mem, C) = Allocated(h.mem, B)
  /\ r.ptr # NULL =>
       /\ r.ptr \in Nat /\ r.ptr - 1 \notin Allocated(h.mem, B)
       /\ Allocated(r.heap.mem, C) = (Allocated(h.mem, B) \ {b}) \cup {r.ptr - 1}
       /\ size + 8 <= block_size(r.heap.mem, r.ptr - 1)
       /\ \A i \in Nat : i < size \div WSIZE /\ b + 1 + i < block_next(h.mem, b) - 1
                         => r.heap.mem[r.ptr + i] = h.mem[b + 1 + i]

(* The step from the heap malloc left to the one with the words copied.    *)
CopiedInto(kind, h, B, b, d, size, g) ==
  /\ Laid(kind, g, B) /\ Allocated(g.mem, B) = Allocated(h.mem, B)
  /\ \A c \in Allocated(h.mem, B) \ {d} : Kept(h.mem, g.mem, c)
  /\ block_size(g.mem, d) = block_size(h.mem, d)
  /\ block_next(g.mem, d) = block_next(h.mem, d)
  /\ \A i \in Nat : i < size \div WSIZE /\ b + 1 + i < block_next(h.mem, b) - 1
                    => g.mem[d + 1 + i] = h.mem[b + 1 + i]

LEMMA CopyKeeps ==
  ASSUME NEW kind \in Kinds, NEW h, NEW B, Laid(kind, h, B), NEW b \in Allocated(h.mem, B),
         NEW d \in Allocated(h.mem, B), d # b,
         NEW size \in Nat, size + 8 <= block_size(h.mem, d)
  PROVE  LET bytes == Min({size, block_size(h.mem, b)})
         IN  CopiedInto(kind, h, B, b, d, size,
                        [h EXCEPT !.mem = Copy(@, b + 1, d + 1, bytes)])
<1> DEFINE m == h.mem
           bytes == Min({size, block_size(m, b)})
           w == Copy(m, b + 1, d + 1, bytes)
           g == [h EXCEPT !.mem = w]
           t == block_next(m, b)
           u == block_next(m, d)
           k == size \div WSIZE
           j == bytes \div WSIZE
<1>1. /\ b \in Nat /\ t \in Nat /\ b + 4 <= t /\ t <= MaxHeap /\ block_size(m, b) = 4 * (t - b)
      /\ d \in Nat /\ u \in Nat /\ d + 4 <= u /\ u <= MaxHeap /\ d \in B
      /\ MaxHeap \in Nat
  BY AllocatedFacts, HeapAssumption
<1>2. k \in Nat /\ (d + 1) + k <= u - 1
  BY Within
<1>3. g = [h EXCEPT !.mem = Copy(@, b + 1, d + 1, bytes)]
  BY DEF Laid
<1> HIDE DEF t, u, m
<1>4. bytes \in Nat /\ bytes = IF size <= 4 * (t - b) THEN size ELSE 4 * (t - b)
  BY <1>1, LeastOfTwo
<1>5. j \in Nat /\ j <= k
  <2>1. bytes <= size
    BY <1>1, <1>4
  <2> HIDE DEF bytes
  <2> QED
    BY <1>4, <2>1 DEF WSIZE
<1>6. \A i \in Nat : i < k /\ b + 1 + i < t - 1 => i < j
  <2>1. CASE bytes = size
    BY <2>1
  <2>2. CASE bytes = 4 * (t - b)
    <3>1. t - b \in Nat
      BY <1>1
    <3> DEFINE v == t - b
    <3>2. (4 * v) \div 4 = v
      BY <3>1
    <3>3. j = t - b
      BY <2>2, <3>2 DEF WSIZE
    <3> HIDE DEF j, k
    <3> QED
      BY <1>1, <3>3
  <2> QED
    BY <1>4, <2>1, <2>2
<1>7. /\ DOMAIN w = Addr
      /\ \A x \in Addr : ~ (d + 1 <= x /\ x < (d + 1) + j) => w[x] = m[x]
      /\ \A i \in Nat : i < j /\ (b + 1) + i \in Addr /\ (d + 1) + i \in Addr
                        => w[(d + 1) + i] = m[(b + 1) + i]
  <2> DEFINE p == b + 1
             q == d + 1
  <2>1. p \in Nat /\ q \in Nat
    BY <1>1
  <2> HIDE DEF p, q, bytes
  <2>2. w = Copy(m, p, q, bytes)
    BY DEF p, q
  <2> HIDE DEF w
  <2>3. /\ DOMAIN w = Addr
        /\ \A x \in Addr : ~ (q <= x /\ x < q + j) => w[x] = m[x]
        /\ \A i \in Nat : i < j /\ p + i \in Addr /\ q + i \in Addr
                          => w[q + i] = m[p + i]
    <3>1. bytes \in Nat
      BY <1>4
    <3>2. Copied(m, w, p, q, j)
      BY <2>1, <2>2, <3>1, CopyWords
    <3> HIDE DEF j
    <3> QED
      BY <3>2 DEF Copied
  <2> HIDE DEF j
  <2> QED
    BY <2>3 DEF p, q
<1> HIDE DEF w, j, k, bytes
<1>8. \A x \in Addr : ~ (d < x /\ x < u - 1) => w[x] = m[x]
  <2>1. \A x \in Addr : ~ (d < x /\ x < u - 1) => ~ (d + 1 <= x /\ x < (d + 1) + j)
    BY <1>1, <1>2, <1>5 DEF Addr
  <2> QED
    BY <1>7, <2>1
<1> DEFINE copied == g
<1>9. copied.mem = w /\ Overwrites(kind, h, B, d, copied)
  <2>1. PayloadOnly(h.mem, d, w)
    BY <1>7, <1>8 DEF u, m, PayloadOnly
  <2>2. copied = [h EXCEPT !.mem = w]
    OBVIOUS
  <2> HIDE DEF copied
  <2> QED
    BY <2>1, <2>2, WriteKeeps
<1>10. ASSUME NEW i \in Nat, i < k, b + 1 + i < t - 1
       PROVE  w[d + 1 + i] = m[b + 1 + i]
  <2>1. i < j
    BY <1>6, <1>10
  <2>2. (b + 1) + i \in Addr /\ (d + 1) + i \in Addr
    BY <1>1, <1>2, <1>10 DEF Addr
  <2> QED
    BY <1>7, <2>1, <2>2
<1> QED
  BY <1>1, <1>3, <1>9, <1>10 DEF m, t, k, bytes, CopiedInto, Overwrites

(* What malloc in realloc left, with the words of b copied.                *)
movedBy(kind, h, b, size) ==
  LET r     == mallocOf(kind, h, size)
      bytes == Min({size, block_size(r.heap.mem, b)})
  IN  [r.heap EXCEPT !.mem = Copy(@, b + 1, r.ptr, bytes)]

LEMMA ReallocIs ==
  ASSUME NEW kind \in Kinds, NEW h, NEW b, NEW size, (b + 1) - 1 = b
  PROVE  LET r == mallocOf(kind, h, size)
         IN  reallocOf(kind, h, b + 1, size) =
               IF size = 0 THEN [heap |-> freeOf(kind, h, b + 1), ptr |-> NULL]
               ELSE IF r.ptr = NULL THEN r
               ELSE [heap |-> freeOf(kind, movedBy(kind, h, b, size), b + 1), ptr |-> r.ptr]
<1>1. CASE kind = "implicit"
  BY <1>1, Zenon DEF reallocOf, mallocOf, freeOf, movedBy, realloc
<1>2. CASE kind = "explicit"
  BY <1>2, OneOfTwo, ExplicitTags, ExplicitCopy
     DEF reallocOf, mallocOf, freeOf, movedBy, Explicit!realloc
<1> QED
  BY <1>1, <1>2, OneOfTwo

LEMMA ReallocKeeps ==
  ASSUME NEW kind \in Kinds, NEW h, NEW B, Laid(kind, h, B), NEW b \in Allocated(h.mem, B), NEW size \in Nat
  PROVE  \E C : Relocated(kind, h, B, b, size, reallocOf(kind, h, b + 1, size), C)
<1> DEFINE r == mallocOf(kind, h, size)
           M == r.heap
           q == r.ptr
           d == q - 1
           bytes == Min({size, block_size(M.mem, b)})
           moved == [M EXCEPT !.mem = Copy(@, b + 1, q, bytes)]
           A == Allocated(h.mem, B)
           res == reallocOf(kind, h, b + 1, size)
<1>1. res = IF size = 0 THEN [heap |-> freeOf(kind, h, b + 1), ptr |-> NULL]
            ELSE IF q = NULL THEN r
            ELSE [heap |-> freeOf(kind, moved, b + 1), ptr |-> q]
  <2>1. (b + 1) - 1 = b
    BY AllocatedFacts
  <2>2. moved = movedBy(kind, h, b, size)
    BY DEF movedBy
  <2> HIDE DEF moved
  <2> QED
    BY <2>1, <2>2, ReallocIs
<1>2. PICK C : /\ Serves(kind, h, B, M, C)
               /\ size = 0 => q = NULL
               /\ q = NULL => Allocated(M.mem, C) = A
               /\ q # NULL => /\ q \in Nat /\ d \notin A
                              /\ Allocated(M.mem, C) = A \cup {d}
                              /\ size + 8 <= block_size(M.mem, d)
  <2>1. PICK C : Granted(kind, h, B, size, M, q, C)
    BY MallocKeeps
  <2> QED
    BY <2>1 DEF Granted
<1> HIDE DEF r, M, q, d, bytes, moved, A, res
<1>3. CASE size = 0
  <2>1. PICK D : /\ Serves(kind, h, B, freeOf(kind, h, b + 1), D)
                 /\ Allocated(freeOf(kind, h, b + 1).mem, D) = A \ {b}
    BY FreeKeeps DEF A
  <2>2. res.heap = freeOf(kind, h, b + 1) /\ res.ptr = NULL
    BY <1>1, <1>3
  <2>3. Relocated(kind, h, B, b, size, res, D)
    BY <1>3, <2>1, <2>2 DEF Relocated, A
  <2> QED
    BY <2>3 DEF res
<1>4. CASE size # 0 /\ q = NULL
  <2>1. res = r /\ res.heap = M /\ res.ptr = NULL
    BY <1>1, <1>4 DEF M, q
  <2>2. Relocated(kind, h, B, b, size, res, C)
    BY <1>2, <1>4, <2>1 DEF Relocated, A
  <2> QED
    BY <2>2 DEF res
<1>5. CASE size # 0 /\ q # NULL
  <2>1. Laid(kind, M, C) /\ b \in Allocated(M.mem, C) /\ d \in Allocated(M.mem, C) /\ d # b
    BY <1>2, <1>5 DEF Serves, A
  <2>2. d \in Nat /\ d + 1 = q
    <3>1. d \in Nat /\ q \in Nat
      BY <1>2, <1>5, <2>1, AllocatedFacts
    <3> QED
      BY <3>1 DEF d
  <2>3. moved = [M EXCEPT !.mem = Copy(@, b + 1, d + 1, bytes)]
    BY <2>2, Zenon DEF moved
  <2>4. /\ Laid(kind, moved, C) /\ Allocated(moved.mem, C) = Allocated(M.mem, C)
        /\ \A c \in Allocated(M.mem, C) \ {d} : Kept(M.mem, moved.mem, c)
        /\ block_size(moved.mem, d) = block_size(M.mem, d)
        /\ block_next(moved.mem, d) = block_next(M.mem, d)
        /\ \A i \in Nat : i < size \div WSIZE /\ b + 1 + i < block_next(M.mem, b) - 1
                          => moved.mem[d + 1 + i] = M.mem[b + 1 + i]
    <3>1. CopiedInto(kind, M, C, b, d, size, moved)
      BY <1>2, <1>5, <2>1, <2>3, CopyKeeps DEF bytes
    <3> QED
      BY <3>1 DEF CopiedInto
  <2>5. b \in Allocated(moved.mem, C) /\ d \in Allocated(moved.mem, C)
    BY <2>1, <2>4
  <2> DEFINE g == freeOf(kind, moved, b + 1)
  <2>6. PICK D : /\ Serves(kind, moved, C, g, D)
                 /\ Allocated(g.mem, D) = Allocated(moved.mem, C) \ {b}
    BY <2>4, <2>5, FreeKeeps
  <2> HIDE DEF g
  <2>7. Allocated(g.mem, D) = (A \ {b}) \cup {d}
    BY <1>2, <1>5, <2>1, <2>4, <2>6
  <2>8. Kept(moved.mem, g.mem, d)
    BY <2>5, <2>6, <2>7 DEF Serves
  <2>9. /\ block_size(g.mem, d) = block_size(M.mem, d)
        /\ \A x \in Nat : d <= x /\ x < block_next(M.mem, d) => g.mem[x] = moved.mem[x]
    BY <2>4, <2>5, <2>8, KeptFacts DEF Unchanged
  <2>10. Kept(h.mem, M.mem, b)
    BY <1>2, <2>1 DEF Serves, A
  <2>11. /\ block_next(M.mem, b) = block_next(h.mem, b)
         /\ \A x \in Nat : b <= x /\ x < block_next(h.mem, b) => M.mem[x] = h.mem[x]
    <3>1. Unchanged(h.mem, M.mem, b)
      BY <2>10, KeptFacts
    <3> QED
      BY <3>1 DEF Unchanged
  <2>12. Serves(kind, h, B, g, D)
    <3>1. Laid(kind, g, D)
      BY <2>6 DEF Serves
    <3>2. ASSUME NEW c \in A, c # b PROVE Kept(h.mem, g.mem, c)
      <4>1. /\ c \in Allocated(M.mem, C) /\ c # d
            /\ c \in Allocated(moved.mem, C) /\ c \in Allocated(g.mem, D)
        BY <1>2, <1>5, <2>1, <2>4, <2>7, <3>2
      <4>2. Kept(h.mem, M.mem, c) /\ Kept(M.mem, moved.mem, c) /\ Kept(moved.mem, g.mem, c)
        BY <1>2, <2>4, <2>6, <3>2, <4>1 DEF Serves, A
      <4>3. block_next(M.mem, c) = block_next(h.mem, c)
        BY <3>2, <4>2, KeptFacts DEF A, Unchanged
      <4>4. block_next(moved.mem, c) = block_next(M.mem, c)
        BY <2>1, <4>1, <4>2, KeptFacts DEF Unchanged
      <4> QED
        BY <4>2, <4>3, <4>4 DEF Kept
    <3>3. \A c \in A \cap Allocated(g.mem, D) : c # b
      BY <2>1, <2>7
    <3> QED
      BY <3>1, <3>2, <3>3 DEF Serves, A
  <2>13. ASSUME NEW i \in Nat, i < size \div WSIZE, b + 1 + i < block_next(h.mem, b) - 1
         PROVE  g.mem[q + i] = h.mem[b + 1 + i]
    <3>1. b \in Nat /\ block_next(h.mem, b) \in Nat
      BY AllocatedFacts
    <3>2. size \div WSIZE \in Nat /\ d + 1 + size \div WSIZE <= block_next(M.mem, d) - 1
      BY <1>2, <1>5, <2>1, Within
    <3>3. block_next(M.mem, d) \in Nat
      BY <2>1, AllocatedFacts
    <3>4. moved.mem[d + 1 + i] = M.mem[b + 1 + i]
      BY <2>4, <2>11, <2>13
    <3>5. b + 1 + i \in Nat /\ b <= b + 1 + i /\ b + 1 + i < block_next(h.mem, b)
      BY <2>13, <3>1
    <3>6. M.mem[b + 1 + i] = h.mem[b + 1 + i]
      BY <2>11, <3>5
    <3>7. d + 1 + i \in Nat /\ d <= d + 1 + i /\ d + 1 + i < block_next(M.mem, d)
      BY <2>2, <2>13, <3>2, <3>3
    <3>8. g.mem[d + 1 + i] = moved.mem[d + 1 + i]
      BY <2>9, <3>7
    <3>9. d + 1 + i = q + i
      BY <2>2
    <3> QED
      BY <3>4, <3>6, <3>8, <3>9
  <2>14. res.heap = g /\ res.ptr = q
    BY <1>1, <1>5 DEF g
  <2>15. Relocated(kind, h, B, b, size, res, D)
    <3>1. q - 1 = d
      BY DEF d
    <3>2. /\ q \in Nat /\ d \notin A /\ size + 8 <= block_size(g.mem, d) /\ size # 0 /\ q # NULL
      BY <1>2, <1>5, <2>9
    <3> QED
      BY <2>7, <2>12, <2>13, <2>14, <3>1, <3>2 DEF Relocated, A
  <2> QED
    BY <2>15 DEF res
<1> QED
  BY <1>3, <1>4, <1>5

-----------------------------------------------------------------------------
(* The client.                                                             *)
Things == [ptr : Nat, size : Nat]

(* The block that a handle with x holds, if any.                           *)
BlockOf(x) == IF x.ptr = NULL THEN {} ELSE {x.ptr - 1}

(* Every handle has a block of its own, large enough, and every allocated  *)
(* block a handle.                                                         *)
Owned(m, B, hd) ==
  /\ hd \in [Handles -> Things]
  /\ \A k \in Handles : hd[k].ptr # NULL =>
        /\ hd[k].ptr - 1 \in Allocated(m, B)
        /\ hd[k].size + 8 <= block_size(m, hd[k].ptr - 1)
  /\ \A j, k \in Handles : hd[j].ptr # NULL /\ hd[j].ptr = hd[k].ptr => j = k
  /\ \A b \in Allocated(m, B) : \E k \in Handles : hd[k].ptr = b + 1

LEMMA OwnedAfter ==
  ASSUME NEW kind \in Kinds, NEW h, NEW B, NEW hd, NEW g, NEW C, NEW k \in Handles, NEW x \in Things,
         Laid(kind, h, B), Owned(h.mem, B, hd), Serves(kind, h, B, g, C),
         Allocated(g.mem, C) = (Allocated(h.mem, B) \ BlockOf(hd[k])) \cup BlockOf(x),
         BlockOf(x) \cap (Allocated(h.mem, B) \ BlockOf(hd[k])) = {},
         x.ptr # NULL => x.size + 8 <= block_size(g.mem, x.ptr - 1)
  PROVE  Owned(g.mem, C, [hd EXCEPT ![k] = x])
<1> DEFINE A == Allocated(h.mem, B)
           hn == [hd EXCEPT ![k] = x]
<1>1. hd \in [Handles -> Things] /\ hn \in [Handles -> Things]
      /\ hn[k] = x /\ \A j \in Handles \ {k} : hn[j] = hd[j]
  BY DEF Owned
<1>2. \A j \in Handles : hn[j].ptr \in Nat /\ hd[j].ptr \in Nat
  BY <1>1 DEF Things
<1> HIDE DEF hn, A
<1>3. ASSUME NEW j \in Handles, j # k, hd[j].ptr # NULL
      PROVE  /\ hd[j].ptr - 1 \in A \ BlockOf(hd[k])
             /\ hd[j].size + 8 <= block_size(g.mem, hd[j].ptr - 1)
  <2>1. hd[j].ptr - 1 \in A /\ hd[j].size + 8 <= block_size(h.mem, hd[j].ptr - 1)
    BY <1>3 DEF Owned, A
  <2>2. hd[j].ptr - 1 \notin BlockOf(hd[k])
    <3>1. hd[k].ptr # NULL => hd[j].ptr # hd[k].ptr
      BY <1>3 DEF Owned
    <3> QED
      BY <1>2, <3>1 DEF BlockOf
  <2>3. hd[j].ptr - 1 \in Allocated(g.mem, C)
    BY <2>1, <2>2 DEF A
  <2>4. Kept(h.mem, g.mem, hd[j].ptr - 1)
    BY <2>1, <2>3 DEF Serves, A
  <2>5. Unchanged(h.mem, g.mem, hd[j].ptr - 1)
    <3> DEFINE b == hd[j].ptr - 1
    <3>1. b \in Allocated(h.mem, B) /\ Kept(h.mem, g.mem, b)
      BY <2>1, <2>4 DEF A
    <3> HIDE DEF b
    <3>2. Unchanged(h.mem, g.mem, b)
      BY <3>1, KeptFacts
    <3> QED
      BY <3>2 DEF b
  <2> QED
    BY <2>1, <2>2, <2>5 DEF Unchanged
<1>4. ASSUME NEW j \in Handles, hn[j].ptr # NULL
      PROVE  /\ hn[j].ptr - 1 \in Allocated(g.mem, C)
             /\ hn[j].size + 8 <= block_size(g.mem, hn[j].ptr - 1)
  <2>1. CASE j = k
    <3>1. x.ptr # NULL /\ hn[j] = x
      BY <1>1, <1>4, <2>1
    <3> QED
      BY <3>1 DEF BlockOf
  <2>2. CASE j # k
    <3>1. hn[j] = hd[j]
      BY <1>1, <2>2
    <3> QED
      BY <1>3, <1>4, <2>2, <3>1 DEF A
  <2> QED
    BY <2>1, <2>2
<1>5. ASSUME NEW j \in Handles, j # k, hn[j].ptr # NULL PROVE hn[j].ptr # x.ptr
  <2>1. hn[j] = hd[j]
    BY <1>1, <1>5
  <2>2. hd[j].ptr - 1 \in A \ BlockOf(hd[k])
    BY <1>3, <1>5, <2>1
  <2> QED
    BY <1>5, <2>1, <2>2 DEF BlockOf, A
<1>6. ASSUME NEW i \in Handles, NEW j \in Handles, hn[i].ptr # NULL, hn[i].ptr = hn[j].ptr
      PROVE  i = j
  <2>1. CASE i = k \/ j = k
    BY <1>1, <1>5, <1>6, <2>1
  <2>2. CASE i # k /\ j # k
    <3>1. hn[i] = hd[i] /\ hn[j] = hd[j]
      BY <1>1, <2>2
    <3> QED
      BY <1>6, <3>1 DEF Owned
  <2> QED
    BY <2>1, <2>2
<1>7. ASSUME NEW b \in Allocated(g.mem, C) PROVE \E j \in Handles : hn[j].ptr = b + 1
  <2>1. CASE b \in BlockOf(x)
    <3>1. x.ptr \in Nat /\ x.ptr - 1 = b
      BY <2>1 DEF BlockOf, Things
    <3>2. x.ptr = b + 1
      BY <3>1
    <3> QED
      BY <1>1, <3>2
  <2>2. CASE b \in A \ BlockOf(hd[k])
    <3>1. PICK j \in Handles : hd[j].ptr = b + 1
      BY <2>2 DEF Owned, A
    <3>2. b \in Nat
      BY <2>2, AllocatedFacts DEF A
    <3>3. hd[j].ptr # NULL /\ hd[j].ptr - 1 = b
      BY <3>1, <3>2 DEF NULL
    <3>4. j # k
      BY <2>2, <3>3 DEF BlockOf
    <3> QED
      BY <1>1, <3>1, <3>4
  <2> QED
    BY <2>1, <2>2 DEF A
<1> QED
  BY <1>1, <1>4, <1>6, <1>7 DEF Owned, hn

(* A call on handle k takes heap h, held hd, to heap g, held hn.           *)
Continues(kind, h, B, hd, g, C, hn, k) ==
  /\ Laid(kind, g, C) /\ Owned(g.mem, C, hn)
  /\ \A j \in Handles \ {k} :
        /\ hn[j] = hd[j]
        /\ hd[j].ptr # NULL => Kept(h.mem, g.mem, hd[j].ptr - 1)

LEMMA ContinuesAfter ==
  ASSUME NEW kind \in Kinds, NEW h, NEW B, NEW hd, NEW g, NEW C, NEW k \in Handles, NEW x \in Things,
         Laid(kind, h, B), Owned(h.mem, B, hd), Serves(kind, h, B, g, C),
         Allocated(g.mem, C) = (Allocated(h.mem, B) \ BlockOf(hd[k])) \cup BlockOf(x),
         BlockOf(x) \cap (Allocated(h.mem, B) \ BlockOf(hd[k])) = {},
         x.ptr # NULL => x.size + 8 <= block_size(g.mem, x.ptr - 1)
  PROVE  Continues(kind, h, B, hd, g, C, [hd EXCEPT ![k] = x], k)
<1> DEFINE hn == [hd EXCEPT ![k] = x]
<1>1. Owned(g.mem, C, hn)
  BY OwnedAfter
<1>2. hd \in [Handles -> Things] /\ \A j \in Handles \ {k} : hn[j] = hd[j]
  BY DEF Owned
<1> HIDE DEF hn
<1>3. ASSUME NEW j \in Handles \ {k}, hd[j].ptr # NULL
      PROVE  Kept(h.mem, g.mem, hd[j].ptr - 1)
  <2>1. hd[j].ptr - 1 \in Allocated(h.mem, B)
    BY <1>3 DEF Owned
  <2>2. hn[j].ptr - 1 \in Allocated(g.mem, C)
    BY <1>1, <1>2, <1>3 DEF Owned
  <2> QED
    BY <1>2, <2>1, <2>2 DEF Serves
<1>4. Laid(kind, g, C)
  BY DEF Serves
<1> QED
  BY <1>1, <1>2, <1>3, <1>4 DEF Continues, hn

(* The client, or calloc, writes n words from p on into the block b.       *)
Filled(kind, h, B, b, p, n, word, g) ==
  /\ Laid(kind, g, B) /\ Allocated(g.mem, B) = Allocated(h.mem, B)
  /\ \A c \in Allocated(h.mem, B) \ {b} : Kept(h.mem, g.mem, c)
  /\ \A c \in B : /\ block_next(g.mem, c) = block_next(h.mem, c)
                  /\ block_size(g.mem, c) = block_size(h.mem, c)
  /\ \A x \in Nat : p <= x /\ x < p + n => g.mem[x] = word
  /\ \A x \in Nat : x < p /\ x < MaxHeap => g.mem[x] = h.mem[x]

LEMMA FillKeeps ==
  ASSUME NEW kind \in Kinds, NEW h, NEW B, Laid(kind, h, B), NEW b \in Allocated(h.mem, B), NEW p \in Nat,
         NEW bytes \in Nat, NEW word, b < p,
         p + bytes \div WSIZE <= block_next(h.mem, b) - 1
  PROVE  Filled(kind, h, B, b, p, bytes \div WSIZE, word,
                [h EXCEPT !.mem = Fill(@, p, bytes, word)])
<1> DEFINE n == bytes \div WSIZE
           w == Fill(h.mem, p, bytes, word)
           written == [h EXCEPT !.mem = w]
           t == block_next(h.mem, b)
<1>1. n \in Nat /\ MaxHeap \in Nat
  BY HeapAssumption DEF WSIZE
<1>2. b \in Nat /\ t \in Nat /\ t <= MaxHeap
  BY AllocatedFacts
<1>3. written = [h EXCEPT !.mem = Fill(@, p, bytes, word)]
  BY DEF Laid
<1> HIDE DEF n
<1>4. w = [a \in Addr |-> IF a \in p .. p + n - 1 THEN word ELSE h.mem[a]]
  BY DEF Fill, n
<1>5. DOMAIN w = Addr
  BY <1>4
<1>6. p + n <= t - 1
  BY DEF n
<1> HIDE DEF w, t
<1>7. ASSUME NEW x \in Addr PROVE w[x] = IF p <= x /\ x < p + n THEN word ELSE h.mem[x]
  <2>1. x \in p .. p + n - 1 <=> p <= x /\ x < p + n
    BY <1>1 DEF Addr
  <2> QED
    BY <1>4, <2>1
<1>8. \A x \in Addr : ~ (b < x /\ x < t - 1) => w[x] = h.mem[x]
  <2>1. \A x \in Addr : ~ (b < x /\ x < t - 1) => ~ (p <= x /\ x < p + n)
    BY <1>1, <1>2, <1>6 DEF Addr
  <2> QED
    BY <1>7, <2>1
<1>9. written.mem = w /\ Overwrites(kind, h, B, b, written)
  <2>1. PayloadOnly(h.mem, b, w)
    BY <1>5, <1>8 DEF t, PayloadOnly
  <2>2. written = [h EXCEPT !.mem = w]
    OBVIOUS
  <2>3. kind \in Kinds /\ Laid(kind, h, B) /\ b \in Allocated(h.mem, B)
    OBVIOUS
  <2> HIDE DEF written
  <2> QED
    BY ONLY <2>1, <2>2, <2>3, WriteKeeps
<1>10. \A x \in Nat : p <= x /\ x < p + n => w[x] = word
  <2>1. \A x \in Nat : p <= x /\ x < p + n => x \in Addr
    BY <1>1, <1>2, <1>6 DEF Addr
  <2> QED
    BY <1>7, <2>1
<1>11. \A x \in Nat : x < p /\ x < MaxHeap => w[x] = h.mem[x]
  <2>1. \A x \in Nat : x < p /\ x < MaxHeap => x \in Addr /\ ~ (p <= x /\ x < p + n)
    BY <1>1 DEF Addr
  <2> QED
    BY <1>7, <2>1
<1> QED
  BY <1>3, <1>9, <1>10, <1>11 DEF n, Filled, Overwrites

LEMMA FillContinues ==
  ASSUME NEW kind \in Kinds, NEW h, NEW B, NEW hd, NEW g, NEW C, NEW hn, NEW k \in Handles,
         Laid(kind, h, B), Owned(h.mem, B, hd), Continues(kind, h, B, hd, g, C, hn, k),
         hn[k].ptr # NULL, NEW p, NEW n, NEW word, NEW f,
         Filled(kind, g, C, hn[k].ptr - 1, p, n, word, f)
  PROVE  Continues(kind, h, B, hd, f, C, hn, k)
<1> DEFINE b == hn[k].ptr - 1
<1>1. /\ Laid(kind, g, C) /\ Owned(g.mem, C, hn) /\ hn \in [Handles -> Things]
      /\ \A j \in Handles \ {k} :
            /\ hn[j] = hd[j]
            /\ hd[j].ptr # NULL => Kept(h.mem, g.mem, hd[j].ptr - 1)
  BY DEF Continues, Owned
<1>2. /\ Laid(kind, f, C) /\ Allocated(f.mem, C) = Allocated(g.mem, C)
      /\ \A c \in Allocated(g.mem, C) \ {b} : Kept(g.mem, f.mem, c)
      /\ \A c \in C : block_size(f.mem, c) = block_size(g.mem, c)
  BY DEF Filled
<1> HIDE DEF b
<1>3. \A c \in Allocated(g.mem, C) : c \in C
  BY DEF Allocated
<1>4. Owned(f.mem, C, hn)
  <2>1. \A j \in Handles : hn[j].ptr # NULL =>
           /\ hn[j].ptr - 1 \in Allocated(f.mem, C)
           /\ hn[j].size + 8 <= block_size(f.mem, hn[j].ptr - 1)
    BY <1>1, <1>2, <1>3 DEF Owned
  <2> QED
    BY <1>1, <1>2, <2>1 DEF Owned
<1>5. ASSUME NEW j \in Handles \ {k}, hd[j].ptr # NULL
      PROVE  Kept(h.mem, f.mem, hd[j].ptr - 1)
  <2> DEFINE c == hd[j].ptr - 1
  <2>1. c \in Allocated(h.mem, B)
    BY <1>5 DEF Owned
  <2>2. hn[j] = hd[j] /\ Kept(h.mem, g.mem, c)
    BY <1>1, <1>5
  <2>3. c \in Allocated(g.mem, C)
    BY <1>1, <1>5, <2>2 DEF Owned
  <2>4. hn[j].ptr \in Nat /\ hn[k].ptr \in Nat
    BY <1>1 DEF Things
  <2>5. hn[j].ptr # hn[k].ptr
    BY <1>1, <1>5, <2>2 DEF Owned
  <2>6. c # b
    BY <2>2, <2>4, <2>5 DEF b
  <2> HIDE DEF c
  <2>7. Kept(g.mem, f.mem, c)
    BY <1>2, <2>3, <2>6
  <2>8. Unchanged(h.mem, g.mem, c)
    BY <2>1, <2>2, KeptFacts
  <2>9. Kept(h.mem, f.mem, c)
    BY <2>2, <2>7, <2>8 DEF Kept, Unchanged
  <2> QED
    BY <2>9 DEF c
<1> QED
  BY <1>1, <1>2, <1>4, <1>5 DEF Continues

(* What the client holds of r.                                             *)
Given(r, size) == IF r.ptr = NULL THEN [ptr |-> NULL, size |-> 0]
                                  ELSE [ptr |-> r.ptr, size |-> size]

(* The n words from p on are set to word.                                  *)
Written(m, p, n, word) == \A y \in Nat : p <= y /\ y < p + n => m[y] = word

(* malloc or calloc, and the words that are written into the payload.      *)
LEMMA MallocStep ==
  ASSUME NEW kind \in Kinds, NEW h, NEW B, NEW hd, Laid(kind, h, B), Owned(h.mem, B, hd),
         NEW k \in Handles, hd[k].ptr = NULL, NEW size \in Nat, NEW word
  PROVE  LET r == mallocOf(kind, h, size)
             x == Given(r, size)
             g == IF r.ptr = NULL THEN r.heap
                  ELSE [r.heap EXCEPT !.mem = Fill(@, r.ptr, size, word)]
         IN  \E C : /\ Continues(kind, h, B, hd, g, C, [hd EXCEPT ![k] = x], k)
                    /\ x.ptr # NULL => Written(g.mem, x.ptr, size \div WSIZE, word)
<1> DEFINE r == mallocOf(kind, h, size)
           M == r.heap
           q == r.ptr
           A == Allocated(h.mem, B)
           x == Given(r, size)
           n == size \div WSIZE
           filled == [M EXCEPT !.mem = Fill(@, q, size, word)]
           g == IF q = NULL THEN M ELSE filled
           hn == [hd EXCEPT ![k] = x]
<1>1. PICK C : /\ Serves(kind, h, B, M, C)
               /\ q = NULL => Allocated(M.mem, C) = A
               /\ q # NULL => /\ q \in Nat /\ q - 1 \notin A
                              /\ Allocated(M.mem, C) = A \cup {q - 1}
                              /\ size + 8 <= block_size(M.mem, q - 1)
  <2>1. PICK C : Granted(kind, h, B, size, M, q, C)
    BY MallocKeeps
  <2> QED
    BY <2>1 DEF Granted
<1>2. /\ x \in Things /\ x.ptr = q
      /\ BlockOf(x) = IF q = NULL THEN {} ELSE {q - 1}
      /\ q # NULL => x.size = size
  <2>1. x = IF q = NULL THEN [ptr |-> NULL, size |-> 0] ELSE [ptr |-> q, size |-> size]
    BY DEF Given
  <2> HIDE DEF q, x, M
  <2>2. NULL \in Nat
    BY DEF NULL
  <2>3. x \in Things /\ x.ptr = q /\ (q # NULL => x.size = size)
    BY <1>1, <2>1, <2>2 DEF Things
  <2> QED
    BY <2>3 DEF BlockOf
<1>3. BlockOf(hd[k]) = {}
  BY DEF BlockOf
<1> HIDE DEF r, M, q, A, x, n
<1>4. Continues(kind, h, B, hd, M, C, hn, k)
  <2>1. /\ Allocated(M.mem, C) = (Allocated(h.mem, B) \ BlockOf(hd[k])) \cup BlockOf(x)
        /\ BlockOf(x) \cap (Allocated(h.mem, B) \ BlockOf(hd[k])) = {}
    BY <1>1, <1>2, <1>3 DEF A
  <2>2. x.ptr # NULL => x.size + 8 <= block_size(M.mem, x.ptr - 1)
    BY <1>1, <1>2
  <2> QED
    BY <1>1, <1>2, <2>1, <2>2, ContinuesAfter
<1>5. hn[k] = x
  BY DEF Owned
<1>6. CASE q = NULL
  <2>1. g = M /\ x.ptr = NULL
    BY <1>2, <1>6
  <2> QED
    BY <1>4, <2>1 DEF M, q, r, x, n
<1>7. CASE q # NULL
  <2>1. Laid(kind, M, C) /\ q - 1 \in Allocated(M.mem, C) /\ q \in Nat
        /\ size + 8 <= block_size(M.mem, q - 1)
    BY <1>1, <1>7 DEF Serves
  <2> DEFINE b == q - 1
  <2>2. b \in Allocated(M.mem, C) /\ b + 1 = q /\ b < q /\ size + 8 <= block_size(M.mem, b)
    BY <2>1
  <2> HIDE DEF b
  <2>3. n \in Nat /\ (b + 1) + n <= block_next(M.mem, b) - 1
    BY <2>1, <2>2, Within DEF n
  <2>4. q + size \div WSIZE <= block_next(M.mem, b) - 1
    BY <2>2, <2>3 DEF n
  <2>5. Filled(kind, M, C, b, q, n, word, filled)
    BY <2>1, <2>2, <2>4, FillKeeps DEF n
  <2>6. hn[k].ptr # NULL /\ Filled(kind, M, C, hn[k].ptr - 1, q, n, word, filled)
    BY <1>2, <1>5, <1>7, <2>5 DEF b
  <2> HIDE DEF hn, filled
  <2>7. Continues(kind, h, B, hd, filled, C, hn, k)
    BY <1>4, <2>6, FillContinues
  <2>8. \A y \in Nat : q <= y /\ y < q + n => filled.mem[y] = word
    BY <2>5 DEF Filled
  <2>9. g = filled
    BY <1>7
  <2> HIDE DEF g
  <2>10. /\ Continues(kind, h, B, hd, g, C, hn, k)
         /\ x.ptr # NULL => Written(g.mem, x.ptr, n, word)
    BY <1>2, <2>7, <2>8, <2>9 DEF Written
  <2> QED
    BY <2>10 DEF M, q, r, x, n, g, hn, filled
<1> QED
  BY <1>6, <1>7

LEMMA FreeStep ==
  ASSUME NEW kind \in Kinds, NEW h, NEW B, NEW hd, Laid(kind, h, B), Owned(h.mem, B, hd), NEW k \in Handles
  PROVE  LET g == IF hd[k].ptr # NULL THEN freeOf(kind, h, hd[k].ptr) ELSE h
         IN  \E C : Continues(kind, h, B, hd, g, C, [hd EXCEPT ![k] = [ptr |-> NULL, size |-> 0]], k)
<1> DEFINE g == IF hd[k].ptr # NULL THEN freeOf(kind, h, hd[k].ptr) ELSE h
           x == [ptr |-> NULL, size |-> 0]
           A == Allocated(h.mem, B)
<1>1. x \in Things /\ x.ptr = NULL /\ BlockOf(x) = {}
  BY DEF Things, BlockOf, NULL
<1>2. \E C : Serves(kind, h, B, g, C) /\ Allocated(g.mem, C) = A \ BlockOf(hd[k])
  <2>1. CASE hd[k].ptr = NULL
    <3>1. g = h /\ BlockOf(hd[k]) = {}
      BY <2>1 DEF BlockOf
    <3>2. Serves(kind, h, B, h, B)
      BY DEF Serves, Kept
    <3> QED
      BY <3>1, <3>2
  <2>2. CASE hd[k].ptr # NULL
    <3> DEFINE b == hd[k].ptr - 1
    <3>1. b \in Allocated(h.mem, B) /\ hd[k].ptr \in Nat
      BY <2>2 DEF Owned, Things
    <3>2. b + 1 = hd[k].ptr /\ BlockOf(hd[k]) = {b}
      BY <2>2, <3>1 DEF BlockOf
    <3> HIDE DEF b
    <3>3. g = freeOf(kind, h, b + 1)
      BY <2>2, <3>2
    <3>4. \E C : /\ Serves(kind, h, B, freeOf(kind, h, b + 1), C)
                 /\ Allocated(freeOf(kind, h, b + 1).mem, C) = A \ {b}
      BY <3>1, FreeKeeps
    <3> HIDE DEF g
    <3> QED
      BY <3>2, <3>3, <3>4
  <2> QED
    BY <2>1, <2>2
<1> HIDE DEF g, x
<1>3. PICK C : Serves(kind, h, B, g, C) /\ Allocated(g.mem, C) = A \ BlockOf(hd[k])
  BY <1>2
<1>4. /\ Allocated(g.mem, C) = (Allocated(h.mem, B) \ BlockOf(hd[k])) \cup BlockOf(x)
      /\ BlockOf(x) \cap (Allocated(h.mem, B) \ BlockOf(hd[k])) = {}
  BY <1>1, <1>3
<1>5. Continues(kind, h, B, hd, g, C, [hd EXCEPT ![k] = x], k)
  BY <1>1, <1>3, <1>4, ContinuesAfter
<1> QED
  BY <1>5 DEF g, x

(* realloc, and the words the client writes into what it gained.  A        *)
(* request that fails leaves the client what it had.                       *)
Extra(r, x, size, k) ==
  IF r.ptr = NULL \/ size - x.size <= 0 THEN r.heap
  ELSE [r.heap EXCEPT !.mem = Fill(@, r.ptr + x.size \div WSIZE, size - x.size, k)]

(* What the client finds after realloc: its words as far as they go, then  *)
(* those it writes.                                                        *)
Carried(m, x, g, q, size, k) ==
  size % 4 = 0 /\ x.size % 4 = 0 =>
    \A i \in Nat : i < size \div WSIZE =>
       g[q + i] = IF i < x.size \div WSIZE THEN m[x.ptr + i] ELSE k

LEMMA ReallocStep ==
  ASSUME NEW kind \in Kinds, NEW h, NEW B, NEW hd, Laid(kind, h, B), Owned(h.mem, B, hd),
         NEW k \in Handles, hd[k].ptr # NULL, NEW size \in Nat
  PROVE  LET r == reallocOf(kind, h, hd[k].ptr, size)
             x == IF r.ptr = NULL /\ size > 0 THEN hd[k] ELSE Given(r, size)
             g == Extra(r, hd[k], size, k)
         IN  \E C : /\ Continues(kind, h, B, hd, g, C, [hd EXCEPT ![k] = x], k)
                    /\ r.ptr = NULL /\ size > 0 => Kept(h.mem, g.mem, x.ptr - 1)
                    /\ r.ptr # NULL => Carried(h.mem, hd[k], g.mem, r.ptr, size, k)
<1> DEFINE p == hd[k].ptr
           b == p - 1
           old == hd[k].size
           r == reallocOf(kind, h, p, size)
           M == r.heap
           q == r.ptr
           A == Allocated(h.mem, B)
           x == IF q = NULL /\ size > 0 THEN hd[k] ELSE Given(r, size)
           g == Extra(r, hd[k], size, k)
           hn == [hd EXCEPT ![k] = x]
<1>1. /\ p \in Nat /\ old \in Nat /\ hd[k] \in Things /\ hd \in [Handles -> Things]
      /\ b \in A /\ old + 8 <= block_size(h.mem, b)
  BY DEF Owned, Things
<1>2. b \in Nat /\ b + 1 = p /\ BlockOf(hd[k]) = {b}
  <2>1. b \in Nat
    BY <1>1, AllocatedFacts
  <2> QED
    BY <1>1, <2>1 DEF BlockOf
<1>3. /\ old \div WSIZE \in Nat
      /\ (b + 1) + old \div WSIZE <= block_next(h.mem, b) - 1
      /\ block_next(h.mem, b) \in Nat
  <2> HIDE DEF b, old
  <2> QED
    BY <1>1, Within, AllocatedFacts
<1> HIDE DEF b, old, p, A
<1>4. PICK C : Relocated(kind, h, B, b, size, r, C)
  <2>1. \E C : Relocated(kind, h, B, b, size, reallocOf(kind, h, b + 1, size), C)
    BY <1>1, ReallocKeeps DEF A
  <2> QED
    BY <1>2, <2>1
<1>5. /\ Serves(kind, h, B, M, C)
      /\ size = 0 => q = NULL /\ Allocated(M.mem, C) = A \ {b}
      /\ size # 0 /\ q = NULL => Allocated(M.mem, C) = A
      /\ q # NULL =>
           /\ q \in Nat /\ q - 1 \notin A
           /\ Allocated(M.mem, C) = (A \ {b}) \cup {q - 1}
           /\ size + 8 <= block_size(M.mem, q - 1)
           /\ \A i \in Nat : i < size \div WSIZE /\ b + 1 + i < block_next(h.mem, b) - 1
                             => M.mem[q + i] = h.mem[b + 1 + i]
  BY <1>4 DEF Relocated, A
<1>6. /\ x = IF q = NULL /\ size > 0 THEN hd[k]
             ELSE IF q = NULL THEN [ptr |-> NULL, size |-> 0]
             ELSE [ptr |-> q, size |-> size]
      /\ g = IF q = NULL \/ size - old <= 0 THEN M
             ELSE [M EXCEPT !.mem = Fill(@, q + old \div WSIZE, size - old, k)]
  BY DEF Given, Extra, old
<1> HIDE DEF r, M, q, x, g
<1>7. ASSUME NEW z \in Things, BlockOf(z) \cap (A \ {b}) = {},
             Allocated(M.mem, C) = (A \ {b}) \cup BlockOf(z),
             z.ptr # NULL => z.size + 8 <= block_size(M.mem, z.ptr - 1)
      PROVE  Continues(kind, h, B, hd, M, C, [hd EXCEPT ![k] = z], k)
  <2>1. /\ Allocated(M.mem, C) = (Allocated(h.mem, B) \ BlockOf(hd[k])) \cup BlockOf(z)
        /\ BlockOf(z) \cap (Allocated(h.mem, B) \ BlockOf(hd[k])) = {}
    BY <1>2, <1>7 DEF A
  <2> QED
    BY <1>5, <1>7, <2>1, ContinuesAfter
<1>8. NULL \in Nat
  BY DEF NULL
<1>9. CASE q = NULL /\ size > 0
  <2>1. g = M /\ x = hd[k] /\ Allocated(M.mem, C) = A
    BY <1>5, <1>6, <1>9
  <2>2. Kept(h.mem, M.mem, b)
    BY <1>1, <1>5, <2>1 DEF Serves, A
  <2>3. block_size(M.mem, b) = block_size(h.mem, b)
    <3>1. Unchanged(h.mem, M.mem, b)
      BY <1>1, <2>2, KeptFacts DEF A
    <3> QED
      BY <3>1 DEF Unchanged
  <2>4. hd[k].ptr - 1 = b /\ hd[k].size = old
    BY DEF b, p, old
  <2>5. Continues(kind, h, B, hd, M, C, [hd EXCEPT ![k] = hd[k]], k)
    <3>1. (A \ {b}) \cup {b} = A /\ {b} \cap (A \ {b}) = {}
      BY <1>1
    <3>2. hd[k].size + 8 <= block_size(M.mem, hd[k].ptr - 1)
      BY <1>1, <2>3, <2>4
    <3> QED
      BY <1>1, <1>2, <1>7, <2>1, <3>1, <3>2
  <2>6. Continues(kind, h, B, hd, g, C, hn, k) /\ Kept(h.mem, g.mem, x.ptr - 1)
    BY <2>1, <2>2, <2>4, <2>5
  <2> QED
    BY <1>9, <2>6 DEF r, M, q, x, g, p, old
<1>10. CASE q = NULL /\ size = 0
  <2>1. g = M /\ Allocated(M.mem, C) = A \ {b} /\ ~ (size > 0)
    BY <1>5, <1>6, <1>10
  <2>2. x = [ptr |-> NULL, size |-> 0]
    BY <1>6, <1>10, <2>1
  <2>3. x \in Things /\ x.ptr = NULL /\ BlockOf(x) = {}
    BY <1>8, <2>2 DEF Things, BlockOf
  <2>4. Continues(kind, h, B, hd, M, C, hn, k)
    <3>1. Allocated(M.mem, C) = (A \ {b}) \cup BlockOf(x) /\ BlockOf(x) \cap (A \ {b}) = {}
      BY <2>1, <2>3
    <3> QED
      BY <1>7, <2>3, <3>1
  <2>5. Continues(kind, h, B, hd, g, C, hn, k)
    BY <2>1, <2>4
  <2> QED
    BY <1>10, <2>1, <2>5 DEF r, M, q, x, g, p, old
<1>11. CASE q # NULL
  <2> DEFINE d == q - 1
             n == size \div WSIZE
             o == old \div WSIZE
  <2>1. x = [ptr |-> q, size |-> size]
    BY <1>6, <1>11
  <2>2. x \in Things /\ x.ptr = q /\ x.size = size /\ BlockOf(x) = {d}
    BY <1>5, <1>11, <2>1 DEF Things, BlockOf
  <2>3. Continues(kind, h, B, hd, M, C, hn, k)
    <3>1. /\ Allocated(M.mem, C) = (A \ {b}) \cup BlockOf(x) /\ BlockOf(x) \cap (A \ {b}) = {}
          /\ x.size + 8 <= block_size(M.mem, x.ptr - 1)
      BY <1>5, <1>11, <2>2
    <3> QED
      BY <1>7, <2>2, <3>1
  <2>4. /\ Laid(kind, M, C) /\ d \in Allocated(M.mem, C) /\ q \in Nat /\ size + 8 <= block_size(M.mem, d)
    BY <1>5, <1>11 DEF Serves
  <2>5. d \in Nat /\ d + 1 = q /\ d < q /\ block_next(M.mem, d) \in Nat
        /\ block_next(M.mem, d) <= MaxHeap /\ MaxHeap \in Nat
    <3>1. d \in Nat /\ block_next(M.mem, d) \in Nat /\ block_next(M.mem, d) <= MaxHeap
          /\ MaxHeap \in Nat
      <4> HIDE DEF d
      <4> QED
        BY <2>4, AllocatedFacts, HeapAssumption
    <3> QED
      BY <2>4, <3>1
  <2> HIDE DEF d
  <2>6. n \in Nat /\ (d + 1) + n <= block_next(M.mem, d) - 1
    BY <2>4, Within
  <2>7. \A i \in Nat : i < n /\ i < o => M.mem[q + i] = h.mem[p + i]
    <3>1. \A i \in Nat : i < o => b + 1 + i < block_next(h.mem, b) - 1 /\ b + 1 + i = p + i
      BY <1>1, <1>2, <1>3
    <3> QED
      BY <1>5, <1>11, <3>1
  <2>8. o \in Nat
    BY <1>3
  <2>9. /\ x = IF q = NULL /\ size > 0 THEN hd[k] ELSE Given(r, size)
        /\ hn[k] = x
    BY <1>1 DEF x
  <2>10. CASE size - old <= 0
    <3>1. g = M
      BY <1>6, <2>10
    <3>2. ASSUME size % 4 = 0, old % 4 = 0 PROVE n <= o
      BY <1>1, <2>10, <3>2 DEF WSIZE
    <3>3. ASSUME size % 4 = 0, old % 4 = 0, NEW i \in Nat, i < n
          PROVE  g.mem[q + i] = IF i < o THEN h.mem[p + i] ELSE k
      <4>1. i < o
        BY <2>6, <2>8, <3>2, <3>3
      <4> QED
        BY <2>7, <3>1, <3>3, <4>1
    <3>4. Continues(kind, h, B, hd, g, C, hn, k)
      BY <2>3, <3>1
    <3> QED
      BY <1>11, <3>3, <3>4 DEF r, M, q, x, g, p, old, Carried
  <2>11. CASE ~ (size - old <= 0)
    <3> DEFINE more == size - old
               from == q + o
               l == more \div WSIZE
    <3>1. more \in Nat /\ from \in Nat /\ l \in Nat /\ o + l <= n /\ d < from
          /\ (size % 4 = 0 /\ old % 4 = 0 => o + l = n)
      <4>1. more \in Nat /\ l \in Nat /\ o + l <= n
            /\ (size % 4 = 0 /\ old % 4 = 0 => o + l = n)
        BY <1>1, <2>11 DEF WSIZE
      <4> HIDE DEF o
      <4> QED
        BY <2>4, <2>5, <2>8, <4>1
    <3>2. g = [M EXCEPT !.mem = Fill(@, from, more, k)]
      BY <1>6, <1>11, <2>11
    <3> HIDE DEF more, o, n
    <3>3. from + l <= block_next(M.mem, d) - 1
      BY <2>4, <2>5, <2>6, <2>8, <3>1
    <3> HIDE DEF from
    <3>4. Filled(kind, M, C, d, from, l, k, g)
      BY <2>4, <3>1, <3>2, <3>3, FillKeeps
    <3> HIDE DEF l
    <3>5. Continues(kind, h, B, hd, g, C, hn, k)
      <4>1. hn[k].ptr # NULL /\ Filled(kind, M, C, hn[k].ptr - 1, from, l, k, g)
        BY <1>11, <2>2, <2>9, <3>4 DEF d
      <4> HIDE DEF hn
      <4> QED
        BY <2>3, <4>1, FillContinues
    <3>6. /\ \A y \in Nat : from <= y /\ y < from + l => g.mem[y] = k
          /\ \A y \in Nat : y < from /\ y < MaxHeap => g.mem[y] = M.mem[y]
      BY <3>4 DEF Filled
    <3>7. ASSUME size % 4 = 0, old % 4 = 0, NEW i \in Nat, i < n
          PROVE  g.mem[q + i] = IF i < o THEN h.mem[p + i] ELSE k
      <4> DEFINE y == q + i
      <4>1. y \in Nat /\ y < MaxHeap /\ (i < o => y < from) /\ (~ (i < o) => from <= y)
            /\ y < from + l
        BY <2>4, <2>5, <2>6, <2>8, <3>1, <3>7 DEF from
      <4>2. CASE i < o
        <5>1. g.mem[y] = M.mem[y]
          BY <3>6, <4>1, <4>2
        <5>2. M.mem[y] = h.mem[p + i]
          BY <2>7, <3>7, <4>2
        <5> QED
          BY <4>2, <5>1, <5>2
      <4>3. CASE ~ (i < o)
        <5>1. g.mem[y] = k
          BY <3>6, <4>1, <4>3
        <5> QED
          BY <4>3, <5>1
      <4> QED
        BY <4>2, <4>3
    <3> QED
      BY <1>11, <3>5, <3>7 DEF r, M, q, x, g, p, old, n, o, Carried
  <2> QED
    BY <2>10, <2>11
<1>12. size = 0 \/ size > 0
  OBVIOUS
<1> QED
  BY <1>9, <1>10, <1>11, <1>12

-----------------------------------------------------------------------------
(* The steps of a client of either, in the terms of the lemmas above: what *)
(* malloc and calloc,                                                      *)
Allots(kind, k, size, word) ==
  LET r == mallocOf(kind, heap, size)
  IN  /\ held[k].ptr = NULL
      /\ heap' = IF r.ptr = NULL THEN r.heap
                 ELSE [r.heap EXCEPT !.mem = Fill(@, r.ptr, size, word)]
      /\ held' = [held EXCEPT ![k] = Given(r, size)]

(* free                                                                    *)
Releases(kind, k) ==
  /\ heap' = IF held[k].ptr # NULL THEN freeOf(kind, heap, held[k].ptr) ELSE heap
  /\ held' = [held EXCEPT ![k] = [ptr |-> NULL, size |-> 0]]

(* and realloc leave in heap and held.                                     *)
Reallots(kind, k, size) ==
  LET r == reallocOf(kind, heap, held[k].ptr, size)
  IN  /\ held[k].ptr # NULL
      /\ heap' = Extra(r, held[k], size, k)
      /\ held' = [held EXCEPT ![k] = IF r.ptr = NULL /\ size > 0 THEN held[k]
                                     ELSE Given(r, size)]

Steps(kind) ==
  \/ UNCHANGED <<heap, held>>
  \/ \E k \in Handles : Releases(kind, k)
  \/ \E k \in Handles, size \in Sizes :
        \/ Allots(kind, k, size, k) \/ Allots(kind, k, size, 0)
        \/ Reallots(kind, k, size)

Starts(kind) == /\ heap = initOf(kind)
                /\ held = [k \in Handles |-> [ptr |-> NULL, size |-> 0]]

-----------------------------------------------------------------------------
(* They are what the client of the implicit list does.                     *)
LEMMA NULLIs == Calls!NULL = NULL
BY DEF Calls!NULL, NULL

LEMMA FillIs ==
  ASSUME NEW m, NEW p, NEW bytes, NEW word
  PROVE  Calls!Fill(m, p, bytes, word) = Fill(m, p, bytes, word)
BY DEF Calls!Fill, Fill, Calls!Addr, Addr, Calls!WSIZE, WSIZE

LEMMA KeepIs ==
  ASSUME NEW k, NEW r, NEW size, Calls!Keep(k, r.ptr, size)
  PROVE  held' = [held EXCEPT ![k] = Given(r, size)]
BY NULLIs DEF Calls!Keep, Given, Calls!Nothing

LEMMA AllotIs ==
  ASSUME NEW k, NEW size
  PROVE  /\ Calls!Malloc(k, size) => Allots("implicit", k, size, k)
         /\ Calls!Calloc(k, size) => Allots("implicit", k, size, 0)
<1>1. mallocOf("implicit", heap, size) = malloc(heap, size)
  BY DEF mallocOf
<1>2. ASSUME Calls!Malloc(k, size) PROVE Allots("implicit", k, size, k)
  <2>1. ~ Calls!Holds(k) /\ Calls!Keep(k, malloc(heap, size).ptr, size)
    BY <1>2 DEF Calls!Malloc
  <2>2. held[k].ptr = NULL
    BY <2>1, NULLIs DEF Calls!Holds
  <2>3. held' = [held EXCEPT ![k] = Given(malloc(heap, size), size)]
    BY <2>1, KeepIs
  <2> QED
    BY <1>1, <1>2, <2>2, <2>3, NULLIs, FillIs DEF Calls!Malloc, Allots
<1>3. ASSUME Calls!Calloc(k, size) PROVE Allots("implicit", k, size, 0)
  <2>1. ~ Calls!Holds(k) /\ Calls!Keep(k, malloc(heap, size).ptr, size)
    BY <1>3 DEF Calls!Calloc
  <2>2. held[k].ptr = NULL
    BY <2>1, NULLIs DEF Calls!Holds
  <2>3. held' = [held EXCEPT ![k] = Given(malloc(heap, size), size)]
    BY <2>1, KeepIs
  <2> QED
    BY <1>1, <1>3, <2>2, <2>3, NULLIs, FillIs DEF Calls!Calloc, Allots
<1> QED
  BY <1>2, <1>3

LEMMA FreeIs ==
  ASSUME NEW k, Calls!Free(k)
  PROVE  Releases("implicit", k)
BY NULLIs DEF Calls!Free, Calls!Holds, Calls!Nothing, Releases, freeOf

LEMMA ReallotIs ==
  ASSUME NEW k \in Handles, NEW size \in Nat, Calls!Realloc(k, size),
         held \in [Handles -> Things]
  PROVE  Reallots("implicit", k, size)
<1> DEFINE r == realloc(heap, held[k].ptr, size)
<1>1. held[k].ptr # NULL /\ reallocOf("implicit", heap, held[k].ptr, size) = r
  BY NULLIs DEF Calls!Realloc, Calls!Holds, reallocOf
<1>2. heap' = Extra(r, held[k], size, k)
  <2>1. Calls!WSIZE = WSIZE
    BY DEF Calls!WSIZE, WSIZE
  <2> QED
    BY <2>1, NULLIs, FillIs DEF Calls!Realloc, Extra
<1>3. held' = [held EXCEPT ![k] = IF r.ptr = NULL /\ size > 0 THEN held[k] ELSE Given(r, size)]
  <2>1. CASE r.ptr = NULL /\ size > 0
    <3>1. held' = held
      BY <2>1, NULLIs DEF Calls!Realloc
    <3>2. held = [held EXCEPT ![k] = held[k]]
      OBVIOUS
    <3> QED
      BY <2>1, <3>1, <3>2
  <2>2. CASE ~ (r.ptr = NULL /\ size > 0)
    <3>1. Calls!Keep(k, r.ptr, size)
      BY <2>2, NULLIs DEF Calls!Realloc
    <3> HIDE DEF r
    <3>2. held' = [held EXCEPT ![k] = Given(r, size)]
      BY <3>1, KeepIs
    <3> QED
      BY <2>2, <3>2
  <2> QED
    BY <2>1, <2>2
<1> HIDE DEF r
<1> QED
  BY <1>1, <1>2, <1>3 DEF Reallots

LEMMA StepIs ==
  ASSUME Sizes \subseteq Nat, held \in [Handles -> Things], [Calls!Next]_Calls!callVars
  PROVE  Steps("implicit")
<1>1. ASSUME NEW k \in Handles, NEW size \in Sizes, Calls!Malloc(k, size) \/ Calls!Calloc(k, size)
      PROVE  Steps("implicit")
  BY <1>1, AllotIs DEF Steps
<1>2. ASSUME NEW k \in Handles, NEW size \in Sizes, Calls!Realloc(k, size)
      PROVE  Steps("implicit")
  BY <1>2, ReallotIs DEF Steps
<1>3. ASSUME NEW k \in Handles, Calls!Free(k) PROVE Steps("implicit")
  BY <1>3, FreeIs DEF Steps
<1>4. CASE UNCHANGED Calls!callVars
  BY <1>4 DEF Calls!callVars, Steps
<1> QED
  BY <1>1, <1>2, <1>3, <1>4 DEF Calls!Next

LEMMA StartIs == Calls!Init => Starts("implicit")
BY NULLIs DEF Calls!Init, Calls!Nothing, Starts, initOf

-----------------------------------------------------------------------------
(* And what the client of the explicit list does.                          *)
LEMMA ExplicitNULLIs == Explicit!Calls!NULL = NULL
BY DEF Explicit!Calls!NULL, NULL

LEMMA ExplicitFillIs ==
  ASSUME NEW m, NEW p, NEW bytes, NEW word
  PROVE  Explicit!Calls!Fill(m, p, bytes, word) = Fill(m, p, bytes, word)
BY DEF Explicit!Calls!Fill, Fill, Explicit!Calls!Addr, Addr, Explicit!Calls!WSIZE, WSIZE

LEMMA ExplicitKeepIs ==
  ASSUME NEW k, NEW r, NEW size, Explicit!Calls!Keep(k, r.ptr, size)
  PROVE  held' = [held EXCEPT ![k] = Given(r, size)]
BY ExplicitNULLIs DEF Explicit!Calls!Keep, Given, Explicit!Calls!Nothing

LEMMA ExplicitAllotIs ==
  ASSUME NEW k, NEW size
  PROVE  /\ Explicit!Calls!Malloc(k, size) => Allots("explicit", k, size, k)
         /\ Explicit!Calls!Calloc(k, size) => Allots("explicit", k, size, 0)
<1>1. mallocOf("explicit", heap, size) = Explicit!malloc(heap, size)
  BY OneOfTwo DEF mallocOf
<1>2. ASSUME Explicit!Calls!Malloc(k, size) PROVE Allots("explicit", k, size, k)
  <2>1. ~ Explicit!Calls!Holds(k) /\ Explicit!Calls!Keep(k, Explicit!malloc(heap, size).ptr, size)
    BY <1>2 DEF Explicit!Calls!Malloc
  <2>2. held[k].ptr = NULL
    BY <2>1, ExplicitNULLIs DEF Explicit!Calls!Holds
  <2>3. held' = [held EXCEPT ![k] = Given(Explicit!malloc(heap, size), size)]
    BY <2>1, ExplicitKeepIs
  <2> QED
    BY <1>1, <1>2, <2>2, <2>3, ExplicitNULLIs, ExplicitFillIs DEF Explicit!Calls!Malloc, Allots
<1>3. ASSUME Explicit!Calls!Calloc(k, size) PROVE Allots("explicit", k, size, 0)
  <2>1. ~ Explicit!Calls!Holds(k) /\ Explicit!Calls!Keep(k, Explicit!malloc(heap, size).ptr, size)
    BY <1>3 DEF Explicit!Calls!Calloc
  <2>2. held[k].ptr = NULL
    BY <2>1, ExplicitNULLIs DEF Explicit!Calls!Holds
  <2>3. held' = [held EXCEPT ![k] = Given(Explicit!malloc(heap, size), size)]
    BY <2>1, ExplicitKeepIs
  <2> QED
    BY <1>1, <1>3, <2>2, <2>3, ExplicitNULLIs, ExplicitFillIs DEF Explicit!Calls!Calloc, Allots
<1> QED
  BY <1>2, <1>3

LEMMA ExplicitFreeIs ==
  ASSUME NEW k, Explicit!Calls!Free(k)
  PROVE  Releases("explicit", k)
BY ExplicitNULLIs, OneOfTwo DEF Explicit!Calls!Free, Explicit!Calls!Holds,
                                Explicit!Calls!Nothing, Releases, freeOf

LEMMA ExplicitReallotIs ==
  ASSUME NEW k \in Handles, NEW size \in Nat, Explicit!Calls!Realloc(k, size),
         held \in [Handles -> Things]
  PROVE  Reallots("explicit", k, size)
<1> DEFINE r == Explicit!realloc(heap, held[k].ptr, size)
<1>1. held[k].ptr # NULL /\ reallocOf("explicit", heap, held[k].ptr, size) = r
  BY ExplicitNULLIs, OneOfTwo DEF Explicit!Calls!Realloc, Explicit!Calls!Holds, reallocOf
<1>2. heap' = Extra(r, held[k], size, k)
  <2>1. Explicit!Calls!WSIZE = WSIZE
    BY DEF Explicit!Calls!WSIZE, WSIZE
  <2> QED
    BY <2>1, ExplicitNULLIs, ExplicitFillIs DEF Explicit!Calls!Realloc, Extra
<1>3. held' = [held EXCEPT ![k] = IF r.ptr = NULL /\ size > 0 THEN held[k] ELSE Given(r, size)]
  <2>1. CASE r.ptr = NULL /\ size > 0
    <3>1. held' = held
      BY <2>1, ExplicitNULLIs DEF Explicit!Calls!Realloc
    <3>2. held = [held EXCEPT ![k] = held[k]]
      OBVIOUS
    <3> QED
      BY <2>1, <3>1, <3>2
  <2>2. CASE ~ (r.ptr = NULL /\ size > 0)
    <3>1. Explicit!Calls!Keep(k, r.ptr, size)
      BY <2>2, ExplicitNULLIs DEF Explicit!Calls!Realloc
    <3> HIDE DEF r
    <3>2. held' = [held EXCEPT ![k] = Given(r, size)]
      BY <3>1, ExplicitKeepIs
    <3> QED
      BY <2>2, <3>2
  <2> QED
    BY <2>1, <2>2
<1> HIDE DEF r
<1> QED
  BY <1>1, <1>2, <1>3 DEF Reallots

LEMMA ExplicitStepIs ==
  ASSUME Sizes \subseteq Nat, held \in [Handles -> Things],
         [Explicit!Calls!Next]_Explicit!Calls!callVars
  PROVE  Steps("explicit")
<1>1. ASSUME NEW k \in Handles, NEW size \in Sizes,
             Explicit!Calls!Malloc(k, size) \/ Explicit!Calls!Calloc(k, size)
      PROVE  Steps("explicit")
  BY <1>1, ExplicitAllotIs DEF Steps
<1>2. ASSUME NEW k \in Handles, NEW size \in Sizes, Explicit!Calls!Realloc(k, size)
      PROVE  Steps("explicit")
  BY <1>2, ExplicitReallotIs DEF Steps
<1>3. ASSUME NEW k \in Handles, Explicit!Calls!Free(k) PROVE Steps("explicit")
  BY <1>3, ExplicitFreeIs DEF Steps
<1>4. CASE UNCHANGED Explicit!Calls!callVars
  BY <1>4 DEF Explicit!Calls!callVars, Steps
<1> QED
  BY <1>1, <1>2, <1>3, <1>4 DEF Explicit!Calls!Next

LEMMA ExplicitStartIs == Explicit!Calls!Init => Starts("explicit")
BY ExplicitNULLIs, OneOfTwo DEF Explicit!Calls!Init, Explicit!Calls!Nothing, Starts, initOf

-----------------------------------------------------------------------------
(* The invariant.                                                          *)
Inv(kind) == \E B : Laid(kind, heap, B) /\ Owned(heap.mem, B, held)

LEMMA InvStart ==
  ASSUME NEW kind \in Kinds, Room(kind), Starts(kind)
  PROVE  Inv(kind)
<1>1. heap = initOf(kind) /\ held = [k \in Handles |-> [ptr |-> NULL, size |-> 0]]
  BY DEF Starts
<1>2. PICK B : Laid(kind, heap, B) /\ Allocated(heap.mem, B) = {}
  BY <1>1, InitKeeps
<1>3. NULL \in Nat
  BY DEF NULL
<1>4. Owned(heap.mem, B, held)
  BY <1>1, <1>2, <1>3 DEF Owned, Things
<1> QED
  BY <1>2, <1>4 DEF Inv

LEMMA HeldIs ==
  ASSUME NEW kind, Inv(kind)
  PROVE  held \in [Handles -> Things]
BY DEF Inv, Owned

(* Every call on a handle leaves the blocks of the others as they are.     *)
LEMMA AllotContinues ==
  ASSUME NEW kind \in Kinds, NEW B, Laid(kind, heap, B), Owned(heap.mem, B, held),
         NEW k \in Handles, NEW size \in Nat, NEW word, Allots(kind, k, size, word)
  PROVE  \E C : /\ Continues(kind, heap, B, held, heap', C, held', k)
                /\ held'[k].ptr # NULL =>
                     /\ held'[k].size = size
                     /\ Written(heap'.mem, held'[k].ptr, size \div WSIZE, word)
<1> DEFINE r == mallocOf(kind, heap, size)
           x == Given(r, size)
           g == IF r.ptr = NULL THEN r.heap
                ELSE [r.heap EXCEPT !.mem = Fill(@, r.ptr, size, word)]
<1>1. held[k].ptr = NULL /\ heap' = g /\ held' = [held EXCEPT ![k] = x]
  BY DEF Allots
<1>2. \E C : /\ Continues(kind, heap, B, held, g, C, [held EXCEPT ![k] = x], k)
             /\ x.ptr # NULL => Written(g.mem, x.ptr, size \div WSIZE, word)
  BY <1>1, MallocStep
<1>3. x.ptr # NULL => x.size = size
  BY DEF Given
<1>4. held \in [Handles -> Things]
  BY DEF Owned
<1> HIDE DEF g, x
<1>5. held'[k] = x
  BY <1>1, <1>4
<1> QED
  BY <1>1, <1>2, <1>3, <1>5

LEMMA FreeContinues ==
  ASSUME NEW kind \in Kinds, NEW B, Laid(kind, heap, B), Owned(heap.mem, B, held),
         NEW k \in Handles, Releases(kind, k)
  PROVE  \E C : Continues(kind, heap, B, held, heap', C, held', k)
<1> DEFINE g == IF held[k].ptr # NULL THEN freeOf(kind, heap, held[k].ptr) ELSE heap
           x == [ptr |-> NULL, size |-> 0]
<1>1. heap' = g /\ held' = [held EXCEPT ![k] = x]
  BY DEF Releases
<1>2. \E C : Continues(kind, heap, B, held, g, C, [held EXCEPT ![k] = x], k)
  BY FreeStep
<1> HIDE DEF g, x
<1> QED
  BY <1>1, <1>2

LEMMA ReallocContinues ==
  ASSUME NEW kind \in Kinds, NEW B, Laid(kind, heap, B), Owned(heap.mem, B, held),
         NEW k \in Handles, NEW size \in Nat, Reallots(kind, k, size)
  PROVE  LET r == reallocOf(kind, heap, held[k].ptr, size)
         IN  \E C : /\ Continues(kind, heap, B, held, heap', C, held', k)
                    /\ r.ptr = NULL /\ size > 0 => Kept(heap.mem, heap'.mem, held[k].ptr - 1)
                    /\ r.ptr # NULL
                       => Carried(heap.mem, held[k], heap'.mem, r.ptr, size, k)
<1> DEFINE r == reallocOf(kind, heap, held[k].ptr, size)
           x == IF r.ptr = NULL /\ size > 0 THEN held[k] ELSE Given(r, size)
           g == Extra(r, held[k], size, k)
<1>1. held[k].ptr # NULL /\ heap' = g /\ held' = [held EXCEPT ![k] = x]
  BY DEF Reallots
<1>2. \E C : /\ Continues(kind, heap, B, held, g, C, [held EXCEPT ![k] = x], k)
             /\ r.ptr = NULL /\ size > 0 => Kept(heap.mem, g.mem, x.ptr - 1)
             /\ r.ptr # NULL => Carried(heap.mem, held[k], g.mem, r.ptr, size, k)
  BY <1>1, ReallocStep
<1>3. r.ptr = NULL /\ size > 0 => x = held[k]
  OBVIOUS
<1> HIDE DEF r, x, g
<1>4. \E C : /\ Continues(kind, heap, B, held, heap', C, held', k)
             /\ r.ptr = NULL /\ size > 0 => Kept(heap.mem, heap'.mem, held[k].ptr - 1)
             /\ r.ptr # NULL => Carried(heap.mem, held[k], heap'.mem, r.ptr, size, k)
  BY <1>1, <1>2, <1>3
<1> QED
  BY <1>4 DEF r

LEMMA InvPreserved ==
  ASSUME Sizes \subseteq Nat, NEW kind \in Kinds, Inv(kind), Steps(kind)
  PROVE  Inv(kind)'
<1>1. PICK B : Laid(kind, heap, B) /\ Owned(heap.mem, B, held)
  BY DEF Inv
<1>2. ASSUME NEW k, NEW C, Continues(kind, heap, B, held, heap', C, held', k)
      PROVE  Inv(kind)'
  BY <1>2 DEF Continues, Inv
<1>3. ASSUME NEW k \in Handles, NEW size \in Sizes, NEW word, Allots(kind, k, size, word)
      PROVE  Inv(kind)'
  BY <1>1, <1>2, <1>3, AllotContinues
<1>4. ASSUME NEW k \in Handles, Releases(kind, k) PROVE Inv(kind)'
  BY <1>1, <1>2, <1>4, FreeContinues
<1>5. ASSUME NEW k \in Handles, NEW size \in Sizes, Reallots(kind, k, size)
      PROVE  Inv(kind)'
  BY <1>1, <1>2, <1>5, ReallocContinues
<1>6. CASE UNCHANGED <<heap, held>>
  BY <1>6 DEF Inv
<1> QED
  BY <1>3, <1>4, <1>5, <1>6 DEF Steps

(* The heap is laid out in blocks, and each allocated one is owned, after  *)
(* any sequence of calls.                                                  *)
LEMMA ImplicitInv ==
  ASSUME Sizes \subseteq Nat
  PROVE  Calls!Spec => []Inv("implicit")
<1>1. "implicit" \in Kinds /\ Room("implicit")
  BY OneOfTwo DEF Kinds, Room
<1>2. Calls!Init => Inv("implicit")
  BY <1>1, StartIs, InvStart
<1>3. Inv("implicit") /\ [Calls!Next]_Calls!callVars => Inv("implicit")'
  BY <1>1, HeldIs, StepIs, InvPreserved
<1> QED
  BY <1>2, <1>3, PTL DEF Calls!Spec

LEMMA ExplicitInv ==
  ASSUME Sizes \subseteq Nat, 5 + CHUNKSIZE \div 4 <= MaxHeap
  PROVE  Explicit!Calls!Spec => []Inv("explicit")
<1>1. "explicit" \in Kinds /\ Room("explicit")
  BY DEF Kinds, Room
<1>2. Explicit!Calls!Init => Inv("explicit")
  BY <1>1, ExplicitStartIs, InvStart
<1>3. Inv("explicit") /\ [Explicit!Calls!Next]_Explicit!Calls!callVars => Inv("explicit")'
  BY <1>1, HeldIs, ExplicitStepIs, InvPreserved
<1> QED
  BY <1>2, <1>3, PTL DEF Explicit!Calls!Spec

-----------------------------------------------------------------------------
(* What the invariant says of the properties of the runs.                  *)
LEMMA FoundBlocks ==
  ASSUME NEW kind \in Kinds, NEW h, NEW B, Laid(kind, h, B)
  PROVE  BlocksBetween(h.mem, Start(kind), End(kind, h)) = B
<1> DEFINE s == Start(kind)
           e == End(kind, h)
<1>1. Tiles(h.mem, B, s, e) /\ e \in Nat
  BY LaidFacts
<1> HIDE DEF s, e
<1>2. BlocksBetween(h.mem, s, e) = B
  BY <1>1, BlocksAre
<1> QED
  BY <1>2 DEF s, e

LEMMA TiledIs ==
  ASSUME NEW kind \in Kinds, NEW h, NEW B, Laid(kind, h, B)
  PROVE  TiledBetween(h.mem, Start(kind), End(kind, h))
<1> DEFINE m == h.mem
           s == Start(kind)
           e == End(kind, h)
<1>1. Tiles(m, B, s, e) /\ BlocksBetween(m, s, e) = B /\ e \in Nat /\ s \in Nat
  BY LaidFacts, FoundBlocks
<1> HIDE DEF m, s, e
<1>2. ASSUME NEW b \in B
      PROVE  /\ block_size(m, b) >= 2 * 8 /\ (b + 1) % 2 = 0
             /\ block_next(m, b) <= e /\ m[footer(m, b)] = m[b]
  <2>1. /\ b \in Nat /\ b % 2 = 1
        /\ block_next(m, b) \in Nat /\ b + 4 <= block_next(m, b)
        /\ block_next(m, b) <= e
        /\ block_size(m, b) = 4 * (block_next(m, b) - b)
        /\ m[block_next(m, b) - 1] = m[b]
    BY <1>1, <1>2, BlockFacts
  <2>2. block_size(m, b) >= 2 * 8
    BY <2>1
  <2>3. (b + 1) % 2 = 0
    BY <2>1
  <2> QED
    BY <2>1, <2>2, <2>3 DEF footer
<1>3. ASSUME s < e PROVE \E b \in B : block_next(m, b) = e
  <2>1. e # s /\ e \in B \cup {e}
    BY <1>1, <1>3
  <2> QED
    BY <1>1, <2>1 DEF Tiles
<1>4. TiledBetween(m, s, e)
  BY <1>1, <1>2, <1>3 DEF TiledBetween, DSIZE
<1> QED
  BY <1>4 DEF m, s, e

(* What Accounted says, for the client of either.                          *)
Accounts(start, end) ==
  /\ TiledBetween(heap.mem, start, end)
  /\ {b + 1 : b \in {c \in BlocksBetween(heap.mem, start, end) : ~IsFree(heap.mem, c)}}
       = {held[k].ptr : k \in {j \in Handles : held[j].ptr # NULL}}
  /\ \A k \in Handles : held[k].ptr # NULL =>
        held[k].size <= block_size(heap.mem, held[k].ptr - 1) - DSIZE

LEMMA AccountsIs ==
  ASSUME NEW s, NEW e
  PROVE  /\ Calls!Accounted(s, e) <=> Accounts(s, e)
         /\ Explicit!Calls!Accounted(s, e) <=> Accounts(s, e)
<1>1. Calls!Accounted(s, e) <=> Accounts(s, e)
  <2>1. \A m : /\ Calls!BlocksBetween(m, s, e) = BlocksBetween(m, s, e)
               /\ Calls!TiledBetween(m, s, e) <=> TiledBetween(m, s, e)
    BY DEF Calls!BlocksBetween, BlocksBetween, Calls!TiledBetween, TiledBetween,
           Calls!block_next, block_next, Calls!block_size, block_size, Calls!footer, footer,
           Calls!WSIZE, WSIZE, Calls!DSIZE, DSIZE
  <2> QED
    BY <2>1, NULLIs DEF Calls!Accounted, Accounts, Calls!Payloads, Calls!Holds,
       Calls!IsFree, IsFree, Calls!block_size, block_size, Calls!DSIZE, DSIZE
<1>2. Explicit!Calls!Accounted(s, e) <=> Accounts(s, e)
  <2>1. \A m : /\ Explicit!Calls!BlocksBetween(m, s, e) = BlocksBetween(m, s, e)
               /\ Explicit!Calls!TiledBetween(m, s, e) <=> TiledBetween(m, s, e)
    BY DEF Explicit!Calls!BlocksBetween, BlocksBetween,
           Explicit!Calls!TiledBetween, TiledBetween,
           Explicit!Calls!block_next, block_next, Explicit!Calls!block_size, block_size,
           Explicit!Calls!footer, footer,
           Explicit!Calls!WSIZE, WSIZE, Explicit!Calls!DSIZE, DSIZE
  <2> QED
    BY <2>1, ExplicitNULLIs DEF Explicit!Calls!Accounted, Accounts,
       Explicit!Calls!Payloads, Explicit!Calls!Holds, Explicit!Calls!IsFree, IsFree,
       Explicit!Calls!block_size, block_size, Explicit!Calls!DSIZE, DSIZE
<1> QED
  BY <1>1, <1>2

LEMMA AccountedIs ==
  ASSUME NEW kind \in Kinds, NEW B, Laid(kind, heap, B), Owned(heap.mem, B, held)
  PROVE  Accounts(Start(kind), End(kind, heap))
<1> DEFINE m == heap.mem
           A == Allocated(m, B)
           s == Start(kind)
           e == End(kind, heap)
<1>1. TiledBetween(m, s, e) /\ BlocksBetween(m, s, e) = B
  BY TiledIs, FoundBlocks
<1>2. A = {b \in B : ~ IsFree(m, b)}
  BY DEF Allocated
<1>3. /\ \A k \in Handles : held[k].ptr # NULL =>
            /\ held[k].ptr \in Nat /\ held[k].ptr - 1 \in A
            /\ held[k].size \in Nat /\ held[k].size + 8 <= block_size(m, held[k].ptr - 1)
      /\ \A b \in A : \E k \in Handles : held[k].ptr = b + 1
  BY DEF Owned, Things
<1>4. \A b \in A : b \in Nat /\ block_size(m, b) \in Nat
  <2>1. \A b \in A : b \in Nat /\ block_next(m, b) \in Nat /\ b + 4 <= block_next(m, b)
                     /\ block_size(m, b) = 4 * (block_next(m, b) - b)
    BY AllocatedFacts
  <2> QED
    BY <2>1
<1> DEFINE payloads == {held[k].ptr : k \in {j \in Handles : held[j].ptr # NULL}}
<1>5. {b + 1 : b \in A} = payloads
  <2>1. ASSUME NEW b \in A PROVE b + 1 \in payloads
    <3>1. PICK k \in Handles : held[k].ptr = b + 1
      BY <1>3
    <3>2. held[k].ptr # NULL
      BY <1>4, <3>1 DEF NULL
    <3> QED
      BY <3>1, <3>2
  <2>2. ASSUME NEW k \in Handles, held[k].ptr # NULL
        PROVE  held[k].ptr \in {b + 1 : b \in A}
    <3>1. held[k].ptr - 1 \in A /\ (held[k].ptr - 1) + 1 = held[k].ptr
      BY <1>3, <2>2
    <3> QED
      BY <3>1
  <2> QED
    BY <2>1, <2>2
<1>6. ASSUME NEW k \in Handles, held[k].ptr # NULL
      PROVE  held[k].size <= block_size(m, held[k].ptr - 1) - 8
  BY <1>3, <1>4, <1>6
<1> HIDE DEF A, s, e
<1>7. {b + 1 : b \in {c \in BlocksBetween(m, s, e) : ~ IsFree(m, c)}} = payloads
  BY <1>1, <1>2, <1>5
<1>8. Accounts(s, e)
  BY <1>1, <1>6, <1>7 DEF Accounts, DSIZE
<1> QED
  BY <1>8 DEF s, e

LEMMA SoundIs ==
  ASSUME Inv("implicit")
  PROVE  Sound
<1>1. PICK B : Laid("implicit", heap, B) /\ Owned(heap.mem, B, held)
  BY DEF Inv
<1>2. Start("implicit") = FirstBlock /\ End("implicit", heap) = Epilogue
      /\ "implicit" \in Kinds
  BY DEF Start, End, FirstBlock, Epilogue, Kinds
<1>3. Calls!Accounted(FirstBlock, Epilogue)
  BY <1>1, <1>2, AccountedIs, AccountsIs
<1>4. heap.mem[Epilogue] = PACK(0, 1)
  BY <1>1, ImplicitLaid DEF Fences, Epilogue, PACK
<1> QED
  BY <1>3, <1>4 DEF Sound

LEMMA ApartIs ==
  ASSUME Inv("implicit")
  PROVE  NoFragments
<1> DEFINE m == heap.mem
<1>1. PICK B : Laid("implicit", heap, B)
  BY DEF Inv
<1>2. Start("implicit") = FirstBlock /\ End("implicit", heap) = Epilogue
      /\ "implicit" \in Kinds
  BY DEF Start, End, FirstBlock, Epilogue, Kinds
<1>3. BlocksBetween(m, FirstBlock, Epilogue) = B
  BY <1>1, <1>2, FoundBlocks
<1>4. /\ \A s, e : Calls!BlocksBetween(m, s, e) = BlocksBetween(m, s, e)
      /\ \A b : Calls!block_next(m, b) = block_next(m, b)
      /\ \A b : Calls!IsFree(m, b) <=> IsFree(m, b)
  BY DEF Calls!BlocksBetween, BlocksBetween, Calls!block_next, block_next,
         Calls!block_size, block_size, Calls!WSIZE, WSIZE, Calls!IsFree, IsFree
<1>5. Calls!FreeBlocks(FirstBlock, Epilogue) = {b \in B : IsFree(m, b)}
  BY <1>3, <1>4 DEF Calls!FreeBlocks
<1>6. Apart(m, B)
  BY <1>1, ImplicitLaid
<1> QED
  BY <1>4, <1>5, <1>6 DEF NoFragments, Calls!Coalesced, Apart

LEMMA ExplicitSoundIs ==
  ASSUME Inv("explicit")
  PROVE  Explicit!Sound
<1>1. PICK B : Laid("explicit", heap, B) /\ Owned(heap.mem, B, held)
  BY DEF Inv
<1>2. Start("explicit") = Explicit!FirstBlock /\ End("explicit", heap) = heap.brk
      /\ "explicit" \in Kinds
  BY OneOfTwo DEF Start, End, Explicit!FirstBlock, Kinds
<1>3. Accounts(Explicit!FirstBlock, heap.brk)
  BY <1>1, <1>2, AccountedIs
<1> QED
  BY <1>3, AccountsIs DEF Explicit!Sound

LEMMA ListedIs ==
  ASSUME Inv("explicit")
  PROVE  Explicit!Listed
<1> DEFINE m == heap.mem
<1>1. PICK B : Laid("explicit", heap, B)
  BY DEF Inv
<1>2. Start("explicit") = Explicit!FirstBlock /\ End("explicit", heap) = heap.brk
      /\ "explicit" \in Kinds
  BY OneOfTwo DEF Start, End, Explicit!FirstBlock, Kinds
<1>3. BlocksBetween(m, Explicit!FirstBlock, heap.brk) = B
  BY <1>1, <1>2, FoundBlocks
<1>4. /\ \A s, e : Explicit!Calls!BlocksBetween(m, s, e) = BlocksBetween(m, s, e)
      /\ \A b : Explicit!Calls!IsFree(m, b) <=> IsFree(m, b)
  BY DEF Explicit!Calls!BlocksBetween, BlocksBetween, Explicit!Calls!block_next, block_next,
         Explicit!Calls!block_size, block_size, Explicit!Calls!WSIZE, WSIZE,
         Explicit!Calls!IsFree, IsFree
<1>5. Explicit!Calls!FreeBlocks(Explicit!FirstBlock, heap.brk) = Frees(m, B)
  BY <1>3, <1>4 DEF Explicit!Calls!FreeBlocks, Frees
<1>6. /\ FreeList(m, Frees(m, B))
      /\ \A c \in Frees(m, B) : block_size(m, c) # 0
  BY <1>1, ListIsTrue
<1> DEFINE F == Frees(m, B)
<1> HIDE DEF F
<1>7. /\ Explicit!List!ListSound(m, 1, 4)
      /\ Explicit!List!Listed(m, 1) = F
  BY <1>6, ListIsSound DEF F
<1> QED
  BY <1>5, <1>7 DEF Explicit!Listed, Explicit!heap_ptr, Explicit!EpilogueList, F

(* The blocks tile the heap up to the epilogue with tags that agree, and   *)
(* the allocated ones are those the client holds, each as large as it      *)
(* asked for: place, coalesce and extend_heap lose no word.                *)
THEOREM HeapIsSound ==
  ASSUME Sizes \subseteq Nat
  PROVE  Calls!Spec => []Sound
BY ImplicitInv, SoundIs, PTL

(* No free block follows another: free and extend_heap coalesce with both  *)
(* neighbours, and nothing they leave needs to be coalesced again.         *)
THEOREM HeapIsCoalesced ==
  ASSUME Sizes \subseteq Nat
  PROVE  Calls!Spec => []NoFragments
BY ImplicitInv, ApartIs, PTL

(* The blocks of the explicit heap tile it up to the break, and the        *)
(* allocated ones are those the client holds: coalesce, which looks at the *)
(* break because no epilogue follows, takes in no word that is not its     *)
(* own.                                                                    *)
THEOREM ExplicitHeapIsSound ==
  ASSUME Sizes \subseteq Nat, 5 + CHUNKSIZE \div 4 <= MaxHeap
  PROVE  Explicit!Calls!Spec => []Explicit!Sound
BY ExplicitInv, ExplicitSoundIs, PTL

(* Its list runs from the prologue to the epilogue, each node points back  *)
(* to the one before it, and its nodes are the free blocks: placeFreeBlock,*)
(* removeBlock and the relinking of place lose and repeat none.            *)
THEOREM ExplicitHeapIsListed ==
  ASSUME Sizes \subseteq Nat, 5 + CHUNKSIZE \div 4 <= MaxHeap
  PROVE  Explicit!Calls!Spec => []Explicit!Listed
BY ExplicitInv, ListedIs, PTL

-----------------------------------------------------------------------------
(* The allocator keeps the promise of HeapSpec: the region of a handle is  *)
(* made of the words at its payload.                                       *)
Nowhere == [start |-> NULL, words |-> <<>>]

RegionOf(m, x) ==
  IF x.ptr = NULL THEN Nowhere
  ELSE [start |-> x.ptr, words |-> [i \in 1 .. x.size \div WSIZE |-> m[x.ptr + i - 1]]]

Regions == [k \in Handles |-> RegionOf(heap.mem, held[k])]

Promised == INSTANCE HeapSpec WITH region <- Regions, NoRegion <- Nowhere

LEMMA RegionFacts ==
  ASSUME NEW m, NEW x \in Things, x.ptr # NULL
  PROVE  LET r == RegionOf(m, x)
         IN  /\ r # Nowhere /\ r.start = x.ptr
             /\ DOMAIN r.words = 1 .. x.size \div WSIZE
             /\ Len(r.words) = x.size \div WSIZE
             /\ r.words = [i \in 1 .. x.size \div WSIZE |-> m[x.ptr + i - 1]]
<1> DEFINE n == x.size \div WSIZE
           w == [i \in 1 .. n |-> m[x.ptr + i - 1]]
<1>1. n \in Nat
  BY DEF Things, WSIZE
<1> HIDE DEF n
<1>2. Len(w) = n /\ DOMAIN w = 1 .. n
  BY <1>1
<1>3. RegionOf(m, x) = [start |-> x.ptr, words |-> w]
  BY DEF RegionOf, n
<1> DEFINE r == RegionOf(m, x)
<1> HIDE DEF w
<1>4. r.start = x.ptr /\ r.words = w
  BY <1>3
<1>5. r # Nowhere
  <2>1. Nowhere.start = NULL
    BY DEF Nowhere
  <2> QED
    BY <1>4, <2>1
<1> HIDE DEF r
<1>6. /\ r # Nowhere /\ r.start = x.ptr /\ DOMAIN r.words = 1 .. n
      /\ Len(r.words) = n /\ r.words = w
  BY <1>2, <1>4, <1>5
<1> QED
  BY <1>6 DEF n, w, r

(* A block that is kept keeps its region.                                  *)
LEMMA RegionKept ==
  ASSUME NEW kind \in Kinds, NEW h, NEW B, NEW hd, Laid(kind, h, B), Owned(h.mem, B, hd), NEW m,
         NEW k \in Handles, hd[k].ptr # NULL => Kept(h.mem, m, hd[k].ptr - 1)
  PROVE  RegionOf(m, hd[k]) = RegionOf(h.mem, hd[k])
<1> SUFFICES ASSUME hd[k].ptr # NULL
             PROVE  RegionOf(m, hd[k]) = RegionOf(h.mem, hd[k])
  BY DEF RegionOf
<1> DEFINE p == hd[k].ptr
           b == p - 1
           n == hd[k].size \div WSIZE
           t == block_next(h.mem, b)
<1>1. p \in Nat /\ hd[k].size \in Nat /\ b \in Allocated(h.mem, B)
      /\ hd[k].size + 8 <= block_size(h.mem, b)
  BY DEF Owned, Things
<1>2. n \in Nat /\ (b + 1) + n <= t - 1
  BY <1>1, Within
<1>3. Unchanged(h.mem, m, b)
  BY <1>1, KeptFacts
<1>4. t \in Nat /\ b \in Nat
  BY <1>1, AllocatedFacts
<1>5. \A x \in Nat : b <= x /\ x < t => m[x] = h.mem[x]
  BY <1>3 DEF Unchanged
<1> HIDE DEF n, t
<1>6. ASSUME NEW i \in 1 .. n PROVE m[p + i - 1] = h.mem[p + i - 1]
  <2>1. p + i - 1 \in Nat /\ b <= p + i - 1 /\ p + i - 1 < t
    BY <1>1, <1>2, <1>4
  <2> QED
    BY <1>5, <2>1
<1> QED
  BY <1>6 DEF RegionOf, n

(* The regions of two handles share no word, and start at even addresses.  *)
LEMMA RegionsApart ==
  ASSUME NEW kind \in Kinds, NEW h, NEW B, NEW hd, Laid(kind, h, B), Owned(h.mem, B, hd),
         NEW k \in Handles, hd[k].ptr # NULL
  PROVE  /\ hd[k].ptr % 2 = 0
         /\ Promised!WordsOf(RegionOf(h.mem, hd[k])) \subseteq Addr
         /\ \A j \in Handles \ {k} : hd[j].ptr # NULL =>
               Promised!WordsOf(RegionOf(h.mem, hd[j]))
                  \cap Promised!WordsOf(RegionOf(h.mem, hd[k])) = {}
<1> DEFINE Ends(j) == block_next(h.mem, hd[j].ptr - 1)
           Words(j) == Promised!WordsOf(RegionOf(h.mem, hd[j]))
<1>1. ASSUME NEW j \in Handles, hd[j].ptr # NULL
      PROVE  /\ hd[j].ptr \in Nat /\ hd[j].ptr - 1 \in B /\ hd[j].ptr % 2 = 0
             /\ Ends(j) \in Nat /\ Ends(j) <= MaxHeap /\ hd[j].ptr < Ends(j)
             /\ \A y \in Words(j) : y \in Nat /\ hd[j].ptr <= y /\ y < Ends(j)
  <2> DEFINE b == hd[j].ptr - 1
             n == hd[j].size \div WSIZE
             t == block_next(h.mem, b)
  <2>1. hd[j] \in Things /\ hd[j].ptr \in Nat /\ hd[j].size \in Nat
        /\ b \in Allocated(h.mem, B) /\ hd[j].size + 8 <= block_size(h.mem, b)
    BY <1>1 DEF Owned, Things
  <2>2. n \in Nat /\ (b + 1) + n <= t - 1
    BY <2>1, Within
  <2>3. /\ b \in B /\ b \in Nat /\ b % 2 = 1 /\ t \in Nat /\ b + 4 <= t /\ t <= MaxHeap
    BY <2>1, AllocatedFacts
  <2>4. Words(j) = hd[j].ptr .. hd[j].ptr + n - 1
    BY <1>1, <2>1, RegionFacts DEF Promised!WordsOf
  <2>5. hd[j].ptr % 2 = 0
    BY <2>1, <2>3
  <2> HIDE DEF n, t, Words
  <2>6. ASSUME NEW y \in Words(j) PROVE y \in Nat /\ hd[j].ptr <= y /\ y < t
    <3>1. y \in Int /\ hd[j].ptr <= y /\ y <= hd[j].ptr + n - 1
      BY <2>1, <2>2, <2>4, <2>6
    <3> QED
      BY <2>1, <2>2, <2>3, <3>1
  <2>7. hd[j].ptr < t
    BY <2>1, <2>3
  <2> QED
    BY <2>1, <2>3, <2>5, <2>6, <2>7 DEF t
<1> HIDE DEF Words
<1>2. MaxHeap \in Nat
  BY HeapAssumption
<1>3. Words(k) \subseteq Addr
  <2>1. \A y \in Words(k) : y \in Nat /\ y < Ends(k)
    BY <1>1
  <2>2. Ends(k) \in Nat /\ Ends(k) <= MaxHeap
    BY <1>1
  <2> HIDE DEF Ends
  <2> QED
    BY <1>2, <2>1, <2>2 DEF Addr
<1>4. ASSUME NEW j \in Handles \ {k}, hd[j].ptr # NULL
      PROVE  Words(j) \cap Words(k) = {}
  <2> DEFINE p == hd[j].ptr
             q == hd[k].ptr
             s == Ends(j)
             t == Ends(k)
  <2>1. /\ p \in Nat /\ p - 1 \in B /\ s \in Nat /\ p < s
        /\ \A y \in Words(j) : y \in Nat /\ p <= y /\ y < s
    BY <1>1, <1>4
  <2>2. /\ q \in Nat /\ q - 1 \in B /\ t \in Nat /\ q < t
        /\ \A y \in Words(k) : y \in Nat /\ q <= y /\ y < t
    BY <1>1
  <2>3. p # q
    BY <1>4 DEF Owned
  <2>4. Tiles(h.mem, B, Start(kind), End(kind, h))
    BY LaidFacts
  <2>5. /\ p - 1 < q - 1 => s <= q - 1
        /\ q - 1 < p - 1 => t <= p - 1
    BY <2>1, <2>2, <2>4, NextIsNext
  <2> HIDE DEF p, q, s, t
  <2> QED
    BY <2>1, <2>2, <2>3, <2>5
<1> QED
  BY <1>1, <1>3, <1>4 DEF Words

LEMMA RegionsAre ==
  ASSUME NEW k \in Handles
  PROVE  /\ Regions[k] = RegionOf(heap.mem, held[k])
         /\ Regions'[k] = RegionOf(heap'.mem, held'[k])
BY DEF Regions

(* A call on k changes the region of k, if any.                            *)
LEMMA OthersKeepRegions ==
  ASSUME NEW kind \in Kinds, NEW B, Laid(kind, heap, B), Owned(heap.mem, B, held), NEW C, NEW k \in Handles,
         Continues(kind, heap, B, held, heap', C, held', k)
  PROVE  Regions' = [Regions EXCEPT ![k] = RegionOf(heap'.mem, held'[k])]
<1> DEFINE R == [Regions EXCEPT ![k] = RegionOf(heap'.mem, held'[k])]
<1>1. ASSUME NEW j \in Handles, j # k PROVE Regions'[j] = Regions[j]
  <2>1. held'[j] = held[j] /\ (held[j].ptr # NULL => Kept(heap.mem, heap'.mem, held[j].ptr - 1))
    BY <1>1 DEF Continues
  <2>2. RegionOf(heap'.mem, held[j]) = RegionOf(heap.mem, held[j])
    BY <2>1, RegionKept
  <2> QED
    BY <2>1, <2>2, RegionsAre
<1>2. /\ Regions = [j \in Handles |-> Regions[j]]
      /\ Regions' = [j \in Handles |-> Regions'[j]]
  BY DEF Regions
<1>3. Regions'[k] = RegionOf(heap'.mem, held'[k])
  BY RegionsAre
<1> QED
  BY <1>1, <1>2, <1>3

LEMMA Becoming ==
  ASSUME NEW kind \in Kinds, NEW B, Laid(kind, heap, B), Owned(heap.mem, B, held), NEW C, NEW k \in Handles,
         Continues(kind, heap, B, held, heap', C, held', k), held'[k].ptr # NULL
  PROVE  Promised!Becomes(k, Regions'[k])
<1> DEFINE r == RegionOf(heap'.mem, held'[k])
<1>1. Regions' = [Regions EXCEPT ![k] = r] /\ Regions'[k] = r
  BY OthersKeepRegions, RegionsAre
<1>2. Laid(kind, heap', C) /\ Owned(heap'.mem, C, held')
  BY DEF Continues
<1>3. /\ held'[k].ptr % 2 = 0
      /\ Promised!WordsOf(r) \subseteq Addr
      /\ \A j \in Handles \ {k} : held'[j].ptr # NULL =>
            Promised!WordsOf(RegionOf(heap'.mem, held'[j])) \cap Promised!WordsOf(r) = {}
  BY <1>2, RegionsApart
<1>4. r.start = held'[k].ptr
  <2>1. held'[k] \in Things
    BY <1>2 DEF Owned
  <2> QED
    BY <2>1, RegionFacts
<1>5. ASSUME NEW j \in Handles \ {k}, Regions[j] # Nowhere
      PROVE  Promised!WordsOf(Regions[j]) \cap Promised!WordsOf(r) = {}
  <2>1. Regions'[j] = Regions[j]
    BY <1>1 DEF Regions
  <2>2. Regions'[j] = RegionOf(heap'.mem, held'[j])
    BY RegionsAre
  <2>3. held'[j].ptr # NULL
    BY <1>5, <2>1, <2>2 DEF RegionOf
  <2> QED
    BY <1>3, <2>1, <2>2, <2>3
<1> HIDE DEF r
<1>6. Promised!Fits(k, r)
  BY <1>3, <1>4, <1>5 DEF Promised!Fits, Promised!InUse
<1> QED
  BY <1>1, <1>6 DEF Promised!Becomes

(* A handle is in use when it holds a block.                               *)
LEMMA InUseIs ==
  ASSUME NEW k \in Handles, held[k] \in Things
  PROVE  Promised!InUse(k) <=> held[k].ptr # NULL
<1>1. Regions[k] = RegionOf(heap.mem, held[k])
  BY RegionsAre
<1>2. held[k].ptr # NULL => RegionOf(heap.mem, held[k]) # Nowhere
  <2> SUFFICES ASSUME held[k].ptr # NULL
               PROVE  RegionOf(heap.mem, held[k]) # Nowhere
    OBVIOUS
  <2> QED
    BY RegionFacts
<1>3. held[k].ptr = NULL => Regions[k] = Nowhere
  BY <1>1 DEF RegionOf
<1> QED
  BY <1>1, <1>2, <1>3 DEF Promised!InUse

LEMMA AllotIsPromised ==
  ASSUME NEW kind \in Kinds, NEW B, Laid(kind, heap, B), Owned(heap.mem, B, held), NEW k \in Handles,
         NEW size \in Nat, NEW word, Allots(kind, k, size, word)
  PROVE  Promised!Allocate(k, size, word) \/ UNCHANGED Regions
<1> DEFINE q == held'[k].ptr
           n == size \div WSIZE
           r == RegionOf(heap'.mem, held'[k])
<1>1. PICK C : /\ Continues(kind, heap, B, held, heap', C, held', k)
               /\ q # NULL => held'[k].size = size /\ Written(heap'.mem, q, n, word)
  BY AllotContinues
<1>2. held[k].ptr = NULL /\ held[k] \in Things
  BY DEF Allots, Owned
<1>3. held'[k] \in Things /\ q \in Nat
  BY <1>1 DEF Continues, Owned, Things
<1>4. CASE q = NULL
  <2>1. r = Regions[k]
    BY <1>2, <1>4, RegionsAre DEF RegionOf
  <2>2. Regions' = [Regions EXCEPT ![k] = Regions[k]]
    BY <1>1, <2>1, OthersKeepRegions
  <2> QED
    BY <2>2 DEF Regions
<1>5. CASE q # NULL
  <2>1. r.words = [i \in 1 .. n |-> heap'.mem[q + i - 1]]
    BY <1>1, <1>3, <1>5, RegionFacts
  <2>2. n \in Nat
    BY DEF WSIZE
  <2>3. Written(heap'.mem, q, n, word)
    BY <1>1, <1>5
  <2> HIDE DEF n, q, r
  <2>4. ASSUME NEW i \in 1 .. n PROVE heap'.mem[q + i - 1] = word
    <3>1. q + i - 1 \in Nat /\ q <= q + i - 1 /\ q + i - 1 < q + n
      BY <1>3, <2>2
    <3> QED
      BY <2>3, <3>1 DEF Written
  <2>5. r.words = [i \in 1 .. n |-> word]
    BY <2>1, <2>4
  <2>6. Regions'[k] = r
    BY RegionsAre DEF r
  <2>7. Regions'[k].words = [i \in 1 .. size \div 4 |-> word]
    BY <2>5, <2>6 DEF n, WSIZE
  <2>8. Promised!Becomes(k, Regions'[k])
    BY <1>1, <1>5, Becoming DEF q
  <2>9. ~ Promised!InUse(k)
    BY <1>2, InUseIs
  <2> QED
    BY <2>7, <2>8, <2>9 DEF Promised!Allocate
<1> QED
  BY <1>4, <1>5

LEMMA FreeIsPromised ==
  ASSUME NEW kind \in Kinds, NEW B, Laid(kind, heap, B), Owned(heap.mem, B, held), NEW k \in Handles, Releases(kind, k)
  PROVE  Promised!Release(k) \/ UNCHANGED Regions
<1>1. PICK C : Continues(kind, heap, B, held, heap', C, held', k)
  BY FreeContinues
<1>2. held \in [Handles -> Things] /\ held' = [held EXCEPT ![k] = [ptr |-> NULL, size |-> 0]]
  BY DEF Owned, Releases
<1>3. held'[k].ptr = NULL
  BY <1>2
<1>4. Regions' = [Regions EXCEPT ![k] = Nowhere]
  BY <1>1, <1>3, OthersKeepRegions DEF RegionOf
<1>5. CASE held[k].ptr = NULL
  <2>1. Regions[k] = Nowhere
    BY <1>5, RegionsAre DEF RegionOf
  <2> QED
    BY <1>4, <2>1 DEF Regions
<1>6. CASE held[k].ptr # NULL
  <2>1. Promised!InUse(k)
    BY <1>2, <1>6, InUseIs
  <2> QED
    BY <1>4, <2>1 DEF Promised!Release
<1> QED
  BY <1>5, <1>6

LEMMA ReallocIsPromised ==
  ASSUME NEW kind \in Kinds, NEW B, Laid(kind, heap, B), Owned(heap.mem, B, held), NEW k \in Handles,
         NEW size \in Nat, size % 4 = 0, held[k].size % 4 = 0, Reallots(kind, k, size)
  PROVE  Promised!Realloc(k, size) \/ Promised!Release(k) \/ UNCHANGED Regions
<1> DEFINE p == held[k].ptr
           o == held[k].size \div WSIZE
           n == size \div WSIZE
           q == reallocOf(kind, heap, p, size).ptr
           m == heap.mem
           g == heap'.mem
           old == RegionOf(m, held[k]).words
           new == RegionOf(g, held'[k]).words
<1>1. PICK C : /\ Continues(kind, heap, B, held, heap', C, held', k)
               /\ q = NULL /\ size > 0 => Kept(m, g, p - 1)
               /\ q # NULL => Carried(m, held[k], g, q, size, k)
  BY ReallocContinues
<1> DEFINE x == IF q = NULL /\ size > 0 THEN held[k]
                ELSE Given(reallocOf(kind, heap, p, size), size)
<1>0. p # NULL /\ held' = [held EXCEPT ![k] = x]
  BY DEF Reallots
<1>2. held \in [Handles -> Things] /\ held[k] \in Things /\ p \in Nat /\ held[k].size \in Nat
  BY DEF Owned, Things
<1>3. held'[k] \in Things
  BY <1>1 DEF Continues, Owned
<1>4. held'[k] = IF q = NULL /\ size > 0 THEN held[k]
                 ELSE Given(reallocOf(kind, heap, p, size), size)
  <2>1. x = IF q = NULL /\ size > 0 THEN held[k]
            ELSE Given(reallocOf(kind, heap, p, size), size)
    OBVIOUS
  <2> HIDE DEF x
  <2>2. held'[k] = x
    BY <1>0, <1>2
  <2> QED
    BY <2>1, <2>2
<1>5. Promised!InUse(k)
  BY <1>0, <1>2, InUseIs
<1>6. CASE q = NULL /\ size > 0
  <2>1. held'[k] = held[k]
    BY <1>4, <1>6
  <2>2. RegionOf(g, held[k]) = RegionOf(m, held[k])
    BY <1>1, <1>6, RegionKept
  <2>3. RegionOf(g, held'[k]) = Regions[k]
    BY <2>1, <2>2, RegionsAre
  <2>4. Regions' = [Regions EXCEPT ![k] = RegionOf(g, held'[k])]
    BY <1>1, OthersKeepRegions
  <2> QED
    BY <2>3, <2>4 DEF Regions
<1>7. CASE q = NULL /\ ~ size > 0
  <2>1. held'[k].ptr = NULL
    BY <1>4, <1>7 DEF Given
  <2>2. Regions' = [Regions EXCEPT ![k] = Nowhere]
    BY <1>1, <2>1, OthersKeepRegions DEF RegionOf
  <2> QED
    BY <1>5, <2>2 DEF Promised!Release
<1>8. CASE q # NULL
  <2>1. held'[k].ptr = q /\ held'[k].size = size
    BY <1>4, <1>8 DEF Given
  <2>2. q \in Nat
    BY <1>3, <2>1 DEF Things
  <2>3. new = [i \in 1 .. n |-> g[q + i - 1]]
    BY <1>3, <1>8, <2>1, RegionFacts
  <2>4. old = [i \in 1 .. o |-> m[p + i - 1]] /\ DOMAIN old = 1 .. o
    BY <1>0, <1>2, RegionFacts
  <2>5. n \in Nat /\ o \in Nat
    BY <1>2 DEF WSIZE
  <2>6. Carried(m, held[k], g, q, size, k)
    BY <1>1, <1>8
  <2>7. \A i \in Nat : i < n => g[q + i] = IF i < o THEN m[p + i] ELSE k
    BY <2>6 DEF Carried
  <2> HIDE DEF n, o, p, q, m, g, old, new
  <2>8. ASSUME NEW i \in 1 .. n
        PROVE  g[q + i - 1] = IF i \in DOMAIN old THEN old[i] ELSE k
    <3>1. i - 1 \in Nat /\ i - 1 < n /\ q + (i - 1) = q + i - 1
          /\ p + (i - 1) = p + i - 1 /\ (i - 1 < o <=> i \in 1 .. o)
      BY <1>2, <2>2, <2>5 DEF p
    <3>2. g[q + (i - 1)] = IF i - 1 < o THEN m[p + (i - 1)] ELSE k
      BY <2>7, <3>1
    <3> QED
      BY <2>4, <3>1, <3>2
  <2>9. new = [i \in 1 .. n |-> IF i \in DOMAIN old THEN old[i] ELSE k]
    BY <2>3, <2>8
  <2>10. Regions'[k].words = new /\ Regions[k].words = old
    BY RegionsAre DEF new, old, g, m
  <2>11. Regions'[k].words = [i \in 1 .. size \div 4 |->
                                IF i \in DOMAIN Regions[k].words THEN Regions[k].words[i] ELSE k]
    BY <2>9, <2>10 DEF n, WSIZE
  <2>12. Promised!Becomes(k, Regions'[k])
    BY <1>1, <1>8, <2>1, Becoming DEF q, p
  <2> QED
    BY <1>5, <2>11, <2>12 DEF Promised!Realloc
<1> QED
  BY <1>6, <1>7, <1>8

(* A client whose requests are whole words.                                *)
Whole == \A k \in Handles : held[k].size % 4 = 0

WordRequests == Sizes \subseteq Nat /\ \A size \in Sizes : size % 4 = 0

LEMMA WholeStart ==
  ASSUME NEW kind, Starts(kind)
  PROVE  Whole
BY DEF Starts, Whole

LEMMA WholeStep ==
  ASSUME WordRequests, NEW kind \in Kinds, Inv(kind), Whole, Steps(kind)
  PROVE  Whole'
<1>1. held \in [Handles -> Things]
  BY HeldIs
<1>2. ASSUME NEW k \in Handles, NEW x, held' = [held EXCEPT ![k] = x], x.size % 4 = 0
      PROVE  Whole'
  BY <1>1, <1>2 DEF Whole
<1>3. ASSUME NEW r, NEW size \in Sizes PROVE Given(r, size).size % 4 = 0
  BY DEF Given, WordRequests
<1>4. ASSUME NEW k \in Handles, NEW size \in Sizes, NEW word, Allots(kind, k, size, word)
      PROVE  Whole'
  BY <1>2, <1>3, <1>4 DEF Allots
<1>5. ASSUME NEW k \in Handles, NEW size \in Sizes, Reallots(kind, k, size) PROVE Whole'
  <2> DEFINE r == reallocOf(kind, heap, held[k].ptr, size)
             x == IF r.ptr = NULL /\ size > 0 THEN held[k] ELSE Given(r, size)
  <2>1. held' = [held EXCEPT ![k] = x]
    BY <1>5 DEF Reallots
  <2>2. x.size % 4 = 0
    BY <1>3 DEF Whole
  <2> HIDE DEF x
  <2> QED
    BY <1>2, <2>1, <2>2
<1>6. ASSUME NEW k \in Handles, Releases(kind, k) PROVE Whole'
  <2>1. held' = [held EXCEPT ![k] = [ptr |-> NULL, size |-> 0]]
    BY <1>6 DEF Releases
  <2>2. [ptr |-> NULL, size |-> 0].size % 4 = 0
    OBVIOUS
  <2> QED
    BY <1>2, <2>1, <2>2
<1>7. CASE UNCHANGED <<heap, held>>
  BY <1>7 DEF Whole
<1> QED
  BY <1>4, <1>5, <1>6, <1>7 DEF Steps

LEMMA StartIsPromised ==
  ASSUME NEW kind, Starts(kind)
  PROVE  Promised!SpecInit
BY DEF Starts, Promised!SpecInit, Regions, RegionOf

LEMMA StepIsPromised ==
  ASSUME WordRequests, NEW kind \in Kinds, Inv(kind), Whole, Steps(kind)
  PROVE  Promised!SpecNext \/ UNCHANGED Regions
<1>1. PICK B : Laid(kind, heap, B) /\ Owned(heap.mem, B, held)
  BY DEF Inv
<1>2. ASSUME NEW k \in Handles, NEW size \in Sizes, Allots(kind, k, size, k)
      PROVE  Promised!SpecNext \/ UNCHANGED Regions
  <2>1. Promised!Malloc(k, size) \/ UNCHANGED Regions
    BY <1>1, <1>2, AllotIsPromised DEF Promised!Malloc, WordRequests
  <2> QED
    BY <2>1 DEF Promised!SpecNext
<1>3. ASSUME NEW k \in Handles, NEW size \in Sizes, Allots(kind, k, size, 0)
      PROVE  Promised!SpecNext \/ UNCHANGED Regions
  <2>1. Promised!Calloc(k, size) \/ UNCHANGED Regions
    BY <1>1, <1>3, AllotIsPromised DEF Promised!Calloc, WordRequests
  <2> QED
    BY <2>1 DEF Promised!SpecNext
<1>4. ASSUME NEW k \in Handles, NEW size \in Sizes, Reallots(kind, k, size)
      PROVE  Promised!SpecNext \/ UNCHANGED Regions
  <2>1. size \in Nat /\ size % 4 = 0 /\ held[k].size % 4 = 0
    BY DEF WordRequests, Whole
  <2>2. Promised!Realloc(k, size) \/ Promised!Release(k) \/ UNCHANGED Regions
    BY <1>1, <1>4, <2>1, ReallocIsPromised
  <2> QED
    BY <2>2 DEF Promised!SpecNext
<1>5. ASSUME NEW k \in Handles, Releases(kind, k)
      PROVE  Promised!SpecNext \/ UNCHANGED Regions
  BY <1>1, <1>5, FreeIsPromised DEF Promised!SpecNext
<1>6. CASE UNCHANGED <<heap, held>>
  BY <1>6 DEF Regions
<1> QED
  BY <1>2, <1>3, <1>4, <1>5, <1>6 DEF Steps

(* No call changes the words of a region other than its own, realloc       *)
(* carries the words over, and those of calloc are 0: the implicit list    *)
(* implements HeapSpec for every client whose requests are whole words,    *)
THEOREM HeapKeepsPromise ==
  ASSUME WordRequests
  PROVE  Calls!Spec => Promised!Promise
<1>1. "implicit" \in Kinds /\ Room("implicit") /\ Sizes \subseteq Nat
  BY OneOfTwo DEF Kinds, Room, WordRequests
<1>2. Calls!Init => Promised!SpecInit /\ Whole
  BY StartIs, StartIsPromised, WholeStart
<1>3. Inv("implicit") /\ Whole /\ [Calls!Next]_Calls!callVars
      => Whole' /\ [Promised!SpecNext]_Regions
  BY <1>1, HeldIs, StepIs, WholeStep, StepIsPromised
<1>4. Calls!Spec => []Inv("implicit")
  BY <1>1, ImplicitInv
<1> QED
  BY <1>2, <1>3, <1>4, PTL DEF Calls!Spec, Promised!Promise

(* and so does the explicit list, given the room for its first chunk.      *)
THEOREM ExplicitHeapKeepsPromise ==
  ASSUME WordRequests, 5 + CHUNKSIZE \div 4 <= MaxHeap
  PROVE  Explicit!Calls!Spec => Promised!Promise
<1>1. "explicit" \in Kinds /\ Room("explicit") /\ Sizes \subseteq Nat
  BY DEF Kinds, Room, WordRequests
<1>2. Explicit!Calls!Init => Promised!SpecInit /\ Whole
  BY ExplicitStartIs, StartIsPromised, WholeStart
<1>3. Inv("explicit") /\ Whole /\ [Explicit!Calls!Next]_Explicit!Calls!callVars
      => Whole' /\ [Promised!SpecNext]_Regions
  BY <1>1, HeldIs, ExplicitStepIs, WholeStep, StepIsPromised
<1>4. Explicit!Calls!Spec => []Inv("explicit")
  BY <1>1, ExplicitInv
<1> QED
  BY <1>2, <1>3, <1>4, PTL DEF Explicit!Calls!Spec, Promised!Promise

=============================================================================
