--------------------------- MODULE CachePairProofs ---------------------------
(***************************************************************************)
(* The inclusion property of replacement by recency, for every cache       *)
(* geometry and any trace: a cache with one line more in every set holds   *)
(* whatever the smaller one holds, and never has fewer hits.               *)
(***************************************************************************)
EXTENDS CachePair, CacheSimProofs

(* The proofs of one simulator, for the larger one.                        *)
LargeProofs == INSTANCE CacheSimProofs WITH
                 E <- E + 1, cache <- largeCache, initSet <- largeInitSet,
                 hits <- largeHits, misses <- largeMisses,
                 evictions <- largeEvictions

-----------------------------------------------------------------------------
(* The lines a of a set of the smaller cache and l of the larger one: a    *)
(* line of the smaller is in the larger one with the same priority, and    *)
(* what only the larger one holds is older.                                *)
Newer(a, l) == /\ a \subseteq l
               /\ \A e \in l \ a : \A m \in a : e.pri < m.pri

(* The inductive invariant: the two simulators count alike, and there is   *)
(* nothing only the larger cache holds before a set of the smaller one has *)
(* been full.                                                              *)
Nested(x) ==
  /\ largeInitSet[x] = initSet[x]
  /\ Newer(Lines(cache[x]), Lines(largeCache[x]))
  /\ Len(cache[x]) < E => /\ Lines(cache[x]) = Lines(largeCache[x])
                          /\ Len(cache[x]) = Len(largeCache[x])

PairInv == /\ Inv /\ LargeProofs!Inv
           /\ \A x \in Sets : Nested(x)
           /\ hits <= largeHits

-----------------------------------------------------------------------------
(* The instances CachePair and this module make of the simulator are the   *)
(* same.                                                                   *)
LEMMA SameShift ==
  /\ Large!Addr = Addr /\ LargeProofs!Addr = Addr
  /\ \A a : /\ Large!SetIndex(a) = SetIndex(a) /\ LargeProofs!SetIndex(a) = SetIndex(a)
            /\ Large!Tag(a) = Tag(a) /\ LargeProofs!Tag(a) = Tag(a)
  /\ Large!Sets = Sets /\ LargeProofs!Sets = Sets
  /\ LargeProofs!Tags = Tags /\ LargeProofs!Line = Line
<1>1. Large!Shifted = Shifted /\ LargeProofs!Shifted = Shifted
  BY DEF Large!Shifted, LargeProofs!Shifted, Shifted
<1>2. /\ Large!Mask = Mask /\ LargeProofs!Mask = Mask
      /\ Large!NumSets = NumSets /\ LargeProofs!NumSets = NumSets
      /\ Large!BlockBytes = BlockBytes /\ LargeProofs!BlockBytes = BlockBytes
      /\ Large!WayBytes = WayBytes /\ LargeProofs!WayBytes = WayBytes
  BY <1>1 DEF Large!Mask, LargeProofs!Mask, Mask, Large!NumSets, LargeProofs!NumSets, NumSets,
     Large!BlockBytes, LargeProofs!BlockBytes, BlockBytes,
     Large!WayBytes, LargeProofs!WayBytes, WayBytes
<1>3. Large!Addr = Addr /\ LargeProofs!Addr = Addr
  BY <1>1 DEF Large!Addr, LargeProofs!Addr, Addr
<1>4. \A a : /\ Large!SetIndex(a) = SetIndex(a) /\ LargeProofs!SetIndex(a) = SetIndex(a)
            /\ Large!Tag(a) = Tag(a) /\ LargeProofs!Tag(a) = Tag(a)
  BY <1>2 DEF Large!SetIndex, LargeProofs!SetIndex, SetIndex,
     Large!Tag, LargeProofs!Tag, Tag
<1>5. /\ Large!Sets = Sets /\ LargeProofs!Sets = Sets
      /\ LargeProofs!Tags = Tags
  BY <1>3, <1>4 DEF Large!Sets, LargeProofs!Sets, Sets, LargeProofs!Tags, Tags
<1>6. LargeProofs!Line = Line
  BY <1>5 DEF LargeProofs!Line, Line
<1> QED
  BY <1>3, <1>4, <1>5, <1>6

LEMMA SameInstance ==
  /\ Large!Init <=> LargeProofs!Init
  /\ \A a, id : Large!Access(a, id) <=> LargeProofs!Access(a, id)
<1>1. Large!Init <=> LargeProofs!Init
  BY SameShift DEF Large!Init, LargeProofs!Init
<1>2. ASSUME NEW x, NEW tag, NEW id
      PROVE  /\ Large!Hit(x, tag, id) <=> LargeProofs!Hit(x, tag, id)
             /\ Large!Insert(x, tag, id) <=> LargeProofs!Insert(x, tag, id)
             /\ Large!Replace(x, tag, id) <=> LargeProofs!Replace(x, tag, id)
  BY DEF Large!Hit, LargeProofs!Hit,
         Large!Insert, LargeProofs!Insert, Large!Replace, LargeProofs!Replace,
         Large!Step, LargeProofs!Step, Large!Touch, LargeProofs!Touch,
         Large!Cached, LargeProofs!Cached, Large!NextPri, LargeProofs!NextPri,
         Large!Extra, LargeProofs!Extra, Large!Victim, LargeProofs!Victim,
         Large!MinPri, LargeProofs!MinPri, Large!Min, LargeProofs!Min
<1>3. ASSUME NEW a, NEW id
      PROVE  Large!Access(a, id) <=> LargeProofs!Access(a, id)
  BY <1>2, SameShift DEF Large!Access, LargeProofs!Access
<1> QED
  BY <1>1, <1>3

LEMMA SameGeometry ==
  /\ LargeProofs!AddressAssumption /\ LargeProofs!CacheAssumption
  /\ LargeProofs!Sets = Sets /\ LargeProofs!Tags = Tags /\ LargeProofs!Line = Line
  /\ \A a : LargeProofs!SetIndex(a) = SetIndex(a) /\ LargeProofs!Tag(a) = Tag(a)
  /\ \A set : LargeProofs!Lines(set) = Lines(set)
  /\ \A id : LargeProofs!Extra(id) = Extra(id)
<1>1. LargeProofs!AddressAssumption /\ LargeProofs!CacheAssumption
  BY AddressAssumption, CacheAssumption
     DEF LargeProofs!AddressAssumption, LargeProofs!CacheAssumption
<1>2. /\ LargeProofs!Sets = Sets /\ LargeProofs!Tags = Tags /\ LargeProofs!Line = Line
      /\ \A a : LargeProofs!SetIndex(a) = SetIndex(a) /\ LargeProofs!Tag(a) = Tag(a)
  BY SameShift
<1>3. /\ \A set : LargeProofs!Lines(set) = Lines(set)
      /\ \A id : LargeProofs!Extra(id) = Extra(id)
  BY DEF LargeProofs!Lines, Lines, LargeProofs!Extra, Extra
<1> QED
  BY <1>1, <1>2, <1>3

-----------------------------------------------------------------------------
(* Whatever becomes of the set in each of the caches, it stays so.         *)
LEMMA NewerStays ==
  ASSUME NEW a, NEW l \in SUBSET Line, Newer(a, l),
         \A e, m \in l : e.tag = m.tag \/ e.pri = m.pri => e = m,
         NEW new \in Line, \A e \in l : e.pri < new.pri
  PROVE  /\ \A e \in a : e.tag = new.tag =>          \* a hit in both
               Newer((a \ {e}) \cup {new}, (l \ {e}) \cup {new})
         /\ \A v \in a : (\A e \in a : v.pri <= e.pri) =>
               /\ \A e \in l \ a :                   \* a hit in the larger
                     Newer((a \ {v}) \cup {new}, (l \ {e}) \cup {new})
               /\ Newer((a \ {v}) \cup {new}, l \cup {new})
               /\ \A w \in l : (\A e \in l : w.pri <= e.pri) =>
                     Newer((a \ {v}) \cup {new}, (l \ {w}) \cup {new})
<1>1. /\ a \subseteq l /\ new \notin l /\ new.pri \in Nat
      /\ \A e \in l : e.pri \in Nat
      /\ \A e \in l \ a : \A m \in a : e.pri < m.pri
  BY DEF Newer, Line
<1>2. ASSUME NEW e \in a
      PROVE  Newer((a \ {e}) \cup {new}, (l \ {e}) \cup {new})
  BY <1>1 DEF Newer
<1>3. ASSUME NEW v \in a, \A e \in a : v.pri <= e.pri, NEW x \in SUBSET (l \ a)
      PROVE  Newer((a \ {v}) \cup {new}, (l \ x) \cup {new})
  <2>1. (a \ {v}) \cup {new} \subseteq (l \ x) \cup {new}
    BY <1>1
  <2>2. \A m \in a \ {v} : v.pri < m.pri
    BY <1>1, <1>3
  <2>3. ASSUME NEW e \in ((l \ x) \cup {new}) \ ((a \ {v}) \cup {new})
        PROVE  \A m \in (a \ {v}) \cup {new} : e.pri < m.pri
    <3>1. e \in l /\ (e \in l \ a \/ e = v)
      BY <2>3
    <3> QED
      BY <1>1, <2>2, <3>1
  <2> QED
    BY <2>1, <2>3 DEF Newer
<1>4. ASSUME NEW v \in a, \A e \in a : v.pri <= e.pri,
             NEW w \in l, \A e \in l : w.pri <= e.pri
      PROVE  Newer((a \ {v}) \cup {new}, (l \ {w}) \cup {new})
  <2>1. CASE w \notin a
    BY <1>3, <1>4, <2>1
  <2>2. CASE w \in a
    <3>1. l = a
      <4>1. ASSUME NEW e \in l \ a PROVE FALSE
        <5>1. e.pri < w.pri /\ w.pri <= e.pri /\ e.pri \in Nat /\ w.pri \in Nat
          BY <1>1, <1>4, <2>2, <4>1
        <5> QED
          BY <5>1
      <4> QED
        BY <1>1, <4>1
    <3>2. w = v
      <4>1. w.pri = v.pri
        BY <1>1, <1>4, <2>2
      <4> QED
        BY <1>1, <1>4, <4>1
    <3> QED
      BY <1>2, <1>4, <3>1, <3>2
  <2> QED
    BY <2>1, <2>2
<1>5. \A v \in a : (\A e \in a : v.pri <= e.pri) =>
         /\ \A e \in l \ a : Newer((a \ {v}) \cup {new}, (l \ {e}) \cup {new})
         /\ Newer((a \ {v}) \cup {new}, l \cup {new})
  <2> SUFFICES ASSUME NEW v \in a, \A e \in a : v.pri <= e.pri
               PROVE  /\ \A e \in l \ a : Newer((a \ {v}) \cup {new}, (l \ {e}) \cup {new})
                      /\ Newer((a \ {v}) \cup {new}, l \cup {new})
    OBVIOUS
  <2>1. ASSUME NEW e \in l \ a
        PROVE  Newer((a \ {v}) \cup {new}, (l \ {e}) \cup {new})
    BY <1>3
  <2>2. Newer((a \ {v}) \cup {new}, (l \ {}) \cup {new})
    BY <1>3
  <2>3. l \ {} = l
    OBVIOUS
  <2> QED
    BY <2>1, <2>2, <2>3
<1> QED
  BY <1>2, <1>4, <1>5

(* One access by both simulators, to the set it goes to.                   *)
LEMMA NestedAccess ==
  ASSUME PairInv, NEW a \in Addr, NEW id,
         Access(a, id), LargeProofs!Access(a, id)
  PROVE  Nested(SetIndex(a))' /\ (hits <= largeHits)'
<1> DEFINE x == SetIndex(a)
           t == Tag(a)
           n == NextPri(x)
           new == [tag |-> t, pri |-> n]
           A == Lines(cache[x])
           L == Lines(largeCache[x])
           A2 == Lines(cache'[x])
           L2 == Lines(largeCache'[x])
<1>1. x \in Sets /\ t \in Tags /\ Inv /\ LargeProofs!Inv /\ Nested(x)
  BY AddressParts DEF PairInv
<1>2. /\ Newer(A, L) /\ L \in SUBSET Line
      /\ \A e, m \in L : e.tag = m.tag \/ e.pri = m.pri => e = m
      /\ new \in Line /\ \A e \in L : e.pri < new.pri
  <2>1. /\ L \subseteq Line /\ \A e \in L : e.pri \in 1 .. largeInitSet[x]
        /\ \A e, m \in L : e.tag = m.tag \/ e.pri = m.pri => e = m
    BY <1>1, SameGeometry, LargeProofs!LinesSound
  <2>2. initSet[x] \in Nat /\ largeInitSet[x] = initSet[x] /\ new.pri = initSet[x] + 1
    BY <1>1 DEF Nested, Inv, TypeOK, NextPri
  <2> QED
    BY <1>1, <2>1, <2>2 DEF Nested, Line
<1>3. LargeProofs!NextPri(x) = n
  BY <1>1 DEF Nested, NextPri, LargeProofs!NextPri
<1>4. initSet'[x] = n /\ largeInitSet'[x] = n
  <2>1. initSet' = [initSet EXCEPT ![x] = n]
    BY DEF Access, Hit, Insert, Replace, Step
  <2>2. largeInitSet' = [largeInitSet EXCEPT ![x] = n]
    BY <1>3, SameGeometry
       DEF LargeProofs!Access, LargeProofs!Hit, LargeProofs!Insert,
           LargeProofs!Replace, LargeProofs!Step
  <2> QED
    BY <1>1, <2>1, <2>2, SameGeometry DEF Inv, TypeOK, LargeProofs!Inv, LargeProofs!TypeOK
<1>5. \/ /\ Hit(x, t, id) /\ Renews(x, t, n) /\ Len(cache'[x]) = Len(cache[x])
      \/ /\ Insert(x, t, id) /\ Adds(x, t, n)
         /\ Len(cache[x]) < E /\ Len(cache'[x]) = Len(cache[x]) + 1
      \/ /\ Replace(x, t, id) /\ Evicts(x, t, n)
         /\ Len(cache[x]) = E /\ Len(cache'[x]) = E
  BY <1>1, HitEffect, InsertEffect, ReplaceEffect DEF Access
<1>6. \/ /\ LargeProofs!Hit(x, t, id) /\ LargeProofs!Renews(x, t, n)
         /\ Len(largeCache'[x]) = Len(largeCache[x])
      \/ /\ LargeProofs!Insert(x, t, id) /\ LargeProofs!Adds(x, t, n)
         /\ Len(largeCache[x]) < E + 1 /\ Len(largeCache'[x]) = Len(largeCache[x]) + 1
      \/ /\ LargeProofs!Replace(x, t, id) /\ LargeProofs!Evicts(x, t, n)
         /\ Len(largeCache[x]) = E + 1 /\ Len(largeCache'[x]) = E + 1
  BY <1>1, <1>3, SameGeometry, LargeProofs!HitEffect, LargeProofs!InsertEffect,
     LargeProofs!ReplaceEffect DEF LargeProofs!Access
<1>7. /\ LargeProofs!Renews(x, t, n) =>
            \E l \in L : l.tag = t /\ L2 = (L \ {l}) \cup {new}
      /\ LargeProofs!Adds(x, t, n) => (\A l \in L : l.tag # t) /\ L2 = L \cup {new}
      /\ LargeProofs!Evicts(x, t, n) =>
            /\ \A l \in L : l.tag # t
            /\ \E v \in L : /\ \A l \in L : v.pri <= l.pri
                            /\ L2 = (L \ {v}) \cup {new}
  BY SameGeometry DEF LargeProofs!Renews, LargeProofs!Adds, LargeProofs!Evicts
<1>8. /\ Renews(x, t, n) => \E l \in A : l.tag = t /\ A2 = (A \ {l}) \cup {new}
      /\ Adds(x, t, n) => (\A l \in A : l.tag # t) /\ A2 = A \cup {new}
      /\ Evicts(x, t, n) =>
            /\ \A l \in A : l.tag # t
            /\ \E v \in A : /\ \A l \in A : v.pri <= l.pri
                            /\ A2 = (A \ {v}) \cup {new}
  BY DEF Renews, Adds, Evicts
<1>9. new.tag = t
  OBVIOUS
<1>10. Len(cache[x]) < E => A = L /\ Len(cache[x]) = Len(largeCache[x])
  BY <1>1 DEF Nested
<1>11. E \in Nat /\ Len(cache[x]) \in Nat /\ Len(largeCache[x]) \in Nat
  BY <1>1, CacheAssumption, SameGeometry
     DEF Inv, TypeOK, LargeProofs!Inv, LargeProofs!TypeOK
<1>12. /\ {hits, largeHits} \subseteq Nat /\ hits <= largeHits
       /\ Extra(id) \in Nat /\ LargeProofs!Extra(id) = Extra(id)
  BY SameGeometry
     DEF PairInv, Inv, TypeOK, LargeProofs!Inv, LargeProofs!TypeOK, Extra
<1>13. A \subseteq L
  BY <1>2 DEF Newer
<1>14. /\ Newer(A2, L2)
       /\ Len(cache'[x]) < E => A2 = L2 /\ Len(cache'[x]) = Len(largeCache'[x])
       /\ hits' <= largeHits'
  <2>1. CASE Hit(x, t, id) /\ Renews(x, t, n) /\ Len(cache'[x]) = Len(cache[x])
    <3>1. PICK l \in A : l.tag = t /\ A2 = (A \ {l}) \cup {new}
      BY <1>8, <2>1
    <3>2. LargeProofs!Hit(x, t, id) /\ LargeProofs!Renews(x, t, n) /\ Len(largeCache'[x]) = Len(largeCache[x])
      BY <1>6, <1>7, <1>13, <3>1
    <3>3. L2 = (L \ {l}) \cup {new}
      BY <1>2, <1>7, <1>13, <3>1, <3>2
    <3>4. Newer(A2, L2)
      <4> HIDE DEF A, L, A2, L2, new, t, n
      <4> QED
        BY <1>2, <1>9, <3>1, <3>3, NewerStays
    <3>5. hits' = hits + 1 + Extra(id) /\ largeHits' = largeHits + 1 + Extra(id)
      BY <1>12, <2>1, <3>2 DEF Hit, LargeProofs!Hit
    <3> QED
      BY <1>10, <1>12, <2>1, <3>1, <3>2, <3>3, <3>4, <3>5
  <2>2. CASE /\ Insert(x, t, id) /\ Adds(x, t, n)
             /\ Len(cache[x]) < E /\ Len(cache'[x]) = Len(cache[x]) + 1
    <3>1. A = L /\ Len(cache[x]) = Len(largeCache[x]) /\ A2 = A \cup {new}
      BY <1>8, <1>10, <2>2
    <3>2. /\ LargeProofs!Insert(x, t, id) /\ LargeProofs!Adds(x, t, n)
          /\ Len(largeCache'[x]) = Len(largeCache[x]) + 1
      BY <1>6, <1>7, <1>8, <1>11, <2>2, <3>1
    <3>3. L2 = A2
      BY <1>7, <3>1, <3>2
    <3>4. hits' = hits + Extra(id) /\ largeHits' = largeHits + Extra(id)
      BY <1>12, <2>2, <3>2 DEF Insert, LargeProofs!Insert
    <3>5. hits' <= largeHits'
      BY <1>12, <3>4
    <3>6. Newer(A2, L2)
      BY <3>3 DEF Newer
    <3> QED
      BY <2>2, <3>1, <3>2, <3>3, <3>5, <3>6
  <2>3. CASE /\ Replace(x, t, id) /\ Evicts(x, t, n)
             /\ Len(cache[x]) = E /\ Len(cache'[x]) = E
    <3>1. PICK v \in A : /\ \A l \in A : v.pri <= l.pri
                         /\ A2 = (A \ {v}) \cup {new}
      BY <1>8, <2>3
    <3>2. \A l \in A : l.tag # t
      BY <1>8, <2>3
    <3>3. \/ \E l \in L \ A : L2 = (L \ {l}) \cup {new}
          \/ L2 = L \cup {new}
          \/ \E w \in L : (\A l \in L : w.pri <= l.pri) /\ L2 = (L \ {w}) \cup {new}
      BY <1>6, <1>7, <3>2
    <3>4. Newer(A2, L2)
      <4> HIDE DEF A, L, A2, L2, new, t, n
      <4>1. /\ \A e \in L \ A : Newer(A2, (L \ {e}) \cup {new})
            /\ Newer(A2, L \cup {new})
            /\ \A w \in L : (\A e \in L : w.pri <= e.pri) =>
                  Newer(A2, (L \ {w}) \cup {new})
        BY <1>2, <3>1, NewerStays
      <4> QED
        BY <3>3, <4>1
    <3>5. hits' = hits + Extra(id)
      BY <2>3 DEF Replace
    <3>6. largeHits' = largeHits + 1 + Extra(id) \/ largeHits' = largeHits + Extra(id)
      BY <1>6, <1>12 DEF LargeProofs!Hit, LargeProofs!Insert, LargeProofs!Replace
    <3>7. hits' <= largeHits'
      BY <1>12, <3>5, <3>6
    <3> QED
      BY <1>11, <2>3, <3>4, <3>7
  <2> QED
    BY <1>5, <2>1, <2>2, <2>3
<1> QED
  BY <1>4, <1>14 DEF Nested

-----------------------------------------------------------------------------
LEMMA PairInvInit == PairInit => PairInv
<1> SUFFICES ASSUME PairInit PROVE PairInv
  OBVIOUS
<1>1. Init /\ LargeProofs!Init
  BY SameInstance DEF PairInit
<1>2. Inv /\ LargeProofs!Inv
  BY <1>1, InitSound, LargeProofs!InitSound, SameGeometry
<1>3. hits <= largeHits
  BY <1>1 DEF Init, LargeProofs!Init
<1>4. ASSUME NEW x \in Sets PROVE Nested(x)
  <2>1. /\ cache[x] = <<>> /\ largeCache[x] = <<>>
        /\ initSet[x] = 0 /\ largeInitSet[x] = 0
    BY <1>1, SameGeometry DEF Init, LargeProofs!Init
  <2> QED
    BY <2>1 DEF Nested, Newer, Lines
<1> QED
  BY <1>2, <1>3, <1>4 DEF PairInv

LEMMA NestedFrame ==
  ASSUME NEW y, Nested(y),
         cache'[y] = cache[y], initSet'[y] = initSet[y],
         largeCache'[y] = largeCache[y], largeInitSet'[y] = largeInitSet[y]
  PROVE  Nested(y)'
<1>1. Nested(y)' <=>
        /\ largeInitSet'[y] = initSet'[y]
        /\ Newer(Lines(cache'[y]), Lines(largeCache'[y]))
        /\ Len(cache'[y]) < E => /\ Lines(cache'[y]) = Lines(largeCache'[y])
                                 /\ Len(cache'[y]) = Len(largeCache'[y])
  BY DEF Nested
<1> QED
  BY <1>1 DEF Nested

(* An access leaves the other sets alone.                                  *)
LEMMA OtherSets ==
  ASSUME PairInv, NEW a \in Addr, NEW id,
         Access(a, id), LargeProofs!Access(a, id),
         NEW y \in Sets, y # SetIndex(a)
  PROVE  Nested(y)'
<1>1. cache'[y] = cache[y] /\ initSet'[y] = initSet[y]
  BY DEF PairInv, Inv, TypeOK, Access, Hit, Insert, Replace, Step, Touch
<1>2. largeCache'[y] = largeCache[y] /\ largeInitSet'[y] = largeInitSet[y]
  <2>1. y \in LargeProofs!Sets /\ y # LargeProofs!SetIndex(a)
    BY SameGeometry
  <2> QED
    BY <2>1 DEF PairInv, LargeProofs!Inv, LargeProofs!TypeOK, LargeProofs!Access,
       LargeProofs!Hit, LargeProofs!Insert, LargeProofs!Replace,
       LargeProofs!Step, LargeProofs!Touch
<1>3. Nested(y)
  BY DEF PairInv
<1> QED
  BY <1>1, <1>2, <1>3, NestedFrame

LEMMA PairInvPreserved == PairInv /\ [PairNext]_<<simVars, largeVars>> => PairInv'
<1> SUFFICES ASSUME PairInv, [PairNext]_<<simVars, largeVars>> PROVE PairInv'
  OBVIOUS
<1>1. CASE PairNext
  <2>1. PICK a \in Addr, id \in {"L", "S", "M"} :
           Access(a, id) /\ LargeProofs!Access(a, id)
    BY <1>1, SameInstance DEF PairNext
  <2>2. Inv'
    BY <2>1, StepSound DEF PairInv, Next
  <2>3. LargeProofs!Inv'
    <3>1. LargeProofs!Next
      BY <2>1, SameShift DEF LargeProofs!Next
    <3> QED
      BY <3>1, LargeProofs!StepSound, SameGeometry DEF PairInv
  <2>4. \A x \in Sets : Nested(x)'
    BY <2>1, NestedAccess, OtherSets
  <2> QED
    BY <2>1, <2>2, <2>3, <2>4, NestedAccess DEF PairInv
<1>2. CASE UNCHANGED <<simVars, largeVars>>
  <2>1. UNCHANGED simVars /\ UNCHANGED <<largeCache, largeInitSet, largeHits, largeMisses, largeEvictions, accesses>>
    BY <1>2 DEF simVars, largeVars
  <2>2. Inv'
    BY <2>1, StepSound DEF PairInv
  <2>3. LargeProofs!Inv'
    <3>1. UNCHANGED LargeProofs!simVars
      BY <2>1 DEF LargeProofs!simVars
    <3> QED
      BY <3>1, LargeProofs!StepSound, SameGeometry DEF PairInv
  <2>4. \A x \in Sets : Nested(x)'
    BY <2>1, NestedFrame DEF PairInv, simVars
  <2> QED
    BY <2>1, <2>2, <2>3, <2>4 DEF PairInv, simVars
<1> QED
  BY <1>1, <1>2

(* At any point of any trace the cache with one line more in every set     *)
(* holds every block of the smaller one and has had as many hits.          *)
THEOREM LargerCacheIncludes == PairSpec => []Inclusion
<1>1. PairInv => Inclusion
  <2> SUFFICES ASSUME PairInv, NEW x \in Sets
               PROVE  Blocks(cache[x]) \subseteq Blocks(largeCache[x])
    BY DEF Inclusion, PairInv
  <2>1. Lines(cache[x]) \subseteq Lines(largeCache[x])
    BY DEF PairInv, Nested, Newer
  <2> QED
    BY <2>1 DEF Lines, Blocks
<1> QED
  BY <1>1, PairInvInit, PairInvPreserved, PTL DEF PairSpec

=============================================================================
