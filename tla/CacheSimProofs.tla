--------------------------- MODULE CacheSimProofs ---------------------------
(***************************************************************************)
(* The sets of the cache simulator for every cache geometry and any trace: *)
(* their lines stay distinct and ordered, and the line replaced is the one *)
(* used least recently.                                                    *)
(***************************************************************************)
EXTENDS CacheSim, NatFacts, FiniteSetTheorems, FunctionTheorems

Inv == TypeOK /\ SetsSound

LEMMA AddressParts ==
  ASSUME NEW a \in Addr
  PROVE  SetIndex(a) \in Sets /\ Tag(a) \in Tags
BY DEF Sets, Tags

(* Where a miss in a full set puts the new block: no other line of the set *)
(* has been used less recently.                                            *)
THEOREM VictimIsOldest ==
  ASSUME Inv, NEW x \in Sets, cache[x] # <<>>
  PROVE  /\ Victim(x) \in DOMAIN cache[x]
         /\ \A j \in DOMAIN cache[x] : cache[x][Victim(x)].pri <= cache[x][j].pri
<1> DEFINE D == DOMAIN cache[x]
           P == {initSet[x]} \cup {cache[x][i].pri : i \in D}
<1>1. /\ initSet[x] \in Nat
      /\ \A i \in D : cache[x][i].pri \in Nat /\ cache[x][i].pri <= initSet[x]
      /\ D \in SUBSET Nat /\ D # {}
  BY DEF Inv, TypeOK, SetsSound, SetSound, Line
<1>2. \E m \in P : \A y \in P : m <= y
  <2>1. P \in SUBSET Nat /\ P # {}
    BY <1>1
  <2> QED
    BY <2>1, LeastNat
<1>3. MinPri(x) \in P /\ \A y \in P : MinPri(x) <= y
  BY <1>2 DEF MinPri, Min
<1>4. \E i \in D : cache[x][i].pri = MinPri(x)
  <2>1. CASE \E i \in D : cache[x][i].pri = MinPri(x)
    BY <2>1
  <2>2. CASE MinPri(x) = initSet[x]
    <3>1. PICK i \in D : TRUE
      BY <1>1
    <3>2. cache[x][i].pri = initSet[x]
      <4>1. initSet[x] <= cache[x][i].pri
        BY <1>3, <2>2
      <4>2. cache[x][i].pri \in Nat /\ cache[x][i].pri <= initSet[x]
        BY <1>1
      <4> QED
        BY <1>1, <4>1, <4>2
    <3> QED
      BY <2>2, <3>2
  <2> QED
    BY <1>3, <2>1, <2>2
<1>5. \E i \in D : /\ cache[x][i].pri = MinPri(x)
                   /\ \A j \in D : cache[x][j].pri = MinPri(x) => i <= j
  <2> DEFINE M == {i \in D : cache[x][i].pri = MinPri(x)}
  <2>1. \E i \in M : \A j \in M : i <= j
    BY <1>1, <1>4, LeastNat
  <2> QED
    BY <2>1
<1>6. Victim(x) \in D /\ cache[x][Victim(x)].pri = MinPri(x)
  BY <1>5 DEF Victim
<1> QED
  BY <1>3, <1>6

-----------------------------------------------------------------------------
LEMMA InitSound == Init => Inv
<1> SUFFICES ASSUME Init PROVE Inv
  OBVIOUS
<1>1. TypeOK
  BY DEF Init, TypeOK
<1>2. ASSUME NEW x \in Sets PROVE SetSound(x)
  <2>1. cache[x] = <<>> /\ initSet[x] = 0
    BY DEF Init
  <2>2. E \in Nat /\ Len(cache[x]) = 0 /\ DOMAIN cache[x] = {}
    BY <2>1, CacheAssumption
  <2> QED
    BY <2>1, <2>2 DEF SetSound
<1> QED
  BY <1>1, <1>2 DEF Inv, SetsSound

LEMMA HitSound ==
  ASSUME Inv, NEW x \in Sets, NEW t \in Tags, NEW id, Hit(x, t, id)
  PROVE  Inv'
<1> DEFINE n == NextPri(x)
           D == DOMAIN cache[x]
           new == [i \in D |-> IF cache[x][i].tag = t
                               THEN [cache[x][i] EXCEPT !.pri = n]
                               ELSE cache[x][i]]
<1>1. /\ cache[x] \in Seq(Line) /\ n \in Nat /\ n = initSet[x] + 1
      /\ initSet[x] \in Nat /\ SetSound(x)
  BY DEF Inv, TypeOK, SetsSound, NextPri
<1>2. cache' = [cache EXCEPT ![x] = new] /\ initSet' = [initSet EXCEPT ![x] = n]
  BY DEF Hit, Touch, Step
<1>3. \A i \in D : /\ new[i].tag = cache[x][i].tag
                   /\ new[i].pri = IF cache[x][i].tag = t THEN n
                                   ELSE cache[x][i].pri
  BY <1>1 DEF Line
<1>4. new \in Seq(Line) /\ Len(new) = Len(cache[x]) /\ DOMAIN new = D
  <2>1. \A i \in D : cache[x][i] \in Line
    BY <1>1
  <2>2. \A i \in D : new[i] \in Line
    BY <1>1, <2>1 DEF Line
  <2>3. D = 1 .. Len(cache[x]) /\ Len(cache[x]) \in Nat
    BY <1>1
  <2>4. new \in [1 .. Len(cache[x]) -> Line]
    BY <2>2, <2>3
  <2> QED
    BY <2>3, <2>4
<1>5. TypeOK'
  BY <1>1, <1>2, <1>4 DEF Inv, TypeOK, Hit, Step, Extra
<1>6. SetSound(x)'
  <2>1. cache'[x] = new /\ initSet'[x] = n
    BY <1>2 DEF Inv, TypeOK
  <2>2. cache[x] # <<>> /\ new # <<>>
    BY <1>1, <1>4 DEF Hit, Cached
  <2>3. \A i \in D : new[i].pri \in 1 .. n
    BY <1>1, <1>3 DEF SetSound
  <2>4. ASSUME NEW i \in D, NEW j \in D,
               new[i].tag = new[j].tag \/ new[i].pri = new[j].pri
        PROVE  i = j
    <3>1. cache[x][i].tag = cache[x][j].tag \/ cache[x][i].pri = cache[x][j].pri
      BY <1>1, <1>3, <2>4 DEF SetSound
    <3> QED
      BY <1>1, <3>1 DEF SetSound
  <2> QED
    BY <1>1, <1>4, <2>1, <2>2, <2>3, <2>4 DEF SetSound
<1>7. ASSUME NEW y \in Sets, y # x PROVE SetSound(y)'
  BY <1>2, <1>7 DEF Inv, TypeOK, SetsSound, SetSound
<1> QED
  BY <1>5, <1>6, <1>7 DEF Inv, SetsSound

LEMMA InsertSound ==
  ASSUME Inv, NEW x \in Sets, NEW t \in Tags, NEW id, Insert(x, t, id)
  PROVE  Inv'
<1> DEFINE n == NextPri(x)
           l == [tag |-> t, pri |-> n]
           new == Append(cache[x], l)
<1>1. /\ cache[x] \in Seq(Line) /\ n \in Nat /\ n = initSet[x] + 1
      /\ initSet[x] \in Nat /\ SetSound(x)
  BY DEF Inv, TypeOK, SetsSound, NextPri
<1>2. cache' = [cache EXCEPT ![x] = new] /\ initSet' = [initSet EXCEPT ![x] = n]
  BY DEF Insert, Step
<1>3. l \in Line
  BY <1>1 DEF Line
<1>4. /\ new \in Seq(Line) /\ Len(new) = Len(cache[x]) + 1
      /\ \A i \in DOMAIN new : IF i = Len(new) THEN new[i] = l
                               ELSE i \in DOMAIN cache[x] /\ new[i] = cache[x][i]
  BY <1>1, <1>3
<1>5. TypeOK'
  BY <1>1, <1>2, <1>4 DEF Inv, TypeOK, Insert, Step, Extra
<1>6. SetSound(x)'
  <2>1. cache'[x] = new /\ initSet'[x] = n
    BY <1>2 DEF Inv, TypeOK
  <2>2. Len(new) <= E /\ new # <<>> /\ n # 0
    <3>1. Len(cache[x]) < E /\ E \in Nat /\ Len(cache[x]) \in Nat
      BY <1>1, CacheAssumption DEF Insert
    <3> HIDE DEF new, n
    <3> QED
      BY <1>1, <1>4, <3>1
  <2>3. \A i \in DOMAIN new : new[i].pri \in 1 .. n
    BY <1>1, <1>4 DEF SetSound
  <2>4. ASSUME NEW i \in DOMAIN new, NEW j \in DOMAIN new,
               new[i].tag = new[j].tag \/ new[i].pri = new[j].pri
        PROVE  i = j
    BY <1>1, <1>4, <2>4 DEF SetSound, Insert, Cached
  <2> QED
    BY <2>1, <2>2, <2>3, <2>4 DEF SetSound
<1>7. ASSUME NEW y \in Sets, y # x PROVE SetSound(y)'
  BY <1>2, <1>7 DEF Inv, TypeOK, SetsSound, SetSound
<1> QED
  BY <1>5, <1>6, <1>7 DEF Inv, SetsSound

LEMMA ReplaceSound ==
  ASSUME Inv, NEW x \in Sets, NEW t \in Tags, NEW id, Replace(x, t, id)
  PROVE  Inv'
<1> DEFINE n == NextPri(x)
           D == DOMAIN cache[x]
           v == Victim(x)
           l == [tag |-> t, pri |-> n]
           new == [cache[x] EXCEPT ![v] = l]
<1>1. /\ cache[x] \in Seq(Line) /\ n \in Nat /\ n = initSet[x] + 1
      /\ initSet[x] \in Nat /\ SetSound(x)
  BY DEF Inv, TypeOK, SetsSound, NextPri
<1>2. cache' = [cache EXCEPT ![x] = new] /\ initSet' = [initSet EXCEPT ![x] = n]
  BY DEF Replace, Step
<1>3. l \in Line /\ cache[x] # <<>>
  BY <1>1, CacheAssumption DEF Line, Replace
<1>4. v \in D
  BY <1>3, VictimIsOldest
<1>5. /\ new \in Seq(Line) /\ Len(new) = Len(cache[x]) /\ DOMAIN new = D
      /\ \A i \in D : new[i] = IF i = v THEN l ELSE cache[x][i]
  BY <1>1, <1>3, <1>4
<1>6. TypeOK'
  <2>1. cache' \in [Sets -> Seq(Line)] /\ initSet' \in [Sets -> Nat]
    BY <1>1, <1>2, <1>5 DEF Inv, TypeOK
  <2>2. {hits', misses', evictions', accesses'} \subseteq Nat
    BY DEF Inv, TypeOK, Replace, Step, Extra
  <2> QED
    BY <2>1, <2>2 DEF TypeOK
<1>7. SetSound(x)'
  <2>1. cache'[x] = new /\ initSet'[x] = n
    BY <1>2 DEF Inv, TypeOK
  <2>2. Len(new) <= E /\ new # <<>> /\ n # 0
    BY <1>1, <1>3, <1>5, CacheAssumption DEF Replace
  <2>3. \A i \in D : new[i].pri \in 1 .. n
    BY <1>1, <1>5 DEF SetSound
  <2>4. ASSUME NEW i \in D, NEW j \in D,
               new[i].tag = new[j].tag \/ new[i].pri = new[j].pri
        PROVE  i = j
    BY <1>1, <1>5, <2>4 DEF SetSound, Replace, Cached
  <2> QED
    BY <1>5, <2>1, <2>2, <2>3, <2>4 DEF SetSound
<1>8. ASSUME NEW y \in Sets, y # x PROVE SetSound(y)'
  BY <1>2, <1>8 DEF Inv, TypeOK, SetsSound, SetSound
<1> QED
  BY <1>6, <1>7, <1>8 DEF Inv, SetsSound

-----------------------------------------------------------------------------
(* The invariant of the simulator.                                         *)
LEMMA StepSound == Inv /\ [Next]_simVars => Inv'
<1> SUFFICES ASSUME Inv, [Next]_simVars PROVE Inv'
  OBVIOUS
<1>1. ASSUME NEW a \in Addr, NEW id, Access(a, id) PROVE Inv'
  BY <1>1, AddressParts, HitSound, InsertSound, ReplaceSound DEF Access
<1>2. CASE UNCHANGED simVars
  BY <1>2 DEF simVars, Inv, TypeOK, SetsSound, SetSound
<1> QED
  BY <1>1, <1>2 DEF Next

THEOREM Invariance == Spec => []Inv
BY InitSound, StepSound, PTL DEF Spec

(* No set ever holds a block twice or more than E lines, and priorities    *)
(* order its lines.                                                        *)
THEOREM SetsStaySound == Spec => []SetsSound
<1>1. Inv => SetsSound
  BY DEF Inv
<1> QED
  BY <1>1, Invariance, PTL

(* The lines, the priorities and the counters keep their types.            *)
THEOREM Typed == Spec => []TypeOK
<1>1. Inv => TypeOK
  BY DEF Inv
<1> QED
  BY <1>1, Invariance, PTL

-----------------------------------------------------------------------------
(* A set as the set of its lines, which is all an access depends on.       *)
Lines(set) == {set[i] : i \in DOMAIN set}

LEMMA LinesSound ==
  ASSUME Inv, NEW x \in Sets
  PROVE  /\ Lines(cache[x]) \subseteq Line
         /\ \A l \in Lines(cache[x]) : l.pri \in 1 .. initSet[x]
         /\ \A l, m \in Lines(cache[x]) :
               l.tag = m.tag \/ l.pri = m.pri => l = m
<1>1. cache[x] \in Seq(Line) /\ SetSound(x)
  BY DEF Inv, TypeOK, SetsSound
<1> QED
  BY <1>1 DEF Lines, SetSound

(* What an access does to the lines of its set.                            *)
Renews(x, t, n) ==
  \E l \in Lines(cache[x]) :
     /\ l.tag = t
     /\ Lines(cache'[x]) = (Lines(cache[x]) \ {l}) \cup {[tag |-> t, pri |-> n]}

Adds(x, t, n) ==
  /\ \A l \in Lines(cache[x]) : l.tag # t
  /\ Lines(cache'[x]) = Lines(cache[x]) \cup {[tag |-> t, pri |-> n]}

Evicts(x, t, n) ==
  /\ \A l \in Lines(cache[x]) : l.tag # t
  /\ \E v \in Lines(cache[x]) :
        /\ \A l \in Lines(cache[x]) : v.pri <= l.pri
        /\ Lines(cache'[x]) = (Lines(cache[x]) \ {v}) \cup {[tag |-> t, pri |-> n]}

LEMMA HitEffect ==
  ASSUME Inv, NEW x \in Sets, NEW t \in Tags, NEW id, Hit(x, t, id)
  PROVE  Renews(x, t, NextPri(x)) /\ Len(cache'[x]) = Len(cache[x])
<1> DEFINE D == DOMAIN cache[x]
           new == [i \in D |-> IF cache[x][i].tag = t
                               THEN [cache[x][i] EXCEPT !.pri = NextPri(x)]
                               ELSE cache[x][i]]
           line == [tag |-> t, pri |-> NextPri(x)]
<1>1. cache[x] \in Seq(Line) /\ SetSound(x)
  BY DEF Inv, TypeOK, SetsSound
<1>2. cache'[x] = new
  BY DEF Hit, Touch, Inv, TypeOK
<1>3. PICK i \in D : cache[x][i].tag = t
  BY DEF Hit, Cached
<1>4. \A j \in D : new[j] = IF j = i THEN line ELSE cache[x][j]
  <2>1. \A j \in D : cache[x][j].tag = t => j = i
    BY <1>1, <1>3 DEF SetSound
  <2>2. cache[x][i] \in Line
    BY <1>1
  <2>3. [cache[x][i] EXCEPT !.pri = NextPri(x)] = line
    BY <1>3, <2>2 DEF Line
  <2> QED
    BY <1>3, <2>1, <2>3
<1>5. \A j \in D : cache[x][j] = cache[x][i] => j = i
  BY <1>1, <1>3 DEF SetSound
<1>6. DOMAIN new = D /\ Len(new) = Len(cache[x])
  BY <1>1
<1> HIDE DEF new, line
<1>7. Lines(new) = (Lines(cache[x]) \ {cache[x][i]}) \cup {line}
  BY <1>3, <1>4, <1>5, <1>6 DEF Lines
<1>8. cache[x][i] \in Lines(cache[x])
  BY <1>3 DEF Lines
<1> QED
  BY <1>2, <1>3, <1>6, <1>7, <1>8 DEF Renews, line

LEMMA InsertEffect ==
  ASSUME Inv, NEW x \in Sets, NEW t \in Tags, NEW id, Insert(x, t, id)
  PROVE  /\ Adds(x, t, NextPri(x))
         /\ Len(cache[x]) < E /\ Len(cache'[x]) = Len(cache[x]) + 1
<1> DEFINE line == [tag |-> t, pri |-> NextPri(x)]
           new == Append(cache[x], line)
<1>1. cache[x] \in Seq(Line) /\ cache'[x] = new
  BY DEF Inv, TypeOK, Insert
<1>2. /\ Len(new) = Len(cache[x]) + 1
      /\ DOMAIN new = DOMAIN cache[x] \cup {Len(cache[x]) + 1}
      /\ \A i \in DOMAIN new : new[i] = IF i = Len(cache[x]) + 1 THEN line
                                        ELSE cache[x][i]
      /\ Len(cache[x]) + 1 \notin DOMAIN cache[x]
  BY <1>1
<1>3. Lines(new) = Lines(cache[x]) \cup {line}
  BY <1>2 DEF Lines
<1>4. \A l \in Lines(cache[x]) : l.tag # t
  BY DEF Insert, Cached, Lines
<1> QED
  BY <1>1, <1>2, <1>3, <1>4 DEF Adds, Insert

LEMMA ReplaceEffect ==
  ASSUME Inv, NEW x \in Sets, NEW t \in Tags, NEW id, Replace(x, t, id)
  PROVE  /\ Evicts(x, t, NextPri(x))
         /\ Len(cache[x]) = E /\ Len(cache'[x]) = E
<1> DEFINE v == Victim(x)
           line == [tag |-> t, pri |-> NextPri(x)]
           new == [cache[x] EXCEPT ![v] = line]
<1>1. cache[x] \in Seq(Line) /\ SetSound(x) /\ cache'[x] = new
  BY DEF Inv, TypeOK, SetsSound, Replace
<1>2. cache[x] # <<>>
  BY <1>1, CacheAssumption DEF Replace
<1>3. /\ v \in DOMAIN cache[x]
      /\ \A j \in DOMAIN cache[x] : cache[x][v].pri <= cache[x][j].pri
  BY <1>2, VictimIsOldest
<1>4. /\ Len(new) = Len(cache[x]) /\ DOMAIN new = DOMAIN cache[x]
      /\ \A i \in DOMAIN new : new[i] = IF i = v THEN line ELSE cache[x][i]
  BY <1>1, <1>3
<1>5. \A j \in DOMAIN cache[x] : cache[x][j] = cache[x][v] => j = v
  BY <1>1, <1>3 DEF SetSound
<1>6. Lines(new) = (Lines(cache[x]) \ {cache[x][v]}) \cup {line}
  BY <1>3, <1>4, <1>5 DEF Lines
<1>7. \A l \in Lines(cache[x]) : l.tag # t
  BY DEF Replace, Cached, Lines
<1>8. cache[x][v] \in Lines(cache[x]) /\ \A l \in Lines(cache[x]) : cache[x][v].pri <= l.pri
  BY <1>3 DEF Lines
<1> QED
  BY <1>1, <1>4, <1>6, <1>7, <1>8 DEF Evicts, Replace

-----------------------------------------------------------------------------
(* The lines of a set in the order of their last use.                      *)
Ordered(set, p) ==
  /\ p \in Seq(Line) /\ Len(p) = Len(set)
  /\ Lines(p) = Lines(set)
  /\ \A i, j \in DOMAIN p : i < j => p[i].pri > p[j].pri

TagsOf(p) == [k \in DOMAIN p |-> p[k].tag]

(* The rank of a line is its place in that order.                          *)
LEMMA RankIsPlace ==
  ASSUME NEW set \in Seq(Line), NEW p, Ordered(set, p),
         \A i, j \in DOMAIN set : set[i] = set[j] => i = j,
         NEW i \in DOMAIN set, NEW k \in DOMAIN p, set[i] = p[k]
  PROVE  Rank(set, i) = k - 1
<1> DEFINE J == {j \in DOMAIN set : set[j].pri > set[i].pri}
           f == [m \in 1 .. k - 1 |-> CHOOSE j \in DOMAIN set : set[j] = p[m]]
<1>1. /\ p \in Seq(Line) /\ k \in 1 .. Len(p)
      /\ \A m \in DOMAIN p : p[m].pri \in Nat
      /\ \A m, n \in DOMAIN p : m < n => p[m].pri > p[n].pri
  <2>1. /\ p \in Seq(Line) /\ k \in 1 .. Len(p)
        /\ \A m, n \in DOMAIN p : m < n => p[m].pri > p[n].pri
    BY DEF Ordered
  <2>2. \A m \in DOMAIN p : p[m] \in Line
    BY <2>1
  <2> QED
    BY <2>1, <2>2 DEF Line
<1>2. \A m \in DOMAIN p : \E j \in DOMAIN set : set[j] = p[m]
  BY DEF Ordered, Lines
<1>3. \A j \in DOMAIN set : \E m \in DOMAIN p : set[j] = p[m]
  BY DEF Ordered, Lines
<1>4. \A m \in 1 .. k - 1 : m \in DOMAIN p /\ m < k /\ f[m] \in DOMAIN set /\ set[f[m]] = p[m]
  BY <1>1, <1>2
<1> HIDE DEF f
<1>5. \A m \in 1 .. k - 1 : f[m] \in J
  BY <1>1, <1>4
<1>6. \A m, n \in 1 .. k - 1 : f[m] = f[n] => m = n
  <2> SUFFICES ASSUME NEW m \in 1 .. k - 1, NEW n \in 1 .. k - 1, f[m] = f[n]
               PROVE  m = n
    OBVIOUS
  <2>1. p[m].pri = p[n].pri /\ p[m].pri \in Nat
    BY <1>1, <1>4
  <2>2. m \in DOMAIN p /\ n \in DOMAIN p
    BY <1>4
  <2>3. (m < n => p[m].pri > p[n].pri) /\ (n < m => p[n].pri > p[m].pri)
    BY <1>1, <2>2
  <2>4. ~ (m < n) /\ ~ (n < m)
    BY <2>1, <2>3
  <2> QED
    BY <2>4
<1>7. ASSUME NEW j \in J PROVE \E m \in 1 .. k - 1 : f[m] = j
  <2>1. PICK m \in DOMAIN p : set[j] = p[m]
    BY <1>3
  <2>2. p[m].pri > p[k].pri /\ p[m].pri \in Nat /\ p[k].pri \in Nat
    BY <1>1, <1>7, <2>1
  <2>3. m < k
    BY <1>1, <2>2
  <2>4. m \in 1 .. k - 1
    BY <1>1, <2>1, <2>3
  <2> QED
    BY <1>4, <2>1, <2>4
<1>8. f \in Bijection(1 .. k - 1, J)
  <2>1. f \in [1 .. k - 1 -> J]
    <3>1. f = [m \in 1 .. k - 1 |-> f[m]]
      BY DEF f
    <3> QED
      BY <1>5, <3>1
  <2> HIDE DEF J
  <2> QED
    BY <1>6, <1>7, <2>1, Fun_IsBij
<1>9. IsFiniteSet(1 .. k - 1) /\ Cardinality(1 .. k - 1) = k - 1
  <2>1. k - 1 \in Nat /\ k - 1 \in Int /\ 1 \in Int
    BY <1>1
  <2>2. /\ IsFiniteSet(1 .. k - 1)
        /\ Cardinality(1 .. k - 1) = IF 1 > k - 1 THEN 0 ELSE (k - 1) - 1 + 1
    BY <2>1, FS_Interval
  <2> QED
    BY <2>1, <2>2
<1>10. Cardinality(J) = k - 1
  <2>1. ExistsBijection(1 .. k - 1, J)
    BY <1>8 DEF ExistsBijection
  <2> QED
    BY <1>9, <2>1, FS_Bijection
<1> QED
  BY <1>10 DEF Rank

(* So the stack of a set is the blocks of its lines in that order.         *)
LEMMA RecencyIsOrder ==
  ASSUME NEW set \in Seq(Line), NEW p, Ordered(set, p),
         \A i, j \in DOMAIN set : set[i] = set[j] => i = j
  PROVE  Recency(set) = TagsOf(p)
<1>1. DOMAIN p = DOMAIN set /\ p \in Seq(Line)
  BY DEF Ordered
<1>2. ASSUME NEW k \in DOMAIN set
      PROVE  set[CHOOSE i \in DOMAIN set : Rank(set, i) = k - 1] = p[k]
  <2>1. PICK i \in DOMAIN set : set[i] = p[k]
    BY <1>1 DEF Ordered, Lines
  <2>2. Rank(set, i) = k - 1
    BY <1>1, <2>1, RankIsPlace
  <2>3. ASSUME NEW j \in DOMAIN set, Rank(set, j) = k - 1
        PROVE  set[j] = p[k]
    <3>1. PICK m \in DOMAIN p : set[j] = p[m]
      BY DEF Ordered, Lines
    <3>2. Rank(set, j) = m - 1
      BY <3>1, RankIsPlace
    <3>3. m = k
      BY <1>1, <2>3, <3>2
    <3> QED
      BY <3>1, <3>3
  <2> QED
    BY <2>2, <2>3
<1> QED
  BY <1>1, <1>2 DEF Recency, TagsOf

-----------------------------------------------------------------------------
LEMMA LineFields ==
  /\ \A l \in Line : l.tag \in Tags /\ l.pri \in Nat
  /\ \A p \in Seq(Line) : \A k \in DOMAIN p : p[k] \in Line
<1>1. \A l \in Line : l.tag \in Tags /\ l.pri \in Nat
  BY DEF Line
<1> QED
  BY <1>1

LEMMA InLines ==
  \A set, l : l \in Lines(set) <=> \E k \in DOMAIN set : set[k] = l
BY DEF Lines

(* A sequence with its i-th element taken out and l put first.             *)
LEMMA MovedFirst ==
  ASSUME NEW S, NEW p \in Seq(S), NEW i \in DOMAIN p, NEW l \in S
  PROVE  /\ <<l>> \o RemoveAt(p, i) \in Seq(S)
         /\ Len(<<l>> \o RemoveAt(p, i)) = Len(p)
         /\ \A k \in 1 .. Len(p) :
               (<<l>> \o RemoveAt(p, i))[k] = IF k = 1 THEN l
                                              ELSE IF k <= i THEN p[k - 1] ELSE p[k]
<1> DEFINE r == SubSeq(p, 1, i - 1) \o SubSeq(p, i + 1, Len(p))
<1>1. i \in 1 .. Len(p) /\ Len(p) \in Nat
  OBVIOUS
<1>2. /\ r \in Seq(S) /\ Len(r) = Len(p) - 1
      /\ \A k \in 1 .. Len(p) - 1 : r[k] = IF k < i THEN p[k] ELSE p[k + 1]
  BY Removed
<1> HIDE DEF r
<1>3. /\ <<l>> \o r \in Seq(S) /\ Len(<<l>> \o r) = Len(p)
      /\ \A k \in 1 .. Len(p) : (<<l>> \o r)[k] = IF k = 1 THEN l ELSE r[k - 1]
  <2>1. r \in Seq(S) /\ Len(r) = Len(p) - 1
    BY <1>2
  <2> QED
    BY <1>1, <2>1
<1>4. ASSUME NEW k \in 1 .. Len(p), k # 1
      PROVE  r[k - 1] = IF k <= i THEN p[k - 1] ELSE p[k]
  <2>1. k - 1 \in 1 .. Len(p) - 1 /\ (k - 1) + 1 = k /\ (k - 1 < i <=> k <= i)
    BY <1>1, <1>4
  <2> QED
    BY <1>2, <2>1
<1>5. RemoveAt(p, i) = r
  BY DEF RemoveAt, r
<1> QED
  BY <1>3, <1>4, <1>5

LEMMA FrontIsRemoved ==
  ASSUME NEW S, NEW p \in Seq(S), p # <<>>
  PROVE  Front(p) = RemoveAt(p, Len(p)) /\ Len(p) \in DOMAIN p
<1>1. SubSeq(p, Len(p) + 1, Len(p)) = <<>>
  OBVIOUS
<1>2. SubSeq(p, 1, Len(p) - 1) \in Seq(S)
  OBVIOUS
<1> QED
  BY <1>1, <1>2 DEF Front, RemoveAt

LEMMA TagsMoved ==
  ASSUME NEW p \in Seq(Line), NEW i \in DOMAIN p, NEW l \in Line
  PROVE  TagsOf(<<l>> \o RemoveAt(p, i)) = <<l.tag>> \o RemoveAt(TagsOf(p), i)
<1>1. /\ TagsOf(p) \in Seq(Tags) /\ Len(TagsOf(p)) = Len(p)
      /\ DOMAIN TagsOf(p) = DOMAIN p
      /\ \A k \in DOMAIN p : TagsOf(p)[k] = p[k].tag
  <2>1. \A k \in DOMAIN p : p[k].tag \in Tags
    BY LineFields
  <2> QED
    BY <2>1 DEF TagsOf
<1>2. l.tag \in Tags
  BY LineFields
<1> DEFINE q == <<l>> \o RemoveAt(p, i)
           r == <<l.tag>> \o RemoveAt(TagsOf(p), i)
<1>3. /\ q \in Seq(Line) /\ Len(q) = Len(p)
      /\ \A k \in 1 .. Len(p) :
            q[k] = IF k = 1 THEN l ELSE IF k <= i THEN p[k - 1] ELSE p[k]
  <2>1. /\ <<l>> \o RemoveAt(p, i) \in Seq(Line)
        /\ Len(<<l>> \o RemoveAt(p, i)) = Len(p)
        /\ \A k \in 1 .. Len(p) :
              (<<l>> \o RemoveAt(p, i))[k] =
                 IF k = 1 THEN l ELSE IF k <= i THEN p[k - 1] ELSE p[k]
    BY MovedFirst
  <2> QED
    BY <2>1
<1>4. /\ r \in Seq(Tags) /\ Len(r) = Len(p)
      /\ \A k \in 1 .. Len(p) :
            r[k] = IF k = 1 THEN l.tag
                   ELSE IF k <= i THEN TagsOf(p)[k - 1] ELSE TagsOf(p)[k]
  <2> DEFINE g == TagsOf(p)
  <2>1. g \in Seq(Tags) /\ i \in DOMAIN g /\ Len(g) = Len(p)
    BY <1>1
  <2> HIDE DEF g
  <2>2. /\ <<l.tag>> \o RemoveAt(g, i) \in Seq(Tags)
        /\ Len(<<l.tag>> \o RemoveAt(g, i)) = Len(g)
        /\ \A k \in 1 .. Len(g) :
              (<<l.tag>> \o RemoveAt(g, i))[k] =
                 IF k = 1 THEN l.tag ELSE IF k <= i THEN g[k - 1] ELSE g[k]
    BY <1>2, <2>1, MovedFirst
  <2> QED
    BY <2>1, <2>2 DEF g
<1> HIDE DEF q, r
<1>5. ASSUME NEW k \in 1 .. Len(p) PROVE q[k].tag = r[k]
  <2>1. CASE k = 1
    BY <1>3, <1>4, <2>1
  <2>2. CASE k # 1 /\ k <= i
    <3>1. k - 1 \in DOMAIN p
      BY <2>2
    <3>2. q[k] = p[k - 1] /\ r[k] = TagsOf(p)[k - 1]
      BY <1>3, <1>4, <2>2
    <3> QED
      BY <1>1, <3>1, <3>2
  <2>3. CASE k # 1 /\ ~ (k <= i)
    BY <1>1, <1>3, <1>4, <2>3
  <2> QED
    BY <2>1, <2>2, <2>3
<1>7. DOMAIN q = 1 .. Len(p) /\ DOMAIN r = 1 .. Len(p)
  BY <1>3, <1>4
<1>8. r = [k \in 1 .. Len(p) |-> r[k]]
  BY <1>4, <1>7
<1>9. TagsOf(q) = r
  BY <1>5, <1>7, <1>8 DEF TagsOf
<1> QED
  BY <1>9 DEF q, r

(* The line touched, or the new one in the place of the oldest, moves to   *)
(* the front of the order.                                                 *)
LEMMA OrderMoved ==
  ASSUME NEW set \in Seq(Line), NEW p, Ordered(set, p), NEW i \in DOMAIN p,
         NEW l \in Line, \A m \in Lines(set) : m.pri < l.pri,
         NEW set2, Len(set2) = Len(set),
         Lines(set2) = (Lines(set) \ {p[i]}) \cup {l}
  PROVE  Ordered(set2, <<l>> \o RemoveAt(p, i))
<1> DEFINE q == <<l>> \o RemoveAt(p, i)
<1>1. /\ p \in Seq(Line) /\ i \in 1 .. Len(p) /\ Len(p) \in Nat
      /\ Len(p) = Len(set) /\ Lines(p) = Lines(set)
      /\ \A m, n \in 1 .. Len(p) : m < n => p[m].pri > p[n].pri
  BY DEF Ordered
<1>2. /\ q \in Seq(Line) /\ Len(q) = Len(p)
      /\ \A k \in 1 .. Len(p) :
            q[k] = IF k = 1 THEN l ELSE IF k <= i THEN p[k - 1] ELSE p[k]
  BY <1>1, MovedFirst
<1> HIDE DEF q
<1>3. \A m \in 1 .. Len(p) : p[m] \in Line /\ p[m].pri \in Nat /\ p[m].pri < l.pri
  <2>1. \A m \in 1 .. Len(p) : p[m] \in Line /\ p[m] \in Lines(set)
    BY <1>1, InLines
  <2> QED
    BY <2>1, LineFields
<1>4. Lines(q) = Lines(set2)
  <2>1. ASSUME NEW k \in DOMAIN q PROVE q[k] \in Lines(set2)
    <3>1. CASE k = 1
      BY <1>2, <3>1
    <3>2. CASE k # 1 /\ k <= i
      <4>1. q[k] = p[k - 1] /\ k - 1 \in 1 .. Len(p) /\ k - 1 < i
        BY <1>1, <1>2, <3>2
      <4>2. p[k - 1].pri > p[i].pri /\ p[k - 1].pri \in Nat /\ p[i].pri \in Nat
        BY <1>1, <1>3, <4>1
      <4>3. p[k - 1] # p[i]
        BY <4>2
      <4>4. q[k] \in Lines(set)
        BY <1>1, <4>1, InLines
      <4> QED
        BY <4>1, <4>3, <4>4
    <3>3. CASE k # 1 /\ k > i
      <4>1. q[k] = p[k] /\ k \in 1 .. Len(p) /\ i < k
        BY <1>1, <1>2, <3>3
      <4>2. p[i].pri > p[k].pri /\ p[k].pri \in Nat /\ p[i].pri \in Nat
        BY <1>1, <1>3, <4>1
      <4>3. p[k] # p[i]
        BY <4>2
      <4>4. q[k] \in Lines(set)
        BY <1>1, <4>1, InLines
      <4> QED
        BY <4>1, <4>3, <4>4
    <3> QED
      BY <1>1, <1>2, <3>1, <3>2, <3>3
  <2>2. ASSUME NEW m \in Lines(set2) PROVE \E k \in DOMAIN q : q[k] = m
    <3>1. CASE m = l
      BY <1>1, <1>2, <3>1
    <3>2. CASE m # l
      <4>0. m \in Lines(p) /\ m # p[i]
        BY <1>1, <2>2, <3>2
      <4>1. PICK j \in 1 .. Len(p) : p[j] = m /\ j # i
        BY <1>1, <4>0, InLines
      <4>2. CASE j < i
        <5>1. j + 1 \in 1 .. Len(p) /\ j + 1 # 1 /\ j + 1 <= i /\ (j + 1) - 1 = j
          BY <1>1, <4>1, <4>2
        <5>2. q[j + 1] = p[j]
          BY <1>2, <5>1
        <5> QED
          BY <1>2, <4>1, <5>1, <5>2
      <4>3. CASE j > i
        <5>1. j # 1 /\ ~ (j <= i)
          BY <1>1, <4>3
        <5>2. q[j] = p[j]
          BY <1>2, <5>1
        <5> QED
          BY <1>2, <4>1, <5>2
      <4> QED
        BY <1>1, <4>1, <4>2, <4>3
    <3> QED
      BY <3>1, <3>2
  <2> QED
    BY <2>1, <2>2 DEF Lines
<1>5. ASSUME NEW m \in DOMAIN q, NEW n \in DOMAIN q, m < n
      PROVE  q[m].pri > q[n].pri
  <2> DEFINE at(k) == IF k <= i THEN k - 1 ELSE k
  <2>1. m \in 1 .. Len(p) /\ n \in 1 .. Len(p) /\ n # 1
    BY <1>1, <1>2, <1>5
  <2>2. \A k \in 1 .. Len(p) : k # 1 => at(k) \in 1 .. Len(p) /\ q[k] = p[at(k)]
    BY <1>1, <1>2
  <2>3. m # 1 => at(m) < at(n)
    BY <1>1, <1>5, <2>1
  <2>4. m = 1 => q[m] = l
    BY <1>2, <2>1
  <2> HIDE DEF at
  <2>5. CASE m = 1
    <3>1. p[at(n)].pri < l.pri /\ p[at(n)].pri \in Nat /\ l.pri \in Nat
      BY <1>3, <2>1, <2>2, LineFields
    <3> QED
      BY <2>1, <2>2, <2>4, <2>5, <3>1
  <2>6. CASE m # 1
    BY <1>1, <2>1, <2>2, <2>3, <2>6
  <2> QED
    BY <2>5, <2>6
<1> QED
  BY <1>1, <1>2, <1>4, <1>5 DEF Ordered, q

LEMMA OrderGrown ==
  ASSUME NEW set \in Seq(Line), NEW p, Ordered(set, p),
         NEW l \in Line, \A m \in Lines(set) : m.pri < l.pri,
         NEW set2, Len(set2) = Len(set) + 1,
         Lines(set2) = Lines(set) \cup {l}
  PROVE  Ordered(set2, <<l>> \o p) /\ TagsOf(<<l>> \o p) = <<l.tag>> \o TagsOf(p)
<1> DEFINE q == <<l>> \o p
<1>1. /\ p \in Seq(Line) /\ Len(p) \in Nat
      /\ Len(p) = Len(set) /\ Lines(p) = Lines(set)
      /\ \A m, n \in 1 .. Len(p) : m < n => p[m].pri > p[n].pri
  BY DEF Ordered
<1>2. /\ q \in Seq(Line) /\ Len(q) = Len(p) + 1
      /\ \A k \in 1 .. Len(p) + 1 : q[k] = IF k = 1 THEN l ELSE p[k - 1]
  BY <1>1
<1>3. \A m \in 1 .. Len(p) : p[m] \in Line /\ p[m].pri \in Nat /\ p[m].pri < l.pri
  <2>1. \A m \in 1 .. Len(p) : p[m] \in Line /\ p[m] \in Lines(set)
    BY <1>1, InLines
  <2> QED
    BY <2>1, LineFields
<1>4. TagsOf(q) = <<l.tag>> \o TagsOf(p)
  <2>1. /\ TagsOf(p) \in Seq(Tags) /\ Len(TagsOf(p)) = Len(p)
        /\ \A k \in 1 .. Len(p) : TagsOf(p)[k] = p[k].tag
    <3>1. \A k \in DOMAIN p : p[k].tag \in Tags
      BY <1>1, LineFields
    <3> QED
      BY <1>1, <3>1 DEF TagsOf
  <2> DEFINE r == <<l.tag>> \o TagsOf(p)
  <2>2. /\ l.tag \in Tags /\ r \in Seq(Tags) /\ Len(r) = Len(p) + 1
        /\ \A k \in 1 .. Len(p) + 1 :
              r[k] = IF k = 1 THEN l.tag ELSE TagsOf(p)[k - 1]
    BY <1>1, <2>1, LineFields
  <2> HIDE DEF q, r
  <2>3. ASSUME NEW k \in 1 .. Len(p) + 1 PROVE q[k].tag = r[k]
    <3>1. k = 1 \/ k - 1 \in 1 .. Len(p)
      BY <1>1
    <3> QED
      BY <1>2, <2>1, <2>2, <3>1
  <2>4. DOMAIN q = 1 .. Len(p) + 1 /\ r = [k \in 1 .. Len(p) + 1 |-> r[k]]
    BY <1>1, <1>2, <2>2
  <2>5. TagsOf(q) = r
    BY <2>3, <2>4 DEF TagsOf
  <2> QED
    BY <2>5 DEF r
<1> HIDE DEF q
<1>5. Lines(q) = Lines(set2)
  <2>1. ASSUME NEW k \in DOMAIN q PROVE q[k] \in Lines(set2)
    <3>1. k \in 1 .. Len(p) + 1
      BY <1>2
    <3>2. CASE k = 1
      BY <1>2, <3>1, <3>2
    <3>3. CASE k # 1
      <4>1. k - 1 \in DOMAIN p /\ q[k] = p[k - 1]
        BY <1>1, <1>2, <3>1, <3>3
      <4> QED
        BY <1>1, <4>1, InLines
    <3> QED
      BY <3>2, <3>3
  <2>2. ASSUME NEW m \in Lines(set2) PROVE \E k \in DOMAIN q : q[k] = m
    <3>1. CASE m = l
      BY <1>1, <1>2, <3>1
    <3>2. CASE m \in Lines(p)
      <4>1. PICK j \in 1 .. Len(p) : p[j] = m
        BY <1>1, <3>2, InLines
      <4>2. j + 1 \in 1 .. Len(p) + 1 /\ j + 1 # 1 /\ (j + 1) - 1 = j
        BY <1>1
      <4>3. q[j + 1] = p[j]
        BY <1>2, <4>2
      <4>4. j + 1 \in DOMAIN q
        BY <1>2, <4>2
      <4> QED
        BY <4>1, <4>3, <4>4
    <3> QED
      BY <1>1, <3>1, <3>2
  <2> QED
    BY <2>1, <2>2 DEF Lines
<1>6. ASSUME NEW m \in DOMAIN q, NEW n \in DOMAIN q, m < n
      PROVE  q[m].pri > q[n].pri
  <2>1. /\ n - 1 \in 1 .. Len(p) /\ q[n] = p[n - 1]
        /\ m # 1 => m - 1 \in 1 .. Len(p) /\ q[m] = p[m - 1] /\ m - 1 < n - 1
        /\ m = 1 => q[m] = l
    BY <1>1, <1>2, <1>6
  <2> QED
    BY <1>1, <1>3, <2>1 DEF Line
<1> QED
  BY <1>1, <1>2, <1>4, <1>5, <1>6 DEF Ordered, q

-----------------------------------------------------------------------------
(* The inductive invariant of the refinement: the priorities of a set put  *)
(* its lines in an order.                                                  *)
Sorted(x) == \E p : Ordered(cache[x], p)

RefInv == Inv /\ \A x \in Sets : Sorted(x)

(* The other sets, and their stacks, stay what they are.                   *)
LEMMA StackFrame ==
  ASSUME Inv, NEW a \in Addr, NEW id, Access(a, id),
         NEW q, Recency(cache'[SetIndex(a)]) = q
  PROVE  /\ \A y \in Sets : y # SetIndex(a) => cache'[y] = cache[y]
         /\ [y \in Sets |-> Recency(cache'[y])] =
               [[y \in Sets |-> Recency(cache[y])] EXCEPT ![SetIndex(a)] = q]
<1>1. \A y \in Sets : y # SetIndex(a) => cache'[y] = cache[y]
  BY DEF Inv, TypeOK, Access, Hit, Insert, Replace, Step, Touch
<1> QED
  BY <1>1

(* The lines before an access, in order, give the stack it finds.          *)
LEMMA StackOfOrder ==
  ASSUME Inv, NEW x \in Sets, NEW p, Ordered(cache[x], p)
  PROVE  /\ Recency(cache[x]) = TagsOf(p)
         /\ cache[x] \in Seq(Line) /\ p \in Seq(Line)
         /\ TagsOf(p) \in Seq(Tags) /\ Len(TagsOf(p)) = Len(cache[x])
         /\ DOMAIN TagsOf(p) = DOMAIN p /\ DOMAIN p = 1 .. Len(cache[x])
         /\ \A k \in DOMAIN p : TagsOf(p)[k] = p[k].tag
         /\ ToSet(TagsOf(p)) = {l.tag : l \in Lines(cache[x])}
<1>1. cache[x] \in Seq(Line) /\ \A i, j \in DOMAIN cache[x] : cache[x][i] = cache[x][j] => i = j
  BY DEF Inv, TypeOK, SetsSound, SetSound
<1>2. Recency(cache[x]) = TagsOf(p)
  BY <1>1, RecencyIsOrder
<1>3. /\ p \in Seq(Line) /\ Len(p) = Len(cache[x]) /\ Lines(p) = Lines(cache[x])
      /\ DOMAIN p = 1 .. Len(cache[x])
  BY <1>1 DEF Ordered
<1>4. /\ TagsOf(p) \in Seq(Tags) /\ Len(TagsOf(p)) = Len(cache[x])
      /\ DOMAIN TagsOf(p) = DOMAIN p
      /\ \A k \in DOMAIN p : TagsOf(p)[k] = p[k].tag
  <2>1. \A k \in DOMAIN p : p[k].tag \in Tags
    BY <1>3, LineFields
  <2> QED
    BY <1>1, <1>3, <2>1 DEF TagsOf
<1>5. ToSet(TagsOf(p)) = {l.tag : l \in Lines(p)}
  BY <1>4 DEF ToSet, Lines
<1> QED
  BY <1>1, <1>2, <1>3, <1>4, <1>5

LEMMA AccessIsLRU ==
  ASSUME RefInv, NEW a \in Addr, NEW id, Access(a, id), Inv'
  PROVE  /\ LRU!LRUAccess(SetIndex(a), Tag(a), Extra(id))
         /\ Sorted(SetIndex(a))'
<1> DEFINE x == SetIndex(a)
           t == Tag(a)
           new == [tag |-> t, pri |-> NextPri(x)]
           stk == [y \in Sets |-> Recency(cache[y])]
           stk2 == [y \in Sets |-> Recency(cache'[y])]
<1>1. x \in Sets /\ t \in Tags /\ Inv
  BY AddressParts DEF RefInv
<1>2. PICK p : Ordered(cache[x], p)
  BY <1>1 DEF RefInv, Sorted
<1> DEFINE g == TagsOf(p)
<1>3. /\ Recency(cache[x]) = g
      /\ cache[x] \in Seq(Line) /\ p \in Seq(Line)
      /\ g \in Seq(Tags) /\ Len(g) = Len(cache[x])
      /\ DOMAIN g = DOMAIN p /\ DOMAIN p = 1 .. Len(cache[x])
      /\ \A k \in DOMAIN p : g[k] = p[k].tag
      /\ ToSet(g) = {l.tag : l \in Lines(cache[x])}
  BY <1>1, <1>2, StackOfOrder
<1>4. new \in Line /\ new.tag = t /\ \A m \in Lines(cache[x]) : m.pri < new.pri
  <2>1. initSet[x] \in Nat /\ new.pri = initSet[x] + 1
    BY <1>1 DEF Inv, TypeOK, NextPri
  <2>2. \A m \in Lines(cache[x]) : m.pri \in 1 .. initSet[x]
    BY <1>1, LinesSound
  <2> QED
    BY <1>1, <2>1, <2>2 DEF Line
<1>5. ASSUME NEW q, Ordered(cache'[x], q)
      PROVE  /\ stk2 = [stk EXCEPT ![x] = TagsOf(q)]
             /\ Sorted(x)'
  <2>1. cache'[x] \in Seq(Line) /\ \A i, j \in DOMAIN cache'[x] : cache'[x][i] = cache'[x][j] => i = j
    BY <1>1 DEF Inv, TypeOK, SetsSound, SetSound
  <2>2. Recency(cache'[x]) = TagsOf(q)
    BY <1>5, <2>1, RecencyIsOrder
  <2> QED
    BY <1>1, <1>5, <2>2, StackFrame DEF Sorted
<1>6. stk[x] = g
  BY <1>1, <1>3
<1>7. CASE Hit(x, t, id)
  <2>1. Renews(x, t, NextPri(x)) /\ Len(cache'[x]) = Len(cache[x])
    BY <1>1, <1>7, HitEffect
  <2>2. PICK l \in Lines(cache[x]) :
           l.tag = t /\ Lines(cache'[x]) = (Lines(cache[x]) \ {l}) \cup {new}
    BY <2>1 DEF Renews
  <2>3. PICK i \in DOMAIN p : p[i] = l
    BY <1>2, InLines DEF Ordered
  <2> DEFINE q == <<new>> \o RemoveAt(p, i)
  <2>4. Ordered(cache'[x], q) /\ TagsOf(q) = <<t>> \o RemoveAt(g, i)
    <3> HIDE DEF new
    <3>1. Ordered(cache'[x], q)
      BY <1>2, <1>3, <1>4, <2>1, <2>2, <2>3, OrderMoved
    <3>2. TagsOf(q) = <<new.tag>> \o RemoveAt(TagsOf(p), i)
      BY <1>3, <1>4, <2>3, TagsMoved
    <3> QED
      BY <1>4, <3>1, <3>2
  <2> HIDE DEF q
  <2>5. stk2 = [stk EXCEPT ![x] = <<t>> \o RemoveAt(stk[x], i)] /\ Sorted(x)'
    BY <1>5, <1>6, <2>4
  <2>6. i \in DOMAIN stk[x] /\ stk[x][i] = t
    BY <1>3, <1>6, <2>2, <2>3
  <2>7. hits' = hits + 1 + Extra(id) /\ UNCHANGED <<misses, evictions>>
    BY <1>7 DEF Hit
  <2>8. LRU!Hit(x, t, Extra(id))
    <3> HIDE DEF x, t
    <3> QED
      BY <2>5, <2>6, <2>7 DEF LRU!Hit, LRU!RemoveAt, RemoveAt
  <2> QED
    BY <2>5, <2>8 DEF LRU!LRUAccess
<1>8. CASE Insert(x, t, id)
  <2>1. /\ Adds(x, t, NextPri(x))
        /\ Len(cache[x]) < E /\ Len(cache'[x]) = Len(cache[x]) + 1
    BY <1>1, <1>8, InsertEffect
  <2>2. /\ \A l \in Lines(cache[x]) : l.tag # t
        /\ Lines(cache'[x]) = Lines(cache[x]) \cup {new}
    BY <2>1 DEF Adds
  <2> DEFINE q == <<new>> \o p
  <2>3. Ordered(cache'[x], q) /\ TagsOf(q) = <<t>> \o g
    <3> HIDE DEF new
    <3>1. cache[x] \in Seq(Line) /\ \A m \in Lines(cache[x]) : m.pri < new.pri
      BY <1>2, <1>3, <1>4
    <3>2. /\ Ordered(cache[x], p) /\ new \in Line
          /\ Len(cache'[x]) = Len(cache[x]) + 1
          /\ Lines(cache'[x]) = Lines(cache[x]) \cup {new}
      BY <1>2, <1>4, <2>1, <2>2
    <3>3. Ordered(cache'[x], q) /\ TagsOf(q) = <<new.tag>> \o TagsOf(p)
      BY <3>1, <3>2, OrderGrown
    <3> QED
      BY <1>2, <1>3, <1>4, <3>3
  <2> HIDE DEF q
  <2>4. stk2 = [stk EXCEPT ![x] = <<t>> \o stk[x]] /\ Sorted(x)'
    BY <1>5, <1>6, <2>3
  <2>5. t \notin ToSet(stk[x]) /\ Len(stk[x]) < E
    BY <1>3, <1>6, <2>1, <2>2
  <2>6. /\ hits' = hits + Extra(id) /\ misses' = misses + 1
        /\ UNCHANGED evictions
    BY <1>8 DEF Insert
  <2>7. LRU!Fill(x, t, Extra(id))
    <3> HIDE DEF x, t
    <3> QED
      BY <2>4, <2>5, <2>6 DEF LRU!Fill, LRU!Top, LRU!ToSet, ToSet
  <2> QED
    BY <2>4, <2>7 DEF LRU!LRUAccess
<1>9. CASE Replace(x, t, id)
  <2>1. /\ Evicts(x, t, NextPri(x))
        /\ Len(cache[x]) = E /\ Len(cache'[x]) = E
    BY <1>1, <1>9, ReplaceEffect
  <2>2. \A l \in Lines(cache[x]) : l.tag # t
    BY <2>1 DEF Evicts
  <2>3. PICK v \in Lines(cache[x]) :
           /\ \A l \in Lines(cache[x]) : v.pri <= l.pri
           /\ Lines(cache'[x]) = (Lines(cache[x]) \ {v}) \cup {new}
    BY <2>1 DEF Evicts
  <2> DEFINE i == Len(p)
             q == <<new>> \o RemoveAt(p, i)
  <2>4. i \in DOMAIN p /\ i = Len(g) /\ g # <<>>
    <3>1. Len(p) = E /\ Len(g) = E /\ E \in Nat \ {0}
      BY <1>2, <1>3, <2>1, CacheAssumption DEF Ordered
    <3> QED
      BY <1>3, <3>1
  <2>5. p[i] = v
    <3>1. PICK j \in DOMAIN p : p[j] = v
      BY <1>2, InLines DEF Ordered
    <3>2. ~ (j < i)
      <4>1. p[i] \in Lines(cache[x])
        BY <1>2, <2>4, InLines DEF Ordered
      <4>2. p[j].pri <= p[i].pri /\ p[i].pri \in Nat /\ p[j].pri \in Nat
        BY <1>3, <2>3, <2>4, <3>1, <4>1, LineFields
      <4>3. j < i => p[j].pri > p[i].pri
        BY <1>2, <2>4 DEF Ordered
      <4> QED
        BY <4>2, <4>3
    <3> QED
      BY <1>3, <3>1, <3>2
  <2>6. Ordered(cache'[x], q) /\ TagsOf(q) = <<t>> \o RemoveAt(g, i)
    <3> HIDE DEF new, i
    <3>1. Ordered(cache'[x], q)
      BY <1>2, <1>3, <1>4, <2>1, <2>3, <2>4, <2>5, OrderMoved
    <3>2. TagsOf(q) = <<new.tag>> \o RemoveAt(TagsOf(p), i)
      BY <1>3, <1>4, <2>4, TagsMoved
    <3> QED
      BY <1>4, <3>1, <3>2
  <2>7. RemoveAt(g, i) = Front(g)
    BY <1>3, <2>4, FrontIsRemoved
  <2> HIDE DEF q, i
  <2>8. stk2 = [stk EXCEPT ![x] = <<t>> \o Front(stk[x])] /\ Sorted(x)'
    BY <1>5, <1>6, <2>6, <2>7
  <2>9. t \notin ToSet(stk[x]) /\ Len(stk[x]) = E
    BY <1>3, <1>6, <2>1, <2>2
  <2>10. /\ hits' = hits + Extra(id) /\ misses' = misses + 1
         /\ evictions' = evictions + 1
    BY <1>9 DEF Replace
  <2>11. LRU!Replace(x, t, Extra(id))
    <3> HIDE DEF x, t
    <3> QED
      BY <2>8, <2>9, <2>10
         DEF LRU!Replace, LRU!ToSet, ToSet, LRU!Front, Front
  <2> QED
    BY <2>8, <2>11 DEF LRU!LRUAccess
<1> QED
  BY <1>7, <1>8, <1>9 DEF Access

LEMMA RefInvInit == Init => RefInv /\ LRU!LRUInit
<1> SUFFICES ASSUME Init PROVE RefInv /\ LRU!LRUInit
  OBVIOUS
<1>1. ASSUME NEW x \in Sets PROVE Sorted(x) /\ Recency(cache[x]) = <<>>
  <2>1. cache[x] = <<>>
    BY DEF Init
  <2>2. Ordered(<<>>, <<>>)
    BY DEF Ordered, Lines
  <2>3. DOMAIN cache[x] = {}
    BY <2>1
  <2>4. Recency(cache[x]) = <<>>
    BY <2>3 DEF Recency
  <2> QED
    BY <2>1, <2>2, <2>4 DEF Sorted
<1>2. LRU!LRUInit
  BY <1>1 DEF LRU!LRUInit, Init
<1> QED
  BY <1>1, <1>2, InitSound DEF RefInv

LEMMA RefInvPreserved == RefInv /\ [Next]_simVars => RefInv'
<1> SUFFICES ASSUME RefInv, [Next]_simVars PROVE RefInv'
  OBVIOUS
<1>1. Inv'
  BY StepSound DEF RefInv
<1>2. ASSUME NEW x \in Sets, cache'[x] = cache[x] PROVE Sorted(x)'
  BY <1>2 DEF RefInv, Sorted
<1>3. ASSUME NEW a \in Addr, NEW id, Access(a, id), NEW x \in Sets
      PROVE  Sorted(x)'
  <2>1. CASE x = SetIndex(a)
    BY <1>1, <1>3, <2>1, AccessIsLRU
  <2>2. CASE x # SetIndex(a)
    <3>1. cache'[x] = cache[x]
      BY <1>3, <2>2, StackFrame DEF RefInv
    <3> QED
      BY <1>2, <3>1
  <2> QED
    BY <2>1, <2>2
<1>4. CASE Next
  BY <1>1, <1>3, <1>4 DEF Next, RefInv
<1>5. CASE UNCHANGED simVars
  BY <1>1, <1>2, <1>5 DEF RefInv, simVars
<1> QED
  BY <1>4, <1>5

(* For every geometry and any trace the simulator is the cache LRUCache    *)
(* describes: each access does to the stack of its set, and to the         *)
(* counters, what an access does there.                                    *)
THEOREM SimulatorIsLRU == Spec => ImplementsLRU
<1> DEFINE A == \A a \in Addr, id \in {"L", "S", "M"} :
                   Access(a, id) => LRU!LRUAccess(SetIndex(a), Tag(a), Extra(id))
<1>1. RefInv /\ [Next]_simVars => A
  <2> SUFFICES ASSUME RefInv, [Next]_simVars,
                      NEW a \in Addr, NEW id \in {"L", "S", "M"}, Access(a, id)
               PROVE  LRU!LRUAccess(SetIndex(a), Tag(a), Extra(id))
    OBVIOUS
  <2>1. Inv'
    BY StepSound DEF RefInv
  <2> QED
    BY <2>1, AccessIsLRU
<1>2. Spec => LRU!LRUInit
  BY RefInvInit DEF Spec
<1>3. Spec => [][A]_simVars
  <2> HIDE DEF A
  <2> QED
    BY <1>1, RefInvInit, RefInvPreserved, PTL DEF Spec
<1> QED
  BY <1>2, <1>3 DEF ImplementsLRU

-----------------------------------------------------------------------------
(* The lines in use.  A hit and a replacement use the same ones as before, *)
(* an insertion one more.                                                  *)
LEMMA LinesInUse == \A x, i : <<x, i>> \in UsedLines <=> x \in Sets /\ i \in DOMAIN cache[x]
BY DEF UsedLines

CountInv == Inv /\ IsFiniteSet(UsedLines) /\ MissesExplained

LEMMA CountInvInit == Init => CountInv
<1> SUFFICES ASSUME Init PROVE CountInv
  OBVIOUS
<1>1. UsedLines = {}
  BY DEF UsedLines, Init
<1>2. misses = 0 /\ evictions = 0
  BY DEF Init
<1> QED
  BY <1>1, <1>2, FS_EmptySet, InitSound DEF CountInv, MissesExplained

LEMMA SameLines ==
  ASSUME CountInv, NEW x \in Sets, Len(cache'[x]) = Len(cache[x]), Inv',
         \A y \in Sets : y # x => cache'[y] = cache[y]
  PROVE  UsedLines' = UsedLines
<1>1. \A y \in Sets : DOMAIN cache'[y] = DOMAIN cache[y]
  <2>1. cache[x] \in Seq(Line) /\ cache'[x] \in Seq(Line)
    BY DEF CountInv, Inv, TypeOK
  <2>2. DOMAIN cache'[x] = DOMAIN cache[x]
    BY <2>1
  <2> QED
    BY <2>2
<1> QED
  BY <1>1 DEF UsedLines

LEMMA CountInvPreserved == CountInv /\ [Next]_simVars => CountInv'
<1> SUFFICES ASSUME CountInv, [Next]_simVars PROVE CountInv'
  OBVIOUS
<1>1. Inv /\ Inv' /\ misses \in Nat /\ evictions \in Nat
  BY StepSound DEF CountInv, Inv, TypeOK
<1>2. misses = evictions + Cardinality(UsedLines) /\ Cardinality(UsedLines) \in Nat
  BY FS_CardinalityType DEF CountInv, MissesExplained
<1>3. ASSUME NEW a \in Addr, NEW id, Access(a, id) PROVE CountInv'
  <2> DEFINE x == SetIndex(a)
             t == Tag(a)
  <2>1. x \in Sets /\ t \in Tags /\ \A y \in Sets : y # x => cache'[y] = cache[y]
    BY <1>1, <1>3, AddressParts, StackFrame
  <2>2. CASE Hit(x, t, id)
    <3>1. Len(cache'[x]) = Len(cache[x])
      BY <1>1, <2>1, <2>2, HitEffect
    <3>2. UsedLines' = UsedLines
      BY <1>1, <2>1, <3>1, SameLines
    <3> QED
      BY <1>1, <1>2, <2>2, <3>2 DEF CountInv, MissesExplained, Hit
  <2>3. CASE Insert(x, t, id)
    <3> DEFINE new == <<x, Len(cache[x]) + 1>>
    <3>1. /\ cache[x] \in Seq(Line) /\ cache'[x] \in Seq(Line)
          /\ Len(cache'[x]) = Len(cache[x]) + 1
      BY <1>1, <2>1, <2>3, InsertEffect DEF Inv, TypeOK
    <3>2. /\ DOMAIN cache'[x] = DOMAIN cache[x] \cup {Len(cache[x]) + 1}
          /\ Len(cache[x]) + 1 \notin DOMAIN cache[x]
      BY <3>1
    <3>3. UsedLines' = UsedLines \cup {new} /\ new \notin UsedLines
      <4>1. new \notin UsedLines
        BY <3>2, LinesInUse
      <4>2. \A y \in Sets : {y} \X DOMAIN cache'[y] =
               IF y = x THEN ({x} \X DOMAIN cache[x]) \cup {new}
                        ELSE {y} \X DOMAIN cache[y]
        BY <2>1, <3>2
      <4>3. UsedLines' = UsedLines \cup {new}
        BY <2>1, <4>2 DEF UsedLines
      <4> QED
        BY <4>1, <4>3
    <3>4. IsFiniteSet(UsedLines') /\ Cardinality(UsedLines') = Cardinality(UsedLines) + 1
      <4> HIDE DEF new
      <4> QED
        BY <3>3, FS_AddElement DEF CountInv
    <3>5. misses' = misses + 1 /\ evictions' = evictions
      BY <2>3 DEF Insert
    <3> QED
      BY <1>1, <1>2, <3>4, <3>5 DEF CountInv, MissesExplained
  <2>4. CASE Replace(x, t, id)
    <3>1. Len(cache'[x]) = Len(cache[x])
      BY <1>1, <2>1, <2>4, ReplaceEffect
    <3>2. UsedLines' = UsedLines
      BY <1>1, <2>1, <3>1, SameLines
    <3> QED
      BY <1>1, <1>2, <2>4, <3>2 DEF CountInv, MissesExplained, Replace
  <2> QED
    BY <1>3, <2>2, <2>3, <2>4 DEF Access
<1>4. CASE Next
  BY <1>3, <1>4 DEF Next
<1>5. CASE UNCHANGED simVars
  BY <1>1, <1>5 DEF CountInv, MissesExplained, UsedLines, simVars
<1> QED
  BY <1>4, <1>5

(* Every miss has brought in a line that is still there or has been        *)
(* evicted.                                                                *)
THEOREM MissesAreExplained == Spec => []MissesExplained
<1>1. CountInv => MissesExplained
  BY DEF CountInv
<1> QED
  BY <1>1, CountInvInit, CountInvPreserved, PTL DEF Spec

-----------------------------------------------------------------------------
(* The block of an address.                                                *)

(* Shifted up to n, and its existence: there is one function that begins   *)
(* with 1 and doubles.                                                     *)
Doubling(n, f) == /\ f \in [0 .. n -> Nat \ {0}]
                  /\ f[0] = 1
                  /\ \A k \in 1 .. n : f[k] = 2 * f[k - 1]

LEMMA DoublingExists ==
  ASSUME NEW n \in Nat
  PROVE  \E f : Doubling(n, f)
<1> DEFINE Q == {k \in Nat : \E f : Doubling(k, f)}
<1>1. 0 \in Q
  <2> DEFINE f == [i \in 0 .. 0 |-> 1]
  <2>1. Doubling(0, f)
    BY DEF Doubling
  <2> QED
    BY <2>1
<1>2. ASSUME NEW k \in 1 .. n, k - 1 \in Q PROVE k \in Q
  <2>1. PICK f : Doubling(k - 1, f)
    BY <1>2
  <2> DEFINE g == [i \in 0 .. k |-> IF i = k THEN 2 * f[k - 1] ELSE f[i]]
  <2>2. /\ f \in [0 .. k - 1 -> Nat \ {0}]
        /\ f[0] = 1
        /\ \A i \in 1 .. k - 1 : f[i] = 2 * f[i - 1]
    BY <2>1 DEF Doubling
  <2>3. \A i \in 0 .. k : g[i] = IF i = k THEN 2 * f[k - 1] ELSE f[i]
    OBVIOUS
  <2>4. \A i \in 0 .. k : g[i] \in Nat \ {0}
    <3>1. \A i \in 0 .. k - 1 : f[i] \in Nat \ {0}
      BY <2>2
    <3> HIDE DEF g
    <3> QED
      BY <2>3, <3>1
  <2>5. g \in [0 .. k -> Nat \ {0}]
    BY <2>4
  <2>6. g[0] = 1 /\ \A i \in 1 .. k : g[i] = 2 * g[i - 1]
    <3>1. \A i \in 0 .. k - 1 : g[i] = f[i]
      OBVIOUS
    <3>2. g[k] = 2 * f[k - 1]
      OBVIOUS
    <3> HIDE DEF g
    <3>3. g[0] = 1
      BY <2>2, <3>1
    <3>4. ASSUME NEW i \in 1 .. k PROVE g[i] = 2 * g[i - 1]
      <4>1. CASE i = k
        BY <3>1, <3>2, <4>1
      <4>2. CASE i # k
        <5>1. i \in 1 .. k - 1 /\ i \in 0 .. k - 1 /\ i - 1 \in 0 .. k - 1
          BY <4>2
        <5> QED
          BY <2>2, <3>1, <5>1
      <4> QED
        BY <4>1, <4>2
    <3> QED
      BY <3>3, <3>4
  <2>7. Doubling(k, g)
    <3> HIDE DEF g
    <3> QED
      BY <2>5, <2>6 DEF Doubling
  <2> QED
    BY <2>7
<1>3. Q \in SUBSET Nat
  OBVIOUS
<1>4. n \in Q
  <2> HIDE DEF Q
  <2> QED
    BY <1>1, <1>2, <1>3, UpTo
<1> QED
  BY <1>4

LEMMA DoublingAgrees ==
  ASSUME NEW n \in Nat, NEW m \in Nat, NEW f, NEW g,
         Doubling(n, f), Doubling(m, g), NEW k \in Nat, k <= n, k <= m
  PROVE  f[k] = g[k]
<1> DEFINE Q == {i \in Nat : f[i] = g[i]}
<1>1. 0 \in Q
  BY DEF Doubling
<1>2. ASSUME NEW i \in 1 .. k, i - 1 \in Q PROVE i \in Q
  BY <1>2 DEF Doubling
<1>3. Q \in SUBSET Nat
  OBVIOUS
<1>4. k \in Q
  <2> HIDE DEF Q
  <2> QED
    BY <1>1, <1>2, <1>3, UpTo
<1> QED
  BY <1>4

LEMMA ShiftedIs ==
  /\ Shifted \in [Nat -> Nat \ {0}]
  /\ Shifted[0] = 1
  /\ \A n \in Nat \ {0} : Shifted[n] = 2 * Shifted[n - 1]
<1> DEFINE Some(n) == CHOOSE f : Doubling(n, f)
           F == [n \in Nat |-> Some(n)[n]]
<1>1. \A n \in Nat : Doubling(n, Some(n))
  BY DoublingExists
<1> HIDE DEF Some
<1>2. /\ F \in [Nat -> Nat \ {0}]
      /\ F[0] = 1
  BY <1>1 DEF Doubling
<1>3. ASSUME NEW n \in Nat \ {0} PROVE F[n] = 2 * F[n - 1]
  <2>1. n - 1 \in Nat /\ n \in Nat /\ n - 1 <= n /\ n \in 1 .. n
    OBVIOUS
  <2>2. Some(n)[n - 1] = Some(n - 1)[n - 1]
    BY <1>1, <2>1, DoublingAgrees
  <2>3. Some(n)[n] = 2 * Some(n)[n - 1]
    BY <1>1, <2>1 DEF Doubling
  <2> QED
    BY <2>1, <2>2, <2>3
<1>4. F = [n \in Nat |-> IF n = 0 THEN 1 ELSE 2 * F[n - 1]]
  <2> HIDE DEF F
  <2>1. \A n \in Nat : F[n] = IF n = 0 THEN 1 ELSE 2 * F[n - 1]
    BY <1>2, <1>3
  <2> QED
    BY <1>2, <2>1
<1> HIDE DEF F
<1>5. Shifted = [n \in Nat |-> IF n = 0 THEN 1 ELSE 2 * Shifted[n - 1]]
  BY <1>4 DEF Shifted
<1>6. \A n \in Nat : Shifted[n] = IF n = 0 THEN 1 ELSE 2 * Shifted[n - 1]
  BY <1>5
<1> DEFINE Q == {k \in Nat : Shifted[k] \in Nat \ {0}}
<1>7. \A n \in Nat : n \in Q
  <2> SUFFICES ASSUME NEW n \in Nat PROVE n \in Q
    OBVIOUS
  <2>1. 0 \in Q
    BY <1>6
  <2>2. ASSUME NEW k \in 1 .. n, k - 1 \in Q PROVE k \in Q
    <3>1. Shifted[k] = 2 * Shifted[k - 1]
      BY <1>6
    <3> QED
      BY <2>2, <3>1
  <2>3. Q \in SUBSET Nat
    OBVIOUS
  <2> HIDE DEF Q
  <2> QED
    BY <2>1, <2>2, <2>3, UpTo
<1> QED
  BY <1>5, <1>6, <1>7

LEMMA ShiftedTwice ==
  ASSUME NEW m \in Nat, NEW n \in Nat
  PROVE  Shifted[m + n] = Shifted[m] * Shifted[n]
<1> DEFINE Q == {k \in Nat : Shifted[m + k] = Shifted[m] * Shifted[k]}
<1>1. 0 \in Q
  BY ShiftedIs
<1>2. ASSUME NEW k \in 1 .. n, k - 1 \in Q PROVE k \in Q
  <2>1. /\ Shifted[m + k] = 2 * Shifted[(m + k) - 1]
        /\ Shifted[k] = 2 * Shifted[k - 1]
        /\ Shifted[m] \in Nat /\ Shifted[k - 1] \in Nat
        /\ (m + k) - 1 = m + (k - 1)
    BY ShiftedIs
  <2>2. Shifted[m + (k - 1)] = Shifted[m] * Shifted[k - 1]
    BY <1>2
  <2>3. \A x, y \in Nat : 2 * (x * y) = x * (2 * y)
    OBVIOUS
  <2> QED
    BY <2>1, <2>2, <2>3
<1>3. Q \in SUBSET Nat
  OBVIOUS
<1>4. n \in Q
  <2> HIDE DEF Q
  <2> QED
    BY <1>1, <1>2, <1>3, UpTo
<1> QED
  BY <1>4

(* A number is its quotient and its remainder.                             *)
LEMMA Divided ==
  ASSUME NEW a \in Nat, NEW d \in Nat \ {0}
  PROVE  /\ a \div d \in Nat /\ a % d \in 0 .. d - 1
         /\ a = d * (a \div d) + (a % d)
OBVIOUS

LEMMA DividedTwice ==
  ASSUME NEW a \in Nat, NEW d \in Nat \ {0}, NEW e \in Nat \ {0}
  PROVE  a \div (d * e) = (a \div d) \div e
OBVIOUS

(* The quotient of a number below a product is below the other factor.     *)
LEMMA QuotientBelow ==
  ASSUME NEW a \in Nat, NEW d \in Nat \ {0}, NEW e \in Nat \ {0}, a < d * e
  PROVE  a \div d \in 0 .. e - 1
<1>1. a \div d \in Nat /\ d * (a \div d) <= a
  BY Divided
<1>2. \A q \in Nat : q >= e => d * q >= d * e
  OBVIOUS
<1> QED
  BY <1>1, <1>2

(* The mask of the tag keeps all the bits above those of set and block.    *)
LEMMA TagIsHigh ==
  ASSUME NEW a \in Addr
  PROVE  /\ a \in Nat
         /\ Tag(a) = (a \div Shifted[b]) \div Shifted[s]
<1>1. /\ W \in Nat /\ s \in Nat /\ b \in Nat /\ s + b \in 1 .. W - 1
      /\ W - (s + b) \in 1 .. W - 1 /\ (s + b) + (W - (s + b)) = W
      /\ s + b = b + s
  BY AddressAssumption
<1>2. (2 * W - (s + b)) % W = W - (s + b)
  <2>1. \A n, k \in Nat : k \in 1 .. n - 1 => (2 * n - k) % n = n - k
    OBVIOUS
  <2> QED
    BY <1>1, <2>1
<1>3. /\ Shifted[W] \in Nat \ {0} /\ Shifted[s + b] \in Nat \ {0}
      /\ Shifted[b] \in Nat \ {0} /\ Shifted[s] \in Nat \ {0}
      /\ Shifted[W - (s + b)] \in Nat \ {0}
  BY <1>1, ShiftedIs
<1>4. /\ Shifted[W] = Shifted[s + b] * Shifted[W - (s + b)]
      /\ Shifted[s + b] = Shifted[b] * Shifted[s]
  BY <1>1, ShiftedTwice
<1>5. a \in Nat /\ a < Shifted[W]
  BY <1>3 DEF Addr
<1>6. a \div Shifted[s + b] \in 0 .. Shifted[W - (s + b)] - 1
  BY <1>3, <1>4, <1>5, QuotientBelow
<1>7. \A q, n \in Nat : q \in 0 .. n - 1 => q % n = q
  OBVIOUS
<1>8. Tag(a) = a \div Shifted[s + b]
  <2>1. Tag(a) = (a \div Shifted[s + b]) % Shifted[W - (s + b)]
    BY <1>2 DEF Tag, Mask, WayBytes
  <2> QED
    BY <1>3, <1>6, <1>7, <2>1
<1>9. a \div (Shifted[b] * Shifted[s]) = (a \div Shifted[b]) \div Shifted[s]
  BY <1>3, <1>5, DividedTwice
<1> QED
  BY <1>4, <1>5, <1>8, <1>9

(* For every geometry and every width of an address, two addresses have    *)
(* the same set index and the same tag just when they lie in one block.    *)
THEOREM BlocksAreIdentified == Spec => []BlockIdentity
<1>1. BlockIdentity
  <2> SUFFICES ASSUME NEW a1 \in Addr, NEW a2 \in Addr
               PROVE  (SetIndex(a1) = SetIndex(a2) /\ Tag(a1) = Tag(a2))
                      <=> a1 \div Shifted[b] = a2 \div Shifted[b]
    BY DEF BlockIdentity, BlockBytes
  <2>1. Shifted[b] \in Nat \ {0} /\ Shifted[s] \in Nat \ {0}
    BY AddressAssumption, ShiftedIs
  <2>2. /\ a1 \in Nat /\ Tag(a1) = (a1 \div Shifted[b]) \div Shifted[s]
        /\ a2 \in Nat /\ Tag(a2) = (a2 \div Shifted[b]) \div Shifted[s]
    BY TagIsHigh
  <2>3. a1 \div Shifted[b] \in Nat /\ a2 \div Shifted[b] \in Nat
    BY <2>1, <2>2, Divided
  <2>4. \A q \in Nat : q = Shifted[s] * (q \div Shifted[s]) + (q % Shifted[s])
    BY <2>1, Divided
  <2> QED
    BY <2>2, <2>3, <2>4 DEF SetIndex, BlockBytes, NumSets
<1> QED
  BY <1>1, PTL

=============================================================================
