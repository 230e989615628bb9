--------------------------- MODULE ProxyLabProofs ---------------------------
(***************************************************************************)
(* The proxy's object cache, its buffered readers and the requests that    *)
(* use both.                                                               *)
(*                                                                         *)
(* The cache is proved for any number of threads, every size, any number   *)
(* of nodes and any requests, and for a malloc that reuses what was freed, *)
(* under the conditions of ProxyThreads: the list stays a doubly linked    *)
(* list, the space is accounted for, and the list is the LRU cache its     *)
(* comment describes.  What is proved of the readers, of the bytes of a    *)
(* response and of the parts of a URI needs no condition.                  *)
(***************************************************************************)
EXTENDS ProxyLab, ProxyThreads, NatFacts, FiniteSetTheorems, FunctionTheorems

Node == [next : Pointer, prev : Pointer, length : Nat,
         uri : Uris \cup {NoUri}, state : {"unused", "live", "freed"}]

Memory == [Nodes -> Node]

(* c are the nodes of the list in memory m from h to t.                    *)
Links(m, h, t, c) ==
  /\ c \in Seq(Nodes)
  /\ h = IF Len(c) = 0 THEN NULL ELSE c[1]
  /\ t = IF Len(c) = 0 THEN NULL ELSE c[Len(c)]
  /\ \A i \in 1 .. Len(c) :
        /\ m[c[i]].next = IF i = Len(c) THEN NULL ELSE c[i + 1]
        /\ m[c[i]].prev = IF i = 1 THEN NULL ELSE c[i - 1]
        /\ m[c[i]].state # "unused"
  /\ \A i, j \in 1 .. Len(c) : m[c[i]].uri = m[c[j]].uri => i = j

(* s[k] is the length of the first k objects of the list.                  *)
Sums(m, c, s) ==
  /\ s \in [0 .. Len(c) -> Nat]
  /\ s[0] = 0
  /\ \A i \in 1 .. Len(c) : s[i] = s[i - 1] + m[c[i]].length

InList(n, c) == \E i \in 1 .. Len(c) : c[i] = n

Lists(m, c, u) == \E i \in 1 .. Len(c) : m[c[i]].uri = u

-----------------------------------------------------------------------------
(* Sequences.                                                              *)
LEMMA WithoutNode ==
  ASSUME NEW S, NEW c \in Seq(S), NEW k \in DOMAIN c
  PROVE  /\ RemoveAt(c, k) \in Seq(S)
         /\ Len(RemoveAt(c, k)) = Len(c) - 1
         /\ \A i \in 1 .. Len(c) - 1 :
               RemoveAt(c, k)[i] = IF i < k THEN c[i] ELSE c[i + 1]
BY Removed DEF RemoveAt

LEMMA Prepended ==
  ASSUME NEW S, NEW c \in Seq(S), NEW n \in S
  PROVE  /\ <<n>> \o c \in Seq(S)
         /\ Len(<<n>> \o c) = Len(c) + 1
         /\ (<<n>> \o c)[1] = n
         /\ \A i \in 2 .. Len(c) + 1 : (<<n>> \o c)[i] = c[i - 1]
OBVIOUS

(* No node is in the list twice, so there are no more than memory has.     *)
LEMMA NodesDistinct ==
  ASSUME NEW m, NEW h, NEW t, NEW c, Links(m, h, t, c)
  PROVE  /\ \A i, j \in 1 .. Len(c) : c[i] = c[j] => i = j
         /\ Len(c) <= MaxNodes
<1>1. c \in Seq(Nodes) /\ \A i, j \in 1 .. Len(c) : c[i] = c[j] => i = j
  BY DEF Links
<1>2. MaxNodes \in Nat /\ Len(c) \in Nat /\ 1 \in Int /\ MaxNodes \in Int /\ Len(c) \in Int
  BY <1>1, ProxyCacheAssumption
<1>3. /\ IsFiniteSet(1 .. MaxNodes)
      /\ Cardinality(1 .. MaxNodes) = IF 1 > MaxNodes THEN 0 ELSE MaxNodes - 1 + 1
  BY <1>2, FS_Interval
<1>4. /\ IsFiniteSet(1 .. Len(c))
      /\ Cardinality(1 .. Len(c)) = IF 1 > Len(c) THEN 0 ELSE Len(c) - 1 + 1
  BY <1>2, FS_Interval
<1>5. c \in [1 .. Len(c) -> Nodes]
  BY <1>1
<1>6. c \in Injection(1 .. Len(c), Nodes)
  BY <1>1, <1>5 DEF Injection, IsInjective
<1>7. Cardinality(1 .. Len(c)) <= Cardinality(1 .. MaxNodes)
  BY <1>3, <1>6, FS_Injection DEF Nodes
<1>8. Len(c) <= MaxNodes
  BY <1>2, <1>3, <1>4, <1>7
<1> QED
  BY <1>1, <1>8

LEMMA LinksFacts ==
  ASSUME NEW m, NEW h, NEW t, NEW c, Links(m, h, t, c)
  PROVE  /\ c \in Seq(Nodes) /\ Len(c) \in Nat /\ MaxNodes \in Nat /\ Len(c) <= MaxNodes
         /\ NULL \notin Nodes
         /\ \A i \in 1 .. Len(c) : c[i] \in Nodes
<1>1. c \in Seq(Nodes) /\ Len(c) <= MaxNodes
  BY NodesDistinct DEF Links
<1>2. MaxNodes \in Nat /\ NULL \notin Nodes
  BY ProxyCacheAssumption DEF Nodes, NULL
<1> QED
  BY <1>1, <1>2

-----------------------------------------------------------------------------
(* Two functions on 0 .. n that start alike and go on alike are the same.  *)
LEMMA SameWalk ==
  ASSUME NEW n \in Nat, NEW f, NEW g,
         DOMAIN f = 0 .. n, DOMAIN g = 0 .. n,
         f = [k \in 0 .. n |-> f[k]], g = [k \in 0 .. n |-> g[k]],
         f[0] = g[0],
         \A k \in 1 .. n : f[k - 1] = g[k - 1] => f[k] = g[k]
  PROVE  f = g
<1> DEFINE D == {k \in 0 .. n : f[k] # g[k]}
<1>1. ASSUME D # {} PROVE FALSE
  <2>1. D \in SUBSET Nat
    OBVIOUS
  <2>2. PICK k \in D : \A j \in D : k <= j
    BY <1>1, <2>1, LeastNat
  <2>3. k \in 1 .. n /\ k - 1 \in 0 .. n /\ k - 1 \notin D
    BY <2>2
  <2>4. f[k - 1] = g[k - 1]
    BY <2>3
  <2> QED
    BY <2>2, <2>3, <2>4
<1>2. \A k \in 0 .. n : f[k] = g[k]
  BY <1>1
<1> QED
  BY <1>2

(* A scan from head meets the nodes of the list, then NULL.                *)
LEMMA WalkOfLinks ==
  ASSUME NEW c, Links(mem, head, tail, c)
  PROVE  Walk = [k \in 0 .. MaxNodes |-> IF k < Len(c) THEN c[k + 1] ELSE NULL]
<1> DEFINE at == [k \in 0 .. MaxNodes |-> IF k < Len(c) THEN c[k + 1] ELSE NULL]
           step(f) == [k \in 0 .. MaxNodes |->
                         IF k = 0 THEN head
                         ELSE IF f[k - 1] \in Nodes THEN mem[f[k - 1]].next
                                                    ELSE f[k - 1]]
<1>1. /\ c \in Seq(Nodes) /\ Len(c) \in Nat /\ MaxNodes \in Nat
      /\ NULL \notin Nodes /\ \A i \in 1 .. Len(c) : c[i] \in Nodes
      /\ head = IF Len(c) = 0 THEN NULL ELSE c[1]
      /\ \A i \in 1 .. Len(c) : mem[c[i]].next = IF i = Len(c) THEN NULL ELSE c[i + 1]
  BY LinksFacts DEF Links
<1>2. head = IF 0 < Len(c) THEN c[1] ELSE NULL
  BY <1>1
<1>3. ASSUME NEW k \in 1 .. MaxNodes
      PROVE  at[k] = IF at[k - 1] \in Nodes THEN mem[at[k - 1]].next ELSE at[k - 1]
  <2>1. k - 1 \in 0 .. MaxNodes /\ k \in 0 .. MaxNodes
    BY <1>1
  <2>2. at[k - 1] = IF k - 1 < Len(c) THEN c[(k - 1) + 1] ELSE NULL
    BY <2>1
  <2>3. CASE k <= Len(c)
    <3>1. at[k - 1] = c[k] /\ c[k] \in Nodes /\ k \in 1 .. Len(c)
      BY <1>1, <2>2, <2>3
    <3>2. mem[c[k]].next = IF k = Len(c) THEN NULL ELSE c[k + 1]
      BY <1>1, <3>1
    <3>3. at[k] = IF k < Len(c) THEN c[k + 1] ELSE NULL
      BY <2>1
    <3> QED
      BY <1>1, <2>3, <3>1, <3>2, <3>3
  <2>4. CASE ~ (k <= Len(c))
    BY <1>1, <2>1, <2>2, <2>4
  <2> QED
    BY <2>3, <2>4
<1>4. at[0] = head /\ DOMAIN at = 0 .. MaxNodes
  BY <1>1, <1>2
<1>5. at = step(at)
  <2> DEFINE r == step(at)
  <2>1. DOMAIN r = 0 .. MaxNodes /\ r = [k \in 0 .. MaxNodes |-> r[k]]
    OBVIOUS
  <2>2. ASSUME NEW k \in 0 .. MaxNodes PROVE r[k] = at[k]
    <3>1. k = 0 \/ k \in 1 .. MaxNodes
      BY <1>1
    <3> HIDE DEF at
    <3> QED
      BY <1>3, <1>4, <3>1
  <2>3. at = [k \in 0 .. MaxNodes |-> at[k]]
    OBVIOUS
  <2> HIDE DEF at, r
  <2>4. at = r
    BY <2>1, <2>2, <2>3
  <2> QED
    BY <2>4 DEF r
<1>6. Walk = CHOOSE f : f = step(f)
  BY DEF Walk
<1> HIDE DEF at
<1>7. Walk = step(Walk)
  <2> HIDE DEF step
  <2> QED
    BY <1>5, <1>6
<1> DEFINE w == Walk
<1>8. /\ DOMAIN w = 0 .. MaxNodes /\ w = [k \in 0 .. MaxNodes |-> w[k]]
      /\ w[0] = head
      /\ \A k \in 1 .. MaxNodes :
            w[k] = IF w[k - 1] \in Nodes THEN mem[w[k - 1]].next ELSE w[k - 1]
  <2> HIDE DEF w
  <2>1. w = step(w)
    BY <1>7 DEF w
  <2> QED
    BY <1>1, <2>1
<1>9. at = [k \in 0 .. MaxNodes |-> at[k]]
  BY DEF at
<1> HIDE DEF w, step
<1>10. \A k \in 1 .. MaxNodes : w[k - 1] = at[k - 1] => w[k] = at[k]
  BY <1>3, <1>8
<1>11. w = at
  <2>1. w[0] = at[0]
    BY <1>4, <1>8
  <2> QED
    BY <1>1, <1>4, <1>8, <1>9, <1>10, <2>1, SameWalk
<1> QED
  BY <1>11 DEF w, at

LEMMA ChainOfLinks ==
  ASSUME NEW c, Links(mem, head, tail, c)
  PROVE  /\ Walk[MaxNodes] = NULL
         /\ Chain = c
<1>1. Walk = [k \in 0 .. MaxNodes |-> IF k < Len(c) THEN c[k + 1] ELSE NULL]
  BY WalkOfLinks
<1>2. /\ c \in Seq(Nodes) /\ Len(c) \in Nat /\ MaxNodes \in Nat /\ Len(c) <= MaxNodes
      /\ NULL \notin Nodes
  BY LinksFacts
<1>3. \A k \in DOMAIN Walk : Walk[k] \in Nodes <=> k < Len(c)
  <2>1. \A k \in 0 .. MaxNodes : k < Len(c) => c[k + 1] \in Nodes
    BY <1>2
  <2> QED
    BY <1>1, <1>2, <2>1
<1>4. {k \in DOMAIN Walk : Walk[k] \in Nodes} = 0 .. Len(c) - 1
  BY <1>1, <1>2, <1>3
<1>5. Cardinality(0 .. Len(c) - 1) = Len(c)
  <2>1. 0 \in Int /\ Len(c) - 1 \in Int
    BY <1>2
  <2>2. Cardinality(0 .. Len(c) - 1) = IF 0 > Len(c) - 1 THEN 0 ELSE (Len(c) - 1) - 0 + 1
    BY <2>1, FS_Interval
  <2> QED
    BY <1>2, <2>2
<1>6. Chain = [i \in 1 .. Len(c) |-> Walk[i - 1]]
  BY <1>4, <1>5 DEF Chain
<1>7. \A i \in 1 .. Len(c) : Walk[i - 1] = c[i]
  <2> SUFFICES ASSUME NEW i \in 1 .. Len(c) PROVE Walk[i - 1] = c[i]
    OBVIOUS
  <2>1. i - 1 \in 0 .. MaxNodes /\ i - 1 < Len(c) /\ (i - 1) + 1 = i
    BY <1>2
  <2> QED
    BY <1>1, <2>1
<1>8. c = [i \in 1 .. Len(c) |-> c[i]]
  BY <1>2
<1>9. Chain = c
  BY <1>6, <1>7, <1>8
<1>10. Walk[MaxNodes] = NULL
  BY <1>1, <1>2
<1> QED
  BY <1>9, <1>10

-----------------------------------------------------------------------------
(* What Unlink and Link leave in memory.                                   *)
Skipped(m, h, v) == IF v = h THEN m
                  ELSE [m EXCEPT ![m[v].prev].next = m[v].next]

Unlinked(m, h, t, v) ==
  LET ahead == Skipped(m, h, v)
  IN  IF v = t THEN ahead ELSE [ahead EXCEPT ![ahead[v].next].prev = ahead[v].prev]

Fronted(m, h, n) == [m EXCEPT ![n].next = h, ![n].prev = NULL]

Pushed(m, h, n) == IF h = NULL THEN Fronted(m, h, n)
                   ELSE [Fronted(m, h, n) EXCEPT ![h].prev = n]

(* The nodes next to the one taken out point to each other.                *)
LEMMA NeighboursJoined ==
  ASSUME NEW m \in Memory, NEW h, NEW t, NEW v \in Nodes,
         v # h => m[v].prev \in Nodes \ {v},
         v # t => m[v].next \in Nodes \ {v},
         NEW p, p = m[v].prev, NEW q, q = m[v].next
  PROVE  /\ Skipped(m, h, v)[v] = m[v]
         /\ Freed(Unlinked(m, h, t, v), v) \in Memory
         /\ \A n \in Nodes :
              /\ Freed(Unlinked(m, h, t, v), v)[n].uri = m[n].uri
              /\ Freed(Unlinked(m, h, t, v), v)[n].length = m[n].length
              /\ Freed(Unlinked(m, h, t, v), v)[n].state =
                    IF n = v THEN "freed" ELSE m[n].state
              /\ n # v => /\ Freed(Unlinked(m, h, t, v), v)[n].next =
                                IF v # h /\ n = p THEN q ELSE m[n].next
                          /\ Freed(Unlinked(m, h, t, v), v)[n].prev =
                                IF v # t /\ n = q THEN p ELSE m[n].prev
<1> DEFINE a == Skipped(m, h, v)
           d == Unlinked(m, h, t, v)
           f == Freed(d, v)
<1>1. /\ \A n \in Nodes : m[n] \in Node
      /\ p \in Pointer /\ q \in Pointer
  BY DEF Memory, Node
<1>2. a \in Memory
  <2>1. CASE v = h
    BY <2>1 DEF Skipped
  <2>2. CASE v # h
    <3>1. a = [m EXCEPT ![p] = [m[p] EXCEPT !.next = q]]
      BY <2>2 DEF Skipped
    <3>2. [m[p] EXCEPT !.next = q] \in Node
      BY <1>1, <2>2 DEF Node
    <3> QED
      BY <3>1, <3>2 DEF Memory
  <2> QED
    BY <2>1, <2>2
<1>3. \A n \in Nodes : a[n] = IF v # h /\ n = p THEN [m[n] EXCEPT !.next = q] ELSE m[n]
  BY DEF Skipped, Memory
<1>4. a[v] = m[v]
  BY <1>3
<1>5. d = IF v = t THEN a ELSE [a EXCEPT ![q] = [a[q] EXCEPT !.prev = p]]
  <2> HIDE DEF a
  <2> QED
    BY <1>4 DEF Unlinked, a
<1> HIDE DEF a
<1>6. \A n \in Nodes : d[n] = IF v # t /\ n = q THEN [a[n] EXCEPT !.prev = p] ELSE a[n]
  BY <1>2, <1>5 DEF Memory
<1>7. d \in Memory
  <2>1. CASE v = t
    BY <1>2, <1>5, <2>1
  <2>2. CASE v # t
    <3>1. a[q] \in Node
      BY <1>2, <2>2 DEF Memory
    <3>2. [a[q] EXCEPT !.prev = p] \in Node
      BY <1>1, <3>1 DEF Node
    <3> QED
      BY <1>2, <1>5, <2>2, <3>2 DEF Memory
  <2> QED
    BY <2>1, <2>2
<1> HIDE DEF d
<1>8. \A n \in Nodes : f[n] = IF n = v THEN [d[n] EXCEPT !.next = Junk, !.prev = Junk,
                                                       !.state = "freed"]
                              ELSE d[n]
  BY <1>7 DEF Freed, Memory
<1>9. f \in Memory
  <2>1. d[v] \in Node
    BY <1>7 DEF Memory
  <2>2. [d[v] EXCEPT !.next = Junk, !.prev = Junk, !.state = "freed"] \in Node
    BY <2>1 DEF Node, Pointer
  <2> QED
    BY <1>7, <2>2 DEF Freed, Memory
<1> HIDE DEF f
<1>10. ASSUME NEW n \in Nodes
       PROVE  /\ f[n].uri = m[n].uri /\ f[n].length = m[n].length
              /\ f[n].state = IF n = v THEN "freed" ELSE m[n].state
              /\ n # v => /\ f[n].next = IF v # h /\ n = p THEN q ELSE m[n].next
                          /\ f[n].prev = IF v # t /\ n = q THEN p ELSE m[n].prev
  <2>1. m[n] \in Node /\ a[n] \in Node /\ d[n] \in Node
    BY <1>2, <1>7 DEF Memory
  <2>2. /\ a[n].uri = m[n].uri /\ a[n].length = m[n].length /\ a[n].state = m[n].state
        /\ a[n].prev = m[n].prev
        /\ a[n].next = IF v # h /\ n = p THEN q ELSE m[n].next
    BY <1>3, <2>1 DEF Node
  <2>3. /\ d[n].uri = a[n].uri /\ d[n].length = a[n].length /\ d[n].state = a[n].state
        /\ d[n].next = a[n].next
        /\ d[n].prev = IF v # t /\ n = q THEN p ELSE a[n].prev
    BY <1>6, <2>1 DEF Node
  <2>4. /\ f[n].uri = d[n].uri /\ f[n].length = d[n].length
        /\ f[n].state = IF n = v THEN "freed" ELSE d[n].state
        /\ n # v => f[n].next = d[n].next /\ f[n].prev = d[n].prev
    BY <1>8, <2>1 DEF Node
  <2> QED
    BY <2>2, <2>3, <2>4
<1> QED
  BY <1>4, <1>9, <1>10 DEF a, d, f

(* A list without its k-th node is a list.                                 *)
LEMMA ListWithout ==
  ASSUME NEW m \in Memory, NEW h, NEW t, NEW c, Links(m, h, t, c),
         NEW k \in 1 .. Len(c), NEW v, v = c[k],
         NEW f, f = Freed(Unlinked(m, h, t, v), v)
  PROVE  /\ v \in Nodes
         /\ v # h => m[v].prev \in Nodes
         /\ v # t => m[v].next \in Nodes
         /\ Skipped(m, h, v)[v] = m[v]
         /\ f \in Memory
         /\ \A n \in Nodes : f[n].uri = m[n].uri /\ f[n].length = m[n].length
         /\ \A n \in Nodes : f[n].state = "unused" <=> m[n].state = "unused"
         /\ Links(f, IF v = h THEN m[v].next ELSE h,
                     IF v = t THEN m[v].prev ELSE t, RemoveAt(c, k))
<1> DEFINE L == Len(c)
           d == RemoveAt(c, k)
           p == m[v].prev
           q == m[v].next
<1>1. /\ c \in Seq(Nodes) /\ L \in Nat /\ NULL \notin Nodes
      /\ \A i \in 1 .. L : c[i] \in Nodes
      /\ \A i, j \in 1 .. L : c[i] = c[j] => i = j
  BY LinksFacts, NodesDistinct
<1>2. /\ h = c[1] /\ t = c[L]
      /\ \A i \in 1 .. L : /\ m[c[i]].next = IF i = L THEN NULL ELSE c[i + 1]
                           /\ m[c[i]].prev = IF i = 1 THEN NULL ELSE c[i - 1]
                           /\ m[c[i]].state # "unused"
      /\ \A i, j \in 1 .. L : m[c[i]].uri = m[c[j]].uri => i = j
  <2>1. L # 0
    BY <1>1
  <2> QED
    BY <2>1 DEF Links
<1>3. (v = h <=> k = 1) /\ (v = t <=> k = L)
  BY <1>1, <1>2
<1>4. /\ p = IF k = 1 THEN NULL ELSE c[k - 1]
      /\ q = IF k = L THEN NULL ELSE c[k + 1]
  BY <1>2
<1>5. v \in Nodes /\ (v # h => p \in Nodes \ {v}) /\ (v # t => q \in Nodes \ {v})
  <2>1. v \in Nodes
    BY <1>1
  <2>2. ASSUME v # h PROVE p \in Nodes \ {v}
    <3>1. k - 1 \in 1 .. L /\ k - 1 # k /\ p = c[k - 1]
      BY <1>1, <1>3, <1>4, <2>2
    <3> QED
      BY <1>1, <3>1
  <2>3. ASSUME v # t PROVE q \in Nodes \ {v}
    <3>1. k + 1 \in 1 .. L /\ k + 1 # k /\ q = c[k + 1]
      BY <1>1, <1>3, <1>4, <2>3
    <3> QED
      BY <1>1, <3>1
  <2> QED
    BY <2>1, <2>2, <2>3
<1> HIDE DEF p, q
<1>6. /\ Skipped(m, h, v)[v] = m[v]
      /\ f \in Memory
      /\ \A n \in Nodes :
           /\ f[n].uri = m[n].uri /\ f[n].length = m[n].length
           /\ f[n].state = IF n = v THEN "freed" ELSE m[n].state
           /\ n # v => /\ f[n].next = IF v # h /\ n = p THEN q ELSE m[n].next
                       /\ f[n].prev = IF v # t /\ n = q THEN p ELSE m[n].prev
  BY <1>5, NeighboursJoined DEF p, q
<1>7. /\ d \in Seq(Nodes) /\ Len(d) = L - 1
      /\ \A i \in 1 .. L - 1 : d[i] = IF i < k THEN c[i] ELSE c[i + 1]
  <2>1. k \in DOMAIN c
    BY <1>1
  <2> QED
    BY <1>1, <2>1, WithoutNode
<1> HIDE DEF d
<1>8. ASSUME NEW i \in 1 .. L - 1
      PROVE  /\ f[d[i]].next = IF i = L - 1 THEN NULL ELSE d[i + 1]
             /\ f[d[i]].prev = IF i = 1 THEN NULL ELSE d[i - 1]
             /\ f[d[i]].state # "unused"
             /\ f[d[i]].uri = m[d[i]].uri
  <2> DEFINE at == IF i < k THEN i ELSE i + 1
  <2>1. at \in 1 .. L /\ at # k /\ d[i] = c[at]
    BY <1>1, <1>7
  <2>2. d[i] \in Nodes /\ d[i] # v
    BY <1>1, <2>1
  <2>3. /\ m[d[i]].next = IF at = L THEN NULL ELSE c[at + 1]
        /\ m[d[i]].prev = IF at = 1 THEN NULL ELSE c[at - 1]
        /\ m[d[i]].state # "unused"
    BY <1>2, <2>1
  <2>4. (v # h /\ d[i] = p) <=> (k # 1 /\ at = k - 1)
    <3>1. k # 1 => k - 1 \in 1 .. L
      BY <1>1
    <3> QED
      BY <1>1, <1>3, <1>4, <2>1, <3>1
  <2>5. (v # t /\ d[i] = q) <=> (k # L /\ at = k + 1)
    <3>1. k # L => k + 1 \in 1 .. L
      BY <1>1
    <3> QED
      BY <1>1, <1>3, <1>4, <2>1, <3>1
  <2>6. f[d[i]].next = IF i = L - 1 THEN NULL ELSE d[i + 1]
    <3>1. f[d[i]].next = IF k # 1 /\ at = k - 1 THEN q ELSE m[d[i]].next
      BY <1>6, <2>2, <2>4
    <3>2. CASE i = k - 1
      <4>1. k # 1 /\ at = k - 1
        BY <1>1, <3>2
      <4>2. i # L - 1 => d[i + 1] = c[i + 2]
        <5>1. i # L - 1 => i + 1 \in 1 .. L - 1 /\ ~ (i + 1 < k) /\ (i + 1) + 1 = i + 2
          BY <1>1, <3>2
        <5> QED
          BY <1>7, <5>1
      <4> QED
        BY <1>1, <1>4, <3>1, <3>2, <4>1, <4>2
    <3>3. CASE i < k - 1
      <4>1. at = i /\ i # L - 1 /\ at # L /\ ~ (at = k - 1) /\ i + 1 \in 1 .. L - 1 /\ i + 1 < k
        BY <1>1, <3>3
      <4>2. d[i + 1] = c[i + 1]
        BY <1>7, <4>1
      <4> QED
        BY <2>3, <3>1, <4>1, <4>2
    <3>4. CASE i >= k
      <4>1. at = i + 1 /\ ~ (at = k - 1) /\ (at = L <=> i = L - 1)
        BY <1>1, <3>4
      <4>2. i # L - 1 => d[i + 1] = c[(i + 1) + 1]
        <5>1. i # L - 1 => i + 1 \in 1 .. L - 1 /\ ~ (i + 1 < k)
          BY <1>1, <3>4
        <5> QED
          BY <1>7, <5>1
      <4> QED
        BY <2>3, <3>1, <4>1, <4>2
    <3> QED
      BY <1>1, <3>2, <3>3, <3>4
  <2>7. f[d[i]].prev = IF i = 1 THEN NULL ELSE d[i - 1]
    <3>1. f[d[i]].prev = IF k # L /\ at = k + 1 THEN p ELSE m[d[i]].prev
      BY <1>6, <2>2, <2>5
    <3>2. CASE i = k
      <4>1. k # L /\ at = k + 1
        BY <1>1, <3>2
      <4>2. i # 1 => d[i - 1] = c[i - 1]
        <5>1. i # 1 => i - 1 \in 1 .. L - 1 /\ i - 1 < k
          BY <1>1, <3>2
        <5> QED
          BY <1>7, <5>1
      <4> QED
        BY <1>1, <1>4, <3>1, <3>2, <4>1, <4>2
    <3>3. CASE i < k
      <4>1. at = i /\ ~ (at = k + 1)
        BY <1>1, <3>3
      <4>2. i # 1 => d[i - 1] = c[i - 1]
        <5>1. i # 1 => i - 1 \in 1 .. L - 1 /\ i - 1 < k
          BY <1>1, <3>3
        <5> QED
          BY <1>7, <5>1
      <4> QED
        BY <2>3, <3>1, <4>1, <4>2
    <3>4. CASE i > k
      <4>1. at = i + 1 /\ ~ (at = k + 1) /\ at # 1 /\ at - 1 = i /\ i # 1
        BY <1>1, <3>4
      <4>2. d[i - 1] = c[i]
        <5>1. i - 1 \in 1 .. L - 1 /\ ~ (i - 1 < k) /\ (i - 1) + 1 = i
          BY <1>1, <3>4
        <5> QED
          BY <1>7, <5>1
      <4> QED
        BY <2>3, <3>1, <4>1, <4>2
    <3> QED
      BY <1>1, <3>2, <3>3, <3>4
  <2>8. f[d[i]].state # "unused" /\ f[d[i]].uri = m[d[i]].uri
    BY <1>6, <2>2, <2>3
  <2> QED
    BY <2>6, <2>7, <2>8
<1>9. ASSUME NEW i \in 1 .. L - 1, NEW j \in 1 .. L - 1, f[d[i]].uri = f[d[j]].uri
      PROVE  i = j
  <2> DEFINE at(n) == IF n < k THEN n ELSE n + 1
  <2>1. at(i) \in 1 .. L /\ at(j) \in 1 .. L /\ d[i] = c[at(i)] /\ d[j] = c[at(j)]
    BY <1>1, <1>7
  <2>2. m[d[i]].uri = m[d[j]].uri
    BY <1>8, <1>9
  <2>3. at(i) = at(j)
    <3> HIDE DEF at
    <3> QED
      BY <1>2, <2>1, <2>2
  <2> QED
    BY <1>1, <2>3
<1>10. /\ (IF v = h THEN q ELSE h) = IF L - 1 = 0 THEN NULL ELSE d[1]
       /\ (IF v = t THEN p ELSE t) = IF L - 1 = 0 THEN NULL ELSE d[L - 1]
  <2>1. L \in Nat /\ L >= 1
    BY <1>1
  <2>2. CASE L = 1
    <3>1. k = 1 /\ k = L /\ L - 1 = 0
      BY <2>2
    <3> QED
      BY <1>3, <1>4, <3>1
  <2>3. CASE L > 1
    <3>1. 1 \in 1 .. L - 1 /\ L - 1 \in 1 .. L - 1 /\ (L - 1) + 1 = L /\ L - 1 # 0
      BY <2>1, <2>3
    <3>2. /\ d[1] = IF 1 < k THEN c[1] ELSE c[1 + 1]
          /\ d[L - 1] = IF L - 1 < k THEN c[L - 1] ELSE c[L]
      BY <1>7, <3>1
    <3>3. (IF v = h THEN q ELSE h) = d[1]
      <4>1. CASE k = 1
        BY <1>3, <1>4, <2>3, <3>2, <4>1
      <4>2. CASE k # 1
        <5>1. 1 < k
          BY <4>2
        <5> QED
          BY <1>2, <1>3, <3>2, <5>1
      <4> QED
        BY <4>1, <4>2
    <3>4. (IF v = t THEN p ELSE t) = d[L - 1]
      <4>1. CASE k = L
        <5>1. L - 1 < k /\ k # 1 /\ k - 1 = L - 1
          BY <2>1, <2>3, <4>1
        <5> QED
          BY <1>3, <1>4, <3>2, <4>1, <5>1
      <4>2. CASE k # L
        <5>1. ~ (L - 1 < k)
          BY <2>1, <4>2
        <5> QED
          BY <1>2, <1>3, <3>2, <4>2, <5>1
      <4> QED
        BY <4>1, <4>2
    <3> QED
      BY <3>1, <3>3, <3>4
  <2>4. L = 1 \/ L > 1
    <3> HIDE DEF L
    <3> QED
      BY <2>1
  <2> QED
    BY <2>2, <2>3, <2>4, Zenon
<1>11. Links(f, IF v = h THEN q ELSE h, IF v = t THEN p ELSE t, d)
  BY <1>7, <1>8, <1>9, <1>10 DEF Links
<1>12. \A n \in Nodes : f[n].state = "unused" <=> m[n].state = "unused"
  BY <1>2, <1>6
<1> QED
  BY <1>5, <1>6, <1>11, <1>12 DEF p, q, d

LEMMA LinksKept ==
  ASSUME NEW m, NEW h, NEW t, NEW c, Links(m, h, t, c),
         NEW f, \A i \in 1 .. Len(c) : f[c[i]] = m[c[i]]
  PROVE  Links(f, h, t, c)
BY DEF Links

(* The node put in front and the first one so far point to each other.     *)
LEMMA FrontJoined ==
  ASSUME NEW m \in Memory, NEW h \in Nodes \cup {NULL}, NEW n \in Nodes, h # n
  PROVE  /\ Pushed(m, h, n) \in Memory
         /\ \A i \in Nodes :
              /\ Pushed(m, h, n)[i].uri = m[i].uri
              /\ Pushed(m, h, n)[i].length = m[i].length
              /\ Pushed(m, h, n)[i].state = m[i].state
              /\ Pushed(m, h, n)[i].next = IF i = n THEN h ELSE m[i].next
              /\ Pushed(m, h, n)[i].prev =
                    IF i = n THEN NULL
                    ELSE IF h # NULL /\ i = h THEN n ELSE m[i].prev
<1> DEFINE first == Fronted(m, h, n)
           f == Pushed(m, h, n)
           front == [m[n] EXCEPT !.next = h, !.prev = NULL]
<1>1. /\ \A i \in Nodes : m[i] \in Node
      /\ h \in Pointer /\ n \in Pointer /\ NULL \in Pointer
  BY DEF Memory, Pointer
<1>2. /\ front \in Node /\ front.uri = m[n].uri /\ front.length = m[n].length
      /\ front.state = m[n].state /\ front.next = h /\ front.prev = NULL
  BY <1>1 DEF Node
<1>3. first = [m EXCEPT ![n] = front]
  BY DEF Fronted, Memory
<1> HIDE DEF first, front
<1>4. first \in Memory /\ \A i \in Nodes : first[i] = IF i = n THEN front ELSE m[i]
  BY <1>2, <1>3 DEF Memory
<1>5. f = IF h = NULL THEN first ELSE [first EXCEPT ![h] = [first[h] EXCEPT !.prev = n]]
  BY DEF Pushed, first
<1> HIDE DEF f
<1>6. ASSUME h # NULL
      PROVE  LET back == [m[h] EXCEPT !.prev = n]
             IN  /\ back \in Node /\ back.uri = m[h].uri /\ back.length = m[h].length
                 /\ back.state = m[h].state /\ back.next = m[h].next /\ back.prev = n
                 /\ f = [first EXCEPT ![h] = back]
  <2>1. m[h] \in Node /\ first[h] = m[h]
    BY <1>1, <1>4, <1>6
  <2> QED
    BY <1>1, <1>5, <1>6, <2>1 DEF Node
<1>7. f \in Memory
  <2>1. CASE h = NULL
    BY <1>4, <1>5, <2>1
  <2>2. CASE h # NULL
    BY <1>4, <1>6, <2>2 DEF Memory
  <2> QED
    BY <2>1, <2>2
<1>8. ASSUME NEW i \in Nodes
      PROVE  /\ f[i].uri = m[i].uri /\ f[i].length = m[i].length
             /\ f[i].state = m[i].state
             /\ f[i].next = IF i = n THEN h ELSE m[i].next
             /\ f[i].prev = IF i = n THEN NULL
                            ELSE IF h # NULL /\ i = h THEN n ELSE m[i].prev
  <2>1. CASE i = n
    <3>1. f[i] = front
      BY <1>4, <1>5, <1>6, <2>1 DEF Memory
    <3> QED
      BY <1>2, <2>1, <3>1
  <2>2. CASE i # n /\ h # NULL /\ i = h
    <3>1. f[i] = [m[h] EXCEPT !.prev = n]
      BY <1>4, <1>6, <2>2 DEF Memory
    <3> QED
      BY <1>6, <2>2, <3>1
  <2>3. CASE i # n /\ ~ (h # NULL /\ i = h)
    <3>1. f[i] = m[i]
      BY <1>4, <1>5, <1>6, <2>3 DEF Memory
    <3> QED
      BY <2>3, <3>1
  <2> QED
    BY <2>1, <2>2, <2>3
<1> QED
  BY <1>7, <1>8 DEF f

(* A list with a node more in front is a list, if no other has its URI.    *)
LEMMA ListWith ==
  ASSUME NEW m \in Memory, NEW h, NEW t, NEW c, Links(m, h, t, c),
         NEW n \in Nodes, m[n].state # "unused", ~ Lists(m, c, m[n].uri)
  PROVE  /\ h # Junk
         /\ Pushed(m, h, n) \in Memory
         /\ \A i \in Nodes : /\ Pushed(m, h, n)[i].uri = m[i].uri
                             /\ Pushed(m, h, n)[i].length = m[i].length
                             /\ Pushed(m, h, n)[i].state = m[i].state
         /\ Links(Pushed(m, h, n), n, IF h = NULL THEN n ELSE t, <<n>> \o c)
<1> DEFINE L == Len(c)
           d == <<n>> \o c
           f == Pushed(m, h, n)
           last == IF h = NULL THEN n ELSE t
<1>1. /\ c \in Seq(Nodes) /\ L \in Nat /\ NULL \notin Nodes /\ Junk \notin Nodes /\ Junk # NULL
      /\ \A i \in 1 .. L : c[i] \in Nodes
      /\ \A i, j \in 1 .. L : c[i] = c[j] => i = j
  BY LinksFacts, NodesDistinct DEF Junk, Nodes, NULL
<1>2. /\ h = IF L = 0 THEN NULL ELSE c[1]
      /\ t = IF L = 0 THEN NULL ELSE c[L]
      /\ \A i \in 1 .. L : /\ m[c[i]].next = IF i = L THEN NULL ELSE c[i + 1]
                           /\ m[c[i]].prev = IF i = 1 THEN NULL ELSE c[i - 1]
                           /\ m[c[i]].state # "unused"
      /\ \A i, j \in 1 .. L : m[c[i]].uri = m[c[j]].uri => i = j
  BY DEF Links
<1>3. \A i \in 1 .. L : c[i] # n /\ m[c[i]].uri # m[n].uri
  BY DEF Lists
<1>4. /\ h \in Nodes \cup {NULL} /\ h # n /\ (h = NULL <=> L = 0) /\ (h # NULL => h = c[1])
  BY <1>1, <1>2, <1>3
<1>5. f \in Memory
  BY <1>4, FrontJoined
<1>6. ASSUME NEW i \in Nodes
      PROVE  /\ f[i].uri = m[i].uri /\ f[i].length = m[i].length
             /\ f[i].state = m[i].state
             /\ f[i].next = IF i = n THEN h ELSE m[i].next
             /\ f[i].prev = IF i = n THEN NULL
                            ELSE IF h # NULL /\ i = h THEN n ELSE m[i].prev
  BY <1>4, FrontJoined
<1> HIDE DEF f
<1>7. /\ d \in Seq(Nodes) /\ Len(d) = L + 1
       /\ d[1] = n
       /\ \A i \in 2 .. L + 1 : d[i] = c[i - 1]
  BY <1>1, Prepended
<1> HIDE DEF d
<1>8. ASSUME NEW i \in 1 .. L + 1
       PROVE  /\ f[d[i]].next = IF i = L + 1 THEN NULL ELSE d[i + 1]
              /\ f[d[i]].prev = IF i = 1 THEN NULL ELSE d[i - 1]
              /\ f[d[i]].state # "unused"
  <2>1. CASE i = 1
    <3>1. d[i] = n /\ f[n].next = h /\ f[n].prev = NULL /\ f[n].state # "unused"
      BY <1>6, <1>7, <2>1
    <3>2. L # 0 => d[1 + 1] = c[1]
      <4>1. L # 0 => 1 + 1 \in 2 .. L + 1 /\ (1 + 1) - 1 = 1
        BY <1>1
      <4> QED
        BY <1>7, <4>1
    <3>3. L = 0 <=> i = L + 1
      BY <1>1, <2>1
    <3> QED
      BY <1>4, <2>1, <3>1, <3>2, <3>3
  <2>2. CASE i # 1
    <3>1. i \in 2 .. L + 1 /\ i - 1 \in 1 .. L
      BY <1>1, <2>2
    <3>2. d[i] = c[i - 1] /\ d[i] \in Nodes /\ d[i] # n
      BY <1>1, <1>3, <1>7, <3>1
    <3>3. /\ m[d[i]].next = IF i - 1 = L THEN NULL ELSE c[(i - 1) + 1]
          /\ m[d[i]].prev = IF i - 1 = 1 THEN NULL ELSE c[(i - 1) - 1]
          /\ m[d[i]].state # "unused"
      BY <1>2, <3>1, <3>2
    <3>4. f[d[i]].next = m[d[i]].next /\ f[d[i]].state # "unused"
      BY <1>6, <3>2, <3>3
    <3>5. i # L + 1 => d[i + 1] = c[(i - 1) + 1]
      <4>1. i # L + 1 => i + 1 \in 2 .. L + 1 /\ (i + 1) - 1 = (i - 1) + 1
        BY <1>1, <3>1
      <4> QED
        BY <1>7, <4>1
    <3>6. i - 1 = L <=> i = L + 1
      BY <1>1
    <3>7. f[d[i]].prev = d[i - 1]
      <4>1. CASE i = 2
        <5>1. d[i] = c[1] /\ h = c[1] /\ h # NULL /\ d[i - 1] = n
          BY <1>1, <1>2, <1>4, <1>7, <3>1, <3>2, <4>1
        <5> QED
          BY <1>6, <3>2, <5>1
      <4>2. CASE i # 2
        <5>1. i - 1 \in 2 .. L + 1 /\ i - 1 # 1 /\ 1 \in 1 .. L
          BY <1>1, <3>1, <4>2
        <5>2. c[i - 1] # c[1]
          BY <1>1, <3>1, <5>1
        <5>3. d[i - 1] = c[(i - 1) - 1]
          BY <1>7, <5>1
        <5> QED
          BY <1>4, <1>6, <3>2, <3>3, <5>1, <5>2, <5>3
      <4> QED
        BY <4>1, <4>2
    <3> QED
      BY <2>2, <3>3, <3>4, <3>5, <3>6, <3>7
  <2> QED
    BY <2>1, <2>2
<1>9. ASSUME NEW i \in 1 .. L + 1, NEW j \in 1 .. L + 1, f[d[i]].uri = f[d[j]].uri
       PROVE  i = j
  <2>1. \A k \in 1 .. L + 1 : \/ k = 1 /\ d[k] = n
                              \/ k - 1 \in 1 .. L /\ d[k] = c[k - 1] /\ d[k] \in Nodes
    <3> SUFFICES ASSUME NEW k \in 1 .. L + 1, k # 1
                 PROVE  k - 1 \in 1 .. L /\ d[k] = c[k - 1] /\ d[k] \in Nodes
      BY <1>7
    <3>1. k \in 2 .. L + 1 /\ k - 1 \in 1 .. L
      BY <1>1
    <3> QED
      BY <1>1, <1>7, <3>1
  <2>2. m[d[i]].uri = m[d[j]].uri
    BY <1>6, <1>9, <2>1
  <2>3. CASE i = 1 \/ j = 1
    BY <1>3, <2>1, <2>2, <2>3
  <2>4. CASE i # 1 /\ j # 1
    <3>1. /\ i - 1 \in 1 .. L /\ d[i] = c[i - 1]
          /\ j - 1 \in 1 .. L /\ d[j] = c[j - 1]
      BY <2>1, <2>4
    <3>2. i - 1 = j - 1
      BY <1>2, <2>2, <3>1
    <3> QED
      BY <3>2
  <2> QED
    BY <2>3, <2>4
<1>10. last = d[L + 1]
  <2>1. L # 0 => L + 1 \in 2 .. L + 1 /\ (L + 1) - 1 = L
    BY <1>1
  <2>2. L = 0 => L + 1 = 1
    BY <1>1
  <2> QED
    BY <1>2, <1>4, <1>7, <2>1, <2>2
<1>11. L + 1 # 0
  BY <1>1
<1> HIDE DEF last
<1>12. Links(f, n, last, d)
  <2>1. n = IF Len(d) = 0 THEN NULL ELSE d[1]
    BY <1>7, <1>11
  <2>2. last = IF Len(d) = 0 THEN NULL ELSE d[Len(d)]
    BY <1>7, <1>10, <1>11
  <2>3. \A i \in 1 .. Len(d) :
           /\ f[d[i]].next = IF i = Len(d) THEN NULL ELSE d[i + 1]
           /\ f[d[i]].prev = IF i = 1 THEN NULL ELSE d[i - 1]
           /\ f[d[i]].state # "unused"
    BY <1>7, <1>8
  <2>4. \A i, j \in 1 .. Len(d) : f[d[i]].uri = f[d[j]].uri => i = j
    BY <1>7, <1>9
  <2>5. d \in Seq(Nodes)
    BY <1>7
  <2> QED
    BY <2>1, <2>2, <2>3, <2>4, <2>5 DEF Links
<1> QED
  BY <1>1, <1>4, <1>5, <1>6, <1>12 DEF d, f, last

-----------------------------------------------------------------------------
(* The objects from the first to the j-th are not shorter than those to an *)
(* earlier one.                                                            *)
LEMMA SumsGrow ==
  ASSUME NEW m \in Memory, NEW c \in Seq(Nodes), NEW s, Sums(m, c, s)
  PROVE  /\ \A i \in 1 .. Len(c) : m[c[i]].length \in Nat
         /\ \A i \in 0 .. Len(c) : s[i] \in Nat
         /\ \A i, j \in 0 .. Len(c) : i <= j => s[i] <= s[j]
<1>1. /\ Len(c) \in Nat /\ \A i \in 1 .. Len(c) : c[i] \in Nodes
      /\ \A i \in 0 .. Len(c) : s[i] \in Nat
      /\ \A i \in 1 .. Len(c) : s[i] = s[i - 1] + m[c[i]].length
  <2>1. Len(c) \in Nat /\ \A i \in 1 .. Len(c) : c[i] \in Nodes
    OBVIOUS
  <2>2. \A i \in 0 .. Len(c) : s[i] \in Nat
    BY DEF Sums
  <2> QED
    BY <2>1, <2>2, Zenon DEF Sums
<1>2. \A i \in 1 .. Len(c) : m[c[i]].length \in Nat
  BY <1>1 DEF Memory, Node
<1>3. ASSUME NEW i \in 0 .. Len(c), NEW j \in 0 .. Len(c), i <= j, ~ (s[i] <= s[j])
      PROVE  FALSE
  <2> DEFINE D == {k \in 0 .. Len(c) : i <= k /\ ~ (s[i] <= s[k])}
  <2>1. D \in SUBSET Nat /\ D # {}
    BY <1>3
  <2>2. PICK k \in D : \A n \in D : k <= n
    BY <2>1, LeastNat
  <2>3. k \in 1 .. Len(c) /\ i <= k - 1 /\ k - 1 \in 0 .. Len(c) /\ k - 1 \notin D
    <3>1. k # i
      BY <1>1, <2>2
    <3> QED
      BY <1>1, <1>3, <2>2, <3>1
  <2>4. s[i] <= s[k - 1]
    BY <2>3
  <2>5. s[k] = s[k - 1] + m[c[k]].length /\ m[c[k]].length \in Nat
    BY <1>1, <1>2, <2>3
  <2>6. s[i] \in Nat /\ s[k - 1] \in Nat /\ s[k] \in Nat
    BY <1>1, <2>2, <2>3
  <2>7. s[i] <= s[k]
    BY <2>4, <2>5, <2>6
  <2> QED
    BY <2>2, <2>7
<1> QED
  BY <1>1, <1>2, <1>3

LEMMA SumsKept ==
  ASSUME NEW m, NEW c, NEW s, Sums(m, c, s),
         NEW f, \A i \in 1 .. Len(c) : f[c[i]].length = m[c[i]].length
  PROVE  Sums(f, c, s)
BY DEF Sums

(* The sums of a list without its k-th node.                               *)
LEMMA SumsWithout ==
  ASSUME NEW m \in Memory, NEW c \in Seq(Nodes), NEW s, Sums(m, c, s),
         NEW k \in 1 .. Len(c),
         NEW f, \A n \in Nodes : f[n].length = m[n].length
  PROVE  \E r : /\ Sums(f, RemoveAt(c, k), r)
                /\ r[Len(c) - 1] = s[Len(c)] - m[c[k]].length
                /\ r[Len(c) - 1] \in Nat
<1> DEFINE L == Len(c)
           d == RemoveAt(c, k)
           r == [i \in 0 .. L - 1 |-> IF i < k THEN s[i] ELSE s[i + 1] - m[c[k]].length]
<1>1. /\ L \in Nat /\ \A i \in 1 .. L : c[i] \in Nodes
      /\ s[0] = 0
      /\ \A i \in 1 .. L : s[i] = s[i - 1] + m[c[i]].length
  BY DEF Sums
<1>2. /\ \A i \in 1 .. L : m[c[i]].length \in Nat
      /\ \A i \in 0 .. L : s[i] \in Nat
      /\ \A i, j \in 0 .. L : i <= j => s[i] <= s[j]
  BY SumsGrow
<1>3. /\ d \in Seq(Nodes) /\ Len(d) = L - 1
      /\ \A i \in 1 .. L - 1 : d[i] = IF i < k THEN c[i] ELSE c[i + 1]
  <2>1. k \in DOMAIN c
    OBVIOUS
  <2> QED
    BY <2>1, WithoutNode
<1> HIDE DEF d
<1>4. DOMAIN r = 0 .. L - 1 /\ r = [i \in 0 .. L - 1 |-> r[i]]
      /\ \A i \in 0 .. L - 1 : r[i] = IF i < k THEN s[i] ELSE s[i + 1] - m[c[k]].length
  OBVIOUS
<1>5. s[k] = s[k - 1] + m[c[k]].length /\ k - 1 \in 0 .. L
  BY <1>1
<1> HIDE DEF r
<1>6. ASSUME NEW i \in 0 .. L - 1 PROVE r[i] \in Nat
  <2>1. CASE i < k
    BY <1>1, <1>2, <1>4, <2>1
  <2>2. CASE ~ (i < k)
    <3>1. i + 1 \in 0 .. L /\ k \in 0 .. L /\ k <= i + 1
      BY <1>1, <2>2
    <3>2. s[k] <= s[i + 1] /\ s[i + 1] \in Nat /\ s[k - 1] \in Nat /\ m[c[k]].length \in Nat
      BY <1>2, <1>5, <3>1
    <3> QED
      BY <1>4, <1>5, <2>2, <3>2
  <2> QED
    BY <2>1, <2>2
<1>7. r \in [0 .. L - 1 -> Nat]
  BY <1>4, <1>6
<1>8. r[0] = 0
  <2>1. 0 \in 0 .. L - 1 /\ 0 < k
    BY <1>1
  <2> QED
    BY <1>1, <1>4, <2>1
<1>9. ASSUME NEW i \in 1 .. L - 1 PROVE r[i] = r[i - 1] + m[d[i]].length
  <2>1. /\ i \in 0 .. L - 1 /\ i - 1 \in 0 .. L - 1 /\ i \in 1 .. L
        /\ i + 1 \in 1 .. L /\ (i + 1) - 1 = i /\ (i - 1) + 1 = i
    BY <1>1
  <2>2. s[i] = s[i - 1] + m[c[i]].length
    BY <1>1, <2>1
  <2>3. s[i + 1] = s[i] + m[c[i + 1]].length
    BY <1>1, <2>1
  <2>4. CASE i < k
    <3>1. r[i] = s[i] /\ r[i - 1] = s[i - 1] /\ d[i] = c[i]
      BY <1>1, <1>3, <1>4, <2>1, <2>4
    <3> QED
      BY <2>2, <3>1
  <2>5. CASE ~ (i < k)
    <3>1. r[i] = s[i + 1] - m[c[k]].length /\ d[i] = c[i + 1]
      BY <1>3, <1>4, <2>1, <2>5
    <3>2. /\ s[i] \in Nat /\ s[i + 1] \in Nat /\ s[i - 1] \in Nat /\ s[k - 1] \in Nat
          /\ m[c[k]].length \in Nat /\ m[c[i + 1]].length \in Nat
      <4>1. i \in 0 .. L /\ i + 1 \in 0 .. L /\ i - 1 \in 0 .. L /\ k \in 1 .. L
        BY <1>1, <2>1
      <4> QED
        BY <1>1, <1>2, <1>5, <2>1, <4>1, Zenon
    <3>3. CASE i = k
      <4>1. r[i - 1] = s[i - 1]
        BY <1>4, <2>1, <3>3
      <4>2. s[i] = s[i - 1] + m[c[k]].length
        BY <1>5, <3>3
      <4> DEFINE len(j) == m[c[j]].length
      <4>3. /\ s[i] = s[i - 1] + len(k) /\ s[i + 1] = s[i] + len(i + 1)
            /\ len(k) \in Nat /\ len(i + 1) \in Nat
        BY <2>3, <3>2, <4>2
      <4>4. r[i] = s[i + 1] - len(k) /\ m[d[i]].length = len(i + 1)
        BY <3>1
      <4> HIDE DEF len
      <4>5. s[i + 1] - len(k) = s[i - 1] + len(i + 1)
        BY <3>2, <4>3
      <4> QED
        BY <4>1, <4>4, <4>5
    <3>4. CASE i # k
      <4>1. r[i - 1] = s[(i - 1) + 1] - m[c[k]].length
        BY <1>4, <2>1, <2>5, <3>4
      <4>2. r[i - 1] = s[i] - m[c[k]].length
        BY <2>1, <4>1
      <4> QED
        BY <2>3, <3>1, <3>2, <4>2
    <3> QED
      BY <3>3, <3>4
  <2> QED
    BY <2>4, <2>5
<1>10. \A i \in 1 .. L - 1 : f[d[i]].length = m[d[i]].length
  BY <1>3
<1>11. Sums(f, d, r)
  BY <1>3, <1>7, <1>8, <1>9, <1>10 DEF Sums
<1>12. r[L - 1] = s[L] - m[c[k]].length /\ r[L - 1] \in Nat
  <2>1. L - 1 \in 0 .. L - 1 /\ (L - 1) + 1 = L
    BY <1>1
  <2>2. CASE k = L
    <3>1. r[L - 1] = s[L - 1] /\ s[L] = s[L - 1] + m[c[k]].length
      BY <1>1, <1>4, <1>5, <2>1, <2>2
    <3>2. s[L - 1] \in Nat /\ m[c[k]].length \in Nat
      BY <1>1, <1>2, <2>1
    <3> QED
      BY <3>1, <3>2
  <2>3. CASE k # L
    <3>1. ~ (L - 1 < k)
      BY <1>1, <2>3
    <3> QED
      BY <1>4, <1>6, <2>1, <3>1
  <2> QED
    BY <2>2, <2>3
<1> QED
  BY <1>11, <1>12 DEF d

(* The sums of a list with a node more in front.                           *)
LEMMA SumsWith ==
  ASSUME NEW m \in Memory, NEW c \in Seq(Nodes), NEW s, Sums(m, c, s),
         NEW n \in Nodes,
         NEW f, \A i \in Nodes : f[i].length = m[i].length
  PROVE  \E r : /\ Sums(f, <<n>> \o c, r)
                /\ r[Len(c) + 1] = s[Len(c)] + m[n].length
<1> DEFINE L == Len(c)
           d == <<n>> \o c
           r == [i \in 0 .. L + 1 |-> IF i = 0 THEN 0 ELSE s[i - 1] + m[n].length]
<1>1. /\ L \in Nat /\ s[0] = 0
      /\ \A i \in 1 .. L : s[i] = s[i - 1] + m[c[i]].length
  BY DEF Sums
<1>2. /\ \A i \in 1 .. L : m[c[i]].length \in Nat
      /\ \A i \in 0 .. L : s[i] \in Nat
      /\ m[n].length \in Nat
  BY SumsGrow DEF Memory, Node
<1>3. /\ d \in Seq(Nodes) /\ Len(d) = L + 1 /\ d[1] = n
      /\ \A i \in 2 .. L + 1 : d[i] = c[i - 1]
  BY Prepended
<1> HIDE DEF d
<1>4. /\ DOMAIN r = 0 .. L + 1 /\ r = [i \in 0 .. L + 1 |-> r[i]]
      /\ \A i \in 0 .. L + 1 : r[i] = IF i = 0 THEN 0 ELSE s[i - 1] + m[n].length
  OBVIOUS
<1> HIDE DEF r
<1>5. ASSUME NEW i \in 0 .. L + 1 PROVE r[i] \in Nat
  <2>1. i = 0 \/ i - 1 \in 0 .. L
    BY <1>1
  <2> QED
    BY <1>2, <1>4, <2>1
<1>6. r \in [0 .. L + 1 -> Nat] /\ r[0] = 0
  BY <1>1, <1>4, <1>5
<1>7. ASSUME NEW i \in 1 .. L + 1 PROVE r[i] = r[i - 1] + m[d[i]].length
  <2>1. i \in 0 .. L + 1 /\ i - 1 \in 0 .. L + 1 /\ i # 0
    BY <1>1
  <2>2. r[i] = s[i - 1] + m[n].length
    BY <1>4, <2>1
  <2>3. CASE i = 1
    BY <1>1, <1>2, <1>3, <1>6, <2>2, <2>3
  <2>4. CASE i # 1
    <3>1. i - 1 \in 1 .. L /\ i \in 2 .. L + 1 /\ i - 1 # 0 /\ (i - 1) - 1 \in 0 .. L
      BY <1>1, <2>4
    <3>2. s[i - 1] = s[(i - 1) - 1] + m[c[i - 1]].length
      BY <1>1, <3>1
    <3>3. r[i - 1] = s[(i - 1) - 1] + m[n].length /\ d[i] = c[i - 1]
      BY <1>3, <1>4, <2>1, <3>1
    <3>4. /\ s[(i - 1) - 1] \in Nat /\ m[c[i - 1]].length \in Nat /\ m[n].length \in Nat
      BY <1>2, <3>1
    <3> QED
      BY <2>2, <3>2, <3>3, <3>4
  <2> QED
    BY <2>3, <2>4
<1>8. \A i \in 1 .. L + 1 : f[d[i]].length = m[d[i]].length
  BY <1>3
<1>9. Sums(f, d, r)
  BY <1>3, <1>6, <1>7, <1>8 DEF Sums
<1>10. r[L + 1] = s[L] + m[n].length
  <2>1. L + 1 \in 0 .. L + 1 /\ L + 1 # 0 /\ (L + 1) - 1 = L
    BY <1>1
  <2> QED
    BY <1>4, <2>1
<1> QED
  BY <1>9, <1>10 DEF d

(* What the list's objects take up is the last of its sums.                *)
LEMMA StoredOfSums ==
  ASSUME NEW c, Links(mem, head, tail, c), NEW s, Sums(mem, c, s)
  PROVE  Stored = s[Len(c)]
<1> DEFINE n == Len(c)
           step(f) == [k \in 0 .. n |->
                         IF k = 0 THEN 0 ELSE f[k - 1] + mem[c[k]].length]
           sum == CHOOSE f : f = step(f)
<1>1. Chain = c /\ n \in Nat
  BY ChainOfLinks, LinksFacts
<1>2. Stored = sum[n]
  BY <1>1 DEF Stored
<1>3. s = [k \in 0 .. n |-> s[k]] /\ DOMAIN s = 0 .. n /\ s[0] = 0
      /\ \A k \in 1 .. n : s[k] = s[k - 1] + mem[c[k]].length
  BY DEF Sums
<1>4. s = step(s)
  <2> DEFINE r == step(s)
  <2>1. DOMAIN r = 0 .. n /\ r = [k \in 0 .. n |-> r[k]]
    OBVIOUS
  <2>2. ASSUME NEW k \in 0 .. n PROVE r[k] = s[k]
    <3>1. k = 0 \/ k \in 1 .. n
      BY <1>1
    <3> QED
      BY <1>3, <3>1
  <2> HIDE DEF r
  <2>3. s = r
    BY <1>3, <2>1, <2>2
  <2> QED
    BY <2>3 DEF r
<1>5. sum = step(sum)
  <2> HIDE DEF step
  <2> QED
    BY <1>4
<1> HIDE DEF sum
<1>6. /\ DOMAIN sum = 0 .. n /\ sum = [k \in 0 .. n |-> sum[k]]
      /\ sum[0] = 0
      /\ \A k \in 1 .. n : sum[k] = sum[k - 1] + mem[c[k]].length
  BY <1>1, <1>5
<1> HIDE DEF step
<1>7. sum = s
  <2>1. \A k \in 1 .. n : sum[k - 1] = s[k - 1] => sum[k] = s[k]
    BY <1>3, <1>6
  <2> HIDE DEF n
  <2> QED
    BY <1>1, <1>3, <1>6, <2>1, SameWalk
<1> QED
  BY <1>2, <1>7

-----------------------------------------------------------------------------
(* The state between two steps, for a thread whose record is t: what it    *)
(* knows of the list at each place of its program.                         *)
Thread == [pc : PC, uri : Uris \cup {NoUri}, hit : BOOLEAN,
           node : Pointer, victim : Pointer]

Deleting == {"delete", "lock_delete", "unlink"}

Inserting == {"lock_insert", "link"}

Registers(t) ==
  /\ t \in Thread
  /\ t.pc = "idle" => t = Idle
  /\ t.pc # "idle" => t.uri \in Uris
  /\ t.hit => t.pc \in Deleting \cup Inserting \cup {"reply"}
  /\ t.pc = "reply" => t.hit

(* A scan has seen no object with the URI so far.                          *)
Scanning(t, m, c) ==
  t.pc = "scan" =>
    \E k \in 1 .. Len(c) + 1 :
       /\ t.node = IF k = Len(c) + 1 THEN NULL ELSE c[k]
       /\ \A i \in 1 .. k - 1 : m[c[i]].uri # t.uri

(* From then on the list has no object with it, but the one a hit deletes. *)
Missing(t, m, c) ==
  \/ t.pc \in {"fetch", "room"} \cup Inserting
  \/ t.pc \in Deleting /\ ~ t.hit
  => ~ Lists(m, c, t.uri)

Holding(t, m, c) ==
  t.pc \in {"room"} \cup Deleting \cup Inserting =>
    /\ t.node \in Nodes
    /\ m[t.node].uri = t.uri
    /\ m[t.node].state # "unused"
    /\ t.pc \in Deleting /\ t.hit => InList(t.node, c)

(* Nothing links or unlinks between the choice of a victim and its end.    *)
Evicting(t, m, tl, fr, c) ==
  /\ t.pc \in Deleting =>
       /\ t.victim = IF t.hit THEN t.node ELSE tl
       /\ ~ t.hit => m[t.node].length > fr
  /\ t.pc \in Deleting \ {"delete"} => Len(c) # 0
  /\ t.pc \in Inserting => m[t.node].length <= fr

Answering(t, m, h, c) ==
  t.pc = "reply" => Len(c) # 0 /\ t.node = h /\ m[t.node].uri = t.uri

AtStep(t, m, h, tl, fr, c) ==
  /\ Registers(t)
  /\ Scanning(t, m, c)
  /\ Missing(t, m, c)
  /\ Holding(t, m, c)
  /\ Evicting(t, m, tl, fr, c)
  /\ Answering(t, m, h, c)

Space(fr, stored) == fr \in Nat /\ fr + stored \in {MAX_CACHE_SIZE, 0}

(* What malloc has returned holds an object.                               *)
Filled(m) == \A n \in Nodes : m[n].state # "unused" => m[n].length \in Lengths

Sound(t, m, h, tl, fr, c, s) ==
  /\ m \in Memory
  /\ Filled(m)
  /\ Links(m, h, tl, c)
  /\ Sums(m, c, s)
  /\ Space(fr, s[Len(c)])
  /\ AtStep(t, m, h, tl, fr, c)

Now(w, c, s) ==
  /\ crashed = FALSE
  /\ thread \in [Workers -> Thread]
  /\ Sound(thread[w], mem, head, tail, free_cache_size, c, s)

Later(w, c, s) ==
  /\ crashed' = FALSE
  /\ thread' \in [Workers -> Thread]
  /\ Sound(thread'[w], mem', head', tail', free_cache_size', c, s)

Listed(c, s) == \A w \in Workers : Now(w, c, s)

CacheInv == Orderly /\ \E c, s : Listed(c, s)

(* A step that changes no more than the thread and the lock.               *)
LEMMA ThreadSteps ==
  ASSUME NEW w \in Workers, NEW c, NEW s, Now(w, c, s),
         NEW u, thread' = [thread EXCEPT ![w] = u],
         UNCHANGED <<head, tail, free_cache_size, mem, crashed>>,
         AtStep(u, mem, head, tail, free_cache_size, c)
  PROVE  Later(w, c, s)
<1>1. u \in Thread
  BY DEF AtStep, Registers
<1>2. thread' \in [Workers -> Thread] /\ thread'[w] = u
  BY <1>1 DEF Now
<1> QED
  BY <1>2 DEF Now, Later, Sound

(* What the thread's record becomes when it goes on to another place.      *)
LEMMA Advanced ==
  ASSUME NEW t \in Thread, NEW label \in PC
  PROVE  LET u == [t EXCEPT !.pc = label]
         IN  /\ u \in Thread /\ u.pc = label /\ u.uri = t.uri /\ u.hit = t.hit
             /\ u.node = t.node /\ u.victim = t.victim
BY DEF Thread

LEMMA RequestKeeps ==
  ASSUME NEW w \in Workers, NEW c, NEW s, Now(w, c, s),
         NEW wanted \in Uris, Request(w, wanted)
  PROVE  Later(w, c, s)
<1> DEFINE t == thread[w]
           u == [Idle EXCEPT !.pc = "rdlock", !.uri = wanted]
<1>1. thread' = [thread EXCEPT ![w] = u] /\ t.pc = "idle"
  BY DEF Request, At
<1>2. /\ u \in Thread /\ u.pc = "rdlock" /\ u.uri = wanted /\ ~ u.hit
  BY DEF Thread, Idle, PC, Pointer
<1>3. AtStep(t, mem, head, tail, free_cache_size, c)
  BY DEF Now, Sound
<1> HIDE DEF t, u
<1>4. AtStep(u, mem, head, tail, free_cache_size, c)
  BY <1>1, <1>2, <1>3 DEF AtStep, Registers, Scanning, Missing, Holding,
     Evicting, Answering, Deleting, Inserting
<1> QED
  BY <1>1, <1>4, ThreadSteps DEF Request, listVars, t

LEMMA ReadLockKeeps ==
  ASSUME NEW w \in Workers, NEW c, NEW s, Now(w, c, s), ReadLock(w)
  PROVE  Later(w, c, s)
<1> DEFINE t == thread[w]
           u == [t EXCEPT !.pc = "scan", !.node = head]
<1>1. thread' = [thread EXCEPT ![w] = u] /\ t.pc = "rdlock"
  BY DEF ReadLock, At
<1>2. t \in Thread /\ AtStep(t, mem, head, tail, free_cache_size, c)
  BY DEF Now, Sound
<1>3. Links(mem, head, tail, c) /\ Len(c) \in Nat /\ \A i \in 1 .. Len(c) : c[i] \in Nodes
  BY LinksFacts DEF Now, Sound
<1>4. head \in Pointer /\ head = IF 1 = Len(c) + 1 THEN NULL ELSE c[1]
  BY <1>3 DEF Links, Pointer
<1>5. /\ u \in Thread /\ u.pc = "scan" /\ u.uri = t.uri /\ u.hit = t.hit
      /\ u.node = head
  BY <1>2, <1>4 DEF Thread, PC
<1> HIDE DEF t, u
<1>6. Scanning(u, mem, c)
  <2>1. 1 \in 1 .. Len(c) + 1 /\ \A i \in 1 .. 1 - 1 : mem[c[i]].uri # u.uri
    BY <1>3
  <2> QED
    BY <1>4, <1>5, <2>1 DEF Scanning
<1>7. AtStep(u, mem, head, tail, free_cache_size, c)
  BY <1>1, <1>2, <1>5, <1>6 DEF AtStep, Registers, Missing, Holding,
     Evicting, Answering, Deleting, Inserting
<1> QED
  BY <1>1, <1>7, ThreadSteps DEF ReadLock, listVars, t

(* Where a scan can be: at a node of the list, or behind the last one.     *)
LEMMA ScanPlace ==
  ASSUME NEW t, NEW m, NEW h, NEW tl, NEW c, Links(m, h, tl, c),
         Scanning(t, m, c), t.pc = "scan"
  PROVE  /\ t.node # Junk
         /\ t.node \notin Nodes => ~ Lists(m, c, t.uri)
         /\ t.node \in Nodes =>
              \E k \in 1 .. Len(c) : /\ t.node = c[k]
                                     /\ \A i \in 1 .. k - 1 : m[c[i]].uri # t.uri
<1>1. Len(c) \in Nat /\ NULL \notin Nodes /\ \A i \in 1 .. Len(c) : c[i] \in Nodes
  BY LinksFacts
<1>2. Junk \notin Nodes /\ Junk # NULL
  BY DEF Junk, NULL, Nodes
<1>3. PICK k \in 1 .. Len(c) + 1 :
         /\ t.node = IF k = Len(c) + 1 THEN NULL ELSE c[k]
         /\ \A i \in 1 .. k - 1 : m[c[i]].uri # t.uri
  BY DEF Scanning
<1>4. CASE k = Len(c) + 1
  <2>1. k - 1 = Len(c)
    BY <1>1, <1>4
  <2> QED
    BY <1>1, <1>2, <1>3, <1>4, <2>1 DEF Lists
<1>5. CASE k # Len(c) + 1
  <2>1. k \in 1 .. Len(c)
    BY <1>1, <1>5
  <2> QED
    BY <1>1, <1>2, <1>3, <1>5, <2>1
<1> QED
  BY <1>4, <1>5

LEMMA ScanKeeps ==
  ASSUME NEW w \in Workers, NEW c, NEW s, Now(w, c, s), Scan(w)
  PROVE  Later(w, c, s)
<1> DEFINE t == thread[w]
           n == t.node
           u == [t EXCEPT !.node = mem[n].next]
<1>1. t \in Thread /\ AtStep(t, mem, head, tail, free_cache_size, c)
  BY DEF Now, Sound
<1>2. Links(mem, head, tail, c) /\ Len(c) \in Nat /\ mem \in Memory
  BY LinksFacts DEF Now, Sound
<1>3. t.pc = "scan" /\ Scanning(t, mem, c) /\ n # Junk
  BY <1>1, <1>2, ScanPlace DEF Scan, At, AtStep
<1>4. /\ n \in Nodes /\ mem[n].uri # t.uri
      /\ thread' = [thread EXCEPT ![w] = u]
      /\ UNCHANGED <<head, tail, free_cache_size, mem, crashed>>
  BY <1>3 DEF Scan, listVars
<1>5. mem[n].next \in Pointer
  BY <1>2, <1>4 DEF Memory, Node
<1>6. /\ u \in Thread /\ u.pc = "scan" /\ u.uri = t.uri /\ u.hit = t.hit
      /\ u.node = mem[n].next
  BY <1>1, <1>3, <1>5 DEF Thread
<1>7. PICK k \in 1 .. Len(c) : /\ n = c[k]
                               /\ \A i \in 1 .. k - 1 : mem[c[i]].uri # t.uri
  BY <1>2, <1>3, <1>4, ScanPlace
<1> HIDE DEF u, n
<1>8. Scanning(u, mem, c)
  <2>1. k + 1 \in 1 .. Len(c) + 1 /\ (k + 1) - 1 = k
    BY <1>2
  <2>2. u.node = IF k = Len(c) THEN NULL ELSE c[k + 1]
    BY <1>2, <1>6, <1>7 DEF Links
  <2>3. u.node = IF k + 1 = Len(c) + 1 THEN NULL ELSE c[k + 1]
    BY <1>2, <2>2
  <2>4. \A i \in 1 .. (k + 1) - 1 : mem[c[i]].uri # u.uri
    <3>1. \A i \in 1 .. k : i = k \/ i \in 1 .. k - 1
      BY <1>2
    <3> QED
      BY <1>4, <1>6, <1>7, <2>1, <3>1
  <2> QED
    BY <2>1, <2>3, <2>4 DEF Scanning
<1> HIDE DEF t
<1>9. AtStep(u, mem, head, tail, free_cache_size, c)
  BY <1>1, <1>3, <1>4, <1>6, <1>8 DEF AtStep, Registers, Missing, Holding,
     Evicting, Answering, Deleting, Inserting
<1> QED
  BY <1>4, <1>9, ThreadSteps

LEMMA FoundKeeps ==
  ASSUME NEW w \in Workers, NEW c, NEW s, Now(w, c, s), Found(w)
  PROVE  Later(w, c, s)
<1> DEFINE t == thread[w]
           n == t.node
           u == [t EXCEPT !.pc = "delete", !.victim = n, !.hit = TRUE]
<1>1. t \in Thread /\ AtStep(t, mem, head, tail, free_cache_size, c)
  BY DEF Now, Sound
<1>2. Links(mem, head, tail, c)
  BY DEF Now, Sound
<1>3. /\ t.pc = "scan" /\ n \in Nodes /\ mem[n].uri = t.uri
      /\ thread' = [thread EXCEPT ![w] = u]
      /\ UNCHANGED <<head, tail, free_cache_size, mem, crashed>>
  BY DEF Found, At, listVars
<1>4. PICK k \in 1 .. Len(c) : n = c[k]
  BY <1>1, <1>2, <1>3, ScanPlace DEF AtStep
<1>5. mem[n].state # "unused" /\ InList(n, c)
  BY <1>2, <1>4 DEF Links, InList
<1>6. n \in Pointer
  BY <1>3 DEF Pointer
<1>7. /\ u \in Thread /\ u.pc = "delete" /\ u.uri = t.uri /\ u.hit
      /\ u.node = n /\ u.victim = n
  BY <1>1, <1>6 DEF Thread, PC
<1> HIDE DEF t, n, u
<1>8. AtStep(u, mem, head, tail, free_cache_size, c)
  BY <1>1, <1>3, <1>5, <1>7 DEF AtStep, Registers, Scanning, Missing, Holding,
     Evicting, Answering, Deleting, Inserting
<1> QED
  BY <1>3, <1>8, ThreadSteps DEF t

LEMMA NotFoundKeeps ==
  ASSUME NEW w \in Workers, NEW c, NEW s, Now(w, c, s), NotFound(w)
  PROVE  Later(w, c, s)
<1> DEFINE t == thread[w]
           u == [t EXCEPT !.pc = "fetch"]
<1>1. t \in Thread /\ AtStep(t, mem, head, tail, free_cache_size, c)
  BY DEF Now, Sound
<1>2. Links(mem, head, tail, c) /\ NULL \notin Nodes
  BY LinksFacts DEF Now, Sound
<1>3. /\ t.pc = "scan" /\ t.node = NULL
      /\ thread' = [thread EXCEPT ![w] = u]
      /\ UNCHANGED <<head, tail, free_cache_size, mem, crashed>>
  BY DEF NotFound, At, Goto, listVars
<1>4. ~ Lists(mem, c, t.uri)
  BY <1>1, <1>2, <1>3, ScanPlace DEF AtStep
<1>5. u \in Thread /\ u.pc = "fetch" /\ u.uri = t.uri /\ u.hit = t.hit
  BY <1>1, Advanced DEF PC
<1> HIDE DEF t, u
<1>6. AtStep(u, mem, head, tail, free_cache_size, c)
  BY <1>1, <1>3, <1>4, <1>5 DEF AtStep, Registers, Scanning, Missing, Holding,
     Evicting, Answering, Deleting, Inserting
<1> QED
  BY <1>3, <1>6, ThreadSteps DEF t

(* A request ends, with an answer from the cache or without one.           *)
LEMMA EndKeeps ==
  ASSUME NEW w \in Workers, NEW c, NEW s, Now(w, c, s), NoStore(w) \/ Reply(w)
  PROVE  Later(w, c, s)
<1> DEFINE t == thread[w]
<1>1. AtStep(t, mem, head, tail, free_cache_size, c)
  BY DEF Now, Sound
<1>2. /\ t.pc \in {"fetch", "reply"}
      /\ thread' = [thread EXCEPT ![w] = Idle]
      /\ UNCHANGED <<head, tail, free_cache_size, mem, crashed>>
  BY DEF NoStore, Reply, At, listVars
<1>3. Idle \in Thread /\ Idle.pc = "idle" /\ ~ Idle.hit
  BY DEF Thread, Idle, PC, Pointer
<1> HIDE DEF t
<1>4. AtStep(Idle, mem, head, tail, free_cache_size, c)
  BY <1>1, <1>2, <1>3 DEF AtStep, Registers, Scanning, Missing, Holding,
     Evicting, Answering, Deleting, Inserting
<1> QED
  BY <1>2, <1>4, ThreadSteps

LEMMA RoomKeeps ==
  ASSUME NEW w \in Workers, NEW c, NEW s, Now(w, c, s), Room(w)
  PROVE  Later(w, c, s)
<1> DEFINE t == thread[w]
           n == t.node
           u == IF mem[n].length > free_cache_size
                THEN [t EXCEPT !.pc = "delete", !.victim = tail]
                ELSE [t EXCEPT !.pc = "lock_insert"]
<1>1. t \in Thread /\ AtStep(t, mem, head, tail, free_cache_size, c)
  BY DEF Now, Sound
<1>2. /\ t.pc = "room"
      /\ thread' = [thread EXCEPT ![w] = u]
      /\ UNCHANGED <<head, tail, free_cache_size, mem, crashed>>
  BY DEF Room, At, listVars
<1>3. /\ mem \in Memory /\ free_cache_size \in Nat /\ n \in Nodes
      /\ Links(mem, head, tail, c) /\ Len(c) \in Nat
      /\ \A i \in 1 .. Len(c) : c[i] \in Nodes
  BY <1>1, <1>2, LinksFacts DEF Now, Sound, Space, AtStep, Holding
<1>4. mem[n].length \in Nat
  BY <1>3 DEF Memory, Node
<1>5. tail \in Pointer
  BY <1>3 DEF Links, Pointer
<1>6. ASSUME mem[n].length > free_cache_size
      PROVE  /\ u \in Thread /\ u.pc = "delete" /\ u.uri = t.uri /\ u.hit = t.hit
             /\ u.node = n /\ u.victim = tail
  BY <1>1, <1>5, <1>6 DEF Thread, PC
<1>7. ASSUME ~ (mem[n].length > free_cache_size)
      PROVE  /\ u \in Thread /\ u.pc = "lock_insert" /\ u.uri = t.uri /\ u.hit = t.hit
             /\ u.node = n /\ mem[n].length <= free_cache_size
  BY <1>1, <1>3, <1>4, <1>7 DEF Thread, PC
<1> HIDE DEF t, u
<1>8. AtStep(u, mem, head, tail, free_cache_size, c)
  <2>1. CASE mem[n].length > free_cache_size
    BY <1>1, <1>2, <1>6, <2>1 DEF AtStep, Registers, Scanning, Missing, Holding,
       Evicting, Answering, Deleting, Inserting
  <2>2. CASE ~ (mem[n].length > free_cache_size)
    BY <1>1, <1>2, <1>7, <2>2 DEF AtStep, Registers, Scanning, Missing, Holding,
       Evicting, Answering, Deleting, Inserting
  <2> QED
    BY <2>1, <2>2
<1> QED
  BY <1>2, <1>8, ThreadSteps

(* put_cache_item fills a node that is not in the list.                    *)
LEMMA PutKeeps ==
  ASSUME NEW w \in Workers, NEW c, NEW s, Now(w, c, s),
         NEW n \in Nodes, NEW length \in Lengths, Put(w, n, length),
         \A i \in 1 .. Len(c) : c[i] # n
  PROVE  Later(w, c, s)
<1> DEFINE t == thread[w]
           u == [t EXCEPT !.pc = "room", !.node = n]
           filled == [mem[n] EXCEPT !.uri = t.uri, !.length = length, !.state = "live"]
<1>1. /\ t \in Thread /\ AtStep(t, mem, head, tail, free_cache_size, c)
      /\ mem \in Memory /\ Filled(mem) /\ Links(mem, head, tail, c)
      /\ Sums(mem, c, s)
  BY DEF Now, Sound
<1>2. /\ t.pc = "fetch"
      /\ thread' = [thread EXCEPT ![w] = u]
      /\ mem' = [mem EXCEPT ![n] = filled]
      /\ UNCHANGED <<head, tail, free_cache_size, crashed>>
  BY DEF Put, At, Malloc, listVars
<1>3. /\ u \in Thread /\ u.pc = "room" /\ u.uri = t.uri /\ u.hit = t.hit /\ u.node = n
  BY <1>1 DEF Thread, PC, Pointer
<1>4. t.uri \in Uris \cup {NoUri} /\ mem[n] \in Node /\ length \in Nat
  BY <1>1, ProxyCacheAssumption DEF Thread, Memory
<1>5. /\ filled \in Node /\ filled.uri = t.uri /\ filled.length = length
      /\ filled.state = "live"
  BY <1>4 DEF Node
<1>6. thread' \in [Workers -> Thread] /\ thread'[w] = u
  BY <1>2, <1>3 DEF Now
<1> HIDE DEF t, u, filled
<1>7. /\ mem' \in Memory /\ mem'[n] = filled
      /\ \A i \in Nodes : i # n => mem'[i] = mem[i]
  BY <1>1, <1>2, <1>5 DEF Memory
<1>8. Filled(mem')
  BY <1>1, <1>5, <1>7 DEF Filled
<1>9. /\ \A i \in 1 .. Len(c) : c[i] \in Nodes /\ c[i] # n
      /\ \A i \in 1 .. Len(c) : mem'[c[i]] = mem[c[i]]
  <2>1. \A i \in 1 .. Len(c) : c[i] \in Nodes
    BY <1>1, LinksFacts
  <2> QED
    BY <1>7, <2>1
<1>10. Links(mem', head, tail, c) /\ Sums(mem', c, s)
  BY <1>1, <1>9, LinksKept, SumsKept
<1>11. ~ Lists(mem', c, u.uri)
  BY <1>1, <1>2, <1>3, <1>9 DEF AtStep, Missing, Lists
<1>12. AtStep(u, mem', head, tail, free_cache_size, c)
  BY <1>1, <1>2, <1>3, <1>5, <1>7, <1>11 DEF AtStep, Registers, Scanning,
     Missing, Holding, Evicting, Answering, Deleting, Inserting
<1> QED
  BY <1>2, <1>6, <1>7, <1>8, <1>10, <1>12 DEF Now, Later, Sound

(* The victim of a delete that is not the only node has a place in the     *)
(* list.                                                                   *)
LEMMA VictimListed ==
  ASSUME NEW t, NEW m, NEW h, NEW tl, NEW fr, NEW c, Links(m, h, tl, c),
         AtStep(t, m, h, tl, fr, c), t.pc \in Deleting, Len(c) # 0
  PROVE  \E k \in 1 .. Len(c) : t.victim = c[k]
<1>1. Len(c) \in 1 .. Len(c) /\ tl = c[Len(c)]
  BY LinksFacts DEF Links
<1>2. t.victim = IF t.hit THEN t.node ELSE tl
  BY DEF AtStep, Evicting
<1>3. t.hit => InList(t.node, c)
  BY DEF AtStep, Holding
<1> QED
  BY <1>1, <1>2, <1>3 DEF InList

LEMMA DeleteLocksKeeps ==
  ASSUME NEW w \in Workers, NEW c, NEW s, Now(w, c, s), DeleteLocks(w)
  PROVE  Later(w, c, s)
<1> DEFINE t == thread[w]
           u == [t EXCEPT !.pc = "lock_delete"]
<1>1. t \in Thread /\ AtStep(t, mem, head, tail, free_cache_size, c)
  BY DEF Now, Sound
<1>2. /\ t.pc = "delete" /\ (t.victim # head \/ t.victim # tail)
      /\ thread' = [thread EXCEPT ![w] = u]
      /\ UNCHANGED <<head, tail, free_cache_size, mem, crashed>>
  BY DEF DeleteLocks, At, Goto, listVars
<1>3. /\ u \in Thread /\ u.pc = "lock_delete" /\ u.uri = t.uri /\ u.hit = t.hit
      /\ u.node = t.node /\ u.victim = t.victim
  BY <1>1, Advanced DEF PC
<1>4. Links(mem, head, tail, c)
  BY DEF Now, Sound
<1> HIDE DEF t, u
<1>5. Len(c) # 0
  <2> SUFFICES ASSUME Len(c) = 0 PROVE FALSE
    OBVIOUS
  <2>1. head = NULL /\ tail = NULL /\ \A n : ~ InList(n, c)
    BY <1>4 DEF Links, InList
  <2>2. ~ t.hit /\ t.victim = tail
    BY <1>1, <1>2, <2>1 DEF AtStep, Holding, Evicting, Deleting
  <2> QED
    BY <1>2, <2>1, <2>2
<1>6. AtStep(u, mem, head, tail, free_cache_size, c)
  BY <1>1, <1>2, <1>3, <1>5 DEF AtStep, Registers, Scanning, Missing, Holding,
     Evicting, Answering, Deleting, Inserting
<1> QED
  BY <1>2, <1>6, ThreadSteps DEF t

LEMMA WriteLockKeeps ==
  ASSUME NEW w \in Workers, NEW c, NEW s, Now(w, c, s), WriteLock(w)
  PROVE  Later(w, c, s)
<1> DEFINE t == thread[w]
           label == IF t.pc = "lock_delete" THEN "unlink" ELSE "link"
           u == [t EXCEPT !.pc = label]
<1>1. t \in Thread /\ AtStep(t, mem, head, tail, free_cache_size, c)
  BY DEF Now, Sound
<1>2. /\ t.pc \in {"lock_delete", "lock_insert"}
      /\ thread' = [thread EXCEPT ![w] = u]
      /\ UNCHANGED <<head, tail, free_cache_size, mem, crashed>>
  BY DEF WriteLock, At, Goto, listVars
<1>3. /\ u \in Thread /\ u.pc = label /\ u.uri = t.uri /\ u.hit = t.hit
      /\ u.node = t.node /\ u.victim = t.victim
  <2>1. label \in PC
    BY DEF PC
  <2> HIDE DEF label
  <2> QED
    BY <1>1, <2>1, Advanced
<1>4. u.pc \in {"unlink", "link"}
  BY <1>3
<1> HIDE DEF t, u
<1>5. AtStep(u, mem, head, tail, free_cache_size, c)
  BY <1>1, <1>2, <1>3 DEF AtStep, Registers, Scanning, Missing, Holding,
     Evicting, Answering, Deleting, Inserting
<1> QED
  BY <1>2, <1>5, ThreadSteps DEF t

(* A delete takes the k-th node out of the list, or initializes the cache  *)
(* when it is the only one.                                                *)
Deletes(t, m, h, tl, fr, c, k, v, f, h2, t2, fr2, u) ==
  /\ t.pc \in {"delete", "unlink"}
  /\ k \in 1 .. Len(c) /\ v = c[k] /\ t.victim = v
  /\ f = Freed(Unlinked(m, h, tl, v), v)
  /\ h2 = IF v = h THEN m[v].next ELSE h
  /\ t2 = IF v = tl THEN m[v].prev ELSE tl
  /\ \/ fr2 = fr + m[v].length
     \/ Len(c) = 1 /\ fr2 = MAX_CACHE_SIZE
  /\ u = [t EXCEPT !.pc = IF t.hit THEN "lock_insert" ELSE "room"]

(* What it leaves: the list without the victim, and room for it.           *)
LEMMA DeletedKeeps ==
  ASSUME NEW t, NEW m, NEW h, NEW tl, NEW fr, NEW c, NEW s,
         Sound(t, m, h, tl, fr, c, s),
         NEW k, NEW v, NEW f, NEW h2, NEW t2, NEW fr2, NEW u,
         Deletes(t, m, h, tl, fr, c, k, v, f, h2, t2, fr2, u)
  PROVE  \E r : Sound(u, f, h2, t2, fr2, RemoveAt(c, k), r)
<1> DEFINE L == Len(c)
           d == RemoveAt(c, k)
<1> USE DEF Deletes
<1>1. /\ t \in Thread /\ AtStep(t, m, h, tl, fr, c)
      /\ m \in Memory /\ Filled(m) /\ Links(m, h, tl, c) /\ Sums(m, c, s)
      /\ Space(fr, s[L]) /\ c \in Seq(Nodes) /\ L \in Nat
  BY LinksFacts DEF Sound, AtStep, Registers
<1>2. /\ v \in Nodes /\ f \in Memory
      /\ \A n \in Nodes : f[n].uri = m[n].uri /\ f[n].length = m[n].length
      /\ \A n \in Nodes : f[n].state = "unused" <=> m[n].state = "unused"
      /\ Links(f, h2, t2, d)
  BY <1>1, ListWithout
<1>3. Filled(f)
  BY <1>1, <1>2 DEF Filled
<1>4. PICK r : /\ Sums(f, d, r) /\ r[L - 1] = s[L] - m[v].length /\ r[L - 1] \in Nat
  BY <1>1, <1>2, SumsWithout
<1>5. /\ Len(d) = L - 1
      /\ \A i \in 1 .. L - 1 : d[i] = IF i < k THEN c[i] ELSE c[i + 1]
  <2>1. k \in DOMAIN c
    BY <1>1
  <2> QED
    BY <1>1, <2>1, WithoutNode
<1> HIDE DEF d
<1>6. m[v].length \in Nat /\ s[L] \in Nat /\ MAX_CACHE_SIZE \in Nat /\ fr \in Nat
  <2>1. L \in 0 .. L
    BY <1>1
  <2> QED
    BY <1>1, <1>2, <2>1, SumsGrow, ProxyCacheAssumption DEF Memory, Node, Space
<1>7. fr + s[L] \in {MAX_CACHE_SIZE, 0} /\ s[L] = r[L - 1] + m[v].length
  BY <1>1, <1>4, <1>6 DEF Space
<1>8. Space(fr2, r[Len(d)]) /\ m[v].length <= fr2
  <2>1. CASE fr2 = fr + m[v].length
    <3> DEFINE x == m[v].length
               y == r[L - 1]
               z == s[L]
    <3>1. fr2 \in Nat /\ fr2 + y = fr + z /\ x <= fr2
      <4>1. fr2 = fr + x /\ z = y + x /\ x \in Nat /\ y \in Nat /\ fr \in Nat
        BY <1>4, <1>6, <1>7, <2>1
      <4> HIDE DEF x, y, z
      <4> QED
        BY <4>1
    <3> QED
      BY <1>5, <1>7, <3>1 DEF Space
  <2>2. CASE L = 1 /\ fr2 = MAX_CACHE_SIZE
    <3>1. r[L - 1] = 0
      BY <1>4, <2>2 DEF Sums
    <3> DEFINE x == m[v].length
               z == s[L]
    <3>2. x <= MAX_CACHE_SIZE
      <4>1. fr + z \in {MAX_CACHE_SIZE, 0} /\ z = 0 + x /\ x \in Nat /\ fr \in Nat
        BY <1>6, <1>7, <3>1
      <4> HIDE DEF x, z
      <4> QED
        BY <1>6, <4>1
    <3> QED
      BY <1>5, <1>6, <2>2, <3>1, <3>2 DEF Space
  <2> QED
    BY <2>1, <2>2
<1>9. \A i \in 1 .. L - 1 : \E j \in 1 .. L : j # k /\ d[i] = c[j]
  <2> SUFFICES ASSUME NEW i \in 1 .. L - 1
               PROVE  \E j \in 1 .. L : j # k /\ d[i] = c[j]
    OBVIOUS
  <2>1. CASE i < k
    <3>1. i \in 1 .. L /\ i # k /\ d[i] = c[i]
      BY <1>1, <1>5, <2>1
    <3> QED
      BY <3>1
  <2>2. CASE ~ (i < k)
    <3>1. i + 1 \in 1 .. L /\ i + 1 # k /\ d[i] = c[i + 1]
      BY <1>1, <1>5, <2>2
    <3> QED
      BY <3>1
  <2> QED
    BY <2>1, <2>2
<1>10. /\ m[t.node].uri = t.uri /\ m[t.node].state # "unused" /\ t.node \in Nodes
       /\ t.hit => t.node = v
  BY <1>1 DEF AtStep, Holding, Evicting, Deleting
<1>11. ~ Lists(f, d, t.uri)
  <2> SUFFICES ASSUME NEW i \in 1 .. L - 1 PROVE f[d[i]].uri # t.uri
    BY <1>5 DEF Lists
  <2>1. PICK j \in 1 .. L : j # k /\ d[i] = c[j]
    BY <1>9
  <2>2. f[d[i]].uri = m[c[j]].uri
    BY <1>1, <1>2, <2>1, LinksFacts
  <2>3. CASE t.hit
    <3>1. m[c[j]].uri # m[c[k]].uri
      BY <1>1, <2>1 DEF Links
    <3> QED
      BY <1>10, <2>2, <2>3, <3>1
  <2>4. CASE ~ t.hit
    <3>1. ~ Lists(m, c, t.uri)
      BY <1>1, <2>4 DEF AtStep, Missing, Deleting
    <3> QED
      BY <2>2, <3>1 DEF Lists
  <2> QED
    BY <2>3, <2>4
<1>12. /\ u \in Thread /\ u.pc = IF t.hit THEN "lock_insert" ELSE "room"
       /\ u.uri = t.uri /\ u.hit = t.hit /\ u.node = t.node
  <2> DEFINE label == IF t.hit THEN "lock_insert" ELSE "room"
  <2>1. label \in PC /\ u = [t EXCEPT !.pc = label]
    BY DEF PC
  <2> DEFINE x == [t EXCEPT !.pc = label]
  <2>2. x \in Thread /\ x.pc = label /\ x.uri = t.uri /\ x.hit = t.hit /\ x.node = t.node
    <3> HIDE DEF label
    <3> QED
      BY <1>1, <2>1, Advanced
  <2> QED
    BY <2>1, <2>2
<1>13. Registers(u)
  BY <1>1, <1>12 DEF AtStep, Registers, Deleting, Inserting
<1>14. Missing(u, f, d)
  BY <1>11, <1>12 DEF Missing
<1>15. Holding(u, f, d)
  BY <1>2, <1>10, <1>12 DEF Holding, Deleting
<1>16. Evicting(u, f, t2, fr2, d)
  <2>1. f[t.node].length = m[t.node].length
    BY <1>2, <1>10
  <2> QED
    BY <1>8, <1>10, <1>12, <2>1 DEF Evicting, Deleting, Inserting
<1>17. Scanning(u, f, d) /\ Answering(u, f, h2, d)
  BY <1>12 DEF Scanning, Answering
<1>18. AtStep(u, f, h2, t2, fr2, d)
  BY <1>13, <1>14, <1>15, <1>16, <1>17 DEF AtStep
<1>19. Sound(u, f, h2, t2, fr2, d, r)
  BY <1>2, <1>3, <1>4, <1>8, <1>18 DEF Sound
<1> QED
  BY <1>19 DEF d

(* What an insert leaves: the list with the node in front, and less room.  *)
LEMMA LinkedKeeps ==
  ASSUME NEW t, NEW m, NEW h, NEW tl, NEW fr, NEW c, NEW s,
         Sound(t, m, h, tl, fr, c, s),
         t.pc = "link",
         NEW n, n = t.node,
         NEW f, f = Pushed(m, h, n),
         NEW t2, t2 = IF h = NULL THEN n ELSE tl,
         NEW fr2, fr2 = fr - m[n].length,
         NEW u, u = IF t.hit THEN [t EXCEPT !.pc = "reply"] ELSE Idle
  PROVE  /\ \E r : Sound(u, f, n, t2, fr2, <<n>> \o c, r)
         /\ \A i \in Nodes : f[i].uri = m[i].uri /\ f[i].length = m[i].length
<1> DEFINE L == Len(c)
           d == <<n>> \o c
<1>1. /\ t \in Thread /\ AtStep(t, m, h, tl, fr, c)
      /\ m \in Memory /\ Filled(m) /\ Links(m, h, tl, c) /\ Sums(m, c, s)
      /\ Space(fr, s[L]) /\ c \in Seq(Nodes) /\ L \in Nat
  BY LinksFacts DEF Sound, AtStep, Registers
<1>2. /\ n \in Nodes /\ m[n].uri = t.uri /\ m[n].state # "unused"
      /\ ~ Lists(m, c, t.uri) /\ m[n].length <= fr
  BY <1>1 DEF AtStep, Holding, Missing, Evicting, Inserting
<1>3. /\ f \in Memory
      /\ \A i \in Nodes : /\ f[i].uri = m[i].uri
                          /\ f[i].length = m[i].length
                          /\ f[i].state = m[i].state
      /\ Links(f, n, t2, d)
  BY <1>1, <1>2, ListWith
<1>4. PICK r : Sums(f, d, r) /\ r[L + 1] = s[L] + m[n].length
  BY <1>1, <1>2, <1>3, SumsWith
<1>5. Len(d) = L + 1
  BY <1>1, <1>2, Prepended
<1> HIDE DEF d
<1>6. m[n].length \in Nat /\ s[L] \in Nat /\ fr \in Nat
  <2>1. L \in 0 .. L
    BY <1>1
  <2> QED
    BY <1>1, <1>2, <2>1, SumsGrow DEF Memory, Node, Space
<1>7. Space(fr2, r[Len(d)])
  <2>1. fr2 \in Nat /\ fr2 + r[L + 1] = fr + s[L]
    BY <1>2, <1>4, <1>6
  <2> QED
    BY <1>1, <1>5, <2>1 DEF Space
<1>8. Filled(f)
  BY <1>1, <1>3 DEF Filled
<1>9. CASE t.hit
  <2> DEFINE x == [t EXCEPT !.pc = "reply"]
  <2>1. x \in Thread /\ x.pc = "reply" /\ x.uri = t.uri /\ x.hit = t.hit /\ x.node = t.node
    BY <1>1, Advanced DEF PC
  <2>2. u \in Thread /\ u.pc = "reply" /\ u.uri = t.uri /\ u.hit = t.hit /\ u.node = n
    BY <1>9, <2>1
  <2>3. Answering(u, f, n, d)
    BY <1>1, <1>2, <1>3, <1>5, <2>2 DEF Answering
  <2>4. AtStep(u, f, n, t2, fr2, d)
    BY <1>1, <1>9, <2>2, <2>3 DEF AtStep, Registers, Scanning, Missing, Holding,
       Evicting, Deleting, Inserting
  <2> QED
    BY <1>3, <1>4, <1>7, <1>8, <2>4 DEF Sound, d
<1>10. CASE ~ t.hit
  <2>1. u = Idle
    BY <1>10
  <2>2. u \in Thread /\ u.pc = "idle" /\ ~ u.hit
    BY <2>1 DEF Thread, Idle, PC, Pointer
  <2>3. AtStep(u, f, n, t2, fr2, d)
    BY <2>1, <2>2 DEF AtStep, Registers, Scanning, Missing, Holding,
       Evicting, Answering, Deleting, Inserting
  <2> QED
    BY <1>3, <1>4, <1>7, <1>8, <2>3 DEF Sound, d
<1> QED
  BY <1>3, <1>9, <1>10

(* The thread's step takes the k-th node out of the list c, and nothing of *)
(* the objects but their order is changed.                                 *)
Taken(w, c, k) ==
  /\ thread[w].pc \in {"delete", "unlink"}
  /\ k \in 1 .. Len(c)
  /\ thread[w].victim = c[k]
  /\ thread'[w] = [thread[w] EXCEPT
                     !.pc = IF thread[w].hit THEN "lock_insert" ELSE "room"]
  /\ \A n \in Nodes : /\ mem'[n].uri = mem[n].uri
                      /\ mem'[n].length = mem[n].length

(* delete, for the only node of the list or for none: cache and lock are   *)
(* initialized.                                                            *)
LEMMA DeleteOnlyKeeps ==
  ASSUME NEW w \in Workers, NEW c, NEW s, Now(w, c, s), DeleteOnly(w)
  PROVE  IF Len(c) = 0 THEN Later(w, c, s) /\ thread[w].victim = NULL
         ELSE /\ Taken(w, c, 1)
              /\ \E r : Later(w, RemoveAt(c, 1), r)
<1> DEFINE t == thread[w]
           v == t.victim
           u == [t EXCEPT !.pc = IF t.hit THEN "lock_insert" ELSE "room"]
<1>1. /\ t \in Thread /\ AtStep(t, mem, head, tail, free_cache_size, c)
      /\ mem \in Memory /\ Filled(mem) /\ Links(mem, head, tail, c) /\ Sums(mem, c, s)
      /\ Len(c) \in Nat /\ Sound(t, mem, head, tail, free_cache_size, c, s)
  BY LinksFacts DEF Now, Sound
<1>2. /\ \A i \in 1 .. Len(c) : c[i] \in Nodes
      /\ \A i, j \in 1 .. Len(c) : c[i] = c[j] => i = j
  BY <1>1, LinksFacts, NodesDistinct
<1>3. NULL \notin Nodes /\ Junk \notin Nodes /\ Junk # NULL
  BY <1>1, LinksFacts DEF Junk, NULL, Nodes
<1>4. /\ head = IF Len(c) = 0 THEN NULL ELSE c[1]
      /\ tail = IF Len(c) = 0 THEN NULL ELSE c[Len(c)]
  BY <1>1 DEF Links
<1>5. v # Junk /\ v = head /\ v = tail /\ t.pc = "delete"
  BY <1>1, <1>2, <1>3, <1>4 DEF DeleteOnly, At
<1>6. /\ head' = NULL /\ tail' = NULL /\ free_cache_size' = MAX_CACHE_SIZE
      /\ mem' = IF v = NULL THEN mem ELSE Freed(mem, v)
      /\ thread' = [thread EXCEPT ![w] = u]
      /\ crashed' = crashed
  BY <1>5 DEF DeleteOnly, Deleted, Goto, Crash
<1>7. CASE Len(c) = 0
  <2>1. v = NULL /\ mem' = mem
    BY <1>4, <1>5, <1>6, <1>7
  <2>2. ~ t.hit
    BY <1>1, <1>5, <1>7 DEF AtStep, Holding, Deleting, InList
  <2>3. u = [t EXCEPT !.pc = "room"]
    BY <2>2
  <2> DEFINE x == [t EXCEPT !.pc = "room"]
  <2>4. x \in Thread /\ x.pc = "room" /\ x.uri = t.uri /\ x.hit = t.hit /\ x.node = t.node
    BY <1>1, Advanced DEF PC
  <2>5. /\ u \in Thread /\ u.pc = "room" /\ u.uri = t.uri /\ u.hit = t.hit
        /\ u.node = t.node
    BY <2>3, <2>4
  <2>6. thread' \in [Workers -> Thread] /\ thread'[w] = u
    BY <1>6, <2>5 DEF Now
  <2> HIDE DEF t, u, v
  <2>7. AtStep(u, mem, NULL, NULL, MAX_CACHE_SIZE, c)
    BY <1>1, <1>5, <2>2, <2>5 DEF AtStep, Registers, Scanning, Missing, Holding,
       Evicting, Answering, Deleting, Inserting
  <2>8. Space(MAX_CACHE_SIZE, s[Len(c)])
    BY <1>1, <1>7, ProxyCacheAssumption DEF Space, Sums
  <2>9. Links(mem, NULL, NULL, c)
    BY <1>1, <1>4, <1>7
  <2>10. Sound(u, mem, NULL, NULL, MAX_CACHE_SIZE, c, s)
    BY <1>1, <2>7, <2>8, <2>9 DEF Sound
  <2> QED
    BY <1>6, <1>7, <2>1, <2>6, <2>10 DEF Now, Later, t, v
<1>8. CASE Len(c) # 0
  <2>1. 1 \in 1 .. Len(c) /\ Len(c) \in 1 .. Len(c) /\ v = c[1] /\ c[1] = c[Len(c)]
    BY <1>1, <1>4, <1>5, <1>8
  <2>2. Len(c) = 1
    BY <1>2, <2>1
  <2>3. v \in Nodes /\ mem' = Freed(Unlinked(mem, head, tail, v), v)
    BY <1>2, <1>3, <1>5, <1>6, <2>1 DEF Unlinked, Skipped
  <2>4. head' = mem[v].next /\ tail' = mem[v].prev
    BY <1>1, <1>6, <2>1, <2>2 DEF Links
  <2>5. PICK r : Sound(u, mem', head', tail', MAX_CACHE_SIZE, RemoveAt(c, 1), r)
    <3> HIDE DEF t, u, v
    <3>1. head' = IF v = head THEN mem[v].next ELSE head
      BY <1>5, <2>4
    <3>2. tail' = IF v = tail THEN mem[v].prev ELSE tail
      BY <1>5, <2>4
    <3>3. t.pc \in {"delete", "unlink"}
      BY <1>5
    <3>4. u = [t EXCEPT !.pc = IF t.hit THEN "lock_insert" ELSE "room"]
      BY DEF u
    <3>5. t.victim = v
      BY DEF v
    <3>6. \/ MAX_CACHE_SIZE = free_cache_size + mem[v].length
          \/ Len(c) = 1 /\ MAX_CACHE_SIZE = MAX_CACHE_SIZE
      BY <2>2
    <3>7. Deletes(t, mem, head, tail, free_cache_size, c, 1, v,
                  mem', head', tail', MAX_CACHE_SIZE, u)
      BY <2>1, <2>3, <3>1, <3>2, <3>3, <3>4, <3>5, <3>6 DEF Deletes
    <3> QED
      BY <1>1, <3>7, DeletedKeeps
  <2>6. u \in Thread
    BY <2>5 DEF Sound, AtStep, Registers
  <2>7. thread' \in [Workers -> Thread] /\ thread'[w] = u
    BY <1>6, <2>6 DEF Now
  <2>8. Taken(w, c, 1)
    <3>1. \A n \in Nodes : mem'[n].uri = mem[n].uri /\ mem'[n].length = mem[n].length
      BY <1>1, <2>1, <2>3, ListWithout
    <3> QED
      BY <1>5, <2>1, <2>7, <3>1 DEF Taken
  <2> HIDE DEF t, u
  <2>9. Later(w, RemoveAt(c, 1), r)
    BY <1>6, <2>5, <2>7 DEF Now, Later
  <2> QED
    BY <1>8, <2>8, <2>9
<1> QED
  BY <1>7, <1>8

(* delete's critical section.                                              *)
LEMMA UnlinkKeeps ==
  ASSUME NEW w \in Workers, NEW c, NEW s, Now(w, c, s), Unlink(w)
  PROVE  \E k \in 1 .. Len(c) : \E r : Taken(w, c, k) /\ Later(w, RemoveAt(c, k), r)
<1> DEFINE t == thread[w]
           v == t.victim
           u == [t EXCEPT !.pc = IF t.hit THEN "lock_insert" ELSE "room"]
<1>1. /\ t \in Thread /\ AtStep(t, mem, head, tail, free_cache_size, c)
      /\ mem \in Memory /\ Links(mem, head, tail, c)
      /\ Sound(t, mem, head, tail, free_cache_size, c, s)
  BY DEF Now, Sound
<1>2. t.pc = "unlink"
  BY DEF Unlink, At
<1>3. Len(c) # 0
  BY <1>1, <1>2 DEF AtStep, Evicting, Deleting
<1>4. PICK k \in 1 .. Len(c) : v = c[k]
  BY <1>1, <1>2, <1>3, VictimListed DEF Deleting
<1>5. /\ v \in Nodes
      /\ v # head => mem[v].prev \in Nodes
      /\ v # tail => mem[v].next \in Nodes
      /\ Skipped(mem, head, v)[v] = mem[v]
  BY <1>1, <1>4, ListWithout
<1>6. CanUnlink(v)
  BY <1>5 DEF CanUnlink
<1>7. /\ head' = IF v = head THEN mem[v].next ELSE head
      /\ tail' = IF v = tail THEN Skipped(mem, head, v)[v].prev ELSE tail
      /\ free_cache_size' = free_cache_size + mem[v].length
      /\ mem' = Freed(Unlinked(mem, head, tail, v), v)
      /\ thread' = [thread EXCEPT ![w] = u]
      /\ crashed' = crashed
  BY <1>6 DEF Unlink, Deleted, Goto, Skipped, Unlinked
<1>8. tail' = IF v = tail THEN mem[v].prev ELSE tail
  BY <1>5, <1>7
<1>9. PICK r : Sound(u, mem', head', tail', free_cache_size',
                      RemoveAt(c, k), r)
  <2> HIDE DEF t, u, v
  <2>1. t.pc \in {"delete", "unlink"}
    BY <1>2
  <2>2. u = [t EXCEPT !.pc = IF t.hit THEN "lock_insert" ELSE "room"]
    BY DEF u
  <2>3. t.victim = v
    BY DEF v
  <2>4. \/ free_cache_size' = free_cache_size + mem[v].length
        \/ Len(c) = 1 /\ free_cache_size' = MAX_CACHE_SIZE
    BY <1>7
  <2>5. Deletes(t, mem, head, tail, free_cache_size, c, k, v,
                mem', head', tail', free_cache_size', u)
    BY <1>4, <1>7, <1>8, <2>1, <2>2, <2>3, <2>4 DEF Deletes
  <2> QED
    BY <1>1, <2>5, DeletedKeeps
<1>10. u \in Thread
  BY <1>9 DEF Sound, AtStep, Registers
<1>11. thread' \in [Workers -> Thread] /\ thread'[w] = u
  BY <1>7, <1>10 DEF Now
<1>12. Taken(w, c, k)
  <2>1. \A n \in Nodes : mem'[n].uri = mem[n].uri /\ mem'[n].length = mem[n].length
    BY <1>1, <1>4, <1>7, ListWithout
  <2> QED
    BY <1>2, <1>4, <1>11, <2>1 DEF Taken
<1> HIDE DEF t, u
<1>13. Later(w, RemoveAt(c, k), r)
  BY <1>7, <1>9, <1>11 DEF Now, Later
<1> QED
  BY <1>13, <1>12

(* insert's critical section.                                              *)
LEMMA LinkKeeps ==
  ASSUME NEW w \in Workers, NEW c, NEW s, Now(w, c, s), Link(w)
  PROVE  /\ \E r : Later(w, <<thread[w].node>> \o c, r)
         /\ thread'[w] = IF thread[w].hit THEN [thread[w] EXCEPT !.pc = "reply"] ELSE Idle
         /\ \A n \in Nodes : /\ mem'[n].uri = mem[n].uri
                             /\ mem'[n].length = mem[n].length
<1> DEFINE t == thread[w]
           n == t.node
           u == IF t.hit THEN [t EXCEPT !.pc = "reply"] ELSE Idle
<1>1. /\ t \in Thread /\ AtStep(t, mem, head, tail, free_cache_size, c)
      /\ mem \in Memory /\ Links(mem, head, tail, c)
      /\ Sound(t, mem, head, tail, free_cache_size, c, s)
  BY DEF Now, Sound
<1>2. t.pc = "link"
  BY DEF Link, At
<1>3. /\ n \in Nodes /\ mem[n].state # "unused" /\ mem[n].uri = t.uri
      /\ ~ Lists(mem, c, t.uri)
  BY <1>1, <1>2 DEF AtStep, Holding, Missing, Inserting
<1>4. head # Junk
  BY <1>1, <1>3, ListWith
<1>5. /\ head' = n
      /\ tail' = IF head = NULL THEN n ELSE tail
      /\ free_cache_size' = free_cache_size - mem[n].length
      /\ mem' = Pushed(mem, head, n)
      /\ thread' = [thread EXCEPT ![w] = u]
      /\ crashed' = crashed
  BY <1>4 DEF Link, Inserted, Goto, Pushed, Fronted
<1>6. /\ \E r : Sound(u, mem', head', tail', free_cache_size', <<n>> \o c, r)
      /\ \A i \in Nodes : mem'[i].uri = mem[i].uri /\ mem'[i].length = mem[i].length
  <2> HIDE DEF t, u, n
  <2>1. u = IF t.hit THEN [t EXCEPT !.pc = "reply"] ELSE Idle
    BY DEF u
  <2>2. n = t.node
    BY DEF n
  <2> QED
    BY <1>1, <1>2, <1>5, <2>1, <2>2, LinkedKeeps
<1>7. PICK r : Sound(u, mem', head', tail', free_cache_size', <<n>> \o c, r)
  BY <1>6
<1>8. u \in Thread
  BY <1>7 DEF Sound, AtStep, Registers
<1>9. thread' \in [Workers -> Thread] /\ thread'[w] = u
  BY <1>5, <1>8 DEF Now
<1> HIDE DEF t, u
<1>10. Later(w, <<n>> \o c, r)
  BY <1>5, <1>9, <1>7 DEF Now, Later
<1> QED
  BY <1>6, <1>9, <1>10 DEF t, u

-----------------------------------------------------------------------------
-----------------------------------------------------------------------------
(* The other threads.  They stay where they are.                           *)
LEMMA OneMoves ==
  ASSUME NEW w \in Workers, thread \in [Workers -> Thread],
         Work(w) \/ \E wanted \in Uris : Request(w, wanted),
         NEW v \in Workers, v # w
  PROVE  thread'[v] = thread[v]
<1>1. CASE Get(w)
  BY <1>1 DEF Get, ReadLock, Scan, Found, NotFound, Reply, Goto, Crash
<1>2. CASE Store(w)
  BY <1>2 DEF Store, NoStore, Put, Room
<1>3. CASE Delete(w)
  BY <1>3 DEF Delete, DeleteOnly, DeleteLocks, Unlink, Deleted, Goto, Crash
<1>4. CASE WriteLock(w)
  BY <1>4 DEF WriteLock, Goto
<1>5. CASE Link(w)
  BY <1>5 DEF Link, Inserted, Goto, Crash
<1>6. CASE \E wanted \in Uris : Request(w, wanted)
  BY <1>6 DEF Request
<1> QED
  BY <1>1, <1>2, <1>3, <1>4, <1>5, <1>6 DEF Work

(* What they know of the list holds on while it does not change, and if it *)
(* does, they only wait, and none of them for the object that came in.     *)
LEMMA OthersUnmoved ==
  ASSUME NEW w \in Workers, NEW c, NEW s, Listed(c, s), Later(w, c, s),
         \A v \in Workers \ {w} : thread'[v] = thread[v],
         UNCHANGED <<mem, head, tail, free_cache_size>>
  PROVE  \A v \in Workers : Later(v, c, s)
BY DEF Listed, Now, Later, Sound

LEMMA OthersAway ==
  ASSUME NEW w \in Workers, NEW c, NEW s, Listed(c, s),
         NEW d, NEW r, Later(w, d, r),
         \A v \in Workers \ {w} :
            /\ thread'[v] = thread[v]
            /\ thread[v].pc \in {"idle", "rdlock", "fetch"}
            /\ thread[v].pc = "fetch" => ~ Lists(mem', d, thread[v].uri)
  PROVE  \A v \in Workers : Later(v, d, r)
<1> SUFFICES ASSUME NEW v \in Workers, v # w PROVE Later(v, d, r)
  OBVIOUS
<1>1. Registers(thread[v])
  BY DEF Listed, Now, Sound, AtStep
<1>2. AtStep(thread[v], mem', head', tail', free_cache_size', d)
  BY <1>1 DEF AtStep, Scanning, Missing, Holding, Evicting, Answering, Deleting,
     Inserting
<1> QED
  BY <1>2 DEF Later, Sound

(* While one changes the list, the others have no use for it.              *)
LEMMA ChangesAlone ==
  ASSUME NEW w \in Workers, NEW c, NEW s, Listed(c, s), Orderly, Changing(w),
         NEW v \in Workers, v # w
  PROVE  /\ thread[v].pc \in {"idle", "rdlock", "fetch"}
         /\ thread[v].pc = "fetch" => /\ ~ Lists(mem, c, thread[v].uri)
                                      /\ thread[v].uri # thread[w].uri
<1>1. AtStep(thread[v], mem, head, tail, free_cache_size, c)
  BY DEF Listed, Now, Sound
<1> QED
  BY <1>1 DEF Orderly, Beyond, AtStep, Missing

LEMMA TakenFromOthers ==
  ASSUME NEW w \in Workers, NEW c, NEW s, Listed(c, s), Orderly,
         Work(w), NEW k, Taken(w, c, k), NEW r, Later(w, RemoveAt(c, k), r)
  PROVE  \A v \in Workers : Later(v, RemoveAt(c, k), r)
<1> DEFINE d == RemoveAt(c, k)
<1>1. /\ thread \in [Workers -> Thread] /\ c \in Seq(Nodes) /\ Len(c) \in Nat
      /\ \A i \in 1 .. Len(c) : c[i] \in Nodes
  BY LinksFacts DEF Listed, Now, Sound
<1>2. /\ k \in 1 .. Len(c) /\ Changing(w)
      /\ \A n \in Nodes : mem'[n].uri = mem[n].uri
  BY DEF Taken, Changing
<1>3. /\ Len(d) = Len(c) - 1
      /\ \A i \in 1 .. Len(c) - 1 : d[i] = IF i < k THEN c[i] ELSE c[i + 1]
  <2>1. k \in DOMAIN c
    BY <1>1, <1>2
  <2> QED
    BY <1>1, <2>1, WithoutNode
<1> HIDE DEF d
<1>4. ASSUME NEW v \in Workers, v # w, thread[v].pc = "fetch"
      PROVE  ~ Lists(mem', d, thread[v].uri)
  <2>1. ~ Lists(mem, c, thread[v].uri)
    BY <1>2, <1>4, ChangesAlone
  <2> SUFFICES ASSUME NEW i \in 1 .. Len(d) PROVE mem'[d[i]].uri # thread[v].uri
    BY DEF Lists
  <2>2. PICK j \in 1 .. Len(c) : d[i] = c[j]
    <3>1. i \in 1 .. Len(c) /\ i + 1 \in 1 .. Len(c) /\ i \in 1 .. Len(c) - 1
      BY <1>1, <1>3
    <3> QED
      BY <1>3, <3>1
  <2> QED
    BY <1>1, <1>2, <2>1, <2>2 DEF Lists
<1> QED
  BY <1>1, <1>2, <1>4, OneMoves, ChangesAlone, OthersAway DEF d

LEMMA LinkedForOthers ==
  ASSUME NEW w \in Workers, NEW c, NEW s, Listed(c, s), Orderly, Link(w),
         NEW r, Later(w, <<thread[w].node>> \o c, r)
  PROVE  \A v \in Workers : Later(v, <<thread[w].node>> \o c, r)
<1> DEFINE n == thread[w].node
           d == <<n>> \o c
<1>1. /\ thread \in [Workers -> Thread] /\ c \in Seq(Nodes) /\ Len(c) \in Nat
      /\ \A i \in 1 .. Len(c) : c[i] \in Nodes
      /\ AtStep(thread[w], mem, head, tail, free_cache_size, c)
  BY LinksFacts DEF Listed, Now, Sound
<1>2. thread[w].pc = "link" /\ Changing(w)
  BY DEF Link, At, Changing
<1>3. n \in Nodes /\ mem[n].uri = thread[w].uri
  BY <1>1, <1>2 DEF AtStep, Holding, Inserting
<1>4. \A i \in Nodes : mem'[i].uri = mem[i].uri
  BY LinkKeeps DEF Listed
<1>5. /\ Len(d) = Len(c) + 1 /\ d[1] = n
      /\ \A i \in 2 .. Len(c) + 1 : d[i] = c[i - 1]
  BY <1>1, <1>3, Prepended
<1> HIDE DEF d, n
<1>6. ASSUME NEW v \in Workers, v # w, thread[v].pc = "fetch"
      PROVE  ~ Lists(mem', d, thread[v].uri)
  <2>1. ~ Lists(mem, c, thread[v].uri) /\ thread[v].uri # thread[w].uri
    BY <1>2, <1>6, ChangesAlone
  <2> SUFFICES ASSUME NEW i \in 1 .. Len(d) PROVE mem'[d[i]].uri # thread[v].uri
    BY DEF Lists
  <2>2. CASE i = 1
    BY <1>3, <1>4, <1>5, <2>1, <2>2
  <2>3. CASE i # 1
    <3>1. i \in 2 .. Len(c) + 1 /\ i - 1 \in 1 .. Len(c)
      BY <1>1, <1>5, <2>3
    <3>2. mem'[d[i]].uri = mem[c[i - 1]].uri
      BY <1>1, <1>4, <1>5, <3>1
    <3> QED
      BY <2>1, <3>1, <3>2 DEF Lists
  <2> QED
    BY <2>2, <2>3
<1>7. Work(w)
  BY DEF Work
<1> QED
  BY <1>1, <1>2, <1>6, <1>7, OneMoves, ChangesAlone, OthersAway DEF d, n

(* malloc returns a node that is not in the list, so that a put leaves the *)
(* list as it is; and nobody else is at the list once the node is filled.  *)
LEMMA PutBeside ==
  ASSUME NEW w \in Workers, NEW c, NEW s, Now(w, c, s), Spares,
         NEW n \in Nodes, NEW length \in Lengths, Put(w, n, length)
  PROVE  /\ \A i \in 1 .. Len(c) : c[i] # n
         /\ \A i \in Nodes : i # n => mem'[i] = mem[i]
<1>1. Chain = c /\ mem \in Memory /\ DOMAIN c = 1 .. Len(c)
  BY ChainOfLinks, LinksFacts DEF Now, Sound
<1>2. n \notin Range(Chain)
  BY DEF Spares
<1> QED
  BY <1>1, <1>2 DEF Range, Put, Memory

LEMMA PutBesideOthers ==
  ASSUME NEW w \in Workers, NEW c, NEW s, Listed(c, s), Spares, Orderly',
         NEW n \in Nodes, NEW length \in Lengths, Put(w, n, length)
  PROVE  \A v \in Workers : Later(v, c, s)
<1>1. Now(w, c, s)
  BY DEF Listed
<1>2. /\ \A i \in 1 .. Len(c) : c[i] # n
      /\ \A i \in Nodes : i # n => mem'[i] = mem[i]
  BY <1>1, PutBeside
<1>3. Later(w, c, s)
  BY <1>1, <1>2, PutKeeps
<1>4. thread \in [Workers -> Thread] /\ \A i \in 1 .. Len(c) : c[i] \in Nodes
  BY <1>1, LinksFacts DEF Now, Sound
<1>5. Work(w)
  BY DEF Work, Store
<1>6. Changing(w)'
  BY <1>4 DEF Put, Changing, Thread
<1>7. ASSUME NEW v \in Workers, v # w
      PROVE  /\ thread'[v] = thread[v]
             /\ thread[v].pc \in {"idle", "rdlock", "fetch"}
             /\ thread[v].pc = "fetch" => ~ Lists(mem', c, thread[v].uri)
  <2>1. thread'[v] = thread[v]
    BY <1>4, <1>5, <1>7, OneMoves
  <2>2. thread'[v].pc \in {"idle", "rdlock", "fetch"}
    BY <1>6, <1>7 DEF Orderly
  <2>3. thread[v].pc = "fetch" => ~ Lists(mem, c, thread[v].uri)
    BY DEF Listed, Now, Sound, AtStep, Missing
  <2>4. \A i \in 1 .. Len(c) : mem'[c[i]] = mem[c[i]]
    BY <1>2, <1>4
  <2> QED
    BY <2>1, <2>2, <2>3, <2>4 DEF Lists
<1> QED
  BY <1>3, <1>7, OthersAway

-----------------------------------------------------------------------------
LEMMA ListedInit ==
  ASSUME Init
  PROVE  \E s : Listed(<<>>, s)
<1> DEFINE s == [k \in {0} |-> 0]
<1>1. /\ head = NULL /\ tail = NULL /\ free_cache_size = 0
      /\ mem = [n \in Nodes |-> Unused] /\ crashed = FALSE
      /\ thread = [w \in Workers |-> Idle]
  BY DEF Init
<1>2. Idle \in Thread /\ Idle.pc = "idle" /\ ~ Idle.hit
  BY DEF Thread, Idle, PC, Pointer
<1>3. thread \in [Workers -> Thread]
  BY <1>1, <1>2
<1>4. Unused \in Node /\ Unused.state = "unused"
  BY DEF Unused, Node, Pointer
<1>5. mem \in Memory /\ Filled(mem)
  BY <1>1, <1>4 DEF Memory, Filled
<1>6. <<>> \in Seq(Nodes) /\ Len(<<>>) = 0
  OBVIOUS
<1>7. Links(mem, NULL, NULL, <<>>)
  BY <1>6 DEF Links
<1>8. s[0] = 0 /\ s \in [0 .. 0 -> Nat]
  OBVIOUS
<1>9. Sums(mem, <<>>, s)
  <2> HIDE DEF s
  <2> QED
    BY <1>6, <1>8 DEF Sums
<1>10. Space(0, s[Len(<<>>)])
  BY <1>6, <1>8 DEF Space
<1>11. AtStep(Idle, mem, NULL, NULL, 0, <<>>)
  BY <1>2 DEF AtStep, Registers, Scanning, Missing, Holding, Evicting,
     Answering, Deleting, Inserting
<1> HIDE DEF s
<1>12. ASSUME NEW w \in Workers PROVE Now(w, <<>>, s)
  BY <1>1, <1>3, <1>5, <1>7, <1>9, <1>10, <1>11 DEF Now, Sound
<1> QED
  BY <1>12 DEF Listed

LEMMA CacheInvInit ==
  ASSUME Init
  PROVE  CacheInv
<1>1. Orderly
  BY DEF Init, Orderly, Changing, Beyond, Idle
<1> QED
  BY <1>1, ListedInit DEF CacheInv

(* After every step of a thread there is again a list of nodes, with the   *)
(* sums of their lengths, that everybody's registers and the shared        *)
(* variables fit.                                                          *)
LEMMA StepKeeps ==
  ASSUME NEW w \in Workers, Orderly, Orderly', Spares,
         NEW c, NEW s, Listed(c, s),
         Work(w) \/ \E wanted \in Uris : Request(w, wanted)
  PROVE  \E d, r : \A v \in Workers : Later(v, d, r)
<1>1. Now(w, c, s) /\ thread \in [Workers -> Thread]
  BY DEF Listed, Now
<1>2. \A v \in Workers \ {w} : thread'[v] = thread[v]
  BY <1>1, OneMoves
<1>3. CASE \/ \E wanted \in Uris : Request(w, wanted)
           \/ Get(w) \/ NoStore(w) \/ Room(w) \/ DeleteLocks(w) \/ WriteLock(w)
  <2>1. Later(w, c, s)
    BY <1>1, <1>3, RequestKeeps, ReadLockKeeps, ScanKeeps, FoundKeeps, NotFoundKeeps,
       EndKeeps, RoomKeeps, DeleteLocksKeeps, WriteLockKeeps DEF Get
  <2>2. UNCHANGED <<mem, head, tail, free_cache_size>>
    BY <1>3 DEF Get, Request, ReadLock, Scan, Found, NotFound, Reply, NoStore, Room,
       DeleteLocks, WriteLock, Crash, listVars
  <2> QED
    BY <1>2, <2>1, <2>2, OthersUnmoved
<1>4. CASE \E n \in Nodes, length \in Lengths : Put(w, n, length)
  BY <1>4, PutBesideOthers
<1>5. CASE DeleteOnly(w) \/ Unlink(w)
  <2>1. Work(w)
    BY <1>5 DEF Work, Delete
  <2>2. CASE \E k, r : Taken(w, c, k) /\ Later(w, RemoveAt(c, k), r)
    BY <2>1, <2>2, TakenFromOthers
  <2>3. CASE DeleteOnly(w) /\ Len(c) = 0
    <3>1. Later(w, c, s)
      BY <1>1, <2>3, DeleteOnlyKeeps
    <3>2. \A u : ~ Lists(mem', c, u)
      BY <2>3 DEF Lists
    <3>3. Changing(w)
      BY <2>3 DEF DeleteOnly, At, Changing
    <3> QED
      BY <1>2, <3>1, <3>2, <3>3, ChangesAlone, OthersAway
  <2> QED
    BY <1>1, <1>5, <2>2, <2>3, DeleteOnlyKeeps, UnlinkKeeps
<1>6. CASE Link(w)
  <2>1. PICK r : Later(w, <<thread[w].node>> \o c, r)
    BY <1>1, <1>6, LinkKeeps
  <2> QED
    BY <1>6, <2>1, LinkedForOthers
<1> QED
  BY <1>3, <1>4, <1>5, <1>6 DEF Work, Store, Delete

LEMMA CacheInvPreserved ==
  ASSUME CacheInv, [OrderlyNext]_vars
  PROVE  CacheInv'
<1>1. Orderly /\ \E c, s : Listed(c, s)
  BY DEF CacheInv
<1>2. PICK c, s : Listed(c, s)
  BY <1>1
<1>3. Orderly' /\ \E d, r : \A v \in Workers : Later(v, d, r)
  <2>1. CASE OrderlyNext
    <3>1. PICK w \in Workers : Work(w) \/ \E wanted \in Uris : Request(w, wanted)
      BY <2>1 DEF OrderlyNext, Next
    <3> QED
      BY <1>1, <1>2, <2>1, <3>1, StepKeeps DEF OrderlyNext
  <2>2. CASE UNCHANGED vars
    BY <1>1, <1>2, <2>2 DEF Listed, Now, Later, Orderly, Changing, Beyond, vars, listVars
  <2> QED
    BY <2>1, <2>2
<1>4. PICK d, r : \A v \in Workers : Later(v, d, r)
  BY <1>3
<1>5. Listed(d, r)'
  BY <1>4 DEF Listed, Now, Later
<1> QED
  BY <1>3, <1>5 DEF CacheInv

LEMMA AlwaysCacheInv == OrderlySpec => []CacheInv
<1>1. Init => CacheInv
  BY CacheInvInit
<1>2. CacheInv /\ [OrderlyNext]_vars => CacheInv'
  BY CacheInvPreserved
<1> QED
  BY <1>1, <1>2, PTL DEF OrderlySpec

(* What is asked of malloc is only a question when it returns memory that  *)
(* was freed: a node that has never been used is not in the list.          *)
LEMMA FreshSpares ==
  ASSUME Reuse = FALSE, CacheInv
  PROVE  Spares
<1> SUFFICES ASSUME NEW w \in Workers, NEW n \in Nodes, NEW length \in Lengths,
                    Put(w, n, length)
             PROVE  n \notin Range(Chain)
  BY DEF Spares
<1>1. PICK c, s : Now(w, c, s)
  BY DEF CacheInv, Listed
<1>2. /\ Chain = c /\ DOMAIN c = 1 .. Len(c)
      /\ \A i \in 1 .. Len(c) : mem[c[i]].state # "unused"
  BY <1>1, ChainOfLinks, LinksFacts DEF Now, Sound, Links
<1>3. mem[n].state = "unused"
  BY DEF Put, Malloc
<1> QED
  BY <1>2, <1>3 DEF Range

LEMMA OrderlyBehaviour ==
  /\ Spec /\ []Orderly /\ [][Spares]_vars => OrderlySpec
  /\ Reuse = FALSE => (Spec /\ []Orderly => OrderlySpec)
<1>1. Spec /\ []Orderly /\ [][Spares]_vars => OrderlySpec
  <2>1. [Next]_vars /\ Orderly' /\ [Spares]_vars => [OrderlyNext]_vars
    BY DEF OrderlyNext
  <2> QED
    BY <2>1, PTL DEF Spec, OrderlySpec
<1>2. ASSUME Reuse = FALSE PROVE Spec /\ []Orderly => OrderlySpec
  <2>1. Init => CacheInv
    BY CacheInvInit
  <2>2. CacheInv /\ [Next]_vars /\ Orderly' => CacheInv' /\ [OrderlyNext]_vars
    BY <1>2, FreshSpares, CacheInvPreserved DEF OrderlyNext
  <2> QED
    BY <2>1, <2>2, PTL DEF Spec, OrderlySpec
<1> QED
  BY <1>1, <1>2

-----------------------------------------------------------------------------
(* The lock counts the threads that scan, and has a writer while a thread  *)
(* links or unlinks a node.  delete's initialization of the lock does not  *)
(* spoil the count: nobody else holds it then.                             *)
Scanners == {v \in Workers : thread[v].pc = "scan"}

Writers == {v \in Workers : thread[v].pc \in {"unlink", "link"}}

LockCounts ==
  lock = [readers |-> Cardinality(Scanners), writer |-> Writers # {}]

(* Who holds the lock after a step of w.                                   *)
LEMMA HoldersNext ==
  ASSUME NEW w \in Workers, \A v \in Workers \ {w} : thread'[v] = thread[v]
  PROVE  /\ Scanners' = IF thread'[w].pc = "scan" THEN Scanners \cup {w}
                                                  ELSE Scanners \ {w}
         /\ Writers' = IF thread'[w].pc \in {"unlink", "link"}
                       THEN Writers \cup {w} ELSE Writers \ {w}
         /\ w \in Scanners <=> thread[w].pc = "scan"
         /\ w \in Writers <=> thread[w].pc \in {"unlink", "link"}
BY DEF Scanners, Writers

LEMMA HoldersKept ==
  ASSUME NEW w \in Workers, \A v \in Workers \ {w} : thread'[v] = thread[v]
  PROVE  /\ (thread'[w].pc = "scan" <=> thread[w].pc = "scan") => Scanners' = Scanners
         /\ {thread[w].pc, thread'[w].pc} \cap {"unlink", "link"} = {}
              => Writers' = Writers
<1>1. ASSUME thread'[w].pc = "scan" <=> thread[w].pc = "scan"
      PROVE  Scanners' = Scanners
  <2>1. \A v \in Workers : thread'[v].pc = "scan" <=> thread[v].pc = "scan"
    BY <1>1
  <2> QED
    BY <2>1 DEF Scanners
<1>2. ASSUME {thread[w].pc, thread'[w].pc} \cap {"unlink", "link"} = {}
      PROVE  Writers' = Writers
  <2>1. \A v \in Workers : thread'[v].pc \in {"unlink", "link"}
                               <=> thread[v].pc \in {"unlink", "link"}
    BY <1>2
  <2> QED
    BY <2>1 DEF Writers
<1> QED
  BY <1>1, <1>2

LEMMA HoldersCounted ==
  /\ IsFiniteSet(Scanners) /\ Cardinality(Scanners) \in Nat
  /\ Cardinality(Scanners) \in 0 .. Cardinality(Workers)
  /\ Cardinality({}) = 0
<1>1. Scanners \in SUBSET Workers /\ IsFiniteSet(Workers)
  BY ProxyCacheAssumption DEF Scanners
<1>2. IsFiniteSet(Scanners) /\ Cardinality(Scanners) <= Cardinality(Workers)
  BY <1>1, FS_Subset
<1>3. Cardinality(Scanners) \in Nat /\ Cardinality(Workers) \in Nat
  BY <1>1, <1>2, FS_CardinalityType
<1> QED
  BY <1>2, <1>3, FS_EmptySet

(* A thread that changes the list shares the lock with nobody.             *)
LEMMA ChangerHolds ==
  ASSUME Orderly, NEW w \in Workers
  PROVE  /\ Changing(w) => Scanners = {} /\ Writers \subseteq {w}
         /\ thread[w].pc = "scan" => Writers = {}
<1>1. ASSUME Changing(w) PROVE Scanners = {} /\ Writers \subseteq {w}
  BY <1>1 DEF Orderly, Changing, Scanners, Writers
<1>2. ASSUME thread[w].pc = "scan", NEW v \in Writers PROVE FALSE
  BY <1>2 DEF Orderly, Changing, Writers
<1> QED
  BY <1>1, <1>2

LEMMA ReadUnlocks ==
  ASSUME Orderly, LockCounts, NEW w \in Workers,
         \A v \in Workers \ {w} : thread'[v] = thread[v],
         thread[w].pc = "scan", thread'[w].pc \notin {"scan", "unlink", "link"}, Unlock
  PROVE  LockCounts'
<1>1. /\ Scanners' = Scanners \ {w} /\ Writers' = Writers \ {w} /\ w \in Scanners
      /\ Writers = {}
  BY HoldersNext, ChangerHolds
<1>2. /\ Cardinality(Scanners \ {w}) = Cardinality(Scanners) - 1
      /\ Cardinality(Scanners) \in Nat
  <2>1. IsFiniteSet(Scanners) /\ Cardinality(Scanners) \in Nat
    BY HoldersCounted
  <2> HIDE DEF Scanners
  <2> QED
    BY <1>1, <2>1, FS_RemoveElement
<1>3. lock = [readers |-> Cardinality(Scanners), writer |-> FALSE]
  BY <1>1 DEF LockCounts
<1>4. lock' = [readers |-> Cardinality(Scanners) - 1, writer |-> FALSE]
  BY <1>2, <1>3 DEF Unlock
<1>5. (Writers' # {}) = FALSE
  BY <1>1
<1> QED
  BY <1>1, <1>2, <1>4, <1>5 DEF LockCounts

LEMMA WriteUnlocks ==
  ASSUME Orderly, LockCounts, NEW w \in Workers,
         \A v \in Workers \ {w} : thread'[v] = thread[v],
         thread[w].pc \in {"unlink", "link"},
         thread'[w].pc \notin {"scan", "unlink", "link"}, Unlock
  PROVE  LockCounts'
<1>1. /\ Scanners' = Scanners \ {w} /\ Writers' = Writers \ {w}
      /\ Scanners = {} /\ Writers = {w}
  BY HoldersNext, ChangerHolds DEF Changing
<1>2. lock = [readers |-> Cardinality(Scanners), writer |-> TRUE]
  BY <1>1 DEF LockCounts
<1>3. lock' = [readers |-> Cardinality(Scanners), writer |-> FALSE]
  BY <1>2 DEF Unlock
<1>4. (Writers' # {}) = FALSE /\ Scanners' = Scanners
  BY <1>1
<1> QED
  BY <1>3, <1>4 DEF LockCounts

LEMMA LockKeeps ==
  ASSUME Orderly, LockCounts, NEW w \in Workers, thread \in [Workers -> Thread],
         crashed' = FALSE,
         Work(w) \/ \E wanted \in Uris : Request(w, wanted)
  PROVE  LockCounts'
<1> USE DEF Thread
<1>1. \A v \in Workers \ {w} : thread'[v] = thread[v]
  BY OneMoves
<1>2. CASE ReadLock(w)
  <2>1. /\ thread[w].pc = "rdlock" /\ thread'[w].pc = "scan" /\ ~ lock.writer
        /\ lock' = [lock EXCEPT !.readers = lock.readers + 1]
    BY <1>2 DEF ReadLock, At
  <2>2. Scanners' = Scanners \cup {w} /\ Writers' = Writers \ {w} /\ w \notin Scanners
    BY <1>1, <2>1, HoldersNext
  <2>3. Cardinality(Scanners') = Cardinality(Scanners) + 1
    BY <2>2, HoldersCounted, FS_AddElement
  <2>4. Writers = {}
    BY <2>1 DEF LockCounts
  <2>5. lock = [readers |-> Cardinality(Scanners), writer |-> FALSE]
    BY <2>4 DEF LockCounts
  <2>6. lock' = [readers |-> Cardinality(Scanners'), writer |-> FALSE]
    BY <2>1, <2>3, <2>5
  <2>7. (Writers' # {}) = FALSE
    BY <2>2, <2>4
  <2> QED
    BY <2>6, <2>7 DEF LockCounts
<1>3. CASE Found(w) \/ NotFound(w)
  <2>1. /\ thread[w].pc = "scan" /\ Unlock
        /\ thread'[w].pc \notin {"scan", "unlink", "link"}
    <3>1. CASE Found(w)
      BY <3>1 DEF Found, At
    <3>2. CASE NotFound(w)
      BY <3>2 DEF NotFound, Goto, At
    <3> QED
      BY <1>3, <3>1, <3>2
  <2> QED
    BY <1>1, <2>1, ReadUnlocks
<1>4. CASE Unlink(w) \/ Link(w)
  <2>1. /\ thread[w].pc \in {"unlink", "link"} /\ Unlock
        /\ thread'[w].pc \notin {"scan", "unlink", "link"}
    <3>1. CASE Unlink(w)
      <4>1. thread[w].pc = "unlink" /\ Unlock /\ Deleted(w)
        BY <3>1 DEF Unlink, Crash, At
      <4> QED
        BY <4>1 DEF Deleted, Goto
    <3>2. CASE Link(w)
      BY <3>2 DEF Link, Crash, Inserted, Goto, At, Idle
    <3> QED
      BY <1>4, <3>1, <3>2
  <2> QED
    BY <1>1, <2>1, WriteUnlocks
<1>5. CASE DeleteOnly(w)
  <2>1. /\ thread[w].pc = "delete" /\ lock' = Unlocked
        /\ thread'[w].pc \notin {"scan", "unlink", "link"}
    BY <1>5 DEF DeleteOnly, Crash, Deleted, Goto, At
  <2>2. Scanners' = {} /\ Writers' = {}
    BY <1>1, <2>1, HoldersNext, ChangerHolds DEF Changing
  <2>3. (Writers' # {}) = FALSE /\ Cardinality(Scanners') = 0
    BY <2>2, HoldersCounted
  <2> QED
    BY <2>1, <2>3 DEF LockCounts, Unlocked
<1>6. CASE WriteLock(w)
  <2>1. /\ thread[w].pc \in {"lock_delete", "lock_insert"}
        /\ thread'[w].pc \in {"unlink", "link"}
        /\ lock = Unlocked /\ lock' = [lock EXCEPT !.writer = TRUE]
    BY <1>6 DEF WriteLock, Goto, At
  <2>2. Scanners' = Scanners /\ Writers' = Writers \cup {w}
    <3>1. thread[w].pc # "scan" /\ thread'[w].pc # "scan"
      BY <2>1
    <3> QED
      BY <1>1, <2>1, <3>1, HoldersNext, HoldersKept
  <2>3. lock' = [readers |-> 0, writer |-> TRUE]
    BY <2>1 DEF Unlocked
  <2>4. Cardinality(Scanners) = 0
    BY <2>1 DEF LockCounts, Unlocked
  <2>5. (Writers' # {}) = TRUE
    BY <2>2
  <2> QED
    BY <2>2, <2>3, <2>4, <2>5 DEF LockCounts
<1>7. CASE \/ \E wanted \in Uris : Request(w, wanted)
           \/ Scan(w) \/ Reply(w) \/ Store(w) \/ DeleteLocks(w)
  <2>1. /\ lock' = lock
        /\ thread'[w].pc = "scan" <=> thread[w].pc = "scan"
        /\ {thread[w].pc, thread'[w].pc} \cap {"unlink", "link"} = {}
    <3>1. CASE \E wanted \in Uris : Request(w, wanted)
      BY <3>1 DEF Request, At, Idle
    <3>2. CASE Scan(w)
      BY <3>2 DEF Scan, Crash, At
    <3>3. CASE Reply(w) \/ NoStore(w)
      BY <3>3 DEF Reply, NoStore, At, Idle
    <3>4. CASE DeleteLocks(w)
      BY <3>4 DEF DeleteLocks, Goto, At
    <3>5. CASE \E n \in Nodes, length \in Lengths : Put(w, n, length)
      BY <3>5 DEF Put, At
    <3>6. CASE Room(w)
      BY <3>6 DEF Room, At
    <3> QED
      BY <1>7, <3>1, <3>2, <3>3, <3>4, <3>5, <3>6 DEF Store
  <2>2. Scanners' = Scanners /\ Writers' = Writers
    BY <1>1, <2>1, HoldersKept
  <2> QED
    BY <2>1, <2>2 DEF LockCounts
<1> QED
  BY <1>2, <1>3, <1>4, <1>5, <1>6, <1>7 DEF Work, Get, Delete

LEMMA AlwaysLockCounts == OrderlySpec => []LockCounts
<1>1. Init => LockCounts
  <2> SUFFICES ASSUME Init PROVE LockCounts
    OBVIOUS
  <2>1. Scanners = {} /\ Writers = {} /\ lock = [readers |-> 0, writer |-> FALSE]
    BY DEF Init, Scanners, Writers, Idle, Unlocked
  <2>2. (Writers # {}) = FALSE
    BY <2>1
  <2> QED
    BY <2>1, <2>2, HoldersCounted DEF LockCounts
<1>2. CacheInv /\ CacheInv' /\ LockCounts /\ [OrderlyNext]_vars => LockCounts'
  <2> SUFFICES ASSUME CacheInv, CacheInv', LockCounts, [OrderlyNext]_vars
               PROVE  LockCounts'
    OBVIOUS
  <2>1. CASE OrderlyNext
    <3>1. PICK w \in Workers : Work(w) \/ \E wanted \in Uris : Request(w, wanted)
      BY <2>1 DEF OrderlyNext, Next
    <3>2. Orderly /\ thread \in [Workers -> Thread]
      BY DEF CacheInv, Listed, Now
    <3>3. crashed' = FALSE
      BY DEF CacheInv, Listed, Now
    <3> QED
      BY <3>1, <3>2, <3>3, LockKeeps
  <2>2. CASE UNCHANGED vars
    BY <2>2 DEF LockCounts, Scanners, Writers, vars
  <2> QED
    BY <2>1, <2>2
<1> QED
  BY <1>1, <1>2, AlwaysCacheInv, PTL DEF OrderlySpec

-----------------------------------------------------------------------------
(* Any number of threads, with a malloc that reuses what has been freed:   *)
(* as long as a thread has the list for itself from the hit or the store   *)
(* it changes it for, no two fetch the same object, and no node of the     *)
(* list is handed out again, every pointer, register and counter has its   *)
(* type, and the lock counts no more readers than there are threads.       *)
THEOREM OrderlyTyped == OrderlySpec => []TypeOK
<1>1. CacheInv /\ LockCounts => TypeOK
  <2> SUFFICES ASSUME CacheInv, LockCounts PROVE TypeOK
    OBVIOUS
  <2>1. PICK c, s : Listed(c, s)
    BY DEF CacheInv
  <2>2. PICK w \in Workers : Now(w, c, s)
    BY <2>1, ProxyCacheAssumption DEF Listed
  <2>3. /\ Links(mem, head, tail, c) /\ \A i \in 1 .. Len(c) : c[i] \in Nodes
        /\ Len(c) \in Nat
    BY <2>2, LinksFacts DEF Now, Sound
  <2>4. {head, tail} \subseteq Pointer
    BY <2>3 DEF Links, Pointer
  <2>5. free_cache_size \in Int /\ mem \in Memory
    BY <2>2 DEF Now, Sound, Space
  <2>6. lock \in [readers : 0 .. Cardinality(Workers), writer : BOOLEAN]
    <3> DEFINE b == Writers # {}
               n == Cardinality(Scanners)
    <3>1. lock = [readers |-> n, writer |-> b] /\ n \in 0 .. Cardinality(Workers)
      BY HoldersCounted DEF LockCounts
    <3>2. b \in BOOLEAN
      OBVIOUS
    <3> HIDE DEF b, n
    <3> QED
      BY <3>1, <3>2
  <2> QED
    BY <2>2, <2>4, <2>5, <2>6 DEF TypeOK, Now, Memory, Node, Thread
<1> QED
  BY <1>1, AlwaysCacheInv, AlwaysLockCounts, PTL

(* Under the same conditions cache.c's list is a doubly linked list        *)
(* between any two steps of its functions, and lists no URI twice.         *)
THEOREM OrderlyList == OrderlySpec => []ListSound
<1>1. CacheInv => ListSound
  <2> SUFFICES ASSUME CacheInv PROVE ListSound
    OBVIOUS
  <2>1. PICK c, s : \E w \in Workers : Now(w, c, s)
    BY ProxyCacheAssumption DEF CacheInv, Listed
  <2>2. /\ Links(mem, head, tail, c) /\ Len(c) \in Nat /\ c \in Seq(Nodes)
    BY <2>1, LinksFacts DEF Now, Sound
  <2>3. Walk[MaxNodes] = NULL /\ Chain = c
    BY <2>2, ChainOfLinks
  <2>4. tail = IF c = <<>> THEN NULL ELSE Last(c)
    <3>1. c = <<>> <=> Len(c) = 0
      BY <2>2
    <3> QED
      BY <2>2, <3>1 DEF Links, Last
  <2>5. DOMAIN c = 1 .. Len(c)
    BY <2>2
  <2>6. /\ \A i \in 1 .. Len(c) : mem[c[i]].prev = IF i = 1 THEN NULL ELSE c[i - 1]
        /\ \A i, j \in 1 .. Len(c) : mem[c[i]].uri = mem[c[j]].uri => i = j
    BY <2>2 DEF Links
  <2>7. /\ \A i \in DOMAIN Chain :
             mem[Chain[i]].prev = IF i = 1 THEN NULL ELSE Chain[i - 1]
        /\ \A i, j \in DOMAIN Chain : mem[Chain[i]].uri = mem[Chain[j]].uri => i = j
    BY <2>3, <2>5, <2>6
  <2> QED
    BY <2>3, <2>4, <2>7 DEF ListSound
<1> QED
  BY <1>1, AlwaysCacheInv, PTL

(* And free_cache_size is never negative, and is what the listed objects   *)
(* leave of the capacity.                                                  *)
THEOREM OrderlySpace == OrderlySpec => []SpaceAccounted
<1>1. CacheInv => SpaceAccounted
  <2> SUFFICES ASSUME CacheInv PROVE SpaceAccounted
    OBVIOUS
  <2>1. PICK c, s : \E w \in Workers : Now(w, c, s)
    BY ProxyCacheAssumption DEF CacheInv, Listed
  <2>2. Stored = s[Len(c)]
    BY <2>1, StoredOfSums DEF Now, Sound
  <2> QED
    BY <2>1, <2>2 DEF SpaceAccounted, Now, Sound, Space
<1> QED
  BY <1>1, AlwaysCacheInv, PTL

(* And send_request answers a hit with the object of the URI asked for,    *)
(* although it reads the node after the lock has been given up.            *)
THEOREM OrderlyAnswers == OrderlySpec => []RightObject
<1>1. CacheInv => RightObject
  BY DEF CacheInv, Listed, RightObject, Now, Sound, AtStep, Answering
<1> QED
  BY <1>1, AlwaysCacheInv, PTL

-----------------------------------------------------------------------------
(* The refinement of ObjectCache.  What the abstract cache sees of a list. *)
Object(m, n) == [uri |-> m[n].uri, length |-> m[n].length]

View(m, c) == [i \in DOMAIN c |-> Object(m, c[i])]

Shown(t, c) == IF t.hit /\ t.pc \in Inserting THEN <<t.node>> \o c ELSE c

ObjectType == [uri : Uris \cup {NoUri}, length : Nat]

LEMMA ViewFacts ==
  ASSUME NEW m \in Memory, NEW c \in Seq(Nodes)
  PROVE  /\ View(m, c) \in Seq(ObjectType)
         /\ Len(View(m, c)) = Len(c)
         /\ DOMAIN View(m, c) = 1 .. Len(c)
         /\ \A i \in 1 .. Len(c) : View(m, c)[i] = Object(m, c[i])
<1> DEFINE o(i) == Object(m, c[i])
<1>1. DOMAIN c = 1 .. Len(c) /\ Len(c) \in Nat /\ \A i \in 1 .. Len(c) : c[i] \in Nodes
  OBVIOUS
<1>2. \A n \in Nodes : Object(m, n) \in ObjectType
  BY DEF Object, ObjectType, Memory, Node
<1>3. \A i \in 1 .. Len(c) : o(i) \in ObjectType
  BY <1>1, <1>2
<1>4. View(m, c) = [i \in 1 .. Len(c) |-> o(i)]
  BY <1>1 DEF View
<1> HIDE DEF o
<1>5. /\ [i \in 1 .. Len(c) |-> o(i)] \in Seq(ObjectType)
      /\ Len([i \in 1 .. Len(c) |-> o(i)]) = Len(c)
  BY <1>1, <1>3
<1>6. \A i \in 1 .. Len(c) : View(m, c)[i] = o(i)
  BY <1>4
<1> QED
  BY <1>4, <1>5, <1>6 DEF o

LEMMA ViewKept ==
  ASSUME NEW m, NEW f, NEW c \in Seq(Nodes),
         \A i \in 1 .. Len(c) : /\ f[c[i]].uri = m[c[i]].uri
                                /\ f[c[i]].length = m[c[i]].length
  PROVE  View(f, c) = View(m, c)
<1>1. DOMAIN c = 1 .. Len(c)
  OBVIOUS
<1>2. \A i \in DOMAIN c : Object(f, c[i]) = Object(m, c[i])
  BY <1>1 DEF Object
<1> QED
  BY <1>2 DEF View

LEMMA ViewFields ==
  ASSUME NEW m \in Memory, NEW c \in Seq(Nodes), NEW q, q = View(m, c),
         NEW i \in 1 .. Len(c)
  PROVE  q[i].uri = m[c[i]].uri /\ q[i].length = m[c[i]].length
<1>1. q[i] = Object(m, c[i])
  BY ViewFacts
<1> QED
  BY <1>1 DEF Object

LEMMA ViewWithout ==
  ASSUME NEW m \in Memory, NEW c \in Seq(Nodes), NEW k \in 1 .. Len(c)
  PROVE  /\ RemoveAt(c, k) \in Seq(Nodes)
         /\ View(m, RemoveAt(c, k)) = RemoveAt(View(m, c), k)
         /\ k = Len(c) => RemoveAt(View(m, c), k) = Front(View(m, c))
<1> DEFINE L == Len(c)
           d == RemoveAt(c, k)
           q == View(m, c)
           p == View(m, d)
           r == RemoveAt(q, k)
<1>1. k \in DOMAIN c /\ L \in Nat
  OBVIOUS
<1>2. /\ d \in Seq(Nodes) /\ Len(d) = L - 1
      /\ \A i \in 1 .. L - 1 : d[i] = IF i < k THEN c[i] ELSE c[i + 1]
  BY <1>1, WithoutNode
<1>3. /\ q \in Seq(ObjectType) /\ Len(q) = L /\ DOMAIN q = 1 .. L
      /\ \A i \in 1 .. L : q[i] = Object(m, c[i])
  BY ViewFacts
<1> HIDE DEF d, q
<1>4. /\ p \in Seq(ObjectType) /\ Len(p) = L - 1
      /\ \A i \in 1 .. L - 1 : p[i] = Object(m, d[i])
  BY <1>2, ViewFacts
<1>5. /\ r \in Seq(ObjectType) /\ Len(r) = L - 1
      /\ \A i \in 1 .. L - 1 : r[i] = IF i < k THEN q[i] ELSE q[i + 1]
  <2>1. k \in DOMAIN q
    BY <1>3
  <2> QED
    BY <1>3, <2>1, WithoutNode
<1> HIDE DEF p, r
<1>6. ASSUME NEW i \in 1 .. L - 1 PROVE p[i] = r[i]
  <2>1. i \in 1 .. L /\ i + 1 \in 1 .. L
    BY <1>1
  <2>2. p[i] = Object(m, d[i]) /\ d[i] = (IF i < k THEN c[i] ELSE c[i + 1])
    BY <1>2, <1>4
  <2>3. r[i] = IF i < k THEN q[i] ELSE q[i + 1]
    BY <1>5
  <2>4. q[i] = Object(m, c[i]) /\ q[i + 1] = Object(m, c[i + 1])
    BY <1>3, <2>1
  <2> QED
    BY <2>2, <2>3, <2>4
<1>7. p = r
  BY <1>4, <1>5, <1>6, SameSeq
<1>8. ASSUME k = L PROVE r = Front(q)
  <2>1. /\ Front(q) \in Seq(ObjectType) /\ Len(Front(q)) = L - 1
        /\ \A i \in 1 .. L - 1 : Front(q)[i] = q[i]
    BY <1>1, <1>3, <1>8 DEF Front
  <2>2. \A i \in 1 .. L - 1 : r[i] = q[i]
    BY <1>1, <1>5, <1>8
  <2> QED
    BY <1>5, <2>1, <2>2, SameSeq
<1> QED
  BY <1>2, <1>7, <1>8 DEF d, p, q, r

LEMMA ViewWith ==
  ASSUME NEW m \in Memory, NEW c \in Seq(Nodes), NEW n \in Nodes
  PROVE  /\ <<n>> \o c \in Seq(Nodes)
         /\ View(m, <<n>> \o c) = <<Object(m, n)>> \o View(m, c)
<1> DEFINE L == Len(c)
           d == <<n>> \o c
           o == Object(m, n)
           q == View(m, c)
           p == View(m, d)
           r == <<o>> \o q
<1>1. /\ d \in Seq(Nodes) /\ Len(d) = L + 1 /\ d[1] = n /\ L \in Nat
      /\ \A i \in 2 .. L + 1 : d[i] = c[i - 1]
  BY Prepended
<1> HIDE DEF d
<1>2. o \in ObjectType
  BY DEF Object, ObjectType, Memory, Node
<1>3. /\ q \in Seq(ObjectType) /\ Len(q) = L
      /\ \A i \in 1 .. L : q[i] = Object(m, c[i])
  BY ViewFacts
<1>4. /\ p \in Seq(ObjectType) /\ Len(p) = L + 1
      /\ \A i \in 1 .. L + 1 : p[i] = Object(m, d[i])
  BY <1>1, ViewFacts
<1> HIDE DEF q, p
<1>5. /\ r \in Seq(ObjectType) /\ Len(r) = L + 1 /\ r[1] = o
      /\ \A i \in 2 .. L + 1 : r[i] = q[i - 1]
  <2> HIDE DEF o
  <2> QED
    BY <1>2, <1>3, Prepended
<1> HIDE DEF r
<1>6. ASSUME NEW i \in 1 .. L + 1 PROVE p[i] = r[i]
  <2>1. CASE i = 1
    BY <1>1, <1>4, <1>5, <2>1
  <2>2. CASE i # 1
    <3>1. i \in 2 .. L + 1 /\ i - 1 \in 1 .. L
      BY <1>1, <2>2
    <3>2. p[i] = Object(m, d[i]) /\ d[i] = c[i - 1] /\ r[i] = q[i - 1]
      BY <1>1, <1>4, <1>5, <3>1
    <3>3. q[i - 1] = Object(m, c[i - 1])
      BY <1>3, <3>1
    <3> QED
      BY <3>2, <3>3
  <2> QED
    BY <2>1, <2>2
<1>7. p = r
  BY <1>4, <1>5, <1>6, SameSeq
<1> QED
  BY <1>1, <1>7 DEF d, p, r, q, o

(* The abstract cache is the list, with the node that a hit has in its     *)
(* thread's hands in front, as long as everybody else is away from it.     *)
Shows ==
  \A w \in Workers : \A c, s : Now(w, c, s) =>
    /\ Orderly /\ Changing(w) => Objects = View(mem, Shown(thread[w], c))
    /\ (\A v \in Workers : ~ InHands(v)) => Objects = View(mem, c)

LEMMA AlwaysShows == Shows
<1> SUFFICES ASSUME NEW w \in Workers, NEW c, NEW s, Now(w, c, s)
             PROVE  /\ Orderly /\ Changing(w) => Objects = View(mem, Shown(thread[w], c))
                    /\ (\A v \in Workers : ~ InHands(v)) => Objects = View(mem, c)
  BY DEF Shows
<1> DEFINE t == thread[w]
           held == {v \in Workers : InHands(v)}
           nodes == {<<thread[v].node>> \o Chain : v \in held}
           shown == IF held = {} THEN Chain ELSE CHOOSE x \in nodes : TRUE
<1>1. Chain = c
  BY ChainOfLinks DEF Now, Sound
<1>2. Objects = View(mem, shown)
  BY DEF Objects, View, Object
<1>3. ASSUME \A v \in Workers : ~ InHands(v) PROVE shown = c
  <2>1. held = {}
    BY <1>3
  <2> QED
    BY <1>1, <2>1
<1>4. ASSUME Orderly, Changing(w) PROVE shown = Shown(t, c)
  <2>1. \A v \in Workers : v # w => ~ InHands(v)
    BY <1>4 DEF Orderly, InHands
  <2>2. InHands(w) <=> t.hit /\ t.pc \in Inserting
    BY DEF InHands, Inserting
  <2>3. CASE InHands(w)
    <3>1. held = {w} /\ nodes = {<<t.node>> \o c}
      BY <1>1, <2>1, <2>3
    <3>2. shown = <<t.node>> \o c
      BY <3>1
    <3> QED
      BY <2>2, <2>3, <3>2 DEF Shown
  <2>4. CASE ~ InHands(w)
    <3>1. shown = c
      BY <1>3, <2>1, <2>4
    <3> QED
      BY <2>2, <2>4, <3>1 DEF Shown
  <2> QED
    BY <2>3, <2>4
<1> HIDE DEF shown
<1> QED
  BY <1>2, <1>3, <1>4

LEMMA ShownNext ==
  ASSUME NEW w \in Workers, Shows', NEW d, NEW r, Later(w, d, r)
  PROVE  /\ Orderly' /\ Changing(w)' => Objects' = View(mem', Shown(thread'[w], d))
         /\ (\A v \in Workers : ~ InHands(v)') => Objects' = View(mem', d)
<1>1. Now(w, d, r)'
  BY DEF Now, Later
<1> QED
  BY <1>1 DEF Shows

(* Steps at which no list, no node and nobody's hands change are seen in   *)
(* nothing but what the thread has asked for.                              *)
LEMMA NotSeen ==
  ASSUME NEW w \in Workers, \A v \in Workers \ {w} : thread'[v] = thread[v],
         UNCHANGED <<head, mem>>,
         InHands(w)' <=> InHands(w),
         InHands(w) => thread'[w].node = thread[w].node
  PROVE  Objects' = Objects
<1> DEFINE held == {v \in Workers : InHands(v)}
           nodes == {<<thread[v].node>> \o Chain : v \in held}
           shown == IF held = {} THEN Chain ELSE CHOOSE x \in nodes : TRUE
<1>1. \A v \in Workers : /\ InHands(v)' <=> InHands(v)
                         /\ InHands(v) => thread'[v].node = thread[v].node
  BY DEF InHands
<1>2. held' = held
  BY <1>1
<1>3. Chain' = Chain
  BY DEF Chain, Walk
<1>4. nodes' = nodes
  BY <1>1, <1>2, <1>3
<1>5. shown' = shown
  BY <1>2, <1>3, <1>4
<1>6. Objects = View(mem, shown)
  BY DEF Objects, View, Object
<1>7. Objects' = View(mem', shown')
  BY DEF Objects, View, Object
<1> QED
  BY <1>5, <1>6, <1>7

LEMMA AskedNext ==
  ASSUME NEW w \in Workers, \A v \in Workers \ {w} : thread'[v] = thread[v]
  PROVE  /\ Asked' = [Asked EXCEPT ![w] = thread'[w].uri]
         /\ Asked[w] = thread[w].uri
         /\ thread'[w].uri = thread[w].uri => Asked' = Asked
BY DEF Asked

(* Locks, scans, tests and jumps, and a delete that finds the list empty   *)
(* and only initializes the cache.                                         *)
LEMMA ThreadUnseen ==
  ASSUME NEW w \in Workers, NEW c, NEW s, Now(w, c, s), Later(w, c, s),
         \/ ReadLock(w) \/ Scan(w) \/ Found(w) \/ NotFound(w)
         \/ Room(w) \/ DeleteLocks(w) \/ WriteLock(w)
         \/ DeleteOnly(w) /\ Len(c) = 0
  PROVE  UNCHANGED <<Objects, Asked>>
<1> DEFINE t == thread[w]
           u == thread'[w]
<1>1. t \in Thread /\ thread \in [Workers -> Thread] /\ Registers(t)
  BY DEF Now, Sound, AtStep, Registers
<1>2. crashed' = FALSE
  BY DEF Later
<1>3. Work(w)
  BY DEF Work, Get, Store, Delete
<1>4. \A v \in Workers \ {w} : thread'[v] = thread[v]
  BY <1>1, <1>3, OneMoves
<1>5. /\ UNCHANGED <<head, mem>> /\ u.uri = t.uri
      /\ InHands(w)' <=> InHands(w)
      /\ InHands(w) => u.node = t.node
  <2>1. CASE ReadLock(w)
    BY <1>1, <2>1 DEF ReadLock, At, InHands, Thread, listVars
  <2>2. CASE Scan(w)
    BY <1>1, <1>2, <2>2 DEF Scan, Crash, At, InHands, Thread, listVars
  <2>3. CASE Found(w)
    BY <1>1, <2>3 DEF Found, At, InHands, Thread, listVars
  <2>4. CASE NotFound(w)
    BY <1>1, <2>4 DEF NotFound, Goto, At, InHands, Thread, listVars
  <2>5. CASE Room(w)
    BY <1>1, <2>5 DEF Room, At, InHands, Inserting, Deleting, Thread, Registers, listVars
  <2>6. CASE DeleteLocks(w)
    BY <1>1, <2>6 DEF DeleteLocks, Goto, At, InHands, Thread, listVars
  <2>7. CASE WriteLock(w)
    BY <1>1, <2>7 DEF WriteLock, Goto, At, InHands, Thread, listVars
  <2>8. CASE DeleteOnly(w) /\ Len(c) = 0
    <3>1. t.victim = NULL /\ NULL # Junk
      BY <2>8, DeleteOnlyKeeps DEF NULL, Junk
    <3>2. head = NULL
      BY <2>8, <3>1 DEF DeleteOnly
    <3>3. ~ t.hit /\ t.pc = "delete"
      <4>1. t.pc = "delete" /\ Holding(t, mem, c)
        BY <2>8 DEF DeleteOnly, At, Now, Sound, AtStep
      <4> QED
        BY <2>8, <4>1 DEF Holding, Deleting, InList
    <3>4. head' = NULL /\ mem' = mem /\ Goto(w, "room")
      BY <2>8, <3>1, <3>3 DEF DeleteOnly, Deleted
    <3> QED
      BY <1>1, <3>2, <3>3, <3>4 DEF Goto, InHands, Thread
  <2> QED
    BY <2>1, <2>2, <2>3, <2>4, <2>5, <2>6, <2>7, <2>8
<1> QED
  BY <1>4, <1>5, NotSeen, AskedNext

LEMMA PutUnseen ==
  ASSUME NEW w \in Workers, Shows, Shows', Orderly', Spares,
         NEW c, NEW s, Listed(c, s),
         NEW n \in Nodes, NEW length \in Lengths, Put(w, n, length)
  PROVE  UNCHANGED <<Objects, Asked>>
<1>1. Now(w, c, s) /\ Later(w, c, s)
  BY PutBesideOthers DEF Listed
<1>2. /\ thread \in [Workers -> Thread]
      /\ mem \in Memory /\ c \in Seq(Nodes) /\ \A i \in 1 .. Len(c) : c[i] \in Nodes
  BY <1>1, LinksFacts DEF Now, Sound
<1>3. /\ \A i \in 1 .. Len(c) : c[i] # n
      /\ \A i \in Nodes : i # n => mem'[i] = mem[i]
  BY <1>1, PutBeside
<1>4. View(mem', c) = View(mem, c)
  BY <1>2, <1>3, ViewKept
<1>5. /\ thread[w].pc = "fetch" /\ thread'[w].pc = "room"
      /\ thread'[w].uri = thread[w].uri
  BY <1>2 DEF Put, At, Thread
<1>6. Work(w)
  BY DEF Work, Store
<1>7. \A v \in Workers \ {w} : thread'[v] = thread[v]
  BY <1>2, <1>6, OneMoves
<1>8. \A v \in Workers : ~ InHands(v) /\ ~ InHands(v)'
  <2>1. Changing(w)'
    BY <1>5 DEF Changing
  <2>2. \A v \in Workers : v # w => thread'[v].pc \in {"idle", "rdlock", "fetch"}
    BY <2>1 DEF Orderly
  <2> QED
    BY <1>5, <1>7, <2>2 DEF InHands
<1>9. Objects = View(mem, c) /\ Objects' = View(mem', c)
  BY <1>1, <1>8, ShownNext DEF Shows
<1> QED
  BY <1>4, <1>5, <1>7, <1>9, AskedNext

(* What the abstract cache finds in use is what the list's objects take.   *)
LEMMA UsedIsStored ==
  ASSUME NEW w \in Workers, NEW c, NEW s, Now(w, c, s), Objects = View(mem, c)
  PROVE  LRU!Used = s[Len(c)]
<1> DEFINE n == Len(Objects)
           step(f) == [k \in 0 .. n |->
                         IF k = 0 THEN 0 ELSE f[k - 1] + Objects[k].length]
           sum == CHOOSE f : f = step(f)
<1>1. LRU!Used = sum[n]
  BY DEF LRU!Used
<1>2. /\ n = Len(c) /\ n \in Nat
      /\ \A k \in 1 .. n : Objects[k].length = mem[c[k]].length
  <2>1. mem \in Memory /\ c \in Seq(Nodes) /\ Len(c) \in Nat
    BY LinksFacts DEF Now, Sound
  <2>2. n = Len(c)
    BY <2>1, ViewFacts
  <2> HIDE DEF n
  <2> QED
    BY <2>1, <2>2, ViewFields
<1>3. /\ s = [k \in 0 .. n |-> s[k]] /\ DOMAIN s = 0 .. n /\ s[0] = 0
      /\ \A k \in 1 .. n : s[k] = s[k - 1] + mem[c[k]].length
  BY <1>2 DEF Sums, Now, Sound
<1> HIDE DEF n
<1>4. s = step(s)
  <2> DEFINE r == step(s)
  <2>1. DOMAIN r = 0 .. n /\ r = [k \in 0 .. n |-> r[k]]
    OBVIOUS
  <2>2. ASSUME NEW k \in 0 .. n PROVE r[k] = s[k]
    <3>1. k = 0 \/ k \in 1 .. n
      BY <1>2
    <3> QED
      BY <1>2, <1>3, <3>1
  <2> HIDE DEF r
  <2>3. s = r
    BY <1>3, <2>1, <2>2
  <2> QED
    BY <2>3 DEF r
<1>5. sum = step(sum)
  <2> HIDE DEF step
  <2> QED
    BY <1>4
<1> HIDE DEF sum
<1>6. /\ DOMAIN sum = 0 .. n /\ sum = [k \in 0 .. n |-> sum[k]]
      /\ sum[0] = 0
      /\ \A k \in 1 .. n : sum[k] = sum[k - 1] + Objects[k].length
  BY <1>2, <1>5
<1> HIDE DEF step
<1>7. sum = s
  <2> DEFINE x(k) == Objects[k].length
             y(k) == mem[c[k]].length
  <2>1. \A k \in 1 .. n : sum[k - 1] = s[k - 1] => sum[k] = s[k]
    <3>1. \A k \in 1 .. n : /\ x(k) = y(k) /\ sum[k] = sum[k - 1] + x(k)
                            /\ s[k] = s[k - 1] + y(k)
      BY <1>2, <1>3, <1>6
    <3> HIDE DEF x, y
    <3> QED
      BY <3>1
  <2>2. n \in Nat /\ sum[0] = s[0]
    BY <1>2, <1>3, <1>6
  <2>3. /\ s = [k \in 0 .. n |-> s[k]] /\ DOMAIN s = 0 .. n
        /\ sum = [k \in 0 .. n |-> sum[k]] /\ DOMAIN sum = 0 .. n
    BY <1>3, <1>6
  <2> QED
    BY <2>1, <2>2, <2>3, SameWalk
<1> QED
  BY <1>1, <1>2, <1>7

(* Once the cache is initialized, the listed objects and the free space    *)
(* make up its size; before, it holds only objects without a byte.         *)
LEMMA SpaceOfList ==
  ASSUME NEW w \in Workers, NEW c, NEW s, Now(w, c, s)
  PROVE  /\ free_cache_size \in Nat /\ s[Len(c)] \in Nat /\ MAX_CACHE_SIZE \in Nat
         /\ free_cache_size + s[Len(c)] <= MAX_CACHE_SIZE
         /\ s[Len(c)] # 0 => free_cache_size + s[Len(c)] = MAX_CACHE_SIZE
<1>1. /\ mem \in Memory /\ Sums(mem, c, s)
      /\ c \in Seq(Nodes) /\ Len(c) \in Nat
      /\ Space(free_cache_size, s[Len(c)])
  BY LinksFacts DEF Now, Sound
<1>2. /\ Len(c) \in 0 .. Len(c) /\ free_cache_size \in Nat /\ MAX_CACHE_SIZE \in Nat
      /\ s[Len(c)] \in Nat
  BY <1>1, SumsGrow, ProxyCacheAssumption DEF Space
<1>3. free_cache_size + s[Len(c)] \in {MAX_CACHE_SIZE, 0}
  BY <1>1 DEF Space
<1> QED
  BY <1>2, <1>3

LEMMA RequestAsks ==
  ASSUME NEW w \in Workers, NEW c, NEW s, Now(w, c, s),
         NEW wanted \in Uris, Request(w, wanted)
  PROVE  LRU!Ask(w, wanted)
<1>1. thread \in [Workers -> Thread] /\ Registers(thread[w])
  BY DEF Now, Sound, AtStep
<1>2. /\ thread[w] = Idle /\ UNCHANGED <<head, mem>>
      /\ thread'[w] = [Idle EXCEPT !.pc = "rdlock", !.uri = wanted]
  BY <1>1 DEF Request, At, Registers, listVars
<1>3. \A v \in Workers \ {w} : thread'[v] = thread[v]
  BY <1>1, OneMoves
<1>4. /\ thread[w].uri = NoUri /\ thread'[w].uri = wanted
      /\ ~ InHands(w) /\ ~ InHands(w)'
  BY <1>2 DEF Idle, InHands
<1>5. Objects' = Objects
  BY <1>2, <1>3, <1>4, NotSeen
<1>6. Asked[w] = NoUri /\ Asked' = [Asked EXCEPT ![w] = wanted]
  BY <1>3, <1>4, AskedNext
<1> QED
  BY <1>5, <1>6 DEF LRU!Ask, LRU!Asks

(* A request ends; nobody but the thread itself sees it.                   *)
LEMMA EndAsksNothing ==
  ASSUME NEW w \in Workers, NEW c, NEW s, Now(w, c, s), NoStore(w) \/ Reply(w)
  PROVE  LRU!Asks(w, NoUri) /\ Objects' = Objects
<1>1. thread \in [Workers -> Thread]
  BY DEF Now
<1>2. /\ thread[w].pc \in {"fetch", "reply"} /\ thread'[w] = Idle
      /\ UNCHANGED <<head, mem>>
  BY <1>1 DEF NoStore, Reply, At, listVars
<1>3. Work(w)
  BY DEF Work, Get, Store
<1>4. \A v \in Workers \ {w} : thread'[v] = thread[v]
  BY <1>1, <1>3, OneMoves
<1>5. ~ InHands(w) /\ ~ InHands(w)' /\ Idle.uri = NoUri
  BY <1>2 DEF Idle, InHands
<1> QED
  BY <1>2, <1>4, <1>5, NotSeen, AskedNext DEF LRU!Asks

LEMMA ReplyAnswers ==
  ASSUME NEW w \in Workers, Shows, Orderly, NEW c, NEW s, Now(w, c, s), Reply(w)
  PROVE  LRU!Answer(w)
<1> DEFINE t == thread[w]
<1>1. /\ mem \in Memory
      /\ Links(mem, head, tail, c) /\ c \in Seq(Nodes) /\ Len(c) \in Nat
      /\ AtStep(t, mem, head, tail, free_cache_size, c)
  BY LinksFacts DEF Now, Sound
<1>2. t.pc = "reply"
  BY DEF Reply, At
<1>3. Len(c) # 0 /\ t.node = c[1] /\ mem[t.node].uri = t.uri
  BY <1>1, <1>2 DEF AtStep, Answering, Links
<1>4. Objects = View(mem, c)
  <2>1. Changing(w) /\ Shown(t, c) = c
    BY <1>2 DEF Changing, Shown, Inserting
  <2> QED
    BY <2>1 DEF Shows
<1>5. Len(Objects) # 0 /\ Objects[1].uri = t.uri
  <2>1. 1 \in 1 .. Len(c)
    BY <1>1, <1>3
  <2>2. Objects[1].uri = mem[c[1]].uri
    BY <1>1, <1>4, <2>1, ViewFields
  <2>3. Len(Objects) = Len(c)
    BY <1>1, <1>4, ViewFacts
  <2> QED
    BY <1>3, <2>2, <2>3
<1>6. Objects # <<>> /\ Asked[w] = t.uri
  BY <1>5 DEF Asked
<1> QED
  BY <1>5, <1>6, EndAsksNothing DEF LRU!Answer

LEMMA NotHeld ==
  ASSUME NEW m \in Memory, NEW c \in Seq(Nodes), NEW u, ~ Lists(m, c, u),
         Objects = View(m, c)
  PROVE  ~ LRU!Has(u)
<1>1. /\ DOMAIN Objects = 1 .. Len(c)
      /\ \A i \in 1 .. Len(c) : Objects[i] = Object(m, c[i])
  BY ViewFacts
<1> QED
  BY <1>1 DEF LRU!Has, Lists, Object

(* No object of the list, or in the hands of another thread, has the URI   *)
(* of a request that goes to the server.                                   *)
LEMMA FetchedIsNotHeld ==
  ASSUME NEW w \in Workers, Shows, Orderly, NEW c, NEW s, Listed(c, s),
         thread[w].pc = "fetch"
  PROVE  ~ LRU!Has(Asked[w])
<1>1. /\ Now(w, c, s) /\ mem \in Memory /\ c \in Seq(Nodes) /\ Len(c) \in Nat
      /\ ~ Lists(mem, c, thread[w].uri) /\ Asked[w] = thread[w].uri
  BY LinksFacts DEF Listed, Now, Sound, AtStep, Missing, Asked
<1>2. CASE \A v \in Workers : ~ InHands(v)
  <2>1. Objects = View(mem, c)
    BY <1>1, <1>2 DEF Shows
  <2> QED
    BY <1>1, <2>1, NotHeld
<1>3. CASE \E v \in Workers : InHands(v)
  <2>1. PICK v \in Workers : InHands(v)
    BY <1>3
  <2> DEFINE n == thread[v].node
             d == <<n>> \o c
  <2>2. /\ Changing(v) /\ Beyond(v) /\ v # w /\ Shown(thread[v], c) = d
        /\ thread[v].pc \in Inserting
    BY <2>1 DEF InHands, Changing, Beyond, Shown, Inserting
  <2>3. Objects = View(mem, d)
    BY <2>2 DEF Shows, Listed
  <2>4. n \in Nodes /\ mem[n].uri = thread[v].uri
    <3>1. Holding(thread[v], mem, c)
      BY DEF Listed, Now, Sound, AtStep
    <3> QED
      BY <2>2, <3>1 DEF Holding
  <2>5. mem[n].uri # thread[w].uri
    BY <2>2, <2>4 DEF Orderly, Beyond
  <2>6. /\ d \in Seq(Nodes) /\ Len(d) = Len(c) + 1 /\ d[1] = n
        /\ \A i \in 2 .. Len(c) + 1 : d[i] = c[i - 1]
    <3> HIDE DEF n
    <3> QED
      BY <1>1, <2>4, Prepended
  <2> HIDE DEF d, n
  <2>7. ASSUME NEW i \in 1 .. Len(d) PROVE mem[d[i]].uri # thread[w].uri
    <3>1. CASE i = 1
      BY <2>5, <2>6, <3>1
    <3>2. CASE i # 1
      <4>1. i \in 2 .. Len(c) + 1 /\ i - 1 \in 1 .. Len(c)
        BY <1>1, <2>6, <3>2
      <4> QED
        BY <1>1, <2>6, <4>1 DEF Lists
    <3> QED
      BY <3>1, <3>2
  <2> QED
    BY <1>1, <2>3, <2>6, <2>7, NotHeld DEF Lists
<1> QED
  BY <1>2, <1>3

LEMMA NoStoreEnds ==
  ASSUME NEW w \in Workers, Shows, Orderly, NEW c, NEW s, Listed(c, s), NoStore(w)
  PROVE  LRU!NotStored(w)
<1>1. thread[w].pc = "fetch" /\ Now(w, c, s)
  BY DEF NoStore, At, Listed
<1> QED
  BY <1>1, EndAsksNothing, FetchedIsNotHeld DEF LRU!NotStored

(* A delete brings the object found to the front of the abstract cache, or *)
(* evicts its last one, for which there was no room, or any of the empty   *)
(* ones a cache holds that has not been initialized.                       *)
LEMMA TakenRefines ==
  ASSUME NEW w \in Workers, Shows, Shows', Orderly, Orderly', Work(w),
         NEW c, NEW s, Now(w, c, s), NEW k, Taken(w, c, k),
         NEW r, Later(w, RemoveAt(c, k), r)
  PROVE  LRU!CacheNext
<1> DEFINE t == thread[w]
           u == thread'[w]
           d == RemoveAt(c, k)
           n == t.node
<1>1. /\ mem \in Memory /\ c \in Seq(Nodes) /\ Len(c) \in Nat /\ Filled(mem)
      /\ \A i \in 1 .. Len(c) : c[i] \in Nodes
      /\ \A i, j \in 1 .. Len(c) : c[i] = c[j] => i = j
      /\ AtStep(t, mem, head, tail, free_cache_size, c)
      /\ t \in Thread /\ Links(mem, head, tail, c)
      /\ thread \in [Workers -> Thread]
  BY LinksFacts, NodesDistinct DEF Now, Sound, AtStep, Registers
<1>2. /\ t.pc \in Deleting /\ k \in 1 .. Len(c) /\ t.victim = c[k]
      /\ \A i \in Nodes : mem'[i].uri = mem[i].uri /\ mem'[i].length = mem[i].length
  BY DEF Taken, Deleting
<1>3. /\ u.pc = IF t.hit THEN "lock_insert" ELSE "room"
      /\ u.uri = t.uri /\ u.hit = t.hit /\ u.node = n
  BY <1>1 DEF Taken, Thread
<1>4. /\ n \in Nodes /\ mem[n].uri = t.uri /\ mem[n].state # "unused"
      /\ t.victim = IF t.hit THEN n ELSE tail
      /\ ~ t.hit => mem[n].length > free_cache_size /\ ~ Lists(mem, c, t.uri)
      /\ t.uri \in Uris
  BY <1>1, <1>2 DEF AtStep, Registers, Holding, Evicting, Missing, Deleting
<1>5. Objects = View(mem, c)
  <2>1. Shown(t, c) = c /\ Changing(w)
    BY <1>2 DEF Shown, Deleting, Inserting, Changing
  <2> QED
    BY <2>1 DEF Shows
<1>6. /\ d \in Seq(Nodes) /\ View(mem, d) = RemoveAt(Objects, k)
      /\ k = Len(c) => RemoveAt(Objects, k) = Front(Objects)
  BY <1>1, <1>2, <1>5, ViewWithout
<1>7. Asked[w] = t.uri /\ Asked' = Asked
  BY <1>1, <1>3, OneMoves, AskedNext
<1> HIDE DEF d
<1>8. Objects' = View(mem', Shown(u, d))
  <2>1. Changing(w)'
    BY <1>3 DEF Changing
  <2> QED
    BY <2>1, ShownNext DEF d
<1>9. ASSUME NEW e \in Seq(Nodes) PROVE View(mem', e) = View(mem, e)
  <2>1. \A i \in 1 .. Len(e) : e[i] \in Nodes
    OBVIOUS
  <2>2. \A i \in 1 .. Len(e) : /\ mem'[e[i]].uri = mem[e[i]].uri
                               /\ mem'[e[i]].length = mem[e[i]].length
    BY <1>2, <2>1
  <2> QED
    BY <2>2, ViewKept
<1>10. /\ Objects[k].uri = mem[c[k]].uri /\ Objects[k] = Object(mem, c[k])
       /\ DOMAIN Objects = 1 .. Len(c) /\ Len(Objects) = Len(c)
  BY <1>1, <1>2, <1>5, ViewFacts, ViewFields
<1> HIDE DEF t, u
<1>11. CASE t.hit
  <2>1. Shown(u, d) = <<c[k]>> \o d
    BY <1>2, <1>3, <1>4, <1>11 DEF Shown, Inserting
  <2>2. c[k] \in Nodes
    BY <1>1, <1>2
  <2>3. /\ <<c[k]>> \o d \in Seq(Nodes)
        /\ View(mem, <<c[k]>> \o d) = <<Object(mem, c[k])>> \o View(mem, d)
    BY <1>1, <1>6, <2>2, ViewWith
  <2>4. Objects' = <<Objects[k]>> \o RemoveAt(Objects, k)
    BY <1>6, <1>8, <1>9, <1>10, <2>1, <2>3
  <2>5. Objects[k].uri = Asked[w]
    BY <1>2, <1>4, <1>7, <1>10, <1>11
  <2>6. LRU!Hit(w, k)
    BY <1>7, <2>4, <2>5 DEF LRU!Hit, LRU!RemoveAt, RemoveAt
  <2> QED
    BY <1>2, <1>10, <2>6 DEF LRU!CacheNext
<1>12. CASE ~ t.hit
  <2>1. k = Len(c)
    <3>1. Len(c) \in 1 .. Len(c) /\ tail = c[Len(c)]
      BY <1>1, <1>2 DEF Links
    <3> QED
      BY <1>1, <1>2, <1>4, <1>12, <3>1
  <2>2. Shown(u, d) = d
    BY <1>3, <1>12 DEF Shown
  <2>3. Objects' = Front(Objects)
    BY <1>6, <1>8, <1>9, <2>1, <2>2
  <2>4. Asked[w] # NoUri /\ ~ LRU!Has(Asked[w])
    BY <1>1, <1>4, <1>5, <1>7, <1>12, NotHeld, ProxyCacheAssumption
  <2>5. Objects # <<>>
    <3>1. Len(Objects) # 0
      BY <1>1, <1>2, <1>10
    <3> QED
      BY <3>1
  <2>6. mem[n].length \in Lengths /\ mem[n].length \in Nat
    BY <1>1, <1>4, ProxyCacheAssumption DEF Filled
  <2>7. LRU!Used # 0 => LRU!Used + mem[n].length > MAX_CACHE_SIZE
    <3>1. LRU!Used = s[Len(c)]
      BY <1>5, UsedIsStored
    <3>2. /\ free_cache_size \in Nat /\ s[Len(c)] \in Nat
          /\ s[Len(c)] # 0 => free_cache_size + s[Len(c)] = MAX_CACHE_SIZE
      BY SpaceOfList
    <3> DEFINE x == mem[n].length
               y == s[Len(c)]
    <3>3. /\ x > free_cache_size /\ LRU!Used = y /\ x \in Nat /\ y \in Nat
          /\ free_cache_size \in Nat
          /\ y # 0 => free_cache_size + y = MAX_CACHE_SIZE
      BY <1>4, <1>12, <2>6, <3>1, <3>2
    <3> HIDE DEF x, y
    <3>4. LRU!Used # 0 => LRU!Used + x > MAX_CACHE_SIZE
      BY <3>3
    <3> QED
      BY <3>4 DEF x
  <2>8. LRU!Evict(w, mem[n].length)
    BY <1>7, <2>3, <2>4, <2>5, <2>7 DEF LRU!Evict, LRU!Front, Front
  <2> QED
    BY <2>6, <2>8 DEF LRU!CacheNext
<1> QED
  BY <1>11, <1>12

LEMMA DeleteRefines ==
  ASSUME NEW w \in Workers, Shows, Shows', Orderly, Orderly',
         NEW c, NEW s, Now(w, c, s), DeleteOnly(w) \/ Unlink(w)
  PROVE  LRU!CacheNext \/ UNCHANGED <<Objects, Asked>>
<1>1. Work(w)
  BY DEF Work, Delete
<1>2. CASE \E k, r : Taken(w, c, k) /\ Later(w, RemoveAt(c, k), r)
  BY <1>1, <1>2, TakenRefines
<1>3. CASE DeleteOnly(w) /\ Len(c) = 0
  BY <1>3, DeleteOnlyKeeps, ThreadUnseen
<1> QED
  BY <1>2, <1>3, DeleteOnlyKeeps, UnlinkKeeps

(* An insert puts the object fetched in front, for which there is room; an *)
(* object found has been in front since it was deleted.                    *)
LEMMA LinkRefines ==
  ASSUME NEW w \in Workers, Shows, Shows', Orderly, Orderly',
         NEW c, NEW s, Now(w, c, s), Link(w)
  PROVE  LRU!CacheNext \/ UNCHANGED <<Objects, Asked>>
<1> DEFINE t == thread[w]
           u == thread'[w]
           n == t.node
           d == <<n>> \o c
<1>1. /\ mem \in Memory /\ c \in Seq(Nodes) /\ Len(c) \in Nat /\ Filled(mem)
      /\ AtStep(t, mem, head, tail, free_cache_size, c) /\ t \in Thread
      /\ thread \in [Workers -> Thread]
  BY LinksFacts DEF Now, Sound, AtStep, Registers
<1>2. t.pc = "link" /\ Changing(w)
  BY DEF Link, At, Changing
<1>3. PICK r : Later(w, d, r)
  BY LinkKeeps
<1>4. /\ u = IF t.hit THEN [t EXCEPT !.pc = "reply"] ELSE Idle
      /\ \A i \in Nodes : mem'[i].uri = mem[i].uri /\ mem'[i].length = mem[i].length
  BY LinkKeeps
<1>5. /\ n \in Nodes /\ mem[n].uri = t.uri /\ mem[n].state # "unused"
      /\ ~ Lists(mem, c, t.uri) /\ mem[n].length <= free_cache_size
      /\ t.uri \in Uris
  BY <1>1, <1>2 DEF AtStep, Registers, Holding, Evicting, Missing, Inserting
<1>6. d \in Seq(Nodes) /\ View(mem, d) = <<Object(mem, n)>> \o View(mem, c)
  BY <1>1, <1>5, ViewWith
<1>7. View(mem', d) = View(mem, d)
  <2> HIDE DEF d
  <2>1. \A i \in 1 .. Len(d) : d[i] \in Nodes
    BY <1>6
  <2>2. \A i \in 1 .. Len(d) : /\ mem'[d[i]].uri = mem[d[i]].uri
                               /\ mem'[d[i]].length = mem[d[i]].length
    BY <1>4, <2>1
  <2> QED
    BY <1>6, <2>2, ViewKept
<1>8. Objects = View(mem, Shown(t, c))
  BY <1>2 DEF Shows
<1>9. \A v \in Workers \ {w} : thread'[v] = thread[v]
  BY <1>1, OneMoves DEF Work
<1>10. Asked[w] = t.uri /\ Asked' = [Asked EXCEPT ![w] = u.uri]
  BY <1>9, AskedNext
<1>11. CASE t.hit
  <2>1. Shown(t, c) = d
    BY <1>2, <1>11 DEF Shown, Inserting
  <2>2. u.pc = "reply" /\ u.uri = t.uri
    BY <1>1, <1>4, <1>11 DEF Thread
  <2>3. Changing(w)' /\ Shown(u, d) = d
    BY <2>2 DEF Changing, Shown, Inserting
  <2>4. Objects' = View(mem', d)
    <3> HIDE DEF d
    <3> QED
      BY <1>3, <2>3, ShownNext
  <2>5. Asked' = Asked
    BY <1>9, <2>2, AskedNext
  <2> QED
    BY <1>7, <1>8, <2>1, <2>4, <2>5
<1>12. CASE ~ t.hit
  <2>1. Shown(t, c) = c
    BY <1>12 DEF Shown
  <2>2. u.uri = NoUri /\ u.pc = "idle"
    BY <1>4, <1>12 DEF Idle
  <2>3. \A v \in Workers : ~ InHands(v)'
    <3>1. \A v \in Workers : v # w => thread[v].pc \in {"idle", "rdlock", "fetch"}
      BY <1>2 DEF Orderly
    <3> QED
      BY <1>9, <2>2, <3>1 DEF InHands
  <2>4. Objects' = View(mem', d)
    <3> HIDE DEF d
    <3> QED
      BY <1>3, <2>3, ShownNext
  <2>5. Objects = View(mem, c)
    BY <1>8, <2>1
  <2>6. Objects' = <<[uri |-> Asked[w], length |-> mem[n].length]>> \o Objects
    BY <1>5, <1>6, <1>7, <1>10, <2>4, <2>5 DEF Object
  <2>7. Asked[w] # NoUri /\ ~ LRU!Has(Asked[w])
    BY <1>1, <1>5, <1>10, <2>5, NotHeld, ProxyCacheAssumption
  <2>8. mem[n].length \in Lengths /\ mem[n].length \in Nat
    BY <1>1, <1>5, ProxyCacheAssumption DEF Filled
  <2>9. LRU!Used + mem[n].length <= MAX_CACHE_SIZE
    <3>1. LRU!Used = s[Len(c)]
      BY <2>5, UsedIsStored
    <3>2. /\ free_cache_size \in Nat /\ s[Len(c)] \in Nat /\ MAX_CACHE_SIZE \in Nat
          /\ free_cache_size + s[Len(c)] <= MAX_CACHE_SIZE
      BY SpaceOfList
    <3> DEFINE x == mem[n].length
               y == s[Len(c)]
    <3>3. /\ x <= free_cache_size /\ LRU!Used = y /\ x \in Nat /\ y \in Nat
          /\ free_cache_size \in Nat /\ free_cache_size + y <= MAX_CACHE_SIZE
          /\ MAX_CACHE_SIZE \in Nat
      BY <1>5, <2>8, <3>1, <3>2
    <3> HIDE DEF x, y
    <3>4. LRU!Used + x <= MAX_CACHE_SIZE
      BY <3>3
    <3> QED
      BY <3>4 DEF x
  <2>10. LRU!Store(w, mem[n].length)
    BY <1>10, <2>2, <2>6, <2>7, <2>9 DEF LRU!Store, LRU!Asks
  <2> QED
    BY <2>8, <2>10 DEF LRU!CacheNext
<1> QED
  BY <1>11, <1>12

LEMMA StepRefines ==
  ASSUME Shows, Shows', CacheInv, [OrderlyNext]_vars
  PROVE  [LRU!CacheNext]_<<Objects, Asked>>
<1> SUFFICES LRU!CacheNext \/ UNCHANGED <<Objects, Asked>>
  OBVIOUS
<1>1. CASE UNCHANGED vars
  BY <1>1 DEF vars, listVars, Objects, Asked, Chain, Walk, InHands
<1>2. CASE OrderlyNext
  <2>1. PICK w \in Workers : Work(w) \/ \E wanted \in Uris : Request(w, wanted)
    BY <1>2 DEF OrderlyNext, Next
  <2>2. PICK c, s : Listed(c, s)
    BY DEF CacheInv
  <2>3. Now(w, c, s) /\ Orderly /\ Orderly' /\ Spares
    BY <1>2, <2>2 DEF CacheInv, Listed, OrderlyNext
  <2>4. ASSUME NEW wanted \in Uris, Request(w, wanted) PROVE LRU!CacheNext
    BY <2>3, <2>4, RequestAsks DEF LRU!CacheNext
  <2>5. ASSUME Reply(w) PROVE LRU!CacheNext
    BY <2>3, <2>5, ReplyAnswers DEF LRU!CacheNext
  <2>6. ASSUME NoStore(w) PROVE LRU!CacheNext
    BY <2>2, <2>3, <2>6, NoStoreEnds DEF LRU!CacheNext
  <2>7. ASSUME NEW n \in Nodes, NEW length \in Lengths, Put(w, n, length)
        PROVE  UNCHANGED <<Objects, Asked>>
    BY <2>2, <2>3, <2>7, PutUnseen
  <2>8. ASSUME \/ ReadLock(w) \/ Scan(w) \/ Found(w) \/ NotFound(w)
               \/ Room(w) \/ DeleteLocks(w) \/ WriteLock(w)
        PROVE  UNCHANGED <<Objects, Asked>>
    <3>1. Later(w, c, s)
      BY <2>3, <2>8, ReadLockKeeps, ScanKeeps, FoundKeeps, NotFoundKeeps, RoomKeeps,
         DeleteLocksKeeps, WriteLockKeeps
    <3> QED
      BY <2>3, <2>8, <3>1, ThreadUnseen
  <2>9. ASSUME DeleteOnly(w) \/ Unlink(w)
        PROVE  LRU!CacheNext \/ UNCHANGED <<Objects, Asked>>
    BY <2>3, <2>9, DeleteRefines
  <2>10. ASSUME Link(w) PROVE LRU!CacheNext \/ UNCHANGED <<Objects, Asked>>
    BY <2>3, <2>10, LinkRefines
  <2> QED
    BY <2>1, <2>4, <2>5, <2>6, <2>7, <2>8, <2>9, <2>10 DEF Work, Get, Store, Delete
<1> QED
  BY <1>1, <1>2

(* And the proxy's list is the least recently used cache that the comment  *)
(* at the top of cache.c describes, whatever its size and the lengths of   *)
(* the objects, while clients ask, wait and are answered at the same time. *)
THEOREM OrderlyIsLRU == OrderlySpec => ImplementsLRU
<1>1. Init => LRU!CacheInit
  <2> SUFFICES ASSUME Init PROVE LRU!CacheInit
    OBVIOUS
  <2>1. PICK w \in Workers : TRUE
    BY ProxyCacheAssumption
  <2>2. PICK s : Now(w, <<>>, s)
    BY ListedInit DEF Listed
  <2>3. thread = [v \in Workers |-> Idle]
    BY DEF Init
  <2>4. \A v \in Workers : ~ InHands(v)
    BY <2>3 DEF InHands, Idle
  <2>5. Objects = View(mem, <<>>)
    BY <2>2, <2>4, AlwaysShows DEF Shows
  <2>6. <<>> \in Seq(Nodes) /\ Len(<<>>) = 0 /\ mem \in Memory
    BY <2>2 DEF Now, Sound
  <2>7. View(mem, <<>>) \in Seq(ObjectType) /\ Len(View(mem, <<>>)) = 0
    BY <2>6, ViewFacts
  <2>8. View(mem, <<>>) = <<>>
    BY <2>7
  <2>9. Asked = [k \in Workers |-> NoUri]
    BY <2>3 DEF Asked, Idle
  <2> QED
    BY <2>5, <2>8, <2>9 DEF LRU!CacheInit
<1>2. Shows
  BY AlwaysShows
<1>3. CacheInv /\ Shows /\ Shows' /\ [OrderlyNext]_vars
        => [LRU!CacheNext]_<<Objects, Asked>>
  BY StepRefines
<1> QED
  BY <1>1, <1>2, <1>3, AlwaysCacheInv, PTL DEF OrderlySpec, ImplementsLRU, LRU!CacheSpec

(* Sequences cut in two.                                                   *)
LEMMA CutInTwo ==
  ASSUME NEW B, NEW s \in Seq(B), NEW n \in Nat
  PROVE  /\ Ahead(s, n) \in Seq(B) /\ Behind(s, n) \in Seq(B)
         /\ Len(Ahead(s, n)) = Shorter(n, Len(s))
         /\ Len(Behind(s, n)) = Len(s) - Shorter(n, Len(s))
         /\ Ahead(s, n) \o Behind(s, n) = s
         /\ \A i \in 1 .. Shorter(n, Len(s)) : Ahead(s, n)[i] = s[i]
         /\ \A i \in 1 .. Len(s) - Shorter(n, Len(s)) : Behind(s, n)[i] = s[i + n]
<1>1. /\ Ahead(s, n) \in Seq(B) /\ Len(Ahead(s, n)) = Shorter(n, Len(s))
      /\ \A i \in 1 .. Shorter(n, Len(s)) : Ahead(s, n)[i] = s[i]
  BY DEF Ahead, Shorter
<1>2. /\ Behind(s, n) \in Seq(B) /\ Len(Behind(s, n)) = Len(s) - Shorter(n, Len(s))
      /\ \A i \in 1 .. Len(s) - Shorter(n, Len(s)) : Behind(s, n)[i] = s[i + n]
  <2>1. CASE n <= Len(s)
    <3>1. n + 1 \in 1 .. Len(s) + 1 /\ Len(s) \in Nat
      BY <2>1
    <3>2. /\ Behind(s, n) \in Seq(B) /\ Len(Behind(s, n)) = Len(s) - n
          /\ \A i \in 1 .. Len(s) - n : Behind(s, n)[i] = s[i + n]
      BY <3>1 DEF Behind
    <3>3. Shorter(n, Len(s)) = n
      BY <2>1, <3>1 DEF Shorter
    <3> QED
      BY <3>2, <3>3
  <2>2. CASE n > Len(s)
    <3>1. Behind(s, n) = <<>>
      BY <2>2 DEF Behind
    <3>2. Shorter(n, Len(s)) = Len(s)
      BY <2>2 DEF Shorter
    <3> QED
      BY <3>1, <3>2
  <2> QED
    BY <2>1, <2>2
<1>3. Ahead(s, n) \o Behind(s, n) = s
  <2>1. /\ Ahead(s, n) \o Behind(s, n) \in Seq(B)
        /\ Len(Ahead(s, n) \o Behind(s, n)) = Len(s)
    BY <1>1, <1>2, Concatenated
  <2>2. ASSUME NEW i \in 1 .. Len(s)
        PROVE  (Ahead(s, n) \o Behind(s, n))[i] = s[i]
    <3>1. (Ahead(s, n) \o Behind(s, n))[i] =
             IF i <= Len(Ahead(s, n)) THEN Ahead(s, n)[i]
             ELSE Behind(s, n)[i - Len(Ahead(s, n))]
      BY <1>1, <1>2, Concatenated DEF Shorter
    <3> QED
      BY <1>1, <1>2, <3>1 DEF Shorter
  <2> QED
    BY <2>1, <2>2, SameElements
<1> QED
  BY <1>1, <1>2, <1>3

(* Two parts that make up s are what stands ahead of the cut and behind.   *)
LEMMA TwoParts ==
  ASSUME NEW B, NEW a \in Seq(B), NEW b \in Seq(B)
  PROVE  a = Ahead(a \o b, Len(a)) /\ b = Behind(a \o b, Len(a))
<1> DEFINE s == a \o b
<1>1. /\ s \in Seq(B) /\ Len(s) = Len(a) + Len(b) /\ Len(a) \in Nat /\ Len(b) \in Nat
      /\ \A i \in 1 .. Len(a) + Len(b) : s[i] = IF i <= Len(a) THEN a[i] ELSE b[i - Len(a)]
  <2>1. /\ a \o b \in Seq(B) /\ Len(a \o b) = Len(a) + Len(b)
        /\ \A i \in 1 .. Len(a) + Len(b) :
              (a \o b)[i] = IF i <= Len(a) THEN a[i] ELSE b[i - Len(a)]
    BY Concatenated
  <2>2. Len(a) \in Nat /\ Len(b) \in Nat
    OBVIOUS
  <2> QED
    BY <2>1, <2>2
<1> HIDE DEF s
<1>2. a = Ahead(s, Len(a))
  <2>1. /\ Ahead(s, Len(a)) \in Seq(B) /\ Len(Ahead(s, Len(a))) = Len(a)
        /\ \A i \in 1 .. Len(a) : Ahead(s, Len(a))[i] = s[i]
    BY <1>1, CutInTwo DEF Shorter
  <2>2. \A i \in 1 .. Len(a) : s[i] = a[i]
    BY <1>1
  <2> QED
    BY <2>1, <2>2, SameElements
<1>3. b = Behind(s, Len(a))
  <2>1. /\ Behind(s, Len(a)) \in Seq(B) /\ Len(Behind(s, Len(a))) = Len(b)
        /\ \A i \in 1 .. Len(b) : Behind(s, Len(a))[i] = s[i + Len(a)]
    <3>1. Len(a) \in Nat /\ Shorter(Len(a), Len(s)) = Len(a)
      BY <1>1 DEF Shorter
    <3>2. Len(s) - Shorter(Len(a), Len(s)) = Len(b)
      BY <1>1, <3>1
    <3>3. /\ Behind(s, Len(a)) \in Seq(B)
          /\ Len(Behind(s, Len(a))) = Len(s) - Shorter(Len(a), Len(s))
          /\ \A i \in 1 .. Len(s) - Shorter(Len(a), Len(s)) :
                Behind(s, Len(a))[i] = s[i + Len(a)]
      BY <1>1, <3>1, CutInTwo
    <3> QED
      BY <3>2, <3>3
  <2>2. ASSUME NEW i \in 1 .. Len(b) PROVE s[i + Len(a)] = b[i]
    <3>1. /\ i + Len(a) \in 1 .. Len(a) + Len(b) /\ ~ (i + Len(a) <= Len(a))
          /\ (i + Len(a)) - Len(a) = i
      BY <1>1
    <3> QED
      BY <1>1, <3>1
  <2> QED
    BY <2>1, <2>2, SameElements
<1> QED
  BY <1>2, <1>3 DEF s

-----------------------------------------------------------------------------
(* One call of rio_read.                                                   *)
Readers(B) == [buf : Seq(B), rest : Seq(B)]

Outcomes(B) == [got : Seq(B), reader : Readers(B)]

LEMMA RefillKeeps ==
  ASSUME NEW B, NEW rd \in Readers(B), NEW r \in Refill(rd)
  PROVE  /\ r \in Readers(B) /\ Left(r) = Left(rd)
         /\ Left(rd) # <<>> => r.buf # <<>>
<1>1. rd.buf \in Seq(B) /\ rd.rest \in Seq(B)
  BY DEF Readers
<1>2. CASE rd.buf # <<>> \/ rd.rest = <<>>
  <2>1. r = rd
    BY <1>2 DEF Refill
  <2>2. rd.buf = <<>> /\ rd.rest = <<>> => Left(rd) = <<>>
    BY DEF Left
  <2> QED
    BY <1>2, <2>1, <2>2
<1>3. CASE ~ (rd.buf # <<>> \/ rd.rest = <<>>)
  <2>1. PICK k \in 1 .. Shorter(RIO_BUFSIZE, Len(rd.rest)) :
            r = [buf |-> Ahead(rd.rest, k), rest |-> Behind(rd.rest, k)]
    BY <1>3 DEF Refill
  <2>2. k \in Nat /\ k >= 1 /\ k <= Len(rd.rest) /\ Shorter(k, Len(rd.rest)) = k
    BY <1>1, <2>1, RioAssumption DEF Shorter
  <2>3. /\ Ahead(rd.rest, k) \in Seq(B) /\ Behind(rd.rest, k) \in Seq(B)
        /\ Len(Ahead(rd.rest, k)) = k
        /\ Ahead(rd.rest, k) \o Behind(rd.rest, k) = rd.rest
    BY <1>1, <2>2, CutInTwo
  <2>4. r \in Readers(B) /\ Left(r) = rd.rest
    BY <2>1, <2>3 DEF Readers, Left
  <2>5. Left(rd) = rd.rest
    <3>1. \A a \in Seq(B) : <<>> \o a = a
      OBVIOUS
    <3> QED
      BY <1>1, <1>3, <3>1 DEF Left
  <2>6. r.buf # <<>>
    BY <2>1, <2>2, <2>3
  <2> QED
    BY <2>4, <2>5, <2>6
<1> QED
  BY <1>2, <1>3

LEMMA ReadKeeps ==
  ASSUME NEW B, NEW rd \in Readers(B), NEW n \in Nat, NEW o \in rio_read(rd, n)
  PROVE  /\ o \in Outcomes(B)
         /\ o.got \o Left(o.reader) = Left(rd)
         /\ Len(o.got) <= n
         /\ n # 0 /\ Left(rd) # <<>> => Len(o.got) >= 1
<1>1. PICK r \in Refill(rd) :
         o = [got |-> Ahead(r.buf, n), reader |-> [r EXCEPT !.buf = Behind(@, n)]]
  BY DEF rio_read
<1>2. /\ r \in Readers(B) /\ Left(r) = Left(rd)
      /\ Left(rd) # <<>> => r.buf # <<>>
  BY RefillKeeps
<1>3. r.buf \in Seq(B) /\ r.rest \in Seq(B)
  BY <1>2 DEF Readers
<1>4. /\ Ahead(r.buf, n) \in Seq(B) /\ Behind(r.buf, n) \in Seq(B)
      /\ Len(Ahead(r.buf, n)) = Shorter(n, Len(r.buf))
      /\ Ahead(r.buf, n) \o Behind(r.buf, n) = r.buf
  BY <1>3, CutInTwo
<1>5. /\ o.got = Ahead(r.buf, n) /\ o.reader.buf = Behind(r.buf, n)
      /\ o.reader.rest = r.rest /\ o.reader \in Readers(B) /\ o \in Outcomes(B)
  BY <1>1, <1>2, <1>4 DEF Readers, Outcomes
<1>6. o.got \o Left(o.reader) = Left(rd)
  <2>1. Left(o.reader) = Behind(r.buf, n) \o r.rest
    BY <1>5 DEF Left
  <2>2. Ahead(r.buf, n) \o (Behind(r.buf, n) \o r.rest)
           = (Ahead(r.buf, n) \o Behind(r.buf, n)) \o r.rest
    <3>1. \A a, b, c \in Seq(B) : (a \o b) \o c = a \o (b \o c)
      BY Joined
    <3> QED
      BY <1>3, <1>4, <3>1, Zenon
  <2> QED
    BY <1>2, <1>4, <1>5, <2>1, <2>2 DEF Left
<1>7. Len(r.buf) \in Nat /\ (r.buf # <<>> => Len(r.buf) >= 1)
  BY <1>3
<1>8. Len(o.got) <= n /\ (n # 0 /\ Left(rd) # <<>> => Len(o.got) >= 1)
  BY <1>2, <1>4, <1>5, <1>7 DEF Shorter
<1> QED
  BY <1>5, <1>6, <1>8

(* One more call, behind what a loop has got so far.                       *)
GoesOn(B, n, o, p) ==
  /\ p \in Outcomes(B)
  /\ p.got \o Left(p.reader) = o.got \o Left(o.reader)
  /\ Len(p.got) <= Len(o.got) + n
  /\ Len(p.got) >= Len(o.got)
  /\ n # 0 /\ Len(o.got) < Len(o.got \o Left(o.reader)) => Len(p.got) > Len(o.got)
  /\ \A i \in 1 .. Len(o.got) : p.got[i] = o.got[i]

LEMMA MoreKeeps ==
  ASSUME NEW B, NEW n \in Nat, NEW o \in Outcomes(B), NEW p \in More(o, n)
  PROVE  GoesOn(B, n, o, p)
<1> DEFINE s == o.got \o Left(o.reader)
<1>1. o.got \in Seq(B) /\ o.reader \in Readers(B)
  BY DEF Outcomes
<1>2. PICK q \in rio_read(o.reader, n) :
         p = [got |-> o.got \o q.got, reader |-> q.reader]
  BY DEF More
<1>3. /\ q \in Outcomes(B) /\ q.got \o Left(q.reader) = Left(o.reader)
      /\ Len(q.got) <= n
      /\ n # 0 /\ Left(o.reader) # <<>> => Len(q.got) >= 1
  BY <1>1, <1>2, ReadKeeps
<1>4. q.got \in Seq(B) /\ q.reader \in Readers(B)
  BY <1>3 DEF Outcomes
<1>5. Left(q.reader) \in Seq(B) /\ Left(o.reader) \in Seq(B)
  BY <1>1, <1>4 DEF Left, Readers
<1>6. /\ o.got \o q.got \in Seq(B) /\ Len(o.got \o q.got) = Len(o.got) + Len(q.got)
      /\ Len(o.got) \in Nat /\ Len(q.got) \in Nat
      /\ \A i \in 1 .. Len(o.got) : (o.got \o q.got)[i] = o.got[i]
  <2>1. \A a, b \in Seq(B) : /\ a \o b \in Seq(B) /\ Len(a \o b) = Len(a) + Len(b)
                             /\ Len(a) \in Nat /\ Len(b) \in Nat
                             /\ \A i \in 1 .. Len(a) : (a \o b)[i] = a[i]
    OBVIOUS
  <2> QED
    BY <1>1, <1>4, <2>1, Zenon
<1>7. /\ p.got = o.got \o q.got /\ p.reader = q.reader
      /\ p \in Outcomes(B) /\ p.got \in Seq(B)
  BY <1>2, <1>4, <1>6 DEF Outcomes
<1>8. p.got \o Left(p.reader) = s
  <2>1. \A a, b, c \in Seq(B) : (a \o b) \o c = a \o (b \o c)
    BY Joined
  <2>2. (o.got \o q.got) \o Left(q.reader) = o.got \o (q.got \o Left(q.reader))
    BY <1>1, <1>4, <1>5, <2>1, Zenon
  <2> QED
    BY <1>3, <1>7, <2>2, Zenon
<1>9. Len(s) = Len(o.got) + Len(Left(o.reader))
  <2>1. \A a, b \in Seq(B) : Len(a \o b) = Len(a) + Len(b)
    OBVIOUS
  <2> QED
    BY <1>1, <1>5, <2>1, Zenon
<1>10. Len(o.got) < Len(s) => Left(o.reader) # <<>>
  <2>1. ASSUME Left(o.reader) = <<>> PROVE Len(Left(o.reader)) = 0
    BY <2>1
  <2>2. ASSUME Left(o.reader) = <<>> PROVE Len(s) = Len(o.got)
    <3>1. Len(s) = Len(o.got) + 0
      BY <1>9, <2>1, <2>2
    <3> QED
      BY <1>6, <3>1
  <2>3. ~ (Len(o.got) < Len(o.got))
    BY <1>6
  <2> QED
    BY <2>2, <2>3, Zenon
<1>11. Len(p.got) = Len(o.got) + Len(q.got)
  BY <1>6, <1>7
<1>12. /\ Len(p.got) <= Len(o.got) + n /\ Len(p.got) >= Len(o.got)
       /\ n # 0 /\ Len(o.got) < Len(s) => Len(p.got) > Len(o.got)
  <2>1. \A x, y, z \in Nat : z = x + y => /\ y <= n => z <= x + n
                                        /\ z >= x /\ (y >= 1 => z > x)
    OBVIOUS
  <2>2. Len(p.got) \in Nat
    <3>1. \A a \in Seq(B) : Len(a) \in Nat
      OBVIOUS
    <3> QED
      BY <1>7, <3>1
  <2>3. /\ Len(q.got) <= n => Len(p.got) <= Len(o.got) + n
        /\ Len(p.got) >= Len(o.got)
        /\ Len(q.got) >= 1 => Len(p.got) > Len(o.got)
    BY <1>6, <1>11, <2>1, <2>2
  <2> QED
    BY <1>3, <1>10, <2>3
<1>13. \A i \in 1 .. Len(o.got) : p.got[i] = o.got[i]
  BY <1>6, <1>7
<1> QED
  BY <1>7, <1>8, <1>12, <1>13 DEF GoesOn

(* What has been read is the beginning of the stream.                      *)
LEMMA GotFacts ==
  ASSUME NEW B, NEW p \in Outcomes(B)
  PROVE  LET s == p.got \o Left(p.reader)
         IN  /\ p.got \in Seq(B) /\ Left(p.reader) \in Seq(B) /\ s \in Seq(B)
             /\ Len(p.got) \in Nat /\ Len(p.got) <= Len(s)
             /\ \A i \in 1 .. Len(p.got) : p.got[i] = s[i]
<1>1. p.got \in Seq(B) /\ Left(p.reader) \in Seq(B)
  BY DEF Outcomes, Readers, Left
<1>2. \A x, y \in Seq(B) : /\ x \o y \in Seq(B) /\ Len(x) \in Nat /\ Len(x) <= Len(x \o y)
                           /\ \A i \in 1 .. Len(x) : x[i] = (x \o y)[i]
  OBVIOUS
<1> QED
  BY <1>1, <1>2, Zenon

-----------------------------------------------------------------------------
(* The loops.  What n turns can lead to exists: if not, take the shortest  *)
(* number of turns for which it does not.                                  *)
Onward(T, S) == UNION {T[o] : o \in S}

Reached(f, D, T, a, n) ==
  /\ f \in [0 .. n -> SUBSET D]
  /\ f[0] = {a}
  /\ \A k \in 1 .. n : f[k] = Onward(T, f[k - 1])

LEMMA TurnsExist ==
  ASSUME NEW D, NEW T \in [D -> SUBSET D], NEW a \in D, NEW n \in Nat
  PROVE  \E f : Reached(f, D, T, a, n)
<1> DEFINE Ok(m) == \E f \in [0 .. m -> SUBSET D] :
                       /\ f[0] = {a}
                       /\ \A k \in 1 .. m : f[k] = Onward(T, f[k - 1])
           Bad == {m \in Nat : ~ Ok(m)}
<1>1. Ok(0)
  <2> DEFINE g == [k \in 0 .. 0 |-> {a}]
  <2>1. g \in [0 .. 0 -> SUBSET D] /\ g[0] = {a}
    OBVIOUS
  <2>2. \A k \in 1 .. 0 : FALSE
    OBVIOUS
  <2> HIDE DEF g
  <2> QED
    BY <2>1, <2>2, Zenon
<1>2. ASSUME Bad # {} PROVE FALSE
  <2> HIDE DEF Ok
  <2>1. PICK m \in Bad : \A j \in Bad : m <= j
    <3>1. Bad \in SUBSET Nat
      OBVIOUS
    <3> HIDE DEF Bad
    <3> QED
      BY <1>2, <3>1, LeastNat
  <2>2. m \in Nat /\ m # 0 /\ m - 1 \in Nat /\ ~ Ok(m)
    BY <1>1, <2>1
  <2>3. Ok(m - 1)
    BY <2>1, <2>2
  <2>4. PICK f \in [0 .. m - 1 -> SUBSET D] :
            /\ f[0] = {a}
            /\ \A k \in 1 .. m - 1 : f[k] = Onward(T, f[k - 1])
    BY <2>3 DEF Ok
  <2> DEFINE last == Onward(T, f[m - 1])
             g == [k \in 0 .. m |-> IF k = m THEN last ELSE f[k]]
  <2>5. last \in SUBSET D
    <3>1. f[m - 1] \in SUBSET D
      BY <2>2, <2>4
    <3> QED
      BY <3>1 DEF Onward
  <2>6. g \in [0 .. m -> SUBSET D]
    <3> HIDE DEF last
    <3> QED
      BY <2>2, <2>4, <2>5
  <2>7. g[0] = {a}
    BY <2>2, <2>4
  <2>8. ASSUME NEW k \in 1 .. m
        PROVE  g[k] = Onward(T, g[k - 1])
    <3>1. k - 1 \in 0 .. m - 1 /\ g[k - 1] = f[k - 1]
      BY <2>2, <2>8
    <3>2. CASE k = m
      <4>1. g[k] = last
        <5> HIDE DEF last
        <5> QED
          BY <2>2, <3>2
      <4>2. g[k - 1] = f[m - 1]
        BY <3>1, <3>2
      <4> HIDE DEF g
      <4> QED
        BY <4>1, <4>2
    <3>3. CASE k # m
      <4>1. k \in 1 .. m - 1
        BY <2>2, <2>8, <3>3
      <4>2. g[k] = f[k]
        BY <2>2, <2>8, <3>3
      <4> QED
        BY <2>4, <3>1, <4>1, <4>2
    <3> QED
      BY <3>2, <3>3
  <2> HIDE DEF g
  <2>9. Ok(m)
    BY <2>6, <2>7, <2>8 DEF Ok
  <2> QED
    BY <2>2, <2>9
<1>3. Ok(n)
  BY <1>2
<1> QED
  BY <1>3 DEF Reached

(* rio_readnb returns the n bytes that come next, or all there are.        *)
LEMMA BlockIsNext ==
  ASSUME NEW B, NEW rd \in Readers(B), NEW n \in Nat, NEW o \in rio_readnb(rd, n)
  PROVE  /\ o \in Outcomes(B)
         /\ o.got \o Left(o.reader) = Left(rd)
         /\ Len(o.got) = Shorter(n, Len(Left(rd)))
<1> DEFINE s == Left(rd)
           a == Nothing(rd)
           D == {p \in Outcomes(B) : p.got \o Left(p.reader) = s /\ Len(p.got) <= n}
           Turn(p) == IF Len(p.got) = n THEN {p} ELSE More(p, n - Len(p.got))
           Eq(f) == f = [k \in 0 .. n |-> IF k = 0 THEN {a} ELSE UNION {Turn(p) : p \in f[k - 1]}]
           after == CHOOSE f : Eq(f)
           T == [p \in D |-> Turn(p)]
<1>1. rio_readnb(rd, n) = after[n]
  BY DEF rio_readnb, Turns
<1>2. s \in Seq(B) /\ Len(s) \in Nat
  BY DEF Left, Readers
<1>3. a \in D /\ Len(a.got) = 0
  <2>1. \A b \in Seq(B) : <<>> \o b = b
    OBVIOUS
  <2>2. a \in Outcomes(B) /\ a.got = <<>> /\ a.reader = rd
    BY DEF Nothing, Outcomes
  <2>3. Len(a.got) = 0
    BY <2>2
  <2>4. a.got \o Left(a.reader) = s
    BY <1>2, <2>1, <2>2
  <2>5. Len(a.got) <= n
    BY <2>3
  <2> HIDE DEF a, s
  <2> QED
    BY <2>2, <2>3, <2>4, <2>5, Zenon
<1>4. ASSUME NEW p \in D, NEW q \in Turn(p)
      PROVE  /\ q \in D /\ Len(p.got) \in Nat /\ Len(q.got) \in Nat
             /\ Len(q.got) >= Len(p.got)
             /\ Len(p.got) < n /\ Len(p.got) < Len(s) => Len(q.got) > Len(p.got)
  <2>1. \A x \in Outcomes(B) : Len(x.got) \in Nat
    BY DEF Outcomes
  <2>2. CASE Len(p.got) = n
    BY <2>1, <2>2
  <2>3. CASE Len(p.got) # n
    <3>1. /\ p \in Outcomes(B) /\ p.got \o Left(p.reader) = s /\ Len(p.got) <= n
          /\ Len(p.got) \in Nat /\ q \in More(p, n - Len(p.got))
      BY <2>1, <2>3
    <3>2. n - Len(p.got) \in Nat /\ n - Len(p.got) # 0
      BY <2>3, <3>1
    <3> DEFINE k == n - Len(p.got)
    <3>3. k \in Nat /\ k # 0 /\ q \in More(p, k) /\ Len(p.got) + k = n
      BY <3>1, <3>2
    <3> HIDE DEF Turn, D, s, k
    <3>4. /\ q \in Outcomes(B) /\ q.got \o Left(q.reader) = s
          /\ Len(q.got) <= Len(p.got) + k
          /\ Len(q.got) >= Len(p.got)
          /\ k # 0 /\ Len(p.got) < Len(s) => Len(q.got) > Len(p.got)
      <4>1. GoesOn(B, k, p, q)
        BY <3>1, <3>3, MoreKeeps
      <4> QED
        BY <3>1, <4>1 DEF GoesOn
    <3>5. Len(q.got) \in Nat
      BY <2>1, <3>4
    <3>6. Len(q.got) <= n
      BY <3>3, <3>4
    <3> QED
      BY <3>1, <3>3, <3>4, <3>5, <3>6 DEF D
  <2> QED
    BY <2>2, <2>3
<1> HIDE DEF Turn
<1>5. Eq(after)
  <2>1. T \in [D -> SUBSET D]
    BY <1>4
  <2>2. PICK g : Reached(g, D, T, a, n)
    <3> HIDE DEF T, D, a
    <3> QED
      BY <1>3, <2>1, TurnsExist
  <2>3. ASSUME NEW k \in 1 .. n
        PROVE  g[k] = UNION {Turn(p) : p \in g[k - 1]}
    <3>1. g[k - 1] \in SUBSET D
      BY <2>2, <2>3 DEF Reached
    <3>2. \A p \in g[k - 1] : T[p] = Turn(p)
      <4> HIDE DEF D
      <4> QED
        BY <3>1
    <3> HIDE DEF T
    <3> QED
      BY <2>2, <3>2 DEF Onward, Reached
  <2>4. Eq(g)
    <3> HIDE DEF T, D, a
    <3>1. \A k \in 0 .. n : g[k] = IF k = 0 THEN {a} ELSE UNION {Turn(p) : p \in g[k - 1]}
      BY <2>2, <2>3 DEF Reached
    <3>2. g = [k \in 0 .. n |-> g[k]]
      BY <2>2 DEF Reached
    <3> QED
      BY <3>1, <3>2
  <2> HIDE DEF Eq
  <2> QED
    BY <2>4
<1>6. /\ after[0] = {a}
      /\ \A k \in 1 .. n : after[k] = UNION {Turn(p) : p \in after[k - 1]}
  <2> HIDE DEF after, a
  <2>1. after = [k \in 0 .. n |-> IF k = 0 THEN {a} ELSE UNION {Turn(p) : p \in after[k - 1]}]
    BY <1>5
  <2>2. 0 \in 0 .. n /\ \A k \in 1 .. n : k \in 0 .. n /\ k # 0
    OBVIOUS
  <2> QED
    BY <2>1, <2>2
<1> HIDE DEF after, Eq, a
<1> DEFINE Q == {k \in Nat : \A p \in after[k] :
                    p \in D /\ Len(p.got) >= Shorter(k, Shorter(n, Len(s)))}
<1>7. 0 \in Q
  <2> HIDE DEF D, s
  <2>1. Shorter(0, Shorter(n, Len(s))) = 0
    BY <1>2 DEF Shorter
  <2> QED
    BY <1>3, <1>6, <2>1
<1>8. ASSUME NEW k \in 1 .. n, k - 1 \in Q PROVE k \in Q
  <2>1. ASSUME NEW q \in after[k]
        PROVE  q \in D /\ Len(q.got) >= Shorter(k, Shorter(n, Len(s)))
    <3>1. PICK p \in after[k - 1] : q \in Turn(p)
      BY <1>6
    <3>2. p \in D /\ Len(p.got) >= Shorter(k - 1, Shorter(n, Len(s)))
      BY <1>8
    <3> HIDE DEF D, s
    <3>3. /\ q \in D /\ Len(p.got) \in Nat /\ Len(q.got) \in Nat
          /\ Len(q.got) >= Len(p.got)
          /\ Len(p.got) < n /\ Len(p.got) < Len(s) => Len(q.got) > Len(p.got)
      BY <1>4, <3>1, <3>2
    <3>4. k \in Nat /\ k - 1 \in Nat
      OBVIOUS
    <3> QED
      BY <1>2, <3>2, <3>3, <3>4 DEF Shorter
  <2> HIDE DEF D, s
  <2> QED
    BY <2>1
<1>9. n \in Q
  <2>1. Q \in SUBSET Nat
    OBVIOUS
  <2> HIDE DEF Q
  <2> QED
    BY <1>7, <1>8, <2>1, UpTo
<1>10. o \in D /\ Len(o.got) >= Shorter(n, Shorter(n, Len(s)))
  BY <1>1, <1>9
<1>11. Len(o.got) \in Nat /\ Len(o.got) <= Len(s)
  <2>1. o \in Outcomes(B) /\ o.got \o Left(o.reader) = s
    BY <1>10
  <2> HIDE DEF D, s
  <2> QED
    BY <2>1, GotFacts
<1>12. Len(o.got) <= n
  BY <1>10
<1>13. Len(o.got) = Shorter(n, Len(s))
  <2> HIDE DEF D, s
  <2> QED
    BY <1>2, <1>10, <1>11, <1>12 DEF Shorter
<1> QED
  BY <1>10, <1>13

(* rio_readlineb returns the bytes through the first newline, or as many   *)
(* as fit.                                                                 *)
LineEnd(s) == Min({i \in DOMAIN s : s[i] = Newline} \cup {Len(s)})

LEMMA LineEndFacts ==
  ASSUME NEW B, NEW s \in Seq(B)
  PROVE  /\ LineEnd(s) \in Nat /\ LineEnd(s) <= Len(s)
         /\ \A i \in 1 .. Len(s) : s[i] = Newline => LineEnd(s) <= i
         /\ LineEnd(s) # Len(s) => LineEnd(s) \in 1 .. Len(s) /\ s[LineEnd(s)] = Newline
<1> DEFINE P == {i \in DOMAIN s : s[i] = Newline} \cup {Len(s)}
<1>1. P \in SUBSET Nat /\ P # {} /\ Len(s) \in P /\ DOMAIN s = 1 .. Len(s)
  OBVIOUS
<1>2. \E x \in P : \A y \in P : x <= y
  <2> HIDE DEF P
  <2> QED
    BY <1>1, LeastNat
<1>3. LineEnd(s) \in P /\ \A y \in P : LineEnd(s) <= y
  <2> HIDE DEF P
  <2>1. Min(P) \in P /\ \A y \in P : Min(P) <= y
    BY <1>2 DEF Min
  <2> QED
    BY <2>1 DEF LineEnd, P
<1> QED
  BY <1>1, <1>3

LEMMA LineIsNext ==
  ASSUME NEW B, NEW rd \in Readers(B), NEW m \in Nat \ {0}, NEW o \in rio_readlineb(rd, m)
  PROVE  /\ o \in Outcomes(B)
         /\ o.got \o Left(o.reader) = Left(rd)
         /\ Len(o.got) = Shorter(LineEnd(Left(rd)), m - 1)
<1> DEFINE n == m - 1
           s == Left(rd)
           e == LineEnd(s)
           a == Nothing(rd)
           D == {p \in Outcomes(B) : p.got \o Left(p.reader) = s}
           Turn(p) == IF Newline \in Range(p.got) THEN {p} ELSE More(p, 1)
           Eq(f) == f = [k \in 0 .. n |-> IF k = 0 THEN {a} ELSE UNION {Turn(p) : p \in f[k - 1]}]
           after == CHOOSE f : Eq(f)
           T == [p \in D |-> Turn(p)]
<1>1. rio_readlineb(rd, m) = after[n]
  BY DEF rio_readlineb, Turns
<1>2. n \in Nat /\ s \in Seq(B) /\ Len(s) \in Nat
  BY DEF Left, Readers
<1>3. a \in D /\ Len(a.got) = 0
  <2>1. \A b \in Seq(B) : <<>> \o b = b
    OBVIOUS
  <2>2. a \in Outcomes(B) /\ a.got = <<>> /\ a.reader = rd
    BY DEF Nothing, Outcomes
  <2>3. Len(a.got) = 0
    BY <2>2
  <2>4. a.got \o Left(a.reader) = s
    BY <1>2, <2>1, <2>2
  <2> HIDE DEF a, s
  <2> QED
    BY <2>2, <2>3, <2>4, Zenon
<1>4. ASSUME NEW p \in D
      PROVE  /\ p.got \in Seq(B) /\ Len(p.got) \in Nat /\ Len(p.got) <= Len(s)
             /\ \A i \in 1 .. Len(p.got) : p.got[i] = s[i]
  <2>1. p \in Outcomes(B) /\ p.got \o Left(p.reader) = s
    OBVIOUS
  <2> HIDE DEF D, s
  <2> QED
    BY <2>1, GotFacts
<1>5. ASSUME NEW p \in D, NEW q \in Turn(p)
      PROVE  /\ q \in D
             /\ q = p \/ GoesOn(B, 1, p, q)
             /\ Newline \in Range(p.got) => q = p
  <2>1. CASE Newline \in Range(p.got)
    BY <2>1
  <2>2. CASE Newline \notin Range(p.got)
    <3>1. p \in Outcomes(B) /\ p.got \o Left(p.reader) = s /\ q \in More(p, 1)
      BY <2>2
    <3> HIDE DEF D, s, Turn
    <3>2. GoesOn(B, 1, p, q)
      BY <3>1, MoreKeeps
    <3> QED
      BY <2>2, <3>1, <3>2 DEF GoesOn, D
  <2> QED
    BY <2>1, <2>2
<1>6. ASSUME NEW p \in D, NEW q \in Turn(p), Newline \notin Range(p.got)
       PROVE  GoesOn(B, 1, p, q)
  <2>1. p \in Outcomes(B) /\ q \in More(p, 1)
    BY <1>6
  <2> QED
    BY <2>1, MoreKeeps
<1> HIDE DEF Turn
<1>7. Eq(after)
  <2>1. T \in [D -> SUBSET D]
    BY <1>5
  <2>2. PICK g : Reached(g, D, T, a, n)
    <3> HIDE DEF T, D, a, n
    <3> QED
      BY <1>2, <1>3, <2>1, TurnsExist
  <2> HIDE DEF n
  <2>3. ASSUME NEW k \in 1 .. n
        PROVE  g[k] = UNION {Turn(p) : p \in g[k - 1]}
    <3>1. g[k - 1] \in SUBSET D
      BY <1>2, <2>2, <2>3 DEF Reached
    <3>2. \A p \in g[k - 1] : T[p] = Turn(p)
      <4> HIDE DEF D
      <4> QED
        BY <3>1
    <3> HIDE DEF T
    <3> QED
      BY <2>2, <3>2 DEF Onward, Reached
  <2>4. Eq(g)
    <3> HIDE DEF T, D, a
    <3>1. \A k \in 0 .. n : g[k] = IF k = 0 THEN {a} ELSE UNION {Turn(p) : p \in g[k - 1]}
      BY <1>2, <2>2, <2>3 DEF Reached
    <3>2. g = [k \in 0 .. n |-> g[k]]
      BY <2>2 DEF Reached
    <3> QED
      BY <3>1, <3>2
  <2> HIDE DEF Eq
  <2> QED
    BY <2>4
<1>8. /\ after[0] = {a}
      /\ \A k \in 1 .. n : after[k] = UNION {Turn(p) : p \in after[k - 1]}
  <2> HIDE DEF after, a, n
  <2>1. after = [k \in 0 .. n |-> IF k = 0 THEN {a} ELSE UNION {Turn(p) : p \in after[k - 1]}]
    BY <1>7
  <2>2. 0 \in 0 .. n /\ \A k \in 1 .. n : k \in 0 .. n /\ k # 0
    BY <1>2
  <2> QED
    BY <2>1, <2>2
<1> HIDE DEF after, Eq, a, n
<1> DEFINE Q == {k \in Nat : \A p \in after[k] : p \in D /\ Len(p.got) = Shorter(e, k)}
<1>9. /\ e \in Nat /\ e <= Len(s)
      /\ \A i \in 1 .. Len(s) : s[i] = Newline => e <= i
      /\ e # Len(s) => e \in 1 .. Len(s) /\ s[e] = Newline
  BY <1>2, LineEndFacts
<1> HIDE DEF D, s, e
<1>10. 0 \in Q
  <2>1. Shorter(e, 0) = 0
    BY <1>9 DEF Shorter
  <2> QED
    BY <1>3, <1>8, <2>1
<1>11. ASSUME NEW k \in 1 .. n, k - 1 \in Q PROVE k \in Q
  <2>1. ASSUME NEW q \in after[k]
        PROVE  q \in D /\ Len(q.got) = Shorter(e, k)
    <3>1. PICK p \in after[k - 1] : q \in Turn(p)
      BY <1>8
    <3>2. p \in D /\ Len(p.got) = Shorter(e, k - 1)
      BY <1>11
    <3>3. q \in D
      BY <1>5, <3>1, <3>2
    <3>4. /\ p.got \in Seq(B) /\ Len(p.got) \in Nat /\ Len(p.got) <= Len(s)
          /\ \A i \in 1 .. Len(p.got) : p.got[i] = s[i]
          /\ Len(q.got) \in Nat /\ Len(q.got) <= Len(s)
      BY <1>4, <3>2, <3>3
    <3>5. k \in Nat /\ k - 1 \in Nat
      BY <1>2
    <3>6. CASE Newline \in Range(p.got)
      <4>1. PICK i \in 1 .. Len(p.got) : p.got[i] = Newline
        BY <3>4, <3>6 DEF Range
      <4>2. e <= i /\ i <= Len(p.got)
        BY <1>2, <1>9, <3>4, <4>1
      <4>3. q = p
        BY <1>5, <3>1, <3>2, <3>6
      <4> QED
        BY <1>9, <3>2, <3>3, <3>4, <3>5, <4>2, <4>3 DEF Shorter
    <3>7. CASE Newline \notin Range(p.got)
      <4>1. GoesOn(B, 1, p, q)
        BY <1>6, <3>1, <3>2, <3>7
      <4>2. p.got \o Left(p.reader) = s
        BY <3>2 DEF D
      <4>3. /\ Len(q.got) <= Len(p.got) + 1 /\ Len(q.got) >= Len(p.got)
            /\ Len(p.got) < Len(s) => Len(q.got) > Len(p.got)
        BY <4>1, <4>2 DEF GoesOn
      <4>4. CASE Len(p.got) < e
        BY <1>2, <1>9, <3>2, <3>3, <3>4, <3>5, <4>3, <4>4 DEF Shorter
      <4>5. CASE ~ (Len(p.got) < e)
        <5>1. Len(p.got) = e /\ e <= k - 1
          BY <1>9, <3>2, <3>4, <3>5, <4>5 DEF Shorter
        <5>2. e = Len(s)
          <6>1. ASSUME e # Len(s) PROVE FALSE
            <7>1. e \in 1 .. Len(p.got) /\ p.got[e] = Newline
              BY <1>9, <3>4, <5>1, <6>1
            <7> QED
              BY <3>4, <3>7, <7>1 DEF Range
          <6> QED
            BY <6>1
        <5> QED
          BY <1>9, <3>3, <3>4, <3>5, <4>3, <5>1, <5>2 DEF Shorter
      <4> QED
        BY <4>4, <4>5
    <3> QED
      BY <3>6, <3>7
  <2> QED
    BY <1>2, <2>1
<1>12. n \in Q
  <2>1. Q \in SUBSET Nat
    OBVIOUS
  <2> HIDE DEF Q
  <2> QED
    BY <1>2, <1>10, <1>11, <2>1, UpTo
<1>13. o \in D /\ Len(o.got) = Shorter(e, n)
  BY <1>1, <1>12
<1> QED
  BY <1>13 DEF D, s, e, n

(* rio_writen writes every byte.                                           *)
LEMMA WholeIsWritten ==
  ASSUME NEW B, NEW bytes \in Seq(B), NEW out \in rio_writen(bytes)
  PROVE  out = bytes
<1> DEFINE n == Len(bytes)
           a == <<>>
           D == {Ahead(bytes, j) : j \in 0 .. n}
           Turn(x) == IF x = bytes THEN {x}
                      ELSE {Ahead(bytes, j) : j \in Len(x) + 1 .. n}
           Eq(f) == f = [k \in 0 .. n |-> IF k = 0 THEN {a} ELSE UNION {Turn(x) : x \in f[k - 1]}]
           after == CHOOSE f : Eq(f)
           T == [x \in D |-> Turn(x)]
<1>1. rio_writen(bytes) = after[n]
  BY DEF rio_writen, Turns
<1>2. n \in Nat
  OBVIOUS
<1>3. ASSUME NEW j \in 0 .. n
      PROVE  Ahead(bytes, j) \in Seq(B) /\ Len(Ahead(bytes, j)) = j
  BY CutInTwo DEF Shorter
<1>4. ASSUME NEW x \in D
      PROVE  Len(x) \in 0 .. n /\ x = Ahead(bytes, Len(x))
  BY <1>3
<1>5. Ahead(bytes, n) = bytes
  BY DEF Ahead, Shorter
<1>6. a \in D /\ Len(a) = 0
  BY DEF Ahead, Shorter
<1>7. ASSUME NEW x \in D, NEW y \in Turn(x)
      PROVE  y \in D /\ (y = bytes \/ Len(y) >= Len(x) + 1)
  <2>1. CASE x = bytes
    BY <2>1
  <2>2. CASE x # bytes
    <3>1. PICK j \in Len(x) + 1 .. n : y = Ahead(bytes, j)
      BY <2>2
    <3>2. j \in 0 .. n /\ j >= Len(x) + 1
      BY <1>4, <3>1
    <3> QED
      BY <1>3, <3>1, <3>2
  <2> QED
    BY <2>1, <2>2
<1> HIDE DEF Turn
<1>8. Eq(after)
  <2>1. T \in [D -> SUBSET D]
    BY <1>7
  <2>2. PICK g : Reached(g, D, T, a, n)
    <3> HIDE DEF T, D, a, n
    <3> QED
      BY <1>2, <1>6, <2>1, TurnsExist
  <2> HIDE DEF n
  <2>3. ASSUME NEW k \in 1 .. n
        PROVE  g[k] = UNION {Turn(x) : x \in g[k - 1]}
    <3>1. g[k - 1] \in SUBSET D
      BY <1>2, <2>2, <2>3 DEF Reached
    <3>2. \A x \in g[k - 1] : T[x] = Turn(x)
      <4> HIDE DEF D
      <4> QED
        BY <3>1
    <3> HIDE DEF T
    <3> QED
      BY <2>2, <3>2 DEF Onward, Reached
  <2>4. Eq(g)
    <3> HIDE DEF T, D, a
    <3>1. \A k \in 0 .. n : g[k] = IF k = 0 THEN {a} ELSE UNION {Turn(x) : x \in g[k - 1]}
      BY <1>2, <2>2, <2>3 DEF Reached
    <3>2. g = [k \in 0 .. n |-> g[k]]
      BY <2>2 DEF Reached
    <3> QED
      BY <3>1, <3>2
  <2> HIDE DEF Eq
  <2> QED
    BY <2>4
<1>9. /\ after[0] = {a}
      /\ \A k \in 1 .. n : after[k] = UNION {Turn(x) : x \in after[k - 1]}
  <2> HIDE DEF after, a, n
  <2>1. after = [k \in 0 .. n |-> IF k = 0 THEN {a} ELSE UNION {Turn(x) : x \in after[k - 1]}]
    BY <1>8
  <2>2. 0 \in 0 .. n /\ \A k \in 1 .. n : k \in 0 .. n /\ k # 0
    BY <1>2
  <2> QED
    BY <2>1, <2>2
<1> HIDE DEF after, Eq, a, n, D
<1> DEFINE Q == {k \in Nat : \A x \in after[k] : x \in D /\ (x = bytes \/ Len(x) >= k)}
<1>10. 0 \in Q
  BY <1>6, <1>9
<1>11. ASSUME NEW k \in 1 .. n, k - 1 \in Q PROVE k \in Q
  <2>1. ASSUME NEW y \in after[k]
        PROVE  y \in D /\ (y = bytes \/ Len(y) >= k)
    <3>1. PICK x \in after[k - 1] : y \in Turn(x)
      BY <1>9
    <3>2. x \in D /\ (x = bytes \/ Len(x) >= k - 1)
      BY <1>11
    <3>3. CASE x = bytes
      BY <3>1, <3>2, <3>3 DEF Turn
    <3>4. CASE x # bytes
      <4>1. y \in D /\ (y = bytes \/ Len(y) >= Len(x) + 1)
        BY <1>7, <3>1, <3>2
      <4>2. Len(x) \in Nat /\ Len(x) >= k - 1 /\ Len(y) \in Nat
        BY <1>2, <1>4, <3>2, <3>4, <4>1
      <4> QED
        BY <1>2, <4>1, <4>2
    <3> QED
      BY <3>3, <3>4
  <2> QED
    BY <1>2, <2>1
<1>12. n \in Q
  <2>1. Q \in SUBSET Nat
    OBVIOUS
  <2> HIDE DEF Q
  <2> QED
    BY <1>2, <1>10, <1>11, <2>1, UpTo
<1>13. out \in D /\ (out = bytes \/ Len(out) >= n)
  BY <1>1, <1>12
<1>14. Len(out) >= n => Len(out) = n
  BY <1>2, <1>4, <1>13
<1> QED
  BY <1>4, <1>5, <1>13, <1>14

-----------------------------------------------------------------------------
(* One reader over the life of its descriptor.                             *)
StreamByte == Nat \cup {Newline}

StreamInv == reader \in Readers(StreamByte) /\ got \in Seq(StreamByte)

LEMMA StreamsAreSequences ==
  ASSUME NEW s \in Streams
  PROVE  s \in Seq(StreamByte)
<1>1. PICK n \in 0 .. MaxStream : s \in [1 .. n -> (1 .. n) \cup {Newline}]
  BY DEF Streams
<1>2. n \in Nat /\ (1 .. n) \cup {Newline} \subseteq StreamByte
  BY StreamAssumption DEF StreamByte
<1>3. s \in [1 .. n -> StreamByte]
  BY <1>1, <1>2
<1> QED
  BY <1>2, <1>3

LEMMA StreamBegins == StreamInit => StreamInv
<1> SUFFICES ASSUME StreamInit PROVE StreamInv
  OBVIOUS
<1>1. PICK s \in Streams : reader = rio_readinitb(s)
  BY DEF StreamInit
<1>2. s \in Seq(StreamByte)
  BY StreamsAreSequences
<1>3. <<>> \in Seq(StreamByte)
  OBVIOUS
<1> QED
  BY <1>1, <1>2, <1>3 DEF StreamInit, StreamInv, Readers, rio_readinitb

(* A call returns what is expected, and leaves the rest.                   *)
Answers == /\ got' = got \o Expected
           /\ Left(reader') = Behind(Left(reader), Len(Expected))

LEMMA CallAnswers ==
  ASSUME StreamInv, NEW o \in Outcomes(StreamByte),
         o.got \o Left(o.reader) = Left(reader), Len(o.got) = Len(Expected),
         Expected = Ahead(Left(reader), Len(o.got)),
         got' = got \o o.got, reader' = o.reader
  PROVE  Answers /\ StreamInv'
<1>1. o.got \in Seq(StreamByte) /\ Left(o.reader) \in Seq(StreamByte)
  BY GotFacts
<1>2. o.got = Ahead(Left(reader), Len(o.got)) /\ Left(o.reader) = Behind(Left(reader), Len(o.got))
  BY <1>1, TwoParts
<1>3. Answers
  BY <1>2 DEF Answers
<1>4. o.reader \in Readers(StreamByte)
  BY DEF Outcomes
<1>5. got \o o.got \in Seq(StreamByte)
  BY <1>1 DEF StreamInv
<1>6. StreamInv'
  BY <1>4, <1>5 DEF StreamInv
<1> QED
  BY <1>3, <1>6

LEMMA StreamStep == StreamInv /\ StreamNext => Answers /\ StreamInv'
<1> SUFFICES ASSUME StreamInv, StreamNext PROVE Answers /\ StreamInv'
  OBVIOUS
<1> DEFINE s == Left(reader)
<1>1. /\ reader \in Readers(StreamByte) /\ s \in Seq(StreamByte) /\ Len(s) \in Nat
  BY DEF StreamInv, Left, Readers
<1>2. PICK n \in 1 .. MaxStream + 1 : \/ Call("line", n, rio_readlineb(reader, n))
                                      \/ Call("block", n, rio_readnb(reader, n))
  BY DEF StreamNext
<1>3. n \in Nat /\ n \in Nat \ {0} /\ n - 1 \in Nat
  BY StreamAssumption
<1>4. CASE Call("line", n, rio_readlineb(reader, n))
  <2>1. PICK o \in rio_readlineb(reader, n) : got' = got \o o.got /\ reader' = o.reader
    BY <1>4 DEF Call
  <2>2. asked' = [op |-> "line", n |-> n]
    BY <1>4 DEF Call
  <2>3. /\ o \in Outcomes(StreamByte) /\ o.got \o Left(o.reader) = Left(reader)
        /\ Len(o.got) = Shorter(LineEnd(s), n - 1)
    BY <1>1, <1>3, <2>1, LineIsNext
  <2>4. Expected = Ahead(s, Shorter(LineEnd(s), n - 1))
    <3>1. Expected = Line(s, n)
      BY <2>2 DEF Expected
    <3> QED
      BY <3>1 DEF Line, LineEnd
  <2>5. LineEnd(s) \in Nat /\ LineEnd(s) <= Len(s)
    BY <1>1, LineEndFacts
  <2> HIDE DEF s
  <2>6. /\ Shorter(LineEnd(s), n - 1) \in Nat
        /\ Shorter(Shorter(LineEnd(s), n - 1), Len(s)) = Shorter(LineEnd(s), n - 1)
    BY <1>1, <1>3, <2>5 DEF Shorter
  <2>7. Len(Expected) = Shorter(LineEnd(s), n - 1)
    BY <1>1, <2>4, <2>6, CutInTwo
  <2> QED
    BY <2>1, <2>3, <2>4, <2>7, CallAnswers DEF s
<1>5. CASE Call("block", n, rio_readnb(reader, n))
  <2>1. PICK o \in rio_readnb(reader, n) : got' = got \o o.got /\ reader' = o.reader
    BY <1>5 DEF Call
  <2>2. asked' = [op |-> "block", n |-> n]
    BY <1>5 DEF Call
  <2>3. /\ o \in Outcomes(StreamByte) /\ o.got \o Left(o.reader) = Left(reader)
        /\ Len(o.got) = Shorter(n, Len(s))
    BY <1>1, <1>3, <2>1, BlockIsNext
  <2>4. Expected = Ahead(s, n)
    BY <2>2 DEF Expected
  <2>5. Len(Expected) = Shorter(n, Len(s))
    BY <1>1, <1>3, <2>4, CutInTwo
  <2>6. Expected = Ahead(s, Shorter(n, Len(s)))
    BY <1>1, <1>3, <2>4 DEF Ahead, Shorter
  <2> QED
    BY <2>1, <2>3, <2>5, <2>6, CallAnswers DEF s
<1> QED
  BY <1>2, <1>4, <1>5

(* StreamsIntact: in whatever pieces the kernel hands over the bytes, a    *)
(* line is the bytes through the first newline or as many as fit, a block  *)
(* the bytes asked for or all there are, and the next call goes on behind  *)
(* them.                                                                   *)
THEOREM ReadersLoseNothing == LabSpec => StreamsIntact
<1>1. LabInit => StreamInv
  BY StreamBegins DEF LabInit
<1>2. StreamInv /\ [LabNext]_<<requestVars, streamVars, uri, part>>
        => /\ StreamInv'
           /\ Answers \/ UNCHANGED streamVars
  <2> SUFFICES ASSUME StreamInv, [LabNext]_<<requestVars, streamVars, uri, part>>
               PROVE  StreamInv' /\ (Answers \/ UNCHANGED streamVars)
    OBVIOUS
  <2>1. CASE StreamNext
    BY <2>1, StreamStep
  <2>2. CASE UNCHANGED streamVars
    BY <2>2 DEF StreamInv, streamVars
  <2> QED
    BY <2>1, <2>2 DEF LabNext, Requesting, Reading, Spelling
<1>3. StreamInv /\ [LabNext]_<<requestVars, streamVars, uri, part>> => [Answers]_streamVars
  BY <1>2
<1>4. LabSpec => []StreamInv
  BY <1>1, <1>2, PTL DEF LabSpec
<1>5. LabSpec => [][Answers]_streamVars
  BY <1>3, <1>4, PTL DEF LabSpec
<1> QED
  BY <1>5 DEF StreamsIntact, Answers

-----------------------------------------------------------------------------
(* The relays of send_request and what they leave in the cache: what has   *)
(* been sent and what is still to come is the response, and a response     *)
(* that strcat cannot cut comes in one piece.                              *)
RelayByte == Nat \cup {Nul, Unknown}

Relays == [on : BOOLEAN, server : Readers(RelayByte), response : Seq(RelayByte),
           cache_content : Seq(RelayByte), total : Nat, sent : Seq(RelayByte),
           whole : Seq(RelayByte)]

Cacheable(s) == Nul \notin Range(s) /\ Len(s) <= MAXBUF

RelaySound(c) ==
  /\ c.on => /\ c.sent \o Left(c.server) = c.whole /\ c.total = Len(c.sent)
             /\ Len(c.whole) \in RespLengths
  /\ Cacheable(c.whole)
       => \/ c.sent = <<>> /\ c.cache_content = <<>>
          \/ c.sent = c.whole /\ (c.total < MAX_OBJECT_SIZE => Copied(c) = c.whole)

RelayInv ==
  /\ conn \in [Workers -> Relays]
  /\ content \in [Nodes -> Seq(RelayByte)] /\ answered \in [Nodes -> Seq(RelayByte)]
  /\ \A w \in Workers : RelaySound(conn[w])
  /\ TextIsCached

LEMMA RelayTypes ==
  ASSUME NEW c \in Relays
  PROVE  /\ c.on \in BOOLEAN /\ c.server \in Readers(RelayByte) /\ c.total \in Nat
         /\ c.response \in Seq(RelayByte) /\ c.cache_content \in Seq(RelayByte)
         /\ c.sent \in Seq(RelayByte) /\ c.whole \in Seq(RelayByte)
         /\ Left(c.server) \in Seq(RelayByte)
<1>1. c.server \in [buf : Seq(RelayByte), rest : Seq(RelayByte)]
  BY DEF Relays, Readers
<1>2. c.server.buf \in Seq(RelayByte) /\ c.server.rest \in Seq(RelayByte)
  BY <1>1
<1>3. c.server.buf \o c.server.rest \in Seq(RelayByte)
  BY <1>2
<1> QED
  BY <1>3 DEF Relays, Left

LEMMA ResponsesAreSequences ==
  ASSUME NEW s \in Responses
  PROVE  s \in Seq(RelayByte) /\ Len(s) \in RespLengths
<1>1. PICK n \in RespLengths, z \in NulAt : s = [i \in 1 .. n |-> IF i = z THEN Nul ELSE i]
  BY DEF Responses
<1>2. n \in Nat
  BY RequestAssumption
<1>3. s \in [1 .. n -> RelayByte]
  BY <1>1, <1>2 DEF RelayByte
<1> QED
  BY <1>2, <1>3

LEMMA NoRelayIsSound == NoRelay \in Relays /\ RelaySound(NoRelay)
<1>1. <<>> \in Seq(RelayByte) /\ 0 \in Nat
  OBVIOUS
<1>2. NoRelay \in Relays
  BY <1>1 DEF NoRelay, Relays, Readers, rio_readinitb
<1>3. NoRelay.on = FALSE /\ NoRelay.sent = <<>> /\ NoRelay.cache_content = <<>>
  BY DEF NoRelay
<1> QED
  BY <1>2, <1>3 DEF RelaySound

LEMMA DialedIsSound ==
  ASSUME NEW s \in Responses
  PROVE  LET c == [NoRelay EXCEPT !.on = TRUE, !.whole = s, !.server = rio_readinitb(s),
                                  !.response = [i \in 1 .. MAXBUF |-> Unknown]]
         IN  c \in Relays /\ RelaySound(c)
<1> DEFINE room == [i \in 1 .. MAXBUF |-> Unknown]
           c == [NoRelay EXCEPT !.on = TRUE, !.whole = s, !.server = rio_readinitb(s),
                                !.response = room]
<1>1. s \in Seq(RelayByte) /\ Len(s) \in RespLengths /\ <<>> \in Seq(RelayByte)
  BY ResponsesAreSequences
<1>2. room \in Seq(RelayByte)
  <2>1. room \in [1 .. MAXBUF -> RelayByte] /\ MAXBUF \in Nat
    BY RequestAssumption DEF RelayByte
  <2> HIDE DEF room
  <2> QED
    BY <2>1
<1> HIDE DEF room
<1>3. rio_readinitb(s) \in Readers(RelayByte) /\ Left(rio_readinitb(s)) = s
  BY <1>1 DEF Readers, rio_readinitb, Left
<1> DEFINE ri == rio_readinitb(s)
           c1 == [NoRelay EXCEPT !.on = TRUE]
           c2 == [c1 EXCEPT !.whole = s]
           c3 == [c2 EXCEPT !.server = ri]
<1>4. NoRelay \in Relays /\ NoRelay.sent = <<>> /\ NoRelay.cache_content = <<>> /\ NoRelay.total = 0
  BY NoRelayIsSound DEF NoRelay
<1> HIDE DEF ri
<1>5. c1 \in Relays /\ c1.sent = <<>> /\ c1.cache_content = <<>> /\ c1.total = 0
  BY <1>4 DEF Relays
<1> HIDE DEF c1
<1>6. /\ c2 \in Relays /\ c2.sent = <<>> /\ c2.cache_content = <<>> /\ c2.total = 0
       /\ c2.whole = s
  BY <1>1, <1>5 DEF Relays
<1> HIDE DEF c2
<1>7. /\ c3 \in Relays /\ c3.sent = <<>> /\ c3.cache_content = <<>> /\ c3.total = 0
       /\ c3.whole = s /\ c3.server = ri
  BY <1>3, <1>6 DEF Relays, ri
<1>8. c = [c3 EXCEPT !.response = room]
  BY DEF ri, c1, c2
<1> HIDE DEF c, c3
<1>9. /\ c \in Relays /\ c.sent = <<>> /\ c.cache_content = <<>> /\ c.total = 0
      /\ c.whole = s /\ c.server = ri
  BY <1>2, <1>7, <1>8 DEF Relays
<1>10. c.server = rio_readinitb(s)
  BY <1>9 DEF ri
<1>11. c.sent \o Left(c.server) = c.whole
  BY <1>1, <1>3, <1>9, <1>10
<1>12. Len(c.sent) = 0
  BY <1>9
<1>13. Len(c.whole) \in RespLengths
  BY <1>1, <1>9
<1> QED
  BY <1>9, <1>10, <1>11, <1>12, <1>13 DEF RelaySound, room, c

(* strcat takes what was read, if there is no zero byte in it, and may go  *)
(* on behind it.                                                           *)
LEMMA TextFacts ==
  ASSUME NEW c \in Relays, NEW g \in Seq(RelayByte), NEW text \in Text(c, g)
  PROVE  /\ text \in Seq(RelayByte)
         /\ Nul \notin Range(g) => /\ Len(text) >= Len(g)
                                   /\ \A i \in 1 .. Len(g) : text[i] = g[i]
<1> DEFINE array == Overlay(g, Overlay(<<Nul>>, c.response))
           e == First(array, Nul)
           P == {i \in 1 .. Len(array) : array[i] = Nul} \cup {Len(array) + 1}
<1>1. <<Nul>> \in Seq(RelayByte)
  BY DEF RelayByte
<1>2. ASSUME NEW x \in Seq(RelayByte), NEW y \in Seq(RelayByte)
      PROVE  /\ Overlay(x, y) \in Seq(RelayByte) /\ Len(Overlay(x, y)) >= Len(x)
             /\ \A i \in 1 .. Len(x) : Overlay(x, y)[i] = x[i]
  <2>1. Behind(y, Len(x)) \in Seq(RelayByte)
    BY CutInTwo
  <2>2. \A a, b \in Seq(RelayByte) : /\ a \o b \in Seq(RelayByte) /\ Len(a \o b) >= Len(a)
                                     /\ \A i \in 1 .. Len(a) : (a \o b)[i] = a[i]
    OBVIOUS
  <2> QED
    BY <2>1, <2>2 DEF Overlay
<1>3. /\ array \in Seq(RelayByte) /\ Len(array) \in Nat /\ Len(g) \in Nat
      /\ Len(array) >= Len(g) /\ \A i \in 1 .. Len(g) : array[i] = g[i]
  <2>1. c.response \in Seq(RelayByte) /\ Len(g) \in Nat
    BY RelayTypes
  <2>2. Overlay(<<Nul>>, c.response) \in Seq(RelayByte)
    BY <1>1, <1>2, <2>1
  <2>3. /\ array \in Seq(RelayByte) /\ Len(array) >= Len(g)
        /\ \A i \in 1 .. Len(g) : array[i] = g[i]
    BY <1>2, <2>2
  <2> HIDE DEF array
  <2> QED
    BY <2>1, <2>3
<1> HIDE DEF array
<1>4. e \in P /\ \A y \in P : e <= y
  <2>1. P \in SUBSET Nat /\ P # {}
    BY <1>3
  <2>2. \E x \in P : \A y \in P : x <= y
    <3> HIDE DEF P
    <3> QED
      BY <2>1, LeastNat
  <2>3. Min(P) \in P /\ \A y \in P : Min(P) <= y
    <3> HIDE DEF P
    <3> QED
      BY <2>2 DEF Min
  <2> QED
    BY <2>3 DEF First
<1>5. text \in CString(array)
  BY DEF Text, array
<1>6. e \in Nat /\ e >= 1 /\ e <= Len(array) + 1
  BY <1>3, <1>4
<1>7. ASSUME Nul \notin Range(g) PROVE e > Len(g)
  <2>1. CASE e = Len(array) + 1
    BY <1>3, <2>1
  <2>2. CASE e # Len(array) + 1
    <3>1. e \in 1 .. Len(array) /\ array[e] = Nul
      BY <1>4, <2>2
    <3>2. ASSUME e <= Len(g) PROVE FALSE
      <4>1. e \in 1 .. Len(g) /\ g[e] = Nul
        BY <1>3, <1>6, <3>1, <3>2
      <4> QED
        BY <1>7, <4>1 DEF Range
    <3> QED
      BY <1>3, <1>6, <3>2
  <2> QED
    BY <2>1, <2>2
<1> HIDE DEF e, P
<1>8. CASE e <= Len(array)
  <2>1. text = SubSeq(array, 1, e - 1)
    BY <1>5, <1>8 DEF CString, e
  <2>2. /\ text \in Seq(RelayByte) /\ Len(text) = e - 1
        /\ \A i \in 1 .. e - 1 : text[i] = array[i]
    BY <1>3, <1>6, <1>8, <2>1
  <2>3. ASSUME Nul \notin Range(g)
        PROVE  Len(text) >= Len(g) /\ \A i \in 1 .. Len(g) : text[i] = g[i]
    <3>1. Len(g) <= e - 1
      BY <1>3, <1>6, <1>7, <2>3
    <3> QED
      BY <1>3, <1>6, <2>2, <3>1
  <2> QED
    BY <2>2, <2>3
<1>9. CASE ~ (e <= Len(array))
  <2>1. text = array \/ text = Append(array, Unknown)
    BY <1>5, <1>9 DEF CString, e
  <2>2. Unknown \in RelayByte
    BY DEF RelayByte
  <2>3. /\ text \in Seq(RelayByte) /\ Len(text) >= Len(array)
        /\ \A i \in 1 .. Len(array) : text[i] = array[i]
    <3>1. \A a \in Seq(RelayByte) : \A b \in RelayByte :
             /\ Append(a, b) \in Seq(RelayByte) /\ Len(Append(a, b)) = Len(a) + 1
             /\ \A i \in 1 .. Len(a) : Append(a, b)[i] = a[i]
      OBVIOUS
    <3>2. CASE text = array
      BY <1>3, <3>2
    <3>3. CASE text = Append(array, Unknown)
      BY <1>3, <2>2, <3>1, <3>3
    <3> QED
      BY <2>1, <3>2, <3>3
  <2> QED
    BY <1>3, <2>3
<1> QED
  BY <1>8, <1>9

(* A piece that is relayed.                                                *)
Relayed(c, o, text, bytes) ==
  [c EXCEPT !.server = o.reader,
            !.response = Overlay(o.got, Overlay(<<Nul>>, @)),
            !.total = @ + Len(o.got),
            !.cache_content = IF c.total + Len(o.got) < MAX_OBJECT_SIZE
                              THEN @ \o text ELSE @,
            !.sent = @ \o bytes]

LEMMA RelayedFields ==
  ASSUME NEW c \in Relays, NEW o \in Outcomes(RelayByte),
         NEW text \in Seq(RelayByte), NEW bytes \in Seq(RelayByte)
  PROVE  LET r == Relayed(c, o, text, bytes)
         IN  /\ r \in Relays /\ r.on = c.on /\ r.whole = c.whole
             /\ r.server = o.reader /\ r.total = c.total + Len(o.got)
             /\ r.sent = c.sent \o bytes
             /\ r.cache_content = IF c.total + Len(o.got) < MAX_OBJECT_SIZE
                                  THEN c.cache_content \o text ELSE c.cache_content
<1>1. /\ o.got \in Seq(RelayByte) /\ o.reader \in Readers(RelayByte) /\ Len(o.got) \in Nat
  BY DEF Outcomes
<1>2. /\ c.response \in Seq(RelayByte) /\ c.cache_content \in Seq(RelayByte)
      /\ c.sent \in Seq(RelayByte) /\ c.total \in Nat
  BY RelayTypes
<1> DEFINE room == Overlay(o.got, Overlay(<<Nul>>, c.response))
           total == c.total + Len(o.got)
           kept == IF total < MAX_OBJECT_SIZE THEN c.cache_content \o text
                   ELSE c.cache_content
           sent == c.sent \o bytes
<1>3. room \in Seq(RelayByte)
  <2>1. <<Nul>> \in Seq(RelayByte)
    BY DEF RelayByte
  <2>2. \A x, y \in Seq(RelayByte) : Overlay(x, y) \in Seq(RelayByte)
    <3>1. \A x, y \in Seq(RelayByte) : Behind(y, Len(x)) \in Seq(RelayByte)
      BY CutInTwo
    <3>2. \A x, y \in Seq(RelayByte) : x \o y \in Seq(RelayByte)
      OBVIOUS
    <3> QED
      BY <3>1, <3>2 DEF Overlay
  <2> QED
    BY <1>1, <1>2, <2>1, <2>2
<1>4. kept \in Seq(RelayByte) /\ sent \in Seq(RelayByte) /\ total \in Nat
  <2>1. \A x, y \in Seq(RelayByte) : x \o y \in Seq(RelayByte)
    OBVIOUS
  <2> QED
    BY <1>1, <1>2, <2>1
<1> DEFINE c1 == [c EXCEPT !.server = o.reader]
           c2 == [c1 EXCEPT !.response = room]
           c3 == [c2 EXCEPT !.total = total]
           c4 == [c3 EXCEPT !.cache_content = kept]
           r == [c4 EXCEPT !.sent = sent]
<1>5. Relayed(c, o, text, bytes) = r
  BY DEF Relayed, Relays
<1> HIDE DEF room, total, kept, sent
<1>6. /\ c1 \in Relays /\ c1.on = c.on /\ c1.whole = c.whole /\ c1.server = o.reader
  BY <1>1 DEF Relays
<1> HIDE DEF c1
<1>7. /\ c2 \in Relays /\ c2.on = c.on /\ c2.whole = c.whole /\ c2.server = o.reader
  BY <1>3, <1>6 DEF Relays
<1> HIDE DEF c2
<1>8. /\ c3 \in Relays /\ c3.on = c.on /\ c3.whole = c.whole /\ c3.server = o.reader
      /\ c3.total = total
  BY <1>4, <1>7 DEF Relays
<1> HIDE DEF c3
<1>9. /\ c4 \in Relays /\ c4.on = c.on /\ c4.whole = c.whole /\ c4.server = o.reader
      /\ c4.total = total /\ c4.cache_content = kept
  BY <1>4, <1>8 DEF Relays
<1> HIDE DEF c4
<1>10. /\ r \in Relays /\ r.on = c.on /\ r.whole = c.whole /\ r.server = o.reader
       /\ r.total = total /\ r.cache_content = kept /\ r.sent = sent
  BY <1>4, <1>9 DEF Relays
<1> QED
  BY <1>5, <1>10 DEF total, kept, sent

LEMMA RelayedIsSound ==
  ASSUME NEW c \in Relays, c.on, RelaySound(c),
         NEW o \in rio_readnb(c.server, MAXBUF), o.got # <<>>,
         NEW text \in Text(c, o.got), NEW bytes \in Written(c, o.got)
  PROVE  /\ Relayed(c, o, text, bytes) \in Relays
         /\ RelaySound(Relayed(c, o, text, bytes))
<1> DEFINE r == Relayed(c, o, text, bytes)
           s == c.whole
           g == o.got
<1>1. /\ c.server \in Readers(RelayByte) /\ c.sent \in Seq(RelayByte)
      /\ c.cache_content \in Seq(RelayByte) /\ s \in Seq(RelayByte)
      /\ Left(c.server) \in Seq(RelayByte) /\ c.total \in Nat
  BY RelayTypes
<1>2. /\ o \in Outcomes(RelayByte) /\ g \o Left(o.reader) = Left(c.server)
      /\ Len(g) = Shorter(MAXBUF, Len(Left(c.server)))
  BY <1>1, RequestAssumption, BlockIsNext
<1>3. g \in Seq(RelayByte) /\ Left(o.reader) \in Seq(RelayByte) /\ Len(g) \in Nat
  BY <1>2, GotFacts
<1>4. bytes = g
  BY <1>3, WholeIsWritten DEF Written
<1>5. /\ text \in Seq(RelayByte)
      /\ Nul \notin Range(g) => /\ Len(text) >= Len(g)
                                /\ \A i \in 1 .. Len(g) : text[i] = g[i]
  BY <1>3, TextFacts
<1>6. /\ r \in Relays /\ r.on = c.on /\ r.whole = s
      /\ r.server = o.reader /\ r.total = c.total + Len(g)
      /\ r.sent = c.sent \o g
      /\ r.cache_content = IF c.total + Len(g) < MAX_OBJECT_SIZE
                           THEN c.cache_content \o text ELSE c.cache_content
  <2>1. bytes \in Seq(RelayByte)
    BY <1>3, <1>4
  <2>2. /\ r \in Relays /\ r.on = c.on /\ r.whole = c.whole
        /\ r.server = o.reader /\ r.total = c.total + Len(o.got)
        /\ r.sent = c.sent \o bytes
        /\ r.cache_content = IF c.total + Len(o.got) < MAX_OBJECT_SIZE
                             THEN c.cache_content \o text ELSE c.cache_content
    <3> HIDE DEF s, g
    <3> QED
      BY <1>2, <1>5, <2>1, RelayedFields
  <2> HIDE DEF r
  <2> QED
    BY <1>4, <2>2
<1>7. c.sent \o Left(c.server) = s /\ c.total = Len(c.sent) /\ Len(s) \in RespLengths
  BY DEF RelaySound
<1> HIDE DEF r, s, g
<1>8. r.sent \o Left(r.server) = r.whole /\ r.total = Len(r.sent)
  <2>1. \A x, y, z \in Seq(RelayByte) : (x \o y) \o z = x \o (y \o z)
    BY Joined
  <2>2. (c.sent \o g) \o Left(o.reader) = c.sent \o (g \o Left(o.reader))
    BY <1>1, <1>3, <2>1, Zenon
  <2>3. \A x, y \in Seq(RelayByte) : Len(x \o y) = Len(x) + Len(y)
    OBVIOUS
  <2>4. Len(c.sent \o g) = Len(c.sent) + Len(g)
    BY <1>1, <1>3, <2>3, Zenon
  <2> QED
    BY <1>2, <1>6, <1>7, <2>2, <2>4
<1>9. ASSUME Cacheable(s)
      PROVE  r.sent = s /\ (r.total < MAX_OBJECT_SIZE => Copied(r) = s)
  <2>1. c.sent = <<>> /\ c.cache_content = <<>>
    <3>1. CASE c.sent = <<>> /\ c.cache_content = <<>>
      BY <3>1
    <3>2. CASE c.sent = s
      <4>1. \A x, y \in Seq(RelayByte) : Len(x \o y) = Len(x) + Len(y) /\ Len(x) \in Nat /\ Len(y) \in Nat
        OBVIOUS
      <4>2. Len(s) = Len(s) + Len(Left(c.server)) /\ Len(s) \in Nat /\ Len(Left(c.server)) \in Nat
        BY <1>1, <1>7, <3>2, <4>1
      <4>3. Len(g) = 0
        BY <1>2, <1>3, <4>2, RequestAssumption DEF Shorter
      <4>4. g = <<>>
        BY <1>3, <4>3
      <4> QED
        BY <4>4 DEF g
    <3> QED
      BY <1>9, <3>1, <3>2 DEF RelaySound, s
  <2>2. Left(c.server) = s
    <3>1. \A x \in Seq(RelayByte) : <<>> \o x = x
      OBVIOUS
    <3> QED
      BY <1>1, <1>7, <2>1, <3>1
  <2>3. Len(s) \in Nat /\ Len(s) <= MAXBUF /\ Nul \notin Range(s)
    BY <1>1, <1>9 DEF Cacheable
  <2>4. Len(g) = Len(s)
    BY <1>2, <2>2, <2>3, RequestAssumption DEF Shorter
  <2>5. g = s
    <3>1. g = Ahead(g \o Left(o.reader), Len(g))
      BY <1>3, TwoParts
    <3>2. g = Ahead(s, Len(s))
      BY <1>2, <2>2, <2>4, <3>1
    <3>3. Ahead(s, Len(s)) = s
      BY <1>1, <2>3 DEF Ahead, Shorter
    <3> QED
      BY <3>2, <3>3
  <2>6. r.sent = s
    <3>1. \A x \in Seq(RelayByte) : <<>> \o x = x
      OBVIOUS
    <3> QED
      BY <1>1, <1>6, <2>1, <2>5, <3>1
  <2>7. ASSUME r.total < MAX_OBJECT_SIZE PROVE Copied(r) = s
    <3>1. r.total = Len(s)
      BY <1>8, <2>6
    <3>2. r.cache_content = text
      <4>1. \A x \in Seq(RelayByte) : <<>> \o x = x
        OBVIOUS
      <4> QED
        BY <1>5, <1>6, <2>1, <2>7, <4>1
    <3>3. Len(text) \in Nat /\ Len(text) >= Len(s) /\ \A i \in 1 .. Len(s) : text[i] = s[i]
      BY <1>5, <2>3, <2>5
    <3>4. Copied(r) = [i \in 1 .. Len(s) |-> s[i]]
      <4>1. \A i \in 1 .. Len(s) : i <= Len(text)
        BY <2>3, <3>3
      <4> QED
        BY <3>1, <3>2, <3>3, <4>1 DEF Copied
    <3> QED
      BY <1>1, <3>4
  <2> QED
    BY <2>6, <2>7
<1>10. RelaySound(r)
  BY <1>6, <1>7, <1>8, <1>9 DEF RelaySound
<1> QED
  BY <1>6, <1>10 DEF r

(* When no more comes, all has been sent, and what put_cache_item copies   *)
(* is the response, unless strcat has cut it.                              *)
LEMMA FinishedIsWhole ==
  ASSUME NEW c \in Relays, c.on, RelaySound(c),
         NEW o \in rio_readnb(c.server, MAXBUF), o.got = <<>>
  PROVE  /\ c.sent = c.whole /\ c.total = Len(c.whole) /\ Len(c.whole) \in RespLengths
         /\ Copied(c) \in Seq(RelayByte)
         /\ Cacheable(c.whole) /\ c.total < MAX_OBJECT_SIZE => Copied(c) = c.whole
<1> DEFINE left == Left(c.server)
<1>1. /\ c.server \in Readers(RelayByte) /\ c.sent \in Seq(RelayByte)
      /\ c.cache_content \in Seq(RelayByte) /\ c.whole \in Seq(RelayByte)
      /\ left \in Seq(RelayByte) /\ c.total \in Nat
  BY RelayTypes
<1>2. Len(o.got) = Shorter(MAXBUF, Len(left))
  BY <1>1, RequestAssumption, BlockIsNext
<1>3. c.sent \o left = c.whole /\ c.total = Len(c.sent) /\ Len(c.whole) \in RespLengths
  BY DEF RelaySound
<1> HIDE DEF left
<1>4. left = <<>>
  <2>1. Len(left) = 0
    BY <1>1, <1>2, RequestAssumption DEF Shorter
  <2> QED
    BY <1>1, <2>1
<1>5. c.sent = c.whole
  <2>1. \A x \in Seq(RelayByte) : x \o <<>> = x
    OBVIOUS
  <2> QED
    BY <1>1, <1>3, <1>4, <2>1
<1>6. Copied(c) \in Seq(RelayByte)
  <2>1. \A i \in 1 .. c.total : i <= Len(c.cache_content) => c.cache_content[i] \in RelayByte
    BY <1>1
  <2>2. Copied(c) \in [1 .. c.total -> RelayByte]
    BY <2>1 DEF Copied, RelayByte
  <2> QED
    BY <1>1, <2>2
<1>7. ASSUME Cacheable(c.whole), c.total < MAX_OBJECT_SIZE
      PROVE  Copied(c) = c.whole
  <2>1. CASE c.sent = <<>> /\ c.cache_content = <<>>
    <3>1. c.total = 0
      BY <1>3, <2>1
    <3>2. Copied(c) = <<>>
      BY <3>1 DEF Copied
    <3> QED
      BY <1>5, <2>1, <3>2
  <2>2. CASE ~ (c.sent = <<>> /\ c.cache_content = <<>>)
    BY <1>7, <2>2 DEF RelaySound
  <2> QED
    BY <2>1, <2>2
<1> QED
  BY <1>3, <1>5, <1>6, <1>7

-----------------------------------------------------------------------------
LEMMA RequestsBegin == RequestInit => RelayInv
<1> SUFFICES ASSUME RequestInit PROVE RelayInv
  OBVIOUS
<1>1. /\ conn = [w \in Workers |-> NoRelay] /\ content = [n \in Nodes |-> <<>>]
      /\ answered = [n \in Nodes |-> <<>>]
  BY DEF RequestInit
<1>2. <<>> \in Seq(RelayByte)
  OBVIOUS
<1>3. conn \in [Workers -> Relays] /\ \A w \in Workers : RelaySound(conn[w])
  BY <1>1, NoRelayIsSound
<1>4. TextIsCached
  BY <1>1 DEF TextIsCached
<1> QED
  BY <1>1, <1>2, <1>3, <1>4 DEF RelayInv

(* One relay changes, and it is sound.                                     *)
LEMMA OneRelay ==
  ASSUME RelayInv, NEW w \in Workers, NEW c \in Relays, RelaySound(c),
         conn' = [conn EXCEPT ![w] = c]
  PROVE  /\ conn' \in [Workers -> Relays] /\ \A v \in Workers : RelaySound(conn'[v])
         /\ \A v \in Workers : v # w => conn'[v] = conn[v]
         /\ conn'[w] = c
BY DEF RelayInv

(* A relay that ends has sent the response.                                *)
SentWhole == \A w \in Workers : conn[w].on /\ ~conn'[w].on
                                  => conn[w].sent = conn[w].whole

Kept == UNCHANGED <<conn, content, answered>>

LEMMA KeptIsSound == RelayInv /\ Kept => RelayInv' /\ SentWhole
BY DEF RelayInv, Kept, SentWhole, TextIsCached

LEMMA DialStep ==
  ASSUME RelayInv, NEW w \in Workers, Dial(w)
  PROVE  RelayInv' /\ SentWhole
<1>1. PICK s \in Responses :
        conn' = [conn EXCEPT ![w] =
                   [NoRelay EXCEPT !.on = TRUE, !.whole = s, !.server = rio_readinitb(s),
                                   !.response = [i \in 1 .. MAXBUF |-> Unknown]]]
  BY DEF Dial
<1> DEFINE c == [NoRelay EXCEPT !.on = TRUE, !.whole = s, !.server = rio_readinitb(s),
                                !.response = [i \in 1 .. MAXBUF |-> Unknown]]
<1>2. c \in Relays /\ RelaySound(c)
  BY DialedIsSound
<1>3. conn' = [conn EXCEPT ![w] = c]
  BY <1>1
<1> HIDE DEF c
<1>4. /\ conn' \in [Workers -> Relays] /\ \A v \in Workers : RelaySound(conn'[v])
      /\ \A v \in Workers : v # w => conn'[v] = conn[v]
  BY <1>2, <1>3, OneRelay
<1>5. conn[w].on = FALSE /\ content' = content /\ answered' = answered
  BY DEF Dial, Fetching
<1> QED
  BY <1>4, <1>5 DEF RelayInv, SentWhole, TextIsCached

LEMMA RelayStep ==
  ASSUME RelayInv, NEW w \in Workers, Relay(w)
  PROVE  RelayInv' /\ SentWhole
<1> DEFINE c == conn[w]
<1>1. c \in Relays /\ RelaySound(c)
  BY DEF RelayInv
<1>2. c.on = TRUE /\ content' = content /\ answered' = answered
  BY DEF Relay, Fetching
<1>3. PICK o \in rio_readnb(c.server, MAXBUF) :
      \E text \in Text(c, o.got), bytes \in Written(c, o.got) :
        o.got # <<>> /\ conn' = [conn EXCEPT ![w] = Relayed(c, o, text, bytes)]
  BY DEF Relay, Relayed
<1>4. PICK text \in Text(c, o.got), bytes \in Written(c, o.got) :
        o.got # <<>> /\ conn' = [conn EXCEPT ![w] = Relayed(c, o, text, bytes)]
  BY <1>3
<1> DEFINE r == Relayed(c, o, text, bytes)
<1>5. r \in Relays /\ RelaySound(r)
  <2> HIDE DEF c
  <2> QED
    BY <1>1, <1>2, <1>4, RelayedIsSound
<1>6. r.on = c.on
  BY <1>1 DEF Relayed, Relays
<1>7. conn' = [conn EXCEPT ![w] = r]
  BY <1>4
<1> HIDE DEF c, r
<1>8. /\ conn' \in [Workers -> Relays] /\ \A v \in Workers : RelaySound(conn'[v])
      /\ \A v \in Workers : v # w => conn'[v] = conn[v]
      /\ conn'[w] = r
  BY <1>5, <1>7, OneRelay
<1> QED
  BY <1>2, <1>6, <1>8 DEF RelayInv, SentWhole, TextIsCached

LEMMA FinishStep ==
  ASSUME RelayInv, NEW w \in Workers, Finish(w)
  PROVE  RelayInv' /\ SentWhole
<1> DEFINE c == conn[w]
<1>1. c \in Relays /\ RelaySound(c) /\ c.on
  BY DEF RelayInv, Finish, Fetching
<1>2. PICK o \in rio_readnb(c.server, MAXBUF) : o.got = <<>>
  BY DEF Finish
<1>3. /\ c.sent = c.whole /\ Copied(c) \in Seq(RelayByte)
      /\ Cacheable(c.whole) /\ c.total < MAX_OBJECT_SIZE => Copied(c) = c.whole
  <2> HIDE DEF c
  <2> QED
    BY <1>1, <1>2, FinishedIsWhole
<1>4. conn' = [conn EXCEPT ![w] = NoRelay]
  BY DEF Finish
<1>5. /\ conn' \in [Workers -> Relays] /\ \A v \in Workers : RelaySound(conn'[v])
      /\ \A v \in Workers : v # w => conn'[v] = conn[v]
  BY <1>4, NoRelayIsSound, OneRelay
<1>6. SentWhole
  BY <1>3, <1>5 DEF SentWhole
<1>7. CASE UNCHANGED <<content, answered>>
  BY <1>5, <1>6, <1>7 DEF RelayInv, TextIsCached
<1>8. CASE \E n \in Malloc :
              /\ Put(w, n, c.total)
              /\ content' = [content EXCEPT ![n] = Copied(c)]
              /\ answered' = [answered EXCEPT ![n] = c.whole]
  <2>1. PICK n \in Malloc : /\ Put(w, n, c.total)
                            /\ content' = [content EXCEPT ![n] = Copied(c)]
                            /\ answered' = [answered EXCEPT ![n] = c.whole]
    BY <1>8
  <2>2. n \in Nodes /\ c.total < MAX_OBJECT_SIZE
    BY <2>1 DEF Malloc, Put
  <2>3. c.whole \in Seq(RelayByte)
    BY <1>1, RelayTypes
  <2> HIDE DEF c
  <2>4. /\ content' \in [Nodes -> Seq(RelayByte)] /\ answered' \in [Nodes -> Seq(RelayByte)]
    BY <1>3, <2>1, <2>3 DEF RelayInv
  <2>5. TextIsCached'
    <3> SUFFICES ASSUME NEW m \in Nodes, Nul \notin Range(answered'[m]),
                        Len(answered'[m]) <= MAXBUF
                 PROVE  content'[m] = answered'[m]
      BY DEF TextIsCached
    <3>1. CASE m = n
      <4>1. content'[m] = Copied(c) /\ answered'[m] = c.whole
        BY <2>1, <2>2, <3>1 DEF RelayInv
      <4> QED
        BY <1>3, <2>2, <4>1 DEF Cacheable
    <3>2. CASE m # n
      <4>1. content'[m] = content[m] /\ answered'[m] = answered[m]
        BY <2>1, <2>2, <3>2 DEF RelayInv
      <4> QED
        BY <4>1 DEF RelayInv, TextIsCached
    <3> QED
      BY <3>1, <3>2
  <2> QED
    BY <1>5, <1>6, <2>4, <2>5 DEF RelayInv
<1> QED
  BY <1>7, <1>8 DEF Finish

LEMMA RequestStep == RelayInv /\ RequestNext => RelayInv' /\ SentWhole
<1> SUFFICES ASSUME RelayInv, NEW w \in Workers, Receive(w) \/ WorkOn(w)
             PROVE  RelayInv' /\ SentWhole
  BY DEF RequestNext
<1>1. CASE Receive(w) \/ Unreachable(w) \/ InCache(w)
  <2>1. Kept
    BY <1>1 DEF Receive, Unreachable, InCache, Kept
  <2> QED
    BY <2>1, KeptIsSound
<1>2. CASE Dial(w)
  BY <1>2, DialStep
<1>3. CASE Relay(w)
  BY <1>3, RelayStep
<1>4. CASE Finish(w)
  BY <1>4, FinishStep
<1> QED
  BY <1>1, <1>2, <1>3, <1>4 DEF WorkOn

LEMMA RequestsSound ==
  RelayInv /\ [LabNext]_<<requestVars, streamVars, uri, part>>
    => RelayInv' /\ [SentWhole]_conn
<1> SUFFICES ASSUME RelayInv, [LabNext]_<<requestVars, streamVars, uri, part>>
             PROVE  RelayInv' /\ [SentWhole]_conn
  OBVIOUS
<1>1. CASE RequestNext
  BY <1>1, RequestStep
<1>2. CASE UNCHANGED requestVars
  BY <1>2, KeptIsSound DEF requestVars, Kept
<1> QED
  BY <1>1, <1>2 DEF LabNext, Requesting, Reading, Spelling

LEMMA AlwaysRelayInv == LabSpec => []RelayInv
<1>1. LabInit => RelayInv
  BY RequestsBegin DEF LabInit
<1> QED
  BY <1>1, RequestsSound, PTL DEF LabSpec

(* RelaysAll: with any number of threads, and in whatever pieces the       *)
(* response comes, a thread that has done with a request has written to    *)
(* the client every byte the server sent, in order.                        *)
THEOREM ResponsesAreRelayed == LabSpec => RelaysAll
<1>1. LabSpec => [][SentWhole]_conn
  BY AlwaysRelayInv, RequestsSound, PTL DEF LabSpec
<1> QED
  BY <1>1 DEF RelaysAll, SentWhole

(* TextIsCached: with any number of threads, and whether or not malloc     *)
(* returns memory that was freed, the bytes of a node are the response     *)
(* they were taken from, if it has no zero byte and fits into response[].  *)
THEOREM TextReachesCache == LabSpec => []TextIsCached
<1>1. RelayInv => TextIsCached
  BY DEF RelayInv
<1> QED
  BY <1>1, AlwaysRelayInv, PTL

-----------------------------------------------------------------------------
(* The URI of a request.                                                   *)
UriChar == {"c", ":", "/"}

LEMMA FirstFacts ==
  ASSUME NEW B, NEW s \in Seq(B), NEW c
  PROVE  /\ First(s, c) \in 1 .. Len(s) + 1
         /\ First(s, c) <= Len(s) => s[First(s, c)] = c
         /\ \A i \in 1 .. First(s, c) - 1 : s[i] # c
<1> DEFINE P == {i \in 1 .. Len(s) : s[i] = c} \cup {Len(s) + 1}
           e == First(s, c)
<1>1. Len(s) \in Nat
  OBVIOUS
<1>2. P \in SUBSET Nat /\ P # {}
  BY <1>1
<1>3. \E x \in P : \A y \in P : x <= y
  <2> HIDE DEF P
  <2> QED
    BY <1>2, LeastNat
<1>4. Min(P) \in P /\ \A y \in P : Min(P) <= y
  <2> HIDE DEF P
  <2> QED
    BY <1>3 DEF Min
<1>5. e \in P /\ \A y \in P : e <= y
  BY <1>4 DEF First
<1> HIDE DEF e
<1>6. e \in 1 .. Len(s) + 1
  BY <1>1, <1>5
<1>7. ASSUME NEW i \in 1 .. e - 1, s[i] = c PROVE FALSE
  <2>1. i \in P /\ i < e
    BY <1>1, <1>6, <1>7
  <2> QED
    BY <1>2, <1>5, <1>6, <2>1
<1> QED
  BY <1>1, <1>5, <1>6, <1>7 DEF e

PartsRight(hostWas, pathWas) ==
  LET parts == Parsed(uri, hostWas, pathWas)
      authority == SubSeq(uri, 1, First(uri, "/") - 1)
      slash == "/" \in Range(uri)
  IN  /\ Range(parts.host) \subseteq {"c"}
      /\ slash => uri = authority \o parts.path
      /\ \/ authority = parts.host /\ parts.port = <<"80">>
         \/ authority = parts.host \o <<":">> \o parts.port
         \/ slash /\ authority = parts.host /\ ":" \in Range(parts.path)

LEMMA PartsOfUri ==
  ASSUME uri \in Seq(UriChar)
  PROVE  UriParts
<1> SUFFICES ASSUME uri # <<>>, NEW hostWas \in Stack, NEW pathWas \in Stack
             PROVE  PartsRight(hostWas, pathWas)
  BY DEF UriParts, PartsRight
<1> DEFINE s == uri
           h == First(s, "/")
           p == First(s, ":")
           end == IF p < h THEN h - 1 ELSE Len(s)
           host == SubSeq(s, 1, Shorter(h, p) - 1)
           path == SubSeq(s, h, Len(s))
           authority == SubSeq(s, 1, h - 1)
<1>1. s \in Seq(UriChar) /\ Len(s) \in Nat /\ s # <<>>
  OBVIOUS
<1> HIDE DEF s
<1>2. /\ h \in 1 .. Len(s) + 1 /\ (h <= Len(s) => s[h] = "/")
      /\ \A i \in 1 .. h - 1 : s[i] # "/"
  BY <1>1, FirstFacts
<1>3. /\ p \in 1 .. Len(s) + 1 /\ (p <= Len(s) => s[p] = ":")
      /\ \A i \in 1 .. p - 1 : s[i] # ":"
  BY <1>1, FirstFacts
<1> HIDE DEF h, p
<1>4. /\ host \in Seq(UriChar) /\ Len(host) = Shorter(h, p) - 1
      /\ \A i \in 1 .. Len(host) : host[i] = s[i]
  <2>1. Shorter(h, p) \in 1 .. Len(s) + 1
    BY <1>1, <1>2, <1>3 DEF Shorter
  <2> QED
    BY <1>1, <2>1
<1>5. /\ path \in Seq(UriChar) /\ Len(path) = Len(s) - h + 1
      /\ \A i \in 1 .. Len(path) : path[i] = s[h + i - 1]
  BY <1>1, <1>2
<1>6. /\ authority \in Seq(UriChar) /\ Len(authority) = h - 1
      /\ \A i \in 1 .. h - 1 : authority[i] = s[i]
  BY <1>1, <1>2
<1> DEFINE parsed == Parsed(s, hostWas, pathWas)
           port == IF p > Len(s) THEN <<"80">> ELSE SubSeq(s, p + 1, end)
           slash == "/" \in Range(s)
<1>s. slash => h <= Len(s)
  <2> SUFFICES ASSUME NEW i \in 1 .. Len(s), s[i] = "/" PROVE h <= Len(s)
    BY <1>1 DEF Range
  <2> QED
    BY <1>1, <1>2
<1> HIDE DEF host, path, authority, slash
<1>7. (/\ Range(host) \subseteq {"c"}
       /\ s = authority \o path
       /\ \/ authority = host /\ port = <<"80">>
          \/ authority = host \o <<":">> \o port
          \/ slash /\ authority = host /\ ":" \in Range(path))
      => PartsRight(hostWas, pathWas)
  <2>1. parsed.host = host /\ parsed.port = port /\ (slash => parsed.path = path)
    <3>1. Scanned(s, hostWas) = s
      BY <1>1 DEF Scanned
    <3>2. h <= Len(s) => PathOf(s, pathWas) = path
      BY <1>1, <1>2 DEF PathOf, h, path
    <3> QED
      BY <1>s, <3>1, <3>2 DEF Parsed, h, p, host
  <2>2. PartsRight(hostWas, pathWas) <=>
           /\ Range(parsed.host) \subseteq {"c"}
           /\ slash => s = authority \o parsed.path
           /\ \/ authority = parsed.host /\ parsed.port = <<"80">>
              \/ authority = parsed.host \o <<":">> \o parsed.port
              \/ slash /\ authority = parsed.host /\ ":" \in Range(parsed.path)
    BY Zenon DEF PartsRight, s, h, authority, slash
  <2> HIDE DEF parsed, port
  <2> QED
    BY <2>1, <2>2, Zenon
<1> HIDE DEF parsed
<1>8. Range(host) \subseteq {"c"}
  <2> SUFFICES ASSUME NEW i \in DOMAIN host PROVE host[i] = "c"
    BY DEF Range
  <2>1. i \in 1 .. Shorter(h, p) - 1
    BY <1>4
  <2>2. i \in 1 .. h - 1 /\ i \in 1 .. p - 1 /\ i \in 1 .. Len(s)
    BY <1>1, <1>2, <1>3, <2>1 DEF Shorter
  <2>3. s[i] \in UriChar /\ s[i] # "/" /\ s[i] # ":"
    BY <1>1, <1>2, <1>3, <2>2
  <2> QED
    BY <1>4, <2>3 DEF UriChar
<1>9. s = authority \o path
  <2>1. /\ authority \o path \in Seq(UriChar) /\ Len(authority \o path) = Len(s)
        /\ \A i \in 1 .. Len(s) : (authority \o path)[i] =
              IF i <= Len(authority) THEN authority[i] ELSE path[i - Len(authority)]
    BY <1>1, <1>2, <1>5, <1>6, Concatenated
  <2>2. ASSUME NEW i \in 1 .. Len(s) PROVE (authority \o path)[i] = s[i]
    <3>1. CASE i <= h - 1
      BY <1>2, <1>6, <2>1, <3>1
    <3>2. CASE ~ (i <= h - 1)
      <4>1. i - (h - 1) \in 1 .. Len(path) /\ h + (i - (h - 1)) - 1 = i
        BY <1>1, <1>2, <1>5, <3>2
      <4> QED
        BY <1>2, <1>5, <1>6, <2>1, <3>2, <4>1
    <3> QED
      BY <3>1, <3>2
  <2> QED
    BY <1>1, <2>1, <2>2, SameElements
<1>10. CASE p > Len(s)
  <2>1. Shorter(h, p) = h
    BY <1>1, <1>2, <1>3, <1>10 DEF Shorter
  <2>2. authority = host /\ port = <<"80">>
    BY <1>10, <2>1, Zenon DEF authority, host
  <2> HIDE DEF port
  <2> QED
    BY <1>7, <1>8, <1>9, <2>2, Zenon
<1>11. CASE p <= Len(s) /\ p < h
  <2>1. Shorter(h, p) = p /\ end = h - 1
    BY <1>1, <1>2, <1>3, <1>11 DEF Shorter
  <2>2. port = SubSeq(s, p + 1, h - 1)
    <3>1. ~ (p > Len(s))
      BY <1>1, <1>3, <1>11
    <3> QED
      BY <2>1, <3>1, Zenon
  <2>3. /\ port \in Seq(UriChar) /\ Len(port) = h - 1 - p
        /\ \A i \in 1 .. h - 1 - p : port[i] = s[p + i]
    BY <1>1, <1>2, <1>3, <1>11, <2>2
  <2> HIDE DEF port
  <2>4. \A x, y \in Seq(UriChar) :
           /\ (x \o <<":">>) \o y \in Seq(UriChar)
           /\ Len((x \o <<":">>) \o y) = Len(x) + 1 + Len(y)
           /\ \A i \in 1 .. Len(x) + 1 + Len(y) :
                ((x \o <<":">>) \o y)[i] =
                   IF i <= Len(x) THEN x[i]
                   ELSE IF i = Len(x) + 1 THEN ":" ELSE y[i - Len(x) - 1]
    BY DEF UriChar
  <2>5. /\ (host \o <<":">>) \o port \in Seq(UriChar)
        /\ Len((host \o <<":">>) \o port) = h - 1
        /\ \A i \in 1 .. h - 1 :
              ((host \o <<":">>) \o port)[i] =
                 IF i <= p - 1 THEN host[i] ELSE IF i = p THEN ":" ELSE port[i - p]
    <3>1. Len(host) = p - 1 /\ Len(host) + 1 + Len(port) = h - 1 /\ Len(host) + 1 = p
      BY <1>2, <1>3, <1>4, <2>1, <2>3
    <3>2. /\ (host \o <<":">>) \o port \in Seq(UriChar)
          /\ Len((host \o <<":">>) \o port) = Len(host) + 1 + Len(port)
          /\ \A i \in 1 .. Len(host) + 1 + Len(port) :
                ((host \o <<":">>) \o port)[i] =
                   IF i <= Len(host) THEN host[i]
                   ELSE IF i = Len(host) + 1 THEN ":" ELSE port[i - Len(host) - 1]
      BY <1>4, <2>3, <2>4, Zenon
    <3> DEFINE joined == (host \o <<":">>) \o port
    <3> HIDE DEF joined
    <3>3. \A i \in 1 .. h - 1 : i - Len(host) - 1 = i - p
      BY <1>2, <1>3, <3>1
    <3>4. \A i \in 1 .. h - 1 : joined[i] = IF i <= p - 1 THEN host[i]
                                          ELSE IF i = p THEN ":" ELSE port[i - p]
      BY <3>1, <3>2, <3>3 DEF joined
    <3> QED
      BY <3>1, <3>2, <3>4 DEF joined
  <2>6. ASSUME NEW i \in 1 .. h - 1
        PROVE  ((host \o <<":">>) \o port)[i] = authority[i]
    <3>1. CASE i <= p - 1
      BY <1>2, <1>3, <1>4, <1>6, <2>1, <2>5, <3>1
    <3>2. CASE i = p
      BY <1>2, <1>3, <1>6, <1>11, <2>5, <3>2
    <3>3. CASE i > p
      <4>1. i - p \in 1 .. h - 1 - p /\ p + (i - p) = i
        BY <1>2, <1>3, <3>3
      <4>2. port[i - p] = s[i]
        BY <2>3, <4>1
      <4>3. ~ (i <= p - 1) /\ i # p
        BY <1>2, <1>3, <3>3
      <4>4. ((host \o <<":">>) \o port)[i] = port[i - p]
        BY <2>5, <4>3, Zenon
      <4> QED
        BY <1>6, <4>2, <4>4, Zenon
    <3>4. i <= p - 1 \/ i = p \/ i > p
      BY <1>2, <1>3
    <3> QED
      BY <3>1, <3>2, <3>3, <3>4, Zenon
  <2> DEFINE joined == (host \o <<":">>) \o port
  <2>7. authority = joined
    <3>1. joined \in Seq(UriChar) /\ Len(joined) = h - 1
      BY <2>5
    <3>2. \A i \in 1 .. h - 1 : authority[i] = joined[i]
      BY <2>6, Zenon
    <3> HIDE DEF joined
    <3> QED
      BY <1>6, <3>1, <3>2, SameElements
  <2> QED
    BY <1>7, <1>8, <1>9, <2>7, Zenon
<1>12. CASE p <= Len(s) /\ ~ (p < h)
  <2>1. h # p
    BY <1>2, <1>3, <1>12
  <2>2. Shorter(h, p) = h
    BY <1>2, <1>3, <1>12, <2>1 DEF Shorter
  <2>3. authority = host
    BY <2>2 DEF authority, host
  <2>4. p - h + 1 \in 1 .. Len(path) /\ h + (p - h + 1) - 1 = p
    BY <1>1, <1>2, <1>3, <1>5, <1>12
  <2>5. path[p - h + 1] = ":"
    BY <1>3, <1>5, <1>12, <2>4
  <2>6. ":" \in Range(path)
    BY <1>5, <2>4, <2>5 DEF Range
  <2>7. slash
    <3>1. h \in 1 .. Len(s) /\ s[h] = "/"
      BY <1>1, <1>2, <1>3, <1>12
    <3> QED
      BY <1>1, <3>1 DEF slash, Range
  <2> QED
    BY <1>7, <1>8, <1>9, <2>3, <2>6, <2>7, Zenon
<1> QED
  BY <1>1, <1>3, <1>10, <1>11, <1>12

(* UriParts: for a URI of any length and whatever was on the stack, the    *)
(* host ends before the first ":" or "/", the path begins at the first     *)
(* "/", if there is one, and between them stand the ":" and the port, or   *)
(* neither; unless the ":" is one of the path.                             *)
THEOREM UriIsTakenApart == LabSpec => []UriParts
<1> DEFINE Spelled == uri \in Seq(UriChar)
<1>1. LabInit => Spelled
  BY DEF LabInit
<1>2. Spelled /\ [LabNext]_<<requestVars, streamVars, uri, part>> => Spelled'
  BY DEF LabNext, Requesting, Reading, Spelling, UriChar
<1>3. Spelled => UriParts
  BY PartsOfUri
<1> HIDE DEF Spelled
<1> QED
  BY <1>1, <1>2, <1>3, PTL DEF LabSpec

-----------------------------------------------------------------------------
(* Requests use the cache as ProxyCache says.                              *)
LengthsFit == \A n \in RespLengths : n < MAX_OBJECT_SIZE => n \in Lengths

LEMMA OneLine ==
  ASSUME NEW w \in Workers, Receive(w)
  PROVE  \E u \in Uris : Request(w, u)
BY DEF Receive, UriIn

LEMMA FinishStores ==
  ASSUME RelayInv, LengthsFit, NEW w \in Workers, Finish(w)
  PROVE  Store(w)
<1> DEFINE c == conn[w]
<1>1. c \in Relays /\ RelaySound(c) /\ c.on
  BY DEF RelayInv, Finish, Fetching
<1>2. PICK o \in rio_readnb(c.server, MAXBUF) : o.got = <<>>
  BY DEF Finish
<1>3. c.total \in RespLengths
  <2> HIDE DEF c
  <2> QED
    BY <1>1, <1>2, FinishedIsWhole
<1>4. CASE NoStore(w)
  BY <1>4 DEF Store
<1>5. CASE \E n \in Malloc : Put(w, n, c.total)
  <2>1. PICK n \in Malloc : Put(w, n, c.total)
    BY <1>5
  <2>2. n \in Nodes /\ c.total < MAX_OBJECT_SIZE
    BY <2>1 DEF Malloc, Put
  <2>3. c.total \in Lengths
    BY <1>3, <2>2 DEF LengthsFit
  <2> HIDE DEF c
  <2> QED
    BY <2>1, <2>2, <2>3 DEF Store
<1> QED
  BY <1>4, <1>5 DEF Finish

LEMMA RequestWorks ==
  ASSUME RelayInv, LengthsFit, NEW w \in Workers, Receive(w) \/ WorkOn(w)
  PROVE  Next \/ UNCHANGED vars
<1>1. CASE Receive(w)
  BY <1>1, OneLine DEF Next
<1>2. CASE Unreachable(w)
  BY <1>2 DEF Unreachable, Next, Work, Store
<1>3. CASE Dial(w) \/ Relay(w)
  BY <1>3 DEF Dial, Relay
<1>4. CASE Finish(w)
  BY <1>4, FinishStores DEF Next, Work
<1>5. CASE InCache(w)
  BY <1>5 DEF InCache, Next, Work, Store
<1> QED
  BY <1>1, <1>2, <1>3, <1>4, <1>5 DEF WorkOn

(* With any number of threads, and if Lengths has the lengths of the       *)
(* responses that are small enough, what requests do to the cache are      *)
(* steps of ProxyCache: send_request stores as many bytes as it has read.  *)
THEOREM RequestsUseCache ==
  ASSUME LengthsFit
  PROVE  LabSpec => Spec
<1>1. LabInit => Init
  BY DEF LabInit, RequestInit
<1>2. RelayInv /\ [LabNext]_<<requestVars, streamVars, uri, part>> => [Next]_vars
  <2> SUFFICES ASSUME RelayInv, [LabNext]_<<requestVars, streamVars, uri, part>>
               PROVE  Next \/ UNCHANGED vars
    OBVIOUS
  <2>1. CASE RequestNext
    BY <2>1, RequestWorks DEF RequestNext
  <2>2. CASE UNCHANGED requestVars
    BY <2>2 DEF requestVars
  <2> QED
    BY <2>1, <2>2 DEF LabNext, Requesting, Reading, Spelling
<1> QED
  BY <1>1, <1>2, AlwaysRelayInv, PTL DEF LabSpec, Spec

(* So under whole requests too, whatever arrives of them and of the        *)
(* responses, the cache keeps its promises as long as changes of the list  *)
(* do not overlap, no two threads fetch the same object and malloc does    *)
(* not return a listed node: the list is sound, the space accounted for,   *)
(* a hit is answered with the object asked for, and the least recently     *)
(* used object makes room.                                                 *)
THEOREM OrderlyRequests ==
  ASSUME LengthsFit
  PROVE  LabSpec /\ []Orderly /\ [][Spares]_vars
           => /\ []TypeOK
              /\ []ListSound
              /\ []SpaceAccounted
              /\ []RightObject
              /\ ImplementsLRU
<1>1. LabSpec => Spec
  BY RequestsUseCache
<1>2. OrderlySpec => /\ []TypeOK
                     /\ []ListSound
                     /\ []SpaceAccounted
                     /\ []RightObject
                     /\ ImplementsLRU
  BY OrderlyTyped, OrderlyList, OrderlySpace, OrderlyAnswers, OrderlyIsLRU
<1> QED
  BY <1>1, <1>2, OrderlyBehaviour

=============================================================================
