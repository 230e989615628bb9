------------------------------ MODULE CacheSim ------------------------------
(***************************************************************************)
(* The cache simulator of src/cachelab/csim.c: 2^s sets of E lines, the    *)
(* least recently used line of a full set replaced.  The simulator keeps   *)
(* the lines of a set in a linked list in the order of their insertion and *)
(* finds the victim by the priorities it gives them.                       *)
(*                                                                         *)
(* Name_Variant is a wrong form of Name that no action uses.               *)
(***************************************************************************)
EXTENDS CacheAddress, SequencesExt

CONSTANTS E,            \* the command line: lines in a set
          MaxAccesses   \* bound on the length of the trace

ASSUME CacheAssumption == E \in Nat \ {0} /\ MaxAccesses \in Nat

VARIABLES
  cache,                    \* the list of lines of each set
  initSet,                  \* the priority given last in each set
  hits, misses, evictions,
  accesses                  \* history: the data accesses read so far

simVars == <<cache, initSet, hits, misses, evictions, accesses>>

Line == [tag : Tags, pri : Nat]

Init == /\ cache = [x \in Sets |-> <<>>]
        /\ initSet = [x \in Sets |-> 0]
        /\ hits = 0 /\ misses = 0 /\ evictions = 0
        /\ accesses = 0

-----------------------------------------------------------------------------
(* One line of the trace.  The access gets the next priority of the set.   *)
NextPri(x) == initSet[x] + 1

(* 'M' is a load and a store: the store hits.                              *)
Extra(id) == IF id = "M" THEN 1 ELSE 0

Cached(x, t) == \E i \in DOMAIN cache[x] : cache[x][i].tag = t

Step(x, id) ==
  /\ accesses < MaxAccesses
  /\ accesses' = accesses + 1
  /\ initSet' = [initSet EXCEPT ![x] = NextPri(x)]

Touch_KeepsPri(x, t) == UNCHANGED cache

(* A hit renews the priority of the line found.                            *)
Touch(x, t) ==
  cache' = [cache EXCEPT ![x] =
     [i \in DOMAIN @ |-> IF @[i].tag = t THEN [@[i] EXCEPT !.pri = NextPri(x)]
                                         ELSE @[i]]]

Hit(x, t, id) ==
  /\ Step(x, id)
  /\ Cached(x, t)
  /\ Touch(x, t)
  /\ hits' = hits + 1 + Extra(id)
  /\ UNCHANGED <<misses, evictions>>

(* A miss in a set that is empty or not full inserts a line at the end.    *)
Insert_Overfull(x, t, id) ==
  /\ Step(x, id)
  /\ ~Cached(x, t)
  /\ Len(cache[x]) <= E
  /\ cache' = [cache EXCEPT ![x] = Append(@, [tag |-> t, pri |-> NextPri(x)])]
  /\ hits' = hits + Extra(id)
  /\ misses' = misses + 1
  /\ UNCHANGED evictions

Insert(x, t, id) ==
  /\ Step(x, id)
  /\ ~Cached(x, t)
  /\ Len(cache[x]) < E
  /\ cache' = [cache EXCEPT ![x] = Append(@, [tag |-> t, pri |-> NextPri(x)])]
  /\ hits' = hits + Extra(id)
  /\ misses' = misses + 1
  /\ UNCHANGED evictions

(* A miss in a full set overwrites the first line with the least priority. *)
MinPri(x) == Min({initSet[x]} \cup {cache[x][i].pri : i \in DOMAIN cache[x]})

Victim_Newest(x) ==
  CHOOSE i \in DOMAIN cache[x] :
     \A j \in DOMAIN cache[x] : cache[x][j].pri <= cache[x][i].pri

Victim(x) ==
  CHOOSE i \in DOMAIN cache[x] :
     /\ cache[x][i].pri = MinPri(x)
     /\ \A j \in DOMAIN cache[x] : cache[x][j].pri = MinPri(x) => i <= j

Replace(x, t, id) ==
  /\ Step(x, id)
  /\ ~Cached(x, t)
  /\ Len(cache[x]) = E
  /\ cache' = [cache EXCEPT ![x][Victim(x)] = [tag |-> t, pri |-> NextPri(x)]]
  /\ hits' = hits + Extra(id)
  /\ misses' = misses + 1
  /\ evictions' = evictions + 1

Access(a, id) == LET x == SetIndex(a)
                     t == Tag(a)
                 IN  Hit(x, t, id) \/ Insert(x, t, id) \/ Replace(x, t, id)

(* An instruction fetch, 'I', is skipped.                                  *)
Next == \E a \in Addr, id \in {"L", "S", "M"} : Access(a, id)

Spec == Init /\ [][Next]_simVars
-----------------------------------------------------------------------------
(* Properties.                                                             *)

(* Every variable has its type.                                            *)
TypeOK == /\ cache \in [Sets -> Seq(Line)]
          /\ initSet \in [Sets -> Nat]
          /\ {hits, misses, evictions, accesses} \subseteq Nat

(* A set never holds a block twice nor more than E lines, and its          *)
(* priorities order its lines: no two are equal, none is beyond the        *)
(* counter, and the line used last has the counter's value.                *)
SetSound(x) ==
  /\ Len(cache[x]) <= E
  /\ initSet[x] = 0 <=> cache[x] = <<>>
  /\ \A i \in DOMAIN cache[x] : cache[x][i].pri \in 1 .. initSet[x]
  /\ \A i, j \in DOMAIN cache[x] :
        \/ cache[x][i].tag = cache[x][j].tag
        \/ cache[x][i].pri = cache[x][j].pri
        => i = j

SetsSound == \A x \in Sets : SetSound(x)

(* The counters account for every line: one that came in by a miss is      *)
(* still there or has been evicted.                                        *)
UsedLines == UNION {{x} \X DOMAIN cache[x] : x \in Sets}

MissesExplained == misses = evictions + Cardinality(UsedLines)

(* Set index and tag together name the block of an address, and nothing    *)
(* else: two addresses meet in a line only if they differ in block bits.   *)
BlockIdentity ==
  \A a1, a2 \in Addr : (SetIndex(a1) = SetIndex(a2) /\ Tag(a1) = Tag(a2))
                       <=> a1 \div BlockBytes = a2 \div BlockBytes

(* The simulator is a cache with least-recently-used replacement: the      *)
(* lines of a set in the order of their priorities are the stack of        *)
(* LRUCache, and every access does to the stack what it does there.        *)
Rank(set, i) == Cardinality({j \in DOMAIN set : set[j].pri > set[i].pri})

Recency(set) ==
  [k \in DOMAIN set |-> set[CHOOSE i \in DOMAIN set : Rank(set, i) = k - 1].tag]

LRU == INSTANCE LRUCache WITH stack <- [x \in Sets |-> Recency(cache[x])],
                              Ways <- E

ImplementsLRU ==
  /\ LRU!LRUInit
  /\ [][\A a \in Addr, id \in {"L", "S", "M"} :
           Access(a, id) => LRU!LRUAccess(SetIndex(a), Tag(a), Extra(id))]_simVars
=============================================================================
