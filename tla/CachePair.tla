----------------------------- MODULE CachePair -----------------------------
(***************************************************************************)
(* Two caches of src/cachelab/csim.c simulated on one trace: CacheSim, and *)
(* a Large one with one line more in every set.                            *)
(***************************************************************************)
EXTENDS CacheSim

VARIABLES largeCache, largeInitSet, largeHits, largeMisses, largeEvictions

largeVars == <<largeCache, largeInitSet, largeHits, largeMisses, largeEvictions>>

Large == INSTANCE CacheSim WITH
           E <- E + 1, cache <- largeCache, initSet <- largeInitSet,
           hits <- largeHits, misses <- largeMisses, evictions <- largeEvictions

PairInit == Init /\ Large!Init

PairNext == \E a \in Addr, id \in {"L", "S", "M"} :
               Access(a, id) /\ Large!Access(a, id)

PairSpec == PairInit /\ [][PairNext]_<<simVars, largeVars>>

(* More lines never cost a hit: at any point of the trace the larger cache *)
(* holds every block of the smaller one.  This is what tells replacement   *)
(* by recency from replacement by age, which does not have it.             *)
Blocks(set) == {set[i].tag : i \in DOMAIN set}

Inclusion == /\ \A x \in Sets : Blocks(cache[x]) \subseteq Blocks(largeCache[x])
             /\ hits <= largeHits
=============================================================================
