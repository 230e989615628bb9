------------------------------ MODULE HeapSpec ------------------------------
(***************************************************************************)
(* What malloc, calloc, realloc and free promise a client, whatever the    *)
(* allocator: the regions in use are aligned and never share a word, and   *)
(* a call leaves the words of every other region as they are.  The client  *)
(* fills what malloc returns with the number of the handle it keeps it     *)
(* under.                                                                  *)
(***************************************************************************)
EXTENDS Integers, SequencesExt

CONSTANTS Handles, Sizes, Addr, NoRegion

VARIABLE region   \* the start and the words of the region of each handle

WordsOf(r) == r.start .. r.start + Len(r.words) - 1

InUse(h) == region[h] # NoRegion

(* A region that h may be given while the other handles keep theirs.       *)
Fits(h, r) ==
  /\ r.start % 2 = 0
  /\ WordsOf(r) \subseteq Addr
  /\ \A k \in Handles \ {h} :
        InUse(k) => WordsOf(region[k]) \cap WordsOf(r) = {}

SpecInit == region = [h \in Handles |-> NoRegion]

(* The region h has after a step, the others keeping theirs.               *)
Becomes(h, r) == region' = [region EXCEPT ![h] = r] /\ Fits(h, r)

Allocate(h, size, word) ==
  /\ ~InUse(h)
  /\ region'[h].words = [i \in 1 .. size \div 4 |-> word]
  /\ Becomes(h, region'[h])

Malloc(h, size) == Allocate(h, size, h)

Calloc(h, size) == Allocate(h, size, 0)

Release(h) == InUse(h) /\ region' = [region EXCEPT ![h] = NoRegion]

(* The region may move; its words stay up to the smaller size.             *)
Realloc(h, size) ==
  LET old == region[h].words
  IN  /\ InUse(h)
      /\ region'[h].words =
            [i \in 1 .. size \div 4 |-> IF i \in DOMAIN old THEN old[i] ELSE h]
      /\ Becomes(h, region'[h])

SpecNext == \E h \in Handles :
               \/ Release(h)
               \/ \E size \in Sizes : \/ Malloc(h, size)
                                      \/ Calloc(h, size)
                                      \/ Realloc(h, size)

Promise == SpecInit /\ [][SpecNext]_region
=============================================================================
