------------------------------ MODULE LRUCache ------------------------------
(***************************************************************************)
(* What a cache simulator with least-recently-used replacement promises:   *)
(* every set is a stack of at most Ways blocks, the most recently used one *)
(* on top; an access to a block in the stack is a hit and moves it to the  *)
(* top, any other is a miss and puts it there, pushing the bottom block    *)
(* out of a full set.                                                      *)
(***************************************************************************)
EXTENDS Integers, SequencesExt

CONSTANTS Sets, Tags, Ways

VARIABLES stack,                    \* the blocks of each set, newest first
          hits, misses, evictions

lruVars == <<stack, hits, misses, evictions>>

LRUInit == /\ stack = [x \in Sets |-> <<>>]
           /\ hits = 0 /\ misses = 0 /\ evictions = 0

Top(x, t) == stack' = [stack EXCEPT ![x] = <<t>> \o @]

(* extra is 1 when the access is a load followed by a store of the same    *)
(* block, which always hits.                                               *)
Hit(x, t, extra) ==
  /\ \E i \in DOMAIN stack[x] :
        /\ stack[x][i] = t
        /\ stack' = [stack EXCEPT ![x] = <<t>> \o RemoveAt(@, i)]
  /\ hits' = hits + 1 + extra
  /\ UNCHANGED <<misses, evictions>>

Fill(x, t, extra) ==
  /\ t \notin ToSet(stack[x])
  /\ Len(stack[x]) < Ways
  /\ Top(x, t)
  /\ hits' = hits + extra
  /\ misses' = misses + 1
  /\ UNCHANGED evictions

Replace(x, t, extra) ==
  /\ t \notin ToSet(stack[x])
  /\ Len(stack[x]) = Ways
  /\ stack' = [stack EXCEPT ![x] = <<t>> \o Front(@)]
  /\ hits' = hits + extra
  /\ misses' = misses + 1
  /\ evictions' = evictions + 1

LRUAccess(x, t, extra) == Hit(x, t, extra) \/ Fill(x, t, extra) \/ Replace(x, t, extra)
=============================================================================
