----------------------------- MODULE HeapCalls -----------------------------
(***************************************************************************)
(* A client of an allocator, and the calls that are written alike in the   *)
(* three of src/malloclab.  The client keeps what it gets under handles,   *)
(* fills it, and frees or reallocates only what it holds.                  *)
(*                                                                         *)
(* malloc(h, size) returns the heap after the call and the payload, or     *)
(* NULL; realloc(h, p, size) too; free(h, p) returns the heap.             *)
(***************************************************************************)
EXTENDS HeapBlocks, SequencesExt

CONSTANTS Handles, Sizes, mm_init, malloc(_, _), free(_, _), realloc(_, _, _)

VARIABLES heap,      \* the words and the break
          held,      \* the payload and the size of what each handle holds
          crashed

callVars == <<heap, held, crashed>>

Nothing == [ptr |-> NULL, size |-> 0]

Init == /\ heap = mm_init
        /\ held = [k \in Handles |-> Nothing]
        /\ crashed = FALSE

Holds(k) == held[k].ptr # NULL

Keep(k, p, size) ==
  held' = [held EXCEPT ![k] = IF p = NULL THEN Nothing
                                          ELSE [ptr |-> p, size |-> size]]

Malloc(k, size) ==
  LET r == malloc(heap, size)
  IN  /\ ~crashed /\ ~Holds(k)
      /\ heap' = IF r.ptr = NULL THEN r.heap
                 ELSE [r.heap EXCEPT !.mem = Fill(@, r.ptr, size, k)]
      /\ Keep(k, r.ptr, size)
      /\ UNCHANGED crashed

(* calloc does not look at what malloc returned.                           *)
Calloc(k, size) ==
  LET r == malloc(heap, size)
  IN  /\ ~crashed /\ ~Holds(k)
      /\ heap' = IF r.ptr = NULL THEN r.heap
                 ELSE [r.heap EXCEPT !.mem = Fill(@, r.ptr, size, 0)]
      /\ Keep(k, r.ptr, size)
      /\ crashed' = (r.ptr = NULL /\ size > 0)

Free(k) ==
  /\ ~crashed
  /\ heap' = IF Holds(k) THEN free(heap, held[k].ptr) ELSE heap
  /\ held' = [held EXCEPT ![k] = Nothing]
  /\ UNCHANGED crashed

(* realloc of NULL is malloc, and the client calls Malloc.  realloc to     *)
(* size 0 is free; when another fails the client keeps what it had.  It    *)
(* fills the words it gains.                                               *)
Realloc(k, size) ==
  LET r    == realloc(heap, held[k].ptr, size)
      more == size - held[k].size
  IN  /\ ~crashed /\ Holds(k)
      /\ heap' = IF r.ptr = NULL \/ more <= 0 THEN r.heap
                 ELSE [r.heap EXCEPT !.mem =
                         Fill(@, r.ptr + held[k].size \div WSIZE, more, k)]
      /\ IF r.ptr = NULL /\ size > 0 THEN UNCHANGED held ELSE Keep(k, r.ptr, size)
      /\ UNCHANGED crashed

Next == \E k \in Handles :
           \/ Free(k)
           \/ \E size \in Sizes : Malloc(k, size) \/ Calloc(k, size) \/ Realloc(k, size)

Spec == Init /\ [][Next]_callVars
(* What the words of the heap mean: the rest is what earlier blocks left.  *)
Meaning(start, end, links) ==
  LET blocks == BlocksBetween(heap.mem, start, end)
      tags   == UNION {{b, footer(heap.mem, b)} : b \in blocks}
      frees  == {b \in blocks : IsFree(heap.mem, b)}
      words  == UNION {b + 1 .. b + links : b \in frees}
      data   == UNION {held[k].ptr .. held[k].ptr + held[k].size \div WSIZE - 1 : k \in Handles}
      used   == 0 .. start - 1 \cup tags \cup words \cup data
  IN  <<[a \in Addr |-> IF a \in used THEN heap.mem[a] ELSE 0],
        heap.brk, held, crashed>>
-----------------------------------------------------------------------------
(* The regions the client holds, in the terms of HeapSpec.                 *)
NoRegion == [start |-> NULL, words |-> <<>>]

Region(k) ==
  IF ~Holds(k) THEN NoRegion
  ELSE [start |-> held[k].ptr,
        words |-> [i \in 1 .. held[k].size \div WSIZE |->
                     heap.mem[held[k].ptr + i - 1]]]

(* From the first block to the break the heap is tiled by blocks, and the  *)
(* allocated ones are those the client holds: nothing is lost, and nothing *)
(* given out is smaller than what was asked for.                           *)
Payloads == {held[k].ptr : k \in {j \in Handles : Holds(j)}}

Accounted(start, end) ==
  LET blocks == BlocksBetween(heap.mem, start, end)
  IN  /\ TiledBetween(heap.mem, start, end)
      /\ {b + 1 : b \in {c \in blocks : ~IsFree(heap.mem, c)}} = Payloads
      /\ \A k \in Handles : Holds(k) =>
            held[k].size <= block_size(heap.mem, held[k].ptr - 1) - DSIZE

(* The free blocks.                                                        *)
FreeBlocks(start, end) ==
  {b \in BlocksBetween(heap.mem, start, end) : IsFree(heap.mem, b)}

Coalesced(start, end) ==
  LET free_blocks == FreeBlocks(start, end)
  IN  \A b \in free_blocks : block_next(heap.mem, b) \notin free_blocks
=============================================================================
