---------------------------- MODULE ImplicitHeap ----------------------------
(***************************************************************************)
(* src/malloclab/mm-implicit.c: first fit along the blocks in the order of *)
(* their addresses, coalescing at once with both neighbours.  A prologue   *)
(* and an epilogue that count as allocated stand at the ends of the heap.  *)
(*                                                                         *)
(* Name_Variant is a wrong form of Name that no action uses.               *)
(***************************************************************************)
EXTENDS HeapBlocks

CONSTANTS Handles, Sizes

VARIABLES heap, held, crashed

FirstBlock == 3

coalesce_NextOnly(m, b) ==
  Merge(m, b, IF IsFree(m, block_next(m, b)) THEN block_next(m, b) ELSE b)

(* The header of the merged block.                                         *)
First(m, b) == IF IsFree(m, block_prev(m, b)) THEN block_prev(m, b) ELSE b

coalesce(m, b) ==
  Merge(m, First(m, b),
        IF IsFree(m, block_next(m, b)) THEN block_next(m, b) ELSE b)

(* The new block begins at the old epilogue, and a new one follows it.     *)
Extended(h, words) ==
  LET b == h.brk - 1
  IN  [mem |-> [Tag(h.mem, b, words * WSIZE, 0) EXCEPT ![b + words] = PACK(0, 1)],
       brk |-> h.brk + words]

extend_heap(h, words) ==
  LET new == Extended(h, words + (words % 2))
  IN  [new EXCEPT !.mem = coalesce(@, h.brk - 1)]

(* The first block on the way to the epilogue that is large enough.        *)
find_first_fit(m, size) ==
  LET fits == {b \in BlocksBetween(m, FirstBlock, MaxHeap - 1) :
                 size <= block_size(m, b) /\ IsFree(m, b)}
  IN  IF fits = {} THEN NULL ELSE Min(fits)

place_Tight(m, b, size) ==
  LET rest == block_size(m, b) - size
  IN  IF rest >= DSIZE
      THEN Tag(Tag(m, b, size, 1), b + size \div WSIZE, rest, 0)
      ELSE block_mark(m, b, 1)

place(m, b, size) ==
  LET rest == block_size(m, b) - size
  IN  IF rest >= 2 * DSIZE
      THEN Tag(Tag(m, b, size, 1), b + size \div WSIZE, rest, 0)
      ELSE block_mark(m, b, 1)

mm_init ==
  LET empty == [mem |-> [a \in Addr |-> CASE a \in {1, 2} -> PACK(DSIZE, 1)
                                          [] a = 3 -> PACK(0, 1)
                                          [] OTHER -> 0],
                brk |-> 4]
  IN  extend_heap(empty, CHUNKSIZE \div WSIZE)

malloc(h, size) ==
  LET a_size == getMallocSize(size)
      fit    == find_first_fit(h.mem, a_size)
      words  == Max({a_size, CHUNKSIZE}) \div WSIZE
      grown  == extend_heap(h, words)
      last   == First(Extended(h, words).mem, h.brk - 1)
      Given(g, b) == [heap |-> [g EXCEPT !.mem = place(@, b, a_size)], ptr |-> b + 1]
  IN  IF size = 0 THEN [heap |-> h, ptr |-> NULL]
      ELSE IF fit # NULL THEN Given(h, fit)
      ELSE IF CanGrow(h, words) THEN Given(grown, last)
      ELSE [heap |-> h, ptr |-> NULL]

free(h, p) == [h EXCEPT !.mem = coalesce(block_mark(@, p - 1, 0), p - 1)]

realloc(h, p, size) ==
  LET r     == malloc(h, size)
      bytes == Min({size, block_size(r.heap.mem, p - 1)})
      moved == [r.heap EXCEPT !.mem = Copy(@, p, r.ptr, bytes)]
  IN  IF size = 0 THEN [heap |-> free(h, p), ptr |-> NULL]
      ELSE IF r.ptr = NULL THEN r
      ELSE [heap |-> free(moved, p), ptr |-> r.ptr]

Calls == INSTANCE HeapCalls
-----------------------------------------------------------------------------
(* The properties of this allocator; Heaps states them for all three.      *)
Epilogue == heap.brk - 1

Meaning == Calls!Meaning(FirstBlock, Epilogue, 0)

Sound == /\ Calls!Accounted(FirstBlock, Epilogue)
         /\ heap.mem[Epilogue] = PACK(0, 1)

NoFragments == Calls!Coalesced(FirstBlock, Epilogue)
=============================================================================
