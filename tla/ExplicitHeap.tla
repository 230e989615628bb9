---------------------------- MODULE ExplicitHeap ----------------------------
(***************************************************************************)
(* src/malloclab/mm-explicit.c: one list of the free blocks, the block     *)
(* freed last in front, searched for the first fit.  No epilogue follows   *)
(* the last block: coalesce looks at the break instead.                    *)
(*                                                                         *)
(* Name_Variant is a wrong form of Name that no action uses.               *)
(***************************************************************************)
EXTENDS HeapBlocks

CONSTANTS Handles, Sizes

VARIABLES heap, held, crashed

heap_ptr == 1

EpilogueList == 4

FirstBlock == 5

Link(p) == p + 1

ListHead(size) == heap_ptr

List == INSTANCE FreeList

(* A free block takes in the free blocks before and after it.  A block at  *)
(* the break is only put on the list.  What takes in the block before it   *)
(* alone stays where that was.                                             *)
coalesce(h, b) ==
  LET m     == h.mem
      prev  == IF IsFree(m, b - 1) THEN block_prev(m, b) ELSE b
      next  == IF IsFree(m, block_next(m, b)) THEN block_next(m, b) ELSE b
      all   == Merge(m, prev, next)
      alone == IF prev = b THEN all ELSE List!removeBlock(all, prev)
      off   == IF next = b THEN alone ELSE List!removeBlock(alone, next)
  IN  IF block_next(m, b) >= h.brk THEN List!placeFreeBlock(m, b)
      ELSE IF prev # b /\ next = b THEN all
      ELSE List!placeFreeBlock(off, prev)

extend_heap(h, words) ==
  LET even == words + (words % 2)
      new  == [mem |-> Tag(h.mem, h.brk, even * WSIZE, 0), brk |-> h.brk + even]
  IN  [new EXCEPT !.mem = coalesce(new, h.brk)]

find_first_fit(m, size) == List!FindFrom(m, heap_ptr, size)

place(m, b, size) ==
  LET bsize == block_size(m, b)
      rest  == b + size \div WSIZE
      cut   == Tag(Tag(m, b, size, 1), rest, bsize - size, 0)
  IN  IF bsize - size >= 2 * DSIZE THEN List!Relink(cut, b, rest)
      ELSE List!removeBlock(block_mark(m, b, 1), b)

mm_init ==
  LET empty == [mem |-> [a \in Addr |-> CASE a \in {1, 3} -> PACK(2 * DSIZE, 1)
                                          [] a = 2 -> EpilogueList
                                          [] a = 4 -> PACK(0, 1)
                                          [] OTHER -> 0],
                brk |-> 5]
  IN  extend_heap(empty, CHUNKSIZE \div WSIZE)

malloc(h, size) ==
  LET a_size == getMallocSize(size)
      fit    == find_first_fit(h.mem, a_size)
      words  == Max({a_size, CHUNKSIZE}) \div WSIZE
      Given(g, b) == [heap |-> [g EXCEPT !.mem = place(@, b, a_size)], ptr |-> b + 1]
  IN  IF size = 0 THEN [heap |-> h, ptr |-> NULL]
      ELSE IF fit # NULL THEN Given(h, fit)
      ELSE IF CanGrow(h, words) THEN Given(extend_heap(h, words), h.brk)
      ELSE [heap |-> h, ptr |-> NULL]

free(h, p) ==
  LET marked == [h EXCEPT !.mem = block_mark(@, p - 1, 0)]
  IN  [h EXCEPT !.mem = coalesce(marked, p - 1)]

realloc_FreesFirst(h, p, size) ==
  LET f     == free(h, p)
      r     == malloc(f, size)
      bytes == Min({size, block_size(h.mem, p - 1)})
  IN  IF size = 0 THEN [heap |-> f, ptr |-> NULL]
      ELSE IF r.ptr = NULL THEN r
      ELSE [heap |-> [r.heap EXCEPT !.mem = Copy(@, p, r.ptr, bytes)], ptr |-> r.ptr]

realloc(h, p, size) ==
  LET r     == malloc(h, size)
      bytes == Min({size, block_size(r.heap.mem, p - 1)})
      moved == [r.heap EXCEPT !.mem = Copy(@, p, r.ptr, bytes)]
  IN  IF size = 0 THEN [heap |-> free(h, p), ptr |-> NULL]
      ELSE IF r.ptr = NULL THEN r
      ELSE [heap |-> free(moved, p), ptr |-> r.ptr]

Calls == INSTANCE HeapCalls
-----------------------------------------------------------------------------
(* The properties of this allocator; Heaps states them for all three.      *)
Meaning == Calls!Meaning(FirstBlock, heap.brk, 2)

Sound == Calls!Accounted(FirstBlock, heap.brk)

(* The list holds the free blocks and nothing else.                        *)
Listed == /\ List!ListSound(heap.mem, heap_ptr, EpilogueList)
          /\ List!Listed(heap.mem, heap_ptr) = Calls!FreeBlocks(FirstBlock, heap.brk)
=============================================================================
