---------------------------- MODULE SegListHeap ----------------------------
(***************************************************************************)
(* src/malloclab/mm-seglist.c: nine lists of free blocks, one for each     *)
(* class of sizes.  The first pointers of the lists are the payload of the *)
(* prologue, and stand for nodes: a pointer to one of these words has no   *)
(* header before it.                                                       *)
(*                                                                         *)
(* Name_Variant is a wrong form of Name that no action uses.               *)
(***************************************************************************)
EXTENDS HeapBlocks

CONSTANTS Handles, Sizes

VARIABLES heap, held, crashed

heap_ptr == 1

Lists == heap_ptr + 1 .. heap_ptr + 9

Epilogue == 12

FirstBlock == 13

getSegListIndex(size) ==
  1 + Cardinality({c \in {32, 64, 128, 256, 512, 1024, 2048, 4096} : size >= c})

Link(p) == IF p \in Lists THEN p ELSE p + 1

ListHead(size) == heap_ptr + getSegListIndex(size)

List == INSTANCE FreeList

(* A free block takes in the free blocks before and after it and goes to   *)
(* the list of its new size.  A block at the break is only put on a list.  *)
coalesce(h, b) ==
  LET m     == h.mem
      prev  == IF IsFree(m, b - 1) THEN block_prev(m, b) ELSE b
      next  == IF IsFree(m, block_next(m, b)) THEN block_next(m, b) ELSE b
      all   == Merge(m, prev, next)
      alone == IF prev = b THEN all ELSE List!removeBlock(all, prev)
      off   == IF next = b THEN alone ELSE List!removeBlock(alone, next)
  IN  IF block_next(m, b) >= h.brk THEN List!placeFreeBlock(m, b)
      ELSE List!placeFreeBlock(off, prev)

extend_heap(h, words) ==
  LET even == words + (words % 2)
      new  == [mem |-> Tag(h.mem, h.brk, even * WSIZE, 0), brk |-> h.brk + even]
  IN  [new EXCEPT !.mem = coalesce(new, h.brk)]

(* The first fit in the list of the size or, failing that, in the next     *)
(* list that has one.                                                      *)
find_fit(m, size) ==
  LET fits == {i \in getSegListIndex(size) .. 9 :
                 List!FindFrom(m, heap_ptr + i, size) # NULL}
  IN  IF fits = {} THEN NULL ELSE List!FindFrom(m, heap_ptr + Min(fits), size)

place_KeepsClass(m, b, size) ==
  LET bsize == block_size(m, b)
      rest  == b + size \div WSIZE
      cut   == Tag(Tag(m, b, size, 1), rest, bsize - size, 0)
  IN  IF bsize - size < 2 * DSIZE THEN List!removeBlock(block_mark(m, b, 1), b)
      ELSE List!Relink(cut, b, rest)

(* The rest of a block stays in its place in the list unless it is of      *)
(* another class.                                                          *)
place(m, b, size) ==
  LET bsize == block_size(m, b)
      rest  == b + size \div WSIZE
      cut   == Tag(Tag(m, b, size, 1), rest, bsize - size, 0)
      linked == List!Relink(cut, b, rest)
  IN  IF bsize - size < 2 * DSIZE THEN List!removeBlock(block_mark(m, b, 1), b)
      ELSE IF ListHead(bsize - size) = ListHead(bsize) THEN linked
      ELSE List!placeFreeBlock(List!removeBlock(linked, rest), rest)

mm_init ==
  LET empty == [mem |-> [a \in Addr |-> CASE a \in {1, 11} -> PACK(11 * WSIZE, 1)
                                          [] a \in Lists -> Epilogue
                                          [] a = Epilogue -> PACK(0, 1)
                                          [] OTHER -> 0],
                brk |-> 13]
  IN  extend_heap(empty, CHUNKSIZE \div WSIZE)

malloc(h, size) ==
  LET a_size == getMallocSize(size)
      fit    == find_fit(h.mem, a_size)
      words  == Max({a_size, CHUNKSIZE}) \div WSIZE
      Given(g, b) == [heap |-> [g EXCEPT !.mem = place(@, b, a_size)], ptr |-> b + 1]
  IN  IF size = 0 THEN [heap |-> h, ptr |-> NULL]
      ELSE IF fit # NULL THEN Given(h, fit)
      ELSE IF CanGrow(h, words) THEN Given(extend_heap(h, words), h.brk)
      ELSE [heap |-> h, ptr |-> NULL]

free(h, p) ==
  LET marked == [h EXCEPT !.mem = block_mark(@, p - 1, 0)]
  IN  [h EXCEPT !.mem = coalesce(marked, p - 1)]

(* A block that is large enough to give up 16 bytes is cut in place.       *)
Shrink(h, p, newsize) ==
  LET b    == p - 1
      rest == b + newsize \div WSIZE
      cut  == Tag(Tag(h.mem, b, newsize, 1), rest, block_size(h.mem, b) - newsize, 0)
  IN  [h EXCEPT !.mem = coalesce([h EXCEPT !.mem = cut], rest)]

realloc(h, p, size) ==
  LET newsize == getMallocSize(size)
      oldsize == block_size(h.mem, p - 1)
      r       == malloc(h, size)
      moved   == [r.heap EXCEPT !.mem = Copy(@, p, r.ptr, size)]
  IN  IF size = 0 THEN [heap |-> free(h, p), ptr |-> NULL]
      ELSE IF newsize = oldsize THEN [heap |-> h, ptr |-> p]
      ELSE IF oldsize - newsize >= 2 * DSIZE
      THEN [heap |-> Shrink(h, p, newsize), ptr |-> p]
      ELSE IF r.ptr = NULL THEN r
      ELSE [heap |-> free(moved, p), ptr |-> r.ptr]

Calls == INSTANCE HeapCalls
-----------------------------------------------------------------------------
(* The properties of this allocator; Heaps states them for all three.      *)
Meaning == Calls!Meaning(FirstBlock, heap.brk, 2)

Sound == Calls!Accounted(FirstBlock, heap.brk)

(* Every list holds the free blocks of its class and nothing else.         *)
Listed == \A l \in Lists :
  /\ List!ListSound(heap.mem, l, Epilogue)
  /\ List!Listed(heap.mem, l) =
        {b \in Calls!FreeBlocks(FirstBlock, heap.brk) : ListHead(block_size(heap.mem, b)) = l}

Frees == Calls!FreeBlocks(FirstBlock, heap.brk)
=============================================================================
