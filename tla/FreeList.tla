------------------------------ MODULE FreeList ------------------------------
(***************************************************************************)
(* The doubly linked lists of free blocks that mm-explicit.c and           *)
(* mm-seglist.c of src/malloclab keep in the blocks themselves: the word   *)
(* after the header points to the next free block, the one after that to   *)
(* the one before.  A list begins in the prologue and ends at the          *)
(* epilogue, a header of size 0 that counts as allocated.                  *)
(***************************************************************************)
EXTENDS HeapBlocks, SequencesExt

CONSTANTS Link(_),   \* the word that holds the next pointer of a list node
          ListHead(_)    \* the node in the prologue that a block of a size follows

placeFreeBlock(m, b) ==
  LET p == ListHead(block_size(m, b))
      n == m[Link(p)]
      placed == [m EXCEPT ![b + 1] = n, ![b + 2] = p, ![Link(p)] = b]
  IN  IF IsFree(placed, n) THEN [placed EXCEPT ![n + 2] = b] ELSE placed

removeBlock(m, b) ==
  LET p == m[b + 2]
      n == m[b + 1]
      removed == [m EXCEPT ![Link(p)] = n]
  IN  IF IsFree(removed, n) THEN [removed EXCEPT ![n + 2] = p] ELSE removed

(* rest takes the place of b, whose header it was cut from, in the list.   *)
Relink(m, b, rest) ==
  LET p == m[b + 2]
      n == m[b + 1]
      linked == [m EXCEPT ![rest + 1] = n, ![rest + 2] = p, ![Link(p)] = rest]
  IN  IF IsFree(linked, n) THEN [linked EXCEPT ![n + 2] = rest] ELSE linked

(* The nodes of the list that begins at head, the epilogue included; a     *)
(* list that does not end, or that leads out of the memory, is cut off.    *)
Nodes(m, head) ==
  LET from[k \in 0 .. MaxHeap] ==
        [c \in Addr |->
           IF k = 0 \/ block_size(m, c) = 0 \/ m[c + 1] \notin Addr THEN <<c>>
           ELSE <<c>> \o from[k - 1][m[c + 1]]]
  IN  from[MaxHeap][m[Link(head)]]

(* The first block of the list that is large enough.                       *)
FindFrom(m, head, size) ==
  LET nodes == Nodes(m, head)
      fits  == {i \in DOMAIN nodes :
                  size <= block_size(m, nodes[i]) /\ IsFree(m, nodes[i])}
  IN  IF fits = {} THEN NULL ELSE nodes[Min(fits)]

(* Its blocks, without the epilogue.                                       *)
Listed(m, head) == ToSet(Front(Nodes(m, head)))

(* A list is sound if its next pointers lead from the prologue to the      *)
(* epilogue and each block points back to the node before it.              *)
ListSound(m, head, epilogue) ==
  LET nodes == Nodes(m, head)
  IN  /\ Last(nodes) = epilogue
      /\ \A k \in 1 .. Len(nodes) - 1 :
            m[nodes[k] + 2] = IF k = 1 THEN head ELSE nodes[k - 1]
=============================================================================
