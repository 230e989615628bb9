----------------------------- MODULE HeapBlocks -----------------------------
(***************************************************************************)
(* What the three allocators of src/malloclab have in common: a heap of    *)
(* 4-byte words cut into blocks that begin with a header and end with an   *)
(* equal footer, the boundary tags, which hold the size of the block in    *)
(* bytes and, in the lowest bit, whether it is allocated.                  *)
(*                                                                         *)
(* A heap h has the words h.mem and the break h.brk, the first word that   *)
(* mem_sbrk has not given out.  Addresses count words; the heap begins at  *)
(* a multiple of 8 bytes, so that an even word is aligned.  A pointer is   *)
(* stored as the lower half of its bits, and fixAddress restores the upper *)
(* half, which is the same for the whole heap: storing keeps the address.  *)
(***************************************************************************)
EXTENDS Integers, FiniteSetsExt

CONSTANTS CHUNKSIZE,   \* bytes by which a heap grows at least
          MaxHeap      \* words mem_sbrk can give out

ASSUME HeapAssumption == /\ CHUNKSIZE \in Nat /\ CHUNKSIZE % 8 = 0
                         /\ 16 <= CHUNKSIZE
                         /\ MaxHeap \in Nat /\ 4 + CHUNKSIZE \div 4 <= MaxHeap

WSIZE == 4

DSIZE == 8

NULL == 0

Addr == 0 .. MaxHeap - 1

PACK(size, alloc) == size + alloc

block_size(m, b) == m[b] - (m[b] % 8)

IsFree(m, b) == m[b] % 2 = 0

block_prev(m, b) == b - block_size(m, b - 1) \div WSIZE

block_next(m, b) == b + block_size(m, b) \div WSIZE

footer(m, b) == block_next(m, b) - 1

(* Header and footer of a block of the given size at b.                    *)
Tag(m, b, size, alloc) ==
  [m EXCEPT ![b] = PACK(size, alloc),
            ![b + size \div WSIZE - 1] = PACK(size, alloc)]

block_mark(m, b, alloc) == Tag(m, b, block_size(m, b), alloc)

(* The blocks from first to last become one free block.                    *)
Merge(m, first, last) ==
  LET size == WSIZE * (block_next(m, last) - first)
  IN  [m EXCEPT ![first] = PACK(size, 0), ![footer(m, last)] = PACK(size, 0)]

(* mem_sbrk fails when the memory set aside for the heap is used up.       *)
CanGrow(h, words) == h.brk + words <= MaxHeap

(* Bytes of a block for a request: two tags, and a multiple of 8.          *)
getMallocSize(size) ==
  IF size <= DSIZE THEN 2 * DSIZE
  ELSE DSIZE * ((size + DSIZE + (DSIZE - 1)) \div DSIZE)

(* memcpy and memset of a number of bytes; from, to and p are payloads.    *)
(* realloc copies more than the payload of the old block: what it reads    *)
(* past the end of the memory is taken to be 0.                            *)
Word(m, a) == IF a \in Addr THEN m[a] ELSE 0

Copy(m, from, to, bytes) ==
  [a \in Addr |-> IF a \in to .. to + bytes \div WSIZE - 1
                  THEN Word(m, from + (a - to)) ELSE m[a]]

Fill(m, p, bytes, word) ==
  [a \in Addr |-> IF a \in p .. p + bytes \div WSIZE - 1 THEN word ELSE m[a]]

(* The blocks that lie between two words, each found from the one before;  *)
(* a block of size 0 ends them.                                            *)
BlocksBetween(m, start, end) ==
  LET from[b \in start .. end] ==
        IF b < end /\ block_next(m, b) \in b + 1 .. end
        THEN {b} \cup from[block_next(m, b)] ELSE {}
  IN  from[start]

(* Tags that agree, blocks of 16 bytes and more whose payloads are         *)
(* aligned, and no word between start and end outside a block.             *)
TiledBetween(m, start, end) ==
  LET blocks == BlocksBetween(m, start, end)
  IN  /\ \A b \in blocks : /\ block_size(m, b) >= 2 * DSIZE
                           /\ (b + 1) % 2 = 0
                           /\ block_next(m, b) <= end
                           /\ m[footer(m, b)] = m[b]
      /\ start < end => \E b \in blocks : block_next(m, b) = end
=============================================================================
