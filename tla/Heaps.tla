------------------------------- MODULE Heaps -------------------------------
(***************************************************************************)
(* The three allocators of src/malloclab under one client: the program is  *)
(* linked with one of them and calls it in any order.                      *)
(***************************************************************************)
EXTENDS HeapBlocks, SequencesExt

CONSTANTS Allocators, Handles, Sizes

(* The first chunk and the largest prologue.                               *)
ASSUME RoomAssumption == 13 + CHUNKSIZE \div 4 <= MaxHeap

VARIABLES allocator, heap, held, crashed

vars == <<allocator, heap, held, crashed>>

(* The heads of the nine lists take 9 words more than the other prologues. *)
Implicit == INSTANCE ImplicitHeap WITH MaxHeap <- MaxHeap - 9
Explicit == INSTANCE ExplicitHeap WITH MaxHeap <- MaxHeap - 8
SegList  == INSTANCE SegListHeap

Init == /\ allocator \in Allocators
        /\ CASE allocator = "implicit" -> Implicit!Calls!Init
             [] allocator = "explicit" -> Explicit!Calls!Init
             [] allocator = "seglist"  -> SegList!Calls!Init

ImplicitCall == allocator = "implicit" /\ Implicit!Calls!Next /\ UNCHANGED allocator

ExplicitCall == allocator = "explicit" /\ Explicit!Calls!Next /\ UNCHANGED allocator

SegListCall == allocator = "seglist" /\ SegList!Calls!Next /\ UNCHANGED allocator

Next == ImplicitCall \/ ExplicitCall \/ SegListCall

Spec == Init /\ [][Next]_vars

(* What states are told apart by: the words that earlier blocks left in    *)
(* the heap are not.                                                       *)
View ==
  CASE allocator = "implicit" -> <<allocator, Implicit!Meaning>>
    [] allocator = "explicit" -> <<allocator, Explicit!Meaning>>
    [] allocator = "seglist"  -> <<allocator, SegList!Meaning>>
-----------------------------------------------------------------------------
(* The blocks tile the heap from the prologue to the break, the tags at    *)
(* the two ends of each agree, and the allocated ones are those the client *)
(* holds, as large as it asked for.                                        *)
BlocksSound ==
  CASE allocator = "implicit" -> Implicit!Sound
    [] allocator = "explicit" -> Explicit!Sound
    [] allocator = "seglist"  -> SegList!Sound

(* Every free block is on the list of its size, once, and nothing else is; *)
(* the links go both ways.                                                 *)
ListsSound == /\ allocator = "explicit" => Explicit!Listed
              /\ allocator = "seglist"  => SegList!Listed

(* The implicit heap never holds two free blocks side by side: free and    *)
(* extend_heap both coalesce.                                              *)
Coalesced == allocator = "implicit" => Implicit!NoFragments

(* What the client relies on: no call changes the words of a block other   *)
(* than its own, realloc carries the words over, calloc's are 0.           *)
Promised == INSTANCE HeapSpec WITH
              region   <- [k \in Handles |-> SegList!Calls!Region(k)],
              NoRegion <- SegList!Calls!NoRegion

KeepsPromise == Promised!Promise

(* "Coalescing is done(if possible) whenever a block is free'd": a block   *)
(* that free leaves on a list does not follow a free block.                *)
FreeCoalesces ==
  [][\A k \in Handles :
       held[k].ptr # NULL /\ held'[k].ptr = NULL
       => \A b \in SegList!Frees' : block_next(heap'.mem, b) = held[k].ptr - 1
                                    => held[k].ptr - 1 \notin SegList!Frees']_vars
=============================================================================
