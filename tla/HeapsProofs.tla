---------------------------- MODULE HeapsProofs ----------------------------
(***************************************************************************)
(* What AllocatorProofs proves of the implicit and of the explicit list,   *)
(* for the program that is linked with one of the three allocators.        *)
(***************************************************************************)
EXTENDS Heaps, TLAPS

(* The proofs of the two, for the memory each has here.                    *)
ImplicitProofs == INSTANCE AllocatorProofs WITH MaxHeap <- MaxHeap - 9

ExplicitProofs == INSTANCE AllocatorProofs WITH MaxHeap <- MaxHeap - 8

-----------------------------------------------------------------------------
(* The instances Heaps and this module make of the implicit list are the   *)
(* same: first the words and the blocks,                                   *)
LEMMA SameWords ==
  /\ Implicit!NULL = ImplicitProofs!NULL
  /\ Implicit!WSIZE = ImplicitProofs!WSIZE
  /\ Implicit!DSIZE = ImplicitProofs!DSIZE
  /\ Implicit!Addr = ImplicitProofs!Addr
  /\ Implicit!FirstBlock = ImplicitProofs!FirstBlock
  /\ \A s, a : Implicit!PACK(s, a) = ImplicitProofs!PACK(s, a)
  /\ \A s : Implicit!Min(s) = ImplicitProofs!Min(s) /\ Implicit!Max(s) = ImplicitProofs!Max(s)
BY DEF Implicit!NULL, ImplicitProofs!NULL, Implicit!WSIZE, ImplicitProofs!WSIZE,
       Implicit!DSIZE, ImplicitProofs!DSIZE, Implicit!Addr, ImplicitProofs!Addr,
       Implicit!FirstBlock, ImplicitProofs!FirstBlock,
       Implicit!PACK, ImplicitProofs!PACK, Implicit!Min, ImplicitProofs!Min,
       Implicit!Max, ImplicitProofs!Max

LEMMA SameTags ==
  /\ \A m, b : /\ Implicit!block_size(m, b) = ImplicitProofs!block_size(m, b)
               /\ Implicit!IsFree(m, b) <=> ImplicitProofs!IsFree(m, b)
               /\ Implicit!block_prev(m, b) = ImplicitProofs!block_prev(m, b)
               /\ Implicit!block_next(m, b) = ImplicitProofs!block_next(m, b)
               /\ Implicit!footer(m, b) = ImplicitProofs!footer(m, b)
  /\ \A h, w : Implicit!CanGrow(h, w) <=> ImplicitProofs!CanGrow(h, w)
  /\ \A s : Implicit!getMallocSize(s) = ImplicitProofs!getMallocSize(s)
BY SameWords DEF
   Implicit!block_size, ImplicitProofs!block_size, Implicit!IsFree, ImplicitProofs!IsFree,
   Implicit!block_prev, ImplicitProofs!block_prev, Implicit!block_next,
   ImplicitProofs!block_next, Implicit!footer, ImplicitProofs!footer,
   Implicit!CanGrow, ImplicitProofs!CanGrow,
   Implicit!getMallocSize, ImplicitProofs!getMallocSize

LEMMA SameTag ==
  ASSUME NEW m, NEW b, NEW size, NEW alloc
  PROVE  Implicit!Tag(m, b, size, alloc) = ImplicitProofs!Tag(m, b, size, alloc)
BY SameWords, ZenonT(40) DEF Implicit!Tag, ImplicitProofs!Tag

LEMMA SameMark ==
  ASSUME NEW m, NEW b, NEW alloc
  PROVE  Implicit!block_mark(m, b, alloc) = ImplicitProofs!block_mark(m, b, alloc)
BY SameTags, SameTag DEF Implicit!block_mark, ImplicitProofs!block_mark

LEMMA SameMerge ==
  ASSUME NEW m, NEW f, NEW l
  PROVE  Implicit!Merge(m, f, l) = ImplicitProofs!Merge(m, f, l)
BY SameWords, SameTags, ZenonT(40)
   DEF Implicit!Merge, ImplicitProofs!Merge

LEMMA SameWrites ==
  /\ \A m, p, n, w : Implicit!Fill(m, p, n, w) = ImplicitProofs!Fill(m, p, n, w)
  /\ \A m, f, t, n : Implicit!Copy(m, f, t, n) = ImplicitProofs!Copy(m, f, t, n)
BY SameWords DEF Implicit!Fill, ImplicitProofs!Fill, Implicit!Copy, ImplicitProofs!Copy,
                 Implicit!Word, ImplicitProofs!Word

LEMMA SameBlocks ==
  ASSUME NEW m, NEW s, NEW e
  PROVE  Implicit!BlocksBetween(m, s, e) = ImplicitProofs!BlocksBetween(m, s, e)
BY DEF Implicit!BlocksBetween, ImplicitProofs!BlocksBetween,
       Implicit!block_next, ImplicitProofs!block_next,
       Implicit!block_size, ImplicitProofs!block_size,
       Implicit!WSIZE, ImplicitProofs!WSIZE

-----------------------------------------------------------------------------
(* then the steps of a call,                                               *)
LEMMA SameFit ==
  ASSUME NEW m, NEW size
  PROVE  Implicit!find_first_fit(m, size) = ImplicitProofs!find_first_fit(m, size)
BY SameWords, SameTags, SameBlocks
   DEF Implicit!find_first_fit, ImplicitProofs!find_first_fit

LEMMA SameCoalesce ==
  ASSUME NEW m, NEW b
  PROVE  /\ Implicit!First(m, b) = ImplicitProofs!First(m, b)
         /\ Implicit!coalesce(m, b) = ImplicitProofs!coalesce(m, b)
BY SameTags, SameMerge DEF Implicit!First, ImplicitProofs!First,
                           Implicit!coalesce, ImplicitProofs!coalesce

LEMMA SameExtended ==
  ASSUME NEW h, NEW words
  PROVE  Implicit!Extended(h, words) = ImplicitProofs!Extended(h, words)
BY SameWords, SameTag DEF Implicit!Extended, ImplicitProofs!Extended

LEMMA SameExtend ==
  ASSUME NEW h, NEW words
  PROVE  Implicit!extend_heap(h, words) = ImplicitProofs!extend_heap(h, words)
BY SameExtended, SameCoalesce DEF Implicit!extend_heap, ImplicitProofs!extend_heap

LEMMA SamePlace ==
  ASSUME NEW m, NEW b, NEW size
  PROVE  Implicit!place(m, b, size) = ImplicitProofs!place(m, b, size)
BY SameWords, SameTags, SameTag, SameMark DEF Implicit!place, ImplicitProofs!place

LEMMA SameInit == Implicit!mm_init = ImplicitProofs!mm_init
BY SameWords, SameExtend DEF Implicit!mm_init, ImplicitProofs!mm_init

LEMMA SameMalloc ==
  ASSUME NEW h, NEW size
  PROVE  Implicit!malloc(h, size) = ImplicitProofs!malloc(h, size)
BY SameWords, SameTags, SameFit, SameExtend, SameExtended, SameCoalesce, SamePlace,
   ZenonT(40)
   DEF Implicit!malloc, ImplicitProofs!malloc

LEMMA SameFree ==
  ASSUME NEW h, NEW p
  PROVE  Implicit!free(h, p) = ImplicitProofs!free(h, p)
BY SameCoalesce, SameMark DEF Implicit!free, ImplicitProofs!free

LEMMA SameRealloc ==
  ASSUME NEW h, NEW p, NEW size
  PROVE  Implicit!realloc(h, p, size) = ImplicitProofs!realloc(h, p, size)
BY SameWords, SameTags, SameMalloc, SameFree, SameWrites
   DEF Implicit!realloc, ImplicitProofs!realloc

-----------------------------------------------------------------------------
(* and the client and its properties.                                      *)
LEMMA SameClientWords ==
  /\ Implicit!Calls!NULL = ImplicitProofs!Calls!NULL
  /\ Implicit!Calls!WSIZE = ImplicitProofs!Calls!WSIZE
  /\ Implicit!Calls!Nothing = ImplicitProofs!Calls!Nothing
  /\ Implicit!Calls!callVars = ImplicitProofs!Calls!callVars
  /\ \A k : Implicit!Calls!Holds(k) <=> ImplicitProofs!Calls!Holds(k)
  /\ \A k, p, size : Implicit!Calls!Keep(k, p, size) <=> ImplicitProofs!Calls!Keep(k, p, size)
  /\ \A m, p, n, w : Implicit!Calls!Fill(m, p, n, w) = ImplicitProofs!Calls!Fill(m, p, n, w)
BY DEF Implicit!Calls!NULL, ImplicitProofs!Calls!NULL,
       Implicit!Calls!WSIZE, ImplicitProofs!Calls!WSIZE,
       Implicit!Calls!Nothing, ImplicitProofs!Calls!Nothing,
       Implicit!Calls!callVars, ImplicitProofs!Calls!callVars,
       Implicit!Calls!Holds, ImplicitProofs!Calls!Holds,
       Implicit!Calls!Keep, ImplicitProofs!Calls!Keep,
       Implicit!Calls!Fill, ImplicitProofs!Calls!Fill,
       Implicit!Calls!Addr, ImplicitProofs!Calls!Addr

LEMMA SameClientInit == Implicit!Calls!Init <=> ImplicitProofs!Calls!Init
BY SameInit, SameClientWords DEF Implicit!Calls!Init, ImplicitProofs!Calls!Init

LEMMA SameCalls ==
  ASSUME NEW k, NEW size
  PROVE  /\ Implicit!Calls!Malloc(k, size) <=> ImplicitProofs!Calls!Malloc(k, size)
         /\ Implicit!Calls!Calloc(k, size) <=> ImplicitProofs!Calls!Calloc(k, size)
         /\ Implicit!Calls!Free(k) <=> ImplicitProofs!Calls!Free(k)
         /\ Implicit!Calls!Realloc(k, size) <=> ImplicitProofs!Calls!Realloc(k, size)
<1>1. Implicit!Calls!Malloc(k, size) <=> ImplicitProofs!Calls!Malloc(k, size)
  BY SameMalloc, SameClientWords DEF Implicit!Calls!Malloc, ImplicitProofs!Calls!Malloc
<1>2. Implicit!Calls!Calloc(k, size) <=> ImplicitProofs!Calls!Calloc(k, size)
  BY SameMalloc, SameClientWords DEF Implicit!Calls!Calloc, ImplicitProofs!Calls!Calloc
<1>3. Implicit!Calls!Free(k) <=> ImplicitProofs!Calls!Free(k)
  BY SameFree, SameClientWords DEF Implicit!Calls!Free, ImplicitProofs!Calls!Free
<1>4. Implicit!Calls!Realloc(k, size) <=> ImplicitProofs!Calls!Realloc(k, size)
  BY SameRealloc, SameClientWords DEF Implicit!Calls!Realloc, ImplicitProofs!Calls!Realloc
<1> QED
  BY <1>1, <1>2, <1>3, <1>4

LEMMA SameNext == Implicit!Calls!Next <=> ImplicitProofs!Calls!Next
<1>1. \A k \in Handles : Implicit!Calls!Free(k) <=> ImplicitProofs!Calls!Free(k)
  BY SameCalls
<1>2. \A k \in Handles, size \in Sizes :
         /\ Implicit!Calls!Malloc(k, size) <=> ImplicitProofs!Calls!Malloc(k, size)
         /\ Implicit!Calls!Calloc(k, size) <=> ImplicitProofs!Calls!Calloc(k, size)
         /\ Implicit!Calls!Realloc(k, size) <=> ImplicitProofs!Calls!Realloc(k, size)
  BY SameCalls
<1> QED
  BY <1>1, <1>2 DEF Implicit!Calls!Next, ImplicitProofs!Calls!Next

LEMMA SameClientBlocks ==
  ASSUME NEW m, NEW s, NEW e
  PROVE  /\ Implicit!Calls!BlocksBetween(m, s, e) = ImplicitProofs!Calls!BlocksBetween(m, s, e)
         /\ Implicit!Calls!TiledBetween(m, s, e) <=> ImplicitProofs!Calls!TiledBetween(m, s, e)
         /\ Implicit!Calls!FreeBlocks(s, e) = ImplicitProofs!Calls!FreeBlocks(s, e)
BY DEF Implicit!Calls!BlocksBetween, ImplicitProofs!Calls!BlocksBetween,
       Implicit!Calls!block_next, ImplicitProofs!Calls!block_next,
       Implicit!Calls!block_size, ImplicitProofs!Calls!block_size,
       Implicit!Calls!footer, ImplicitProofs!Calls!footer,
       Implicit!Calls!IsFree, ImplicitProofs!Calls!IsFree,
       Implicit!Calls!WSIZE, ImplicitProofs!Calls!WSIZE,
       Implicit!Calls!DSIZE, ImplicitProofs!Calls!DSIZE,
       Implicit!Calls!TiledBetween, ImplicitProofs!Calls!TiledBetween,
       Implicit!Calls!FreeBlocks, ImplicitProofs!Calls!FreeBlocks

LEMMA SameSound == Implicit!Sound <=> ImplicitProofs!Sound
<1>1. Implicit!Epilogue = ImplicitProofs!Epilogue
  BY DEF Implicit!Epilogue, ImplicitProofs!Epilogue
<1>2. \A s, e : Implicit!Calls!Accounted(s, e) <=> ImplicitProofs!Calls!Accounted(s, e)
  <2>1. \A m, s, e :
          /\ Implicit!Calls!BlocksBetween(m, s, e) = ImplicitProofs!Calls!BlocksBetween(m, s, e)
          /\ Implicit!Calls!TiledBetween(m, s, e) <=> ImplicitProofs!Calls!TiledBetween(m, s, e)
    BY SameClientBlocks
  <2>2. Implicit!Calls!Payloads = ImplicitProofs!Calls!Payloads
    BY SameClientWords DEF Implicit!Calls!Payloads, ImplicitProofs!Calls!Payloads
  <2> QED
    BY <2>1, <2>2, SameClientWords DEF
       Implicit!Calls!Accounted, ImplicitProofs!Calls!Accounted,
       Implicit!Calls!IsFree, ImplicitProofs!Calls!IsFree,
       Implicit!Calls!block_size, ImplicitProofs!Calls!block_size,
       Implicit!Calls!DSIZE, ImplicitProofs!Calls!DSIZE
<1> QED
  BY <1>1, <1>2, SameWords DEF Implicit!Sound, ImplicitProofs!Sound

LEMMA SameFragments == Implicit!NoFragments <=> ImplicitProofs!NoFragments
<1>1. \A s, e : Implicit!Calls!FreeBlocks(s, e) = ImplicitProofs!Calls!FreeBlocks(s, e)
  BY SameClientBlocks
<1> QED
  BY <1>1, SameWords DEF Implicit!NoFragments, ImplicitProofs!NoFragments,
     Implicit!Epilogue, ImplicitProofs!Epilogue,
     Implicit!Calls!Coalesced, ImplicitProofs!Calls!Coalesced,
     Implicit!Calls!block_next, ImplicitProofs!Calls!block_next,
     Implicit!Calls!block_size, ImplicitProofs!Calls!block_size,
     Implicit!Calls!WSIZE, ImplicitProofs!Calls!WSIZE


-----------------------------------------------------------------------------
(* So are those of the explicit list: the words and the blocks,            *)
LEMMA SameExplicitWords ==
  /\ Explicit!NULL = ExplicitProofs!Explicit!NULL
  /\ Explicit!WSIZE = ExplicitProofs!Explicit!WSIZE
  /\ Explicit!DSIZE = ExplicitProofs!Explicit!DSIZE
  /\ Explicit!Addr = ExplicitProofs!Explicit!Addr
  /\ Explicit!FirstBlock = ExplicitProofs!Explicit!FirstBlock
  /\ Explicit!heap_ptr = ExplicitProofs!Explicit!heap_ptr
  /\ Explicit!EpilogueList = ExplicitProofs!Explicit!EpilogueList
  /\ \A s, a : Explicit!PACK(s, a) = ExplicitProofs!Explicit!PACK(s, a)
  /\ \A s : /\ Explicit!Min(s) = ExplicitProofs!Explicit!Min(s)
            /\ Explicit!Max(s) = ExplicitProofs!Explicit!Max(s)
BY DEF Explicit!NULL, ExplicitProofs!Explicit!NULL,
       Explicit!WSIZE, ExplicitProofs!Explicit!WSIZE,
       Explicit!DSIZE, ExplicitProofs!Explicit!DSIZE,
       Explicit!Addr, ExplicitProofs!Explicit!Addr,
       Explicit!FirstBlock, ExplicitProofs!Explicit!FirstBlock,
       Explicit!heap_ptr, ExplicitProofs!Explicit!heap_ptr,
       Explicit!EpilogueList, ExplicitProofs!Explicit!EpilogueList,
       Explicit!PACK, ExplicitProofs!Explicit!PACK,
       Explicit!Min, ExplicitProofs!Explicit!Min,
       Explicit!Max, ExplicitProofs!Explicit!Max

LEMMA SameExplicitTags ==
  /\ \A m, b : /\ Explicit!block_size(m, b) = ExplicitProofs!Explicit!block_size(m, b)
               /\ Explicit!IsFree(m, b) <=> ExplicitProofs!Explicit!IsFree(m, b)
               /\ Explicit!block_prev(m, b) = ExplicitProofs!Explicit!block_prev(m, b)
               /\ Explicit!block_next(m, b) = ExplicitProofs!Explicit!block_next(m, b)
               /\ Explicit!footer(m, b) = ExplicitProofs!Explicit!footer(m, b)
  /\ \A h, w : Explicit!CanGrow(h, w) <=> ExplicitProofs!Explicit!CanGrow(h, w)
  /\ \A s : Explicit!getMallocSize(s) = ExplicitProofs!Explicit!getMallocSize(s)
BY SameExplicitWords DEF
   Explicit!block_size, ExplicitProofs!Explicit!block_size,
   Explicit!IsFree, ExplicitProofs!Explicit!IsFree,
   Explicit!block_prev, ExplicitProofs!Explicit!block_prev,
   Explicit!block_next, ExplicitProofs!Explicit!block_next,
   Explicit!footer, ExplicitProofs!Explicit!footer,
   Explicit!CanGrow, ExplicitProofs!Explicit!CanGrow,
   Explicit!getMallocSize, ExplicitProofs!Explicit!getMallocSize

LEMMA SameExplicitTag ==
  ASSUME NEW m, NEW b, NEW size, NEW alloc
  PROVE  /\ Explicit!Tag(m, b, size, alloc) = ExplicitProofs!Explicit!Tag(m, b, size, alloc)
         /\ Explicit!block_mark(m, b, alloc)
              = ExplicitProofs!Explicit!block_mark(m, b, alloc)
<1>1. \A s : Explicit!Tag(m, b, s, alloc) = ExplicitProofs!Explicit!Tag(m, b, s, alloc)
  BY SameExplicitWords DEF Explicit!Tag, ExplicitProofs!Explicit!Tag
<1> QED
  BY <1>1, SameExplicitTags, ZenonT(40)
     DEF Explicit!block_mark, ExplicitProofs!Explicit!block_mark

LEMMA SameExplicitMerge ==
  ASSUME NEW m, NEW f, NEW l
  PROVE  Explicit!Merge(m, f, l) = ExplicitProofs!Explicit!Merge(m, f, l)
BY SameExplicitWords, SameExplicitTags, ZenonT(40)
   DEF Explicit!Merge, ExplicitProofs!Explicit!Merge

LEMMA SameExplicitWrites ==
  \A m, f, t, n : Explicit!Copy(m, f, t, n) = ExplicitProofs!Explicit!Copy(m, f, t, n)
BY SameExplicitWords DEF Explicit!Copy, ExplicitProofs!Explicit!Copy,
                         Explicit!Word, ExplicitProofs!Explicit!Word

-----------------------------------------------------------------------------
(* its list,                                                               *)
LEMMA SameListWords ==
  /\ Explicit!List!NULL = ExplicitProofs!Explicit!List!NULL
  /\ Explicit!List!Addr = ExplicitProofs!Explicit!List!Addr
  /\ \A s : Explicit!List!Min(s) = ExplicitProofs!Explicit!List!Min(s)
  /\ \A m, b : /\ Explicit!List!block_size(m, b)
                 = ExplicitProofs!Explicit!List!block_size(m, b)
               /\ Explicit!List!IsFree(m, b) <=> ExplicitProofs!Explicit!List!IsFree(m, b)
  /\ \A p : Explicit!Link(p) = ExplicitProofs!Explicit!Link(p)
  /\ \A s : Explicit!ListHead(s) = ExplicitProofs!Explicit!ListHead(s)
BY DEF Explicit!List!NULL, ExplicitProofs!Explicit!List!NULL,
       Explicit!List!Addr, ExplicitProofs!Explicit!List!Addr,
       Explicit!List!Min, ExplicitProofs!Explicit!List!Min,
       Explicit!List!block_size, ExplicitProofs!Explicit!List!block_size,
       Explicit!List!IsFree, ExplicitProofs!Explicit!List!IsFree,
       Explicit!Link, ExplicitProofs!Explicit!Link,
       Explicit!ListHead, ExplicitProofs!Explicit!ListHead,
       Explicit!heap_ptr, ExplicitProofs!Explicit!heap_ptr

LEMMA SameLinks ==
  ASSUME NEW m, NEW b, NEW rest
  PROVE  /\ Explicit!List!placeFreeBlock(m, b)
              = ExplicitProofs!Explicit!List!placeFreeBlock(m, b)
         /\ Explicit!List!removeBlock(m, b) = ExplicitProofs!Explicit!List!removeBlock(m, b)
         /\ Explicit!List!Relink(m, b, rest)
              = ExplicitProofs!Explicit!List!Relink(m, b, rest)
BY SameListWords, ZenonT(40) DEF
   Explicit!List!placeFreeBlock, ExplicitProofs!Explicit!List!placeFreeBlock,
   Explicit!List!removeBlock, ExplicitProofs!Explicit!List!removeBlock,
   Explicit!List!Relink, ExplicitProofs!Explicit!List!Relink

LEMMA SameNodes ==
  ASSUME NEW m, NEW head
  PROVE  Explicit!List!Nodes(m, head) = ExplicitProofs!Explicit!List!Nodes(m, head)
BY DEF Explicit!List!Nodes, ExplicitProofs!Explicit!List!Nodes,
       Explicit!List!Addr, ExplicitProofs!Explicit!List!Addr,
       Explicit!List!block_size, ExplicitProofs!Explicit!List!block_size,
       Explicit!Link, ExplicitProofs!Explicit!Link

LEMMA SameList ==
  ASSUME NEW m, NEW head, NEW size, NEW epilogue
  PROVE  /\ Explicit!List!FindFrom(m, head, size)
              = ExplicitProofs!Explicit!List!FindFrom(m, head, size)
         /\ Explicit!List!Listed(m, head) = ExplicitProofs!Explicit!List!Listed(m, head)
         /\ Explicit!List!ListSound(m, head, epilogue)
              <=> ExplicitProofs!Explicit!List!ListSound(m, head, epilogue)
<1>1. Explicit!List!FindFrom(m, head, size)
        = ExplicitProofs!Explicit!List!FindFrom(m, head, size)
  BY SameListWords, SameNodes
     DEF Explicit!List!FindFrom, ExplicitProofs!Explicit!List!FindFrom
<1>2. Explicit!List!Listed(m, head) = ExplicitProofs!Explicit!List!Listed(m, head)
  BY SameNodes DEF Explicit!List!Listed, ExplicitProofs!Explicit!List!Listed,
     Explicit!List!ToSet, ExplicitProofs!Explicit!List!ToSet,
     Explicit!List!Front, ExplicitProofs!Explicit!List!Front
<1>3. Explicit!List!ListSound(m, head, epilogue)
        <=> ExplicitProofs!Explicit!List!ListSound(m, head, epilogue)
  BY SameNodes DEF Explicit!List!ListSound, ExplicitProofs!Explicit!List!ListSound,
     Explicit!List!Last, ExplicitProofs!Explicit!List!Last
<1> QED
  BY <1>1, <1>2, <1>3

-----------------------------------------------------------------------------
(* the steps of a call,                                                    *)
LEMMA SameExplicitCoalesce ==
  ASSUME NEW h, NEW b
  PROVE  Explicit!coalesce(h, b) = ExplicitProofs!Explicit!coalesce(h, b)
BY SameExplicitTags, SameExplicitMerge, SameLinks
   DEF Explicit!coalesce, ExplicitProofs!Explicit!coalesce

LEMMA SameExplicitExtend ==
  ASSUME NEW h, NEW words
  PROVE  Explicit!extend_heap(h, words) = ExplicitProofs!Explicit!extend_heap(h, words)
BY SameExplicitWords, SameExplicitTag, SameExplicitCoalesce
   DEF Explicit!extend_heap, ExplicitProofs!Explicit!extend_heap

LEMMA SameExplicitPlace ==
  ASSUME NEW m, NEW b, NEW size
  PROVE  Explicit!place(m, b, size) = ExplicitProofs!Explicit!place(m, b, size)
BY SameExplicitWords, SameExplicitTags, SameExplicitTag, SameLinks
   DEF Explicit!place, ExplicitProofs!Explicit!place

LEMMA SameExplicitInit == Explicit!mm_init = ExplicitProofs!Explicit!mm_init
BY SameExplicitWords, SameExplicitExtend
   DEF Explicit!mm_init, ExplicitProofs!Explicit!mm_init

LEMMA SameExplicitMalloc ==
  ASSUME NEW h, NEW size
  PROVE  Explicit!malloc(h, size) = ExplicitProofs!Explicit!malloc(h, size)
<1>1. \A m, s : Explicit!find_first_fit(m, s) = ExplicitProofs!Explicit!find_first_fit(m, s)
  BY SameExplicitWords, SameList
     DEF Explicit!find_first_fit, ExplicitProofs!Explicit!find_first_fit
<1> QED
  BY <1>1, SameExplicitWords, SameExplicitTags, SameExplicitExtend, SameExplicitPlace,
     ZenonT(40)
     DEF Explicit!malloc, ExplicitProofs!Explicit!malloc

LEMMA SameExplicitFree ==
  ASSUME NEW h, NEW p
  PROVE  Explicit!free(h, p) = ExplicitProofs!Explicit!free(h, p)
BY SameExplicitCoalesce, SameExplicitTag DEF Explicit!free, ExplicitProofs!Explicit!free

LEMMA SameExplicitRealloc ==
  ASSUME NEW h, NEW p, NEW size
  PROVE  Explicit!realloc(h, p, size) = ExplicitProofs!Explicit!realloc(h, p, size)
BY SameExplicitWords, SameExplicitTags, SameExplicitMalloc, SameExplicitFree,
   SameExplicitWrites DEF Explicit!realloc, ExplicitProofs!Explicit!realloc

-----------------------------------------------------------------------------
(* and the client and its properties.                                      *)
LEMMA SameExplicitClientWords ==
  /\ Explicit!Calls!NULL = ExplicitProofs!Explicit!Calls!NULL
  /\ Explicit!Calls!WSIZE = ExplicitProofs!Explicit!Calls!WSIZE
  /\ Explicit!Calls!Nothing = ExplicitProofs!Explicit!Calls!Nothing
  /\ Explicit!Calls!callVars = ExplicitProofs!Explicit!Calls!callVars
  /\ \A k : Explicit!Calls!Holds(k) <=> ExplicitProofs!Explicit!Calls!Holds(k)
  /\ \A k, p, size : Explicit!Calls!Keep(k, p, size)
                       <=> ExplicitProofs!Explicit!Calls!Keep(k, p, size)
  /\ \A m, p, n, w : Explicit!Calls!Fill(m, p, n, w)
                       = ExplicitProofs!Explicit!Calls!Fill(m, p, n, w)
BY DEF Explicit!Calls!NULL, ExplicitProofs!Explicit!Calls!NULL,
       Explicit!Calls!WSIZE, ExplicitProofs!Explicit!Calls!WSIZE,
       Explicit!Calls!Nothing, ExplicitProofs!Explicit!Calls!Nothing,
       Explicit!Calls!callVars, ExplicitProofs!Explicit!Calls!callVars,
       Explicit!Calls!Holds, ExplicitProofs!Explicit!Calls!Holds,
       Explicit!Calls!Keep, ExplicitProofs!Explicit!Calls!Keep,
       Explicit!Calls!Fill, ExplicitProofs!Explicit!Calls!Fill,
       Explicit!Calls!Addr, ExplicitProofs!Explicit!Calls!Addr

LEMMA SameExplicitClientInit == Explicit!Calls!Init <=> ExplicitProofs!Explicit!Calls!Init
BY SameExplicitInit, SameExplicitClientWords
   DEF Explicit!Calls!Init, ExplicitProofs!Explicit!Calls!Init

LEMMA SameExplicitCalls ==
  ASSUME NEW k, NEW size
  PROVE  /\ Explicit!Calls!Malloc(k, size) <=> ExplicitProofs!Explicit!Calls!Malloc(k, size)
         /\ Explicit!Calls!Calloc(k, size) <=> ExplicitProofs!Explicit!Calls!Calloc(k, size)
         /\ Explicit!Calls!Free(k) <=> ExplicitProofs!Explicit!Calls!Free(k)
         /\ Explicit!Calls!Realloc(k, size)
              <=> ExplicitProofs!Explicit!Calls!Realloc(k, size)
<1>1. Explicit!Calls!Malloc(k, size) <=> ExplicitProofs!Explicit!Calls!Malloc(k, size)
  BY SameExplicitMalloc, SameExplicitClientWords
     DEF Explicit!Calls!Malloc, ExplicitProofs!Explicit!Calls!Malloc
<1>2. Explicit!Calls!Calloc(k, size) <=> ExplicitProofs!Explicit!Calls!Calloc(k, size)
  BY SameExplicitMalloc, SameExplicitClientWords
     DEF Explicit!Calls!Calloc, ExplicitProofs!Explicit!Calls!Calloc
<1>3. Explicit!Calls!Free(k) <=> ExplicitProofs!Explicit!Calls!Free(k)
  BY SameExplicitFree, SameExplicitClientWords
     DEF Explicit!Calls!Free, ExplicitProofs!Explicit!Calls!Free
<1>4. Explicit!Calls!Realloc(k, size) <=> ExplicitProofs!Explicit!Calls!Realloc(k, size)
  BY SameExplicitRealloc, SameExplicitClientWords
     DEF Explicit!Calls!Realloc, ExplicitProofs!Explicit!Calls!Realloc
<1> QED
  BY <1>1, <1>2, <1>3, <1>4

LEMMA SameExplicitNext == Explicit!Calls!Next <=> ExplicitProofs!Explicit!Calls!Next
<1>1. \A k \in Handles : Explicit!Calls!Free(k) <=> ExplicitProofs!Explicit!Calls!Free(k)
  BY SameExplicitCalls
<1>2. \A k \in Handles, size \in Sizes :
         /\ Explicit!Calls!Malloc(k, size) <=> ExplicitProofs!Explicit!Calls!Malloc(k, size)
         /\ Explicit!Calls!Calloc(k, size) <=> ExplicitProofs!Explicit!Calls!Calloc(k, size)
         /\ Explicit!Calls!Realloc(k, size)
              <=> ExplicitProofs!Explicit!Calls!Realloc(k, size)
  BY SameExplicitCalls
<1> QED
  BY <1>1, <1>2 DEF Explicit!Calls!Next, ExplicitProofs!Explicit!Calls!Next

LEMMA SameExplicitClientBlocks ==
  ASSUME NEW m, NEW s, NEW e
  PROVE  /\ Explicit!Calls!BlocksBetween(m, s, e)
              = ExplicitProofs!Explicit!Calls!BlocksBetween(m, s, e)
         /\ Explicit!Calls!TiledBetween(m, s, e)
              <=> ExplicitProofs!Explicit!Calls!TiledBetween(m, s, e)
         /\ Explicit!Calls!FreeBlocks(s, e) = ExplicitProofs!Explicit!Calls!FreeBlocks(s, e)
BY DEF Explicit!Calls!BlocksBetween, ExplicitProofs!Explicit!Calls!BlocksBetween,
       Explicit!Calls!block_next, ExplicitProofs!Explicit!Calls!block_next,
       Explicit!Calls!block_size, ExplicitProofs!Explicit!Calls!block_size,
       Explicit!Calls!footer, ExplicitProofs!Explicit!Calls!footer,
       Explicit!Calls!IsFree, ExplicitProofs!Explicit!Calls!IsFree,
       Explicit!Calls!WSIZE, ExplicitProofs!Explicit!Calls!WSIZE,
       Explicit!Calls!DSIZE, ExplicitProofs!Explicit!Calls!DSIZE,
       Explicit!Calls!TiledBetween, ExplicitProofs!Explicit!Calls!TiledBetween,
       Explicit!Calls!FreeBlocks, ExplicitProofs!Explicit!Calls!FreeBlocks

LEMMA SameExplicitSound == Explicit!Sound <=> ExplicitProofs!Explicit!Sound
<1>1. \A s, e : Explicit!Calls!Accounted(s, e)
                  <=> ExplicitProofs!Explicit!Calls!Accounted(s, e)
  <2>1. \A m, s, e :
          /\ Explicit!Calls!BlocksBetween(m, s, e)
               = ExplicitProofs!Explicit!Calls!BlocksBetween(m, s, e)
          /\ Explicit!Calls!TiledBetween(m, s, e)
               <=> ExplicitProofs!Explicit!Calls!TiledBetween(m, s, e)
    BY SameExplicitClientBlocks
  <2>2. Explicit!Calls!Payloads = ExplicitProofs!Explicit!Calls!Payloads
    BY SameExplicitClientWords
       DEF Explicit!Calls!Payloads, ExplicitProofs!Explicit!Calls!Payloads
  <2> QED
    BY <2>1, <2>2, SameExplicitClientWords DEF
       Explicit!Calls!Accounted, ExplicitProofs!Explicit!Calls!Accounted,
       Explicit!Calls!IsFree, ExplicitProofs!Explicit!Calls!IsFree,
       Explicit!Calls!block_size, ExplicitProofs!Explicit!Calls!block_size,
       Explicit!Calls!DSIZE, ExplicitProofs!Explicit!Calls!DSIZE
<1> QED
  BY <1>1, SameExplicitWords DEF Explicit!Sound, ExplicitProofs!Explicit!Sound

LEMMA SameListed == Explicit!Listed <=> ExplicitProofs!Explicit!Listed
<1>1. \A s, e : Explicit!Calls!FreeBlocks(s, e)
                  = ExplicitProofs!Explicit!Calls!FreeBlocks(s, e)
  BY SameExplicitClientBlocks
<1> QED
  BY <1>1, SameExplicitWords, SameList DEF Explicit!Listed, ExplicitProofs!Explicit!Listed

-----------------------------------------------------------------------------
(* The memory of each has room for its prologue.                           *)
LEMMA ImplicitRoom ==
  /\ ImplicitProofs!HeapAssumption /\ ImplicitProofs!Room("implicit")
  /\ "implicit" \in ImplicitProofs!Kinds /\ "implicit" # "explicit"
<1>1. "implicit" # "explicit"
  OBVIOUS
<1> QED
  BY <1>1, HeapAssumption, RoomAssumption
     DEF ImplicitProofs!HeapAssumption, ImplicitProofs!Room, ImplicitProofs!Kinds

LEMMA ExplicitRoom ==
  /\ ExplicitProofs!HeapAssumption /\ ExplicitProofs!Room("explicit")
  /\ "explicit" \in ExplicitProofs!Kinds
<1>1. MaxHeap \in Nat /\ CHUNKSIZE \div 4 \in Nat /\ 13 + CHUNKSIZE \div 4 <= MaxHeap
  BY HeapAssumption, RoomAssumption
<1>2. 5 + CHUNKSIZE \div 4 <= MaxHeap - 8
  BY <1>1
<1> QED
  BY <1>1, <1>2, HeapAssumption, RoomAssumption
     DEF ExplicitProofs!HeapAssumption, ExplicitProofs!Room, ExplicitProofs!Kinds

(* The invariant of the list that is linked.                               *)
ListInv == /\ allocator = "implicit" => ImplicitProofs!Inv("implicit")
           /\ allocator = "explicit" => ExplicitProofs!Inv("explicit")

LEMMA Started ==
  ASSUME Init
  PROVE  /\ allocator = "implicit" => ImplicitProofs!Starts("implicit")
         /\ allocator = "explicit" => ExplicitProofs!Starts("explicit")
<1>1. ASSUME allocator = "implicit" PROVE ImplicitProofs!Starts("implicit")
  <2>1. Implicit!Calls!Init
    BY <1>1 DEF Init
  <2> QED
    BY <2>1, SameClientInit, ImplicitRoom, ImplicitProofs!StartIs
<1>2. ASSUME allocator = "explicit" PROVE ExplicitProofs!Starts("explicit")
  <2>1. Explicit!Calls!Init
    BY <1>2, ImplicitRoom DEF Init
  <2> QED
    BY <2>1, SameExplicitClientInit, ExplicitRoom, ExplicitProofs!ExplicitStartIs
<1> QED
  BY <1>1, <1>2

LEMMA ListInvInit == Init => ListInv
<1> SUFFICES ASSUME Init PROVE ListInv
  OBVIOUS
<1>1. allocator = "implicit" => ImplicitProofs!Inv("implicit")
  BY Started, ImplicitRoom, ImplicitProofs!InvStart
<1>2. allocator = "explicit" => ExplicitProofs!Inv("explicit")
  BY Started, ExplicitRoom, ExplicitProofs!InvStart
<1> QED
  BY <1>1, <1>2 DEF ListInv

(* A step of the program is a step of the client of that list.             *)
LEMMA Stepped ==
  ASSUME Sizes \subseteq Nat, ListInv, [Next]_vars
  PROVE  /\ allocator' = allocator
         /\ allocator = "implicit" => ImplicitProofs!Steps("implicit")
         /\ allocator = "explicit" => ExplicitProofs!Steps("explicit")
<1>1. allocator' = allocator
  BY DEF Next, vars, ImplicitCall, ExplicitCall, SegListCall
<1>2. ASSUME allocator = "implicit" PROVE ImplicitProofs!Steps("implicit")
  <2>1. held \in [Handles -> ImplicitProofs!Things]
    BY <1>2, ImplicitRoom, ImplicitProofs!HeldIs DEF ListInv
  <2>2. [ImplicitProofs!Calls!Next]_ImplicitProofs!Calls!callVars
    <3>1. CASE Next
      <4>1. ImplicitCall
        BY <1>2, <3>1 DEF Next, ExplicitCall, SegListCall
      <4> QED
        BY <4>1, SameNext DEF ImplicitCall
    <3>2. CASE UNCHANGED vars
      BY <3>2 DEF vars, ImplicitProofs!Calls!callVars
    <3> QED
      BY <3>1, <3>2
  <2> QED
    BY <2>1, <2>2, ImplicitRoom, ImplicitProofs!StepIs
<1>3. ASSUME allocator = "explicit" PROVE ExplicitProofs!Steps("explicit")
  <2>1. held \in [Handles -> ExplicitProofs!Things]
    BY <1>3, ExplicitRoom, ExplicitProofs!HeldIs DEF ListInv
  <2>2. [ExplicitProofs!Explicit!Calls!Next]_ExplicitProofs!Explicit!Calls!callVars
    <3>1. CASE Next
      <4>1. ExplicitCall
        BY <1>3, <3>1 DEF Next, ImplicitCall, SegListCall
      <4> QED
        BY <4>1, SameExplicitNext DEF ExplicitCall
    <3>2. CASE UNCHANGED vars
      BY <3>2 DEF vars, ExplicitProofs!Explicit!Calls!callVars
    <3> QED
      BY <3>1, <3>2
  <2> QED
    BY <2>1, <2>2, ExplicitRoom, ExplicitProofs!ExplicitStepIs
<1> QED
  BY <1>1, <1>2, <1>3

LEMMA ListInvPreserved ==
  ASSUME Sizes \subseteq Nat
  PROVE  ListInv /\ [Next]_vars => ListInv'
<1> SUFFICES ASSUME ListInv, [Next]_vars PROVE ListInv'
  OBVIOUS
<1>1. ASSUME allocator = "implicit" PROVE ImplicitProofs!Inv("implicit")'
  BY <1>1, Stepped, ImplicitRoom, ImplicitProofs!InvPreserved DEF ListInv
<1>2. ASSUME allocator = "explicit" PROVE ExplicitProofs!Inv("explicit")'
  BY <1>2, Stepped, ExplicitRoom, ExplicitProofs!InvPreserved DEF ListInv
<1> QED
  BY <1>1, <1>2, Stepped DEF ListInv

(* Whichever allocator is linked, the implicit list holds no two free      *)
(* blocks side by side, after any calls with sizes of any kind.            *)
THEOREM ListIsCoalesced ==
  ASSUME Sizes \subseteq Nat
  PROVE  Spec => []Coalesced
<1>1. ListInv => Coalesced
  BY ImplicitRoom, ImplicitProofs!ApartIs, SameFragments DEF ListInv, Coalesced
<1> QED
  BY <1>1, ListInvInit, ListInvPreserved, PTL DEF Spec

-----------------------------------------------------------------------------
(* The program linked with the implicit or the explicit list.              *)
ListLinked == allocator \in {"implicit", "explicit"}

LEMMA LinkedStays ==
  ASSUME Allocators \subseteq {"implicit", "explicit"}
  PROVE  /\ Init => ListLinked
         /\ ListLinked /\ [Next]_vars => ListLinked'
BY ZenonT(40) DEF Init, ListLinked, Next, vars, ImplicitCall, ExplicitCall, SegListCall

(* Its blocks tile the heap, their tags agree, and the allocated ones are  *)
(* those the client holds, as large as it asked for.                       *)
THEOREM ListIsSound ==
  ASSUME Allocators \subseteq {"implicit", "explicit"}, Sizes \subseteq Nat
  PROVE  Spec => []BlocksSound
<1>1. ListInv /\ ListLinked => BlocksSound
  <2> SUFFICES ASSUME ListInv, ListLinked PROVE BlocksSound
    OBVIOUS
  <2>1. CASE allocator = "implicit"
    <3>1. Implicit!Sound
      BY <2>1, ImplicitRoom, ImplicitProofs!SoundIs, SameSound DEF ListInv
    <3> QED
      BY <2>1, <3>1 DEF BlocksSound
  <2>2. CASE allocator = "explicit"
    <3>1. Explicit!Sound
      BY <2>2, ExplicitRoom, ExplicitProofs!ExplicitSoundIs, SameExplicitSound DEF ListInv
    <3>2. allocator # "implicit" /\ allocator # "seglist"
      BY <2>2
    <3> QED
      BY <2>2, <3>1, <3>2 DEF BlocksSound
  <2> QED
    BY <2>1, <2>2 DEF ListLinked
<1> QED
  BY <1>1, ListInvInit, ListInvPreserved, LinkedStays, PTL DEF Spec

(* The list of the explicit heap holds its free blocks and no others, once *)
(* each, and the links go both ways.                                       *)
THEOREM FreesAreListed ==
  ASSUME Allocators \subseteq {"implicit", "explicit"}, Sizes \subseteq Nat
  PROVE  Spec => []ListsSound
<1>1. ListInv /\ ListLinked => ListsSound
  <2> SUFFICES ASSUME ListInv, ListLinked PROVE ListsSound
    OBVIOUS
  <2>1. allocator # "seglist"
    BY DEF ListLinked
  <2>2. allocator = "explicit" => Explicit!Listed
    BY ExplicitRoom, ExplicitProofs!ListedIs, SameListed DEF ListInv
  <2> QED
    BY <2>1, <2>2 DEF ListsSound
<1> QED
  BY <1>1, ListInvInit, ListInvPreserved, LinkedStays, PTL DEF Spec

-----------------------------------------------------------------------------
(* HeapSpec for the whole memory allows what it allows for the memory of   *)
(* the implicit list,                                                      *)
HeldRegions == [k \in Handles |-> SegList!Calls!Region(k)]

LEMMA SameRegion ==
  /\ SegList!Calls!NoRegion = ImplicitProofs!Nowhere
  /\ HeldRegions = ImplicitProofs!Regions /\ HeldRegions' = ImplicitProofs!Regions'
  /\ SegList!Calls!NoRegion = ExplicitProofs!Nowhere
  /\ HeldRegions = ExplicitProofs!Regions /\ HeldRegions' = ExplicitProofs!Regions'
<1>1. /\ SegList!Calls!NoRegion = ImplicitProofs!Nowhere
      /\ SegList!Calls!NoRegion = ExplicitProofs!Nowhere
  BY DEF SegList!Calls!NoRegion, SegList!Calls!NULL,
         ImplicitProofs!Nowhere, ImplicitProofs!NULL,
         ExplicitProofs!Nowhere, ExplicitProofs!NULL
<1>2. \A k : /\ SegList!Calls!Region(k) = ImplicitProofs!RegionOf(heap.mem, held[k])
             /\ SegList!Calls!Region(k)' = ImplicitProofs!RegionOf(heap'.mem, held'[k])
             /\ SegList!Calls!Region(k) = ExplicitProofs!RegionOf(heap.mem, held[k])
             /\ SegList!Calls!Region(k)' = ExplicitProofs!RegionOf(heap'.mem, held'[k])
  BY <1>1 DEF SegList!Calls!Region, SegList!Calls!Holds, SegList!Calls!NULL,
              SegList!Calls!WSIZE,
              ImplicitProofs!RegionOf, ImplicitProofs!NULL, ImplicitProofs!WSIZE,
              ExplicitProofs!RegionOf, ExplicitProofs!NULL, ExplicitProofs!WSIZE
<1> QED
  BY <1>1, <1>2 DEF HeldRegions, ImplicitProofs!Regions, ExplicitProofs!Regions

LEMMA LessMemory == ImplicitProofs!Addr \subseteq Addr
<1>1. MaxHeap \in Nat
  BY HeapAssumption
<1> QED
  BY <1>1 DEF ImplicitProofs!Addr, Addr

LEMMA SameBecomes ==
  ASSUME NEW k, NEW r, ImplicitProofs!Promised!Becomes(k, r)
  PROVE  Promised!Becomes(k, r)
<1>1. ImplicitProofs!Promised!Fits(k, r) => Promised!Fits(k, r)
  BY SameRegion, LessMemory DEF
     ImplicitProofs!Promised!Fits, Promised!Fits,
     ImplicitProofs!Promised!WordsOf, Promised!WordsOf,
     ImplicitProofs!Promised!InUse, Promised!InUse, HeldRegions
<1> QED
  BY <1>1, SameRegion DEF ImplicitProofs!Promised!Becomes, Promised!Becomes, HeldRegions

LEMMA SamePromise ==
  /\ ImplicitProofs!Promised!SpecInit => Promised!SpecInit
  /\ ImplicitProofs!Promised!SpecNext => Promised!SpecNext
<1>1. ImplicitProofs!Promised!SpecInit => Promised!SpecInit
  BY SameRegion, ZenonT(40)
     DEF ImplicitProofs!Promised!SpecInit, Promised!SpecInit, HeldRegions
<1>2. ASSUME NEW k, NEW size, NEW word, ImplicitProofs!Promised!Allocate(k, size, word)
      PROVE  Promised!Allocate(k, size, word)
  BY <1>2, SameRegion, SameBecomes DEF
     ImplicitProofs!Promised!Allocate, Promised!Allocate,
     ImplicitProofs!Promised!InUse, Promised!InUse, HeldRegions
<1>3. ASSUME NEW k, ImplicitProofs!Promised!Release(k)
      PROVE  Promised!Release(k)
  BY <1>3, SameRegion DEF ImplicitProofs!Promised!Release, Promised!Release,
     ImplicitProofs!Promised!InUse, Promised!InUse, HeldRegions
<1>4. ASSUME NEW k, NEW size, ImplicitProofs!Promised!Realloc(k, size)
      PROVE  Promised!Realloc(k, size)
  BY <1>4, SameRegion, SameBecomes, ZenonT(40) DEF
     ImplicitProofs!Promised!Realloc, Promised!Realloc,
     ImplicitProofs!Promised!InUse, Promised!InUse, HeldRegions
<1>5. ASSUME ImplicitProofs!Promised!SpecNext PROVE Promised!SpecNext
  BY <1>2, <1>3, <1>4, <1>5 DEF
     ImplicitProofs!Promised!SpecNext, Promised!SpecNext,
     ImplicitProofs!Promised!Malloc, Promised!Malloc,
     ImplicitProofs!Promised!Calloc, Promised!Calloc
<1> QED
  BY <1>1, <1>5

(* and for that of the explicit list.                                      *)
LEMMA LessExplicitMemory == ExplicitProofs!Addr \subseteq Addr
<1>1. MaxHeap \in Nat
  BY HeapAssumption
<1> QED
  BY <1>1 DEF ExplicitProofs!Addr, Addr

LEMMA SameExplicitBecomes ==
  ASSUME NEW k, NEW r, ExplicitProofs!Promised!Becomes(k, r)
  PROVE  Promised!Becomes(k, r)
<1>1. ExplicitProofs!Promised!Fits(k, r) => Promised!Fits(k, r)
  BY SameRegion, LessExplicitMemory DEF
     ExplicitProofs!Promised!Fits, Promised!Fits,
     ExplicitProofs!Promised!WordsOf, Promised!WordsOf,
     ExplicitProofs!Promised!InUse, Promised!InUse, HeldRegions
<1> QED
  BY <1>1, SameRegion DEF ExplicitProofs!Promised!Becomes, Promised!Becomes, HeldRegions

LEMMA SameExplicitPromise ==
  /\ ExplicitProofs!Promised!SpecInit => Promised!SpecInit
  /\ ExplicitProofs!Promised!SpecNext => Promised!SpecNext
<1>1. ExplicitProofs!Promised!SpecInit => Promised!SpecInit
  BY SameRegion DEF ExplicitProofs!Promised!SpecInit, Promised!SpecInit, HeldRegions
<1>2. ASSUME NEW k, NEW size, NEW word, ExplicitProofs!Promised!Allocate(k, size, word)
      PROVE  Promised!Allocate(k, size, word)
  BY <1>2, SameRegion, SameExplicitBecomes DEF
     ExplicitProofs!Promised!Allocate, Promised!Allocate,
     ExplicitProofs!Promised!InUse, Promised!InUse, HeldRegions
<1>3. ASSUME NEW k, ExplicitProofs!Promised!Release(k)
      PROVE  Promised!Release(k)
  BY <1>3, SameRegion DEF ExplicitProofs!Promised!Release, Promised!Release,
     ExplicitProofs!Promised!InUse, Promised!InUse, HeldRegions
<1>4. ASSUME NEW k, NEW size, ExplicitProofs!Promised!Realloc(k, size)
      PROVE  Promised!Realloc(k, size)
  BY <1>4, SameRegion, SameExplicitBecomes, ZenonT(40) DEF
     ExplicitProofs!Promised!Realloc, Promised!Realloc,
     ExplicitProofs!Promised!InUse, Promised!InUse, HeldRegions
<1>5. ASSUME ExplicitProofs!Promised!SpecNext PROVE Promised!SpecNext
  BY <1>2, <1>3, <1>4, <1>5 DEF
     ExplicitProofs!Promised!SpecNext, Promised!SpecNext,
     ExplicitProofs!Promised!Malloc, Promised!Malloc,
     ExplicitProofs!Promised!Calloc, Promised!Calloc
<1> QED
  BY <1>1, <1>5

(* What the client relies on holds of the program linked with the implicit *)
(* or the explicit list, when its requests are whole words: no call        *)
(* changes the words of a block other than its own, realloc carries the    *)
(* words over, and those of calloc are 0.                                  *)
THEOREM ListKeepsPromise ==
  ASSUME Allocators \subseteq {"implicit", "explicit"}, Sizes \subseteq Nat,
         \A size \in Sizes : size % 4 = 0
  PROVE  Spec => KeepsPromise
<1>1. ImplicitProofs!WordRequests /\ ExplicitProofs!WordRequests
  BY DEF ImplicitProofs!WordRequests, ExplicitProofs!WordRequests
<1>2. ImplicitProofs!Whole <=> ExplicitProofs!Whole
  BY DEF ImplicitProofs!Whole, ExplicitProofs!Whole
<1> DEFINE I == ListInv /\ ListLinked /\ ImplicitProofs!Whole
<1>3. ASSUME Init PROVE I /\ Promised!SpecInit
  <2>1. ListLinked /\ ListInv
    BY <1>3, LinkedStays, ListInvInit
  <2>2. CASE allocator = "implicit"
    <3>1. ImplicitProofs!Starts("implicit")
      BY <1>3, <2>2, Started
    <3>2. ImplicitProofs!Whole /\ ImplicitProofs!Promised!SpecInit
      BY <3>1, ImplicitRoom, ImplicitProofs!WholeStart, ImplicitProofs!StartIsPromised
    <3> QED
      BY <2>1, <3>2, SamePromise
  <2>3. CASE allocator = "explicit"
    <3>1. ExplicitProofs!Starts("explicit")
      BY <1>3, <2>3, Started
    <3>2. ExplicitProofs!Whole /\ ExplicitProofs!Promised!SpecInit
      BY <3>1, ExplicitRoom, ExplicitProofs!WholeStart, ExplicitProofs!StartIsPromised
    <3> QED
      BY <1>2, <2>1, <3>2, SameExplicitPromise
  <2> QED
    BY <2>1, <2>2, <2>3 DEF ListLinked
<1>4. ASSUME I, [Next]_vars PROVE I' /\ [Promised!SpecNext]_HeldRegions
  <2>1. ListLinked' /\ ListInv'
    BY <1>4, LinkedStays, ListInvPreserved
  <2>2. CASE allocator = "implicit"
    <3>1. ImplicitProofs!Inv("implicit") /\ ImplicitProofs!Steps("implicit")
      BY <1>4, <2>2, Stepped DEF ListInv
    <3>2. ImplicitProofs!Whole'
      BY <1>1, <1>4, <3>1, ImplicitRoom, ImplicitProofs!WholeStep
    <3>3. ImplicitProofs!Promised!SpecNext \/ UNCHANGED ImplicitProofs!Regions
      BY <1>1, <1>4, <3>1, ImplicitRoom, ImplicitProofs!StepIsPromised
    <3> QED
      BY <2>1, <3>2, <3>3, SamePromise, SameRegion
  <2>3. CASE allocator = "explicit"
    <3>1. ExplicitProofs!Inv("explicit") /\ ExplicitProofs!Steps("explicit")
      BY <1>4, <2>3, Stepped DEF ListInv
    <3>2. ExplicitProofs!Whole'
      BY <1>1, <1>2, <1>4, <3>1, ExplicitRoom, ExplicitProofs!WholeStep
    <3>3. ImplicitProofs!Whole'
      BY <3>2 DEF ImplicitProofs!Whole, ExplicitProofs!Whole
    <3>4. ExplicitProofs!Promised!SpecNext \/ UNCHANGED ExplicitProofs!Regions
      BY <1>1, <1>2, <1>4, <3>1, ExplicitRoom, ExplicitProofs!StepIsPromised
    <3> QED
      BY <2>1, <3>3, <3>4, SameExplicitPromise, SameRegion
  <2> QED
    BY <1>4, <2>2, <2>3 DEF ListLinked
<1>5. [Promised!SpecNext]_HeldRegions
      => [Promised!SpecNext]_([k \in Handles |-> SegList!Calls!Region(k)])
  BY DEF HeldRegions
<1> HIDE DEF I
<1>6. Init => I /\ Promised!SpecInit
  BY <1>3
<1>7. I /\ [Next]_vars
      => I' /\ [Promised!SpecNext]_([k \in Handles |-> SegList!Calls!Region(k)])
  BY <1>4, <1>5
<1> QED
  BY <1>6, <1>7, PTL DEF Spec, KeepsPromise, Promised!Promise

=============================================================================
