SPECIFICATION Spec
CONSTANTS
  Allocators = {"implicit", "explicit", "seglist"}
  CHUNKSIZE = 32
  MaxHeap = 37
  Handles = {1, 2, 3}
  Sizes = {0, 8, 28}
VIEW View
INVARIANTS
  BlocksSound
  ListsSound
  Coalesced
PROPERTIES
  KeepsPromise
CHECK_DEADLOCK FALSE
