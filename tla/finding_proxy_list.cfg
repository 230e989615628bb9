SPECIFICATION Spec
CONSTANTS
  Workers = {w1}
  Uris = {u1, u2}
  Lengths = {1}
  MaxNodes = 3
  MAX_CACHE_SIZE = 2
  MAX_OBJECT_SIZE = 2
  Reuse = TRUE
  NoUri = NoUri
  w1 = w1
  u1 = u1
  u2 = u2
INVARIANTS
  ListSound
CHECK_DEADLOCK FALSE
