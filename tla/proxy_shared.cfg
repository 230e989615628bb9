SPECIFICATION SharedSpec
CONSTANTS
  Threads = {t1, t2, t3}
  t1 = t1
  t2 = t2
  t3 = t3
  MaxFd = 3
  MaxConns = 4
  Workers = {w1, w2, w3}
  Uris = {u1, u2, u3}
  Lengths = {0, 3}
  MaxNodes = 3
  MAX_CACHE_SIZE = 6
  MAX_OBJECT_SIZE = 4
  Reuse = TRUE
  NoUri = NoUri
  w1 = w1
  w2 = w2
  w3 = w3
  u1 = u1
  u2 = u2
  u3 = u3
SYMMETRY Symmetry
INVARIANTS
  OneHandOver
  NeverOlder
  ListSound
  SpaceAccounted
  
PROPERTIES
  MainAdvances
  ImplementsLRU
CHECK_DEADLOCK FALSE
