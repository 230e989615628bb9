SPECIFICATION RequestSpec
CONSTANTS
  Workers = {w1}
  Uris = {u1}
  Lengths = {1, 3}
  MaxNodes = 3
  MAX_CACHE_SIZE = 4
  MAX_OBJECT_SIZE = 4
  Reuse = FALSE
  NoUri = NoUri
  RIO_BUFSIZE = 3
  MAXLINE = 3
  MAXBUF = 2
  RespLengths = {1, 3, 5}
  NulAt = {0, 1}
  Newline = Newline
  Nul = Nul
  Unknown = Unknown
  Header = Header
  w1 = w1
  u1 = u1
INVARIANTS
  CachedIsResponse
CHECK_DEADLOCK FALSE
