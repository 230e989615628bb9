SPECIFICATION LabSpec
CONSTANTS
  Workers = {w1}
  Uris = {u1, u2, u3}
  Lengths = {1, 2, 3}
  MaxNodes = 3
  MAX_CACHE_SIZE = 4
  MAX_OBJECT_SIZE = 4
  Reuse = FALSE
  NoUri = NoUri
  RIO_BUFSIZE = 3
  MaxStream = 4
  MaxUri = 6
  Stack = {old1, old2}
  old1 = old1
  old2 = old2
  MAXLINE = 3
  MAXBUF = 2
  RespLengths = {1, 2, 3, 5}
  NulAt = {0}
  Newline = Newline
  Nul = Nul
  Unknown = Unknown
  Header = Header
  w1 = w1
  u1 = u1
  u2 = u2
  u3 = u3
INVARIANTS
  UriParts
  TextIsCached
PROPERTIES
  RequestsEnd
  ImplementsLRU
  RelaysAll
  StreamsIntact
CHECK_DEADLOCK FALSE
