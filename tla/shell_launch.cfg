SPECIFICATION InputSpec
CONSTANTS
  MAXJOBS = 2
  Pids = {p1, p2}
  p1 = p1
  p2 = p2
  MaxJid = 2
  JobCommands = {}
  UserSignals = {"INT", "QUIT"}
  ForkMayFail = TRUE
  MAXARGS = 5
  MaxItems = 3
  Words <- SomeWords
  MaxFd = 4
  Files = {in, out, other}
  Shut = Shut
  in = in
  out = out
  other = other
SYMMETRY Symmetry
INVARIANTS
  EmptyRestarts
  StoppedIsListed
  NeverCrashes
  AtMostOneFG
  ForegroundAwaited
  ReadsCommands
  ChildRedirected
PROPERTIES
  KeysSpareBackground
  StreamsRestored
CHECK_DEADLOCK FALSE
