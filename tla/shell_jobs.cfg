SPECIFICATION Spec
CONSTANTS
  MAXJOBS = 2
  Pids = {p1, p2, p3}
  p1 = p1
  p2 = p2
  p3 = p3
  MaxJid = 2
  JobCommands = {"FG", "BG"}
  UserSignals = {"TSTP"}
  ForkMayFail = TRUE
SYMMETRY Symmetry
INVARIANTS
  TypeOK
  ListingSound
  ListingComplete
PROPERTIES
  SparesBackground
CHECK_DEADLOCK FALSE
