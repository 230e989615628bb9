SPECIFICATION Spec
CONSTANTS
  MAXJOBS = 2
  Pids = {p1, p2, p3}
  p1 = p1
  p2 = p2
  p3 = p3
  MaxJid = 3
  JobCommands = {"FG"}
  UserSignals = {}
  ForkMayFail = FALSE
SYMMETRY Symmetry
INVARIANTS
  AtMostOneFG
CHECK_DEADLOCK FALSE
