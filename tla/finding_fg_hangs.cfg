SPECIFICATION FairSpec
CONSTANTS
  MAXJOBS = 1
  Pids = {p1}
  p1 = p1
  MaxJid = 2
  JobCommands = {"FG"}
  UserSignals = {}
  ForkMayFail = FALSE
PROPERTIES
  EvalReturns
CHECK_DEADLOCK FALSE
