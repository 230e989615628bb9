SPECIFICATION FairSpec
CONSTANTS
  MAXJOBS = 1
  Pids = {p1, p2}
  p1 = p1
  p2 = p2
  MaxJid = 2
  JobCommands = {}
  UserSignals = {}
  ForkMayFail = FALSE
PROPERTIES
  ZombiesReaped
CHECK_DEADLOCK FALSE
