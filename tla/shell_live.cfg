SPECIFICATION FairSpec
CONSTANTS
  MAXJOBS = 2
  Pids = {p1, p2}
  p1 = p1
  p2 = p2
  MaxJid = 2
  JobCommands = {}
  UserSignals = {"INT"}
  ForkMayFail = FALSE
PROPERTIES
  EvalReturns
  ZombiesReaped
  CtrlCEndsForeground
CHECK_DEADLOCK FALSE
