SPECIFICATION FairSpec
CONSTANTS
  p1 = p1
  p2 = p2
  p3 = p3
  p4 = p4
  p5 = p5
  NoPid = NoPid
  Names = {"pay", "log", "aux", "gate"}
  NoName = ""
  Pids = {p1, p2, p3}
  NS = 3
  NP = 3
  Cfgs <- PairCfgs
  CmdIds = {1, 7}
  MaxRestart = 1
  Faults = {"fork"}
  MaxCrash = 1
  MaxCmds = 2
PROPERTIES ExitCompletes ZombiesReaped
CHECK_DEADLOCK FALSE
