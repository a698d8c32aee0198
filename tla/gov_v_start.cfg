SPECIFICATION Spec
CONSTANTS
  p1 = p1
  p2 = p2
  p3 = p3
  p4 = p4
  p5 = p5
  NoPid = NoPid
  Names = {"pay", "log", "aux", "gate"}
  NoName = ""
  Pids = {p1, p2, p3, p4, p5}
  NS = 4
  NP = 4
  Cfgs <- WidePairCfgs
  CmdIds = {1, 7}
  MaxRestart = 6
  Faults = {}
  MaxCrash = 0
  MaxCmds = 2
SYMMETRY PidSymmetry
INVARIANT StartedAcceptsCalls
CHECK_DEADLOCK FALSE
