SPECIFICATION Spec
CONSTANTS
  p1 = p1
  p2 = p2
  p3 = p3
  p4 = p4
  p5 = p5
  NoPid = NoPid
  Names = {"pay", "log", "aux", "gate"}
  NoName = ""
  Pids = {p1, p2, p3, p4, p5}
  NS = 2
  NP = 4
  Cfgs <- FaultCfgs
  CmdIds = {1, 7}
  MaxRestart = 0
  Faults = {"fork", "stop"}
  MaxCrash = 2
  MaxCmds = 2
SYMMETRY PidSymmetry
INVARIANTS Tracked RestartBudget
CHECK_DEADLOCK FALSE
