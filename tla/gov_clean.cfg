SPECIFICATION Spec
CONSTANTS
  p1 = p1
  p2 = p2
  p3 = p3
  p4 = p4
  p5 = p5
  NoPid = NoPid
  Names = {"pay", "log", "aux", "gate"}
  NoName = ""
  Pids = {p1, p2, p3, p4, p5}
  NS = 3
  NP = 9
  Cfgs <- CleanCfgs
  CmdIds = {1, 7}
  MaxRestart = 6
  Faults = {}
  MaxCrash = 2
  MaxCmds = 3
SYMMETRY PidSymmetry
INVARIANTS TypeOK ExitStops DownStops IdsUnique
PROPERTIES IdentityStable KillsOwnWorkers
CHECK_DEADLOCK FALSE
