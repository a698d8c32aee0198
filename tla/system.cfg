SPECIFICATION Spec
CONSTANTS
  Govs = {g1, g2}
  Apps = {a1}
  Downs = {d1}
  MaxGen = 2
  Faults = {"shm", "req", "rsp", "sem"}
  Workers = {"w1", "w2", "w3", "w4"}
  Name <- Service
  Fun <- Address
  Svrno <- Row
  NSvc = 3
  Clients = {1, 2, 3}
  Pids = {11, 12}
  None = 0
  MaxMsgs = 2
  MaxForks = 2
SYMMETRY Alike
CONSTRAINTS Apart OneReply OneStopped
INVARIANTS ConnectedUsable Recoverable LockExcludes ServicesKept ShortSound 
CHECK_DEADLOCK FALSE
