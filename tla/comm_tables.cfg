SPECIFICATION Spec
CONSTANTS
  Num = 2
  MaxFd = 3
  Fds = {2, 3, 4, 6}
  MaxConn = 3
  MaxMsgs = 1
  Events = {"hangup", "idle", "partial"}
INVARIANTS TypeOK Registered
CHECK_DEADLOCK FALSE
