SPECIFICATION FairSpec
CONSTANTS
  Num = 2
  MaxFd = 4
  Fds = {2, 3, 4}
  MaxConn = 2
  MaxMsgs = 2
  Events = {"hangup", "idle", "partial"}
PROPERTIES RequestsRead HangUpsClosed
CHECK_DEADLOCK FALSE
