SPECIFICATION Spec
CONSTANTS
  c1 = c1
  c2 = c2
  a1 = a1
  w1 = w1
  w2 = w2
  pay = pay
  log = log
  t1 = t1
  t2 = t2
  t3 = t3
  NoType = NoType
  SyncCallers = {c1}
  AsyncCallers = {a1}
  Servers = {pay, log}
  Workers = {w1}
  Serves <- AllPay
  Advertised = {pay}
  Types = {t1, t2, t3}
  RType <- PrivateTypes
  ReadTypes = {t3}
  MsqMax = 0
  KCap = 6
  Outcomes = {"early", "none", "forward", "crash"}
  MaxCalls = 4
  MaxCmds = 1
  MaxCrash = 1
INVARIANTS TypeOK OneCopy OwnReply QueuesBounded
CHECK_DEADLOCK FALSE
