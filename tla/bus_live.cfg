SPECIFICATION FairSpec
CONSTANTS
  c1 = c1
  c2 = c2
  a1 = a1
  w1 = w1
  w2 = w2
  pay = pay
  log = log
  t1 = t1
  t2 = t2
  t3 = t3
  NoType = NoType
  SyncCallers = {c1}
  AsyncCallers = {a1}
  Servers = {pay, log}
  Workers = {w1, w2}
  Serves <- OneEach
  Advertised = {pay}
  Types = {t1, t2, t3}
  RType <- PrivateTypes
  ReadTypes = {t3}
  MsqMax = 1
  KCap = 9
  Outcomes = {"none", "crash"}
  MaxCalls = 2
  MaxCmds = 2
  MaxCrash = 1
PROPERTIES CallReturns RequestsTaken
CHECK_DEADLOCK FALSE
