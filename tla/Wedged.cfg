CONSTANTS
  c1 = c1
  c2 = c2
  Clients = {c1}
  MaxSession = 1
  MaxReq = 1
  AcceptCap = 1
  PipeCap = 1
  FdMax = 9
  Killable = {}
  Env <- SampleEnv
SPECIFICATION FairSpec
PROPERTIES
  AcceptLoopReturns
CHECK_DEADLOCK FALSE
