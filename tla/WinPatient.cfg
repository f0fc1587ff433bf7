CONSTANTS
  c1 = c1
  c2 = c2
  Clients = {c1, c2}
  MaxSession = 1
  MaxReq = 2
  MaxInst = 3
  PipeCap = 1
  Env <- WinPatientEnv
SPECIFICATION FairSpec
PROPERTIES
  ClientsServed
CHECK_DEADLOCK FALSE
