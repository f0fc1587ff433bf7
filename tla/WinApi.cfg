CONSTANTS
  c1 = c1
  c2 = c2
  Clients = {c1, c2}
  MaxSession = 2
  MaxReq = 2
  MaxInst = 3
  PipeCap = 1
  Env <- WinApiEnv
SPECIFICATION Spec
SYMMETRY WinClients
INVARIANTS
  InstancesSound
  NoRequestLost
CHECK_DEADLOCK FALSE
