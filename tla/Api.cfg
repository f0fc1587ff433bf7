CONSTANTS
  c1 = c1
  c2 = c2
  Clients = {c1, c2}
  MaxSession = 2
  MaxReq = 1
  AcceptCap = 1
  PipeCap = 1
  FdMax = 4
  Killable = {c1, c2}
  Env <- ApiEnv
SPECIFICATION Spec
SYMMETRY Processes
INVARIANTS
  
  
  
  
  NoCrossTalk
  FdOwned
CHECK_DEADLOCK FALSE
