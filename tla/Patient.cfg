CONSTANTS
  c1 = c1
  c2 = c2
  Clients = {c1, c2}
  MaxSession = 2
  MaxReq = 2
  AcceptCap = 2
  PipeCap = 2
  FdMax = 9
  Killable = {}
  Env <- PatientEnv
SPECIFICATION FairSpec
INVARIANTS
  RepliesMatch
  ServerSurvives
PROPERTIES
  SessionsComplete
CHECK_DEADLOCK FALSE
