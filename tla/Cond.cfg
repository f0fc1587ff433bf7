CONSTANTS
  t1 = t1
  t2 = t2
  t3 = t3
  t4 = t4
  Threads = {t1, t2, t3}
  Functions <- AllFunctions
  MaxWaits = 3
  MaxSignals = 2
  MaxCancels = 1
  GoneMax = 2
  CancelAt <- PastGate
  NoThread = NoThread
SPECIFICATION Spec
SYMMETRY AnyThread
INVARIANTS
  CondSound
  EverybodyServed
CHECK_DEADLOCK FALSE
