CONSTANTS
  t1 = t1
  t2 = t2
  t3 = t3
  Threads = {t1, t2, t3}
  MaxCalls = 5
  Types <- AllTypes
  Avoided <- NoBlindLock
  NoThread = NoThread
SPECIFICATION Spec
SYMMETRY AnyThread
INVARIANTS
  HeldByOwner
  NobodyStranded
  DeathNoticed
CHECK_DEADLOCK FALSE
