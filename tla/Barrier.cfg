CONSTANTS
  t1 = t1
  t2 = t2
  t3 = t3
  None = None
  Threads = {t1, t2, t3}
  MaxCalls = 5
  Slots = 2
  Height = 2
SPECIFICATION Spec
SYMMETRY AnyThread
INVARIANTS
  LockPassesOn
  UsersSafe
PROPERTIES
  ImplementsBarrier
CHECK_DEADLOCK FALSE
