CONSTANTS
  t1 = t1
  t2 = t2
  k1 = k1
  k2 = k2
  None = None
  Threads = {t1, t2}
  Keys = {k1, k2}
  MaxValues = 3
  Rounds = 2
  Env = {}
SPECIFICATION FairSpec
INVARIANTS
  AssocsSound
  ValuesDestroyed
PROPERTIES
  CallsEnd
CHECK_DEADLOCK FALSE
