CONSTANTS
  d1 = d1
  d2 = d2
  w1 = w1
  w2 = w2
  w3 = w3
  s1 = s1
  s2 = s2
  s3 = s3
  s4 = s4
  None = None
  Drivers = {d1}
  Workers = {w1, w2}
  Structs = {s1, s2, s3}
  MaxCancels = 1
  MaxCalls = 2
  Env = {}
SPECIFICATION Spec
SYMMETRY AnyThread
INVARIANTS
  StructsKept
  CancelsArrive
  NobodyHangs
CHECK_DEADLOCK FALSE
