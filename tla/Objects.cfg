CONSTANTS
  t1 = t1
  t2 = t2
  t3 = t3
  NoThread = NoThread
  Threads = {t1, t2, t3}
  MaxCalls = 5
  IntMax = 4
  FoldLate = FALSE
  Start = 1
  Limit = 3
  CancelRace = FALSE
  DestroyRace = FALSE
  Families <- AllFamilies
  Priorities <- SomePriorities
  StackSizes = {0, 65536}
  EventFails = FALSE
  NoAttr = NoAttr
  NoObject = NoObject
  Word = 64
  MsPerSec = 10
  NsPerMs = 4
SPECIFICATION Spec
INVARIANTS
  CountsHold
  SemSound
  CreatedAsTold
  NothingLeaks
  TimeoutsSound
PROPERTIES
  ImplementsRw
  ImplementsSem
  ImplementsLock
  ObjectsServe
CHECK_DEADLOCK FALSE
