CONSTANTS
  r1 = r1
  r2 = r2
  Readers = {r1, r2}
  MaxMsg = 3
  MaxBody = 2
  PipeCells = 6
  Timeouts <- SomeTimeouts
  MaxWait = 1
  Paths <- SomePaths
SPECIFICATION MCSpec
INVARIANTS
  
  NamesAgree
  
PROPERTIES
  ImplementsQueue
  CallReturns
CHECK_DEADLOCK FALSE
