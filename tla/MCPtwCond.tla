------------------------------ MODULE MCPtwCond ------------------------------
(* PtwCond on small instances.                                             *)
EXTENDS PtwCond, TLC

CONSTANTS t1, t2, t3, t4

AllFunctions == {"wait", "timedwait", "signal", "broadcast", "destroy"}

\* Before the gate and after it, but not at it.
PastGate == {"enter", "count", "open", "unlock", "queue", "sleep"}

AnyThread == Permutations(Threads)
=============================================================================
