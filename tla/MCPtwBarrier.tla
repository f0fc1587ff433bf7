---------------------------- MODULE MCPtwBarrier ----------------------------
(* PtwBarrier on small instances.                                          *)
EXTENDS PtwBarrier, TLC

CONSTANTS t1, t2, t3

AnyThread == Permutations(Threads)
=============================================================================
