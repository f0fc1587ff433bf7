---------------------------- MODULE MCPtwThreads ----------------------------
(* PtwThreads on small instances.                                          *)
EXTENDS PtwThreads, TLC

CONSTANTS d1, d2, w1, w2, w3, s1, s2, s3, s4

AnyThread == Permutations(Workers) \cup Permutations(Drivers) \cup Permutations(Structs)
=============================================================================
