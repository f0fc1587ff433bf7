----------------------------- MODULE MCPtwMutex -----------------------------
(* PtwMutex on small instances.                                            *)
EXTENDS PtwMutex, TLC

CONSTANTS t1, t2, t3

AllTypes ==
  [kind : {"normal", "errorcheck", "recursive"}, robust : BOOLEAN]
    \cup {[kind |-> "spin", robust |-> FALSE]}

\* There is no timed spin lock.
NoSpinTimed == {<<[kind |-> "spin", robust |-> FALSE], "timed">>}

\* The program does not use timedlock on a robust mutex of type normal, which
\* does not record its owner then.
NoBlindLock == NoSpinTimed \cup {<<[kind |-> "normal", robust |-> TRUE], "timed">>}

AnyThread == Permutations(Threads)
=============================================================================
