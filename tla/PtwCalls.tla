------------------------------ MODULE PtwCalls ------------------------------
(* The threads of the program, and the call that each of them is in.          *)
EXTENDS Integers, FiniteSets

CONSTANTS
  Threads,  \* the threads of the process
  MaxCalls, \* bound: calls of all threads
  NoThread

ASSUME CallsAssumption ==
  /\ IsFiniteSet(Threads) /\ NoThread \notin Threads
  /\ MaxCalls \in Nat

VARIABLES
  pc,   \* where each thread stands
  how,  \* the function it is in
  calls \* calls so far

Goto(t, l) == pc' = [pc EXCEPT ![t] = l]

NoCalls ==
  /\ pc = [t \in Threads |-> "idle"]
  /\ how = [t \in Threads |-> "none"]
  /\ calls = 0
=============================================================================
