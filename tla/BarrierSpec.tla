---------------------------- MODULE BarrierSpec ----------------------------
(***************************************************************************)
(* What a barrier of a given height promises: nobody passes before that    *)
(* many threads have come, exactly one of them is told that it is the      *)
(* serial one, and a thread that comes again belongs to the next round.    *)
(***************************************************************************)
EXTENDS Naturals, FiniteSets

CONSTANTS Threads, Height

VARIABLES
  at,     \* where each thread is: "out", "waiting" or "free" to leave
  serial  \* a thread of the round that leaves was told that it is the one

Init == at = [t \in Threads |-> "out"] /\ serial = FALSE

At(l) == {t \in Threads : at[t] = l}

\* A round starts only when the one before has left.
Arrive(t) ==
  /\ at[t] = "out" /\ At("free") = {}
  /\ at' = IF Cardinality(At("waiting")) + 1 < Height
           THEN [at EXCEPT ![t] = "waiting"]
           ELSE [u \in Threads |-> IF u \in At("waiting") \cup {t} THEN "free" ELSE "out"]
  /\ serial' = FALSE

Leave(t, told) ==
  /\ at[t] = "free"
  /\ told => ~serial
  /\ At("free") = {t} => told \/ serial
  /\ at' = [at EXCEPT ![t] = "out"]
  /\ serial' = (serial \/ told)

Next == \E t \in Threads : Arrive(t) \/ \E told \in BOOLEAN : Leave(t, told)
Spec == Init /\ [][Next]_<<at, serial>>
=============================================================================
