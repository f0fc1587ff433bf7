------------------------------- MODULE SemSpec -------------------------------
(* What a counting semaphore promises: who gets through has taken one of its  *)
(* units, and units come by a post only.                                      *)
EXTENDS Naturals

CONSTANTS Threads, Start, Limit

VARIABLES units, has, exists

Init == units = Start /\ has = [t \in Threads |-> 0] /\ exists = TRUE

Take(t) ==
  /\ exists /\ units > 0
  /\ units' = units - 1 /\ has' = [has EXCEPT ![t] = @ + 1]
  /\ UNCHANGED exists

Post(n) ==
  /\ exists
  /\ units' = units + n
  /\ UNCHANGED <<has, exists>>

Destroy == exists /\ exists' = FALSE /\ units' = 0 /\ UNCHANGED has

Next ==
  \/ \E t \in Threads : Take(t)
  \/ \E n \in 1 .. Limit : Post(n)
  \/ Destroy

Spec == Init /\ [][Next]_<<units, has, exists>>
=============================================================================
