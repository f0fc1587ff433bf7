------------------------------ MODULE LockSpec ------------------------------
(* What a lock promises: one thread at a time, and an end only while nobody   *)
(* has it.                                                                    *)
CONSTANTS Threads, NoThread

VARIABLES holder, exists

Init == holder = NoThread /\ exists = TRUE

Acquire(t) == exists /\ holder = NoThread /\ holder' = t /\ UNCHANGED exists
Release(t) == holder = t /\ holder' = NoThread /\ UNCHANGED exists
Destroy == exists /\ holder = NoThread /\ exists' = FALSE /\ UNCHANGED holder

Next == Destroy \/ \E t \in Threads : Acquire(t) \/ Release(t)

Spec == Init /\ [][Next]_<<holder, exists>>
=============================================================================
