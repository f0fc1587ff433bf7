-------------------------------- MODULE RwSpec --------------------------------
(* What a read-write lock promises: many readers or one writer, and an end    *)
(* of its own only while nobody has it.                                       *)
CONSTANTS Threads, NoThread

VARIABLES readers, writer, exists

Init == readers = {} /\ writer = NoThread /\ exists = TRUE

Free == exists /\ writer = NoThread

ReadLock(t) ==
  /\ Free /\ t \notin readers
  /\ readers' = readers \cup {t}
  /\ UNCHANGED <<writer, exists>>

WriteLock(t) ==
  /\ Free /\ readers = {}
  /\ writer' = t
  /\ UNCHANGED <<readers, exists>>

Unlock(t) ==
  \/ t \in readers /\ readers' = readers \ {t} /\ UNCHANGED <<writer, exists>>
  \/ t = writer /\ writer' = NoThread /\ UNCHANGED <<readers, exists>>

Destroy == Free /\ readers = {} /\ exists' = FALSE /\ UNCHANGED <<readers, writer>>

Next == Destroy \/ \E t \in Threads : ReadLock(t) \/ WriteLock(t) \/ Unlock(t)

Spec == Init /\ [][Next]_<<readers, writer, exists>>
=============================================================================
