------------------------------- MODULE PtwSem -------------------------------
(***************************************************************************)
(* The semaphores of pthreads.2 (NEED_SEM is not defined): a value that    *)
(* goes below zero by the number of threads that wait, and a semaphore of  *)
(* the kernel that lets them go on.  Each operator is what one function,   *)
(* or a part of it under s->lock, makes of the pair.                       *)
(***************************************************************************)
EXTENDS Integers

Semaphores == [value : Int, kernel : Nat]

\* sem_init
NewSem(n) == [value |-> n, kernel |-> 0]

\* The start of sem_wait, sem_timedwait and ptw32_semwait: the caller must
\* wait if the value is negative then.
Taken(s) == [s EXCEPT !.value = @ - 1]
MustWait(s) == s.value <= 0

\* The wait for the kernel's semaphore ends.
MayPass(s) == s.kernel > 0
Passed(s) == [s EXCEPT !.kernel = @ - 1]

\* sem_post_multiple: of n units, the threads that wait get theirs through
\* the kernel.
PostedMultiple(s, n) ==
  [value  |-> s.value + n,
   kernel |-> s.kernel + (IF s.value >= 0 THEN 0 ELSE IF -s.value <= n THEN -s.value ELSE n)]

\* sem_post
Posted(s) == PostedMultiple(s, 1)

\* ptw32_sem_timedwait_cleanup, after a timeout or when the thread was
\* cancelled: it takes a unit that came meanwhile, or is no longer waiting.
Retracted(s) == IF MayPass(s) THEN Passed(s) ELSE [s EXCEPT !.value = @ + 1]

\* ptw32_sem_wait_cleanup: it takes *s for the handle *sem, and so does
\* nothing if the value, the first member, is 0.
RetractedWait(s) == IF s.value = 0 THEN s ELSE Retracted(s)

\* What the pair means: n threads have counted themselves in, and have not
\* yet got a unit nor counted themselves out.
Balanced(s, n) == n - s.kernel = IF s.value < 0 THEN -s.value ELSE 0
=============================================================================
