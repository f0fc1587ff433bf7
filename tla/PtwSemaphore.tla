---------------------------- MODULE PtwSemaphore ----------------------------
(***************************************************************************)
(* The POSIX semaphores of pthreads.2 as the program uses them, with the   *)
(* operators of PtwSem for what a call does under s->lock.  A step is such *)
(* a critical section, the end of a wait, or what comes between them.      *)
(***************************************************************************)
EXTENDS PtwCalls, PtwSem, FiniteSets

CONSTANTS
  Start,      \* the value that sem_init is given
  Limit,      \* SEM_VALUE_MAX
  CancelRace, \* a thread in sem_wait may be cancelled
  DestroyRace \* sem_destroy may be called while another thread enters a call

ASSUME SemAssumption ==
  /\ Start \in 0 .. Limit /\ Limit \in Nat /\ Limit > 1
  /\ CancelRace \in BOOLEAN /\ DestroyRace \in BOOLEAN

VARIABLES
  sem,   \* *sem: "valid", "null", or "gone" when what it pointed to is freed
  s,     \* what it points to
  has,   \* history: the units that each thread took
  stray  \* history: somebody used s when it was freed

semVars == <<sem, s, has, stray, pc, how, calls>>

Counted == {t \in Threads : pc[t] \in {"wait", "retract"}}

SemInit ==
  /\ sem = "valid" /\ s = NewSem(Start)
  /\ NoCalls
  /\ has = [t \in Threads |-> 0]
  /\ stray = FALSE

-----------------------------------------------------------------------------
SemCalls == {"wait", "timedwait", "trywait", "getvalue", "post", "post_multiple", "destroy"}

\* A function reads *sem, which is NULL after the end, before it has the lock.
SemCall(t, f) ==
  /\ pc[t] = "idle" /\ sem = "valid" /\ calls < MaxCalls
  /\ f = "destroy" =>
       \/ DestroyRace
       \/ \A u \in Threads \ {t} : pc[u] \in {"idle", "dead"}
       \/ s.value < 0 /\ \A u \in Threads \ {t} : pc[u] \in {"idle", "dead", "wait"}
  /\ \A u \in Threads : how[u] = "destroy" => pc[u] = "idle" \/ DestroyRace
  /\ calls' = calls + 1
  /\ how' = [how EXCEPT ![t] = f] /\ Goto(t, "lock")
  /\ UNCHANGED <<sem, s, has, stray>>

\* With the lock it looks at *sem again.
Enters(t, f) == pc[t] = "lock" /\ how[t] = f /\ sem = "valid"

\* EINVAL; s itself may be gone when the lock is asked for.
TooLate(t) ==
  /\ pc[t] = "lock" /\ sem # "valid"
  /\ stray' = (stray \/ sem = "gone")
  /\ Goto(t, "idle")
  /\ UNCHANGED <<sem, s, how, calls, has>>

\* sem_wait, sem_timedwait: the value says at once whether it must wait.
Waits(t) ==
  /\ Enters(t, "wait") \/ Enters(t, "timedwait")
  /\ s' = Taken(s)
  /\ IF MustWait(s) THEN Goto(t, "wait") /\ UNCHANGED has
     ELSE Goto(t, "idle") /\ has' = [has EXCEPT ![t] = @ + 1]
  /\ UNCHANGED <<sem, how, calls, stray>>

sem_trywait(t) ==
  /\ Enters(t, "trywait")
  /\ IF s.value > 0 THEN s' = Taken(s) /\ has' = [has EXCEPT ![t] = @ + 1]
     ELSE UNCHANGED <<s, has>>
  /\ Goto(t, "idle")
  /\ UNCHANGED <<sem, how, calls, stray>>

\* It reports the value as it is, below zero by the threads that wait.
sem_getvalue(t) ==
  /\ Enters(t, "getvalue")
  /\ Goto(t, "idle")
  /\ UNCHANGED <<sem, s, how, calls, has, stray>>

\* The wait returns with a unit.
Pass(t) ==
  /\ pc[t] = "wait" /\ sem = "valid" /\ MayPass(s)
  /\ s' = Passed(s) /\ has' = [has EXCEPT ![t] = @ + 1]
  /\ Goto(t, "idle")
  /\ UNCHANGED <<sem, how, calls, stray>>

\* The wait returns without one: its time is up, or the thread is cancelled.
GiveUp(t) ==
  /\ pc[t] = "wait" /\ sem = "valid" /\ (how[t] = "wait" => CancelRace)
  /\ Goto(t, "retract")
  /\ \/ how[t] = "timedwait" /\ UNCHANGED how
     \/ how' = [how EXCEPT ![t] = IF @ = "wait" THEN "cancelWait" ELSE "cancelTimedwait"]
  /\ UNCHANGED <<sem, s, calls, has, stray>>

\* A mutant: who gives up does not look for a unit that came meanwhile.
Retract_NoSecondLook(t) ==
  /\ pc[t] = "retract" /\ sem = "valid"
  /\ s' = [s EXCEPT !.value = @ + 1]
  /\ Goto(t, IF how[t] = "timedwait" THEN "idle" ELSE "dead")
  /\ UNCHANGED <<sem, how, calls, has, stray>>

\* ptw32_sem_timedwait_cleanup, ptw32_sem_wait_cleanup: a unit that came
\* meanwhile is taken all the same, with success for one that timed out.
Retract(t) ==
  /\ pc[t] = "retract" /\ sem = "valid"
  /\ s' = IF how[t] = "cancelWait" THEN RetractedWait(s) ELSE Retracted(s)
  /\ has' = IF s'.kernel < s.kernel THEN [has EXCEPT ![t] = @ + 1] ELSE has
  /\ Goto(t, IF how[t] = "timedwait" THEN "idle" ELSE "dead")
  /\ UNCHANGED <<sem, how, calls, stray>>

\* ERANGE at the limit.
sem_post(t) ==
  /\ Enters(t, "post")
  /\ s' = IF s.value < Limit THEN Posted(s) ELSE s
  /\ Goto(t, "idle")
  /\ UNCHANGED <<sem, how, calls, has, stray>>

\* A mutant: the limit is tested before the count is added.
sem_post_multiple_AtLimit(t) ==
  /\ Enters(t, "post_multiple")
  /\ s' = IF s.value < Limit THEN PostedMultiple(s, 2) ELSE s
  /\ Goto(t, "idle")
  /\ UNCHANGED <<sem, how, calls, has, stray>>

\* Of more than one unit.
sem_post_multiple(t) ==
  /\ Enters(t, "post_multiple")
  /\ s' = IF s.value <= Limit - 2 THEN PostedMultiple(s, 2) ELSE s
  /\ Goto(t, "idle")
  /\ UNCHANGED <<sem, how, calls, has, stray>>

\* EBUSY if a thread waits.  Otherwise *sem is NULL from here on, and the value
\* one that lets everybody through who has the lock still to come.
sem_destroy(t) ==
  /\ Enters(t, "destroy")
  /\ IF s.value < 0 THEN Goto(t, "idle") /\ UNCHANGED <<sem, s>>
     ELSE sem' = "null" /\ s' = [s EXCEPT !.value = Limit] /\ Goto(t, "free")
  /\ UNCHANGED <<how, calls, has, stray>>

\* The lock is destroyed as soon as nobody has it, and s freed.
Free(t) ==
  /\ pc[t] = "free"
  /\ sem' = "gone" /\ Goto(t, "idle")
  /\ UNCHANGED <<s, how, calls, has, stray>>

-----------------------------------------------------------------------------
SemGo(t) ==
  \/ TooLate(t) \/ Waits(t) \/ sem_trywait(t) \/ sem_getvalue(t) \/ Pass(t) \/ Retract(t)
  \/ sem_post(t) \/ sem_post_multiple(t) \/ sem_destroy(t) \/ Free(t)

SemNext == \E t \in Threads : SemGo(t) \/ GiveUp(t) \/ \E f \in SemCalls : SemCall(t, f)

SemSpecification == SemInit /\ [][SemNext]_semVars

\* The scheduler runs every thread that can go on.
SemFair == \A t \in Threads : WF_semVars(SemGo(t))

-----------------------------------------------------------------------------
Semaphore == INSTANCE SemSpec WITH
  units <- IF sem = "valid" THEN s.value + Cardinality(Counted) ELSE 0,
  exists <- sem = "valid"

\* Whatever the order of waits, timeouts, cancellations and posts, no unit is
\* made or lost: who returns with success, or is cancelled with a unit that came
\* for it, has taken one, and nobody else has.
ImplementsSem == Semaphore!Spec

\* The units in the kernel's semaphore are those of the threads that wait and are
\* not counted in the value any more, and the value is within its limits.
UnitsCount ==
  sem = "valid" =>
    /\ Balanced(s, Cardinality(Counted))
    /\ s.value <= Limit /\ s.kernel <= Cardinality(Counted)

\* The units are accounted for, s is not used when it is freed, and nobody is left
\* waiting for a semaphore that was destroyed.
SemSound ==
  /\ UnitsCount
  /\ ~stray
  /\ sem # "valid" => Counted = {}

\* No thread sleeps for good while there are units to be had.
UnitWaits == sem = "valid" /\ s.value >= 0 /\ \E t \in Threads : pc[t] = "wait"
UnitReaches == UnitWaits ~> ~UnitWaits
=============================================================================
