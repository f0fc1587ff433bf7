----------------------------- MODULE PtwBarrier -----------------------------
(***************************************************************************)
(* Users of the MCS lock: pthread_barrier_wait, where the last thread to   *)
(* leave releases what the last to come has acquired, pthread_once, which  *)
(* holds it while init_routine runs, and a call that holds a global lock   *)
(* for some instructions, like pthread_cond_init at its end.  All threads  *)
(* of a behaviour use the same object: a barrier, a once_control, or the   *)
(* list of condition variables.                                            *)
(***************************************************************************)
EXTENDS PtwMcsLock, FiniteSets

CONSTANT Height   \* nInitialBarrierHeight

ASSUME BarrierAssumption == Height \in Nat \ {0}

VARIABLES
  job,      \* the object in use
  call,     \* the function each thread is in
  barrier,  \* *barrier: "valid", "invalid", or "freed" as well
  height,   \* nCurrentBarrierHeight
  sem,      \* the count of semBarrierBreeched
  inside,   \* history: the threads that came and have not left
  open,     \* history: they may leave
  serial,   \* history: one that left was PTHREAD_BARRIER_SERIAL_THREAD
  done,     \* once_control->done
  inits     \* history: how often init_routine returned

barrierVars == <<barrier, height, sem, inside, open, serial>>
onceVars == <<done, inits>>
vars == <<mcsVars, job, call, barrierVars, onceVars>>

Init ==
  /\ McsInit
  /\ job \in {"barrier", "once", "list"}
  /\ call = [t \in Threads |-> "none"]
  /\ barrier = "valid" /\ height = Height /\ sem = 0
  /\ inside = {} /\ open = FALSE /\ serial = FALSE
  /\ done = FALSE /\ inits = 0

\* The instructions of the lock belong to whatever function uses it.
LockStep(t) == McsStep(t) /\ UNCHANGED <<job, call, barrierVars, onceVars>>

Continue(t, l) == Goto(t, l) /\ UNCHANGED <<lock, flagVars, pred, held, callVars>>

Call(t, f) ==
  /\ pc[t] = "idle" /\ begun < MaxCalls
  /\ call' = [call EXCEPT ![t] = f]
  /\ Continue(t, "enqueue")
  /\ UNCHANGED <<job, barrierVars, onceVars>>

-----------------------------------------------------------------------------
(* pthread_barrier_wait *)

BarrierWait(t) == job = "barrier" /\ barrier = "valid" /\ Call(t, "wait")

\* The lock is acquired: one more has come.
Arrive(t) ==
  /\ pc[t] = "locked" /\ call[t] = "wait"
  /\ height' = height - 1
  /\ inside' = inside \cup {t}
  /\ open' = (height = 1)
  /\ serial' = FALSE
  /\ Continue(t, IF height = 1 THEN "transfer" ELSE "release")
  /\ UNCHANGED <<job, call, barrier, sem, onceVars>>

\* sem_post_multiple for all but the last, which does not wait.
BreakBarrier(t) ==
  /\ pc[t] = "transferred"
  /\ sem' = sem + (Height - 1)
  /\ Continue(t, "leave")
  /\ UNCHANGED <<job, call, barrier, height, inside, open, serial, onceVars>>

\* ptw32_semwait
SemWait(t) ==
  /\ pc[t] = "semwait" /\ sem > 0
  /\ sem' = sem - 1
  /\ Continue(t, "leave")
  /\ UNCHANGED <<job, call, barrier, height, inside, open, serial, onceVars>>

\* A leaver that takes itself for the last one when it is the first.
Leave_First(t) ==
  /\ pc[t] = "leave"
  /\ height' = height + 1
  /\ inside' = inside \ {t}
  /\ open' = (inside # {t})
  /\ serial' = (serial \/ height = 0)
  /\ Continue(t, IF height = 0 THEN "last" ELSE "compare")
  /\ UNCHANGED <<job, call, barrier, sem, onceVars>>

\* The interlocked increment of the height.
Leave(t) ==
  LET last == height + 1 = Height IN
  /\ pc[t] = "leave"
  /\ height' = height + 1
  /\ inside' = inside \ {t}
  /\ open' = (inside # {t})
  /\ serial' = (serial \/ last)
  /\ Continue(t, IF last THEN "last" ELSE "compare")
  /\ UNCHANGED <<job, call, barrier, sem, onceVars>>

\* The last one releases the lock through the node of the barrier.
LastOut(t) ==
  /\ pc[t] = "last"
  /\ held' = [held EXCEPT ![t] = Proxy]
  /\ Goto(t, "release")
  /\ call' = [call EXCEPT ![t] = "last"]
  /\ UNCHANGED <<lock, flagVars, pred, callVars, job, barrierVars, onceVars>>

\* The others have read nInitialBarrierHeight once more, to compare.
OtherOut(t) ==
  /\ pc[t] = "compare"
  /\ Continue(t, "idle")
  /\ UNCHANGED <<job, call, barrierVars, onceVars>>

-----------------------------------------------------------------------------
(* pthread_barrier_destroy *)

\* The program destroys the barrier when no thread is going to come to it: all
\* calls are made, and those that have not returned are past the lock.
NobodyComes ==
  /\ begun >= MaxCalls
  /\ \A t \in Threads :
       pc[t] \notin {"enqueue", "link", "notify", "ready", "sleep_ready", "locked"}

Destroy(t) ==
  /\ job = "barrier" /\ barrier = "valid"
  /\ pc[t] = "idle" /\ NobodyComes /\ begun < MaxCalls + 1
  /\ TryAcquire(t, "destroying", "idle")
  /\ call' = [call EXCEPT ![t] = "destroy"]
  /\ UNCHANGED <<job, barrierVars, onceVars>>

\* EBUSY while the barrier is in use.  free() comes after the release.
Destroying(t) ==
  /\ pc[t] = "destroying"
  /\ barrier' = IF height < Height THEN barrier ELSE "invalid"
  /\ Continue(t, "release")
  /\ UNCHANGED <<job, call, height, sem, inside, open, serial, onceVars>>

-----------------------------------------------------------------------------
(* pthread_once *)

\* A call that finds done set returns without the lock, and is no step.
Once(t) == job = "once" /\ ~done /\ Call(t, "once")

\* A second look at done is left out.
OnceLocked_NoRecheck(t) ==
  /\ pc[t] = "locked" /\ call[t] = "once"
  /\ Continue(t, "init")
  /\ UNCHANGED <<job, call, barrierVars, onceVars>>

\* done is looked at again with the lock.
OnceLocked(t) ==
  /\ pc[t] = "locked" /\ call[t] = "once"
  /\ Continue(t, IF done THEN "release" ELSE "init")
  /\ UNCHANGED <<job, call, barrierVars, onceVars>>

\* init_routine returns, or the thread is cancelled in it: the cleanup
\* handler releases the lock and done stays as it is.
InitRoutine(t) ==
  /\ pc[t] = "init"
  /\ \/ inits' = inits + 1 /\ Continue(t, "mark") /\ UNCHANGED call
     \/ /\ call' = [call EXCEPT ![t] = "cancelled"]
        /\ Continue(t, "release")
        /\ UNCHANGED inits
  /\ UNCHANGED <<job, barrierVars, done>>

MarkDone(t) ==
  /\ pc[t] = "mark"
  /\ done' = TRUE
  /\ Continue(t, "release")
  /\ UNCHANGED <<job, call, barrierVars, inits>>

-----------------------------------------------------------------------------
(* pthread_cond_init: from ptw32_cond_list_lock on *)

CondInit(t) == job = "list" /\ Call(t, "list")

AppendToList(t) ==
  /\ pc[t] = "locked" /\ call[t] = "list"
  /\ Continue(t, "release")
  /\ UNCHANGED <<job, call, barrierVars, onceVars>>

-----------------------------------------------------------------------------
\* What comes after ptw32_mcs_lock_release; the node is not used any more.
Released(t) ==
  /\ pc[t] = "released"
  /\ Goto(t, CASE call[t] = "wait" -> "semwait"
               [] call[t] = "cancelled" -> "dead"
               [] OTHER -> "idle")
  /\ held' = [held EXCEPT ![t] = None]
  /\ Fresh({MyNode(t)})
  /\ UNCHANGED <<lock, event, pred, callVars>>
  /\ barrier' = IF call[t] = "destroy" /\ barrier = "invalid" THEN "freed" ELSE barrier
  /\ UNCHANGED <<job, call, height, sem, inside, open, serial, onceVars>>

InCall(t) ==
  \/ LockStep(t) \/ Released(t)
  \/ Arrive(t) \/ BreakBarrier(t) \/ SemWait(t) \/ Leave(t) \/ LastOut(t) \/ OtherOut(t)
  \/ Destroying(t) \/ OnceLocked(t) \/ InitRoutine(t) \/ MarkDone(t)
  \/ AppendToList(t)

Next == \E t \in Threads : BarrierWait(t) \/ Destroy(t) \/ Once(t) \/ CondInit(t) \/ InCall(t)

Spec == Init /\ [][Next]_vars

-----------------------------------------------------------------------------
TypeOK ==
  /\ lock \in Node \cup {None}
  /\ next \in [Node -> Node \cup {None}]
  /\ nextFlag \in [Node -> {Clear, Set} \cup Threads]
  /\ readyFlag \in [Node -> {Clear, Set} \cup Threads]
  /\ event \in [Threads -> BOOLEAN]
  /\ pred \in [Threads -> Node \cup {None}] /\ held \in [Threads -> Node \cup {None}]
  /\ calls \in [Threads -> 0 .. MaxCalls + 1]
  /\ height \in 0 .. Height /\ sem \in 0 .. Height - 1

\* The threads that own the lock, and the barrier while a round leaves it.
Owners ==
  {t \in Threads :
     pc[t] \in {"locked", "transfer", "adopt", "transferred", "destroying", "init", "mark"}
     \/ (pc[t] \in {"release", "unlock", "linked", "sleep_linked", "pass"} /\ call[t] # "last")}
Draining == open /\ \A t \in Threads : pc[t] \notin {"transfer", "adopt"}

\* The lock has one owner, also while it passes from node to node, and none
\* but a thread of the round while a round leaves the barrier.
OneOwner ==
  /\ Cardinality(Owners) <= 1
  /\ Draining => \A t \in Owners : pc[t] = "transferred"

\* A thread that waited for its successor to link, as the comment in
\* ptw32_mcs_lock_release says, finds it linked.
SuccessorLinked == \A t \in Threads : pc[t] # "crashed"

\* init_routine runs once; who gets past the lock finds it done.
OnceOnly ==
  /\ inits <= 1
  /\ \A t \in Threads : pc[t] = "released" /\ call[t] = "once" => done

\* A barrier is destroyed under nobody: what may still be ahead of a thread of
\* the last round is the comparison after its increment, at most.
DestroyedQuiet ==
  barrier # "valid" => \A t \in Threads :
    call[t] # "destroy" => pc[t] \in {"idle", "released", "compare"}

\* The lock has one owner, through nodes that are linked when they are used; a
\* once_control and a barrier serve all that use them, and nothing is left behind
\* in them when they are done with.
UsersSafe == OneOwner /\ SuccessorLinked /\ OnceOnly /\ DestroyedQuiet

\* The barrier implements BarrierSpec.
Abstract == INSTANCE BarrierSpec WITH
  at <- [t \in Threads |-> IF t \notin inside THEN "out" ELSE IF open THEN "free" ELSE "waiting"]
ImplementsBarrier == Abstract!Spec

\* A thread in a call waits for its event, for a successor that is about to link,
\* or for a unit of the semaphore, and can take a step otherwise.
Blocked(t) ==
  \/ pc[t] \in {"sleep_ready", "sleep_linked"} /\ ~event[t]
  \/ pc[t] = "adopt" /\ next[held[t]] = None
  \/ pc[t] = "semwait" /\ sem = 0
InCalls == {t \in Threads : pc[t] \notin {"idle", "dead"}}
GoesOn == \A t \in InCalls : Blocked(t) <=> ~ENABLED InCall(t)

\* Nobody is left behind: when no thread can go on, each is outside, has been
\* cancelled, or waits at the semaphore for a round that is not complete.  No
\* call runs in a circle, so each comes to this point or returns.
NobodyStranded ==
  (\A t \in InCalls : Blocked(t)) =>
    /\ lock = None /\ ~open
    /\ \A t \in Threads : pc[t] \in {"idle", "dead", "semwait"}

\* The lock passes on until nobody is left who wants it.
LockPassesOn == TypeOK /\ GoesOn /\ NobodyStranded
=============================================================================
