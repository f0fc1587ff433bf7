----------------------------- MODULE PtwThreads -----------------------------
(***************************************************************************)
(* The life of the threads of pthreads.2: create, join, detach, exit, the  *)
(* two kinds of cancellation, and the reuse of the structures that         *)
(* pthread_t handles point to.  A step is what a thread does between two   *)
(* points where another one may come in: a wait for a lock, an access to   *)
(* the state of a thread outside stateLock, a wait for a Win32 object.     *)
(* The queue of the MCS lock stateLock is kept: a thread that is made to   *)
(* leave it keeps its place.                                               *)
(***************************************************************************)
EXTENDS Naturals, Sequences, FiniteSets

CONSTANTS
  Drivers,   \* threads of the program that pthread_create did not start
  Workers,   \* threads that pthread_create may start, each once
  Structs,   \* the ptw32_thread_t that calloc can give
  MaxCancels,\* bound: calls of pthread_cancel
  MaxCalls,  \* bound: calls of a cancellation point, setcancelstate, setcanceltype,
             \* and of pthread_create that fail
  Env,       \* what the program and the scheduler may do, see below
  None       \* nobody, nothing

\* "early": a thread is cancelled before it runs; "anywhere": an asynchronous
\* cancellation comes while its target waits for its own stateLock or is in a
\* call about another thread; "stale": a structure is freed while a call of
\* pthread_cancel that has tested its handle is under way.
ASSUME ThreadsAssumption ==
  /\ MaxCancels \in Nat /\ MaxCalls \in Nat
  /\ Drivers \cap Workers = {}
  /\ None \notin Drivers \cup Workers \cup Structs \cup [p : Structs, x : Nat]
  /\ Env \subseteq {"early", "anywhere", "stale"}

Actors == Drivers \cup Workers

\* PThreadState
Initial == 0
Running == 1
CancelPending == 3
Canceling == 4
Exiting == 5
Last == 6
Reuse == 7

VARIABLES
  th,      \* each ptw32_thread_t
  lockq,   \* the queue of its stateLock, its owner first
  reuse,   \* who has ptw32_thread_reuse_lock across a wait
  pool,    \* the reuse stack, which is a queue
  fresh,   \* structures not yet allocated
  self,    \* ptw32_selfThreadKey: the structure of each actor
  handle,  \* the pthread_t of each worker
  known,   \* workers whose pthread_t the program has
  pc,      \* where each actor stands
  arg,     \* the worker that its call is about
  how,     \* what it set, or why it ends, or where testcancel returns to
  armed,   \* its wait includes its cancelEvent
  cancels, calls,  \* counts against the bounds
  aimed,   \* history: workers that a pthread_cancel was called for
  done,    \* history: workers whose cancellation was accepted
  got,     \* history: what pthread_join returned
  final    \* history: the status with which a worker ended

memory == <<th, lockq, reuse, pool, fresh>>
names == <<self, handle, known>>
counters == <<cancels, calls>>
history == <<aimed, done, got, final>>
vars == <<memory, names, pc, arg, how, armed, counters, history>>

\* A call that is over is about nobody.
Goto(a, l) ==
  /\ pc' = [pc EXCEPT ![a] = l]
  /\ arg' = IF l \in {"user", "throw"} THEN [arg EXCEPT ![a] = None] ELSE arg

Call(a, w, l) ==
  /\ pc' = [pc EXCEPT ![a] = l]
  /\ arg' = [arg EXCEPT ![a] = w]

Disarm(a) == armed' = [armed EXCEPT ![a] = FALSE]

Sets(s, field, v) == th' = [th EXCEPT ![s][field] = v]

\* ptw32_mcs_lock_acquire (&stateLock).  Without "anywhere", a thread that can
\* be cancelled asynchronously does not wait for its own one.
Enqueue(a, s) ==
  /\ \/ "anywhere" \in Env \/ s # self[a]
     \/ th[s].cancelType = "deferred" \/ lockq[s] = <<>>
  /\ lockq' = [lockq EXCEPT ![s] = Append(@, a)]
Holds(a, s) == lockq[s] # <<>> /\ Head(lockq[s]) = a
Release(s) == lockq' = [lockq EXCEPT ![s] = Tail(@)]

\* The test of a handle, under ptw32_thread_reuse_lock.
Valid(w) == handle[w].x = th[handle[w].p].x

\* The structure that the call of a is about.
Target(a) == handle[arg[a]].p

Unused(x) ==
  [x |-> x, state |-> Reuse, detached |-> FALSE, cancelState |-> "enable",
   cancelType |-> "deferred", event |-> FALSE, threadH |-> None, status |-> None]

Init ==
  /\ th = [s \in Structs |-> Unused(0)]
  /\ lockq = [s \in Structs |-> <<>>]
  /\ reuse = None /\ pool = <<>> /\ fresh = Structs
  /\ self = [a \in Actors |-> None]
  /\ handle = [w \in Workers |-> None]
  /\ known = {}
  /\ pc = [a \in Actors |-> IF a \in Drivers THEN "user" ELSE "off"]
  /\ arg = [a \in Actors |-> None]
  /\ how = [a \in Actors |-> "none"]
  /\ armed = [a \in Actors |-> FALSE]
  /\ cancels = 0 /\ calls = 0
  /\ aimed = {} /\ done = {} /\ got = {}
  /\ final = [w \in Workers |-> None]

About(w, calling) == \E a \in Actors : arg[a] = w /\ pc[a] \in calling

JoinCalls == {"joinSelf", "joinTest", "join", "joined", "detachTest", "detachLock", "detachWait"}
CancelCalls == {"cancelSelf", "cancelEnter", "cancelLock", "cancelSet", "cancelAsync"}

\* Whether the structure of w may be freed now.
Untouched(w) == "stale" \in Env \/ ~About(w, CancelCalls)

-----------------------------------------------------------------------------
(* The structures: ptw32_new, ptw32_threadDestroy, pthread_self            *)

\* ptw32_threadReusePop, or calloc where the pool is empty; then the defaults,
\* with a new event.
New(s, isDetached, h) ==
  /\ reuse = None
  /\ IF pool # <<>>
     THEN s = Head(pool) /\ pool' = Tail(pool) /\ UNCHANGED fresh
     ELSE s \in fresh /\ fresh' = fresh \ {s} /\ UNCHANGED pool
  /\ th' = [th EXCEPT ![s] = [Unused(th[s].x) EXCEPT !.state = Initial,
                                !.detached = isDetached, !.threadH = h]]
  /\ lockq' = [lockq EXCEPT ![s] = <<>>]

\* The structure is wiped, its handle's counter goes up, and it is reusable.
Destroy(s) ==
  /\ reuse = None
  /\ th' = [th EXCEPT ![s] = Unused(th[s].x + 1)]
  /\ lockq' = [lockq EXCEPT ![s] = <<>>]
  /\ pool' = Append(pool, s)
  /\ UNCHANGED fresh

\* pthread_self in join or cancel; a driver gets its implicit structure.
Self(a) ==
  /\ pc[a] \in {"joinSelf", "cancelSelf"}
  /\ Goto(a, IF pc[a] = "joinSelf" THEN "joinTest" ELSE "cancelEnter")
  /\ IF self[a] # None THEN UNCHANGED <<th, lockq, pool, fresh, self>>
     ELSE \E s \in Structs :
            /\ New(s, TRUE, a)
            /\ self' = [self EXCEPT ![a] = s]
  /\ UNCHANGED <<reuse, handle, known, how, armed, counters, history>>

-----------------------------------------------------------------------------
(* pthread_create and ptw32_threadStart                                    *)

Create(a, w) ==
  /\ pc[a] = "user" /\ pc[w] = "off" /\ handle[w] = None
  /\ \E s \in Structs, d \in BOOLEAN :
       /\ New(s, d, None)
       /\ handle' = [handle EXCEPT ![w] = [p |-> s, x |-> th[s].x]]
  /\ Call(a, w, "create")
  /\ UNCHANGED <<reuse, self, known, how, armed, counters, history>>

\* _beginthreadex, ResumeThread: the thread runs before *tid is stored.
BeginThread(a) ==
  /\ pc[a] = "create"
  /\ Sets(Target(a), "threadH", arg[a])
  /\ self' = [self EXCEPT ![arg[a]] = Target(a)]
  /\ pc' = [pc EXCEPT ![a] = "created", ![arg[a]] = "start"]
  /\ UNCHANGED <<lockq, reuse, pool, fresh, handle, known, arg, how, armed, counters, history>>

\* CreateEvent or _beginthreadex fails: EAGAIN.
CreateFails(a) ==
  /\ pc[a] = "create" /\ calls < MaxCalls
  /\ Destroy(Target(a))
  /\ handle' = [handle EXCEPT ![arg[a]] = None]
  /\ calls' = calls + 1
  /\ Goto(a, "user")
  /\ UNCHANGED <<reuse, self, known, how, armed, cancels, history>>

\* *tid = thread
Created(a) ==
  /\ pc[a] = "created"
  /\ known' = known \cup {arg[a]}
  /\ Goto(a, "user")
  /\ UNCHANGED <<memory, self, handle, how, armed, counters, history>>

\* The new thread sets its state under its stateLock and calls start.
Start(w) ==
  \/ /\ pc[w] = "start"
     /\ Enqueue(w, self[w]) /\ Goto(w, "startLock")
     /\ UNCHANGED <<th, reuse, pool, fresh, names, how, armed, counters, history>>
  \/ /\ pc[w] = "startLock" /\ Holds(w, self[w])
     /\ Sets(self[w], "state", Running) /\ Release(self[w])
     /\ Goto(w, "user")
     /\ UNCHANGED <<reuse, pool, fresh, names, how, armed, counters, history>>

-----------------------------------------------------------------------------
(* The end of a thread: return, pthread_exit, ptw32_throw, and             *)
(* pthread_win32_thread_detach_np                                          *)

\* The start routine returns: exitStatus, then the state, without a lock.
Return(w) ==
  \/ /\ pc[w] = "user"
     /\ Sets(self[w], "status", w) /\ Goto(w, "returned")
     /\ UNCHANGED <<lockq, reuse, pool, fresh, names, how, armed, counters, history>>
  \/ /\ pc[w] = "returned"
     /\ Sets(self[w], "state", Exiting) /\ Goto(w, "ending")
     /\ UNCHANGED <<lockq, reuse, pool, fresh, names, how, armed, counters, history>>

Exit(w) ==
  /\ pc[w] = "user"
  /\ Sets(self[w], "status", w)
  /\ how' = [how EXCEPT ![w] = "exit"]
  /\ Goto(w, "throw")
  /\ UNCHANGED <<lockq, reuse, pool, fresh, names, armed, counters, history>>

\* ptw32_throw sets the state, without a lock; the cleanup handlers run.
Throw(w) ==
  /\ pc[w] = "throw"
  /\ Sets(self[w], "state", Exiting)
  /\ Goto(w, "cleanup")
  /\ UNCHANGED <<lockq, reuse, pool, fresh, names, how, armed, counters, history>>

\* Back in ptw32_threadStart, which catches the exception.
Caught(w) ==
  /\ pc[w] = "cleanup"
  /\ Sets(self[w], "status", IF how[w] = "cancel" THEN "canceled" ELSE th[self[w]].status)
  /\ Goto(w, "ending")
  /\ UNCHANGED <<lockq, reuse, pool, fresh, names, how, armed, counters, history>>

\* A mutant: detachState is read before the state is PThreadStateLast.
Ending_ReadsFirst(w) ==
  \/ /\ pc[w] = "ending"
     /\ Enqueue(w, self[w]) /\ Goto(w, "lastLock")
     /\ how' = [how EXCEPT ![w] = IF th[self[w]].detached THEN @ ELSE "kept"]
     /\ UNCHANGED <<th, reuse, pool, fresh, names, armed, counters, history>>
  \/ /\ pc[w] = "lastLock" /\ Holds(w, self[w])
     /\ Sets(self[w], "state", Last) /\ Release(self[w])
     /\ IF how[w] = "kept" THEN Goto(w, "gone") /\ final' = [final EXCEPT ![w] = th[self[w]].status]
                           ELSE Goto(w, "last") /\ UNCHANGED final
     /\ UNCHANGED <<reuse, pool, fresh, names, how, armed, counters, aimed, done, got>>

Ending(w) ==
  \/ /\ pc[w] = "ending"
     /\ Enqueue(w, self[w]) /\ Goto(w, "lastLock")
     /\ UNCHANGED <<th, reuse, pool, fresh, names, how, armed, counters, history>>
  \/ /\ pc[w] = "lastLock" /\ Holds(w, self[w])
     /\ Sets(self[w], "state", Last) /\ Release(self[w])
     /\ Goto(w, "last")
     /\ UNCHANGED <<reuse, pool, fresh, names, how, armed, counters, history>>

\* detachState is read without a lock; then the Win32 thread ends.
Leave(w) ==
  /\ pc[w] = "last" /\ Untouched(w)
  /\ final' = [final EXCEPT ![w] = th[self[w]].status]
  /\ IF th[self[w]].detached
     THEN Destroy(self[w]) ELSE UNCHANGED <<th, lockq, pool, fresh>>
  /\ Goto(w, "gone")
  /\ UNCHANGED <<reuse, names, how, armed, counters, aimed, done, got>>

-----------------------------------------------------------------------------
(* pthreadCancelableWait, and the cancellation points                      *)

Wakes(a) == armed[a] /\ th[self[a]].event

CancelEnabled(a) == th[self[a]].cancelState = "enable"

\* The object of the wait is there: it goes before the event.
Object(a) == pc[a] = "join" /\ pc[arg[a]] = "gone"

\* The event of a cancellation wakes the wait.
WaitCancelled(a) ==
  \/ /\ pc[a] \in {"wait", "join"} /\ Wakes(a) /\ ~Object(a)
     /\ Sets(self[a], "event", FALSE) /\ Disarm(a)
     /\ Goto(a, "waitEnter")
     /\ UNCHANGED <<lockq, reuse, pool, fresh, names, how, counters, history>>
  \/ /\ pc[a] = "waitEnter"
     /\ Enqueue(a, self[a]) /\ Goto(a, "waitLock")
     /\ UNCHANGED <<th, reuse, pool, fresh, names, how, armed, counters, history>>

\* The thread acts on a cancellation: under stateLock, then ptw32_throw.
Acts(a, resets) ==
  /\ th' = [th EXCEPT ![self[a]].state = Canceling, ![self[a]].cancelState = "disable",
                      ![self[a]].event = @ /\ ~resets]
  /\ how' = [how EXCEPT ![a] = "cancel"]
  /\ Goto(a, "throw")

\* A mutant: the lock is kept across ptw32_throw.
WaitDecides_KeepsLock(a) ==
  /\ pc[a] = "waitLock" /\ Holds(a, self[a])
  /\ IF th[self[a]].state < Canceling THEN Acts(a, FALSE) /\ UNCHANGED lockq
     ELSE Release(self[a]) /\ Goto(a, "user") /\ UNCHANGED <<th, how>>
  /\ UNCHANGED <<reuse, pool, fresh, names, armed, counters, history>>

WaitDecides(a) ==
  /\ pc[a] = "waitLock" /\ Holds(a, self[a])
  /\ Release(self[a])
  /\ IF th[self[a]].state < Canceling THEN Acts(a, FALSE)
     ELSE Goto(a, "user") /\ UNCHANGED <<th, how>>
  /\ UNCHANGED <<reuse, pool, fresh, names, armed, counters, history>>

\* A wait for an object that never comes.
Wait(w) ==
  /\ pc[w] = "user" /\ calls < MaxCalls
  /\ calls' = calls + 1
  /\ armed' = [armed EXCEPT ![w] = CancelEnabled(w)]
  /\ Goto(w, "wait")
  /\ UNCHANGED <<memory, names, how, cancels, history>>

\* Where the state is another one, pthread_testcancel returns at once.
TestCancel(w) ==
  /\ pc[w] \in {"user", "cleanup"} /\ calls < MaxCalls
  /\ th[self[w]].state = CancelPending
  /\ calls' = calls + 1
  /\ Enqueue(w, self[w])
  /\ Goto(w, IF pc[w] = "user" THEN "testLock" ELSE "testLockInCleanup")
  /\ UNCHANGED <<th, reuse, pool, fresh, names, how, armed, cancels, history>>

\* A mutant: a thread that may not be cancelled now forgets about it.
TestDecides_Forgets(w) ==
  /\ pc[w] \in {"testLock", "testLockInCleanup"} /\ Holds(w, self[w])
  /\ Release(self[w])
  /\ IF CancelEnabled(w) THEN Acts(w, TRUE)
     ELSE /\ Goto(w, IF pc[w] = "testLock" THEN "user" ELSE "cleanup")
          /\ Sets(self[w], "state", Running) /\ UNCHANGED how
  /\ UNCHANGED <<reuse, pool, fresh, names, armed, counters, history>>

TestDecides(w) ==
  /\ pc[w] \in {"testLock", "testLockInCleanup"} /\ Holds(w, self[w])
  /\ Release(self[w])
  /\ IF CancelEnabled(w) THEN Acts(w, TRUE)
     ELSE /\ Goto(w, IF pc[w] = "testLock" THEN "user" ELSE "cleanup")
          /\ UNCHANGED <<th, how>>
  /\ UNCHANGED <<reuse, pool, fresh, names, armed, counters, history>>

\* pthread_setcancelstate, pthread_setcanceltype
SetCancel(w, setting) ==
  /\ pc[w] = "user" /\ calls < MaxCalls
  /\ calls' = calls + 1
  /\ how' = [how EXCEPT ![w] = setting]
  /\ Enqueue(w, self[w]) /\ Goto(w, "setLock")
  /\ UNCHANGED <<th, reuse, pool, fresh, names, armed, cancels, history>>

SetDecides(w) ==
  /\ pc[w] = "setLock" /\ Holds(w, self[w])
  /\ Release(self[w])
  /\ LET old == th[self[w]]
         new == IF how[w] \in {"enable", "disable"} THEN [old EXCEPT !.cancelState = how[w]]
                ELSE [old EXCEPT !.cancelType = how[w]]
     IN IF new.cancelState = "enable" /\ new.cancelType = "async" /\ new.event
        THEN /\ th' = [th EXCEPT ![self[w]] = [new EXCEPT !.state = Canceling,
                                   !.cancelState = "disable", !.event = FALSE]]
             /\ how' = [how EXCEPT ![w] = "cancel"]
             /\ Goto(w, "throw")
        ELSE /\ th' = [th EXCEPT ![self[w]] = new]
             /\ how' = [how EXCEPT ![w] = "none"]
             /\ Goto(w, "user")
  /\ UNCHANGED <<reuse, pool, fresh, names, armed, counters, history>>

-----------------------------------------------------------------------------
(* pthread_join and pthread_detach                                         *)

\* The program makes no two calls of join and detach about one thread at the
\* same time, which the code leaves undefined.
MayJoin(w) ==
  /\ w \in known
  /\ ~About(w, JoinCalls)

Join(a, w) ==
  /\ pc[a] = "user" /\ MayJoin(w)
  /\ reuse = None /\ Valid(w) /\ ~th[handle[w].p].detached
  /\ Call(a, w, "joinSelf")
  /\ UNCHANGED <<memory, names, how, armed, counters, history>>

\* The wait begins, but not for oneself (EDEADLK).
JoinWaits(a) ==
  /\ pc[a] = "joinTest"
  /\ armed' = [armed EXCEPT ![a] = CancelEnabled(a) /\ self[a] # Target(a)]
  /\ Goto(a, IF self[a] = Target(a) THEN "user" ELSE "join")
  /\ UNCHANGED <<memory, names, how, counters, history>>

JoinEnds(a) ==
  /\ pc[a] = "join" /\ Object(a)
  /\ Goto(a, "joined") /\ Disarm(a)
  /\ UNCHANGED <<memory, names, how, counters, history>>

\* *value_ptr = tp->exitStatus
JoinReads(a) ==
  /\ pc[a] = "joined"
  /\ got' = got \cup {<<arg[a], th[Target(a)].status>>}
  /\ Goto(a, "detachTest")
  /\ UNCHANGED <<memory, names, how, armed, counters, aimed, done, final>>

Detach(a, w) ==
  /\ pc[a] = "user" /\ MayJoin(w)
  /\ Call(a, w, "detachTest")
  /\ UNCHANGED <<memory, names, how, armed, counters, history>>

\* ESRCH or EINVAL, or on to stateLock with the reuse lock held.
DetachTests(a) ==
  /\ pc[a] = "detachTest" /\ reuse = None
  /\ IF ~Valid(arg[a]) \/ th[Target(a)].detached
     THEN Goto(a, "user") /\ UNCHANGED <<lockq, reuse>>
     ELSE reuse' = a /\ Enqueue(a, Target(a)) /\ Goto(a, "detachLock")
  /\ UNCHANGED <<th, pool, fresh, names, how, armed, counters, history>>

\* A thread that has not ended is detached; the other one is to be destroyed.
DetachDecides(a) ==
  /\ pc[a] = "detachLock" /\ Holds(a, Target(a))
  /\ Release(Target(a)) /\ reuse' = None
  /\ IF th[Target(a)].state # Last
     THEN Sets(Target(a), "detached", TRUE) /\ Goto(a, "user")
     ELSE UNCHANGED th /\ Goto(a, "detachWait")
  /\ UNCHANGED <<pool, fresh, names, how, armed, counters, history>>

DetachDestroys(a) ==
  /\ pc[a] = "detachWait" /\ pc[arg[a]] = "gone" /\ Untouched(arg[a])
  /\ Destroy(Target(a))
  /\ Goto(a, "user")
  /\ UNCHANGED <<reuse, names, how, armed, counters, history>>

-----------------------------------------------------------------------------
(* pthread_cancel                                                          *)

\* pthread_kill (thread, 0) under the reuse lock; ESRCH changes nothing.
Cancel(a, w) ==
  /\ pc[a] = "user" /\ w \in known /\ cancels < MaxCancels
  /\ "early" \in Env \/ pc[w] \notin {"start", "startLock"}
  /\ reuse = None /\ Valid(w) /\ th[handle[w].p].threadH # None
  /\ cancels' = cancels + 1
  /\ aimed' = aimed \cup {w}
  /\ Call(a, w, "cancelSelf")
  /\ UNCHANGED <<memory, names, how, armed, calls, done, got, final>>

CancelEnters(a) ==
  /\ pc[a] = "cancelEnter"
  /\ Enqueue(a, Target(a)) /\ Goto(a, "cancelLock")
  /\ UNCHANGED <<th, reuse, pool, fresh, names, how, armed, counters, history>>

\* Which kind of cancellation it is, or that it comes too late (ESRCH).
CancelDecides(a) ==
  /\ pc[a] = "cancelLock" /\ Holds(a, Target(a))
  /\ LET t == th[Target(a)]
         async == t.cancelType = "async" /\ t.cancelState = "enable" /\ t.state < Canceling
     IN \/ /\ async /\ Target(a) # self[a]
           /\ Goto(a, "cancelAsync") /\ UNCHANGED <<th, lockq, how, done>>
        \/ /\ async /\ Target(a) = self[a]
           /\ Acts(a, FALSE) /\ Release(Target(a)) /\ UNCHANGED done
        \/ /\ ~async /\ t.state < CancelPending
           /\ Goto(a, "cancelSet") /\ UNCHANGED <<th, lockq, how, done>>
        \/ /\ ~async /\ t.state >= CancelPending
           /\ Release(Target(a)) /\ Goto(a, "user")
           /\ done' = IF t.state = CancelPending THEN done \cup {arg[a]} ELSE done
           /\ UNCHANGED <<th, how>>
  /\ UNCHANGED <<reuse, pool, fresh, names, armed, counters, aimed, got, final>>

CancelSets(a) ==
  /\ pc[a] = "cancelSet"
  /\ th' = [th EXCEPT ![Target(a)].state = CancelPending, ![Target(a)].event = TRUE]
  /\ IF Holds(a, Target(a))
     THEN Release(Target(a)) /\ Goto(a, "user") ELSE UNCHANGED lockq /\ Goto(a, "lost")
  /\ done' = done \cup {arg[a]}
  /\ UNCHANGED <<reuse, pool, fresh, names, how, armed, counters, aimed, got, final>>

\* Where a thread holds and waits for no lock.
Outside == {"user", "wait", "join", "waitEnter", "returned", "throw", "cleanup"}

\* SuspendThread, and ptw32_cancel_self where the target goes on: the target
\* leaves whatever it was in, a wait for a lock included.
CancelsAsync(a) ==
  /\ pc[a] = "cancelAsync"
  /\ LET t == th[Target(a)].threadH
     IN /\ "anywhere" \in Env \/ pc[t] \in Outside
        /\ th' = [th EXCEPT ![Target(a)].state = Canceling, ![Target(a)].cancelState = "disable"]
        /\ how' = [how EXCEPT ![t] = "cancel"]
        /\ pc' = [pc EXCEPT ![a] = "user", ![t] = "throw"]
        /\ arg' = [arg EXCEPT ![a] = None, ![t] = None]
        /\ Disarm(t)
  /\ Release(Target(a))
  /\ done' = done \cup {arg[a]}
  /\ UNCHANGED <<reuse, pool, fresh, names, counters, aimed, got, final>>

-----------------------------------------------------------------------------
\* What goes on by itself, the program's functions apart.
Continue(a) ==
  \/ Self(a) \/ BeginThread(a) \/ Created(a) \/ JoinWaits(a) \/ JoinEnds(a) \/ JoinReads(a)
  \/ DetachTests(a) \/ DetachDecides(a) \/ DetachDestroys(a)
  \/ CancelEnters(a) \/ CancelDecides(a) \/ CancelSets(a) \/ CancelsAsync(a)
  \/ WaitCancelled(a) \/ WaitDecides(a)

Proceed(w) ==
  \/ Start(w) \/ Throw(w) \/ Caught(w) \/ Ending(w) \/ Leave(w)
  \/ TestDecides(w) \/ SetDecides(w)

Next ==
  \/ \E a \in Actors : Continue(a)
  \/ \E w \in Workers : Proceed(w) \/ Return(w) \/ Exit(w) \/ Wait(w) \/ TestCancel(w)
  \/ \E w \in Workers, setting \in {"enable", "disable", "deferred", "async"} :
       SetCancel(w, setting)
  \/ \E d \in Drivers, w \in Workers : Create(d, w)
  \/ \E d \in Drivers : CreateFails(d)
  \/ \E a \in Actors, w \in Workers : Join(a, w)
  \/ \E a \in Actors, w \in Workers : (a \in Drivers \/ a = w) /\ (Detach(a, w) \/ Cancel(a, w))

Spec == Init /\ [][Next]_vars

-----------------------------------------------------------------------------
TypeOK ==
  /\ \A s \in Structs : th[s].state \in 0..7 /\ th[s].x \in Nat
  /\ fresh \subseteq Structs
  /\ \A i \in DOMAIN pool : pool[i] \in Structs \ fresh
  /\ known \subseteq Workers

Alive(w) == pc[w] \notin {"off", "gone"}

\* Nothing frees or gives away the structure of a thread that has not ended,
\* and no structure is in the reuse pool twice.
StructOwned ==
  /\ \A w \in Workers : Alive(w) =>
       /\ Valid(w) /\ th[self[w]].threadH = w
       /\ \A i \in DOMAIN pool : pool[i] # self[w]
  /\ \A i, j \in DOMAIN pool : pool[i] = pool[j] => i = j

\* The structure of a thread that ended and was joined or detached is given
\* back: where no call is under way, only joinable ones are left.
NoLeak ==
  (\A a \in Actors : pc[a] \in {"user", "off", "gone", "wait"}) =>
    \A w \in Workers : pc[w] = "gone" /\ Valid(w) =>
      ~th[handle[w].p].detached /\ \A pair \in got : pair[1] # w

\* pthread_join returns the status with which the thread it joined ended.
JoinGetsStatus == \A pair \in got : pair[2] = final[pair[1]]

\* A structure, and the status in it, belongs to its thread until the thread is
\* joined or detached, and then to nobody.
StructsKept == TypeOK /\ StructOwned /\ NoLeak /\ JoinGetsStatus

\* A thread that ends by cancellation was the one that a pthread_cancel was for.
CancelHitsTarget == \A w \in Workers : how[w] = "cancel" => w \in aimed

\* A cancellation that pthread_cancel accepted stays pending until the thread
\* acts on it: the next pthread_testcancel sees it.
CancelStays ==
  \A w \in done : Alive(w) /\ th[self[w]].state < Canceling => th[self[w]].state = CancelPending

\* Whoever is in the queue of a stateLock is there to take it and to go on.
NobodyHangs ==
  \A s \in Structs : \A i \in DOMAIN lockq[s] :
    LET a == lockq[s][i]
    IN \/ pc[a] \in {"cancelLock", "cancelSet", "cancelAsync", "detachLock"} /\ Target(a) = s
       \/ pc[a] \in {"startLock", "lastLock", "waitLock", "testLock", "testLockInCleanup",
                      "setLock"} /\ self[a] = s

\* A thread in a wait that is a cancellation point wakes for a cancellation
\* that pthread_cancel accepted, also where it came just before the wait.
CancelEndsWait ==
  \A w \in Workers :
    pc[w] = "wait" /\ armed[w] /\ w \in done /\ th[self[w]].state < Canceling => Wakes(w)

\* A cancellation reaches the thread it is for, and is not lost on the way.
CancelsArrive == CancelHitsTarget /\ CancelStays /\ CancelEndsWait
=============================================================================
