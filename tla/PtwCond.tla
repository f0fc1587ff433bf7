------------------------------- MODULE PtwCond -------------------------------
(***************************************************************************)
(* The condition variables of pthreads.2 (Terekhov and Thomas, algorithm   *)
(* 9): a gate semBlockLock, a queue semBlockQueue, mtxUnblockLock and      *)
(* three counts.  A step is a wait, an operation on a semaphore (its lock  *)
(* makes it one step) or what is done under mtxUnblockLock without a wait. *)
(* A call of wait stands for: lock the mutex, wait, unlock the mutex.      *)
(***************************************************************************)
EXTENDS PtwSem, FiniteSets, Sequences

CONSTANTS
  Threads,     \* the threads of the process
  Functions,   \* the functions that the program calls
  MaxWaits,    \* bound: calls of pthread_cond_wait or _timedwait
  MaxSignals,  \* bound: calls of pthread_cond_signal or _broadcast
  MaxCancels,  \* bound: calls of pthread_cancel
  GoneMax,     \* INT_MAX / 2
  CancelAt,    \* the places of a wait at which threads are cancelled
  NoThread     \* nobody has the lock

ASSUME CondAssumption ==
  /\ IsFiniteSet(Threads)
  /\ MaxWaits \in Nat /\ MaxSignals \in Nat /\ MaxCancels \in Nat /\ GoneMax \in Nat \ {0}
  /\ CancelAt \subseteq {"enter", "atGate", "count", "open", "unlock", "queue", "sleep"}
  /\ NoThread \notin Threads

VARIABLES
  cond,       \* *cond: "static" (an initialiser), "valid", or "null" once destroyed
  gate,       \* semBlockLock
  queue,      \* semBlockQueue
  unblockLock,\* who has mtxUnblockLock across a wait
  mutex,      \* who has the mutex of the program
  blocked,    \* nWaitersBlocked
  toUnblock,  \* nWaitersToUnblock
  gone,       \* nWaitersGone
  pc,         \* where each thread stands
  how,        \* the function it is in, "cancelled" in the cleanup of a cancelled wait
  n,          \* its nSignalsWasLeft or nSignalsToIssue
  cancelled,  \* the threads whose cancelEvent is set
  cancels,    \* cancellations so far
  waits,      \* waits so far
  wait,       \* history: the number of each thread's last wait
  signals,    \* history: for each signal or broadcast, the waits it was for
  quit        \* history: the waits that ended by cancellation

counts == <<blocked, toUnblock, gone>>
history == <<waits, wait, signals, quit>>
vars == <<cond, gate, queue, unblockLock, mutex, counts, pc, how, n, cancelled, cancels, history>>

Goto(t, l) == pc' = [pc EXCEPT ![t] = l]
Calls(t, f, l) == Goto(t, l) /\ how' = [how EXCEPT ![t] = f]

\* pthread_cond_init
Init ==
  /\ cond \in {"static", "valid"}
  /\ gate = NewSem(1) /\ queue = NewSem(0)
  /\ unblockLock = NoThread /\ mutex = NoThread
  /\ blocked = 0 /\ toUnblock = 0 /\ gone = 0
  /\ pc = [t \in Threads |-> "idle"]
  /\ how = [t \in Threads |-> "none"]
  /\ n = [t \in Threads |-> 0]
  /\ cancelled = {} /\ cancels = 0
  /\ waits = 0 /\ wait = [t \in Threads |-> 0]
  /\ signals = <<>> /\ quit = {}

\* The program destroys no condition variable that a thread is about to wait
\* for or signals, and uses none that is being destroyed.
Destroying == \E t \in Threads : how[t] = "destroy" /\ pc[t] # "idle"
Entering == {"enter", "atGate", "retractGate", "count", "open", "unlock"}
Closing == {"close", "closeAtGate", "closed"}

-----------------------------------------------------------------------------
(* The gate: sem_wait in pthread_cond_wait, ptw32_semwait in the cleanup, in *)
(* signal or broadcast, and in destroy.                                      *)

\* before it, while the thread must wait, after it
Gates == { <<"enter", "atGate", "count">>, <<"drain", "drainAtGate", "drained">>,
           <<"close", "closeAtGate", "closed">>, <<"destroy", "destroyAtGate", "try">> }

TakeGate(t) ==
  /\ pc[t] = "enter" => t \notin cancelled
  /\ gate' = Taken(gate)
  /\ \E g \in Gates : pc[t] = g[1] /\ Goto(t, IF MustWait(gate) THEN g[2] ELSE g[3])
  /\ UNCHANGED <<cond, queue, unblockLock, mutex, counts, how, n, cancelled, cancels, history>>

PassGate(t) ==
  /\ MayPass(gate)
  /\ gate' = Passed(gate)
  /\ \E g \in Gates : pc[t] = g[2] /\ Goto(t, g[3])
  /\ UNCHANGED <<cond, queue, unblockLock, mutex, counts, how, n, cancelled, cancels, history>>

-----------------------------------------------------------------------------
(* pthread_cond_wait and pthread_cond_timedwait *)

\* The program locks its mutex and calls; a static initialiser is replaced.
Wait(t, f) ==
  /\ pc[t] = "idle" /\ mutex = NoThread /\ cond # "null" /\ ~Destroying
  /\ waits < MaxWaits
  /\ mutex' = t
  /\ cond' = "valid"
  /\ waits' = waits + 1
  /\ wait' = [wait EXCEPT ![t] = waits + 1]
  /\ Calls(t, f, "enter")
  /\ UNCHANGED <<gate, queue, unblockLock, counts, n, cancelled, cancels, signals, quit>>

\* Cancelled by sem_wait before or at the gate, before the cleanup handler is
\* pushed: the thread ends, and a handler of the program unlocks the mutex.
CancelAtGate(t) ==
  /\ t \in cancelled
  /\ \/ pc[t] = "enter" /\ gate' = gate /\ mutex' = NoThread /\ Goto(t, "dead")
     \/ pc[t] = "atGate" /\ ~MayPass(gate) /\ UNCHANGED <<gate, mutex>> /\ Goto(t, "retractGate")
     \/ pc[t] = "retractGate" /\ gate' = RetractedWait(gate) /\ mutex' = NoThread /\ Goto(t, "dead")
  /\ UNCHANGED <<cond, queue, unblockLock, counts, how, n, cancelled, cancels, history>>

\* ++nWaitersBlocked, with the gate
Count(t) ==
  /\ pc[t] = "count"
  /\ blocked' = blocked + 1
  /\ Goto(t, "open")
  /\ UNCHANGED <<cond, gate, queue, unblockLock, mutex, toUnblock, gone, how, n, cancelled,
                 cancels, history>>

\* sem_post of the gate by one that entered, and by the last that was signalled
Open(t) ==
  /\ pc[t] \in {"open", "reopen"}
  /\ gate' = Posted(gate)
  /\ Goto(t, IF pc[t] = "open" THEN "unlock" ELSE "relock")
  /\ UNCHANGED <<cond, queue, unblockLock, mutex, counts, how, n, cancelled, cancels, history>>

UnlockMutex(t) ==
  /\ pc[t] = "unlock"
  /\ mutex' = NoThread
  /\ Goto(t, "queue")
  /\ UNCHANGED <<cond, gate, queue, unblockLock, counts, how, n, cancelled, cancels, history>>

\* sem_timedwait of the queue; it looks for a cancellation first.
TakeQueue(t) ==
  /\ pc[t] = "queue" /\ t \notin cancelled
  /\ queue' = Taken(queue)
  /\ Goto(t, IF MustWait(queue) THEN "sleep" ELSE "leave")
  /\ UNCHANGED <<cond, gate, unblockLock, mutex, counts, how, n, cancelled, cancels, history>>

PassQueue(t) ==
  /\ pc[t] = "sleep" /\ MayPass(queue)
  /\ queue' = Passed(queue)
  /\ Goto(t, "leave")
  /\ UNCHANGED <<cond, gate, unblockLock, mutex, counts, how, n, cancelled, cancels, history>>

TimeOut(t) ==
  /\ pc[t] = "sleep" /\ how[t] = "timedwait" /\ ~MayPass(queue)
  /\ Goto(t, "retract")
  /\ UNCHANGED <<cond, gate, queue, unblockLock, mutex, counts, how, n, cancelled, cancels, history>>

\* Cancelled before or in the wait for the queue.
CancelAtQueue(t) ==
  /\ t \in cancelled
  /\ \/ pc[t] = "queue" /\ Calls(t, "cancelled", "leave")
     \/ pc[t] = "sleep" /\ ~MayPass(queue) /\ Calls(t, "cancelled", "retract")
  /\ UNCHANGED <<cond, gate, queue, unblockLock, mutex, counts, n, cancelled, cancels, history>>

Retract(t) ==
  /\ pc[t] = "retract"
  /\ queue' = Retracted(queue)
  /\ Goto(t, "leave")
  /\ UNCHANGED <<cond, gate, unblockLock, mutex, counts, how, n, cancelled, cancels, history>>

\* ptw32_cond_wait_cleanup, under mtxUnblockLock: whoever leaves counts as one
\* that was to be unblocked, if there is any.
Leave(t) ==
  /\ pc[t] = "leave" /\ unblockLock = NoThread
  /\ toUnblock' = IF toUnblock > 0 THEN toUnblock - 1 ELSE 0
  /\ gone' = IF toUnblock > 0 THEN gone ELSE gone + 1
  /\ unblockLock' = IF toUnblock = 0 /\ gone' = GoneMax THEN t ELSE NoThread
  /\ Goto(t, IF unblockLock' = t THEN "drain" ELSE IF toUnblock = 1 THEN "reopen" ELSE "relock")
  /\ UNCHANGED <<cond, gate, queue, mutex, blocked, how, n, cancelled, cancels, history>>

\* Too many have gone: they are taken out of the count of the blocked.
Drain(t) ==
  /\ pc[t] = "drained"
  /\ blocked' = blocked - gone
  /\ gone' = 0
  /\ gate' = Posted(gate)
  /\ unblockLock' = NoThread
  /\ Goto(t, "relock")
  /\ UNCHANGED <<cond, queue, mutex, toUnblock, how, n, cancelled, cancels, history>>

\* The mutex is locked again, the wait returns or the thread ends, and the
\* program unlocks the mutex.
Relock(t) ==
  /\ pc[t] = "relock" /\ mutex = NoThread
  /\ Goto(t, IF how[t] = "cancelled" THEN "dead" ELSE "idle")
  /\ quit' = IF how[t] = "cancelled" THEN quit \cup {wait[t]} ELSE quit
  /\ UNCHANGED <<cond, gate, queue, unblockLock, mutex, counts, how, n, cancelled, cancels,
                 waits, wait, signals>>

-----------------------------------------------------------------------------
(* ptw32_cond_unblock, with or without the mutex of the program locked *)

\* The waits that a signal is for when it takes effect: all that are counted.
Signalled(f) ==
  signals' = Append(signals,
    [all |-> f = "broadcast",
     for |-> {wait[t] : t \in {u \in Threads :
                pc[u] \in {"open", "unlock", "queue", "sleep", "retract", "leave"}}}])

\* One more, or all that are blocked, are to be unblocked.
Unblocks(t, f, there) ==
  LET issue == IF f = "broadcast" THEN there ELSE 1
  IN  /\ n' = [n EXCEPT ![t] = issue]
      /\ toUnblock' = toUnblock + issue
      /\ blocked' = there - issue
      /\ Goto(t, "post")
      /\ Signalled(f)

\* Under mtxUnblockLock: the gate is closed and more are to be unblocked, or
\* somebody waits and it has to be closed, or there is nothing to do.
Signal(t, f) ==
  /\ pc[t] = "idle" /\ ~Destroying
  /\ Len(signals) + Cardinality({u \in Threads : pc[u] \in Closing}) < MaxSignals
  /\ cond = "valid" /\ unblockLock = NoThread
  /\ how' = [how EXCEPT ![t] = f]
  /\ \/ toUnblock > 0 /\ blocked > 0 /\ Unblocks(t, f, blocked) /\ UNCHANGED unblockLock
     \/ /\ toUnblock = 0 /\ blocked > gone
        /\ unblockLock' = t /\ Goto(t, "close") /\ UNCHANGED <<n, toUnblock, blocked, signals>>
     \/ /\ IF toUnblock > 0 THEN blocked = 0 ELSE blocked <= gone
        /\ Signalled(f) /\ UNCHANGED <<pc, n, toUnblock, blocked, unblockLock>>
  /\ UNCHANGED <<cond, gate, queue, mutex, gone, cancelled, cancels, waits, wait, quit>>

\* A signal that counts those that have gone among the blocked.
Closed_CountsGone(t) ==
  /\ pc[t] = "closed"
  /\ Unblocks(t, how[t], blocked)
  /\ gone' = 0
  /\ unblockLock' = NoThread
  /\ UNCHANGED <<cond, gate, queue, mutex, how, cancelled, cancels, waits, wait, quit>>

\* With the gate closed, those that have gone are no longer blocked.
Closed(t) ==
  /\ pc[t] = "closed"
  /\ Unblocks(t, how[t], blocked - gone)
  /\ gone' = 0
  /\ unblockLock' = NoThread
  /\ UNCHANGED <<cond, gate, queue, mutex, how, cancelled, cancels, waits, wait, quit>>

\* sem_post_multiple of the queue, not under the lock
Post(t) ==
  /\ pc[t] = "post"
  /\ queue' = PostedMultiple(queue, n[t])
  /\ Goto(t, "idle")
  /\ UNCHANGED <<cond, gate, unblockLock, mutex, counts, how, n, cancelled, cancels, history>>

-----------------------------------------------------------------------------
(* pthread_cond_destroy and pthread_cancel *)

Destroy(t) ==
  /\ pc[t] = "idle" /\ cond # "null" /\ ~Destroying
  /\ \A u \in Threads : pc[u] \notin Entering \cup Closing \cup {"post"}
  /\ IF cond = "static" THEN cond' = "null" /\ UNCHANGED <<pc, how>>
                        ELSE UNCHANGED cond /\ Calls(t, "destroy", "destroy")
  /\ UNCHANGED <<gate, queue, unblockLock, mutex, counts, n, cancelled, cancels, history>>

\* A destroy that does not look for threads that are still blocked.
TryDestroy_Blindly(t) ==
  /\ pc[t] = "try"
  /\ Goto(t, "idle")
  /\ IF unblockLock # NoThread
       THEN gate' = Posted(gate) /\ UNCHANGED cond
       ELSE cond' = "null" /\ UNCHANGED gate
  /\ UNCHANGED <<queue, unblockLock, mutex, counts, how, n, cancelled, cancels, history>>

\* With the gate closed: it is busy when mtxUnblockLock is locked or a thread
\* is blocked.
TryDestroy(t) ==
  /\ pc[t] = "try"
  /\ Goto(t, "idle")
  /\ IF unblockLock # NoThread \/ blocked > gone
       THEN gate' = Posted(gate) /\ UNCHANGED cond
       ELSE cond' = "null" /\ UNCHANGED gate
  /\ UNCHANGED <<queue, unblockLock, mutex, counts, how, n, cancelled, cancels, history>>

\* pthread_cancel of a thread in pthread_cond_wait or _timedwait
Cancel(t) ==
  /\ cancels < MaxCancels /\ t \notin cancelled /\ pc[t] \in CancelAt
  /\ cancelled' = cancelled \cup {t}
  /\ cancels' = cancels + 1
  /\ UNCHANGED <<cond, gate, queue, unblockLock, mutex, counts, pc, how, n, history>>

-----------------------------------------------------------------------------
InCall(t) ==
  \/ TakeGate(t) \/ PassGate(t) \/ CancelAtGate(t) \/ Count(t) \/ Open(t) \/ UnlockMutex(t)
  \/ TakeQueue(t) \/ PassQueue(t) \/ TimeOut(t) \/ CancelAtQueue(t) \/ Retract(t)
  \/ Leave(t) \/ Drain(t) \/ Relock(t)
  \/ Closed(t) \/ Post(t) \/ TryDestroy(t)

Next ==
  \E t \in Threads :
    \/ \E f \in Functions \cap {"wait", "timedwait"} : Wait(t, f)
    \/ \E f \in Functions \cap {"signal", "broadcast"} : Signal(t, f)
    \/ "destroy" \in Functions /\ Destroy(t)
    \/ InCall(t) \/ Cancel(t)

Spec == Init /\ [][Next]_vars

-----------------------------------------------------------------------------
Inside == {"open", "unlock", "queue", "sleep", "retract", "leave"}

TypeOK ==
  /\ cond \in {"static", "valid", "null"} /\ gate \in Semaphores /\ queue \in Semaphores
  /\ unblockLock \in Threads \cup {NoThread} /\ mutex \in Threads \cup {NoThread}
  /\ blocked \in Nat /\ toUnblock \in Nat /\ gone \in 0 .. GoneMax
  /\ how \in [Threads -> {"none", "wait", "timedwait", "signal", "broadcast", "destroy", "cancelled"}]
  /\ n \in [Threads -> Nat] /\ cancelled \subseteq Threads
  /\ waits \in 0 .. MaxWaits /\ wait \in [Threads -> 0 .. MaxWaits]

\* The three counts, kept under three different locks and by threads that
\* time out and are cancelled, add up to the threads that are inside a wait.
CountsWaiters ==
  cond # "null" =>
    blocked + toUnblock - gone = Cardinality({t \in Threads : pc[t] \in Inside})

\* The queue has a unit for each waiter that was let go, and a value that
\* counts the others.
QueueBalanced == Balanced(queue, Cardinality({t \in Threads : pc[t] \in {"sleep", "retract"}}))

\* The state agrees with the threads, counts and semaphore alike.
CountsAddUp == TypeOK /\ CountsWaiters /\ QueueBalanced

\* A thread in a call waits for the gate, for a unit of the queue, for mtxUnblockLock
\* or for the mutex, and can take a step otherwise.
Blocked(t) ==
  \/ /\ pc[t] \in {"atGate", "drainAtGate", "closeAtGate", "destroyAtGate"} /\ ~MayPass(gate)
     /\ ~(pc[t] = "atGate" /\ t \in cancelled)
  \/ pc[t] = "sleep" /\ ~MayPass(queue) /\ how[t] # "timedwait" /\ t \notin cancelled
  \/ pc[t] = "leave" /\ unblockLock # NoThread
  \/ pc[t] = "relock" /\ mutex # NoThread
InCalls == {t \in Threads : pc[t] \notin {"idle", "dead"}}
GoesOn == \A t \in InCalls : Blocked(t) <=> ~ENABLED InCall(t)

\* When no thread can go on, none hangs at the gate, in signal or broadcast, in
\* destroy or in a cleanup.
AtRest == \A t \in InCalls : Blocked(t)

NobodyHangs ==
  AtRest => unblockLock = NoThread /\ \A t \in Threads : pc[t] \in {"idle", "dead", "sleep"}

\* No signal is lost or stolen: when no thread can go on, all that a broadcast
\* was for have returned, and signals that left some of theirs asleep have each
\* ended another wait of those they were for.
Over(w) == \A t \in Threads : wait[t] = w => pc[t] \in {"idle", "dead"}
Served(i) == \A w \in signals[i].for : Over(w)

EndedBy(s) == {w \in UNION {signals[i].for : i \in s} : Over(w)}

NoSignalLost ==
  AtRest =>
    /\ \A i \in DOMAIN signals : signals[i].all => Served(i)
    /\ \A s \in SUBSET {i \in DOMAIN signals : ~Served(i)} : Cardinality(EndedBy(s)) >= Cardinality(s)

\* The same, and a wait that ends by cancellation uses up no signal while
\* another thread waits.
CancelTakesNone ==
  AtRest =>
    \A s \in SUBSET {i \in DOMAIN signals : ~Served(i)} :
      Cardinality(EndedBy(s) \ quit) >= Cardinality(s)

\* When no thread can go on, each has got what it was due.
EverybodyServed == GoesOn /\ NobodyHangs /\ NoSignalLost

\* A condition variable that was destroyed is not touched by any thread that
\* is still on its way out of a wait.
DestroyedQuiet == cond = "null" => \A t \in Threads : pc[t] \in {"idle", "dead", "relock"}

\* The counts are right until the condition variable goes, and it goes when
\* nobody needs them any more.
CondSound == CountsAddUp /\ DestroyedQuiet
=============================================================================
