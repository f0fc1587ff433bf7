----------------------------- MODULE PtwMcsLock -----------------------------
(***************************************************************************)
(* The queue lock of pthreads.2/ptw32_MCS_lock.c, one interlocked          *)
(* instruction at a time.  A thread brings a node of its own, which lies   *)
(* on its stack, and puts it behind the last node of the queue; the lock   *)
(* is a pointer to that last node.  A flag of a node is clear (0), set     *)
(* (-1), or holds the event of the thread that waits for it.               *)
(*                                                                         *)
(* A node outlives the call that used it as a piece of the stack: with     *)
(* Slots = 1 the next call of the thread has its node at the same place.   *)
(***************************************************************************)
EXTENDS Naturals

CONSTANTS
  Threads,  \* the threads that use the lock
  MaxCalls, \* bound: acquisitions by all threads
  Slots,    \* the places on its stack that these use in turn
  None      \* the null pointer

VARIABLES
  lock,      \* the last node of the queue
  next,      \* node->next
  nextFlag,  \* node->nextFlag
  readyFlag, \* node->readyFlag
  event,     \* the event of a thread is signalled
  pred,      \* pred in ptw32_mcs_lock_acquire, while it is used
  held,      \* the node that the thread's call works on
  calls,     \* acquisitions by the thread so far
  begun,     \* acquisitions by all threads so far
  pc         \* where the thread stands

flagVars == <<next, nextFlag, readyFlag, event>>
callVars == <<calls, begun>>
mcsVars == <<lock, flagVars, pred, held, callVars, pc>>

Proxy == <<None, 0>>   \* a node in global storage
Node == (Threads \X (1 .. Slots)) \cup {Proxy}
Clear == "clear"
Set == "set"

ASSUME McsAssumption ==
  /\ MaxCalls \in Nat /\ Slots \in Nat \ {0}
  /\ {None, Clear, Set} \cap Threads = {} /\ None \notin Node

\* The node variable of the k-th call of a thread.
StackNode(t, k) == <<t, (k % Slots) + 1>>
MyNode(t) == StackNode(t, calls[t])

Goto(t, l) == pc' = [pc EXCEPT ![t] = l]

McsInit ==
  /\ lock = None
  /\ next = [n \in Node |-> None]
  /\ nextFlag = [n \in Node |-> Clear] /\ readyFlag = [n \in Node |-> Clear]
  /\ event = [t \in Threads |-> FALSE]
  /\ pred = [t \in Threads |-> None] /\ held = [t \in Threads |-> None]
  /\ calls = [t \in Threads |-> 0] /\ begun = 0
  /\ pc = [t \in Threads |-> "idle"]

\* Nodes with both flags clear and no successor: nodes that are initialised,
\* and nodes that are not used any more, whose contents nobody reads.
Fresh(ns) ==
  /\ next' = [n \in Node |-> IF n \in ns THEN None ELSE next[n]]
  /\ nextFlag' = [n \in Node |-> IF n \in ns THEN Clear ELSE nextFlag[n]]
  /\ readyFlag' = [n \in Node |-> IF n \in ns THEN Clear ELSE readyFlag[n]]

\* ptw32_mcs_flag_set: compare-and-swap of 0 to -1, or SetEvent.  It is
\* given the flag, as a function of nodes, before and after.
FlagSet(flag, flagAfter, n) ==
  /\ flagAfter = [flag EXCEPT ![n] = IF @ = Clear THEN Set ELSE @]
  /\ event' = IF flag[n] \in Threads THEN [event EXCEPT ![flag[n]] = TRUE] ELSE event

\* ptw32_mcs_flag_wait: proceed if the flag is set, otherwise store an event
\* in it and sleep on that.
FlagWait(t, flag, flagAfter, n, sleep, go) ==
  IF flag[n] = Clear
  THEN flagAfter = [flag EXCEPT ![n] = t] /\ Goto(t, sleep)
  ELSE flagAfter = flag /\ Goto(t, go)

WakeUp(t, sleep, go) ==
  /\ pc[t] = sleep /\ event[t]
  /\ event' = [event EXCEPT ![t] = FALSE]
  /\ Goto(t, go)
  /\ UNCHANGED <<lock, next, nextFlag, readyFlag, pred, held, callVars>>

-----------------------------------------------------------------------------
(* ptw32_mcs_lock_acquire, from "enqueue" to "locked" *)

\* Its first instructions up to the exchange of the lock pointer.
Enqueue(t) ==
  LET n == StackNode(t, calls[t] + 1) IN
  /\ pc[t] = "enqueue"
  /\ Fresh({n})
  /\ held' = [held EXCEPT ![t] = n]
  /\ calls' = [calls EXCEPT ![t] = @ + 1] /\ begun' = begun + 1
  /\ pred' = [pred EXCEPT ![t] = lock]
  /\ lock' = n
  /\ Goto(t, IF lock = None THEN "locked" ELSE "link")
  /\ UNCHANGED event

\* pred->next = node
Link(t) ==
  /\ pc[t] = "link"
  /\ next' = [next EXCEPT ![pred[t]] = held[t]]
  /\ Goto(t, "notify")
  /\ UNCHANGED <<lock, nextFlag, readyFlag, event, pred, held, callVars>>

Notify(t) ==
  /\ pc[t] = "notify"
  /\ FlagSet(nextFlag, nextFlag', pred[t])
  /\ pred' = [pred EXCEPT ![t] = None]
  /\ Goto(t, "ready")
  /\ UNCHANGED <<lock, next, readyFlag, held, callVars>>

AwaitReady(t) ==
  /\ pc[t] = "ready"
  /\ FlagWait(t, readyFlag, readyFlag', held[t], "sleep_ready", "locked")
  /\ UNCHANGED <<lock, next, nextFlag, event, pred, held, callVars>>

Acquire(t) ==
  Enqueue(t) \/ Link(t) \/ Notify(t) \/ AwaitReady(t) \/ WakeUp(t, "sleep_ready", "locked")

-----------------------------------------------------------------------------
(* ptw32_mcs_lock_try_acquire: the call returns 0 or EBUSY *)

TryAcquire(t, free, busy) ==
  LET n == StackNode(t, calls[t] + 1) IN
  /\ Fresh({n})
  /\ held' = [held EXCEPT ![t] = n]
  /\ calls' = [calls EXCEPT ![t] = @ + 1] /\ begun' = begun + 1
  /\ lock' = IF lock = None THEN n ELSE lock
  /\ Goto(t, IF lock = None THEN free ELSE busy)
  /\ UNCHANGED <<event, pred>>

-----------------------------------------------------------------------------
(* ptw32_mcs_lock_release(held[t]), from "release" to "released" *)

Release(t) ==
  /\ pc[t] = "release"
  /\ Goto(t, IF next[held[t]] = None THEN "unlock" ELSE "pass")
  /\ UNCHANGED <<lock, flagVars, pred, held, callVars>>

\* A release that clears the pointer whatever it points to.
Unlock_NoCompare(t) ==
  /\ pc[t] = "unlock"
  /\ lock' = None
  /\ Goto(t, "released")
  /\ UNCHANGED <<flagVars, pred, held, callVars>>

\* The queue is empty behind the node, or a successor is about to link.
Unlock(t) ==
  /\ pc[t] = "unlock"
  /\ IF lock = held[t]
       THEN lock' = None /\ Goto(t, "released")
       ELSE Goto(t, "linked") /\ UNCHANGED lock
  /\ UNCHANGED <<flagVars, pred, held, callVars>>

AwaitLink(t) ==
  /\ pc[t] = "linked"
  /\ FlagWait(t, nextFlag, nextFlag', held[t], "sleep_linked", "pass")
  /\ UNCHANGED <<lock, next, readyFlag, event, pred, held, callVars>>

\* ptw32_mcs_flag_set(&next->readyFlag); a null pointer ends the process.
Pass(t) ==
  /\ pc[t] = "pass"
  /\ IF next[held[t]] = None
       THEN Goto(t, "crashed") /\ UNCHANGED <<readyFlag, event>>
       ELSE /\ FlagSet(readyFlag, readyFlag', next[held[t]])
            /\ Goto(t, "released")
  /\ UNCHANGED <<lock, next, nextFlag, pred, held, callVars>>

ReleaseLock(t) ==
  Release(t) \/ Unlock(t) \/ AwaitLink(t) \/ WakeUp(t, "sleep_linked", "pass") \/ Pass(t)

-----------------------------------------------------------------------------
(* ptw32_mcs_node_transfer(proxy, held[t]), from "transfer" to "transferred" *)

Transfer(t) ==
  /\ pc[t] = "transfer"
  /\ Fresh({Proxy})
  /\ IF lock = held[t]
       THEN lock' = Proxy /\ Goto(t, "transferred")
       ELSE Goto(t, "adopt") /\ UNCHANGED lock
  /\ UNCHANGED <<event, pred, held, callVars>>

\* The loop over sched_yield until the successor has linked.
Adopt(t) ==
  /\ pc[t] = "adopt" /\ next[held[t]] # None
  /\ next' = [next EXCEPT ![Proxy] = next[held[t]]]
  /\ Goto(t, "transferred")
  /\ UNCHANGED <<lock, nextFlag, readyFlag, event, pred, held, callVars>>

McsStep(t) == Acquire(t) \/ ReleaseLock(t) \/ Transfer(t) \/ Adopt(t)
=============================================================================
