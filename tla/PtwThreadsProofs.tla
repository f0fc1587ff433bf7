-------------------------- MODULE PtwThreadsProofs --------------------------
(***************************************************************************)
(* Safety of PtwThreads for any threads, structures and calls, while no    *)
(* asynchronous cancellation comes where a thread waits for its own lock,  *)
(* and no structure is freed under a call of pthread_cancel.               *)
(***************************************************************************)
EXTENDS PtwThreads, SequenceTheorems, TLAPS

Orderly == Env \cap {"anywhere", "stale"} = {}

-----------------------------------------------------------------------------
(* The inductive invariant *)

Locking == {"cancelLock", "cancelSet", "cancelAsync", "detachLock"}
OwnLocking == {"startLock", "lastLock", "waitLock", "testLock", "testLockInCleanup", "setLock"}
Joining == {"joinSelf", "joinTest", "join", "joined"}

DriverPlaces == {"user", "create", "created"} \cup JoinCalls \cup CancelCalls
WorkerPlaces ==
  {"off", "user", "gone", "start", "returned", "ending", "last", "throw", "cleanup", "wait",
   "waitEnter"} \cup OwnLocking \cup JoinCalls \cup CancelCalls
AboutOne == {"create", "created"} \cup JoinCalls \cup CancelCalls

Hows == {"none", "enable", "disable", "deferred", "async", "exit", "cancel"}
Statuses == Workers \cup {None, "canceled"}
Thread ==
  [x : Nat, state : 0 .. 7, detached : BOOLEAN, cancelState : Hows, cancelType : Hows,
   event : BOOLEAN, threadH : Actors \cup {None}, status : Statuses]
Handle == [p : Structs, x : Nat]

Memory ==
  /\ th \in [Structs -> Thread] /\ lockq \in [Structs -> Seq(Actors)]
  /\ pool \in Seq(Structs) /\ fresh \subseteq Structs
  /\ self \in [Actors -> Structs \cup {None}] /\ handle \in [Workers -> Handle \cup {None}]
  /\ known \subseteq Workers /\ done \subseteq Workers
  /\ how \in [Actors -> Hows] /\ armed \in [Actors -> BOOLEAN]
  /\ got \subseteq Workers \X Statuses /\ final \in [Workers -> Statuses]
Places ==
  /\ pc \in [Actors -> DriverPlaces \cup WorkerPlaces]
  /\ \A d \in Drivers : pc[d] \in DriverPlaces
  /\ \A w \in Workers : pc[w] \in WorkerPlaces
  /\ arg \in [Actors -> Workers \cup {None}]
  /\ \A a \in Actors : pc[a] \in AboutOne => arg[a] \in Workers
ThreadsType == Memory /\ Places

\* A worker has the structure that its handle points to, until that is freed.
Lives(w) == handle[w] # None /\ Valid(w)
Owns(a, s) == IF a \in Workers THEN Lives(a) /\ handle[a].p = s ELSE self[a] = s
Taken(s) == s \notin fresh /\ \A i \in 1 .. Len(pool) : pool[i] # s

\* No structure has two owners, or is to be reused while it has one, and the
\* counter of a handle is never ahead of the structure's.
Owned ==
  /\ \A i, j \in 1 .. Len(pool) : pool[i] = pool[j] => i = j
  /\ \A i \in 1 .. Len(pool) : pool[i] \notin fresh
  /\ \A w \in Workers : handle[w] # None => handle[w].x <= th[handle[w].p].x
  /\ \A s \in Structs, a \in Actors : Owns(a, s) => Taken(s)
  /\ \A s \in Structs, a, b \in Actors : Owns(a, s) /\ Owns(b, s) => a = b
  /\ \A d \in Drivers : self[d] # None => ~th[self[d]].event

\* What a worker and its structure know of each other.
Known(w) ==
  /\ pc[w] = "off" => self[w] = None
  /\ pc[w] # "off" => handle[w] # None /\ self[w] = handle[w].p
  /\ Alive(w) => Lives(w)
  /\ w \in known => pc[w] # "off"
Kept(w) ==
  Lives(w) =>
    LET t == th[handle[w].p] IN
    /\ pc[w] # "off" => t.threadH = w
    /\ pc[w] \in {"last", "gone"} => t.state = Last
    /\ pc[w] = "gone" => ~t.detached /\ t.status = final[w]
    /\ t.state = CancelPending \/ t.event => w \in aimed
    /\ t.state = CancelPending => t.event \/ pc[w] \in {"waitEnter", "waitLock"}
Aimed(w) ==
  how[w] = "cancel" \/ pc[w] \in {"waitEnter", "waitLock", "testLock", "testLockInCleanup"}
    => w \in aimed
Work(w) == Known(w) /\ Kept(w) /\ Aimed(w)

\* What a call relies on in the worker that it is about.
Doing(a) ==
  LET w == arg[a] IN
  /\ pc[a] = "create" => Lives(w) /\ pc[w] = "off"
  /\ pc[a] \in AboutOne \ {"create"} => pc[w] # "off"
  /\ pc[a] \in Joining \cup {"detachLock", "detachWait"} => Lives(w) /\ ~th[handle[w].p].detached
  /\ pc[a] = "joined" => pc[w] = "gone"
  /\ pc[a] = "detachLock" => reuse = a
  /\ pc[a] \in CancelCalls => Lives(w) /\ w \in aimed
  /\ pc[a] \in {"cancelSet", "cancelAsync"} =>
       Holds(a, handle[w].p) /\ pc[w] \notin {"last", "gone"}
  /\ a \in Drivers /\ pc[a] \in {"joinTest", "join"} => self[a] # None

\* One creates a thread, and one joins or detaches it, at a time.
Unique ==
  \A a, b \in Actors :
    /\ pc[a] \in JoinCalls /\ pc[b] \in JoinCalls /\ arg[a] = arg[b] => a = b
    /\ pc[a] = "create" /\ pc[b] = "create" /\ arg[a] = arg[b] => a = b

\* Who is in the queue of a lock is at one place in it, and waits for it or has it.
Wants(a, s) ==
  \/ pc[a] \in Locking /\ handle[arg[a]].p = s
  \/ pc[a] \in OwnLocking /\ self[a] = s
Queued ==
  \A s \in Structs :
    /\ \A i, j \in 1 .. Len(lockq[s]) : lockq[s][i] = lockq[s][j] => i = j
    /\ \A a \in Actors, i \in 1 .. Len(lockq[s]) : lockq[s][i] = a => Wants(a, s)

\* Who was joined has ended, and is being detached unless its structure is free.
Joined ==
  \A g \in got :
    /\ pc[g[1]] = "gone" /\ g[2] = final[g[1]]
    /\ Lives(g[1]) =>
         \E a \in Actors : arg[a] = g[1] /\ pc[a] \in {"detachTest", "detachLock", "detachWait"}

ThreadsInv ==
  /\ ThreadsType /\ Owned /\ Unique /\ Queued /\ Joined
  /\ \A w \in Workers : Work(w)
  /\ \A a \in Actors : Doing(a)

\* The same where no thread is cancelled before it runs: a cancellation that was
\* accepted is pending until the thread acts on it.
Accepted ==
  /\ \A a \in Actors : pc[a] \in CancelCalls => pc[arg[a]] \notin {"start", "startLock"}
  /\ \A w \in done :
       /\ pc[w] \notin {"off", "start", "startLock"}
       /\ Lives(w) /\ th[handle[w].p].state < Canceling => th[handle[w].p].state = CancelPending

-----------------------------------------------------------------------------
(* What the operators of PtwThreads change *)

\* A field of one structure is set.
LEMMA StateSet ==
  ASSUME ThreadsType, NEW s \in Structs, NEW v \in 0 .. 7, Sets(s, "state", v)
  PROVE  /\ th' \in [Structs -> Thread] /\ \A r \in Structs \ {s} : th'[r] = th[r]
         /\ th'[s].x = th[s].x /\ th'[s].detached = th[s].detached
         /\ th'[s].threadH = th[s].threadH /\ th'[s].event = th[s].event
         /\ th'[s].status = th[s].status /\ th'[s].state = v
  BY ZenonT(60) DEF ThreadsType, Memory, Places, Sets, Thread

LEMMA StatusSet ==
  ASSUME ThreadsType, NEW s \in Structs, NEW v \in Statuses, Sets(s, "status", v)
  PROVE  /\ th' \in [Structs -> Thread] /\ \A r \in Structs \ {s} : th'[r] = th[r]
         /\ th'[s].x = th[s].x /\ th'[s].detached = th[s].detached
         /\ th'[s].threadH = th[s].threadH /\ th'[s].event = th[s].event
         /\ th'[s].state = th[s].state /\ th'[s].status = v
  BY ZenonT(60) DEF ThreadsType, Memory, Places, Sets, Thread

LEMMA EventReset ==
  ASSUME ThreadsType, NEW s \in Structs, Sets(s, "event", FALSE)
  PROVE  /\ th' \in [Structs -> Thread] /\ \A r \in Structs \ {s} : th'[r] = th[r]
         /\ th'[s].x = th[s].x /\ th'[s].detached = th[s].detached
         /\ th'[s].threadH = th[s].threadH /\ ~th'[s].event
         /\ th'[s].state = th[s].state /\ th'[s].status = th[s].status
  BY ZenonT(60) DEF ThreadsType, Memory, Places, Sets, Thread

LEMMA DetachedSet ==
  ASSUME ThreadsType, NEW s \in Structs, Sets(s, "detached", TRUE)
  PROVE  /\ th' \in [Structs -> Thread] /\ \A r \in Structs \ {s} : th'[r] = th[r]
         /\ th'[s].x = th[s].x /\ th'[s].threadH = th[s].threadH /\ th'[s].event = th[s].event
         /\ th'[s].state = th[s].state /\ th'[s].status = th[s].status
  BY ZenonT(60) DEF ThreadsType, Memory, Places, Sets, Thread

LEMMA ThreadSet ==
  ASSUME ThreadsType, NEW s \in Structs, NEW a \in Actors, Sets(s, "threadH", a)
  PROVE  /\ th' \in [Structs -> Thread] /\ \A r \in Structs \ {s} : th'[r] = th[r]
         /\ th'[s].x = th[s].x /\ th'[s].detached = th[s].detached /\ th'[s].event = th[s].event
         /\ th'[s].state = th[s].state /\ th'[s].status = th[s].status /\ th'[s].threadH = a
  BY ZenonT(60) DEF ThreadsType, Memory, Places, Sets, Thread

\* The thread is being cancelled.
LEMMA ActsChange ==
  ASSUME ThreadsType, NEW s \in Structs, NEW resets \in BOOLEAN,
         th' = [th EXCEPT ![s].state = Canceling, ![s].cancelState = "disable",
                          ![s].event = @ /\ ~resets]
  PROVE  /\ th' \in [Structs -> Thread] /\ \A r \in Structs \ {s} : th'[r] = th[r]
         /\ th'[s].x = th[s].x /\ th'[s].detached = th[s].detached
         /\ th'[s].threadH = th[s].threadH /\ (th'[s].event => th[s].event)
         /\ th'[s].status = th[s].status /\ th'[s].state = Canceling
<1>1. PICK t \in Thread : t = th[s]
  BY DEF ThreadsType, Memory, Places
<1>2. PICK e \in BOOLEAN : e = (t.event /\ ~resets)
  OBVIOUS
<1>3. PICK v \in 0 .. 7 : v = Canceling
  BY DEF Canceling
<1>4. PICK c \in Hows : c = "disable"
  BY DEF Hows
<1>5. PICK u : u = [t EXCEPT !.state = v, !.cancelState = c, !.event = e]
  OBVIOUS
<1>6. th' = [th EXCEPT ![s] = u]
  BY <1>1, <1>2, <1>3, <1>4, <1>5 DEF ThreadsType, Memory, Places, Thread
<1>7. u \in Thread /\ u.x = t.x /\ u.detached = t.detached /\ u.threadH = t.threadH
      /\ u.event = e /\ u.status = t.status /\ u.state = v
  BY <1>1, <1>2, <1>3, <1>4, <1>5 DEF Thread
<1> QED
  BY <1>1, <1>2, <1>3, <1>6, <1>7, ZenonT(60) DEF ThreadsType, Memory, Places

LEMMA PendingSet ==
  ASSUME ThreadsType, NEW s \in Structs,
         th' = [th EXCEPT ![s].state = CancelPending, ![s].event = TRUE]
  PROVE  /\ th' \in [Structs -> Thread] /\ \A r \in Structs \ {s} : th'[r] = th[r]
         /\ th'[s].x = th[s].x /\ th'[s].detached = th[s].detached
         /\ th'[s].threadH = th[s].threadH /\ th'[s].event
         /\ th'[s].status = th[s].status /\ th'[s].state = CancelPending
<1>1. PICK t \in Thread : t = th[s]
  BY DEF ThreadsType, Memory, Places
<1>2. PICK e \in BOOLEAN : e
  OBVIOUS
<1>3. PICK v \in 0 .. 7 : v = CancelPending
  BY DEF CancelPending
<1>4. PICK c \in Hows : TRUE
  BY DEF Hows
<1>5. PICK u : u = [t EXCEPT !.state = v, !.event = e]
  OBVIOUS
<1>6. th' = [th EXCEPT ![s] = u]
  BY <1>1, <1>2, <1>3, <1>5 DEF ThreadsType, Memory, Places, Thread
<1>7. u \in Thread /\ u.x = t.x /\ u.detached = t.detached /\ u.threadH = t.threadH
      /\ u.event = e /\ u.status = t.status /\ u.state = v
  BY <1>1, <1>2, <1>3, <1>4, <1>5 DEF Thread
<1> QED
  BY <1>1, <1>2, <1>3, <1>6, <1>7 DEF ThreadsType, Memory, Places

LEMMA CancelingSet ==
  ASSUME ThreadsType, NEW s \in Structs,
         th' = [th EXCEPT ![s].state = Canceling, ![s].cancelState = "disable"]
  PROVE  /\ th' \in [Structs -> Thread] /\ \A r \in Structs \ {s} : th'[r] = th[r]
         /\ th'[s].x = th[s].x /\ th'[s].detached = th[s].detached
         /\ th'[s].threadH = th[s].threadH /\ th'[s].event = th[s].event
         /\ th'[s].status = th[s].status /\ th'[s].state = Canceling
<1>1. PICK t \in Thread : t = th[s]
  BY DEF ThreadsType, Memory, Places
<1>2. PICK e \in BOOLEAN : e = t.event
  BY <1>1 DEF Thread
<1>3. PICK v \in 0 .. 7 : v = Canceling
  BY DEF Canceling
<1>4. PICK c \in Hows : c = "disable"
  BY DEF Hows
<1>5. PICK u : u = [t EXCEPT !.state = v, !.cancelState = c]
  OBVIOUS
<1>6. th' = [th EXCEPT ![s] = u]
  BY <1>1, <1>3, <1>4, <1>5 DEF ThreadsType, Memory, Places, Thread
<1>7. u \in Thread /\ u.x = t.x /\ u.detached = t.detached /\ u.threadH = t.threadH
      /\ u.event = e /\ u.status = t.status /\ u.state = v
  BY <1>1, <1>2, <1>3, <1>4, <1>5 DEF Thread
<1> QED
  BY <1>1, <1>2, <1>3, <1>6, <1>7 DEF ThreadsType, Memory, Places

\* The structure as ptw32_new leaves it.
Made(x, d, h) == [Unused(x) EXCEPT !.state = Initial, !.detached = d, !.threadH = h]

LEMMA FieldsMade ==
  ASSUME NEW x \in Nat, NEW d \in BOOLEAN, NEW h \in Actors \cup {None}
  PROVE  /\ Made(x, d, h) \in Thread /\ Made(x, d, h).x = x /\ ~Made(x, d, h).event
         /\ Made(x, d, h).state = Initial /\ Made(x, d, h).detached = d
<1>1. PICK t \in Thread : t = Unused(x)
  <2>1. Unused(x) \in Thread
    BY DEF Unused, Thread, Hows, Statuses, Reuse
  <2> QED
    BY <2>1
<1>2. t.x = x /\ ~t.event
  BY <1>1 DEF Unused
<1>3. PICK v \in 0 .. 7 : v = Initial
  BY DEF Initial
<1>4. Made(x, d, h) = [t EXCEPT !.state = v, !.detached = d, !.threadH = h]
  BY <1>1, <1>3 DEF Made
<1> QED
  BY <1>1, <1>2, <1>3, <1>4 DEF Thread

\* ptw32_new: a structure that nobody has becomes that of one thread.
LEMMA NewMade ==
  ASSUME ThreadsType, Owned, NEW s \in Structs, NEW d \in BOOLEAN, NEW h \in Actors \cup {None},
         New(s, d, h)
  PROVE  /\ reuse = None /\ ~Taken(s) /\ Taken(s)' /\ \A r \in Structs : Taken(r) => Taken(r)'
         /\ th' \in [Structs -> Thread] /\ \A r \in Structs \ {s} : th'[r] = th[r]
         /\ th'[s].x = th[s].x /\ ~th'[s].event /\ th'[s].state = Initial /\ th'[s].detached = d
         /\ pool' \in Seq(Structs) /\ fresh' \subseteq Structs
         /\ \A i, j \in 1 .. Len(pool') : pool'[i] = pool'[j] => i = j
         /\ \A i \in 1 .. Len(pool') : pool'[i] \notin fresh'
         /\ lockq' = [lockq EXCEPT ![s] = <<>>]
<1>1. /\ th' \in [Structs -> Thread] /\ \A r \in Structs \ {s} : th'[r] = th[r]
      /\ th'[s].x = th[s].x /\ ~th'[s].event /\ th'[s].state = Initial /\ th'[s].detached = d
  <2>1. th' = [th EXCEPT ![s] = Made(th[s].x, d, h)]
    BY DEF New, Made
  <2>2. th[s].x \in Nat
    BY DEF ThreadsType, Memory, Places, Thread
  <2> QED
    BY <2>1, <2>2, FieldsMade DEF ThreadsType, Memory, Places
<1>2. CASE pool # <<>>
  <2>1. s = pool[1] /\ fresh' = fresh /\ pool' = Tail(pool) /\ 1 \in 1 .. Len(pool)
    BY <1>2, EmptySeq, HeadTailProperties DEF New, ThreadsType, Memory, Places
  <2>2. /\ pool' \in Seq(Structs) /\ Len(pool) \in Nat /\ Len(pool') = Len(pool) - 1
        /\ \A i \in 1 .. Len(pool') : pool'[i] = pool[i + 1]
    BY <1>2, <2>1, HeadTailProperties DEF ThreadsType, Memory, Places
  <2>3. \A i \in 1 .. Len(pool') : i + 1 \in 1 .. Len(pool) /\ i + 1 # 1
    BY <2>2
  <2>4. ~Taken(s) /\ Taken(s)' /\ \A r \in Structs : Taken(r) => Taken(r)'
    BY <2>1, <2>2, <2>3 DEF Taken, Owned
  <2>5. /\ \A i, j \in 1 .. Len(pool') : pool'[i] = pool'[j] => i = j
        /\ \A i \in 1 .. Len(pool') : pool'[i] \notin fresh'
    BY <2>1, <2>2, <2>3 DEF Owned
  <2> QED
    BY <1>1, <2>1, <2>2, <2>4, <2>5 DEF New, ThreadsType, Memory, Places
<1>3. CASE pool = <<>>
  <2>1. s \in fresh /\ fresh' = fresh \ {s} /\ pool' = pool /\ Len(pool) = 0
    BY <1>3 DEF New
  <2> QED
    BY <1>1, <2>1 DEF New, ThreadsType, Memory, Places, Taken
<1> QED
  BY <1>2, <1>3

\* ptw32_threadDestroy: handles to the structure are not valid any more.
LEMMA Destroyed ==
  ASSUME ThreadsType, Owned, NEW s \in Structs, Taken(s), Destroy(s)
  PROVE  /\ reuse = None /\ \A r \in Structs \ {s} : Taken(r) => Taken(r)'
         /\ th' \in [Structs -> Thread] /\ \A r \in Structs \ {s} : th'[r] = th[r]
         /\ th'[s].x = th[s].x + 1
         /\ pool' \in Seq(Structs) /\ fresh' = fresh
         /\ \A i, j \in 1 .. Len(pool') : pool'[i] = pool'[j] => i = j
         /\ \A i \in 1 .. Len(pool') : pool'[i] \notin fresh'
         /\ lockq' = [lockq EXCEPT ![s] = <<>>]
<1>1. /\ th' \in [Structs -> Thread] /\ \A r \in Structs \ {s} : th'[r] = th[r]
      /\ th'[s].x = th[s].x + 1
  <2>1. th' = [th EXCEPT ![s] = Unused(th[s].x + 1)]
    BY DEF Destroy
  <2>2. th[s].x \in Nat
    BY DEF ThreadsType, Memory, Places, Thread
  <2>3. Unused(th[s].x + 1) \in Thread /\ Unused(th[s].x + 1).x = th[s].x + 1
    BY <2>2 DEF Unused, Thread, Hows, Statuses, Reuse
  <2> QED
    BY <2>1, <2>3 DEF ThreadsType, Memory, Places
<1>2. /\ pool' \in Seq(Structs) /\ Len(pool) \in Nat /\ Len(pool') = Len(pool) + 1
      /\ pool'[Len(pool) + 1] = s /\ \A i \in 1 .. Len(pool) : pool'[i] = pool[i]
  BY AppendProperties DEF Destroy, ThreadsType, Memory, Places
<1>3. \A i \in 1 .. Len(pool') : i \in 1 .. Len(pool) \/ i = Len(pool) + 1
  BY <1>2
<1>4. \A i, j \in 1 .. Len(pool') : pool'[i] = pool'[j] => i = j
  BY <1>2, <1>3 DEF Taken, Owned
<1>5. \A i \in 1 .. Len(pool') : pool'[i] \notin fresh'
  BY <1>2, <1>3 DEF Taken, Owned, Destroy
<1>6. \A r \in Structs \ {s} : Taken(r) => Taken(r)'
  BY <1>2, <1>3 DEF Taken, Destroy
<1> QED
  BY <1>1, <1>2, <1>4, <1>5, <1>6 DEF Destroy

\* The queue of a lock: who is first stays so until it releases the lock.
LEMMA QueueEntered ==
  ASSUME ThreadsType, NEW a \in Actors, NEW s \in Structs, lockq' = [lockq EXCEPT ![s] = Append(@, a)]
  PROVE  /\ lockq' \in [Structs -> Seq(Actors)]
         /\ \A b \in Actors, r \in Structs : Holds(b, r) => Holds(b, r)'
         /\ \A r \in Structs \ {s} : lockq'[r] = lockq[r]
         /\ Len(lockq[s]) \in Nat /\ Len(lockq'[s]) = Len(lockq[s]) + 1
         /\ lockq'[s][Len(lockq[s]) + 1] = a
         /\ \A i \in 1 .. Len(lockq[s]) : lockq'[s][i] = lockq[s][i]
<1>1. lockq[s] \in Seq(Actors) /\ lockq'[s] = Append(lockq[s], a)
  BY DEF ThreadsType, Memory, Places
<1>2. lockq[s] # <<>> => Append(lockq[s], a) # <<>> /\ Head(Append(lockq[s], a)) = Head(lockq[s])
  BY <1>1, AppendProperties, HeadTailProperties, EmptySeq
<1> QED
  BY <1>1, <1>2, AppendProperties DEF ThreadsType, Memory, Places, Holds

LEMMA QueueLeft ==
  ASSUME ThreadsType, NEW a \in Actors, NEW s \in Structs, Holds(a, s), Release(s)
  PROVE  /\ lockq' \in [Structs -> Seq(Actors)]
         /\ \A b \in Actors \ {a}, r \in Structs : Holds(b, r) => Holds(b, r)'
         /\ \A r \in Structs \ {s} : lockq'[r] = lockq[r]
         /\ Len(lockq[s]) \in Nat /\ Len(lockq'[s]) = Len(lockq[s]) - 1
         /\ lockq[s][1] = a
         /\ \A i \in 1 .. Len(lockq'[s]) : lockq'[s][i] = lockq[s][i + 1]
<1>1. lockq[s] \in Seq(Actors) /\ lockq'[s] = Tail(lockq[s]) /\ lockq[s] # <<>>
  BY DEF ThreadsType, Memory, Places, Release, Holds
<1> QED
  BY <1>1, HeadTailProperties DEF ThreadsType, Memory, Places, Release, Holds

LEMMA QueueCleared ==
  ASSUME ThreadsType, NEW s \in Structs, lockq' = [lockq EXCEPT ![s] = <<>>]
  PROVE  /\ lockq' \in [Structs -> Seq(Actors)] /\ lockq'[s] = <<>>
         /\ \A r \in Structs \ {s} : lockq'[r] = lockq[r]
  BY DEF ThreadsType, Memory, Places

-----------------------------------------------------------------------------
(* What a step leaves alone *)

\* The actors of A go on, and the structure s is written, if any.  Of s only the
\* mark that it is detached matters to others, and whoever sets it has reuse.
Frame(A, s) ==
  /\ \A b \in Actors \ A : pc'[b] = pc[b] /\ arg'[b] = arg[b] /\ how'[b] = how[b]
  /\ \A a \in A :
       /\ pc[a] \notin {"off", "gone", "create"} /\ pc'[a] \notin {"off", "gone", "create"}
       /\ pc'[a] = "last" => Holds(a, self[a])
  /\ pool' = pool /\ fresh' = fresh /\ handle' = handle /\ self' = self /\ final' = final
  /\ \A r \in Structs \ {s} : th'[r] = th[r]
  /\ s \in Structs =>
       /\ th'[s].x = th[s].x
       /\ \/ th'[s].detached = th[s].detached
          \/ \E a \in A : pc[a] = "detachLock" /\ handle[arg[a]].p = s
       /\ \A d \in Drivers : self[d] = s => ~th'[s].event
  /\ aimed \subseteq aimed'
  /\ \A w \in known' : w \in known \/ pc[w] # "off"
  /\ reuse \in A \cup {None} \/ reuse' = reuse
  /\ \A b \in Actors \ A, r \in Structs : Holds(b, r) => Holds(b, r)'

\* Where handles point to.
LEMMA Pointers ==
  ASSUME ThreadsType, NEW w \in Workers, handle[w] # None
  PROVE  handle[w].p \in Structs /\ handle[w].x \in Nat /\ th[handle[w].p] \in Thread
  BY DEF ThreadsType, Memory, Places, Handle

LEMMA FrameLives ==
  ASSUME ThreadsType, NEW A \in SUBSET Actors, NEW s, Frame(A, s)
  PROVE  /\ \A w \in Workers : Lives(w)' <=> Lives(w)
         /\ \A a \in Actors, r \in Structs : Owns(a, r)' <=> Owns(a, r)
         /\ \A r \in Structs : th'[r].x = th[r].x /\ (Taken(r)' <=> Taken(r))
<1>1. handle' = handle /\ self' = self /\ pool' = pool /\ fresh' = fresh
  BY DEF Frame
<1>2. \A r \in Structs : th'[r].x = th[r].x
  BY DEF Frame
<1>3. \A w \in Workers : Lives(w)' <=> Lives(w)
  <2> SUFFICES ASSUME NEW w \in Workers PROVE Lives(w)' <=> Lives(w)
    OBVIOUS
  <2> QED
    BY <1>1, <1>2, Pointers DEF Lives, Valid
<1>4. \A a \in Actors, r \in Structs : Owns(a, r)' <=> Owns(a, r)
  BY <1>1, <1>3 DEF Owns
<1>5. \A r \in Structs : Taken(r)' <=> Taken(r)
  BY <1>1 DEF Taken
<1> QED
  BY <1>2, <1>3, <1>4, <1>5

\* Who has which structure stays as it is.
LEMMA FrameOwned ==
  ASSUME ThreadsType, Owned, NEW A \in SUBSET Actors, NEW s, Frame(A, s)
  PROVE  Owned'
<1>1. handle' = handle /\ self' = self /\ pool' = pool /\ fresh' = fresh
  BY DEF Frame
<1>2. /\ \A i, j \in 1 .. Len(pool') : pool'[i] = pool'[j] => i = j
      /\ \A i \in 1 .. Len(pool') : pool'[i] \notin fresh'
  BY <1>1 DEF Owned
<1>3. \A w \in Workers : handle'[w] # None => handle'[w].x <= th'[handle'[w].p].x
  BY <1>1, FrameLives, Pointers DEF Owned
<1>4. \A r \in Structs, a \in Actors : Owns(a, r)' => Taken(r)'
  BY FrameLives DEF Owned
<1>5. \A r \in Structs, a, b \in Actors : Owns(a, r)' /\ Owns(b, r)' => a = b
  BY FrameLives DEF Owned
<1>6. \A d \in Drivers : self'[d] # None => ~th'[self'[d]].event
  <2> SUFFICES ASSUME NEW d \in Drivers, self[d] # None PROVE ~th'[self[d]].event
    BY <1>1
  <2>1. self[d] \in Structs /\ ~th[self[d]].event
    BY DEF ThreadsType, Memory, Places, Owned, Actors
  <2> QED
    BY <2>1 DEF Frame
<1> QED
  BY <1>2, <1>3, <1>4, <1>5, <1>6 DEF Owned

\* A worker that neither goes on nor has the structure that is written.
LEMMA FrameWork ==
  ASSUME ThreadsType, NEW A \in SUBSET Actors, NEW s, Frame(A, s),
         NEW w \in Workers \ A, Work(w), ~(Lives(w) /\ handle[w].p = s)
  PROVE  Work(w)'
<1>1. pc'[w] = pc[w] /\ how'[w] = how[w] /\ handle' = handle /\ self' = self /\ final' = final
      /\ aimed \subseteq aimed'
  BY DEF Frame, Actors
<1>2. Lives(w)' <=> Lives(w)
  BY FrameLives
<1>3. Known(w)'
  BY <1>1, <1>2 DEF Work, Known, Alive, Frame
<1>4. Kept(w)'
  <2>1. CASE ~Lives(w)
    BY <1>2, <2>1 DEF Kept
  <2>2. CASE Lives(w)
    <3>1. handle[w].p \in Structs \ {s}
      BY <2>2, Pointers DEF Lives
    <3>2. th'[handle[w].p] = th[handle[w].p]
      BY <3>1 DEF Frame
    <3> QED
      BY <1>1, <2>2, <3>2 DEF Kept, Work
  <2> QED
    BY <2>1, <2>2
<1>5. Aimed(w)'
  BY <1>1 DEF Aimed, Work
<1> QED
  BY <1>3, <1>4, <1>5 DEF Work

\* A call of another actor goes on relying on what it relied on.
LEMMA FrameDoing ==
  ASSUME ThreadsInv, NEW A \in SUBSET Actors, NEW s, Frame(A, s), NEW b \in Actors \ A
  PROVE  Doing(b)'
<1>0. PICK w : w = arg[b]
  OBVIOUS
<1>1. /\ pc'[b] = pc[b] /\ arg'[b] = arg[b] /\ handle' = handle /\ self' = self
      /\ aimed \subseteq aimed'
  BY DEF Frame
<1>2. ThreadsType /\ Doing(b) /\ Owned /\ Unique /\ (pc[b] \in AboutOne => w \in Workers)
  BY <1>0 DEF ThreadsInv, ThreadsType, Memory, Places
<1>3. w \in Workers => (Lives(w) /\ pc[b] \in Joining \cup {"detachLock", "detachWait"} /\
                        ~th[handle[w].p].detached => ~th'[handle[w].p].detached)
  <2> SUFFICES ASSUME w \in Workers, Lives(w), pc[b] \in Joining \cup {"detachLock", "detachWait"},
                      ~th[handle[w].p].detached, handle[w].p = s,
                      NEW a \in A, pc[a] = "detachLock", handle[arg[a]].p = s
               PROVE  FALSE
    BY <1>2, Pointers DEF Frame, Lives
  <2>1. arg[a] \in Workers /\ Lives(arg[a])
    BY DEF ThreadsInv, ThreadsType, Memory, Places, Doing, AboutOne, JoinCalls
  <2>2. arg[a] = w
    BY <1>2, <2>1, Pointers DEF Owned, Owns, Lives, Actors
  <2>3. a = b
    BY <1>0, <1>2, <2>2 DEF Unique, JoinCalls, Joining
  <2> QED
    BY <2>3
<1>4. w \in Workers => /\ Lives(w)' <=> Lives(w)
                       /\ pc[w] = "off" <=> pc'[w] = "off"
                       /\ pc[w] = "gone" <=> pc'[w] = "gone"
  <2>1. w \in Workers => (Lives(w)' <=> Lives(w))
    BY <1>2, FrameLives
  <2> QED
    BY <2>1 DEF Frame, Actors
<1>5. pc[b] = "create" => Lives(w)' /\ pc'[w] = "off"
  BY <1>0, <1>2, <1>4 DEF Doing, AboutOne
<1>6. pc[b] \in AboutOne \ {"create"} => pc'[w] # "off"
  BY <1>0, <1>2, <1>4 DEF Doing
<1>7. pc[b] \in Joining \cup {"detachLock", "detachWait"} => Lives(w)' /\ ~th'[handle[w].p].detached
  BY <1>0, <1>2, <1>3, <1>4 DEF Doing, Joining, AboutOne, JoinCalls
<1>8. pc[b] = "joined" => pc'[w] = "gone"
  BY <1>0, <1>2, <1>4 DEF Doing, AboutOne, JoinCalls
<1>9. pc[b] = "detachLock" => reuse' = b
  BY <1>2, ThreadsAssumption DEF Doing, Frame, Actors
<1>10. pc[b] \in CancelCalls => Lives(w)' /\ w \in aimed'
  BY <1>0, <1>1, <1>2, <1>4 DEF Doing, AboutOne
<1>11. ASSUME pc[b] \in {"cancelSet", "cancelAsync"}
       PROVE  Holds(b, handle[w].p)' /\ pc'[w] \notin {"last", "gone"}
  <2>1. w \in Workers /\ Lives(w) /\ Holds(b, handle[w].p) /\ pc[w] \notin {"last", "gone", "off"}
    BY <1>0, <1>2, <1>11 DEF Doing, AboutOne, CancelCalls
  <2>2. PICK r \in Structs : r = handle[w].p
    BY <1>2, <2>1, Pointers DEF Lives
  <2>3. Holds(b, r)'
    BY <2>1, <2>2 DEF Frame
  <2>4. w \in A => self[w] = r
    BY <2>1, <2>2 DEF ThreadsInv, Work, Known
  <2>5. w \in A => pc'[w] # "last"
    BY <2>1, <2>2, <2>4 DEF Frame, Holds
  <2> QED
    BY <1>1, <1>4, <2>1, <2>2, <2>3, <2>5 DEF Frame, Actors
<1>12. b \in Drivers /\ pc[b] \in {"joinTest", "join"} => self'[b] # None
  BY <1>1, <1>2 DEF Doing
<1> QED
  BY <1>0, <1>1, <1>5, <1>6, <1>7, <1>8, <1>9, <1>10, <1>11, <1>12 DEF Doing

\* No two actors come to a call about the same worker.
LEMMA FrameUnique ==
  ASSUME ThreadsInv, NEW A \in SUBSET Actors, NEW s, Frame(A, s),
         \A a \in A : pc'[a] \in JoinCalls => pc[a] \in JoinCalls /\ arg'[a] = arg[a]
  PROVE  Unique'
<1>1. \A a \in Actors : pc'[a] \in JoinCalls => pc[a] \in JoinCalls /\ arg'[a] = arg[a]
  BY DEF Frame
<1>2. \A a \in Actors : pc'[a] = "create" => pc[a] = "create" /\ arg'[a] = arg[a]
  BY DEF Frame
<1> QED
  BY <1>1, <1>2 DEF Unique, ThreadsInv

\* A call of join or detach begins.
LEMMA FrameUniqueEnters ==
  ASSUME ThreadsInv, NEW a \in Actors, NEW s, Frame({a}, s), MayJoin(arg'[a])
  PROVE  Unique'
<1>1. \A b \in Actors \ {a} : pc'[b] = pc[b] /\ arg'[b] = arg[b]
  BY DEF Frame
<1>2. \A b \in Actors \ {a} : pc[b] \in JoinCalls => arg[b] # arg'[a]
  BY DEF MayJoin, About
<1>3. pc'[a] # "create"
  BY DEF Frame
<1> QED
  BY <1>1, <1>2, <1>3 DEF Unique, ThreadsInv

\* Who was joined is still being detached.
Detaches == {"detachTest", "detachLock", "detachWait"}
LEMMA FrameJoined ==
  ASSUME ThreadsInv, NEW A \in SUBSET Actors, NEW s, Frame(A, s), got' = got,
         \A a \in A : pc[a] \in Detaches =>
           \/ pc'[a] \in Detaches /\ arg'[a] = arg[a]
           \/ pc[arg[a]] # "gone" \/ ~Lives(arg[a])
  PROVE  Joined'
<1> SUFFICES ASSUME NEW g \in got
             PROVE  /\ pc'[g[1]] = "gone" /\ g[2] = final'[g[1]]
                    /\ Lives(g[1])' =>
                         \E a \in Actors : arg'[a] = g[1] /\ pc'[a] \in Detaches
  BY DEF Joined, Detaches
<1>1. PICK w : w = g[1]
  OBVIOUS
<1>2. /\ pc[w] = "gone" /\ g[2] = final[w] /\ w \in Workers
      /\ Lives(w) => \E a \in Actors : arg[a] = w /\ pc[a] \in Detaches
  BY <1>1 DEF ThreadsInv, ThreadsType, Memory, Places, Joined, Detaches
<1>3. w \notin A /\ w \in Actors
  BY <1>2 DEF Frame, Actors
<1>4. pc'[w] = "gone" /\ g[2] = final'[w]
  BY <1>2, <1>3 DEF Frame
<1>5. Lives(w)' <=> Lives(w)
  BY <1>2, FrameLives DEF ThreadsInv
<1>6. ASSUME Lives(w) PROVE \E a \in Actors : arg'[a] = w /\ pc'[a] \in Detaches
  <2>1. PICK a \in Actors : arg[a] = w /\ pc[a] \in Detaches
    BY <1>2, <1>6
  <2>2. CASE a \in A
    BY <1>2, <1>6, <2>1, <2>2
  <2>3. CASE a \notin A
    BY <2>1, <2>3 DEF Frame
  <2> QED
    BY <2>2, <2>3
<1> QED
  BY <1>1, <1>4, <1>5, <1>6

\* The queues of the locks: nobody comes or goes; somebody comes who waited for
\* none; who had one leaves.
LEMMA FrameWants ==
  ASSUME ThreadsType, NEW A \in SUBSET Actors, NEW s, Frame(A, s), NEW b \in Actors \ A,
         NEW r \in Structs
  PROVE  Wants(b, r)' <=> Wants(b, r)
<1>1. pc'[b] = pc[b] /\ arg'[b] = arg[b] /\ handle' = handle /\ self' = self
  BY DEF Frame
<1> QED
  BY <1>1 DEF Wants

LEMMA FrameQueued ==
  ASSUME ThreadsInv, NEW A \in SUBSET Actors, NEW s, Frame(A, s), lockq' = lockq,
         \A a \in A, r \in Structs : Wants(a, r) => Wants(a, r)'
  PROVE  Queued'
<1>1. \A a \in Actors, r \in Structs : Wants(a, r) => Wants(a, r)'
  BY FrameWants DEF ThreadsInv
<1>2. \A r \in Structs : \A i \in 1 .. Len(lockq[r]) : lockq[r][i] \in Actors
  BY ElementOfSeq DEF ThreadsInv, ThreadsType, Memory, Places
<1> QED
  BY <1>1, <1>2 DEF ThreadsInv, Queued

LEMMA FrameQueuedEnters ==
  ASSUME ThreadsInv, NEW a \in Actors, NEW s, Frame({a}, s), NEW q \in Structs,
         lockq' = [lockq EXCEPT ![q] = Append(@, a)],
         Wants(a, q)', \A r \in Structs : ~Wants(a, r)
  PROVE  Queued'
<1>1. \A b \in Actors, r \in Structs : Wants(b, r) => Wants(b, r)'
  BY FrameWants DEF ThreadsInv
<1>2. \A r \in Structs, b \in Actors : \A i \in 1 .. Len(lockq[r]) :
        lockq[r][i] = b => b # a /\ Wants(b, r)
  BY DEF ThreadsInv, Queued
<1>3. /\ \A r \in Structs \ {q} : lockq'[r] = lockq[r]
      /\ Len(lockq[q]) \in Nat /\ Len(lockq'[q]) = Len(lockq[q]) + 1
      /\ lockq'[q][Len(lockq[q]) + 1] = a
      /\ \A i \in 1 .. Len(lockq[q]) : lockq'[q][i] = lockq[q][i]
  BY QueueEntered DEF ThreadsInv
<1>4. \A i \in 1 .. Len(lockq'[q]) : i \in 1 .. Len(lockq[q]) \/ i = Len(lockq[q]) + 1
  BY <1>3
<1> SUFFICES ASSUME NEW r \in Structs
             PROVE  /\ \A i, j \in 1 .. Len(lockq'[r]) : lockq'[r][i] = lockq'[r][j] => i = j
                    /\ \A b \in Actors, i \in 1 .. Len(lockq'[r]) : lockq'[r][i] = b => Wants(b, r)'
  BY DEF Queued
<1>5. CASE r # q
  BY <1>1, <1>2, <1>3, <1>5, SMTT(30) DEF ThreadsInv, Queued
<1>6. CASE r = q
  <2>1. \A i, j \in 1 .. Len(lockq'[r]) : lockq'[r][i] = lockq'[r][j] => i = j
    BY <1>2, <1>3, <1>4, <1>6 DEF ThreadsInv, Queued
  <2>2. \A b \in Actors, i \in 1 .. Len(lockq'[r]) : lockq'[r][i] = b => Wants(b, r)'
    BY <1>1, <1>2, <1>3, <1>4, <1>6
  <2> QED
    BY <2>1, <2>2
<1> QED
  BY <1>5, <1>6

LEMMA FrameQueuedLeaves ==
  ASSUME ThreadsInv, NEW A \in SUBSET Actors, NEW s, Frame(A, s), NEW q \in Structs, NEW a \in A,
         Holds(a, q), Release(q),
         \A b \in A, r \in Structs : Wants(b, r) => b = a /\ r = q
  PROVE  Queued'
<1>1. \A b \in Actors \ A, r \in Structs : Wants(b, r) => Wants(b, r)'
  BY FrameWants DEF ThreadsInv
<1>2. \A r \in Structs, b \in Actors : \A i \in 1 .. Len(lockq[r]) :
        lockq[r][i] = b => Wants(b, r)
  BY DEF ThreadsInv, Queued
<1>3. /\ \A r \in Structs \ {q} : lockq'[r] = lockq[r]
      /\ Len(lockq[q]) \in Nat /\ Len(lockq'[q]) = Len(lockq[q]) - 1
      /\ lockq[q][1] = a
      /\ \A i \in 1 .. Len(lockq'[q]) : lockq'[q][i] = lockq[q][i + 1]
  BY QueueLeft DEF ThreadsInv
<1>4. \A i \in 1 .. Len(lockq'[q]) : i + 1 \in 1 .. Len(lockq[q]) /\ i + 1 # 1
  BY <1>3
<1>5. \A i \in 1 .. Len(lockq'[q]) : lockq[q][i + 1] # a
  BY <1>3, <1>4 DEF ThreadsInv, Queued
<1> SUFFICES ASSUME NEW r \in Structs
             PROVE  /\ \A i, j \in 1 .. Len(lockq'[r]) : lockq'[r][i] = lockq'[r][j] => i = j
                    /\ \A b \in Actors, i \in 1 .. Len(lockq'[r]) : lockq'[r][i] = b => Wants(b, r)'
  BY DEF Queued
<1>6. CASE r # q
  <2>1. \A b \in Actors : \A i \in 1 .. Len(lockq[r]) : lockq[r][i] = b => b \notin A
    BY <1>2, <1>6
  <2>2. lockq'[r] = lockq[r]
    BY <1>3, <1>6
  <2>3. \A i, j \in 1 .. Len(lockq'[r]) : lockq'[r][i] = lockq'[r][j] => i = j
    BY <2>2 DEF ThreadsInv, Queued
  <2>4. \A b \in Actors, i \in 1 .. Len(lockq'[r]) : lockq'[r][i] = b => Wants(b, r)'
    BY <1>1, <1>2, <2>1, <2>2
  <2> QED
    BY <2>3, <2>4
<1>7. CASE r = q
  <2>1. \A b \in Actors, i \in 1 .. Len(lockq'[r]) : lockq'[r][i] = b => b \notin A /\ Wants(b, r)
    BY <1>2, <1>3, <1>4, <1>5, <1>7
  <2>2. \A i, j \in 1 .. Len(lockq'[r]) : lockq'[r][i] = lockq'[r][j] => i = j
    <3> SUFFICES ASSUME NEW i \in 1 .. Len(lockq'[r]), NEW j \in 1 .. Len(lockq'[r]),
                        lockq'[r][i] = lockq'[r][j]
                 PROVE  i = j
      OBVIOUS
    <3>1. i + 1 \in 1 .. Len(lockq[q]) /\ j + 1 \in 1 .. Len(lockq[q])
          /\ lockq[q][i + 1] = lockq[q][j + 1]
      BY <1>3, <1>4, <1>7
    <3>2. i + 1 = j + 1
      BY <3>1 DEF ThreadsInv, Queued
    <3> QED
      BY <3>2
  <2> QED
    BY <1>1, <2>1, <2>2
<1> QED
  BY <1>6, <1>7

-----------------------------------------------------------------------------
(* The steps of a worker that are not about another one *)

\* A step that goes on at l.
LEMMA Going ==
  ASSUME Places, NEW a \in Actors, NEW l, Goto(a, l),
         a \in Drivers => l \in DriverPlaces, a \in Workers => l \in WorkerPlaces,
         l \in AboutOne => pc[a] \in AboutOne
  PROVE  /\ pc'[a] = l /\ \A b \in Actors \ {a} : pc'[b] = pc[b] /\ arg'[b] = arg[b]
         /\ l \notin {"user", "throw"} => arg' = arg
         /\ Places'
<1>1. pc'[a] = l /\ \A b \in Actors \ {a} : pc'[b] = pc[b]
  BY DEF Places, Goto
<1>2. l \in DriverPlaces \cup WorkerPlaces
  BY DEF Actors
<1>3. /\ pc' \in [Actors -> DriverPlaces \cup WorkerPlaces]
      /\ \A d \in Drivers : pc'[d] \in DriverPlaces
      /\ \A w \in Workers : pc'[w] \in WorkerPlaces
  BY <1>2 DEF Places, Goto, Actors
<1>4. /\ arg' \in [Actors -> Workers \cup {None}] /\ \A b \in Actors \ {a} : arg'[b] = arg[b]
      /\ l \notin {"user", "throw"} => arg' = arg
  BY DEF Places, Goto
<1>5. "user" \notin AboutOne /\ "throw" \notin AboutOne
  BY DEF AboutOne, JoinCalls, CancelCalls
<1>6. ASSUME NEW b \in Actors, pc'[b] \in AboutOne PROVE arg'[b] \in Workers
  <2>1. pc[b] \in AboutOne => arg[b] \in Workers
    BY DEF Places
  <2>2. CASE b = a
    <3>1. l \in AboutOne /\ pc[b] \in AboutOne
      BY <1>1, <1>6, <2>2
    <3> QED
      BY <1>4, <1>5, <2>1, <3>1
  <2>3. CASE b # a
    BY <1>1, <1>4, <1>6, <2>1, <2>3
  <2> QED
    BY <2>2, <2>3
<1> QED
  BY <1>1, <1>3, <1>4, <1>6 DEF Places

LEMMA AliveHas ==
  ASSUME ThreadsInv, NEW w \in Workers, Alive(w)
  PROVE  /\ w \in Actors /\ self[w] \in Structs /\ self[w] = handle[w].p
         /\ handle[w] # None /\ Lives(w) /\ Work(w)
<1>1. Work(w) /\ Known(w)
  BY DEF ThreadsInv, Work
<1>2. handle[w] # None /\ self[w] = handle[w].p /\ Lives(w)
  BY <1>1 DEF Known, Alive
<1> QED
  BY <1>1, <1>2, Pointers DEF ThreadsInv, Actors

Own ==
  {"user", "start", "returned", "ending", "throw", "cleanup", "wait", "waitEnter"} \cup OwnLocking

\* A worker goes on at l, in itself: it writes its own structure, and comes to
\* the queue of its own lock, leaves it or does neither.
OwnStep(w, l) ==
  /\ pc[w] \in Own \cup {"join", "cancelLock"} /\ l \in Own \cup {"last"}
  /\ Goto(w, l)
  /\ how' \in [Actors -> Hows] /\ \A b \in Actors \ {w} : how'[b] = how[b]
  /\ armed' \in [Actors -> BOOLEAN]
  /\ th' \in [Structs -> Thread] /\ \A r \in Structs \ {self[w]} : th'[r] = th[r]
  /\ th'[self[w]].x = th[self[w]].x /\ th'[self[w]].detached = th[self[w]].detached
  /\ th'[self[w]].threadH = th[self[w]].threadH
  /\ pool' = pool /\ fresh' = fresh /\ self' = self /\ handle' = handle /\ known' = known
  /\ aimed' = aimed /\ done' \subseteq Workers /\ got' = got /\ final' = final /\ reuse' = reuse
  /\ \/ lockq' = lockq /\ pc[w] \in (Own \cup {"join"}) \ OwnLocking /\ l \notin OwnLocking \cup {"last"}
     \/ /\ lockq' = [lockq EXCEPT ![self[w]] = Append(@, w)]
        /\ pc[w] \in Own \ OwnLocking /\ l \in OwnLocking
     \/ /\ Holds(w, self[w]) /\ Release(self[w])
        /\ pc[w] \in OwnLocking \/ (pc[w] = "cancelLock" /\ handle[arg[w]].p = self[w])
        /\ l \notin OwnLocking
  /\ l = "last" => th'[self[w]].state = Last
  /\ th'[self[w]].state = CancelPending \/ th'[self[w]].event => w \in aimed
  /\ th'[self[w]].state = CancelPending => th'[self[w]].event \/ l \in {"waitEnter", "waitLock"}
  /\ how'[w] = "cancel" \/ l \in {"waitEnter", "waitLock", "testLock", "testLockInCleanup"}
       => w \in aimed

LEMMA OwnStepTypes ==
  ASSUME ThreadsInv, NEW w \in Workers, NEW l, OwnStep(w, l)
  PROVE  /\ ThreadsType' /\ pc'[w] = l /\ Alive(w)
         /\ \A b \in Actors \ {w} : pc'[b] = pc[b] /\ arg'[b] = arg[b]
<1>1. w \in Actors /\ w \notin Drivers /\ Places /\ Memory
  BY ThreadsAssumption DEF ThreadsInv, ThreadsType, Actors
<1>2. l \in WorkerPlaces /\ (l \in AboutOne => pc[w] \in AboutOne)
  BY DEF OwnStep, Own, WorkerPlaces, OwnLocking, AboutOne, JoinCalls, CancelCalls
<1>3. Goto(w, l)
  BY DEF OwnStep
<1>4. /\ Places' /\ pc'[w] = l /\ \A b \in Actors \ {w} : pc'[b] = pc[b] /\ arg'[b] = arg[b]
  BY <1>1, <1>2, <1>3, Going
<1>5. Alive(w)
  BY DEF OwnStep, Own, OwnLocking, Alive
<1>6. self[w] \in Structs
  BY <1>5, AliveHas
<1>7. lockq' \in [Structs -> Seq(Actors)]
  BY <1>1, <1>6, QueueEntered, QueueLeft DEF OwnStep, ThreadsInv, Memory
<1>8. Memory'
  BY <1>1, <1>7 DEF OwnStep, Memory
<1> QED
  BY <1>4, <1>5, <1>8 DEF ThreadsType

LEMMA OwnStepFrame ==
  ASSUME ThreadsInv, NEW w \in Workers, NEW l, OwnStep(w, l)
  PROVE  Frame({w}, self[w])
<1>1. /\ pc'[w] = l /\ Alive(w)
      /\ \A b \in Actors \ {w} : pc'[b] = pc[b] /\ arg'[b] = arg[b] /\ how'[b] = how[b]
  BY OwnStepTypes DEF OwnStep
<1>2. w \in Actors /\ self[w] \in Structs /\ self[w] = handle[w].p /\ Lives(w)
  BY <1>1, AliveHas
<1>3. /\ pc[w] \notin {"off", "gone", "create"} /\ l \notin {"off", "gone", "create"}
      /\ l = "last" => Holds(w, self[w])
  BY DEF OwnStep, Own, OwnLocking
<1>4. \A d \in Drivers : self[d] # self[w]
  BY <1>2, ThreadsAssumption DEF ThreadsInv, Owned, Owns, Actors
<1>5. \A b \in Actors \ {w}, r \in Structs : Holds(b, r) => Holds(b, r)'
  <2>1. ThreadsType
    BY DEF ThreadsInv
  <2>2. CASE lockq' = lockq
    BY <2>2 DEF Holds
  <2>3. CASE lockq' = [lockq EXCEPT ![self[w]] = Append(@, w)]
    BY <1>2, <2>1, <2>3, QueueEntered
  <2>4. CASE Holds(w, self[w]) /\ Release(self[w])
    BY <1>2, <2>1, <2>4, QueueLeft
  <2> QED
    BY <2>2, <2>3, <2>4 DEF OwnStep
<1>6. /\ pool' = pool /\ fresh' = fresh /\ handle' = handle /\ self' = self /\ final' = final
      /\ \A r \in Structs \ {self[w]} : th'[r] = th[r]
      /\ th'[self[w]].x = th[self[w]].x /\ th'[self[w]].detached = th[self[w]].detached
      /\ aimed' = aimed /\ known' = known /\ reuse' = reuse
  BY DEF OwnStep
<1> QED
  BY <1>1, <1>3, <1>4, <1>5, <1>6 DEF Frame

LEMMA OwnStepQueued ==
  ASSUME ThreadsInv, NEW w \in Workers, NEW l, OwnStep(w, l)
  PROVE  Queued'
<1>1. /\ pc'[w] = l /\ w \in Actors /\ self[w] \in Structs /\ self' = self /\ handle' = handle
      /\ Frame({w}, self[w])
  BY OwnStepTypes, OwnStepFrame, AliveHas DEF OwnStep
<1>2. CASE lockq' = lockq /\ pc[w] \in (Own \cup {"join"}) \ OwnLocking /\ l \notin OwnLocking \cup {"last"}
  <2>1. \A r \in Structs : ~Wants(w, r)
    BY <1>2 DEF Wants, Own, Locking
  <2> QED
    BY <1>1, <1>2, <2>1, FrameQueued
<1>3. CASE /\ lockq' = [lockq EXCEPT ![self[w]] = Append(@, w)]
           /\ pc[w] \in Own \ OwnLocking /\ l \in OwnLocking
  <2>1. \A r \in Structs : ~Wants(w, r)
    BY <1>3 DEF Wants, Own, Locking
  <2>2. PICK s \in Structs : s = self[w]
    BY <1>1
  <2>3. Wants(w, s)'
    BY <1>1, <1>3, <2>2 DEF Wants
  <2> QED
    BY <1>1, <1>3, <2>1, <2>2, <2>3, FrameQueuedEnters
<1>4. CASE /\ Holds(w, self[w]) /\ Release(self[w])
           /\ pc[w] \in OwnLocking \/ (pc[w] = "cancelLock" /\ handle[arg[w]].p = self[w])
  <2>1. \A r \in Structs : Wants(w, r) => r = self[w]
    BY <1>4 DEF Wants, OwnLocking, Locking
  <2>2. PICK s \in Structs : s = self[w]
    BY <1>1
  <2> QED
    BY <1>1, <1>4, <2>1, <2>2, FrameQueuedLeaves
<1> QED
  BY <1>2, <1>3, <1>4 DEF OwnStep

LEMMA OwnStepWork ==
  ASSUME ThreadsInv, NEW w \in Workers, NEW l, OwnStep(w, l)
  PROVE  Work(w)' /\ Doing(w)'
<1>1. /\ pc'[w] = l /\ Alive(w) /\ ThreadsType /\ Frame({w}, self[w])
  BY OwnStepTypes, OwnStepFrame DEF ThreadsInv
<1>2. w \in Actors /\ self[w] \in Structs /\ self[w] = handle[w].p /\ Lives(w) /\ Work(w)
  BY <1>1, AliveHas
<1>3. Lives(w)'
  BY <1>1, <1>2, FrameLives
<1>4. /\ self' = self /\ handle' = handle /\ known' = known /\ aimed' = aimed
      /\ l \notin AboutOne \cup {"off", "gone"}
  BY DEF OwnStep, Own, OwnLocking, AboutOne, JoinCalls, CancelCalls
<1>5. Known(w)'
  BY <1>1, <1>2, <1>3, <1>4 DEF Work, Known, Alive
<1>6. Kept(w)'
  BY <1>1, <1>2, <1>3, <1>4 DEF OwnStep, Work, Kept, Alive
<1>7. Aimed(w)'
  BY <1>1, <1>4 DEF OwnStep, Aimed
<1>8. Doing(w)'
  BY <1>1, <1>2, <1>4, ThreadsAssumption DEF Doing, AboutOne, Joining, JoinCalls, CancelCalls
<1> QED
  BY <1>5, <1>6, <1>7, <1>8 DEF Work

LEMMA OwnStepKeeps ==
  ASSUME ThreadsInv, NEW w \in Workers, NEW l, OwnStep(w, l)
  PROVE  ThreadsInv'
<1>1. /\ pc'[w] = l /\ Alive(w) /\ ThreadsType /\ ThreadsType' /\ Frame({w}, self[w])
  BY OwnStepTypes, OwnStepFrame DEF ThreadsInv
<1>2. w \in Actors /\ self[w] \in Structs /\ self[w] = handle[w].p /\ Lives(w) /\ Work(w)
  BY <1>1, AliveHas
<1>3. l \notin JoinCalls /\ pc[w] \notin Detaches /\ got' = got
  BY DEF OwnStep, Own, OwnLocking, JoinCalls, Detaches
<1>4. Owned'
  BY <1>1, <1>2, FrameOwned DEF ThreadsInv
<1>5. Unique'
  BY <1>1, <1>2, <1>3, FrameUnique
<1>6. Joined'
  BY <1>1, <1>2, <1>3, FrameJoined
<1>7. \A v \in Workers : Work(v)'
  <2> SUFFICES ASSUME NEW v \in Workers, v # w PROVE Work(v)'
    BY OwnStepWork
  <2>1. Work(v) /\ (Lives(v) => Owns(v, handle[v].p)) /\ Owns(w, self[w]) /\ v \in Actors
    BY <1>2 DEF ThreadsInv, Owns, Actors
  <2>2. ~(Lives(v) /\ handle[v].p = self[w])
    BY <1>2, <2>1 DEF ThreadsInv, Owned
  <2> QED
    BY <1>1, <1>2, <2>1, <2>2, FrameWork
<1>8. \A b \in Actors : Doing(b)'
  <2> SUFFICES ASSUME NEW b \in Actors, b # w PROVE Doing(b)'
    BY OwnStepWork
  <2> QED
    BY <1>1, <1>2, FrameDoing
<1> QED
  BY <1>1, <1>4, <1>5, <1>6, <1>7, <1>8, OwnStepQueued DEF ThreadsInv

\* What is known of a thread that has not ended, and of its structure.
LEMMA OwnFacts ==
  ASSUME ThreadsInv, NEW w \in Workers, Alive(w)
  PROVE  /\ w \in Actors /\ self[w] \in Structs /\ ThreadsType
         /\ th \in [Structs -> Thread] /\ how \in [Actors -> Hows] /\ armed \in [Actors -> BOOLEAN]
         /\ done \subseteq Workers
         /\ th[self[w]].state = CancelPending \/ th[self[w]].event => w \in aimed
         /\ th[self[w]].state = CancelPending =>
              th[self[w]].event \/ pc[w] \in {"waitEnter", "waitLock"}
         /\ how[w] = "cancel" => w \in aimed
         /\ pc[w] \in {"waitEnter", "waitLock", "testLock", "testLockInCleanup"} => w \in aimed
<1>1. self[w] = handle[w].p /\ Lives(w) /\ Work(w) /\ w \in Actors /\ self[w] \in Structs
  BY AliveHas
<1>2. ThreadsType /\ th \in [Structs -> Thread] /\ how \in [Actors -> Hows]
      /\ armed \in [Actors -> BOOLEAN] /\ done \subseteq Workers
  BY DEF ThreadsInv, ThreadsType, Memory
<1>3. Kept(w) /\ Aimed(w)
  BY <1>1 DEF Work
<1> QED
  BY <1>1, <1>2, <1>3 DEF Kept, Aimed

\* A thread leaves its own lock.
LEMMA ReleaseKeeps ==
  ASSUME ThreadsInv, NEW w \in Workers, NEW l \in {"user", "throw", "cleanup", "last"},
         pc[w] \in OwnLocking, Holds(w, self[w]), Release(self[w]), Goto(w, l),
         how' \in [Actors -> Hows], \A b \in Actors \ {w} : how'[b] = how[b],
         th' \in [Structs -> Thread], \A r \in Structs \ {self[w]} : th'[r] = th[r],
         th'[self[w]].x = th[self[w]].x, th'[self[w]].detached = th[self[w]].detached,
         th'[self[w]].threadH = th[self[w]].threadH,
         th'[self[w]].event => th[self[w]].event,
         UNCHANGED <<reuse, pool, fresh, self, handle, known, armed, aimed, done, got, final>>,
         l = "last" => th'[self[w]].state = Last,
         \/ th'[self[w]].state # CancelPending
         \/ /\ th'[self[w]].state = th[self[w]].state /\ th'[self[w]].event = th[self[w]].event
            /\ pc[w] # "waitLock",
         how'[w] = "cancel" => w \in aimed
  PROVE  ThreadsInv'
<1>1. Alive(w)
  BY DEF OwnLocking, Alive
<1>2. l \in Own \cup {"last"} /\ l \notin OwnLocking /\ l \notin {"waitEnter", "waitLock"}
      /\ l \notin {"testLock", "testLockInCleanup"} /\ pc[w] \in Own /\ pc[w] # "waitEnter"
  BY DEF Own, OwnLocking
<1>3. /\ th'[self[w]].state = CancelPending \/ th'[self[w]].event => w \in aimed
      /\ th'[self[w]].state = CancelPending => th'[self[w]].event
      /\ armed' \in [Actors -> BOOLEAN] /\ done' \subseteq Workers
  BY <1>1, <1>2, OwnFacts
<1>4. pc[w] \in OwnLocking \/ (pc[w] = "cancelLock" /\ handle[arg[w]].p = self[w])
  OBVIOUS
<1>5. OwnStep(w, l)
  BY <1>2, <1>3, <1>4 DEF OwnStep
<1> QED
  BY <1>5, OwnStepKeeps

LEMMA StartKeeps == ASSUME ThreadsInv, NEW w \in Workers, Start(w) PROVE ThreadsInv'
<1>1. Alive(w)
  BY DEF Start, Alive
<1>2. CASE pc[w] = "start"
  <2>1. OwnStep(w, "startLock")
    BY <1>1, <1>2, OwnFacts
    DEF Start, OwnStep, Own, OwnLocking, Enqueue, names, counters, history, CancelPending
  <2> QED
    BY <2>1, OwnStepKeeps
<1>3. CASE pc[w] = "startLock"
  <2>1. PICK v \in 0 .. 7 : v = Running /\ v # CancelPending
    BY DEF Running, CancelPending
  <2>2. Sets(self[w], "state", v)
    BY <1>3, <2>1 DEF Start
  <2>3. pc[w] \in OwnLocking /\ Holds(w, self[w]) /\ Release(self[w]) /\ Goto(w, "user")
    BY <1>3 DEF Start, OwnLocking
  <2> QED
    BY <1>1, <1>3, <2>1, <2>2, <2>3, OwnFacts, StateSet, ReleaseKeeps DEF Start, names, history
<1> QED
  BY <1>2, <1>3 DEF Start

LEMMA ReturnKeeps == ASSUME ThreadsInv, NEW w \in Workers, Return(w) PROVE ThreadsInv'
<1>1. Alive(w)
  BY DEF Return, Alive
<1>2. CASE pc[w] = "user"
  <2>1. w \in Statuses /\ Sets(self[w], "status", w)
    BY <1>2 DEF Return, Statuses
  <2>2. OwnStep(w, "returned")
    BY <1>1, <1>2, <2>1, OwnFacts, StatusSet
    DEF Return, OwnStep, Own, OwnLocking, names, counters, history
  <2> QED
    BY <2>2, OwnStepKeeps
<1>3. CASE pc[w] = "returned"
  <2>1. PICK v \in 0 .. 7 : v = Exiting /\ v # CancelPending
    BY DEF Exiting, CancelPending
  <2>2. Sets(self[w], "state", v)
    BY <1>3, <2>1 DEF Return
  <2>3. OwnStep(w, "ending")
    BY <1>1, <1>3, <2>1, <2>2, OwnFacts, StateSet
    DEF Return, OwnStep, Own, OwnLocking, names, counters, history
  <2> QED
    BY <2>3, OwnStepKeeps
<1> QED
  BY <1>2, <1>3 DEF Return

LEMMA ExitKeeps == ASSUME ThreadsInv, NEW w \in Workers, Exit(w) PROVE ThreadsInv'
<1>1. Alive(w)
  BY DEF Exit, Alive
<1>2. w \in Statuses /\ Sets(self[w], "status", w) /\ "exit" \in Hows
  BY DEF Exit, Statuses, Hows
<1>3. OwnStep(w, "throw")
  BY <1>1, <1>2, OwnFacts, StatusSet
  DEF Exit, OwnStep, Own, OwnLocking, names, counters, history
<1> QED
  BY <1>3, OwnStepKeeps

LEMMA ThrowKeeps == ASSUME ThreadsInv, NEW w \in Workers, Throw(w) PROVE ThreadsInv'
<1>1. Alive(w)
  BY DEF Throw, Alive
<1>2. PICK v \in 0 .. 7 : v = Exiting /\ v # CancelPending
  BY DEF Exiting, CancelPending
<1>3. Sets(self[w], "state", v)
  BY <1>2 DEF Throw
<1>4. OwnStep(w, "cleanup")
  BY <1>1, <1>2, <1>3, OwnFacts, StateSet
  DEF Throw, OwnStep, Own, OwnLocking, names, counters, history
<1> QED
  BY <1>4, OwnStepKeeps

LEMMA CaughtKeeps == ASSUME ThreadsInv, NEW w \in Workers, Caught(w) PROVE ThreadsInv'
<1>1. Alive(w)
  BY DEF Caught, Alive
<1>2. th[self[w]].status \in Statuses
  BY <1>1, OwnFacts DEF Thread
<1>3. PICK v \in Statuses : Sets(self[w], "status", v)
  BY <1>2 DEF Caught, Statuses
<1>4. OwnStep(w, "ending")
  BY <1>1, <1>3, OwnFacts, StatusSet
  DEF Caught, OwnStep, Own, OwnLocking, names, counters, history
<1> QED
  BY <1>4, OwnStepKeeps

LEMMA EndingKeeps == ASSUME ThreadsInv, NEW w \in Workers, Ending(w) PROVE ThreadsInv'
<1>1. Alive(w)
  BY DEF Ending, Alive
<1>2. CASE pc[w] = "ending"
  <2>1. OwnStep(w, "lastLock")
    BY <1>1, <1>2, OwnFacts
    DEF Ending, OwnStep, Own, OwnLocking, Enqueue, names, counters, history
  <2> QED
    BY <2>1, OwnStepKeeps
<1>3. CASE pc[w] = "lastLock"
  <2>1. PICK v \in 0 .. 7 : v = Last /\ v # CancelPending
    BY DEF Last, CancelPending
  <2>2. Sets(self[w], "state", v)
    BY <1>3, <2>1 DEF Ending
  <2>3. pc[w] \in OwnLocking /\ Holds(w, self[w]) /\ Release(self[w]) /\ Goto(w, "last")
    BY <1>3 DEF Ending, OwnLocking
  <2> QED
    BY <1>1, <1>3, <2>1, <2>2, <2>3, OwnFacts, StateSet, ReleaseKeeps DEF Ending, names, history
<1> QED
  BY <1>2, <1>3 DEF Ending

\* A driver is not cancelled: nothing sets its event.
LEMMA WaitCancelledKeeps == ASSUME ThreadsInv, NEW w \in Actors, WaitCancelled(w) PROVE ThreadsInv'
<1>1. w \in Workers
  <2>1. SUFFICES ASSUME w \in Drivers PROVE FALSE
    BY DEF Actors
  <2>2. pc[w] \in DriverPlaces /\ Doing(w) /\ Owned
    BY <2>1 DEF ThreadsInv, ThreadsType, Places
  <2>3. pc[w] = "join" /\ th[self[w]].event
    BY <2>2 DEF WaitCancelled, Wakes, DriverPlaces, JoinCalls, CancelCalls
  <2> QED
    BY <2>1, <2>2, <2>3 DEF Doing, Owned
<1>2. Alive(w)
  BY DEF WaitCancelled, Alive
<1>3. CASE pc[w] \in {"wait", "join"}
  <2>1. Sets(self[w], "event", FALSE) /\ th[self[w]].event
    BY <1>3 DEF WaitCancelled, Wakes
  <2>2. OwnStep(w, "waitEnter")
    BY <1>1, <1>2, <1>3, <2>1, OwnFacts, EventReset
    DEF WaitCancelled, OwnStep, Own, OwnLocking, Disarm, names, counters, history
  <2> QED
    BY <1>1, <2>2, OwnStepKeeps
<1>4. CASE pc[w] = "waitEnter"
  <2>1. OwnStep(w, "waitLock")
    BY <1>1, <1>2, <1>4, OwnFacts
    DEF WaitCancelled, OwnStep, Own, OwnLocking, Enqueue, names, counters, history
  <2> QED
    BY <1>1, <2>1, OwnStepKeeps
<1> QED
  BY <1>3, <1>4 DEF WaitCancelled

\* The thread acts on its cancellation, with its own lock, which it releases.
LEMMA ActsKeeps ==
  ASSUME ThreadsInv, NEW w \in Workers, NEW resets \in BOOLEAN,
         Acts(w, resets), Holds(w, self[w]), Release(self[w]), w \in aimed,
         pc[w] \in OwnLocking \/ (pc[w] = "cancelLock" /\ handle[arg[w]].p = self[w]),
         UNCHANGED <<reuse, pool, fresh, self, handle, known, armed, aimed, got, final>>,
         done' \subseteq Workers
  PROVE  ThreadsInv'
<1>1. Alive(w)
  BY DEF OwnLocking, Alive
<1>2. /\ th' \in [Structs -> Thread] /\ \A r \in Structs \ {self[w]} : th'[r] = th[r]
      /\ th'[self[w]].x = th[self[w]].x /\ th'[self[w]].detached = th[self[w]].detached
      /\ th'[self[w]].threadH = th[self[w]].threadH /\ th'[self[w]].state = Canceling
  BY <1>1, OwnFacts, ActsChange DEF Acts
<1>3. "cancel" \in Hows /\ Canceling # CancelPending
  BY DEF Hows, Canceling, CancelPending
<1>4. OwnStep(w, "throw")
  BY <1>1, <1>2, <1>3, OwnFacts
  DEF Acts, OwnStep, Own, OwnLocking
<1> QED
  BY <1>4, OwnStepKeeps

LEMMA WaitDecidesKeeps == ASSUME ThreadsInv, NEW w \in Actors, WaitDecides(w) PROVE ThreadsInv'
<1>1. w \in Workers
  <2>1. SUFFICES ASSUME w \in Drivers PROVE FALSE
    BY DEF Actors
  <2> QED
    BY <2>1 DEF ThreadsInv, ThreadsType, Places, WaitDecides, DriverPlaces, JoinCalls, CancelCalls
<1>2. Alive(w) /\ pc[w] = "waitLock" /\ pc[w] \in OwnLocking /\ w \in aimed
  BY <1>1, OwnFacts DEF WaitDecides, Alive, OwnLocking
<1>3. CASE th[self[w]].state < Canceling
  <2>1. Acts(w, FALSE) /\ Holds(w, self[w]) /\ Release(self[w]) /\ done \subseteq Workers
    BY <1>1, <1>2, <1>3, OwnFacts DEF WaitDecides
  <2>2. PICK resets \in BOOLEAN : Acts(w, resets)
    BY <2>1
  <2> QED
    BY <1>1, <1>2, <2>1, <2>2, ActsKeeps DEF WaitDecides, names, history
<1>4. CASE ~(th[self[w]].state < Canceling)
  <2>1. th[self[w]].state # CancelPending
    BY <1>4 DEF CancelPending, Canceling
  <2>2. Holds(w, self[w]) /\ Release(self[w]) /\ Goto(w, "user") /\ th' = th /\ how' = how
    BY <1>4 DEF WaitDecides
  <2> QED
    BY <1>1, <1>2, <2>1, <2>2, OwnFacts, ReleaseKeeps DEF WaitDecides, names, history
<1> QED
  BY <1>3, <1>4

LEMMA WaitKeeps == ASSUME ThreadsInv, NEW w \in Workers, Wait(w) PROVE ThreadsInv'
<1>1. Alive(w)
  BY DEF Wait, Alive
<1>2. CancelEnabled(w) \in BOOLEAN
  BY DEF CancelEnabled
<1>3. OwnStep(w, "wait")
  BY <1>1, <1>2, OwnFacts
  DEF Wait, OwnStep, Own, OwnLocking, memory, names, counters, history
<1> QED
  BY <1>3, OwnStepKeeps

LEMMA TestCancelKeeps == ASSUME ThreadsInv, NEW w \in Workers, TestCancel(w) PROVE ThreadsInv'
<1>1. Alive(w)
  BY DEF TestCancel, Alive
<1>2. PICK l \in {"testLock", "testLockInCleanup"} : Goto(w, l)
  BY DEF TestCancel
<1>3. OwnStep(w, l)
  BY <1>1, <1>2, OwnFacts
  DEF TestCancel, OwnStep, Own, OwnLocking, Enqueue, names, history
<1> QED
  BY <1>3, OwnStepKeeps

LEMMA TestDecidesKeeps == ASSUME ThreadsInv, NEW w \in Workers, TestDecides(w) PROVE ThreadsInv'
<1>1. Alive(w) /\ pc[w] \in OwnLocking /\ w \in aimed
  BY OwnFacts DEF TestDecides, Alive, OwnLocking
<1>2. CASE CancelEnabled(w)
  <2>1. Acts(w, TRUE) /\ Holds(w, self[w]) /\ Release(self[w]) /\ done \subseteq Workers
    BY <1>1, <1>2, OwnFacts DEF TestDecides
  <2>2. PICK resets \in BOOLEAN : Acts(w, resets)
    BY <2>1
  <2>3. UNCHANGED <<reuse, pool, fresh, self, handle, known, armed, aimed, got, final>>
        /\ done' \subseteq Workers
    BY <2>1 DEF TestDecides, names, history
  <2>4. pc[w] \in OwnLocking \/ (pc[w] = "cancelLock" /\ handle[arg[w]].p = self[w])
    BY <1>1
  <2> QED
    BY <1>1, <2>1, <2>2, <2>3, <2>4, ActsKeeps
<1>3. CASE ~CancelEnabled(w)
  <2>1. PICK l \in {"user", "cleanup"} : Goto(w, l)
    BY <1>3 DEF TestDecides
  <2>2. Holds(w, self[w]) /\ Release(self[w]) /\ th' = th /\ how' = how /\ pc[w] # "waitLock"
    BY <1>3 DEF TestDecides
  <2> QED
    BY <1>1, <2>1, <2>2, OwnFacts, ReleaseKeeps DEF TestDecides, names, history
<1> QED
  BY <1>2, <1>3

LEMMA SetCancelKeeps ==
  ASSUME ThreadsInv, NEW w \in Workers, NEW setting \in {"enable", "disable", "deferred", "async"},
         SetCancel(w, setting)
  PROVE  ThreadsInv'
<1>1. Alive(w) /\ setting \in Hows
  BY DEF SetCancel, Alive, Hows
<1>2. OwnStep(w, "setLock")
  BY <1>1, OwnFacts
  DEF SetCancel, OwnStep, Own, OwnLocking, Enqueue, names, history
<1> QED
  BY <1>2, OwnStepKeeps

\* pthread_setcancelstate and pthread_setcanceltype change the setting, or the
\* thread acts on the cancellation that came before.
LEMMA SetDecidesChange ==
  ASSUME ThreadsInv, NEW w \in Workers, SetDecides(w)
  PROVE  /\ th' \in [Structs -> Thread] /\ \A r \in Structs \ {self[w]} : th'[r] = th[r]
         /\ th'[self[w]].x = th[self[w]].x /\ th'[self[w]].detached = th[self[w]].detached
         /\ th'[self[w]].threadH = th[self[w]].threadH
         /\ \/ /\ Goto(w, "throw") /\ how' = [how EXCEPT ![w] = "cancel"] /\ w \in aimed
               /\ th'[self[w]].state = Canceling /\ ~th'[self[w]].event
            \/ /\ Goto(w, "user") /\ how' = [how EXCEPT ![w] = "none"]
               /\ th'[self[w]].state = th[self[w]].state /\ th'[self[w]].event = th[self[w]].event
<1>1. Alive(w)
  BY DEF SetDecides, Alive
<1>2. PICK t \in Thread : t = th[self[w]]
  BY <1>1, OwnFacts
<1>3. PICK h \in Hows : h = how[w]
  BY <1>1, OwnFacts
<1>4. PICK n : n = IF h \in {"enable", "disable"} THEN [t EXCEPT !.cancelState = h]
                   ELSE [t EXCEPT !.cancelType = h]
  OBVIOUS
<1>5. n \in Thread /\ n.x = t.x /\ n.detached = t.detached /\ n.threadH = t.threadH
      /\ n.event = t.event /\ n.state = t.state
  BY <1>2, <1>3, <1>4 DEF Thread
<1>6. CASE n.cancelState = "enable" /\ n.cancelType = "async" /\ n.event
  <2>1. PICK c \in Hows : c = "disable"
    BY DEF Hows
  <2>2. PICK v \in 0 .. 7 : v = Canceling
    BY DEF Canceling
  <2>3. PICK e \in BOOLEAN : ~e
    OBVIOUS
  <2>4. PICK m : m = [n EXCEPT !.state = v, !.cancelState = c, !.event = e]
    OBVIOUS
  <2>5. m \in Thread /\ m.x = n.x /\ m.detached = n.detached /\ m.threadH = n.threadH
        /\ m.event = e /\ m.state = v
    BY <1>5, <2>1, <2>2, <2>3, <2>4 DEF Thread
  <2>6. /\ th' = [th EXCEPT ![self[w]] = m] /\ how' = [how EXCEPT ![w] = "cancel"]
        /\ Goto(w, "throw")
    BY <1>2, <1>3, <1>4, <1>6, <2>1, <2>2, <2>3, <2>4 DEF SetDecides
  <2>7. /\ th' \in [Structs -> Thread] /\ \A r \in Structs \ {self[w]} : th'[r] = th[r]
        /\ th'[self[w]] = m
    BY <1>1, <2>5, <2>6, OwnFacts
  <2>8. w \in aimed
    BY <1>1, <1>2, <1>5, <1>6, OwnFacts
  <2> QED
    BY <1>2, <1>5, <2>2, <2>3, <2>5, <2>6, <2>7, <2>8
<1>7. CASE ~(n.cancelState = "enable" /\ n.cancelType = "async" /\ n.event)
  <2>1. /\ th' = [th EXCEPT ![self[w]] = n] /\ how' = [how EXCEPT ![w] = "none"]
        /\ Goto(w, "user")
    BY <1>2, <1>3, <1>4, <1>7 DEF SetDecides
  <2>2. /\ th' \in [Structs -> Thread] /\ \A r \in Structs \ {self[w]} : th'[r] = th[r]
        /\ th'[self[w]] = n
    BY <1>1, <1>5, <2>1, OwnFacts
  <2> QED
    BY <1>2, <1>5, <2>1, <2>2
<1> QED
  BY <1>6, <1>7

LEMMA SetDecidesKeeps == ASSUME ThreadsInv, NEW w \in Workers, SetDecides(w) PROVE ThreadsInv'
<1>1. Alive(w) /\ pc[w] \in OwnLocking /\ pc[w] # "waitLock" /\ Canceling # CancelPending
  BY DEF SetDecides, Alive, OwnLocking, Canceling, CancelPending
<1>2. /\ th' \in [Structs -> Thread] /\ \A r \in Structs \ {self[w]} : th'[r] = th[r]
      /\ th'[self[w]].x = th[self[w]].x /\ th'[self[w]].detached = th[self[w]].detached
      /\ th'[self[w]].threadH = th[self[w]].threadH
  BY SetDecidesChange
<1>3. /\ Holds(w, self[w]) /\ Release(self[w])
      /\ UNCHANGED <<reuse, pool, fresh, self, handle, known, armed, aimed, done, got, final>>
  BY DEF SetDecides, names, history
<1>4. CASE /\ Goto(w, "throw") /\ how' = [how EXCEPT ![w] = "cancel"] /\ w \in aimed
           /\ th'[self[w]].state = Canceling /\ ~th'[self[w]].event
  <2>1. how' \in [Actors -> Hows] /\ \A b \in Actors \ {w} : how'[b] = how[b]
    BY <1>1, <1>4, OwnFacts DEF Hows
  <2> QED
    BY <1>1, <1>2, <1>3, <1>4, <2>1, ReleaseKeeps
<1>5. CASE /\ Goto(w, "user") /\ how' = [how EXCEPT ![w] = "none"]
           /\ th'[self[w]].state = th[self[w]].state /\ th'[self[w]].event = th[self[w]].event
  <2>1. /\ how' \in [Actors -> Hows] /\ \A b \in Actors \ {w} : how'[b] = how[b]
        /\ how'[w] # "cancel"
    BY <1>1, <1>5, OwnFacts DEF Hows
  <2> QED
    BY <1>1, <1>2, <1>3, <1>5, <2>1, ReleaseKeeps
<1> QED
  BY <1>4, <1>5, SetDecidesChange

-----------------------------------------------------------------------------
(* The steps of a call about another thread *)

\* A step within the frame keeps the invariant when those who go on, and the
\* owner of what is written, do.
LEMMA FrameKeeps ==
  ASSUME ThreadsInv, NEW A \in SUBSET Actors, NEW s, Frame(A, s),
         ThreadsType', Unique', Queued', Joined',
         \A w \in Workers : w \in A \/ (Lives(w) /\ handle[w].p = s) => Work(w)',
         \A a \in A : Doing(a)'
  PROVE  ThreadsInv'
<1>1. Owned'
  BY FrameOwned DEF ThreadsInv
<1>2. ASSUME NEW w \in Workers PROVE Work(w)'
  BY FrameWork DEF ThreadsInv
<1>3. ASSUME NEW a \in Actors PROVE Doing(a)'
  BY FrameDoing
<1> QED
  BY <1>1, <1>2, <1>3 DEF ThreadsInv

Calling == {"user", "created"} \cup JoinCalls \cup CancelCalls

\* In its call, a goes on at l and writes no structure; it comes to the queue of
\* a lock, leaves it or does neither.
CallStep(a, l) ==
  /\ pc[a] \in Calling /\ l \in Calling /\ pc'[a] = l
  /\ \A b \in Actors \ {a} : pc'[b] = pc[b] /\ arg'[b] = arg[b]
  /\ Places'
  /\ th' = th /\ pool' = pool /\ fresh' = fresh /\ handle' = handle /\ self' = self
  /\ final' = final /\ how' = how /\ armed' \in [Actors -> BOOLEAN]
  /\ aimed \subseteq aimed' /\ done' \subseteq Workers
  /\ known' \subseteq Workers
  /\ \A w \in known' : w \in known \/ pc[w] # "off"
  /\ reuse \in {a, None} \/ reuse' = reuse
  /\ \/ lockq' = lockq /\ \A r \in Structs : Wants(a, r) => Wants(a, r)'
     \/ \E q \in Structs :
          /\ lockq' = [lockq EXCEPT ![q] = Append(@, a)]
          /\ Wants(a, q)' /\ \A r \in Structs : ~Wants(a, r)
     \/ \E q \in Structs :
          /\ Holds(a, q) /\ Release(q)
          /\ \A r \in Structs : Wants(a, r) => r = q
  /\ l \in JoinCalls => \/ pc[a] \in JoinCalls /\ arg'[a] = arg[a]
                        \/ MayJoin(arg'[a])

LEMMA CallStepFrame ==
  ASSUME ThreadsInv, NEW a \in Actors, NEW l, CallStep(a, l)
  PROVE  Frame({a}, None) /\ lockq' \in [Structs -> Seq(Actors)]
<1>1. ThreadsType /\ lockq \in [Structs -> Seq(Actors)] /\ None \notin Structs
  BY ThreadsAssumption DEF ThreadsInv, ThreadsType, Memory
<1>2. /\ lockq' \in [Structs -> Seq(Actors)]
      /\ \A b \in Actors \ {a}, r \in Structs : Holds(b, r) => Holds(b, r)'
  <2>1. CASE lockq' = lockq
    BY <1>1, <2>1 DEF Holds
  <2>2. CASE \E q \in Structs : lockq' = [lockq EXCEPT ![q] = Append(@, a)]
    BY <1>1, <2>2, QueueEntered
  <2>3. CASE \E q \in Structs : Holds(a, q) /\ Release(q)
    BY <1>1, <2>3, QueueLeft
  <2> QED
    BY <2>1, <2>2, <2>3 DEF CallStep
<1>3. pc[a] \notin {"off", "gone", "create"} /\ pc'[a] \notin {"off", "gone", "create", "last"}
  BY DEF CallStep, Calling, JoinCalls, CancelCalls
<1>4. /\ \A b \in Actors \ {a} : pc'[b] = pc[b] /\ arg'[b] = arg[b] /\ how'[b] = how[b]
      /\ th' = th /\ pool' = pool /\ fresh' = fresh /\ handle' = handle /\ self' = self
      /\ final' = final /\ aimed \subseteq aimed' /\ (reuse \in {a, None} \/ reuse' = reuse)
      /\ \A w \in known' : w \in known \/ pc[w] # "off"
  BY DEF CallStep
<1> QED
  BY <1>1, <1>2, <1>3, <1>4 DEF Frame

LEMMA CallStepQueued ==
  ASSUME ThreadsInv, NEW a \in Actors, NEW l, CallStep(a, l)
  PROVE  Queued'
<1>1. Frame({a}, None)
  BY CallStepFrame
<1>2. CASE lockq' = lockq /\ \A r \in Structs : Wants(a, r) => Wants(a, r)'
  BY <1>1, <1>2, FrameQueued
<1>3. CASE \E q \in Structs :
          /\ lockq' = [lockq EXCEPT ![q] = Append(@, a)]
          /\ Wants(a, q)' /\ \A r \in Structs : ~Wants(a, r)
  BY <1>1, <1>3, FrameQueuedEnters
<1>4. CASE \E q \in Structs :
          /\ Holds(a, q) /\ Release(q)
          /\ \A r \in Structs : Wants(a, r) => r = q
  BY <1>1, <1>4, FrameQueuedLeaves
<1> QED
  BY <1>2, <1>3, <1>4 DEF CallStep

LEMMA CallWork ==
  ASSUME ThreadsInv, NEW a \in Workers, NEW s, NEW A \in SUBSET Actors, Frame(A, s), a \in A,
         pc[a] \in Calling, pc'[a] \in Calling, how'[a] = how[a],
         th'[self[a]] = th[self[a]]
  PROVE  Work(a)'
<1>1. /\ pc[a] \notin {"off", "gone", "last", "waitEnter", "waitLock", "testLock", "testLockInCleanup"}
      /\ pc'[a] \notin {"off", "gone", "last", "waitEnter", "waitLock", "testLock", "testLockInCleanup"}
  BY DEF Calling, JoinCalls, CancelCalls
<1>2. Alive(a)
  BY <1>1 DEF Alive
<1>3. self[a] = handle[a].p /\ handle[a] # None /\ Lives(a) /\ Work(a) /\ ThreadsType
  BY <1>2, AliveHas DEF ThreadsInv
<1>4. Lives(a)' /\ handle' = handle /\ self' = self /\ final' = final /\ aimed \subseteq aimed'
  BY <1>3, FrameLives DEF Frame
<1>5. Known(a)'
  BY <1>1, <1>3, <1>4 DEF Known
<1>6. Kept(a)'
  BY <1>1, <1>3, <1>4 DEF Work, Kept
<1>7. Aimed(a)'
  BY <1>1, <1>3, <1>4 DEF Work, Aimed
<1> QED
  BY <1>5, <1>6, <1>7 DEF Work

LEMMA CallStepKeeps ==
  ASSUME ThreadsInv, NEW a \in Actors, NEW l, CallStep(a, l), Joined', Doing(a)',
         got' \subseteq Workers \X Statuses
  PROVE  ThreadsInv'
<1>1. Frame({a}, None) /\ lockq' \in [Structs -> Seq(Actors)]
  BY CallStepFrame
<1>2. ThreadsType'
  BY <1>1 DEF CallStep, ThreadsInv, ThreadsType, Memory
<1>3. Unique'
  <2>1. CASE l \in JoinCalls => pc[a] \in JoinCalls /\ arg'[a] = arg[a]
    BY <1>1, <2>1, FrameUnique DEF CallStep
  <2>2. CASE MayJoin(arg'[a])
    BY <1>1, <2>2, FrameUniqueEnters
  <2> QED
    BY <2>1, <2>2 DEF CallStep
<1>4. ASSUME NEW w \in Workers, w = a \/ (Lives(w) /\ handle[w].p = None) PROVE Work(w)'
  <2>1. w = a
    BY <1>4, Pointers, ThreadsAssumption DEF Lives, ThreadsInv
  <2> QED
    BY <1>1, <2>1, CallWork DEF CallStep
<1> QED
  BY <1>1, <1>2, <1>3, <1>4, CallStepQueued, FrameKeeps

\* What was joined stays so where no call of pthread_detach ends.
LEMMA CallStepJoined ==
  ASSUME ThreadsInv, NEW a \in Actors, NEW l, CallStep(a, l), got' = got,
         pc[a] \in Detaches =>
           \/ l \in Detaches /\ arg'[a] = arg[a]
           \/ pc[arg[a]] # "gone" \/ ~Lives(arg[a])
  PROVE  Joined' /\ got' \subseteq Workers \X Statuses
<1>1. Frame({a}, None)
  BY CallStepFrame
<1>2. Joined'
  BY <1>1, FrameJoined DEF CallStep
<1> QED
  BY <1>2 DEF ThreadsInv, ThreadsType, Memory

LEMMA CallGoes ==
  ASSUME ThreadsInv, NEW a \in Actors, NEW l \in Calling \ {"created"},
         pc[a] \in Calling \ {"user"}, Goto(a, l)
  PROVE  /\ pc[a] \in Calling /\ l \in Calling /\ pc'[a] = l
         /\ \A b \in Actors \ {a} : pc'[b] = pc[b] /\ arg'[b] = arg[b]
         /\ Places' /\ (l # "user" => arg' = arg)
         /\ arg[a] \in Workers /\ pc[a] \in AboutOne
<1>1. Places /\ ThreadsType
  BY DEF ThreadsInv, ThreadsType
<1>2. l \in DriverPlaces /\ l \in WorkerPlaces /\ pc[a] \in AboutOne /\ l # "throw"
  BY DEF Calling, DriverPlaces, WorkerPlaces, AboutOne, JoinCalls, CancelCalls
<1>3. /\ pc'[a] = l /\ \A b \in Actors \ {a} : pc'[b] = pc[b] /\ arg'[b] = arg[b]
      /\ l \notin {"user", "throw"} => arg' = arg
      /\ Places'
  BY <1>1, <1>2, Going
<1> QED
  BY <1>1, <1>2, <1>3 DEF Places

\* What the state of ThreadsType gives the steps of a call.
LEMMA CallTypes ==
  ASSUME ThreadsInv
  PROVE  armed \in [Actors -> BOOLEAN] /\ done \subseteq Workers /\ known \subseteq Workers
         /\ got \subseteq Workers \X Statuses
  BY DEF ThreadsInv, ThreadsType, Memory

LEMMA DoingOf ==
  ASSUME ThreadsInv, NEW a \in Actors PROVE Doing(a)
  BY DEF ThreadsInv

\* The call is over.
LEMMA DoesNothing ==
  ASSUME NEW a \in Actors, pc'[a] = "user" PROVE Doing(a)'
  BY DEF Doing, AboutOne, Joining, JoinCalls, CancelCalls

LEMMA HasSelfKeeps ==
  ASSUME ThreadsInv, NEW a \in Actors, Self(a), self[a] # None PROVE ThreadsInv'
<1>1. PICK l : l = IF pc[a] = "joinSelf" THEN "joinTest" ELSE "cancelEnter"
  OBVIOUS
<1>2. Goto(a, l) /\ l \in Calling \ {"created"} /\ pc[a] \in Calling \ {"user"}
  BY <1>1 DEF Self, Calling, JoinCalls, CancelCalls
<1>3. /\ UNCHANGED <<th, lockq, pool, fresh, self, reuse, handle, known, how, armed, aimed, done, got, final>>
  BY DEF Self, history
<1>4. \A r \in Structs : ~Wants(a, r)
  BY DEF Self, Wants, Locking, OwnLocking
<1>5. pc[a] \in {"joinSelf", "cancelSelf"} /\ l # "user"
  BY <1>1 DEF Self
<1>6. l \in JoinCalls => pc[a] \in JoinCalls
  BY <1>1, <1>5 DEF JoinCalls
<1>7. CallStep(a, l)
  BY <1>2, <1>3, <1>4, <1>5, <1>6, CallGoes, CallTypes DEF CallStep
<1>8. Joined' /\ got' \subseteq Workers \X Statuses
  BY <1>3, <1>5, <1>7, CallStepJoined DEF Detaches
<1>9. Doing(a)'
  <2>1. pc'[a] = l /\ arg' = arg /\ arg[a] \in Workers /\ pc[a] \in AboutOne
    BY <1>2, <1>5, CallGoes
  <2>2. Lives(arg[a])' <=> Lives(arg[a])
    BY <1>3, <2>1 DEF Lives, Valid
  <2>3. pc[arg[a]] # "off" /\ pc'[arg[a]] # "off"
    <3>1. pc[arg[a]] # "off"
      BY <1>5, <2>1, DoingOf DEF Doing
    <3> QED
      BY <1>5, <1>2, <2>1, <3>1, CallGoes DEF Actors, Calling, JoinCalls, CancelCalls
  <2>4. CASE pc[a] = "joinSelf"
    <3>1. l = "joinTest"
      BY <1>1, <2>4
    <3>2. Lives(arg[a]) /\ ~th[handle[arg[a]].p].detached
      BY <2>4, DoingOf DEF Doing, Joining
    <3> QED
      BY <1>3, <2>1, <2>2, <2>3, <3>1, <3>2 DEF Doing, CancelCalls
  <2>5. CASE pc[a] = "cancelSelf"
    <3>1. l = "cancelEnter"
      BY <1>1, <2>5
    <3>2. Lives(arg[a]) /\ arg[a] \in aimed
      BY <2>5, DoingOf DEF Doing, CancelCalls
    <3> QED
      BY <1>3, <2>1, <2>2, <2>3, <3>1, <3>2 DEF Doing, Joining
  <2> QED
    BY <1>5, <2>4, <2>5
<1> QED
  BY <1>7, <1>8, <1>9, CallStepKeeps

LEMMA CreatedKeeps == ASSUME ThreadsInv, NEW a \in Actors, Created(a) PROVE ThreadsInv'
<1>1. Goto(a, "user") /\ "user" \in Calling \ {"created"} /\ pc[a] \in Calling \ {"user"}
      /\ pc[a] = "created"
  BY DEF Created, Calling, JoinCalls, CancelCalls
<1>2. /\ UNCHANGED <<th, lockq, pool, fresh, self, reuse, handle, how, armed, aimed, done, got, final>>
      /\ known' = known \cup {arg[a]}
  BY DEF Created, memory, history
<1>3. \A r \in Structs : ~Wants(a, r)
  BY <1>1 DEF Wants, Locking, OwnLocking
<1>4. arg[a] \in Workers /\ pc[arg[a]] # "off"
  BY <1>1, DoingOf, CallGoes DEF Doing
<1>5. "user" \notin JoinCalls
  BY DEF JoinCalls
<1>6. CallStep(a, "user")
  BY <1>1, <1>2, <1>3, <1>4, <1>5, CallGoes, CallTypes DEF CallStep
<1>7. Joined' /\ got' \subseteq Workers \X Statuses
  BY <1>1, <1>2, <1>6, CallStepJoined DEF Detaches
<1>8. Doing(a)'
  BY <1>6, DoesNothing DEF CallStep
<1> QED
  BY <1>6, <1>7, <1>8, CallStepKeeps

LEMMA JoinWaitsKeeps == ASSUME ThreadsInv, NEW a \in Actors, JoinWaits(a) PROVE ThreadsInv'
<1>1. PICK l \in {"user", "join"} : Goto(a, l)
  BY DEF JoinWaits
<1>2. l \in Calling \ {"created"} /\ pc[a] \in Calling \ {"user"} /\ pc[a] = "joinTest"
  BY DEF JoinWaits, Calling, JoinCalls, CancelCalls
<1>3. /\ UNCHANGED <<th, lockq, pool, fresh, self, reuse, handle, known, how, aimed, done, got, final>>
      /\ armed' \in [Actors -> BOOLEAN]
  <2>1. (CancelEnabled(a) /\ self[a] # Target(a)) \in BOOLEAN
    BY DEF CancelEnabled
  <2> QED
    BY <2>1, CallTypes DEF JoinWaits, memory, names, history
<1>4. \A r \in Structs : ~Wants(a, r)
  BY <1>2 DEF Wants, Locking, OwnLocking
<1>5. l \in JoinCalls => pc[a] \in JoinCalls /\ l # "user"
  BY <1>2 DEF JoinCalls
<1>6. CallStep(a, l)
  BY <1>1, <1>2, <1>3, <1>4, <1>5, CallGoes, CallTypes DEF CallStep
<1>7. Joined' /\ got' \subseteq Workers \X Statuses
  BY <1>2, <1>3, <1>6, CallStepJoined DEF Detaches
<1>8. Doing(a)'
  <2>1. CASE l = "user"
    BY <1>6, <2>1, DoesNothing DEF CallStep
  <2>2. CASE l = "join"
    <3>1. /\ pc'[a] = "join" /\ arg' = arg /\ arg[a] \in Workers /\ pc[a] \in AboutOne
          /\ \A b \in Actors \ {a} : pc'[b] = pc[b]
      BY <1>1, <1>2, <2>2, CallGoes
    <3>2. /\ Lives(arg[a]) /\ ~th[handle[arg[a]].p].detached /\ pc[arg[a]] # "off"
          /\ (a \in Drivers => self[a] # None)
      BY <1>2, <3>1, DoingOf DEF Doing, Joining
    <3>3. Lives(arg[a])' /\ pc'[arg[a]] # "off"
      BY <1>3, <3>1, <3>2 DEF Lives, Valid, Actors
    <3> QED
      BY <1>3, <3>1, <3>2, <3>3 DEF Doing, CancelCalls
  <2> QED
    BY <2>1, <2>2
<1> QED
  BY <1>6, <1>7, <1>8, CallStepKeeps

LEMMA JoinEndsKeeps == ASSUME ThreadsInv, NEW a \in Actors, JoinEnds(a) PROVE ThreadsInv'
<1>1. Goto(a, "joined") /\ "joined" \in Calling \ {"created"} /\ pc[a] \in Calling \ {"user"}
      /\ pc[a] = "join" /\ pc[arg[a]] = "gone"
  BY DEF JoinEnds, Object, Calling, JoinCalls, CancelCalls
<1>2. /\ UNCHANGED <<th, lockq, pool, fresh, self, reuse, handle, known, how, aimed, done, got, final>>
      /\ armed' \in [Actors -> BOOLEAN]
  BY CallTypes DEF JoinEnds, Disarm, memory, names, history
<1>3. \A r \in Structs : ~Wants(a, r)
  BY <1>1 DEF Wants, Locking, OwnLocking
<1>4. pc[a] \in JoinCalls
  BY <1>1 DEF JoinCalls
<1>5. CallStep(a, "joined")
  BY <1>1, <1>2, <1>3, <1>4, CallGoes, CallTypes DEF CallStep
<1>6. Joined' /\ got' \subseteq Workers \X Statuses
  BY <1>1, <1>2, <1>5, CallStepJoined DEF Detaches
<1>7. Doing(a)'
  <2>1. /\ pc'[a] = "joined" /\ arg' = arg /\ arg[a] \in Workers
        /\ \A b \in Actors \ {a} : pc'[b] = pc[b]
    BY <1>1, CallGoes
  <2>2. Lives(arg[a]) /\ ~th[handle[arg[a]].p].detached
    BY <1>1, DoingOf DEF Doing, Joining
  <2>3. Lives(arg[a])' /\ pc'[arg[a]] = "gone"
    BY <1>1, <1>2, <2>1, <2>2 DEF Lives, Valid, Actors
  <2> QED
    BY <1>2, <2>1, <2>2, <2>3 DEF Doing, CancelCalls
<1> QED
  BY <1>5, <1>6, <1>7, CallStepKeeps

\* The status is read while the structure of the thread that ended is there.
LEMMA JoinReadsKeeps == ASSUME ThreadsInv, NEW a \in Actors, JoinReads(a) PROVE ThreadsInv'
<1>1. Goto(a, "detachTest") /\ "detachTest" \in Calling \ {"created"}
      /\ pc[a] \in Calling \ {"user"} /\ pc[a] = "joined"
  BY DEF JoinReads, Calling, JoinCalls, CancelCalls
<1>2. PICK w \in Workers : w = arg[a]
  BY <1>1, CallGoes
<1>3. /\ UNCHANGED <<th, lockq, pool, fresh, self, reuse, handle, known, how, armed, aimed, done, final>>
      /\ got' = got \cup {<<w, th[handle[w].p].status>>}
  BY <1>2 DEF JoinReads, Target, memory, names
<1>4. /\ pc'[a] = "detachTest" /\ arg' = arg /\ \A b \in Actors \ {a} : pc'[b] = pc[b]
  BY <1>1, CallGoes
<1>5. \A r \in Structs : ~Wants(a, r)
  BY <1>1 DEF Wants, Locking, OwnLocking
<1>6. pc[a] \in JoinCalls
  BY <1>1 DEF JoinCalls
<1>7. CallStep(a, "detachTest")
  BY <1>1, <1>3, <1>5, <1>6, CallGoes, CallTypes DEF CallStep
<1>8. pc[w] = "gone" /\ pc'[w] = "gone" /\ Lives(w) /\ Kept(w) /\ ThreadsType /\ Joined
  <2>1. pc[w] = "gone" /\ Lives(w)
    BY <1>1, <1>2, DoingOf DEF Doing, Joining
  <2> QED
    BY <1>1, <1>4, <2>1 DEF ThreadsInv, Work, Actors
<1>9. th[handle[w].p].status = final[w] /\ final[w] \in Statuses
  BY <1>8 DEF Kept, ThreadsType, Memory
<1>10. got' \subseteq Workers \X Statuses
  BY <1>3, <1>9, CallTypes
<1>11. \A v \in Workers : Lives(v)' <=> Lives(v)
  BY <1>3 DEF Lives, Valid
<1>12. Joined'
  <2> SUFFICES ASSUME NEW g \in got'
               PROVE  /\ pc'[g[1]] = "gone" /\ g[2] = final[g[1]]
                      /\ Lives(g[1])' => \E b \in Actors : arg[b] = g[1] /\ pc'[b] \in Detaches
    BY <1>3, <1>4 DEF Joined, Detaches
  <2>1. CASE g \in got
    <3>1. PICK v \in Workers : v = g[1]
      BY <2>1, CallTypes
    <3>2. /\ pc[v] = "gone" /\ g[2] = final[v]
          /\ Lives(v) => \E b \in Actors : arg[b] = v /\ pc[b] \in Detaches
      BY <1>8, <2>1, <3>1 DEF Joined, Detaches
    <3>3. pc'[v] = "gone"
      BY <1>1, <1>4, <3>2 DEF Actors
    <3>4. Lives(v) => \E b \in Actors : arg[b] = v /\ pc'[b] \in Detaches
      BY <1>1, <1>4, <3>2 DEF Detaches
    <3> QED
      BY <1>11, <3>1, <3>2, <3>3, <3>4
  <2>2. CASE g = <<w, th[handle[w].p].status>>
    <3>1. arg[a] = g[1] /\ pc'[a] \in Detaches
      BY <1>2, <1>4, <2>2 DEF Detaches
    <3> QED
      BY <1>8, <1>9, <2>2, <3>1
  <2> QED
    BY <1>3, <2>1, <2>2
<1>13. Doing(a)'
  BY <1>2, <1>4, <1>8 DEF Doing, Joining, CancelCalls
<1> QED
  BY <1>7, <1>10, <1>12, <1>13, CallStepKeeps

\* A call about a worker that the program knows begins.
LEMMA CallBegins ==
  ASSUME ThreadsInv, NEW a \in Actors, NEW w \in known,
         NEW l \in {"joinSelf", "detachTest", "cancelSelf"},
         pc[a] = "user", Call(a, w, l), l = "cancelSelf" \/ MayJoin(w),
         UNCHANGED <<memory, names, how, armed, done, got, final>>, aimed \subseteq aimed'
  PROVE  /\ CallStep(a, l) /\ Joined' /\ got' \subseteq Workers \X Statuses
         /\ arg'[a] = w /\ w \in Workers /\ pc'[w] # "off" /\ (Lives(w)' <=> Lives(w))
<1>1. w \in Workers /\ pc[w] # "off" /\ Places /\ ThreadsType
  BY DEF ThreadsInv, ThreadsType, Memory, Work, Known
<1>2. l \in DriverPlaces /\ l \in WorkerPlaces /\ l \in Calling /\ pc[a] \in Calling
  BY DEF DriverPlaces, WorkerPlaces, Calling, JoinCalls, CancelCalls
<1>3. /\ pc'[a] = l /\ arg'[a] = w
      /\ \A b \in Actors \ {a} : pc'[b] = pc[b] /\ arg'[b] = arg[b]
      /\ Places'
  BY <1>1, <1>2 DEF Call, Places, Actors
<1>4. UNCHANGED <<th, lockq, pool, fresh, self, reuse, handle, known, how, armed, done, got, final>>
  BY DEF memory, names
<1>5. \A r \in Structs : ~Wants(a, r)
  BY DEF Wants, Locking, OwnLocking
<1>6. l \in JoinCalls => MayJoin(arg'[a])
  BY <1>3 DEF JoinCalls
<1>7. CallStep(a, l)
  BY <1>2, <1>3, <1>4, <1>5, <1>6, CallTypes DEF CallStep
<1>8. Joined' /\ got' \subseteq Workers \X Statuses
  BY <1>4, <1>7, CallStepJoined DEF Detaches
<1>9. pc'[w] # "off" /\ (Lives(w)' <=> Lives(w))
  BY <1>1, <1>3, <1>4 DEF Lives, Valid, Actors
<1> QED
  BY <1>1, <1>3, <1>7, <1>8, <1>9

\* A handle that the program knows and that is valid points to a structure that
\* its thread has.
LEMMA KnownLives ==
  ASSUME ThreadsInv, NEW w \in known, Valid(w)
  PROVE  w \in Workers /\ Lives(w)
  BY DEF ThreadsInv, ThreadsType, Memory, Work, Known, Lives

LEMMA JoinKeeps ==
  ASSUME ThreadsInv, NEW a \in Actors, NEW w \in Workers, Join(a, w) PROVE ThreadsInv'
<1>1. /\ w \in known /\ pc[a] = "user" /\ Call(a, w, "joinSelf") /\ MayJoin(w)
      /\ UNCHANGED <<memory, names, how, armed, done, got, final>> /\ aimed \subseteq aimed'
      /\ Valid(w) /\ ~th[handle[w].p].detached
  BY DEF Join, MayJoin, history
<1>2. PICK l \in {"joinSelf", "detachTest", "cancelSelf"} : l = "joinSelf"
  OBVIOUS
<1>3. /\ CallStep(a, l) /\ Joined' /\ got' \subseteq Workers \X Statuses
      /\ arg'[a] = w /\ w \in Workers /\ pc'[w] # "off" /\ (Lives(w)' <=> Lives(w))
  BY <1>1, <1>2, CallBegins
<1>4. Lives(w) /\ th' = th /\ handle' = handle /\ pc'[a] = "joinSelf"
  BY <1>1, <1>2, <1>3, KnownLives DEF memory, names, CallStep
<1>5. Doing(a)'
  BY <1>1, <1>3, <1>4 DEF Doing, Joining, CancelCalls
<1> QED
  BY <1>3, <1>5, CallStepKeeps

LEMMA DetachKeeps ==
  ASSUME ThreadsInv, NEW a \in Actors, NEW w \in Workers, Detach(a, w) PROVE ThreadsInv'
<1>1. /\ w \in known /\ pc[a] = "user" /\ Call(a, w, "detachTest") /\ MayJoin(w)
      /\ UNCHANGED <<memory, names, how, armed, done, got, final>> /\ aimed \subseteq aimed'
  BY DEF Detach, MayJoin, history
<1>2. PICK l \in {"joinSelf", "detachTest", "cancelSelf"} : l = "detachTest"
  OBVIOUS
<1>3. /\ CallStep(a, l) /\ Joined' /\ got' \subseteq Workers \X Statuses
      /\ arg'[a] = w /\ pc'[w] # "off"
  BY <1>1, <1>2, CallBegins
<1>4. pc'[a] = "detachTest"
  BY <1>2, <1>3 DEF CallStep
<1>5. Doing(a)'
  BY <1>3, <1>4 DEF Doing, Joining, CancelCalls
<1> QED
  BY <1>3, <1>5, CallStepKeeps

LEMMA CancelKeeps ==
  ASSUME ThreadsInv, NEW a \in Actors, NEW w \in Workers, Cancel(a, w) PROVE ThreadsInv'
<1>1. /\ w \in known /\ pc[a] = "user" /\ Call(a, w, "cancelSelf") /\ Valid(w)
      /\ UNCHANGED <<memory, names, how, armed, done, got, final>> /\ aimed' = aimed \cup {w}
  BY DEF Cancel
<1>2. PICK l \in {"joinSelf", "detachTest", "cancelSelf"} : l = "cancelSelf"
  OBVIOUS
<1>3. /\ CallStep(a, l) /\ Joined' /\ got' \subseteq Workers \X Statuses
      /\ arg'[a] = w /\ pc'[w] # "off" /\ (Lives(w)' <=> Lives(w))
  BY <1>1, <1>2, CallBegins
<1>4. Lives(w) /\ pc'[a] = "cancelSelf"
  BY <1>1, <1>2, <1>3, KnownLives DEF CallStep
<1>5. Doing(a)'
  BY <1>1, <1>3, <1>4 DEF Doing, Joining
<1> QED
  BY <1>3, <1>5, CallStepKeeps

\* The program joins and detaches no thread in two calls at a time; here a
\* thread that is detached, or whose structure is free, is not detached again.
LEMMA DetachTestsKeeps == ASSUME ThreadsInv, NEW a \in Actors, DetachTests(a) PROVE ThreadsInv'
<1>1. PICK l \in {"user", "detachLock"} : Goto(a, l)
  BY DEF DetachTests
<1>2. l \in Calling \ {"created"} /\ pc[a] \in Calling \ {"user"} /\ pc[a] = "detachTest"
      /\ pc[a] \in JoinCalls
  BY DEF DetachTests, Calling, JoinCalls, CancelCalls
<1>3. PICK w \in Workers : w = arg[a]
  BY <1>1, <1>2, CallGoes
<1>4. /\ UNCHANGED <<th, pool, fresh, self, handle, known, how, armed, aimed, done, got, final>>
      /\ reuse = None
  BY DEF DetachTests, names, history
<1>5. /\ pc'[a] = l /\ (l # "user" => arg' = arg) /\ \A b \in Actors \ {a} : pc'[b] = pc[b]
  BY <1>1, <1>2, CallGoes
<1>6. pc[w] # "off" /\ Work(w) /\ ThreadsType
  BY <1>2, <1>3, DoingOf DEF Doing, AboutOne, JoinCalls, ThreadsInv
<1>7. handle[w] # None /\ handle[w].p \in Structs /\ (Valid(w) <=> Lives(w))
  BY <1>6, Pointers DEF Work, Known, Lives
<1>8. \A r \in Structs : ~Wants(a, r)
  BY <1>2 DEF Wants, Locking, OwnLocking
<1>9. CASE ~Valid(w) \/ th[handle[w].p].detached
  <2>1. Goto(a, "user") /\ lockq' = lockq /\ reuse' = reuse
    BY <1>3, <1>9 DEF DetachTests, Target
  <2>2. pc'[a] = "user" /\ l = "user"
    BY <1>5, <2>1 DEF Goto, ThreadsInv, ThreadsType, Places
  <2>3. CallStep(a, "user")
    BY <1>1, <1>2, <1>4, <1>8, <2>1, <2>2, CallGoes, CallTypes DEF CallStep, JoinCalls
  <2>4. ~Lives(w) \/ pc[w] # "gone"
    BY <1>6, <1>7, <1>9 DEF Work, Kept
  <2>5. Joined' /\ got' \subseteq Workers \X Statuses
    BY <1>3, <1>4, <2>3, <2>4, CallStepJoined
  <2> QED
    BY <2>2, <2>3, <2>5, DoesNothing, CallStepKeeps
<1>10. CASE Valid(w) /\ ~th[handle[w].p].detached
  <2>1. /\ Goto(a, "detachLock") /\ reuse' = a
        /\ lockq' = [lockq EXCEPT ![handle[w].p] = Append(@, a)]
    BY <1>3, <1>10 DEF DetachTests, Target, Enqueue
  <2>2. pc'[a] = "detachLock" /\ l = "detachLock"
    BY <1>5, <2>1 DEF Goto, ThreadsInv, ThreadsType, Places
  <2>3. PICK q \in Structs : q = handle[w].p
    BY <1>7
  <2>4. Wants(a, q)'
    BY <1>3, <1>4, <1>5, <2>2, <2>3 DEF Wants, Locking
  <2>5. CallStep(a, "detachLock")
    BY <1>1, <1>2, <1>4, <1>8, <2>1, <2>2, <2>3, <2>4, CallGoes, CallTypes DEF CallStep
  <2>6. Joined' /\ got' \subseteq Workers \X Statuses
    BY <1>2, <1>4, <1>5, <2>2, <2>5, CallStepJoined DEF Detaches
  <2>7. Lives(w)' /\ pc'[w] # "off" /\ ~th'[handle'[w].p].detached
    BY <1>2, <1>4, <1>5, <1>6, <1>7, <1>10, <2>2 DEF Lives, Valid, Actors
  <2>8. Doing(a)'
    BY <1>3, <1>5, <2>1, <2>2, <2>7 DEF Doing, CancelCalls
  <2> QED
    BY <2>5, <2>6, <2>8, CallStepKeeps
<1> QED
  BY <1>9, <1>10

LEMMA CancelEntersKeeps == ASSUME ThreadsInv, NEW a \in Actors, CancelEnters(a) PROVE ThreadsInv'
<1>1. Goto(a, "cancelLock") /\ "cancelLock" \in Calling \ {"created"} /\ pc[a] \in Calling \ {"user"}
      /\ pc[a] = "cancelEnter"
  BY DEF CancelEnters, Calling, JoinCalls, CancelCalls
<1>2. PICK w \in Workers : w = arg[a]
  BY <1>1, CallGoes
<1>3. /\ UNCHANGED <<th, pool, fresh, self, reuse, handle, known, how, armed, aimed, done, got, final>>
      /\ lockq' = [lockq EXCEPT ![handle[w].p] = Append(@, a)]
  BY <1>2 DEF CancelEnters, Enqueue, Target, names, history
<1>4. /\ pc'[a] = "cancelLock" /\ arg' = arg /\ \A b \in Actors \ {a} : pc'[b] = pc[b]
  BY <1>1, CallGoes
<1>5. \A r \in Structs : ~Wants(a, r)
  BY <1>1 DEF Wants, Locking, OwnLocking
<1>6. Lives(w) /\ w \in aimed /\ pc[w] # "off" /\ ThreadsType
  BY <1>1, <1>2, DoingOf DEF Doing, CancelCalls, AboutOne, ThreadsInv
<1>7. PICK q \in Structs : q = handle[w].p
  BY <1>6, Pointers DEF Lives
<1>8. Wants(a, q)'
  BY <1>2, <1>3, <1>4, <1>7 DEF Wants, Locking
<1>9. CallStep(a, "cancelLock")
  BY <1>1, <1>3, <1>5, <1>7, <1>8, CallGoes, CallTypes DEF CallStep, JoinCalls
<1>10. Joined' /\ got' \subseteq Workers \X Statuses
  BY <1>1, <1>3, <1>9, CallStepJoined DEF Detaches
<1>11. Lives(w)' /\ pc'[w] # "off"
  BY <1>3, <1>4, <1>6 DEF Lives, Valid, Actors
<1>12. Doing(a)'
  BY <1>2, <1>3, <1>4, <1>6, <1>11 DEF Doing, Joining
<1> QED
  BY <1>9, <1>10, <1>12, CallStepKeeps

\* The structure of a worker is nobody else's.
LEMMA SelfIsTarget ==
  ASSUME ThreadsInv, NEW a \in Actors, NEW w \in Workers, Lives(w), self[a] = handle[w].p,
         a \in Workers => Alive(a)
  PROVE  a = w
<1>1. ThreadsType /\ Owned /\ handle[w].p \in Structs
  BY Pointers DEF ThreadsInv, Lives
<1>2. Owns(w, handle[w].p) /\ w \in Actors
  BY DEF Owns, Actors
<1>3. Owns(a, handle[w].p)
  <2>1. CASE a \in Workers
    BY <2>1, AliveHas DEF Owns
  <2>2. CASE a \notin Workers
    BY <2>2 DEF Owns
  <2> QED
    BY <2>1, <2>2
<1> QED
  BY <1>1, <1>2, <1>3 DEF Owned

LEMMA CancelDecidesKeeps == ASSUME ThreadsInv, NEW a \in Actors, CancelDecides(a) PROVE ThreadsInv'
<1>1. /\ pc[a] \in Calling \ {"user"} /\ pc[a] = "cancelLock" /\ pc[a] \in AboutOne
  BY DEF CancelDecides, Calling, AboutOne, CancelCalls
<1>2. PICK w \in Workers : w = arg[a]
  BY <1>1 DEF ThreadsInv, ThreadsType, Places
<1>3. UNCHANGED <<pool, fresh, self, reuse, handle, known, armed, aimed, got, final>>
  BY DEF CancelDecides, names, history
<1>4. Lives(w) /\ w \in aimed /\ pc[w] # "off" /\ ThreadsType /\ Kept(w)
  BY <1>1, <1>2, DoingOf DEF Doing, CancelCalls, AboutOne, ThreadsInv, Work
<1>5. PICK q \in Structs : q = handle[w].p
  BY <1>4, Pointers DEF Lives
<1>6. PICK t \in Thread : t = th[q]
  BY <1>4 DEF ThreadsType, Memory
<1>7. PICK async \in BOOLEAN :
        async = (t.cancelType = "async" /\ t.cancelState = "enable" /\ t.state < Canceling)
  OBVIOUS
<1>8. /\ Holds(a, q) /\ \A r \in Structs : Wants(a, r) => r = q
  BY <1>1, <1>2, <1>5, SMTT(30) DEF CancelDecides, Target, Wants, OwnLocking
<1>9. \/ /\ async /\ q # self[a] /\ Goto(a, "cancelAsync") /\ UNCHANGED <<th, lockq, how, done>>
      \/ /\ async /\ q = self[a] /\ Acts(a, FALSE) /\ Release(q) /\ UNCHANGED done
      \/ /\ ~async /\ t.state < CancelPending
         /\ Goto(a, "cancelSet") /\ UNCHANGED <<th, lockq, how, done>>
      \/ /\ Release(q) /\ Goto(a, "user") /\ UNCHANGED <<th, how>> /\ done' \subseteq done \cup {w}
  BY <1>2, <1>5, <1>6, <1>7 DEF CancelDecides, Target
<1>10. ASSUME NEW l \in {"cancelAsync", "cancelSet"}, Goto(a, l), UNCHANGED <<th, lockq, how, done>>,
              t.state < Canceling
       PROVE  ThreadsInv'
  <2>1. l \in Calling \ {"created"} /\ l \notin JoinCalls /\ l # "user" /\ l \in Locking
    BY DEF Calling, JoinCalls, CancelCalls, Locking
  <2>2. /\ pc'[a] = l /\ arg' = arg /\ \A b \in Actors \ {a} : pc'[b] = pc[b]
    BY <1>1, <1>10, <2>1, CallGoes
  <2>3. \A r \in Structs : Wants(a, r) => Wants(a, r)'
    BY <1>2, <1>3, <1>5, <1>8, <2>1, <2>2 DEF Wants
  <2>4. CallStep(a, l)
    BY <1>1, <1>3, <1>10, <2>1, <2>3, CallGoes, CallTypes DEF CallStep
  <2>5. Joined' /\ got' \subseteq Workers \X Statuses
    BY <1>1, <1>3, <2>4, CallStepJoined DEF Detaches
  <2>6. pc[w] \notin {"last", "gone"}
    BY <1>4, <1>5, <1>6, <1>10 DEF Kept, Last, Canceling
  <2>7. Lives(w)' /\ pc'[w] \notin {"off", "last", "gone"} /\ Holds(a, q)'
    BY <1>3, <1>4, <1>8, <1>10, <2>2, <2>6 DEF Lives, Valid, Actors, Holds
  <2>8. Doing(a)'
    BY <1>2, <1>3, <1>4, <1>5, <2>2, <2>7 DEF Doing, Joining
  <2> QED
    BY <2>4, <2>5, <2>8, CallStepKeeps
<1>11. ASSUME async, q = self[a], Acts(a, FALSE), Release(q), UNCHANGED done
       PROVE  ThreadsInv'
  <2>1. a = w
    BY <1>1, <1>4, <1>5, <1>11, SelfIsTarget DEF Alive
  <2>2. PICK resets \in BOOLEAN : Acts(a, resets)
    BY <1>11
  <2> QED
    BY <1>1, <1>2, <1>3, <1>4, <1>5, <1>8, <1>11, <2>1, <2>2, CallTypes, ActsKeeps
<1>12. ASSUME Release(q), Goto(a, "user"), UNCHANGED <<th, how>>, done' \subseteq done \cup {w}
       PROVE  ThreadsInv'
  <2>1. "user" \in Calling \ {"created"} /\ "user" \notin JoinCalls
    BY DEF Calling, JoinCalls
  <2>2. pc'[a] = "user"
    BY <1>1, <1>12, <2>1, CallGoes
  <2>3. CallStep(a, "user")
    BY <1>1, <1>3, <1>8, <1>12, <2>1, CallGoes, CallTypes DEF CallStep
  <2>4. Joined' /\ got' \subseteq Workers \X Statuses
    BY <1>1, <1>3, <2>3, CallStepJoined DEF Detaches
  <2> QED
    BY <2>2, <2>3, <2>4, DoesNothing, CallStepKeeps
<1>13. CancelPending < Canceling /\ t.state \in 0 .. 7
  BY <1>6 DEF CancelPending, Canceling, Thread
<1>14. t.state < CancelPending => t.state < Canceling
  BY <1>13 DEF CancelPending, Canceling
<1> QED
  BY <1>7, <1>9, <1>10, <1>11, <1>12, <1>14

\* pthread_detach has the lock: the thread is detached, or it has ended and its
\* structure is to be destroyed.
LEMMA DetachDecidesKeeps == ASSUME ThreadsInv, NEW a \in Actors, DetachDecides(a) PROVE ThreadsInv'
<1>1. /\ pc[a] \in Calling \ {"user"} /\ pc[a] = "detachLock" /\ pc[a] \in AboutOne
  BY DEF DetachDecides, Calling, AboutOne, JoinCalls
<1>2. PICK w \in Workers : w = arg[a]
  BY <1>1 DEF ThreadsInv, ThreadsType, Places
<1>3. UNCHANGED <<pool, fresh, self, handle, known, how, armed, aimed, done, got, final>>
  BY DEF DetachDecides, names, history
<1>4. Lives(w) /\ ~th[handle[w].p].detached /\ pc[w] # "off" /\ ThreadsType /\ Work(w) /\ reuse = a
  BY <1>1, <1>2, DoingOf DEF Doing, AboutOne, JoinCalls, ThreadsInv
<1>5. PICK q \in Structs : q = handle[w].p
  BY <1>4, Pointers DEF Lives
<1>6. /\ Holds(a, q) /\ Release(q) /\ \A r \in Structs : Wants(a, r) => r = q
  BY <1>1, <1>2, <1>5 DEF DetachDecides, Target, Wants, OwnLocking
<1>7. \/ th[q].state # Last /\ Sets(q, "detached", TRUE) /\ Goto(a, "user")
      \/ th' = th /\ Goto(a, "detachWait")
  BY <1>2, <1>5 DEF DetachDecides, Target
<1>8. CASE th' = th /\ Goto(a, "detachWait")
  <2>1. "detachWait" \in Calling \ {"created"} /\ pc[a] \in JoinCalls
    BY <1>1 DEF Calling, JoinCalls
  <2>2. /\ pc'[a] = "detachWait" /\ arg' = arg /\ \A b \in Actors \ {a} : pc'[b] = pc[b]
    BY <1>1, <1>8, <2>1, CallGoes
  <2>3. CallStep(a, "detachWait")
    BY <1>1, <1>3, <1>4, <1>6, <1>8, <2>1, <2>2, CallGoes, CallTypes DEF CallStep
  <2>4. Joined' /\ got' \subseteq Workers \X Statuses
    BY <1>3, <2>2, <2>3, CallStepJoined DEF Detaches
  <2>5. Lives(w)' /\ pc'[w] # "off"
    BY <1>3, <1>4, <1>8, <2>2 DEF Lives, Valid, Actors
  <2>6. Doing(a)'
    BY <1>2, <1>3, <1>4, <1>8, <2>2, <2>5 DEF Doing, Joining, CancelCalls
  <2> QED
    BY <2>3, <2>4, <2>6, CallStepKeeps
<1>9. CASE th[q].state # Last /\ Sets(q, "detached", TRUE) /\ Goto(a, "user")
  <2>1. "user" \in Calling \ {"created"} /\ "user" \notin JoinCalls
    BY DEF Calling, JoinCalls
  <2>2. /\ pc'[a] = "user" /\ Places' /\ \A b \in Actors \ {a} : pc'[b] = pc[b] /\ arg'[b] = arg[b]
    BY <1>1, <1>9, <2>1, CallGoes
  <2>3. /\ th' \in [Structs -> Thread] /\ \A r \in Structs \ {q} : th'[r] = th[r]
        /\ th'[q].x = th[q].x /\ th'[q].threadH = th[q].threadH /\ th'[q].event = th[q].event
        /\ th'[q].state = th[q].state /\ th'[q].status = th[q].status
    BY <1>4, <1>9, DetachedSet
  <2>4. /\ lockq' \in [Structs -> Seq(Actors)]
        /\ \A b \in Actors \ {a}, r \in Structs : Holds(b, r) => Holds(b, r)'
    BY <1>4, <1>6, QueueLeft
  <2>5. pc[w] \notin {"last", "gone", "off"}
    BY <1>4, <1>5, <1>9 DEF Work, Kept
  <2>6. \A d \in Drivers : self[d] = q => ~th'[q].event
    BY <2>3, ThreadsAssumption, SMTT(30) DEF ThreadsInv, Owned
  <2>7. Frame({a}, q)
    BY <1>1, <1>2, <1>3, <1>4, <1>5, <2>2, <2>3, <2>4, <2>6 DEF Frame
  <2>8. ThreadsType'
    BY <1>3, <2>2, <2>3, <2>4 DEF ThreadsInv, ThreadsType, Memory
  <2>9. Unique'
    BY <2>1, <2>2, <2>7, FrameUnique
  <2>10. Queued'
    BY <1>6, <2>7, FrameQueuedLeaves
  <2>11. Joined'
    BY <1>2, <1>3, <2>5, <2>7, FrameJoined
  <2>12. Lives(w)' /\ pc'[w] # "off"
    BY <1>4, <2>2, <2>5, <2>7, FrameLives DEF Actors
  <2>13. Work(w)'
    <3>1. pc'[w] = pc[w] \/ (w = a /\ pc'[w] = "user")
      BY <2>2 DEF Actors
    <3>2. Known(w)'
      BY <1>3, <1>4, <2>5, <2>12, <3>1 DEF Work, Known, Alive
    <3>3. Kept(w)'
      BY <1>1, <1>3, <1>4, <1>5, <2>3, <2>5, <3>1 DEF Work, Kept
    <3>4. Aimed(w)'
      BY <1>1, <1>3, <1>4, <3>1 DEF Work, Aimed
    <3> QED
      BY <3>2, <3>3, <3>4 DEF Work
  <2>14. ASSUME NEW v \in Workers, v = a \/ (Lives(v) /\ handle[v].p = q) PROVE Work(v)'
    <3>1. CASE v = w
      BY <2>13, <3>1
    <3>2. CASE v # w
      <4>1. v = a
        BY <1>4, <1>5, <2>14, <3>2 DEF ThreadsInv, Owned, Owns, Actors
      <4>2. self[v] # q /\ self[v] \in Structs
        BY <1>1, <1>4, <1>5, <3>2, <4>1, SelfIsTarget, AliveHas DEF Alive
      <4> QED
        BY <1>1, <1>3, <2>1, <2>2, <2>3, <2>7, <4>1, <4>2, CallWork
    <3> QED
      BY <3>1, <3>2
  <2> QED
    BY <2>2, <2>7, <2>8, <2>9, <2>10, <2>11, <2>14, DoesNothing, FrameKeeps
<1> QED
  BY <1>7, <1>8, <1>9

\* The target is told that it is to end.
LEMMA CancelSetsKeeps == ASSUME ThreadsInv, NEW a \in Actors, CancelSets(a) PROVE ThreadsInv'
<1>1. /\ pc[a] \in Calling \ {"user"} /\ pc[a] = "cancelSet" /\ pc[a] \in AboutOne
  BY DEF CancelSets, Calling, AboutOne, CancelCalls
<1>2. PICK w \in Workers : w = arg[a]
  BY <1>1 DEF ThreadsInv, ThreadsType, Places
<1>3. /\ UNCHANGED <<pool, fresh, self, handle, known, reuse, how, armed, aimed, got, final>>
      /\ done' = done \cup {w}
  BY <1>2 DEF CancelSets, names, history
<1>4. /\ Lives(w) /\ w \in aimed /\ pc[w] \notin {"off", "last", "gone"} /\ Holds(a, handle[w].p)
      /\ ThreadsType /\ Work(w)
  BY <1>1, <1>2, DoingOf DEF Doing, AboutOne, CancelCalls, ThreadsInv
<1>5. PICK q \in Structs : q = handle[w].p
  BY <1>4, Pointers DEF Lives
<1>6. /\ Holds(a, q) /\ Release(q) /\ Goto(a, "user") /\ \A r \in Structs : Wants(a, r) => r = q
      /\ th' = [th EXCEPT ![q].state = CancelPending, ![q].event = TRUE]
  BY <1>1, <1>2, <1>4, <1>5 DEF CancelSets, Target, Wants, OwnLocking
<1>7. "user" \in Calling \ {"created"} /\ "user" \notin JoinCalls /\ pc[a] \notin Detaches
  BY <1>1 DEF Calling, JoinCalls, Detaches
<1>8. /\ pc'[a] = "user" /\ Places' /\ \A b \in Actors \ {a} : pc'[b] = pc[b] /\ arg'[b] = arg[b]
  BY <1>1, <1>6, <1>7, CallGoes
<1>9. /\ th' \in [Structs -> Thread] /\ \A r \in Structs \ {q} : th'[r] = th[r]
      /\ th'[q].x = th[q].x /\ th'[q].detached = th[q].detached /\ th'[q].threadH = th[q].threadH
      /\ th'[q].event /\ th'[q].state = CancelPending
  BY <1>4, <1>6, PendingSet
<1>10. /\ lockq' \in [Structs -> Seq(Actors)]
       /\ \A b \in Actors \ {a}, r \in Structs : Holds(b, r) => Holds(b, r)'
  BY <1>4, <1>6, QueueLeft
<1>11. \A d \in Drivers : self[d] # q
  BY <1>4, <1>5, ThreadsAssumption, SelfIsTarget DEF Actors
<1>12. Frame({a}, q)
  BY <1>1, <1>3, <1>8, <1>9, <1>10, <1>11 DEF Frame
<1>13. ThreadsType'
  BY <1>3, <1>8, <1>9, <1>10 DEF ThreadsInv, ThreadsType, Memory
<1>14. Unique' /\ Joined'
  BY <1>3, <1>7, <1>8, <1>12, FrameUnique, FrameJoined
<1>15. Queued'
  BY <1>6, <1>12, FrameQueuedLeaves
<1>16. Lives(w)'
  BY <1>4, <1>12, FrameLives
<1>17. Work(w)'
  <2>1. pc'[w] = pc[w] \/ (w = a /\ pc'[w] = "user")
    BY <1>8 DEF Actors
  <2>2. Known(w)'
    BY <1>3, <1>4, <1>16, <2>1 DEF Work, Known, Alive
  <2>3. Kept(w)'
    BY <1>1, <1>3, <1>4, <1>5, <1>9, <2>1 DEF Work, Kept
  <2>4. Aimed(w)'
    BY <1>1, <1>3, <1>4, <2>1 DEF Work, Aimed
  <2> QED
    BY <2>2, <2>3, <2>4 DEF Work
<1>18. ASSUME NEW v \in Workers, v = a \/ (Lives(v) /\ handle[v].p = q) PROVE Work(v)'
  <2>1. CASE v = w
    BY <1>17, <2>1
  <2>2. CASE v # w
    <3>1. v = a
      BY <1>4, <1>5, <1>18, <2>2 DEF ThreadsInv, Owned, Owns, Actors
    <3>2. self[v] # q /\ self[v] \in Structs
      BY <1>1, <1>4, <1>5, <2>2, <3>1, SelfIsTarget, AliveHas DEF Alive
    <3> QED
      BY <1>1, <1>3, <1>7, <1>8, <1>9, <1>12, <3>1, <3>2, CallWork
  <2> QED
    BY <2>1, <2>2
<1> QED
  BY <1>8, <1>12, <1>13, <1>14, <1>15, <1>18, DoesNothing, FrameKeeps

\* An asynchronous cancellation: the target leaves what it was in and throws.
LEMMA CancelsAsyncKeeps ==
  ASSUME Orderly, ThreadsInv, NEW a \in Actors, CancelsAsync(a) PROVE ThreadsInv'
<1>1. pc[a] = "cancelAsync" /\ pc[a] \in AboutOne
  BY DEF CancelsAsync, AboutOne, CancelCalls
<1>2. PICK w \in Workers : w = arg[a]
  BY <1>1 DEF ThreadsInv, ThreadsType, Places
<1>3. /\ UNCHANGED <<pool, fresh, self, handle, known, reuse, aimed, got, final>>
      /\ done' = done \cup {w}
  BY <1>2 DEF CancelsAsync, names, history
<1>4. /\ Lives(w) /\ w \in aimed /\ pc[w] \notin {"off", "last", "gone"} /\ Holds(a, handle[w].p)
      /\ ThreadsType /\ Work(w)
  BY <1>1, <1>2, DoingOf DEF Doing, AboutOne, CancelCalls, ThreadsInv
<1>5. PICK q \in Structs : q = handle[w].p
  BY <1>4, Pointers DEF Lives
<1>6. th[q].threadH = w
  BY <1>4, <1>5 DEF Work, Kept
<1>7. /\ pc[w] \in Outside /\ Release(q)
      /\ th' = [th EXCEPT ![q].state = Canceling, ![q].cancelState = "disable"]
      /\ how' = [how EXCEPT ![w] = "cancel"]
      /\ pc' = [pc EXCEPT ![a] = "user", ![w] = "throw"]
      /\ arg' = [arg EXCEPT ![a] = None, ![w] = None]
      /\ armed' = [armed EXCEPT ![w] = FALSE]
  BY <1>2, <1>5, <1>6 DEF CancelsAsync, Target, Orderly, Disarm
<1>8. PICK A \in SUBSET Actors : A = {a, w}
  BY DEF Actors
<1>9. /\ a # w /\ pc'[a] = "user" /\ pc'[w] = "throw" /\ w \in Actors
      /\ \A b \in Actors \ A : pc'[b] = pc[b] /\ arg'[b] = arg[b] /\ how'[b] = how[b]
      /\ how'[w] = "cancel" /\ how'[a] = how[a]
  BY <1>1, <1>4, <1>7, <1>8 DEF Outside, ThreadsType, Memory, Places, Actors
<1>10. Places'
  <2>1. {"user", "throw"} \cap AboutOne = {} /\ "user" \in DriverPlaces
        /\ "user" \in WorkerPlaces /\ "throw" \in WorkerPlaces
    BY DEF AboutOne, JoinCalls, CancelCalls, DriverPlaces, WorkerPlaces
  <2>2. /\ pc' \in [Actors -> DriverPlaces \cup WorkerPlaces]
        /\ arg' \in [Actors -> Workers \cup {None}]
    BY <1>4, <1>7, <2>1 DEF ThreadsType, Places
  <2>3. \A d \in Drivers : pc'[d] \in DriverPlaces
    BY <1>4, <1>8, <1>9, <2>1, ThreadsAssumption DEF ThreadsType, Places, Actors
  <2>4. \A v \in Workers : pc'[v] \in WorkerPlaces
    BY <1>4, <1>8, <1>9, <2>1 DEF ThreadsType, Places, Actors
  <2>5. \A b \in Actors : pc'[b] \in AboutOne => arg'[b] \in Workers
    BY <1>4, <1>8, <1>9, <2>1 DEF ThreadsType, Places
  <2> QED
    BY <2>2, <2>3, <2>4, <2>5 DEF Places
<1>11. /\ th' \in [Structs -> Thread] /\ \A r \in Structs \ {q} : th'[r] = th[r]
       /\ th'[q].x = th[q].x /\ th'[q].detached = th[q].detached /\ th'[q].threadH = th[q].threadH
       /\ th'[q].event = th[q].event /\ th'[q].state = Canceling
  BY <1>4, <1>7, CancelingSet
<1>12. /\ lockq' \in [Structs -> Seq(Actors)]
       /\ \A b \in Actors \ {a}, r \in Structs : Holds(b, r) => Holds(b, r)'
  BY <1>4, <1>5, <1>7, QueueLeft
<1>13. \A d \in Drivers : self[d] # q
  BY <1>4, <1>5, ThreadsAssumption, SelfIsTarget DEF Actors
<1>14. Frame(A, q)
  <2>1. \A b \in A : /\ pc[b] \notin {"off", "gone", "create"}
                     /\ pc'[b] \notin {"off", "gone", "create", "last"}
    BY <1>1, <1>7, <1>8, <1>9 DEF Outside
  <2>2. \A b \in Actors \ A, r \in Structs : Holds(b, r) => Holds(b, r)'
    BY <1>8, <1>12
  <2> QED
    BY <1>3, <1>9, <1>11, <1>13, <2>1, <2>2 DEF Frame
<1>15. ThreadsType'
  BY <1>3, <1>4, <1>7, <1>10, <1>11, <1>12 DEF ThreadsType, Memory, Hows
<1>16. Unique'
  <2>1. \A b \in A : pc'[b] \notin JoinCalls
    BY <1>8, <1>9 DEF JoinCalls
  <2> QED
    BY <1>14, <2>1, FrameUnique
<1>17. Joined'
  <2>1. \A b \in A : pc[b] \notin Detaches
    BY <1>1, <1>7, <1>8 DEF Outside, Detaches
  <2> QED
    BY <1>3, <1>14, <2>1, FrameJoined
<1>18. Queued'
  <2>1. \A b \in A, r \in Structs : Wants(b, r) => b = a /\ r = q
    BY <1>1, <1>2, <1>5, <1>7, <1>8 DEF Wants, Outside, Locking, OwnLocking
  <2> QED
    BY <1>4, <1>5, <1>7, <1>8, <1>14, <2>1, FrameQueuedLeaves
<1>19. Lives(w)'
  BY <1>4, <1>14, FrameLives
<1>20. Work(w)'
  <2>1. Known(w)'
    BY <1>3, <1>4, <1>9, <1>19 DEF Work, Known, Alive
  <2>2. Kept(w)'
    <3>1. Canceling # CancelPending
      BY DEF Canceling, CancelPending
    <3> QED
      BY <1>3, <1>4, <1>5, <1>6, <1>9, <1>11, <3>1 DEF Work, Kept
  <2>3. Aimed(w)'
    BY <1>3, <1>4 DEF Aimed
  <2> QED
    BY <2>1, <2>2, <2>3 DEF Work
<1>21. ASSUME NEW v \in Workers, v \in A \/ (Lives(v) /\ handle[v].p = q) PROVE Work(v)'
  <2>1. CASE v = w
    BY <1>20, <2>1
  <2>2. CASE v # w
    <3>1. v = a
      BY <1>4, <1>5, <1>8, <1>21, <2>2 DEF ThreadsInv, Owned, Owns, Actors
    <3>2. self[v] # q /\ self[v] \in Structs
      BY <1>1, <1>4, <1>5, <2>2, <3>1, SelfIsTarget, AliveHas DEF Alive
    <3>3. pc[v] \in Calling /\ pc'[v] \in Calling
      BY <1>1, <1>9, <3>1 DEF Calling, CancelCalls
    <3>4. v \in A /\ how'[v] = how[v] /\ th'[self[v]] = th[self[v]]
      BY <1>8, <1>9, <1>11, <3>1, <3>2
    <3> QED
      BY <1>14, <3>3, <3>4, CallWork
  <2> QED
    BY <2>1, <2>2
<1>22. \A b \in A : Doing(b)'
  BY <1>8, <1>9, ThreadsAssumption DEF Doing, AboutOne, Joining, JoinCalls, CancelCalls
<1> QED
  BY <1>14, <1>15, <1>16, <1>17, <1>18, <1>21, <1>22, FrameKeeps

-----------------------------------------------------------------------------
(* The steps that give a structure to a thread or free it *)

\* The actors of A go on, and only x, if it is a worker, gets or loses the
\* structure s.
Shift(A, x, s) ==
  /\ \A b \in Actors \ A : pc'[b] = pc[b] /\ arg'[b] = arg[b] /\ how'[b] = how[b] /\ self'[b] = self[b]
  /\ \A a \in A :
       /\ pc[a] \notin {"gone"} \cup Locking \cup OwnLocking /\ pc'[a] # "off"
       /\ pc[a] = "off" => a = x
       /\ pc[a] \in Detaches => arg[a] = x
  /\ \A r \in Structs \ {s} : lockq'[r] = lockq[r] /\ th'[r] = th[r]
  /\ s \in Structs => lockq'[s] = lockq[s] \/ lockq'[s] = <<>>
  /\ \A v \in Workers \ {x} :
       /\ handle'[v] = handle[v] /\ (Lives(v)' <=> Lives(v))
       /\ Lives(v) => handle[v].p # s
  /\ x \in Workers => pc[x] # "gone" \/ ~Lives(x)'
  /\ \A v \in Workers \ A : final'[v] = final[v]
  /\ reuse' = reuse /\ known' = known /\ aimed' = aimed /\ got' = got
  /\ \A b \in Actors \ A : pc[b] \in AboutOne \ {"detachTest", "created"} => arg[b] # x
  /\ \A b \in Actors \ A, a \in A :
       pc[b] \in {"cancelSet", "cancelAsync"} /\ arg[b] = a => pc'[a] \notin {"last", "gone"}

LEMMA ShiftWork ==
  ASSUME ThreadsInv, NEW A \in SUBSET Actors, NEW x, NEW s, Shift(A, x, s),
         NEW v \in Workers, v \notin A, v # x
  PROVE  Work(v)'
<1>1. /\ pc'[v] = pc[v] /\ how'[v] = how[v] /\ self'[v] = self[v] /\ handle'[v] = handle[v]
      /\ (Lives(v)' <=> Lives(v)) /\ final'[v] = final[v] /\ known' = known /\ aimed' = aimed
      /\ Work(v) /\ ThreadsType
  BY DEF Shift, Actors, ThreadsInv
<1>2. Known(v)'
  BY <1>1 DEF Work, Known, Alive
<1>3. Kept(v)'
  <2>1. Lives(v) => th'[handle[v].p] = th[handle[v].p]
    BY <1>1, Pointers DEF Shift, Lives
  <2> QED
    BY <1>1, <2>1 DEF Work, Kept
<1>4. Aimed(v)'
  BY <1>1 DEF Work, Aimed
<1> QED
  BY <1>2, <1>3, <1>4 DEF Work

LEMMA ShiftDoing ==
  ASSUME ThreadsInv, NEW A \in SUBSET Actors, NEW x, NEW s, Shift(A, x, s),
         NEW b \in Actors, b \notin A
  PROVE  Doing(b)'
<1>1. /\ pc'[b] = pc[b] /\ arg'[b] = arg[b] /\ self'[b] = self[b]
      /\ reuse' = reuse /\ aimed' = aimed /\ ThreadsType
  BY DEF Shift, ThreadsInv
<1>2. CASE pc[b] \notin AboutOne
  BY <1>1, <1>2 DEF Doing, AboutOne, Joining, JoinCalls, CancelCalls
<1>3. CASE pc[b] \in {"detachTest", "created"}
  <2>1. arg[b] \in Workers /\ pc[arg[b]] # "off"
    BY <1>1, <1>3, DoingOf DEF Doing, ThreadsType, Places, AboutOne, JoinCalls
  <2>2. pc'[arg[b]] # "off"
    BY <2>1 DEF Shift, Actors
  <2> QED
    BY <1>1, <1>3, <2>2 DEF Doing, Joining, CancelCalls
<1>4. CASE pc[b] \in AboutOne \ {"detachTest", "created"}
  <2>1. PICK w \in Workers : w = arg[b]
    BY <1>1, <1>4 DEF ThreadsType, Places
  <2>2. /\ w # x /\ handle'[w] = handle[w] /\ (Lives(w)' <=> Lives(w))
        /\ (Lives(w) => handle[w].p # s)
    BY <1>4, <2>1 DEF Shift
  <2>3. Lives(w) /\ Doing(b)
    BY <1>4, <2>1, DoingOf DEF Doing, AboutOne, Joining, JoinCalls
  <2>4. /\ th'[handle[w].p] = th[handle[w].p] /\ lockq'[handle[w].p] = lockq[handle[w].p]
    BY <1>1, <2>2, <2>3, Pointers DEF Shift, Lives
  <2>5. /\ pc[w] = "off" <=> pc'[w] = "off"
        /\ pc[w] = "gone" => pc'[w] = "gone"
    BY <2>2 DEF Shift, Actors
  <2>6. pc[b] \in {"cancelSet", "cancelAsync"} => pc'[w] \notin {"last", "gone"}
    <3>1. CASE w \in A
      BY <2>1, <3>1 DEF Shift
    <3>2. CASE w \notin A
      BY <2>1, <2>3, <3>2 DEF Shift, Doing, Actors
    <3> QED
      BY <3>1, <3>2
  <2>7. pc[b] \in {"cancelSet", "cancelAsync"} => Holds(b, handle[w].p)'
    BY <2>1, <2>2, <2>3, <2>4 DEF Doing, Holds
  <2>8. /\ pc[b] = "create" => pc'[w] = "off"
        /\ pc[b] # "create" => pc'[w] # "off"
        /\ pc[b] \in Joining \cup {"detachLock", "detachWait"} => ~th'[handle'[w].p].detached
        /\ pc[b] = "joined" => pc'[w] = "gone"
        /\ pc[b] = "detachLock" => reuse' = b
        /\ pc[b] \in CancelCalls => w \in aimed'
        /\ b \in Drivers /\ pc[b] \in {"joinTest", "join"} => self'[b] # None
    BY <1>1, <1>4, <2>1, <2>2, <2>3, <2>4, <2>5 DEF Doing
  <2> QED
    BY <1>1, <1>4, <2>1, <2>2, <2>3, <2>6, <2>7, <2>8 DEF Doing
<1> QED
  BY <1>2, <1>3, <1>4

LEMMA ShiftQueued ==
  ASSUME ThreadsInv, NEW A \in SUBSET Actors, NEW x, NEW s, Shift(A, x, s)
  PROVE  Queued'
<1> SUFFICES ASSUME NEW r \in Structs
             PROVE  /\ \A i, j \in 1 .. Len(lockq'[r]) : lockq'[r][i] = lockq'[r][j] => i = j
                    /\ \A b \in Actors, i \in 1 .. Len(lockq'[r]) : lockq'[r][i] = b => Wants(b, r)'
  BY DEF Queued
<1>1. lockq'[r] = lockq[r] \/ lockq'[r] = <<>>
  BY DEF Shift
<1>2. CASE lockq'[r] = <<>>
  BY <1>2
<1>3. CASE lockq'[r] = lockq[r]
  <2>1. ASSUME NEW b \in Actors, NEW i \in 1 .. Len(lockq[r]), lockq[r][i] = b
        PROVE  Wants(b, r)'
    <3>1. Wants(b, r)
      BY <2>1 DEF ThreadsInv, Queued
    <3>2. b \notin A
      BY <3>1 DEF Wants, Shift
    <3>3. pc'[b] = pc[b] /\ arg'[b] = arg[b] /\ self'[b] = self[b]
      BY <3>2 DEF Shift
    <3>4. CASE pc[b] \in Locking /\ handle[arg[b]].p = r
      <4>1. arg[b] \in Workers /\ arg[b] # x
        BY <3>2, <3>4 DEF Shift, ThreadsInv, ThreadsType, Places, Locking, AboutOne, JoinCalls,
                         CancelCalls
      <4>2. handle'[arg[b]] = handle[arg[b]]
        BY <4>1 DEF Shift
      <4> QED
        BY <3>3, <3>4, <4>2 DEF Wants
    <3>5. CASE pc[b] \in OwnLocking /\ self[b] = r
      BY <3>3, <3>5 DEF Wants
    <3> QED
      BY <3>1, <3>4, <3>5 DEF Wants
  <2> QED
    BY <1>3, <2>1 DEF ThreadsInv, Queued
<1> QED
  BY <1>1, <1>2, <1>3

LEMMA ShiftJoined ==
  ASSUME ThreadsInv, NEW A \in SUBSET Actors, NEW x, NEW s, Shift(A, x, s)
  PROVE  Joined'
<1> SUFFICES ASSUME NEW g \in got
             PROVE  /\ pc'[g[1]] = "gone" /\ g[2] = final'[g[1]]
                    /\ Lives(g[1])' =>
                         \E a \in Actors : arg'[a] = g[1] /\ pc'[a] \in Detaches
  BY DEF Joined, Detaches, Shift
<1>1. PICK w \in Workers : w = g[1]
  BY CallTypes
<1>2. /\ pc[w] = "gone" /\ g[2] = final[w]
      /\ Lives(w) => \E a \in Actors : arg[a] = w /\ pc[a] \in Detaches
  BY <1>1 DEF ThreadsInv, Joined, Detaches
<1>3. w \notin A /\ pc'[w] = "gone" /\ final'[w] = final[w]
  BY <1>2 DEF Shift, Actors
<1>4. ASSUME Lives(w)' PROVE \E a \in Actors : arg'[a] = w /\ pc'[a] \in Detaches
  <2>1. w # x
    BY <1>2, <1>4 DEF Shift
  <2>2. PICK a \in Actors : arg[a] = w /\ pc[a] \in Detaches
    BY <1>2, <1>4, <2>1 DEF Shift
  <2>3. a \notin A
    BY <2>1, <2>2 DEF Shift
  <2> QED
    BY <2>2, <2>3 DEF Shift
<1> QED
  BY <1>1, <1>2, <1>3, <1>4

LEMMA ShiftKeeps ==
  ASSUME ThreadsInv, NEW A \in SUBSET Actors, NEW x, NEW s, Shift(A, x, s),
         ThreadsType', Owned', Unique',
         \A w \in Workers : w \in A \/ w = x => Work(w)',
         \A a \in A : Doing(a)'
  PROVE  ThreadsInv'
<1>1. ASSUME NEW w \in Workers PROVE Work(w)'
  BY ShiftWork
<1>2. ASSUME NEW a \in Actors PROVE Doing(a)'
  BY ShiftDoing
<1> QED
  BY <1>1, <1>2, ShiftQueued, ShiftJoined DEF ThreadsInv

\* ptw32_new gives a structure that no thread has.
LEMMA NewLives ==
  ASSUME ThreadsInv, NEW s \in Structs, NEW d \in BOOLEAN, NEW h \in Actors \cup {None}, New(s, d, h),
         NEW v \in Workers, handle'[v] = handle[v]
  PROVE  /\ Lives(v)' <=> Lives(v)
         /\ Lives(v) => handle[v].p # s
<1>1. ThreadsType /\ Owned
  BY DEF ThreadsInv
<1>2. ~Taken(s) /\ \A r \in Structs : th'[r].x = th[r].x
  BY <1>1, NewMade
<1>3. Lives(v) => handle[v].p # s
  BY <1>1, <1>2 DEF Owned, Owns, Actors
<1> QED
  BY <1>1, <1>2, <1>3, Pointers DEF Lives, Valid

\* One more actor has one more structure.
LEMMA NewOwned ==
  ASSUME ThreadsInv, NEW s \in Structs, NEW d \in BOOLEAN, NEW h \in Actors \cup {None}, New(s, d, h),
         NEW a \in Actors,
         \A b \in Actors, r \in Structs : Owns(b, r)' => Owns(b, r) \/ (b = a /\ r = s),
         \A w \in Workers : handle'[w] # None => handle'[w].x <= th'[handle'[w].p].x,
         \A b \in Drivers : self'[b] = self[b] \/ (b = a /\ self'[b] = s)
  PROVE  Owned'
<1>1. ThreadsType /\ Owned
  BY DEF ThreadsInv
<1>2. /\ ~Taken(s) /\ Taken(s)' /\ \A r \in Structs : Taken(r) => Taken(r)'
      /\ \A r \in Structs \ {s} : th'[r] = th[r]
      /\ ~th'[s].event
      /\ \A i, j \in 1 .. Len(pool') : pool'[i] = pool'[j] => i = j
      /\ \A i \in 1 .. Len(pool') : pool'[i] \notin fresh'
  BY <1>1, NewMade
<1>3. \A b \in Actors : ~Owns(b, s)
  BY <1>1, <1>2 DEF Owned
<1>4. \A r \in Structs, b \in Actors : Owns(b, r)' => Taken(r)'
  BY <1>1, <1>2 DEF Owned
<1>5. \A r \in Structs, b, c \in Actors : Owns(b, r)' /\ Owns(c, r)' => b = c
  BY <1>1, <1>3 DEF Owned
<1>6. \A b \in Drivers : self'[b] # None => ~th'[self'[b]].event
  <2> SUFFICES ASSUME NEW b \in Drivers, self'[b] # None PROVE ~th'[self'[b]].event
    OBVIOUS
  <2>1. CASE self'[b] = s
    BY <1>2, <2>1
  <2>2. CASE self'[b] # s
    BY <1>1, <1>2, <2>2 DEF ThreadsType, Memory, Owned, Actors
  <2> QED
    BY <2>1, <2>2
<1> QED
  BY <1>2, <1>4, <1>5, <1>6 DEF Owned

LEMMA SelfKeeps == ASSUME ThreadsInv, NEW a \in Actors, Self(a) PROVE ThreadsInv'
<1> SUFFICES ASSUME self[a] = None PROVE ThreadsInv'
  BY HasSelfKeeps
<1>1. a \in Drivers /\ a \notin Workers
  <2>1. a \in Workers => Alive(a)
    BY DEF Self, Alive
  <2> QED
    BY <2>1, AliveHas, ThreadsAssumption DEF Actors
<1>2. PICK s \in Structs : New(s, TRUE, a) /\ self' = [self EXCEPT ![a] = s]
  BY DEF Self
<1>3. PICK d \in BOOLEAN, h \in Actors \cup {None} : New(s, d, h)
  BY <1>2
<1>4. PICK l : l = IF pc[a] = "joinSelf" THEN "joinTest" ELSE "cancelEnter"
  OBVIOUS
<1>5. /\ Goto(a, l) /\ l \in Calling \ {"created"} /\ pc[a] \in Calling \ {"user"}
      /\ pc[a] \in {"joinSelf", "cancelSelf"} /\ l # "user"
      /\ UNCHANGED <<reuse, handle, known, how, armed, aimed, done, got, final>>
  BY <1>4 DEF Self, Calling, JoinCalls, CancelCalls, history
<1>6. /\ pc'[a] = l /\ \A b \in Actors \ {a} : pc'[b] = pc[b] /\ arg'[b] = arg[b]
      /\ Places' /\ arg' = arg /\ arg[a] \in Workers
  BY <1>5, CallGoes
<1>7. PICK w \in Workers : w = arg[a]
  BY <1>6
<1>8. ThreadsType /\ Owned /\ Unique
  BY DEF ThreadsInv
<1>9. /\ th' \in [Structs -> Thread] /\ \A r \in Structs \ {s} : th'[r] = th[r]
      /\ th'[s].x = th[s].x /\ pool' \in Seq(Structs) /\ fresh' \subseteq Structs
      /\ lockq' = [lockq EXCEPT ![s] = <<>>]
  BY <1>3, <1>8, NewMade
<1>10. /\ lockq' \in [Structs -> Seq(Actors)] /\ lockq'[s] = <<>>
       /\ \A r \in Structs \ {s} : lockq'[r] = lockq[r]
  BY <1>8, <1>9, QueueCleared
<1>11. \A v \in Workers : /\ Lives(v)' <=> Lives(v)
                          /\ Lives(v) => handle[v].p # s
  BY <1>3, <1>5, NewLives
<1>12. Owned'
  <2>1. \A b \in Actors, r \in Structs : Owns(b, r)' => Owns(b, r) \/ (b = a /\ r = s)
    BY <1>1, <1>2, <1>5, <1>8, <1>11 DEF Owns, ThreadsType, Memory
  <2>2. \A v \in Workers : handle'[v] # None => handle'[v].x <= th'[handle'[v].p].x
    <3> SUFFICES ASSUME NEW v \in Workers, handle[v] # None
                 PROVE  handle[v].x <= th'[handle[v].p].x
      BY <1>5
    <3>1. handle[v].x <= th[handle[v].p].x /\ handle[v].p \in Structs
      BY <1>8, Pointers DEF Owned
    <3> QED
      BY <1>9, <3>1
  <2>3. \A b \in Drivers : self'[b] = self[b] \/ (b = a /\ self'[b] = s)
    BY <1>2, <1>8 DEF ThreadsType, Memory, Actors
  <2> QED
    BY <1>3, <2>1, <2>2, <2>3, NewOwned
<1>13. Unique'
  <2>1. \A b \in Actors : /\ pc'[b] \in JoinCalls => pc[b] \in JoinCalls
                          /\ pc'[b] = "create" => pc[b] = "create"
    BY <1>4, <1>5, <1>6 DEF JoinCalls
  <2> QED
    BY <1>6, <1>8, <2>1 DEF Unique
<1>14. ThreadsType'
  <2>1. self' \in [Actors -> Structs \cup {None}]
    BY <1>2, <1>8 DEF ThreadsType, Memory
  <2> QED
    BY <1>5, <1>6, <1>8, <1>9, <1>10, <2>1 DEF ThreadsType, Memory
<1>15. PICK A \in SUBSET Actors : A = {a}
  OBVIOUS
<1>16. Shift(A, None, s)
  <2>1. \A b \in Actors \ A : pc'[b] = pc[b] /\ arg'[b] = arg[b] /\ how'[b] = how[b] /\ self'[b] = self[b]
    BY <1>2, <1>5, <1>6, <1>8, <1>15 DEF ThreadsType, Memory
  <2>2. \A b \in A :
          /\ pc[b] \notin {"gone", "off"} \cup Locking \cup OwnLocking \cup Detaches
          /\ pc'[b] \notin {"off", "last", "gone"}
    BY <1>4, <1>5, <1>6, <1>15 DEF Locking, OwnLocking, Detaches
  <2>3. \A b \in Actors : pc[b] \in AboutOne => arg[b] # None
    BY <1>8, ThreadsAssumption DEF ThreadsType, Places
  <2> QED
    BY <1>5, <1>9, <1>10, <1>11, <2>1, <2>2, <2>3, ThreadsAssumption DEF Shift
<1>17. Doing(a)'
  <2>1. Lives(w)' <=> Lives(w)
    BY <1>11
  <2>2. pc[w] # "off" /\ pc'[w] # "off"
    BY <1>1, <1>5, <1>6, <1>7, DoingOf DEF Doing, AboutOne, JoinCalls, CancelCalls, Actors
  <2>3. Lives(w) /\ th'[handle[w].p] = th[handle[w].p] /\ Doing(a)
    <3>1. Lives(w) /\ Doing(a)
      BY <1>5, <1>7, DoingOf DEF Doing, Joining, CancelCalls
    <3> QED
      BY <1>8, <1>9, <1>11, <3>1, Pointers DEF Lives
  <2>4. self'[a] # None
    BY <1>2, <1>8, ThreadsAssumption DEF ThreadsType, Memory
  <2>5. CASE pc[a] = "joinSelf"
    <3>1. pc'[a] = "joinTest" /\ ~th[handle[w].p].detached
      BY <1>4, <1>6, <1>7, <2>3, <2>5 DEF Doing, Joining
    <3> QED
      BY <1>5, <1>6, <1>7, <2>1, <2>2, <2>3, <2>4, <3>1 DEF Doing, CancelCalls
  <2>6. CASE pc[a] = "cancelSelf"
    <3>1. pc'[a] = "cancelEnter" /\ w \in aimed
      BY <1>4, <1>6, <1>7, <2>3, <2>6 DEF Doing, CancelCalls
    <3> QED
      BY <1>5, <1>6, <1>7, <2>1, <2>2, <2>3, <3>1 DEF Doing, Joining
  <2> QED
    BY <1>5, <2>5, <2>6
<1>18. \A v \in Workers : ~(v \in A \/ v = None)
  BY <1>1, <1>15, ThreadsAssumption
<1> QED
  BY <1>12, <1>13, <1>14, <1>15, <1>16, <1>17, <1>18, ShiftKeeps

LEMMA CreateKeeps ==
  ASSUME ThreadsInv, NEW a \in Drivers, NEW w \in Workers, Create(a, w) PROVE ThreadsInv'
<1>1. pc[a] = "user" /\ pc[w] = "off" /\ handle[w] = None /\ Call(a, w, "create")
      /\ UNCHANGED <<reuse, self, known, how, armed, aimed, done, got, final>>
  BY DEF Create, history
<1>2. PICK s \in Structs, d \in BOOLEAN :
        New(s, d, None) /\ handle' = [handle EXCEPT ![w] = [p |-> s, x |-> th[s].x]]
  BY DEF Create
<1>3. PICK h \in Actors \cup {None} : New(s, d, h)
  BY <1>2
<1>4. ThreadsType /\ Owned /\ Unique /\ Work(w) /\ a \in Actors /\ w \in Actors /\ a # w
  BY ThreadsAssumption DEF ThreadsInv, Actors
<1>5. /\ pc'[a] = "create" /\ arg'[a] = w
      /\ \A b \in Actors \ {a} : pc'[b] = pc[b] /\ arg'[b] = arg[b]
      /\ Places'
  <2>1. "create" \in DriverPlaces
    BY DEF DriverPlaces
  <2> QED
    BY <1>1, <1>4, <2>1, ThreadsAssumption DEF Call, ThreadsType, Places, Actors
<1>6. /\ th' \in [Structs -> Thread] /\ \A r \in Structs \ {s} : th'[r] = th[r]
      /\ th'[s].x = th[s].x /\ ~th'[s].event /\ th'[s].state = Initial
      /\ pool' \in Seq(Structs) /\ fresh' \subseteq Structs
      /\ lockq' = [lockq EXCEPT ![s] = <<>>]
  BY <1>3, <1>4, NewMade
<1>7. /\ lockq' \in [Structs -> Seq(Actors)] /\ lockq'[s] = <<>>
      /\ \A r \in Structs \ {s} : lockq'[r] = lockq[r]
  BY <1>4, <1>6, QueueCleared
<1>8. PICK n \in Handle : n = [p |-> s, x |-> th[s].x]
  BY <1>4 DEF ThreadsType, Memory, Handle, Thread
<1>9. /\ handle' = [handle EXCEPT ![w] = n] /\ n.p = s /\ n.x = th[s].x /\ n # None
  BY <1>2, <1>8, ThreadsAssumption DEF Handle
<1>10. /\ handle' \in [Workers -> Handle \cup {None}] /\ handle'[w] = n
       /\ \A v \in Workers \ {w} : handle'[v] = handle[v]
  BY <1>4, <1>9 DEF ThreadsType, Memory
<1>11. \A v \in Workers \ {w} : /\ Lives(v)' <=> Lives(v)
                                /\ Lives(v) => handle[v].p # s
  BY <1>3, <1>10, NewLives
<1>12. Lives(w)' /\ ~Lives(w)
  BY <1>1, <1>6, <1>9, <1>10 DEF Lives, Valid
<1>13. Owned'
  <2>1. \A b \in Actors, r \in Structs : Owns(b, r)' => Owns(b, r) \/ (b = w /\ r = s)
    BY <1>1, <1>9, <1>10, <1>11 DEF Owns
  <2>2. \A v \in Workers : handle'[v] # None => handle'[v].x <= th'[handle'[v].p].x
    <3> SUFFICES ASSUME NEW v \in Workers, handle'[v] # None
                 PROVE  handle'[v].x <= th'[handle'[v].p].x
      OBVIOUS
    <3>1. CASE v = w
      <4>1. th[s].x \in Nat
        BY <1>4 DEF ThreadsType, Memory, Thread
      <4> QED
        BY <1>6, <1>9, <1>10, <3>1, <4>1
    <3>2. CASE v # w
      <4>1. handle'[v] = handle[v] /\ handle[v].x <= th[handle[v].p].x /\ handle[v].p \in Structs
        BY <1>4, <1>10, <3>2, Pointers DEF Owned
      <4> QED
        BY <1>6, <4>1
    <3> QED
      BY <3>1, <3>2
  <2>3. \A b \in Drivers : self'[b] = self[b]
    BY <1>1
  <2> QED
    BY <1>3, <1>4, <2>1, <2>2, <2>3, NewOwned
<1>14. \A b \in Actors : pc[b] \in AboutOne \ {"detachTest", "created"} => arg[b] # w
  <2>1. \A b \in Actors : pc[b] = "create" => arg[b] # w
    BY <1>12, DoingOf DEF Doing
  <2> QED
    BY <1>1, <2>1, DoingOf DEF Doing
<1>15. Unique'
  <2>1. \A b \in Actors \ {a} : pc[b] = "create" => arg[b] # w
    BY <1>14 DEF AboutOne
  <2> QED
    BY <1>4, <1>5, <2>1 DEF Unique, JoinCalls
<1>16. ThreadsType'
  BY <1>1, <1>4, <1>5, <1>6, <1>7, <1>10 DEF ThreadsType, Memory
<1>17. PICK A \in SUBSET Actors : A = {a}
  BY <1>4
<1>18. Shift(A, w, s)
  <2>1. \A b \in Actors \ A : pc'[b] = pc[b] /\ arg'[b] = arg[b] /\ how'[b] = how[b] /\ self'[b] = self[b]
    BY <1>1, <1>5, <1>17
  <2>2. \A b \in A :
          /\ pc[b] \notin {"gone", "off"} \cup Locking \cup OwnLocking \cup Detaches
          /\ pc'[b] \notin {"off", "last", "gone"}
    BY <1>1, <1>5, <1>17 DEF Locking, OwnLocking, Detaches
  <2> QED
    BY <1>1, <1>6, <1>7, <1>10, <1>11, <1>14, <2>1, <2>2 DEF Shift
<1>19. Work(w)'
  <2>1. pc'[w] = "off" /\ how'[w] = how[w] /\ self'[w] = self[w]
    BY <1>1, <1>4, <1>5
  <2>2. Known(w)'
    BY <1>1, <1>4, <2>1 DEF Work, Known, Alive
  <2>3. Kept(w)'
    BY <1>6, <1>9, <1>10, <2>1 DEF Kept, Initial, CancelPending
  <2>4. Aimed(w)'
    BY <1>1, <1>4, <2>1 DEF Work, Aimed
  <2> QED
    BY <2>2, <2>3, <2>4 DEF Work
<1>20. Doing(a)'
  BY <1>1, <1>4, <1>5, <1>12 DEF Doing, Joining, CancelCalls
<1>21. a \notin Workers
  BY ThreadsAssumption
<1> QED
  BY <1>13, <1>15, <1>16, <1>17, <1>18, <1>19, <1>20, <1>21, ShiftKeeps

\* The thread gets a Win32 thread, which runs at once.
LEMMA BeginThreadKeeps == ASSUME ThreadsInv, NEW a \in Actors, BeginThread(a) PROVE ThreadsInv'
<1>1. /\ pc[a] = "create" /\ pc[a] \in AboutOne
      /\ UNCHANGED <<lockq, reuse, pool, fresh, handle, known, arg, how, armed, aimed, done, got, final>>
  BY DEF BeginThread, AboutOne, history
<1>2. a \in Drivers /\ a \notin Workers
  BY <1>1, ThreadsAssumption
  DEF ThreadsInv, ThreadsType, Places, Actors, WorkerPlaces, OwnLocking, JoinCalls, CancelCalls
<1>3. PICK w \in Workers : w = arg[a]
  BY <1>1 DEF ThreadsInv, ThreadsType, Places
<1>4. ThreadsType /\ Owned /\ Unique /\ Work(w) /\ w \in Actors /\ Lives(w) /\ pc[w] = "off" /\ a # w
  BY <1>1, <1>2, <1>3, DoingOf DEF ThreadsInv, Doing, Actors
<1>5. PICK s \in Structs : s = handle[w].p
  BY <1>4, Pointers DEF Lives
<1>6. /\ Sets(s, "threadH", w) /\ self' = [self EXCEPT ![w] = s]
      /\ pc' = [pc EXCEPT ![a] = "created", ![w] = "start"]
  BY <1>3, <1>5 DEF BeginThread, Target
<1>7. /\ th' \in [Structs -> Thread] /\ \A r \in Structs \ {s} : th'[r] = th[r]
      /\ th'[s].x = th[s].x /\ th'[s].detached = th[s].detached /\ th'[s].event = th[s].event
      /\ th'[s].state = th[s].state /\ th'[s].status = th[s].status /\ th'[s].threadH = w
  BY <1>4, <1>6, ThreadSet
<1>8. PICK A \in SUBSET Actors : A = {a, w}
  BY <1>4
<1>9. /\ pc'[a] = "created" /\ pc'[w] = "start" /\ self'[w] = s
      /\ \A b \in Actors \ A : pc'[b] = pc[b] /\ arg'[b] = arg[b] /\ how'[b] = how[b]
      /\ \A b \in Actors \ {w} : self'[b] = self[b]
  BY <1>1, <1>4, <1>6, <1>8 DEF ThreadsType, Memory, Places
<1>10. Places'
  <2>1. /\ "created" \in DriverPlaces /\ "start" \in WorkerPlaces /\ "created" \in AboutOne
        /\ "start" \notin AboutOne
    BY DEF DriverPlaces, WorkerPlaces, AboutOne, JoinCalls, CancelCalls
  <2>2. pc' \in [Actors -> DriverPlaces \cup WorkerPlaces]
    BY <1>4, <1>6, <2>1 DEF ThreadsType, Places
  <2>3. \A d \in Drivers : pc'[d] \in DriverPlaces
    BY <1>4, <1>8, <1>9, <2>1, ThreadsAssumption DEF ThreadsType, Places, Actors
  <2>4. \A v \in Workers : pc'[v] \in WorkerPlaces
    BY <1>2, <1>4, <1>8, <1>9, <2>1 DEF ThreadsType, Places, Actors
  <2>5. \A b \in Actors : pc'[b] \in AboutOne => arg'[b] \in Workers
    BY <1>1, <1>3, <1>4, <1>8, <1>9, <2>1 DEF ThreadsType, Places
  <2> QED
    BY <1>1, <1>4, <2>2, <2>3, <2>4, <2>5 DEF ThreadsType, Places
<1>11. ThreadsType'
  <2>1. self' \in [Actors -> Structs \cup {None}]
    BY <1>4, <1>6 DEF ThreadsType, Memory
  <2> QED
    BY <1>1, <1>4, <1>7, <1>10, <2>1 DEF ThreadsType, Memory
<1>12. \A v \in Workers : Lives(v)' <=> Lives(v)
  <2> SUFFICES ASSUME NEW v \in Workers PROVE Lives(v)' <=> Lives(v)
    OBVIOUS
  <2>1. handle[v] # None => th'[handle[v].p].x = th[handle[v].p].x
    BY <1>4, <1>7, Pointers
  <2> QED
    BY <1>1, <2>1 DEF Lives, Valid
<1>13. \A v \in Workers \ {w} : Lives(v) => handle[v].p # s
  BY <1>4, <1>5 DEF Owned, Owns, Actors
<1>14. \A b \in Actors, r \in Structs : Owns(b, r)' <=> Owns(b, r)
  BY <1>1, <1>9, <1>12 DEF Owns
<1>15. Owned'
  <2>1. \A r \in Structs, b \in Actors : Owns(b, r)' => Taken(r)'
    BY <1>1, <1>4, <1>14 DEF Owned, Taken
  <2>2. \A r \in Structs, b, c \in Actors : Owns(b, r)' /\ Owns(c, r)' => b = c
    BY <1>4, <1>14 DEF Owned
  <2>3. \A v \in Workers : handle'[v] # None => handle'[v].x <= th'[handle'[v].p].x
    BY <1>1, <1>4, <1>7, Pointers DEF Owned
  <2>4. \A d \in Drivers : self'[d] # None => ~th'[self'[d]].event
    <3> SUFFICES ASSUME NEW d \in Drivers, self[d] # None PROVE ~th'[self[d]].event
      BY <1>9, ThreadsAssumption DEF Actors
    <3>1. self[d] \in Structs /\ ~th[self[d]].event
      BY <1>4 DEF ThreadsType, Memory, Owned, Actors
    <3> QED
      BY <1>7, <3>1
  <2> QED
    BY <1>1, <1>4, <2>1, <2>2, <2>3, <2>4 DEF Owned
<1>16. \A b \in Actors \ {a} : pc[b] \in AboutOne \ {"detachTest", "created"} => arg[b] # w
  <2>1. \A b \in Actors \ {a} : pc[b] = "create" => arg[b] # w
    BY <1>1, <1>3, <1>4 DEF Unique
  <2> QED
    BY <1>4, <2>1, DoingOf DEF Doing
<1>17. Unique'
  <2>1. \A b \in Actors : /\ pc'[b] \in JoinCalls => pc[b] \in JoinCalls
                          /\ pc'[b] = "create" => pc[b] = "create"
    BY <1>8, <1>9 DEF JoinCalls
  <2> QED
    BY <1>1, <1>4, <2>1 DEF Unique
<1>18. Shift(A, w, s)
  <2>1. \A b \in A :
          /\ pc[b] \notin {"gone"} \cup Locking \cup OwnLocking \cup Detaches
          /\ pc'[b] \notin {"off", "last", "gone"}
          /\ pc[b] = "off" => b = w
    BY <1>1, <1>4, <1>8, <1>9 DEF Locking, OwnLocking, Detaches
  <2> QED
    BY <1>1, <1>4, <1>7, <1>8, <1>9, <1>12, <1>13, <1>16, <2>1 DEF Shift
<1>19. Work(w)'
  <2>1. Known(w)'
    BY <1>1, <1>4, <1>5, <1>9, <1>12 DEF Work, Known, Alive, Lives
  <2>2. Kept(w)'
    BY <1>1, <1>4, <1>5, <1>7, <1>9 DEF Work, Kept
  <2>3. Aimed(w)'
    BY <1>1, <1>4, <1>9 DEF Work, Aimed
  <2> QED
    BY <2>1, <2>2, <2>3 DEF Work
<1>20. Doing(a)'
  BY <1>1, <1>3, <1>9 DEF Doing, Joining, JoinCalls, CancelCalls
<1>21. Doing(w)'
  BY <1>9, ThreadsAssumption DEF Doing, AboutOne, Joining, JoinCalls, CancelCalls
<1> QED
  BY <1>2, <1>8, <1>11, <1>15, <1>17, <1>18, <1>19, <1>20, <1>21, ShiftKeeps

\* ptw32_threadDestroy: the structure is nobody's.
LEMMA DestroyOwned ==
  ASSUME ThreadsInv, NEW w \in Workers, Lives(w), NEW s \in Structs, handle[w].p = s, Destroy(s),
         self' = self, \A v \in Workers \ {w} : handle'[v] = handle[v],
         handle'[w] = handle[w] \/ handle'[w] = None
  PROVE  /\ Owned' /\ ~Lives(w)' /\ reuse = None
         /\ \A v \in Workers \ {w} : /\ Lives(v)' <=> Lives(v)
                                     /\ Lives(v) => handle[v].p # s
         /\ th' \in [Structs -> Thread] /\ \A r \in Structs \ {s} : th'[r] = th[r]
         /\ pool' \in Seq(Structs) /\ fresh' = fresh
         /\ lockq' \in [Structs -> Seq(Actors)] /\ lockq'[s] = <<>>
         /\ \A r \in Structs \ {s} : lockq'[r] = lockq[r]
<1>1. ThreadsType /\ Owned
  BY DEF ThreadsInv
<1>2. Owns(w, s) /\ Taken(s) /\ w \in Actors
  BY <1>1 DEF Owned, Owns, Actors
<1>3. /\ reuse = None /\ \A r \in Structs \ {s} : Taken(r) => Taken(r)'
      /\ th' \in [Structs -> Thread] /\ \A r \in Structs \ {s} : th'[r] = th[r]
      /\ th'[s].x = th[s].x + 1
      /\ pool' \in Seq(Structs) /\ fresh' = fresh
      /\ \A i, j \in 1 .. Len(pool') : pool'[i] = pool'[j] => i = j
      /\ \A i \in 1 .. Len(pool') : pool'[i] \notin fresh'
      /\ lockq' = [lockq EXCEPT ![s] = <<>>]
  BY <1>1, <1>2, Destroyed
<1>4. /\ lockq' \in [Structs -> Seq(Actors)] /\ lockq'[s] = <<>>
      /\ \A r \in Structs \ {s} : lockq'[r] = lockq[r]
  BY <1>1, <1>3, QueueCleared
<1>5. th[s].x \in Nat
  BY <1>1 DEF ThreadsType, Memory, Thread
<1>6. ~Lives(w)'
  <2>1. handle[w].x = th[s].x
    BY DEF Lives, Valid
  <2> QED
    BY <1>3, <1>5, <2>1 DEF Lives, Valid
<1>7. ASSUME NEW v \in Workers \ {w}
      PROVE  (Lives(v)' <=> Lives(v)) /\ (Lives(v) => handle[v].p # s)
  <2>1. Lives(v) => handle[v].p # s
    BY <1>1, <1>2 DEF Owned, Owns, Actors
  <2>2. handle'[v] = handle[v]
    OBVIOUS
  <2>3. CASE handle[v] = None
    BY <2>2, <2>3 DEF Lives
  <2>4. CASE handle[v] # None /\ handle[v].p # s
    <3>1. handle[v].p \in Structs
      BY <1>1, <2>4, Pointers
    <3> QED
      BY <1>3, <2>1, <2>2, <2>4, <3>1 DEF Lives, Valid
  <2>5. CASE handle[v] # None /\ handle[v].p = s
    <3>1. handle[v].x <= th[s].x /\ handle[v].x \in Nat
      BY <1>1, <2>5, Pointers DEF Owned
    <3> QED
      BY <1>3, <1>5, <2>1, <2>2, <2>5, <3>1 DEF Lives, Valid
  <2> QED
    BY <2>3, <2>4, <2>5
<1>8. \A b \in Actors, r \in Structs : Owns(b, r)' => Owns(b, r) /\ r # s
  <2>1. \A b \in Actors : Owns(b, s) => b = w
    BY <1>1, <1>2 DEF Owned
  <2> QED
    BY <1>6, <1>7, <2>1 DEF Owns, Lives
<1>9. Owned'
  <2>1. \A r \in Structs, b \in Actors : Owns(b, r)' => Taken(r)'
    BY <1>1, <1>3, <1>8 DEF Owned
  <2>2. \A r \in Structs, b, c \in Actors : Owns(b, r)' /\ Owns(c, r)' => b = c
    BY <1>1, <1>8 DEF Owned
  <2>3. \A v \in Workers : handle'[v] # None => handle'[v].x <= th'[handle'[v].p].x
    <3> SUFFICES ASSUME NEW v \in Workers, handle'[v] # None
                 PROVE  handle'[v].x <= th'[handle'[v].p].x
      OBVIOUS
    <3>1. handle'[v] = handle[v] /\ handle[v] # None
      OBVIOUS
    <3>2. /\ handle[v].p \in Structs /\ handle[v].x \in Nat /\ handle[v].x <= th[handle[v].p].x
      BY <1>1, <3>1, Pointers DEF Owned
    <3>3. CASE handle[v].p = s
      BY <1>3, <1>5, <3>1, <3>2, <3>3
    <3>4. CASE handle[v].p # s
      BY <1>3, <3>1, <3>2, <3>4
    <3> QED
      BY <3>3, <3>4
  <2>4. \A d \in Drivers : self'[d] # None => ~th'[self'[d]].event
    <3> SUFFICES ASSUME NEW d \in Drivers, self[d] # None PROVE ~th'[self[d]].event
      OBVIOUS
    <3>1. self[d] \in Structs /\ ~th[self[d]].event
      BY <1>1 DEF ThreadsType, Memory, Owned, Actors
    <3>2. self[d] # s
      BY <1>1, <1>2, ThreadsAssumption DEF Owned, Owns, Actors
    <3> QED
      BY <1>3, <3>1, <3>2
  <2> QED
    BY <1>3, <2>1, <2>2, <2>3, <2>4 DEF Owned
<1> QED
  BY <1>3, <1>4, <1>6, <1>7, <1>9

LEMMA CreateFailsKeeps == ASSUME ThreadsInv, NEW a \in Drivers, CreateFails(a) PROVE ThreadsInv'
<1>1. /\ pc[a] = "create" /\ pc[a] \in AboutOne /\ Goto(a, "user") /\ a \in Actors /\ a \notin Workers
      /\ UNCHANGED <<reuse, self, known, how, armed, aimed, done, got, final>>
  BY ThreadsAssumption DEF CreateFails, AboutOne, history, Actors
<1>2. PICK w \in Workers : w = arg[a]
  BY <1>1 DEF ThreadsInv, ThreadsType, Places
<1>3. ThreadsType /\ Owned /\ Unique /\ Work(w) /\ w \in Actors /\ Lives(w) /\ pc[w] = "off" /\ a # w
  BY <1>1, <1>2, DoingOf DEF ThreadsInv, Doing, Actors
<1>4. PICK s \in Structs : s = handle[w].p
  BY <1>3, Pointers DEF Lives
<1>5. /\ Destroy(s) /\ handle' \in [Workers -> Handle \cup {None}] /\ handle'[w] = None
      /\ \A v \in Workers \ {w} : handle'[v] = handle[v]
  BY <1>2, <1>3, <1>4 DEF CreateFails, Target, ThreadsType, Memory
<1>6. /\ Owned' /\ ~Lives(w)'
      /\ \A v \in Workers \ {w} : /\ Lives(v)' <=> Lives(v)
                                  /\ Lives(v) => handle[v].p # s
      /\ th' \in [Structs -> Thread] /\ \A r \in Structs \ {s} : th'[r] = th[r]
      /\ pool' \in Seq(Structs) /\ fresh' = fresh
      /\ lockq' \in [Structs -> Seq(Actors)] /\ lockq'[s] = <<>>
      /\ \A r \in Structs \ {s} : lockq'[r] = lockq[r]
  BY <1>1, <1>3, <1>4, <1>5, DestroyOwned
<1>7. /\ pc'[a] = "user" /\ \A b \in Actors \ {a} : pc'[b] = pc[b] /\ arg'[b] = arg[b]
      /\ Places'
  <2>1. "user" \in DriverPlaces /\ "user" \notin AboutOne
    BY DEF DriverPlaces, AboutOne, JoinCalls, CancelCalls
  <2> QED
    BY <1>1, <1>3, <2>1, Going DEF ThreadsType
<1>8. ThreadsType'
  BY <1>1, <1>3, <1>5, <1>6, <1>7 DEF ThreadsType, Memory
<1>9. \A b \in Actors \ {a} : pc[b] \in AboutOne \ {"detachTest", "created"} => arg[b] # w
  <2>1. \A b \in Actors \ {a} : pc[b] = "create" => arg[b] # w
    BY <1>1, <1>2, <1>3 DEF Unique
  <2> QED
    BY <1>3, <2>1, DoingOf DEF Doing
<1>10. Unique'
  BY <1>3, <1>7 DEF Unique, JoinCalls
<1>11. PICK A \in SUBSET Actors : A = {a}
  BY <1>1
<1>12. Shift(A, w, s)
  <2>1. \A b \in Actors \ A : pc'[b] = pc[b] /\ arg'[b] = arg[b] /\ how'[b] = how[b] /\ self'[b] = self[b]
    BY <1>1, <1>7, <1>11
  <2>2. \A b \in A :
          /\ pc[b] \notin {"gone", "off"} \cup Locking \cup OwnLocking \cup Detaches
          /\ pc'[b] \notin {"off", "last", "gone"}
    BY <1>1, <1>7, <1>11 DEF Locking, OwnLocking, Detaches
  <2> QED
    BY <1>1, <1>3, <1>5, <1>6, <1>9, <1>11, <2>1, <2>2 DEF Shift
<1>13. Work(w)'
  <2>1. pc'[w] = "off" /\ how'[w] = how[w] /\ self'[w] = self[w]
    BY <1>1, <1>3, <1>7
  <2>2. Known(w)'
    BY <1>1, <1>3, <2>1 DEF Work, Known, Alive
  <2>3. Kept(w)'
    BY <1>6 DEF Kept
  <2>4. Aimed(w)'
    BY <1>1, <1>3, <2>1 DEF Work, Aimed
  <2> QED
    BY <2>2, <2>3, <2>4 DEF Work
<1> QED
  BY <1>1, <1>6, <1>7, <1>8, <1>10, <1>11, <1>12, <1>13, DoesNothing, ShiftKeeps

\* The thread ends, with its structure if it is detached.
LEMMA LeaveKeeps == ASSUME Orderly, ThreadsInv, NEW w \in Workers, Leave(w) PROVE ThreadsInv'
<1>1. /\ pc[w] = "last" /\ Goto(w, "gone") /\ w \in Actors /\ Alive(w)
      /\ UNCHANGED <<reuse, self, handle, known, how, armed, aimed, done, got>>
      /\ \A b \in Actors : pc[b] \in CancelCalls => arg[b] # w
  BY DEF Leave, names, Actors, Alive, Orderly, Untouched, About
<1>2. ThreadsType /\ Owned /\ Unique /\ Work(w) /\ Lives(w)
  BY <1>1, AliveHas DEF ThreadsInv
<1>3. PICK s \in Structs : s = handle[w].p /\ s = self[w]
  BY <1>1, AliveHas
<1>4. /\ pc'[w] = "gone" /\ \A b \in Actors \ {w} : pc'[b] = pc[b] /\ arg'[b] = arg[b]
      /\ Places'
  <2>1. "gone" \in WorkerPlaces /\ "gone" \notin AboutOne
    BY DEF WorkerPlaces, AboutOne, JoinCalls, CancelCalls
  <2> QED
    BY <1>1, <1>2, <2>1, ThreadsAssumption, Going DEF ThreadsType
<1>5. /\ final' \in [Workers -> Statuses] /\ final'[w] = th[s].status
      /\ \A v \in Workers \ {w} : final'[v] = final[v]
  <2>1. th[s].status \in Statuses
    BY <1>2 DEF ThreadsType, Memory, Thread
  <2> QED
    BY <1>2, <1>3, <2>1 DEF Leave, ThreadsType, Memory
<1>6. Unique'
  BY <1>2, <1>4 DEF Unique, JoinCalls
<1>7. PICK A \in SUBSET Actors : A = {w}
  BY <1>1
<1>8. \A b \in Actors \ A : pc'[b] = pc[b] /\ arg'[b] = arg[b] /\ how'[b] = how[b] /\ self'[b] = self[b]
  BY <1>1, <1>4, <1>7
<1>9. /\ \A b \in A :
          /\ pc[b] \notin {"gone", "off"} \cup Locking \cup OwnLocking \cup Detaches
          /\ pc'[b] # "off"
      /\ \A b \in Actors \ A, c \in A :
          pc[b] \in {"cancelSet", "cancelAsync"} /\ arg[b] = c => pc'[c] \notin {"last", "gone"}
  BY <1>1, <1>4, <1>7 DEF Locking, OwnLocking, Detaches, CancelCalls
<1>10. Doing(w)'
  BY <1>4, ThreadsAssumption DEF Doing, AboutOne, Joining, JoinCalls, CancelCalls
<1>11. Known(w)' /\ Aimed(w)'
  BY <1>1, <1>2, <1>4 DEF Work, Known, Aimed, Alive
<1>12. CASE th[s].detached
  <2>1. Destroy(s)
    BY <1>3, <1>12 DEF Leave
  <2>2. /\ Owned' /\ ~Lives(w)'
        /\ \A v \in Workers \ {w} : /\ Lives(v)' <=> Lives(v)
                                    /\ Lives(v) => handle[v].p # s
        /\ th' \in [Structs -> Thread] /\ \A r \in Structs \ {s} : th'[r] = th[r]
        /\ pool' \in Seq(Structs) /\ fresh' = fresh
        /\ lockq' \in [Structs -> Seq(Actors)] /\ lockq'[s] = <<>>
        /\ \A r \in Structs \ {s} : lockq'[r] = lockq[r]
    BY <1>1, <1>2, <1>3, <2>1, DestroyOwned
  <2>3. ThreadsType'
    BY <1>1, <1>2, <1>4, <1>5, <2>2 DEF ThreadsType, Memory
  <2>4. \A b \in Actors : pc[b] \in AboutOne \ {"detachTest", "created"} => arg[b] # w
    <3> SUFFICES ASSUME NEW b \in Actors, pc[b] \in AboutOne \ {"detachTest", "created"}, arg[b] = w
                 PROVE  FALSE
      OBVIOUS
    <3>1. Doing(b) /\ pc[b] \notin CancelCalls
      BY <1>1, DoingOf
    <3>2. pc[b] = "create" \/ pc[b] \in Joining \cup {"detachLock", "detachWait"}
      BY <3>1 DEF AboutOne, JoinCalls, Joining
    <3> QED
      BY <1>1, <1>3, <1>12, <3>1, <3>2 DEF Doing
  <2>5. Shift(A, w, s)
    BY <1>1, <1>5, <1>7, <1>8, <1>9, <2>2, <2>4 DEF Shift
  <2>6. Kept(w)'
    BY <2>2 DEF Kept
  <2> QED
    BY <1>6, <1>7, <1>10, <1>11, <2>2, <2>3, <2>5, <2>6, ShiftKeeps DEF Work
<1>13. CASE ~th[s].detached
  <2>1. th' = th /\ lockq' = lockq /\ pool' = pool /\ fresh' = fresh
    BY <1>3, <1>13 DEF Leave
  <2>2. \A v \in Workers : /\ Lives(v)' <=> Lives(v)
                           /\ Lives(v) => handle[v].p # None
    BY <1>1, <1>2, <2>1, Pointers, ThreadsAssumption DEF Lives, Valid
  <2>3. ThreadsType'
    BY <1>1, <1>2, <1>4, <1>5, <2>1 DEF ThreadsType, Memory
  <2>4. \A b \in Actors : pc[b] \in AboutOne => arg[b] # None
    BY <1>2, ThreadsAssumption DEF ThreadsType, Places
  <2>5. Shift(A, None, None)
    BY <1>1, <1>5, <1>8, <1>7, <1>9, <2>1, <2>2, <2>4, ThreadsAssumption DEF Shift
  <2>6. Owned'
    <3>1. \A b \in Actors, r \in Structs : (Owns(b, r)' <=> Owns(b, r)) /\ (Taken(r)' <=> Taken(r))
      BY <1>1, <2>1, <2>2 DEF Owns, Taken
    <3> QED
      BY <1>1, <1>2, <2>1, <3>1 DEF Owned
  <2>7. Kept(w)'
    BY <1>1, <1>2, <1>3, <1>4, <1>5, <1>13, <2>1 DEF Work, Kept
  <2>8. w # None
    BY ThreadsAssumption
  <2> QED
    BY <1>6, <1>7, <1>10, <1>11, <2>3, <2>5, <2>6, <2>7, ThreadsAssumption, ShiftKeeps DEF Work
<1> QED
  BY <1>12, <1>13

\* pthread_detach frees the structure of a thread that has ended.
LEMMA DetachDestroysKeeps ==
  ASSUME Orderly, ThreadsInv, NEW a \in Actors, DetachDestroys(a) PROVE ThreadsInv'
<1>1. /\ pc[a] = "detachWait" /\ pc[a] \in Calling \ {"user"} /\ pc[a] \in JoinCalls
      /\ Goto(a, "user") /\ "user" \in Calling \ {"created"} /\ pc[arg[a]] = "gone"
      /\ UNCHANGED <<reuse, self, handle, known, how, armed, aimed, done, got, final>>
  BY DEF DetachDestroys, names, history, Calling, JoinCalls
<1>2. PICK w \in Workers : w = arg[a]
  BY <1>1, CallGoes
<1>3. /\ ThreadsType /\ Owned /\ Unique /\ Work(w) /\ Lives(w) /\ w \in Actors /\ pc[w] = "gone" /\ w # a
      /\ \A b \in Actors : pc[b] \in CancelCalls => arg[b] # w
  BY <1>1, <1>2, DoingOf DEF ThreadsInv, Doing, Actors, DetachDestroys, Orderly, Untouched, About
<1>4. PICK s \in Structs : s = handle[w].p
  BY <1>3, Pointers DEF Lives
<1>5. Destroy(s)
  BY <1>2, <1>4 DEF DetachDestroys, Target
<1>6. /\ Owned' /\ ~Lives(w)'
      /\ \A v \in Workers \ {w} : /\ Lives(v)' <=> Lives(v)
                                  /\ Lives(v) => handle[v].p # s
      /\ th' \in [Structs -> Thread] /\ \A r \in Structs \ {s} : th'[r] = th[r]
      /\ pool' \in Seq(Structs) /\ fresh' = fresh
      /\ lockq' \in [Structs -> Seq(Actors)] /\ lockq'[s] = <<>>
      /\ \A r \in Structs \ {s} : lockq'[r] = lockq[r]
  BY <1>1, <1>3, <1>4, <1>5, DestroyOwned
<1>7. /\ pc'[a] = "user" /\ \A b \in Actors \ {a} : pc'[b] = pc[b] /\ arg'[b] = arg[b]
      /\ Places'
  BY <1>1, CallGoes
<1>8. ThreadsType'
  BY <1>1, <1>3, <1>6, <1>7 DEF ThreadsType, Memory
<1>9. \A b \in Actors \ {a} : pc[b] \in AboutOne \ {"detachTest", "created"} => arg[b] # w
  <2> SUFFICES ASSUME NEW b \in Actors \ {a}, pc[b] \in AboutOne \ {"detachTest", "created"}, arg[b] = w
               PROVE  FALSE
    OBVIOUS
  <2>1. Doing(b) /\ pc[b] \notin CancelCalls
    BY <1>3, DoingOf
  <2>2. pc[b] = "create" \/ pc[b] \in JoinCalls
    BY <2>1 DEF AboutOne
  <2>3. pc[b] # "create"
    BY <1>3, <2>1 DEF Doing
  <2> QED
    BY <1>1, <1>2, <1>3, <2>2, <2>3 DEF Unique
<1>10. Unique'
  BY <1>3, <1>7 DEF Unique, JoinCalls
<1>11. PICK A \in SUBSET Actors : A = {a}
  OBVIOUS
<1>12. Shift(A, w, s)
  <2>1. \A b \in Actors \ A : pc'[b] = pc[b] /\ arg'[b] = arg[b] /\ how'[b] = how[b] /\ self'[b] = self[b]
    BY <1>1, <1>7, <1>11
  <2>2. \A b \in A :
          /\ pc[b] \notin {"gone", "off"} \cup Locking \cup OwnLocking
          /\ pc'[b] \notin {"off", "last", "gone"}
          /\ pc[b] \in Detaches => arg[b] = w
    BY <1>1, <1>2, <1>7, <1>11 DEF Locking, OwnLocking
  <2> QED
    BY <1>1, <1>6, <1>9, <1>11, <2>1, <2>2 DEF Shift
<1>13. Work(w)'
  <2>1. pc'[w] = "gone"
    BY <1>3, <1>7
  <2>2. Known(w)' /\ Aimed(w)'
    BY <1>1, <1>3, <2>1 DEF Work, Known, Aimed, Alive
  <2>3. Kept(w)'
    BY <1>6 DEF Kept
  <2> QED
    BY <2>2, <2>3 DEF Work
<1>14. ASSUME a \in Workers PROVE Work(a)'
  <2>1. pc[a] \notin {"off", "gone", "last", "waitEnter", "waitLock", "testLock", "testLockInCleanup"}
    BY <1>1
  <2>2. Alive(a) /\ Work(a) /\ Lives(a)
    BY <1>14, <2>1, AliveHas DEF Alive
  <2>3. Lives(a)' /\ handle[a].p # s /\ how' = how
    BY <1>1, <1>3, <1>6, <1>14, <2>2
  <2>4. th'[handle[a].p] = th[handle[a].p]
    BY <1>3, <1>6, <1>14, <2>2, <2>3, Pointers DEF Lives
  <2>5. Known(a)' /\ Aimed(a)'
    BY <1>1, <1>7, <2>1, <2>2, <2>3 DEF Work, Known, Aimed, Alive
  <2>6. Kept(a)'
    BY <1>1, <1>7, <2>1, <2>2, <2>4 DEF Work, Kept
  <2> QED
    BY <2>5, <2>6 DEF Work
<1> QED
  BY <1>6, <1>7, <1>8, <1>10, <1>11, <1>12, <1>13, <1>14, DoesNothing, ShiftKeeps, SMTT(30)

-----------------------------------------------------------------------------
(* The invariant of every execution *)

LEMMA InitKeeps == Init => ThreadsInv
<1> SUFFICES ASSUME Init PROVE ThreadsInv
  OBVIOUS
<1>1. ThreadsType
  <2>1. Unused(0) \in Thread
    BY DEF Unused, Thread, Hows, Statuses, Reuse
  <2>2. Memory
    BY <2>1 DEF Init, Memory, Hows, Statuses
  <2>3. /\ "user" \in DriverPlaces /\ "off" \in WorkerPlaces /\ "user" \notin AboutOne
        /\ "off" \notin AboutOne
    BY DEF DriverPlaces, WorkerPlaces, AboutOne, JoinCalls, CancelCalls
  <2>4. Places
    BY <2>3, ThreadsAssumption DEF Init, Places, Actors
  <2> QED
    BY <2>2, <2>4 DEF ThreadsType
<1>2. /\ \A a \in Actors : pc[a] \in {"user", "off"}
      /\ \A w \in Workers : pc[w] = "off" /\ handle[w] = None
  BY ThreadsAssumption DEF Init, Actors
<1>3. Owned
  BY <1>2, ThreadsAssumption DEF Init, Owned, Owns, Lives, Actors
<1>4. Unique /\ Queued /\ Joined
  BY <1>2 DEF Init, Unique, Queued, Joined, JoinCalls
<1>5. \A w \in Workers : Work(w)
  BY <1>2 DEF Init, Work, Known, Kept, Aimed, Lives, Alive, Actors
<1>6. \A a \in Actors : Doing(a)
  BY <1>2 DEF Doing, AboutOne, Joining, JoinCalls, CancelCalls
<1> QED
  BY <1>1, <1>3, <1>4, <1>5, <1>6 DEF ThreadsInv

LEMMA NextKeeps == ASSUME Orderly, ThreadsInv, [Next]_vars PROVE ThreadsInv'
<1>1. ASSUME NEW a \in Actors, Continue(a) PROVE ThreadsInv'
  BY <1>1, SelfKeeps, BeginThreadKeeps, CreatedKeeps, JoinWaitsKeeps, JoinEndsKeeps,
     JoinReadsKeeps, DetachTestsKeeps, DetachDecidesKeeps, DetachDestroysKeeps, CancelEntersKeeps,
     CancelDecidesKeeps, CancelSetsKeeps, CancelsAsyncKeeps, WaitCancelledKeeps, WaitDecidesKeeps
  DEF Continue
<1>2. ASSUME NEW w \in Workers, Proceed(w) PROVE ThreadsInv'
  BY <1>2, StartKeeps, ThrowKeeps, CaughtKeeps, EndingKeeps, LeaveKeeps, TestDecidesKeeps,
     SetDecidesKeeps
  DEF Proceed
<1>3. ASSUME NEW w \in Workers, Return(w) \/ Exit(w) \/ Wait(w) \/ TestCancel(w) PROVE ThreadsInv'
  BY <1>3, ReturnKeeps, ExitKeeps, WaitKeeps, TestCancelKeeps
<1>4. ASSUME vars' = vars PROVE ThreadsInv'
  <2>1. ThreadsType'
    BY <1>4 DEF vars, memory, names, counters, history, ThreadsInv, ThreadsType, Memory, Places
  <2>2. Owned' /\ Unique' /\ Queued' /\ Joined'
    BY <1>4 DEF vars, memory, names, counters, history, ThreadsInv, Owned, Owns, Lives, Valid, Taken,
                Unique, Queued, Wants, Joined
  <2>3. \A w \in Workers : Work(w)'
    BY <1>4 DEF vars, memory, names, counters, history, ThreadsInv, Work, Known, Kept, Aimed, Lives,
                Valid, Alive
  <2>4. \A a \in Actors : Doing(a)'
    BY <1>4 DEF vars, memory, names, counters, history, ThreadsInv, Doing, Lives, Valid, Holds
  <2> QED
    BY <2>1, <2>2, <2>3, <2>4 DEF ThreadsInv
<1>5. ASSUME Next PROVE ThreadsInv'
  BY <1>1, <1>2, <1>3, <1>5, SetCancelKeeps, CreateKeeps, CreateFailsKeeps, JoinKeeps, DetachKeeps,
     CancelKeeps
  DEF Next
<1> QED
  BY <1>4, <1>5

LEMMA AlwaysInv == ASSUME Orderly PROVE Spec => []ThreadsInv
<1>1. ThreadsInv /\ [Next]_vars => ThreadsInv'
  BY NextKeeps
<1> QED
  BY InitKeeps, <1>1, PTL DEF Spec

LEMMA StructsInv == ThreadsInv => StructsKept
<1> SUFFICES ASSUME ThreadsInv PROVE StructsKept
  OBVIOUS
<1>1. ThreadsType /\ Owned /\ Joined /\ \A w \in Workers : Work(w)
  BY DEF ThreadsInv
<1>2. TypeOK
  <2>1. \A s \in Structs : th[s].state \in 0 .. 7 /\ th[s].x \in Nat
    BY <1>1 DEF ThreadsType, Memory, Thread
  <2>2. \A i \in DOMAIN pool : pool[i] \in Structs \ fresh
    <3>1. pool \in Seq(Structs) /\ DOMAIN pool = 1 .. Len(pool)
      BY <1>1 DEF ThreadsType, Memory
    <3> QED
      BY <1>1, <3>1, ElementOfSeq DEF Owned
  <2> QED
    BY <1>1, <2>1, <2>2 DEF TypeOK, ThreadsType, Memory
<1>3. StructOwned
  <2>1. DOMAIN pool = 1 .. Len(pool)
    BY <1>1 DEF ThreadsType, Memory
  <2>2. ASSUME NEW w \in Workers, Alive(w)
        PROVE  /\ Valid(w) /\ th[self[w]].threadH = w
               /\ \A i \in DOMAIN pool : pool[i] # self[w]
    <3>1. self[w] \in Structs /\ self[w] = handle[w].p /\ Lives(w) /\ Work(w) /\ w \in Actors
      BY <2>2, AliveHas
    <3>2. Owns(w, self[w])
      BY <3>1 DEF Owns
    <3> QED
      BY <1>1, <2>1, <2>2, <3>1, <3>2 DEF Work, Kept, Owned, Taken, Lives, Alive
  <2> QED
    BY <1>1, <2>1, <2>2 DEF StructOwned, Owned
<1>4. NoLeak
  <2> SUFFICES ASSUME \A a \in Actors : pc[a] \in {"user", "off", "gone", "wait"},
                      NEW w \in Workers, pc[w] = "gone", Valid(w)
               PROVE  ~th[handle[w].p].detached /\ \A pair \in got : pair[1] # w
    BY DEF NoLeak
  <2>1. Lives(w)
    BY <1>1 DEF Work, Known, Lives
  <2>2. ~th[handle[w].p].detached
    BY <1>1, <2>1 DEF Work, Kept
  <2>3. \A pair \in got : pair[1] # w
    BY <1>1, <2>1 DEF Joined
  <2> QED
    BY <2>2, <2>3
<1>5. JoinGetsStatus
  BY <1>1 DEF Joined, JoinGetsStatus
<1> QED
  BY <1>2, <1>3, <1>4, <1>5 DEF StructsKept

LEMMA HangsInv == ThreadsInv => NobodyHangs
<1> SUFFICES ASSUME ThreadsInv, NEW s \in Structs, NEW i \in DOMAIN lockq[s], NEW a, a = lockq[s][i]
             PROVE  \/ /\ pc[a] \in {"cancelLock", "cancelSet", "cancelAsync", "detachLock"}
                       /\ Target(a) = s
                    \/ /\ pc[a] \in {"startLock", "lastLock", "waitLock", "testLock",
                                     "testLockInCleanup", "setLock"}
                       /\ self[a] = s
  BY DEF NobodyHangs
<1>1. lockq[s] \in Seq(Actors)
  BY DEF ThreadsInv, ThreadsType, Memory
<1>2. i \in 1 .. Len(lockq[s]) /\ a \in Actors
  BY <1>1, ElementOfSeq
<1>3. Wants(a, s)
  BY <1>2 DEF ThreadsInv, Queued
<1> QED
  BY <1>3 DEF Wants, Locking, OwnLocking, Target

-----------------------------------------------------------------------------
(* A cancellation that was accepted stays pending *)

Starting == {"off", "start", "startLock"}

\* What a step may do to the state of a structure that a thread has.
Steady(r) ==
  /\ th'[r].x = th[r].x
  /\ \/ th'[r].state = th[r].state
     \/ th'[r].state \in Nat /\ th'[r].state >= Canceling
     \/ th'[r].state = CancelPending

\* No other thread starts than one that was starting, a call of pthread_cancel
\* is about one that has started, and so is one that accepts a cancellation.
LEMMA AcceptedStays ==
  ASSUME ThreadsInv, Accepted,
         \A w \in Workers : pc'[w] \in Starting => pc[w] \in Starting,
         \A a \in Actors : pc'[a] \in CancelCalls =>
           pc[arg'[a]] \notin Starting /\ arg'[a] \in Workers,
         \A w \in done' : /\ w \in Workers /\ pc[w] \notin Starting
                          /\ Lives(w)' => /\ Lives(w) /\ handle'[w] = handle[w]
                                          /\ Steady(handle[w].p),
         \A w \in done' \ done : Lives(w) => th'[handle[w].p].state >= CancelPending
  PROVE  Accepted'
<1>1. \A a \in Actors : pc'[a] \in CancelCalls => pc'[arg'[a]] \notin {"start", "startLock"}
  BY DEF Starting
<1>2. ASSUME NEW w \in done' PROVE pc'[w] \notin {"off", "start", "startLock"}
  BY <1>2 DEF Starting
<1>3. ASSUME NEW w \in done', Lives(w)', th'[handle'[w].p].state < Canceling
      PROVE  th'[handle'[w].p].state = CancelPending
  <2>1. Lives(w) /\ handle'[w] = handle[w] /\ Steady(handle[w].p) /\ w \in Workers
    BY <1>3
  <2>2. th[handle[w].p].state \in 0 .. 7
    BY <2>1, Pointers DEF ThreadsInv, Lives, Thread
  <2>3. CASE th'[handle[w].p].state = th[handle[w].p].state
    <3>1. CASE w \in done
      BY <1>3, <2>1, <2>3, <3>1 DEF Accepted
    <3>2. CASE w \notin done
      <4>1. th'[handle[w].p].state >= CancelPending
        BY <2>1, <3>2
      <4> QED
        BY <1>3, <2>1, <2>2, <2>3, <4>1 DEF Canceling, CancelPending
    <3> QED
      BY <3>1, <3>2
  <2> QED
    BY <1>3, <2>1, <2>3 DEF Steady, Canceling
<1> QED
  BY <1>1, <1>2, <1>3 DEF Accepted

LEMMA CancelTargets ==
  ASSUME ThreadsInv, Accepted, NEW b \in Actors, pc[b] \in CancelCalls
  PROVE  pc[arg[b]] \notin Starting /\ arg[b] \in Workers /\ Lives(arg[b])
<1>1. pc[b] \in AboutOne \ {"create"}
  BY DEF AboutOne, CancelCalls
<1>2. arg[b] \in Workers
  BY <1>1 DEF ThreadsInv, ThreadsType, Places
<1>3. pc[arg[b]] # "off" /\ Lives(arg[b])
  BY <1>1, DoingOf DEF Doing
<1> QED
  BY <1>2, <1>3 DEF Accepted, Starting

LEMMA DoneWorkers ==
  ASSUME ThreadsInv, Accepted, NEW w \in done
  PROVE  w \in Workers /\ pc[w] \notin Starting
  BY CallTypes DEF Accepted, Starting

\* In the steps that are not about structures as such, one actor goes on.
LEMMA AcceptedGoes ==
  ASSUME ThreadsInv, Accepted, NEW a \in Actors, NEW l, Goto(a, l), l \notin Starting,
         l \in CancelCalls => pc[a] \in CancelCalls,
         handle' = handle, done' = done, \A r \in Structs : Steady(r)
  PROVE  Accepted'
<1>1. ThreadsType
  BY DEF ThreadsInv
<1>2. pc'[a] = l /\ \A b \in Actors \ {a} : pc'[b] = pc[b] /\ arg'[b] = arg[b]
  BY <1>1 DEF ThreadsType, Places, Goto
<1>3. \A w \in Workers : pc'[w] \in Starting => pc[w] \in Starting
  BY <1>2 DEF Actors
<1>4. \A b \in Actors : pc'[b] \in CancelCalls => pc[b] \in CancelCalls /\ arg'[b] = arg[b]
  BY <1>2 DEF Goto, CancelCalls
<1>5. \A b \in Actors : pc[b] \in CancelCalls => pc[arg[b]] \notin Starting /\ arg[b] \in Workers
  BY CancelTargets
<1>6. \A w \in done : w \in Workers /\ pc[w] \notin Starting
  BY DoneWorkers
<1>7. \A w \in Workers : Lives(w)' => Lives(w)
  <2> SUFFICES ASSUME NEW w \in Workers, handle[w] # None, Lives(w)' PROVE Lives(w)
    BY DEF Lives
  <2>1. handle[w].p \in Structs
    BY <1>1, Pointers
  <2> QED
    BY <2>1 DEF Lives, Valid, Steady
<1>8. \A w \in Workers : Lives(w) => Steady(handle[w].p)
  BY <1>1, Pointers DEF Lives
<1> QED
  BY <1>3, <1>4, <1>5, <1>6, <1>7, <1>8, AcceptedStays

LEMMA SameSteady == ASSUME th' = th PROVE \A r \in Structs : Steady(r)
  BY DEF Steady

\* One structure is written.
LEMMA OneSteady ==
  ASSUME ThreadsInv, NEW s \in Structs, \A r \in Structs \ {s} : th'[r] = th[r],
         th'[s].x = th[s].x,
         \/ th'[s].state = th[s].state
         \/ th'[s].state \in {Canceling, Exiting, Last, CancelPending}
  PROVE  \A r \in Structs : Steady(r)
<1>1. Steady(s)
  BY DEF Steady, Canceling, Exiting, Last, CancelPending
<1> QED
  BY <1>1 DEF Steady

LEMMA WorkerAccepted ==
  ASSUME ThreadsInv, Accepted, NEW w \in Workers,
         \/ Return(w) \/ Exit(w) \/ Throw(w) \/ Caught(w) \/ Ending(w)
         \/ Wait(w) \/ TestCancel(w) \/ TestDecides(w) \/ SetDecides(w)
         \/ \E setting \in {"enable", "disable", "deferred", "async"} : SetCancel(w, setting)
  PROVE  Accepted'
<1>1. Alive(w) /\ handle' = handle /\ done' = done
  BY DEF Return, Exit, Throw, Caught, Ending, Wait, TestCancel, TestDecides, SetDecides, SetCancel,
         Alive, names, history
<1>2. w \in Actors /\ self[w] \in Structs /\ ThreadsType
  BY <1>1, OwnFacts
<1>3. PICK s \in Structs : s = self[w]
  BY <1>2
<1>4. PICK l \in {"user", "returned", "ending", "throw", "cleanup", "lastLock", "last", "wait",
                  "testLock", "testLockInCleanup", "setLock"} : Goto(w, l)
  BY SetDecidesChange DEF Return, Exit, Throw, Caught, Ending, Wait, TestCancel, TestDecides, SetCancel, Acts
<1>5. l \notin Starting /\ l \notin CancelCalls
  BY DEF Starting, CancelCalls
<1>6. \A r \in Structs : Steady(r)
  <2>1. CASE Return(w) \/ Throw(w) \/ Ending(w)
    <3>1. CASE th' = th
      BY <3>1, SameSteady
    <3>2. CASE \E v \in Statuses : Sets(s, "status", v)
      BY <1>2, <3>2, StatusSet, OneSteady
    <3>3. CASE \E v \in {Exiting, Last} : Sets(s, "state", v)
      <4>1. PICK v \in 0 .. 7 : Sets(s, "state", v) /\ v \in {Exiting, Last}
        BY <3>3 DEF Exiting, Last
      <4> QED
        BY <1>2, <4>1, StateSet, OneSteady
    <3>4. w \in Statuses
      BY DEF Statuses
    <3> QED
      BY <1>3, <2>1, <3>1, <3>2, <3>3, <3>4 DEF Return, Throw, Ending
  <2>2. CASE Exit(w) \/ Caught(w)
    <3>1. th[s].status \in Statuses /\ w \in Statuses /\ "canceled" \in Statuses
      BY <1>2 DEF ThreadsType, Memory, Thread, Statuses
    <3>2. PICK v \in Statuses : Sets(s, "status", v)
      BY <1>3, <2>2, <3>1 DEF Exit, Caught
    <3> QED
      BY <1>2, <3>2, StatusSet, OneSteady
  <2>3. CASE \/ Wait(w) \/ TestCancel(w)
             \/ \E setting \in {"enable", "disable", "deferred", "async"} : SetCancel(w, setting)
    BY <2>3, SameSteady DEF Wait, TestCancel, SetCancel, memory
  <2>4. CASE TestDecides(w)
    <3>1. CASE Acts(w, TRUE)
      <4>1. PICK e \in BOOLEAN : Acts(w, e)
        BY <3>1
      <4> QED
        BY <1>2, <1>3, <4>1, ActsChange, OneSteady DEF Acts
    <3> QED
      BY <2>4, <3>1, SameSteady DEF TestDecides
  <2>5. CASE SetDecides(w)
    BY <1>3, <2>5, SetDecidesChange, OneSteady
  <2> QED
    BY <2>1, <2>2, <2>3, <2>4, <2>5
<1> QED
  BY <1>1, <1>2, <1>4, <1>5, <1>6, AcceptedGoes

LEMMA CallerAccepted ==
  ASSUME ThreadsInv, Accepted, NEW a \in Actors,
         \/ (Self(a) /\ self[a] # None) \/ Created(a) \/ JoinWaits(a) \/ JoinEnds(a) \/ JoinReads(a)
         \/ DetachTests(a) \/ CancelEnters(a)
  PROVE  Accepted'
<1>1. handle' = handle /\ done' = done /\ th' = th
  BY DEF Self, Created, JoinWaits, JoinEnds, JoinReads, DetachTests, CancelEnters, memory, names,
         history
<1>2. PICK l \in {"user", "joinTest", "join", "joined", "detachTest", "detachLock", "cancelEnter",
                  "cancelLock"} :
        Goto(a, l) /\ (l \in {"cancelEnter", "cancelLock"} => pc[a] \in {"cancelSelf", "cancelEnter"})
  BY DEF Self, Created, JoinWaits, JoinEnds, JoinReads, DetachTests, CancelEnters
<1>3. l \notin Starting /\ (l \in CancelCalls => pc[a] \in CancelCalls)
  BY <1>2 DEF Starting, CancelCalls
<1> QED
  BY <1>1, <1>2, <1>3, SameSteady, AcceptedGoes

LEMMA DetachDecidesAccepted ==
  ASSUME ThreadsInv, Accepted, NEW a \in Actors, DetachDecides(a)
  PROVE  Accepted'
<1>1. pc[a] = "detachLock" /\ handle' = handle /\ done' = done
  BY DEF DetachDecides, names, history
<1>2. PICK w \in Workers : w = arg[a]
  BY <1>1 DEF ThreadsInv, ThreadsType, Places, AboutOne, JoinCalls
<1>3. Lives(w) /\ ThreadsType
  BY <1>1, <1>2, DoingOf DEF Doing, ThreadsInv
<1>4. PICK q \in Structs : q = handle[w].p
  BY <1>3, Pointers DEF Lives
<1>5. PICK l \in {"user", "detachWait"} : Goto(a, l)
  BY DEF DetachDecides
<1>6. l \notin Starting /\ l \notin CancelCalls
  BY DEF Starting, CancelCalls
<1>7. \A r \in Structs : Steady(r)
  <2>1. Sets(q, "detached", TRUE) \/ th' = th
    BY <1>2, <1>4 DEF DetachDecides, Target
  <2> QED
    BY <1>3, <2>1, DetachedSet, OneSteady, SameSteady
<1> QED
  BY <1>1, <1>5, <1>6, <1>7, AcceptedGoes

LEMMA WaiterAccepted ==
  ASSUME ThreadsInv, Accepted, NEW a \in Actors, WaitCancelled(a) \/ WaitDecides(a), ThreadsInv'
  PROVE  Accepted'
<1>1. handle' = handle /\ done' = done /\ ThreadsType
  BY DEF WaitCancelled, WaitDecides, names, history, ThreadsInv
<1>2. PICK l \in {"user", "throw", "waitEnter", "waitLock"} : Goto(a, l)
  BY DEF WaitCancelled, WaitDecides, Acts
<1>3. l \notin Starting /\ l \notin CancelCalls
  BY DEF Starting, CancelCalls
<1>4. CASE th' = th
  BY <1>1, <1>2, <1>3, <1>4, SameSteady, AcceptedGoes
<1>5. CASE th' # th
  <2>1. self[a] \in Structs
    <3>1. CASE a \in Workers
      <4>1. Alive(a)
        BY DEF WaitCancelled, WaitDecides, Alive
      <4> QED
        BY <3>1, <4>1, AliveHas
    <3>2. CASE a \in Drivers
      <4>1. pc[a] = "join"
        BY <1>1, <1>5, <3>2
        DEF WaitCancelled, WaitDecides, ThreadsType, Places, DriverPlaces, JoinCalls, CancelCalls
      <4>2. self[a] # None
        BY <3>2, <4>1, DoingOf DEF Doing
      <4> QED
        BY <1>1, <4>2 DEF ThreadsType, Memory
    <3> QED
      BY <3>1, <3>2 DEF Actors
  <2>2. PICK s \in Structs : s = self[a]
    BY <2>1
  <2>3. Sets(s, "event", FALSE) \/ Acts(a, FALSE)
    BY <1>5, <2>2 DEF WaitCancelled, WaitDecides
  <2>4. CASE Acts(a, FALSE)
    <3>1. PICK e \in BOOLEAN : Acts(a, e)
      BY <2>4
    <3> QED
      BY <1>1, <1>2, <1>3, <2>2, <3>1, ActsChange, OneSteady, AcceptedGoes, ZenonT(60) DEF Acts
  <2>5. CASE Sets(s, "event", FALSE)
    BY <1>1, <1>2, <1>3, <2>5, EventReset, OneSteady, AcceptedGoes
  <2> QED
    BY <2>3, <2>4, <2>5
<1> QED
  BY <1>4, <1>5

LEMMA StartAccepted ==
  ASSUME ThreadsInv, Accepted, NEW w \in Workers, Start(w)
  PROVE  Accepted'
<1>1. Alive(w) /\ handle' = handle /\ done' = done /\ pc[w] \in Starting
  BY DEF Start, Alive, names, history, Starting
<1>2. /\ w \in Actors /\ self[w] \in Structs /\ self[w] = handle[w].p /\ Lives(w)
      /\ ThreadsType /\ Owned
  BY <1>1, AliveHas DEF ThreadsInv
<1>3. PICK s \in Structs : s = self[w]
  BY <1>2
<1>4. /\ th' \in [Structs -> Thread] /\ \A r \in Structs \ {s} : th'[r] = th[r]
  <2>1. CASE th' = th
    BY <1>2, <2>1 DEF ThreadsType, Memory
  <2>2. CASE Sets(s, "state", Running)
    <3>1. PICK v \in 0 .. 7 : Sets(s, "state", v)
      BY <2>2 DEF Running
    <3> QED
      BY <1>2, <3>1, StateSet
  <2> QED
    BY <1>3, <2>1, <2>2 DEF Start
<1>5. PICK l \in {"startLock", "user"} : Goto(w, l)
  BY DEF Start
<1>6. /\ pc'[w] = l /\ \A b \in Actors \ {w} : pc'[b] = pc[b] /\ arg'[b] = arg[b]
  BY <1>2, <1>5 DEF ThreadsType, Places, Goto
<1>7. \A v \in Workers : pc'[v] \in Starting => pc[v] \in Starting
  BY <1>1, <1>6 DEF Actors
<1>8. \A b \in Actors : pc'[b] \in CancelCalls =>
        pc[arg'[b]] \notin Starting /\ arg'[b] \in Workers
  <2>1. l \notin CancelCalls
    BY DEF CancelCalls
  <2> QED
    BY <1>6, <2>1, CancelTargets
<1>9. ASSUME NEW v \in done
      PROVE  /\ v \in Workers /\ pc[v] \notin Starting
             /\ Lives(v)' => Lives(v) /\ Steady(handle[v].p)
  <2>1. v \in Workers /\ pc[v] \notin Starting /\ v # w
    BY <1>1, DoneWorkers
  <2>2. Lives(v)' => Lives(v) /\ Steady(handle[v].p)
    <3> SUFFICES ASSUME Lives(v)' PROVE Lives(v) /\ Steady(handle[v].p)
      OBVIOUS
    <3>1. handle[v] # None /\ handle[v].p \in Structs
      BY <1>1, <1>2, <2>1, Pointers DEF Lives
    <3>2. th'[handle[v].p].x = th[handle[v].p].x
      <4>1. CASE th' = th
        BY <4>1
      <4>2. CASE Sets(s, "state", Running)
        <5>1. PICK u \in 0 .. 7 : Sets(s, "state", u)
          BY <4>2 DEF Running
        <5> QED
          BY <1>2, <3>1, <5>1, StateSet
      <4> QED
        BY <1>3, <4>1, <4>2 DEF Start
    <3>3. Lives(v)
      BY <1>1, <3>1, <3>2 DEF Lives, Valid
    <3>4. handle[v].p # s
      BY <1>2, <1>3, <2>1, <3>3 DEF Owned, Owns, Actors
    <3> QED
      BY <1>4, <3>1, <3>3, <3>4 DEF Steady
  <2> QED
    BY <2>1, <2>2
<1> QED
  BY <1>1, <1>7, <1>8, <1>9, AcceptedStays

LEMMA BeginsAccepted ==
  ASSUME "early" \notin Env, ThreadsInv, Accepted, NEW a \in Actors, NEW w \in Workers,
         Join(a, w) \/ Detach(a, w) \/ Cancel(a, w)
  PROVE  Accepted'
<1>1. handle' = handle /\ done' = done /\ th' = th /\ pc[a] = "user" /\ w \in known
  BY DEF Join, Detach, Cancel, MayJoin, memory, names, history
<1>2. PICK l \in {"joinSelf", "detachTest", "cancelSelf"} :
        Call(a, w, l) /\ (l = "cancelSelf" => pc[w] \notin {"start", "startLock"})
  BY DEF Join, Detach, Cancel
<1>3. pc[w] # "off" /\ ThreadsType
  BY <1>1 DEF ThreadsInv, Work, Known
<1>4. /\ pc'[a] = l /\ arg'[a] = w
      /\ \A b \in Actors \ {a} : pc'[b] = pc[b] /\ arg'[b] = arg[b]
  BY <1>2, <1>3 DEF Call, ThreadsType, Places
<1>5. \A v \in Workers : pc'[v] \in Starting => pc[v] \in Starting
  BY <1>2, <1>4 DEF Actors, Starting
<1>6. \A b \in Actors : pc'[b] \in CancelCalls =>
        pc[arg'[b]] \notin Starting /\ arg'[b] \in Workers
  <2>1. l \in CancelCalls => pc[w] \notin Starting
    BY <1>2, <1>3 DEF CancelCalls, Starting
  <2> QED
    BY <1>4, <2>1, CancelTargets
<1>7. \A v \in done : /\ v \in Workers /\ pc[v] \notin Starting
                      /\ Lives(v)' => Lives(v) /\ Steady(handle[v].p)
  <2>1. \A v \in Workers : Lives(v)' <=> Lives(v)
    BY <1>1 DEF Lives, Valid
  <2> QED
    BY <1>1, <2>1, DoneWorkers DEF Steady
<1> QED
  BY <1>1, <1>5, <1>6, <1>7, AcceptedStays

\* The calls of pthread_cancel that accept a cancellation.
LEMMA CancelDecidesAccepted ==
  ASSUME ThreadsInv, Accepted, NEW a \in Actors, CancelDecides(a)
  PROVE  Accepted'
<1>1. pc[a] = "cancelLock" /\ pc[a] \in CancelCalls /\ handle' = handle /\ ThreadsType
  BY DEF CancelDecides, names, CancelCalls, ThreadsInv
<1>2. PICK w \in Workers : w = arg[a]
  BY <1>1, CancelTargets
<1>3. Lives(w) /\ pc[w] \notin Starting
  BY <1>1, <1>2, CancelTargets
<1>4. PICK q \in Structs : q = handle[w].p
  BY <1>1, <1>3, Pointers DEF Lives
<1>5. CASE done' = done
  <2>1. PICK l \in {"cancelAsync", "throw", "cancelSet", "user"} : Goto(a, l)
    BY DEF CancelDecides, Acts
  <2>2. l \notin Starting
    BY DEF Starting
  <2>3. th' = th \/ (self[a] = q /\ Acts(a, FALSE))
    BY <1>2, <1>4 DEF CancelDecides, Target
  <2>4. \A r \in Structs : Steady(r)
    <3>1. CASE th' = th
      BY <3>1, SameSteady
    <3>2. CASE self[a] = q /\ Acts(a, FALSE)
      <4>1. PICK e \in BOOLEAN : Acts(a, e)
        BY <3>2
      <4> QED
        BY <1>1, <3>2, <4>1, ActsChange, OneSteady DEF Acts
    <3> QED
      BY <2>3, <3>1, <3>2
  <2> QED
    BY <1>1, <1>5, <2>1, <2>2, <2>4, AcceptedGoes
<1>6. CASE done' # done
  <2>1. /\ th' = th /\ Goto(a, "user") /\ done' = done \cup {w}
        /\ th[q].state = CancelPending
    BY <1>2, <1>4, <1>6 DEF CancelDecides, Target
  <2>2. /\ pc'[a] = "user" /\ \A b \in Actors \ {a} : pc'[b] = pc[b] /\ arg'[b] = arg[b]
    BY <1>1, <2>1 DEF ThreadsType, Places, Goto
  <2>3. \A v \in Workers : pc'[v] \in Starting => pc[v] \in Starting
    BY <2>2 DEF Actors, Starting
  <2>4. \A b \in Actors : pc'[b] \in CancelCalls =>
          pc[arg'[b]] \notin Starting /\ arg'[b] \in Workers
    <3>1. "user" \notin CancelCalls
      BY DEF CancelCalls
    <3> QED
      BY <2>2, <3>1, CancelTargets
  <2>5. \A v \in Workers : Lives(v)' <=> Lives(v)
    BY <1>1, <2>1 DEF Lives, Valid
  <2>6. \A v \in done' : /\ v \in Workers /\ pc[v] \notin Starting
                         /\ Lives(v)' => Lives(v) /\ Steady(handle[v].p)
    BY <1>3, <2>1, <2>5, DoneWorkers DEF Steady
  <2>7. \A v \in done' \ done : th'[handle[v].p].state >= CancelPending
    BY <1>4, <2>1 DEF CancelPending
  <2> QED
    BY <1>1, <2>3, <2>4, <2>6, <2>7, AcceptedStays
<1> QED
  BY <1>5, <1>6

LEMMA CancelsAccepted ==
  ASSUME Orderly, ThreadsInv, Accepted, NEW a \in Actors, CancelSets(a) \/ CancelsAsync(a)
  PROVE  Accepted'
<1>1. /\ pc[a] \in {"cancelSet", "cancelAsync"} /\ pc[a] \in CancelCalls /\ handle' = handle
      /\ ThreadsType
  BY DEF CancelSets, CancelsAsync, names, CancelCalls, ThreadsInv
<1>2. PICK w \in Workers : w = arg[a]
  BY <1>1, CancelTargets
<1>3. /\ Lives(w) /\ pc[w] \notin Starting /\ Holds(a, handle[w].p) /\ w \in Actors /\ Work(w)
      /\ pc[w] # "off"
  BY <1>1, <1>2, CancelTargets, DoingOf DEF Doing, Actors, ThreadsInv, Starting
<1>4. PICK q \in Structs : q = handle[w].p
  BY <1>1, <1>3, Pointers DEF Lives
<1>5. done' = done \cup {w}
  BY <1>2 DEF CancelSets, CancelsAsync
<1>6. /\ th'[q].x = th[q].x /\ th'[q].state \in {Canceling, CancelPending}
      /\ \A r \in Structs \ {q} : th'[r] = th[r]
  <2>1. CASE CancelSets(a)
    <3>1. th' = [th EXCEPT ![q].state = CancelPending, ![q].event = TRUE]
      BY <1>2, <1>4, <2>1, SMTT(30) DEF CancelSets, Target
    <3> QED
      BY <1>1, <3>1, PendingSet, ZenonT(60)
  <2>2. CASE CancelsAsync(a)
    <3>1. th' = [th EXCEPT ![q].state = Canceling, ![q].cancelState = "disable"]
      BY <1>2, <1>4, <2>2 DEF CancelsAsync, Target
    <3> QED
      BY <1>1, <3>1, CancelingSet
  <2> QED
    BY <2>1, <2>2
<1>7. \A b \in Actors : \/ pc'[b] = pc[b] /\ arg'[b] = arg[b]
                        \/ pc'[b] \notin Starting \cup CancelCalls
  <2>1. {"user", "throw"} \cap (Starting \cup CancelCalls) = {}
    BY DEF Starting, CancelCalls
  <2>2. CASE CancelSets(a)
    <3>1. Goto(a, "user")
      BY <1>2, <1>3, <2>2 DEF CancelSets, Target
    <3> QED
      BY <1>1, <2>1, <3>1 DEF ThreadsType, Places, Goto
  <2>3. CASE CancelsAsync(a)
    <3>1. th[q].threadH = w
      BY <1>3, <1>4 DEF Work, Kept
    <3>2. /\ pc' = [pc EXCEPT ![a] = "user", ![w] = "throw"]
          /\ arg' = [arg EXCEPT ![a] = None, ![w] = None]
      BY <1>2, <1>4, <2>3, <3>1 DEF CancelsAsync, Target
    <3> QED
      BY <1>1, <2>1, <3>2 DEF ThreadsType, Places
  <2> QED
    BY <2>2, <2>3
<1>8. \A v \in Workers : pc'[v] \in Starting => pc[v] \in Starting
  BY <1>7 DEF Actors
<1>9. \A b \in Actors : pc'[b] \in CancelCalls =>
        pc[arg'[b]] \notin Starting /\ arg'[b] \in Workers
  BY <1>7, CancelTargets
<1>10. \A r \in Structs : Steady(r)
  BY <1>6, OneSteady
<1>11. ASSUME NEW v \in Workers, Lives(v)' PROVE Lives(v) /\ Steady(handle[v].p)
  <2>1. handle[v] # None /\ handle[v].p \in Structs
    BY <1>1, <1>11, Pointers DEF Lives
  <2> QED
    BY <1>1, <1>10, <1>11, <2>1 DEF Lives, Valid, Steady
<1>12. \A v \in done' : /\ v \in Workers /\ pc[v] \notin Starting
                        /\ Lives(v)' => Lives(v) /\ Steady(handle[v].p)
  BY <1>3, <1>5, <1>11, DoneWorkers
<1>13. \A v \in done' \ done : th'[handle[v].p].state >= CancelPending
  BY <1>4, <1>5, <1>6 DEF CancelPending, Canceling
<1> QED
  BY <1>1, <1>8, <1>9, <1>12, <1>13, AcceptedStays

\* The steps that give a structure to a thread or free it accept nothing.
LEMMA StructsAccepted ==
  ASSUME ThreadsInv, Accepted, done' = done,
         \A w \in Workers : pc'[w] \in Starting => pc[w] \in Starting,
         \A b \in Actors : pc'[b] \in CancelCalls => pc[b] \in CancelCalls /\ arg'[b] = arg[b],
         \A w \in done : Lives(w)' =>
           /\ Lives(w) /\ handle'[w] = handle[w]
           /\ th'[handle[w].p].x = th[handle[w].p].x
           /\ th'[handle[w].p].state = th[handle[w].p].state
  PROVE  Accepted'
<1>1. \A b \in Actors : pc'[b] \in CancelCalls =>
        pc[arg'[b]] \notin Starting /\ arg'[b] \in Workers
  BY CancelTargets
<1> QED
  BY <1>1, DoneWorkers, AcceptedStays DEF Steady

LEMMA NewAccepted ==
  ASSUME ThreadsInv, Accepted, NEW a \in Actors, Self(a), self[a] = None
  PROVE  Accepted'
<1>1. PICK s \in Structs : New(s, TRUE, a)
  BY DEF Self
<1>2. PICK d \in BOOLEAN, h \in Actors \cup {None} : New(s, d, h)
  BY <1>1
<1>3. /\ pc[a] \in {"joinSelf", "cancelSelf"} /\ handle' = handle /\ done' = done
      /\ Goto(a, IF pc[a] = "joinSelf" THEN "joinTest" ELSE "cancelEnter") /\ ThreadsType /\ Owned
  BY DEF Self, history, ThreadsInv
<1>4. /\ pc'[a] = IF pc[a] = "joinSelf" THEN "joinTest" ELSE "cancelEnter"
      /\ arg' = arg /\ \A b \in Actors \ {a} : pc'[b] = pc[b]
  BY <1>3 DEF ThreadsType, Places, Goto
<1>5. \A w \in Workers : pc'[w] \in Starting => pc[w] \in Starting
  BY <1>4 DEF Actors, Starting
<1>6. \A b \in Actors : pc'[b] \in CancelCalls => pc[b] \in CancelCalls /\ arg'[b] = arg[b]
  BY <1>3, <1>4 DEF CancelCalls
<1>7. \A r \in Structs \ {s} : th'[r] = th[r]
  BY <1>2, <1>3, NewMade
<1>8. ASSUME NEW w \in done, Lives(w)' PROVE Lives(w) /\ th'[handle[w].p] = th[handle[w].p]
  <2>1. w \in Workers
    BY DoneWorkers
  <2>2. Lives(w) /\ handle[w].p # s
    BY <1>2, <1>3, <1>8, <2>1, NewLives
  <2> QED
    BY <1>3, <1>7, <2>1, <2>2, Pointers DEF Lives
<1> QED
  BY <1>3, <1>5, <1>6, <1>8, StructsAccepted

LEMMA CreateAccepted ==
  ASSUME ThreadsInv, Accepted, NEW a \in Drivers, NEW w \in Workers, Create(a, w)
  PROVE  Accepted'
<1>1. /\ pc[w] = "off" /\ Call(a, w, "create") /\ done' = done /\ ThreadsType /\ Owned
      /\ a \in Actors /\ pc[a] = "user" /\ handle[w] = None
  BY DEF Create, history, ThreadsInv, Actors
<1>2. PICK s \in Structs, d \in BOOLEAN :
        New(s, d, None) /\ handle' = [handle EXCEPT ![w] = [p |-> s, x |-> th[s].x]]
  BY DEF Create
<1>3. PICK h \in Actors \cup {None} : New(s, d, h)
  BY <1>2
<1>4. /\ pc'[a] = "create" /\ \A b \in Actors \ {a} : pc'[b] = pc[b] /\ arg'[b] = arg[b]
  BY <1>1 DEF Call, ThreadsType, Places
<1>5. \A v \in Workers : pc'[v] \in Starting => pc[v] \in Starting
  BY <1>4 DEF Actors, Starting
<1>6. \A b \in Actors : pc'[b] \in CancelCalls => pc[b] \in CancelCalls /\ arg'[b] = arg[b]
  BY <1>4 DEF CancelCalls
<1>7. \A r \in Structs \ {s} : th'[r] = th[r]
  BY <1>1, <1>3, NewMade
<1>8. ASSUME NEW v \in done, Lives(v)'
      PROVE  Lives(v) /\ th'[handle[v].p] = th[handle[v].p] /\ handle'[v] = handle[v]
  <2>1. v \in Workers /\ v # w
    BY <1>1, DoneWorkers DEF Starting
  <2>2. handle'[v] = handle[v]
    BY <1>1, <1>2, <2>1 DEF ThreadsType, Memory
  <2>3. Lives(v) /\ handle[v].p # s
    BY <1>3, <1>8, <2>1, <2>2, NewLives
  <2> QED
    BY <1>1, <1>7, <2>1, <2>2, <2>3, Pointers DEF Lives
<1> QED
  BY <1>1, <1>5, <1>6, <1>8, StructsAccepted

LEMMA BeginThreadAccepted ==
  ASSUME ThreadsInv, Accepted, NEW a \in Actors, BeginThread(a)
  PROVE  Accepted'
<1>1. /\ pc[a] = "create" /\ handle' = handle /\ arg' = arg /\ done' = done /\ ThreadsType
  BY DEF BeginThread, history, ThreadsInv
<1>2. PICK w \in Workers : w = arg[a]
  BY <1>1 DEF ThreadsInv, ThreadsType, Places, AboutOne
<1>3. Lives(w) /\ pc[w] = "off"
  BY <1>1, <1>2, DoingOf DEF Doing
<1>4. PICK s \in Structs : s = handle[w].p
  BY <1>1, <1>3, Pointers DEF Lives
<1>5. Sets(s, "threadH", w) /\ pc' = [pc EXCEPT ![a] = "created", ![w] = "start"] /\ w \in Actors
  BY <1>2, <1>4 DEF BeginThread, Target, Actors
<1>6. \A r \in Structs : th'[r].x = th[r].x /\ th'[r].state = th[r].state
  BY <1>1, <1>5, ThreadSet
<1>7. \A v \in Workers : pc'[v] \in Starting => pc[v] \in Starting
  BY <1>1, <1>3, <1>5 DEF ThreadsType, Places, Actors, Starting
<1>8. \A b \in Actors : pc'[b] \in CancelCalls => pc[b] \in CancelCalls /\ arg'[b] = arg[b]
  BY <1>1, <1>5 DEF ThreadsType, Places, CancelCalls
<1>9. ASSUME NEW v \in done, Lives(v)' PROVE Lives(v) /\ handle[v].p \in Structs
  <2>1. v \in Workers /\ handle[v] # None
    BY <1>1, <1>9, DoneWorkers DEF Lives
  <2>2. handle[v].p \in Structs
    BY <1>1, <2>1, Pointers
  <2> QED
    BY <1>1, <1>6, <1>9, <2>1, <2>2 DEF Lives, Valid
<1> QED
  BY <1>1, <1>6, <1>7, <1>8, <1>9, StructsAccepted

LEMMA DestroyAccepted ==
  ASSUME ThreadsInv, Accepted, NEW a \in Actors, NEW l \in {"user", "gone"}, Goto(a, l), done' = done,
         NEW w \in Workers, Lives(w), NEW s \in Structs, handle[w].p = s, Destroy(s),
         self' = self, \A v \in Workers \ {w} : handle'[v] = handle[v],
         handle'[w] = handle[w] \/ handle'[w] = None
  PROVE  Accepted'
<1>1. ThreadsType
  BY DEF ThreadsInv
<1>2. pc'[a] = l /\ \A b \in Actors \ {a} : pc'[b] = pc[b] /\ arg'[b] = arg[b]
  BY <1>1 DEF ThreadsType, Places, Goto
<1>3. \A v \in Workers : pc'[v] \in Starting => pc[v] \in Starting
  BY <1>2 DEF Actors, Starting
<1>4. \A b \in Actors : pc'[b] \in CancelCalls => pc[b] \in CancelCalls /\ arg'[b] = arg[b]
  BY <1>2 DEF CancelCalls
<1>5. /\ ~Lives(w)'
      /\ \A v \in Workers \ {w} : /\ Lives(v)' <=> Lives(v)
                                  /\ Lives(v) => handle[v].p # s
      /\ \A r \in Structs \ {s} : th'[r] = th[r]
  BY DestroyOwned
<1>6. ASSUME NEW v \in done, Lives(v)'
      PROVE  Lives(v) /\ th'[handle[v].p] = th[handle[v].p] /\ handle'[v] = handle[v]
  <2>1. v \in Workers \ {w}
    BY <1>5, <1>6, DoneWorkers
  <2>2. Lives(v) /\ handle[v].p # s
    BY <1>5, <1>6, <2>1
  <2> QED
    BY <1>1, <1>5, <2>1, <2>2, Pointers DEF Lives
<1> QED
  BY <1>3, <1>4, <1>6, StructsAccepted

LEMMA FreesAccepted ==
  ASSUME ThreadsInv, Accepted, NEW a \in Actors,
         \/ (a \in Drivers /\ CreateFails(a)) \/ (a \in Workers /\ Leave(a)) \/ DetachDestroys(a)
  PROVE  Accepted'
<1>1. CASE CreateFails(a)
  <2>1. /\ pc[a] = "create" /\ Goto(a, "user") /\ done' = done /\ self' = self /\ ThreadsType
    BY <1>1 DEF CreateFails, history, ThreadsInv
  <2>2. PICK w \in Workers : w = arg[a]
    BY <2>1 DEF ThreadsType, Places, AboutOne
  <2>3. Lives(w)
    BY <2>1, <2>2, DoingOf DEF Doing
  <2>4. PICK s \in Structs : s = handle[w].p
    BY <2>1, <2>3, Pointers DEF Lives
  <2>5. /\ Destroy(s) /\ handle'[w] = None
        /\ \A v \in Workers \ {w} : handle'[v] = handle[v]
    BY <1>1, <2>1, <2>2, <2>4 DEF CreateFails, Target, ThreadsType, Memory
  <2>6. PICK l \in {"user", "gone"} : l = "user"
    OBVIOUS
  <2> QED
    BY <2>1, <2>3, <2>4, <2>5, <2>6, DestroyAccepted
<1>2. CASE a \in Workers /\ Leave(a)
  <2>1. /\ pc[a] = "last" /\ Goto(a, "gone") /\ done' = done /\ self' = self /\ handle' = handle
        /\ Alive(a)
    BY <1>2 DEF Leave, names, Alive
  <2>2. self[a] \in Structs /\ self[a] = handle[a].p /\ Lives(a)
    BY <1>2, <2>1, AliveHas
  <2>3. PICK s \in Structs : s = self[a]
    BY <2>2
  <2>4. CASE Destroy(s)
    <3>1. PICK l \in {"user", "gone"} : l = "gone"
      OBVIOUS
    <3> QED
      BY <1>2, <2>1, <2>2, <2>3, <2>4, <3>1, DestroyAccepted
  <2>5. CASE th' = th
    <3>1. "gone" \notin Starting /\ "gone" \notin CancelCalls
      BY DEF Starting, CancelCalls
    <3> QED
      BY <2>1, <2>5, <3>1, SameSteady, AcceptedGoes
  <2> QED
    BY <1>2, <2>3, <2>4, <2>5 DEF Leave
<1>3. CASE DetachDestroys(a)
  <2>1. /\ pc[a] = "detachWait" /\ Goto(a, "user") /\ done' = done /\ self' = self /\ handle' = handle
        /\ ThreadsType
    BY <1>3 DEF DetachDestroys, names, history, ThreadsInv
  <2>2. PICK w \in Workers : w = arg[a]
    BY <2>1 DEF ThreadsType, Places, AboutOne, JoinCalls
  <2>3. Lives(w)
    BY <2>1, <2>2, DoingOf DEF Doing
  <2>4. PICK s \in Structs : s = handle[w].p
    BY <2>1, <2>3, Pointers DEF Lives
  <2>5. Destroy(s)
    BY <1>3, <2>2, <2>4 DEF DetachDestroys, Target
  <2>6. PICK l \in {"user", "gone"} : l = "user"
    OBVIOUS
  <2> QED
    BY <2>1, <2>3, <2>4, <2>5, <2>6, DestroyAccepted
<1> QED
  BY <1>1, <1>2, <1>3

LEMMA NextAccepted ==
  ASSUME Orderly, "early" \notin Env, ThreadsInv, Accepted, [Next]_vars
  PROVE  Accepted'
<1>1. ASSUME NEW a \in Actors, Continue(a) PROVE Accepted'
  BY <1>1, NextKeeps, NewAccepted, CallerAccepted, BeginThreadAccepted, DetachDecidesAccepted,
     WaiterAccepted, CancelDecidesAccepted, CancelsAccepted, FreesAccepted
  DEF Continue
<1>2. ASSUME NEW w \in Workers, Proceed(w) PROVE Accepted'
  BY <1>2, StartAccepted, WorkerAccepted, FreesAccepted DEF Proceed, Actors
<1>3. ASSUME NEW w \in Workers, Return(w) \/ Exit(w) \/ Wait(w) \/ TestCancel(w) PROVE Accepted'
  BY <1>3, WorkerAccepted
<1>4. ASSUME NEW w \in Workers, NEW setting \in {"enable", "disable", "deferred", "async"},
             SetCancel(w, setting)
      PROVE  Accepted'
  BY <1>4, WorkerAccepted
<1>5. ASSUME vars' = vars PROVE Accepted'
  BY <1>5 DEF vars, memory, names, counters, history, Accepted, Lives, Valid
<1>6. ASSUME NEW d \in Drivers, CreateFails(d) PROVE Accepted'
  BY <1>6, FreesAccepted DEF Actors
<1>7. ASSUME Next PROVE Accepted'
  BY <1>1, <1>2, <1>3, <1>4, <1>6, <1>7, CreateAccepted, BeginsAccepted DEF Next
<1> QED
  BY <1>5, <1>7

LEMMA AcceptedArrives == ThreadsInv /\ Accepted => CancelsArrive
<1> SUFFICES ASSUME ThreadsInv, Accepted PROVE CancelsArrive
  OBVIOUS
<1>1. CancelHitsTarget
  BY DEF ThreadsInv, Work, Aimed, CancelHitsTarget
<1>2. CancelStays
  <2> SUFFICES ASSUME NEW w \in done, Alive(w), th[self[w]].state < Canceling
               PROVE  th[self[w]].state = CancelPending
    BY DEF CancelStays
  <2>1. self[w] = handle[w].p /\ Lives(w)
    BY DoneWorkers, AliveHas
  <2> QED
    BY <2>1 DEF Accepted
<1>3. CancelEndsWait
  <2> SUFFICES ASSUME NEW w \in Workers, pc[w] = "wait", armed[w], w \in done,
                      th[self[w]].state < Canceling
               PROVE  Wakes(w)
    BY DEF CancelEndsWait
  <2>1. Alive(w)
    BY DEF Alive
  <2>2. th[self[w]].state = CancelPending
    BY <1>2, <2>1 DEF CancelStays
  <2>3. th[self[w]].event
    BY <2>1, <2>2, OwnFacts
  <2> QED
    BY <2>3 DEF Wakes
<1> QED
  BY <1>1, <1>2, <1>3 DEF CancelsArrive

-----------------------------------------------------------------------------
(* The theorems *)

\* StructsKept for any threads, structures and calls: what ptw32_new gives and
\* ptw32_threadDestroy takes back belongs to one thread in between, pthread_join
\* reads the status of the thread that it joined, and what was joined or
\* detached is freed, in whatever order the threads run.
THEOREM StructsAlwaysKept ==
  ASSUME Orderly
  PROVE  Spec => []StructsKept
BY AlwaysInv, StructsInv, PTL

\* NobodyHangs for any threads, structures and calls: whoever is in the queue of
\* a stateLock has it or waits for it, so it comes to the next one.
THEOREM NobodyEverHangs ==
  ASSUME Orderly
  PROVE  Spec => []NobodyHangs
BY AlwaysInv, HangsInv, PTL

\* CancelsArrive for any threads, structures and calls, where no thread is
\* cancelled before it runs: a cancellation that pthread_cancel accepted stays
\* pending until its thread acts on it, ends the thread's waits, and ends no
\* other thread.
THEOREM CancelsAlwaysArrive ==
  ASSUME Orderly, "early" \notin Env
  PROVE  Spec => []CancelsArrive
<1>1. Init => Accepted
  <2>1. {"user", "off"} \cap CancelCalls = {}
    BY DEF CancelCalls
  <2> QED
    BY <2>1 DEF Init, Accepted
<1>2. ThreadsInv /\ Accepted /\ [Next]_vars => Accepted'
  BY NextAccepted
<1> QED
  BY <1>1, <1>2, AlwaysInv, AcceptedArrives, PTL DEF Spec

=============================================================================
