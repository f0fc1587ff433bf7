------------------------------ MODULE PtwMutex ------------------------------
(***************************************************************************)
(* The mutexes of pthreads.2: a word lock_idx (0 free, 1 locked, -1 locked *)
(* and perhaps waited for) and an auto-reset event, in all types, robust   *)
(* or not, and the spin lock, which is that word alone or such a mutex.    *)
(* One step is one interlocked instruction, one wait or one SetEvent.      *)
(* The global lock for static initialisers (PtwMcsLock) and the thread's   *)
(* own data, which only the owner of a mutex touches, are no steps.        *)
(***************************************************************************)
EXTENDS PtwCalls

CONSTANTS
  Types,     \* the types of mutex that the program may create
  Avoided    \* functions that it does not use with a type: <<type, function>>

MutexKinds == {"normal", "errorcheck", "recursive", "spin"}

ASSUME MutexAssumption ==
  /\ Types \subseteq [kind : MutexKinds, robust : BOOLEAN]
  /\ \A m \in Types : m.robust => m.kind # "spin"

VARIABLES
  type,     \* its kind and robustness
  mutex,    \* *mutex: "static" (an initialiser), "valid", "null", "freed"
  idx,      \* lock_idx
  event,    \* the event is signalled
  owner,    \* ownerThread, NoThread where its p is NULL
  count,    \* recursive_count
  state,    \* robustNode->stateInconsistent; "dead" is -1
  listed,   \* the thread whose robustMxList has the node
  contended,\* it went into the loop that waits
  holds,    \* history: how often each thread has it locked
  dirty,    \* history: a thread died with it, and nobody made it consistent
  unaware   \* history: the states in which a thread got it so, and was told 0

wordVars == <<idx, event>>
ownerVars == <<owner, count, listed>>
history == <<holds, dirty, unaware>>
vars == <<type, mutex, wordVars, ownerVars, state, pc, how, contended, calls, history>>

Robust == type.robust
Normal == type.kind \in {"normal", "spin"}
Recursive == type.kind = "recursive"

Returns(t) == Goto(t, "idle")

\* pthread_mutex_init, by the program or for a static initialiser.
Init ==
  /\ type \in Types
  /\ mutex \in {"valid"} \cup (IF type.robust THEN {} ELSE {"static"})
  /\ idx = 0 /\ event = FALSE
  /\ owner = NoThread /\ count = 0 /\ listed = NoThread /\ state = "consistent"
  /\ NoCalls
  /\ contended = [t \in Threads |-> FALSE]
  /\ holds = [t \in Threads |-> 0]
  /\ dirty = FALSE /\ unaware = {}

-----------------------------------------------------------------------------
(* pthread_mutex_lock, _trylock and _timedlock *)

Call(t, h) ==
  /\ pc[t] = "idle" /\ calls < MaxCalls /\ mutex \in {"static", "valid"}
  /\ <<type, h>> \notin Avoided
  /\ calls' = calls + 1
  /\ how' = [how EXCEPT ![t] = h]
  /\ contended' = [contended EXCEPT ![t] = FALSE]
  /\ Goto(t, IF mutex = "static" THEN "init" ELSE IF Robust THEN "check" ELSE "first")
  /\ UNCHANGED <<type, mutex, wordVars, ownerVars, state, history>>

\* An initialisation that takes the first look for granted.
CheckNeedInit_Once(t) ==
  /\ pc[t] = "init"
  /\ mutex' = "valid"
  /\ idx' = 0 /\ event' = FALSE
  /\ Goto(t, "first")
  /\ UNCHANGED <<type, ownerVars, state, how, contended, calls, history>>

\* ptw32_mutex_check_need_init: whoever comes first initialises it, under the
\* lock; a mutex that was destroyed meanwhile is an error.
CheckNeedInit(t) ==
  /\ pc[t] = "init"
  /\ mutex' = IF mutex = "static" THEN "valid" ELSE mutex
  /\ Goto(t, IF mutex \in {"null", "freed"} THEN "idle" ELSE "first")
  /\ UNCHANGED <<type, wordVars, ownerVars, state, how, contended, calls, history>>

\* A robust mutex that is not recoverable is refused.
CheckState(t) ==
  /\ pc[t] = "check"
  /\ Goto(t, IF state = "notrecoverable" THEN "idle" ELSE "first")
  /\ UNCHANGED <<type, mutex, wordVars, ownerVars, state, how, contended, calls, history>>

\* The caller has it, warned by EOWNERDEAD or not: owner and count are set,
\* and a robust mutex is put on the list of the thread.
\* pthread_mutex_timedlock does so for a robust mutex of type normal only
\* after it has waited.
Got(t, warned) ==
  /\ Returns(t)
  /\ IF Robust /\ type.kind = "normal" /\ how[t] = "timed" /\ ~contended[t]
       THEN UNCHANGED <<owner, listed>>
       ELSE /\ owner' = IF Robust \/ ~Normal THEN t ELSE owner
            /\ listed' = IF Robust THEN t ELSE listed
  /\ count' = IF Normal THEN count ELSE 1
  /\ holds' = [holds EXCEPT ![t] = @ + 1]
  /\ unaware' = unaware \cup (IF dirty /\ ~warned THEN {state} ELSE {})
  /\ UNCHANGED dirty

\* What comes when the mutex is locked: the owner of a recursive one counts,
\* trylock gives up (a robust mutex may be inherited), the others wait.
Locked(t) ==
  IF owner = t /\ ~Normal /\ (how[t] # "try" \/ Recursive)
  THEN /\ Returns(t)
       /\ count' = IF Recursive THEN count + 1 ELSE count
       /\ holds' = [holds EXCEPT ![t] = IF Recursive THEN @ + 1 ELSE @]
       /\ UNCHANGED <<owner, listed, contended, dirty, unaware>>
  ELSE /\ Goto(t, IF how[t] = "try"
                  THEN IF Robust THEN "inherit" ELSE "idle"
                  ELSE IF type.kind = "spin" THEN "first"
                  ELSE IF Robust THEN "inherit" ELSE "mark")
       /\ contended' = [contended EXCEPT ![t] = TRUE]
       /\ UNCHANGED <<ownerVars, history>>

\* The first exchange: it writes 1 whatever was there, or it is a
\* compare-and-swap (all types but normal, and trylock).  A spin lock that is
\* locked is tried again and again.
FirstTry(t) ==
  /\ pc[t] = "first"
  /\ type.kind = "spin" /\ how[t] = "lock" => idx = 0
  /\ idx' = IF idx = 0 \/ (type.kind = "normal" /\ how[t] # "try") THEN 1 ELSE idx
  /\ IF idx = 0 THEN Got(t, FALSE) /\ UNCHANGED contended ELSE Locked(t)
  /\ UNCHANGED <<type, mutex, event, state, how, calls>>

\* ptw32_robust_mutex_inherit: the first one after a death becomes the owner.
Inherit(t) ==
  /\ pc[t] = "inherit"
  /\ state' = IF state = "dead" THEN "inconsistent" ELSE state
  /\ IF state = "dead"
       THEN Got(t, TRUE)
       ELSE /\ Goto(t, IF state = "notrecoverable" /\ how[t] = "timed" /\ ~Normal THEN "next"
                       ELSE IF state = "notrecoverable" \/ how[t] = "try" THEN "idle" ELSE "mark")
            /\ UNCHANGED <<ownerVars, history>>
  /\ UNCHANGED <<type, mutex, wordVars, how, contended, calls>>

\* The exchange with -1.  timedlock looks at the state of a robust mutex that
\* is not of type normal once more after it.
Mark(t) ==
  /\ pc[t] = "mark"
  /\ idx' = -1
  /\ IF idx # 0 THEN Goto(t, "sleep") /\ UNCHANGED <<ownerVars, history>>
     ELSE IF Robust /\ ~Normal /\ how[t] = "timed" /\ state = "notrecoverable"
     THEN Goto(t, "next") /\ UNCHANGED <<ownerVars, history>>
     ELSE Got(t, FALSE)
  /\ UNCHANGED <<type, mutex, event, state, how, contended, calls>>

\* The wait for the event; it resets it.
Wakes(t) ==
  /\ pc[t] = "sleep" /\ event
  /\ event' = FALSE
  /\ Goto(t, IF ~Robust THEN "mark" ELSE IF ~Normal /\ how[t] = "timed" THEN "inherit" ELSE "recheck")
  /\ UNCHANGED <<type, mutex, idx, ownerVars, state, how, contended, calls, history>>

\* ETIMEDOUT from ptw32_timed_eventwait
TimeOut(t) ==
  /\ pc[t] = "sleep" /\ how[t] = "timed" /\ ~event
  /\ Returns(t)
  /\ UNCHANGED <<type, mutex, wordVars, ownerVars, state, how, contended, calls, history>>

\* A waiter of a robust mutex that is woken looks at its state.
Recheck(t) ==
  /\ pc[t] = "recheck"
  /\ Goto(t, IF state = "notrecoverable" THEN "next" ELSE "inherit")
  /\ UNCHANGED <<type, mutex, wordVars, ownerVars, state, how, contended, calls, history>>

\* It unblocks the next thread and returns ENOTRECOVERABLE.
UnblockNext(t) ==
  /\ pc[t] = "next"
  /\ event' = TRUE
  /\ Returns(t)
  /\ UNCHANGED <<type, mutex, idx, ownerVars, state, how, contended, calls, history>>

-----------------------------------------------------------------------------
(* pthread_mutex_unlock, called by a thread that has locked the mutex *)

\* Another one is refused (EPERM), or calls what it must not.
MayUnlock(t) == pc[t] = "idle" /\ holds[t] > 0 /\ mutex = "valid" /\ (Robust \/ ~Normal => owner = t)

\* The owner of a robust mutex that is inconsistent makes it unrecoverable,
\* also when it unlocks a recursive one not for the last time.
Unlock(t) ==
  /\ MayUnlock(t)
  /\ state' = IF Robust /\ state = "inconsistent" THEN "notrecoverable" ELSE state
  /\ holds' = [holds EXCEPT ![t] = @ - 1]
  /\ count' = IF Recursive THEN count - 1 ELSE count
  /\ IF Recursive /\ count > 1
       THEN Returns(t) /\ UNCHANGED <<owner, listed>>
       ELSE /\ Goto(t, "release")
            /\ owner' = IF Robust \/ ~Normal THEN NoThread ELSE owner
            /\ listed' = IF Robust THEN NoThread ELSE listed
  /\ UNCHANGED <<type, mutex, wordVars, how, contended, calls, dirty, unaware>>

\* An unlock that forgets the waiters when it finds the word at -1.
ReleaseWord_NoWake(t) ==
  /\ pc[t] = "release"
  /\ idx' = 0
  /\ Goto(t, "idle")
  /\ UNCHANGED <<type, mutex, event, ownerVars, state, how, contended, calls, history>>

ReleaseWord(t) ==
  /\ pc[t] = "release"
  /\ idx' = 0
  /\ Goto(t, IF idx < 0 THEN "signal" ELSE "idle")
  /\ UNCHANGED <<type, mutex, event, ownerVars, state, how, contended, calls, history>>

\* SetEvent, also of a thread that ends with a robust mutex.
Signal(t) ==
  /\ pc[t] \in {"signal", "dying"}
  /\ event' = TRUE
  /\ Goto(t, IF pc[t] = "dying" THEN "dead" ELSE "idle")
  /\ UNCHANGED <<type, mutex, idx, ownerVars, state, how, contended, calls, history>>

-----------------------------------------------------------------------------
(* The rest of the robust protocol, and the end of the mutex *)

\* pthread_mutex_consistent, by the owner.
Consistent(t) ==
  /\ pc[t] = "idle" /\ holds[t] > 0 /\ state = "inconsistent"
  /\ state' = "consistent"
  /\ dirty' = FALSE
  /\ UNCHANGED <<type, mutex, wordVars, ownerVars, pc, how, contended, calls, holds, unaware>>

\* A thread that ends and leaves the state of its robust mutexes as it is.
Die_Silently(t) ==
  /\ Robust /\ pc[t] = "idle"
  /\ Goto(t, "dead")
  /\ idx' = IF listed = t THEN 0 ELSE idx
  /\ listed' = IF listed = t THEN NoThread ELSE listed
  /\ dirty' = (dirty \/ holds[t] > 0)
  /\ holds' = [holds EXCEPT ![t] = 0]
  /\ UNCHANGED <<type, mutex, event, owner, count, state, how, contended, calls, unaware>>

\* pthread_win32_thread_detach_np: the thread ends, and each mutex on its list
\* is marked.  (Threads end with no other mutex than robust ones.)
Die(t) ==
  /\ Robust /\ pc[t] = "idle"
  /\ IF listed = t
       THEN listed' = NoThread /\ state' = "dead" /\ Goto(t, "dying")
       ELSE Goto(t, "dead") /\ UNCHANGED <<listed, state>>
  /\ dirty' = (dirty \/ holds[t] > 0)
  /\ holds' = [holds EXCEPT ![t] = 0]
  /\ UNCHANGED <<type, mutex, wordVars, owner, count, how, contended, calls, unaware>>

\* pthread_mutex_destroy, which the program calls while no thread is in a
\* call (except one that waits to initialise a static mutex), and not while
\* nobody has learned of a dead owner.  It locks the mutex by trylock; it is
\* an error if this fails or a recursive mutex had been locked before.  The
\* test of the type knows non-robust mutexes only.
Destroy(t) ==
  /\ mutex \in {"static", "valid"}
  /\ \A u \in Threads : pc[u] \in {"idle", "init", "dead"}
  /\ pc[t] = "idle" /\ state # "dead"
  /\ \/ mutex = "static" /\ mutex' = "null"
     \/ /\ mutex = "valid"
        /\ \/ idx = 0
           \/ state = "notrecoverable"
           \/ Robust /\ Recursive /\ owner = t
        /\ mutex' = "freed"
  /\ UNCHANGED <<type, wordVars, ownerVars, state, pc, how, contended, calls, history>>

-----------------------------------------------------------------------------
InCall(t) ==
  \/ CheckNeedInit(t) \/ CheckState(t) \/ FirstTry(t) \/ Inherit(t) \/ Mark(t)
  \/ Wakes(t) \/ TimeOut(t) \/ Recheck(t) \/ UnblockNext(t) \/ ReleaseWord(t) \/ Signal(t)

Next ==
  \E t \in Threads :
    \/ \E h \in {"lock", "try", "timed"} : Call(t, h)
    \/ InCall(t) \/ Unlock(t) \/ Consistent(t) \/ Die(t) \/ Destroy(t)

Spec == Init /\ [][Next]_vars

-----------------------------------------------------------------------------
TypeOK ==
  /\ type \in Types /\ mutex \in {"static", "valid", "null", "freed"}
  /\ idx \in -1 .. 1 /\ event \in BOOLEAN
  /\ owner \in Threads \cup {NoThread} /\ listed \in Threads \cup {NoThread}
  /\ count \in 0 .. MaxCalls
  /\ state \in {"consistent", "inconsistent", "notrecoverable", "dead"}
  /\ pc \in [Threads -> {"idle", "init", "check", "first", "inherit", "mark", "sleep",
                         "recheck", "next", "release", "signal", "dying", "dead"}]
  /\ how \in [Threads -> {"none", "lock", "try", "timed"}]
  /\ contended \in [Threads -> BOOLEAN] /\ calls \in 0 .. MaxCalls
  /\ holds \in [Threads -> 0 .. MaxCalls] /\ dirty \in BOOLEAN
  /\ unaware \subseteq {"consistent", "inconsistent", "notrecoverable", "dead"}

Lockers == {t \in Threads : holds[t] > 0}

\* One thread holds the mutex at a time, whatever way it got it, and nobody
\* holds one that is free or was destroyed.  (A robust recursive mutex is
\* destroyed under the thread that holds it: Destroy.)
OneHolder ==
  /\ Cardinality(Lockers) <= 1
  /\ Lockers # {} => idx # 0
  /\ mutex = "freed" /\ ~(Robust /\ Recursive) /\ state # "notrecoverable" => Lockers = {}

\* The mutex knows its owner, and how often it is locked, and a robust one is
\* on the list of exactly this thread, so that the death of its owner is
\* noticed.
OwnerRecorded ==
  \A t \in Lockers :
    /\ ~Normal => owner = t /\ count = holds[t]
    /\ Robust => owner = t /\ listed = t

\* Both: it is held by the one thread that it takes for its owner.
HeldByOwner == TypeOK /\ OneHolder /\ OwnerRecorded

\* A thread in a call waits while the word of a spin lock is not 0, or the event
\* is not signalled, and can take a step otherwise.
Blocked(t) ==
  \/ pc[t] = "first" /\ type.kind = "spin" /\ how[t] = "lock" /\ idx # 0
  \/ pc[t] = "sleep" /\ ~event /\ how[t] # "timed"
InCalls == {t \in Threads : pc[t] \notin {"idle", "dead"}}
GoesOn == \A t \in InCalls : Blocked(t) <=> ~ENABLED InCall(t)

\* Nobody waits for a mutex that nobody holds: while some thread is in a call,
\* one holds the mutex or can go on.
AtRest == Lockers = {} /\ \A t \in InCalls : Blocked(t)
WaitersWoken == AtRest => InCalls = {}

\* The mark -1 and the event lose no waiter, whoever barges in or times out,
\* while all threads live, and when one has died with the mutex and no other has
\* learned of it.
WokenByTheLiving ==
  state = "dead" \/ (\A t \in Threads : pc[t] # "dead") => WaitersWoken

\* The same with the steps that can be taken.
NobodyStranded == GoesOn /\ WokenByTheLiving

\* The first one that gets the mutex after a death is told EOWNERDEAD, and so
\* is everybody until it is made consistent or unrecoverable.
DeathNoticed == unaware \subseteq {"notrecoverable"}

\* A mutex that is not recoverable is never locked with success again.
NeverUnaware == unaware = {}
=============================================================================
