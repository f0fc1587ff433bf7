------------------------------ MODULE PtwRwlock ------------------------------
(***************************************************************************)
(* The read-write locks of pthreads.2: a mutex for exclusive access that a *)
(* writer keeps, one for the count of readers that are done, and a         *)
(* condition on which a writer waits until that count comes up to zero.    *)
(* A step is a wait, or what is done under the mutexes without a wait.     *)
(***************************************************************************)
EXTENDS PtwCalls, FiniteSets

CONSTANTS
  IntMax,   \* INT_MAX
  FoldLate  \* a pthread_rwlock_timedrdlock may run out of time at that limit

ASSUME RwAssumption ==
  /\ IntMax \in Nat /\ Cardinality(Threads) < IntMax
  /\ FoldLate \in BOOLEAN

VARIABLES
  rwlock,    \* *rwlock: "static", "valid" or "null"
  exclusive, \* who has mtxExclusiveAccess
  shared,    \* who has mtxSharedAccessCompleted
  nShared, nCompleted, nExclusive,  \* the counts of accesses
  woken,     \* cndSharedAccessCompleted: the waiters that it was signalled to
  hold       \* what each thread has of the lock

mutexes == <<exclusive, shared>>
counts == <<nShared, nCompleted, nExclusive>>
rwVars == <<rwlock, mutexes, counts, woken, pc, how, hold, calls>>

Gets(t, h) == hold' = [hold EXCEPT ![t] = h] /\ Goto(t, "idle")

Reading == {"rdlock", "timedrdlock", "tryrdlock"}
Writing == {"wrlock", "timedwrlock", "trywrlock"}
GivingUp == {"tryrdlock", "timedrdlock", "trywrlock", "timedwrlock"}

RwInit ==
  /\ rwlock \in {"static", "valid"}
  /\ exclusive = NoThread /\ shared = NoThread
  /\ nShared = 0 /\ nCompleted = 0 /\ nExclusive = 0
  /\ woken = {}
  /\ hold = [t \in Threads |-> "none"]
  /\ NoCalls

-----------------------------------------------------------------------------
(* A call, and ptw32_rwlock_check_need_init                                *)

Enter(t, f) ==
  /\ pc[t] = "idle" /\ hold[t] = "none" /\ calls < MaxCalls /\ rwlock # "null"
  /\ \A u \in Threads : how[u] = "destroy" => pc[u] = "idle"
  /\ calls' = calls + 1
  /\ how' = [how EXCEPT ![t] = f]
  /\ Goto(t, IF rwlock = "static" THEN "init" ELSE "lock")
  /\ UNCHANGED <<rwlock, mutexes, counts, woken, hold>>

\* Under ptw32_rwlock_test_init_lock, with the test again; EINVAL for one that
\* was destroyed before it was ever used.
NeedInit(t) ==
  /\ pc[t] = "init"
  /\ IF rwlock = "null" THEN Goto(t, "idle") /\ UNCHANGED rwlock
     ELSE Goto(t, "lock") /\ rwlock' = "valid"
  /\ UNCHANGED <<mutexes, counts, woken, how, hold, calls>>

\* A try that finds a mutex taken, or a timed lock whose time is up.  A reader
\* that unlocks, or reads at the limit, may just have mtxSharedAccessCompleted.
Busy(t) ==
  \/ /\ pc[t] = "lock" /\ exclusive # NoThread /\ how[t] \in GivingUp
     /\ Goto(t, "idle")
     /\ UNCHANGED <<rwlock, mutexes, counts, woken, how, hold, calls>>
  \/ /\ pc[t] = "lockShared" /\ how[t] \in {"trywrlock", "timedwrlock"}
     /\ \E u \in Threads : pc[u] = "unlock"
     /\ exclusive' = NoThread /\ Goto(t, "idle")
     /\ UNCHANGED <<rwlock, shared, counts, woken, how, hold, calls>>

-----------------------------------------------------------------------------
(* pthread_rwlock_rdlock, _timedrdlock, _tryrdlock                         *)

\* One more access, unless the count is at its limit.
Read(t) ==
  /\ pc[t] = "lock" /\ how[t] \in Reading /\ exclusive = NoThread
  /\ nShared' = nShared + 1
  /\ IF nShared + 1 = IntMax
     THEN exclusive' = t /\ Goto(t, "fold") /\ UNCHANGED hold
     ELSE Gets(t, "read") /\ UNCHANGED exclusive
  /\ UNCHANGED <<rwlock, shared, nCompleted, nExclusive, woken, how, calls>>

\* At the limit the accesses that are done are taken off.
Fold(t) ==
  /\ pc[t] = "fold" /\ shared = NoThread
  /\ nShared' = nShared - nCompleted /\ nCompleted' = 0
  /\ exclusive' = NoThread
  /\ Gets(t, "read")
  /\ UNCHANGED <<rwlock, shared, nExclusive, woken, how, calls>>

\* The timed one gives up when another thread is just counting itself as done
\* and has mtxSharedAccessCompleted; its own access counts as done, outside it,
\* and nothing is taken off.
FoldTimesOut(t) ==
  /\ FoldLate /\ pc[t] = "fold" /\ how[t] = "timedrdlock"
  /\ \E u \in Threads : pc[u] = "unlock"
  /\ nCompleted' = nCompleted + 1
  /\ exclusive' = NoThread
  /\ Goto(t, "idle")
  /\ UNCHANGED <<rwlock, shared, nShared, nExclusive, woken, how, hold, calls>>

-----------------------------------------------------------------------------
(* pthread_rwlock_wrlock, _timedwrlock, _trywrlock                         *)

Write(t) ==
  /\ pc[t] = "lock" /\ how[t] \in Writing /\ exclusive = NoThread
  /\ exclusive' = t
  /\ Goto(t, "lockShared")
  /\ UNCHANGED <<rwlock, shared, counts, woken, how, hold, calls>>

\* A mutant: the accesses that are done are not taken off.
UnderWay_All == nShared

\* The accesses that are under way, with those done taken off.
UnderWay == IF nCompleted > 0 THEN nShared - nCompleted ELSE nShared

Owns(t) == nExclusive' = nExclusive + 1 /\ Gets(t, "write")

\* With no access under way the lock is there; otherwise the count of those
\* that are done starts below zero and the writer waits, the try gives up.
WriteShared(t) ==
  /\ pc[t] = "lockShared" /\ shared = NoThread
  /\ \/ /\ UnderWay = 0
        /\ nShared' = 0 /\ nCompleted' = IF nCompleted > 0 THEN 0 ELSE nCompleted
        /\ shared' = t /\ Owns(t) /\ UNCHANGED <<exclusive, woken>>
     \/ /\ UnderWay # 0 /\ how[t] # "trywrlock"
        /\ nShared' = UnderWay /\ nCompleted' = -UnderWay
        /\ woken' = woken \ {t} /\ Goto(t, "sleep")
        /\ UNCHANGED <<mutexes, nExclusive, hold>>
     \/ /\ UnderWay # 0 /\ how[t] = "trywrlock"
        /\ nShared' = UnderWay /\ nCompleted' = 0
        /\ exclusive' = NoThread /\ Goto(t, "idle")
        /\ UNCHANGED <<shared, nExclusive, woken, hold>>
  /\ UNCHANGED <<rwlock, how, calls>>

\* pthread_cond_wait returns; the loop tests the count.
Wake(t) ==
  /\ pc[t] = "sleep" /\ t \in woken /\ shared = NoThread
  /\ woken' = woken \ {t}
  /\ IF nCompleted < 0
     THEN UNCHANGED <<shared, nShared, nExclusive, pc, hold>>
     ELSE shared' = t /\ nShared' = 0 /\ Owns(t)
  /\ UNCHANGED <<rwlock, exclusive, nCompleted, how, calls>>

\* The wait times out or the thread is cancelled: ptw32_rwlock_cancelwrwait.
WaitFails(t) ==
  /\ pc[t] = "sleep" /\ shared = NoThread
  /\ nShared' = -nCompleted /\ nCompleted' = 0
  /\ exclusive' = NoThread /\ woken' = woken \ {t}
  /\ \/ how[t] = "timedwrlock" /\ Goto(t, "idle")
     \/ Goto(t, "dead")
  /\ UNCHANGED <<rwlock, shared, nExclusive, how, hold, calls>>

-----------------------------------------------------------------------------
(* pthread_rwlock_unlock                                                   *)

\* nExclusiveAccessCount is read without a lock.
RwUnlock(t) ==
  /\ pc[t] = "idle" /\ hold[t] # "none"
  /\ IF nExclusive = 0
     THEN /\ Goto(t, "unlock")
          /\ UNCHANGED <<mutexes, nExclusive, hold>>
     ELSE /\ nExclusive' = nExclusive - 1
          /\ shared' = NoThread /\ exclusive' = NoThread
          /\ Gets(t, "none")
  /\ UNCHANGED <<rwlock, nShared, nCompleted, woken, how, calls>>

\* A mutant: a reader that is done takes itself off the wrong count.
Done_OneTooFew(t) ==
  /\ pc[t] = "unlock" /\ shared = NoThread
  /\ nCompleted' = nCompleted + 1
  /\ woken' = IF nCompleted' = -1 THEN {u \in Threads : pc[u] = "sleep"} ELSE woken
  /\ Gets(t, "none")
  /\ UNCHANGED <<rwlock, mutexes, nShared, nExclusive, how, calls>>

\* One more access is done; the last one that a writer waits for signals it.
Done(t) ==
  /\ pc[t] = "unlock" /\ shared = NoThread
  /\ nCompleted' = nCompleted + 1
  /\ woken' = IF nCompleted + 1 = 0 THEN {u \in Threads : pc[u] = "sleep"} ELSE woken
  /\ Gets(t, "none")
  /\ UNCHANGED <<rwlock, mutexes, nShared, nExclusive, how, calls>>

-----------------------------------------------------------------------------
(* pthread_rwlock_destroy                                                  *)

\* One that was never used is destroyed under ptw32_rwlock_test_init_lock, EBUSY
\* if another thread has initialised it meanwhile.  The program calls for one
\* that is in use only while no other thread is in a call for it.
RwDestroy(t) ==
  /\ pc[t] = "idle" /\ hold[t] = "none" /\ rwlock # "null"
  /\ rwlock = "static" \/ \A u \in Threads \ {t} : pc[u] \in {"idle", "dead"}
  /\ how' = [how EXCEPT ![t] = "destroy"]
  /\ Goto(t, IF rwlock = "static" THEN "destroyStatic" ELSE "destroy")
  /\ UNCHANGED <<rwlock, mutexes, counts, woken, hold, calls>>

DestroyStatic(t) ==
  /\ pc[t] = "destroyStatic"
  /\ rwlock' = IF rwlock = "static" THEN "null" ELSE rwlock
  /\ Goto(t, "idle")
  /\ UNCHANGED <<mutexes, counts, woken, how, hold, calls>>

\* A mutant: only a writer keeps the lock from being destroyed.
DestroyValid_WriterOnly(t) ==
  /\ pc[t] = "destroy" /\ exclusive = NoThread /\ shared = NoThread
  /\ rwlock' = IF nExclusive > 0 THEN rwlock ELSE "null"
  /\ Goto(t, "idle")
  /\ UNCHANGED <<mutexes, counts, woken, how, hold, calls>>

\* With both mutexes: EBUSY if the counts say that a thread has the lock.
DestroyValid(t) ==
  /\ pc[t] = "destroy" /\ exclusive = NoThread /\ shared = NoThread
  /\ rwlock' = IF nExclusive > 0 \/ nShared > nCompleted THEN rwlock ELSE "null"
  /\ Goto(t, "idle")
  /\ UNCHANGED <<mutexes, counts, woken, how, hold, calls>>

-----------------------------------------------------------------------------
RwGo(t) ==
  \/ NeedInit(t) \/ Read(t) \/ Fold(t) \/ Write(t) \/ WriteShared(t)
  \/ Wake(t) \/ Done(t) \/ DestroyStatic(t) \/ DestroyValid(t)

RwNext ==
  \E t \in Threads :
    \/ RwGo(t) \/ Busy(t) \/ FoldTimesOut(t) \/ WaitFails(t) \/ RwUnlock(t) \/ RwDestroy(t)
    \/ \E f \in Reading \cup Writing : Enter(t, f)

RwSpecification == RwInit /\ [][RwNext]_rwVars

\* The scheduler runs every thread that can go on, and who has the lock gives
\* it back.
RwFair == \A t \in Threads : WF_rwVars(RwGo(t)) /\ WF_rwVars(RwUnlock(t))

-----------------------------------------------------------------------------
Holders(h) == {t \in Threads : hold[t] = h}

RW == INSTANCE RwSpec WITH
  readers <- Holders("read"),
  writer <- IF Holders("write") = {} THEN NoThread ELSE CHOOSE t \in Holders("write") : TRUE,
  exists <- rwlock # "null"

\* Whatever the order of locks, tries, timeouts and cancellations, the lock is
\* that of RwSpec: no writer beside another thread, none has a destroyed lock.
ImplementsRw == RW!Spec

\* Where no writer waits, the two counts differ by the readers there are; a
\* writer waits for exactly those that are there.
CountsReaders ==
  /\ (exclusive = NoThread /\ nExclusive = 0) => nShared - nCompleted = Cardinality(Holders("read"))
  /\ \A t \in Threads : pc[t] = "sleep" => -nCompleted = Cardinality(Holders("read"))

\* The counts stay within an int.
CountsFit == nShared <= IntMax /\ nCompleted <= IntMax

\* The counts can be relied on, at their limit as well.
CountsHold == CountsReaders /\ CountsFit

\* One writer at most waits for readers, with mtxExclusiveAccess; its wait ends.
WriterWaits == \E t \in Threads : pc[t] = "sleep"
WriterProceeds == WriterWaits ~> ~WriterWaits
=============================================================================
