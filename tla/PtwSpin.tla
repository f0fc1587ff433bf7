------------------------------ MODULE PtwSpin ------------------------------
(***************************************************************************)
(* The spin locks of pthreads.2.  On several processors the lock is a word *)
(* that threads compare and swap, on one it is a mutex; a lock with the    *)
(* static initialiser becomes one or the other with its first use.         *)
(* One step is an interlocked instruction, or what is done under           *)
(* ptw32_spinlock_test_init_lock or under the mutex.                       *)
(***************************************************************************)
EXTENDS PtwCalls, FiniteSets

VARIABLES
  cpus,      \* "one" or "many"
  spin,      \* *lock: "static", "valid" or "null"
  interlock, \* of the object: "invalid", "unlocked", "locked" or "mutex"
  mutexFree, \* nobody has u.mutex
  holders    \* history: the threads that got the lock and have not unlocked it

spinVars == <<cpus, spin, interlock, mutexFree, pc, how, calls, holders>>

SpinGets(t) == holders' = holders \cup {t} /\ Goto(t, "idle")

\* What pthread_spin_init makes.
FreshSpin(n) == IF n = "many" THEN "unlocked" ELSE "mutex"

\* pthread_spin_init by the program, or the static initialiser.
SpinInit ==
  /\ cpus \in {"one", "many"}
  /\ spin \in {"static", "valid"}
  /\ interlock = IF spin = "static" THEN "invalid" ELSE FreshSpin(cpus)
  /\ mutexFree = TRUE
  /\ NoCalls
  /\ holders = {}

-----------------------------------------------------------------------------
(* pthread_spin_lock, pthread_spin_trylock                                 *)

Entry == IF spin = "static" THEN "init" ELSE "swap"

\* A lock that is destroyed in use is not called for by others meanwhile.
NoDestroyer == \A u \in Threads : pc[u] # "destroy"

SpinCall(t, f) ==
  /\ pc[t] = "idle" /\ t \notin holders /\ calls < MaxCalls
  /\ spin # "null" /\ NoDestroyer
  /\ calls' = calls + 1
  /\ how' = [how EXCEPT ![t] = f]
  /\ Goto(t, Entry)
  /\ UNCHANGED <<cpus, spin, interlock, mutexFree, holders>>

\* A mutant: the initialiser is not looked at again under the lock.
SpinNeedInit_Unlocked(t) ==
  /\ pc[t] = "init"
  /\ spin' = "valid" /\ interlock' = FreshSpin(cpus) /\ mutexFree' = TRUE /\ Goto(t, "swap")
  /\ UNCHANGED <<cpus, how, calls, holders>>

\* ptw32_spinlock_check_need_init: the first makes the lock, EINVAL after it was
\* destroyed.  With no memory for it the initialiser stays, with no mutex for it
\* it is lost.
SpinNeedInit(t) ==
  /\ pc[t] = "init"
  /\ \/ /\ spin = "static"
        /\ spin' = "valid" /\ interlock' = FreshSpin(cpus) /\ Goto(t, "swap")
     \/ /\ spin = "static" /\ Goto(t, "idle")
        /\ spin' \in {"static"} \cup (IF cpus = "one" THEN {"null"} ELSE {})
        /\ UNCHANGED interlock
     \/ /\ spin = "null" /\ Goto(t, "idle") /\ UNCHANGED <<spin, interlock>>
     \/ /\ spin = "valid" /\ Goto(t, "swap") /\ UNCHANGED <<spin, interlock>>
  /\ UNCHANGED <<cpus, mutexFree, how, calls, holders>>

\* The compare-and-swap of pthread_spin_lock that ends the loop.
LockSwap(t) ==
  /\ pc[t] = "swap" /\ how[t] = "lock" /\ interlock # "locked"
  /\ IF interlock = "unlocked" THEN interlock' = "locked" /\ SpinGets(t)
     ELSE Goto(t, "mutex") /\ UNCHANGED <<interlock, holders>>
  /\ UNCHANGED <<cpus, spin, mutexFree, how, calls>>

\* That of pthread_spin_trylock.
TrySwap(t) ==
  /\ pc[t] = "swap" /\ how[t] = "trylock"
  /\ CASE interlock = "unlocked" -> interlock' = "locked" /\ SpinGets(t)
       [] interlock = "locked" -> Goto(t, "idle") /\ UNCHANGED <<interlock, holders>>
       [] OTHER -> Goto(t, "mutex") /\ UNCHANGED <<interlock, holders>>
  /\ UNCHANGED <<cpus, spin, mutexFree, how, calls>>

\* pthread_mutex_lock, pthread_mutex_trylock for u.mutex.
SpinMutex(t) ==
  /\ pc[t] = "mutex" /\ (how[t] = "lock" => mutexFree)
  /\ mutexFree' = FALSE
  /\ IF mutexFree THEN SpinGets(t) ELSE Goto(t, "idle") /\ UNCHANGED holders
  /\ UNCHANGED <<cpus, spin, interlock, how, calls>>

-----------------------------------------------------------------------------
\* pthread_spin_unlock, by the thread that has the lock: neither form checks that.
SpinUnlock(t) ==
  /\ pc[t] = "idle" /\ t \in holders
  /\ IF interlock = "mutex" THEN mutexFree' = TRUE /\ UNCHANGED interlock
     ELSE interlock' = "unlocked" /\ UNCHANGED mutexFree
  /\ holders' = holders \ {t}
  /\ UNCHANGED <<cpus, spin, pc, how, calls>>

\* The program destroys a lock that was used only while no other thread is in a
\* call for it, one with the initialiser at any time.
SpinDestroy(t) ==
  /\ pc[t] = "idle" /\ calls < MaxCalls /\ spin # "null"
  /\ spin = "static" \/ \A u \in Threads : pc[u] = "idle"
  /\ calls' = calls + 1
  /\ Goto(t, IF spin = "static" THEN "destroyStatic" ELSE "destroy")
  /\ UNCHANGED <<cpus, spin, interlock, mutexFree, how, holders>>

\* A mutant: the word is overwritten whatever it was.
SpinDestroyValid_NoCompare(t) ==
  /\ pc[t] = "destroy"
  /\ interlock' = "invalid" /\ spin' = "null"
  /\ Goto(t, "idle")
  /\ UNCHANGED <<cpus, mutexFree, how, calls, holders>>

\* EINVAL for a word that is locked, EBUSY for such a mutex.
SpinDestroyValid(t) ==
  /\ pc[t] = "destroy"
  /\ IF interlock = "unlocked" \/ (interlock = "mutex" /\ mutexFree)
     THEN interlock' = "invalid" /\ spin' = "null"
     ELSE UNCHANGED <<interlock, spin>>
  /\ Goto(t, "idle")
  /\ UNCHANGED <<cpus, mutexFree, how, calls, holders>>

\* EBUSY if it is not the initialiser any more.
SpinDestroyStatic(t) ==
  /\ pc[t] = "destroyStatic"
  /\ spin' = IF spin = "static" THEN "null" ELSE spin
  /\ Goto(t, "idle")
  /\ UNCHANGED <<cpus, interlock, mutexFree, how, calls, holders>>

-----------------------------------------------------------------------------
SpinGo(t) ==
  \/ SpinNeedInit(t) \/ LockSwap(t) \/ TrySwap(t) \/ SpinMutex(t)
  \/ SpinDestroyValid(t) \/ SpinDestroyStatic(t)

SpinNext ==
  \E t \in Threads :
    \/ SpinGo(t) \/ SpinUnlock(t) \/ SpinDestroy(t)
    \/ \E f \in {"lock", "trylock"} : SpinCall(t, f)

SpinSpec == SpinInit /\ [][SpinNext]_spinVars

\* The scheduler runs every thread, and who has the lock gives it back.
SpinFair == \A t \in Threads : WF_spinVars(SpinGo(t)) /\ WF_spinVars(SpinUnlock(t))

-----------------------------------------------------------------------------
SpinLock == INSTANCE LockSpec WITH
  holder <- IF holders = {} THEN NoThread ELSE CHOOSE t \in Threads : t \in holders,
  exists <- spin # "null"

\* However the first uses, tries and ends of it meet, on one processor or on
\* several, the lock is one lock: it is made once, one thread has it at a time,
\* and it is not destroyed while one has it.
ImplementsLock == [](Cardinality(holders) <= 1) /\ SpinLock!Spec

\* Where threads spin, one of them gets the lock or all have given up.
Spinning == holders = {} /\ \E t \in Threads : pc[t] = "swap"
SpinEnds == Spinning ~> ~Spinning
=============================================================================
