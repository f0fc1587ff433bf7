------------------------------ MODULE PtwAttr ------------------------------
(***************************************************************************)
(* The attribute objects of pthreads.2 and what is made from them: an      *)
(* attribute object is filled in, an object is created with it, and either *)
(* may be destroyed first.  Every allocation may fail, at any point of a   *)
(* creation.  A behaviour is about one family of objects; no family shares *)
(* anything with another.                                                  *)
(***************************************************************************)
EXTENDS Integers

CONSTANTS
  Families,   \* "thread", "mutex", "cond", "barrier", "rwlock"
  Priorities, \* the priorities that the program asks for, valid or not
  StackSizes, \* the stack sizes that it asks for
  EventFails, \* the event of a robust mutex may not be to be had
  NoAttr, NoObject

IDLE == -15
LOWEST == -2
NORMAL == 0
HIGHEST == 2
TIME_CRITICAL == 15

Kinds == 0 .. 2   \* PTHREAD_MUTEX_FAST_NP, _RECURSIVE_NP, _ERRORCHECK_NP
Shared == BOOLEAN \* PTHREAD_PROCESS_SHARED

\* What the members of the structures hold, for each family.
Attributes(f) ==
  CASE f = "thread" -> [stacksize : Nat, stackaddr : {0, 1}, detachstate : {"joinable", "detached"},
                        priority : Int, inheritsched : {"inherit", "explicit"}]
    [] f = "mutex" -> [pshared : Shared, kind : Kinds, robustness : {"stalled", "robust"}]
    [] OTHER -> [pshared : Shared]

Objects(f) ==
  CASE f = "thread" -> [stacksize : Nat, detachstate : {"joinable", "detached"},
                        priority : Int, level : Int]
    [] f = "mutex" -> [kind : Int]
    [] OTHER -> [pshared : Shared]

ASSUME AttrAssumption ==
  /\ Families \subseteq {"thread", "mutex", "cond", "barrier", "rwlock"}
  /\ Priorities \subseteq Int /\ StackSizes \subseteq Nat
  /\ EventFails \in BOOLEAN
  /\ \A f \in Families : NoAttr \notin Attributes(f) /\ NoObject \notin Objects(f)

VARIABLES
  family,  \* what the behaviour is about
  attr,    \* *attr
  object,  \* what was created, the last
  told,    \* history: what the getters said of attr then
  creator, \* the thread that creates: its sched_priority, and the level it runs at
  heap     \* blocks and kernel objects that are allocated

attrVars == <<family, attr, object, told, creator, heap>>

\* No block of the object lives on when *object is NULL.
AttrInit ==
  /\ family \in Families
  /\ attr = NoAttr /\ object = NoObject /\ told = NoObject
  /\ creator = [priority |-> NORMAL, level |-> NORMAL]
  /\ heap = 0

-----------------------------------------------------------------------------
(* Attribute objects                                                       *)

\* An attribute object of family f with its defaults; with no memory for it
\* there is none.
New(f, defaults) ==
  /\ family = f /\ attr = NoAttr
  /\ attr' = defaults /\ heap' = heap + 1
  /\ UNCHANGED <<family, object, told, creator>>

attr_init ==
  New("thread", [stacksize |-> 0, stackaddr |-> 0, detachstate |-> "joinable",
                 priority |-> NORMAL, inheritsched |-> "explicit"])
mutexattr_init == New("mutex", [pshared |-> FALSE, kind |-> 0, robustness |-> "stalled"])
condattr_init == New("cond", [pshared |-> FALSE])
barrierattr_init == New("barrier", [pshared |-> FALSE])
rwlockattr_init == New("rwlock", [pshared |-> FALSE])

\* Its end, also while what was created with it lives on.
Drop(f) ==
  /\ family = f /\ attr # NoAttr
  /\ attr' = NoAttr /\ heap' = heap - 1
  /\ UNCHANGED <<family, object, told, creator>>

attr_destroy == Drop("thread")
mutexattr_destroy == Drop("mutex")
condattr_destroy == Drop("cond")
barrierattr_destroy == Drop("barrier")
rwlockattr_destroy == Drop("rwlock")

\* ptw32_is_attr, and the tests for NULL of the other families.
is_attr(f) == family = f /\ attr # NoAttr

Set(f, changed) ==
  /\ is_attr(f) /\ attr' = changed
  /\ UNCHANGED <<family, object, told, creator, heap>>

sched_get_priority_min == IDLE
sched_get_priority_max == TIME_CRITICAL

attr_setstacksize == \E n \in StackSizes : Set("thread", [attr EXCEPT !.stacksize = n])
attr_setstackaddr == \E a \in {0, 1} : Set("thread", [attr EXCEPT !.stackaddr = a])
attr_setdetachstate ==
  \E d \in {"joinable", "detached"} : Set("thread", [attr EXCEPT !.detachstate = d])
attr_setinheritsched ==
  \E i \in {"inherit", "explicit"} : Set("thread", [attr EXCEPT !.inheritsched = i])

\* A priority that is out of range is refused.
attr_setschedparam ==
  \E p \in Priorities \cap (sched_get_priority_min .. sched_get_priority_max) :
    Set("thread", [attr EXCEPT !.priority = p])

mutexattr_settype == \E k \in Kinds : Set("mutex", [attr EXCEPT !.kind = k])
mutexattr_setrobust ==
  \E r \in {"stalled", "robust"} : Set("mutex", [attr EXCEPT !.robustness = r])

\* _POSIX_THREAD_PROCESS_SHARED is defined, as -1, and so the attribute is
\* stored, to be refused only when something is created with it.
mutexattr_setpshared == \E s \in Shared : Set("mutex", [attr EXCEPT !.pshared = s])
condattr_setpshared == \E s \in Shared : Set("cond", [attr EXCEPT !.pshared = s])
barrierattr_setpshared == \E s \in Shared : Set("barrier", [attr EXCEPT !.pshared = s])
rwlockattr_setpshared == \E s \in Shared : Set("rwlock", [attr EXCEPT !.pshared = s])

\* What the program is told of an attribute object.
attr_getstacksize == attr.stacksize
attr_getdetachstate == attr.detachstate
attr_getinheritsched == attr.inheritsched
attr_getschedparam == attr.priority
mutexattr_gettype == attr.kind
mutexattr_getrobust == attr.robustness
mutexattr_getpshared == attr.pshared
condattr_getpshared == attr.pshared
barrierattr_getpshared == attr.pshared
rwlockattr_getpshared == attr.pshared

pthread_getschedparam(thread) == thread.priority

\* What to expect of an object that is created now; no attributes are the
\* default ones.
Told ==
  CASE family = "thread" ->
         IF attr = NoAttr
         THEN [stacksize |-> 0, detachstate |-> "joinable", priority |-> NORMAL]
         ELSE [stacksize |-> attr_getstacksize, detachstate |-> attr_getdetachstate,
               priority |-> IF attr_getinheritsched = "inherit" THEN pthread_getschedparam(creator)
                            ELSE attr_getschedparam]
    [] family = "mutex" ->
         IF attr = NoAttr THEN [kind |-> 0, robustness |-> "stalled", pshared |-> FALSE]
         ELSE [kind |-> mutexattr_gettype, robustness |-> mutexattr_getrobust,
               pshared |-> mutexattr_getpshared]
    [] family = "cond" -> [pshared |-> attr # NoAttr /\ condattr_getpshared]
    [] family = "barrier" -> [pshared |-> attr # NoAttr /\ barrierattr_getpshared]
    [] family = "rwlock" -> [pshared |-> attr # NoAttr /\ rwlockattr_getpshared]

-----------------------------------------------------------------------------
(* Creations: with n allocations that succeed before one fails, what a     *)
(* constructor leaves allocated, and whether it has made its object.       *)

Made(blocks) == [ok |-> TRUE, kept |-> blocks]
Failed(blocks) == [ok |-> FALSE, kept |-> blocks]

\* What the destructors give back.
MutexBlocks(kind) == IF kind < 0 THEN 3 ELSE 2
SemBlocks == MutexBlocks(0) + 2
CondBlocks == 1 + 2 * SemBlocks + MutexBlocks(0)

\* pthread_mutex_init: the mutex, the node of a robust one, the event.  When
\* there is no event the mutex is freed, the node is not.
MutexMade(n, kind) ==
  IF n >= MutexBlocks(kind) THEN Made(MutexBlocks(kind))
  ELSE Failed(IF n = 2 THEN 1 ELSE 0)

\* sem_init: the semaphore, its mutex, and that of the kernel.
SemMade(n) ==
  LET m == MutexMade(n - 1, 0)
  IN IF n <= 0 THEN Failed(0)
     ELSE IF ~m.ok THEN Failed(m.kept)
     ELSE IF n < SemBlocks THEN Failed(1 + m.kept - MutexBlocks(0) - 1)
     ELSE Made(SemBlocks)

\* A mutant: with no second semaphore the first one is left.
CondMade_NoUndo(n) ==
  LET s1 == SemMade(n - 1)
      s2 == SemMade(n - 1 - SemBlocks)
      m == MutexMade(n - 1 - 2 * SemBlocks, 0)
  IN IF n = 0 THEN Failed(0)
     ELSE IF ~s1.ok THEN Failed(1 + s1.kept - 1)
     ELSE IF ~s2.ok THEN Failed(1 + s1.kept + s2.kept - 1)
     ELSE IF ~m.ok THEN Failed(1 + s1.kept + s2.kept + m.kept - 2 * SemBlocks - 1)
     ELSE Made(CondBlocks)

\* pthread_cond_init: what was made is undone from FAIL2, FAIL1 or FAIL0 on.
CondMade(n) ==
  LET s1 == SemMade(n - 1)
      s2 == SemMade(n - 1 - SemBlocks)
      m == MutexMade(n - 1 - 2 * SemBlocks, 0)
  IN IF n <= 0 THEN Failed(0)
     ELSE IF ~s1.ok THEN Failed(1 + s1.kept - 1)
     ELSE IF ~s2.ok THEN Failed(1 + s1.kept + s2.kept - SemBlocks - 1)
     ELSE IF ~m.ok THEN Failed(1 + s1.kept + s2.kept + m.kept - 2 * SemBlocks - 1)
     ELSE Made(CondBlocks)

RwlockBlocks == 1 + 2 * MutexBlocks(0) + CondBlocks

\* pthread_rwlock_init, likewise.
RwlockMade(n) ==
  LET m1 == MutexMade(n - 1, 0)
      m2 == MutexMade(n - 1 - MutexBlocks(0), 0)
      c == CondMade(n - 1 - 2 * MutexBlocks(0))
  IN IF n = 0 THEN Failed(0)
     ELSE IF ~m1.ok THEN Failed(1 + m1.kept - 1)
     ELSE IF ~m2.ok THEN Failed(1 + m1.kept + m2.kept - MutexBlocks(0) - 1)
     ELSE IF ~c.ok THEN Failed(1 + m1.kept + m2.kept + c.kept - 2 * MutexBlocks(0) - 1)
     ELSE Made(RwlockBlocks)

BarrierBlocks == 1 + SemBlocks

\* pthread_barrier_init
BarrierMade(n) ==
  LET s == SemMade(n - 1)
  IN IF n = 0 THEN Failed(0) ELSE IF ~s.ok THEN Failed(1 + s.kept - 1) ELSE Made(BarrierBlocks)

ThreadBlocks == 2

\* pthread_create: the event of a thread structure, the parameters (which the
\* new thread frees) and the thread.  At FAIL0 ptw32_threadDestroy closes what
\* the structure has of them.
ThreadMade(n) ==
  IF n >= 3 THEN Made(1 + 1 + 1 - 1)
  ELSE Failed(IF n = 0 THEN 0 ELSE IF n = 1 THEN 1 - 1 ELSE 1 + 1 - 1 - 1)

Allocations == 0 .. RwlockBlocks

Creates(f, made, result) ==
  /\ family = f /\ object = NoObject
  /\ object' = IF made.ok THEN result ELSE NoObject
  /\ told' = IF made.ok THEN Told ELSE NoObject
  /\ heap' = heap + made.kept
  /\ UNCHANGED <<family, attr, creator>>

\* The priority is recorded as it was asked for; Windows is asked for one of
\* the levels that it has.
setthreadpriority(thread, prio) ==
  [thread EXCEPT
    !.priority = prio,
    !.level = IF IDLE < prio /\ prio < LOWEST THEN LOWEST
              ELSE IF HIGHEST < prio /\ prio < TIME_CRITICAL THEN HIGHEST
              ELSE prio]

\* A mutant: the attribute wins over the inheritance.
StartPriority_Explicit == attr.priority

StartPriority == IF attr.inheritsched = "inherit" THEN creator.priority ELSE attr.priority

pthread_create ==
  \E n \in Allocations :
    LET default == [stacksize |-> 0, detachstate |-> "joinable",
                    priority |-> NORMAL, level |-> NORMAL]
    IN Creates("thread", ThreadMade(n),
               IF attr = NoAttr THEN default
               ELSE setthreadpriority([default EXCEPT !.stacksize = attr.stacksize,
                                                      !.detachstate = attr.detachstate],
                                      StartPriority))

\* A mutant: a robust mutex of kind 0 is encoded as itself.
Encoded_Negated(kind) == -kind

\* A robust mutex has a kind below zero.
Encoded(kind) == -kind - 1

pthread_mutex_init ==
  /\ family = "mutex" /\ (attr # NoAttr => ~attr.pshared)
  /\ \E n \in Allocations :
       LET kind == IF attr = NoAttr THEN 0
                   ELSE IF attr.robustness = "robust" THEN Encoded(attr.kind) ELSE attr.kind
       IN /\ kind < 0 => n # 1 /\ (EventFails \/ n # 2)
          /\ Creates("mutex", MutexMade(n, kind), [kind |-> kind])

pthread_cond_init ==
  /\ family = "cond" /\ (attr # NoAttr => ~attr.pshared)
  /\ \E n \in Allocations : Creates("cond", CondMade(n), [pshared |-> FALSE])

\* sem_init refuses what is to be shared, so that the barrier is too.
pthread_barrier_init ==
  /\ family = "barrier" /\ (attr # NoAttr => ~attr.pshared)
  /\ \E n \in Allocations : Creates("barrier", BarrierMade(n), [pshared |-> FALSE])

\* No attribute object is accepted, whatever it says.
pthread_rwlock_init ==
  /\ attr = NoAttr
  /\ \E n \in Allocations : Creates("rwlock", RwlockMade(n), [pshared |-> FALSE])

\* pthread_setschedparam, for either thread.
pthread_setschedparam ==
  \E p \in Priorities \cap (sched_get_priority_min .. sched_get_priority_max) :
    /\ family = "thread"
    /\ \/ creator' = setthreadpriority(creator, p) /\ UNCHANGED <<object, told>>
       \/ /\ object # NoObject
          /\ object' = setthreadpriority(object, p)
          /\ told' = [told EXCEPT !.priority = p]
          /\ UNCHANGED creator
    /\ UNCHANGED <<family, attr, heap>>

\* A thread that ends and is joined or detached, a lock that nobody uses.
Release ==
  /\ object # NoObject
  /\ heap' = heap - CASE family = "thread" -> ThreadBlocks
                      [] family = "mutex" -> MutexBlocks(object.kind)
                      [] family = "cond" -> CondBlocks
                      [] family = "barrier" -> BarrierBlocks
                      [] family = "rwlock" -> RwlockBlocks
  /\ object' = NoObject /\ told' = NoObject
  /\ UNCHANGED <<family, attr, creator>>

-----------------------------------------------------------------------------
AttrNext ==
  \/ attr_init \/ mutexattr_init \/ condattr_init \/ barrierattr_init \/ rwlockattr_init
  \/ attr_destroy \/ mutexattr_destroy \/ condattr_destroy
  \/ barrierattr_destroy \/ rwlockattr_destroy
  \/ attr_setstacksize \/ attr_setstackaddr \/ attr_setdetachstate
  \/ attr_setinheritsched \/ attr_setschedparam
  \/ mutexattr_settype \/ mutexattr_setrobust \/ mutexattr_setpshared
  \/ condattr_setpshared \/ barrierattr_setpshared \/ rwlockattr_setpshared
  \/ pthread_create \/ pthread_mutex_init \/ pthread_cond_init
  \/ pthread_barrier_init \/ pthread_rwlock_init
  \/ pthread_setschedparam \/ Release

AttrSpec == AttrInit /\ [][AttrNext]_attrVars

-----------------------------------------------------------------------------
\* An object is what the get functions said when it was created: the mutex has
\* the type and robustness that are encoded in its kind, the thread the stack,
\* state and priority, whether inherited, explicit or set since; and nothing is
\* made that was to be shared.
AsTold ==
  object # NoObject =>
    CASE family = "thread" ->
           /\ object.stacksize = told.stacksize /\ object.detachstate = told.detachstate
           /\ pthread_getschedparam(object) = told.priority
      [] family = "mutex" ->
           /\ told = [kind |-> IF object.kind < 0 THEN -object.kind - 1 ELSE object.kind,
                      robustness |-> IF object.kind < 0 THEN "robust" ELSE "stalled",
                      pshared |-> FALSE]
      [] OTHER -> ~told.pshared

\* Of two threads the one with the lower priority runs at no higher a level,
\* though most priorities are none of the levels that Windows has.
LevelsOrdered ==
  family = "thread" /\ object # NoObject =>
    /\ object.priority <= creator.priority => object.level <= creator.level
    /\ creator.priority <= object.priority => creator.level <= object.level
    /\ {object.level, creator.level} \subseteq {IDLE, TIME_CRITICAL} \cup (LOWEST .. HIGHEST)

CreatedAsTold == AsTold /\ LevelsOrdered

\* A creation that fails, at whatever allocation, has undone the ones before it:
\* when all is destroyed, nothing is left.
NothingLeaks ==
  /\ heap >= 0
  /\ attr = NoAttr /\ object = NoObject => heap = 0
=============================================================================
