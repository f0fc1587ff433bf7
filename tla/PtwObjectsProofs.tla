-------------------------- MODULE PtwObjectsProofs --------------------------
(***************************************************************************)
(* Safety of the mutexes, semaphores, spin locks, read-write locks and     *)
(* attribute objects of pthreads.2 for any number of threads and calls,    *)
(* the abstract objects that they implement, and their timeouts.           *)
(***************************************************************************)
EXTENDS PtwMutex, PtwRwlock, PtwSemaphore, PtwSpin, PtwAttr, PtwTime, FiniteSetTheorems,
        TLAPS

-----------------------------------------------------------------------------
(* Semaphores *)

SemPlaces == {"idle", "lock", "wait", "retract", "free", "dead"}
SemFunctions == SemCalls \cup {"none", "cancelWait", "cancelTimedwait"}

SemType ==
  /\ sem \in {"valid", "null", "gone"}
  /\ s \in Semaphores
  /\ pc \in [Threads -> SemPlaces]
  /\ how \in [Threads -> SemFunctions]
  /\ has \in [Threads -> Nat]
  /\ calls \in Nat
  /\ stray \in BOOLEAN

\* Only a call that waits can be at a place where threads are counted; without
\* cancellation no cleanup of sem_wait runs.  What is freed was destroyed.
Waiting ==
  \A t \in Threads :
    /\ pc[t] = "wait" => how[t] \in {"wait", "timedwait"}
    /\ pc[t] = "retract" => how[t] \in {"timedwait", "cancelTimedwait"}
    /\ pc[t] = "free" => sem # "valid"

SemInv == SemType /\ Waiting /\ UnitsCount

\* A set of threads is finite, and one more or less changes its size by one.
LEMMA SizeOfThreads ==
  ASSUME NEW S \in SUBSET Threads
  PROVE  /\ IsFiniteSet(S) /\ Cardinality(S) \in Nat
         /\ \A t \in Threads \ S : Cardinality(S \cup {t}) = Cardinality(S) + 1
         /\ \A t \in S : Cardinality(S \ {t}) = Cardinality(S) - 1
         /\ Cardinality(S) = 0 <=> S = {}
<1>1. IsFiniteSet(S)
  BY CallsAssumption, FS_Subset
<1> QED
  BY <1>1, FS_CardinalityType, FS_AddElement, FS_RemoveElement, FS_EmptySet

\* What a step does to the number of threads counted.
LEMMA CountedChanges ==
  ASSUME NEW t \in Threads, NEW l \in SemPlaces, pc \in [Threads -> SemPlaces],
         pc' = [pc EXCEPT ![t] = l]
  PROVE  /\ Cardinality(Counted) \in Nat /\ Cardinality(Counted)' \in Nat
         /\ pc[t] \in {"wait", "retract"} <=> t \in Counted
         /\ Cardinality(Counted)' =
              IF l \in {"wait", "retract"}
              THEN IF pc[t] \in {"wait", "retract"} THEN Cardinality(Counted)
                   ELSE Cardinality(Counted) + 1
              ELSE IF pc[t] \in {"wait", "retract"} THEN Cardinality(Counted) - 1
                   ELSE Cardinality(Counted)
<1>1. Counted \in SUBSET Threads /\ Counted' \in SUBSET Threads
  BY DEF Counted
<1>2. t \in Counted <=> pc[t] \in {"wait", "retract"}
  BY DEF Counted
<1>3. Counted' = IF l \in {"wait", "retract"} THEN Counted \cup {t} ELSE Counted \ {t}
  BY DEF Counted
<1>4. t \in Counted => Counted \cup {t} = Counted
  OBVIOUS
<1>5. t \notin Counted => Counted \ {t} = Counted
  OBVIOUS
<1> QED
  BY <1>1, <1>2, <1>3, <1>4, <1>5, SizeOfThreads

\* What the operations of PtwSem make of a value and the kernel's units.
LEMMA SemOperations ==
  ASSUME NEW x \in Semaphores
  PROVE  /\ x.value \in Int /\ x.kernel \in Nat
         /\ Taken(x) \in Semaphores
         /\ Taken(x).value = x.value - 1 /\ Taken(x).kernel = x.kernel
         /\ MayPass(x) <=> x.kernel > 0
         /\ x.kernel > 0 =>
              /\ Passed(x) \in Semaphores /\ Retracted(x) = Passed(x)
              /\ Passed(x).value = x.value /\ Passed(x).kernel = x.kernel - 1
         /\ x.kernel = 0 =>
              /\ Retracted(x) \in Semaphores
              /\ Retracted(x).value = x.value + 1 /\ Retracted(x).kernel = x.kernel
BY DEF Semaphores, Taken, MayPass, Passed, Retracted

\* The units that a post gives the kernel are for threads that wait, one each.
LEMMA PostedUnits ==
  ASSUME NEW x \in Semaphores, NEW n \in Nat
  PROVE  /\ PostedMultiple(x, n) \in Semaphores
         /\ PostedMultiple(x, n).value = x.value + n
         /\ \A w \in Nat : Balanced(x, w) => Balanced(PostedMultiple(x, n), w)
<1> DEFINE up == IF x.value >= 0 THEN 0 ELSE IF -x.value <= n THEN -x.value ELSE n
<1>1. x.value \in Int /\ x.kernel \in Nat /\ up \in Nat
  BY DEF Semaphores
<1>2. PostedMultiple(x, n) = [value |-> x.value + n, kernel |-> x.kernel + up]
  BY DEF PostedMultiple
<1>3. PostedMultiple(x, n).value = x.value + n /\ PostedMultiple(x, n).kernel = x.kernel + up
  BY <1>2
<1>4. PostedMultiple(x, n) \in Semaphores
  BY <1>1, <1>2 DEF Semaphores
<1> QED
  BY <1>1, <1>3, <1>4 DEF Balanced

LEMMA SemInitInv == SemInit => SemInv
<1> SUFFICES ASSUME SemInit PROVE SemInv
  OBVIOUS
<1> USE SemAssumption DEF SemInit, NoCalls, NewSem
<1>1. SemType
  <2>1. s \in Semaphores
    BY DEF Semaphores
  <2> QED
    BY <2>1 DEF SemType, SemPlaces, SemFunctions
<1>2. Waiting
  BY DEF Waiting
<1>3. Counted = {}
  BY DEF Counted
<1>4. UnitsCount
  BY <1>3, FS_EmptySet DEF UnitsCount, Balanced
<1> QED
  BY <1>1, <1>2, <1>4 DEF SemInv

\* The call of a function, with or without the lock, is no step of the counts.
LEMMA SemCallStep ==
  ASSUME SemInv, NEW t \in Threads, NEW f \in SemCalls, SemCall(t, f)
  PROVE  SemInv'
<1> USE DEF SemInv, SemCall, Goto
<1>1. SemType'
  BY CallsAssumption DEF SemType, SemPlaces, SemFunctions
<1>2. Waiting'
  BY DEF Waiting, SemType
<1>3. Cardinality(Counted)' = Cardinality(Counted)
  BY CountedChanges DEF SemType, SemPlaces
<1>4. UnitsCount'
  BY <1>3 DEF UnitsCount
<1> QED
  BY <1>1, <1>2, <1>4

\* A post within the limit, or none, by a thread that is not counted.
LEMMA PostKeepsUnits ==
  ASSUME SemInv, sem = "valid", sem' = "valid", Cardinality(Counted)' = Cardinality(Counted),
         NEW n \in Nat, s.value <= Limit - n, s' = PostedMultiple(s, n)
  PROVE  UnitsCount'
<1>1. s \in Semaphores /\ Cardinality(Counted) \in Nat /\ Counted \in SUBSET Threads
  BY SizeOfThreads DEF SemInv, SemType, Counted
<1>2. Balanced(s, Cardinality(Counted)) /\ Limit \in Nat
  BY SemAssumption DEF SemInv, UnitsCount
<1>3. /\ s'.value = s.value + n /\ s' \in Semaphores
      /\ Balanced(s', Cardinality(Counted))
  BY <1>1, <1>2, PostedUnits
<1>4. s.value \in Int /\ s'.value \in Int /\ s'.kernel \in Nat
  BY <1>1, <1>3, SemOperations
<1>5. s'.kernel <= Cardinality(Counted)
  BY <1>1, <1>3, <1>4 DEF Balanced
<1> QED
  BY <1>2, <1>3, <1>4, <1>5 DEF UnitsCount

\* Everything else that a thread does.
LEMMA SemGoStep ==
  ASSUME SemInv, ~CancelRace, NEW t \in Threads, SemGo(t) \/ GiveUp(t)
  PROVE  SemInv'
<1> USE DEF SemInv, Goto, Enters
<1>0. s \in Semaphores /\ s.value \in Int /\ s.kernel \in Nat /\ Limit \in Nat /\ Limit > 1
  BY SemAssumption, SemOperations DEF SemType
<1>1. CASE TooLate(t)
  <2>1. SemType' /\ Waiting'
    BY <1>1 DEF TooLate, SemType, SemPlaces, SemFunctions, Waiting
  <2> QED
    BY <1>1, <2>1 DEF TooLate, UnitsCount
<1>2. CASE Waits(t)
  <2>1. SemType' /\ Waiting'
    BY <1>2, <1>0 DEF Waits, Taken, SemType, Semaphores, SemPlaces, SemFunctions, Waiting
  <2>2. UnitsCount'
    BY <1>2, <1>0, CountedChanges DEF Waits, Taken, MustWait, UnitsCount, Balanced, SemType,
       SemPlaces
  <2> QED
    BY <2>1, <2>2
<1>3. CASE sem_trywait(t)
  <2>1. SemType' /\ Waiting'
    BY <1>3, <1>0 DEF sem_trywait, Taken, SemType, Semaphores, SemPlaces, SemFunctions, Waiting
  <2>2. UnitsCount'
    <3>1. Cardinality(Counted)' = Cardinality(Counted) /\ Cardinality(Counted) \in Nat
      BY <1>3, CountedChanges DEF sem_trywait, SemType, SemPlaces
    <3>2. \/ s' = s
          \/ s.value > 0 /\ s'.value = s.value - 1 /\ s'.kernel = s.kernel
      BY <1>3, <1>0, SemOperations DEF sem_trywait
    <3>3. sem = "valid" /\ sem' = "valid"
      BY <1>3 DEF sem_trywait
    <3> QED
      BY <1>0, <3>1, <3>2, <3>3 DEF UnitsCount, Balanced
  <2> QED
    BY <2>1, <2>2
<1>4. CASE sem_getvalue(t)
  <2>1. SemType' /\ Waiting'
    BY <1>4 DEF sem_getvalue, SemType, SemPlaces, SemFunctions, Waiting
  <2>2. UnitsCount'
    BY <1>4, CountedChanges DEF sem_getvalue, UnitsCount, SemType, SemPlaces
  <2> QED
    BY <2>1, <2>2
<1>5. CASE Pass(t)
  <2>1. SemType' /\ Waiting'
    BY <1>5, <1>0 DEF Pass, Passed, MayPass, SemType, Semaphores, SemPlaces, SemFunctions, Waiting
  <2>2. UnitsCount'
    <3>1. s'.value = s.value /\ s'.kernel = s.kernel - 1 /\ s.kernel > 0
      BY <1>5, <1>0, SemOperations DEF Pass, MayPass
    <3>2. Cardinality(Counted)' = Cardinality(Counted) - 1 /\ Cardinality(Counted) \in Nat
      BY <1>5, CountedChanges DEF Pass, SemType, SemPlaces
    <3> QED
      BY <1>5, <1>0, <3>1, <3>2 DEF Pass, UnitsCount, Balanced
  <2> QED
    BY <2>1, <2>2
<1>6. CASE Retract(t)
  <2>1. how[t] # "cancelWait" /\ s' = Retracted(s)
    BY <1>6 DEF Retract, Waiting
  <2>2. t \in Counted /\ Cardinality(Counted) > 0
    BY <1>6, CountedChanges, SizeOfThreads DEF Retract, Counted
  <2>3. SemType' /\ Waiting'
    BY <1>6, <1>0, <2>1 DEF Retract, Retracted, Passed, MayPass, SemType, Semaphores, SemPlaces,
       SemFunctions, Waiting
  <2>4. UnitsCount'
    <3>1. \/ s'.value = s.value /\ s'.kernel = s.kernel - 1 /\ s.kernel > 0
          \/ s'.value = s.value + 1 /\ s'.kernel = s.kernel /\ s.kernel = 0
      BY <1>0, <2>1, SemOperations
    <3>2. Cardinality(Counted)' = Cardinality(Counted) - 1 /\ Cardinality(Counted) \in Nat
      BY <1>6, CountedChanges DEF Retract, SemType, SemPlaces
    <3>3. sem = "valid" /\ sem' = "valid"
      BY <1>6 DEF Retract
    <3>4. Balanced(s, Cardinality(Counted)) /\ s.value <= Limit
      BY <3>3 DEF UnitsCount
    <3>5. CASE s'.value = s.value
      BY <1>0, <3>1, <3>2, <3>3, <3>4, <3>5 DEF UnitsCount, Balanced
    <3>6. CASE s'.value = s.value + 1
      <4>1. s.value < 0
        BY <1>0, <3>1, <3>2, <3>4, <3>6, <2>2 DEF Balanced
      <4> QED
        BY <1>0, <3>1, <3>2, <3>3, <3>4, <3>6, <4>1 DEF UnitsCount, Balanced
    <3> QED
      BY <3>1, <3>5, <3>6
  <2> QED
    BY <2>3, <2>4
<1>7. CASE sem_post(t)
  <2>1. SemType' /\ Waiting'
    BY <1>7, <1>0 DEF sem_post, Posted, PostedMultiple, SemType, Semaphores, SemPlaces,
       SemFunctions, Waiting
  <2>2. UnitsCount'
    <3>1. Cardinality(Counted)' = Cardinality(Counted) /\ Cardinality(Counted) \in Nat
      BY <1>7, CountedChanges DEF sem_post, SemType, SemPlaces
    <3>2. CASE s.value < Limit
      BY <1>7, <1>0, <3>1, <3>2, PostKeepsUnits DEF sem_post, Posted
    <3>3. CASE ~(s.value < Limit)
      BY <1>7, <3>1, <3>3 DEF sem_post, UnitsCount
    <3> QED
      BY <3>2, <3>3
  <2> QED
    BY <2>1, <2>2
<1>8. CASE sem_post_multiple(t)
  <2>1. SemType' /\ Waiting'
    BY <1>8, <1>0 DEF sem_post_multiple, PostedMultiple, SemType, Semaphores, SemPlaces,
       SemFunctions, Waiting
  <2>2. UnitsCount'
    <3>1. Cardinality(Counted)' = Cardinality(Counted) /\ Cardinality(Counted) \in Nat
      BY <1>8, CountedChanges DEF sem_post_multiple, SemType, SemPlaces
    <3>2. CASE s.value <= Limit - 2
      BY <1>8, <1>0, <3>1, <3>2, PostKeepsUnits DEF sem_post_multiple
    <3>3. CASE ~(s.value <= Limit - 2)
      BY <1>8, <3>1, <3>3 DEF sem_post_multiple, UnitsCount
    <3> QED
      BY <3>2, <3>3
  <2> QED
    BY <2>1, <2>2
<1>9. CASE sem_destroy(t)
  <2>1. SemType' /\ Waiting'
    BY <1>9, <1>0 DEF sem_destroy, SemType, Semaphores, SemPlaces, SemFunctions, Waiting
  <2>2. UnitsCount'
    BY <1>9, <1>0, CountedChanges DEF sem_destroy, UnitsCount, SemType, SemPlaces
  <2> QED
    BY <2>1, <2>2
<1>10. CASE Free(t)
  <2>1. SemType' /\ Waiting'
    BY <1>10 DEF Free, SemType, SemPlaces, SemFunctions, Waiting
  <2> QED
    BY <1>10, <2>1 DEF Free, UnitsCount
<1>11. CASE GiveUp(t)
  <2>1. SemType' /\ Waiting'
    BY <1>11 DEF GiveUp, SemType, SemPlaces, SemFunctions, Waiting
  <2>2. UnitsCount'
    BY <1>11, CountedChanges DEF GiveUp, UnitsCount, SemType, SemPlaces
  <2> QED
    BY <2>1, <2>2
<1> QED
  BY <1>1, <1>2, <1>3, <1>4, <1>5, <1>6, <1>7, <1>8, <1>9, <1>10, <1>11 DEF SemGo

LEMMA SemNextInv == ~CancelRace /\ SemInv /\ [SemNext]_semVars => SemInv'
<1> SUFFICES ASSUME ~CancelRace, SemInv, [SemNext]_semVars PROVE SemInv'
  OBVIOUS
<1>1. CASE UNCHANGED semVars
  BY <1>1 DEF semVars, SemInv, SemType, Waiting, UnitsCount, Balanced, Counted
<1>2. CASE SemNext
  BY <1>2, SemCallStep, SemGoStep DEF SemNext
<1> QED
  BY <1>1, <1>2

\* Whenever the lock of a semaphore is free, the units in the kernel's semaphore and
\* the value below zero add up to the threads that wait (sem_wait.c, sem_timedwait.c,
\* sem_post_multiple.c), whenever it is destroyed, as long as no thread is cancelled
\* in sem_wait.
THEOREM UnitsAlwaysCount == ~CancelRace => (SemSpecification => []UnitsCount)
<1> SUFFICES ASSUME ~CancelRace PROVE SemSpecification => []UnitsCount
  OBVIOUS
<1>1. SemInv => UnitsCount
  BY DEF SemInv
<1>2. SemInv /\ [SemNext]_semVars => SemInv'
  BY SemNextInv
<1> QED
  BY <1>1, <1>2, SemInitInv, PTL DEF SemSpecification

\* While a thread destroys the semaphore nobody else is about to use it, and those
\* who wait, if any, are known from the value; once it is destroyed nobody is.
Ending ==
  /\ \A t, u \in Threads :
       how[t] = "destroy" /\ pc[t] = "lock" /\ pc[u] = "lock" => u = t
  /\ \A t \in Threads :
       how[t] = "destroy" /\ pc[t] = "lock" /\ sem = "valid" => s.value < 0 \/ Counted = {}
  /\ \A t \in Threads : how[t] = "destroy" => pc[t] \in {"idle", "lock", "free"}
  /\ \A t \in Threads : pc[t] = "free" => how[t] = "destroy"
  /\ sem # "valid" => Counted = {} /\ \A t \in Threads : pc[t] # "lock"
  /\ ~stray

LEMMA SemCallEnding ==
  ASSUME SemInv, Ending, ~DestroyRace, NEW t \in Threads, NEW f \in SemCalls, SemCall(t, f)
  PROVE  Ending'
<1>1. /\ pc' = [pc EXCEPT ![t] = "lock"] /\ how' = [how EXCEPT ![t] = f]
      /\ sem = "valid" /\ sem' = sem /\ s' = s /\ stray' = stray /\ pc[t] = "idle"
      /\ pc \in [Threads -> SemPlaces] /\ how \in [Threads -> SemFunctions]
  BY DEF SemCall, Goto, SemInv, SemType
<1>2. \A u \in Threads : how[u] = "destroy" => pc[u] = "idle"
  BY DEF SemCall
<1>3. Counted' = Counted
  BY <1>1 DEF Counted
<1>4. f = "destroy" => \A u \in Threads : pc[u] # "lock"
  BY <1>1 DEF SemCall
<1>5. f = "destroy" => s.value < 0 \/ Counted = {}
  BY <1>1 DEF SemCall, Counted
<1> QED
  BY <1>1, <1>2, <1>3, <1>4, <1>5 DEF Ending

LEMMA SemGoEnding ==
  ASSUME SemInv, Ending, ~CancelRace, NEW t \in Threads, SemGo(t) \/ GiveUp(t)
  PROVE  Ending'
<1> USE DEF Enters, Goto
<1>0. /\ pc \in [Threads -> SemPlaces] /\ how \in [Threads -> SemFunctions]
      /\ s \in Semaphores /\ Counted \in SUBSET Threads
  BY DEF SemInv, SemType, Counted
<1>1. CASE TooLate(t)
  BY <1>1 DEF TooLate, Ending
\* Who has the lock is not destroyed under another, so only one that destroys the
\* semaphore itself can change it when one does.
<1>2. CASE Waits(t) \/ sem_trywait(t) \/ sem_post(t) \/ sem_post_multiple(t) \/ sem_getvalue(t)
  <2>1. /\ pc[t] = "lock" /\ how[t] # "destroy" /\ how' = how /\ sem = "valid" /\ sem' = sem
        /\ stray' = stray /\ \E l \in {"wait", "idle"} : pc' = [pc EXCEPT ![t] = l]
    BY <1>2 DEF Waits, sem_trywait, sem_post, sem_post_multiple, sem_getvalue
  <2>2. \A u \in Threads : how[u] = "destroy" => pc[u] # "lock"
    BY <2>1 DEF Ending
  <2> QED
    BY <1>0, <2>1, <2>2 DEF Ending
<1>3. CASE sem_destroy(t)
  <2>1. /\ pc[t] = "lock" /\ how[t] = "destroy" /\ sem = "valid" /\ how' = how /\ stray' = stray
        /\ \/ pc' = [pc EXCEPT ![t] = "idle"] /\ sem' = sem /\ s' = s
           \/ pc' = [pc EXCEPT ![t] = "free"] /\ sem' = "null" /\ ~(s.value < 0)
    BY <1>3 DEF sem_destroy
  <2>2. Counted' = Counted
    BY <1>0, <2>1 DEF Counted
  <2> QED
    BY <1>0, <2>1, <2>2 DEF Ending
<1>4. CASE Free(t)
  <2>1. Counted' = Counted
    BY <1>0, <1>4 DEF Free, Counted
  <2>2. /\ pc' = [pc EXCEPT ![t] = "idle"] /\ sem' = "gone" /\ how' = how /\ stray' = stray
        /\ pc[t] = "free"
    BY <1>4 DEF Free
  <2>3. sem # "valid"
    BY <2>2 DEF SemInv, Waiting
  <2> QED
    BY <1>0, <2>1, <2>2, <2>3 DEF Ending
<1>5. CASE GiveUp(t)
  <2>1. /\ pc[t] = "wait" /\ pc' = [pc EXCEPT ![t] = "retract"] /\ sem = "valid"
        /\ sem' = sem /\ s' = s /\ stray' = stray
        /\ \E f \in SemFunctions \ {"destroy"} : how' = [how EXCEPT ![t] = f]
    <3>1. how[t] \in {"wait", "timedwait"}
      BY <1>5 DEF GiveUp, SemInv, Waiting
    <3>2. how' = [how EXCEPT ![t] = how[t]] \/ how' = [how EXCEPT ![t] = "cancelWait"]
            \/ how' = [how EXCEPT ![t] = "cancelTimedwait"]
      BY <1>0, <1>5 DEF GiveUp
    <3> QED
      BY <1>5, <3>1, <3>2 DEF GiveUp, SemFunctions, SemCalls
  <2>2. Counted' = Counted
    BY <1>0, <2>1 DEF Counted
  <2> QED
    BY <1>0, <2>1, <2>2 DEF Ending
<1>6. CASE Pass(t)
  <2>1. /\ pc[t] = "wait" /\ pc' = [pc EXCEPT ![t] = "idle"] /\ sem = "valid" /\ sem' = sem
        /\ how' = how /\ stray' = stray /\ s'.value = s.value
    BY <1>0, <1>6, SemOperations DEF Pass
  <2>2. t \in Counted
    BY <2>1 DEF Counted
  <2> QED
    BY <1>0, <2>1, <2>2 DEF Ending
<1>7. CASE Retract(t)
  <2>1. /\ pc[t] = "retract" /\ sem = "valid" /\ sem' = sem
        /\ how' = how /\ stray' = stray /\ s' = Retracted(s)
        /\ \E l \in {"idle", "dead"} : pc' = [pc EXCEPT ![t] = l] /\ (l = "dead" => how[t] # "timedwait")
    BY <1>7 DEF Retract, SemInv, Waiting
  <2>2. t \in Counted /\ how[t] # "destroy"
    BY <1>0, <2>1 DEF Counted, SemInv, Waiting
  <2>3. s.value < 0 => s'.value < 0 \/ Counted' = {}
    <3>1. CASE s.kernel > 0
      BY <1>0, <2>1, <3>1, SemOperations
    <3>2. CASE s.kernel = 0
      <4>1. s'.value = s.value + 1 /\ s.value \in Int
        BY <1>0, <2>1, <3>2, SemOperations
      <4>2. s.value < 0 => Cardinality(Counted) = -s.value
        BY <1>0, <2>1, <3>2, <4>1, SizeOfThreads DEF SemInv, UnitsCount, Balanced
      <4>3. Cardinality(Counted)' = Cardinality(Counted) - 1 /\ Counted' \in SUBSET Threads
        BY <1>0, <2>1, <2>2, CountedChanges DEF SemPlaces, Counted
      <4>4. s.value = -1 => Counted' = {}
        BY <4>2, <4>3, SizeOfThreads
      <4> QED
        BY <4>1, <4>4
    <3> QED
      BY <1>0, <3>1, <3>2, SemOperations
  <2> QED
    BY <1>0, <2>1, <2>2, <2>3 DEF Ending
<1> QED
  BY <1>1, <1>2, <1>3, <1>4, <1>5, <1>6, <1>7 DEF SemGo

\* A semaphore is destroyed under nobody: no thread looks at it when it is freed,
\* and none is left waiting for it (sem_destroy.c, with its EBUSY), and its units
\* are accounted for until then.
THEOREM SemaphoresSound ==
  ~CancelRace /\ ~DestroyRace => (SemSpecification => []SemSound)
<1> SUFFICES ASSUME ~CancelRace, ~DestroyRace PROVE SemSpecification => []SemSound
  OBVIOUS
<1>1. SemInit => Ending
  BY DEF SemInit, NoCalls, Ending
<1>2. SemInv /\ Ending /\ [SemNext]_semVars => Ending'
  <2> SUFFICES ASSUME SemInv, Ending, [SemNext]_semVars PROVE Ending'
    OBVIOUS
  <2>1. CASE UNCHANGED semVars
    BY <2>1 DEF semVars, Ending, Counted
  <2>2. CASE SemNext
    BY <2>2, SemCallEnding, SemGoEnding DEF SemNext
  <2> QED
    BY <2>1, <2>2
<1>3. SemInv /\ [SemNext]_semVars => SemInv'
  BY SemNextInv
<1>4. SemInv /\ Ending => SemSound
  BY DEF SemInv, Ending, SemSound
<1> QED
  BY <1>1, <1>2, <1>3, <1>4, SemInitInv, PTL DEF SemSpecification

-----------------------------------------------------------------------------
(* The semaphore that they are *)

\* The units of the abstract semaphore.
Units == IF sem = "valid" THEN s.value + Cardinality(Counted) ELSE 0

\* A unit is taken: at once, by a try, at the end of a wait, or as it is given up.
LEMMA TakesUnit ==
  ASSUME SemInv, sem = "valid", sem' = sem, NEW t \in Threads, Units > 0, Units' = Units - 1,
         has' = [has EXCEPT ![t] = @ + 1]
  PROVE  Semaphore!Next
BY DEF Semaphore!Next, Semaphore!Take, Units

LEMMA SemGoImplements ==
  ASSUME SemInv, SemInv', ~CancelRace, NEW t \in Threads, SemGo(t) \/ GiveUp(t)
  PROVE  Semaphore!Next \/ UNCHANGED <<Units, has, sem = "valid">>
<1> USE DEF Enters, Goto
<1>0. /\ pc \in [Threads -> SemPlaces] /\ s \in Semaphores /\ s' \in Semaphores
      /\ s.value \in Int /\ s.kernel \in Nat /\ s'.value \in Int /\ s'.kernel \in Nat
      /\ has \in [Threads -> Nat] /\ Limit \in Nat /\ Limit > 1
  BY SemAssumption, SemOperations DEF SemInv, SemType
<1>1. CASE TooLate(t)
  BY <1>1 DEF TooLate, Units
<1>2. CASE Waits(t)
  <2>1. s'.value = s.value - 1 /\ sem = "valid" /\ sem' = sem /\ pc[t] = "lock"
    BY <1>2, <1>0, SemOperations DEF Waits
  <2>2. CASE MustWait(s)
    <3>1. Cardinality(Counted)' = Cardinality(Counted) + 1 /\ Cardinality(Counted) \in Nat
      BY <1>2, <1>0, <2>1, <2>2, CountedChanges DEF Waits, SemPlaces
    <3> QED
      BY <1>2, <1>0, <2>1, <2>2, <3>1 DEF Waits, Units
  <2>3. CASE ~MustWait(s)
    <3>1. Cardinality(Counted)' = Cardinality(Counted) /\ Cardinality(Counted) \in Nat
      BY <1>2, <1>0, <2>1, <2>3, CountedChanges DEF Waits, SemPlaces
    <3>2. s.value > 0
      BY <1>0, <2>3 DEF MustWait
    <3>3. has' = [has EXCEPT ![t] = @ + 1]
      BY <1>2, <2>3 DEF Waits
    <3>4. Units > 0 /\ Units' = Units - 1
      BY <1>0, <2>1, <3>1, <3>2 DEF Units
    <3> QED
      BY <2>1, <3>3, <3>4, TakesUnit
  <2> QED
    BY <2>2, <2>3
<1>3. CASE sem_trywait(t)
  <2>1. sem = "valid" /\ sem' = sem /\ pc[t] = "lock"
    BY <1>3 DEF sem_trywait
  <2>2. Cardinality(Counted)' = Cardinality(Counted) /\ Cardinality(Counted) \in Nat
    BY <1>3, <1>0, CountedChanges DEF sem_trywait, SemPlaces
  <2>3. CASE s.value > 0
    <3>1. s'.value = s.value - 1 /\ has' = [has EXCEPT ![t] = @ + 1]
      BY <1>3, <1>0, <2>3, SemOperations DEF sem_trywait
    <3>2. Units > 0 /\ Units' = Units - 1
      BY <1>0, <2>1, <2>2, <2>3, <3>1 DEF Units
    <3> QED
      BY <2>1, <3>1, <3>2, TakesUnit
  <2>4. CASE ~(s.value > 0)
    BY <1>3, <2>1, <2>2, <2>4 DEF sem_trywait, Units
  <2> QED
    BY <2>3, <2>4
<1>4. CASE sem_getvalue(t)
  <2>1. Cardinality(Counted)' = Cardinality(Counted)
    BY <1>4, <1>0, CountedChanges DEF sem_getvalue, SemPlaces
  <2> QED
    BY <1>4, <2>1 DEF sem_getvalue, Units
<1>5. CASE Pass(t)
  <2>1. /\ sem = "valid" /\ sem' = sem /\ s'.value = s.value /\ s.kernel > 0
        /\ pc[t] = "wait" /\ has' = [has EXCEPT ![t] = @ + 1]
    BY <1>5, <1>0, SemOperations DEF Pass
  <2>2. Cardinality(Counted)' = Cardinality(Counted) - 1 /\ Cardinality(Counted) \in Nat
    BY <1>5, <1>0, CountedChanges DEF Pass, SemPlaces
  <2>3. Units > 0 /\ Units' = Units - 1
    BY <1>0, <2>1, <2>2 DEF Units, SemInv, UnitsCount, Balanced
  <2> QED
    BY <2>1, <2>3, TakesUnit
<1>6. CASE Retract(t)
  <2>1. sem = "valid" /\ sem' = sem /\ s' = Retracted(s) /\ pc[t] = "retract"
    BY <1>6 DEF Retract, SemInv, Waiting
  <2>2. Cardinality(Counted)' = Cardinality(Counted) - 1 /\ Cardinality(Counted) \in Nat
    BY <1>6, <1>0, CountedChanges DEF Retract, SemPlaces
  <2>3. CASE s.kernel > 0
    <3>1. s'.value = s.value /\ s'.kernel < s.kernel
      BY <1>0, <2>1, <2>3, SemOperations
    <3>2. Units > 0 /\ Units' = Units - 1
      BY <1>0, <2>1, <2>2, <2>3, <3>1 DEF Units, SemInv, UnitsCount, Balanced
    <3>3. has' = [has EXCEPT ![t] = @ + 1]
      BY <1>6, <3>1 DEF Retract
    <3> QED
      BY <2>1, <3>2, <3>3, TakesUnit
  <2>4. CASE s.kernel = 0
    <3>1. s'.value = s.value + 1 /\ ~(s'.kernel < s.kernel)
      BY <1>0, <2>1, <2>4, SemOperations
    <3> QED
      BY <1>0, <1>6, <2>1, <2>2, <3>1 DEF Retract, Units
  <2> QED
    BY <1>0, <2>3, <2>4
<1>7. CASE sem_post(t) \/ sem_post_multiple(t)
  <2>1. sem = "valid" /\ sem' = sem /\ has' = has /\ pc[t] = "lock"
    BY <1>7 DEF sem_post, sem_post_multiple
  <2>2. Cardinality(Counted)' = Cardinality(Counted) /\ Cardinality(Counted) \in Nat
    BY <1>7, <1>0, CountedChanges DEF sem_post, sem_post_multiple, SemPlaces
  <2>3. s' = s \/ \E n \in {1, 2} : s' = PostedMultiple(s, n)
    BY <1>7 DEF sem_post, sem_post_multiple, Posted
  <2>4. ASSUME NEW n \in {1, 2}, s' = PostedMultiple(s, n)
        PROVE  Semaphore!Next
    <3>1. n \in Nat /\ n \in 1 .. Limit
      BY <1>0
    <3>2. s'.value = s.value + n
      BY <1>0, <2>4, <3>1, PostedUnits
    <3>3. Semaphore!Post(n)
      BY <1>0, <2>1, <2>2, <3>1, <3>2 DEF Semaphore!Post
    <3> QED
      BY <3>1, <3>3 DEF Semaphore!Next
  <2> QED
    BY <2>1, <2>2, <2>3, <2>4 DEF Units
<1>8. CASE sem_destroy(t)
  <2>1. CASE s.value < 0
    <3>1. Cardinality(Counted)' = Cardinality(Counted)
      BY <1>8, <1>0, <2>1, CountedChanges DEF sem_destroy, SemPlaces
    <3> QED
      BY <1>8, <2>1, <3>1 DEF sem_destroy, Units
  <2>2. CASE ~(s.value < 0)
    BY <1>8, <2>2 DEF sem_destroy, Semaphore!Next, Semaphore!Destroy
  <2> QED
    BY <2>1, <2>2
<1>9. CASE Free(t)
  BY <1>9 DEF Free, Units, SemInv, Waiting
<1>10. CASE GiveUp(t)
  <2>1. Cardinality(Counted)' = Cardinality(Counted)
    BY <1>10, <1>0, CountedChanges DEF GiveUp, SemPlaces
  <2> QED
    BY <1>10, <2>1 DEF GiveUp, Units
<1> QED
  BY <1>1, <1>2, <1>3, <1>4, <1>5, <1>6, <1>7, <1>8, <1>9, <1>10 DEF SemGo

\* Whatever the order of waits, timeouts, cancellations, posts and the end of a
\* semaphore, the code does what a counting semaphore does: each step takes a unit
\* that is there, adds some, destroys it, or changes nothing of it.
THEOREM SemaphoreImplemented == ~CancelRace => (SemSpecification => ImplementsSem)
<1> SUFFICES ASSUME ~CancelRace PROVE SemSpecification => Semaphore!Spec
  BY DEF ImplementsSem
<1>1. SemInit => Semaphore!Init
  <2> SUFFICES ASSUME SemInit PROVE Semaphore!Init
    OBVIOUS
  <2>1. Counted = {}
    BY DEF SemInit, NoCalls, Counted
  <2> QED
    BY <2>1, SemAssumption, FS_EmptySet DEF SemInit, NewSem, Semaphore!Init
<1>2. SemInv /\ SemInv' /\ [SemNext]_semVars
        => Semaphore!Next \/ UNCHANGED <<Units, has, sem = "valid">>
  <2> SUFFICES ASSUME SemInv, SemInv', [SemNext]_semVars
               PROVE  Semaphore!Next \/ UNCHANGED <<Units, has, sem = "valid">>
    OBVIOUS
  <2>1. CASE UNCHANGED semVars
    BY <2>1 DEF semVars, Units, Counted
  <2>2. ASSUME NEW t \in Threads, NEW f \in SemCalls, SemCall(t, f)
        PROVE  UNCHANGED <<Units, has, sem = "valid">>
    <3>1. Cardinality(Counted)' = Cardinality(Counted)
      BY <2>2, CountedChanges DEF SemCall, Goto, SemInv, SemType, SemPlaces
    <3> QED
      BY <2>2, <3>1 DEF SemCall, Units
  <2> QED
    BY <2>1, <2>2, SemGoImplements DEF SemNext
<1>3. SemInv /\ [SemNext]_semVars => SemInv'
  BY SemNextInv
<1>4. SemInv /\ SemInv' /\ [SemNext]_semVars
        => [Semaphore!Next]_<<IF sem = "valid" THEN s.value + Cardinality(Counted) ELSE 0,
                              has, sem = "valid">>
  BY <1>2 DEF Units
<1> QED
  BY <1>1, <1>3, <1>4, SemInitInv, PTL DEF SemSpecification, Semaphore!Spec

-----------------------------------------------------------------------------
(* Spin locks *)

SpinPlaces == {"idle", "init", "swap", "mutex", "destroy", "destroyStatic"}

SpinType ==
  /\ cpus \in {"one", "many"}
  /\ spin \in {"static", "valid", "null"}
  /\ interlock \in {"invalid", "unlocked", "locked", "mutex"}
  /\ mutexFree \in BOOLEAN
  /\ pc \in [Threads -> SpinPlaces]
  /\ how \in [Threads -> {"none", "lock", "trylock"}]
  /\ holders \in SUBSET Threads

\* The word, or the mutex it refers to, is free when nobody has the lock, and one
\* thread has it otherwise.
WordTells ==
  /\ interlock \in {"invalid", "unlocked"} => holders = {}
  /\ interlock = "locked" => \E t \in Threads : holders = {t}
  /\ interlock = "mutex" =>
       IF mutexFree THEN holders = {} ELSE \E t \in Threads : holders = {t}
  /\ interlock # "mutex" => mutexFree

\* Threads are at the word, at the mutex or about to destroy them only while the lock
\* is there; nobody else is in a call then.
LockThere ==
  /\ spin = "valid" <=> interlock # "invalid"
  /\ \A t \in Threads :
       /\ pc[t] \in {"swap", "mutex", "destroy"} => spin = "valid"
       /\ pc[t] = "mutex" => interlock = "mutex"
       /\ pc[t] = "destroy" => \A u \in Threads \ {t} : pc[u] = "idle"

SpinInv == SpinType /\ WordTells /\ LockThere

LEMMA SpinInitInv == SpinInit => SpinInv
<1> SUFFICES ASSUME SpinInit PROVE SpinInv
  OBVIOUS
<1> USE DEF SpinInit, NoCalls, FreshSpin
<1>1. SpinType
  BY DEF SpinType, SpinPlaces
<1> QED
  BY <1>1 DEF SpinInv, WordTells, LockThere

LEMMA SpinStep ==
  ASSUME SpinInv, NEW t \in Threads,
         SpinGo(t) \/ SpinUnlock(t) \/ SpinDestroy(t) \/ \E f \in {"lock", "trylock"} : SpinCall(t, f)
  PROVE  SpinInv'
<1> USE DEF SpinInv, SpinType, SpinPlaces, Goto
<1>1. CASE \E f \in {"lock", "trylock"} : SpinCall(t, f)
  BY <1>1 DEF SpinCall, Entry, NoDestroyer, WordTells, LockThere
<1>2. CASE SpinNeedInit(t)
  <2>1. spin = "static" => holders = {} /\ mutexFree
    BY DEF WordTells, LockThere
  <2>2. SpinType' /\ WordTells'
    BY <1>2, <2>1 DEF SpinNeedInit, FreshSpin, WordTells
  <2>3. LockThere'
    BY <1>2 DEF SpinNeedInit, FreshSpin, LockThere
  <2> QED
    BY <2>2, <2>3
<1>3. CASE LockSwap(t)
  BY <1>3 DEF LockSwap, SpinGets, WordTells, LockThere
<1>4. CASE TrySwap(t)
  BY <1>4 DEF TrySwap, SpinGets, WordTells, LockThere
<1>5. CASE SpinMutex(t)
  <2>1. interlock = "mutex"
    BY <1>5 DEF SpinMutex, LockThere
  <2>2. SpinType'
    BY <1>5 DEF SpinMutex, SpinGets
  <2>3. WordTells'
    BY <1>5, <2>1 DEF SpinMutex, SpinGets, WordTells
  <2>4. LockThere'
    BY <1>5 DEF SpinMutex, SpinGets, LockThere
  <2> QED
    BY <2>2, <2>3, <2>4
<1>6. CASE SpinUnlock(t)
  <2>1. holders = {t} /\ holders' = {}
    BY <1>6 DEF SpinUnlock, WordTells
  <2>2. SpinType' /\ WordTells'
    BY <1>6, <2>1 DEF SpinUnlock, WordTells
  <2>3. LockThere'
    BY <1>6, <2>1 DEF SpinUnlock, WordTells, LockThere
  <2> QED
    BY <2>2, <2>3
<1>7. CASE SpinDestroy(t)
  BY <1>7 DEF SpinDestroy, WordTells, LockThere
<1>8. CASE SpinDestroyValid(t)
  BY <1>8 DEF SpinDestroyValid, WordTells, LockThere
<1>9. CASE SpinDestroyStatic(t)
  BY <1>9 DEF SpinDestroyStatic, WordTells, LockThere
<1> QED
  BY <1>1, <1>2, <1>3, <1>4, <1>5, <1>6, <1>7, <1>8, <1>9 DEF SpinGo

LEMMA SpinNextInv == SpinInv /\ [SpinNext]_spinVars => SpinInv'
<1> SUFFICES ASSUME SpinInv, [SpinNext]_spinVars PROVE SpinInv'
  OBVIOUS
<1>1. CASE UNCHANGED spinVars
  BY <1>1 DEF spinVars, SpinInv, SpinType, WordTells, LockThere
<1>2. CASE SpinNext
  BY <1>2, SpinStep DEF SpinNext
<1> QED
  BY <1>1, <1>2

\* The holder of the abstract lock is the thread that has this one.
SpinHolder == IF holders = {} THEN NoThread ELSE CHOOSE t \in Threads : t \in holders

\* What the abstract lock sees of a step.
LEMMA SpinImplements ==
  ASSUME SpinInv, SpinInv', NEW t \in Threads,
         SpinGo(t) \/ SpinUnlock(t) \/ SpinDestroy(t) \/ \E f \in {"lock", "trylock"} : SpinCall(t, f)
  PROVE  SpinLock!Next \/ UNCHANGED <<SpinHolder, spin # "null">>
<1> USE DEF SpinInv, SpinType, SpinPlaces, Goto
<1>1. NoThread \notin Threads
  BY CallsAssumption
\* t gets the lock that nobody has.
<1>2. ASSUME holders = {}, holders' = holders \cup {t}, spin = "valid", spin' = spin
      PROVE  SpinLock!Next
  <2>1. SpinHolder = NoThread /\ SpinHolder' = t
    BY <1>2 DEF SpinHolder
  <2> QED
    BY <1>2, <2>1 DEF SpinLock!Next, SpinLock!Acquire, SpinHolder
\* The lock goes, while nobody has it.
<1>3. ASSUME holders = {}, holders' = holders, spin # "null", spin' = "null"
      PROVE  SpinLock!Next
  BY <1>3 DEF SpinLock!Next, SpinLock!Destroy
<1>4. ASSUME holders' = holders, (spin' = "null") <=> (spin = "null")
      PROVE  UNCHANGED <<SpinHolder, spin # "null">>
  BY <1>4 DEF SpinHolder
<1>5. CASE \E f \in {"lock", "trylock"} : SpinCall(t, f)
  BY <1>4, <1>5 DEF SpinCall
<1>6. CASE SpinNeedInit(t)
  <2>1. holders' = holders /\ (spin = "static" => interlock = "invalid")
    BY <1>6 DEF SpinNeedInit, LockThere
  <2>2. spin = "static" => holders = {}
    BY <2>1 DEF WordTells
  <2> QED
    BY <1>3, <1>4, <1>6, <2>1, <2>2 DEF SpinNeedInit
<1>7. CASE LockSwap(t)
  <2>1. CASE interlock = "unlocked"
    BY <1>2, <1>7, <2>1 DEF LockSwap, SpinGets, WordTells, LockThere
  <2>2. CASE interlock # "unlocked"
    BY <1>4, <1>7, <2>2 DEF LockSwap
  <2> QED
    BY <2>1, <2>2
<1>8. CASE TrySwap(t)
  <2>1. CASE interlock = "unlocked"
    BY <1>2, <1>8, <2>1 DEF TrySwap, SpinGets, WordTells, LockThere
  <2>2. CASE interlock # "unlocked"
    BY <1>4, <1>8, <2>2 DEF TrySwap
  <2> QED
    BY <2>1, <2>2
<1>9. CASE SpinMutex(t)
  <2>1. interlock = "mutex" /\ spin = "valid" /\ spin' = spin
    BY <1>9 DEF SpinMutex, LockThere
  <2>2. CASE mutexFree
    BY <1>2, <1>9, <2>1, <2>2 DEF SpinMutex, SpinGets, WordTells
  <2>3. CASE ~mutexFree
    BY <1>4, <1>9, <2>1, <2>3 DEF SpinMutex
  <2> QED
    BY <2>2, <2>3
\* Who unlocks is the one that has it.
<1>10. CASE SpinUnlock(t)
  <2>1. t \in holders /\ holders' = holders \ {t} /\ spin' = spin
    BY <1>10 DEF SpinUnlock
  <2>2. holders = {t} /\ holders' = {}
    BY <2>1 DEF WordTells
  <2>3. SpinHolder = t /\ SpinHolder' = NoThread
    BY <2>2 DEF SpinHolder
  <2> QED
    BY <2>1, <2>3 DEF SpinLock!Next, SpinLock!Release, SpinHolder
<1>11. CASE SpinDestroy(t)
  BY <1>4, <1>11 DEF SpinDestroy
<1>12. CASE SpinDestroyValid(t)
  <2>1. CASE interlock = "unlocked" \/ (interlock = "mutex" /\ mutexFree)
    BY <1>3, <1>12, <2>1 DEF SpinDestroyValid, WordTells, LockThere
  <2>2. CASE ~(interlock = "unlocked" \/ (interlock = "mutex" /\ mutexFree))
    BY <1>4, <1>12, <2>2 DEF SpinDestroyValid
  <2> QED
    BY <2>1, <2>2
<1>13. CASE SpinDestroyStatic(t)
  <2>1. spin = "static" => holders = {}
    BY DEF WordTells, LockThere
  <2> QED
    BY <1>3, <1>4, <1>13, <2>1 DEF SpinDestroyStatic
<1> QED
  BY <1>5, <1>6, <1>7, <1>8, <1>9, <1>10, <1>11, <1>12, <1>13 DEF SpinGo

\* A spin lock is one lock, on one processor or on several, statically initialised
\* or not: one thread has it at a time, and it ends only while nobody has it.
THEOREM SpinLocksImplemented == SpinSpec => ImplementsLock
<1>1. SpinInit => SpinLock!Init
  BY DEF SpinInit, SpinLock!Init
<1>2. SpinInv /\ SpinInv' /\ [SpinNext]_spinVars
        => [SpinLock!Next]_<<IF holders = {} THEN NoThread ELSE CHOOSE t \in Threads : t \in holders,
                             spin # "null">>
  <2> SUFFICES ASSUME SpinInv, SpinInv', [SpinNext]_spinVars
               PROVE  SpinLock!Next \/ UNCHANGED <<SpinHolder, spin # "null">>
    BY DEF SpinHolder
  <2>1. CASE UNCHANGED spinVars
    BY <2>1 DEF spinVars, SpinHolder
  <2>2. CASE SpinNext
    BY <2>2, SpinImplements DEF SpinNext
  <2> QED
    BY <2>1, <2>2
<1>3. SpinInv => Cardinality(holders) <= 1
  <2> SUFFICES ASSUME SpinInv PROVE Cardinality(holders) <= 1
    OBVIOUS
  <2>1. holders = {} \/ \E t \in Threads : holders = {t}
    BY DEF SpinInv, SpinType, WordTells
  <2> QED
    <3>1. CASE holders = {}
      BY <3>1, FS_EmptySet
    <3>2. ASSUME NEW t \in Threads, holders = {t} PROVE Cardinality(holders) = 1
      BY <3>2, FS_Singleton
    <3> QED
      BY <2>1, <3>1, <3>2
<1> QED
  BY <1>1, <1>2, <1>3, SpinInitInv, SpinNextInv, PTL DEF SpinSpec, ImplementsLock, SpinLock!Spec
-----------------------------------------------------------------------------
(* Read-write locks *)

RwPlaces ==
  {"idle", "init", "lock", "lockShared", "fold", "sleep", "unlock", "destroyStatic", "destroy", "dead"}

RwType ==
  /\ rwlock \in {"static", "valid", "null"}
  /\ exclusive \in Threads \cup {NoThread} /\ shared \in Threads \cup {NoThread}
  /\ nShared \in Int /\ nCompleted \in Int
  /\ pc \in [Threads -> RwPlaces]
  /\ how \in [Threads -> Reading \cup Writing \cup {"none", "destroy"}]
  /\ hold \in [Threads -> {"none", "read", "write"}]

\* Who has the two mutexes between steps, and where those stand that have the lock.
Owning ==
  /\ \A t \in Threads :
       /\ exclusive = t <=> pc[t] \in {"lockShared", "fold", "sleep"} \/ hold[t] = "write"
       /\ shared = t <=> hold[t] = "write"
       /\ hold[t] = "write" => pc[t] = "idle"
       /\ hold[t] = "read" => pc[t] \in {"idle", "unlock"}
       /\ pc[t] = "unlock" => hold[t] = "read"
  /\ nExclusive = IF shared = NoThread THEN 0 ELSE 1

NobodyAt(places) == \A t \in Threads : pc[t] \notin places

ReaderCount == Cardinality(Holders("read"))

\* What the counts say: with the lock free or read, with a writer in it, while one
\* waits for readers, and while a reader at the limit takes those done off.
Counting ==
  /\ NobodyAt({"sleep", "fold"}) =>
       nShared - nCompleted = ReaderCount /\ nCompleted >= 0 /\ nShared < IntMax
  /\ shared # NoThread => nShared = 0 /\ nCompleted = 0 /\ Holders("read") = {}
  /\ ~NobodyAt({"sleep"}) => nCompleted = -ReaderCount /\ nShared < IntMax
  /\ ~NobodyAt({"fold"}) =>
       nShared - nCompleted = ReaderCount + 1 /\ nCompleted >= 0 /\ nShared = IntMax

\* A call that got past the initialisation, and whoever has the lock, keeps it there;
\* it is destroyed with nobody else in a call, except to unlock it.
RwThere ==
  /\ \A t \in Threads :
       /\ pc[t] \in RwPlaces \ {"idle", "init", "destroyStatic", "dead"} => rwlock = "valid"
       /\ hold[t] # "none" => rwlock = "valid"
       /\ pc[t] \in {"destroy", "destroyStatic"} => how[t] = "destroy"
       /\ pc[t] = "destroy" => \A u \in Threads \ {t} : pc[u] \in {"idle", "dead", "unlock"}

RwInv == RwType /\ Owning /\ Counting /\ RwThere

LEMMA ReadersChange ==
  ASSUME RwType, NEW t \in Threads, NEW h \in {"none", "read", "write"},
         hold' = [hold EXCEPT ![t] = h]
  PROVE  /\ ReaderCount \in Nat /\ ReaderCount' \in Nat
         /\ ReaderCount < IntMax /\ ReaderCount' < IntMax
         /\ ReaderCount = 0 <=> Holders("read") = {}
         /\ ReaderCount' = 0 <=> Holders("read")' = {}
         /\ Holders("read")' = IF h = "read" THEN Holders("read") \cup {t} ELSE Holders("read") \ {t}
         /\ ReaderCount' = IF h = "read"
                           THEN IF hold[t] = "read" THEN ReaderCount ELSE ReaderCount + 1
                           ELSE IF hold[t] = "read" THEN ReaderCount - 1 ELSE ReaderCount
<1>1. Holders("read") \in SUBSET Threads /\ Holders("read")' \in SUBSET Threads
  BY DEF Holders
<1>2. t \in Holders("read") <=> hold[t] = "read"
  BY DEF Holders
<1>3. Holders("read")' = IF h = "read" THEN Holders("read") \cup {t} ELSE Holders("read") \ {t}
  BY DEF Holders, RwType
<1>4. t \in Holders("read") => Holders("read") \cup {t} = Holders("read")
  OBVIOUS
<1>5. t \notin Holders("read") => Holders("read") \ {t} = Holders("read")
  OBVIOUS
<1>6. \A S \in SUBSET Threads : Cardinality(S) <= Cardinality(Threads)
  BY CallsAssumption, FS_Subset
<1>7. Cardinality(Threads) \in Nat /\ IntMax \in Nat /\ Cardinality(Threads) < IntMax
  BY CallsAssumption, RwAssumption, FS_CardinalityType
<1>8. /\ ReaderCount \in Nat /\ ReaderCount' \in Nat
      /\ ReaderCount = 0 <=> Holders("read") = {}
      /\ ReaderCount' = 0 <=> Holders("read")' = {}
  BY <1>1, SizeOfThreads DEF ReaderCount
<1>9. ReaderCount < IntMax /\ ReaderCount' < IntMax
  BY <1>1, <1>6, <1>7, <1>8 DEF ReaderCount
<1>10. ReaderCount' = IF h = "read"
                      THEN IF hold[t] = "read" THEN ReaderCount ELSE ReaderCount + 1
                      ELSE IF hold[t] = "read" THEN ReaderCount - 1 ELSE ReaderCount
  BY <1>1, <1>2, <1>3, <1>4, <1>5, SizeOfThreads, ZenonT(60) DEF ReaderCount
<1> QED
  BY <1>3, <1>8, <1>9, <1>10

\* The readers stay the same when what each thread has does.
LEMMA ReadersStay ==
  ASSUME RwType, hold' = hold
  PROVE  /\ ReaderCount \in Nat /\ ReaderCount < IntMax /\ (ReaderCount = 0 <=> Holders("read") = {})
         /\ Holders("read")' = Holders("read") /\ ReaderCount' = ReaderCount
<1>1. Holders("read") \in SUBSET Threads /\ Holders("read")' = Holders("read")
  BY DEF Holders
<1>2. Cardinality(Holders("read")) <= Cardinality(Threads)
  BY <1>1, CallsAssumption, FS_Subset
<1>3. Cardinality(Threads) \in Nat /\ IntMax \in Nat /\ Cardinality(Threads) < IntMax
  BY CallsAssumption, RwAssumption, FS_CardinalityType
<1> QED
  BY <1>1, <1>2, <1>3, SizeOfThreads DEF ReaderCount

LEMMA RwInitInv == RwInit => RwInv
<1> SUFFICES ASSUME RwInit PROVE RwInv
  OBVIOUS
<1> USE CallsAssumption, RwAssumption DEF RwInit, NoCalls
<1>1. RwType
  BY DEF RwType, RwPlaces
<1>2. Owning
  BY DEF Owning
<1>3. Holders("read") = {} /\ ReaderCount = 0
  BY FS_EmptySet DEF Holders, ReaderCount
<1>4. IntMax > 0
  BY FS_CardinalityType
<1>5. Counting
  BY <1>3, <1>4 DEF Counting, NobodyAt
<1>6. RwThere
  BY DEF RwThere, RwPlaces
<1> QED
  BY <1>1, <1>2, <1>5, <1>6 DEF RwInv

\* Steps that get no mutex and change no count: calls, and what they do at first.
LEMMA RwCallStep ==
  ASSUME RwInv, NEW t \in Threads,
         \/ \E f \in Reading \cup Writing : Enter(t, f)
         \/ NeedInit(t) \/ RwDestroy(t) \/ DestroyStatic(t)
  PROVE  RwInv'
<1> USE DEF RwInv, RwType, RwPlaces, Goto, mutexes, counts
<1>1. /\ UNCHANGED <<exclusive, shared, nShared, nCompleted, nExclusive, hold>>
      /\ pc[t] \in {"idle", "init", "destroyStatic"}
      /\ \E l \in {"idle", "init", "lock", "destroy", "destroyStatic"} : pc' = [pc EXCEPT ![t] = l]
  BY DEF Enter, NeedInit, RwDestroy, DestroyStatic
<1>2. RwType'
  BY DEF Enter, NeedInit, RwDestroy, DestroyStatic
<1>3. Owning'
  BY <1>1 DEF Owning, Enter, NeedInit, RwDestroy, DestroyStatic
<1>4. Counting'
  <2>1. \A places \in {{"sleep"}, {"fold"}, {"sleep", "fold"}} : NobodyAt(places)' <=> NobodyAt(places)
    BY <1>1 DEF NobodyAt
  <2> QED
    BY <1>1, <2>1, ReadersStay DEF Counting
<1>5. RwThere'
  <2>1. CASE \E f \in Reading \cup Writing : Enter(t, f)
    BY <2>1 DEF RwThere, Enter, Reading, Writing
  <2>2. CASE NeedInit(t)
    BY <2>2 DEF RwThere, NeedInit
  <2>3. CASE RwDestroy(t)
    BY <2>3 DEF RwThere, RwDestroy
  <2>4. CASE DestroyStatic(t)
    BY <2>4 DEF RwThere, DestroyStatic
  <2> QED
    BY <2>1, <2>2, <2>3, <2>4
<1> QED
  BY <1>2, <1>3, <1>4, <1>5

\* Nobody has the lock, for reading or writing, when it is destroyed.
LEMMA DestroyedUnused ==
  ASSUME RwInv, NEW t \in Threads, DestroyValid(t), rwlock' # rwlock
  PROVE  /\ rwlock = "valid" /\ rwlock' = "null" /\ shared = NoThread
         /\ hold = [u \in Threads |-> "none"]
         /\ \A u \in Threads \ {t} : pc[u] \in {"idle", "dead"}
<1> USE DEF RwInv, RwType, DestroyValid
<1>1. NobodyAt({"sleep", "fold"})
  BY DEF RwThere, NobodyAt, RwPlaces
<1>2. ReaderCount = 0
  BY <1>1, ReadersStay DEF Counting
<1>3. Holders("read") = {}
  BY <1>2, ReadersStay
<1>4. \A u \in Threads : hold[u] = "none"
  BY <1>3, CallsAssumption DEF Holders, Owning
<1> QED
  BY <1>4 DEF RwThere, Owning, RwPlaces

LEMMA RwDestroyStep ==
  ASSUME RwInv, NEW t \in Threads, DestroyValid(t)
  PROVE  RwInv'
<1> USE DEF RwInv, RwType, RwPlaces, Goto, mutexes, counts
<1>1. /\ UNCHANGED <<exclusive, shared, nShared, nCompleted, nExclusive, how, hold>>
      /\ pc[t] = "destroy" /\ pc' = [pc EXCEPT ![t] = "idle"]
  BY DEF DestroyValid
<1>2. RwType' /\ Owning'
  BY <1>1 DEF DestroyValid, Owning
<1>3. Counting'
  <2>1. \A places \in {{"sleep"}, {"fold"}, {"sleep", "fold"}} : NobodyAt(places)' <=> NobodyAt(places)
    BY <1>1 DEF NobodyAt
  <2> QED
    BY <1>1, <2>1, ReadersStay DEF Counting
<1>4. RwThere'
  <2>1. CASE rwlock' = rwlock
    BY <1>1, <2>1 DEF RwThere
  <2>2. CASE rwlock' # rwlock
    BY <1>1, <2>2, DestroyedUnused DEF RwThere
  <2> QED
    BY <2>1, <2>2
<1> QED
  BY <1>2, <1>3, <1>4

\* A try or a timed lock that gives up at one of the mutexes.
LEMMA RwBusyStep ==
  ASSUME RwInv, NEW t \in Threads, Busy(t)
  PROVE  RwInv'
<1> USE DEF RwInv, RwType, RwPlaces, Goto, mutexes, counts
<1>1. /\ UNCHANGED <<rwlock, shared, nShared, nCompleted, nExclusive, how, hold>>
      /\ pc' = [pc EXCEPT ![t] = "idle"]
      /\ \/ pc[t] = "lock" /\ exclusive' = exclusive
         \/ pc[t] = "lockShared" /\ exclusive' = NoThread
  BY DEF Busy
<1>2. RwType' /\ Owning'
  BY <1>1, CallsAssumption DEF Owning
<1>3. Counting'
  <2>1. \A places \in {{"sleep"}, {"fold"}, {"sleep", "fold"}} : NobodyAt(places)' <=> NobodyAt(places)
    BY <1>1 DEF NobodyAt
  <2> QED
    BY <1>1, <2>1, ReadersStay DEF Counting
<1>4. RwThere'
  BY <1>1 DEF RwThere
<1> QED
  BY <1>2, <1>3, <1>4

\* A reader comes in.
LEMMA RwReadStep ==
  ASSUME RwInv, NEW t \in Threads, Read(t) \/ Fold(t)
  PROVE  RwInv'
<1> USE DEF RwInv, RwType, RwPlaces, Goto, Gets, mutexes, counts
<1>1. hold[t] = "none"
  BY DEF Read, Fold, Owning
<1>2. RwType' /\ RwThere'
  BY RwAssumption DEF Read, Fold, RwThere
<1>3. CASE Read(t)
  <2>1. exclusive = NoThread /\ shared = NoThread
    BY <1>3, CallsAssumption DEF Read, Owning
  <2>2. NobodyAt({"sleep", "fold"})
    BY <2>1, CallsAssumption DEF Owning, NobodyAt
  <2>3. CASE nShared + 1 = IntMax
    <3>1. Owning'
      BY <1>1, <1>3, <2>1, <2>3, CallsAssumption DEF Read, Owning
    <3>2. ~NobodyAt({"fold"})' /\ NobodyAt({"sleep"})'
      BY <1>3, <2>2, <2>3 DEF Read, NobodyAt
    <3>3. ~NobodyAt({"sleep", "fold"})'
      BY <3>2 DEF NobodyAt
    <3> QED
      BY <1>2, <1>3, <2>1, <2>2, <2>3, <3>1, <3>2, <3>3, ReadersStay, CallsAssumption DEF Read, Counting
  <2>4. CASE nShared + 1 # IntMax
    <3>1. Owning'
      BY <1>1, <1>3, <2>1, <2>4 DEF Read, Owning
    <3>2. NobodyAt({"fold"})' /\ NobodyAt({"sleep"})' /\ NobodyAt({"sleep", "fold"})'
      BY <1>3, <2>2, <2>4 DEF Read, NobodyAt
    <3>3. ReaderCount' = ReaderCount + 1 /\ ReaderCount \in Nat
      BY <1>1, <1>3, <2>4, ReadersChange DEF Read
    <3>4. Counting'
      BY <1>3, <2>1, <2>2, <2>4, <3>2, <3>3, RwAssumption DEF Read, Counting
    <3> QED
      BY <1>2, <3>1, <3>4
  <2> QED
    BY <2>3, <2>4
<1>4. CASE Fold(t)
  <2>1. exclusive = t /\ shared = NoThread
    BY <1>4 DEF Fold, Owning
  <2>2. Owning'
    BY <1>1, <1>4, <2>1, CallsAssumption DEF Fold, Owning
  <2>3. NobodyAt({"fold"})' /\ NobodyAt({"sleep"})' /\ NobodyAt({"sleep", "fold"})'
    BY <1>4, <2>1, CallsAssumption DEF Fold, Owning, NobodyAt
  <2>4. ~NobodyAt({"fold"})
    BY <1>4 DEF Fold, NobodyAt
  <2>5. ReaderCount' = ReaderCount + 1 /\ ReaderCount' < IntMax /\ ReaderCount \in Nat
    BY <1>1, <1>4, ReadersChange DEF Fold
  <2>6. Counting'
    BY <1>4, <2>1, <2>3, <2>4, <2>5, RwAssumption DEF Fold, Counting
  <2> QED
    BY <1>2, <2>2, <2>6
<1> QED
  BY <1>3, <1>4

\* A writer comes in, to the lock or to a wait for its readers, or does not.
LEMMA RwWriteStep ==
  ASSUME RwInv, NEW t \in Threads, Write(t) \/ WriteShared(t) \/ Wake(t) \/ WaitFails(t)
  PROVE  RwInv'
<1> USE DEF RwInv, RwType, RwPlaces, Goto, Gets, Owns, mutexes, counts
<1>0. IntMax \in Nat /\ IntMax > 0 /\ NoThread \notin Threads
  BY CallsAssumption, RwAssumption, FS_CardinalityType
<1>1. hold[t] = "none" /\ rwlock = "valid" /\ rwlock' = rwlock
  BY DEF Write, WriteShared, Wake, WaitFails, Owning, RwThere
<1>2. RwThere'
  BY <1>1 DEF Write, WriteShared, Wake, WaitFails, RwThere
<1>3. CASE Write(t)
  <2>1. Owning' /\ RwType'
    BY <1>0, <1>1, <1>3 DEF Write, Owning
  <2>2. \A places \in {{"sleep"}, {"fold"}, {"sleep", "fold"}} : NobodyAt(places)' <=> NobodyAt(places)
    BY <1>3 DEF Write, NobodyAt
  <2>3. Counting'
    BY <1>3, <2>2, ReadersStay DEF Write, Counting
  <2> QED
    BY <1>2, <2>1, <2>3
<1>4. CASE WriteShared(t)
  <2>1. exclusive = t /\ shared = NoThread /\ nExclusive = 0
    BY <1>4 DEF WriteShared, Owning
  <2>2. NobodyAt({"sleep", "fold"})
    BY <1>0, <1>4, <2>1 DEF WriteShared, Owning, NobodyAt
  <2>3. nShared - nCompleted = ReaderCount /\ nCompleted >= 0 /\ UnderWay = ReaderCount
    BY <2>2, <1>4 DEF Counting, UnderWay
  <2>4. CASE UnderWay = 0
    <3>1. /\ nShared' = 0 /\ nCompleted' = 0 /\ shared' = t /\ exclusive' = exclusive
          /\ nExclusive' = 1 /\ hold' = [hold EXCEPT ![t] = "write"] /\ pc' = [pc EXCEPT ![t] = "idle"]
          /\ how' = how
      BY <1>4, <2>1, <2>3, <2>4 DEF WriteShared
    <3>2. Owning' /\ RwType'
      BY <1>0, <1>1, <2>1, <3>1 DEF Owning
    <3>3. NobodyAt({"fold"})' /\ NobodyAt({"sleep"})' /\ NobodyAt({"sleep", "fold"})'
      BY <2>2, <3>1 DEF NobodyAt
    <3>4. ReaderCount' = 0 /\ Holders("read")' = {}
      BY <1>1, <2>3, <2>4, <3>1, ReadersChange
    <3> QED
      BY <1>0, <1>2, <3>1, <3>2, <3>3, <3>4 DEF Counting
  <2>5. CASE UnderWay # 0 /\ how[t] # "trywrlock"
    <3>1. /\ nShared' = ReaderCount /\ nCompleted' = -ReaderCount /\ shared' = shared
          /\ exclusive' = exclusive /\ nExclusive' = nExclusive /\ hold' = hold
          /\ pc' = [pc EXCEPT ![t] = "sleep"] /\ how' = how
      BY <1>4, <2>3, <2>5 DEF WriteShared
    <3>2. Owning' /\ RwType'
      BY <1>0, <1>1, <2>1, <3>1, ReadersStay DEF Owning
    <3>3. NobodyAt({"fold"})' /\ ~NobodyAt({"sleep"})' /\ ~NobodyAt({"sleep", "fold"})'
      BY <2>2, <3>1 DEF NobodyAt
    <3> QED
      BY <1>0, <1>2, <2>1, <3>1, <3>2, <3>3, ReadersStay DEF Counting
  <2>6. CASE UnderWay # 0 /\ how[t] = "trywrlock"
    <3>1. /\ nShared' = ReaderCount /\ nCompleted' = 0 /\ shared' = shared
          /\ exclusive' = NoThread /\ nExclusive' = nExclusive /\ hold' = hold
          /\ pc' = [pc EXCEPT ![t] = "idle"] /\ how' = how
      BY <1>4, <2>3, <2>6 DEF WriteShared
    <3>2. Owning' /\ RwType'
      BY <1>0, <1>1, <2>1, <3>1, ReadersStay DEF Owning
    <3>3. NobodyAt({"fold"})' /\ NobodyAt({"sleep"})' /\ NobodyAt({"sleep", "fold"})'
      BY <2>2, <3>1 DEF NobodyAt
    <3> QED
      BY <1>0, <1>2, <2>1, <3>1, <3>2, <3>3, ReadersStay DEF Counting
  <2> QED
    BY <2>4, <2>5, <2>6
<1>5. CASE Wake(t)
  <2>1. exclusive = t /\ shared = NoThread /\ nExclusive = 0 /\ ~NobodyAt({"sleep"})
    BY <1>5 DEF Wake, Owning, NobodyAt
  <2>2. nCompleted = -ReaderCount /\ nShared < IntMax /\ ReaderCount \in Nat
    BY <2>1, SizeOfThreads DEF Counting, ReaderCount, Holders
  <2>3. CASE nCompleted < 0
    <3>1. UNCHANGED <<nShared, nCompleted, nExclusive, exclusive, shared, pc, hold, how>>
      BY <1>5, <2>3 DEF Wake
    <3> QED
      BY <1>1, <1>2, <3>1 DEF Owning, Counting, NobodyAt, ReaderCount, Holders
  <2>4. CASE ~(nCompleted < 0)
    <3>1. /\ nShared' = 0 /\ nCompleted' = 0 /\ shared' = t /\ exclusive' = exclusive
          /\ nExclusive' = 1 /\ hold' = [hold EXCEPT ![t] = "write"] /\ pc' = [pc EXCEPT ![t] = "idle"]
          /\ how' = how
      BY <1>5, <2>1, <2>2, <2>4 DEF Wake
    <3>2. Owning' /\ RwType'
      BY <1>0, <1>1, <2>1, <3>1 DEF Owning
    <3>3. NobodyAt({"fold"})' /\ NobodyAt({"sleep"})' /\ NobodyAt({"sleep", "fold"})'
      BY <1>0, <2>1, <3>1 DEF Owning, NobodyAt
    <3>4. ReaderCount = 0
      BY <2>2, <2>4
    <3>5. ReaderCount' = 0 /\ Holders("read")' = {}
      BY <1>1, <3>1, <3>4, ReadersChange
    <3> QED
      BY <1>0, <1>2, <3>1, <3>2, <3>3, <3>5 DEF Counting
  <2> QED
    BY <2>3, <2>4
<1>6. CASE WaitFails(t)
  <2>1. exclusive = t /\ shared = NoThread /\ nExclusive = 0 /\ ~NobodyAt({"sleep"})
    BY <1>6 DEF WaitFails, Owning, NobodyAt
  <2>2. /\ nShared' = -nCompleted /\ nCompleted' = 0 /\ shared' = shared
        /\ exclusive' = NoThread /\ nExclusive' = nExclusive /\ hold' = hold /\ how' = how
        /\ \E l \in {"idle", "dead"} : pc' = [pc EXCEPT ![t] = l]
    BY <1>6 DEF WaitFails
  <2>3. nShared' = ReaderCount
    BY <2>1, <2>2, ReadersStay DEF Counting
  <2>4. Owning' /\ RwType'
    BY <1>0, <1>1, <2>1, <2>2 DEF Owning
  <2>5. NobodyAt({"fold"})' /\ NobodyAt({"sleep"})' /\ NobodyAt({"sleep", "fold"})'
    BY <1>0, <2>1, <2>2 DEF Owning, NobodyAt
  <2> QED
    BY <1>0, <1>2, <2>1, <2>2, <2>3, <2>4, <2>5, ReadersStay DEF Counting
<1> QED
  BY <1>3, <1>4, <1>5, <1>6

\* A thread that unlocks has what the counts say that it has: a writer gives both
\* mutexes back, a reader counts itself as done.
LEMMA RwUnlockStep ==
  ASSUME RwInv, NEW t \in Threads, RwUnlock(t) \/ Done(t)
  PROVE  RwInv'
<1> USE DEF RwInv, RwType, RwPlaces, Goto, Gets, mutexes, counts
<1>0. IntMax \in Nat /\ IntMax > 0 /\ NoThread \notin Threads
  BY CallsAssumption, RwAssumption, FS_CardinalityType
<1>1. CASE RwUnlock(t) /\ nExclusive = 0
  <2>1. /\ UNCHANGED <<rwlock, exclusive, shared, nShared, nCompleted, nExclusive, how, hold>>
        /\ pc[t] = "idle" /\ pc' = [pc EXCEPT ![t] = "unlock"] /\ hold[t] # "none"
    BY <1>1 DEF RwUnlock
  <2>2. hold[t] = "read"
    BY <1>0, <1>1, <2>1 DEF Owning
  <2>3. RwType' /\ Owning' /\ RwThere'
    BY <2>1, <2>2 DEF Owning, RwThere
  <2>4. \A places \in {{"sleep"}, {"fold"}, {"sleep", "fold"}} : NobodyAt(places)' <=> NobodyAt(places)
    BY <2>1 DEF NobodyAt
  <2> QED
    BY <2>1, <2>3, <2>4, ReadersStay DEF Counting
<1>2. CASE RwUnlock(t) /\ nExclusive # 0
  <2>1. shared # NoThread /\ nShared = 0 /\ nCompleted = 0 /\ Holders("read") = {}
    BY <1>2 DEF Owning, Counting
  <2>2. hold[t] = "write" /\ shared = t /\ exclusive = t /\ nExclusive = 1
    BY <1>2, <2>1 DEF RwUnlock, Holders, Owning
  <2>3. /\ shared' = NoThread /\ exclusive' = NoThread /\ nExclusive' = 0 /\ nShared' = 0
        /\ nCompleted' = 0 /\ rwlock' = rwlock /\ how' = how
        /\ hold' = [hold EXCEPT ![t] = "none"] /\ pc' = [pc EXCEPT ![t] = "idle"] /\ pc[t] = "idle"
    BY <1>2, <2>1, <2>2 DEF RwUnlock
  <2>4. RwType' /\ Owning' /\ RwThere'
    BY <1>0, <2>2, <2>3 DEF Owning, RwThere
  <2>5. NobodyAt({"fold"})' /\ NobodyAt({"sleep"})' /\ NobodyAt({"sleep", "fold"})'
    BY <1>0, <2>2, <2>3 DEF Owning, NobodyAt
  <2>6. ReaderCount' = 0
    BY <2>1, <2>2, <2>3, ReadersChange
  <2> QED
    BY <1>0, <2>3, <2>4, <2>5, <2>6 DEF Counting
<1>3. CASE Done(t)
  <2>1. /\ pc[t] = "unlock" /\ shared = NoThread /\ nCompleted' = nCompleted + 1
        /\ UNCHANGED <<rwlock, exclusive, shared, nShared, nExclusive, how>>
        /\ hold' = [hold EXCEPT ![t] = "none"] /\ pc' = [pc EXCEPT ![t] = "idle"]
    BY <1>3 DEF Done
  <2>2. hold[t] = "read"
    BY <2>1 DEF Owning
  <2>3. RwType' /\ Owning' /\ RwThere'
    BY <1>0, <2>1, <2>2 DEF Owning, RwThere
  <2>4. \A places \in {{"sleep"}, {"fold"}, {"sleep", "fold"}} : NobodyAt(places)' <=> NobodyAt(places)
    BY <2>1 DEF NobodyAt
  <2>5. ReaderCount' = ReaderCount - 1 /\ ReaderCount \in Nat /\ ReaderCount' \in Nat
    BY <2>1, <2>2, ReadersChange
  <2> QED
    BY <1>0, <2>1, <2>3, <2>4, <2>5 DEF Counting
<1> QED
  BY <1>1, <1>2, <1>3

LEMMA RwNextInv == ~FoldLate /\ RwInv /\ [RwNext]_rwVars => RwInv'
<1> SUFFICES ASSUME ~FoldLate, RwInv, [RwNext]_rwVars PROVE RwInv'
  OBVIOUS
<1>1. CASE UNCHANGED rwVars
  <2>1. /\ UNCHANGED <<rwlock, exclusive, shared, nShared, nCompleted, nExclusive, pc, how, hold>>
    BY <1>1 DEF rwVars, mutexes, counts
  <2> QED
    BY <2>1 DEF RwInv, RwType, Owning, Counting, RwThere, NobodyAt, ReaderCount, Holders
<1>2. CASE RwNext
  <2>1. PICK t \in Threads :
          \/ RwGo(t) \/ Busy(t) \/ FoldTimesOut(t) \/ WaitFails(t) \/ RwUnlock(t) \/ RwDestroy(t)
          \/ \E f \in Reading \cup Writing : Enter(t, f)
    BY <1>2 DEF RwNext
  <2>2. ~FoldTimesOut(t)
    BY DEF FoldTimesOut
  <2> QED
    BY <2>1, <2>2, RwCallStep, RwDestroyStep, RwBusyStep, RwReadStep, RwWriteStep, RwUnlockStep DEF RwGo
<1> QED
  BY <1>1, <1>2

\* The counts of a read-write lock are the readers there are, at INT_MAX as well,
\* whatever writers wait, give up or are cancelled (pthread_rwlock_rdlock.c,
\* _timedrdlock.c, _wrlock.c, _timedwrlock.c, _unlock.c), as long as no timed
\* reader runs out of time at that limit.
THEOREM RwCountsHold == ~FoldLate => (RwSpecification => []CountsHold)
<1> SUFFICES ASSUME ~FoldLate PROVE RwSpecification => []CountsHold
  OBVIOUS
<1>1. RwInv => CountsHold
  <2> SUFFICES ASSUME RwInv PROVE CountsHold
    OBVIOUS
  <2> USE DEF RwInv, RwType
  <2>1. ReaderCount \in Nat /\ IntMax \in Nat /\ NoThread \notin Threads
    BY SizeOfThreads, RwAssumption, CallsAssumption DEF ReaderCount, Holders
  <2>2. (exclusive = NoThread /\ nExclusive = 0) => nShared - nCompleted = ReaderCount
    BY <2>1 DEF Owning, Counting, NobodyAt
  <2>3. \A t \in Threads : pc[t] = "sleep" => -nCompleted = ReaderCount
    BY <2>1 DEF Counting, NobodyAt
  <2>4. nShared <= IntMax /\ nCompleted <= IntMax
    <3>1. CASE NobodyAt({"sleep", "fold"})
      BY <2>1, <3>1 DEF Counting
    <3>2. CASE ~NobodyAt({"fold"})
      BY <2>1, <3>2 DEF Counting
    <3>3. CASE ~NobodyAt({"sleep"})
      BY <2>1, <3>3 DEF Counting
    <3> QED
      BY <3>1, <3>2, <3>3 DEF NobodyAt
  <2> QED
    BY <2>2, <2>3, <2>4 DEF CountsHold, CountsReaders, CountsFit, ReaderCount
<1>2. RwInv /\ [RwNext]_rwVars => RwInv'
  BY RwNextInv
<1> QED
  BY <1>1, <1>2, RwInitInv, PTL DEF RwSpecification

\* The writer of the abstract lock has mtxSharedAccessCompleted.
RwWriter == IF Holders("write") = {} THEN NoThread ELSE CHOOSE t \in Holders("write") : TRUE

LEMMA WriterKnown ==
  ASSUME NEW h, NEW x \in Threads \cup {NoThread},
         \A t \in Threads : x = t <=> h[t] = "write"
  PROVE  LET writers == {t \in Threads : h[t] = "write"}
         IN (IF writers = {} THEN NoThread ELSE CHOOSE t \in writers : TRUE) = x
<1>1. CASE x = NoThread
  BY <1>1, CallsAssumption
<1>2. CASE x # NoThread
  <2>1. {t \in Threads : h[t] = "write"} = {x}
    BY <1>2
  <2> QED
    BY <2>1
<1> QED
  BY <1>1, <1>2

\* What the abstract lock sees of a step.
LEMMA RwStepImplements ==
  ASSUME ~FoldLate, RwInv, RwInv', RwNext
  PROVE  RW!Next \/ UNCHANGED <<Holders("read"), RwWriter, rwlock # "null">>
<1> USE DEF RwInv, RwType, RwPlaces, Goto, Gets, Owns, mutexes, counts
<1>1. NoThread \notin Threads /\ RwWriter = shared /\ RwWriter' = shared'
  BY CallsAssumption, WriterKnown DEF Owning, RwWriter, Holders
<1>2. ASSUME hold' = hold, shared' = shared, (rwlock' = "null") <=> (rwlock = "null")
      PROVE  UNCHANGED <<Holders("read"), RwWriter, rwlock # "null">>
  BY <1>1, <1>2 DEF Holders
\* t reads, or writes, where nobody writes, or nobody has the lock.
<1>3. ASSUME NEW t \in Threads, hold[t] = "none", hold' = [hold EXCEPT ![t] = "read"],
             shared = NoThread, shared' = shared, rwlock = "valid", rwlock' = rwlock
      PROVE  RW!Next
  <2>1. Holders("read")' = Holders("read") \cup {t} /\ t \notin Holders("read")
    BY <1>3 DEF Holders
  <2> QED
    BY <1>1, <1>3, <2>1 DEF RW!Next, RW!ReadLock, RW!Free, RwWriter
<1>4. ASSUME NEW t \in Threads, hold[t] = "none", hold' = [hold EXCEPT ![t] = "write"],
             shared = NoThread, shared' = t, ReaderCount = 0, rwlock = "valid", rwlock' = rwlock
      PROVE  RW!Next
  <2>1. Holders("read") = {}
    BY <1>4, ReadersChange
  <2>2. Holders("read")' = {}
    BY <1>4, <2>1 DEF Holders
  <2> QED
    BY <1>1, <1>4, <2>1, <2>2 DEF RW!Next, RW!WriteLock, RW!Free, RwWriter
<1>5. PICK t \in Threads :
        \/ RwGo(t) \/ Busy(t) \/ FoldTimesOut(t) \/ WaitFails(t) \/ RwUnlock(t) \/ RwDestroy(t)
        \/ \E f \in Reading \cup Writing : Enter(t, f)
  BY DEF RwNext
<1>6. CASE \/ Busy(t) \/ WaitFails(t) \/ RwDestroy(t) \/ NeedInit(t) \/ Write(t)
           \/ \E f \in Reading \cup Writing : Enter(t, f)
  BY <1>2, <1>6 DEF Busy, WaitFails, RwDestroy, NeedInit, Write, Enter
<1>7. CASE Read(t)
  <2>1. /\ shared = NoThread /\ rwlock = "valid" /\ hold[t] = "none"
        /\ shared' = shared /\ rwlock' = rwlock
    BY <1>1, <1>7 DEF Read, Owning, RwThere
  <2> QED
    BY <1>2, <1>3, <1>7, <2>1 DEF Read
<1>8. CASE Fold(t)
  <2>1. rwlock = "valid" /\ hold[t] = "none"
    BY <1>8 DEF Fold, Owning, RwThere
  <2> QED
    BY <1>3, <1>8, <2>1 DEF Fold
<1>9. CASE WriteShared(t)
  <2>1. rwlock = "valid" /\ hold[t] = "none" /\ exclusive = t /\ shared = NoThread
    BY <1>9 DEF WriteShared, Owning, RwThere
  <2>2. NobodyAt({"sleep", "fold"})
    BY <1>1, <1>9, <2>1 DEF WriteShared, Owning, NobodyAt
  <2>3. UnderWay = ReaderCount
    BY <2>2 DEF Counting, UnderWay
  <2>4. CASE UnderWay = 0
    BY <1>4, <1>9, <2>1, <2>3, <2>4 DEF WriteShared
  <2>5. CASE UnderWay # 0
    BY <1>2, <1>9, <2>5 DEF WriteShared
  <2> QED
    BY <2>4, <2>5
<1>10. CASE Wake(t)
  <2>1. rwlock = "valid" /\ hold[t] = "none" /\ exclusive = t /\ shared = NoThread
    BY <1>10 DEF Wake, Owning, RwThere
  <2>2. nCompleted = -ReaderCount /\ ReaderCount \in Nat
    BY <1>10, SizeOfThreads DEF Wake, NobodyAt, Counting, ReaderCount, Holders
  <2>3. CASE nCompleted < 0
    BY <1>2, <1>10, <2>3 DEF Wake
  <2>4. CASE ~(nCompleted < 0)
    <3>1. ReaderCount = 0
      BY <2>2, <2>4
    <3> QED
      BY <1>4, <1>10, <2>1, <2>4, <3>1 DEF Wake
  <2> QED
    BY <2>3, <2>4
<1>11. CASE RwUnlock(t)
  <2>1. CASE nExclusive = 0
    BY <1>2, <1>11, <2>1 DEF RwUnlock
  <2>2. CASE nExclusive # 0
    <3>1. Holders("read") = {}
      BY <2>2 DEF Owning, Counting
    <3>2. shared = t /\ shared' = NoThread
      BY <1>11, <2>2, <3>1 DEF RwUnlock, Holders, Owning
    <3>3. Holders("read")' = {} /\ rwlock' = rwlock
      BY <1>11, <2>2, <3>1 DEF RwUnlock, Holders
    <3> QED
      BY <1>1, <3>1, <3>2, <3>3 DEF RW!Next, RW!Unlock, RwWriter
  <2> QED
    BY <2>1, <2>2
<1>12. CASE Done(t)
  <2>1. t \in Holders("read") /\ Holders("read")' = Holders("read") \ {t}
    BY <1>12 DEF Done, Owning, Holders
  <2> QED
    BY <1>1, <1>12, <2>1 DEF Done, RW!Next, RW!Unlock, RwWriter
\* It ends.
<1>13. CASE DestroyStatic(t) \/ DestroyValid(t)
  <2>1. hold' = hold /\ shared' = shared /\ (rwlock' = rwlock \/ rwlock' = "null")
    BY <1>13 DEF DestroyStatic, DestroyValid, RwThere
  <2>2. CASE rwlock' = rwlock
    BY <1>2, <2>1, <2>2
  <2>3. CASE rwlock' # rwlock
    <3>1. \A u \in Threads : hold[u] = "none"
      BY <1>13, <2>3, DestroyedUnused DEF DestroyStatic, RwThere
    <3>2. Holders("read") = {} /\ Holders("read")' = {} /\ shared = NoThread
      BY <2>1, <3>1 DEF Holders, Owning
    <3> QED
      BY <1>1, <2>1, <2>3, <3>2 DEF RW!Next, RW!Destroy, RW!Free, RwWriter
  <2> QED
    BY <2>2, <2>3
<1> QED
  BY <1>5, <1>6, <1>7, <1>8, <1>9, <1>10, <1>11, <1>12, <1>13 DEF RwGo, FoldTimesOut

\* Whatever the order of locks, tries, timeouts, cancellations and the end of a
\* read-write lock, it never lets a writer in beside another thread, nor ends
\* while one has it, as long as no timed reader runs out of time at INT_MAX.
THEOREM RwImplemented == ~FoldLate => (RwSpecification => ImplementsRw)
<1> SUFFICES ASSUME ~FoldLate PROVE RwSpecification => RW!Spec
  BY DEF ImplementsRw
<1>1. RwInit => RW!Init
  BY DEF RwInit, RW!Init, Holders
<1>2. RwInv /\ RwInv' /\ [RwNext]_rwVars
        => [RW!Next]_<<Holders("read"),
                       IF Holders("write") = {} THEN NoThread ELSE CHOOSE t \in Holders("write") : TRUE,
                       rwlock # "null">>
  <2> SUFFICES ASSUME RwInv, RwInv', [RwNext]_rwVars
               PROVE  RW!Next \/ UNCHANGED <<Holders("read"), RwWriter, rwlock # "null">>
    BY DEF RwWriter
  <2>1. CASE UNCHANGED rwVars
    BY <2>1 DEF rwVars, RwWriter, Holders
  <2>2. CASE RwNext
    BY <2>2, RwStepImplements
  <2> QED
    BY <2>1, <2>2
<1>3. RwInv /\ [RwNext]_rwVars => RwInv'
  BY RwNextInv
<1> QED
  BY <1>1, <1>2, <1>3, RwInitInv, PTL DEF RwSpecification, RW!Spec

-----------------------------------------------------------------------------
(* Timeouts *)

\* Division, and what is left of a number that a DWORD holds.
LEMMA Quotient ==
  ASSUME NEW x \in Nat, NEW n \in Nat \ {0}
  PROVE  x \div n \in Nat /\ n * (x \div n) <= x /\ x < n * (x \div n) + n
OBVIOUS

LEMMA Remainder ==
  ASSUME NEW x \in Nat, NEW w \in Nat \ {0}
  PROVE  x % w \in 0 .. w - 1 /\ x % w <= x /\ (x < w => x % w = x)
OBVIOUS

\* Rounded to the next millisecond, nanoseconds are off by half of one at most.
LEMMA Rounded ==
  ASSUME NEW n \in Nat
  PROVE  LET q == (n + NsPerMs \div 2) \div NsPerMs
         IN /\ q \in Nat
            /\ 2 * (q * NsPerMs) <= 2 * n + NsPerMs
            /\ 2 * n <= 2 * (q * NsPerMs) + NsPerMs
<1> DEFINE h == NsPerMs \div 2
<1> DEFINE q == (n + h) \div NsPerMs
<1>1. h \in Nat /\ 2 * h <= NsPerMs /\ NsPerMs <= 2 * h + 1
  BY TimeAssumption
<1>2. q \in Nat /\ NsPerMs * q <= n + h /\ n + h < NsPerMs * q + NsPerMs
  BY <1>1, Quotient, TimeAssumption
<1>3. NsPerMs * q = q * NsPerMs /\ q * NsPerMs \in Nat
  BY <1>2, TimeAssumption
<1> HIDE DEF h, q
<1>4. 2 * (q * NsPerMs) <= 2 * n + NsPerMs
  BY <1>1, <1>2, <1>3, TimeAssumption
<1>5. 2 * n <= 2 * (q * NsPerMs) + NsPerMs
  BY <1>1, <1>2, <1>3, TimeAssumption
<1> QED
  BY <1>2, <1>4, <1>5 DEF q, h

\* Comparing products by a positive number is comparing the numbers.
LEMMA Products ==
  ASSUME NEW a \in Int, NEW b \in Int, NEW n \in Nat \ {0}
  PROVE  /\ (a + b) * n = a * n + b * n
         /\ a <= b => a * n <= b * n
         /\ a * n <= b * n => a <= b
         /\ a * n \in Int
<1>1. (a + b) * n = a * n + b * n /\ a * n \in Int /\ b * n \in Int
  OBVIOUS
<1>2. a <= b => a * n <= b * n
  OBVIOUS
<1>3. a > b => a * n > b * n
  OBVIOUS
<1> QED
  BY <1>1, <1>2, <1>3

\* The wait that is left until a time, for every time and every width of a DWORD.
LEMMA WaitsInTime ==
  ASSUME NEW sec \in Nat, NEW nsec \in Nat, NEW time \in Nat
  PROVE  WaitInTime(sec, nsec, time)
<1> DEFINE q == (nsec + NsPerMs \div 2) \div NsPerMs
           P == sec * MsPerSec
           a == P - time
           ns == a * NsPerMs + nsec
           ms == ((P + q) - time) % Word
           wait == relmillisecs(sec, nsec, time)
<1>1. /\ Word \in Nat /\ Word > 2 /\ NsPerMs \in Nat \ {0} /\ P \in Nat /\ a \in Int
  BY TimeAssumption
<1>2. /\ q \in Nat /\ q * NsPerMs \in Nat
      /\ 2 * (q * NsPerMs) <= 2 * nsec + NsPerMs
      /\ 2 * nsec <= 2 * (q * NsPerMs) + NsPerMs
  BY <1>1, Rounded
<1>3. wait = IF P + q <= time THEN 0 ELSE IF ms = INFINITE THEN ms - 1 ELSE ms
  BY DEF relmillisecs
<1> HIDE DEF q, P
<1>4. /\ a * NsPerMs \in Int /\ ns \in Int /\ (a + q) * NsPerMs = a * NsPerMs + q * NsPerMs
  BY <1>1, <1>2, Products
<1> HIDE DEF a, ns, ms, wait
\* The time is over, or so nearly that it rounds to nothing.
<1>5. CASE P + q <= time
  <2>1. wait = 0 /\ INFINITE # 0 /\ wait # INFINITE
    BY <1>1, <1>3, <1>5 DEF INFINITE
  <2>2. a + q <= 0
    BY <1>1, <1>2, <1>5 DEF a
  <2>3. (a + q) * NsPerMs <= 0
    BY <1>1, <1>2, <2>2, Products
  <2>4. 2 * ns <= NsPerMs
    BY <1>1, <1>2, <1>4, <2>3 DEF ns
  <2>5. 2 * wait * NsPerMs = 0
    BY <1>1, <2>1
  <2> QED
    BY <1>1, <1>4, <2>1, <2>4, <2>5 DEF WaitInTime, wait, ns, a, P
<1>6. CASE ~(P + q <= time)
  <2>1. a + q \in Nat \ {0} /\ ms = (a + q) % Word /\ ms \in 0 .. Word - 1 /\ ms <= a + q
        /\ (a + q < Word => ms = a + q)
    <3>1. a + q \in Nat \ {0} /\ (P + q) - time = a + q
      BY <1>1, <1>2, <1>6 DEF a
    <3>2. ms = (a + q) % Word
      BY <3>1 DEF ms
    <3>3. a + q \in Nat /\ Word \in Nat \ {0}
      BY <1>1, <3>1
    <3>4. /\ (a + q) % Word \in 0 .. Word - 1 /\ (a + q) % Word <= a + q
          /\ (a + q < Word => (a + q) % Word = a + q)
      BY <3>3, Remainder
    <3> QED
      BY <3>1, <3>2, <3>4
  <2>2. wait \in Nat /\ wait # INFINITE /\ wait <= a + q
    BY <1>1, <1>3, <1>6, <2>1 DEF INFINITE
  <2>3. wait * NsPerMs \in Nat /\ wait * NsPerMs <= (a + q) * NsPerMs
    BY <1>1, <2>1, <2>2, Products
  <2>4. 2 * wait * NsPerMs = 2 * (wait * NsPerMs)
    BY <1>1, <2>2
  <2>5. 2 * wait * NsPerMs <= 2 * ns + NsPerMs
    BY <1>1, <1>2, <1>4, <2>3, <2>4 DEF ns
  <2>6. ASSUME ns < (INFINITE - 1) * NsPerMs
        PROVE  2 * wait * NsPerMs >= 2 * ns - NsPerMs
    <3>1. /\ (INFINITE - 1) * NsPerMs + NsPerMs = INFINITE * NsPerMs
          /\ (INFINITE - 1) * NsPerMs \in Int /\ INFINITE * NsPerMs \in Int
      BY <1>1 DEF INFINITE
    <3>2. 2 * ((a + q) * NsPerMs) <= 2 * ns + NsPerMs
      BY <1>1, <1>2, <1>4 DEF ns
    <3>3. (a + q) * NsPerMs < INFINITE * NsPerMs
      <4>1. \A x, y, z \in Int : 2 * x <= 2 * ns + NsPerMs /\ ns < y /\ y + NsPerMs = z => x < z
        BY <1>1, <1>4
      <4> QED
        BY <1>1, <1>2, <1>4, <2>6, <3>1, <3>2, <4>1
    <3>4. a + q < INFINITE
      <4>1. INFINITE \in Int
        BY <1>1 DEF INFINITE
      <4>2. INFINITE <= a + q => INFINITE * NsPerMs <= (a + q) * NsPerMs
        BY <1>1, <2>1, <4>1, Products
      <4> QED
        BY <1>1, <1>4, <2>1, <3>1, <3>3, <4>1, <4>2
    <3>5. wait = a + q
      BY <1>1, <1>3, <1>6, <2>1, <3>4 DEF INFINITE
    <3> QED
      BY <1>1, <1>2, <1>4, <2>4, <3>5 DEF ns
  <2> QED
    BY <2>2, <2>5, <2>6 DEF WaitInTime, wait, ns, a, P
<1> QED
  BY <1>5, <1>6

\* A delay, cut to a DWORD twice.
LEMMA DelaysInTime ==
  ASSUME NEW sec \in Nat, NEW nsec \in 0 .. MsPerSec * NsPerMs - 1
  PROVE  DelayInTime(sec, nsec)
<1> DEFINE P == sec * MsPerSec
           q == (nsec + NsPerMs - 1) \div NsPerMs
<1> SUFFICES ASSUME P + MsPerSec < INFINITE
             PROVE  /\ delay(sec, nsec) # INFINITE
                    /\ delay(sec, nsec) * NsPerMs >= P * NsPerMs + nsec
  BY DEF DelayInTime
<1>1. /\ Word \in Nat /\ Word > 2 /\ NsPerMs \in Nat \ {0} /\ MsPerSec \in Nat \ {0} /\ P \in Nat
      /\ MsPerSec * NsPerMs \in Nat /\ nsec \in Nat /\ nsec < MsPerSec * NsPerMs
  BY TimeAssumption
<1>2. /\ q \in Nat /\ NsPerMs * q <= nsec + NsPerMs - 1 /\ nsec <= NsPerMs * q
      /\ NsPerMs * q = q * NsPerMs
  <2>1. nsec + NsPerMs - 1 \in Nat
    BY <1>1
  <2>2. q \in Nat /\ NsPerMs * q <= nsec + NsPerMs - 1 /\ nsec + NsPerMs - 1 < NsPerMs * q + NsPerMs
    BY <1>1, <2>1, Quotient
  <2> QED
    BY <1>1, <2>2
<1> HIDE DEF P, q
<1>3. q <= MsPerSec
  <2>1. MsPerSec + 1 <= q => (MsPerSec + 1) * NsPerMs <= q * NsPerMs
    BY <1>1, <1>2, Products
  <2>2. (MsPerSec + 1) * NsPerMs = MsPerSec * NsPerMs + NsPerMs
    BY <1>1
  <2> QED
    BY <1>1, <1>2, <2>1, <2>2
<1>4. P % Word = P /\ (P + q) % Word = P + q /\ P + q < INFINITE
  <2>1. P + q \in Nat /\ P < Word /\ P + q < Word /\ P + q < INFINITE
    BY <1>1, <1>2, <1>3 DEF INFINITE
  <2>2. Word \in Nat \ {0}
    BY <1>1
  <2> QED
    BY <1>1, <2>1, <2>2, Remainder
<1>5. delay(sec, nsec) = P + q
  BY <1>4 DEF delay, P, q
<1>6. (P + q) * NsPerMs = P * NsPerMs + q * NsPerMs /\ P * NsPerMs \in Int
  BY <1>1, <1>2, Products
<1> QED
  BY <1>1, <1>2, <1>4, <1>5, <1>6 DEF INFINITE

\* Whatever a DWORD, a second and a millisecond are: a wait for a time ends, within
\* half a millisecond of it (ptw32_relmillisecs.c), and a delay that a DWORD holds is
\* never cut short (pthread_delay_np.c).
THEOREM TimeoutsAlwaysSound == TimeSpec => []TimeoutsSound
<1>1. TimeInit => TimeoutsSound
  <2> SUFFICES ASSUME TimeInit PROVE TimeoutsSound
    OBVIOUS
  <2>1. /\ until.sec \in Nat /\ until.nsec \in 0 .. MsPerSec * NsPerMs - 1 /\ until.nsec \in Nat
        /\ now \in Nat
    BY TimeAssumption DEF TimeInit
  <2> QED
    BY <2>1, WaitsInTime, DelaysInTime DEF TimeoutsSound
<1>2. TimeoutsSound /\ [FALSE]_<<until, now>> => TimeoutsSound'
  BY DEF TimeoutsSound, WaitInTime, DelayInTime, relmillisecs, delay
<1> QED
  BY <1>1, <1>2, PTL DEF TimeSpec

-----------------------------------------------------------------------------
(* Attribute objects and what is made from them *)

InRange == sched_get_priority_min .. sched_get_priority_max

\* The level of Windows for a priority.
LevelOf(p) ==
  IF IDLE < p /\ p < LOWEST THEN LOWEST ELSE IF HIGHEST < p /\ p < TIME_CRITICAL THEN HIGHEST ELSE p

\* A thread is at the level of its priority, which is in range.
Placed(thread) == thread.priority \in InRange /\ thread.level = LevelOf(thread.priority)

AttrType ==
  /\ family \in Families
  /\ attr \in Attributes(family) \cup {NoAttr}
  /\ family = "thread" /\ attr # NoAttr => attr.priority \in InRange
  /\ object \in Objects(family) \cup {NoObject}
  /\ creator \in [priority : Int, level : Int] /\ Placed(creator)

\* What was told of each object is all there is to it.
ToldAll ==
  object # NoObject =>
    CASE family = "thread" ->
           /\ Placed(object)
           /\ told = [stacksize |-> object.stacksize, detachstate |-> object.detachstate,
                      priority |-> object.priority]
      [] family = "mutex" -> AsTold
      [] OTHER -> told = [pshared |-> FALSE]

AttrInv == AttrType /\ ToldAll

LEMMA AttrStart == AttrInit => AttrInv
  BY AttrAssumption
  DEF AttrInit, AttrInv, AttrType, ToldAll, Placed, LevelOf, InRange, IDLE, LOWEST, NORMAL,
      HIGHEST, TIME_CRITICAL, sched_get_priority_min, sched_get_priority_max

\* A step that makes, changes or ends an attribute object of family f.
LEMMA AttrKept ==
  ASSUME AttrInv, UNCHANGED <<family, object, told, creator>>,
         attr' \in Attributes(family) \cup {NoAttr},
         family = "thread" /\ attr' # NoAttr => attr'.priority \in InRange
  PROVE  AttrInv'
  BY DEF AttrInv, AttrType, ToldAll, AsTold, Placed, InRange, Attributes, Objects,
         pthread_getschedparam, sched_get_priority_min, sched_get_priority_max

LEMMA AttrStays ==
  ASSUME AttrInv, UNCHANGED <<family, object, told, creator>>,
         attr' \in Attributes(family),
         family = "thread" => attr'.priority \in InRange
  PROVE  AttrInv' /\ attr' # NoAttr
<1>1. AttrInv'
  BY AttrKept
<1>2. attr' # NoAttr
  BY AttrAssumption DEF AttrInv, AttrType
<1> QED
  BY <1>1, <1>2

LEMMA NewKept ==
  ASSUME AttrInv,
         attr_init \/ mutexattr_init \/ condattr_init \/ barrierattr_init \/ rwlockattr_init
  PROVE  AttrInv' /\ attr' # NoAttr
<1>1. UNCHANGED <<family, object, told, creator>>
  BY DEF attr_init, mutexattr_init, condattr_init, barrierattr_init, rwlockattr_init, New
<1>2. CASE attr_init
  <2>1. family = "thread" /\ attr' = [stacksize |-> 0, stackaddr |-> 0,
          detachstate |-> "joinable", priority |-> NORMAL, inheritsched |-> "explicit"]
    BY <1>2 DEF attr_init, New
  <2>2. attr' \in Attributes(family) /\ attr'.priority \in InRange
    BY <2>1 DEF Attributes, InRange, NORMAL, IDLE, TIME_CRITICAL, sched_get_priority_min,
                sched_get_priority_max
  <2> QED
    BY <1>1, <2>2, AttrStays
<1>3. CASE mutexattr_init
  <2>1. family = "mutex" /\ attr' = [pshared |-> FALSE, kind |-> 0, robustness |-> "stalled"]
    BY <1>3 DEF mutexattr_init, New
  <2>2. attr' \in Attributes(family)
    BY <2>1 DEF Attributes, Kinds, Shared
  <2> QED
    BY <1>1, <2>1, <2>2, AttrStays
<1>4. CASE condattr_init \/ barrierattr_init \/ rwlockattr_init
  <2>1. family \in {"cond", "barrier", "rwlock"} /\ attr' = [pshared |-> FALSE]
    BY <1>4 DEF condattr_init, barrierattr_init, rwlockattr_init, New
  <2>2. attr' \in Attributes(family)
    BY <2>1 DEF Attributes, Shared
  <2> QED
    BY <1>1, <2>1, <2>2, AttrStays
<1> QED
  BY <1>2, <1>3, <1>4

LEMMA DropKept ==
  ASSUME AttrInv,
         attr_destroy \/ mutexattr_destroy \/ condattr_destroy \/ barrierattr_destroy
           \/ rwlockattr_destroy
  PROVE  AttrInv'
<1>1. UNCHANGED <<family, object, told, creator>> /\ attr' = NoAttr
  BY DEF attr_destroy, mutexattr_destroy, condattr_destroy, barrierattr_destroy,
         rwlockattr_destroy, Drop
<1> QED
  BY <1>1, AttrKept

\* What a program can set leaves an attribute object one of its family.
LEMMA SetKept ==
  ASSUME AttrInv,
         \/ attr_setstacksize \/ attr_setstackaddr \/ attr_setdetachstate
         \/ attr_setinheritsched \/ attr_setschedparam
         \/ mutexattr_settype \/ mutexattr_setrobust \/ mutexattr_setpshared
         \/ condattr_setpshared \/ barrierattr_setpshared \/ rwlockattr_setpshared
  PROVE  AttrInv' /\ attr' # NoAttr
<1>0. UNCHANGED <<family, object, told, creator>> /\ attr # NoAttr /\ attr \in Attributes(family)
  BY DEF attr_setstacksize, attr_setstackaddr, attr_setdetachstate, attr_setinheritsched,
         attr_setschedparam, mutexattr_settype, mutexattr_setrobust, mutexattr_setpshared,
         condattr_setpshared, barrierattr_setpshared, rwlockattr_setpshared, Set, is_attr,
         AttrInv, AttrType
<1>1. CASE \/ attr_setstacksize \/ attr_setstackaddr \/ attr_setdetachstate
           \/ attr_setinheritsched \/ attr_setschedparam
  <2>0. family = "thread" /\ attr.priority \in InRange
    BY <1>0, <1>1 DEF attr_setstacksize, attr_setstackaddr, attr_setdetachstate,
         attr_setinheritsched, attr_setschedparam, Set, is_attr, AttrInv, AttrType
  <2>t. attr \in [stacksize : Nat, stackaddr : {0, 1}, detachstate : {"joinable", "detached"},
                  priority : Int, inheritsched : {"inherit", "explicit"}]
    BY <1>0, <2>0 DEF Attributes
  <2>1. CASE attr_setstacksize
    <3>1. PICK n \in StackSizes : attr' = [attr EXCEPT !.stacksize = n]
      BY <2>1 DEF attr_setstacksize, Set
    <3>2. n \in Nat
      BY AttrAssumption
    <3>3. attr' \in Attributes("thread") /\ attr'.priority = attr.priority
      BY <3>1, <3>2, <2>t DEF Attributes
    <3> QED
      BY <1>0, <2>0, <3>3, AttrStays
  <2>2. CASE attr_setstackaddr
    <3>1. PICK a \in {0, 1} : attr' = [attr EXCEPT !.stackaddr = a]
      BY <2>2 DEF attr_setstackaddr, Set
    <3>3. attr' \in Attributes("thread") /\ attr'.priority = attr.priority
      BY <3>1, <2>t DEF Attributes
    <3> QED
      BY <1>0, <2>0, <3>3, AttrStays
  <2>3. CASE attr_setdetachstate
    <3>1. PICK d \in {"joinable", "detached"} : attr' = [attr EXCEPT !.detachstate = d]
      BY <2>3 DEF attr_setdetachstate, Set
    <3>3. attr' \in Attributes("thread") /\ attr'.priority = attr.priority
      BY <3>1, <2>t DEF Attributes
    <3> QED
      BY <1>0, <2>0, <3>3, AttrStays
  <2>4. CASE attr_setinheritsched
    <3>1. PICK i \in {"inherit", "explicit"} : attr' = [attr EXCEPT !.inheritsched = i]
      BY <2>4 DEF attr_setinheritsched, Set
    <3>3. attr' \in Attributes("thread") /\ attr'.priority = attr.priority
      BY <3>1, <2>t DEF Attributes
    <3> QED
      BY <1>0, <2>0, <3>3, AttrStays
  <2>5. CASE attr_setschedparam
    <3>1. PICK p \in InRange : attr' = [attr EXCEPT !.priority = p]
      BY <2>5 DEF attr_setschedparam, Set, InRange
    <3>2. p \in Int
      BY DEF InRange, IDLE, TIME_CRITICAL, sched_get_priority_min, sched_get_priority_max
    <3>3. attr' \in Attributes("thread") /\ attr'.priority = p
      BY <3>1, <3>2, <2>t DEF Attributes
    <3> QED
      BY <1>0, <2>0, <3>3, AttrStays
  <2> QED
    BY <1>1, <2>1, <2>2, <2>3, <2>4, <2>5
<1>2. CASE mutexattr_settype \/ mutexattr_setrobust \/ mutexattr_setpshared
  <2>0. family = "mutex"
    BY <1>2 DEF mutexattr_settype, mutexattr_setrobust, mutexattr_setpshared, Set, is_attr
  <2>t. attr \in [pshared : Shared, kind : Kinds, robustness : {"stalled", "robust"}]
    BY <1>0, <2>0 DEF Attributes
  <2>1. attr' \in [pshared : Shared, kind : Kinds, robustness : {"stalled", "robust"}]
    <3>1. CASE mutexattr_settype
      BY <3>1, <2>t DEF mutexattr_settype, Set
    <3>2. CASE mutexattr_setrobust
      BY <3>2, <2>t DEF mutexattr_setrobust, Set
    <3>3. CASE mutexattr_setpshared
      BY <3>3, <2>t DEF mutexattr_setpshared, Set
    <3> QED
      BY <1>2, <3>1, <3>2, <3>3
  <2>2. attr' \in Attributes(family)
    BY <2>0, <2>1 DEF Attributes
  <2> QED
    BY <1>0, <2>0, <2>2, AttrStays
<1>3. CASE condattr_setpshared \/ barrierattr_setpshared \/ rwlockattr_setpshared
  <2>0. family \in {"cond", "barrier", "rwlock"}
    BY <1>3 DEF condattr_setpshared, barrierattr_setpshared, rwlockattr_setpshared, Set, is_attr
  <2>t. attr \in [pshared : Shared]
    BY <1>0, <2>0 DEF Attributes
  <2>1. PICK b \in Shared : attr' = [attr EXCEPT !.pshared = b]
    BY <1>3 DEF condattr_setpshared, barrierattr_setpshared, rwlockattr_setpshared, Set
  <2>2. attr' \in Attributes(family)
    BY <2>0, <2>1, <2>t DEF Attributes
  <2> QED
    BY <1>0, <2>0, <2>2, AttrStays
<1> QED
  BY <1>1, <1>2, <1>3

\* A thread whose priority is set is placed by it.
LEMMA PriorityPlaces ==
  ASSUME NEW thread, NEW p \in InRange,
         thread \in [priority : Int, level : Int] \/ thread \in Objects("thread")
  PROVE  /\ Placed(setthreadpriority(thread, p))
         /\ setthreadpriority(thread, p).priority = p
         /\ thread \in [priority : Int, level : Int] =>
              setthreadpriority(thread, p) \in [priority : Int, level : Int]
         /\ thread \in Objects("thread") =>
              /\ setthreadpriority(thread, p) \in Objects("thread")
              /\ setthreadpriority(thread, p).stacksize = thread.stacksize
              /\ setthreadpriority(thread, p).detachstate = thread.detachstate
<1>1. p \in Int /\ LevelOf(p) \in Int
  BY DEF InRange, LevelOf, IDLE, LOWEST, HIGHEST, TIME_CRITICAL, sched_get_priority_min,
         sched_get_priority_max
<1>2. setthreadpriority(thread, p) = [thread EXCEPT !.priority = p, !.level = LevelOf(p)]
  BY DEF setthreadpriority, LevelOf
<1> DEFINE new == [thread EXCEPT !.priority = p, !.level = LevelOf(p)]
<1>3. new.priority = p /\ new.level = LevelOf(p)
  <2>1. CASE thread \in [priority : Int, level : Int]
    BY <2>1
  <2>2. CASE thread \in Objects("thread")
    BY <2>2 DEF Objects
  <2> QED
    BY <2>1, <2>2
<1>4. thread \in [priority : Int, level : Int] => new \in [priority : Int, level : Int]
  BY <1>1
<1>5. thread \in Objects("thread") =>
        /\ new \in Objects("thread")
        /\ new.stacksize = thread.stacksize /\ new.detachstate = thread.detachstate
  BY <1>1 DEF Objects
<1> QED
  BY <1>2, <1>3, <1>4, <1>5 DEF Placed

\* What the constructor of a family makes is as it tells.
LEMMA ThreadResult ==
  ASSUME AttrInv, pthread_create
  PROVE  \E n \in Allocations, result \in Objects("thread") :
           /\ Creates("thread", ThreadMade(n), result)
           /\ Placed(result)
           /\ Told = [stacksize |-> result.stacksize, detachstate |-> result.detachstate,
                      priority |-> result.priority]
<1> DEFINE default == [stacksize |-> 0, detachstate |-> "joinable", priority |-> NORMAL,
                       level |-> NORMAL]
           given == [default EXCEPT !.stacksize = attr.stacksize,
                                    !.detachstate = attr.detachstate]
           result == IF attr = NoAttr THEN default ELSE setthreadpriority(given, StartPriority)
<1>1. PICK n \in Allocations : Creates("thread", ThreadMade(n), result)
  BY DEF pthread_create
<1>2. family = "thread" /\ UNCHANGED <<family, attr, creator>>
  BY <1>1 DEF Creates
<1>3. result \in Objects("thread") /\ Placed(result)
      /\ Told = [stacksize |-> result.stacksize, detachstate |-> result.detachstate,
                 priority |-> result.priority]
  <2>1. CASE attr = NoAttr
    <3>1. result = default
      BY <2>1
    <3>2. default \in Objects("thread") /\ Placed(default)
      BY DEF Objects, Placed, LevelOf, InRange, IDLE, LOWEST, NORMAL, HIGHEST, TIME_CRITICAL,
             sched_get_priority_min, sched_get_priority_max
    <3>3. Told = [stacksize |-> 0, detachstate |-> "joinable", priority |-> NORMAL]
      BY <1>2, <2>1 DEF Told
    <3> QED
      BY <3>1, <3>2, <3>3
  <2>2. CASE attr # NoAttr
    <3>1. attr \in [stacksize : Nat, stackaddr : {0, 1}, detachstate : {"joinable", "detached"},
                    priority : Int, inheritsched : {"inherit", "explicit"}]
          /\ attr.priority \in InRange /\ creator.priority \in InRange
      BY <1>2, <2>2 DEF AttrInv, AttrType, Attributes, Placed
    <3>2. given \in Objects("thread") /\ given.stacksize = attr.stacksize
          /\ given.detachstate = attr.detachstate
      <4>1. default \in Objects("thread")
        BY DEF Objects, NORMAL
      <4>2. attr.stacksize \in Nat /\ attr.detachstate \in {"joinable", "detached"}
        BY <3>1
      <4> HIDE DEF default
      <4> QED
        BY <4>1, <4>2 DEF Objects
    <3>3. StartPriority \in InRange
      BY <3>1 DEF StartPriority
    <3>4. Told = [stacksize |-> attr.stacksize, detachstate |-> attr.detachstate,
                  priority |-> StartPriority]
      BY <1>2, <2>2 DEF Told, StartPriority, attr_getstacksize, attr_getdetachstate,
         attr_getinheritsched, attr_getschedparam, pthread_getschedparam
    <3>5. result = setthreadpriority(given, StartPriority)
      BY <2>2
    <3> HIDE DEF given, result
    <3>6. Placed(result) /\ result.priority = StartPriority /\ result \in Objects("thread")
          /\ result.stacksize = given.stacksize /\ result.detachstate = given.detachstate
      BY <3>2, <3>3, <3>5, PriorityPlaces
    <3> QED
      BY <3>2, <3>4, <3>6
  <2> QED
    BY <2>1, <2>2
<1> HIDE DEF result
<1> QED
  BY <1>1, <1>3

LEMMA ThreadCreated ==
  ASSUME AttrInv, pthread_create
  PROVE  AttrInv'
<1>1. PICK n \in Allocations, result \in Objects("thread") :
        /\ Creates("thread", ThreadMade(n), result)
        /\ Placed(result)
        /\ Told = [stacksize |-> result.stacksize, detachstate |-> result.detachstate,
                   priority |-> result.priority]
  BY ThreadResult
<1>2. family = "thread" /\ UNCHANGED <<family, attr, creator>>
  BY <1>1 DEF Creates
<1>4. CASE ThreadMade(n).ok
  <2>1. object' = result /\ told' = Told
    BY <1>1, <1>4 DEF Creates
  <2>2. AttrType'
    BY <1>1, <1>2, <2>1 DEF AttrInv, AttrType, Placed, InRange, sched_get_priority_min,
       sched_get_priority_max
  <2>3. ToldAll'
    BY <1>1, <1>2, <2>1 DEF ToldAll, Placed, InRange, sched_get_priority_min, sched_get_priority_max
  <2> QED
    BY <2>2, <2>3 DEF AttrInv
<1>5. CASE ~ThreadMade(n).ok
  <2>1. object' = NoObject
    BY <1>1, <1>5 DEF Creates
  <2> QED
    BY <1>2, <2>1 DEF AttrInv, AttrType, ToldAll, Placed, InRange, sched_get_priority_min,
       sched_get_priority_max
<1> QED
  BY <1>4, <1>5

LEMMA MutexCreated ==
  ASSUME AttrInv, pthread_mutex_init
  PROVE  AttrInv'
<1> DEFINE kind == IF attr = NoAttr THEN 0
                   ELSE IF attr.robustness = "robust" THEN Encoded(attr.kind) ELSE attr.kind
<1>1. PICK n \in Allocations : Creates("mutex", MutexMade(n, kind), [kind |-> kind])
  BY DEF pthread_mutex_init
<1>2. family = "mutex" /\ UNCHANGED <<family, attr, creator>> /\ (attr # NoAttr => ~attr.pshared)
  BY <1>1 DEF Creates, pthread_mutex_init
<1>3. attr # NoAttr => attr \in [pshared : BOOLEAN, kind : 0 .. 2,
                                  robustness : {"stalled", "robust"}]
  BY <1>2 DEF AttrInv, AttrType, Attributes, Shared, Kinds
<1>4. kind \in Int
      /\ Told = [kind |-> IF kind < 0 THEN -kind - 1 ELSE kind,
                 robustness |-> IF kind < 0 THEN "robust" ELSE "stalled", pshared |-> FALSE]
  <2>1. CASE attr = NoAttr
    BY <1>2, <2>1 DEF Told
  <2>2. CASE attr # NoAttr
    <3>1. Told = [kind |-> attr.kind, robustness |-> attr.robustness, pshared |-> attr.pshared]
      BY <1>2, <2>2 DEF Told, mutexattr_gettype, mutexattr_getrobust, mutexattr_getpshared
    <3>2. attr.kind \in 0 .. 2 /\ attr.robustness \in {"stalled", "robust"} /\ attr.pshared = FALSE
      BY <1>2, <1>3, <2>2
    <3>3. kind = IF attr.robustness = "robust" THEN -attr.kind - 1 ELSE attr.kind
      BY <2>2 DEF Encoded
    <3>4. CASE attr.robustness = "robust"
      <4>1. kind = -attr.kind - 1
        BY <3>3, <3>4
      <4>2. kind \in Int /\ kind < 0 /\ -kind - 1 = attr.kind
        BY <3>2, <4>1
      <4> QED
        BY <3>1, <3>2, <3>4, <4>2
    <3>5. CASE attr.robustness = "stalled"
      <4>1. kind = attr.kind
        BY <3>3, <3>5
      <4>2. kind \in Int /\ ~(kind < 0)
        BY <3>2, <4>1
      <4> QED
        BY <3>1, <3>2, <3>5, <4>1, <4>2
    <3> QED
      BY <3>2, <3>4, <3>5
  <2> QED
    BY <2>1, <2>2
<1> HIDE DEF kind
<1>5. CASE MutexMade(n, kind).ok
  <2>1. object' = [kind |-> kind] /\ told' = Told
    BY <1>1, <1>5 DEF Creates
  <2>2. object' \in Objects(family) /\ object'.kind = kind
    BY <1>2, <1>4, <2>1 DEF Objects
  <2>3. AttrType'
    BY <1>2, <2>2 DEF AttrInv, AttrType, Placed, InRange, sched_get_priority_min,
       sched_get_priority_max
  <2>4. ToldAll'
    BY <1>2, <1>4, <2>1, <2>2 DEF ToldAll, AsTold
  <2> QED
    BY <2>3, <2>4 DEF AttrInv
<1>6. CASE ~MutexMade(n, kind).ok
  <2>1. object' = NoObject
    BY <1>1, <1>6 DEF Creates
  <2> QED
    BY <1>2, <2>1 DEF AttrInv, AttrType, ToldAll, Placed, InRange, sched_get_priority_min,
       sched_get_priority_max
<1> QED
  BY <1>5, <1>6

LEMMA SharedRefused ==
  ASSUME AttrInv, pthread_cond_init \/ pthread_barrier_init \/ pthread_rwlock_init
  PROVE  AttrInv'
<1>1. PICK made : /\ family \in {"cond", "barrier", "rwlock"}
                  /\ Creates(family, made, [pshared |-> FALSE])
                  /\ (attr # NoAttr => ~attr.pshared /\ family # "rwlock")
  BY DEF pthread_cond_init, pthread_barrier_init, pthread_rwlock_init, Creates
<1>2. UNCHANGED <<family, attr, creator>>
  BY <1>1 DEF Creates
<1>3. CASE made.ok
  <2>1. object' = [pshared |-> FALSE] /\ told' = Told
    BY <1>1, <1>3 DEF Creates
  <2>2. attr # NoAttr => attr.pshared = FALSE
    BY <1>1 DEF AttrInv, AttrType, Attributes, Shared
  <2>3. Told = [pshared |-> FALSE]
    BY <1>1, <2>2 DEF Told, condattr_getpshared, barrierattr_getpshared, rwlockattr_getpshared
  <2>4. object' \in Objects(family)
    BY <1>1, <2>1 DEF Objects, Shared
  <2> QED
    BY <1>1, <1>2, <2>1, <2>3, <2>4 DEF AttrInv, AttrType, ToldAll, Placed, InRange,
       sched_get_priority_min, sched_get_priority_max
<1>4. CASE ~made.ok
  <2>1. object' = NoObject
    BY <1>1, <1>4 DEF Creates
  <2> QED
    BY <1>2, <2>1 DEF AttrInv, AttrType, ToldAll, Placed, InRange, sched_get_priority_min,
       sched_get_priority_max
<1> QED
  BY <1>3, <1>4

LEMMA PrioritySet ==
  ASSUME AttrInv, pthread_setschedparam
  PROVE  AttrInv'
<1>1. PICK p \in InRange :
        /\ family = "thread"
        /\ \/ creator' = setthreadpriority(creator, p) /\ UNCHANGED <<object, told>>
           \/ /\ object # NoObject
              /\ object' = setthreadpriority(object, p)
              /\ told' = [told EXCEPT !.priority = p]
              /\ UNCHANGED creator
        /\ UNCHANGED <<family, attr, heap>>
  BY DEF pthread_setschedparam, InRange
<1>2. CASE creator' = setthreadpriority(creator, p) /\ UNCHANGED <<object, told>>
  <2>1. creator' \in [priority : Int, level : Int] /\ Placed(creator)'
    BY <1>2, PriorityPlaces DEF AttrInv, AttrType, Placed
  <2> QED
    BY <1>1, <1>2, <2>1 DEF AttrInv, AttrType, ToldAll, Placed, InRange, sched_get_priority_min,
       sched_get_priority_max
<1>3. CASE /\ object # NoObject /\ object' = setthreadpriority(object, p)
           /\ told' = [told EXCEPT !.priority = p] /\ UNCHANGED creator
  <2>1. object \in Objects("thread")
        /\ told = [stacksize |-> object.stacksize, detachstate |-> object.detachstate,
                   priority |-> object.priority]
    BY <1>1, <1>3 DEF AttrInv, AttrType, ToldAll
  <2>2. /\ object' \in Objects("thread") /\ Placed(object)' /\ object'.priority = p
        /\ object'.stacksize = object.stacksize /\ object'.detachstate = object.detachstate
    BY <1>3, <2>1, PriorityPlaces DEF Placed
  <2>3. told' = [stacksize |-> object.stacksize, detachstate |-> object.detachstate,
                 priority |-> p]
    BY <1>3, <2>1
  <2>4. AttrType'
    BY <1>1, <1>3, <2>2 DEF AttrInv, AttrType, Placed, InRange, sched_get_priority_min,
       sched_get_priority_max
  <2>5. ToldAll'
    BY <1>1, <2>2, <2>3 DEF ToldAll
  <2> QED
    BY <2>4, <2>5 DEF AttrInv
<1> QED
  BY <1>1, <1>2, <1>3

LEMMA ReleaseKept ==
  ASSUME AttrInv, Release
  PROVE  AttrInv'
  BY DEF Release, AttrInv, AttrType, ToldAll, Placed, InRange, sched_get_priority_min,
     sched_get_priority_max

LEMMA AttrStep == AttrInv /\ [AttrNext]_attrVars => AttrInv'
<1> SUFFICES ASSUME AttrInv, [AttrNext]_attrVars PROVE AttrInv'
  OBVIOUS
<1>1. CASE UNCHANGED attrVars
  BY <1>1, AttrKept DEF attrVars, AttrInv, AttrType
<1> QED
  BY <1>1, NewKept, DropKept, SetKept, ThreadCreated, MutexCreated, SharedRefused, PrioritySet,
     ReleaseKept DEF AttrNext

LEMMA AttrInvHolds == AttrSpec => []AttrInv
  BY AttrStart, AttrStep, PTL DEF AttrSpec

\* The levels of Windows keep the order of the priorities.
LEMMA LevelsMonotone ==
  ASSUME NEW p \in InRange, NEW q \in InRange
  PROVE  /\ p <= q => LevelOf(p) <= LevelOf(q)
         /\ LevelOf(p) \in {IDLE, TIME_CRITICAL} \cup (LOWEST .. HIGHEST)
  BY DEF LevelOf, InRange, IDLE, LOWEST, HIGHEST, TIME_CRITICAL, sched_get_priority_min,
     sched_get_priority_max

\* What was created is what the getters said of its attributes, for any
\* priorities, stack sizes and failing allocations: type and robustness of a
\* mutex survive their encoding, a thread has the priority it was told, and
\* levels keep the order of priorities.
THEOREM AlwaysAsTold == AttrSpec => []CreatedAsTold
<1>1. AttrInv => CreatedAsTold
  <2> SUFFICES ASSUME AttrInv PROVE CreatedAsTold
    OBVIOUS
  <2>1. AsTold
    <3>1. family \in {"thread", "mutex", "cond", "barrier", "rwlock"}
      BY AttrAssumption DEF AttrInv, AttrType
    <3> QED
      BY <3>1 DEF AttrInv, ToldAll, AsTold, pthread_getschedparam
  <2>2. LevelsOrdered
    <3> SUFFICES ASSUME family = "thread", object # NoObject
                 PROVE  /\ object.priority <= creator.priority => object.level <= creator.level
                        /\ creator.priority <= object.priority => creator.level <= object.level
                        /\ {object.level, creator.level} \subseteq
                             {IDLE, TIME_CRITICAL} \cup (LOWEST .. HIGHEST)
      BY DEF LevelsOrdered
    <3>1. Placed(object) /\ Placed(creator)
      BY DEF AttrInv, AttrType, ToldAll
    <3>2. /\ object.priority \in InRange /\ object.level = LevelOf(object.priority)
          /\ creator.priority \in InRange /\ creator.level = LevelOf(creator.priority)
      BY <3>1 DEF Placed
    <3> QED
      BY <3>2, LevelsMonotone
  <2> QED
    BY <2>1, <2>2 DEF CreatedAsTold
<1> QED
  BY <1>1, AttrInvHolds, PTL

-----------------------------------------------------------------------------
(* What is allocated *)

Blocks ==
  IF object = NoObject THEN 0
  ELSE CASE family = "thread" -> ThreadBlocks
         [] family = "mutex" -> MutexBlocks(object.kind)
         [] family = "cond" -> CondBlocks
         [] family = "barrier" -> BarrierBlocks
         [] family = "rwlock" -> RwlockBlocks

AllCounted == heap = (IF attr = NoAttr THEN 0 ELSE 1) + Blocks

\* A constructor that fails has undone all it did, at whatever allocation.
LEMMA MutexUndoes ==
  ASSUME NEW n \in Int
  PROVE  MutexMade(n, 0) = IF n >= 2 THEN Made(2) ELSE Failed(0)
  BY DEF MutexMade, MutexBlocks

LEMMA SemUndoes ==
  ASSUME NEW n \in Int
  PROVE  SemMade(n) = IF n >= 4 THEN Made(4) ELSE Failed(0)
<1> DEFINE m == MutexMade(n - 1, 0)
<1>1. m = IF n - 1 >= 2 THEN Made(2) ELSE Failed(0)
  BY MutexUndoes
<1>2. SemMade(n) = IF n <= 0 THEN Failed(0)
                   ELSE IF ~m.ok THEN Failed(m.kept)
                   ELSE IF n < 4 THEN Failed(1 + m.kept - 2 - 1)
                   ELSE Made(4)
  BY DEF SemMade, SemBlocks, MutexBlocks
<1>3. CASE n - 1 >= 2
  <2>1. m.ok /\ m.kept = 2
    BY <1>1, <1>3 DEF Made
  <2> QED
    BY <1>2, <1>3, <2>1
<1>4. CASE ~(n - 1 >= 2)
  <2>1. ~m.ok /\ m.kept = 0
    BY <1>1, <1>4 DEF Failed
  <2> QED
    BY <1>2, <1>4, <2>1
<1> QED
  BY <1>3, <1>4

LEMMA CondUndoes ==
  ASSUME NEW n \in Int
  PROVE  CondMade(n) = IF n >= 11 THEN Made(11) ELSE Failed(0)
<1> DEFINE s1 == SemMade(n - 1)
           s2 == SemMade(n - 1 - 4)
           m == MutexMade(n - 1 - 8, 0)
<1>1. /\ s1 = IF n - 1 >= 4 THEN Made(4) ELSE Failed(0)
      /\ s2 = IF n - 5 >= 4 THEN Made(4) ELSE Failed(0)
      /\ m = IF n - 9 >= 2 THEN Made(2) ELSE Failed(0)
  <2>1. n - 1 \in Int /\ n - 1 - 4 \in Int /\ n - 1 - 8 \in Int
    OBVIOUS
  <2>2. n - 1 - 4 = n - 5 /\ n - 1 - 8 = n - 9
    OBVIOUS
  <2> QED
    BY <2>1, <2>2, SemUndoes, MutexUndoes
<1>2. CondMade(n) = IF n <= 0 THEN Failed(0)
                    ELSE IF ~s1.ok THEN Failed(1 + s1.kept - 1)
                    ELSE IF ~s2.ok THEN Failed(1 + s1.kept + s2.kept - 4 - 1)
                    ELSE IF ~m.ok THEN Failed(1 + s1.kept + s2.kept + m.kept - 8 - 1)
                    ELSE Made(11)
  BY DEF CondMade, CondBlocks, SemBlocks, MutexBlocks
<1>3. (n - 1 >= 4 => s1.ok /\ s1.kept = 4) /\ (~(n - 1 >= 4) => ~s1.ok /\ s1.kept = 0)
  BY <1>1 DEF Made, Failed
<1>4. (n - 5 >= 4 => s2.ok /\ s2.kept = 4) /\ (~(n - 5 >= 4) => ~s2.ok /\ s2.kept = 0)
  BY <1>1 DEF Made, Failed
<1>5. (n - 9 >= 2 => m.ok /\ m.kept = 2) /\ (~(n - 9 >= 2) => ~m.ok /\ m.kept = 0)
  BY <1>1 DEF Made, Failed
<1> HIDE DEF s1, s2, m
<1> QED
  BY <1>2, <1>3, <1>4, <1>5

LEMMA RwlockUndoes ==
  ASSUME NEW n \in Nat
  PROVE  RwlockMade(n) = IF n >= 16 THEN Made(16) ELSE Failed(0)
<1> DEFINE m1 == MutexMade(n - 1, 0)
           m2 == MutexMade(n - 1 - 2, 0)
           c == CondMade(n - 1 - 4)
<1>1. /\ m1 = IF n - 1 >= 2 THEN Made(2) ELSE Failed(0)
      /\ m2 = IF n - 3 >= 2 THEN Made(2) ELSE Failed(0)
      /\ c = IF n - 5 >= 11 THEN Made(11) ELSE Failed(0)
  <2>1. n - 1 \in Int /\ n - 1 - 2 \in Int /\ n - 1 - 4 \in Int
    OBVIOUS
  <2>2. n - 1 - 2 = n - 3 /\ n - 1 - 4 = n - 5
    OBVIOUS
  <2> QED
    BY <2>1, <2>2, CondUndoes, MutexUndoes
<1>2. RwlockMade(n) = IF n = 0 THEN Failed(0)
                      ELSE IF ~m1.ok THEN Failed(1 + m1.kept - 1)
                      ELSE IF ~m2.ok THEN Failed(1 + m1.kept + m2.kept - 2 - 1)
                      ELSE IF ~c.ok THEN Failed(1 + m1.kept + m2.kept + c.kept - 4 - 1)
                      ELSE Made(16)
  BY DEF RwlockMade, RwlockBlocks, CondBlocks, SemBlocks, MutexBlocks
<1>3. (n - 1 >= 2 => m1.ok /\ m1.kept = 2) /\ (~(n - 1 >= 2) => ~m1.ok /\ m1.kept = 0)
  BY <1>1 DEF Made, Failed
<1>4. (n - 3 >= 2 => m2.ok /\ m2.kept = 2) /\ (~(n - 3 >= 2) => ~m2.ok /\ m2.kept = 0)
  BY <1>1 DEF Made, Failed
<1>5. (n - 5 >= 11 => c.ok /\ c.kept = 11) /\ (~(n - 5 >= 11) => ~c.ok /\ c.kept = 0)
  BY <1>1 DEF Made, Failed
<1> HIDE DEF m1, m2, c
<1> QED
  BY <1>2, <1>3, <1>4, <1>5

LEMMA BarrierUndoes ==
  ASSUME NEW n \in Nat
  PROVE  BarrierMade(n) = IF n >= 5 THEN Made(5) ELSE Failed(0)
<1> DEFINE made == SemMade(n - 1)
<1>1. made = IF n - 1 >= 4 THEN Made(4) ELSE Failed(0)
  BY SemUndoes
<1>2. BarrierMade(n) = IF n = 0 THEN Failed(0)
                       ELSE IF ~made.ok THEN Failed(1 + made.kept - 1) ELSE Made(5)
  BY DEF BarrierMade, BarrierBlocks, SemBlocks, MutexBlocks
<1>3. (n - 1 >= 4 => made.ok /\ made.kept = 4) /\ (~(n - 1 >= 4) => ~made.ok /\ made.kept = 0)
  BY <1>1 DEF Made, Failed
<1> HIDE DEF made
<1> QED
  BY <1>2, <1>3

LEMMA ThreadUndoes ==
  ASSUME NEW n \in Nat
  PROVE  ThreadMade(n) = IF n >= 3 THEN Made(2) ELSE Failed(0)
  BY DEF ThreadMade

\* A creation leaves what its destructor gives back, or nothing.
LEMMA CreationCounted ==
  ASSUME AttrInv, AllCounted, NEW f, NEW made, NEW result, Creates(f, made, result),
         NEW blocks \in Nat, made = Made(blocks) \/ made = Failed(0),
         result \in Objects(f),
         f = "thread" => blocks = ThreadBlocks,
         f = "mutex" => blocks = MutexBlocks(result.kind),
         f = "cond" => blocks = CondBlocks,
         f = "barrier" => blocks = BarrierBlocks,
         f = "rwlock" => blocks = RwlockBlocks
  PROVE  AllCounted'
<1>1. family = f /\ object = NoObject /\ UNCHANGED <<family, attr>> /\ heap' = heap + made.kept
      /\ object' = IF made.ok THEN result ELSE NoObject
  BY DEF Creates
<1>2. heap = IF attr = NoAttr THEN 0 ELSE 1
  BY <1>1 DEF AllCounted, Blocks
<1>3. f \in {"thread", "mutex", "cond", "barrier", "rwlock"} /\ NoObject \notin Objects(f)
  BY <1>1, AttrAssumption DEF AttrInv, AttrType
<1>4. CASE made = Made(blocks)
  <2>1. object' = result /\ heap' = heap + blocks
    BY <1>1, <1>4 DEF Made
  <2>2. object' # NoObject
    BY <1>3, <2>1
  <2>3. Blocks' = blocks
    BY <1>1, <1>3, <2>1, <2>2 DEF Blocks
  <2> QED
    BY <1>1, <1>2, <2>1, <2>3 DEF AllCounted
<1>5. CASE made = Failed(0)
  <2>1. object' = NoObject /\ heap' = heap
    BY <1>1, <1>2, <1>5 DEF Failed
  <2> QED
    BY <1>1, <1>2, <2>1 DEF AllCounted, Blocks
<1> QED
  BY <1>4, <1>5

LEMMA ObjectMade ==
  ASSUME ~EventFails, AttrInv, AllCounted,
         pthread_create \/ pthread_mutex_init \/ pthread_cond_init
           \/ pthread_barrier_init \/ pthread_rwlock_init
  PROVE  AllCounted'
<1>0. Allocations \subseteq Nat
  BY DEF Allocations
<1>1. CASE pthread_create
  <2>1. PICK n \in Allocations, result \in Objects("thread") :
          Creates("thread", ThreadMade(n), result)
    BY <1>1, ThreadResult
  <2>2. ThreadBlocks = 2 /\ (ThreadMade(n) = Made(2) \/ ThreadMade(n) = Failed(0))
    BY <1>0, ThreadUndoes DEF ThreadBlocks
  <2> QED
    BY <2>1, <2>2, CreationCounted
<1>2. CASE pthread_mutex_init
  <2> DEFINE kind == IF attr = NoAttr THEN 0
                     ELSE IF attr.robustness = "robust" THEN Encoded(attr.kind) ELSE attr.kind
  <2>1. PICK n \in Allocations :
          /\ kind < 0 => n # 1 /\ (EventFails \/ n # 2)
          /\ Creates("mutex", MutexMade(n, kind), [kind |-> kind])
    BY <1>2 DEF pthread_mutex_init
  <2>2. kind \in Int
    <3>1. attr # NoAttr => attr \in [pshared : BOOLEAN, kind : 0 .. 2,
                                      robustness : {"stalled", "robust"}]
      BY <2>1 DEF Creates, AttrInv, AttrType, Attributes, Shared, Kinds
    <3>2. attr # NoAttr => attr.kind \in Int /\ -attr.kind - 1 \in Int
      BY <3>1
    <3> QED
      BY <3>2 DEF Encoded
  <2> HIDE DEF kind
  <2>3. n \in Nat /\ MutexBlocks(kind) \in Nat
    BY <1>0 DEF MutexBlocks
  <2>4. MutexMade(n, kind) = Made(MutexBlocks(kind)) \/ MutexMade(n, kind) = Failed(0)
    BY <2>1, <2>2, <2>3 DEF MutexMade, MutexBlocks
  <2>5. [kind |-> kind] \in Objects("mutex") /\ [kind |-> kind].kind = kind
    BY <2>2 DEF Objects
  <2> QED
    BY <2>1, <2>3, <2>4, <2>5, CreationCounted
<1>3. CASE pthread_cond_init
  <2>1. PICK n \in Allocations : Creates("cond", CondMade(n), [pshared |-> FALSE])
    BY <1>3 DEF pthread_cond_init
  <2>2. CondBlocks = 11
    BY DEF CondBlocks, SemBlocks, MutexBlocks
  <2>3. CondMade(n) = Made(11) \/ CondMade(n) = Failed(0)
    BY <1>0, CondUndoes
  <2>4. [pshared |-> FALSE] \in Objects("cond")
    BY DEF Objects, Shared
  <2> QED
    BY <2>1, <2>2, <2>3, <2>4, CreationCounted
<1>4. CASE pthread_barrier_init
  <2>1. PICK n \in Allocations : Creates("barrier", BarrierMade(n), [pshared |-> FALSE])
    BY <1>4 DEF pthread_barrier_init
  <2>2. BarrierBlocks = 5
    BY DEF BarrierBlocks, SemBlocks, MutexBlocks
  <2>3. BarrierMade(n) = Made(5) \/ BarrierMade(n) = Failed(0)
    BY <1>0, BarrierUndoes
  <2>4. [pshared |-> FALSE] \in Objects("barrier")
    BY DEF Objects, Shared
  <2> QED
    BY <2>1, <2>2, <2>3, <2>4, CreationCounted
<1>5. CASE pthread_rwlock_init
  <2>1. PICK n \in Allocations : Creates("rwlock", RwlockMade(n), [pshared |-> FALSE])
    BY <1>5 DEF pthread_rwlock_init
  <2>2. RwlockBlocks = 16
    BY DEF RwlockBlocks, CondBlocks, SemBlocks, MutexBlocks
  <2>3. RwlockMade(n) = Made(16) \/ RwlockMade(n) = Failed(0)
    BY <1>0, RwlockUndoes
  <2>4. [pshared |-> FALSE] \in Objects("rwlock")
    BY DEF Objects, Shared
  <2> QED
    BY <2>1, <2>2, <2>3, <2>4, CreationCounted
<1> QED
  BY <1>1, <1>2, <1>3, <1>4, <1>5

LEMMA BlocksCount ==
  ASSUME AttrInv
  PROVE  Blocks \in Nat
<1>1. family \in {"thread", "mutex", "cond", "barrier", "rwlock"}
  BY AttrAssumption DEF AttrInv, AttrType
<1>2. MutexBlocks(0) = 2 /\ MutexBlocks(object.kind) \in Nat
  BY DEF MutexBlocks
<1>3. SemBlocks = 4 /\ CondBlocks = 11 /\ RwlockBlocks = 16 /\ BarrierBlocks = 5
  BY <1>2 DEF SemBlocks, CondBlocks, RwlockBlocks, BarrierBlocks
<1> QED
  BY <1>1, <1>2, <1>3 DEF Blocks, ThreadBlocks

\* An object whose priority is set is still there.
LEMMA ObjectStays ==
  ASSUME AttrInv, pthread_setschedparam, object # NoObject
  PROVE  object' # NoObject
<1>1. PICK p \in InRange :
        family = "thread" /\ (object' = object \/ object' = setthreadpriority(object, p))
  BY DEF pthread_setschedparam, InRange
<1>2. object \in Objects("thread") /\ "thread" \in Families
  BY <1>1 DEF AttrInv, AttrType
<1>3. setthreadpriority(object, p) \in Objects("thread")
  BY <1>2, PriorityPlaces
<1> QED
  BY <1>1, <1>2, <1>3, AttrAssumption

LEMMA CountedStep ==
  ASSUME ~EventFails, AttrInv, AllCounted, [AttrNext]_attrVars
  PROVE  AllCounted'
<1>1. CASE UNCHANGED attrVars
  BY <1>1 DEF attrVars, AllCounted, Blocks
<1>2. CASE attr_init \/ mutexattr_init \/ condattr_init \/ barrierattr_init \/ rwlockattr_init
  <2>1. UNCHANGED <<family, object>> /\ attr = NoAttr /\ heap' = heap + 1
    BY <1>2 DEF attr_init, mutexattr_init, condattr_init, barrierattr_init, rwlockattr_init, New
  <2>2. attr' # NoAttr
    BY <1>2, NewKept
  <2>3. Blocks' = Blocks
    BY <2>1 DEF Blocks
  <2>4. Blocks \in Nat
    BY BlocksCount
  <2> QED
    BY <2>1, <2>2, <2>3, <2>4 DEF AllCounted
<1>3. CASE attr_destroy \/ mutexattr_destroy \/ condattr_destroy \/ barrierattr_destroy
           \/ rwlockattr_destroy
  <2>1. /\ UNCHANGED <<family, object>> /\ attr # NoAttr /\ heap' = heap - 1 /\ attr' = NoAttr
    BY <1>3 DEF attr_destroy, mutexattr_destroy, condattr_destroy, barrierattr_destroy,
         rwlockattr_destroy, Drop
  <2>3. Blocks' = Blocks
    BY <2>1 DEF Blocks
  <2>4. Blocks \in Nat
    BY BlocksCount
  <2> QED
    BY <2>1, <2>3, <2>4 DEF AllCounted
<1>4. CASE \/ attr_setstacksize \/ attr_setstackaddr \/ attr_setdetachstate
           \/ attr_setinheritsched \/ attr_setschedparam
           \/ mutexattr_settype \/ mutexattr_setrobust \/ mutexattr_setpshared
           \/ condattr_setpshared \/ barrierattr_setpshared \/ rwlockattr_setpshared
  <2>1. UNCHANGED <<family, object, heap>> /\ attr # NoAttr
    BY <1>4 DEF attr_setstacksize, attr_setstackaddr, attr_setdetachstate, attr_setinheritsched,
         attr_setschedparam, mutexattr_settype, mutexattr_setrobust, mutexattr_setpshared,
         condattr_setpshared, barrierattr_setpshared, rwlockattr_setpshared, Set, is_attr
  <2>2. attr' # NoAttr
    BY <1>4, SetKept
  <2>3. Blocks' = Blocks
    BY <2>1 DEF Blocks
  <2> QED
    BY <2>1, <2>2, <2>3 DEF AllCounted
<1>5. CASE pthread_create \/ pthread_mutex_init \/ pthread_cond_init
           \/ pthread_barrier_init \/ pthread_rwlock_init
  BY <1>5, ObjectMade
<1>6. CASE pthread_setschedparam
  <2>1. family = "thread" /\ UNCHANGED <<family, attr, heap>>
        /\ (object' = object \/ object # NoObject)
    BY <1>6 DEF pthread_setschedparam
  <2>2. object' \in Objects(family) \cup {NoObject}
    BY <1>6, <2>1, PrioritySet DEF AttrInv, AttrType
  <2>3. object # NoObject => object' # NoObject
    BY <1>6, <2>1, ObjectStays
  <2>4. Blocks' = Blocks
    BY <2>1, <2>3 DEF Blocks
  <2> QED
    BY <2>1, <2>4 DEF AllCounted
<1>7. CASE Release
  <2>1. object # NoObject /\ object' = NoObject /\ heap' = heap - Blocks
        /\ UNCHANGED <<family, attr>>
    <3>1. /\ object # NoObject /\ object' = NoObject /\ UNCHANGED <<family, attr>>
          /\ heap' = heap - CASE family = "thread" -> ThreadBlocks
                             [] family = "mutex" -> MutexBlocks(object.kind)
                             [] family = "cond" -> CondBlocks
                             [] family = "barrier" -> BarrierBlocks
                             [] family = "rwlock" -> RwlockBlocks
      BY <1>7 DEF Release
    <3>2. Blocks = CASE family = "thread" -> ThreadBlocks
                     [] family = "mutex" -> MutexBlocks(object.kind)
                     [] family = "cond" -> CondBlocks
                     [] family = "barrier" -> BarrierBlocks
                     [] family = "rwlock" -> RwlockBlocks
      BY <3>1 DEF Blocks
    <3> QED
      BY <3>1, <3>2
  <2>2. Blocks' = 0
    BY <2>1 DEF Blocks
  <2>3. Blocks \in Nat
    BY BlocksCount
  <2> QED
    BY <2>1, <2>2, <2>3 DEF AllCounted
<1> QED
  BY <1>1, <1>2, <1>3, <1>4, <1>5, <1>6, <1>7 DEF AttrNext

\* Nothing is left allocated when the attribute object and what was created are
\* gone, at whatever allocation creations failed; a robust mutex without an
\* event, whose node the code forgets, is left out.
THEOREM NeverLeaks == ~EventFails => (AttrSpec => []NothingLeaks)
<1> SUFFICES ASSUME ~EventFails PROVE AttrSpec => []NothingLeaks
  OBVIOUS
<1>1. AttrInit => AttrInv /\ AllCounted
  BY AttrStart DEF AttrInit, AllCounted, Blocks
<1>2. AttrInv /\ AllCounted /\ [AttrNext]_attrVars => (AttrInv /\ AllCounted)'
  BY AttrStep, CountedStep
<1>3. AttrInv /\ AllCounted => NothingLeaks
  <2> SUFFICES ASSUME AttrInv, AllCounted PROVE NothingLeaks
    OBVIOUS
  <2>1. Blocks \in Nat
    BY BlocksCount
  <2>2. heap >= 0
    BY <2>1 DEF AllCounted
  <2>3. object = NoObject => Blocks = 0
    BY DEF Blocks
  <2> QED
    BY <2>2, <2>3 DEF AllCounted, NothingLeaks
<1> QED
  BY <1>1, <1>2, <1>3, PTL DEF AttrSpec

-----------------------------------------------------------------------------
(* Mutexes: the inductive invariant *)

\* pthread_mutex_timedlock does not record the owner of a robust mutex of type
\* normal that it takes at once: what is proved here is proved of programs that
\* do not use it with such a mutex, if they have any.
RobustNormal == [kind |-> "normal", robust |-> TRUE]
NoBlindTimedLock == RobustNormal \in Types => <<RobustNormal, "timed">> \in Avoided

\* The thread that the word lock_idx is locked for, until it is written back.
Keeps(t) == holds[t] > 0 \/ pc[t] = "release"

Locking(t) ==
  pc[t] \in {"init", "check", "first", "inherit", "mark", "sleep", "recheck", "next"}

\* The word is locked for one thread at a time, or for a dead one.
WordLocked ==
  /\ \A t, u \in Threads : Keeps(t) /\ Keeps(u) => t = u
  /\ \A t \in Threads : Keeps(t) => idx # 0 /\ state # "dead"
  /\ state = "dead" => idx # 0

\* How often it is locked, and that calls that lock are few enough.
HoldsCounted ==
  /\ count <= calls
  /\ \A t \in Threads :
       /\ pc[t] = "release" => holds[t] = 0
       /\ ~Recursive => holds[t] <= 1
       /\ holds[t] + (IF Locking(t) THEN 1 ELSE 0) <= calls

\* Whom the mutex takes for its owner.
Recorded ==
  /\ \A t \in Threads :
       /\ holds[t] > 0 =>
            /\ ~Normal => owner = t /\ count = holds[t]
            /\ Robust => owner = t /\ listed = t
       /\ owner = t /\ pc[t] \notin {"dying", "dead"} => holds[t] > 0
       /\ listed = t => holds[t] > 0
       /\ how[t] = "timed" => ~(Robust /\ type.kind = "normal")
  /\ ~Robust => listed = NoThread /\ (Normal => owner = NoThread)

\* A mutex that is destroyed is not in use.
Unused ==
  mutex = "freed" =>
    \A t \in Threads :
      /\ pc[t] \in {"idle", "init", "dying", "dead"}
      /\ ~(Robust /\ Recursive) /\ state # "notrecoverable" => holds[t] = 0

\* What the state of a robust mutex tells of a death.
StateTells ==
  /\ state # "consistent" => Robust
  /\ dirty => state # "consistent"
  /\ state = "inconsistent" => \E t \in Threads : holds[t] > 0
  /\ unaware \subseteq {"notrecoverable"}

MutexInv == TypeOK /\ WordLocked /\ HoldsCounted /\ Recorded /\ Unused /\ StateTells

-----------------------------------------------------------------------------
(* What the steps have in common *)

LEMMA MutexInitInv == Init => MutexInv
<1> SUFFICES ASSUME Init PROVE MutexInv
  OBVIOUS
<1>1. TypeOK
  <2>1. 0 \in 0 .. MaxCalls /\ 0 \in -1 .. 1
    BY MutexAssumption, CallsAssumption
  <2>2. mutex \in {"static", "valid", "null", "freed"}
    BY DEF Init, NoCalls
  <2> QED
    BY <2>1, <2>2 DEF Init, NoCalls, TypeOK
<1>2. WordLocked /\ Unused /\ StateTells
  BY DEF Init, NoCalls, WordLocked, Keeps, Unused, StateTells
<1>3. HoldsCounted
  BY DEF Init, NoCalls, HoldsCounted, Locking
<1>4. Recorded
  BY MutexAssumption, CallsAssumption DEF Init, NoCalls, Recorded
<1> QED
  BY <1>1, <1>2, <1>3, <1>4 DEF MutexInv

\* A step inside a call in which nobody gets the mutex and nobody gives it back.
LEMMA MoveStep ==
  ASSUME MutexInv, NEW t \in Threads, Goto(t, pc'[t]),
         UNCHANGED <<type, ownerVars, state, how, calls, history>>,
         contended' \in [Threads -> BOOLEAN], event' \in BOOLEAN,
         idx' \in -1 .. 1, idx # 0 => idx' # 0,
         mutex' \in {mutex} \/ (mutex = "static" /\ mutex' = "valid"),
         Locking(t) \/ pc[t] = "signal",
         pc'[t] \in {"idle", "first", "inherit", "mark", "sleep", "recheck", "next"},
         pc'[t] = "idle" \/ (Locking(t) /\ mutex # "freed")
  PROVE  MutexInv'
<1> USE DEF MutexInv
<1>1. \A u \in Threads \ {t} : pc'[u] = pc[u]
  BY DEF Goto, TypeOK
<1>2. UNCHANGED <<owner, count, listed, holds, dirty, unaware>>
  BY DEF ownerVars, history
<1>3. TypeOK'
  <2>1. pc' \in [Threads -> {"idle", "init", "check", "first", "inherit", "mark", "sleep",
                             "recheck", "next", "release", "signal", "dying", "dead"}]
    BY DEF Goto, TypeOK
  <2>2. mutex' \in {"static", "valid", "null", "freed"}
    BY DEF TypeOK
  <2> QED
    BY <1>2, <2>1, <2>2 DEF TypeOK
<1>4. \A u \in Threads : Keeps(u)' <=> Keeps(u)
  BY <1>1, <1>2 DEF Keeps, Locking
<1>5. WordLocked'
  BY <1>4 DEF WordLocked
<1>6. HoldsCounted'
  <2>1. ASSUME NEW u \in Threads
        PROVE  /\ Locking(u)' => Locking(u)
               /\ pc'[u] = "release" => pc[u] = "release"
    BY <1>1 DEF Locking
  <2>2. ASSUME NEW u \in Threads
        PROVE  holds[u] + (IF Locking(u)' THEN 1 ELSE 0) <= calls
    <3>1. holds[u] + (IF Locking(u) THEN 1 ELSE 0) <= calls /\ holds[u] \in Nat /\ calls \in Nat
      BY DEF HoldsCounted, TypeOK
    <3> QED
      BY <2>1, <3>1
  <2> QED
    BY <1>2, <2>1, <2>2 DEF HoldsCounted, Recursive
<1>7. Recorded'
  BY <1>1, <1>2 DEF Recorded, Locking, Normal, Robust
<1>8. Unused'
  BY <1>1, <1>2 DEF Unused, Locking, Robust, Recursive
<1>9. StateTells'
  BY <1>2 DEF StateTells, Robust
<1> QED
  BY <1>3, <1>5, <1>6, <1>7, <1>8, <1>9

\* A thread gets a mutex that nobody keeps; s is the state it is then in.
LEMMA GotStep ==
  ASSUME MutexInv, NEW t \in Threads, NEW w \in BOOLEAN, Got(t, w),
         pc[t] \in {"first", "inherit", "mark"}, \A u \in Threads : ~Keeps(u),
         UNCHANGED <<type, mutex, calls, how>>,
         contended' \in [Threads -> BOOLEAN], event' \in BOOLEAN,
         idx' \in -1 .. 1, idx' # 0,
         \/ w /\ Robust /\ state' = "inconsistent"
         \/ ~w /\ state' = state /\ state # "dead"
  PROVE  MutexInv'
<1> USE DEF MutexInv
<1>1. /\ pc' = [pc EXCEPT ![t] = "idle"] /\ holds' = [holds EXCEPT ![t] = holds[t] + 1]
      /\ dirty' = dirty /\ unaware' = unaware \cup (IF dirty /\ ~w THEN {state} ELSE {})
      /\ owner' = (IF Robust \/ ~Normal THEN t ELSE owner)
      /\ listed' = (IF Robust THEN t ELSE listed)
      /\ count' = (IF Normal THEN count ELSE 1)
  <2>1. ~(Robust /\ type.kind = "normal" /\ how[t] = "timed" /\ ~contended[t])
    BY DEF Recorded
  <2> QED
    BY <2>1 DEF Got, Returns, Goto
<1>2. \A u \in Threads : holds[u] = 0 /\ pc[u] # "release"
  BY DEF Keeps, TypeOK
<1>3. /\ pc'[t] = "idle" /\ holds'[t] = 1
      /\ \A u \in Threads \ {t} : pc'[u] = pc[u] /\ holds'[u] = 0
  BY <1>1, <1>2 DEF TypeOK
<1>4. calls >= 1 /\ calls \in 0 .. MaxCalls /\ MaxCalls \in Nat
  BY <1>2, MutexAssumption, CallsAssumption DEF HoldsCounted, Locking, TypeOK
<1>5. state # "inconsistent" /\ (~w /\ dirty => state = "notrecoverable")
  BY <1>2 DEF StateTells, TypeOK
<1>6. \A u \in Threads : owner # u \/ pc[u] \in {"dying", "dead"}
  BY <1>2 DEF Recorded
<1>7. \A u \in Threads : listed # u
  BY <1>2 DEF Recorded
<1>8. TypeOK'
  <2>1. holds' \in [Threads -> 0 .. MaxCalls]
    BY <1>1, <1>2, <1>4 DEF TypeOK
  <2>2. pc' \in [Threads -> {"idle", "init", "check", "first", "inherit", "mark", "sleep",
                             "recheck", "next", "release", "signal", "dying", "dead"}]
    BY <1>1 DEF TypeOK
  <2>3. owner' \in Threads \cup {NoThread} /\ listed' \in Threads \cup {NoThread}
    BY <1>1 DEF TypeOK
  <2>4. count' \in 0 .. MaxCalls
    BY <1>1, <1>4 DEF TypeOK
  <2>5. state' \in {"consistent", "inconsistent", "notrecoverable", "dead"}
    BY DEF TypeOK
  <2>6. unaware' \subseteq {"consistent", "inconsistent", "notrecoverable", "dead"}
    BY <1>1 DEF TypeOK
  <2> QED
    BY <1>1, <2>1, <2>2, <2>3, <2>4, <2>5, <2>6 DEF TypeOK
<1>9. \A u \in Threads : Keeps(u)' <=> u = t
  BY <1>2, <1>3 DEF Keeps
<1>10. WordLocked'
  BY <1>9 DEF WordLocked
<1>11. HoldsCounted'
  <2>1. count' <= calls'
    BY <1>1, <1>4 DEF HoldsCounted
  <2>2. \A u \in Threads : Locking(u)' <=> u # t /\ Locking(u)
    BY <1>3 DEF Locking
  <2>3. \A u \in Threads : holds'[u] + (IF Locking(u)' THEN 1 ELSE 0) <= calls
    BY <1>2, <1>3, <1>4, <2>2 DEF HoldsCounted
  <2> QED
    BY <1>2, <1>3, <2>1, <2>3 DEF HoldsCounted
<1>12. Recorded'
  <2> SUFFICES ASSUME NEW u \in Threads
               PROVE  /\ holds'[u] > 0 =>
                           /\ ~Normal => owner' = u /\ count' = holds'[u]
                           /\ Robust => owner' = u /\ listed' = u
                      /\ owner' = u /\ pc'[u] \notin {"dying", "dead"} => holds'[u] > 0
                      /\ listed' = u => holds'[u] > 0
                      /\ how[u] = "timed" => ~(Robust /\ type.kind = "normal")
    BY <1>1 DEF Recorded, Normal, Robust
  <2>1. CASE u = t
    BY <1>1, <1>3, <2>1 DEF Recorded
  <2>2. CASE u # t
    BY <1>1, <1>3, <1>6, <1>7, <2>2 DEF Recorded
  <2> QED
    BY <2>1, <2>2
<1>13. Unused'
  BY DEF Unused
<1>14. StateTells'
  <2>1. unaware' \subseteq {"notrecoverable"}
    BY <1>1, <1>5 DEF StateTells
  <2> QED
    BY <1>1, <1>3, <1>5, <2>1 DEF StateTells, Robust
<1> QED
  BY <1>8, <1>10, <1>11, <1>12, <1>13, <1>14

-----------------------------------------------------------------------------
(* The calls that lock *)

LEMMA CallStep ==
  ASSUME MutexInv, NoBlindTimedLock, NEW t \in Threads, NEW h \in {"lock", "try", "timed"},
         Call(t, h)
  PROVE  MutexInv'
<1> USE DEF MutexInv
<1>1. /\ pc[t] = "idle" /\ mutex \in {"static", "valid"} /\ calls < MaxCalls
      /\ calls' = calls + 1 /\ how' = [how EXCEPT ![t] = h]
      /\ pc' = [pc EXCEPT ![t] = pc'[t]] /\ pc'[t] \in {"init", "check", "first"}
      /\ contended' = [contended EXCEPT ![t] = FALSE]
      /\ UNCHANGED <<type, mutex, idx, event, owner, count, listed, state, holds, dirty, unaware>>
  BY DEF Call, Goto, wordVars, ownerVars, history, TypeOK
<1>2. <<type, h>> \notin Avoided
  BY DEF Call
<1>3. calls \in Nat /\ calls' \in 0 .. MaxCalls
  BY <1>1, MutexAssumption, CallsAssumption DEF TypeOK
<1>4. \A u \in Threads \ {t} : pc'[u] = pc[u] /\ how'[u] = how[u]
  BY <1>1 DEF TypeOK
<1>5. TypeOK'
  <2>1. pc' \in [Threads -> {"idle", "init", "check", "first", "inherit", "mark", "sleep",
                             "recheck", "next", "release", "signal", "dying", "dead"}]
    BY <1>1 DEF TypeOK
  <2> QED
    BY <1>1, <1>3, <2>1 DEF TypeOK
<1>6. \A u \in Threads : Keeps(u)' <=> Keeps(u)
  BY <1>1, <1>4 DEF Keeps
<1>7. WordLocked'
  BY <1>1, <1>6 DEF WordLocked
<1>8. HoldsCounted'
  <2>1. ASSUME NEW u \in Threads
        PROVE  holds[u] + (IF Locking(u)' THEN 1 ELSE 0) <= calls'
    <3>1. holds[u] + (IF Locking(u) THEN 1 ELSE 0) <= calls /\ holds[u] \in Nat
      BY DEF HoldsCounted, TypeOK
    <3>2. CASE u = t
      BY <1>1, <1>3, <3>1, <3>2 DEF Locking
    <3>3. CASE u # t
      BY <1>1, <1>3, <1>4, <3>1, <3>3 DEF Locking
    <3> QED
      BY <3>2, <3>3
  <2>2. count' <= calls'
    BY <1>1, <1>3 DEF HoldsCounted, TypeOK
  <2> QED
    BY <1>1, <1>4, <2>1, <2>2 DEF HoldsCounted, Recursive
<1>9. Recorded'
  <2>1. h = "timed" => ~(Robust /\ type.kind = "normal")
    <3>1. type = [kind |-> type.kind, robust |-> type.robust]
      BY MutexAssumption, CallsAssumption DEF TypeOK
    <3>2. type.robust \in BOOLEAN
      BY MutexAssumption, CallsAssumption DEF TypeOK
    <3>3. Robust /\ type.kind = "normal" => type = RobustNormal
      BY <3>1, <3>2 DEF Robust, RobustNormal
    <3>4. type \in Types
      BY DEF TypeOK
    <3> QED
      BY <1>2, <3>3, <3>4 DEF NoBlindTimedLock
  <2>2. \A u \in Threads : how'[u] = "timed" => ~(Robust /\ type.kind = "normal")
    BY <1>1, <1>4, <2>1 DEF Recorded, TypeOK
  <2> QED
    BY <1>1, <1>4, <2>2 DEF Recorded, Normal, Robust
<1>10. Unused' /\ StateTells'
  BY <1>1 DEF Unused, StateTells, Robust
<1> QED
  BY <1>5, <1>7, <1>8, <1>9, <1>10

\* The owner of a recursive mutex locks it once more.
LEMMA CountStep ==
  ASSUME MutexInv, NEW t \in Threads, pc[t] = "first", Returns(t), owner = t, Recursive,
         count' = count + 1, holds' = [holds EXCEPT ![t] = holds[t] + 1],
         idx' \in -1 .. 1, idx # 0 => idx' # 0,
         UNCHANGED <<type, mutex, event, owner, listed, state, how, contended, calls, dirty,
                     unaware>>
  PROVE  MutexInv'
<1> USE DEF MutexInv
<1>1. pc'[t] = "idle" /\ \A u \in Threads \ {t} : pc'[u] = pc[u] /\ holds'[u] = holds[u]
  BY DEF Returns, Goto, TypeOK
<1>2. holds[t] > 0 /\ ~Normal /\ count = holds[t] /\ holds'[t] = holds[t] + 1
  BY DEF Recorded, Normal, Recursive, TypeOK
<1>3. holds[t] + 1 <= calls /\ holds[t] \in Nat /\ calls \in 0 .. MaxCalls /\ MaxCalls \in Nat
  BY MutexAssumption, CallsAssumption DEF HoldsCounted, Locking, TypeOK
<1>4. TypeOK'
  <2>1. holds' \in [Threads -> 0 .. MaxCalls] /\ count' \in 0 .. MaxCalls
    BY <1>2, <1>3 DEF TypeOK
  <2>2. pc' \in [Threads -> {"idle", "init", "check", "first", "inherit", "mark", "sleep",
                             "recheck", "next", "release", "signal", "dying", "dead"}]
    BY DEF Returns, Goto, TypeOK
  <2> QED
    BY <2>1, <2>2 DEF TypeOK
<1>5. \A u \in Threads : Keeps(u)' <=> Keeps(u)
  BY <1>1, <1>2, <1>3 DEF Keeps
<1>6. WordLocked'
  BY <1>5 DEF WordLocked
<1>7. HoldsCounted'
  <2>1. \A u \in Threads \ {t} : Locking(u)' <=> Locking(u)
    BY <1>1 DEF Locking
  <2>2. ~Locking(t)' /\ ~(Recursive' = FALSE)
    BY <1>1 DEF Locking, Recursive
  <2>3. ASSUME NEW u \in Threads
        PROVE  holds'[u] + (IF Locking(u)' THEN 1 ELSE 0) <= calls
    <3>1. CASE u = t
      BY <1>2, <1>3, <2>2, <3>1
    <3>2. CASE u # t
      BY <1>1, <2>1, <3>2 DEF HoldsCounted
    <3> QED
      BY <3>1, <3>2
  <2>4. \A u \in Threads : pc'[u] = "release" => holds'[u] = 0
    BY <1>1 DEF HoldsCounted
  <2> QED
    BY <1>2, <1>3, <2>3, <2>4 DEF HoldsCounted, Recursive
<1>8. Recorded'
  <2>1. \A u \in Threads : holds[u] > 0 => u = t
    BY <1>2 DEF WordLocked, Keeps
  <2> QED
    BY <1>1, <1>2, <1>3, <2>1 DEF Recorded, Normal, Robust
<1>9. Unused'
  BY DEF Unused
<1>10. StateTells'
  <2>1. (\E u \in Threads : holds[u] > 0) => \E u \in Threads : holds'[u] > 0
    BY <1>2, <1>3
  <2> QED
    BY <2>1 DEF StateTells, Robust
<1> QED
  BY <1>4, <1>6, <1>7, <1>8, <1>9, <1>10

LEMMA FirstTryStep ==
  ASSUME MutexInv, NEW t \in Threads, FirstTry(t)
  PROVE  MutexInv'
<1> USE DEF MutexInv
<1>1. /\ pc[t] = "first" /\ idx' = (IF idx = 0 \/ (type.kind = "normal" /\ how[t] # "try") THEN 1 ELSE idx)
      /\ UNCHANGED <<type, mutex, event, state, how, calls>>
  BY DEF FirstTry
<1>2. idx' \in -1 .. 1 /\ idx' # 0
  BY <1>1 DEF TypeOK
<1>3. mutex # "freed" /\ Locking(t)
  BY <1>1 DEF Unused, Locking
<1>4. CASE idx = 0
  <2>1. Got(t, FALSE) /\ contended' = contended
    BY <1>4 DEF FirstTry
  <2>2. state # "dead" /\ \A u \in Threads : ~Keeps(u)
    BY <1>4 DEF WordLocked
  <2>3. contended' \in [Threads -> BOOLEAN] /\ event' \in BOOLEAN
    BY <1>1, <2>1 DEF TypeOK
  <2> QED
    BY <1>1, <1>2, <2>1, <2>2, <2>3, GotStep
<1>5. CASE idx # 0
  <2>1. Locked(t)
    BY <1>5 DEF FirstTry
  <2>2. CASE owner = t /\ ~Normal /\ (how[t] # "try" \/ Recursive)
    <3>1. /\ Returns(t) /\ count' = (IF Recursive THEN count + 1 ELSE count)
          /\ holds' = [holds EXCEPT ![t] = IF Recursive THEN @ + 1 ELSE @]
          /\ UNCHANGED <<owner, listed, contended, dirty, unaware>>
      BY <2>1, <2>2 DEF Locked
    <3>2. CASE Recursive
      <4>1. count' = count + 1 /\ holds' = [holds EXCEPT ![t] = holds[t] + 1]
        BY <3>1, <3>2
      <4> QED
        BY <1>1, <1>2, <2>2, <3>1, <3>2, <4>1, CountStep
    <3>3. CASE ~Recursive
      <4>1. holds' = holds /\ count' = count
        BY <3>1, <3>3 DEF TypeOK
      <4>2. Goto(t, pc'[t]) /\ pc'[t] = "idle"
        BY <3>1 DEF Returns, Goto, TypeOK
      <4>3. /\ UNCHANGED <<type, ownerVars, state, how, calls, history>>
            /\ contended' \in [Threads -> BOOLEAN] /\ event' \in BOOLEAN
        BY <1>1, <3>1, <4>1 DEF ownerVars, history, TypeOK
      <4> QED
        BY <1>1, <1>2, <1>3, <4>2, <4>3, MoveStep
    <3> QED
      BY <3>2, <3>3
  <2>3. CASE ~(owner = t /\ ~Normal /\ (how[t] # "try" \/ Recursive))
    <3>1. /\ Goto(t, pc'[t]) /\ pc'[t] \in {"inherit", "idle", "first", "mark"}
          /\ UNCHANGED <<ownerVars, history>> /\ contended' = [contended EXCEPT ![t] = TRUE]
      BY <2>1, <2>3 DEF Locked, Goto, TypeOK
    <3>2. contended' \in [Threads -> BOOLEAN] /\ event' \in BOOLEAN
      BY <1>1, <3>1 DEF TypeOK
    <3> QED
      BY <1>1, <1>2, <1>3, <3>1, <3>2, MoveStep
  <2> QED
    BY <2>2, <2>3
<1> QED
  BY <1>4, <1>5

LEMMA InheritStep ==
  ASSUME MutexInv, NEW t \in Threads, Inherit(t)
  PROVE  MutexInv'
<1> USE DEF MutexInv
<1>1. /\ pc[t] = "inherit" /\ state' = (IF state = "dead" THEN "inconsistent" ELSE state)
      /\ UNCHANGED <<type, mutex, idx, event, how, contended, calls>>
  BY DEF Inherit, wordVars
<1>2. contended' \in [Threads -> BOOLEAN] /\ event' \in BOOLEAN /\ idx' \in -1 .. 1
  BY <1>1 DEF TypeOK
<1>3. CASE state = "dead"
  <2>1. Got(t, TRUE) /\ state' = "inconsistent"
    BY <1>1, <1>3 DEF Inherit
  <2>2. idx' # 0 /\ Robust /\ \A u \in Threads : ~Keeps(u)
    BY <1>1, <1>3 DEF WordLocked, StateTells
  <2> QED
    BY <1>1, <1>2, <2>1, <2>2, GotStep
<1>4. CASE state # "dead"
  <2>1. /\ Goto(t, pc'[t]) /\ pc'[t] \in {"next", "idle", "mark"} /\ state' = state
        /\ UNCHANGED <<ownerVars, history>>
    BY <1>1, <1>4 DEF Inherit, Goto, TypeOK
  <2>2. Locking(t) /\ mutex # "freed"
    BY <1>1 DEF Locking, Unused
  <2> QED
    BY <1>1, <1>2, <2>1, <2>2, MoveStep
<1> QED
  BY <1>3, <1>4

LEMMA MarkStep ==
  ASSUME MutexInv, NEW t \in Threads, Mark(t)
  PROVE  MutexInv'
<1> USE DEF MutexInv
<1>1. /\ pc[t] = "mark" /\ idx' = -1
      /\ UNCHANGED <<type, mutex, event, state, how, contended, calls>>
  BY DEF Mark
<1>2. /\ contended' \in [Threads -> BOOLEAN] /\ event' \in BOOLEAN
      /\ idx' \in -1 .. 1 /\ idx' # 0 /\ Locking(t) /\ mutex # "freed"
  BY <1>1 DEF TypeOK, Locking, Unused
<1>3. CASE idx = 0 /\ ~(Robust /\ ~Normal /\ how[t] = "timed" /\ state = "notrecoverable")
  <2>1. Got(t, FALSE)
    BY <1>3 DEF Mark
  <2>2. state # "dead" /\ \A u \in Threads : ~Keeps(u)
    BY <1>3 DEF WordLocked
  <2> QED
    BY <1>1, <1>2, <2>1, <2>2, GotStep
<1>4. CASE ~(idx = 0 /\ ~(Robust /\ ~Normal /\ how[t] = "timed" /\ state = "notrecoverable"))
  <2>1. Goto(t, pc'[t]) /\ pc'[t] \in {"sleep", "next"} /\ UNCHANGED <<ownerVars, history>>
    BY <1>4 DEF Mark, Goto, TypeOK
  <2> QED
    BY <1>1, <1>2, <2>1, MoveStep
<1> QED
  BY <1>3, <1>4

\* The other steps inside a call.
LEMMA WaitStep ==
  ASSUME MutexInv, NEW t \in Threads,
         \/ CheckNeedInit(t) \/ CheckState(t) \/ Wakes(t) \/ TimeOut(t) \/ Recheck(t)
         \/ UnblockNext(t) \/ (pc[t] = "signal" /\ Signal(t))
  PROVE  MutexInv'
<1> USE DEF MutexInv
<1>1. /\ Goto(t, pc'[t]) /\ UNCHANGED <<type, idx, ownerVars, state, how, contended, calls, history>>
      /\ event' \in BOOLEAN
  BY DEF CheckNeedInit, CheckState, Wakes, TimeOut, Recheck, UnblockNext, Signal, Goto,
         Returns, wordVars, TypeOK
<1>2. /\ contended' \in [Threads -> BOOLEAN] /\ idx' \in -1 .. 1 /\ (idx # 0 => idx' # 0)
  BY <1>1 DEF TypeOK
<1>3. CASE CheckNeedInit(t)
  <2>1. /\ pc[t] = "init" /\ mutex' = (IF mutex = "static" THEN "valid" ELSE mutex)
        /\ pc'[t] = (IF mutex \in {"null", "freed"} THEN "idle" ELSE "first")
    BY <1>3 DEF CheckNeedInit, Goto, TypeOK
  <2>2. /\ mutex' \in {mutex} \/ (mutex = "static" /\ mutex' = "valid")
        /\ Locking(t) /\ pc'[t] \in {"idle", "first"}
        /\ pc'[t] = "idle" \/ (Locking(t) /\ mutex # "freed")
    BY <2>1 DEF Locking
  <2> QED
    BY <1>1, <1>2, <2>2, MoveStep
<1>4. CASE ~CheckNeedInit(t)
  <2>1. /\ mutex' = mutex /\ pc[t] \in {"check", "sleep", "recheck", "next", "signal"}
        /\ pc'[t] \in {"idle", "first", "mark", "inherit", "recheck", "next"}
        /\ pc[t] = "signal" => pc'[t] = "idle"
    BY <1>4 DEF CheckState, Wakes, TimeOut, Recheck, UnblockNext, Signal, Goto,
                Returns, TypeOK
  <2>2. /\ mutex' \in {mutex} \/ (mutex = "static" /\ mutex' = "valid")
        /\ Locking(t) \/ pc[t] = "signal"
        /\ pc'[t] = "idle" \/ (Locking(t) /\ mutex # "freed")
    BY <2>1 DEF Locking, Unused
  <2> QED
    BY <1>1, <1>2, <2>1, <2>2, MoveStep
<1> QED
  BY <1>3, <1>4

-----------------------------------------------------------------------------
(* Unlock, and the end of a thread or of the mutex *)

LEMMA UnlockStep ==
  ASSUME MutexInv, NEW t \in Threads, Unlock(t)
  PROVE  MutexInv'
<1> USE DEF MutexInv
<1>1. /\ pc[t] = "idle" /\ holds[t] > 0 /\ mutex = "valid" /\ (Robust \/ ~Normal => owner = t)
      /\ state' = (IF Robust /\ state = "inconsistent" THEN "notrecoverable" ELSE state)
      /\ holds' = [holds EXCEPT ![t] = holds[t] - 1]
      /\ count' = (IF Recursive THEN count - 1 ELSE count)
      /\ UNCHANGED <<type, mutex, idx, event, how, contended, calls, dirty, unaware>>
  BY DEF Unlock, MayUnlock, wordVars
<1>2. \/ /\ Recursive /\ count > 1 /\ pc' = [pc EXCEPT ![t] = "idle"]
         /\ owner' = owner /\ listed' = listed
      \/ /\ ~(Recursive /\ count > 1) /\ pc' = [pc EXCEPT ![t] = "release"]
         /\ owner' = (IF Robust \/ ~Normal THEN NoThread ELSE owner)
         /\ listed' = (IF Robust THEN NoThread ELSE listed)
  BY DEF Unlock, Returns, Goto
<1>3. /\ holds[t] \in 1 .. MaxCalls /\ MaxCalls \in Nat /\ calls \in 0 .. MaxCalls
      /\ ~Recursive => holds[t] = 1
      /\ Recursive => ~Normal /\ count = holds[t]
      /\ count \in 0 .. MaxCalls
  BY <1>1, MutexAssumption, CallsAssumption DEF Recorded, HoldsCounted, Recursive, Normal, TypeOK
<1>4. /\ holds'[t] = holds[t] - 1 /\ holds'[t] \in 0 .. MaxCalls /\ holds'[t] < holds[t]
      /\ \A u \in Threads \ {t} : pc'[u] = pc[u] /\ holds'[u] = holds[u]
  BY <1>1, <1>2, <1>3 DEF TypeOK
<1>5. \A u \in Threads \ {t} : holds[u] = 0 /\ pc[u] # "release"
  BY <1>1 DEF WordLocked, Keeps, TypeOK
<1>6. CASE Recursive /\ count > 1
  <2>1. /\ pc' = [pc EXCEPT ![t] = "idle"] /\ owner' = owner /\ listed' = listed
        /\ pc'[t] = "idle" /\ count' = count - 1
    BY <1>1, <1>2, <1>6 DEF TypeOK
  <2>2. holds'[t] > 0 /\ count' = holds'[t] /\ count' \in 0 .. MaxCalls /\ count' <= calls
    BY <1>3, <1>4, <1>6, <2>1 DEF HoldsCounted
  <2>3. TypeOK'
    <3>1. holds' \in [Threads -> 0 .. MaxCalls]
      BY <1>1, <1>4 DEF TypeOK
    <3>2. pc' \in [Threads -> {"idle", "init", "check", "first", "inherit", "mark", "sleep",
                               "recheck", "next", "release", "signal", "dying", "dead"}]
      BY <2>1 DEF TypeOK
    <3>3. state' \in {"consistent", "inconsistent", "notrecoverable", "dead"}
      BY <1>1 DEF TypeOK
    <3> QED
      BY <1>1, <2>1, <2>2, <3>1, <3>2, <3>3 DEF TypeOK
  <2>4. \A u \in Threads : Keeps(u)' <=> Keeps(u)
    BY <1>1, <1>4, <2>1, <2>2 DEF Keeps
  <2>5. WordLocked'
    BY <1>1, <2>4 DEF WordLocked
  <2>6. HoldsCounted'
    <3>1. \A u \in Threads : Locking(u)' <=> Locking(u)
      BY <1>1, <1>4, <2>1 DEF Locking
    <3>2. ASSUME NEW u \in Threads
          PROVE  holds'[u] + (IF Locking(u)' THEN 1 ELSE 0) <= calls
      <4>1. holds[u] + (IF Locking(u) THEN 1 ELSE 0) <= calls
        BY DEF HoldsCounted
      <4>2. CASE u = t
        BY <1>3, <1>4, <3>1, <4>1, <4>2
      <4>3. CASE u # t
        BY <1>4, <3>1, <4>1, <4>3
      <4> QED
        BY <4>2, <4>3
    <3> QED
      BY <1>1, <1>4, <1>6, <2>1, <2>2, <3>2 DEF HoldsCounted, Recursive
  <2>7. Recorded'
    BY <1>1, <1>3, <1>4, <1>5, <2>1, <2>2 DEF Recorded, Normal, Robust
  <2>8. Unused' /\ StateTells'
    BY <1>1, <2>2 DEF Unused, StateTells, Robust
  <2> QED
    BY <2>3, <2>5, <2>6, <2>7, <2>8
<1>7. CASE ~(Recursive /\ count > 1)
  <2>1. /\ pc' = [pc EXCEPT ![t] = "release"] /\ pc'[t] = "release"
        /\ owner' = (IF Robust \/ ~Normal THEN NoThread ELSE owner)
        /\ listed' = (IF Robust THEN NoThread ELSE listed)
    BY <1>2, <1>7 DEF TypeOK
  <2>2. holds[t] = 1 /\ \A u \in Threads : holds'[u] = 0
    BY <1>3, <1>4, <1>5, <1>7
  <2>3. count' \in 0 .. MaxCalls /\ count' <= calls
    BY <1>1, <1>3 DEF HoldsCounted
  <2>4. TypeOK'
    <3>1. holds' \in [Threads -> 0 .. MaxCalls]
      BY <1>1, <1>4 DEF TypeOK
    <3>2. pc' \in [Threads -> {"idle", "init", "check", "first", "inherit", "mark", "sleep",
                               "recheck", "next", "release", "signal", "dying", "dead"}]
      BY <2>1 DEF TypeOK
    <3>3. state' \in {"consistent", "inconsistent", "notrecoverable", "dead"}
      BY <1>1 DEF TypeOK
    <3> QED
      BY <1>1, <2>1, <2>3, <3>1, <3>2, <3>3 DEF TypeOK
  <2>5. \A u \in Threads : Keeps(u)' <=> Keeps(u)
    BY <1>1, <1>4, <1>5, <2>1, <2>2 DEF Keeps
  <2>6. WordLocked'
    BY <1>1, <2>5 DEF WordLocked
  <2>7. HoldsCounted'
    <3>1. ASSUME NEW u \in Threads
          PROVE  holds'[u] + (IF Locking(u)' THEN 1 ELSE 0) <= calls
      BY <1>3, <1>4, <1>5, <2>1, <2>2 DEF HoldsCounted, Locking
    <3> QED
      BY <1>1, <2>2, <2>3, <3>1 DEF HoldsCounted, Recursive
  <2>8. Recorded'
    <3>1. \A u \in Threads : owner' # u
      BY <1>1, <1>5, <2>1, MutexAssumption, CallsAssumption DEF Recorded, Normal, Robust
    <3>2. \A u \in Threads : listed' # u
      BY <1>1, <1>5, <2>1, MutexAssumption, CallsAssumption DEF Recorded, Robust
    <3>3. Recorded'
      <4>1. ~Robust => listed' = NoThread /\ (Normal => owner' = NoThread)
        BY <2>1 DEF Recorded
      <4> QED
        BY <1>1, <2>2, <3>1, <3>2, <4>1 DEF Recorded, Normal, Robust
    <3> QED
      BY <3>3
  <2>9. Unused' /\ StateTells'
    BY <1>1 DEF Unused, StateTells, Robust
  <2> QED
    BY <2>4, <2>6, <2>7, <2>8, <2>9
<1> QED
  BY <1>6, <1>7

LEMMA ReleaseStep ==
  ASSUME MutexInv, NEW t \in Threads, ReleaseWord(t)
  PROVE  MutexInv'
<1> USE DEF MutexInv
<1>1. /\ pc[t] = "release" /\ idx' = 0 /\ pc' = [pc EXCEPT ![t] = pc'[t]]
      /\ pc'[t] \in {"signal", "idle"}
      /\ UNCHANGED <<type, mutex, event, owner, count, listed, state, how, contended, calls,
                     holds, dirty, unaware>>
  BY DEF ReleaseWord, Goto, ownerVars, history, TypeOK
<1>2. \A u \in Threads \ {t} : pc'[u] = pc[u]
  BY <1>1 DEF TypeOK
<1>3. \A u \in Threads : holds[u] = 0 /\ (u # t => pc[u] # "release")
  BY <1>1 DEF WordLocked, Keeps, HoldsCounted, TypeOK
<1>4. TypeOK'
  <2>1. pc' \in [Threads -> {"idle", "init", "check", "first", "inherit", "mark", "sleep",
                             "recheck", "next", "release", "signal", "dying", "dead"}]
    BY <1>1 DEF TypeOK
  <2> QED
    BY <1>1, <2>1 DEF TypeOK
<1>5. \A u \in Threads : ~Keeps(u)'
  BY <1>1, <1>2, <1>3 DEF Keeps
<1>6. WordLocked'
  BY <1>1, <1>5 DEF WordLocked, Keeps
<1>7. HoldsCounted'
  BY <1>1, <1>2, <1>3 DEF HoldsCounted, Locking, Recursive
<1>8. Recorded'
  BY <1>1, <1>2, <1>3 DEF Recorded, Normal, Robust
<1>9. Unused' /\ StateTells'
  BY <1>1, <1>2 DEF Unused, StateTells, Robust
<1> QED
  BY <1>4, <1>6, <1>7, <1>8, <1>9

LEMMA DieStep ==
  ASSUME MutexInv, NEW t \in Threads, Die(t)
  PROVE  MutexInv'
<1> USE DEF MutexInv
<1>1. /\ Robust /\ pc[t] = "idle" /\ pc' = [pc EXCEPT ![t] = pc'[t]]
      /\ pc'[t] \in {"dying", "dead"}
      /\ \/ listed = t /\ listed' = NoThread /\ state' = "dead"
         \/ listed # t /\ listed' = listed /\ state' = state
      /\ dirty' = (dirty \/ holds[t] > 0) /\ holds' = [holds EXCEPT ![t] = 0]
      /\ UNCHANGED <<type, mutex, idx, event, owner, count, how, contended, calls, unaware>>
  BY DEF Die, Goto, wordVars, TypeOK
<1>2. /\ holds'[t] = 0 /\ \A u \in Threads \ {t} : pc'[u] = pc[u] /\ holds'[u] = holds[u]
  BY <1>1 DEF TypeOK
<1>3. listed = t <=> holds[t] > 0
  BY <1>1 DEF Recorded
<1>4. TypeOK'
  <2>1. holds' \in [Threads -> 0 .. MaxCalls]
    BY <1>1, MutexAssumption, CallsAssumption DEF TypeOK
  <2>2. pc' \in [Threads -> {"idle", "init", "check", "first", "inherit", "mark", "sleep",
                             "recheck", "next", "release", "signal", "dying", "dead"}]
    BY <1>1 DEF TypeOK
  <2>3. listed' \in Threads \cup {NoThread}
    BY <1>1 DEF TypeOK
  <2>4. state' \in {"consistent", "inconsistent", "notrecoverable", "dead"}
    BY <1>1 DEF TypeOK
  <2> QED
    BY <1>1, <2>1, <2>2, <2>3, <2>4 DEF TypeOK
<1>5. \A u \in Threads : Keeps(u)' <=> u # t /\ Keeps(u)
  BY <1>1, <1>2 DEF Keeps
<1>6. WordLocked'
  <2>1. CASE listed = t
    <3>1. Keeps(t) /\ idx # 0
      BY <1>3, <2>1 DEF Keeps, WordLocked
    <3>2. \A u \in Threads : ~Keeps(u)'
      BY <1>5, <3>1 DEF WordLocked
    <3> QED
      BY <1>1, <3>1, <3>2 DEF WordLocked, Keeps
  <2>2. CASE listed # t
    <3>1. state' = state /\ idx' = idx
      BY <1>1, <2>2
    <3> QED
      BY <1>5, <3>1 DEF WordLocked
  <2> QED
    BY <2>1, <2>2
<1>7. HoldsCounted'
  <2>1. ASSUME NEW u \in Threads
        PROVE  holds'[u] + (IF Locking(u)' THEN 1 ELSE 0) <= calls
    <3>1. CASE u = t
      BY <1>1, <1>2, <3>1 DEF Locking, TypeOK
    <3>2. CASE u # t
      BY <1>2, <3>2 DEF Locking, HoldsCounted
    <3> QED
      BY <3>1, <3>2
  <2> QED
    BY <1>1, <1>2, <2>1 DEF HoldsCounted, Recursive
<1>8. Recorded'
  <2>1. \A u \in Threads \ {t} : listed' = u <=> listed = u
    BY <1>1, <1>3, MutexAssumption, CallsAssumption DEF Recorded
  <2>2. listed' # t
    BY <1>1, MutexAssumption, CallsAssumption
  <2>3. \A u \in Threads \ {t} : holds[u] > 0 => listed = u
    BY <1>1 DEF Recorded
  <2> SUFFICES ASSUME NEW u \in Threads
               PROVE  /\ holds'[u] > 0 =>
                           /\ ~Normal => owner' = u /\ count' = holds'[u]
                           /\ Robust => owner' = u /\ listed' = u
                      /\ owner' = u /\ pc'[u] \notin {"dying", "dead"} => holds'[u] > 0
                      /\ listed' = u => holds'[u] > 0
                      /\ how'[u] = "timed" => ~(Robust /\ type.kind = "normal")
    BY <1>1 DEF Recorded, Normal, Robust
  <2>4. CASE u = t
    BY <1>1, <1>2, <2>2, <2>4 DEF Recorded
  <2>5. CASE u # t
    BY <1>1, <1>2, <2>1, <2>5 DEF Recorded
  <2> QED
    BY <2>4, <2>5
<1>9. Unused'
  <2> SUFFICES ASSUME mutex = "freed", NEW u \in Threads
               PROVE  /\ pc'[u] \in {"idle", "init", "dying", "dead"}
                      /\ ~(Robust /\ Recursive) /\ state' # "notrecoverable" => holds'[u] = 0
    BY <1>1 DEF Unused, Robust, Recursive
  <2>1. pc'[u] \in {"idle", "init", "dying", "dead"}
    BY <1>1, <1>2 DEF Unused
  <2>2. CASE listed = t
    <3>1. Keeps(t)
      BY <1>3, <2>2 DEF Keeps
    <3>2. holds'[u] = 0
      BY <1>2, <3>1 DEF WordLocked, Keeps, TypeOK
    <3> QED
      BY <2>1, <3>2
  <2>3. CASE listed # t
    BY <1>1, <1>2, <2>1, <2>3 DEF Unused
  <2> QED
    BY <2>2, <2>3
<1>10. StateTells'
  <2>1. CASE listed = t
    BY <1>1, <2>1, MutexAssumption, CallsAssumption DEF StateTells, Robust
  <2>2. CASE listed # t
    <3>1. state' = state /\ holds[t] = 0 /\ dirty' = dirty
      BY <1>1, <1>3, <2>2 DEF TypeOK
    <3>2. (\E u \in Threads : holds[u] > 0) => \E u \in Threads : holds'[u] > 0
      BY <1>2, <3>1
    <3> QED
      BY <1>1, <3>1, <3>2 DEF StateTells, Robust
  <2> QED
    BY <2>1, <2>2
<1> QED
  BY <1>4, <1>6, <1>7, <1>8, <1>9, <1>10

LEMMA EndStep ==
  ASSUME MutexInv, NEW t \in Threads,
         (pc[t] = "dying" /\ Signal(t)) \/ Consistent(t) \/ Destroy(t)
  PROVE  MutexInv'
<1> USE DEF MutexInv
<1>1. CASE pc[t] = "dying" /\ Signal(t)
  <2>1. /\ pc' = [pc EXCEPT ![t] = "dead"] /\ event' = TRUE
        /\ UNCHANGED <<type, mutex, idx, owner, count, listed, state, how, contended, calls,
                       holds, dirty, unaware>>
    BY <1>1 DEF Signal, Goto, ownerVars, history
  <2>2. pc'[t] = "dead" /\ \A u \in Threads \ {t} : pc'[u] = pc[u]
    BY <2>1 DEF TypeOK
  <2>3. TypeOK'
    <3>1. pc' \in [Threads -> {"idle", "init", "check", "first", "inherit", "mark", "sleep",
                               "recheck", "next", "release", "signal", "dying", "dead"}]
      BY <2>1 DEF TypeOK
    <3> QED
      BY <2>1, <3>1 DEF TypeOK
  <2>4. \A u \in Threads : (Keeps(u)' <=> Keeps(u)) /\ (Locking(u)' <=> Locking(u))
    BY <1>1, <2>1, <2>2 DEF Keeps, Locking
  <2>5. WordLocked'
    BY <2>1, <2>4 DEF WordLocked
  <2>6. HoldsCounted'
    BY <2>1, <2>2, <2>4 DEF HoldsCounted, Recursive
  <2>7. Recorded'
    BY <1>1, <2>1, <2>2 DEF Recorded, Normal, Robust
  <2>8. Unused' /\ StateTells'
    BY <1>1, <2>1, <2>2 DEF Unused, StateTells, Robust, Recursive
  <2> QED
    BY <2>3, <2>5, <2>6, <2>7, <2>8
<1>2. CASE Consistent(t)
  <2>1. /\ state' = "consistent" /\ dirty' = FALSE /\ pc[t] = "idle" /\ holds[t] > 0
        /\ state = "inconsistent"
        /\ UNCHANGED <<type, mutex, idx, event, owner, count, listed, pc, how, contended, calls,
                       holds, unaware>>
    BY <1>2 DEF Consistent, wordVars, ownerVars
  <2>2. TypeOK' /\ WordLocked'
    BY <2>1 DEF TypeOK, WordLocked, Keeps
  <2>3. HoldsCounted' /\ Recorded'
    BY <2>1 DEF HoldsCounted, Locking, Recorded, Normal, Robust, Recursive
  <2>4. Unused' /\ StateTells'
    BY <2>1 DEF Unused, StateTells, Robust, Recursive
  <2> QED
    BY <2>2, <2>3, <2>4
<1>3. CASE Destroy(t)
  <2>1. UNCHANGED <<type, idx, event, owner, count, listed, state, pc, how, contended, calls,
                    holds, dirty, unaware>>
    BY <1>3 DEF Destroy, wordVars, ownerVars, history
  <2>2. TypeOK' /\ WordLocked'
    BY <1>3, <2>1 DEF Destroy, TypeOK, WordLocked, Keeps
  <2>3. HoldsCounted' /\ Recorded' /\ StateTells'
    BY <2>1 DEF HoldsCounted, Locking, Recorded, Normal, Robust, Recursive, StateTells
  <2>4. Unused'
    <3> SUFFICES ASSUME mutex' = "freed", NEW u \in Threads
                 PROVE  /\ pc[u] \in {"idle", "init", "dying", "dead"}
                        /\ ~(Robust /\ Recursive) /\ state # "notrecoverable" => holds[u] = 0
      BY <2>1 DEF Unused, Robust, Recursive
    <3>1. pc[u] \in {"idle", "init", "dead"}
      BY <1>3 DEF Destroy
    <3>2. idx = 0 \/ state = "notrecoverable" \/ (Robust /\ Recursive)
      BY <1>3 DEF Destroy
    <3>3. idx = 0 => holds[u] = 0
      BY DEF WordLocked, Keeps, TypeOK
    <3> QED
      BY <3>1, <3>2, <3>3
  <2> QED
    BY <2>2, <2>3, <2>4
<1> QED
  BY <1>1, <1>2, <1>3

LEMMA MutexNextInv == NoBlindTimedLock /\ MutexInv /\ [Next]_vars => MutexInv'
<1> SUFFICES ASSUME NoBlindTimedLock, MutexInv, [Next]_vars PROVE MutexInv'
  OBVIOUS
<1>1. CASE UNCHANGED vars
  <2>1. UNCHANGED <<type, mutex, idx, event, owner, count, listed, state, pc, how, contended,
                    calls, holds, dirty, unaware>>
    BY <1>1 DEF vars, wordVars, ownerVars, history
  <2>2. TypeOK' /\ WordLocked' /\ HoldsCounted'
    BY <2>1 DEF MutexInv, TypeOK, WordLocked, Keeps, HoldsCounted, Locking, Recursive
  <2>3. Recorded' /\ Unused' /\ StateTells'
    BY <2>1 DEF MutexInv, Recorded, Normal, Robust, Recursive, Unused, StateTells
  <2> QED
    BY <2>2, <2>3 DEF MutexInv
<1>2. CASE Next
  <2> SUFFICES ASSUME NEW t \in Threads,
                      \/ \E h \in {"lock", "try", "timed"} : Call(t, h)
                      \/ InCall(t) \/ Unlock(t) \/ Consistent(t) \/ Die(t) \/ Destroy(t)
               PROVE  MutexInv'
    BY <1>2 DEF Next
  <2>1. CASE \E h \in {"lock", "try", "timed"} : Call(t, h)
    BY <2>1, CallStep
  <2>2. CASE InCall(t)
    <3>1. Signal(t) => pc[t] \in {"signal", "dying"}
      BY DEF Signal
    <3> QED
      BY <2>2, <3>1, FirstTryStep, InheritStep, MarkStep, WaitStep, ReleaseStep, EndStep DEF InCall
  <2>3. CASE Unlock(t) \/ Die(t) \/ Consistent(t) \/ Destroy(t)
    BY <2>3, UnlockStep, DieStep, EndStep
  <2> QED
    BY <2>1, <2>2, <2>3
<1> QED
  BY <1>1, <1>2

LEMMA MutexAlways == NoBlindTimedLock => (Spec => []MutexInv)
<1>1. NoBlindTimedLock => (Init /\ [][Next]_vars => []MutexInv)
  <2> SUFFICES ASSUME NoBlindTimedLock PROVE Init /\ [][Next]_vars => []MutexInv
    OBVIOUS
  <2>1. MutexInv /\ [Next]_vars => MutexInv'
    BY MutexNextInv
  <2> QED
    BY <2>1, MutexInitInv, PTL
<1> QED
  BY <1>1 DEF Spec

-----------------------------------------------------------------------------
(* The theorems *)

\* A mutex of any type is held by one thread at a time, and by the one that it has
\* recorded as its owner, so that this thread alone can unlock it and its death is
\* noticed (pthread_mutex_lock.c, _trylock.c, _timedlock.c, _unlock.c, _destroy.c).
THEOREM MutexHeldByOwner == NoBlindTimedLock => (Spec => []HeldByOwner)
<1>1. MutexInv => HeldByOwner
  <2> SUFFICES ASSUME MutexInv PROVE HeldByOwner
    OBVIOUS
  <2>1. OneHolder
    <3>1. Cardinality(Lockers) <= 1
      <4>1. CASE Lockers = {}
        BY <4>1, FS_EmptySet
      <4>2. CASE Lockers # {}
        <5>1. PICK t \in Lockers : TRUE
          BY <4>2
        <5>2. Lockers = {t}
          BY <5>1 DEF Lockers, MutexInv, WordLocked, Keeps
        <5>3. Cardinality({t}) = 1
          BY FS_Singleton
        <5> QED
          BY <5>2, <5>3
      <4> QED
        BY <4>1, <4>2
    <3>2. Lockers # {} => idx # 0
      BY DEF Lockers, MutexInv, WordLocked, Keeps
    <3>3. mutex = "freed" /\ ~(Robust /\ Recursive) /\ state # "notrecoverable" => Lockers = {}
      BY DEF Lockers, MutexInv, Unused, TypeOK
    <3> QED
      BY <3>1, <3>2, <3>3 DEF OneHolder
  <2>2. OwnerRecorded
    BY DEF OwnerRecorded, Lockers, MutexInv, Recorded
  <2> QED
    BY <2>1, <2>2 DEF HeldByOwner, MutexInv
<1> QED
  BY <1>1, MutexAlways, PTL

\* After a thread died with a robust mutex, nobody gets it and is told 0 before it
\* was made consistent, but for one that nobody can recover any more
\* (ptw32_robust_mutex_inherit, pthread_win32_thread_detach_np).
THEOREM DeathsAlwaysNoticed == NoBlindTimedLock => (Spec => []DeathNoticed)
<1>1. MutexInv => DeathNoticed
  BY DEF MutexInv, StateTells, DeathNoticed
<1> QED
  BY <1>1, MutexAlways, PTL

-----------------------------------------------------------------------------
(* Mutexes: who wakes those that wait *)

\* No thread has died, or is about to.
Living == \A t \in Threads : pc[t] \notin {"dying", "dead"}

\* A thread on its way to the mark -1, or to wake another that is.
Rouses(t) ==
  pc[t] \in {"signal", "mark", "recheck"} \/ (pc[t] = "inherit" /\ how[t] # "try")

\* Who sleeps is not in trylock, and a spin lock has no event.
Sleeping ==
  \A t \in Threads :
    /\ pc[t] \in {"mark", "sleep", "recheck"} => how[t] # "try" /\ type.kind # "spin"
    /\ pc[t] \in {"inherit", "recheck"} => Robust

\* While all live, a word that is not 0 is that of a thread, and a thread sleeps
\* only while the word is marked, or the event or another thread is on its way.
Watched ==
  Living =>
    /\ state = "consistent" /\ \A t \in Threads : pc[t] # "next"
    /\ idx # 0 => \E t \in Threads : holds[t] > 0 \/ pc[t] = "release"
    /\ (\E t \in Threads : pc[t] = "sleep") => event \/ idx = -1 \/ \E t \in Threads : Rouses(t)

\* The death of an owner is told, or was told to a thread that will inherit.
DeathTold == state = "dead" => event \/ \E t \in Threads : pc[t] \in {"dying", "recheck", "inherit"}

WakeInv == Sleeping /\ Watched /\ DeathTold

LEMMA SleepingKept ==
  ASSUME MutexInv, Sleeping, NEW t \in Threads,
         \/ \E h \in {"lock", "try", "timed"} : Call(t, h)
         \/ InCall(t) \/ Unlock(t) \/ Consistent(t) \/ Die(t) \/ Destroy(t)
  PROVE  Sleeping'
<1>0. Robust => type.kind # "spin"
  BY MutexAssumption DEF MutexInv, TypeOK, Robust
<1>1. /\ \A u \in Threads \ {t} : pc'[u] = pc[u] /\ how'[u] = how[u]
      /\ type' = type
      /\ pc'[t] \in {"mark", "sleep", "recheck"} => how'[t] # "try" /\ type.kind # "spin"
      /\ pc'[t] \in {"inherit", "recheck"} => Robust
  <2>1. CASE \E h \in {"lock", "try", "timed"} : Call(t, h)
    BY <2>1 DEF Call, Goto, MutexInv, TypeOK
  <2>2. CASE CheckNeedInit(t) \/ CheckState(t) \/ Wakes(t) \/ TimeOut(t) \/ Recheck(t)
             \/ UnblockNext(t) \/ ReleaseWord(t) \/ Signal(t)
    BY <2>2 DEF CheckNeedInit, CheckState, Wakes, TimeOut, Recheck, UnblockNext, ReleaseWord,
         Signal, Returns, Goto, MutexInv, TypeOK, Sleeping
  <2>3. CASE FirstTry(t)
    BY <2>3 DEF FirstTry, Got, Locked, Returns, Goto, MutexInv, TypeOK, Sleeping, Normal, Robust,
         Recursive
  <2>4. CASE Inherit(t) \/ Mark(t)
    BY <1>0, <2>4 DEF Inherit, Mark, Got, Returns, Goto, MutexInv, TypeOK, StateTells, Sleeping, Normal,
         Recursive
  <2>5. CASE Unlock(t) \/ Consistent(t) \/ Die(t) \/ Destroy(t)
    BY <2>5 DEF Unlock, Consistent, Die, Destroy, MayUnlock, Returns, Goto, MutexInv, TypeOK
  <2> QED
    BY <2>1, <2>2, <2>3, <2>4, <2>5 DEF InCall
<1> QED
  BY <1>1 DEF Sleeping, Robust

LEMMA WatchedKept ==
  ASSUME MutexInv, Sleeping, Watched, NEW t \in Threads,
         \/ \E h \in {"lock", "try", "timed"} : Call(t, h)
         \/ InCall(t) \/ Unlock(t) \/ Consistent(t) \/ Die(t) \/ Destroy(t)
  PROVE  Watched'
<1> SUFFICES ASSUME Living'
             PROVE  /\ state' = "consistent" /\ \A u \in Threads : pc'[u] # "next"
                    /\ idx' # 0 => \E u \in Threads : holds'[u] > 0 \/ pc'[u] = "release"
                    /\ (\E u \in Threads : pc'[u] = "sleep")
                         => event' \/ idx' = -1 \/ \E u \in Threads : Rouses(u)'
  BY DEF Watched
<1>0. /\ DOMAIN pc = Threads /\ holds \in [Threads -> Nat] /\ idx \in -1 .. 1
      /\ ~Normal => \A u \in Threads : holds[u] > 0 => count = holds[u]
  BY DEF MutexInv, TypeOK, Recorded
<1>1. /\ \A u \in Threads \ {t} : pc'[u] = pc[u] /\ how'[u] = how[u] /\ holds'[u] = holds[u]
      /\ type' = type
  BY DEF Call, InCall, CheckNeedInit, CheckState, FirstTry, Inherit, Mark, Wakes, TimeOut, Recheck,
     UnblockNext, ReleaseWord, Signal, Unlock, Consistent, Die, Destroy, Got, Locked, Returns, Goto,
     MutexInv, TypeOK, history, ownerVars
<1>2. Living
  BY <1>0, <1>1 DEF Living, Call, InCall, CheckNeedInit, CheckState, FirstTry, Inherit, Mark, Wakes,
     TimeOut, Recheck, UnblockNext, ReleaseWord, Signal, Unlock, MayUnlock, Consistent, Die,
     Destroy, Goto
<1>3. /\ state = "consistent" /\ \A u \in Threads : pc[u] # "next"
      /\ idx # 0 => \E u \in Threads : holds[u] > 0 \/ pc[u] = "release"
      /\ (\E u \in Threads : pc[u] = "sleep") => event \/ idx = -1 \/ \E u \in Threads : Rouses(u)
  BY <1>2 DEF Watched
<1>4. CASE (\E h \in {"lock", "try", "timed"} : Call(t, h)) \/ CheckNeedInit(t) \/ CheckState(t)
  <2>1. /\ UNCHANGED <<idx, event, state, holds>> /\ (how[t] = how'[t] \/ pc[t] = "idle")
        /\ pc[t] \in {"idle", "init", "check"} /\ pc'[t] \in {"init", "check", "first", "idle"}
    BY <1>0, <1>3, <1>4 DEF Call, CheckNeedInit, CheckState, Goto, wordVars, history
  <2>2. \A u \in Threads : Rouses(u) => Rouses(u)'
    BY <1>1, <2>1 DEF Rouses
  <2>3. \A u \in Threads : /\ pc'[u] \in {"sleep", "next"} => pc[u] = pc'[u]
                           /\ pc[u] = "release" => pc'[u] = "release"
    BY <1>1, <2>1
  <2> QED
    BY <1>3, <2>1, <2>2, <2>3
<1>5. CASE FirstTry(t)
  <2>1. CASE idx = 0
    <3>1. /\ pc[t] = "first" /\ pc'[t] = "idle" /\ idx' = 1 /\ holds'[t] > 0
          /\ UNCHANGED <<event, state>>
      BY <1>0, <1>5, <2>1 DEF FirstTry, Got, Returns, Goto
    <3>2. \A u \in Threads : Rouses(u) => Rouses(u)'
      BY <1>1, <3>1 DEF Rouses
    <3> QED
      BY <1>1, <1>3, <2>1, <3>1, <3>2
  <2>2. CASE idx # 0
    <3>1. /\ pc[t] = "first" /\ pc'[t] \in {"idle", "inherit", "first", "mark"}
          /\ idx' = idx \/ (pc'[t] \in {"inherit", "mark"} /\ how'[t] # "try")
          /\ holds[t] > 0 => holds'[t] > 0
          /\ UNCHANGED <<event, state>>
      <4>1. pc[t] = "first" /\ Locked(t) /\ UNCHANGED <<event, state, type, how>>
            /\ idx' = IF type.kind = "normal" /\ how[t] # "try" THEN 1 ELSE idx
        BY <1>5, <2>2 DEF FirstTry
      <4>2. CASE owner = t /\ ~Normal /\ (how[t] # "try" \/ Recursive)
        <5>1. pc' = [pc EXCEPT ![t] = "idle"] /\ type.kind # "normal"
              /\ holds' = [holds EXCEPT ![t] = IF Recursive THEN @ + 1 ELSE @]
          BY <4>1, <4>2 DEF Locked, Returns, Goto, Normal
        <5>2. pc'[t] = "idle" /\ (holds'[t] = holds[t] \/ holds'[t] = holds[t] + 1)
          BY <1>0, <5>1
        <5> QED
          BY <1>0, <4>1, <5>1, <5>2
      <4>3. CASE ~(owner = t /\ ~Normal /\ (how[t] # "try" \/ Recursive))
        <5>1. /\ pc' = [pc EXCEPT ![t] = IF how[t] = "try"
                                         THEN IF Robust THEN "inherit" ELSE "idle"
                                         ELSE IF type.kind = "spin" THEN "first"
                                         ELSE IF Robust THEN "inherit" ELSE "mark"]
              /\ holds' = holds
          BY <4>1, <4>3 DEF Locked, Goto, history
        <5> QED
          BY <1>0, <4>1, <5>1
      <4> QED
        BY <4>2, <4>3
    <3>2. \A u \in Threads : Rouses(u) => Rouses(u)'
      BY <1>1, <3>1 DEF Rouses
    <3>3. pc'[t] \in {"inherit", "mark"} /\ how'[t] # "try" => Rouses(t)'
      BY DEF Rouses
    <3>4. \A u \in Threads : holds[u] > 0 \/ pc[u] = "release" => holds'[u] > 0 \/ pc'[u] = "release"
      BY <1>0, <1>1, <3>1
    <3> QED
      BY <1>1, <1>3, <2>2, <3>1, <3>2, <3>3, <3>4
  <2> QED
    BY <2>1, <2>2
<1>6. CASE Inherit(t)
  <2>1. /\ pc[t] = "inherit" /\ pc'[t] = (IF how[t] = "try" THEN "idle" ELSE "mark")
        /\ UNCHANGED <<idx, event, state, holds>>
    BY <1>0, <1>3, <1>6 DEF Inherit, Goto, wordVars, history
  <2>2. \A u \in Threads : Rouses(u) => Rouses(u)'
    BY <1>1, <2>1 DEF Rouses
  <2> QED
    BY <1>1, <1>3, <2>1, <2>2
<1>7. CASE Mark(t)
  <2>1. /\ pc[t] = "mark" /\ idx' = -1 /\ UNCHANGED <<event, state>>
        /\ IF idx = 0 THEN pc'[t] = "idle" /\ holds'[t] > 0
                      ELSE pc'[t] = "sleep" /\ holds' = holds
    BY <1>0, <1>3, <1>7 DEF Mark, Got, Returns, Goto, history
  <2> QED
    BY <1>1, <1>3, <2>1
<1>8. CASE Wakes(t) \/ Recheck(t)
  <2>1. /\ pc[t] \in {"sleep", "recheck"} /\ pc'[t] \in {"mark", "inherit", "recheck"}
        /\ UNCHANGED <<idx, state, holds>> /\ how'[t] # "try"
    BY <1>0, <1>1, <1>3, <1>8 DEF Wakes, Recheck, Goto, wordVars, history, Sleeping
  <2>2. Rouses(t)'
    BY <2>1 DEF Rouses
  <2> QED
    BY <1>1, <1>3, <2>1, <2>2
<1>9. CASE TimeOut(t) \/ UnblockNext(t)
  <2>1. pc[t] = "sleep" /\ pc'[t] = "idle" /\ UNCHANGED <<idx, event, state, holds, how>>
    BY <1>0, <1>3, <1>9 DEF TimeOut, UnblockNext, Returns, Goto, wordVars, history
  <2>2. \A u \in Threads : Rouses(u) => Rouses(u)'
    BY <1>1, <2>1 DEF Rouses
  <2> QED
    BY <1>1, <1>3, <2>1, <2>2
<1>10. CASE ReleaseWord(t) \/ Signal(t)
  <2>1. CASE ReleaseWord(t)
    <3>1. /\ pc[t] = "release" /\ idx' = 0 /\ UNCHANGED <<event, state, holds, how>>
          /\ IF idx = -1 THEN pc'[t] = "signal" ELSE pc'[t] = "idle"
      BY <1>0, <2>1 DEF ReleaseWord, Goto, history
    <3>2. \A u \in Threads : Rouses(u) => Rouses(u)'
      BY <1>1, <3>1 DEF Rouses
    <3>3. pc'[t] = "signal" => Rouses(t)'
      BY DEF Rouses
    <3> QED
      BY <1>1, <1>3, <3>1, <3>2, <3>3
  <2>2. CASE Signal(t)
    <3>1. pc[t] = "signal" /\ pc'[t] = "idle" /\ event' /\ UNCHANGED <<idx, state, holds>>
      BY <1>0, <1>2, <2>2 DEF Signal, Goto, Living, history
    <3> QED
      BY <1>1, <1>3, <3>1
  <2> QED
    BY <1>10, <2>1, <2>2
<1>11. CASE Unlock(t)
  <2>1. /\ pc[t] = "idle" /\ UNCHANGED <<idx, event, state, how>>
        /\ pc'[t] = "release" \/ (pc'[t] = "idle" /\ holds'[t] > 0)
    BY <1>0, <1>3, <1>11 DEF Unlock, MayUnlock, Returns, Goto, wordVars, Recursive, Normal
  <2>2. \A u \in Threads : Rouses(u) => Rouses(u)'
    BY <1>1, <2>1 DEF Rouses
  <2> QED
    BY <1>1, <1>3, <2>1, <2>2
<1>12. CASE Consistent(t) \/ Die(t) \/ Destroy(t)
  <2>1. /\ ~Consistent(t) /\ ~Die(t) /\ UNCHANGED <<pc, how, idx, event, state, holds>>
    BY <1>0, <1>3, <1>12 DEF Consistent, Die, Destroy, Goto, Living, wordVars, history
  <2>2. \A u \in Threads : Rouses(u)' <=> Rouses(u)
    BY <2>1 DEF Rouses
  <2> QED
    BY <1>1, <1>3, <2>1, <2>2
<1> QED
  BY <1>4, <1>5, <1>6, <1>7, <1>8, <1>9, <1>10, <1>11, <1>12 DEF InCall

LEMMA DeathToldKept ==
  ASSUME MutexInv, Sleeping, DeathTold, NEW t \in Threads,
         \/ \E h \in {"lock", "try", "timed"} : Call(t, h)
         \/ InCall(t) \/ Unlock(t) \/ Consistent(t) \/ Die(t) \/ Destroy(t)
  PROVE  DeathTold'
<1> SUFFICES ASSUME state' = "dead"
             PROVE  event' \/ \E u \in Threads : pc'[u] \in {"dying", "recheck", "inherit"}
  BY DEF DeathTold
<1> DEFINE Tells(u) == pc[u] \in {"dying", "recheck", "inherit"}
<1>0. DOMAIN pc = Threads /\ (state = "dead" => Robust /\ idx # 0)
  BY DEF MutexInv, TypeOK, StateTells, WordLocked
<1>1. CASE Die(t) /\ state # "dead"
  BY <1>0, <1>1 DEF Die, Goto
<1>2. CASE state = "dead"
  <2>1. event \/ \E u \in Threads : Tells(u)
    BY <1>2 DEF DeathTold
  <2>2. /\ \A u \in Threads \ {t} : pc'[u] = pc[u]
        /\ event' \/ (event' = event /\ (Tells(t) => Tells(t)')) \/ Tells(t)'
    <3>1. CASE \E h \in {"lock", "try", "timed"} : Call(t, h)
      BY <1>0, <3>1 DEF Call, Goto, wordVars
    <3>2. CASE CheckNeedInit(t) \/ CheckState(t) \/ TimeOut(t) \/ UnblockNext(t) \/ ReleaseWord(t)
               \/ Signal(t)
      BY <1>0, <3>2 DEF CheckNeedInit, CheckState, TimeOut, UnblockNext, ReleaseWord, Signal,
         Returns, Goto, wordVars
    <3>3. CASE Wakes(t) \/ Recheck(t)
      BY <1>0, <1>2, <3>3 DEF Wakes, Recheck, Goto, wordVars
    <3>4. CASE FirstTry(t) \/ Mark(t)
      BY <1>0, <3>4 DEF FirstTry, Mark, Got, Locked, Returns, Goto
    <3>5. CASE Inherit(t)
      BY <1>2, <3>5 DEF Inherit
    <3>6. CASE Unlock(t) \/ Consistent(t) \/ Die(t) \/ Destroy(t)
      BY <1>0, <3>6 DEF Unlock, MayUnlock, Consistent, Die, Destroy, Returns, Goto, wordVars
    <3> QED
      BY <3>1, <3>2, <3>3, <3>4, <3>5, <3>6 DEF InCall
  <2> QED
    BY <2>1, <2>2
<1>3. CASE ~Die(t) /\ state # "dead"
  BY <1>3 DEF Call, InCall, CheckNeedInit, CheckState, FirstTry, Inherit, Mark, Wakes, TimeOut,
     Recheck, UnblockNext, ReleaseWord, Signal, Unlock, Consistent, Destroy
<1> QED
  BY <1>1, <1>2, <1>3

LEMMA WakeInvHolds == NoBlindTimedLock => (Spec => [](MutexInv /\ WakeInv))
<1>1. Init => WakeInv
  BY DEF Init, NoCalls, WakeInv, Sleeping, Watched, DeathTold
<1>2. MutexInv /\ WakeInv /\ [Next]_vars => WakeInv'
  <2> SUFFICES ASSUME MutexInv, WakeInv, [Next]_vars PROVE WakeInv'
    OBVIOUS
  <2>1. CASE UNCHANGED vars
    BY <2>1 DEF vars, wordVars, ownerVars, history, WakeInv, Sleeping, Robust, Watched, Living,
       Rouses, DeathTold
  <2>2. CASE Next
    <3>1. PICK t \in Threads :
            \/ \E h \in {"lock", "try", "timed"} : Call(t, h)
            \/ InCall(t) \/ Unlock(t) \/ Consistent(t) \/ Die(t) \/ Destroy(t)
      BY <2>2 DEF Next
    <3> QED
      BY <3>1, SleepingKept, WatchedKept, DeathToldKept DEF WakeInv
  <2> QED
    BY <2>1, <2>2
<1>3. NoBlindTimedLock => (Init /\ [][Next]_vars => [](MutexInv /\ WakeInv))
  <2> SUFFICES ASSUME NoBlindTimedLock PROVE Init /\ [][Next]_vars => [](MutexInv /\ WakeInv)
    OBVIOUS
  <2>1. MutexInv /\ [Next]_vars => MutexInv'
    BY MutexNextInv
  <2> QED
    BY <1>1, <1>2, <2>1, MutexInitInv, PTL
<1> QED
  BY <1>3 DEF Spec

\* Nobody sleeps for a mutex that nobody holds, whoever barges in, times out or
\* tries, for any number of threads: while none has died, and when one has died
\* with the mutex and no other has learned of it.  GoesOn says of the steps of a
\* call that they can be taken.
THEOREM SleepersAlwaysWoken ==
  NoBlindTimedLock => (Spec => [](WokenByTheLiving /\ (GoesOn => NobodyStranded)))
<1>1. MutexInv /\ WakeInv => WokenByTheLiving
  <2> SUFFICES ASSUME MutexInv, WakeInv, AtRest, InCalls # {},
                      state = "dead" \/ \A t \in Threads : pc[t] # "dead"
               PROVE  FALSE
    BY DEF WokenByTheLiving, WaitersWoken
  <2>1. PICK t \in InCalls : Blocked(t) /\ t \in Threads
    BY DEF AtRest, InCalls
  <2>2. \A u \in Threads : ~(holds[u] > 0)
    BY DEF AtRest, Lockers
  <2>3. \A u \in Threads : pc[u] \in {"idle", "dead", "first", "sleep"}
    BY DEF AtRest, InCalls, Blocked
  <2>4. CASE state = "dead"
    <3>1. Robust /\ type.kind # "spin"
      BY <2>4, MutexAssumption DEF MutexInv, TypeOK, StateTells, Robust
    <3>2. ~event
      BY <2>1, <3>1 DEF Blocked
    <3> QED
      BY <2>3, <2>4, <3>2 DEF WakeInv, DeathTold
  <2>5. CASE state # "dead"
    <3>1. Living
      BY <2>3, <2>5 DEF Living
    <3>2. idx = 0
      BY <2>2, <2>3, <3>1 DEF WakeInv, Watched
    <3>3. pc[t] = "sleep" /\ ~event
      BY <2>1, <3>2 DEF Blocked
    <3>4. \A u \in Threads : ~Rouses(u)
      BY <2>3 DEF Rouses
    <3> QED
      BY <2>1, <3>1, <3>2, <3>3, <3>4 DEF WakeInv, Watched
  <2> QED
    BY <2>4, <2>5
<1>2. WokenByTheLiving => (GoesOn => NobodyStranded)
  BY DEF NobodyStranded
<1> QED
  BY <1>1, <1>2, WakeInvHolds, PTL

-----------------------------------------------------------------------------
(* A mutex that is not robust implements the abstract lock.  (A robust one     *)
(* may be destroyed under the thread that has it: Destroy.)                    *)

NoneRobust == \A m \in Types : ~m.robust

\* The holder of the abstract lock is the thread that has locked the mutex, once
\* or more; the lock is there from the initialiser to pthread_mutex_destroy.
MutexHolder == IF Lockers = {} THEN NoThread ELSE CHOOSE t \in Threads : t \in Lockers
MutexThere == mutex \in {"static", "valid"}

MutexLock == INSTANCE LockSpec WITH holder <- MutexHolder, exists <- MutexThere

\* Nobody gets past the initialisation of a static mutex before it is done, or
\* when the mutex was destroyed instead.
MadeFirst ==
  mutex \in {"static", "null"} =>
    \A t \in Threads : pc[t] \in {"idle", "init", "dead"} /\ holds[t] = 0

LEMMA MadeFirstKept == NoneRobust /\ MutexInv /\ MadeFirst /\ [Next]_vars => MadeFirst'
<1> SUFFICES ASSUME NoneRobust, MutexInv, MadeFirst, [Next]_vars PROVE MadeFirst'
  OBVIOUS
<1>1. CASE UNCHANGED vars
  BY <1>1 DEF vars, history, MadeFirst
<1>2. CASE Next
  <2>1. ~Robust
    BY DEF NoneRobust, MutexInv, TypeOK, Robust
  <2>2. PICK t \in Threads :
          \/ \E h \in {"lock", "try", "timed"} : Call(t, h)
          \/ InCall(t) \/ Unlock(t) \/ Consistent(t) \/ Die(t) \/ Destroy(t)
    BY <1>2 DEF Next
  \* No other step changes the mutex, and no thread that takes one is outside.
  <2>3. ASSUME mutex' = mutex, pc[t] \notin {"idle", "init", "dead"}
        PROVE  MadeFirst'
    BY <2>3 DEF MadeFirst
  <2>4. CASE \E h \in {"lock", "try", "timed"} : Call(t, h)
    <3>1. UNCHANGED <<mutex, holds>>
      BY <2>4 DEF Call, history
    <3>2. pc' = [pc EXCEPT ![t] = IF mutex = "static" THEN "init" ELSE "first"] /\ mutex # "null"
      BY <2>1, <2>4 DEF Call, Goto
    <3> QED
      BY <3>1, <3>2 DEF MadeFirst, MutexInv, TypeOK
  <2>5. CASE CheckNeedInit(t)
    <3>1. UNCHANGED holds
      BY <2>5 DEF CheckNeedInit, history
    <3>2. mutex' # "static" /\ (mutex' = "null" => mutex = "null")
      BY <2>5 DEF CheckNeedInit
    <3>3. mutex = "null" => pc' = [pc EXCEPT ![t] = "idle"]
      BY <2>5 DEF CheckNeedInit, Goto
    <3> QED
      BY <3>1, <3>2, <3>3 DEF MadeFirst, MutexInv, TypeOK
  <2>6. CASE CheckState(t)
    BY <2>3, <2>6 DEF CheckState
  <2>7. CASE FirstTry(t)
    BY <2>3, <2>7 DEF FirstTry
  <2>8. CASE Inherit(t)
    BY <2>3, <2>8 DEF Inherit
  <2>9. CASE Mark(t)
    BY <2>3, <2>9 DEF Mark
  <2>10. CASE Wakes(t) \/ TimeOut(t) \/ Recheck(t) \/ UnblockNext(t)
    BY <2>3, <2>10 DEF Wakes, TimeOut, Recheck, UnblockNext
  <2>11. CASE ReleaseWord(t) \/ Signal(t)
    BY <2>3, <2>11 DEF ReleaseWord, Signal
  <2>12. CASE Unlock(t)
    BY <2>12 DEF Unlock, MayUnlock, MadeFirst
  <2>13. CASE Consistent(t)
    <3>1. holds[t] # 0 /\ mutex' = mutex
      BY <2>13 DEF Consistent, MutexInv, TypeOK
    <3> QED
      BY <3>1 DEF MadeFirst
  <2>14. CASE Die(t)
    BY <2>1, <2>14 DEF Die
  <2>15. CASE Destroy(t)
    <3>1. UNCHANGED <<pc, holds>> /\ (mutex' \in {"static", "null"} => mutex = "static")
      BY <2>15 DEF Destroy, history
    <3> QED
      BY <3>1 DEF MadeFirst
  <2> QED
    BY <2>2, <2>4, <2>5, <2>6, <2>7, <2>8, <2>9, <2>10, <2>11, <2>12, <2>13, <2>14, <2>15
       DEF InCall
<1> QED
  BY <1>1, <1>2

\* What the abstract lock sees of a step.
LEMMA MutexImplements ==
  ASSUME NoneRobust, MutexInv, MutexInv', MadeFirst, [Next]_vars
  PROVE  MutexLock!Next \/ UNCHANGED <<MutexHolder, MutexThere>>
<1>1. ~Robust /\ state = "consistent" /\ NoThread \notin Threads
  BY CallsAssumption DEF NoneRobust, MutexInv, TypeOK, StateTells, Robust
<1>2. holds \in [Threads -> Nat] /\ holds' \in [Threads -> Nat]
  BY CallsAssumption DEF MutexInv, TypeOK
<1>3. \A u \in Lockers : Lockers = {u} /\ MutexHolder = u
  BY DEF MutexInv, WordLocked, Keeps, Lockers, MutexHolder
<1>4. idx = 0 => Lockers = {}
  BY DEF MutexInv, WordLocked, Keeps, Lockers
\* Nothing changes for the lock.
<1>5. ASSUME UNCHANGED <<holds, MutexThere>> PROVE UNCHANGED <<MutexHolder, MutexThere>>
  BY <1>5 DEF MutexHolder, Lockers
<1>6. CASE UNCHANGED vars
  BY <1>5, <1>6 DEF vars, history, MutexThere
<1>7. CASE Next
  <2>1. PICK t \in Threads :
          \/ \E h \in {"lock", "try", "timed"} : Call(t, h)
          \/ InCall(t) \/ Unlock(t) \/ Consistent(t) \/ Die(t) \/ Destroy(t)
    BY <1>7 DEF Next
  \* t locks the mutex that nobody has.
  <2>2. ASSUME idx = 0, mutex = "valid", mutex' = mutex, holds' = [holds EXCEPT ![t] = @ + 1]
        PROVE  MutexLock!Next
    <3>1. Lockers = {} /\ MutexHolder = NoThread
      BY <1>4, <2>2 DEF MutexHolder
    <3>2. holds[t] + 1 > 0 /\ \A u \in Threads : ~(holds[u] > 0)
      BY <1>2, <3>1 DEF Lockers
    <3>3. Lockers' = {t}
      BY <1>2, <2>2, <3>2 DEF Lockers
    <3>4. MutexHolder' = t
      BY <3>3 DEF MutexHolder
    <3> QED
      BY <2>2, <3>1, <3>4 DEF MutexLock!Next, MutexLock!Acquire, MutexThere
  \* t counts, or counts back, and has it as before.
  <2>3. ASSUME holds[t] > 0, mutex' = mutex, NEW n \in Nat, n > 0, holds' = [holds EXCEPT ![t] = n]
        PROVE  UNCHANGED <<MutexHolder, MutexThere>>
    <3>1. Lockers' = Lockers
      BY <1>2, <2>3 DEF Lockers
    <3> QED
      BY <2>3, <3>1 DEF MutexHolder, MutexThere
  \* Who is past the initialisation finds the mutex made.
  <2>4. ASSUME pc[t] \in {"first", "mark"} PROVE mutex = "valid"
    BY <2>4 DEF MadeFirst, MutexInv, TypeOK, Unused
  <2>5. CASE \E h \in {"lock", "try", "timed"} : Call(t, h)
    BY <1>5, <2>5 DEF Call, history, MutexThere
  <2>6. CASE CheckNeedInit(t)
    BY <1>5, <2>6 DEF CheckNeedInit, history, MutexThere
  <2>7. CASE FirstTry(t)
    <3>1. mutex = "valid" /\ mutex' = mutex
      BY <2>4, <2>7 DEF FirstTry
    <3>2. CASE idx = 0
      BY <2>2, <2>7, <3>1, <3>2 DEF FirstTry, Got
    <3>3. CASE idx # 0 /\ owner = t /\ Recursive /\ holds' # holds
      <4>1. holds[t] > 0
        BY <2>7, <3>3 DEF FirstTry, MutexInv, Recorded
      <4>2. holds' = [holds EXCEPT ![t] = @ + 1]
        BY <2>7, <3>3 DEF FirstTry, Locked, history
      <4>3. holds[t] + 1 \in Nat /\ holds[t] + 1 > 0
        BY <1>2, <4>1
      <4> QED
        BY <2>3, <3>1, <4>1, <4>2, <4>3
    <3>4. CASE idx # 0 /\ ~(owner = t /\ Recursive /\ holds' # holds)
      <4>1. holds' = holds
        BY <1>2, <2>7, <3>4 DEF FirstTry, Locked, history
      <4> QED
        BY <1>5, <3>1, <4>1 DEF MutexThere
    <3> QED
      BY <3>2, <3>3, <3>4
  <2>8. CASE Mark(t)
    <3>1. mutex = "valid" /\ mutex' = mutex
      BY <2>4, <2>8 DEF Mark
    <3>2. CASE idx = 0
      BY <1>1, <2>2, <2>8, <3>1, <3>2 DEF Mark, Got
    <3>3. CASE idx # 0
      BY <1>5, <2>8, <3>1, <3>3 DEF Mark, history, MutexThere
    <3> QED
      BY <3>2, <3>3
  <2>9. CASE Inherit(t)
    BY <1>1, <1>5, <2>9 DEF Inherit, history, MutexThere
  <2>10. CASE CheckState(t) \/ Wakes(t) \/ TimeOut(t) \/ Recheck(t) \/ UnblockNext(t)
              \/ ReleaseWord(t) \/ Signal(t) \/ Consistent(t)
    BY <1>5, <2>10
       DEF CheckState, Wakes, TimeOut, Recheck, UnblockNext, ReleaseWord, Signal, Consistent,
           history, MutexThere
  \* Who unlocks has it; a recursive one goes with the last time.
  <2>11. CASE Unlock(t)
    <3>1. holds[t] > 0 /\ mutex' = mutex /\ holds' = [holds EXCEPT ![t] = @ - 1]
      BY <2>11 DEF Unlock, MayUnlock
    <3>2. CASE holds[t] > 1
      <4>1. holds[t] - 1 \in Nat /\ holds[t] - 1 > 0
        BY <1>2, <3>2
      <4> QED
        BY <2>3, <3>1, <4>1
    <3>3. CASE ~(holds[t] > 1)
      <4>1. holds[t] - 1 = 0
        BY <1>2, <3>1, <3>3
      <4>2. Lockers = {t} /\ MutexHolder = t
        BY <1>3, <3>1 DEF Lockers
      <4>3. Lockers' = {}
        BY <1>2, <3>1, <4>1, <4>2 DEF Lockers
      <4>4. MutexHolder' = NoThread
        BY <4>3 DEF MutexHolder
      <4> QED
        BY <3>1, <4>2, <4>4 DEF MutexLock!Next, MutexLock!Release, MutexThere
    <3> QED
      BY <3>2, <3>3
  <2>12. CASE Die(t)
    BY <1>1, <2>12 DEF Die
  \* It ends while nobody has it.
  <2>13. CASE Destroy(t)
    <3>1. UNCHANGED holds /\ mutex \in {"static", "valid"} /\ mutex' \in {"null", "freed"}
      BY <2>13 DEF Destroy, history
    <3>2. Lockers = {}
      <4>1. mutex = "static" \/ idx = 0
        BY <1>1, <2>13 DEF Destroy
      <4> QED
        BY <1>2, <1>4, <4>1 DEF MadeFirst, Lockers
    <3>3. MutexHolder = NoThread /\ MutexHolder' = NoThread
      BY <3>1, <3>2 DEF MutexHolder, Lockers
    <3> QED
      BY <3>1, <3>3 DEF MutexLock!Next, MutexLock!Destroy, MutexThere
  <2> QED
    BY <2>1, <2>5, <2>6, <2>7, <2>8, <2>9, <2>10, <2>11, <2>12, <2>13 DEF InCall
<1> QED
  BY <1>6, <1>7

\* A mutex that is not robust, of any type, static or not, with barging, timeouts
\* and tries, is one lock: one thread has it at a time, and gives it back itself,
\* and pthread_mutex_destroy ends it only while nobody has it.
THEOREM MutexImplemented == NoneRobust => (Spec => MutexLock!Spec)
<1>1. NoneRobust => NoBlindTimedLock
  BY DEF NoneRobust, NoBlindTimedLock, RobustNormal
<1>2. Init => MutexLock!Init /\ MadeFirst
  <2> SUFFICES ASSUME Init PROVE MutexLock!Init /\ MadeFirst
    OBVIOUS
  <2>1. Lockers = {} /\ MadeFirst /\ MutexThere
    BY DEF Init, NoCalls, Lockers, MadeFirst, MutexThere
  <2> QED
    BY <2>1 DEF MutexLock!Init, MutexHolder
<1>3. NoneRobust => (Spec => [](MutexInv /\ MadeFirst))
  <2> SUFFICES ASSUME NoneRobust PROVE Init /\ [][Next]_vars => [](MutexInv /\ MadeFirst)
    BY DEF Spec
  <2>1. MutexInv /\ MadeFirst /\ [Next]_vars => (MutexInv /\ MadeFirst)'
    BY <1>1, MutexNextInv, MadeFirstKept
  <2> QED
    BY <2>1, <1>2, MutexInitInv, PTL
<1>4. NoneRobust => ([](MutexInv /\ MadeFirst) /\ [][Next]_vars
                       => [][MutexLock!Next]_<<MutexHolder, MutexThere>>)
  <2> SUFFICES ASSUME NoneRobust
               PROVE  [](MutexInv /\ MadeFirst) /\ [][Next]_vars
                        => [][MutexLock!Next]_<<MutexHolder, MutexThere>>
    OBVIOUS
  <2>1. MutexInv /\ MadeFirst /\ MutexInv' /\ [Next]_vars
          => [MutexLock!Next]_<<MutexHolder, MutexThere>>
    BY MutexImplements
  <2> QED
    BY <2>1, PTL
<1> QED
  BY <1>2, <1>3, <1>4, PTL DEF Spec, MutexLock!Spec

=============================================================================
