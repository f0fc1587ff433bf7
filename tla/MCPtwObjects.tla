----------------------------- MODULE MCPtwObjects -----------------------------
(* The objects of pthreads.2 that share no state, on small instances.  A      *)
(* behaviour is about one kind of them: which says whose steps are taken.     *)
EXTENDS PtwRwlock, PtwSemaphore, PtwSpin, PtwAttr, PtwTime

CONSTANTS t1, t2, t3

VARIABLE which

rwOwn == <<rwlock, mutexes, counts, woken, hold>>
semOwn == <<sem, s, has, stray>>
spinOwn == <<cpus, spin, interlock, mutexFree, holders>>
callsOwn == <<pc, how, calls>>
timeVars == <<until, now>>
allVars == <<which, rwOwn, semOwn, spinOwn, attrVars, callsOwn, timeVars>>

Init ==
  /\ which \in {"rwlock", "semaphore", "spin", "attributes", "timeouts"}
  /\ IF which = "timeouts" THEN TimeInit ELSE until = [sec |-> 0, nsec |-> 0] /\ now = 0
  /\ RwInit /\ SemInit /\ SpinInit /\ AttrInit
  \* What is not looked at starts in one state.
  /\ which # "rwlock" => rwlock = "valid"
  /\ which # "spin" => cpus = "one" /\ spin = "valid"
  /\ which # "attributes" => family = "rwlock"

OthersRw == which = "rwlock" /\ UNCHANGED <<which, timeVars, semOwn, spinOwn, attrVars>>
OthersSem == which = "semaphore" /\ UNCHANGED <<which, timeVars, rwOwn, spinOwn, attrVars>>
OthersSpin == which = "spin" /\ UNCHANGED <<which, timeVars, rwOwn, semOwn, attrVars>>
OthersAttr == which = "attributes" /\ UNCHANGED <<which, timeVars, rwOwn, semOwn, spinOwn, callsOwn>>

Next ==
  \/ OthersRw /\ RwNext
  \/ OthersSem /\ SemNext
  \/ OthersSpin /\ SpinNext
  \/ OthersAttr /\ AttrNext

\* The steps that RwFair, SemFair and SpinFair ask of a thread; which of the
\* disjuncts is meant depends on the behaviour and on whether t has the lock.
Steps(t) ==
  \/ OthersRw /\ (RwGo(t) \/ RwUnlock(t))
  \/ OthersSem /\ SemGo(t)
  \/ OthersSpin /\ (SpinGo(t) \/ SpinUnlock(t))

Spec == Init /\ [][Next]_allVars /\ \A t \in Threads : WF_allVars(Steps(t))

AllFamilies == {"thread", "mutex", "cond", "barrier", "rwlock"}

\* On both sides of the levels that Windows has, at them, and out of range.
SomePriorities == {-15, -7, -2, 0, 9, 15, 16}

\* Whoever waits for one of them is served: a writer for its readers, a thread at
\* a semaphore that has units, one that spins at a lock nobody has.  A behaviour
\* is about one of the three, so this is WriterProceeds, UnitReaches and SpinEnds.
SomebodyWaits == WriterWaits \/ UnitWaits \/ Spinning
ObjectsServe == SomebodyWaits ~> ~SomebodyWaits
=============================================================================
