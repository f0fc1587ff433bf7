---------------------------- MODULE PtwCondProofs ----------------------------
(***************************************************************************)
(* Safety of PtwCond for any threads, any number of waits, signals and     *)
(* cancellations, and any INT_MAX: the counts are those of the waiters,    *)
(* and a condition variable goes when nobody needs it any more.            *)
(***************************************************************************)
EXTENDS PtwCond, FiniteSetTheorems, TLAPS

\* No wait is cancelled at the gate, where the code gives back neither the
\* count of the gate's semaphore nor its unit.
PastGateOnly == "atGate" \notin CancelAt

-----------------------------------------------------------------------------
(* The inductive invariant *)

Places ==
  {"idle", "enter", "atGate", "count", "open", "unlock", "queue", "sleep", "retract", "leave",
   "drain", "drainAtGate", "drained", "reopen", "relock", "dead", "close", "closeAtGate",
   "closed", "post", "destroy", "destroyAtGate", "try"}

HasGate == {"count", "open", "drained", "closed", "try", "reopen"}
HasLock == {"drain", "drainAtGate", "drained"} \cup Closing
Destroys == {"destroy", "destroyAtGate", "try"}

\* The gate is open, or one thread is past it, or it stays closed until all that
\* were signalled have left.
OneInGate ==
  /\ gate.value <= 1 /\ gate.kernel <= 1 /\ (gate.value = 1 => gate.kernel = 0)
  /\ \A t \in Threads : pc[t] \in HasGate =>
       /\ gate.value <= 0 /\ gate.kernel = 0 /\ toUnblock = 0
       /\ \A u \in Threads : pc[u] \in HasGate => u = t
  /\ toUnblock > 0 => gate.value <= 0 /\ gate.kernel = 0

\* The counts are folded, and the gate closed, under mtxUnblockLock.
LockKept ==
  /\ \A t \in Threads : pc[t] \in HasLock <=> unblockLock = t
  /\ unblockLock = NoThread => gone < GoneMax
  /\ \A t \in Threads : pc[t] \in Closing => blocked > gone /\ how[t] \in {"signal", "broadcast"}

\* While it is destroyed nobody comes, and whoever is inside is counted.
Ending ==
  /\ \A t \in Threads : pc[t] \in Destroys =>
       /\ cond = "valid"
       /\ \A u \in Threads : /\ pc[u] \notin Entering \cup Closing \cup {"post"}
                             /\ pc[u] \in Destroys => u = t
  /\ \A t \in Threads : pc[t] \in Destroys <=> how[t] = "destroy" /\ pc[t] # "idle"
  /\ \A t \in Threads : pc[t] = "atGate" => t \notin cancelled
  /\ cond = "static" => \A t \in Threads : pc[t] = "idle"
  /\ DestroyedQuiet

Counted ==
  /\ blocked + toUnblock - gone = Cardinality({t \in Threads : pc[t] \in Inside})
  /\ QueueBalanced

CondType == TypeOK /\ pc \in [Threads -> Places]

CondInv == CondType /\ OneInGate /\ LockKept /\ Ending /\ Counted

-----------------------------------------------------------------------------
(* Semaphores, and threads that move *)

LEMMA SemSteps ==
  ASSUME NEW s \in Semaphores, NEW i \in Nat
  PROVE  /\ s.value \in Int /\ s.kernel \in Nat
         /\ MustWait(s) <=> s.value <= 0
         /\ MayPass(s) <=> s.kernel > 0
         /\ Taken(s) \in Semaphores
         /\ Taken(s).value = s.value - 1 /\ Taken(s).kernel = s.kernel
         /\ MayPass(s) => /\ Passed(s) \in Semaphores
                          /\ Passed(s).value = s.value /\ Passed(s).kernel = s.kernel - 1
         /\ PostedMultiple(s, i) \in Semaphores
         /\ PostedMultiple(s, i).value = s.value + i
         /\ PostedMultiple(s, i).kernel =
              s.kernel + (IF s.value >= 0 THEN 0 ELSE IF -s.value <= i THEN -s.value ELSE i)
         /\ Posted(s) \in Semaphores
         /\ Posted(s).value = s.value + 1
         /\ Posted(s).kernel = s.kernel + (IF s.value >= 0 THEN 0 ELSE 1)
<1>1. s.value \in Int /\ s.kernel \in Nat
  BY DEF Semaphores
<1>2. \A j \in Nat :
        /\ PostedMultiple(s, j) \in Semaphores
        /\ PostedMultiple(s, j).value = s.value + j
        /\ PostedMultiple(s, j).kernel =
             s.kernel + (IF s.value >= 0 THEN 0 ELSE IF -s.value <= j THEN -s.value ELSE j)
  <2> TAKE j \in Nat
  <2> DEFINE k == IF s.value >= 0 THEN 0 ELSE IF -s.value <= j THEN -s.value ELSE j
  <2>1. k \in Nat
    BY <1>1
  <2>2. PostedMultiple(s, j) = [value |-> s.value + j, kernel |-> s.kernel + k]
    BY DEF PostedMultiple
  <2> HIDE DEF k
  <2>3. PostedMultiple(s, j) \in Semaphores /\ PostedMultiple(s, j).value = s.value + j
        /\ PostedMultiple(s, j).kernel = s.kernel + k
    BY <1>1, <2>1, <2>2 DEF Semaphores
  <2> QED
    BY <2>3 DEF k
<1>3. /\ Posted(s) \in Semaphores
      /\ Posted(s).value = s.value + 1
      /\ Posted(s).kernel = s.kernel + (IF s.value >= 0 THEN 0 ELSE 1)
  <2>1. Posted(s) = PostedMultiple(s, 1)
    BY DEF Posted
  <2>2. ~(s.value >= 0) => (-s.value <= 1 => -s.value = 1)
    BY <1>1
  <2> QED
    BY <1>1, <1>2, <2>1, <2>2
<1>4. /\ Taken(s) \in Semaphores
      /\ Taken(s).value = s.value - 1 /\ Taken(s).kernel = s.kernel
  BY DEF Taken, Semaphores
<1>5. MayPass(s) => /\ Passed(s) \in Semaphores
                    /\ Passed(s).value = s.value /\ Passed(s).kernel = s.kernel - 1
  BY DEF MayPass, Passed, Semaphores
<1>6. (MustWait(s) <=> s.value <= 0) /\ (MayPass(s) <=> s.kernel > 0)
  BY DEF MustWait, MayPass
<1> QED
  BY <1>1, <1>2, <1>3, <1>4, <1>5, <1>6

\* A wait that is given up gives back what it took, or takes the unit that came.
LEMMA SemRetract ==
  ASSUME NEW s \in Semaphores
  PROVE  /\ Retracted(s) \in Semaphores
         /\ s.kernel > 0 => Retracted(s).value = s.value /\ Retracted(s).kernel = s.kernel - 1
         /\ ~(s.kernel > 0) => Retracted(s).value = s.value + 1 /\ Retracted(s).kernel = s.kernel
<1>1. CASE s.kernel > 0
  BY <1>1, SemSteps DEF Retracted, MayPass
<1>2. CASE ~(s.kernel > 0)
  <2>1. Retracted(s) = [s EXCEPT !.value = @ + 1]
    BY <1>2 DEF Retracted, MayPass
  <2> QED
    BY <1>2, <2>1 DEF Semaphores
<1> QED
  BY <1>1, <1>2

At(S) == {t \in Threads : pc[t] \in S}
Waiting == Cardinality(At(Inside))
Sleeping == Cardinality(At({"sleep", "retract"}))

LEMMA InvCounts ==
  CondInv => /\ blocked + toUnblock - gone = Waiting
             /\ Waiting \in Nat /\ Sleeping \in Nat
             /\ Balanced(queue, Sleeping)
<1> SUFFICES ASSUME CondInv
             PROVE  /\ blocked + toUnblock - gone = Waiting
                    /\ Waiting \in Nat /\ Sleeping \in Nat
                    /\ Balanced(queue, Sleeping)
  OBVIOUS
<1>1. blocked + toUnblock - gone = Waiting /\ Balanced(queue, Sleeping)
  BY DEF CondInv, Counted, QueueBalanced, Waiting, Sleeping, At
<1>2. \A S : IsFiniteSet(At(S))
  BY CondAssumption, FS_Subset DEF At
<1> QED
  BY <1>1, <1>2, FS_CardinalityType DEF Waiting, Sleeping

LEMMA Moves ==
  ASSUME CondType, NEW t \in Threads, NEW l \in Places, pc' = [pc EXCEPT ![t] = l]
  PROVE  /\ pc' \in [Threads -> Places] /\ pc'[t] = l
         /\ \A u \in Threads : u # t => pc'[u] = pc[u]
  BY DEF CondType

LEMMA AtMoves ==
  ASSUME CondType, NEW t \in Threads, NEW l \in Places, pc' = [pc EXCEPT ![t] = l], NEW S
  PROVE  /\ Cardinality(At(S)) \in Nat
         /\ pc[t] \in S => Cardinality(At(S)) >= 1
         /\ Cardinality(At(S)') = Cardinality(At(S)) + (IF l \in S THEN 1 ELSE 0)
                                                     - (IF pc[t] \in S THEN 1 ELSE 0)
<1>1. pc'[t] = l /\ \A u \in Threads : u # t => pc'[u] = pc[u]
  BY Moves
<1>2. IsFiniteSet(At(S)) /\ IsFiniteSet(At(S)') /\ Cardinality(At(S)) \in Nat
  BY CondAssumption, FS_Subset, FS_CardinalityType DEF At
<1>3. CASE l \in S /\ pc[t] \notin S
  <2>1. At(S)' = At(S) \cup {t} /\ t \notin At(S)
    BY <1>1, <1>3 DEF At
  <2> QED
    BY <1>2, <1>3, <2>1, FS_AddElement
<1>4. CASE l \notin S /\ pc[t] \in S
  <2>1. At(S)' = At(S) \ {t} /\ t \in At(S)
    BY <1>1, <1>4 DEF At
  <2>2. Cardinality(At(S)) # 0
    BY <1>2, <2>1, FS_EmptySet
  <2> QED
    BY <1>2, <1>4, <2>1, <2>2, FS_RemoveElement
<1>5. CASE l \in S <=> pc[t] \in S
  <2>1. At(S)' = At(S)
    BY <1>1, <1>5 DEF At
  <2>2. pc[t] \in S => Cardinality(At(S)) # 0
    <3>1. pc[t] \in S => t \in At(S)
      BY DEF At
    <3> QED
      BY <1>2, <3>1, FS_EmptySet
  <2> QED
    BY <1>2, <1>5, <2>1, <2>2
<1> QED
  BY <1>3, <1>4, <1>5

\* What there is to know of a thread that goes to the place l.
Moved(t, l) ==
  /\ pc' \in [Threads -> Places] /\ pc'[t] = l
  /\ \A u \in Threads : u # t => pc'[u] = pc[u]
  /\ gate \in Semaphores /\ queue \in Semaphores /\ n[t] \in Nat
  /\ blocked + toUnblock - gone = Waiting /\ Waiting \in Nat /\ Sleeping \in Nat
  /\ Balanced(queue, Sleeping)
  /\ pc[t] \in Inside => Waiting >= 1
  /\ Waiting' = Waiting + (IF l \in Inside THEN 1 ELSE 0)
                        - (IF pc[t] \in Inside THEN 1 ELSE 0)
  /\ pc[t] \in {"sleep", "retract"} => Sleeping >= 1
  /\ Sleeping' = Sleeping + (IF l \in {"sleep", "retract"} THEN 1 ELSE 0)
                          - (IF pc[t] \in {"sleep", "retract"} THEN 1 ELSE 0)

LEMMA StepMoves ==
  ASSUME CondInv, NEW t \in Threads, NEW l \in Places, pc' = [pc EXCEPT ![t] = l]
  PROVE  Moved(t, l)
<1>1. CondType /\ gate \in Semaphores /\ queue \in Semaphores /\ n[t] \in Nat
  BY DEF CondInv, CondType, TypeOK
<1>2. /\ pc[t] \in Inside => Waiting >= 1
      /\ Waiting' = Waiting + (IF l \in Inside THEN 1 ELSE 0)
                            - (IF pc[t] \in Inside THEN 1 ELSE 0)
      /\ pc[t] \in {"sleep", "retract"} => Sleeping >= 1
      /\ Sleeping' = Sleeping + (IF l \in {"sleep", "retract"} THEN 1 ELSE 0)
                              - (IF pc[t] \in {"sleep", "retract"} THEN 1 ELSE 0)
  BY <1>1, AtMoves, ZenonT(60) DEF Waiting, Sleeping
<1>3. /\ pc' \in [Threads -> Places] /\ pc'[t] = l
      /\ \A u \in Threads : u # t => pc'[u] = pc[u]
  BY <1>1, Moves
<1> QED
  BY <1>1, <1>2, <1>3, InvCounts DEF Moved

\* The counts are right again if they are moved as the threads are.
LEMMA CountsAgain ==
  ASSUME blocked' + toUnblock' - gone' = Waiting', Balanced(queue', Sleeping')
  PROVE  Counted'
  BY DEF Counted, QueueBalanced, Waiting, Sleeping, At

-----------------------------------------------------------------------------
(* Each step keeps the invariant *)

LEMMA TakesEnter ==
  ASSUME CondInv, NEW t \in Threads, TakeGate(t), pc[t] = "enter"
  PROVE  CondInv'
<1> DEFINE l == IF gate.value <= 0 THEN "atGate" ELSE "count"
<1>1. /\ pc[t] = "enter"
      /\ t \notin cancelled
      /\ gate' = Taken(gate)
      /\ UNCHANGED <<cond, queue, unblockLock, mutex, blocked, toUnblock, gone, how, n,
                     cancelled, waits, wait>>
  BY DEF TakeGate, Gates, MustWait, counts, history
<1>2. pc' = [pc EXCEPT ![t] = l] /\ l \in Places
  <2>1. PICK g \in Gates : /\ pc[t] = g[1]
                            /\ pc' = [pc EXCEPT ![t] = IF gate.value <= 0 THEN g[2] ELSE g[3]]
    BY DEF TakeGate, MustWait, Goto
  <2>2. g = <<"enter", "atGate", "count">>
    BY <1>1, <2>1 DEF Gates
  <2> QED
    BY <2>1, <2>2 DEF Places
<1>3. Moved(t, l)
  BY <1>2, StepMoves
<1>4. gate' \in Semaphores /\ gate'.value = gate.value - 1 /\ gate'.kernel = gate.kernel
      /\ gate.value \in Int /\ gate.kernel \in Nat
  BY <1>1, <1>3, SemSteps DEF Moved
<1>5. CondType'
  BY <1>1, <1>3, <1>4, CondAssumption DEF Moved, CondInv, CondType, TypeOK, LockKept, Inside,
       OneInGate, HasGate, Closing
<1>6. OneInGate'
  BY <1>1, <1>3, <1>4 DEF Moved, CondInv, CondType, TypeOK, OneInGate, HasGate, LockKept
<1>7. LockKept'
  BY <1>1, <1>3, <1>4, CondAssumption DEF Moved, CondInv, CondType, TypeOK, LockKept, HasLock,
       Closing, OneInGate, HasGate
<1>8. Ending'
  BY <1>1, <1>3, <1>4 DEF Moved, CondInv, CondType, TypeOK, Ending, Destroys, Destroying,
       Entering, Closing, DestroyedQuiet
<1>9. Counted'
  <2>1. blocked' + toUnblock' - gone' = Waiting'
    BY <1>1, <1>3 DEF Moved, CondInv, CondType, TypeOK, Inside
  <2>2. Balanced(queue', Sleeping')
    BY <1>1, <1>3, <1>4 DEF Moved, Balanced, Semaphores
  <2> QED
    BY <2>1, <2>2, CountsAgain
<1> QED
  BY <1>5, <1>6, <1>7, <1>8, <1>9 DEF CondInv

LEMMA PassesEnter ==
  ASSUME CondInv, NEW t \in Threads, PassGate(t), pc[t] = "atGate"
  PROVE  CondInv'
<1> DEFINE l == "count"
<1>1. /\ pc[t] = "atGate"
      /\ gate.kernel > 0
      /\ gate' = Passed(gate)
      /\ UNCHANGED <<cond, queue, unblockLock, mutex, blocked, toUnblock, gone, how, n,
                     cancelled, waits, wait>>
  BY DEF PassGate, Gates, MayPass, counts, history
<1>2. pc' = [pc EXCEPT ![t] = l] /\ l \in Places
  <2>1. PICK g \in Gates : /\ pc[t] = g[2]
                            /\ pc' = [pc EXCEPT ![t] = g[3]]
    BY DEF PassGate, Goto
  <2>2. g = <<"enter", "atGate", "count">>
    BY <1>1, <2>1 DEF Gates
  <2> QED
    BY <2>1, <2>2 DEF Places
<1>3. Moved(t, l)
  BY <1>2, StepMoves
<1>4. gate' \in Semaphores /\ gate'.value = gate.value /\ gate'.kernel = gate.kernel - 1
      /\ gate.value \in Int /\ gate.kernel \in Nat
  BY <1>1, <1>3, SemSteps DEF Moved, MayPass
<1>5. CondType'
  BY <1>1, <1>3, <1>4, CondAssumption DEF Moved, CondInv, CondType, TypeOK, LockKept, Inside,
       OneInGate, HasGate, Closing
<1>6. OneInGate'
  BY <1>1, <1>3, <1>4 DEF Moved, CondInv, CondType, TypeOK, OneInGate, HasGate, LockKept
<1>7. LockKept'
  BY <1>1, <1>3, <1>4, CondAssumption DEF Moved, CondInv, CondType, TypeOK, LockKept, HasLock,
       Closing, OneInGate, HasGate
<1>8. Ending'
  BY <1>1, <1>3, <1>4 DEF Moved, CondInv, CondType, TypeOK, Ending, Destroys, Destroying,
       Entering, Closing, DestroyedQuiet
<1>9. Counted'
  <2>1. blocked' + toUnblock' - gone' = Waiting'
    BY <1>1, <1>3 DEF Moved, CondInv, CondType, TypeOK, Inside
  <2>2. Balanced(queue', Sleeping')
    BY <1>1, <1>3, <1>4 DEF Moved, Balanced, Semaphores
  <2> QED
    BY <2>1, <2>2, CountsAgain
<1> QED
  BY <1>5, <1>6, <1>7, <1>8, <1>9 DEF CondInv

LEMMA TakesDrain ==
  ASSUME CondInv, NEW t \in Threads, TakeGate(t), pc[t] = "drain"
  PROVE  CondInv'
<1> DEFINE l == IF gate.value <= 0 THEN "drainAtGate" ELSE "drained"
<1>1. /\ pc[t] = "drain"
      /\ gate' = Taken(gate)
      /\ UNCHANGED <<cond, queue, unblockLock, mutex, blocked, toUnblock, gone, how, n,
                     cancelled, waits, wait>>
  BY DEF TakeGate, Gates, MustWait, counts, history
<1>2. pc' = [pc EXCEPT ![t] = l] /\ l \in Places
  <2>1. PICK g \in Gates : /\ pc[t] = g[1]
                            /\ pc' = [pc EXCEPT ![t] = IF gate.value <= 0 THEN g[2] ELSE g[3]]
    BY DEF TakeGate, MustWait, Goto
  <2>2. g = <<"drain", "drainAtGate", "drained">>
    BY <1>1, <2>1 DEF Gates
  <2> QED
    BY <2>1, <2>2 DEF Places
<1>3. Moved(t, l)
  BY <1>2, StepMoves
<1>4. gate' \in Semaphores /\ gate'.value = gate.value - 1 /\ gate'.kernel = gate.kernel
      /\ gate.value \in Int /\ gate.kernel \in Nat
  BY <1>1, <1>3, SemSteps DEF Moved
<1>5. CondType'
  BY <1>1, <1>3, <1>4, CondAssumption DEF Moved, CondInv, CondType, TypeOK, LockKept, Inside,
       OneInGate, HasGate, Closing
<1>6. OneInGate'
  BY <1>1, <1>3, <1>4 DEF Moved, CondInv, CondType, TypeOK, OneInGate, HasGate, LockKept
<1>7. LockKept'
  BY <1>1, <1>3, <1>4, CondAssumption DEF Moved, CondInv, CondType, TypeOK, LockKept, HasLock,
       Closing, OneInGate, HasGate
<1>8. Ending'
  BY <1>1, <1>3, <1>4 DEF Moved, CondInv, CondType, TypeOK, Ending, Destroys, Destroying,
       Entering, Closing, DestroyedQuiet
<1>9. Counted'
  <2>1. blocked' + toUnblock' - gone' = Waiting'
    BY <1>1, <1>3 DEF Moved, CondInv, CondType, TypeOK, Inside
  <2>2. Balanced(queue', Sleeping')
    BY <1>1, <1>3, <1>4 DEF Moved, Balanced, Semaphores
  <2> QED
    BY <2>1, <2>2, CountsAgain
<1> QED
  BY <1>5, <1>6, <1>7, <1>8, <1>9 DEF CondInv

LEMMA PassesDrain ==
  ASSUME CondInv, NEW t \in Threads, PassGate(t), pc[t] = "drainAtGate"
  PROVE  CondInv'
<1> DEFINE l == "drained"
<1>1. /\ pc[t] = "drainAtGate"
      /\ gate.kernel > 0
      /\ gate' = Passed(gate)
      /\ UNCHANGED <<cond, queue, unblockLock, mutex, blocked, toUnblock, gone, how, n,
                     cancelled, waits, wait>>
  BY DEF PassGate, Gates, MayPass, counts, history
<1>2. pc' = [pc EXCEPT ![t] = l] /\ l \in Places
  <2>1. PICK g \in Gates : /\ pc[t] = g[2]
                            /\ pc' = [pc EXCEPT ![t] = g[3]]
    BY DEF PassGate, Goto
  <2>2. g = <<"drain", "drainAtGate", "drained">>
    BY <1>1, <2>1 DEF Gates
  <2> QED
    BY <2>1, <2>2 DEF Places
<1>3. Moved(t, l)
  BY <1>2, StepMoves
<1>4. gate' \in Semaphores /\ gate'.value = gate.value /\ gate'.kernel = gate.kernel - 1
      /\ gate.value \in Int /\ gate.kernel \in Nat
  BY <1>1, <1>3, SemSteps DEF Moved, MayPass
<1>5. CondType'
  BY <1>1, <1>3, <1>4, CondAssumption DEF Moved, CondInv, CondType, TypeOK, LockKept, Inside,
       OneInGate, HasGate, Closing
<1>6. OneInGate'
  BY <1>1, <1>3, <1>4 DEF Moved, CondInv, CondType, TypeOK, OneInGate, HasGate, LockKept
<1>7. LockKept'
  BY <1>1, <1>3, <1>4, CondAssumption DEF Moved, CondInv, CondType, TypeOK, LockKept, HasLock,
       Closing, OneInGate, HasGate
<1>8. Ending'
  BY <1>1, <1>3, <1>4 DEF Moved, CondInv, CondType, TypeOK, Ending, Destroys, Destroying,
       Entering, Closing, DestroyedQuiet
<1>9. Counted'
  <2>1. blocked' + toUnblock' - gone' = Waiting'
    BY <1>1, <1>3 DEF Moved, CondInv, CondType, TypeOK, Inside
  <2>2. Balanced(queue', Sleeping')
    BY <1>1, <1>3, <1>4 DEF Moved, Balanced, Semaphores
  <2> QED
    BY <2>1, <2>2, CountsAgain
<1> QED
  BY <1>5, <1>6, <1>7, <1>8, <1>9 DEF CondInv

LEMMA TakesClose ==
  ASSUME CondInv, NEW t \in Threads, TakeGate(t), pc[t] = "close"
  PROVE  CondInv'
<1> DEFINE l == IF gate.value <= 0 THEN "closeAtGate" ELSE "closed"
<1>1. /\ pc[t] = "close"
      /\ gate' = Taken(gate)
      /\ UNCHANGED <<cond, queue, unblockLock, mutex, blocked, toUnblock, gone, how, n,
                     cancelled, waits, wait>>
  BY DEF TakeGate, Gates, MustWait, counts, history
<1>2. pc' = [pc EXCEPT ![t] = l] /\ l \in Places
  <2>1. PICK g \in Gates : /\ pc[t] = g[1]
                            /\ pc' = [pc EXCEPT ![t] = IF gate.value <= 0 THEN g[2] ELSE g[3]]
    BY DEF TakeGate, MustWait, Goto
  <2>2. g = <<"close", "closeAtGate", "closed">>
    BY <1>1, <2>1 DEF Gates
  <2> QED
    BY <2>1, <2>2 DEF Places
<1>3. Moved(t, l)
  BY <1>2, StepMoves
<1>4. gate' \in Semaphores /\ gate'.value = gate.value - 1 /\ gate'.kernel = gate.kernel
      /\ gate.value \in Int /\ gate.kernel \in Nat
  BY <1>1, <1>3, SemSteps DEF Moved
<1>5. CondType'
  BY <1>1, <1>3, <1>4, CondAssumption DEF Moved, CondInv, CondType, TypeOK, LockKept, Inside,
       OneInGate, HasGate, Closing
<1>6. OneInGate'
  BY <1>1, <1>3, <1>4 DEF Moved, CondInv, CondType, TypeOK, OneInGate, HasGate, LockKept
<1>7. LockKept'
  BY <1>1, <1>3, <1>4, CondAssumption DEF Moved, CondInv, CondType, TypeOK, LockKept, HasLock,
       Closing, OneInGate, HasGate
<1>8. Ending'
  BY <1>1, <1>3, <1>4 DEF Moved, CondInv, CondType, TypeOK, Ending, Destroys, Destroying,
       Entering, Closing, DestroyedQuiet
<1>9. Counted'
  <2>1. blocked' + toUnblock' - gone' = Waiting'
    BY <1>1, <1>3 DEF Moved, CondInv, CondType, TypeOK, Inside
  <2>2. Balanced(queue', Sleeping')
    BY <1>1, <1>3, <1>4 DEF Moved, Balanced, Semaphores
  <2> QED
    BY <2>1, <2>2, CountsAgain
<1> QED
  BY <1>5, <1>6, <1>7, <1>8, <1>9 DEF CondInv

LEMMA PassesClose ==
  ASSUME CondInv, NEW t \in Threads, PassGate(t), pc[t] = "closeAtGate"
  PROVE  CondInv'
<1> DEFINE l == "closed"
<1>1. /\ pc[t] = "closeAtGate"
      /\ gate.kernel > 0
      /\ gate' = Passed(gate)
      /\ UNCHANGED <<cond, queue, unblockLock, mutex, blocked, toUnblock, gone, how, n,
                     cancelled, waits, wait>>
  BY DEF PassGate, Gates, MayPass, counts, history
<1>2. pc' = [pc EXCEPT ![t] = l] /\ l \in Places
  <2>1. PICK g \in Gates : /\ pc[t] = g[2]
                            /\ pc' = [pc EXCEPT ![t] = g[3]]
    BY DEF PassGate, Goto
  <2>2. g = <<"close", "closeAtGate", "closed">>
    BY <1>1, <2>1 DEF Gates
  <2> QED
    BY <2>1, <2>2 DEF Places
<1>3. Moved(t, l)
  BY <1>2, StepMoves
<1>4. gate' \in Semaphores /\ gate'.value = gate.value /\ gate'.kernel = gate.kernel - 1
      /\ gate.value \in Int /\ gate.kernel \in Nat
  BY <1>1, <1>3, SemSteps DEF Moved, MayPass
<1>5. CondType'
  BY <1>1, <1>3, <1>4, CondAssumption DEF Moved, CondInv, CondType, TypeOK, LockKept, Inside,
       OneInGate, HasGate, Closing
<1>6. OneInGate'
  BY <1>1, <1>3, <1>4 DEF Moved, CondInv, CondType, TypeOK, OneInGate, HasGate, LockKept
<1>7. LockKept'
  BY <1>1, <1>3, <1>4, CondAssumption DEF Moved, CondInv, CondType, TypeOK, LockKept, HasLock,
       Closing, OneInGate, HasGate
<1>8. Ending'
  BY <1>1, <1>3, <1>4 DEF Moved, CondInv, CondType, TypeOK, Ending, Destroys, Destroying,
       Entering, Closing, DestroyedQuiet
<1>9. Counted'
  <2>1. blocked' + toUnblock' - gone' = Waiting'
    BY <1>1, <1>3 DEF Moved, CondInv, CondType, TypeOK, Inside
  <2>2. Balanced(queue', Sleeping')
    BY <1>1, <1>3, <1>4 DEF Moved, Balanced, Semaphores
  <2> QED
    BY <2>1, <2>2, CountsAgain
<1> QED
  BY <1>5, <1>6, <1>7, <1>8, <1>9 DEF CondInv

LEMMA TakesDestroy ==
  ASSUME CondInv, NEW t \in Threads, TakeGate(t), pc[t] = "destroy"
  PROVE  CondInv'
<1> DEFINE l == IF gate.value <= 0 THEN "destroyAtGate" ELSE "try"
<1>1. /\ pc[t] = "destroy"
      /\ gate' = Taken(gate)
      /\ UNCHANGED <<cond, queue, unblockLock, mutex, blocked, toUnblock, gone, how, n,
                     cancelled, waits, wait>>
  BY DEF TakeGate, Gates, MustWait, counts, history
<1>2. pc' = [pc EXCEPT ![t] = l] /\ l \in Places
  <2>1. PICK g \in Gates : /\ pc[t] = g[1]
                            /\ pc' = [pc EXCEPT ![t] = IF gate.value <= 0 THEN g[2] ELSE g[3]]
    BY DEF TakeGate, MustWait, Goto
  <2>2. g = <<"destroy", "destroyAtGate", "try">>
    BY <1>1, <2>1 DEF Gates
  <2> QED
    BY <2>1, <2>2 DEF Places
<1>3. Moved(t, l)
  BY <1>2, StepMoves
<1>4. gate' \in Semaphores /\ gate'.value = gate.value - 1 /\ gate'.kernel = gate.kernel
      /\ gate.value \in Int /\ gate.kernel \in Nat
  BY <1>1, <1>3, SemSteps DEF Moved
<1>5. CondType'
  BY <1>1, <1>3, <1>4, CondAssumption DEF Moved, CondInv, CondType, TypeOK, LockKept, Inside,
       OneInGate, HasGate, Closing
<1>6. OneInGate'
  BY <1>1, <1>3, <1>4 DEF Moved, CondInv, CondType, TypeOK, OneInGate, HasGate, LockKept
<1>7. LockKept'
  BY <1>1, <1>3, <1>4, CondAssumption DEF Moved, CondInv, CondType, TypeOK, LockKept, HasLock,
       Closing, OneInGate, HasGate
<1>8. Ending'
  BY <1>1, <1>3, <1>4 DEF Moved, CondInv, CondType, TypeOK, Ending, Destroys, Destroying,
       Entering, Closing, DestroyedQuiet
<1>9. Counted'
  <2>1. blocked' + toUnblock' - gone' = Waiting'
    BY <1>1, <1>3 DEF Moved, CondInv, CondType, TypeOK, Inside
  <2>2. Balanced(queue', Sleeping')
    BY <1>1, <1>3, <1>4 DEF Moved, Balanced, Semaphores
  <2> QED
    BY <2>1, <2>2, CountsAgain
<1> QED
  BY <1>5, <1>6, <1>7, <1>8, <1>9 DEF CondInv

LEMMA PassesDestroy ==
  ASSUME CondInv, NEW t \in Threads, PassGate(t), pc[t] = "destroyAtGate"
  PROVE  CondInv'
<1> DEFINE l == "try"
<1>1. /\ pc[t] = "destroyAtGate"
      /\ gate.kernel > 0
      /\ gate' = Passed(gate)
      /\ UNCHANGED <<cond, queue, unblockLock, mutex, blocked, toUnblock, gone, how, n,
                     cancelled, waits, wait>>
  BY DEF PassGate, Gates, MayPass, counts, history
<1>2. pc' = [pc EXCEPT ![t] = l] /\ l \in Places
  <2>1. PICK g \in Gates : /\ pc[t] = g[2]
                            /\ pc' = [pc EXCEPT ![t] = g[3]]
    BY DEF PassGate, Goto
  <2>2. g = <<"destroy", "destroyAtGate", "try">>
    BY <1>1, <2>1 DEF Gates
  <2> QED
    BY <2>1, <2>2 DEF Places
<1>3. Moved(t, l)
  BY <1>2, StepMoves
<1>4. gate' \in Semaphores /\ gate'.value = gate.value /\ gate'.kernel = gate.kernel - 1
      /\ gate.value \in Int /\ gate.kernel \in Nat
  BY <1>1, <1>3, SemSteps DEF Moved, MayPass
<1>5. CondType'
  BY <1>1, <1>3, <1>4, CondAssumption DEF Moved, CondInv, CondType, TypeOK, LockKept, Inside,
       OneInGate, HasGate, Closing
<1>6. OneInGate'
  BY <1>1, <1>3, <1>4 DEF Moved, CondInv, CondType, TypeOK, OneInGate, HasGate, LockKept
<1>7. LockKept'
  BY <1>1, <1>3, <1>4, CondAssumption DEF Moved, CondInv, CondType, TypeOK, LockKept, HasLock,
       Closing, OneInGate, HasGate
<1>8. Ending'
  BY <1>1, <1>3, <1>4 DEF Moved, CondInv, CondType, TypeOK, Ending, Destroys, Destroying,
       Entering, Closing, DestroyedQuiet
<1>9. Counted'
  <2>1. blocked' + toUnblock' - gone' = Waiting'
    BY <1>1, <1>3 DEF Moved, CondInv, CondType, TypeOK, Inside
  <2>2. Balanced(queue', Sleeping')
    BY <1>1, <1>3, <1>4 DEF Moved, Balanced, Semaphores
  <2> QED
    BY <2>1, <2>2, CountsAgain
<1> QED
  BY <1>5, <1>6, <1>7, <1>8, <1>9 DEF CondInv

LEMMA Waits ==
  ASSUME CondInv, NEW t \in Threads, NEW f \in {"wait", "timedwait"}, Wait(t, f)
  PROVE  CondInv'
<1> DEFINE l == "enter"
<1>1. /\ pc[t] = "idle"
      /\ cond # "null"
      /\ ~Destroying
      /\ mutex' = t
      /\ cond' = "valid"
      /\ waits < MaxWaits
      /\ waits' = waits + 1
      /\ wait' = [wait EXCEPT ![t] = waits + 1]
      /\ how' = [how EXCEPT ![t] = f]
      /\ UNCHANGED <<gate, queue, unblockLock, blocked, toUnblock, gone, n, cancelled>>
  BY DEF Wait, Calls, Goto, counts, history
<1>2. pc' = [pc EXCEPT ![t] = l] /\ l \in Places
  BY <1>1 DEF Wait, Calls, Goto, counts, history, Places
<1>3. Moved(t, l)
  BY <1>2, StepMoves
<1>4. CondType'
  <2>1. TypeOK'
    BY <1>1, CondAssumption DEF CondInv, CondType, TypeOK, LockKept, Closing
  <2> QED
    BY <1>3, <2>1 DEF Moved, CondType
<1>5. OneInGate'
  BY <1>1, <1>3 DEF Moved, CondInv, CondType, TypeOK, OneInGate, HasGate, LockKept
<1>6. LockKept'
  BY <1>1, <1>3, CondAssumption DEF Moved, CondInv, CondType, TypeOK, LockKept, HasLock,
       Closing, OneInGate, HasGate
<1>7. Ending'
  BY <1>1, <1>3 DEF Moved, CondInv, CondType, TypeOK, Ending, Destroys, Destroying, Entering,
       Closing, DestroyedQuiet
<1>8. Counted'
  <2>1. blocked' + toUnblock' - gone' = Waiting'
    BY <1>1, <1>3 DEF Moved, CondInv, CondType, TypeOK, Inside
  <2>2. Balanced(queue', Sleeping')
    BY <1>1, <1>3 DEF Moved, Balanced, Semaphores
  <2> QED
    BY <2>1, <2>2, CountsAgain
<1> QED
  BY <1>4, <1>5, <1>6, <1>7, <1>8 DEF CondInv

LEMMA CancelsAtGate ==
  ASSUME CondInv, NEW t \in Threads, PastGateOnly, CancelAtGate(t)
  PROVE  CondInv'
<1> DEFINE l == "dead"
<1>1. /\ pc[t] = "enter"
      /\ mutex' = NoThread
      /\ UNCHANGED <<cond, gate, queue, unblockLock, blocked, toUnblock, gone, how, n,
                     cancelled, waits, wait>>
  BY DEF CancelAtGate, Goto, Places, CondInv, CondType, Ending, counts, history
<1>2. pc' = [pc EXCEPT ![t] = l] /\ l \in Places
  BY <1>1 DEF CancelAtGate, Goto, Places, CondInv, CondType, Ending, counts, history, Places
<1>3. Moved(t, l)
  BY <1>2, StepMoves
<1>4. CondType'
  BY <1>1, <1>3, CondAssumption DEF Moved, CondInv, CondType, TypeOK, LockKept, Inside,
       OneInGate, HasGate, Closing
<1>5. OneInGate'
  BY <1>1, <1>3 DEF Moved, CondInv, CondType, TypeOK, OneInGate, HasGate, LockKept
<1>6. LockKept'
  BY <1>1, <1>3, CondAssumption DEF Moved, CondInv, CondType, TypeOK, LockKept, HasLock,
       Closing, OneInGate, HasGate
<1>7. Ending'
  BY <1>1, <1>3 DEF Moved, CondInv, CondType, TypeOK, Ending, Destroys, Destroying, Entering,
       Closing, DestroyedQuiet
<1>8. Counted'
  <2>1. blocked' + toUnblock' - gone' = Waiting'
    BY <1>1, <1>3 DEF Moved, CondInv, CondType, TypeOK, Inside
  <2>2. Balanced(queue', Sleeping')
    BY <1>1, <1>3 DEF Moved, Balanced, Semaphores
  <2> QED
    BY <2>1, <2>2, CountsAgain
<1> QED
  BY <1>4, <1>5, <1>6, <1>7, <1>8 DEF CondInv

LEMMA Counts ==
  ASSUME CondInv, NEW t \in Threads, Count(t)
  PROVE  CondInv'
<1> DEFINE l == "open"
<1>1. /\ pc[t] = "count"
      /\ blocked' = blocked + 1
      /\ UNCHANGED <<cond, gate, queue, unblockLock, mutex, toUnblock, gone, how, n, cancelled,
                     waits, wait>>
  BY DEF Count, Goto, counts, history
<1>2. pc' = [pc EXCEPT ![t] = l] /\ l \in Places
  BY <1>1 DEF Count, Goto, counts, history, Places
<1>3. Moved(t, l)
  BY <1>2, StepMoves
<1>4. CondType'
  BY <1>1, <1>3, CondAssumption DEF Moved, CondInv, CondType, TypeOK, LockKept, Inside,
       OneInGate, HasGate, Closing
<1>5. OneInGate'
  BY <1>1, <1>3 DEF Moved, CondInv, CondType, TypeOK, OneInGate, HasGate, LockKept
<1>6. LockKept'
  BY <1>1, <1>3, CondAssumption DEF Moved, CondInv, CondType, TypeOK, LockKept, HasLock,
       Closing, OneInGate, HasGate
<1>7. Ending'
  BY <1>1, <1>3 DEF Moved, CondInv, CondType, TypeOK, Ending, Destroys, Destroying, Entering,
       Closing, DestroyedQuiet
<1>8. Counted'
  <2>1. blocked' + toUnblock' - gone' = Waiting'
    BY <1>1, <1>3 DEF Moved, CondInv, CondType, TypeOK, Inside
  <2>2. Balanced(queue', Sleeping')
    BY <1>1, <1>3 DEF Moved, Balanced, Semaphores
  <2> QED
    BY <2>1, <2>2, CountsAgain
<1> QED
  BY <1>4, <1>5, <1>6, <1>7, <1>8 DEF CondInv

LEMMA Opens ==
  ASSUME CondInv, NEW t \in Threads, Open(t), pc[t] = "open"
  PROVE  CondInv'
<1> DEFINE l == "unlock"
<1>1. /\ pc[t] = "open"
      /\ gate' = Posted(gate)
      /\ UNCHANGED <<cond, queue, unblockLock, mutex, blocked, toUnblock, gone, how, n,
                     cancelled, waits, wait>>
  BY DEF Open, Goto, counts, history
<1>2. pc' = [pc EXCEPT ![t] = l] /\ l \in Places
  BY <1>1 DEF Open, Goto, counts, history, Places
<1>3. Moved(t, l)
  BY <1>2, StepMoves
<1>4. gate' \in Semaphores /\ gate'.value = gate.value + 1
      /\ gate'.kernel = gate.kernel + (IF gate.value >= 0 THEN 0 ELSE 1)
      /\ gate.value \in Int /\ gate.kernel \in Nat
  BY <1>1, <1>3, SemSteps DEF Moved
<1>5. CondType'
  BY <1>1, <1>3, <1>4, CondAssumption DEF Moved, CondInv, CondType, TypeOK, LockKept, Inside,
       OneInGate, HasGate, Closing
<1>6. OneInGate'
  BY <1>1, <1>3, <1>4 DEF Moved, CondInv, CondType, TypeOK, OneInGate, HasGate, LockKept
<1>7. LockKept'
  BY <1>1, <1>3, <1>4, CondAssumption DEF Moved, CondInv, CondType, TypeOK, LockKept, HasLock,
       Closing, OneInGate, HasGate
<1>8. Ending'
  BY <1>1, <1>3, <1>4 DEF Moved, CondInv, CondType, TypeOK, Ending, Destroys, Destroying,
       Entering, Closing, DestroyedQuiet
<1>9. Counted'
  <2>1. blocked' + toUnblock' - gone' = Waiting'
    BY <1>1, <1>3 DEF Moved, CondInv, CondType, TypeOK, Inside
  <2>2. Balanced(queue', Sleeping')
    BY <1>1, <1>3, <1>4 DEF Moved, Balanced, Semaphores
  <2> QED
    BY <2>1, <2>2, CountsAgain
<1> QED
  BY <1>5, <1>6, <1>7, <1>8, <1>9 DEF CondInv

LEMMA Reopens ==
  ASSUME CondInv, NEW t \in Threads, Open(t), pc[t] = "reopen"
  PROVE  CondInv'
<1> DEFINE l == "relock"
<1>1. /\ pc[t] = "reopen"
      /\ gate' = Posted(gate)
      /\ UNCHANGED <<cond, queue, unblockLock, mutex, blocked, toUnblock, gone, how, n,
                     cancelled, waits, wait>>
  BY DEF Open, Goto, counts, history
<1>2. pc' = [pc EXCEPT ![t] = l] /\ l \in Places
  BY <1>1 DEF Open, Goto, counts, history, Places
<1>3. Moved(t, l)
  BY <1>2, StepMoves
<1>4. gate' \in Semaphores /\ gate'.value = gate.value + 1
      /\ gate'.kernel = gate.kernel + (IF gate.value >= 0 THEN 0 ELSE 1)
      /\ gate.value \in Int /\ gate.kernel \in Nat
  BY <1>1, <1>3, SemSteps DEF Moved
<1>5. CondType'
  BY <1>1, <1>3, <1>4, CondAssumption DEF Moved, CondInv, CondType, TypeOK, LockKept, Inside,
       OneInGate, HasGate, Closing
<1>6. OneInGate'
  BY <1>1, <1>3, <1>4 DEF Moved, CondInv, CondType, TypeOK, OneInGate, HasGate, LockKept
<1>7. LockKept'
  BY <1>1, <1>3, <1>4, CondAssumption DEF Moved, CondInv, CondType, TypeOK, LockKept, HasLock,
       Closing, OneInGate, HasGate
<1>8. Ending'
  BY <1>1, <1>3, <1>4 DEF Moved, CondInv, CondType, TypeOK, Ending, Destroys, Destroying,
       Entering, Closing, DestroyedQuiet
<1>9. Counted'
  <2>1. blocked' + toUnblock' - gone' = Waiting'
    BY <1>1, <1>3 DEF Moved, CondInv, CondType, TypeOK, Inside
  <2>2. Balanced(queue', Sleeping')
    BY <1>1, <1>3, <1>4 DEF Moved, Balanced, Semaphores
  <2> QED
    BY <2>1, <2>2, CountsAgain
<1> QED
  BY <1>5, <1>6, <1>7, <1>8, <1>9 DEF CondInv

LEMMA Unlocks ==
  ASSUME CondInv, NEW t \in Threads, UnlockMutex(t)
  PROVE  CondInv'
<1> DEFINE l == "queue"
<1>1. /\ pc[t] = "unlock"
      /\ mutex' = NoThread
      /\ UNCHANGED <<cond, gate, queue, unblockLock, blocked, toUnblock, gone, how, n,
                     cancelled, waits, wait>>
  BY DEF UnlockMutex, Goto, counts, history
<1>2. pc' = [pc EXCEPT ![t] = l] /\ l \in Places
  BY <1>1 DEF UnlockMutex, Goto, counts, history, Places
<1>3. Moved(t, l)
  BY <1>2, StepMoves
<1>4. CondType'
  BY <1>1, <1>3, CondAssumption DEF Moved, CondInv, CondType, TypeOK, LockKept, Inside,
       OneInGate, HasGate, Closing
<1>5. OneInGate'
  BY <1>1, <1>3 DEF Moved, CondInv, CondType, TypeOK, OneInGate, HasGate, LockKept
<1>6. LockKept'
  BY <1>1, <1>3, CondAssumption DEF Moved, CondInv, CondType, TypeOK, LockKept, HasLock,
       Closing, OneInGate, HasGate
<1>7. Ending'
  BY <1>1, <1>3 DEF Moved, CondInv, CondType, TypeOK, Ending, Destroys, Destroying, Entering,
       Closing, DestroyedQuiet
<1>8. Counted'
  <2>1. blocked' + toUnblock' - gone' = Waiting'
    BY <1>1, <1>3 DEF Moved, CondInv, CondType, TypeOK, Inside
  <2>2. Balanced(queue', Sleeping')
    BY <1>1, <1>3 DEF Moved, Balanced, Semaphores
  <2> QED
    BY <2>1, <2>2, CountsAgain
<1> QED
  BY <1>4, <1>5, <1>6, <1>7, <1>8 DEF CondInv

LEMMA TakesQueue ==
  ASSUME CondInv, NEW t \in Threads, TakeQueue(t)
  PROVE  CondInv'
<1> DEFINE l == IF queue.value <= 0 THEN "sleep" ELSE "leave"
<1>1. /\ pc[t] = "queue"
      /\ queue' = Taken(queue)
      /\ UNCHANGED <<cond, gate, unblockLock, mutex, blocked, toUnblock, gone, how, n,
                     cancelled, waits, wait>>
  BY DEF TakeQueue, Goto, MustWait, counts, history
<1>2. pc' = [pc EXCEPT ![t] = l] /\ l \in Places
  BY <1>1 DEF TakeQueue, Goto, MustWait, counts, history, Places
<1>3. Moved(t, l)
  BY <1>2, StepMoves
<1>4. queue' \in Semaphores /\ queue'.value = queue.value - 1 /\ queue'.kernel = queue.kernel
      /\ queue.value \in Int /\ queue.kernel \in Nat
  BY <1>1, <1>3, SemSteps DEF Moved
<1>5. CondType'
  BY <1>1, <1>3, <1>4, CondAssumption DEF Moved, CondInv, CondType, TypeOK, LockKept, Inside,
       OneInGate, HasGate, Closing
<1>6. OneInGate'
  BY <1>1, <1>3, <1>4 DEF Moved, CondInv, CondType, TypeOK, OneInGate, HasGate, LockKept
<1>7. LockKept'
  BY <1>1, <1>3, <1>4, CondAssumption DEF Moved, CondInv, CondType, TypeOK, LockKept, HasLock,
       Closing, OneInGate, HasGate
<1>8. Ending'
  BY <1>1, <1>3, <1>4 DEF Moved, CondInv, CondType, TypeOK, Ending, Destroys, Destroying,
       Entering, Closing, DestroyedQuiet
<1>9. Counted'
  <2>1. blocked' + toUnblock' - gone' = Waiting'
    BY <1>1, <1>3 DEF Moved, CondInv, CondType, TypeOK, Inside
  <2>2. Balanced(queue', Sleeping')
    BY <1>1, <1>3, <1>4 DEF Moved, Balanced, Semaphores
  <2> QED
    BY <2>1, <2>2, CountsAgain
<1> QED
  BY <1>5, <1>6, <1>7, <1>8, <1>9 DEF CondInv

LEMMA PassesQueue ==
  ASSUME CondInv, NEW t \in Threads, PassQueue(t)
  PROVE  CondInv'
<1> DEFINE l == "leave"
<1>1. /\ pc[t] = "sleep"
      /\ queue.kernel > 0
      /\ queue' = Passed(queue)
      /\ UNCHANGED <<cond, gate, unblockLock, mutex, blocked, toUnblock, gone, how, n,
                     cancelled, waits, wait>>
  BY DEF PassQueue, Goto, MayPass, counts, history
<1>2. pc' = [pc EXCEPT ![t] = l] /\ l \in Places
  BY <1>1 DEF PassQueue, Goto, MayPass, counts, history, Places
<1>3. Moved(t, l)
  BY <1>2, StepMoves
<1>4. queue' \in Semaphores /\ queue'.value = queue.value /\ queue'.kernel = queue.kernel - 1
      /\ queue.value \in Int /\ queue.kernel \in Nat
  BY <1>1, <1>3, SemSteps DEF Moved, MayPass
<1>5. CondType'
  BY <1>1, <1>3, <1>4, CondAssumption DEF Moved, CondInv, CondType, TypeOK, LockKept, Inside,
       OneInGate, HasGate, Closing
<1>6. OneInGate'
  BY <1>1, <1>3, <1>4 DEF Moved, CondInv, CondType, TypeOK, OneInGate, HasGate, LockKept
<1>7. LockKept'
  BY <1>1, <1>3, <1>4, CondAssumption DEF Moved, CondInv, CondType, TypeOK, LockKept, HasLock,
       Closing, OneInGate, HasGate
<1>8. Ending'
  BY <1>1, <1>3, <1>4 DEF Moved, CondInv, CondType, TypeOK, Ending, Destroys, Destroying,
       Entering, Closing, DestroyedQuiet
<1>9. Counted'
  <2>1. blocked' + toUnblock' - gone' = Waiting'
    BY <1>1, <1>3 DEF Moved, CondInv, CondType, TypeOK, Inside
  <2>2. Balanced(queue', Sleeping')
    BY <1>1, <1>3, <1>4 DEF Moved, Balanced, Semaphores
  <2> QED
    BY <2>1, <2>2, CountsAgain
<1> QED
  BY <1>5, <1>6, <1>7, <1>8, <1>9 DEF CondInv

LEMMA TimesOut ==
  ASSUME CondInv, NEW t \in Threads, TimeOut(t)
  PROVE  CondInv'
<1> DEFINE l == "retract"
<1>1. /\ pc[t] = "sleep"
      /\ UNCHANGED <<cond, gate, queue, unblockLock, mutex, blocked, toUnblock, gone, how, n,
                     cancelled, waits, wait>>
  BY DEF TimeOut, Goto, counts, history
<1>2. pc' = [pc EXCEPT ![t] = l] /\ l \in Places
  BY <1>1 DEF TimeOut, Goto, counts, history, Places
<1>3. Moved(t, l)
  BY <1>2, StepMoves
<1>4. CondType'
  BY <1>1, <1>3, CondAssumption DEF Moved, CondInv, CondType, TypeOK, LockKept, Inside,
       OneInGate, HasGate, Closing
<1>5. OneInGate'
  BY <1>1, <1>3 DEF Moved, CondInv, CondType, TypeOK, OneInGate, HasGate, LockKept
<1>6. LockKept'
  BY <1>1, <1>3, CondAssumption DEF Moved, CondInv, CondType, TypeOK, LockKept, HasLock,
       Closing, OneInGate, HasGate
<1>7. Ending'
  BY <1>1, <1>3 DEF Moved, CondInv, CondType, TypeOK, Ending, Destroys, Destroying, Entering,
       Closing, DestroyedQuiet
<1>8. Counted'
  <2>1. blocked' + toUnblock' - gone' = Waiting'
    BY <1>1, <1>3 DEF Moved, CondInv, CondType, TypeOK, Inside
  <2>2. Balanced(queue', Sleeping')
    BY <1>1, <1>3 DEF Moved, Balanced, Semaphores
  <2> QED
    BY <2>1, <2>2, CountsAgain
<1> QED
  BY <1>4, <1>5, <1>6, <1>7, <1>8 DEF CondInv

LEMMA CancelsBefore ==
  ASSUME CondInv, NEW t \in Threads, CancelAtQueue(t), pc[t] = "queue"
  PROVE  CondInv'
<1> DEFINE l == "leave"
<1>1. /\ pc[t] = "queue"
      /\ how' = [how EXCEPT ![t] = "cancelled"]
      /\ UNCHANGED <<cond, gate, queue, unblockLock, mutex, blocked, toUnblock, gone, n,
                     cancelled, waits, wait>>
  BY DEF CancelAtQueue, Calls, Goto, counts, history
<1>2. pc' = [pc EXCEPT ![t] = l] /\ l \in Places
  BY <1>1 DEF CancelAtQueue, Calls, Goto, counts, history, Places
<1>3. Moved(t, l)
  BY <1>2, StepMoves
<1>4. CondType'
  BY <1>1, <1>3, CondAssumption DEF Moved, CondInv, CondType, TypeOK, LockKept, Inside,
       OneInGate, HasGate, Closing
<1>5. OneInGate'
  BY <1>1, <1>3 DEF Moved, CondInv, CondType, TypeOK, OneInGate, HasGate, LockKept
<1>6. LockKept'
  BY <1>1, <1>3, CondAssumption DEF Moved, CondInv, CondType, TypeOK, LockKept, HasLock,
       Closing, OneInGate, HasGate
<1>7. Ending'
  BY <1>1, <1>3 DEF Moved, CondInv, CondType, TypeOK, Ending, Destroys, Destroying, Entering,
       Closing, DestroyedQuiet
<1>8. Counted'
  <2>1. blocked' + toUnblock' - gone' = Waiting'
    BY <1>1, <1>3 DEF Moved, CondInv, CondType, TypeOK, Inside
  <2>2. Balanced(queue', Sleeping')
    BY <1>1, <1>3 DEF Moved, Balanced, Semaphores
  <2> QED
    BY <2>1, <2>2, CountsAgain
<1> QED
  BY <1>4, <1>5, <1>6, <1>7, <1>8 DEF CondInv

LEMMA CancelsAsleep ==
  ASSUME CondInv, NEW t \in Threads, CancelAtQueue(t), pc[t] = "sleep"
  PROVE  CondInv'
<1> DEFINE l == "retract"
<1>1. /\ pc[t] = "sleep"
      /\ how' = [how EXCEPT ![t] = "cancelled"]
      /\ UNCHANGED <<cond, gate, queue, unblockLock, mutex, blocked, toUnblock, gone, n,
                     cancelled, waits, wait>>
  BY DEF CancelAtQueue, Calls, Goto, counts, history
<1>2. pc' = [pc EXCEPT ![t] = l] /\ l \in Places
  BY <1>1 DEF CancelAtQueue, Calls, Goto, counts, history, Places
<1>3. Moved(t, l)
  BY <1>2, StepMoves
<1>4. CondType'
  BY <1>1, <1>3, CondAssumption DEF Moved, CondInv, CondType, TypeOK, LockKept, Inside,
       OneInGate, HasGate, Closing
<1>5. OneInGate'
  BY <1>1, <1>3 DEF Moved, CondInv, CondType, TypeOK, OneInGate, HasGate, LockKept
<1>6. LockKept'
  BY <1>1, <1>3, CondAssumption DEF Moved, CondInv, CondType, TypeOK, LockKept, HasLock,
       Closing, OneInGate, HasGate
<1>7. Ending'
  BY <1>1, <1>3 DEF Moved, CondInv, CondType, TypeOK, Ending, Destroys, Destroying, Entering,
       Closing, DestroyedQuiet
<1>8. Counted'
  <2>1. blocked' + toUnblock' - gone' = Waiting'
    BY <1>1, <1>3 DEF Moved, CondInv, CondType, TypeOK, Inside
  <2>2. Balanced(queue', Sleeping')
    BY <1>1, <1>3 DEF Moved, Balanced, Semaphores
  <2> QED
    BY <2>1, <2>2, CountsAgain
<1> QED
  BY <1>4, <1>5, <1>6, <1>7, <1>8 DEF CondInv

LEMMA Retracts ==
  ASSUME CondInv, NEW t \in Threads, Retract(t)
  PROVE  CondInv'
<1> DEFINE l == "leave"
<1>1. /\ pc[t] = "retract"
      /\ queue' = Retracted(queue)
      /\ UNCHANGED <<cond, gate, unblockLock, mutex, blocked, toUnblock, gone, how, n,
                     cancelled, waits, wait>>
  BY DEF Retract, Goto, counts, history
<1>2. pc' = [pc EXCEPT ![t] = l] /\ l \in Places
  BY <1>1 DEF Retract, Goto, counts, history, Places
<1>3. Moved(t, l)
  BY <1>2, StepMoves
<1>4. /\ queue' \in Semaphores /\ queue.value \in Int /\ queue.kernel \in Nat
      /\ queue.kernel > 0 => queue'.value = queue.value /\ queue'.kernel = queue.kernel - 1
      /\ ~(queue.kernel > 0) => queue'.value = queue.value + 1 /\ queue'.kernel = queue.kernel
  BY <1>1, <1>3, SemSteps, SemRetract DEF Moved
<1>5. CondType'
  BY <1>1, <1>3, <1>4, CondAssumption DEF Moved, CondInv, CondType, TypeOK, LockKept, Inside,
       OneInGate, HasGate, Closing
<1>6. OneInGate'
  BY <1>1, <1>3, <1>4 DEF Moved, CondInv, CondType, TypeOK, OneInGate, HasGate, LockKept
<1>7. LockKept'
  BY <1>1, <1>3, <1>4, CondAssumption DEF Moved, CondInv, CondType, TypeOK, LockKept, HasLock,
       Closing, OneInGate, HasGate
<1>8. Ending'
  BY <1>1, <1>3, <1>4 DEF Moved, CondInv, CondType, TypeOK, Ending, Destroys, Destroying,
       Entering, Closing, DestroyedQuiet
<1>9. Counted'
  <2>1. blocked' + toUnblock' - gone' = Waiting'
    BY <1>1, <1>3 DEF Moved, CondInv, CondType, TypeOK, Inside
  <2>2. Balanced(queue', Sleeping')
    BY <1>1, <1>3, <1>4 DEF Moved, Balanced, Semaphores
  <2> QED
    BY <2>1, <2>2, CountsAgain
<1> QED
  BY <1>5, <1>6, <1>7, <1>8, <1>9 DEF CondInv

LEMMA LeavesSignalled ==
  ASSUME CondInv, NEW t \in Threads, Leave(t), toUnblock > 0
  PROVE  CondInv'
<1> DEFINE l == IF toUnblock = 1 THEN "reopen" ELSE "relock"
<1>1. /\ pc[t] = "leave"
      /\ unblockLock = NoThread
      /\ toUnblock > 0
      /\ toUnblock' = toUnblock - 1
      /\ UNCHANGED <<cond, gate, queue, unblockLock, mutex, blocked, gone, how, n, cancelled,
                     waits, wait>>
  BY DEF Leave, Goto, CondInv, CondType, TypeOK, counts, history
<1>2. pc' = [pc EXCEPT ![t] = l] /\ l \in Places
  BY <1>1, CondAssumption DEF Leave, Goto, CondInv, CondType, TypeOK, counts, history, Places
<1>3. Moved(t, l)
  BY <1>2, StepMoves
<1>4. CondType'
  BY <1>1, <1>3, CondAssumption DEF Moved, CondInv, CondType, TypeOK, LockKept, Inside,
       OneInGate, HasGate, Closing
<1>5. OneInGate'
  BY <1>1, <1>3 DEF Moved, CondInv, CondType, TypeOK, OneInGate, HasGate, LockKept
<1>6. LockKept'
  BY <1>1, <1>3, CondAssumption DEF Moved, CondInv, CondType, TypeOK, LockKept, HasLock,
       Closing, OneInGate, HasGate
<1>7. Ending'
  BY <1>1, <1>3 DEF Moved, CondInv, CondType, TypeOK, Ending, Destroys, Destroying, Entering,
       Closing, DestroyedQuiet
<1>8. Counted'
  <2>1. blocked' + toUnblock' - gone' = Waiting'
    BY <1>1, <1>3 DEF Moved, CondInv, CondType, TypeOK, Inside
  <2>2. Balanced(queue', Sleeping')
    BY <1>1, <1>3 DEF Moved, Balanced, Semaphores
  <2> QED
    BY <2>1, <2>2, CountsAgain
<1> QED
  BY <1>4, <1>5, <1>6, <1>7, <1>8 DEF CondInv

LEMMA LeavesAlone ==
  ASSUME CondInv, NEW t \in Threads, Leave(t), toUnblock = 0, gone + 1 # GoneMax
  PROVE  CondInv'
<1> DEFINE l == "relock"
<1>1. /\ pc[t] = "leave"
      /\ unblockLock = NoThread
      /\ toUnblock = 0
      /\ gone + 1 # GoneMax
      /\ gone' = gone + 1
      /\ UNCHANGED <<cond, gate, queue, unblockLock, mutex, blocked, toUnblock, how, n,
                     cancelled, waits, wait>>
  BY DEF Leave, Goto, counts, history
<1>2. pc' = [pc EXCEPT ![t] = l] /\ l \in Places
  <2>1. unblockLock' # t
    BY <1>1, CondAssumption
  <2> QED
    BY <1>1, <2>1 DEF Leave, Goto, Places
<1>3. Moved(t, l)
  BY <1>2, StepMoves
<1>4. CondType'
  BY <1>1, <1>3, CondAssumption DEF Moved, CondInv, CondType, TypeOK, LockKept, Inside,
       OneInGate, HasGate, Closing
<1>5. OneInGate'
  BY <1>1, <1>3 DEF Moved, CondInv, CondType, TypeOK, OneInGate, HasGate, LockKept
<1>6. LockKept'
  BY <1>1, <1>3, CondAssumption DEF Moved, CondInv, CondType, TypeOK, LockKept, HasLock,
       Closing, OneInGate, HasGate
<1>7. Ending'
  BY <1>1, <1>3 DEF Moved, CondInv, CondType, TypeOK, Ending, Destroys, Destroying, Entering,
       Closing, DestroyedQuiet
<1>8. Counted'
  <2>1. blocked' + toUnblock' - gone' = Waiting'
    BY <1>1, <1>3 DEF Moved, CondInv, CondType, TypeOK, Inside
  <2>2. Balanced(queue', Sleeping')
    BY <1>1, <1>3 DEF Moved, Balanced, Semaphores
  <2> QED
    BY <2>1, <2>2, CountsAgain
<1> QED
  BY <1>4, <1>5, <1>6, <1>7, <1>8 DEF CondInv

LEMMA LeavesToDrain ==
  ASSUME CondInv, NEW t \in Threads, Leave(t), toUnblock = 0, gone + 1 = GoneMax
  PROVE  CondInv'
<1> DEFINE l == "drain"
<1>1. /\ pc[t] = "leave"
      /\ unblockLock = NoThread
      /\ toUnblock = 0
      /\ gone + 1 = GoneMax
      /\ gone' = gone + 1
      /\ unblockLock' = t
      /\ UNCHANGED <<cond, gate, queue, mutex, blocked, toUnblock, how, n, cancelled, waits,
                     wait>>
  BY DEF Leave, Goto, counts, history
<1>2. pc' = [pc EXCEPT ![t] = l] /\ l \in Places
  BY <1>1, CondAssumption DEF Leave, Goto, counts, history, Places
<1>3. Moved(t, l)
  BY <1>2, StepMoves
<1>4. CondType'
  BY <1>1, <1>3, CondAssumption DEF Moved, CondInv, CondType, TypeOK, LockKept, Inside,
       OneInGate, HasGate, Closing
<1>5. OneInGate'
  BY <1>1, <1>3 DEF Moved, CondInv, CondType, TypeOK, OneInGate, HasGate, LockKept
<1>6. LockKept'
  BY <1>1, <1>3, CondAssumption DEF Moved, CondInv, CondType, TypeOK, LockKept, HasLock,
       Closing, OneInGate, HasGate
<1>7. Ending'
  BY <1>1, <1>3 DEF Moved, CondInv, CondType, TypeOK, Ending, Destroys, Destroying, Entering,
       Closing, DestroyedQuiet
<1>8. Counted'
  <2>1. blocked' + toUnblock' - gone' = Waiting'
    BY <1>1, <1>3 DEF Moved, CondInv, CondType, TypeOK, Inside
  <2>2. Balanced(queue', Sleeping')
    BY <1>1, <1>3 DEF Moved, Balanced, Semaphores
  <2> QED
    BY <2>1, <2>2, CountsAgain
<1> QED
  BY <1>4, <1>5, <1>6, <1>7, <1>8 DEF CondInv

LEMMA Drains ==
  ASSUME CondInv, NEW t \in Threads, Drain(t)
  PROVE  CondInv'
<1> DEFINE l == "relock"
<1>1. /\ pc[t] = "drained"
      /\ blocked' = blocked - gone
      /\ gone' = 0
      /\ gate' = Posted(gate)
      /\ unblockLock' = NoThread
      /\ UNCHANGED <<cond, queue, mutex, toUnblock, how, n, cancelled, waits, wait>>
  BY DEF Drain, Goto, counts, history
<1>2. pc' = [pc EXCEPT ![t] = l] /\ l \in Places
  BY <1>1 DEF Drain, Goto, counts, history, Places
<1>3. Moved(t, l)
  BY <1>2, StepMoves
<1>4. gate' \in Semaphores /\ gate'.value = gate.value + 1
      /\ gate'.kernel = gate.kernel + (IF gate.value >= 0 THEN 0 ELSE 1)
      /\ gate.value \in Int /\ gate.kernel \in Nat
  BY <1>1, <1>3, SemSteps DEF Moved
<1>5. CondType'
  BY <1>1, <1>3, <1>4, CondAssumption DEF Moved, CondInv, CondType, TypeOK, LockKept, Inside,
       OneInGate, HasGate, Closing
<1>6. OneInGate'
  BY <1>1, <1>3, <1>4 DEF Moved, CondInv, CondType, TypeOK, OneInGate, HasGate, LockKept
<1>7. LockKept'
  BY <1>1, <1>3, <1>4, CondAssumption DEF Moved, CondInv, CondType, TypeOK, LockKept, HasLock,
       Closing, OneInGate, HasGate
<1>8. Ending'
  BY <1>1, <1>3, <1>4 DEF Moved, CondInv, CondType, TypeOK, Ending, Destroys, Destroying,
       Entering, Closing, DestroyedQuiet
<1>9. Counted'
  <2>1. blocked' + toUnblock' - gone' = Waiting'
    BY <1>1, <1>3 DEF Moved, CondInv, CondType, TypeOK, Inside
  <2>2. Balanced(queue', Sleeping')
    BY <1>1, <1>3, <1>4 DEF Moved, Balanced, Semaphores
  <2> QED
    BY <2>1, <2>2, CountsAgain
<1> QED
  BY <1>5, <1>6, <1>7, <1>8, <1>9 DEF CondInv

LEMMA Relocks ==
  ASSUME CondInv, NEW t \in Threads, Relock(t)
  PROVE  CondInv'
<1> DEFINE l == IF how[t] = "cancelled" THEN "dead" ELSE "idle"
<1>1. /\ pc[t] = "relock"
      /\ UNCHANGED <<cond, gate, queue, unblockLock, mutex, blocked, toUnblock, gone, how, n,
                     cancelled, waits, wait>>
  BY DEF Relock, Goto, counts, history
<1>2. pc' = [pc EXCEPT ![t] = l] /\ l \in Places
  BY <1>1 DEF Relock, Goto, counts, history, Places
<1>3. Moved(t, l)
  BY <1>2, StepMoves
<1>4. CondType'
  BY <1>1, <1>3, CondAssumption DEF Moved, CondInv, CondType, TypeOK, LockKept, Inside,
       OneInGate, HasGate, Closing
<1>5. OneInGate'
  BY <1>1, <1>3 DEF Moved, CondInv, CondType, TypeOK, OneInGate, HasGate, LockKept
<1>6. LockKept'
  BY <1>1, <1>3, CondAssumption DEF Moved, CondInv, CondType, TypeOK, LockKept, HasLock,
       Closing, OneInGate, HasGate
<1>7. Ending'
  BY <1>1, <1>3 DEF Moved, CondInv, CondType, TypeOK, Ending, Destroys, Destroying, Entering,
       Closing, DestroyedQuiet
<1>8. Counted'
  <2>1. blocked' + toUnblock' - gone' = Waiting'
    BY <1>1, <1>3 DEF Moved, CondInv, CondType, TypeOK, Inside
  <2>2. Balanced(queue', Sleeping')
    BY <1>1, <1>3 DEF Moved, Balanced, Semaphores
  <2> QED
    BY <2>1, <2>2, CountsAgain
<1> QED
  BY <1>4, <1>5, <1>6, <1>7, <1>8 DEF CondInv

LEMMA SignalsMore ==
  ASSUME CondInv, NEW t \in Threads, NEW f \in {"signal", "broadcast"}, Signal(t, f),
      toUnblock > 0, blocked > 0
  PROVE  CondInv'
<1> DEFINE l == "post"
<1>1. /\ pc[t] = "idle"
      /\ ~Destroying
      /\ cond = "valid"
      /\ unblockLock = NoThread
      /\ how' = [how EXCEPT ![t] = f]
      /\ toUnblock > 0
      /\ blocked > 0
      /\ \E issue \in 1 .. blocked : /\ n' = [n EXCEPT ![t] = issue]
                                 /\ toUnblock' = toUnblock + issue
                                 /\ blocked' = blocked - issue
      /\ UNCHANGED <<cond, gate, queue, unblockLock, mutex, gone, cancelled, waits, wait>>
  BY DEF Signal, Unblocks, Goto, CondInv, CondType, TypeOK, counts, history
<1>2. pc' = [pc EXCEPT ![t] = l] /\ l \in Places
  BY <1>1 DEF Signal, Unblocks, Goto, CondInv, CondType, TypeOK, counts, history, Places
<1>3. Moved(t, l)
  BY <1>2, StepMoves
<1>4. CondType'
  <2>1. TypeOK'
    BY <1>1, CondAssumption DEF CondInv, CondType, TypeOK, LockKept, Closing
  <2> QED
    BY <1>3, <2>1 DEF Moved, CondType
<1>5. OneInGate'
  BY <1>1, <1>3 DEF Moved, CondInv, CondType, TypeOK, OneInGate, HasGate, LockKept
<1>6. LockKept'
  BY <1>1, <1>3, CondAssumption DEF Moved, CondInv, CondType, TypeOK, LockKept, HasLock,
       Closing, OneInGate, HasGate
<1>7. Ending'
  BY <1>1, <1>3 DEF Moved, CondInv, CondType, TypeOK, Ending, Destroys, Destroying, Entering,
       Closing, DestroyedQuiet
<1>8. Counted'
  <2>1. blocked' + toUnblock' - gone' = Waiting'
    BY <1>1, <1>3 DEF Moved, CondInv, CondType, TypeOK, Inside
  <2>2. Balanced(queue', Sleeping')
    BY <1>1, <1>3 DEF Moved, Balanced, Semaphores
  <2> QED
    BY <2>1, <2>2, CountsAgain
<1> QED
  BY <1>4, <1>5, <1>6, <1>7, <1>8 DEF CondInv

LEMMA SignalsFirst ==
  ASSUME CondInv, NEW t \in Threads, NEW f \in {"signal", "broadcast"}, Signal(t, f),
      toUnblock = 0, blocked > gone
  PROVE  CondInv'
<1> DEFINE l == "close"
<1>1. /\ pc[t] = "idle"
      /\ ~Destroying
      /\ cond = "valid"
      /\ unblockLock = NoThread
      /\ how' = [how EXCEPT ![t] = f]
      /\ toUnblock = 0
      /\ blocked > gone
      /\ unblockLock' = t
      /\ UNCHANGED <<cond, gate, queue, mutex, blocked, toUnblock, gone, n, cancelled, waits,
                     wait>>
  BY DEF Signal, Unblocks, Goto, CondInv, CondType, TypeOK, counts, history
<1>2. pc' = [pc EXCEPT ![t] = l] /\ l \in Places
  BY <1>1 DEF Signal, Unblocks, Goto, CondInv, CondType, TypeOK, counts, history, Places
<1>3. Moved(t, l)
  BY <1>2, StepMoves
<1>4. CondType'
  BY <1>1, <1>3, CondAssumption DEF Moved, CondInv, CondType, TypeOK, LockKept, Inside,
       OneInGate, HasGate, Closing
<1>5. OneInGate'
  BY <1>1, <1>3 DEF Moved, CondInv, CondType, TypeOK, OneInGate, HasGate, LockKept
<1>6. LockKept'
  BY <1>1, <1>3, CondAssumption DEF Moved, CondInv, CondType, TypeOK, LockKept, HasLock,
       Closing, OneInGate, HasGate
<1>7. Ending'
  BY <1>1, <1>3 DEF Moved, CondInv, CondType, TypeOK, Ending, Destroys, Destroying, Entering,
       Closing, DestroyedQuiet
<1>8. Counted'
  <2>1. blocked' + toUnblock' - gone' = Waiting'
    BY <1>1, <1>3 DEF Moved, CondInv, CondType, TypeOK, Inside
  <2>2. Balanced(queue', Sleeping')
    BY <1>1, <1>3 DEF Moved, Balanced, Semaphores
  <2> QED
    BY <2>1, <2>2, CountsAgain
<1> QED
  BY <1>4, <1>5, <1>6, <1>7, <1>8 DEF CondInv

LEMMA Closes ==
  ASSUME CondInv, NEW t \in Threads, Closed(t)
  PROVE  CondInv'
<1> DEFINE l == "post"
<1>1. /\ pc[t] = "closed"
      /\ \E issue \in 1 .. (blocked - gone) : /\ n' = [n EXCEPT ![t] = issue]
                                       /\ toUnblock' = toUnblock + issue
                                       /\ blocked' = blocked - gone - issue
      /\ gone' = 0
      /\ unblockLock' = NoThread
      /\ UNCHANGED <<cond, gate, queue, mutex, how, cancelled, waits, wait>>
  <2>1. pc[t] = "closed" /\ gone' = 0 /\ unblockLock' = NoThread
        /\ Unblocks(t, how[t], blocked - gone)
        /\ UNCHANGED <<cond, gate, queue, mutex, how, cancelled, waits, wait>>
    BY DEF Closed
  <2>2. blocked \in Nat /\ gone \in Nat /\ blocked > gone
    BY <2>1, CondAssumption DEF CondInv, CondType, TypeOK, LockKept, Closing
  <2> DEFINE issue == IF how[t] = "broadcast" THEN blocked - gone ELSE 1
  <2>3. issue \in 1 .. (blocked - gone)
    BY <2>2
  <2>4. /\ n' = [n EXCEPT ![t] = issue]
        /\ toUnblock' = toUnblock + issue /\ blocked' = blocked - gone - issue
    BY <2>1 DEF Unblocks
  <2> QED
    BY <2>1, <2>3, <2>4
<1>2. pc' = [pc EXCEPT ![t] = l] /\ l \in Places
  BY <1>1 DEF Closed, Unblocks, Goto, Closing, CondInv, CondType, TypeOK, LockKept, counts,
       history, Places
<1>3. Moved(t, l)
  BY <1>2, StepMoves
<1>4. CondType'
  <2>1. TypeOK'
    BY <1>1, CondAssumption DEF CondInv, CondType, TypeOK, LockKept, Closing
  <2> QED
    BY <1>3, <2>1 DEF Moved, CondType
<1>5. OneInGate'
  BY <1>1, <1>3 DEF Moved, CondInv, CondType, TypeOK, OneInGate, HasGate, LockKept
<1>6. LockKept'
  BY <1>1, <1>3, CondAssumption DEF Moved, CondInv, CondType, TypeOK, LockKept, HasLock,
       Closing, OneInGate, HasGate
<1>7. Ending'
  BY <1>1, <1>3 DEF Moved, CondInv, CondType, TypeOK, Ending, Destroys, Destroying, Entering,
       Closing, DestroyedQuiet
<1>8. Counted'
  <2>1. blocked' + toUnblock' - gone' = Waiting'
    BY <1>1, <1>3 DEF Moved, CondInv, CondType, TypeOK, Inside
  <2>2. Balanced(queue', Sleeping')
    BY <1>1, <1>3 DEF Moved, Balanced, Semaphores
  <2> QED
    BY <2>1, <2>2, CountsAgain
<1> QED
  BY <1>4, <1>5, <1>6, <1>7, <1>8 DEF CondInv

LEMMA Posts ==
  ASSUME CondInv, NEW t \in Threads, Post(t)
  PROVE  CondInv'
<1> DEFINE l == "idle"
<1>1. /\ pc[t] = "post"
      /\ queue' = PostedMultiple(queue, n[t])
      /\ UNCHANGED <<cond, gate, unblockLock, mutex, blocked, toUnblock, gone, how, n,
                     cancelled, waits, wait>>
  BY DEF Post, Goto, counts, history
<1>2. pc' = [pc EXCEPT ![t] = l] /\ l \in Places
  BY <1>1 DEF Post, Goto, counts, history, Places
<1>3. Moved(t, l)
  BY <1>2, StepMoves
<1>4. queue' \in Semaphores /\ queue'.value = queue.value + n[t]
      /\ queue'.kernel = queue.kernel +
           (IF queue.value >= 0 THEN 0 ELSE IF -queue.value <= n[t] THEN -queue.value ELSE n[t])
      /\ queue.value \in Int /\ queue.kernel \in Nat
  BY <1>1, <1>3, SemSteps DEF Moved
<1>5. CondType'
  BY <1>1, <1>3, <1>4, CondAssumption DEF Moved, CondInv, CondType, TypeOK, LockKept, Inside,
       OneInGate, HasGate, Closing
<1>6. OneInGate'
  BY <1>1, <1>3, <1>4 DEF Moved, CondInv, CondType, TypeOK, OneInGate, HasGate, LockKept
<1>7. LockKept'
  BY <1>1, <1>3, <1>4, CondAssumption DEF Moved, CondInv, CondType, TypeOK, LockKept, HasLock,
       Closing, OneInGate, HasGate
<1>8. Ending'
  BY <1>1, <1>3, <1>4 DEF Moved, CondInv, CondType, TypeOK, Ending, Destroys, Destroying,
       Entering, Closing, DestroyedQuiet
<1>9. Counted'
  <2>1. blocked' + toUnblock' - gone' = Waiting'
    BY <1>1, <1>3 DEF Moved, CondInv, CondType, TypeOK, Inside
  <2>2. Balanced(queue', Sleeping')
    <3>1. CASE queue.value >= 0
      BY <1>1, <1>3, <1>4, <3>1 DEF Moved, Balanced
    <3>2. CASE queue.value < 0 /\ -queue.value <= n[t]
      BY <1>1, <1>3, <1>4, <3>2 DEF Moved, Balanced
    <3>3. CASE queue.value < 0 /\ ~(-queue.value <= n[t])
      BY <1>1, <1>3, <1>4, <3>3 DEF Moved, Balanced
    <3> QED
      BY <1>4, <3>1, <3>2, <3>3
  <2> QED
    BY <2>1, <2>2, CountsAgain
<1> QED
  BY <1>5, <1>6, <1>7, <1>8, <1>9 DEF CondInv

LEMMA BeginsDestroy ==
  ASSUME CondInv, NEW t \in Threads, Destroy(t), cond # "static"
  PROVE  CondInv'
<1> DEFINE l == "destroy"
<1>1. /\ pc[t] = "idle"
      /\ cond = "valid"
      /\ ~Destroying
      /\ \A u \in Threads : pc[u] \notin Entering \cup Closing \cup {"post"}
      /\ how' = [how EXCEPT ![t] = "destroy"]
      /\ UNCHANGED <<cond, gate, queue, unblockLock, mutex, blocked, toUnblock, gone, n,
                     cancelled, waits, wait>>
  BY DEF Destroy, Calls, Goto, CondInv, CondType, TypeOK, counts, history
<1>2. pc' = [pc EXCEPT ![t] = l] /\ l \in Places
  BY <1>1 DEF Destroy, Calls, Goto, CondInv, CondType, TypeOK, counts, history, Places
<1>3. Moved(t, l)
  BY <1>2, StepMoves
<1>4. CondType'
  BY <1>1, <1>3, CondAssumption DEF Moved, CondInv, CondType, TypeOK, LockKept, Inside,
       OneInGate, HasGate, Closing
<1>5. OneInGate'
  BY <1>1, <1>3 DEF Moved, CondInv, CondType, TypeOK, OneInGate, HasGate, LockKept
<1>6. LockKept'
  BY <1>1, <1>3, CondAssumption DEF Moved, CondInv, CondType, TypeOK, LockKept, HasLock,
       Closing, OneInGate, HasGate
<1>7. Ending'
  BY <1>1, <1>3 DEF Moved, CondInv, CondType, TypeOK, Ending, Destroys, Destroying, Entering,
       Closing, DestroyedQuiet
<1>8. Counted'
  <2>1. blocked' + toUnblock' - gone' = Waiting'
    BY <1>1, <1>3 DEF Moved, CondInv, CondType, TypeOK, Inside
  <2>2. Balanced(queue', Sleeping')
    BY <1>1, <1>3 DEF Moved, Balanced, Semaphores
  <2> QED
    BY <2>1, <2>2, CountsAgain
<1> QED
  BY <1>4, <1>5, <1>6, <1>7, <1>8 DEF CondInv

LEMMA TriesInVain ==
  ASSUME CondInv, NEW t \in Threads, TryDestroy(t), unblockLock # NoThread \/ blocked > gone
  PROVE  CondInv'
<1> DEFINE l == "idle"
<1>1. /\ pc[t] = "try"
      /\ gate' = Posted(gate)
      /\ UNCHANGED <<cond, queue, unblockLock, mutex, blocked, toUnblock, gone, how, n,
                     cancelled, waits, wait>>
  BY DEF TryDestroy, Goto, counts, history
<1>2. pc' = [pc EXCEPT ![t] = l] /\ l \in Places
  BY <1>1 DEF TryDestroy, Goto, counts, history, Places
<1>3. Moved(t, l)
  BY <1>2, StepMoves
<1>4. gate' \in Semaphores /\ gate'.value = gate.value + 1
      /\ gate'.kernel = gate.kernel + (IF gate.value >= 0 THEN 0 ELSE 1)
      /\ gate.value \in Int /\ gate.kernel \in Nat
  BY <1>1, <1>3, SemSteps DEF Moved
<1>5. CondType'
  BY <1>1, <1>3, <1>4, CondAssumption DEF Moved, CondInv, CondType, TypeOK, LockKept, Inside,
       OneInGate, HasGate, Closing
<1>6. OneInGate'
  BY <1>1, <1>3, <1>4 DEF Moved, CondInv, CondType, TypeOK, OneInGate, HasGate, LockKept
<1>7. LockKept'
  BY <1>1, <1>3, <1>4, CondAssumption DEF Moved, CondInv, CondType, TypeOK, LockKept, HasLock,
       Closing, OneInGate, HasGate
<1>8. Ending'
  BY <1>1, <1>3, <1>4 DEF Moved, CondInv, CondType, TypeOK, Ending, Destroys, Destroying,
       Entering, Closing, DestroyedQuiet
<1>9. Counted'
  <2>1. blocked' + toUnblock' - gone' = Waiting'
    BY <1>1, <1>3 DEF Moved, CondInv, CondType, TypeOK, Inside
  <2>2. Balanced(queue', Sleeping')
    BY <1>1, <1>3, <1>4 DEF Moved, Balanced, Semaphores
  <2> QED
    BY <2>1, <2>2, CountsAgain
<1> QED
  BY <1>5, <1>6, <1>7, <1>8, <1>9 DEF CondInv

LEMMA EndsDestroy ==
  ASSUME CondInv, NEW t \in Threads, TryDestroy(t), ~(unblockLock # NoThread \/ blocked > gone)
  PROVE  CondInv'
<1> DEFINE l == "idle"
<1>1. /\ pc[t] = "try"
      /\ unblockLock = NoThread
      /\ ~(blocked > gone)
      /\ cond' = "null"
      /\ UNCHANGED <<gate, queue, unblockLock, mutex, blocked, toUnblock, gone, how, n,
                     cancelled, waits, wait>>
  BY DEF TryDestroy, Goto, counts, history
<1>2. pc' = [pc EXCEPT ![t] = l] /\ l \in Places
  BY <1>1 DEF TryDestroy, Goto, counts, history, Places
<1>3. Moved(t, l)
  BY <1>2, StepMoves
<1>4. CondType'
  BY <1>1, <1>3, CondAssumption DEF Moved, CondInv, CondType, TypeOK, LockKept, Inside,
       OneInGate, HasGate, Closing
<1>5. OneInGate'
  BY <1>1, <1>3 DEF Moved, CondInv, CondType, TypeOK, OneInGate, HasGate, LockKept
<1>6. LockKept'
  BY <1>1, <1>3, CondAssumption DEF Moved, CondInv, CondType, TypeOK, LockKept, HasLock,
       Closing, OneInGate, HasGate
<1>7. Ending'
  <2>1. toUnblock = 0
    BY <1>1 DEF CondInv, OneInGate, HasGate
  <2>2. Waiting = 0
    BY <1>1, <1>3, <2>1 DEF Moved, CondInv, CondType, TypeOK
  <2>3. IsFiniteSet(At(Inside))
    BY CondAssumption, FS_Subset DEF At
  <2>4. At(Inside) = {}
    BY <2>2, <2>3, FS_EmptySet DEF Waiting
  <2>5. \A u \in Threads : pc[u] \notin Inside
    BY <2>4 DEF At
  <2>6. \A u \in Threads : u # t => pc[u] \in {"idle", "dead", "relock"}
    <3> SUFFICES ASSUME NEW u \in Threads, u # t PROVE pc[u] \in {"idle", "dead", "relock"}
      OBVIOUS
    <3>1. pc[u] \in Places
      BY DEF CondInv, CondType
    <3>2. pc[u] \notin HasGate
      BY <1>1 DEF CondInv, OneInGate, HasGate
    <3>3. pc[u] \notin HasLock
      BY <1>1, CondAssumption DEF CondInv, LockKept
    <3>4. pc[u] \notin Entering \cup Closing \cup {"post"} \cup Destroys
      BY <1>1 DEF CondInv, Ending, Destroys
    <3> QED
      BY <2>5, <3>1, <3>2, <3>3, <3>4
         DEF Places, HasGate, HasLock, Entering, Closing, Destroys, Inside
  <2> QED
    BY <1>1, <1>3, <2>6
       DEF Moved, CondInv, CondType, TypeOK, Ending, Destroys, Entering, Closing, DestroyedQuiet
<1>8. Counted'
  <2>1. blocked' + toUnblock' - gone' = Waiting'
    BY <1>1, <1>3 DEF Moved, CondInv, CondType, TypeOK, Inside
  <2>2. Balanced(queue', Sleeping')
    BY <1>1, <1>3 DEF Moved, Balanced, Semaphores
  <2> QED
    BY <2>1, <2>2, CountsAgain
<1> QED
  BY <1>4, <1>5, <1>6, <1>7, <1>8 DEF CondInv
-----------------------------------------------------------------------------
(* The steps that remain, and the theorem *)

\* A condition variable that is still static is destroyed at once.
LEMMA DestroysStatic ==
  ASSUME CondInv, NEW t \in Threads, Destroy(t), cond = "static"
  PROVE  CondInv'
<1>1. cond' = "null" /\ UNCHANGED <<pc, how, gate, queue, unblockLock, mutex, counts, n,
                                    cancelled, cancels, history>>
  BY DEF Destroy
<1>2. \A u \in Threads : pc[u] = "idle"
  BY DEF CondInv, Ending
<1>3. CondType'
  BY <1>1 DEF CondInv, CondType, TypeOK, counts, history
<1>4. OneInGate' /\ LockKept'
  BY <1>1 DEF CondInv, OneInGate, LockKept, counts, history
<1>5. Ending'
  BY <1>1, <1>2 DEF CondInv, Ending, Destroys, Entering, Closing, DestroyedQuiet
<1>6. Counted'
  BY <1>1 DEF CondInv, Counted, QueueBalanced, counts, history
<1> QED
  BY <1>3, <1>4, <1>5, <1>6 DEF CondInv

\* A signal that finds nobody to wake, and a cancellation, only leave a note.
LEMMA SignalsNobody ==
  ASSUME CondInv, NEW t \in Threads, NEW f \in {"signal", "broadcast"}, Signal(t, f),
         UNCHANGED <<pc, n, toUnblock, blocked, unblockLock>>
  PROVE  CondInv'
<1>1. pc[t] = "idle" /\ how' = [how EXCEPT ![t] = f]
      /\ UNCHANGED <<pc, n, toUnblock, blocked, unblockLock, cond, gate, queue, mutex, gone,
                     cancelled, waits, wait>>
  BY DEF Signal
<1>2. how \in [Threads -> {"none", "wait", "timedwait", "signal", "broadcast", "destroy",
                           "cancelled"}]
  BY DEF CondInv, CondType, TypeOK
<1>3. CondType'
  BY <1>1, <1>2 DEF CondInv, CondType, TypeOK
<1>4. OneInGate'
  BY <1>1 DEF CondInv, OneInGate
<1>5. LockKept'
  BY <1>1, <1>2 DEF CondInv, LockKept, Closing
<1>6. Ending'
  BY <1>1, <1>2 DEF CondInv, Ending, Destroys, Entering, Closing, DestroyedQuiet
<1>7. Counted'
  BY <1>1 DEF CondInv, Counted, QueueBalanced
<1> QED
  BY <1>3, <1>4, <1>5, <1>6, <1>7 DEF CondInv

LEMMA Cancels ==
  ASSUME CondInv, PastGateOnly, NEW t \in Threads, Cancel(t)
  PROVE  CondInv'
<1>1. pc[t] # "atGate" /\ cancelled' = cancelled \cup {t}
      /\ UNCHANGED <<cond, gate, queue, unblockLock, mutex, counts, pc, how, n, history>>
  BY DEF Cancel, PastGateOnly
<1>2. CondType'
  BY <1>1 DEF CondInv, CondType, TypeOK, counts, history
<1>3. OneInGate' /\ LockKept'
  BY <1>1 DEF CondInv, OneInGate, LockKept, counts, history
<1>4. Ending'
  BY <1>1 DEF CondInv, Ending, Destroys, Entering, Closing, DestroyedQuiet
<1>5. Counted'
  BY <1>1 DEF CondInv, Counted, QueueBalanced, counts, history
<1> QED
  BY <1>2, <1>3, <1>4, <1>5 DEF CondInv

LEMMA CondStart == Init => CondInv
<1> SUFFICES ASSUME Init PROVE CondInv
  OBVIOUS
<1>1. /\ gate = [value |-> 1, kernel |-> 0] /\ queue = [value |-> 0, kernel |-> 0]
      /\ \A t \in Threads : pc[t] = "idle" /\ how[t] = "none"
      /\ blocked = 0 /\ toUnblock = 0 /\ gone = 0 /\ unblockLock = NoThread
  BY DEF Init, NewSem
<1>2. CondType
  BY CondAssumption DEF Init, NewSem, CondType, TypeOK, Semaphores, Places
<1>3. OneInGate
  BY <1>1 DEF OneInGate, HasGate
<1>4. LockKept
  BY <1>1, CondAssumption DEF LockKept, HasLock, Closing
<1>5. Ending
  BY <1>1 DEF Init, Ending, Destroys, Entering, Closing, DestroyedQuiet
<1>6. At(Inside) = {} /\ At({"sleep", "retract"}) = {}
  BY <1>1 DEF At, Inside
<1>7. Waiting = 0 /\ Sleeping = 0
  BY <1>6, FS_EmptySet DEF Waiting, Sleeping
<1>8. Counted
  BY <1>1, <1>7 DEF Counted, QueueBalanced, Balanced, Waiting, Sleeping, At
<1> QED
  BY <1>2, <1>3, <1>4, <1>5, <1>8 DEF CondInv

LEMMA GateKept ==
  ASSUME CondInv, PastGateOnly, NEW t \in Threads,
         TakeGate(t) \/ PassGate(t) \/ CancelAtGate(t) \/ Count(t) \/ Open(t)
  PROVE  CondInv'
<1>1. CASE TakeGate(t)
  <2>1. PICK g \in Gates : pc[t] = g[1]
    BY <1>1 DEF TakeGate
  <2>2. pc[t] \in {"enter", "drain", "close", "destroy"}
    BY <2>1 DEF Gates
  <2> QED
    BY <1>1, <2>2, TakesEnter, TakesDrain, TakesClose, TakesDestroy
<1>2. CASE PassGate(t)
  <2>1. PICK g \in Gates : pc[t] = g[2]
    BY <1>2 DEF PassGate
  <2>2. pc[t] \in {"atGate", "drainAtGate", "closeAtGate", "destroyAtGate"}
    BY <2>1 DEF Gates
  <2> QED
    BY <1>2, <2>2, PassesEnter, PassesDrain, PassesClose, PassesDestroy
<1>3. CASE Open(t)
  <2>1. pc[t] \in {"open", "reopen"}
    BY <1>3 DEF Open
  <2> QED
    BY <1>3, <2>1, Opens, Reopens
<1> QED
  BY <1>1, <1>2, <1>3, CancelsAtGate, Counts

LEMMA QueueKept ==
  ASSUME CondInv, NEW t \in Threads,
         \/ UnlockMutex(t) \/ TakeQueue(t) \/ PassQueue(t) \/ TimeOut(t) \/ CancelAtQueue(t)
         \/ Retract(t) \/ Leave(t) \/ Drain(t) \/ Relock(t)
  PROVE  CondInv'
<1>1. CASE CancelAtQueue(t)
  <2>1. pc[t] \in {"queue", "sleep"}
    BY <1>1 DEF CancelAtQueue
  <2> QED
    BY <1>1, <2>1, CancelsBefore, CancelsAsleep
<1>2. CASE Leave(t)
  <2>1. toUnblock > 0 \/ toUnblock = 0
    BY DEF CondInv, CondType, TypeOK
  <2> QED
    BY <1>2, <2>1, LeavesSignalled, LeavesAlone, LeavesToDrain
<1> QED
  BY <1>1, <1>2, Unlocks, TakesQueue, PassesQueue, TimesOut, Retracts, Drains, Relocks

LEMMA UnblockKept ==
  ASSUME CondInv, NEW t \in Threads,
         \/ \E f \in {"signal", "broadcast"} : Signal(t, f)
         \/ Closed(t) \/ Post(t) \/ Destroy(t) \/ TryDestroy(t)
  PROVE  CondInv'
<1>1. CASE \E f \in {"signal", "broadcast"} : Signal(t, f)
  <2>1. PICK f \in {"signal", "broadcast"} : Signal(t, f)
    BY <1>1
  <2>2. \/ toUnblock > 0 /\ blocked > 0
        \/ toUnblock = 0 /\ blocked > gone
        \/ UNCHANGED <<pc, n, toUnblock, blocked, unblockLock>>
    BY <2>1 DEF Signal
  <2> QED
    BY <2>1, <2>2, SignalsMore, SignalsFirst, SignalsNobody
<1> QED
  BY <1>1, Closes, Posts, BeginsDestroy, DestroysStatic, TriesInVain, EndsDestroy

LEMMA CondStep == PastGateOnly /\ CondInv /\ [Next]_vars => CondInv'
<1> SUFFICES ASSUME PastGateOnly, CondInv, [Next]_vars PROVE CondInv'
  OBVIOUS
<1>1. CASE UNCHANGED vars
  <2>1. UNCHANGED <<cond, gate, queue, unblockLock, mutex, blocked, toUnblock, gone, pc, how, n,
                    cancelled, waits, wait>>
    BY <1>1 DEF vars, counts, history
  <2>2. CondType'
    BY <2>1 DEF CondInv, CondType, TypeOK
  <2>3. OneInGate' /\ LockKept'
    BY <2>1 DEF CondInv, OneInGate, LockKept
  <2>4. Ending'
    BY <2>1 DEF CondInv, Ending, DestroyedQuiet
  <2>5. Counted'
    BY <2>1 DEF CondInv, Counted, QueueBalanced
  <2> QED
    BY <2>2, <2>3, <2>4, <2>5 DEF CondInv
<1>2. CASE Next
  <2>1. PICK t \in Threads :
          \/ \E f \in Functions \cap {"wait", "timedwait"} : Wait(t, f)
          \/ \E f \in Functions \cap {"signal", "broadcast"} : Signal(t, f)
          \/ "destroy" \in Functions /\ Destroy(t)
          \/ InCall(t) \/ Cancel(t)
    BY <1>2 DEF Next
  <2>2. CASE \E f \in Functions \cap {"wait", "timedwait"} : Wait(t, f)
    BY <2>2, Waits
  <2>3. CASE \E f \in Functions \cap {"signal", "broadcast"} : Signal(t, f)
    BY <2>3, UnblockKept
  <2>4. CASE Destroy(t)
    BY <2>4, UnblockKept
  <2>5. CASE InCall(t)
    BY <2>5, GateKept, QueueKept, UnblockKept DEF InCall
  <2>6. CASE Cancel(t)
    BY <2>6, Cancels
  <2> QED
    BY <2>1, <2>2, <2>3, <2>4, <2>5, <2>6
<1> QED
  BY <1>1, <1>2

\* The counts of a condition variable are those of its waiters, whatever threads
\* signal, time out, are cancelled in the queue or fold the counts meanwhile, and
\* pthread_cond_destroy ends it under nobody (pthread_cond_wait.c,
\* pthread_cond_signal.c, pthread_cond_destroy.c).
THEOREM CondAlwaysSound == PastGateOnly => (Spec => []CondSound)
<1> SUFFICES ASSUME PastGateOnly PROVE Spec => []CondSound
  OBVIOUS
<1>1. PastGateOnly /\ CondInv /\ [Next]_vars => CondInv'
  BY CondStep
<1>2. CondInv => CondSound
  BY DEF CondInv, CondType, Ending, Counted, CondSound, CountsAddUp, CountsWaiters
<1> QED
  BY <1>1, <1>2, CondStart, PTL DEF Spec

-----------------------------------------------------------------------------
(* Nobody hangs                                                            *)

AtGates == {"atGate", "drainAtGate", "closeAtGate", "destroyAtGate"}
Gated == Cardinality(At(AtGates))
Leaving == Cardinality(At({"leave"}))

\* The units that threads in signal or broadcast are about to post.
Posting == {x \in Threads \X Nat : pc[x[1]] = "post" /\ x[2] \in 1 .. n[x[1]]}

\* The unit of the gate is there when nobody keeps it, and the gate has counted
\* the threads that wait for it.
GateBack ==
  /\ (\A t \in Threads : pc[t] \notin HasGate) /\ toUnblock = 0 /\ cond # "null"
       => gate.value = 1 \/ gate.kernel = 1
  /\ Balanced(gate, Gated)

\* Who is to be unblocked finds a unit, is on its way out, or its unit is going to
\* be posted; and until all are unblocked nobody folds the counts or closes.
UnitsKept ==
  /\ toUnblock <= queue.value + Sleeping + Leaving + Cardinality(Posting)
  /\ IsFiniteSet(Posting)
  /\ toUnblock > 0 => gone = 0 /\ unblockLock = NoThread

MutexKept ==
  mutex # NoThread => pc[mutex] \in {"enter", "atGate", "count", "open", "unlock"}

RestInv == GateBack /\ UnitsKept /\ MutexKept

StepOf(t) ==
  \/ \E f \in {"wait", "timedwait"} : Wait(t, f)
  \/ \E f \in {"signal", "broadcast"} : Signal(t, f)
  \/ Destroy(t) \/ InCall(t) \/ Cancel(t)

\* A thread that moves is counted where it goes.
LEMMA GatedMoves ==
  ASSUME CondType, NEW t \in Threads, NEW l \in Places, pc' = [pc EXCEPT ![t] = l]
  PROVE  /\ Gated \in Nat
         /\ pc[t] \in AtGates => Gated >= 1
         /\ (pc[t] \in AtGates <=> l \in AtGates) => Gated' = Gated
         /\ pc[t] \notin AtGates /\ l \in AtGates => Gated' = Gated + 1
         /\ pc[t] \in AtGates /\ l \notin AtGates => Gated' = Gated - 1
<1>1. /\ Gated \in Nat
      /\ pc[t] \in AtGates => Gated >= 1
      /\ Gated' = Gated + (IF l \in AtGates THEN 1 ELSE 0) - (IF pc[t] \in AtGates THEN 1 ELSE 0)
  BY AtMoves DEF Gated
<1> QED
  BY <1>1

LEMMA LeavingMoves ==
  ASSUME CondType, NEW t \in Threads, NEW l \in Places, pc' = [pc EXCEPT ![t] = l]
  PROVE  /\ Leaving \in Nat
         /\ pc[t] = "leave" => Leaving >= 1
         /\ (pc[t] = "leave" <=> l = "leave") => Leaving' = Leaving
         /\ pc[t] # "leave" /\ l = "leave" => Leaving' = Leaving + 1
         /\ pc[t] = "leave" /\ l # "leave" => Leaving' = Leaving - 1
         /\ Leaving' = Leaving + (IF l = "leave" THEN 1 ELSE 0) - (IF pc[t] = "leave" THEN 1 ELSE 0)
<1>1. /\ Leaving \in Nat
      /\ pc[t] = "leave" => Leaving >= 1
      /\ Leaving' = Leaving + (IF l = "leave" THEN 1 ELSE 0) - (IF pc[t] = "leave" THEN 1 ELSE 0)
  BY AtMoves DEF Leaving
<1> QED
  BY <1>1

\* The gate is left alone.
LEMMA GateSame ==
  ASSUME CondInv, GateBack, UNCHANGED gate, NEW t \in Threads, NEW l \in Places,
         pc' = [pc EXCEPT ![t] = l], pc[t] \notin HasGate \cup AtGates, l \notin AtGates,
         (toUnblock' = 0 /\ cond' # "null") /\ l \notin HasGate => toUnblock = 0 /\ cond # "null"
  PROVE  GateBack'
<1>1. CondType
  BY DEF CondInv
<1>2. Gated' = Gated /\ Gated \in Nat
  BY <1>1, GatedMoves
<1>3. pc'[t] = l /\ \A u \in Threads : u # t => pc'[u] = pc[u]
  BY <1>1, Moves
<1>4. (\A u \in Threads : pc'[u] \notin HasGate) => l \notin HasGate /\ \A u \in Threads : pc[u] \notin HasGate
  BY <1>3
<1> QED
  BY <1>2, <1>4 DEF GateBack, Balanced

\* A thread counts itself in at the gate, and has its unit or waits for it.
LEMMA GateTaken ==
  ASSUME CondInv, GateBack, NEW t \in Threads, TakeGate(t) \/ PassGate(t)
  PROVE  GateBack'
<1>1. /\ CondType /\ gate \in Semaphores /\ UNCHANGED <<cond, toUnblock>>
      /\ gate.value \in Int /\ gate.kernel \in Nat
      /\ MustWait(gate) <=> gate.value <= 0
      /\ MayPass(gate) <=> gate.kernel > 0
  <2>1. CondType /\ gate \in Semaphores
    BY DEF CondInv, CondType, TypeOK
  <2>2. 0 \in Nat
    OBVIOUS
  <2> QED
    BY <2>1, <2>2, SemSteps DEF TakeGate, PassGate, counts
<1>2. CASE TakeGate(t)
  <2>1. PICK g \in Gates : /\ pc[t] = g[1] /\ gate' = Taken(gate)
                           /\ pc' = [pc EXCEPT ![t] = IF gate.value <= 0 THEN g[2] ELSE g[3]]
    BY <1>1, <1>2 DEF TakeGate, Goto
  <2>2. g[1] \notin HasGate \cup AtGates /\ g[2] \in AtGates /\ g[2] \notin HasGate
        /\ g[3] \in HasGate /\ g[3] \notin AtGates /\ g[2] \in Places /\ g[3] \in Places
    BY DEF Gates, HasGate, AtGates, Places
  <2>3. gate'.value = gate.value - 1 /\ gate'.kernel = gate.kernel
    <3>1. 0 \in Nat
      OBVIOUS
    <3> QED
      BY <1>1, <2>1, <3>1, SemSteps
  <2>4. CASE gate.value <= 0
    <3>1. pc' = [pc EXCEPT ![t] = g[2]]
      BY <2>1, <2>4
    <3>2. Gated' = Gated + 1 /\ Gated \in Nat
      BY <1>1, <2>1, <2>2, <3>1, GatedMoves
    <3>3. \A u \in Threads : pc'[u] \in HasGate <=> pc[u] \in HasGate
      BY <1>1, <2>1, <2>2, <3>1, Moves
    <3> QED
      BY <1>1, <2>3, <2>4, <3>2, <3>3 DEF GateBack, Balanced
  <2>5. CASE ~(gate.value <= 0)
    <3>1. pc' = [pc EXCEPT ![t] = g[3]]
      BY <2>1, <2>5
    <3>2. Gated' = Gated /\ Gated \in Nat
      BY <1>1, <2>1, <2>2, <3>1, GatedMoves
    <3>3. pc'[t] \in HasGate
      BY <1>1, <2>2, <3>1, Moves
    <3> QED
      BY <1>1, <2>3, <2>5, <3>2, <3>3 DEF GateBack, Balanced
  <2> QED
    BY <1>1, <2>4, <2>5
<1>3. CASE PassGate(t)
  <2>1. PICK g \in Gates : /\ pc[t] = g[2] /\ gate' = Passed(gate) /\ gate.kernel > 0
                           /\ pc' = [pc EXCEPT ![t] = g[3]]
    BY <1>1, <1>3 DEF PassGate, Goto
  <2>2. g[2] \in AtGates /\ g[3] \in HasGate /\ g[3] \notin AtGates /\ g[3] \in Places
    BY DEF Gates, HasGate, AtGates, Places
  <2>3. gate'.value = gate.value /\ gate'.kernel = gate.kernel - 1
    <3>1. 0 \in Nat
      OBVIOUS
    <3> QED
      BY <1>1, <2>1, <3>1, SemSteps
  <2>4. Gated' = Gated - 1 /\ Gated \in Nat
    BY <1>1, <2>1, <2>2, GatedMoves
  <2>5. pc'[t] \in HasGate
    BY <1>1, <2>1, <2>2, Moves
  <2> QED
    BY <1>1, <2>3, <2>4, <2>5 DEF GateBack, Balanced
<1> QED
  BY <1>2, <1>3

\* Who keeps the gate opens it.
LEMMA GateOpened ==
  ASSUME CondInv, GateBack, NEW t \in Threads, NEW l \in Places,
         pc[t] \in HasGate, pc' = [pc EXCEPT ![t] = l], l \notin AtGates, gate' = Posted(gate)
  PROVE  GateBack'
<1>1. CondType /\ gate \in Semaphores /\ gate.value <= 0 /\ gate.kernel = 0
  BY DEF CondInv, CondType, TypeOK, OneInGate
<1>2. /\ gate.value \in Int /\ gate'.value = gate.value + 1
      /\ gate'.kernel = gate.kernel + (IF gate.value >= 0 THEN 0 ELSE 1)
  <2>1. 0 \in Nat
    OBVIOUS
  <2> QED
    BY <1>1, <2>1, SemSteps
<1>3. Gated' = Gated /\ Gated \in Nat
  <2>1. pc[t] \notin AtGates
    BY DEF HasGate, AtGates
  <2> QED
    BY <1>1, <2>1, GatedMoves
<1> QED
  BY <1>1, <1>2, <1>3 DEF GateBack, Balanced

LEMMA GateBackKept ==
  ASSUME CondInv, GateBack, NEW t \in Threads, StepOf(t)
  PROVE  GateBack'
<1> USE DEF Goto, Calls, counts, history
<1>1. CondType /\ gate \in Semaphores /\ toUnblock \in Nat /\ blocked \in Nat /\ gone \in Nat
  BY DEF CondInv, CondType, TypeOK
<1>2. CASE TakeGate(t) \/ PassGate(t)
  BY <1>2, GateTaken
<1>3. CASE CancelAtGate(t)
  <2>1. pc[t] = "enter" /\ UNCHANGED <<gate, toUnblock, cond>> /\ pc' = [pc EXCEPT ![t] = "dead"]
    <3>1. pc[t] # "retractGate" /\ (pc[t] = "atGate" => t \notin cancelled)
      BY <1>1 DEF CondInv, CondType, Ending, Places
    <3> QED
      BY <1>3, <3>1 DEF CancelAtGate
  <2>2. "dead" \in Places /\ "enter" \notin HasGate \cup AtGates /\ "dead" \notin AtGates
    BY DEF Places, HasGate, AtGates
  <2> QED
    BY <2>1, <2>2, GateSame
<1>4. CASE Count(t)
  <2>1. pc[t] = "count" /\ UNCHANGED gate /\ pc' = [pc EXCEPT ![t] = "open"]
    BY <1>4 DEF Count
  <2>2. "open" \in HasGate /\ "open" \in Places /\ "open" \notin AtGates /\ "count" \notin AtGates
    BY DEF Places, HasGate, AtGates
  <2>3. Gated' = Gated /\ pc'[t] \in HasGate
        /\ Gated \in Nat
    BY <1>1, <2>1, <2>2, GatedMoves, Moves
  <2> QED
    BY <2>1, <2>3 DEF GateBack, Balanced
<1>5. CASE Open(t) \/ Drain(t)
  <2>1. PICK l \in {"unlock", "relock"} :
          pc[t] \in HasGate /\ pc' = [pc EXCEPT ![t] = l] /\ gate' = Posted(gate)
    BY <1>5 DEF Open, Drain, HasGate
  <2>2. l \in Places /\ l \notin AtGates
    BY DEF Places, AtGates
  <2> QED
    BY <2>1, <2>2, GateOpened
<1>6. CASE TryDestroy(t)
  <2>1. pc[t] \in HasGate /\ pc' = [pc EXCEPT ![t] = "idle"]
        /\ (gate' = Posted(gate) \/ (UNCHANGED gate /\ cond' = "null"))
    BY <1>6 DEF TryDestroy, HasGate
  <2>2. "idle" \in Places /\ "idle" \notin AtGates
    BY DEF Places, AtGates
  <2>3. CASE gate' = Posted(gate)
    BY <2>1, <2>2, <2>3, GateOpened
  <2>4. CASE UNCHANGED gate /\ cond' = "null"
    <3>1. pc[t] \notin AtGates
      BY <2>1 DEF HasGate, AtGates
    <3>2. Gated' = Gated /\ Gated \in Nat
      BY <1>1, <2>1, <2>2, <3>1, GatedMoves
    <3> QED
      BY <2>4, <3>2 DEF GateBack, Balanced
  <2> QED
    BY <2>1, <2>3, <2>4
\* The gate stays closed, for a thread of the same call or for those it unblocks.
<1>7. CASE Closed(t)
  <2>1. /\ pc[t] = "closed" /\ UNCHANGED gate /\ pc' = [pc EXCEPT ![t] = "post"]
        /\ blocked > gone
        /\ toUnblock' = toUnblock + (IF how[t] = "broadcast" THEN blocked - gone ELSE 1)
    BY <1>7 DEF Closed, Unblocks, CondInv, LockKept, Closing
  <2>2. toUnblock' # 0
    BY <1>1, <2>1
  <2>3. "post" \in Places /\ "post" \notin AtGates /\ "closed" \notin AtGates
    BY DEF Places, AtGates
  <2>4. Gated' = Gated /\ Gated \in Nat
    BY <1>1, <2>1, <2>3, GatedMoves
  <2> QED
    BY <2>1, <2>2, <2>4 DEF GateBack, Balanced
<1>8. ASSUME UNCHANGED <<gate, pc>>, toUnblock' = 0 => toUnblock = 0, cond' # "null" => cond # "null"
      PROVE  GateBack'
  BY <1>8 DEF GateBack, Gated, At
<1>9. CASE Cancel(t)
  BY <1>8, <1>9 DEF Cancel
<1>10. CASE Destroy(t)
  <2>1. CASE UNCHANGED pc
    BY <1>8, <1>10, <2>1 DEF Destroy
  <2>2. CASE ~UNCHANGED pc
    <3>1. pc[t] = "idle" /\ UNCHANGED <<gate, cond, toUnblock>> /\ pc' = [pc EXCEPT ![t] = "destroy"]
      BY <1>10, <2>2 DEF Destroy
    <3>2. "destroy" \in Places /\ "destroy" \notin AtGates /\ "idle" \notin HasGate \cup AtGates
      BY DEF Places, HasGate, AtGates
    <3> QED
      BY <3>1, <3>2, GateSame
  <2> QED
    BY <2>1, <2>2
<1>11. CASE \E f \in {"signal", "broadcast"} : Signal(t, f)
  <2>1. PICK f \in {"signal", "broadcast"} : Signal(t, f)
    BY <1>11
  <2>2. CASE UNCHANGED <<pc, n, toUnblock, blocked, unblockLock>>
    BY <1>8, <2>1, <2>2 DEF Signal
  <2>3. CASE toUnblock > 0 /\ blocked > 0
    <3>1. /\ pc[t] = "idle" /\ UNCHANGED <<gate, cond>> /\ pc' = [pc EXCEPT ![t] = "post"]
          /\ toUnblock' = toUnblock + (IF f = "broadcast" THEN blocked ELSE 1)
      BY <1>1, <2>1, <2>3 DEF Signal, Unblocks
    <3>2. toUnblock' # 0
      BY <1>1, <2>3, <3>1
    <3>3. "post" \in Places /\ "post" \notin AtGates /\ "idle" \notin HasGate \cup AtGates
      BY DEF Places, HasGate, AtGates
    <3> QED
      BY <3>1, <3>2, <3>3, GateSame
  <2>4. CASE toUnblock = 0 /\ blocked > gone
    <3>1. pc[t] = "idle" /\ UNCHANGED <<gate, cond, toUnblock>> /\ pc' = [pc EXCEPT ![t] = "close"]
      BY <1>1, <2>1, <2>4 DEF Signal
    <3>2. "close" \in Places /\ "close" \notin AtGates /\ "idle" \notin HasGate \cup AtGates
      BY DEF Places, HasGate, AtGates
    <3> QED
      BY <3>1, <3>2, GateSame
  <2> QED
    BY <2>1, <2>2, <2>3, <2>4 DEF Signal
<1>12. CASE \/ \E f \in {"wait", "timedwait"} : Wait(t, f)
            \/ UnlockMutex(t) \/ TakeQueue(t) \/ PassQueue(t) \/ TimeOut(t) \/ CancelAtQueue(t) \/ Retract(t)
            \/ Relock(t) \/ Post(t)
  <2>1. PICK l \in {"enter", "queue", "sleep", "retract", "leave", "idle", "dead"} :
          /\ pc[t] \in {"idle", "unlock", "queue", "sleep", "retract", "relock", "post"}
          /\ pc' = [pc EXCEPT ![t] = l] /\ UNCHANGED <<gate, toUnblock>>
          /\ cond' # "null" => cond # "null"
    BY <1>12 DEF Wait, UnlockMutex, TakeQueue, PassQueue, TimeOut, CancelAtQueue, Retract, Relock, Post
  <2>2. l \in Places /\ l \notin AtGates /\ pc[t] \notin HasGate \cup AtGates
    BY <2>1 DEF Places, AtGates, HasGate
  <2> QED
    BY <2>1, <2>2, GateSame
<1>13. CASE Leave(t)
  <2>1. PICK l \in {"drain", "reopen", "relock"} :
          /\ pc[t] = "leave" /\ pc' = [pc EXCEPT ![t] = l] /\ UNCHANGED <<gate, cond>>
          /\ toUnblock' = 0 /\ l # "reopen" => toUnblock = 0
    <3>1. CASE toUnblock = 0
      BY <1>13, <3>1 DEF Leave
    <3>2. CASE toUnblock = 1
      <4>1. unblockLock' # t
        BY <1>13, <3>2, CondAssumption DEF Leave
      <4> QED
        BY <1>13, <3>2, <4>1 DEF Leave
    <3>3. CASE toUnblock > 1
      <4>1. toUnblock' # 0
        BY <1>1, <1>13, <3>3 DEF Leave
      <4> QED
        BY <1>13, <3>3, <4>1 DEF Leave
    <3> QED
      BY <1>1, <3>1, <3>2, <3>3
  <2>2. l \in Places /\ l \notin AtGates /\ pc[t] \notin HasGate \cup AtGates /\ "reopen" \in HasGate
    BY <2>1 DEF Places, AtGates, HasGate
  <2> QED
    BY <2>1, <2>2, GateSame
<1> QED
  BY <1>2, <1>3, <1>4, <1>5, <1>6, <1>7, <1>9, <1>10, <1>11, <1>12, <1>13 DEF StepOf, InCall

\* What there is to post when a thread is past its post, or comes to it.
LEMMA NothingPosted ==
  ASSUME CondType, NEW t \in Threads, NEW l \in Places, pc' = [pc EXCEPT ![t] = l],
         pc[t] # "post", l # "post", UNCHANGED n
  PROVE  Posting' = Posting
<1>1. \A u \in Threads : pc'[u] = "post" <=> pc[u] = "post"
  BY Moves
<1> QED
  BY <1>1 DEF Posting

LEMMA Units ==
  ASSUME NEW t, NEW k \in Nat
  PROVE  IsFiniteSet({t} \X (1 .. k)) /\ Cardinality({t} \X (1 .. k)) = k
<1>1. IsFiniteSet({t}) /\ Cardinality({t}) = 1
  BY FS_Singleton
<1>2. IsFiniteSet(1 .. k) /\ Cardinality(1 .. k) = k
  BY FS_Interval
<1>3. IsFiniteSet({t} \X (1 .. k)) /\ Cardinality({t} \X (1 .. k)) = 1 * k
  BY <1>1, <1>2, FS_Product, ZenonT(60)
<1> QED
  BY <1>3

LEMMA PostingComes ==
  ASSUME CondType, IsFiniteSet(Posting), NEW t \in Threads, NEW k \in Nat, pc[t] # "post",
         pc' = [pc EXCEPT ![t] = "post"], n' = [n EXCEPT ![t] = k]
  PROVE  IsFiniteSet(Posting') /\ Cardinality(Posting') = Cardinality(Posting) + k
<1>1. /\ pc'[t] = "post" /\ n'[t] = k
      /\ \A u \in Threads : u # t => pc'[u] = pc[u] /\ n'[u] = n[u]
  BY Moves DEF CondType, TypeOK, Places
<1> DEFINE P == {t} \X (1 .. k)
<1>2. Posting' = Posting \cup P
  <2>1. \A x \in Threads \X Nat : x \in P <=> x[1] = t /\ x[2] \in 1 .. k
    OBVIOUS
  <2>2. P \subseteq Threads \X Nat
    OBVIOUS
  <2> HIDE DEF P
  <2> QED
    BY <1>1, <2>1, <2>2 DEF Posting
<1>3. Posting \cap P = {}
  BY DEF Posting
<1>4. IsFiniteSet(P) /\ Cardinality(P) = k
  BY Units
<1> HIDE DEF P
<1>5. Cardinality(Posting) \in Nat /\ Cardinality({}) = 0
  BY FS_CardinalityType, FS_EmptySet
<1>6. /\ IsFiniteSet(Posting \cup P)
      /\ Cardinality(Posting \cup P) = Cardinality(Posting) + Cardinality(P) - Cardinality(Posting \cap P)
  BY <1>4, FS_Union
<1>7. Cardinality(Posting \cap P) = 0
  BY <1>3, <1>5
<1> QED
  BY <1>2, <1>4, <1>5, <1>6, <1>7

LEMMA PostingGoes ==
  ASSUME CondType, IsFiniteSet(Posting), NEW t \in Threads, pc[t] = "post",
         NEW l \in Places, l # "post", pc' = [pc EXCEPT ![t] = l], UNCHANGED n
  PROVE  IsFiniteSet(Posting') /\ Cardinality(Posting') = Cardinality(Posting) - n[t]
<1>1. /\ pc'[t] # "post" /\ \A u \in Threads : u # t => pc'[u] = pc[u]
  BY Moves
<1>2. PICK k \in Nat : k = n[t]
  BY DEF CondType, TypeOK
<1> DEFINE P == {t} \X (1 .. k)
<1>3. Posting' = Posting \ P /\ P \subseteq Posting
  <2>1. \A x \in Threads \X Nat : x \in P <=> x[1] = t /\ x[2] \in 1 .. k
    OBVIOUS
  <2>2. P \subseteq Threads \X Nat
    OBVIOUS
  <2> HIDE DEF P
  <2> QED
    BY <1>1, <1>2, <2>1, <2>2 DEF Posting
<1>4. IsFiniteSet(P) /\ Cardinality(P) = k
  BY Units
<1> HIDE DEF P
<1>5. Posting \cap P = P
  BY <1>3
<1>6. /\ IsFiniteSet(Posting \ P)
      /\ Cardinality(Posting \ P) = Cardinality(Posting) - Cardinality(Posting \cap P)
  BY FS_Difference
<1> QED
  BY <1>2, <1>3, <1>4, <1>5, <1>6

LEMMA SleepingMoves ==
  ASSUME CondType, NEW t \in Threads, NEW l \in Places, pc' = [pc EXCEPT ![t] = l]
  PROVE  /\ Sleeping \in Nat
         /\ (pc[t] \in {"sleep", "retract"} <=> l \in {"sleep", "retract"}) => Sleeping' = Sleeping
<1>1. /\ Sleeping \in Nat
      /\ Sleeping' = Sleeping + (IF l \in {"sleep", "retract"} THEN 1 ELSE 0)
                              - (IF pc[t] \in {"sleep", "retract"} THEN 1 ELSE 0)
  BY AtMoves DEF Sleeping
<1> QED
  BY <1>1

\* A thread moves, and what it does to the queue fits where it goes.
LEMMA UnitsMove ==
  ASSUME CondInv, UnitsKept, NEW t \in Threads, NEW l \in Places, pc' = [pc EXCEPT ![t] = l],
         pc[t] # "post", l # "post", UNCHANGED n,
         toUnblock' > 0 => gone' = 0 /\ unblockLock' = NoThread,
         NEW d \in Int, queue'.value = queue.value + d,
         \/ toUnblock' <= 0 /\ queue' \in Semaphores
         \/ /\ toUnblock' <= toUnblock - (IF pc[t] = "leave" THEN 1 ELSE 0)
            /\ d + (IF l \in {"sleep", "retract", "leave"} THEN 1 ELSE 0)
                 - (IF pc[t] \in {"sleep", "retract"} THEN 1 ELSE 0) >= 0,
         CondInv'
  PROVE  UnitsKept'
<1>1. CondType /\ toUnblock \in Nat /\ toUnblock' \in Nat /\ queue.value \in Int /\ queue' \in Semaphores
  BY DEF CondInv, CondType, TypeOK, Semaphores
<1>2. Posting' = Posting /\ IsFiniteSet(Posting) /\ Cardinality(Posting) \in Nat
  BY <1>1, NothingPosted, FS_CardinalityType DEF UnitsKept
<1>3. Moved(t, l) /\ (l = "leave" => l \notin {"sleep", "retract"})
  BY StepMoves
<1>4. /\ Leaving \in Nat
      /\ Leaving' = Leaving + (IF l = "leave" THEN 1 ELSE 0) - (IF pc[t] = "leave" THEN 1 ELSE 0)
      /\ Leaving' \in Nat
  <2>1. Leaving \in Nat /\ (pc[t] = "leave" => Leaving >= 1)
    BY <1>1, LeavingMoves
  <2>2. Leaving' = Leaving + (IF l = "leave" THEN 1 ELSE 0) - (IF pc[t] = "leave" THEN 1 ELSE 0)
    BY <1>1, <2>1, LeavingMoves
  <2> QED
    BY <2>1, <2>2
<1>5. /\ Sleeping \in Nat
      /\ Sleeping' = Sleeping + (IF l \in {"sleep", "retract"} THEN 1 ELSE 0)
                              - (IF pc[t] \in {"sleep", "retract"} THEN 1 ELSE 0)
  BY <1>3 DEF Moved
<1>6. toUnblock <= queue.value + Sleeping + Leaving + Cardinality(Posting)
  BY DEF UnitsKept
<1>7. toUnblock' <= queue'.value + Sleeping' + Leaving' + Cardinality(Posting')
  <2>1. CASE toUnblock' <= 0
    <3>1. Balanced(queue', Sleeping')
      <4>1. Counted'
        BY DEF CondInv
      <4> QED
        BY <4>1 DEF Counted, QueueBalanced, Sleeping, At
    <3>4. Sleeping' \in Nat /\ Cardinality(Posting') \in Nat
      BY <1>2, <1>3, <1>5 DEF Moved
    <3>2. queue'.value \in Int /\ queue'.kernel \in Nat
      BY <1>1 DEF Semaphores
    <3>3. queue'.value + Sleeping' >= 0
      BY <3>1, <3>2, <3>4 DEF Balanced
    <3> QED
      <4>1. PICK i, j \in Int : i = queue'.value + Sleeping' /\ j = Leaving' + Cardinality(Posting')
        BY <1>4, <3>2, <3>4
      <4>2. i >= 0 /\ j >= 0
        BY <1>4, <3>3, <3>4, <4>1
      <4>3. queue'.value + Sleeping' + Leaving' + Cardinality(Posting') = i + j
        BY <1>4, <3>2, <3>4, <4>1
      <4> QED
        BY <1>1, <2>1, <4>1, <4>2, <4>3
  <2>2. CASE ~(toUnblock' <= 0)
    <3>1. PICK a, b, c, e \in {0, 1} :
            /\ a = (IF l \in {"sleep", "retract"} THEN 1 ELSE 0)
            /\ b = (IF pc[t] \in {"sleep", "retract"} THEN 1 ELSE 0)
            /\ c = (IF l = "leave" THEN 1 ELSE 0) /\ e = (IF pc[t] = "leave" THEN 1 ELSE 0)
            /\ d + a + c - b >= 0
      BY <2>2
    <3>2. Sleeping' = Sleeping + a - b /\ Leaving' = Leaving + c - e /\ toUnblock' <= toUnblock - e
      BY <1>4, <1>5, <2>2, <3>1
    <3> QED
      BY <1>1, <1>2, <1>4, <1>5, <1>6, <3>1, <3>2
  <2> QED
    BY <2>1, <2>2
<1> QED
  BY <1>2, <1>7 DEF UnitsKept

LEMMA UnitsStep ==
  ASSUME CondInv, CondInv', UnitsKept, NEW t \in Threads, StepOf(t)
  PROVE  UnitsKept'
<1> USE DEF Goto, Calls, counts, history
<1>1. /\ CondType /\ queue \in Semaphores /\ gate \in Semaphores /\ n[t] \in Nat /\ queue.value \in Int
      /\ toUnblock \in Nat /\ blocked \in Nat /\ gone \in Nat /\ 0 \in Int /\ 1 \in Int /\ -1 \in Int
  BY DEF CondInv, CondType, TypeOK, Semaphores
<1>2. toUnblock > 0 => gone = 0 /\ unblockLock = NoThread
  BY DEF UnitsKept
\* A step that has nothing to do with units.
<1>3. ASSUME NEW l \in Places, pc' = [pc EXCEPT ![t] = l], pc[t] \notin {"post", "leave", "sleep", "retract"},
             l # "post", UNCHANGED <<n, queue, toUnblock>>,
             toUnblock > 0 => gone' = 0 /\ unblockLock' = NoThread
      PROVE  UnitsKept'
  <2>1. queue'.value = queue.value + 0
    BY <1>1, <1>3
  <2>2. /\ toUnblock' <= toUnblock - (IF pc[t] = "leave" THEN 1 ELSE 0)
        /\ 0 + (IF l \in {"sleep", "retract", "leave"} THEN 1 ELSE 0)
             - (IF pc[t] \in {"sleep", "retract"} THEN 1 ELSE 0) >= 0
    BY <1>1, <1>3
  <2> QED
    BY <1>1, <1>3, <2>1, <2>2, UnitsMove
<1>4. ASSUME UNCHANGED <<pc, n, queue, toUnblock, gone, unblockLock>> PROVE UnitsKept'
  BY <1>4 DEF UnitsKept, Sleeping, Leaving, Posting, At
\* At the queue.
<1>5. CASE TakeQueue(t)
  <2>1. PICK l \in {"sleep", "leave"} :
          /\ pc[t] = "queue" /\ pc' = [pc EXCEPT ![t] = l] /\ queue' = Taken(queue)
          /\ UNCHANGED <<n, toUnblock, gone, unblockLock>>
    BY <1>5 DEF TakeQueue
  <2>2. queue'.value = queue.value + (-1)
    BY <1>1, <2>1, SemSteps
  <2>3. l \in Places /\ l # "post" /\ pc[t] # "post"
    BY <2>1 DEF Places
  <2>4. /\ toUnblock' <= toUnblock - (IF pc[t] = "leave" THEN 1 ELSE 0)
        /\ (-1) + (IF l \in {"sleep", "retract", "leave"} THEN 1 ELSE 0)
                - (IF pc[t] \in {"sleep", "retract"} THEN 1 ELSE 0) >= 0
    BY <1>1, <2>1
  <2> QED
    BY <1>1, <1>2, <2>1, <2>2, <2>3, <2>4, UnitsMove
<1>6. CASE PassQueue(t) \/ TimeOut(t) \/ (CancelAtQueue(t) /\ pc[t] = "sleep")
  <2>1. PICK l \in {"leave", "retract"} :
          /\ pc[t] = "sleep" /\ pc' = [pc EXCEPT ![t] = l]
          /\ queue' = queue \/ (MayPass(queue) /\ queue' = Passed(queue))
          /\ UNCHANGED <<n, toUnblock, gone, unblockLock>>
    BY <1>6 DEF PassQueue, TimeOut, CancelAtQueue
  <2>2. queue'.value = queue.value + 0
    <3>1. 0 \in Nat
      OBVIOUS
    <3> QED
      BY <1>1, <2>1, <3>1, SemSteps
  <2>3. l \in Places /\ l # "post" /\ pc[t] # "post"
    BY <2>1 DEF Places
  <2>4. /\ toUnblock' <= toUnblock - (IF pc[t] = "leave" THEN 1 ELSE 0)
        /\ 0 + (IF l \in {"sleep", "retract", "leave"} THEN 1 ELSE 0)
             - (IF pc[t] \in {"sleep", "retract"} THEN 1 ELSE 0) >= 0
    BY <1>1, <2>1
  <2> QED
    BY <1>1, <1>2, <2>1, <2>2, <2>3, <2>4, UnitsMove
<1>7. CASE CancelAtQueue(t) /\ pc[t] = "queue"
  <2>1. "leave" \in Places /\ pc' = [pc EXCEPT ![t] = "leave"] /\ UNCHANGED <<n, queue, toUnblock, gone, unblockLock>>
    BY <1>7 DEF CancelAtQueue, Places
  <2> QED
    BY <1>2, <1>3, <1>7, <2>1
<1>8. CASE Retract(t)
  <2>1. /\ pc[t] = "retract" /\ pc' = [pc EXCEPT ![t] = "leave"] /\ queue' = Retracted(queue)
        /\ UNCHANGED <<n, toUnblock, gone, unblockLock>>
    BY <1>8 DEF Retract
  <2>2. PICK d \in {0, 1} : queue'.value = queue.value + d
    BY <1>1, <2>1, SemRetract
  <2>3. "leave" \in Places /\ pc[t] # "post"
    BY <2>1 DEF Places
  <2>4. /\ toUnblock' <= toUnblock - (IF pc[t] = "leave" THEN 1 ELSE 0)
        /\ d + (IF "leave" \in {"sleep", "retract", "leave"} THEN 1 ELSE 0)
             - (IF pc[t] \in {"sleep", "retract"} THEN 1 ELSE 0) >= 0
    BY <1>1, <2>1
  <2> QED
    BY <1>1, <1>2, <2>1, <2>2, <2>3, <2>4, UnitsMove
<1>9. CASE Leave(t)
  <2>1. PICK l \in {"drain", "reopen", "relock"} :
          pc[t] = "leave" /\ pc' = [pc EXCEPT ![t] = l] /\ UNCHANGED <<n, queue>>
    BY <1>9 DEF Leave
  <2>2. l \in Places /\ l # "post" /\ pc[t] # "post" /\ queue'.value = queue.value + 0 /\ queue' \in Semaphores
    BY <1>1, <2>1 DEF Places
  <2>3. CASE toUnblock = 0
    <3>1. toUnblock' <= 0 /\ ~(toUnblock' > 0)
      BY <1>9, <2>3 DEF Leave
    <3>2. /\ toUnblock' > 0 => gone' = 0 /\ unblockLock' = NoThread
          /\ toUnblock' <= 0 /\ queue' \in Semaphores
      BY <2>2, <3>1
    <3> QED
      BY <1>1, <2>1, <2>2, <3>2, UnitsMove
  <2>4. CASE toUnblock > 0
    <3>1. toUnblock' = toUnblock - 1 /\ gone' = gone /\ unblockLock' = NoThread
      BY <1>1, <1>9, <2>4 DEF Leave
    <3>2. /\ toUnblock' <= toUnblock - (IF pc[t] = "leave" THEN 1 ELSE 0)
          /\ 0 + (IF l \in {"sleep", "retract", "leave"} THEN 1 ELSE 0)
               - (IF pc[t] \in {"sleep", "retract"} THEN 1 ELSE 0) >= 0
      BY <1>1, <2>1, <3>1
    <3> QED
      BY <1>1, <1>2, <2>1, <2>2, <2>4, <3>1, <3>2, UnitsMove
  <2> QED
    BY <1>1, <2>3, <2>4
\* In signal and broadcast.
<1>10. ASSUME NEW k \in Nat, pc[t] \notin {"post", "leave", "sleep", "retract"},
              pc' = [pc EXCEPT ![t] = "post"],
              n' = [n EXCEPT ![t] = k], toUnblock' = toUnblock + k, UNCHANGED queue,
              gone' = 0 /\ unblockLock' = NoThread
       PROVE  UnitsKept'
  <2>1. IsFiniteSet(Posting) /\ Cardinality(Posting) \in Nat
    BY FS_CardinalityType DEF UnitsKept
  <2>2. IsFiniteSet(Posting') /\ Cardinality(Posting') = Cardinality(Posting) + k
    BY <1>1, <1>10, <2>1, PostingComes
  <2>3. "post" \in Places
    BY DEF Places
  <2>4. Leaving' = Leaving /\ Leaving \in Nat
    BY <1>1, <1>10, <2>3, LeavingMoves
  <2>5. Sleeping' = Sleeping /\ Sleeping \in Nat
    BY <1>1, <1>10, <2>3, SleepingMoves
  <2>6. toUnblock <= queue.value + Sleeping + Leaving + Cardinality(Posting)
    BY DEF UnitsKept
  <2>7. toUnblock' <= queue'.value + Sleeping' + Leaving' + Cardinality(Posting')
    BY <1>1, <1>10, <2>1, <2>2, <2>4, <2>5, <2>6
  <2> QED
    BY <1>10, <2>2, <2>7 DEF UnitsKept
<1>11. CASE \E f \in {"signal", "broadcast"} : Signal(t, f)
  <2>1. PICK f \in {"signal", "broadcast"} : Signal(t, f)
    BY <1>11
  <2>2. CASE UNCHANGED <<pc, n, toUnblock, blocked, unblockLock>>
    BY <1>4, <2>1, <2>2 DEF Signal
  <2>3. CASE toUnblock > 0 /\ blocked > 0
    <3>1. PICK k \in Nat : k = IF f = "broadcast" THEN blocked ELSE 1
      BY <1>1
    <3>2. /\ pc[t] = "idle" /\ pc' = [pc EXCEPT ![t] = "post"] /\ n' = [n EXCEPT ![t] = k]
          /\ toUnblock' = toUnblock + k /\ UNCHANGED <<queue, gone, unblockLock>>
      BY <1>1, <2>1, <2>3, <3>1 DEF Signal, Unblocks
    <3> QED
      BY <1>2, <1>10, <2>3, <3>1, <3>2
  <2>4. CASE toUnblock = 0 /\ blocked > gone
    <3>1. /\ pc[t] = "idle" /\ pc' = [pc EXCEPT ![t] = "close"] /\ "close" \in Places
          /\ UNCHANGED <<n, queue, toUnblock>>
      BY <1>1, <2>1, <2>4 DEF Signal, Places
    <3>2. toUnblock > 0 => gone' = 0 /\ unblockLock' = NoThread
      BY <2>4
    <3> QED
      BY <1>3, <3>1, <3>2
  <2> QED
    BY <2>1, <2>2, <2>3, <2>4 DEF Signal
<1>12. CASE Closed(t)
  <2>1. pc[t] = "closed" /\ blocked > gone
    BY <1>12 DEF Closed, CondInv, LockKept, Closing
  <2>4. blocked - gone \in Nat
    BY <1>1, <2>1
  <2>2. PICK k \in Nat : k = IF how[t] = "broadcast" THEN blocked - gone ELSE 1
    BY <1>1, <2>4
  <2>3. /\ pc' = [pc EXCEPT ![t] = "post"] /\ n' = [n EXCEPT ![t] = k]
        /\ toUnblock' = toUnblock + k /\ UNCHANGED queue /\ gone' = 0 /\ unblockLock' = NoThread
    BY <1>12, <2>2 DEF Closed, Unblocks
  <2> QED
    BY <1>10, <2>1, <2>2, <2>3
<1>13. CASE Post(t)
  <2>1. /\ pc[t] = "post" /\ pc' = [pc EXCEPT ![t] = "idle"] /\ queue' = PostedMultiple(queue, n[t])
        /\ UNCHANGED <<n, toUnblock, gone, unblockLock>>
    BY <1>13 DEF Post
  <2>2. queue'.value = queue.value + n[t]
    BY <1>1, <2>1, SemSteps
  <2>3. IsFiniteSet(Posting) /\ Cardinality(Posting) \in Nat /\ "idle" \in Places
    BY FS_CardinalityType DEF UnitsKept, Places
  <2>4. IsFiniteSet(Posting') /\ Cardinality(Posting') = Cardinality(Posting) - n[t]
    BY <1>1, <2>1, <2>3, PostingGoes
  <2>5. Leaving' = Leaving /\ Leaving \in Nat
    BY <1>1, <2>1, <2>3, LeavingMoves
  <2>6. Sleeping' = Sleeping /\ Sleeping \in Nat
    BY <1>1, <2>1, <2>3, SleepingMoves
  <2>7. toUnblock <= queue.value + Sleeping + Leaving + Cardinality(Posting)
    BY DEF UnitsKept
  <2>8. toUnblock' <= queue'.value + Sleeping' + Leaving' + Cardinality(Posting')
    BY <1>1, <2>1, <2>2, <2>3, <2>4, <2>5, <2>6, <2>7
  <2> QED
    BY <1>2, <2>1, <2>4, <2>8 DEF UnitsKept
\* At the gate and around it.
<1>14. CASE TakeGate(t) \/ PassGate(t)
  <2>1. PICK g \in Gates : \E l \in {g[2], g[3]} :
          pc[t] \in {g[1], g[2]} /\ pc' = [pc EXCEPT ![t] = l] /\ UNCHANGED <<n, queue, toUnblock, gone, unblockLock>>
    BY <1>14 DEF TakeGate, PassGate
  <2>2. PICK l \in {g[2], g[3]} :
          pc[t] \in {g[1], g[2]} /\ pc' = [pc EXCEPT ![t] = l] /\ UNCHANGED <<n, queue, toUnblock, gone, unblockLock>>
    BY <2>1
  <2>3. l \in Places /\ l # "post" /\ pc[t] \notin {"post", "leave", "sleep", "retract"}
    BY <2>2 DEF Gates, Places
  <2> QED
    BY <1>2, <1>3, <2>2, <2>3
<1>15. CASE Drain(t)
  <2>1. toUnblock = 0 /\ pc[t] = "drained"
    BY <1>15 DEF Drain, CondInv, OneInGate, HasGate
  <2>2. pc' = [pc EXCEPT ![t] = "relock"] /\ "relock" \in Places /\ UNCHANGED <<n, queue, toUnblock>>
    BY <1>15 DEF Drain, Places
  <2>3. toUnblock > 0 => gone' = 0 /\ unblockLock' = NoThread
    BY <2>1
  <2>4. pc[t] \notin {"post", "leave", "sleep", "retract"}
    BY <2>1
  <2> QED
    BY <1>3, <2>2, <2>3, <2>4
<1>16. CASE Cancel(t)
  BY <1>4, <1>16 DEF Cancel
<1>17. CASE Destroy(t)
  <2>1. CASE UNCHANGED pc
    BY <1>4, <1>17, <2>1 DEF Destroy
  <2>2. CASE ~UNCHANGED pc
    <3>1. /\ pc[t] = "idle" /\ pc' = [pc EXCEPT ![t] = "destroy"] /\ "destroy" \in Places
          /\ UNCHANGED <<n, queue, toUnblock, gone, unblockLock>>
      BY <1>17, <2>2 DEF Destroy, Places
    <3> QED
      BY <1>2, <1>3, <3>1
  <2> QED
    BY <2>1, <2>2
<1>18. CASE \/ \E f \in {"wait", "timedwait"} : Wait(t, f)
            \/ CancelAtGate(t) \/ Count(t) \/ Open(t) \/ UnlockMutex(t) \/ Relock(t) \/ TryDestroy(t)
  <2>1. PICK l \in {"enter", "dead", "retractGate", "open", "unlock", "relock", "queue", "idle"} :
          /\ pc[t] \in {"idle", "enter", "atGate", "retractGate", "count", "open", "reopen", "unlock", "relock", "try"}
          /\ l = "retractGate" => pc[t] = "atGate" /\ t \in cancelled
          /\ pc' = [pc EXCEPT ![t] = l] /\ UNCHANGED <<n, queue, toUnblock, gone, unblockLock>>
    BY <1>18 DEF Wait, CancelAtGate, Count, Open, UnlockMutex, Relock, TryDestroy
  <2>2. l \in Places
    BY <2>1 DEF Places, CondInv, Ending
  <2> QED
    BY <1>2, <1>3, <2>1, <2>2
<1> QED
  BY <1>5, <1>6, <1>7, <1>8, <1>9, <1>11, <1>12, <1>13, <1>14, <1>15, <1>16, <1>17, <1>18
  DEF StepOf, InCall, CancelAtQueue

\* The mutex is with a thread that has it to give back.
LEMMA MutexStep ==
  ASSUME CondInv, MutexKept, NEW t \in Threads, StepOf(t)
  PROVE  MutexKept'
<1> USE DEF Goto, Calls, counts, history, MutexKept
<1>1. CondType /\ pc \in [Threads -> Places] /\ mutex \in Threads \cup {NoThread} /\ NoThread \notin Threads
  BY CondAssumption DEF CondInv, CondType, TypeOK
<1>2. ASSUME UNCHANGED mutex, \A u \in Threads : u # t => pc'[u] = pc[u],
             mutex = t => pc'[t] \in {"enter", "atGate", "count", "open", "unlock"}
      PROVE  MutexKept'
  BY <1>1, <1>2
<1>3. CASE TakeGate(t) \/ PassGate(t)
  <2>1. PICK g \in Gates : \E l \in {g[2], g[3]} :
          pc[t] \in {g[1], g[2]} /\ pc' = [pc EXCEPT ![t] = l] /\ UNCHANGED mutex
    BY <1>3 DEF TakeGate, PassGate
  <2>2. PICK l \in {g[2], g[3]} : pc[t] \in {g[1], g[2]} /\ pc' = [pc EXCEPT ![t] = l]
    BY <2>1
  <2>3. pc[t] \in {"enter", "atGate"} => l \in {"atGate", "count"}
    BY <2>2 DEF Gates
  <2>4. g[1] \in {"enter", "atGate", "count", "open", "unlock"} => g[1] = "enter"
        /\ (g[2] \in {"enter", "atGate", "count", "open", "unlock"} => g[2] = "atGate")
    BY DEF Gates
  <2>5. pc[t] \in {"enter", "atGate", "count", "open", "unlock"} => pc[t] \in {"enter", "atGate"}
    BY <2>2 DEF Gates
  <2>6. pc'[t] = l /\ \A u \in Threads : u # t => pc'[u] = pc[u]
    BY <1>1, <2>2
  <2> QED
    BY <1>1, <1>2, <2>1, <2>3, <2>5, <2>6
<1>4. CASE \E f \in {"wait", "timedwait"} : Wait(t, f)
  BY <1>1, <1>4 DEF Wait
<1>5. CASE CancelAtGate(t)
  <2>1. pc[t] # "atGate"
    BY <1>5 DEF CancelAtGate, CondInv, Ending
  <2> QED
    BY <1>1, <1>5, <2>1 DEF CancelAtGate
<1>6. CASE UnlockMutex(t)
  BY <1>1, <1>6 DEF UnlockMutex
<1>7. CASE Count(t) \/ Open(t) \/ TakeQueue(t) \/ PassQueue(t) \/ TimeOut(t) \/ CancelAtQueue(t) \/ Retract(t)
           \/ Drain(t) \/ Relock(t) \/ Post(t) \/ TryDestroy(t) \/ Cancel(t)
  BY <1>1, <1>7 DEF Count, Open, TakeQueue, PassQueue, TimeOut, CancelAtQueue, Retract, Drain, Relock, Post,
     TryDestroy, Cancel
<1>8. CASE Leave(t) \/ Closed(t) \/ Destroy(t)
  BY <1>1, <1>8 DEF Leave, Closed, Unblocks, Destroy
<1>9. CASE \E f \in {"signal", "broadcast"} : Signal(t, f)
  BY <1>1, <1>9 DEF Signal, Unblocks
<1> QED
  BY <1>3, <1>4, <1>5, <1>6, <1>7, <1>8, <1>9 DEF StepOf, InCall

\* Where the threads are when none can go on.
LEMMA RestPlaces ==
  ASSUME CondInv, AtRest, NEW t \in Threads
  PROVE  /\ pc[t] \in {"idle", "dead", "sleep", "leave", "relock"} \cup AtGates
         /\ pc[t] \in AtGates => gate.kernel = 0
         /\ pc[t] = "sleep" => queue.kernel = 0
         /\ pc[t] = "leave" => unblockLock # NoThread
         /\ pc[t] = "relock" => mutex # NoThread
<1>1. CondType /\ gate \in Semaphores /\ queue \in Semaphores
  BY DEF CondInv, CondType, TypeOK
<1>2. /\ gate.kernel \in Nat /\ queue.kernel \in Nat
      /\ MayPass(gate) <=> gate.kernel > 0
      /\ MayPass(queue) <=> queue.kernel > 0
  <2>1. 0 \in Nat
    OBVIOUS
  <2> QED
    BY <1>1, <2>1, SemSteps
<1>3. pc[t] \notin {"idle", "dead"} => Blocked(t)
  BY DEF AtRest, InCalls
<1>4. pc[t] = "atGate" => t \notin cancelled
  BY DEF CondInv, Ending
<1> QED
  BY <1>2, <1>3, <1>4 DEF Blocked, AtGates

\* Then none of those that were signalled is left.
LEMMA RestAllUnblocked ==
  ASSUME CondInv, RestInv, AtRest
  PROVE  toUnblock = 0
<1>1. /\ toUnblock \in Nat /\ blocked \in Nat /\ queue.value \in Int /\ queue.kernel \in Nat
  BY DEF CondInv, CondType, TypeOK, Semaphores
<1> SUFFICES ASSUME toUnblock > 0 PROVE FALSE
  BY <1>1
<1>2. gone = 0 /\ unblockLock = NoThread
  BY DEF RestInv, UnitsKept
<1>3. Leaving = 0
  <2>1. At({"leave"}) = {}
    BY <1>2, RestPlaces DEF At
  <2> QED
    BY <2>1, FS_EmptySet DEF Leaving
<1>4. Cardinality(Posting) = 0
  <2>1. Posting = {}
    BY RestPlaces DEF Posting, AtGates
  <2> QED
    BY <2>1, FS_EmptySet
<1>5. /\ blocked + toUnblock - gone = Waiting /\ Waiting \in Nat /\ Sleeping \in Nat
      /\ Balanced(queue, Sleeping)
  BY InvCounts
<1>6. PICK t \in Threads : pc[t] \in Inside
  <2>1. Waiting # 0
    BY <1>1, <1>2, <1>5
  <2>2. At(Inside) # {}
    BY <2>1, FS_EmptySet DEF Waiting
  <2> QED
    BY <2>2 DEF At
<1>7. pc[t] = "sleep" /\ queue.kernel = 0
  BY <1>2, <1>6, RestPlaces DEF Inside, AtGates
<1>8. Sleeping # 0
  <2>1. t \in At({"sleep", "retract"})
    BY <1>7 DEF At
  <2>2. IsFiniteSet(At({"sleep", "retract"}))
    BY CondAssumption, FS_Subset DEF At
  <2> QED
    BY <2>1, <2>2, FS_EmptySet DEF Sleeping
<1>9. queue.value + Sleeping = 0
  BY <1>1, <1>5, <1>7, <1>8 DEF Balanced
<1>10. toUnblock <= queue.value + Sleeping + Leaving + Cardinality(Posting)
  BY DEF RestInv, UnitsKept
<1> QED
  BY <1>1, <1>3, <1>4, <1>9, <1>10

\* And each is where it may stay.
LEMMA RestKept == CondInv /\ RestInv => NobodyHangs
<1> SUFFICES ASSUME CondInv, RestInv, AtRest
             PROVE  unblockLock = NoThread /\ \A t \in Threads : pc[t] \in {"idle", "dead", "sleep"}
  BY DEF NobodyHangs
<1>1. toUnblock = 0
  BY RestAllUnblocked
<1>2. \A t \in Threads : pc[t] \notin HasGate
  BY RestPlaces DEF HasGate, AtGates
<1>3. ASSUME NEW t \in Threads, pc[t] \in AtGates PROVE FALSE
  <2>1. gate.kernel = 0 /\ gate.value \in Int
    BY <1>3, RestPlaces DEF CondInv, CondType, TypeOK, Semaphores
  <2>2. cond # "null"
    BY <1>3 DEF CondInv, Ending, DestroyedQuiet, AtGates
  <2>3. gate.value = 1
    BY <1>1, <1>2, <2>1, <2>2 DEF RestInv, GateBack
  <2>4. Gated = 0
    <3>1. Gated \in Nat
      BY CondAssumption, FS_Subset, FS_CardinalityType DEF Gated, At
    <3> QED
      BY <2>1, <2>3, <3>1 DEF RestInv, GateBack, Balanced
  <2>5. t \in At(AtGates) /\ IsFiniteSet(At(AtGates))
    BY <1>3, CondAssumption, FS_Subset DEF At
  <2> QED
    BY <2>4, <2>5, FS_EmptySet DEF Gated
<1>4. mutex = NoThread
  <2>1. mutex # NoThread => mutex \in Threads
    BY DEF CondInv, CondType, TypeOK
  <2>2. mutex # NoThread => pc[mutex] \in {"enter", "atGate", "count", "open", "unlock"}
    BY DEF RestInv, MutexKept
  <2> QED
    BY <1>3, <2>1, <2>2, RestPlaces DEF AtGates
<1>5. unblockLock = NoThread
  <2>1. unblockLock # NoThread => unblockLock \in Threads /\ pc[unblockLock] \in HasLock
    BY DEF CondInv, CondType, TypeOK, LockKept
  <2> QED
    BY <1>3, <2>1, RestPlaces DEF AtGates, HasLock, Closing
<1> QED
  BY <1>3, <1>4, <1>5, RestPlaces

LEMMA RestStart == Init => RestInv
<1> SUFFICES ASSUME Init PROVE RestInv
  OBVIOUS
<1>1. /\ gate.value = 1 /\ gate.kernel = 0 /\ queue.value = 0
      /\ toUnblock = 0 /\ mutex = NoThread /\ \A t \in Threads : pc[t] = "idle"
  BY DEF Init, NewSem
<1>2. Gated = 0 /\ Posting = {} /\ Cardinality(Posting) = 0 /\ IsFiniteSet(Posting)
  <2>1. At(AtGates) = {} /\ Posting = {}
    BY <1>1 DEF At, AtGates, Posting
  <2> QED
    BY <2>1, FS_EmptySet DEF Gated
<1>3. Sleeping \in Nat /\ Leaving \in Nat
  BY CondAssumption, FS_Subset, FS_CardinalityType DEF Sleeping, Leaving, At
<1> QED
  BY <1>1, <1>2, <1>3 DEF RestInv, GateBack, Balanced, UnitsKept, MutexKept

LEMMA StepsAre == Next => \E t \in Threads : StepOf(t)
<1> SUFFICES ASSUME Next PROVE \E t \in Threads : StepOf(t)
  OBVIOUS
<1>1. PICK t \in Threads :
        \/ \E f \in Functions \cap {"wait", "timedwait"} : Wait(t, f)
        \/ \E f \in Functions \cap {"signal", "broadcast"} : Signal(t, f)
        \/ "destroy" \in Functions /\ Destroy(t)
        \/ InCall(t) \/ Cancel(t)
  BY DEF Next
<1>2. StepOf(t)
  BY <1>1 DEF StepOf
<1> QED
  BY <1>2

LEMMA RestStep == CondInv /\ CondInv' /\ RestInv /\ [Next]_vars => RestInv'
<1> SUFFICES ASSUME CondInv, CondInv', RestInv, [Next]_vars PROVE RestInv'
  OBVIOUS
<1>1. CASE UNCHANGED vars
  <2>1. UNCHANGED <<cond, gate, queue, unblockLock, mutex, toUnblock, gone, pc, n>>
    BY <1>1 DEF vars, counts
  <2>2. GateBack'
    BY <2>1 DEF RestInv, GateBack, Gated, At
  <2>3. UnitsKept'
    BY <2>1 DEF RestInv, UnitsKept, Sleeping, Leaving, Posting, At
  <2>4. MutexKept'
    BY <2>1 DEF RestInv, MutexKept
  <2> QED
    BY <2>2, <2>3, <2>4 DEF RestInv
<1>2. CASE Next
  <2>1. PICK t \in Threads : StepOf(t)
    BY <1>2, StepsAre
  <2> QED
    BY <2>1, GateBackKept, UnitsStep, MutexStep DEF RestInv
<1> QED
  BY <1>1, <1>2

-----------------------------------------------------------------------------
(* No signal is lost                                                       *)

\* The waits of the threads that are inside.
Here == {wait[t] : t \in At(Inside)}

Signals == [all : BOOLEAN, for : SUBSET (1 .. waits)]

\* Each wait has a number of its own, and no signal is for a wait that is not
\* counted yet.
Numbered ==
  /\ waits \in Nat /\ signals \in Seq(Signals)
  /\ \A t \in Threads : /\ wait[t] \in 0 .. waits
                        /\ pc[t] \in Entering \cup Inside => wait[t] # 0
  /\ \A t, u \in Threads : wait[t] = wait[u] /\ wait[t] # 0 => t = u
  /\ \A t \in Threads : pc[t] \in {"enter", "atGate", "count"} =>
       \A i \in DOMAIN signals : wait[t] \notin signals[i].for

\* A signal has ended a wait of its own, m[i], if it is in D; it is for whoever
\* leaves next, if it is in U; and of any other, and of a broadcast, nobody is left
\* or nobody but those that are to be unblocked.
Matched(D, U, m) ==
  /\ D \cap U = {}
  /\ \A i \in D : m[i] \in signals[i].for /\ m[i] \notin Here
  /\ \A i, j \in D : m[i] = m[j] => i = j
  /\ \A i \in U : Here \subseteq signals[i].for
  /\ IsFiniteSet(U) /\ Cardinality(U) <= toUnblock
  /\ \A i \in D \cup U : ~signals[i].all
  /\ \A i \in DOMAIN signals : i \notin D \cup U =>
       (signals[i].for \cap Here = {}) \/ (toUnblock > 0 /\ blocked = 0)

SignalsMatched ==
  \E D \in SUBSET DOMAIN signals, U \in SUBSET DOMAIN signals :
    \E m \in [D -> 0 .. MaxWaits] : Matched(D, U, m)

SignalInv == Numbered /\ SignalsMatched

\* Who is inside when a thread moves.
LEMMA HereMoves ==
  ASSUME CondType, NEW t \in Threads, NEW l \in Places, pc' = [pc EXCEPT ![t] = l],
         UNCHANGED wait, Numbered
  PROVE  /\ (pc[t] \in Inside <=> l \in Inside) => Here' = Here
         /\ l \notin Inside => Here' = Here \ {wait[t]}
         /\ l \in Inside => Here' = Here \cup {wait[t]}
<1>1. /\ pc'[t] = l /\ \A u \in Threads : u # t => pc'[u] = pc[u]
  BY Moves
<1>2. \A w : w \in Here <=> \E u \in Threads : pc[u] \in Inside /\ w = wait[u]
  BY DEF Here, At
<1>3. \A w : w \in Here' <=> \E u \in Threads : pc'[u] \in Inside /\ w = wait[u]
  BY DEF Here, At
<1>4. \A u \in Threads : pc[u] \in Inside /\ u # t => wait[u] # wait[t]
  BY DEF Numbered
<1>5. (pc[t] \in Inside <=> l \in Inside) => Here' = Here
  <2>1. (pc[t] \in Inside <=> l \in Inside) => \A w : w \in Here' <=> w \in Here
    BY <1>1, <1>2, <1>3
  <2> QED
    BY <2>1 DEF Here
<1>6. l \notin Inside => Here' = Here \ {wait[t]}
  <2>1. l \notin Inside => \A w : w \in Here' <=> w \in Here /\ w # wait[t]
    BY <1>1, <1>2, <1>3, <1>4
  <2> QED
    BY <2>1 DEF Here
<1>7. l \in Inside => Here' = Here \cup {wait[t]}
  <2>1. l \in Inside => \A w : w \in Here' <=> w \in Here \/ w = wait[t]
    BY <1>1, <1>2, <1>3
  <2> QED
    BY <2>1 DEF Here
<1> QED
  BY <1>5, <1>6, <1>7

\* A thread that moves on within a wait, or out of it, keeps its number.
LEMMA NumbersStay ==
  ASSUME CondType, NEW t \in Threads, NEW l \in Places, pc' = [pc EXCEPT ![t] = l],
         UNCHANGED <<wait, waits, signals>>, Numbered,
         l \in Entering \cup Inside => pc[t] \in Entering \cup Inside,
         l \in {"enter", "atGate", "count"} => pc[t] \in {"enter", "atGate", "count"}
  PROVE  Numbered'
<1>1. /\ pc'[t] = l /\ \A u \in Threads : u # t => pc'[u] = pc[u]
  BY Moves
<1>2. signals' \in Seq(Signals')
  BY DEF Numbered, Signals
<1> QED
  BY <1>1, <1>2 DEF Numbered

\* What a match is needs nobody new inside, and no unit taken back.
LEMMA MatchStays ==
  ASSUME SignalsMatched, UNCHANGED signals, Here' \subseteq Here,
         toUnblock \in Nat, toUnblock' \in Nat, toUnblock' >= toUnblock,
         toUnblock > 0 /\ blocked = 0 => blocked' = 0
  PROVE  SignalsMatched'
<1>1. PICK D \in SUBSET DOMAIN signals, U \in SUBSET DOMAIN signals : \E m \in [D -> 0 .. MaxWaits] : Matched(D, U, m)
  BY DEF SignalsMatched
<1>2. PICK m \in [D -> 0 .. MaxWaits] : Matched(D, U, m)
  BY <1>1
<1>3. Cardinality(U) \in Nat
  BY <1>2, FS_CardinalityType DEF Matched
<1>4. Matched(D, U, m)'
  BY <1>2, <1>3 DEF Matched
<1> QED
  BY <1>4 DEF SignalsMatched

\* When nobody is to be unblocked each signal has ended a wait, or has nobody left.
LEMMA NoneLeft ==
  ASSUME NEW D, NEW U, NEW m, Matched(D, U, m), toUnblock = 0
  PROVE  U = {}
<1>1. Cardinality(U) \in Nat /\ IsFiniteSet(U) /\ Cardinality(U) <= 0
  BY FS_CardinalityType DEF Matched
<1> QED
  BY <1>1, FS_EmptySet

LEMMA AppendOne ==
  ASSUME NEW S, NEW s \in Seq(S), NEW e \in S
  PROVE  /\ Append(s, e) \in Seq(S)
         /\ Len(s) \in Nat /\ Len(s) + 1 \notin DOMAIN s
         /\ DOMAIN Append(s, e) = DOMAIN s \cup {Len(s) + 1}
         /\ Append(s, e)[Len(s) + 1] = e
         /\ \A i \in DOMAIN s : Append(s, e)[i] = s[i]
  OBVIOUS

\* A signal that takes effect is for those that are inside.
LEMMA NewSignal ==
  ASSUME CondType, Numbered, NEW f, Signalled(f)
  PROVE  \E k : /\ k \notin DOMAIN signals /\ DOMAIN signals' = DOMAIN signals \cup {k}
                /\ \A i \in DOMAIN signals : signals'[i] = signals[i]
                /\ signals'[k].for = Here /\ (signals'[k].all <=> f = "broadcast")
                /\ signals' \in Seq(Signals)
<1>1. Here \subseteq 1 .. waits
  <2>1. \A u \in Threads : pc[u] \in Inside => wait[u] \in 1 .. waits
    BY DEF Numbered
  <2> QED
    BY <2>1 DEF Here, At
<1>2. PICK b \in BOOLEAN : b <=> f = "broadcast"
  OBVIOUS
<1> DEFINE e == [all |-> f = "broadcast", for |-> Here]
<1>3. signals' = Append(signals, e)
  BY DEF Signalled, Here, At, Inside
<1>4. e \in Signals
  BY <1>1 DEF Signals
<1>5. e.for = Here /\ (e.all <=> f = "broadcast")
  OBVIOUS
<1> HIDE DEF e
<1>6. signals \in Seq(Signals)
  BY DEF Numbered
<1> WITNESS Len(signals) + 1
<1> QED
  BY <1>3, <1>4, <1>5, <1>6, AppendOne

LEMMA NumbersGrow ==
  ASSUME CondType, Numbered, NEW f, Signalled(f), UNCHANGED <<wait, waits>>,
         NEW t \in Threads, NEW l \in Places, pc' = [pc EXCEPT ![t] = l], l \notin Entering \cup Inside
  PROVE  Numbered'
<1>1. /\ pc'[t] = l /\ \A u \in Threads : u # t => pc'[u] = pc[u]
  BY Moves
<1>2. PICK k : /\ k \notin DOMAIN signals /\ DOMAIN signals' = DOMAIN signals \cup {k}
               /\ \A i \in DOMAIN signals : signals'[i] = signals[i]
               /\ signals'[k].for = Here /\ signals' \in Seq(Signals)
  BY NewSignal
<1>3. signals' \in Seq(Signals')
  BY <1>2 DEF Signals
<1>4. ASSUME NEW u \in Threads, pc[u] \in {"enter", "atGate", "count"} PROVE wait[u] \notin Here
  <2>1. wait[u] # 0 /\ pc[u] \notin Inside
    BY <1>4 DEF Numbered, Entering, Inside
  <2> QED
    BY <2>1 DEF Here, At, Numbered
<1>5. \A u \in Threads : pc'[u] \in Entering \cup Inside => pc'[u] = pc[u]
  BY <1>1
<1>6. \A u \in Threads : pc'[u] \in {"enter", "atGate", "count"} => pc'[u] = pc[u]
  BY <1>5 DEF Entering
<1>7. \A u \in Threads : /\ wait'[u] \in 0 .. waits'
                         /\ pc'[u] \in Entering \cup Inside => wait'[u] # 0
  BY <1>5 DEF Numbered
<1>8. \A u \in Threads : pc'[u] \in {"enter", "atGate", "count"} =>
        \A i \in DOMAIN signals' : wait'[u] \notin signals'[i].for
  BY <1>2, <1>4, <1>6 DEF Numbered
<1> QED
  BY <1>3, <1>7, <1>8 DEF Numbered

\* It is for the one that leaves next, or for all that are left.
LEMMA MatchGrows ==
  ASSUME CondType, CondType', Numbered, SignalsMatched, NEW f, Signalled(f), Here' = Here,
         \/ f # "broadcast" /\ toUnblock' = toUnblock + 1 /\ (toUnblock = 0 \/ blocked > 0)
         \/ toUnblock' >= toUnblock /\ toUnblock' > 0 /\ blocked' = 0
         \/ Here = {} /\ UNCHANGED <<toUnblock, blocked>>
  PROVE  SignalsMatched'
<1>1. PICK k : /\ k \notin DOMAIN signals /\ DOMAIN signals' = DOMAIN signals \cup {k}
               /\ \A i \in DOMAIN signals : signals'[i] = signals[i]
               /\ signals'[k].for = Here /\ (signals'[k].all <=> f = "broadcast")
  BY NewSignal
<1>2. PICK D \in SUBSET DOMAIN signals, U \in SUBSET DOMAIN signals : \E m \in [D -> 0 .. MaxWaits] : Matched(D, U, m)
  BY DEF SignalsMatched
<1>3. PICK m \in [D -> 0 .. MaxWaits] : Matched(D, U, m)
  BY <1>2
<1>4. IsFiniteSet(U) /\ Cardinality(U) \in Nat /\ Cardinality(U) <= toUnblock
      /\ toUnblock \in Nat /\ toUnblock' \in Nat /\ blocked \in Nat
  BY <1>3, FS_CardinalityType DEF Matched, CondType, TypeOK
<1>5. /\ D \in SUBSET DOMAIN signals' /\ U \in SUBSET DOMAIN signals' /\ k \notin D \cup U
      /\ U \cup {k} \in SUBSET DOMAIN signals'
  BY <1>1
<1>6. /\ D \cap U = {}
      /\ \A i \in D : m[i] \in signals'[i].for /\ m[i] \notin Here'
      /\ \A i, j \in D : m[i] = m[j] => i = j
      /\ \A i \in U : Here' \subseteq signals'[i].for
      /\ \A i \in D \cup U : ~signals'[i].all
  BY <1>1, <1>3 DEF Matched
<1>7. CASE f # "broadcast" /\ toUnblock' = toUnblock + 1 /\ (toUnblock = 0 \/ blocked > 0)
  <2>1. IsFiniteSet(U \cup {k}) /\ Cardinality(U \cup {k}) = Cardinality(U) + 1
    BY <1>4, <1>5, FS_AddElement
  <2>2. \A i \in DOMAIN signals' : i \notin D \cup (U \cup {k}) => (signals'[i].for \cap Here' = {})
    <3>1. \A i \in DOMAIN signals : i \notin D \cup U => (signals[i].for \cap Here = {})
      BY <1>3, <1>4, <1>7 DEF Matched
    <3> QED
      BY <1>1, <3>1
  <2>3. Matched(D, U \cup {k}, m)'
    <3>1. PICK V : V = U \cup {k}
      OBVIOUS
    <3>2. /\ D \cap V = {} /\ IsFiniteSet(V) /\ Cardinality(V) <= toUnblock'
          /\ \A i \in V : Here' \subseteq signals'[i].for
          /\ \A i \in D \cup V : ~signals'[i].all
          /\ \A i \in DOMAIN signals' : i \notin D \cup V => (signals'[i].for \cap Here' = {})
      BY <1>1, <1>4, <1>5, <1>6, <1>7, <2>1, <2>2, <3>1
    <3>3. Matched(D, V, m)'
      BY <1>6, <3>2 DEF Matched
    <3> QED
      BY <3>1, <3>3
  <2> QED
    BY <1>5, <2>3 DEF SignalsMatched
<1>8. CASE toUnblock' >= toUnblock /\ toUnblock' > 0 /\ blocked' = 0
  <2>1. Matched(D, U, m)'
    BY <1>4, <1>6, <1>8 DEF Matched
  <2> QED
    BY <1>5, <2>1 DEF SignalsMatched
<1>9. CASE Here = {} /\ UNCHANGED <<toUnblock, blocked>>
  <2>1. Matched(D, U, m)'
    BY <1>4, <1>6, <1>9 DEF Matched
  <2> QED
    BY <1>5, <2>1 DEF SignalsMatched
<1> QED
  BY <1>7, <1>8, <1>9

\* A thread that is counted comes too late for all signals that were.
LEMMA MatchCounts ==
  ASSUME CondInv, SignalInv, NEW t \in Threads, Count(t)
  PROVE  SignalInv'
<1>1. /\ CondType /\ pc[t] = "count" /\ toUnblock = 0 /\ pc' = [pc EXCEPT ![t] = "open"] /\ "open" \in Places
      /\ UNCHANGED <<wait, waits, signals, toUnblock>> /\ Numbered
  BY DEF Count, Goto, history, CondInv, OneInGate, HasGate, Places, SignalInv
<1>2. Numbered'
  BY <1>1, NumbersStay DEF Entering
<1>3. Here' = Here \cup {wait[t]}
  BY <1>1, HereMoves DEF Inside
<1>4. \A i \in DOMAIN signals : wait[t] \notin signals[i].for
  BY <1>1 DEF Numbered
<1>5. PICK D \in SUBSET DOMAIN signals, U \in SUBSET DOMAIN signals : \E m \in [D -> 0 .. MaxWaits] : Matched(D, U, m)
  BY DEF SignalInv, SignalsMatched
<1>6. PICK m \in [D -> 0 .. MaxWaits] : Matched(D, U, m)
  BY <1>5
<1>7. U = {}
  BY <1>1, <1>6, NoneLeft
<1>8. \A i \in D : m[i] \notin Here'
  BY <1>3, <1>4, <1>6 DEF Matched
<1>9. \A i \in DOMAIN signals : i \notin D \cup U => (signals[i].for \cap Here' = {})
  BY <1>1, <1>3, <1>4, <1>6 DEF Matched
<1>10. Matched(D, U, m)'
  BY <1>1, <1>6, <1>7, <1>8, <1>9 DEF Matched
<1> QED
  BY <1>1, <1>2, <1>10 DEF SignalInv, SignalsMatched

\* Who leaves ends the wait that a signal has been for, if there is such a signal.
LEMMA MatchLeaves ==
  ASSUME CondInv, CondInv', RestInv, SignalInv, NEW t \in Threads, Leave(t)
  PROVE  SignalInv'
<1>1. PICK l \in {"drain", "reopen", "relock"} :
        /\ CondType /\ pc[t] = "leave" /\ pc' = [pc EXCEPT ![t] = l]
        /\ UNCHANGED <<wait, waits, signals, blocked>> /\ Numbered
  BY DEF Leave, Goto, history, CondInv, SignalInv
<1>2. /\ l \in Places /\ l \notin Entering \cup Inside
      /\ toUnblock \in Nat /\ toUnblock' \in Nat /\ blocked \in Nat /\ wait[t] \in 0 .. MaxWaits
  BY DEF Places, Entering, Inside, CondInv, CondType, TypeOK
<1>3. Numbered'
  BY <1>1, <1>2, NumbersStay DEF Entering
<1>4. Here' = Here \ {wait[t]} /\ wait[t] \in Here
  <2>1. Here' = Here \ {wait[t]}
    BY <1>1, <1>2, HereMoves
  <2>2. wait[t] \in Here
    BY <1>1 DEF Here, At, Inside
  <2> QED
    BY <2>1, <2>2
<1>5. CASE toUnblock = 0
  <2>1. toUnblock' = 0
    BY <1>5 DEF Leave
  <2>2. SignalsMatched'
    BY <1>1, <1>2, <1>4, <1>5, <2>1, MatchStays DEF SignalInv
  <2> QED
    BY <1>3, <2>2 DEF SignalInv
<1>6. CASE toUnblock > 0
  <2>1. toUnblock' = toUnblock - 1
    BY <1>2, <1>6 DEF Leave
  <2>2. toUnblock' = 0 /\ blocked = 0 => Here' = {}
    <3>1. gone = 0 /\ gone' = 0
      BY <1>6 DEF Leave, RestInv, UnitsKept
    <3>2. blocked' + toUnblock' - gone' = Waiting'
      <4>1. Counted'
        BY DEF CondInv
      <4> QED
        BY <4>1 DEF Counted, Waiting, At
    <3>3. toUnblock' = 0 /\ blocked = 0 => Waiting' = 0
      BY <1>1, <3>1, <3>2
    <3>4. Waiting' = 0 => At(Inside)' = {}
      BY CondAssumption, FS_Subset, FS_EmptySet DEF Waiting, At
    <3> QED
      BY <3>3, <3>4 DEF Here
  <2>3. PICK D \in SUBSET DOMAIN signals, U \in SUBSET DOMAIN signals : \E m \in [D -> 0 .. MaxWaits] : Matched(D, U, m)
    BY DEF SignalInv, SignalsMatched
  <2>4. PICK m \in [D -> 0 .. MaxWaits] : Matched(D, U, m)
    BY <2>3
  <2>5. \A i \in DOMAIN signals : i \notin D \cup U => (signals[i].for \cap Here' = {}) \/ (toUnblock' > 0 /\ blocked' = 0)
    <3>1. CASE toUnblock' > 0
      BY <1>1, <1>4, <2>4, <3>1 DEF Matched
    <3>2. CASE ~(toUnblock' > 0)
      BY <1>1, <1>2, <1>4, <2>2, <2>4, <3>2 DEF Matched
    <3> QED
      BY <3>1, <3>2
  <2>6. CASE U = {}
    <3>1. Cardinality(U) <= toUnblock'
      BY <1>2, <2>6, FS_EmptySet
    <3>2. Matched(D, U, m)'
      BY <1>1, <1>4, <2>4, <2>5, <2>6, <3>1 DEF Matched
    <3>3. SignalsMatched'
      BY <1>1, <3>2 DEF SignalsMatched
    <3> QED
      BY <1>3, <3>3 DEF SignalInv
  <2>7. CASE U # {}
    <3>1. PICK k \in U : TRUE
      BY <2>7
    <3>2. PICK w \in 0 .. MaxWaits : w = wait[t]
      BY <1>2
    <3>3. PICK C : C = D \cup {k}
      OBVIOUS
    <3>4. PICK V : V = U \ {k}
      OBVIOUS
    <3>5. PICK h : h = [i \in C |-> IF i = k THEN w ELSE m[i]]
      OBVIOUS
    <3>6. /\ h \in [C -> 0 .. MaxWaits] /\ h[k] = w /\ \A i \in D : h[i] = m[i]
          /\ C \in SUBSET DOMAIN signals /\ V \in SUBSET DOMAIN signals /\ k \notin D
      BY <2>4, <3>1, <3>3, <3>4, <3>5 DEF Matched
    <3>7. IsFiniteSet(V) /\ Cardinality(V) <= toUnblock'
      <4>1. IsFiniteSet(U) /\ Cardinality(U) \in Nat /\ Cardinality(U) <= toUnblock
        BY <2>4, FS_CardinalityType DEF Matched
      <4>2. IsFiniteSet(V) /\ Cardinality(V) = Cardinality(U) - 1
        BY <3>1, <3>4, <4>1, FS_RemoveElement
      <4> QED
        BY <1>2, <2>1, <4>1, <4>2
    <3>8. \A i \in C : h[i] \in signals[i].for /\ h[i] \notin Here'
      <4>1. w \in signals[k].for
        BY <1>4, <2>4, <3>1, <3>2 DEF Matched
      <4> QED
        BY <1>4, <2>4, <3>2, <3>3, <3>6, <4>1 DEF Matched
    <3>9. \A i, j \in C : h[i] = h[j] => i = j
      <4>1. \A i \in D : m[i] # w
        BY <1>4, <2>4, <3>2 DEF Matched
      <4> QED
        BY <2>4, <3>3, <3>6, <4>1 DEF Matched
    <3>10. /\ C \cap V = {} /\ C \cup V = D \cup U
           /\ \A i \in V : Here' \subseteq signals[i].for
           /\ \A i \in C \cup V : ~signals[i].all
      BY <1>4, <2>4, <3>1, <3>3, <3>4, <3>6 DEF Matched
    <3>11. Matched(C, V, h)'
      BY <1>1, <2>5, <3>7, <3>8, <3>9, <3>10 DEF Matched
    <3>12. SignalsMatched'
      BY <1>1, <3>6, <3>11 DEF SignalsMatched
    <3> QED
      BY <1>3, <3>12 DEF SignalInv
  <2> QED
    BY <2>6, <2>7
<1> QED
  BY <1>2, <1>5, <1>6

\* A thread that is not new inside and signals nobody.
LEMMA MatchMoves ==
  ASSUME CondInv, SignalInv, NEW t \in Threads, NEW l \in Places, pc' = [pc EXCEPT ![t] = l],
         UNCHANGED <<wait, waits, signals, toUnblock>>,
         l \in Inside => pc[t] \in Inside,
         l \in Entering \cup Inside => pc[t] \in Entering \cup Inside,
         l \in {"enter", "atGate", "count"} => pc[t] \in {"enter", "atGate", "count"},
         toUnblock > 0 /\ blocked = 0 => blocked' = 0
  PROVE  SignalInv'
<1>1. CondType /\ toUnblock \in Nat /\ Numbered /\ SignalsMatched
  BY DEF CondInv, CondType, TypeOK, SignalInv
<1>2. Numbered'
  BY <1>1, NumbersStay
<1>3. Here' \subseteq Here
  BY <1>1, HereMoves
<1>4. SignalsMatched'
  BY <1>1, <1>3, MatchStays
<1> QED
  BY <1>2, <1>4 DEF SignalInv

\* A new wait has a new number.
LEMMA MatchWaits ==
  ASSUME CondInv, SignalInv, NEW t \in Threads, NEW f, Wait(t, f)
  PROVE  SignalInv'
<1>1. /\ CondType /\ pc[t] = "idle" /\ pc' = [pc EXCEPT ![t] = "enter"] /\ "enter" \in Places
      /\ waits' = waits + 1 /\ wait' = [wait EXCEPT ![t] = waits + 1]
      /\ UNCHANGED <<signals, blocked, toUnblock>> /\ toUnblock \in Nat /\ Numbered /\ SignalsMatched
      /\ wait \in [Threads -> 0 .. MaxWaits]
  BY DEF Wait, Calls, Goto, counts, CondInv, CondType, TypeOK, SignalInv, Places
<1>2. /\ pc'[t] = "enter" /\ wait'[t] = waits + 1 /\ waits \in Nat
      /\ \A u \in Threads : u # t => pc'[u] = pc[u] /\ wait'[u] = wait[u]
  BY <1>1, Moves DEF Numbered
<1>3. signals' \in Seq(Signals')
  <2>1. Signals \subseteq Signals'
    BY <1>1, <1>2 DEF Signals
  <2>2. signals \in Seq(Signals) /\ signals' = signals
    BY <1>1 DEF Numbered
  <2> QED
    BY <2>1, <2>2
<1>4. \A i \in DOMAIN signals : signals[i].for \subseteq 1 .. waits
  <2>1. signals \in Seq(Signals)
    BY <1>1 DEF Numbered
  <2>2. \A i \in DOMAIN signals : signals[i] \in Signals
    BY <2>1
  <2> QED
    BY <2>2 DEF Signals
<1>5. \A u \in Threads : /\ wait'[u] \in 0 .. waits'
                         /\ pc'[u] \in Entering \cup Inside => wait'[u] # 0
  BY <1>1, <1>2 DEF Numbered
<1>6. \A u, v \in Threads : wait'[u] = wait'[v] /\ wait'[u] # 0 => u = v
  <2>1. \A u \in Threads : wait[u] # waits + 1
    BY <1>1, <1>2 DEF Numbered
  <2> QED
    BY <1>1, <1>2, <2>1 DEF Numbered
<1>7. \A u \in Threads : pc'[u] \in {"enter", "atGate", "count"} =>
        \A i \in DOMAIN signals' : wait'[u] \notin signals'[i].for
  BY <1>1, <1>2, <1>4 DEF Numbered
<1>8. Numbered'
  BY <1>1, <1>2, <1>3, <1>5, <1>6, <1>7 DEF Numbered
<1>9. Here' \subseteq Here
  <2>1. \A u \in Threads : pc'[u] \in Inside => pc[u] \in Inside /\ wait'[u] = wait[u]
    BY <1>2 DEF Inside
  <2> QED
    BY <2>1 DEF Here, At
<1>10. SignalsMatched'
  BY <1>1, <1>9, MatchStays
<1> QED
  BY <1>8, <1>10 DEF SignalInv

\* A signal that takes effect: at once, with the gate closed, or for nobody.
LEMMA MatchSignals ==
  ASSUME CondInv, CondInv', SignalInv, NEW t \in Threads, NEW f, f \in {"signal", "broadcast"},
         NEW l \in Places, pc' = [pc EXCEPT ![t] = l], pc[t] \notin Entering \cup Inside,
         l \notin Entering \cup Inside, Signalled(f), UNCHANGED <<wait, waits>>,
         \/ f = "signal" /\ toUnblock' = toUnblock + 1 /\ (toUnblock = 0 \/ blocked > 0)
         \/ toUnblock' >= toUnblock /\ toUnblock' > 0 /\ blocked' = 0
         \/ Here = {} /\ UNCHANGED <<toUnblock, blocked>>
  PROVE  SignalInv'
<1>1. CondType /\ CondType' /\ Numbered /\ SignalsMatched
  BY DEF CondInv, SignalInv
<1>2. Numbered'
  BY <1>1, NumbersGrow
<1>3. Here' = Here
  BY <1>1, HereMoves
<1>4. SignalsMatched'
  BY <1>1, <1>3, MatchGrows
<1> QED
  BY <1>2, <1>4 DEF SignalInv

LEMMA SignalStep ==
  ASSUME CondInv, CondInv', RestInv, SignalInv, NEW t \in Threads, StepOf(t)
  PROVE  SignalInv'
<1> USE DEF Goto, Calls, counts, history
<1>1. /\ CondType /\ toUnblock \in Nat /\ blocked \in Nat /\ gone \in Nat
  BY DEF CondInv, CondType, TypeOK
<1>2. CASE TakeGate(t) \/ PassGate(t)
  <2>1. PICK g \in Gates : \E l \in {g[2], g[3]} :
          pc[t] \in {g[1], g[2]} /\ pc' = [pc EXCEPT ![t] = l] /\ UNCHANGED <<wait, waits, signals, toUnblock, blocked>>
    BY <1>2 DEF TakeGate, PassGate
  <2>2. PICK l \in {g[2], g[3]} :
          pc[t] \in {g[1], g[2]} /\ pc' = [pc EXCEPT ![t] = l] /\ UNCHANGED <<wait, waits, signals, toUnblock, blocked>>
    BY <2>1
  <2>3. l \in Places /\ l \notin Inside
    BY <2>2 DEF Gates, Places, Inside
  <2>4. l \in Entering => l \in {"atGate", "count"} /\ pc[t] \in {"enter", "atGate"}
    BY <2>2 DEF Gates, Entering
  <2>5. l \in {"enter", "atGate", "count"} => pc[t] \in {"enter", "atGate"}
    BY <2>2 DEF Gates
  <2> QED
    BY <2>2, <2>3, <2>4, <2>5, MatchMoves DEF Entering
<1>3. CASE \E f \in {"wait", "timedwait"} : Wait(t, f)
  BY <1>3, MatchWaits
<1>4. CASE Count(t)
  BY <1>4, MatchCounts
<1>5. CASE Leave(t)
  BY <1>5, MatchLeaves
<1>6. CASE CancelAtGate(t) \/ Open(t) \/ UnlockMutex(t) \/ TakeQueue(t) \/ PassQueue(t) \/ TimeOut(t)
           \/ CancelAtQueue(t) \/ Retract(t) \/ Relock(t) \/ Post(t) \/ TryDestroy(t)
  <2>1. PICK l \in {"dead", "retractGate", "unlock", "relock", "queue", "sleep", "leave", "retract", "idle"} :
          /\ l \in {"queue", "sleep", "leave", "retract"} => pc[t] \in Inside
          /\ l = "unlock" => pc[t] \in Inside
          /\ l = "retractGate" => pc[t] = "atGate" /\ t \in cancelled
          /\ pc' = [pc EXCEPT ![t] = l] /\ UNCHANGED <<wait, waits, signals, toUnblock, blocked>>
    BY <1>6 DEF CancelAtGate, Open, UnlockMutex, TakeQueue, PassQueue, TimeOut, CancelAtQueue, Retract, Relock,
       Post, TryDestroy, Inside
  <2>2. l # "retractGate"
    BY <2>1 DEF CondInv, Ending
  <2>3. /\ l \in Places /\ (l \in Inside => pc[t] \in Inside) /\ (l \in Entering => pc[t] \in Inside)
        /\ l \notin {"enter", "atGate", "count"}
    BY <2>1, <2>2 DEF Places, Inside, Entering
  <2> QED
    BY <2>1, <2>3, MatchMoves
<1>7. CASE Drain(t)
  <2>1. toUnblock = 0
    BY <1>7 DEF Drain, CondInv, OneInGate, HasGate
  <2>2. pc' = [pc EXCEPT ![t] = "relock"] /\ UNCHANGED <<wait, waits, signals, toUnblock>>
    BY <1>7 DEF Drain
  <2>3. /\ "relock" \in Places /\ "relock" \notin Inside /\ "relock" \notin Entering \cup Inside
        /\ "relock" \notin {"enter", "atGate", "count"}
    BY DEF Places, Inside, Entering
  <2>4. toUnblock > 0 /\ blocked = 0 => blocked' = 0
    BY <2>1
  <2> QED
    BY <2>2, <2>3, <2>4, MatchMoves
<1>8. ASSUME UNCHANGED <<pc, wait, waits, signals, toUnblock, blocked>> PROVE SignalInv'
  <2>1. pc[t] \in Places /\ pc' = [pc EXCEPT ![t] = pc[t]]
    BY <1>1, <1>8 DEF CondType
  <2>2. PICK l \in Places : l = pc[t]
    BY <2>1
  <2> QED
    BY <1>8, <2>1, <2>2, MatchMoves
<1>9. CASE Cancel(t)
  BY <1>8, <1>9 DEF Cancel
<1>10. CASE Destroy(t)
  <2>1. CASE UNCHANGED pc
    BY <1>8, <1>10, <2>1 DEF Destroy
  <2>2. CASE ~UNCHANGED pc
    <3>1. pc' = [pc EXCEPT ![t] = "destroy"] /\ UNCHANGED <<wait, waits, signals, toUnblock, blocked>>
      BY <1>10, <2>2 DEF Destroy
    <3>2. "destroy" \in Places /\ "destroy" \notin Inside /\ "destroy" \notin Entering
      BY DEF Places, Inside, Entering
    <3> QED
      BY <3>1, <3>2, MatchMoves DEF Entering
  <2> QED
    BY <2>1, <2>2
<1>11. /\ "idle" \in Places /\ "post" \in Places /\ "close" \in Places
       /\ "idle" \notin Entering \cup Inside /\ "post" \notin Entering \cup Inside
       /\ "close" \notin Entering \cup Inside /\ "closed" \notin Entering \cup Inside
  BY DEF Places, Entering, Inside
<1>12. CASE \E f \in {"signal", "broadcast"} : Signal(t, f)
  <2>1. PICK f \in {"signal", "broadcast"} : Signal(t, f)
    BY <1>12
  <2>2. pc[t] = "idle" /\ UNCHANGED <<wait, waits>>
    BY <2>1 DEF Signal
  <2>3. CASE toUnblock > 0 /\ blocked > 0
    <3>1. /\ pc' = [pc EXCEPT ![t] = "post"] /\ Signalled(f)
          /\ toUnblock' = toUnblock + (IF f = "broadcast" THEN blocked ELSE 1)
          /\ blocked' = blocked - (IF f = "broadcast" THEN blocked ELSE 1)
      BY <1>1, <2>1, <2>3 DEF Signal, Unblocks
    <3>2. CASE f = "signal"
      <4>1. toUnblock' = toUnblock + 1
        BY <3>1, <3>2
      <4> QED
        BY <1>11, <2>2, <2>3, <3>1, <3>2, <4>1, MatchSignals
    <3>3. CASE f = "broadcast"
      <4>1. toUnblock' >= toUnblock /\ toUnblock' > 0 /\ blocked' = 0
        BY <1>1, <2>3, <3>1, <3>3
      <4> QED
        BY <1>11, <2>2, <3>1, <4>1, MatchSignals
    <3> QED
      BY <3>2, <3>3
  <2>4. CASE toUnblock = 0 /\ blocked > gone
    <3>1. pc' = [pc EXCEPT ![t] = "close"] /\ UNCHANGED <<wait, waits, signals, toUnblock, blocked>>
      BY <1>1, <2>1, <2>4 DEF Signal
    <3> QED
      BY <1>11, <3>1, MatchMoves DEF Entering
  <2>5. CASE IF toUnblock > 0 THEN blocked = 0 ELSE blocked <= gone
    <3>1. Signalled(f) /\ UNCHANGED <<pc, toUnblock, blocked>>
      BY <1>1, <2>1, <2>5 DEF Signal
    <3>2. pc' = [pc EXCEPT ![t] = "idle"]
      BY <1>1, <2>2, <3>1 DEF CondType
    <3>3. CASE toUnblock > 0
      <4>1. toUnblock' >= toUnblock /\ toUnblock' > 0 /\ blocked' = 0
        BY <1>1, <2>5, <3>1, <3>3
      <4> QED
        BY <1>11, <2>2, <3>1, <3>2, <4>1, MatchSignals
    <3>4. CASE ~(toUnblock > 0)
      <4>1. Waiting = 0
        <5>1. blocked + toUnblock - gone = Waiting /\ Waiting \in Nat
          BY InvCounts
        <5> QED
          BY <1>1, <2>5, <3>4, <5>1
      <4>2. At(Inside) = {}
        BY <4>1, CondAssumption, FS_Subset, FS_EmptySet DEF Waiting, At
      <4>3. Here = {}
        BY <4>2 DEF Here
      <4> QED
        BY <1>11, <2>2, <3>1, <3>2, <4>3, MatchSignals
    <3> QED
      BY <3>3, <3>4
  <2> QED
    BY <1>1, <2>3, <2>4, <2>5
<1>13. CASE Closed(t)
  <2>1. /\ pc[t] = "closed" /\ blocked > gone /\ toUnblock = 0 /\ how[t] \in {"signal", "broadcast"}
    BY <1>13 DEF Closed, CondInv, LockKept, Closing, OneInGate, HasGate
  <2>2. PICK f \in {"signal", "broadcast"} : f = how[t]
    BY <2>1
  <2>3. /\ pc' = [pc EXCEPT ![t] = "post"] /\ Signalled(f) /\ UNCHANGED <<wait, waits>>
        /\ toUnblock' = toUnblock + (IF f = "broadcast" THEN blocked - gone ELSE 1)
        /\ blocked' = (blocked - gone) - (IF f = "broadcast" THEN blocked - gone ELSE 1)
    BY <1>13, <2>2 DEF Closed, Unblocks
  <2>4. CASE f = "signal"
    <3>1. toUnblock' = toUnblock + 1
      BY <2>3, <2>4
    <3> QED
      BY <1>11, <2>1, <2>3, <2>4, <3>1, MatchSignals
  <2>5. CASE f = "broadcast"
    <3>1. toUnblock' >= toUnblock /\ toUnblock' > 0 /\ blocked' = 0
      BY <1>1, <2>1, <2>3, <2>5
    <3> QED
      BY <1>11, <2>1, <2>3, <3>1, MatchSignals
  <2> QED
    BY <2>4, <2>5
<1> QED
  BY <1>2, <1>3, <1>4, <1>5, <1>6, <1>7, <1>9, <1>10, <1>12, <1>13 DEF StepOf, InCall

LEMMA SignalKept == CondInv /\ CondInv' /\ RestInv /\ SignalInv /\ [Next]_vars => SignalInv'
<1> SUFFICES ASSUME CondInv, CondInv', RestInv, SignalInv, [Next]_vars PROVE SignalInv'
  OBVIOUS
<1>1. CASE UNCHANGED vars
  <2>1. UNCHANGED <<toUnblock, blocked, pc, waits, wait, signals>>
    BY <1>1 DEF vars, counts, history
  <2>2. Here' = Here /\ signals' \in Seq(Signals')
    BY <2>1 DEF SignalInv, Numbered, Here, Signals, At
  <2>3. Numbered'
    BY <2>1, <2>2 DEF SignalInv, Numbered
  <2>4. SignalsMatched'
    BY <2>1, <2>2, MatchStays DEF SignalInv, CondInv, CondType, TypeOK
  <2> QED
    BY <2>3, <2>4 DEF SignalInv
<1>2. CASE Next
  <2>1. PICK t \in Threads : StepOf(t)
    BY <1>2, StepsAre
  <2> QED
    BY <2>1, SignalStep
<1> QED
  BY <1>1, <1>2

LEMMA SignalStart == Init => SignalInv
<1> SUFFICES ASSUME Init PROVE SignalInv
  OBVIOUS
<1>1. /\ waits = 0 /\ signals = <<>> /\ \A t \in Threads : wait[t] = 0 /\ pc[t] = "idle"
      /\ toUnblock = 0
  BY DEF Init
<1>2. Numbered
  <2>1. \A t \in Threads : pc[t] \notin Entering \cup Inside
    BY <1>1 DEF Entering, Inside
  <2>2. DOMAIN signals = {} /\ signals \in Seq(Signals)
    BY <1>1
  <2>3. \A t \in Threads : pc[t] \notin {"enter", "atGate", "count"}
    BY <1>1
  <2> QED
    BY <1>1, <2>1, <2>2, <2>3 DEF Numbered
<1>3. PICK m \in [{} -> 0 .. MaxWaits] : TRUE
  <2>1. [x \in {} |-> 0] \in [{} -> 0 .. MaxWaits]
    OBVIOUS
  <2> QED
    BY <2>1
<1>4. Matched({}, {}, m)
  <2>1. DOMAIN signals = {} /\ IsFiniteSet({}) /\ Cardinality({}) = 0
    BY <1>1, FS_EmptySet
  <2> QED
    BY <1>1, <2>1 DEF Matched
<1>5. SignalsMatched
  BY <1>3, <1>4 DEF SignalsMatched
<1> QED
  BY <1>2, <1>5 DEF SignalInv

\* At rest each signal that has left one of its waits has ended another one.
LEMMA RestServed == CondInv /\ RestInv /\ SignalInv => NoSignalLost
<1> SUFFICES ASSUME CondInv, RestInv, SignalInv, AtRest
             PROVE  /\ \A i \in DOMAIN signals : signals[i].all => Served(i)
                    /\ \A s \in SUBSET {i \in DOMAIN signals : ~Served(i)} :
                         Cardinality(EndedBy(s)) >= Cardinality(s)
  BY DEF NoSignalLost
<1>1. toUnblock = 0 /\ \A t \in Threads : pc[t] \in {"idle", "dead", "sleep"}
  BY RestAllUnblocked, RestKept DEF NobodyHangs
<1>2. PICK D \in SUBSET DOMAIN signals, U \in SUBSET DOMAIN signals : \E m \in [D -> 0 .. MaxWaits] : Matched(D, U, m)
  BY DEF SignalInv, SignalsMatched
<1>3. PICK m \in [D -> 0 .. MaxWaits] : Matched(D, U, m)
  BY <1>2
<1>4. U = {}
  BY <1>1, <1>3, NoneLeft
<1>5. \A w : w \notin Here => Over(w)
  BY <1>1 DEF Over, Here, At, Inside
<1>6. \A i \in DOMAIN signals : i \notin D => Served(i)
  BY <1>1, <1>3, <1>4, <1>5 DEF Matched, Served
<1>7. \A i \in DOMAIN signals : signals[i].all => Served(i)
  BY <1>3, <1>6 DEF Matched
<1>8. ASSUME NEW s \in SUBSET {i \in DOMAIN signals : ~Served(i)}
      PROVE  Cardinality(EndedBy(s)) >= Cardinality(s)
  <2>1. \A i \in s : i \in D /\ m[i] \in EndedBy(s)
    BY <1>3, <1>5, <1>6 DEF Matched, EndedBy
  <2>2. IsFiniteSet(EndedBy(s))
    <3>1. signals \in Seq(Signals) /\ waits \in Nat
      BY DEF SignalInv, Numbered
    <3>2. \A i \in DOMAIN signals : signals[i] \in Signals
      BY <3>1
    <3>3. \A i \in s : signals[i].for \subseteq 1 .. waits
      BY <3>2 DEF Signals
    <3>4. EndedBy(s) \subseteq 1 .. waits
      BY <3>3 DEF EndedBy
    <3>5. IsFiniteSet(1 .. waits)
      BY <3>1, FS_Interval
    <3> QED
      BY <3>4, <3>5, FS_Subset
  <2> DEFINE h == [i \in s |-> m[i]]
  <2>3. h \in [s -> EndedBy(s)]
    BY <2>1
  <2>4. \A i, j \in s : h[i] = h[j] => i = j
    BY <1>3, <2>1 DEF Matched
  <2>5. h \in Injection(s, EndedBy(s))
    BY <2>3, <2>4 DEF Injection, IsInjective
  <2>6. IsFiniteSet(s) /\ Cardinality(s) <= Cardinality(EndedBy(s))
    BY <2>2, <2>5, FS_Injection
  <2>7. Cardinality(s) \in Nat /\ Cardinality(EndedBy(s)) \in Nat
    BY <2>2, <2>6, FS_CardinalityType
  <2> QED
    BY <2>6, <2>7
<1> QED
  BY <1>7, <1>8

\* When no thread can go on, nobody hangs at the gate, in signal or broadcast, in
\* destroy or in a cleanup; all that a broadcast was for have returned, and signals
\* that left some of theirs asleep have each ended another wait of those they were
\* for: ptw32_cond_unblock and ptw32_cond_wait_cleanup lose no unit and no signal,
\* whatever threads time out, are cancelled in the queue or fold the counts.  That
\* a thread cannot go on is stated by Blocked, without ENABLED; where GoesOn says
\* the two are the same, this is the property that the run checks.
THEOREM EverybodyAlwaysServed ==
  PastGateOnly => (Spec => [](NobodyHangs /\ NoSignalLost /\ (GoesOn => EverybodyServed)))
<1> SUFFICES ASSUME PastGateOnly
             PROVE  Spec => [](NobodyHangs /\ NoSignalLost /\ (GoesOn => EverybodyServed))
  OBVIOUS
<1>1. CondInv /\ [Next]_vars => CondInv'
  BY CondStep
<1>2. CondInv /\ CondInv' /\ RestInv /\ [Next]_vars => RestInv'
  BY RestStep
<1>3. CondInv /\ CondInv' /\ RestInv /\ SignalInv /\ [Next]_vars => SignalInv'
  BY SignalKept
<1>4. CondInv /\ RestInv /\ SignalInv => NobodyHangs /\ NoSignalLost /\ (GoesOn => EverybodyServed)
  BY RestKept, RestServed DEF EverybodyServed
<1> QED
  BY <1>1, <1>2, <1>3, <1>4, CondStart, RestStart, SignalStart, PTL DEF Spec
=============================================================================
