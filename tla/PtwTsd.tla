------------------------------- MODULE PtwTsd -------------------------------
(***************************************************************************)
(* The thread-specific data of pthreads.2: keys with destructors, the      *)
(* associations that tie a thread to each key it has set a value for, and  *)
(* the two that take them apart, a thread that ends and pthread_key_delete. *)
(* An association lies in a chain of its thread and in a chain of its key, *)
(* which are guarded by threadLock and keyLock.  pthread_setspecific and   *)
(* pthread_key_delete take keyLock first, an ending thread takes it last.  *)
(*                                                                         *)
(* A step is what a thread does between two points where another one may   *)
(* come in: where it queues for a lock, has got it, or works without one.  *)
(***************************************************************************)
EXTENDS Naturals, Sequences, SequencesExt

CONSTANTS
  Threads,   \* the threads of the program
  Keys,      \* the keys it may create
  MaxValues, \* bound: values other than NULL that are set
  Rounds,    \* PTHREAD_DESTRUCTOR_ITERATIONS
  Env,       \* what the program may do: "shared_delete" when it deletes a key
             \* that has associations with more than one thread,
             \* "ending_delete" when another thread with one is ending then
  None       \* the null pointer

ASSUME TsdAssumption ==
  /\ MaxValues \in Nat /\ Rounds \in Nat \ {0}
  /\ None \notin Threads \cup Keys
  /\ Env \subseteq {"shared_delete", "ending_delete"}

VARIABLES
  key,        \* the life of each key
  destructor, \* whether it has one
  keyLock,    \* the queue of key->keyLock, its owner first
  threads,    \* key->threads: the threads of its associations
  threadLock, \* the queue of sp->threadLock
  keys,       \* sp->keys: the keys of its associations
  nextAssoc,  \* sp->nextAssoc: the key of that association
  value,      \* TlsGetValue: what each thread has for each key
  iterations, \* the rounds of an ending thread
  remaining,  \* assocsRemaining # 0
  pc,         \* where each thread stands
  about,      \* the key its call is about
  target,     \* the thread whose association it deletes, or the value it sets
  values,     \* values that were set
  ran,        \* history: how often a destructor was given each value
  owed        \* history: the values of each thread that a destructor has to get

chains == <<threads, keys, nextAssoc>>
locks == <<keyLock, threadLock>>
call == <<about, target>>
rounds == <<iterations, remaining>>
history == <<ran, owed>>
vars == <<key, destructor, locks, chains, value, rounds, pc, call, values, history>>

Value == 0 .. MaxValues   \* NULL is 0, and every other value is set once

Goto(t, l) == pc' = [pc EXCEPT ![t] = l]

\* A call about a key and a thread or value, or about nothing.
Calls(t, k, u) == about' = [about EXCEPT ![t] = k] /\ target' = [target EXCEPT ![t] = u]

\* A call ends in the program, or in the destructor that made it.
Return(t) == Goto(t, IF iterations[t] = 0 THEN "user" ELSE "destructor") /\ Calls(t, None, None)
InProgram(t) == pc[t] \in {"user", "destructor"}

Holds(t, queue) == queue # <<>> /\ Head(queue) = t

Init ==
  /\ key = [k \in Keys |-> "none"]
  /\ destructor = [k \in Keys |-> FALSE]
  /\ keyLock = [k \in Keys |-> <<>>] /\ threadLock = [t \in Threads |-> <<>>]
  /\ threads = [k \in Keys |-> <<>>] /\ keys = [t \in Threads |-> <<>>]
  /\ nextAssoc = [t \in Threads |-> None]
  /\ value = [t \in Threads |-> [k \in Keys |-> 0]]
  /\ iterations = [t \in Threads |-> 0] /\ remaining = [t \in Threads |-> FALSE]
  /\ pc = [t \in Threads |-> "user"]
  /\ about = [t \in Threads |-> None] /\ target = [t \in Threads |-> None]
  /\ values = 0 /\ ran = [v \in Value |-> 0] /\ owed = [t \in Threads |-> {}]

-----------------------------------------------------------------------------
(* pthread_key_create, pthread_setspecific *)

KeyCreate(t, k) ==
  /\ InProgram(t) /\ key[k] = "none"
  /\ key' = [key EXCEPT ![k] = "live"]
  /\ \E d \in BOOLEAN : destructor' = [destructor EXCEPT ![k] = d]
  /\ UNCHANGED <<locks, chains, value, rounds, pc, call, values, history>>

\* TlsSetValue
Stores(t, k, v) ==
  /\ value' = [value EXCEPT ![t][k] = v]
  /\ owed' = [owed EXCEPT ![t] =
                (@ \ {value[t][k]}) \cup (IF destructor[k] /\ v # 0 THEN {v} ELSE {})]

\* Only a value that a destructor may have to be called for needs the locks.
SetSpecific(t, k) ==
  /\ InProgram(t) /\ key[k] = "live"
  /\ \E v \in {0} \cup (IF values < MaxValues THEN {values + 1} ELSE {}) :
       /\ values' = IF v = 0 THEN values ELSE v
       /\ IF destructor[k] /\ v # 0
          THEN /\ keyLock' = [keyLock EXCEPT ![k] = Append(@, t)]
               /\ Calls(t, k, v)
               /\ Goto(t, "setKey")
               /\ UNCHANGED <<value, owed>>
          ELSE Stores(t, k, v) /\ UNCHANGED <<keyLock, call, pc>>
  /\ UNCHANGED <<key, destructor, threadLock, chains, rounds, ran>>

SetThread(t) ==
  /\ pc[t] = "setKey" /\ Holds(t, keyLock[about[t]])
  /\ threadLock' = [threadLock EXCEPT ![t] = Append(@, t)]
  /\ Goto(t, "setThread")
  /\ UNCHANGED <<key, destructor, keyLock, chains, value, rounds, call, values, history>>

\* ptw32_tkAssocCreate unless there is an association: it becomes the first
\* of both chains.  Without memory for it the value is not set.
Associate(t) ==
  LET k == about[t] IN
  /\ pc[t] = "setThread" /\ Holds(t, threadLock[t])
  /\ \/ Contains(keys[t], k) /\ Goto(t, "setValue") /\ UNCHANGED <<keys, threads, call>>
     \/ /\ ~Contains(keys[t], k)
        /\ keys' = [keys EXCEPT ![t] = <<k>> \o @]
        /\ threads' = [threads EXCEPT ![k] = <<t>> \o @]
        /\ Goto(t, "setValue")
        /\ UNCHANGED call
     \/ ~Contains(keys[t], k) /\ Return(t) /\ UNCHANGED <<keys, threads>>
  /\ threadLock' = [threadLock EXCEPT ![t] = Tail(@)]
  /\ keyLock' = [keyLock EXCEPT ![k] = Tail(@)]
  /\ UNCHANGED <<key, destructor, nextAssoc, value, rounds, values, history>>

SetValue(t) ==
  /\ pc[t] = "setValue"
  /\ Stores(t, about[t], target[t])
  /\ Return(t)
  /\ UNCHANGED <<key, destructor, locks, chains, rounds, values, ran>>

-----------------------------------------------------------------------------
(* ptw32_tkAssocDestroy, for the association of thread t with key k *)

\* Where the association with e stands in a chain.
At(chain, e) == CHOOSE j \in DOMAIN chain : chain[j] = e

\* The association behind that with k in the chain of t.
Behind(t, k) ==
  LET i == At(keys[t], k) IN IF i < Len(keys[t]) THEN keys[t][i + 1] ELSE None

Unchain(t, k) ==
  /\ keys' = [keys EXCEPT ![t] = RemoveAt(@, At(@, k))]
  /\ threads' = [threads EXCEPT ![k] = RemoveAt(@, At(@, t))]

\* A destroy that leaves the pointer of an ending thread where it is.
TkAssocDestroy_KeepsNext(t, k) == Unchain(t, k) /\ UNCHANGED nextAssoc

TkAssocDestroy(t, k) ==
  /\ Unchain(t, k)
  /\ nextAssoc' = [nextAssoc EXCEPT ![t] = IF @ = k THEN Behind(t, k) ELSE @]

-----------------------------------------------------------------------------
(* pthread_key_delete *)

\* The program deletes a key that is in no call of pthread_setspecific, and
\* does not use it any more.  key->threads is read without a lock.
KeyDelete(t, k) ==
  /\ InProgram(t) /\ key[k] = "live"
  /\ \A u \in Threads : about[u] = k => pc[u] \notin {"setKey", "setThread", "setValue"}
  /\ "shared_delete" \in Env \/ Len(threads[k]) <= 1
  /\ \/ "ending_delete" \in Env
     \/ \A u \in Threads \ {t} : Contains(threads[k], u) => iterations[u] = 0
  /\ key' = [key EXCEPT ![k] = "deleted"]
  /\ Calls(t, k, None)
  /\ owed' = [u \in Threads |-> owed[u] \ {value[u][k]}]
  /\ IF threads[k] # <<>>
     THEN keyLock' = [keyLock EXCEPT ![k] = Append(@, t)] /\ Goto(t, "deleteKey")
     ELSE Goto(t, "deleteLast") /\ UNCHANGED keyLock
  /\ UNCHANGED <<destructor, threadLock, chains, value, rounds, values, ran>>

DeleteKey(t) ==
  /\ pc[t] = "deleteKey" /\ Holds(t, keyLock[about[t]])
  /\ Goto(t, "deleteLoop")
  /\ UNCHANGED <<key, destructor, locks, chains, value, rounds, call, values, history>>

\* while ((assoc = key->threads) != NULL)
DeleteLoop(t) ==
  LET k == about[t] IN
  /\ pc[t] = "deleteLoop"
  /\ IF threads[k] = <<>>
     THEN Goto(t, "deleteLast") /\ UNCHANGED <<threadLock, target>>
     ELSE /\ target' = [target EXCEPT ![t] = Head(threads[k])]
          /\ threadLock' = [threadLock EXCEPT ![Head(threads[k])] = Append(@, t)]
          /\ Goto(t, "deleteThread")
  /\ UNCHANGED <<key, destructor, keyLock, chains, value, rounds, about, values, history>>

\* Both locks are released each time the loop is run through, and keyLock is
\* not taken again.  What comes of an association that is freed already, or of
\* a release of a lock that is not held, is undefined.
DeleteAssoc(t) ==
  LET k == about[t]
      u == target[t] IN
  /\ pc[t] = "deleteThread" /\ Holds(t, threadLock[u])
  /\ threadLock' = [threadLock EXCEPT ![u] = Tail(@)]
  /\ IF Contains(threads[k], u) /\ Holds(t, keyLock[k])
     THEN /\ TkAssocDestroy(u, k)
          /\ keyLock' = [keyLock EXCEPT ![k] = Tail(@)]
          /\ Goto(t, "deleteLoop")
          /\ Calls(t, k, None)
     ELSE Goto(t, "undefined") /\ UNCHANGED <<chains, keyLock, call>>
  /\ UNCHANGED <<key, destructor, value, rounds, values, history>>

\* TlsFree; then the lock is taken once more, for a thread that ends.  A thread
\* that found the chain empty when it got the lock has not released it: it queues
\* behind itself, with the node it has in the queue already, and waits for ever.
DeleteLast(t) ==
  LET k == about[t] IN
  /\ pc[t] = "deleteLast"
  /\ IF destructor[k]
     THEN /\ key' = [key EXCEPT ![k] = "slotless"]
          /\ keyLock' = [keyLock EXCEPT ![k] = Append(@, t)]
          /\ Goto(t, IF Holds(t, keyLock[k]) THEN "selfWait" ELSE "deleteWait")
          /\ UNCHANGED call
     ELSE key' = [key EXCEPT ![k] = "freed"] /\ Return(t) /\ UNCHANGED keyLock
  /\ UNCHANGED <<destructor, threadLock, chains, value, rounds, values, history>>

DeleteEnds(t) ==
  LET k == about[t] IN
  /\ pc[t] = "deleteWait" /\ Holds(t, keyLock[k])
  /\ keyLock' = [keyLock EXCEPT ![k] = Tail(@)]
  /\ key' = [key EXCEPT ![k] = "freed"]
  /\ Return(t)
  /\ UNCHANGED <<destructor, threadLock, chains, value, rounds, values, history>>

-----------------------------------------------------------------------------
(* ptw32_callUserDestroyRoutines *)

\* The thread ends, or begins a round because the last one ran a destructor.
BeginRound(t) ==
  /\ pc[t] \in {"user", "again"}
  /\ iterations' = [iterations EXCEPT ![t] = @ + 1]
  /\ remaining' = [remaining EXCEPT ![t] = FALSE]
  /\ threadLock' = [threadLock EXCEPT ![t] = Append(@, t)]
  /\ Goto(t, "round")
  /\ UNCHANGED <<key, destructor, keyLock, chains, value, call, values, history>>

First(t) ==
  /\ pc[t] = "round" /\ Holds(t, threadLock[t])
  /\ nextAssoc' = [nextAssoc EXCEPT ![t] = IF keys[t] = <<>> THEN None ELSE Head(keys[t])]
  /\ threadLock' = [threadLock EXCEPT ![t] = Tail(@)]
  /\ Goto(t, "loop")
  /\ UNCHANGED <<key, destructor, keyLock, threads, keys, value, rounds, call, values, history>>

Loop(t) ==
  /\ pc[t] = "loop"
  /\ threadLock' = [threadLock EXCEPT ![t] = Append(@, t)]
  /\ Goto(t, "next")
  /\ UNCHANGED <<key, destructor, keyLock, chains, value, rounds, call, values, history>>

\* An ending thread that waits for keyLock as all others do.
TryKey_Waits(t, k) ==
  /\ Goto(t, "both")
  /\ about' = [about EXCEPT ![t] = k]
  /\ keyLock' = [keyLock EXCEPT ![k] = Append(@, t)]
  /\ UNCHANGED threadLock

\* ptw32_mcs_lock_try_acquire; when it is busy the thread lets go of its own
\* lock and goes around again.
TryKey(t, k) ==
  IF keyLock[k] = <<>>
  THEN /\ Goto(t, "both")
       /\ about' = [about EXCEPT ![t] = k]
       /\ keyLock' = [keyLock EXCEPT ![k] = <<t>>]
       /\ UNCHANGED threadLock
  ELSE /\ threadLock' = [threadLock EXCEPT ![t] = Tail(@)]
       /\ Goto(t, "loop")
       /\ UNCHANGED <<about, keyLock>>

NextAssoc(t) ==
  /\ pc[t] = "next" /\ Holds(t, threadLock[t])
  /\ IF nextAssoc[t] # None
     THEN TryKey(t, nextAssoc[t])
     ELSE /\ threadLock' = [threadLock EXCEPT ![t] = Tail(@)]
          /\ Goto(t, IF remaining[t] THEN "again" ELSE "ended")
          /\ UNCHANGED <<about, keyLock>>
  /\ UNCHANGED <<key, destructor, chains, value, rounds, target, values, history>>

\* The value goes from its slot to the destructor, which runs without a lock.
\* An association without a value, or after the last round, is destroyed.
TakeValue_Leaves(t, k) == UNCHANGED value
TakeValue(t, k) == value' = [value EXCEPT ![t][k] = 0]

BothLocks(t) ==
  LET k == about[t]
      v == value[t][k] IN
  /\ pc[t] = "both" /\ Holds(t, keyLock[k])
  /\ TakeValue(t, k)
  /\ IF v # 0 /\ iterations[t] <= Rounds
     THEN /\ ran' = [ran EXCEPT ![v] = @ + 1]
          /\ owed' = [owed EXCEPT ![t] = @ \ {v}]
          /\ nextAssoc' = [nextAssoc EXCEPT ![t] = Behind(t, k)]
          /\ remaining' = [remaining EXCEPT ![t] = TRUE]
          /\ Goto(t, "destructor")
          /\ UNCHANGED <<keys, threads>>
     ELSE /\ TkAssocDestroy(t, k)
          /\ Goto(t, "loop")
          /\ UNCHANGED <<remaining, history>>
  /\ threadLock' = [threadLock EXCEPT ![t] = Tail(@)]
  /\ keyLock' = [keyLock EXCEPT ![k] = Tail(@)]
  /\ Calls(t, None, None)
  /\ UNCHANGED <<key, destructor, iterations, values>>

DestructorReturns(t) ==
  /\ pc[t] = "destructor"
  /\ Goto(t, "loop")
  /\ UNCHANGED <<key, destructor, locks, chains, value, rounds, call, values, history>>

-----------------------------------------------------------------------------
InCall(t) ==
  \/ SetThread(t) \/ Associate(t) \/ SetValue(t)
  \/ DeleteKey(t) \/ DeleteLoop(t) \/ DeleteAssoc(t) \/ DeleteLast(t) \/ DeleteEnds(t)
  \/ (pc[t] = "again" /\ BeginRound(t)) \/ First(t) \/ Loop(t) \/ NextAssoc(t) \/ BothLocks(t)

Next ==
  \E t \in Threads :
    \/ \E k \in Keys : KeyCreate(t, k) \/ SetSpecific(t, k) \/ KeyDelete(t, k)
    \/ BeginRound(t) \/ DestructorReturns(t) \/ InCall(t)

Spec == Init /\ [][Next]_vars

\* A thread that can go on does, and destructors return.
FairSpec == Spec /\ \A t \in Threads : WF_vars(InCall(t)) /\ WF_vars(DestructorReturns(t))

-----------------------------------------------------------------------------
TypeOK ==
  /\ key \in [Keys -> {"none", "live", "deleted", "slotless", "freed"}]
  /\ destructor \in [Keys -> BOOLEAN]
  /\ keyLock \in [Keys -> Seq(Threads)] /\ threadLock \in [Threads -> Seq(Threads)]
  /\ threads \in [Keys -> Seq(Threads)] /\ keys \in [Threads -> Seq(Keys)]
  /\ nextAssoc \in [Threads -> Keys \cup {None}]
  /\ value \in [Threads -> [Keys -> Value]]
  /\ iterations \in [Threads -> 0 .. Rounds + 1] /\ remaining \in [Threads -> BOOLEAN]
  /\ values \in Value /\ ran \in [Value -> Nat]
  /\ owed \in [Threads -> SUBSET Value]

\* What a thread works on is there: the association that an ending thread comes
\* to next is in its chain, the key of an association has its slot and is not
\* freed, and the thread of one has not ended.
WorksOnLive ==
  /\ \A t \in Threads : nextAssoc[t] # None => Contains(keys[t], nextAssoc[t])
  /\ \A t \in Threads : \A k \in Range(keys[t]) : key[k] \in {"live", "deleted"}
  /\ \A t \in Threads :
       /\ pc[t] = "both" => Contains(keys[t], about[t])
       /\ pc[t] = "deleteThread" => pc[target[t]] # "ended"
       /\ pc[t] # "undefined"

\* The two chains tell the same, and none of a thread that ended is left.
ChainsAgree ==
  \A t \in Threads : \A k \in Keys :
    /\ Contains(keys[t], k) <=> Contains(threads[k], t)
    /\ pc[t] = "ended" => ~Contains(threads[k], t)

AssocsSound == TypeOK /\ WorksOnLive /\ ChainsAgree

\* ptw32_tkAssocDestroy is entered with both locks held, as its comment says.
BothLocked ==
  \A t \in Threads :
    pc[t] = "deleteThread" /\ Holds(t, threadLock[target[t]]) => Holds(t, keyLock[about[t]])

\* No value is given to a destructor twice, and a thread that ended within its
\* rounds has given them all that it had for keys that were not deleted.
ValuesDestroyed ==
  /\ \A v \in Value : ran[v] <= 1
  /\ \A t \in Threads : pc[t] = "ended" /\ iterations[t] <= Rounds => owed[t] = {}

\* Every call comes back and every thread that ends comes to its end, though
\* the two sides take the locks in opposite order.
CallsEnd == \A t \in Threads : ~InProgram(t) ~> (InProgram(t) \/ pc[t] = "ended")
=============================================================================
