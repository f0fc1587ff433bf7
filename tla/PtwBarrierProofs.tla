-------------------------- MODULE PtwBarrierProofs --------------------------
(***************************************************************************)
(* Safety of the queue lock and of what is built on it, for any threads,   *)
(* any number of calls and any height of a barrier, when a node is not     *)
(* used again by the very next call of its thread.                         *)
(***************************************************************************)
EXTENDS PtwBarrier, FiniteSetTheorems, TLAPS

-----------------------------------------------------------------------------
(* The inductive invariant of the lock                                     *)

\* With one place for the nodes of a thread, a flag that is set late reaches
\* the node of a later call; what is proved here is proved of nodes that
\* outlive a call.
NodesOutlive == Slots >= 2

Waits == {"link", "notify", "ready", "sleep_ready"}
Works == {"locked", "transfer", "adopt", "destroying", "init", "mark"}
Frees == {"release", "unlock", "linked", "sleep_linked", "pass"}

\* The node of the thread's own call is in the queue, or the thread ends a round
\* with the node of the barrier.
InQueue(t) == pc[t] \in Waits \cup Works \/ (pc[t] \in Frees /\ call[t] # "last")
Ends(t) == pc[t] \in Frees /\ call[t] = "last"

\* The queue is made of the places lo to hi - 1: who[i] has its node at the place
\* i, or None, when the node of the barrier is there; pl[t] is the place of t.
At(w) == IF w = None THEN Proxy ELSE MyNode(w)
Prev(who, pl, t) == At(who[pl[t] - 1])

LockTypes ==
  /\ next \in [Node -> Node \cup {None}]
  /\ nextFlag \in [Node -> {Clear, Set} \cup Threads]
  /\ readyFlag \in [Node -> {Clear, Set} \cup Threads]
  /\ event \in [Threads -> BOOLEAN]
  /\ pred \in [Threads -> Node \cup {None}] /\ held \in [Threads -> Node \cup {None}]
  /\ calls \in [Threads -> Nat] /\ begun \in Nat
  /\ pc \in [Threads -> Waits \cup Works \cup Frees \cup
              {"idle", "enqueue", "transferred", "released", "semwait", "leave", "last",
               "compare", "dead"}]
  /\ call \in [Threads -> {"none", "wait", "last", "destroy", "once", "cancelled", "list"}]

Places(who, pl, lo, hi) ==
  /\ lo <= hi
  /\ lock = IF lo = hi THEN None ELSE At(who[hi - 1])
  /\ \A i \in lo .. hi - 1 :
       IF who[i] = None THEN i = lo ELSE InQueue(who[i]) /\ pl[who[i]] = i
  /\ \A t \in Threads : InQueue(t) =>
       /\ held[t] = MyNode(t)
       /\ lo <= pl[t] /\ pl[t] < hi /\ who[pl[t]] = t
       /\ pc[t] \notin Waits => pl[t] = lo
  /\ \A t \in Threads : Ends(t) => held[t] = Proxy /\ lo < hi /\ who[lo] = None

\* Nobody has told the owner of the node p that it is linked.
Unheard(p) ==
  \/ nextFlag[p] = Clear
  \/ \E w \in Threads : pc[w] = "sleep_linked" /\ held[w] = p /\ nextFlag[p] = w /\ ~event[w]

\* A thread that is linked sets the flag of a node that has left the queue.  Its
\* owner is out of the queue, or behind the thread with the node of its next call.
Late(who, pl, lo, t) ==
  /\ pred[t] \in Node /\ nextFlag[pred[t]] = Clear
  /\ pl[t] = lo \/ (pl[t] = lo + 1 /\ who[lo] = None)
  /\ \/ pred[t] = Proxy /\ pl[t] = lo
     \/ \E p \in Threads :
          IF InQueue(p)
          THEN pl[t] < pl[p] /\ calls[p] > 0 /\ pred[t] = StackNode(p, calls[p] - 1)
          ELSE pred[t] = MyNode(p)

\* A thread that waits in the place lo has been given the lock; one that waits
\* behind the node p has not, and p knows of it once it is linked.
First(who, pl, lo, t) ==
  /\ pc[t] # "link"
  /\ IF pc[t] = "sleep_ready" THEN event[t] ELSE readyFlag[MyNode(t)] = Set
  /\ pc[t] = "notify" => Late(who, pl, lo, t)

Behind(who, pl, lo, t, p) ==
  /\ pc[t] = "link" => pred[t] = p /\ next[p] = None
  /\ pc[t] # "link" => next[p] = MyNode(t)
  /\ pc[t] = "notify" => pred[t] = p \/ Late(who, pl, lo, t)
  /\ pc[t] \in {"link", "notify"} /\ pred[t] = p => Unheard(p)
  /\ readyFlag[MyNode(t)] = IF pc[t] = "sleep_ready" THEN t ELSE Clear
  /\ ~event[t]

\* A thread that frees the lock waits for a successor only if there is one, and
\* is woken only by one that is linked.
Handing(lo, hi, t) ==
  /\ pc[t] \in {"linked", "sleep_linked", "pass"} => lo + 1 < hi
  /\ pc[t] = "pass" => next[held[t]] # None
  /\ pc[t] = "sleep_linked" =>
       nextFlag[held[t]] = t /\ (event[t] => next[held[t]] # None)

Queue(who, pl, lo, hi) ==
  /\ Places(who, pl, lo, hi)
  /\ \A t \in Threads : pc[t] \in Waits =>
       IF pl[t] = lo THEN First(who, pl, lo, t) ELSE Behind(who, pl, lo, t, Prev(who, pl, t))
  /\ \A t \in Threads : Handing(lo, hi, t)
  /\ \A t \in Threads : pc[t] = "adopt" => lo + 1 < hi
  /\ \A t \in Threads : event[t] => pc[t] \in {"sleep_ready", "sleep_linked"}
  /\ lo < hi => next[At(who[hi - 1])] = None /\ nextFlag[At(who[hi - 1])] = Clear

-----------------------------------------------------------------------------
(* The inductive invariant of its users                                    *)

Coming == {"enqueue", "link", "notify", "ready", "sleep_ready", "locked"}
Last(t) == pc[t] = "last" \/ Ends(t)
Filled == {"transfer", "adopt", "transferred"}
Sleepers == {t \in inside : pc[t] \in Frees \cup {"released", "semwait"}}

Calls ==
  /\ job \in {"barrier", "once", "list"}
  /\ \A t \in Threads :
       /\ call[t] \in {"none"} \cup CASE job = "barrier" -> {"wait", "last", "destroy"}
                                      [] job = "once" -> {"once", "cancelled"}
                                      [] job = "list" -> {"list"}
       /\ pc[t] \in Filled \cup {"semwait", "leave", "last", "compare"} => call[t] = "wait"
       /\ pc[t] \in Coming => call[t] \in {"wait", "once", "list"}
       /\ pc[t] = "destroying" => call[t] = "destroy"
       /\ pc[t] \in {"init", "mark"} => call[t] = "once"
       /\ pc[t] = "dead" => call[t] = "cancelled"
       /\ pc[t] \in Frees \cup {"released"} => call[t] # "none"

\* A round of the barrier: it fills until the last one has come, with whom it opens,
\* then as many may leave as came, and the last of them frees the lock.
Round ==
  /\ inside \subseteq Threads /\ IsFiniteSet(inside)
  /\ height \in Nat /\ sem \in Nat /\ Cardinality(inside) + height = Height
  /\ open \in BOOLEAN /\ serial \in BOOLEAN
  /\ \A t \in Threads :
       t \in inside <=>
         call[t] = "wait" /\ pc[t] \in Frees \cup Filled \cup {"released", "semwait", "leave"}
  /\ \A t \in Threads : pc[t] \in Filled \cup {"leave"} => open
  /\ IF open THEN ~serial /\ inside # {} ELSE sem = 0 /\ height > 0
  /\ \A t \in Threads : pc[t] \in Filled =>
       sem = 0 /\ height = 0 /\ \A u \in Threads : pc[u] \in Filled \cup {"leave"} => u = t
  /\ open /\ (\A t \in Threads : pc[t] \notin Filled) => sem = Cardinality(Sleepers)
  /\ \A t, u \in Threads : Last(t) /\ Last(u) => t = u
  /\ \A t \in Threads : Last(t) => ~open

\* The node of the barrier is first in the queue while a round leaves it.
NodeThere(who, lo, hi) ==
  (open /\ \A t \in Threads : pc[t] \notin {"transfer", "adopt"}) \/ (\E t \in Threads : Last(t))
    => lo < hi /\ who[lo] = None

Ended ==
  /\ \A t \in Threads : pc[t] = "destroying" =>
       /\ barrier = "valid" /\ begun >= MaxCalls
       /\ \A u \in Threads : u # t => pc[u] \notin Coming
  /\ barrier # "valid" =>
       /\ job = "barrier" /\ inside = {}
       /\ \A t \in Threads : call[t] # "destroy" => pc[t] \in {"idle", "released", "compare"}

Inited ==
  /\ done \in BOOLEAN
  /\ inits = IF done \/ \E t \in Threads : pc[t] = "mark" THEN 1 ELSE 0
  /\ \A t \in Threads :
       /\ pc[t] \in {"init", "mark"} => ~done
       /\ pc[t] \in Frees \cup {"released"} /\ call[t] = "once" => done

Users == Calls /\ Round /\ Ended /\ Inited

-----------------------------------------------------------------------------
(* Nodes                                                                   *)

\* The node of the next call lies at another place.
LEMMA NextPlace ==
  ASSUME NodesOutlive, NEW k \in Nat
  PROVE  k % Slots \in 0 .. Slots - 1 /\ (k + 1) % Slots # k % Slots
<1>1. Slots \in Nat /\ Slots >= 2
  BY McsAssumption DEF NodesOutlive
<1>2. PICK s \in Nat : s = Slots /\ s >= 2
  BY <1>1
<1>3. k % s \in 0 .. s - 1 /\ (k + 1) % s \in 0 .. s - 1
  BY <1>2
<1>4. k = (s * (k \div s)) + (k % s) /\ k + 1 = (s * ((k + 1) \div s)) + ((k + 1) % s)
  BY <1>2
<1>5. PICK a \in Int, b \in Int : a = k \div s /\ b = (k + 1) \div s
  BY <1>2
<1>6. ASSUME (k + 1) % s = k % s PROVE FALSE
  <2>1. s * b = s * a + 1
    BY <1>2, <1>3, <1>4, <1>5, <1>6
  <2>2. s * (b - a) = 1
    BY <1>2, <1>5, <2>1
  <2>3. PICK d \in Int : d = b - a
    BY <1>5
  <2>4. s * d = 1
    BY <2>2, <2>3
  <2>5. CASE d <= 0
    <3>1. s * d <= 0
      BY <1>2, <2>3, <2>5
    <3> QED
      BY <2>4, <3>1
  <2>6. CASE d >= 1
    <3>1. s * d >= s
      BY <1>2, <2>3, <2>6
    <3> QED
      BY <1>2, <2>4, <3>1
  <2> QED
    BY <2>3, <2>5, <2>6
<1> QED
  BY <1>2, <1>3, <1>6

LEMMA Nodes ==
  ASSUME NodesOutlive, NEW t \in Threads, NEW k \in Nat
  PROVE  /\ StackNode(t, k) \in Node \ {Proxy, None}
         /\ StackNode(t, k + 1) # StackNode(t, k)
         /\ \A u \in Threads : \A j \in Nat : u # t => StackNode(u, j) # StackNode(t, k)
<1>1. k % Slots \in 0 .. Slots - 1 /\ (k + 1) % Slots # k % Slots /\ Slots \in Nat \ {0}
  BY NextPlace, McsAssumption
<1>2. (k % Slots) + 1 \in 1 .. Slots
  BY <1>1
<1>3. PICK j \in Nat : j = k + 1
  OBVIOUS
<1>6. (k % Slots) + 1 # 0 /\ (k + 1) % Slots \in 0 .. Slots - 1
  <2>1. j % Slots \in 0 .. Slots - 1
    BY NextPlace
  <2> QED
    BY <1>1, <1>3, <2>1
<1>4. ((k + 1) % Slots) + 1 # (k % Slots) + 1
  BY <1>1, <1>6
<1>5. <<t, (k % Slots) + 1>> # <<None, 0>>
  BY <1>6
<1> QED
  BY <1>2, <1>4, <1>5, McsAssumption DEF StackNode, Node, Proxy

\* The nodes of the queue are different ones.
LEMMA MyNodes ==
  ASSUME NodesOutlive, LockTypes
  PROVE  /\ \A t \in Threads : MyNode(t) \in Node \ {Proxy, None}
         /\ \A t, u \in Threads : MyNode(t) = MyNode(u) => t = u
         /\ Proxy \in Node /\ Proxy # None /\ None \notin Threads
         /\ Clear \notin Threads /\ Set \notin Threads /\ Clear # Set
<1>1. \A t \in Threads : calls[t] \in Nat
  BY DEF LockTypes
<1>2. \A t \in Threads : MyNode(t) \in Node \ {Proxy, None}
  BY <1>1, Nodes DEF MyNode
<1>3. \A t, u \in Threads : MyNode(t) = MyNode(u) => t = u
  BY <1>1, Nodes DEF MyNode
<1>4. Proxy \in Node /\ Proxy # None
  BY McsAssumption DEF Node
<1>5. Clear # Set
  BY DEF Clear, Set
<1> QED
  BY <1>2, <1>3, <1>4, <1>5, McsAssumption

LEMMA Distinct ==
  ASSUME NodesOutlive, LockTypes,
         NEW who \in [Nat -> Threads \cup {None}], NEW pl \in [Threads -> Nat],
         NEW lo \in Nat, NEW hi \in Nat, Places(who, pl, lo, hi)
  PROVE  /\ \A i \in lo .. hi - 1 : i \in Nat /\ At(who[i]) \in Node /\ At(who[i]) # None
         /\ \A i, j \in lo .. hi - 1 : At(who[i]) = At(who[j]) => i = j
<1>1. \A i \in lo .. hi - 1 : i \in Nat /\ who[i] \in Threads \cup {None}
  OBVIOUS
<1>2. \A i \in lo .. hi - 1 : IF who[i] = None THEN i = lo ELSE pl[who[i]] = i
  BY DEF Places
<1>3. ASSUME NEW i \in lo .. hi - 1, NEW j \in lo .. hi - 1, At(who[i]) = At(who[j])
      PROVE  i = j
  <2>1. who[i] = who[j]
    BY <1>1, <1>3, MyNodes DEF At
  <2> QED
    BY <1>2, <2>1
<1>4. ASSUME NEW i \in lo .. hi - 1 PROVE At(who[i]) \in Node /\ At(who[i]) # None
  BY <1>1, MyNodes DEF At
<1> QED
  BY <1>1, <1>3, <1>4

LEMMA PlaceBefore ==
  ASSUME NEW lo \in Nat, NEW hi \in Nat, NEW k \in Nat, lo < k, k < hi
  PROVE  k - 1 \in lo .. hi - 1
OBVIOUS

\* Two threads do not wait behind the same node, and none behind the last one.
LEMMA Neighbours ==
  ASSUME NodesOutlive, LockTypes,
         NEW who \in [Nat -> Threads \cup {None}], NEW pl \in [Threads -> Nat],
         NEW lo \in Nat, NEW hi \in Nat, Places(who, pl, lo, hi),
         NEW t \in Threads, InQueue(t), pl[t] # lo
  PROVE  /\ lo < pl[t] /\ pl[t] < hi /\ pl[t] - 1 \in Nat /\ pl[t] - 1 \in lo .. hi - 1
         /\ Prev(who, pl, t) \in Node /\ Prev(who, pl, t) # At(who[hi - 1])
         /\ Prev(who, pl, t) # MyNode(t)
         /\ \A u \in Threads : InQueue(u) /\ u # t /\ pl[u] # lo => Prev(who, pl, u) # Prev(who, pl, t)
<1>1. \A u \in Threads : InQueue(u) => lo <= pl[u] /\ pl[u] < hi /\ who[pl[u]] = u /\ pl[u] \in Nat
  BY DEF Places
<1>2. \A u \in Threads : InQueue(u) /\ pl[u] # lo => pl[u] - 1 \in lo .. hi - 1
  BY <1>1, PlaceBefore
<1>3. /\ \A i \in lo .. hi - 1 : At(who[i]) \in Node
      /\ \A i, j \in lo .. hi - 1 : At(who[i]) = At(who[j]) => i = j
  BY Distinct
<1>4. hi - 1 \in lo .. hi - 1 /\ pl[t] - 1 # hi - 1 /\ pl[t] \in lo .. hi - 1 /\ pl[t] - 1 # pl[t]
  BY <1>1
<1>5. Prev(who, pl, t) \in Node /\ Prev(who, pl, t) # At(who[hi - 1])
  BY <1>2, <1>3, <1>4 DEF Prev
<1>6. Prev(who, pl, t) # MyNode(t)
  <2>1. MyNode(t) = At(who[pl[t]])
    BY <1>1, MyNodes DEF At
  <2> QED
    BY <1>2, <1>3, <1>4, <2>1 DEF Prev
<1>7. ASSUME NEW u \in Threads, InQueue(u), u # t, pl[u] # lo
      PROVE  Prev(who, pl, u) # Prev(who, pl, t)
  <2>1. pl[u] # pl[t]
    BY <1>1, <1>7
  <2>2. pl[u] - 1 # pl[t] - 1
    BY <1>1, <1>7, <2>1
  <2> QED
    BY <1>2, <1>3, <1>7, <2>2 DEF Prev
<1> QED
  BY <1>1, <1>2, <1>5, <1>6, <1>7

\* Nothing of the queue changes but what its threads know.
LEMMA SamePlaces ==
  ASSUME NEW who \in [Nat -> Threads \cup {None}], NEW pl \in [Threads -> Nat],
         NEW lo \in Nat, NEW hi \in Nat, Places(who, pl, lo, hi),
         UNCHANGED <<lock, held, calls>>,
         \A u \in Threads : /\ InQueue(u)' <=> InQueue(u)
                            /\ Ends(u)' => Ends(u)
                            /\ InQueue(u) /\ pc'[u] \notin Waits => pc[u] \notin Waits \/ pl[u] = lo
  PROVE  Places(who, pl, lo, hi)'
<1>1. (\A u : MyNode(u)' = MyNode(u)) /\ (\A w : At(w)' = At(w))
  BY DEF MyNode, At
<1>2. \A i \in lo .. hi - 1 :
        IF who[i] = None THEN i = lo ELSE InQueue(who[i])' /\ pl[who[i]] = i
  BY DEF Places
<1> QED
  BY <1>1, <1>2 DEF Places

LEMMA SameLate ==
  ASSUME NEW who, NEW pl, NEW lo, NEW t \in Threads, Late(who, pl, lo, t),
         UNCHANGED calls, pred'[t] = pred[t], nextFlag'[pred[t]] = Clear,
         \A u \in Threads : InQueue(u)' <=> InQueue(u)
  PROVE  Late(who, pl, lo, t)'
BY DEF Late, MyNode, StackNode

Quiet == UNCHANGED <<lock, flagVars, pred, callVars>>

LEMMA QuietNodes ==
  ASSUME UNCHANGED calls
  PROVE  /\ \A t : MyNode(t)' = MyNode(t)
         /\ \A w : At(w)' = At(w)
         /\ \A who, pl, u : Prev(who, pl, u)' = Prev(who, pl, u)
BY DEF MyNode, At, Prev

\* A thread goes on with the lock, or outside of the queue.
LEMMA Moves ==
  ASSUME NodesOutlive, LockTypes,
         NEW who \in [Nat -> Threads \cup {None}], NEW pl \in [Threads -> Nat],
         NEW lo \in Nat, NEW hi \in Nat, Queue(who, pl, lo, hi),
         NEW t \in Threads, NEW l, pc' = [pc EXCEPT ![t] = l], Quiet, UNCHANGED held,
         \A u \in Threads : u # t => call'[u] = call[u],
         pc[t] \notin Waits \cup Frees \cup {"adopt"},
         l \notin Waits \cup (Frees \ {"release"}) \cup {"adopt"},
         InQueue(t)' <=> InQueue(t), ~Ends(t)'
  PROVE  Queue(who, pl, lo, hi)'
<1> USE DEF LockTypes, Quiet, flagVars, callVars
<1>1. (\A u : MyNode(u)' = MyNode(u)) /\ (\A w : At(w)' = At(w))
      /\ \A u \in Threads : Prev(who, pl, u)' = Prev(who, pl, u)
  BY QuietNodes
<1>2. \A u \in Threads : u # t => pc'[u] = pc[u]
  OBVIOUS
<1>3. pc'[t] = l
  OBVIOUS
<1>4. \A u \in Threads : (InQueue(u)' <=> InQueue(u)) /\ (Ends(u)' => u # t /\ Ends(u))
  BY <1>2 DEF InQueue, Ends
<1>5. \A u \in Threads : pc'[u] \in Waits => u # t /\ pc[u] = pc'[u]
  BY <1>2, <1>3
<1>6. Places(who, pl, lo, hi)'
  BY <1>1, <1>2, <1>3, <1>4, <1>5 DEF Queue, Places, InQueue
<1>7. \A p : Unheard(p) => Unheard(p)'
  BY <1>2 DEF Unheard, Frees
<1>8. ASSUME NEW u \in Threads, Late(who, pl, lo, u) PROVE Late(who, pl, lo, u)'
  BY <1>1, <1>4, <1>8 DEF Late, StackNode
<1>9. ASSUME NEW u \in Threads, pc'[u] \in Waits
      PROVE  (IF pl[u] = lo THEN First(who, pl, lo, u)
              ELSE Behind(who, pl, lo, u, Prev(who, pl, u)))'
  <2>1. u # t /\ pc[u] = pc'[u]
    BY <1>5, <1>9
  <2>2. CASE pl[u] = lo
    BY <1>1, <1>8, <1>9, <2>1, <2>2 DEF Queue, First
  <2>3. CASE pl[u] # lo
    BY <1>1, <1>7, <1>8, <1>9, <2>1, <2>3 DEF Queue, Behind
  <2> QED
    BY <2>2, <2>3
<1>10. \A u \in Threads : Handing(lo, hi, u)'
  BY <1>2, <1>3 DEF Queue, Handing, Frees
<1>11. \A u \in Threads : pc'[u] = "adopt" => lo + 1 < hi
  BY <1>2, <1>3 DEF Queue
<1>12. \A u \in Threads : event'[u] => pc'[u] \in {"sleep_ready", "sleep_linked"}
  BY <1>2, <1>3 DEF Queue, Waits, Frees
<1>13. (lo < hi => next[At(who[hi - 1])] = None /\ nextFlag[At(who[hi - 1])] = Clear)'
  BY <1>1 DEF Queue
<1> QED
  BY <1>6, <1>9, <1>10, <1>11, <1>12, <1>13 DEF Queue

\* A thread puts its node at the end of the queue.
Joins(t, l) ==
  LET n == StackNode(t, calls[t] + 1) IN
  /\ Fresh({n})
  /\ held' = [held EXCEPT ![t] = n]
  /\ calls' = [calls EXCEPT ![t] = @ + 1] /\ begun' = begun + 1
  /\ lock' = n /\ UNCHANGED event
  /\ IF lock = None
     THEN pc' = [pc EXCEPT ![t] = l] /\ pred' \in {pred, [pred EXCEPT ![t] = None]}
     ELSE pc' = [pc EXCEPT ![t] = "link"] /\ pred' = [pred EXCEPT ![t] = lock]

LEMMA JoinsQueue ==
  ASSUME NodesOutlive, LockTypes,
         NEW who \in [Nat -> Threads \cup {None}], NEW pl \in [Threads -> Nat],
         NEW lo \in Nat, NEW hi \in Nat, Queue(who, pl, lo, hi),
         NEW t \in Threads, NEW l \in {"locked", "destroying"}, Joins(t, l),
         pc[t] \in {"idle", "enqueue"}, \A u \in Threads : u # t => call'[u] = call[u]
  PROVE  Queue([who EXCEPT ![hi] = t], [pl EXCEPT ![t] = hi], lo, hi + 1)'
<1> DEFINE n == StackNode(t, calls[t] + 1)
           w2 == [who EXCEPT ![hi] = t]
           p2 == [pl EXCEPT ![t] = hi]
<1> USE DEF LockTypes
<1>1. /\ n \in Node \ {Proxy, None} /\ n # MyNode(t)
      /\ \A u \in Threads : u # t => n # MyNode(u)
  <2>1. calls[t] \in Nat /\ calls[t] + 1 \in Nat /\ \A u \in Threads : calls[u] \in Nat
    OBVIOUS
  <2>2. n # StackNode(t, calls[t])
    BY <2>1, Nodes
  <2>3. \A u \in Threads : u # t => StackNode(u, calls[u]) # n
    BY <2>1, Nodes
  <2> QED
    BY <2>1, <2>2, <2>3, Nodes DEF MyNode
<1>2. MyNode(t)' = n /\ \A u \in Threads : u # t => MyNode(u)' = MyNode(u)
  BY DEF MyNode, Joins
<1> HIDE DEF n
<1>3. /\ ~InQueue(t) /\ ~Ends(t) /\ InQueue(t)' /\ ~Ends(t)' /\ ~event[t]
      /\ pc'[t] = IF lock = None THEN l ELSE "link"
  BY DEF InQueue, Ends, Joins, Queue, Waits, Works, Frees
<1>4. \A u \in Threads : u # t =>
        /\ pc'[u] = pc[u] /\ held'[u] = held[u] /\ pred'[u] = pred[u] /\ calls'[u] = calls[u]
        /\ (InQueue(u)' <=> InQueue(u)) /\ (Ends(u)' <=> Ends(u))
  BY DEF InQueue, Ends, Joins
<1>5. /\ \A m \in Node : m # n => next'[m] = next[m] /\ nextFlag'[m] = nextFlag[m]
                                   /\ readyFlag'[m] = readyFlag[m]
      /\ next'[n] = None /\ nextFlag'[n] = Clear /\ readyFlag'[n] = Clear
      /\ event' = event /\ lock' = n /\ held'[t] = n
  BY <1>1 DEF Joins, Fresh, n
<1>6. \A i \in lo .. hi - 1 :
        /\ i \in Nat /\ w2[i] = who[i] /\ who[i] # t
        /\ At(w2[i])' = At(who[i]) /\ At(who[i]) # n /\ At(who[i]) \in Node
  <2> SUFFICES ASSUME NEW i \in lo .. hi - 1
               PROVE  /\ i \in Nat /\ w2[i] = who[i] /\ who[i] # t
                      /\ At(w2[i])' = At(who[i]) /\ At(who[i]) # n /\ At(who[i]) \in Node
    OBVIOUS
  <2>1. i \in Nat /\ w2[i] = who[i] /\ who[i] \in Threads \cup {None}
    OBVIOUS
  <2>2. who[i] # t
    BY <1>3, <2>1, MyNodes DEF Queue, Places
  <2> QED
    BY <1>1, <1>2, <2>1, <2>2, MyNodes DEF At
<1>7. w2[hi] = t /\ p2[t] = hi /\ (\A u \in Threads : u # t => p2[u] = pl[u])
      /\ At(t)' = n /\ lo <= hi /\ lo # hi + 1 /\ (hi + 1) - 1 = hi
      /\ (lock = None <=> lo = hi)
  <2>1. At(t)' = n
    BY <1>2, MyNodes DEF At
  <2>2. lo # hi => hi - 1 \in lo .. hi - 1
    BY DEF Queue, Places
  <2>3. lock = None <=> lo = hi
    <3>1. Places(who, pl, lo, hi)
      BY DEF Queue
    <3>2. lo # hi => At(who[hi - 1]) # None
      <4>1. \A i \in lo .. hi - 1 : At(who[i]) # None
        BY ONLY NodesOutlive, LockTypes, who \in [Nat -> Threads \cup {None}], pl \in [Threads -> Nat], lo \in Nat, hi \in Nat, <3>1, Distinct
      <4> QED
        BY <2>2, <4>1
    <3> QED
      BY <3>1, <3>2 DEF Places
  <2> QED
    BY <2>1, <2>3 DEF Queue, Places
<1>8. Places(w2, p2, lo, hi + 1)'
  <2>1. (lock = IF lo = hi + 1 THEN None ELSE At(w2[(hi + 1) - 1]))'
    BY <1>5, <1>7
  <2>2. ASSUME NEW i \in lo .. (hi + 1) - 1
        PROVE  IF w2[i] = None THEN i = lo ELSE (InQueue(w2[i]) /\ p2[w2[i]] = i)'
    <3>1. CASE i = hi
      BY <1>3, <1>7, <3>1, MyNodes
    <3>2. CASE i # hi
      <4>1. i \in lo .. hi - 1
        BY <3>2
      <4>2. w2[i] = who[i] /\ who[i] # t /\ who[i] \in Threads \cup {None}
        BY <1>6, <4>1
      <4> QED
        BY <1>4, <1>7, <4>1, <4>2 DEF Queue, Places
    <3> QED
      BY <3>1, <3>2
  <2>3. ASSUME NEW u \in Threads, InQueue(u)'
        PROVE  /\ held'[u] = MyNode(u)'
               /\ lo <= p2[u] /\ p2[u] < hi + 1 /\ w2[p2[u]] = u
               /\ pc'[u] \notin Waits => p2[u] = lo
    <3>1. CASE u = t
      BY <1>2, <1>3, <1>5, <1>7, <3>1 DEF Waits
    <3>2. CASE u # t
      BY <1>2, <1>4, <1>7, <2>3, <3>2 DEF Queue, Places
    <3> QED
      BY <3>1, <3>2
  <2>4. ASSUME NEW u \in Threads, Ends(u)'
        PROVE  held'[u] = Proxy /\ lo < hi + 1 /\ w2[lo] = None
    BY <1>3, <1>4, <1>6, <1>7, <2>4 DEF Queue, Places
  <2> QED
    BY <1>7, <2>1, <2>2, <2>3, <2>4 DEF Places
<1>9. ASSUME NEW p \in Node, p # n, Unheard(p) PROVE Unheard(p)'
  <2>1. CASE nextFlag[p] = Clear
    BY <1>5, <1>9, <2>1 DEF Unheard
  <2>2. ASSUME NEW w \in Threads, pc[w] = "sleep_linked", held[w] = p, nextFlag[p] = w, ~event[w]
        PROVE  Unheard(p)'
    BY <1>4, <1>5, <1>9, <2>2 DEF Unheard
  <2> QED
    BY <1>9, <2>1, <2>2 DEF Unheard
<1>10. ASSUME NEW u \in Threads, u # t, pl[u] < hi, Late(who, pl, lo, u)
       PROVE  Late(w2, p2, lo, u)'
  <2>1. pred'[u] \in Node /\ nextFlag'[pred'[u]] = Clear
    BY <1>4, <1>5, <1>10 DEF Late
  <2>2. p2[u] = lo \/ (p2[u] = lo + 1 /\ w2[lo] = None)
    BY <1>6, <1>7, <1>10 DEF Late
  <2>3. ASSUME NEW p \in Threads,
               IF InQueue(p)
               THEN pl[u] < pl[p] /\ calls[p] > 0 /\ pred[u] = StackNode(p, calls[p] - 1)
               ELSE pred[u] = MyNode(p)
        PROVE  IF InQueue(p)'
               THEN p2[u] < p2[p] /\ calls'[p] > 0 /\ pred'[u] = StackNode(p, calls'[p] - 1)
               ELSE pred'[u] = MyNode(p)'
    <3>1. CASE p # t
      BY <1>2, <1>4, <1>7, <1>10, <2>3, <3>1
    <3>2. CASE p = t
      <4>1. calls'[t] = calls[t] + 1 /\ calls[t] \in Nat
        BY DEF Joins
      <4>2. calls'[t] > 0 /\ calls'[t] - 1 = calls[t]
        BY <4>1
      <4> QED
        BY <1>3, <1>4, <1>7, <1>10, <2>3, <3>2, <4>2 DEF MyNode
    <3> QED
      BY <3>1, <3>2
  <2>4. CASE pred[u] = Proxy /\ pl[u] = lo
    BY <1>4, <1>7, <1>10, <2>1, <2>2, <2>4 DEF Late
  <2>5. CASE ~(pred[u] = Proxy /\ pl[u] = lo)
    <3>1. PICK p \in Threads :
            IF InQueue(p)
            THEN pl[u] < pl[p] /\ calls[p] > 0 /\ pred[u] = StackNode(p, calls[p] - 1)
            ELSE pred[u] = MyNode(p)
      BY <1>10, <2>5 DEF Late
    <3>2. IF InQueue(p)'
          THEN p2[u] < p2[p] /\ calls'[p] > 0 /\ pred'[u] = StackNode(p, calls'[p] - 1)
          ELSE pred'[u] = MyNode(p)'
      BY <2>3, <3>1
    <3> QED
      BY <2>1, <2>2, <3>2 DEF Late, StackNode
  <2> QED
    BY <2>4, <2>5
<1>11. ASSUME NEW u \in Threads, pc'[u] \in Waits
       PROVE  (IF p2[u] = lo THEN First(w2, p2, lo, u)
               ELSE Behind(w2, p2, lo, u, Prev(w2, p2, u)))'
  <2>1. CASE u = t
    <3>1. pc'[t] = "link" /\ lo # hi /\ p2[t] = hi /\ pred'[t] = lock
      BY <1>3, <1>7, <1>11, <2>1 DEF Waits, Joins
    <3>2. hi - 1 \in lo .. hi - 1 /\ lock = At(who[hi - 1])
      <4>1. hi - 1 \in lo .. hi - 1
        BY <1>7, <3>1
      <4>2. lock = At(who[hi - 1])
        BY <3>1 DEF Queue, Places
      <4> QED
        BY <4>1, <4>2
    <3>5. PICK p \in Node : p = lock
      BY <1>6, <3>2
    <3>3. next[p] = None /\ nextFlag[p] = Clear /\ At(w2[hi - 1])' = p /\ p # n
      BY <1>6, <1>7, <3>1, <3>2, <3>5 DEF Queue
    <3>4. Unheard(p)'
      BY <1>5, <3>3 DEF Unheard
    <3>6. Behind(w2, p2, lo, t, p)'
      <4>1. pc'[t] = "link" /\ pred'[t] = p /\ next'[p] = None /\ Unheard(p)'
        BY <1>5, <3>1, <3>3, <3>4, <3>5
      <4>2. readyFlag'[MyNode(t)'] = Clear /\ ~event'[t]
        BY <1>2, <1>3, <1>5
      <4> QED
        BY <4>1, <4>2 DEF Behind
    <3>7. p2[t] # lo /\ Prev(w2, p2, t)' = p
      BY <1>7, <3>1, <3>3, <3>5 DEF Prev
    <3> QED
      BY <2>1, <3>6, <3>7
  <2>2. CASE u # t
    <3>1. pc[u] = pc'[u] /\ InQueue(u)
      BY <1>4, <1>11, <2>2 DEF InQueue
    <3>2. lo <= pl[u] /\ pl[u] < hi /\ p2[u] = pl[u]
      BY <1>7, <2>2, <3>1 DEF Queue, Places
    <3>3. MyNode(u)' = MyNode(u) /\ MyNode(u) # n /\ MyNode(u) \in Node
      BY <1>1, <1>2, <2>2, MyNodes
    <3>4. CASE pl[u] = lo
      <4>1. First(who, pl, lo, u)
        BY <1>11, <3>1, <3>4 DEF Queue
      <4>2. pc[u] = "notify" => Late(w2, p2, lo, u)'
        BY <1>10, <2>2, <3>2, <4>1 DEF First
      <4>3. First(w2, p2, lo, u)'
        BY <1>4, <1>5, <2>2, <3>1, <3>3, <4>1, <4>2 DEF First
      <4> QED
        BY <3>2, <3>4, <4>3
    <3>5. CASE pl[u] # lo
      <4>1. pl[u] - 1 \in lo .. hi - 1
        <5>1. pl[u] \in Nat
          OBVIOUS
        <5>3. lo <= pl[u]
          BY <3>2
        <5>4. lo # pl[u]
          BY <3>5
        <5>2. lo < pl[u]
          BY ONLY <5>1, <5>3, <5>4, lo \in Nat
        <5> QED
          BY <3>2, <5>1, <5>2, PlaceBefore
      <4>2. PICK p \in Node : p = Prev(who, pl, u)
        BY <1>6, <4>1 DEF Prev
      <4>3. Prev(w2, p2, u)' = p /\ p # n
        BY <1>6, <3>2, <4>1, <4>2 DEF Prev
      <4>4. Behind(who, pl, lo, u, p)
        BY <1>11, <3>1, <3>5, <4>2 DEF Queue
      <4>5. Behind(w2, p2, lo, u, p)'
        BY <1>4, <1>5, <1>9, <1>10, <2>2, <3>1, <3>2, <3>3, <4>3, <4>4, ZenonT(60) DEF Behind
      <4> QED
        BY <3>2, <3>5, <4>3, <4>5
    <3> QED
      BY <3>4, <3>5
  <2> QED
    BY <2>1, <2>2
<1>12. ASSUME NEW u \in Threads PROVE Handing(lo, hi + 1, u)'
  <2>1. CASE u = t
    BY <1>3, <2>1 DEF Handing
  <2>2. ASSUME u # t, pc[u] \in Frees
        PROVE  held[u] \in Node /\ held[u] # n
    BY <1>1, <2>2, MyNodes DEF Queue, Places, InQueue, Ends
  <2>3. CASE u # t
    BY <1>4, <1>5, <2>2, <2>3 DEF Queue, Handing, Frees
  <2> QED
    BY <2>1, <2>3
<1>13. \A u \in Threads : pc'[u] = "adopt" => lo + 1 < hi + 1
  BY <1>3, <1>4 DEF Queue
<1>14. \A u \in Threads : event'[u] => pc'[u] \in {"sleep_ready", "sleep_linked"}
  BY <1>3, <1>4, <1>5 DEF Queue
<1>15. (next[At(w2[(hi + 1) - 1])] = None /\ nextFlag[At(w2[(hi + 1) - 1])] = Clear)'
  BY <1>5, <1>7
<1> QED
  BY <1>8, <1>11, <1>12, <1>13, <1>14, <1>15 DEF Queue

-----------------------------------------------------------------------------
(* The steps of a thread that waits                                        *)

LEMMA LinkStep ==
  ASSUME NodesOutlive, LockTypes,
         NEW who \in [Nat -> Threads \cup {None}], NEW pl \in [Threads -> Nat],
         NEW lo \in Nat, NEW hi \in Nat, Queue(who, pl, lo, hi),
         NEW t \in Threads, Link(t), UNCHANGED call
  PROVE  Queue(who, pl, lo, hi)'
<1> DEFINE p == Prev(who, pl, t)
<1>1. /\ pc[t] = "link" /\ next' = [next EXCEPT ![pred[t]] = held[t]]
      /\ pc' = [pc EXCEPT ![t] = "notify"]
      /\ UNCHANGED <<lock, nextFlag, readyFlag, event, pred, held, callVars>>
  BY DEF Link, Goto
<1>2. pc[t] \in Waits /\ InQueue(t) /\ Places(who, pl, lo, hi)
  BY <1>1 DEF Waits, InQueue, Queue
<1>3. pl[t] # lo /\ Behind(who, pl, lo, t, p)
  BY <1>1, <1>2 DEF Queue, First
<1>4. pred[t] = p /\ next[p] = None /\ Unheard(p)
  BY <1>1, <1>3 DEF Behind
<1>5. /\ p \in Node /\ p # At(who[hi - 1])
      /\ \A u \in Threads : InQueue(u) /\ u # t /\ pl[u] # lo => Prev(who, pl, u) # p
  BY <1>2, <1>3, Neighbours
<1>6. held[t] = MyNode(t) /\ MyNode(t) # None
  BY <1>2, MyNodes DEF Places
<1>7. next'[p] = MyNode(t) /\ \A m \in Node : m # p => next'[m] = next[m]
  BY <1>1, <1>4, <1>5, <1>6 DEF LockTypes
<1>8. /\ \A u \in Threads : u # t => pc'[u] = pc[u]
      /\ pc'[t] = "notify"
  BY <1>1 DEF LockTypes
<1>9. \A u \in Threads : (InQueue(u)' <=> InQueue(u)) /\ (Ends(u)' <=> Ends(u))
  BY <1>1, <1>8 DEF InQueue, Ends, Waits, Frees
<1>10. /\ \A u \in Threads : MyNode(u)' = MyNode(u) /\ Prev(who, pl, u)' = Prev(who, pl, u)
       /\ \A w : At(w)' = At(w)
  BY <1>1, QuietNodes DEF callVars
<1>11. Places(who, pl, lo, hi)'
  <2>1. \A u \in Threads : InQueue(u) /\ pc'[u] \notin Waits => pc[u] \notin Waits \/ pl[u] = lo
    BY <1>8 DEF Waits
  <2> QED
    BY <1>1, <1>2, <1>9, <2>1, SamePlaces DEF callVars
<1>12. \A m : Unheard(m) => Unheard(m)'
  BY <1>1, <1>8 DEF Unheard
<1>13. ASSUME NEW u \in Threads, Late(who, pl, lo, u) PROVE Late(who, pl, lo, u)'
  <2>1. nextFlag'[pred[u]] = Clear /\ pred'[u] = pred[u]
    BY <1>1, <1>13 DEF Late
  <2> QED
    BY <1>1, <1>9, <1>13, <2>1, SameLate DEF callVars
<1>14. ASSUME NEW u \in Threads, pc'[u] \in Waits
       PROVE  (IF pl[u] = lo THEN First(who, pl, lo, u) ELSE Behind(who, pl, lo, u, Prev(who, pl, u)))'
  <2>1. CASE u = t
    <3>1. Behind(who, pl, lo, t, p)'
      BY <1>1, <1>3, <1>4, <1>7, <1>8, <1>10, <1>12 DEF Behind
    <3> QED
      BY <1>3, <2>1, <3>1
  <2>2. CASE u # t
    <3>1. pc[u] \in Waits /\ InQueue(u) /\ pc'[u] = pc[u]
      BY <1>8, <1>14, <2>2 DEF InQueue
    <3>2. CASE pl[u] = lo
      <4>1. First(who, pl, lo, u)
        BY <3>1, <3>2 DEF Queue
      <4>2. First(who, pl, lo, u)'
        BY <1>1, <1>10, <1>13, <3>1, <4>1 DEF First
      <4> QED
        BY <3>2, <4>2
    <3>3. CASE pl[u] # lo
      <4>1. PICK m \in Node : m = Prev(who, pl, u)
        BY <1>2, <3>1, <3>3, Neighbours
      <4>2. m # p /\ Behind(who, pl, lo, u, m)
        BY <1>5, <2>2, <3>1, <3>3, <4>1 DEF Queue
      <4>3. Behind(who, pl, lo, u, m)'
        BY <1>1, <1>7, <1>10, <1>12, <1>13, <3>1, <4>2 DEF Behind
      <4> QED
        BY <1>10, <3>3, <4>1, <4>3
    <3> QED
      BY <3>2, <3>3
  <2> QED
    BY <2>1, <2>2
<1>15. \A u \in Threads : Handing(lo, hi, u)'
  <2> SUFFICES ASSUME NEW u \in Threads PROVE Handing(lo, hi, u)'
    OBVIOUS
  <2>1. CASE u = t
    BY <1>8, <2>1 DEF Handing
  <2>2. CASE u # t
    <3>1. Handing(lo, hi, u) /\ pc'[u] = pc[u]
      BY <1>8, <2>2 DEF Queue
    <3>2. pc[u] \in Frees => held[u] \in Node
      BY MyNodes DEF Queue, Places, InQueue, Ends
    <3>3. held[u] \in Node /\ next[held[u]] # None => next'[held[u]] # None
      BY <1>6, <1>7
    <3> QED
      BY <1>1, <3>1, <3>2, <3>3 DEF Handing, Frees
  <2> QED
    BY <2>1, <2>2
<1>16. \A u \in Threads : pc'[u] = "adopt" => lo + 1 < hi
  BY <1>8 DEF Queue
<1>17. \A u \in Threads : event'[u] => pc'[u] \in {"sleep_ready", "sleep_linked"}
  BY <1>1, <1>8 DEF Queue
<1>18. (lo < hi => next[At(who[hi - 1])] = None /\ nextFlag[At(who[hi - 1])] = Clear)'
  <2>1. lo < hi => At(who[hi - 1]) \in Node
    <3>1. lo < hi => hi - 1 \in lo .. hi - 1
      OBVIOUS
    <3> QED
      BY <1>2, <3>1, Distinct
  <2> QED
    BY <1>1, <1>5, <1>7, <1>10, <2>1 DEF Queue
<1> QED
  BY <1>11, <1>14, <1>15, <1>16, <1>17, <1>18 DEF Queue


\* A node that is told late is in the queue no more, and only one is.
LEMMA LateElsewhere ==
  ASSUME NodesOutlive, LockTypes,
         NEW who \in [Nat -> Threads \cup {None}], NEW pl \in [Threads -> Nat],
         NEW lo \in Nat, NEW hi \in Nat, Places(who, pl, lo, hi),
         NEW t \in Threads, InQueue(t), Late(who, pl, lo, t)
  PROVE  /\ \A i \in lo .. hi - 1 : At(who[i]) # pred[t]
         /\ \A u \in Threads : InQueue(u) /\ Late(who, pl, lo, u) => u = t
<1>1. \A u \in Threads : InQueue(u) => lo <= pl[u] /\ pl[u] < hi /\ who[pl[u]] = u /\ pl[u] \in Nat
  BY DEF Places
<1>2. None \notin Threads /\ Proxy # None
  BY MyNodes
<1>3. ASSUME NEW i \in lo .. hi - 1, At(who[i]) = pred[t] PROVE FALSE
  <2>1. who[i] \in Threads \cup {None} /\ (who[i] = None => i = lo)
    BY DEF Places
  <2>2. who[i] # None => InQueue(who[i]) /\ pl[who[i]] = i
    BY DEF Places
  <2>3. CASE pred[t] = Proxy /\ pl[t] = lo
    <3>1. who[i] = None
      BY <1>3, <2>1, <2>3, MyNodes DEF At
    <3> QED
      BY <1>1, <1>2, <2>1, <2>3, <3>1
  <2>4. ASSUME NEW p \in Threads,
               IF InQueue(p)
               THEN pl[t] < pl[p] /\ calls[p] > 0 /\ pred[t] = StackNode(p, calls[p] - 1)
               ELSE pred[t] = MyNode(p)
        PROVE  FALSE
    <3>1. CASE ~InQueue(p)
      <4>1. pred[t] = MyNode(p)
        BY <2>4, <3>1
      <4>2. who[i] # None
        BY <1>3, <4>1, MyNodes DEF At
      <4>3. who[i] = p
        BY <1>3, <2>1, <4>1, <4>2, MyNodes DEF At
      <4> QED
        BY <2>2, <3>1, <4>2, <4>3
    <3>2. CASE InQueue(p)
      <4>1. PICK k \in Nat : k = calls[p] - 1 /\ k + 1 = calls[p]
        <5>1. calls[p] \in Nat /\ calls[p] > 0
          BY <2>4, <3>2 DEF LockTypes
        <5>2. calls[p] - 1 \in Nat /\ (calls[p] - 1) + 1 = calls[p]
          BY <5>1
        <5> QED
          BY <5>2
      <4>2. pred[t] = StackNode(p, k) /\ MyNode(p) = StackNode(p, k + 1)
        BY <2>4, <3>2, <4>1 DEF MyNode
      <4>3. StackNode(p, k) # Proxy /\ StackNode(p, k) # StackNode(p, k + 1)
        BY <4>1, Nodes
      <4>4. who[i] # None
        BY <1>3, <4>2, <4>3 DEF At
      <4>5. PICK x \in Threads : x = who[i] /\ MyNode(x) = StackNode(p, k)
        BY <1>3, <2>1, <4>2, <4>4 DEF At
      <4>6. x # p
        BY <4>2, <4>3, <4>5
      <4>7. calls[x] \in Nat
        BY DEF LockTypes
      <4>8. StackNode(x, calls[x]) # StackNode(p, k)
        BY <4>1, <4>6, <4>7, Nodes
      <4> QED
        BY <4>5, <4>8 DEF MyNode
    <3> QED
      BY <3>1, <3>2
  <2> QED
    BY <2>3, <2>4 DEF Late
<1>4. ASSUME NEW u \in Threads, InQueue(u), Late(who, pl, lo, u) PROVE u = t
  <2>1. \A v \in {t, u} : pl[v] = lo \/ (pl[v] = lo + 1 /\ who[lo] = None)
    BY <1>4 DEF Late
  <2>2. pl[u] = pl[t]
    BY <1>1, <1>2, <1>4, <2>1
  <2> QED
    BY <1>1, <1>4, <2>2
<1> QED
  BY <1>3, <1>4

LEMMA NotifyStep ==
  ASSUME NodesOutlive, LockTypes,
         NEW who \in [Nat -> Threads \cup {None}], NEW pl \in [Threads -> Nat],
         NEW lo \in Nat, NEW hi \in Nat, Queue(who, pl, lo, hi),
         NEW t \in Threads, Notify(t), UNCHANGED call
  PROVE  Queue(who, pl, lo, hi)'
<1>1. /\ pc[t] = "notify" /\ pc' = [pc EXCEPT ![t] = "ready"]
      /\ FlagSet(nextFlag, nextFlag', pred[t]) /\ pred' = [pred EXCEPT ![t] = None]
      /\ UNCHANGED <<lock, next, readyFlag, held, calls>>
  BY DEF Notify, Goto, callVars
<1>2. pc[t] \in Waits /\ InQueue(t) /\ Places(who, pl, lo, hi)
  BY <1>1 DEF Waits, InQueue, Queue
<1>3. lo < hi /\ hi - 1 \in lo .. hi - 1
  BY <1>2 DEF Places
<1>4. \A w \in Threads : pc[w] = "sleep_linked" => held[w] \in Node
  BY <1>2, MyNodes DEF Places, InQueue, Ends, Frees
\* The node whose flag is set.
<1>5. PICK q \in Node :
        /\ q = pred[t] /\ q # At(who[hi - 1])
        /\ \A u \in Threads : InQueue(u) /\ u # t => ~(Late(who, pl, lo, u) /\ pred[u] = q)
        /\ \A u \in Threads : InQueue(u) /\ u # t /\ pl[u] # lo => Prev(who, pl, u) # q
        /\ Unheard(q) /\ (nextFlag[q] # Clear => next[q] # None)
  <2>1. CASE Late(who, pl, lo, t)
    <3>1. \A i \in lo .. hi - 1 : At(who[i]) # pred[t]
      BY <1>2, <2>1, LateElsewhere
    <3>2. \A u \in Threads : InQueue(u) /\ Late(who, pl, lo, u) => u = t
      BY <1>2, <2>1, LateElsewhere
    <3>3. pred[t] \in Node /\ nextFlag[pred[t]] = Clear
      BY <2>1 DEF Late
    <3>4. \A u \in Threads : InQueue(u) /\ pl[u] # lo => pl[u] - 1 \in lo .. hi - 1
      BY <1>2, Neighbours
    <3> QED
      BY <1>3, <3>1, <3>2, <3>3, <3>4 DEF Prev, Unheard
  <2>2. CASE ~Late(who, pl, lo, t)
    <3>1. pl[t] # lo
      BY <1>1, <1>2, <2>2 DEF Queue, First
    <3>2. Behind(who, pl, lo, t, Prev(who, pl, t))
      BY <1>1, <1>2, <3>1 DEF Queue
    <3>3. /\ Prev(who, pl, t) \in Node /\ Prev(who, pl, t) # At(who[hi - 1])
          /\ pl[t] - 1 \in lo .. hi - 1
          /\ \A u \in Threads : InQueue(u) /\ u # t /\ pl[u] # lo => Prev(who, pl, u) # Prev(who, pl, t)
      BY <1>2, <3>1, Neighbours
    <3>4. pred[t] = Prev(who, pl, t) /\ Unheard(pred[t]) /\ next[pred[t]] # None
      <4>1. MyNode(t) # None
        BY MyNodes
      <4> QED
        BY <1>1, <2>2, <3>2, <4>1 DEF Behind
    <3>5. \A u \in Threads : InQueue(u) /\ Late(who, pl, lo, u) => pred[u] # pred[t]
      BY <1>2, <3>3, <3>4, LateElsewhere DEF Prev
    <3> QED
      BY <3>3, <3>4, <3>5
  <2> QED
    BY <2>1, <2>2
<1>6. /\ \A m \in Node : m # q => nextFlag'[m] = nextFlag[m]
      /\ nextFlag[q] # Clear => nextFlag' = nextFlag
      /\ nextFlag[q] \in Threads \cup {Clear}
      /\ nextFlag[q] = Clear => event' = event
      /\ nextFlag[q] \in Threads => event' = [event EXCEPT ![nextFlag[q]] = TRUE]
  <2>1. nextFlag[q] \in Threads \cup {Clear}
    BY <1>5 DEF Unheard
  <2>2. Clear \notin Threads
    BY MyNodes
  <2> QED
    BY <1>1, <1>5, <2>1, <2>2 DEF FlagSet, LockTypes
<1>7. \A w \in Threads : event'[w] # event[w] =>
        /\ pc[w] = "sleep_linked" /\ held[w] = q /\ nextFlag[q] = w /\ event'[w]
        /\ next[q] # None
  <2> SUFFICES ASSUME NEW w \in Threads, event'[w] # event[w]
               PROVE  /\ pc[w] = "sleep_linked" /\ held[w] = q /\ nextFlag[q] = w /\ event'[w]
                      /\ next[q] # None
    OBVIOUS
  <2>1. nextFlag[q] # Clear /\ nextFlag[q] \in Threads
    BY <1>6
  <2>2. nextFlag[q] = w /\ event'[w]
    BY <1>6, <2>1 DEF LockTypes
  <2> QED
    BY <1>5, <2>1, <2>2 DEF Unheard
<1>8. /\ \A u \in Threads : u # t => pc'[u] = pc[u] /\ pred'[u] = pred[u]
      /\ pc'[t] = "ready" /\ event'[t] = event[t]
  <2>1. event'[t] = event[t]
    BY <1>1, <1>7
  <2> QED
    BY <1>1, <2>1 DEF LockTypes
<1>9. \A u \in Threads : (InQueue(u)' <=> InQueue(u)) /\ (Ends(u)' <=> Ends(u))
  BY <1>1, <1>8 DEF InQueue, Ends, Waits, Frees
<1>10. /\ \A u \in Threads : MyNode(u)' = MyNode(u) /\ Prev(who, pl, u)' = Prev(who, pl, u)
       /\ \A w : At(w)' = At(w)
  BY <1>1, QuietNodes
<1>11. Places(who, pl, lo, hi)'
  <2>1. \A u \in Threads : InQueue(u) /\ pc'[u] \notin Waits => pc[u] \notin Waits \/ pl[u] = lo
    BY <1>8 DEF Waits
  <2> QED
    BY <1>1, <1>2, <1>9, <2>1, SamePlaces
<1>12. ASSUME NEW m \in Node, m # q, Unheard(m) PROVE Unheard(m)'
  <2>1. CASE nextFlag[m] = Clear
    BY <1>6, <1>12, <2>1 DEF Unheard
  <2>2. ASSUME NEW w \in Threads, pc[w] = "sleep_linked", held[w] = m, nextFlag[m] = w, ~event[w]
        PROVE  Unheard(m)'
    <3>1. w # t /\ event'[w] = event[w]
      BY <1>1, <1>7, <1>12, <2>2
    <3> QED
      BY <1>1, <1>6, <1>8, <1>12, <2>2, <3>1 DEF Unheard
  <2> QED
    BY <1>12, <2>1, <2>2 DEF Unheard
<1>13. ASSUME NEW u \in Threads, u # t, InQueue(u), Late(who, pl, lo, u)
       PROVE  Late(who, pl, lo, u)'
  <2>1. pred[u] # q /\ pred[u] \in Node /\ nextFlag[pred[u]] = Clear
    BY <1>5, <1>13 DEF Late
  <2>2. nextFlag'[pred[u]] = Clear /\ pred'[u] = pred[u]
    BY <1>6, <1>8, <1>13, <2>1
  <2> QED
    BY <1>1, <1>9, <1>13, <2>2, SameLate
<1>14. ASSUME NEW u \in Threads, pc'[u] \in Waits
       PROVE  (IF pl[u] = lo THEN First(who, pl, lo, u) ELSE Behind(who, pl, lo, u, Prev(who, pl, u)))'
  <2>1. CASE u = t
    <3>1. CASE pl[t] = lo
      <4>1. First(who, pl, lo, t)
        BY <1>2, <3>1 DEF Queue
      <4>2. First(who, pl, lo, t)'
        BY <1>1, <1>8, <1>10, <4>1 DEF First
      <4> QED
        BY <2>1, <3>1, <4>2
    <3>2. CASE pl[t] # lo
      <4>1. PICK m \in Node : m = Prev(who, pl, t)
        BY <1>2, <3>2, Neighbours
      <4>2. Behind(who, pl, lo, t, m)
        BY <1>2, <3>2, <4>1 DEF Queue
      <4>3. Behind(who, pl, lo, t, m)'
        BY <1>1, <1>8, <1>10, <4>2 DEF Behind
      <4> QED
        BY <1>10, <2>1, <3>2, <4>1, <4>3
    <3> QED
      BY <3>1, <3>2
  <2>2. CASE u # t
    <3>1. pc[u] \in Waits /\ InQueue(u) /\ pc'[u] = pc[u] /\ event'[u] = event[u]
      <4>1. pc[u] \in Waits /\ pc'[u] = pc[u]
        BY <1>8, <1>14, <2>2
      <4> QED
        BY <1>7, <4>1 DEF InQueue, Waits
    <3>2. CASE pl[u] = lo
      <4>1. First(who, pl, lo, u)
        BY <3>1, <3>2 DEF Queue
      <4>2. First(who, pl, lo, u)'
        BY <1>1, <1>10, <1>13, <2>2, <3>1, <4>1 DEF First
      <4> QED
        BY <3>2, <4>2
    <3>3. CASE pl[u] # lo
      <4>1. PICK m \in Node : m = Prev(who, pl, u)
        BY <1>2, <3>1, <3>3, Neighbours
      <4>2. m # q /\ Behind(who, pl, lo, u, m)
        BY <1>5, <2>2, <3>1, <3>3, <4>1 DEF Queue
      <4>3. Behind(who, pl, lo, u, m)'
        BY <1>1, <1>8, <1>10, <1>12, <1>13, <2>2, <3>1, <4>2 DEF Behind
      <4> QED
        BY <1>10, <3>3, <4>1, <4>3
    <3> QED
      BY <3>2, <3>3
  <2> QED
    BY <2>1, <2>2
<1>15. \A u \in Threads : Handing(lo, hi, u)'
  <2> SUFFICES ASSUME NEW u \in Threads PROVE Handing(lo, hi, u)'
    OBVIOUS
  <2>1. CASE u = t
    BY <1>8, <2>1 DEF Handing
  <2>2. CASE u # t
    <3>1. Handing(lo, hi, u) /\ pc'[u] = pc[u]
      BY <1>8, <2>2 DEF Queue
    <3>2. pc[u] = "sleep_linked" => nextFlag'[held[u]] = u
      <4>1. ASSUME pc[u] = "sleep_linked" PROVE nextFlag[held[u]] = u /\ held[u] \in Node /\ u # Clear
        BY <1>4, <3>1, <4>1, MyNodes DEF Handing
      <4> QED
        BY <1>6, <4>1
    <3>3. pc[u] = "sleep_linked" => (event'[u] => next[held[u]] # None)
      BY <1>7, <3>1 DEF Handing
    <3> QED
      BY <1>1, <3>1, <3>2, <3>3 DEF Handing
  <2> QED
    BY <2>1, <2>2
<1>16. \A u \in Threads : pc'[u] = "adopt" => lo + 1 < hi
  BY <1>8 DEF Queue
<1>17. \A u \in Threads : event'[u] => pc'[u] \in {"sleep_ready", "sleep_linked"}
  BY <1>1, <1>7, <1>8 DEF Queue
<1>18. (lo < hi => next[At(who[hi - 1])] = None /\ nextFlag[At(who[hi - 1])] = Clear)'
  <2>1. At(who[hi - 1]) \in Node
    BY <1>2, <1>3, Distinct
  <2> QED
    BY <1>1, <1>3, <1>5, <1>6, <1>10, <2>1 DEF Queue
<1> QED
  BY <1>11, <1>14, <1>15, <1>16, <1>17, <1>18 DEF Queue

-----------------------------------------------------------------------------
(* Steps of a thread that stays where it is in the queue                   *)

\* What a thread may do to flags, and must know when it is in the queue or frees
\* the lock.
Stays(who, pl, lo, hi, t, l) ==
  /\ pc' = [pc EXCEPT ![t] = l] /\ l # "adopt"
  /\ (InQueue(t)' <=> InQueue(t)) /\ (Ends(t)' => Ends(t))
  /\ InQueue(t) /\ l \notin Waits => pc[t] \notin Waits \/ pl[t] = lo
  /\ UNCHANGED <<lock, next, pred, held, calls, call>>
  /\ \A m \in Node : m # MyNode(t) => readyFlag'[m] = readyFlag[m]
  /\ \A m \in Node : nextFlag'[m] # nextFlag[m] =>
       /\ m = held[t] /\ nextFlag[m] = Clear /\ nextFlag'[m] = t
       /\ l = "sleep_linked" /\ lo + 1 < hi /\ m = At(who[lo])
  /\ \A u \in Threads : u # t => event'[u] = event[u]
  /\ event'[t] => event[t] /\ l \in {"sleep_ready", "sleep_linked"}
  /\ l \in {"sleep_ready", "sleep_linked"} => ~event'[t]
  /\ pc[t] = "sleep_linked" => event[t]

LEMMA StaysInQueue ==
  ASSUME NodesOutlive, LockTypes,
         NEW who \in [Nat -> Threads \cup {None}], NEW pl \in [Threads -> Nat],
         NEW lo \in Nat, NEW hi \in Nat, Queue(who, pl, lo, hi),
         NEW t \in Threads, NEW l, Stays(who, pl, lo, hi, t, l),
         l \in Waits =>
           (IF pl[t] = lo THEN First(who, pl, lo, t) ELSE Behind(who, pl, lo, t, Prev(who, pl, t)))',
         Handing(lo, hi, t)'
  PROVE  Queue(who, pl, lo, hi)'
<1>1. /\ \A u \in Threads : u # t => pc'[u] = pc[u] /\ event'[u] = event[u]
      /\ pc'[t] = l /\ UNCHANGED <<lock, next, pred, held, calls, call>>
  BY DEF LockTypes, Stays
<1>2. Places(who, pl, lo, hi)
  BY DEF Queue
<1>3. \A u \in Threads : (InQueue(u)' <=> InQueue(u)) /\ (Ends(u)' => Ends(u))
  BY <1>1 DEF InQueue, Ends, Stays
<1>4. /\ \A u \in Threads : MyNode(u)' = MyNode(u) /\ Prev(who, pl, u)' = Prev(who, pl, u)
      /\ \A w : At(w)' = At(w)
  BY <1>1, QuietNodes
<1>5. Places(who, pl, lo, hi)'
  <2>1. \A u \in Threads : InQueue(u) /\ pc'[u] \notin Waits => pc[u] \notin Waits \/ pl[u] = lo
    BY <1>1 DEF Stays
  <2> QED
    BY <1>1, <1>2, <1>3, <2>1, SamePlaces
<1>6. ASSUME NEW m \in Node, Unheard(m) PROVE Unheard(m)'
  <2>1. CASE nextFlag[m] = Clear /\ nextFlag'[m] = Clear
    BY <2>1 DEF Unheard
  <2>2. CASE nextFlag[m] = Clear /\ nextFlag'[m] # Clear
    BY <1>1, <2>2 DEF Unheard, Stays
  <2>3. ASSUME NEW w \in Threads, pc[w] = "sleep_linked", held[w] = m, nextFlag[m] = w, ~event[w]
        PROVE  Unheard(m)'
    <3>1. w # t /\ w # Clear
      BY <2>3, MyNodes DEF Stays
    <3>2. nextFlag'[m] = w
      BY <2>3, <3>1 DEF Stays
    <3> QED
      BY <1>1, <2>3, <3>1, <3>2 DEF Unheard
  <2> QED
    BY <1>6, <2>1, <2>2, <2>3 DEF Unheard
<1>7. ASSUME NEW u \in Threads, InQueue(u), Late(who, pl, lo, u)
      PROVE  Late(who, pl, lo, u)'
  <2>1. pred[u] \in Node /\ nextFlag[pred[u]] = Clear /\ lo < hi
    BY <1>2, <1>7 DEF Late, Places
  <2>2. pred[u] # At(who[lo])
    BY <1>2, <1>7, <2>1, LateElsewhere
  <2>3. nextFlag'[pred[u]] = Clear /\ pred'[u] = pred[u]
    BY <1>1, <2>1, <2>2 DEF Stays
  <2> QED
    BY <1>1, <1>3, <1>7, <2>3, SameLate
<1>8. ASSUME NEW u \in Threads, pc'[u] \in Waits
      PROVE  (IF pl[u] = lo THEN First(who, pl, lo, u) ELSE Behind(who, pl, lo, u, Prev(who, pl, u)))'
  <2>1. CASE u = t
    BY <1>1, <1>8, <2>1
  <2>2. CASE u # t
    <3>1. pc[u] \in Waits /\ InQueue(u) /\ pc'[u] = pc[u] /\ event'[u] = event[u]
      BY <1>1, <1>8, <2>2 DEF InQueue
    <3>2. readyFlag'[MyNode(u)] = readyFlag[MyNode(u)]
      BY <2>2, MyNodes DEF Stays
    <3>3. CASE pl[u] = lo
      <4>1. First(who, pl, lo, u)
        BY <3>1, <3>3 DEF Queue
      <4>2. First(who, pl, lo, u)'
        BY <1>4, <1>7, <3>1, <3>2, <4>1 DEF First
      <4> QED
        BY <3>3, <4>2
    <3>4. CASE pl[u] # lo
      <4>1. PICK m \in Node : m = Prev(who, pl, u)
        BY <1>2, <3>1, <3>4, Neighbours
      <4>2. Behind(who, pl, lo, u, m)
        BY <3>1, <3>4, <4>1 DEF Queue
      <4>3. Behind(who, pl, lo, u, m)'
        BY <1>1, <1>4, <1>6, <1>7, <3>1, <3>2, <4>2 DEF Behind
      <4> QED
        BY <1>4, <3>4, <4>1, <4>3
    <3> QED
      BY <3>3, <3>4
  <2> QED
    BY <2>1, <2>2
<1>9. \A u \in Threads : Handing(lo, hi, u)'
  <2> SUFFICES ASSUME NEW u \in Threads, u # t PROVE Handing(lo, hi, u)'
    OBVIOUS
  <2>1. Handing(lo, hi, u) /\ pc'[u] = pc[u] /\ event'[u] = event[u]
    BY <1>1 DEF Queue
  <2>2. pc[u] = "sleep_linked" => nextFlag'[held[u]] = u
    <3>1. ASSUME pc[u] = "sleep_linked" PROVE nextFlag[held[u]] = u /\ held[u] \in Node /\ u # Clear
      BY <1>2, <2>1, <3>1, MyNodes DEF Handing, Places, InQueue, Ends, Frees
    <3> QED
      BY <3>1 DEF Stays
  <2> QED
    BY <1>1, <2>1, <2>2 DEF Handing
<1>10. \A u \in Threads : pc'[u] = "adopt" => lo + 1 < hi
  BY <1>1 DEF Queue, Stays
<1>11. \A u \in Threads : event'[u] => pc'[u] \in {"sleep_ready", "sleep_linked"}
  BY <1>1 DEF Queue, Stays
<1>12. (lo < hi => next[At(who[hi - 1])] = None /\ nextFlag[At(who[hi - 1])] = Clear)'
  <2>1. ASSUME lo < hi PROVE next'[At(who[hi - 1])] = None /\ nextFlag'[At(who[hi - 1])] = Clear
    <3>1. hi - 1 \in lo .. hi - 1 /\ lo \in lo .. hi - 1
      BY <2>1
    <3>2. /\ \A i \in lo .. hi - 1 : i \in Nat /\ At(who[i]) \in Node /\ At(who[i]) # None
          /\ \A i, j \in lo .. hi - 1 : At(who[i]) = At(who[j]) => i = j
      BY <1>2, Distinct
    <3>3. nextFlag'[At(who[hi - 1])] = nextFlag[At(who[hi - 1])]
      <4>1. PICK m \in Node : m = At(who[hi - 1])
        BY <3>1, <3>2
      <4>2. ASSUME nextFlag'[m] # nextFlag[m] PROVE FALSE
        <5>1. lo + 1 < hi /\ m = At(who[lo])
          BY <4>2 DEF Stays
        <5>2. hi - 1 = lo
          BY <3>1, <3>2, <4>1, <5>1
        <5> QED
          BY <5>1, <5>2
      <4> QED
        BY <4>1, <4>2
    <3> QED
      BY <1>1, <2>1, <3>3 DEF Queue
  <2> QED
    BY <1>4, <2>1
<1> QED
  BY <1>5, <1>8, <1>9, <1>10, <1>11, <1>12 DEF Queue

\* The thread whose node, or whose round, is first in the queue; there is only one.
Leads(t) == (InQueue(t) /\ pc[t] \notin Waits) \/ Ends(t)
OneEnds == \A t, u \in Threads : Ends(t) /\ Ends(u) => t = u

LEMMA Leader ==
  ASSUME NodesOutlive, LockTypes,
         NEW who \in [Nat -> Threads \cup {None}], NEW pl \in [Threads -> Nat],
         NEW lo \in Nat, NEW hi \in Nat, Places(who, pl, lo, hi),
         NEW t \in Threads, Leads(t)
  PROVE  /\ lo < hi /\ lo \in lo .. hi - 1 /\ held[t] = At(who[lo])
         /\ held[t] \in Node /\ held[t] # None
         /\ who[lo] = IF Ends(t) THEN None ELSE t
         /\ InQueue(t) => pl[t] = lo /\ held[t] = MyNode(t)
<1>1. /\ lo < hi /\ held[t] = At(who[lo])
      /\ who[lo] = IF Ends(t) THEN None ELSE t
      /\ InQueue(t) => pl[t] = lo /\ held[t] = MyNode(t)
  <2>1. CASE Ends(t)
    <3>1. held[t] = Proxy /\ lo < hi /\ who[lo] = None
      BY <2>1 DEF Places
    <3>2. ~InQueue(t)
      BY <2>1 DEF InQueue, Ends, Waits, Works, Frees
    <3> QED
      BY <2>1, <3>1, <3>2 DEF At
  <2>2. CASE ~Ends(t)
    <3>1. InQueue(t) /\ pc[t] \notin Waits
      BY <2>2 DEF Leads
    <3>2. held[t] = MyNode(t) /\ lo <= pl[t] /\ pl[t] < hi /\ who[pl[t]] = t /\ pl[t] = lo
      BY <3>1 DEF Places
    <3> QED
      BY <2>2, <3>2, MyNodes DEF At
  <2> QED
    BY <2>1, <2>2
<1>2. lo \in lo .. hi - 1
  BY <1>1
<1> QED
  BY <1>1, <1>2, Distinct

LEMMA OneLeader ==
  ASSUME NodesOutlive, LockTypes, OneEnds,
         NEW who \in [Nat -> Threads \cup {None}], NEW pl \in [Threads -> Nat],
         NEW lo \in Nat, NEW hi \in Nat, Places(who, pl, lo, hi),
         NEW t \in Threads, Leads(t), NEW u \in Threads, Leads(u)
  PROVE  t = u
<1>1. who[lo] = (IF Ends(t) THEN None ELSE t) /\ who[lo] = (IF Ends(u) THEN None ELSE u)
  BY Leader
<1>2. None \notin Threads
  BY MyNodes
<1> QED
  BY <1>1, <1>2 DEF OneEnds

\* Behind the leader waits a thread, which has linked if the leader knows of it.
LEMMA Successor ==
  ASSUME NodesOutlive, LockTypes, OneEnds,
         NEW who \in [Nat -> Threads \cup {None}], NEW pl \in [Threads -> Nat],
         NEW lo \in Nat, NEW hi \in Nat, Queue(who, pl, lo, hi),
         NEW t \in Threads, Leads(t), lo + 1 < hi
  PROVE  \E s \in Threads :
           /\ who[lo + 1] = s /\ pl[s] = lo + 1 /\ InQueue(s) /\ pc[s] \in Waits /\ s # t
           /\ Prev(who, pl, s) = held[t] /\ Behind(who, pl, lo, s, held[t])
           /\ Unheard(held[t]) /\ pc[t] # "sleep_linked" => nextFlag[held[t]] = Clear
           /\ next[held[t]] # None => pc[s] # "link" /\ next[held[t]] = MyNode(s)
<1>1. Places(who, pl, lo, hi)
  BY DEF Queue
<1>2. lo + 1 \in lo .. hi - 1 /\ lo + 1 \in Nat /\ lo + 1 # lo /\ (lo + 1) - 1 = lo
  OBVIOUS
<1>3. who[lo + 1] # None
  BY <1>1, <1>2 DEF Places
<1>4. PICK s \in Threads : s = who[lo + 1]
  BY <1>2, <1>3
<1>5. InQueue(s) /\ pl[s] = lo + 1
  BY <1>1, <1>2, <1>3, <1>4 DEF Places
<1>6. pc[s] \in Waits
  BY <1>1, <1>2, <1>5 DEF Places
<1>7. held[t] = At(who[lo]) /\ held[t] \in Node /\ (InQueue(t) => pl[t] = lo)
  BY <1>1, Leader
<1>8. Prev(who, pl, s) = held[t]
  BY <1>2, <1>5, <1>7 DEF Prev
<1>9. Behind(who, pl, lo, s, held[t])
  BY <1>2, <1>5, <1>6, <1>8 DEF Queue
<1>10. s # t
  BY <1>2, <1>5, <1>7
<1>11. ASSUME Unheard(held[t]), pc[t] # "sleep_linked" PROVE nextFlag[held[t]] = Clear
  <2>1. ASSUME NEW w \in Threads, pc[w] = "sleep_linked", held[w] = held[t] PROVE FALSE
    <3>1. Leads(w)
      BY <2>1 DEF Leads, InQueue, Ends, Frees, Waits
    <3>2. w = t
      BY <1>1, <3>1, OneLeader
    <3> QED
      BY <1>11, <2>1, <3>2
  <2> QED
    BY <1>11, <2>1 DEF Unheard
<1>12. next[held[t]] # None => pc[s] # "link" /\ next[held[t]] = MyNode(s)
  BY <1>9 DEF Behind
<1> QED
  BY <1>4, <1>5, <1>6, <1>8, <1>9, <1>10, <1>11, <1>12

LEMMA AwaitReadyStep ==
  ASSUME NodesOutlive, LockTypes,
         NEW who \in [Nat -> Threads \cup {None}], NEW pl \in [Threads -> Nat],
         NEW lo \in Nat, NEW hi \in Nat, Queue(who, pl, lo, hi),
         NEW t \in Threads, AwaitReady(t), UNCHANGED call
  PROVE  Queue(who, pl, lo, hi)'
<1>1. /\ pc[t] = "ready" /\ FlagWait(t, readyFlag, readyFlag', held[t], "sleep_ready", "locked")
      /\ UNCHANGED <<lock, next, nextFlag, event, pred, held, calls>>
  BY DEF AwaitReady, callVars
<1>2. pc[t] \in Waits /\ InQueue(t) /\ Places(who, pl, lo, hi)
  BY <1>1 DEF Waits, InQueue, Queue
<1>3. held[t] = MyNode(t) /\ MyNode(t) \in Node
  BY <1>2, MyNodes DEF Places
<1>4. ~event[t]
  BY <1>1 DEF Queue
<1>5. IF pl[t] = lo THEN First(who, pl, lo, t) ELSE Behind(who, pl, lo, t, Prev(who, pl, t))
  BY <1>2 DEF Queue
<1>6. /\ MyNode(t)' = MyNode(t) /\ Prev(who, pl, t)' = Prev(who, pl, t)
  BY <1>1, QuietNodes
<1>7. CASE readyFlag[MyNode(t)] = Clear
  <2>1. readyFlag' = [readyFlag EXCEPT ![MyNode(t)] = t] /\ pc' = [pc EXCEPT ![t] = "sleep_ready"]
    BY <1>1, <1>3, <1>7 DEF FlagWait, Goto
  <2>2. pl[t] # lo
    BY <1>1, <1>5, <1>7, MyNodes DEF First
  <2>3. pc'[t] = "sleep_ready" /\ readyFlag'[MyNode(t)] = t
        /\ \A m \in Node : m # MyNode(t) => readyFlag'[m] = readyFlag[m]
    BY <1>3, <2>1 DEF LockTypes
  <2>4. InQueue(t)' /\ ~Ends(t)'
    BY <2>3 DEF InQueue, Ends, Waits, Frees
  <2>5. Stays(who, pl, lo, hi, t, "sleep_ready")
    BY <1>1, <1>2, <1>4, <2>1, <2>3, <2>4 DEF Stays, Waits
  <2>6. Behind(who, pl, lo, t, Prev(who, pl, t))'
    <3>1. PICK m \in Node : m = Prev(who, pl, t)
      BY <1>2, <2>2, Neighbours
    <3>2. Behind(who, pl, lo, t, m)
      BY <1>5, <2>2, <3>1
    <3>3. Behind(who, pl, lo, t, m)'
      BY <1>1, <1>4, <1>6, <2>3, <3>2 DEF Behind
    <3> QED
      BY <1>6, <3>1, <3>3
  <2>7. Handing(lo, hi, t)'
    BY <2>3 DEF Handing
  <2> QED
    BY <2>2, <2>5, <2>6, <2>7, StaysInQueue
<1>8. CASE readyFlag[MyNode(t)] # Clear
  <2>1. readyFlag' = readyFlag /\ pc' = [pc EXCEPT ![t] = "locked"]
    BY <1>1, <1>3, <1>8 DEF FlagWait, Goto
  <2>2. pl[t] = lo
    BY <1>1, <1>5, <1>8 DEF Behind
  <2>3. pc'[t] = "locked"
    BY <2>1 DEF LockTypes
  <2>4. InQueue(t)' /\ ~Ends(t)'
    BY <2>3 DEF InQueue, Ends, Works, Waits, Frees
  <2>5. Stays(who, pl, lo, hi, t, "locked")
    BY <1>1, <1>2, <1>4, <2>1, <2>2, <2>4 DEF Stays
  <2>6. Handing(lo, hi, t)'
    BY <2>3 DEF Handing
  <2> QED
    BY <2>5, <2>6, StaysInQueue DEF Waits
<1> QED
  BY <1>7, <1>8

LEMMA WakeReadyStep ==
  ASSUME NodesOutlive, LockTypes,
         NEW who \in [Nat -> Threads \cup {None}], NEW pl \in [Threads -> Nat],
         NEW lo \in Nat, NEW hi \in Nat, Queue(who, pl, lo, hi),
         NEW t \in Threads, WakeUp(t, "sleep_ready", "locked"), UNCHANGED call
  PROVE  Queue(who, pl, lo, hi)'
<1>1. /\ pc[t] = "sleep_ready" /\ event[t] /\ event' = [event EXCEPT ![t] = FALSE]
      /\ pc' = [pc EXCEPT ![t] = "locked"]
      /\ UNCHANGED <<lock, next, nextFlag, readyFlag, pred, held, calls>>
  BY DEF WakeUp, Goto, callVars
<1>2. pc[t] \in Waits /\ InQueue(t) /\ Places(who, pl, lo, hi)
  BY <1>1 DEF Waits, InQueue, Queue
<1>3. pl[t] = lo
  BY <1>1, <1>2 DEF Queue, Behind
<1>4. pc'[t] = "locked" /\ ~event'[t] /\ \A u \in Threads : u # t => event'[u] = event[u]
  BY <1>1 DEF LockTypes
<1>5. InQueue(t)' /\ ~Ends(t)'
  BY <1>4 DEF InQueue, Ends, Works, Waits, Frees
<1>6. Stays(who, pl, lo, hi, t, "locked")
  BY <1>1, <1>2, <1>3, <1>4, <1>5 DEF Stays
<1>7. Handing(lo, hi, t)'
  BY <1>4 DEF Handing
<1> QED
  BY <1>6, <1>7, StaysInQueue DEF Waits

-----------------------------------------------------------------------------
(* Steps of the thread that frees the lock                                 *)

LEMMA LeadsOn ==
  ASSUME NEW t \in Threads, pc[t] \in Frees, pc'[t] \in Frees, UNCHANGED call
  PROVE  Leads(t) /\ (InQueue(t)' <=> InQueue(t)) /\ (Ends(t)' <=> Ends(t))
BY DEF Leads, InQueue, Ends, Frees, Waits, Works

LEMMA ReleaseStep ==
  ASSUME NodesOutlive, LockTypes, OneEnds,
         NEW who \in [Nat -> Threads \cup {None}], NEW pl \in [Threads -> Nat],
         NEW lo \in Nat, NEW hi \in Nat, Queue(who, pl, lo, hi),
         NEW t \in Threads, Release(t), UNCHANGED call
  PROVE  Queue(who, pl, lo, hi)'
<1> DEFINE l == IF next[held[t]] = None THEN "unlock" ELSE "pass"
<1>1. /\ pc[t] = "release" /\ pc' = [pc EXCEPT ![t] = l]
      /\ UNCHANGED <<lock, next, nextFlag, readyFlag, event, pred, held, calls>>
  BY DEF Release, Goto, flagVars, callVars
<1>2. pc[t] \in Frees /\ pc'[t] = l /\ l \in {"unlock", "pass"}
  BY <1>1 DEF Frees, LockTypes
<1>3. Leads(t) /\ (InQueue(t)' <=> InQueue(t)) /\ (Ends(t)' <=> Ends(t))
  BY <1>2, LeadsOn DEF Frees
<1>4. Places(who, pl, lo, hi) /\ ~event[t]
  BY <1>1 DEF Queue
<1>5. lo < hi /\ held[t] = At(who[lo]) /\ (InQueue(t) => pl[t] = lo)
  BY <1>3, <1>4, Leader
<1>6. Stays(who, pl, lo, hi, t, l)
  BY <1>1, <1>2, <1>3, <1>4, <1>5 DEF Stays, Waits
<1>7. l = "pass" => lo + 1 < hi /\ next[held[t]] # None
  <2>1. ASSUME next[held[t]] # None PROVE lo + 1 < hi
    <3>1. hi - 1 # lo
      BY <1>5, <2>1 DEF Queue
    <3> QED
      BY <1>5, <3>1
  <2> QED
    BY <2>1
<1>8. Handing(lo, hi, t)'
  BY <1>1, <1>2, <1>7 DEF Handing
<1> QED
  BY <1>2, <1>6, <1>8, StaysInQueue DEF Waits

\* Another thread has put its node behind.
LEMMA UnlockLinkedStep ==
  ASSUME NodesOutlive, LockTypes, OneEnds,
         NEW who \in [Nat -> Threads \cup {None}], NEW pl \in [Threads -> Nat],
         NEW lo \in Nat, NEW hi \in Nat, Queue(who, pl, lo, hi),
         NEW t \in Threads, Unlock(t), UNCHANGED call, lock # held[t]
  PROVE  Queue(who, pl, lo, hi)'
<1>1. /\ pc[t] = "unlock" /\ pc' = [pc EXCEPT ![t] = "linked"]
      /\ UNCHANGED <<lock, next, nextFlag, readyFlag, event, pred, held, calls>>
  BY DEF Unlock, Goto, flagVars, callVars
<1>2. pc[t] \in Frees /\ pc'[t] = "linked"
  BY <1>1 DEF Frees, LockTypes
<1>3. Leads(t) /\ (InQueue(t)' <=> InQueue(t)) /\ (Ends(t)' <=> Ends(t))
  BY <1>2, LeadsOn DEF Frees
<1>4. Places(who, pl, lo, hi) /\ ~event[t]
  BY <1>1 DEF Queue
<1>5. lo < hi /\ held[t] = At(who[lo]) /\ (InQueue(t) => pl[t] = lo)
  BY <1>3, <1>4, Leader
<1>6. Stays(who, pl, lo, hi, t, "linked")
  BY <1>1, <1>2, <1>3, <1>4, <1>5 DEF Stays, Waits
<1>7. lo + 1 < hi
  <2>1. hi - 1 # lo
    BY <1>4, <1>5 DEF Places
  <2> QED
    BY <1>5, <2>1
<1>8. Handing(lo, hi, t)'
  BY <1>1, <1>2, <1>7 DEF Handing
<1> QED
  BY <1>2, <1>6, <1>8, StaysInQueue DEF Waits

LEMMA AwaitLinkStep ==
  ASSUME NodesOutlive, LockTypes, OneEnds,
         NEW who \in [Nat -> Threads \cup {None}], NEW pl \in [Threads -> Nat],
         NEW lo \in Nat, NEW hi \in Nat, Queue(who, pl, lo, hi),
         NEW t \in Threads, AwaitLink(t), UNCHANGED call
  PROVE  Queue(who, pl, lo, hi)'
<1>1. /\ pc[t] = "linked" /\ FlagWait(t, nextFlag, nextFlag', held[t], "sleep_linked", "pass")
      /\ UNCHANGED <<lock, next, readyFlag, event, pred, held, calls>>
  BY DEF AwaitLink, callVars
<1>2. pc[t] \in Frees /\ pc'[t] \in {"sleep_linked", "pass"}
  BY <1>1 DEF Frees, LockTypes, FlagWait, Goto
<1>3. Leads(t) /\ (InQueue(t)' <=> InQueue(t)) /\ (Ends(t)' <=> Ends(t))
  BY <1>2, LeadsOn DEF Frees
<1>4. Places(who, pl, lo, hi) /\ ~event[t]
  BY <1>1 DEF Queue
<1>5. held[t] = At(who[lo]) /\ held[t] \in Node /\ (InQueue(t) => pl[t] = lo)
  BY <1>3, <1>4, Leader
<1>6. lo + 1 < hi
  BY <1>1 DEF Queue, Handing
<1>7. CASE nextFlag[held[t]] = Clear
  <2>1. nextFlag' = [nextFlag EXCEPT ![held[t]] = t] /\ pc' = [pc EXCEPT ![t] = "sleep_linked"]
    BY <1>1, <1>7 DEF FlagWait, Goto
  <2>2. pc'[t] = "sleep_linked" /\ nextFlag'[held[t]] = t
        /\ \A m \in Node : m # held[t] => nextFlag'[m] = nextFlag[m]
    BY <1>5, <2>1 DEF LockTypes
  <2>3. Stays(who, pl, lo, hi, t, "sleep_linked")
    BY <1>1, <1>3, <1>4, <1>5, <1>6, <1>7, <2>1, <2>2 DEF Stays, Waits
  <2>4. Handing(lo, hi, t)'
    BY <1>1, <1>4, <1>6, <2>2 DEF Handing
  <2> QED
    BY <2>3, <2>4, StaysInQueue DEF Waits
<1>8. CASE nextFlag[held[t]] # Clear
  <2>1. nextFlag' = nextFlag /\ pc' = [pc EXCEPT ![t] = "pass"]
    BY <1>1, <1>8 DEF FlagWait, Goto
  <2>2. pc'[t] = "pass"
    BY <2>1 DEF LockTypes
  <2>3. Stays(who, pl, lo, hi, t, "pass")
    BY <1>1, <1>3, <1>4, <1>5, <2>1, <2>2 DEF Stays, Waits
  <2>4. PICK s \in Threads :
          /\ who[lo + 1] = s /\ pl[s] = lo + 1 /\ InQueue(s) /\ pc[s] \in Waits /\ s # t
          /\ Prev(who, pl, s) = held[t] /\ Behind(who, pl, lo, s, held[t])
          /\ Unheard(held[t]) /\ pc[t] # "sleep_linked" => nextFlag[held[t]] = Clear
          /\ next[held[t]] # None => pc[s] # "link" /\ next[held[t]] = MyNode(s)
    BY <1>3, <1>6, Successor
  <2>5. next[held[t]] # None
    <3>1. pc[s] # "link"
      BY <1>1, <1>8, <2>4 DEF Behind
    <3> QED
      BY <2>4, <3>1, MyNodes DEF Behind
  <2>6. Handing(lo, hi, t)'
    BY <1>1, <1>6, <2>2, <2>5 DEF Handing
  <2> QED
    BY <2>3, <2>6, StaysInQueue DEF Waits
<1> QED
  BY <1>7, <1>8

LEMMA WakeLinkedStep ==
  ASSUME NodesOutlive, LockTypes, OneEnds,
         NEW who \in [Nat -> Threads \cup {None}], NEW pl \in [Threads -> Nat],
         NEW lo \in Nat, NEW hi \in Nat, Queue(who, pl, lo, hi),
         NEW t \in Threads, WakeUp(t, "sleep_linked", "pass"), UNCHANGED call
  PROVE  Queue(who, pl, lo, hi)'
<1>1. /\ pc[t] = "sleep_linked" /\ event[t] /\ event' = [event EXCEPT ![t] = FALSE]
      /\ pc' = [pc EXCEPT ![t] = "pass"]
      /\ UNCHANGED <<lock, next, nextFlag, readyFlag, pred, held, calls>>
  BY DEF WakeUp, Goto, callVars
<1>2. pc[t] \in Frees /\ pc'[t] = "pass" /\ pc'[t] \in Frees
      /\ ~event'[t] /\ \A u \in Threads : u # t => event'[u] = event[u]
  BY <1>1 DEF Frees, LockTypes
<1>3. Leads(t) /\ (InQueue(t)' <=> InQueue(t)) /\ (Ends(t)' <=> Ends(t))
  BY <1>2, LeadsOn
<1>4. Places(who, pl, lo, hi)
  BY DEF Queue
<1>5. InQueue(t) => pl[t] = lo
  BY <1>3, <1>4, Leader
<1>6. Stays(who, pl, lo, hi, t, "pass")
  BY <1>1, <1>2, <1>3, <1>5 DEF Stays, Waits
<1>7. lo + 1 < hi /\ next[held[t]] # None
  BY <1>1 DEF Queue, Handing
<1>8. Handing(lo, hi, t)'
  BY <1>1, <1>2, <1>7 DEF Handing
<1> QED
  BY <1>6, <1>8, StaysInQueue DEF Waits

\* Nobody is behind: the queue is empty.
LEMMA UnlockEmptyStep ==
  ASSUME NodesOutlive, LockTypes, OneEnds,
         NEW who \in [Nat -> Threads \cup {None}], NEW pl \in [Threads -> Nat],
         NEW lo \in Nat, NEW hi \in Nat, Queue(who, pl, lo, hi),
         NEW t \in Threads, Unlock(t), UNCHANGED call, lock = held[t]
  PROVE  Queue(who, pl, hi, hi)'
<1>1. /\ pc[t] = "unlock" /\ pc' = [pc EXCEPT ![t] = "released"] /\ lock' = None
      /\ UNCHANGED <<next, nextFlag, readyFlag, event, pred, held, calls>>
  BY DEF Unlock, Goto, flagVars, callVars
<1>2. /\ pc'[t] = "released" /\ \A u \in Threads : u # t => pc'[u] = pc[u]
      /\ Leads(t) /\ Places(who, pl, lo, hi)
  BY <1>1 DEF LockTypes, Leads, InQueue, Ends, Frees, Waits, Queue
<1>3. lo < hi /\ lo \in lo .. hi - 1 /\ hi - 1 \in lo .. hi - 1 /\ held[t] = At(who[lo])
      /\ who[lo] = IF Ends(t) THEN None ELSE t
  <2>1. lo < hi
    BY <1>2, Leader
  <2>2. lo \in lo .. hi - 1 /\ hi - 1 \in lo .. hi - 1
    BY <2>1
  <2> QED
    BY <1>2, <2>1, <2>2, Leader
<1>4. hi = lo + 1
  <2>1. lo # hi
    BY <1>3
  <2>2. lock = At(who[hi - 1])
    BY <1>2, <2>1 DEF Places
  <2>3. At(who[hi - 1]) = At(who[lo])
    BY <1>3, <2>2
  <2>4. hi - 1 = lo
    BY <1>2, <1>3, <2>3, Distinct
  <2> QED
    BY <2>4
<1>5. \A u \in Threads : ~InQueue(u)' /\ ~Ends(u)'
  <2> SUFFICES ASSUME NEW u \in Threads, u # t PROVE ~InQueue(u) /\ ~Ends(u)
    BY <1>1, <1>2 DEF InQueue, Ends, Waits, Works, Frees
  <2>1. ~Leads(u)
    BY <1>2, OneLeader
  <2>2. ASSUME InQueue(u) PROVE FALSE
    <3>1. lo <= pl[u] /\ pl[u] < hi /\ who[pl[u]] = u /\ pl[u] \in Nat
      BY <1>2, <2>2 DEF Places
    <3>2. pl[u] = lo
      BY <1>4, <3>1
    <3> QED
      BY <1>3, <3>1, <3>2, MyNodes
  <2> QED
    BY <2>1, <2>2 DEF Leads
<1>6. \A u \in Threads :
        pc'[u] \notin Waits \cup Works \cup Frees
  BY <1>5 DEF InQueue, Ends
<1>7. Places(who, pl, hi, hi)'
  BY <1>1, <1>5 DEF Places
<1>8. \A u \in Threads : Handing(hi, hi, u)'
  BY <1>6 DEF Handing, Frees
<1>9. \A u \in Threads : event'[u] => pc'[u] \in {"sleep_ready", "sleep_linked"}
  BY <1>1, <1>2 DEF Queue
<1> QED
  BY <1>6, <1>7, <1>8, <1>9 DEF Queue, Works

\* The lock goes to the successor.
LEMMA PassStep ==
  ASSUME NodesOutlive, LockTypes, OneEnds,
         NEW who \in [Nat -> Threads \cup {None}], NEW pl \in [Threads -> Nat],
         NEW lo \in Nat, NEW hi \in Nat, Queue(who, pl, lo, hi),
         NEW t \in Threads, Pass(t), UNCHANGED call
  PROVE  pc'[t] = "released" /\ Queue(who, pl, lo + 1, hi)'
<1>1. pc[t] = "pass" /\ Leads(t) /\ Places(who, pl, lo, hi) /\ lo + 1 < hi /\ next[held[t]] # None
  BY DEF Pass, Leads, InQueue, Ends, Frees, Waits, Queue, Handing
<1>2. /\ pc' = [pc EXCEPT ![t] = "released"]
      /\ FlagSet(readyFlag, readyFlag', next[held[t]])
      /\ UNCHANGED <<lock, next, nextFlag, pred, held, calls>>
  BY <1>1 DEF Pass, Goto, callVars
<1>3. PICK s \in Threads :
        /\ who[lo + 1] = s /\ pl[s] = lo + 1 /\ InQueue(s) /\ pc[s] \in Waits /\ s # t
        /\ Prev(who, pl, s) = held[t] /\ Behind(who, pl, lo, s, held[t])
        /\ Unheard(held[t]) /\ pc[t] # "sleep_linked" => nextFlag[held[t]] = Clear
        /\ next[held[t]] # None => pc[s] # "link" /\ next[held[t]] = MyNode(s)
  BY <1>1, Successor
<1>4. /\ pc'[t] = "released" /\ \A u \in Threads : u # t => pc'[u] = pc[u]
      /\ \A u \in Threads : pred'[u] = pred[u]
  BY <1>2 DEF LockTypes
<1>5. /\ lo < hi /\ held[t] = At(who[lo]) /\ held[t] \in Node
      /\ who[lo] = (IF Ends(t) THEN None ELSE t)
      /\ (InQueue(t) => pl[t] = lo /\ held[t] = MyNode(t))
  BY <1>1, Leader
<1>6. /\ MyNode(s) \in Node /\ next[held[t]] = MyNode(s)
      /\ readyFlag[MyNode(s)] = IF pc[s] = "sleep_ready" THEN s ELSE Clear
  BY <1>1, <1>3, MyNodes DEF Behind
<1>7. /\ \A m \in Node : m # MyNode(s) => readyFlag'[m] = readyFlag[m]
      /\ \A u \in Threads : u # s => event'[u] = event[u]
      /\ pc[s] # "sleep_ready" => readyFlag'[MyNode(s)] = Set /\ event' = event
      /\ pc[s] = "sleep_ready" => event'[s]
  BY <1>2, <1>6, MyNodes DEF FlagSet, LockTypes
<1>8. /\ \A u \in Threads : MyNode(u)' = MyNode(u) /\ Prev(who, pl, u)' = Prev(who, pl, u)
      /\ \A w : At(w)' = At(w)
  BY <1>2, QuietNodes
<1>9. /\ ~InQueue(t)' /\ ~Ends(t)'
      /\ \A u \in Threads : u # t => (InQueue(u)' <=> InQueue(u)) /\ (Ends(u)' <=> Ends(u))
  BY <1>4 DEF InQueue, Ends, Waits, Works, Frees
<1>10. \A u \in Threads : u # t => ~Leads(u)
  BY <1>1, OneLeader
<1>11. \A u \in Threads : u # t /\ InQueue(u) =>
         pc[u] \in Waits /\ lo + 1 <= pl[u] /\ pl[u] < hi /\ who[pl[u]] = u /\ pl[u] \in Nat /\ pl[u] # lo
  <2> SUFFICES ASSUME NEW u \in Threads, u # t, InQueue(u)
               PROVE  pc[u] \in Waits /\ lo + 1 <= pl[u] /\ pl[u] < hi /\ who[pl[u]] = u
                      /\ pl[u] \in Nat /\ pl[u] # lo
    OBVIOUS
  <2>1. pc[u] \in Waits /\ lo <= pl[u] /\ pl[u] < hi /\ who[pl[u]] = u /\ pl[u] \in Nat
    BY <1>1, <1>10 DEF Leads, Places
  <2>2. pl[u] # lo
    BY <1>5, <2>1, MyNodes
  <2> QED
    BY <2>1, <2>2
<1>12. Places(who, pl, lo + 1, hi)'
  <2>1. ASSUME NEW i \in lo + 1 .. hi - 1 PROVE who[i] # None /\ InQueue(who[i])' /\ pl[who[i]] = i
    <3>1. i \in lo .. hi - 1 /\ i # lo
      OBVIOUS
    <3>2. who[i] # None /\ InQueue(who[i]) /\ pl[who[i]] = i
      BY <1>1, <3>1 DEF Places
    <3>3. who[i] # t
      BY <1>5, <3>1, <3>2
    <3>4. who[i] \in Threads
      BY <3>1, <3>2
    <3> QED
      BY <1>9, <3>2, <3>3, <3>4
  <2>2. ASSUME NEW u \in Threads, InQueue(u)'
        PROVE  /\ held'[u] = MyNode(u)'
               /\ lo + 1 <= pl[u] /\ pl[u] < hi /\ who[pl[u]] = u
               /\ pc'[u] \notin Waits => pl[u] = lo + 1
    <3>1. u # t /\ InQueue(u) /\ pc'[u] = pc[u]
      BY <1>4, <1>9, <2>2
    <3>2. held[u] = MyNode(u)
      BY <1>1, <3>1 DEF Places
    <3> QED
      BY <1>2, <1>8, <1>11, <3>1, <3>2
  <2>3. \A u \in Threads : ~Ends(u)'
    BY <1>9, <1>10 DEF Leads
  <2>4. lock' = IF lo + 1 = hi THEN None ELSE At(who[hi - 1])'
    BY <1>1, <1>2, <1>8 DEF Places
  <2> QED
    BY <1>1, <2>1, <2>2, <2>3, <2>4 DEF Places
<1>13. ASSUME NEW m, Unheard(m) PROVE Unheard(m)'
  <2>1. \A w \in Threads : pc[w] = "sleep_linked" => w # t /\ w # s
    BY <1>1, <1>3 DEF Waits
  <2> QED
    BY <1>2, <1>4, <1>7, <1>13, <2>1 DEF Unheard
<1>14. ASSUME NEW u \in Threads, pc'[u] \in Waits
       PROVE  (IF pl[u] = lo + 1 THEN First(who, pl, lo + 1, u)
               ELSE Behind(who, pl, lo + 1, u, Prev(who, pl, u)))'
  <2>1. u # t /\ pc[u] \in Waits /\ InQueue(u) /\ pc'[u] = pc[u]
    BY <1>4, <1>14 DEF InQueue, Waits
  <2>2. CASE u = s
    <3>1. pc[s] # "link"
      BY <1>1, <1>3
    <3>2. IF pc'[s] = "sleep_ready" THEN event'[s] ELSE readyFlag'[MyNode(s)] = Set
      BY <1>7, <2>1, <2>2
    <3>3. ASSUME pc[s] = "notify" PROVE Late(who, pl, lo + 1, s)'
      <4>1. CASE Late(who, pl, lo, s)
        <5>1. who[lo] = None /\ Ends(t) /\ ~InQueue(t) /\ pl[s] # lo
          BY <1>3, <1>5, <4>1, MyNodes DEF Late, InQueue, Ends, Waits, Works, Frees
        <5>2. pred[s] \in Node /\ nextFlag[pred[s]] = Clear
          BY <4>1 DEF Late
        <5>3. PICK p \in Threads :
                IF InQueue(p)
                THEN pl[s] < pl[p] /\ calls[p] > 0 /\ pred[s] = StackNode(p, calls[p] - 1)
                ELSE pred[s] = MyNode(p)
          BY <4>1, <5>1 DEF Late
        <5>4. InQueue(p)' <=> InQueue(p)
          BY <1>9, <5>1
        <5>5. IF InQueue(p)'
              THEN pl[s] < pl[p] /\ calls'[p] > 0 /\ pred'[s] = StackNode(p, calls'[p] - 1)
              ELSE pred'[s] = MyNode(p)'
          BY <1>2, <1>8, <5>3, <5>4
        <5> QED
          BY <1>2, <1>3, <5>2, <5>5 DEF Late, StackNode
      <4>2. CASE ~Late(who, pl, lo, s)
        <5>1. pred[s] = held[t] /\ nextFlag[held[t]] = Clear
          BY <1>1, <1>3, <3>3, <4>2 DEF Behind
        <5>2. CASE Ends(t)
          <6>1. pred[s] = Proxy /\ Proxy \in Node
            BY <1>5, <5>1, <5>2, MyNodes DEF At
          <6> QED
            BY <1>2, <1>3, <5>1, <6>1 DEF Late
        <5>3. CASE ~Ends(t)
          <6>1. InQueue(t)
            BY <1>1, <5>3 DEF Leads
          <6>2. pred'[s] = MyNode(t)'
            BY <1>2, <1>5, <1>8, <5>1, <6>1
          <6> QED
            BY <1>2, <1>3, <1>5, <1>9, <5>1, <6>2 DEF Late
        <5> QED
          BY <5>2, <5>3
      <4> QED
        BY <4>1, <4>2
    <3>4. First(who, pl, lo + 1, s)'
      BY <1>8, <2>1, <2>2, <3>1, <3>2, <3>3 DEF First
    <3> QED
      BY <1>3, <2>2, <3>4
  <2>3. CASE u # s
    <3>1. pl[u] # lo /\ pl[u] # lo + 1
      BY <1>3, <1>11, <2>1, <2>3
    <3>2. PICK m \in Node : m = Prev(who, pl, u)
      BY <1>1, <2>1, <3>1, Neighbours
    <3>3. Behind(who, pl, lo, u, m) /\ ~Late(who, pl, lo, u)
      BY <2>1, <3>1, <3>2 DEF Queue, Late
    <3>4. MyNode(u) \in Node /\ MyNode(u) # MyNode(s)
      BY <2>3, MyNodes
    <3>5. Behind(who, pl, lo + 1, u, m)'
      BY <1>2, <1>4, <1>7, <1>8, <1>13, <2>1, <2>3, <3>3, <3>4 DEF Behind
    <3> QED
      BY <1>8, <3>1, <3>2, <3>5
  <2> QED
    BY <2>2, <2>3
<1>15. \A u \in Threads : pc'[u] \notin Works \cup Frees
  BY <1>4, <1>9, <1>10 DEF Leads, InQueue, Ends, Waits, Works, Frees
<1>16. \A u \in Threads : Handing(lo + 1, hi, u)'
  BY <1>15 DEF Handing, Frees
<1>17. \A u \in Threads : event'[u] => pc'[u] \in {"sleep_ready", "sleep_linked"}
  <2> SUFFICES ASSUME NEW u \in Threads, event'[u] PROVE pc'[u] \in {"sleep_ready", "sleep_linked"}
    OBVIOUS
  <2>1. u # t
    BY <1>1, <1>3, <1>7 DEF Queue
  <2> QED
    BY <1>3, <1>4, <1>7, <2>1 DEF Queue
<1>18. (lo + 1 < hi => next[At(who[hi - 1])] = None /\ nextFlag[At(who[hi - 1])] = Clear)'
  BY <1>2, <1>5, <1>8 DEF Queue
<1> QED
  BY <1>4, <1>12, <1>14, <1>15, <1>16, <1>17, <1>18 DEF Queue, Works

-----------------------------------------------------------------------------
(* The node of the barrier takes the first place                           *)

\* All but the first place of a queue whose first node is a thread's own.
LEMMA OwnNodes ==
  ASSUME NodesOutlive, LockTypes, OneEnds,
         NEW who \in [Nat -> Threads \cup {None}], NEW pl \in [Threads -> Nat],
         NEW lo \in Nat, NEW hi \in Nat, Queue(who, pl, lo, hi),
         NEW t \in Threads, pc[t] \in {"transfer", "adopt"}
  PROVE  /\ Leads(t) /\ InQueue(t) /\ ~Ends(t) /\ Places(who, pl, lo, hi)
         /\ pl[t] = lo /\ held[t] = MyNode(t) /\ who[lo] = t /\ lo < hi
         /\ \A i \in lo .. hi - 1 : i \in Nat /\ who[i] \in Threads /\ At(who[i]) = MyNode(who[i])
         /\ \A u \in Threads : u # t => ~Leads(u) /\ (InQueue(u) => pl[u] # lo /\ pc[u] \in Waits)
         /\ \A u \in Threads : ~Ends(u)
         /\ \A u \in Threads : u # t /\ InQueue(u) => ~Late(who, pl, lo, u)
<1>1. Leads(t) /\ InQueue(t) /\ ~Ends(t) /\ Places(who, pl, lo, hi)
  BY DEF Leads, InQueue, Ends, Waits, Works, Frees, Queue
<1>2. pl[t] = lo /\ held[t] = MyNode(t) /\ who[lo] = t /\ lo < hi
  BY <1>1, Leader
<1>3. ASSUME NEW i \in lo .. hi - 1
      PROVE  i \in Nat /\ who[i] \in Threads /\ At(who[i]) = MyNode(who[i])
  <2>1. i \in Nat /\ who[i] \in Threads \cup {None} /\ None \notin Threads
    BY MyNodes
  <2>2. who[i] # None
    BY <1>1, <1>2, <2>1 DEF Places
  <2> QED
    BY <2>1, <2>2 DEF At
<1>4. \A u \in Threads : u # t => ~Leads(u)
  BY <1>1, OneLeader
<1>5. ASSUME NEW u \in Threads, u # t, InQueue(u)
      PROVE  pl[u] # lo /\ pc[u] \in Waits /\ ~Late(who, pl, lo, u)
  <2>1. who[pl[u]] = u
    BY <1>1, <1>5 DEF Places
  <2>2. pl[u] # lo
    BY <1>2, <1>5, <2>1
  <2>3. who[lo] # None
    BY <1>2, MyNodes
  <2> QED
    BY <1>4, <1>5, <2>2, <2>3 DEF Leads, Late
<1> QED
  BY <1>1, <1>2, <1>3, <1>4, <1>5 DEF Leads

\* The queue is empty behind the thread.
LEMMA TransferAlone ==
  ASSUME NodesOutlive, LockTypes, OneEnds,
         NEW who \in [Nat -> Threads \cup {None}], NEW pl \in [Threads -> Nat],
         NEW lo \in Nat, NEW hi \in Nat, Queue(who, pl, lo, hi),
         NEW t \in Threads, Transfer(t), UNCHANGED call, lock = held[t]
  PROVE  Queue([who EXCEPT ![lo] = None], pl, lo, hi)'
<1> DEFINE w2 == [who EXCEPT ![lo] = None]
<1>1. /\ pc[t] = "transfer" /\ pc' = [pc EXCEPT ![t] = "transferred"] /\ lock' = Proxy
      /\ Fresh({Proxy}) /\ UNCHANGED <<event, pred, held, calls>>
  BY DEF Transfer, Goto, callVars
<1>2. /\ Leads(t) /\ InQueue(t) /\ ~Ends(t) /\ Places(who, pl, lo, hi)
      /\ pl[t] = lo /\ held[t] = MyNode(t) /\ who[lo] = t /\ lo < hi
      /\ \A i \in lo .. hi - 1 : i \in Nat /\ who[i] \in Threads /\ At(who[i]) = MyNode(who[i])
      /\ \A u \in Threads : u # t => ~Leads(u) /\ (InQueue(u) => pl[u] # lo /\ pc[u] \in Waits)
      /\ \A u \in Threads : ~Ends(u)
      /\ \A u \in Threads : u # t /\ InQueue(u) => ~Late(who, pl, lo, u)
  BY <1>1, OwnNodes
<1>3. pc'[t] = "transferred" /\ \A u \in Threads : u # t => pc'[u] = pc[u]
  BY <1>1 DEF LockTypes
<1>4. hi = lo + 1
  <2>1. lo \in lo .. hi - 1 /\ hi - 1 \in lo .. hi - 1 /\ lo # hi
    BY <1>2
  <2>2. lock = At(who[hi - 1])
    BY <1>2, <2>1 DEF Places
  <2>3. At(who[lo]) = MyNode(t)
    BY <1>2, <2>1
  <2>4. hi - 1 = lo
    BY <1>2, <2>1, <2>2, <2>3, Distinct
  <2> QED
    BY <2>4
<1>5. \A u \in Threads : ~InQueue(u)' /\ ~Ends(u)'
  <2> SUFFICES ASSUME NEW u \in Threads, u # t PROVE ~InQueue(u)
    BY <1>1, <1>2, <1>3 DEF InQueue, Ends, Waits, Works, Frees
  <2>1. ASSUME InQueue(u) PROVE FALSE
    <3>1. lo <= pl[u] /\ pl[u] < hi /\ pl[u] # lo /\ pl[u] \in Nat
      BY <1>2, <2>1 DEF Places
    <3> QED
      BY <1>4, <3>1
  <2> QED
    BY <2>1
<1>6. \A u \in Threads : pc'[u] \notin Waits \cup Works \cup Frees
  BY <1>5 DEF InQueue, Ends
<1>7. w2[lo] = None /\ At(None)' = Proxy /\ hi - 1 = lo
  BY <1>4 DEF At
<1>8. Places(w2, pl, lo, hi)'
  <2>1. lock' = At(w2[hi - 1])' /\ lo # hi
    BY <1>1, <1>4, <1>7
  <2>2. \A i \in lo .. hi - 1 : w2[i] = None /\ i = lo
    BY <1>4, <1>7
  <2> QED
    BY <1>2, <1>5, <2>1, <2>2 DEF Places
<1>9. \A u \in Threads : Handing(lo, hi, u)'
  BY <1>6 DEF Handing, Frees
<1>10. \A u \in Threads : event'[u] => pc'[u] \in {"sleep_ready", "sleep_linked"}
  BY <1>1, <1>3 DEF Queue
<1>11. (next[At(w2[hi - 1])] = None /\ nextFlag[At(w2[hi - 1])] = Clear)'
  BY <1>1, <1>7, MyNodes DEF Fresh
<1> QED
  BY <1>6, <1>8, <1>9, <1>10, <1>11 DEF Queue, Works

\* The thread has to wait until its successor has linked.
LEMMA TransferStep ==
  ASSUME NodesOutlive, LockTypes, OneEnds,
         NEW who \in [Nat -> Threads \cup {None}], NEW pl \in [Threads -> Nat],
         NEW lo \in Nat, NEW hi \in Nat, Queue(who, pl, lo, hi),
         NEW t \in Threads, Transfer(t), UNCHANGED call, lock # held[t]
  PROVE  Queue(who, pl, lo, hi)'
<1>1. /\ pc[t] = "transfer" /\ pc' = [pc EXCEPT ![t] = "adopt"]
      /\ Fresh({Proxy}) /\ UNCHANGED <<lock, event, pred, held, calls>>
  BY DEF Transfer, Goto, callVars
<1>2. /\ Leads(t) /\ InQueue(t) /\ ~Ends(t) /\ Places(who, pl, lo, hi)
      /\ pl[t] = lo /\ held[t] = MyNode(t) /\ who[lo] = t /\ lo < hi
      /\ \A i \in lo .. hi - 1 : i \in Nat /\ who[i] \in Threads /\ At(who[i]) = MyNode(who[i])
      /\ \A u \in Threads : u # t => ~Leads(u) /\ (InQueue(u) => pl[u] # lo /\ pc[u] \in Waits)
      /\ \A u \in Threads : ~Ends(u)
      /\ \A u \in Threads : u # t /\ InQueue(u) => ~Late(who, pl, lo, u)
  BY <1>1, OwnNodes
<1>3. pc'[t] = "adopt" /\ \A u \in Threads : u # t => pc'[u] = pc[u]
  BY <1>1 DEF LockTypes
<1>4. lo + 1 < hi
  <2>1. lo \in lo .. hi - 1 /\ lo # hi
    BY <1>2
  <2>2. lock = At(who[hi - 1]) /\ At(who[lo]) = MyNode(t)
    BY <1>2, <2>1 DEF Places
  <2>3. hi - 1 # lo
    BY <1>2, <2>2
  <2> QED
    BY <1>2, <2>3
<1>5. \A u \in Threads : (InQueue(u)' <=> InQueue(u)) /\ (Ends(u)' <=> Ends(u))
  BY <1>1, <1>3 DEF InQueue, Ends, Waits, Works, Frees
<1>6. /\ \A u \in Threads : MyNode(u)' = MyNode(u) /\ Prev(who, pl, u)' = Prev(who, pl, u)
      /\ \A w : At(w)' = At(w)
  BY <1>1, QuietNodes
<1>7. Places(who, pl, lo, hi)'
  <2>1. \A u \in Threads : InQueue(u) /\ pc'[u] \notin Waits => pc[u] \notin Waits \/ pl[u] = lo
    BY <1>2, <1>3 DEF Waits
  <2> QED
    BY <1>1, <1>2, <1>5, <2>1, SamePlaces
<1>8. \A m \in Node : m # Proxy => next'[m] = next[m] /\ nextFlag'[m] = nextFlag[m]
                                   /\ readyFlag'[m] = readyFlag[m]
  BY <1>1 DEF Fresh
<1>9. ASSUME NEW m \in Node, m # Proxy, Unheard(m) PROVE Unheard(m)'
  <2>1. \A w \in Threads : pc[w] = "sleep_linked" => w # t
    BY <1>1
  <2> QED
    BY <1>1, <1>3, <1>8, <1>9, <2>1 DEF Unheard
<1>10. ASSUME NEW u \in Threads, pc'[u] \in Waits
       PROVE  (IF pl[u] = lo THEN First(who, pl, lo, u) ELSE Behind(who, pl, lo, u, Prev(who, pl, u)))'
  <2>1. u # t /\ pc[u] \in Waits /\ InQueue(u) /\ pc'[u] = pc[u]
    BY <1>3, <1>10 DEF InQueue, Waits
  <2>2. pl[u] # lo /\ ~Late(who, pl, lo, u)
    BY <1>2, <2>1
  <2>3. pl[u] - 1 \in lo .. hi - 1 /\ Prev(who, pl, u) \in Node
    BY <1>2, <2>1, <2>2, Neighbours
  <2>4. PICK m \in Node : m = Prev(who, pl, u) /\ m # Proxy
    BY <1>2, <2>3, MyNodes DEF Prev
  <2>5. Behind(who, pl, lo, u, m)
    BY <2>1, <2>2, <2>4 DEF Queue
  <2>6. MyNode(u) \in Node /\ MyNode(u) # Proxy
    BY MyNodes
  <2>7. Behind(who, pl, lo, u, m)'
    BY <1>1, <1>6, <1>8, <1>9, <2>1, <2>2, <2>4, <2>5, <2>6 DEF Behind
  <2> QED
    BY <1>6, <2>2, <2>4, <2>7
<1>11. \A u \in Threads : Handing(lo, hi, u)'
  BY <1>2, <1>3 DEF Handing, Leads, InQueue, Ends, Frees, Waits, Works
<1>12. \A u \in Threads : event'[u] => pc'[u] \in {"sleep_ready", "sleep_linked"}
  BY <1>1, <1>3 DEF Queue
<1>13. (lo < hi => next[At(who[hi - 1])] = None /\ nextFlag[At(who[hi - 1])] = Clear)'
  <2>1. hi - 1 \in lo .. hi - 1
    BY <1>2
  <2>2. PICK m \in Node : m = At(who[hi - 1]) /\ m # Proxy
    BY <1>2, <2>1, MyNodes
  <2> QED
    BY <1>2, <1>6, <1>8, <2>2 DEF Queue
<1> QED
  BY <1>4, <1>7, <1>10, <1>11, <1>12, <1>13 DEF Queue

\* It has: the node of the barrier takes over the link.
LEMMA AdoptStep ==
  ASSUME NodesOutlive, LockTypes, OneEnds,
         NEW who \in [Nat -> Threads \cup {None}], NEW pl \in [Threads -> Nat],
         NEW lo \in Nat, NEW hi \in Nat, Queue(who, pl, lo, hi),
         NEW t \in Threads, Adopt(t), UNCHANGED call
  PROVE  Queue([who EXCEPT ![lo] = None], pl, lo, hi)'
<1> DEFINE w2 == [who EXCEPT ![lo] = None]
<1>1. /\ pc[t] = "adopt" /\ pc' = [pc EXCEPT ![t] = "transferred"]
      /\ next[held[t]] # None /\ next' = [next EXCEPT ![Proxy] = next[held[t]]]
      /\ UNCHANGED <<lock, nextFlag, readyFlag, event, pred, held, calls>>
  BY DEF Adopt, Goto, callVars
<1>2. /\ Leads(t) /\ InQueue(t) /\ ~Ends(t) /\ Places(who, pl, lo, hi)
      /\ pl[t] = lo /\ held[t] = MyNode(t) /\ who[lo] = t /\ lo < hi
      /\ \A i \in lo .. hi - 1 : i \in Nat /\ who[i] \in Threads /\ At(who[i]) = MyNode(who[i])
      /\ \A u \in Threads : u # t => ~Leads(u) /\ (InQueue(u) => pl[u] # lo /\ pc[u] \in Waits)
      /\ \A u \in Threads : ~Ends(u)
      /\ \A u \in Threads : u # t /\ InQueue(u) => ~Late(who, pl, lo, u)
  BY <1>1, OwnNodes
<1>3. pc'[t] = "transferred" /\ \A u \in Threads : u # t => pc'[u] = pc[u]
  BY <1>1 DEF LockTypes
<1>4. lo + 1 < hi
  BY <1>1 DEF Queue
<1>5. PICK s \in Threads :
        /\ who[lo + 1] = s /\ pl[s] = lo + 1 /\ InQueue(s) /\ pc[s] \in Waits /\ s # t
        /\ Prev(who, pl, s) = held[t] /\ Behind(who, pl, lo, s, held[t])
        /\ Unheard(held[t]) /\ pc[t] # "sleep_linked" => nextFlag[held[t]] = Clear
        /\ next[held[t]] # None => pc[s] # "link" /\ next[held[t]] = MyNode(s)
  BY <1>2, <1>4, Successor
<1>6. /\ ~InQueue(t)' /\ \A u \in Threads : ~Ends(u)'
      /\ \A u \in Threads : u # t => (InQueue(u)' <=> InQueue(u))
  BY <1>1, <1>2, <1>3 DEF InQueue, Ends, Waits, Works, Frees
<1>7. /\ \A u \in Threads : MyNode(u)' = MyNode(u)
      /\ \A w : At(w)' = At(w)
  BY <1>1, QuietNodes
<1>8. w2[lo] = None /\ At(None) = Proxy /\ \A i \in lo .. hi - 1 : i # lo => w2[i] = who[i]
  BY DEF At
<1>9. Places(w2, pl, lo, hi)'
  <2>1. lock' = At(w2[hi - 1])' /\ lo # hi /\ lo <= hi
    <3>1. hi - 1 \in lo .. hi - 1 /\ hi - 1 # lo /\ lo # hi
      BY <1>4
    <3> QED
      BY <1>1, <1>2, <1>7, <1>8, <3>1 DEF Places
  <2>2. \A i \in lo .. hi - 1 : IF w2[i] = None THEN i = lo ELSE InQueue(w2[i])' /\ pl[w2[i]] = i
    <3> SUFFICES ASSUME NEW i \in lo .. hi - 1, i # lo
                 PROVE  who[i] # None /\ InQueue(who[i])' /\ pl[who[i]] = i
      BY <1>8
    <3>1. who[i] \in Threads /\ who[i] # None
      BY <1>2, MyNodes
    <3>2. InQueue(who[i]) /\ pl[who[i]] = i
      BY <1>2, <3>1 DEF Places
    <3>3. who[i] # t
      BY <1>2, <3>2
    <3> QED
      BY <1>6, <3>1, <3>2, <3>3
  <2>3. ASSUME NEW u \in Threads, InQueue(u)'
        PROVE  /\ held'[u] = MyNode(u)'
               /\ lo <= pl[u] /\ pl[u] < hi /\ w2[pl[u]] = u
               /\ pc'[u] \notin Waits => pl[u] = lo
    <3>1. u # t /\ InQueue(u) /\ pc'[u] = pc[u]
      BY <1>3, <1>6, <2>3
    <3>2. held[u] = MyNode(u) /\ lo <= pl[u] /\ pl[u] < hi /\ who[pl[u]] = u /\ pl[u] # lo
          /\ pc[u] \in Waits
      BY <1>2, <3>1 DEF Places
    <3>3. w2[pl[u]] = who[pl[u]]
      BY <3>2
    <3> QED
      BY <1>1, <1>7, <3>1, <3>2, <3>3
  <2> QED
    BY <1>6, <2>1, <2>2, <2>3 DEF Places
<1>10. ASSUME NEW m, Unheard(m) PROVE Unheard(m)'
  <2>1. \A w \in Threads : pc[w] = "sleep_linked" => w # t
    BY <1>1
  <2> QED
    BY <1>1, <1>3, <1>10, <2>1 DEF Unheard
<1>11. /\ \A m \in Node : m # Proxy => next'[m] = next[m]
       /\ next'[Proxy] = MyNode(s)
  BY <1>1, <1>5, MyNodes DEF LockTypes
<1>12. ASSUME NEW u \in Threads, pc'[u] \in Waits
       PROVE  (IF pl[u] = lo THEN First(w2, pl, lo, u) ELSE Behind(w2, pl, lo, u, Prev(w2, pl, u)))'
  <2>1. u # t /\ pc[u] \in Waits /\ InQueue(u) /\ pc'[u] = pc[u]
    BY <1>3, <1>12 DEF InQueue, Waits
  <2>2. pl[u] # lo /\ ~Late(who, pl, lo, u)
    BY <1>2, <2>1
  <2>3. CASE u = s
    <3>1. pc[s] # "link" /\ Prev(w2, pl, s)' = Proxy
      <4>1. (lo + 1) - 1 = lo
        OBVIOUS
      <4> QED
        BY <1>1, <1>5, <1>7, <1>8, <4>1 DEF Prev
    <3>2. ASSUME pc[s] = "notify" PROVE Late(w2, pl, lo, s)'
      <4>1. pred[s] = held[t] /\ nextFlag[held[t]] = Clear /\ held[t] \in Node
        BY <1>1, <1>2, <1>5, <2>2, <2>3, <3>2, MyNodes DEF Behind
      <4>2. pred'[s] = MyNode(t)'
        BY <1>1, <1>2, <1>7, <4>1
      <4> QED
        BY <1>1, <1>5, <1>6, <1>8, <4>1, <4>2 DEF Late
    <3>3. /\ readyFlag[MyNode(s)] = (IF pc[s] = "sleep_ready" THEN s ELSE Clear)
          /\ ~event[s]
      BY <1>5 DEF Behind
    <3>4. PICK m \in Node : m = Proxy
      BY MyNodes
    <3>5. pc[s] = "notify" => pred[s] # m
      BY <1>2, <1>5, <2>2, <2>3, <3>4, MyNodes DEF Behind
    <3>6. Behind(w2, pl, lo, s, m)'
      BY <1>1, <1>7, <1>11, <2>1, <2>3, <3>1, <3>2, <3>3, <3>4, <3>5 DEF Behind
    <3> QED
      BY <2>2, <2>3, <3>1, <3>4, <3>6
  <2>4. CASE u # s
    <3>1. pl[u] - 1 \in lo .. hi - 1 /\ Prev(who, pl, u) \in Node /\ Prev(who, pl, u) # Prev(who, pl, s)
          /\ lo < pl[u]
      <4>1. pl[s] # lo
        BY <1>5
      <4> QED
        BY <1>2, <1>5, <2>1, <2>2, <2>4, <4>1, Neighbours
    <3>2. pl[u] - 1 # lo
      BY <1>2, <1>5, <3>1, MyNodes DEF Prev, At
    <3>3. PICK m \in Node : m = Prev(who, pl, u) /\ m # Proxy
      BY <1>2, <3>1, MyNodes DEF Prev
    <3>4. Prev(w2, pl, u)' = m
      BY <1>7, <1>8, <3>1, <3>2, <3>3 DEF Prev
    <3>5. Behind(who, pl, lo, u, m)
      BY <2>1, <2>2, <3>3 DEF Queue
    <3>6. Behind(w2, pl, lo, u, m)'
      BY <1>1, <1>7, <1>10, <1>11, <2>1, <2>2, <3>3, <3>5 DEF Behind
    <3> QED
      BY <2>2, <3>4, <3>6
  <2> QED
    BY <2>3, <2>4
<1>13. \A u \in Threads : Handing(lo, hi, u)' /\ pc'[u] # "adopt"
  BY <1>2, <1>3 DEF Handing, Leads, InQueue, Ends, Frees, Waits, Works
<1>14. \A u \in Threads : event'[u] => pc'[u] \in {"sleep_ready", "sleep_linked"}
  BY <1>1, <1>3 DEF Queue
<1>15. (lo < hi => next[At(w2[hi - 1])] = None /\ nextFlag[At(w2[hi - 1])] = Clear)'
  <2>1. hi - 1 \in lo .. hi - 1 /\ hi - 1 # lo
    BY <1>4
  <2>2. PICK m \in Node : m = At(who[hi - 1]) /\ m # Proxy
    BY <1>2, <2>1, MyNodes
  <2> QED
    BY <1>1, <1>2, <1>7, <1>8, <1>11, <2>1, <2>2 DEF Queue
<1> QED
  BY <1>9, <1>12, <1>13, <1>14, <1>15 DEF Queue

-----------------------------------------------------------------------------
(* Steps outside of the queue                                              *)

\* Nodes and flags of the queue are left alone; t is not in it.
LEMMA OutsideStep ==
  ASSUME NodesOutlive, LockTypes,
         NEW who \in [Nat -> Threads \cup {None}], NEW pl \in [Threads -> Nat],
         NEW lo \in Nat, NEW hi \in Nat, Queue(who, pl, lo, hi),
         NEW t \in Threads, NEW n \in Node, n # Proxy, Fresh({n}), UNCHANGED <<lock, event, pred>>,
         pc[t] \in {"idle", "released"}, pc'[t] \in {"idle", "semwait", "dead"},
         \A u \in Threads : u # t =>
           /\ pc'[u] = pc[u] /\ call'[u] = call[u] /\ held'[u] = held[u] /\ calls'[u] = calls[u]
           /\ n # MyNode(u),
         calls'[t] = calls[t] \/ \A u \in Threads : pc[u] \notin Waits
  PROVE  Queue(who, pl, lo, hi)'
<1>1. /\ ~InQueue(t) /\ ~Ends(t) /\ ~InQueue(t)' /\ ~Ends(t)' /\ ~event[t]
      /\ \A u \in Threads : u # t => (InQueue(u)' <=> InQueue(u)) /\ (Ends(u)' <=> Ends(u))
  BY DEF InQueue, Ends, Waits, Works, Frees, Queue
<1>2. Places(who, pl, lo, hi)
  BY DEF Queue
<1>3. /\ \A m \in Node : m # n => next'[m] = next[m] /\ nextFlag'[m] = nextFlag[m]
                                   /\ readyFlag'[m] = readyFlag[m]
      /\ nextFlag'[n] = Clear
  BY DEF Fresh
<1>4. \A u \in Threads : u # t => MyNode(u)' = MyNode(u)
  BY DEF MyNode
<1>5. \A i \in lo .. hi - 1 :
        i \in Nat /\ who[i] # t /\ At(who[i])' = At(who[i]) /\ At(who[i]) \in Node /\ At(who[i]) # n
  <2> SUFFICES ASSUME NEW i \in lo .. hi - 1
               PROVE  i \in Nat /\ who[i] # t /\ At(who[i])' = At(who[i]) /\ At(who[i]) \in Node
                      /\ At(who[i]) # n
    OBVIOUS
  <2>1. i \in Nat /\ who[i] \in Threads \cup {None}
    OBVIOUS
  <2>2. who[i] # t
    BY <1>1, <1>2, <2>1, MyNodes DEF Places
  <2> QED
    BY <1>4, <2>1, <2>2, MyNodes DEF At
<1>6. Places(who, pl, lo, hi)'
  <2>1. lock' = IF lo = hi THEN None ELSE At(who[hi - 1])'
    <3>1. lo # hi => hi - 1 \in lo .. hi - 1
      BY <1>2 DEF Places
    <3> QED
      BY <1>2, <1>5, <3>1 DEF Places
  <2>2. \A i \in lo .. hi - 1 : IF who[i] = None THEN i = lo ELSE InQueue(who[i])' /\ pl[who[i]] = i
    <3> SUFFICES ASSUME NEW i \in lo .. hi - 1
                 PROVE  IF who[i] = None THEN i = lo ELSE InQueue(who[i])' /\ pl[who[i]] = i
      OBVIOUS
    <3>1. who[i] \in Threads \cup {None} /\ who[i] # t
      BY <1>5
    <3> QED
      BY <1>1, <1>2, <3>1 DEF Places
  <2> QED
    BY <1>1, <1>2, <1>4, <2>1, <2>2 DEF Places
<1>7. ASSUME NEW m \in Node, Unheard(m) PROVE Unheard(m)'
  <2>1. CASE nextFlag[m] = Clear
    BY <1>3, <2>1 DEF Unheard
  <2>2. ASSUME NEW w \in Threads, pc[w] = "sleep_linked", held[w] = m, nextFlag[m] = w, ~event[w]
        PROVE  Unheard(m)'
    <3>1. w # t
      BY <2>2
    <3>2. held[w] = Proxy \/ held[w] = MyNode(w)
      BY <1>2, <2>2 DEF Places, InQueue, Ends, Frees
    <3>3. m # n
      BY <2>2, <3>1, <3>2
    <3> QED
      BY <1>3, <2>2, <3>1, <3>3 DEF Unheard
  <2> QED
    BY <1>7, <2>1, <2>2 DEF Unheard
<1>8. ASSUME NEW u \in Threads, u # t, pc[u] \in Waits, Late(who, pl, lo, u)
      PROVE  Late(who, pl, lo, u)'
  <2>1. calls'[t] = calls[t] /\ \A x \in Threads : calls'[x] = calls[x] /\ MyNode(x)' = MyNode(x)
    BY <1>8 DEF MyNode
  <2>2. pred[u] \in Node /\ nextFlag'[pred[u]] = Clear
    BY <1>3, <1>8 DEF Late
  <2>3. \A x \in Threads : InQueue(x)' <=> InQueue(x)
    BY <1>1
  <2> QED
    BY <1>8, <2>1, <2>2, <2>3 DEF Late, StackNode
<1>9. ASSUME NEW u \in Threads, pc'[u] \in Waits
      PROVE  (IF pl[u] = lo THEN First(who, pl, lo, u) ELSE Behind(who, pl, lo, u, Prev(who, pl, u)))'
  <2>1. u # t /\ pc[u] \in Waits /\ InQueue(u) /\ pc'[u] = pc[u] /\ MyNode(u) \in Node
        /\ MyNode(u) # n
    BY <1>9, MyNodes DEF Waits, InQueue
  <2>2. CASE pl[u] = lo
    <3>1. First(who, pl, lo, u)
      BY <2>1, <2>2 DEF Queue
    <3>2. First(who, pl, lo, u)'
      BY <1>3, <1>4, <1>8, <2>1, <3>1 DEF First
    <3> QED
      BY <2>2, <3>2
  <2>3. CASE pl[u] # lo
    <3>1. pl[u] - 1 \in lo .. hi - 1
      BY <1>2, <2>1, <2>3, Neighbours
    <3>2. PICK m \in Node : m = Prev(who, pl, u) /\ m # n /\ Prev(who, pl, u)' = m
      BY <1>5, <3>1 DEF Prev
    <3>3. Behind(who, pl, lo, u, m)
      BY <2>1, <2>3, <3>2 DEF Queue
    <3>4. Behind(who, pl, lo, u, m)'
      BY <1>3, <1>4, <1>7, <1>8, <2>1, <3>2, <3>3 DEF Behind
    <3> QED
      BY <2>3, <3>2, <3>4
  <2> QED
    BY <2>2, <2>3
<1>10. \A u \in Threads : Handing(lo, hi, u)'
  <2> SUFFICES ASSUME NEW u \in Threads, u # t, pc[u] \in Frees PROVE Handing(lo, hi, u)'
    BY DEF Handing, Frees
  <2>1. Handing(lo, hi, u) /\ pc'[u] = pc[u] /\ held'[u] = held[u]
    BY DEF Queue
  <2>2. held[u] \in Node /\ held[u] # n
    BY <1>2, MyNodes DEF Places, InQueue, Ends
  <2> QED
    BY <1>3, <2>1, <2>2 DEF Handing
<1>11. \A u \in Threads : pc'[u] = "adopt" => lo + 1 < hi
  BY DEF Queue
<1>12. \A u \in Threads : event'[u] => pc'[u] \in {"sleep_ready", "sleep_linked"}
  BY <1>1 DEF Queue
<1>13. (lo < hi => next[At(who[hi - 1])] = None /\ nextFlag[At(who[hi - 1])] = Clear)'
  <2>1. lo < hi => hi - 1 \in lo .. hi - 1
    OBVIOUS
  <2> QED
    BY <1>3, <1>5, <2>1 DEF Queue
<1> QED
  BY <1>6, <1>9, <1>10, <1>11, <1>12, <1>13 DEF Queue

\* The last thread of a round goes to free the lock.
LEMMA LastOutStep ==
  ASSUME NodesOutlive, LockTypes,
         NEW who \in [Nat -> Threads \cup {None}], NEW pl \in [Threads -> Nat],
         NEW lo \in Nat, NEW hi \in Nat, Queue(who, pl, lo, hi),
         NEW t \in Threads, LastOut(t), lo < hi, who[lo] = None
  PROVE  Queue(who, pl, lo, hi)'
<1>1. /\ pc[t] = "last" /\ pc' = [pc EXCEPT ![t] = "release"]
      /\ held' = [held EXCEPT ![t] = Proxy] /\ call' = [call EXCEPT ![t] = "last"]
      /\ UNCHANGED <<lock, next, nextFlag, readyFlag, event, pred, calls>>
  BY DEF LastOut, Goto, flagVars, callVars
<1>2. /\ pc'[t] = "release" /\ held'[t] = Proxy /\ call'[t] = "last"
      /\ \A u \in Threads : u # t => pc'[u] = pc[u] /\ held'[u] = held[u] /\ call'[u] = call[u]
  BY <1>1 DEF LockTypes
<1>3. /\ ~InQueue(t) /\ ~Ends(t) /\ ~InQueue(t)'
      /\ \A u \in Threads : (InQueue(u)' <=> InQueue(u)) /\ (u # t => (Ends(u)' <=> Ends(u)))
  BY <1>1, <1>2 DEF InQueue, Ends, Waits, Works, Frees
<1>4. /\ \A u \in Threads : MyNode(u)' = MyNode(u) /\ Prev(who, pl, u)' = Prev(who, pl, u)
      /\ \A w : At(w)' = At(w)
  BY <1>1, QuietNodes
<1>5. Places(who, pl, lo, hi)'
  <2>1. \A i \in lo .. hi - 1 : IF who[i] = None THEN i = lo ELSE InQueue(who[i])' /\ pl[who[i]] = i
    <3> SUFFICES ASSUME NEW i \in lo .. hi - 1
                 PROVE  IF who[i] = None THEN i = lo ELSE InQueue(who[i])' /\ pl[who[i]] = i
      OBVIOUS
    <3>1. who[i] \in Threads \cup {None}
      OBVIOUS
    <3> QED
      BY <1>3, <3>1 DEF Queue, Places
  <2> QED
    BY <1>1, <1>2, <1>3, <1>4, <2>1 DEF Queue, Places
<1>6. \A m : Unheard(m) => Unheard(m)'
  BY <1>1, <1>2 DEF Unheard
<1>7. ASSUME NEW u \in Threads, Late(who, pl, lo, u) PROVE Late(who, pl, lo, u)'
  <2>1. nextFlag'[pred[u]] = Clear /\ pred'[u] = pred[u]
    BY <1>1, <1>7 DEF Late
  <2> QED
    BY <1>1, <1>3, <1>7, <2>1, SameLate
<1>8. ASSUME NEW u \in Threads, pc'[u] \in Waits
      PROVE  (IF pl[u] = lo THEN First(who, pl, lo, u) ELSE Behind(who, pl, lo, u, Prev(who, pl, u)))'
  <2>1. u # t /\ pc[u] \in Waits /\ pc'[u] = pc[u]
    BY <1>2, <1>8 DEF Waits
  <2>2. CASE pl[u] = lo
    BY <1>1, <1>4, <1>7, <2>1, <2>2 DEF Queue, First
  <2>3. CASE pl[u] # lo
    BY <1>1, <1>4, <1>6, <1>7, <2>1, <2>3 DEF Queue, Behind
  <2> QED
    BY <2>2, <2>3
<1>9. \A u \in Threads : Handing(lo, hi, u)'
  BY <1>1, <1>2 DEF Queue, Handing
<1> QED
  BY <1>1, <1>2, <1>4, <1>5, <1>8, <1>9 DEF Queue

-----------------------------------------------------------------------------
(* What the queue means to its users                                       *)

\* A thread that owns the lock does so alone, and no round leaves the barrier.
Ruled ==
  /\ OneEnds
  /\ \A t \in Threads : InQueue(t) /\ pc[t] \notin Waits =>
       /\ \A u \in Threads : ~Last(u) /\ (InQueue(u) /\ pc[u] \notin Waits => u = t)
       /\ pc[t] \notin {"transfer", "adopt"} => ~open
  /\ \A t \in Threads : pc[t] = "pass" => next[held[t]] # None
  /\ \A t \in Threads : pc[t] \in Frees \cup {"adopt"} => held[t] \in Node
  /\ lock \in Node \cup {None}

LEMMA QueueRules ==
  ASSUME NodesOutlive, LockTypes, Round,
         NEW who \in [Nat -> Threads \cup {None}], NEW pl \in [Threads -> Nat],
         NEW lo \in Nat, NEW hi \in Nat, Queue(who, pl, lo, hi), NodeThere(who, lo, hi)
  PROVE  Ruled
<1>1. OneEnds
  BY DEF Round, OneEnds, Last
<1>2. ASSUME NEW t \in Threads, InQueue(t), pc[t] \notin Waits
      PROVE  /\ \A u \in Threads : ~Last(u) /\ (InQueue(u) /\ pc[u] \notin Waits => u = t)
             /\ pc[t] \notin {"transfer", "adopt"} => ~open
  <2>1. Leads(t) /\ Places(who, pl, lo, hi) /\ ~Ends(t)
    BY <1>2 DEF Leads, Queue, InQueue, Ends, Waits, Works, Frees
  <2>2. who[lo] # None
    BY <2>1, Leader, MyNodes
  <2>3. \A u \in Threads : Leads(u) => u = t
    BY <1>1, <2>1, OneLeader
  <2>4. ASSUME pc[t] \notin {"transfer", "adopt"} PROVE \A u \in Threads : pc[u] \notin {"transfer", "adopt"}
    BY <2>3, <2>4 DEF Leads, InQueue, Waits, Works
  <2> QED
    BY <2>2, <2>3, <2>4 DEF NodeThere, Leads
<1>3. \A t \in Threads : pc[t] = "pass" => next[held[t]] # None
  BY DEF Queue, Handing
<1>4. ASSUME NEW t \in Threads, pc[t] \in Frees \cup {"adopt"} PROVE held[t] \in Node
  <2>1. Leads(t)
    BY <1>4 DEF Leads, InQueue, Ends, Waits, Works, Frees
  <2> QED
    BY <2>1, Leader DEF Queue
<1>5. lock \in Node \cup {None}
  <2>1. Places(who, pl, lo, hi)
    BY DEF Queue
  <2>2. lo # hi => hi - 1 \in lo .. hi - 1
    BY <2>1 DEF Places
  <2> QED
    <3>1. ASSUME lo # hi PROVE At(who[hi - 1]) \in Node
      BY <2>1, <2>2, <3>1, Distinct
    <3> QED
      BY <2>1, <3>1 DEF Places
<1> QED
  BY <1>1, <1>2, <1>3, <1>4, <1>5 DEF Ruled

\* Where an instruction of the lock leads.
LEMMA LockMoves ==
  ASSUME LockTypes, Ruled, NEW t \in Threads, LockStep(t)
  PROVE  /\ \A u \in Threads : u # t => pc'[u] = pc[u]
         /\ UNCHANGED <<job, call, barrierVars, onceVars>>
         /\ \/ pc[t] \in Coming \ {"locked"} /\ pc'[t] \in Coming \ {"enqueue"}
            \/ pc[t] \in Frees /\ pc'[t] \in Frees \cup {"released"}
            \/ pc[t] \in {"transfer", "adopt"} /\ pc'[t] \in {"adopt", "transferred"}
         /\ begun' >= begun /\ begun' \in Nat
<1> USE DEF LockTypes, Coming, Frees, Goto, callVars
<1>1. UNCHANGED <<job, call, barrierVars, onceVars>> /\ McsStep(t)
  BY DEF LockStep
<1>2. CASE Enqueue(t)
  BY <1>1, <1>2 DEF Enqueue
<1>3. CASE Link(t)
  BY <1>1, <1>3 DEF Link
<1>4. CASE Notify(t)
  BY <1>1, <1>4 DEF Notify
<1>5. CASE AwaitReady(t)
  BY <1>1, <1>5 DEF AwaitReady, FlagWait
<1>6. CASE WakeUp(t, "sleep_ready", "locked")
  BY <1>1, <1>6 DEF WakeUp
<1>7. CASE Release(t)
  BY <1>1, <1>7 DEF Release
<1>8. CASE Unlock(t)
  BY <1>1, <1>8 DEF Unlock
<1>9. CASE AwaitLink(t)
  BY <1>1, <1>9 DEF AwaitLink, FlagWait
<1>10. CASE WakeUp(t, "sleep_linked", "pass")
  BY <1>1, <1>10 DEF WakeUp
<1>11. CASE Pass(t)
  BY <1>1, <1>11 DEF Pass, Ruled
<1>12. CASE Transfer(t)
  BY <1>1, <1>12 DEF Transfer
<1>13. CASE Adopt(t)
  BY <1>1, <1>13 DEF Adopt
<1> QED
  BY <1>1, <1>2, <1>3, <1>4, <1>5, <1>6, <1>7, <1>8, <1>9, <1>10, <1>11, <1>12, <1>13
  DEF McsStep, Acquire, ReleaseLock

\* The variables of the lock keep their types.
LEMMA TypesKept ==
  ASSUME NodesOutlive, LockTypes, Ruled, NEW t \in Threads,
         BarrierWait(t) \/ Destroy(t) \/ Once(t) \/ CondInit(t) \/ InCall(t)
  PROVE  LockTypes'
<1> USE DEF LockTypes, Goto, callVars, flagVars
<1> DEFINE n == StackNode(t, calls[t] + 1)
<1>1. n \in Node /\ MyNode(t) \in Node /\ Proxy \in Node
  <2>1. calls[t] \in Nat /\ calls[t] + 1 \in Nat
    OBVIOUS
  <2> QED
    BY <2>1, Nodes, MyNodes
<1> HIDE DEF n
<1> USE DEF Waits, Works, Frees
<1>2. CASE Destroy(t)
  BY <1>1, <1>2 DEF Destroy, TryAcquire, Fresh, n
<1>3. CASE BarrierWait(t)
  BY <1>3 DEF BarrierWait, Call, Continue
<1>4. CASE Once(t)
  BY <1>4 DEF Once, Call, Continue
<1>5. CASE CondInit(t)
  BY <1>5 DEF CondInit, Call, Continue
<1>6. CASE Released(t)
  BY <1>1, <1>6 DEF Released, Fresh
<1>7. CASE Arrive(t)
  BY <1>7 DEF Arrive, Continue
<1>8. CASE BreakBarrier(t) \/ SemWait(t) \/ Leave(t) \/ OtherOut(t) \/ Destroying(t) \/ OnceLocked(t)
           \/ MarkDone(t) \/ AppendToList(t)
  BY <1>8 DEF BreakBarrier, SemWait, Leave, OtherOut, Destroying, OnceLocked, MarkDone, AppendToList,
     Continue
<1>9. CASE LastOut(t)
  BY <1>1, <1>9 DEF LastOut
<1>10. CASE InitRoutine(t)
  BY <1>10 DEF InitRoutine, Continue
<1>11. CASE LockStep(t)
  <2>1. McsStep(t) /\ UNCHANGED call
    BY <1>11 DEF LockStep
  <2>2. CASE Enqueue(t)
    <3>1. /\ next' \in [Node -> Node \cup {None}]
          /\ nextFlag' \in [Node -> {Clear, Set} \cup Threads]
          /\ readyFlag' \in [Node -> {Clear, Set} \cup Threads]
      BY <2>2 DEF Enqueue, Fresh
    <3>2. lock \in Node \cup {None}
      BY <2>2 DEF Enqueue, Ruled
    <3> QED
      BY <1>1, <2>1, <2>2, <3>1, <3>2 DEF Enqueue, n
  <2>3. CASE Link(t)
    BY <2>1, <2>3 DEF Link
  <2>4. CASE Notify(t)
    BY <2>1, <2>4 DEF Notify, FlagSet
  <2>5. CASE AwaitReady(t)
    BY <2>1, <2>5 DEF AwaitReady, FlagWait
  <2>6. CASE WakeUp(t, "sleep_ready", "locked")
    BY <2>1, <2>6 DEF WakeUp
  <2>7. CASE Release(t)
    BY <2>1, <2>7 DEF Release
  <2>8. CASE Unlock(t)
    BY <2>1, <2>8 DEF Unlock
  <2>9. CASE AwaitLink(t)
    BY <2>1, <2>9 DEF AwaitLink, FlagWait
  <2>10. CASE WakeUp(t, "sleep_linked", "pass")
    BY <2>1, <2>10 DEF WakeUp
  <2>11. CASE Pass(t)
    <3>1. PICK m \in Node \cup {None} : m = next[held[t]] /\ m # None
      BY <2>11 DEF Pass, Ruled
    <3>2. readyFlag' \in [Node -> {Clear, Set} \cup Threads] /\ event' \in [Threads -> BOOLEAN]
      BY <2>11, <3>1 DEF Pass, FlagSet
    <3> QED
      BY <2>1, <2>11, <3>1, <3>2 DEF Pass
  <2>12. CASE Transfer(t)
    BY <1>1, <2>1, <2>12 DEF Transfer, Fresh
  <2>13. CASE Adopt(t)
    BY <2>1, <2>13 DEF Adopt, Ruled
  <2> QED
    BY <2>1, <2>2, <2>3, <2>4, <2>5, <2>6, <2>7, <2>8, <2>9, <2>10, <2>11, <2>12, <2>13
    DEF McsStep, Acquire, ReleaseLock
<1> QED
  BY <1>2, <1>3, <1>4, <1>5, <1>6, <1>7, <1>8, <1>9, <1>10, <1>11 DEF InCall

-----------------------------------------------------------------------------
(* The users                                                               *)

StepOf(t) == BarrierWait(t) \/ Destroy(t) \/ Once(t) \/ CondInit(t) \/ InCall(t)

LEMMA CallsKept ==
  ASSUME LockTypes, Ruled, Calls, NEW t \in Threads, StepOf(t)
  PROVE  Calls'
<1> USE DEF LockTypes, Calls, Goto, Coming, Filled, Frees
<1>1. CASE LockStep(t)
  <2>1. /\ \A u \in Threads : u # t => pc'[u] = pc[u]
        /\ job' = job /\ call' = call
        /\ \/ pc[t] \in Coming \ {"locked"} /\ pc'[t] \in Coming \ {"enqueue"}
           \/ pc[t] \in Frees /\ pc'[t] \in Frees \cup {"released"}
           \/ pc[t] \in {"transfer", "adopt"} /\ pc'[t] \in {"adopt", "transferred"}
    BY ONLY LockTypes, Ruled, <1>1, LockMoves
  <2> QED
    BY <2>1
<1>2. CASE Destroy(t)
  BY <1>2 DEF Destroy, TryAcquire
<1>3. CASE BarrierWait(t) \/ Once(t) \/ CondInit(t)
  BY <1>3 DEF BarrierWait, Once, CondInit, Call, Continue
<1>4. CASE Released(t)
  BY <1>4 DEF Released
<1>5. CASE Arrive(t) \/ BreakBarrier(t) \/ SemWait(t) \/ Leave(t) \/ OtherOut(t)
  BY <1>5 DEF Arrive, BreakBarrier, SemWait, Leave, OtherOut, Continue
<1>6. CASE LastOut(t)
  BY <1>6 DEF LastOut
<1>7. CASE Destroying(t) \/ OnceLocked(t) \/ MarkDone(t) \/ AppendToList(t)
  BY <1>7 DEF Destroying, OnceLocked, MarkDone, AppendToList, Continue
<1>8. CASE InitRoutine(t)
  BY <1>8 DEF InitRoutine, Continue
<1> QED
  BY <1>1, <1>2, <1>3, <1>4, <1>5, <1>6, <1>7, <1>8 DEF StepOf, InCall

\* A step that leaves the round alone.
LEMMA RoundSame ==
  ASSUME Round, UNCHANGED <<inside, height, sem, open, serial>>, NEW t \in Threads,
         \A u \in Threads : u # t => pc'[u] = pc[u] /\ call'[u] = call[u],
         t \in inside <=> call'[t] = "wait"
                          /\ pc'[t] \in Frees \cup Filled \cup {"released", "semwait", "leave"},
         pc'[t] \in Filled <=> pc[t] \in Filled, pc'[t] = "leave" <=> pc[t] = "leave",
         Last(t)' => Last(t)
  PROVE  Round'
<1>1. \A u \in Threads : /\ pc'[u] \in Filled <=> pc[u] \in Filled
                         /\ pc'[u] \in Filled \cup {"leave"} <=> pc[u] \in Filled \cup {"leave"}
                         /\ Last(u)' => Last(u)
  BY DEF Last, Ends
<1>2. Sleepers' = Sleepers
  BY DEF Round, Sleepers, Frees, Filled
<1>3. \A u \in Threads :
        u \in inside <=>
          call'[u] = "wait" /\ pc'[u] \in Frees \cup Filled \cup {"released", "semwait", "leave"}
  BY DEF Round
<1> QED
  BY <1>1, <1>2, <1>3 DEF Round

\* The last one that came wakes the others.
LEMMA BreakKept ==
  ASSUME LockTypes, Calls, Round, NEW t \in Threads, BreakBarrier(t)
  PROVE  Round'
<1>1. /\ pc[t] = "transferred" /\ pc' = [pc EXCEPT ![t] = "leave"] /\ sem' = sem + (Height - 1)
      /\ UNCHANGED <<call, height, inside, open, serial>>
  BY DEF BreakBarrier, Continue, Goto
<1>2. /\ pc'[t] = "leave" /\ \A u \in Threads : u # t => pc'[u] = pc[u]
      /\ call[t] = "wait" /\ t \in inside /\ open
  BY <1>1 DEF LockTypes, Calls, Round, Filled
<1>3. /\ sem = 0 /\ height = 0 /\ \A u \in Threads : pc[u] \in Filled \cup {"leave"} => u = t
  BY <1>1 DEF Round, Filled
<1>4. Sleepers' = inside \ {t}
  BY <1>1, <1>2, <1>3 DEF Round, Sleepers, Filled, Frees
<1>5. Cardinality(inside) = Height /\ Height \in Nat /\ Cardinality(inside \ {t}) = Cardinality(inside) - 1
  <2>1. IsFiniteSet(inside) /\ Cardinality(inside) \in Nat
    BY FS_CardinalityType DEF Round
  <2>2. Cardinality(inside \ {t}) = Cardinality(inside) - 1
    BY <1>2, <2>1, FS_RemoveElement
  <2> QED
    BY <1>3, <2>1, <2>2, BarrierAssumption DEF Round
<1>6. sem' = Cardinality(Sleepers)' /\ sem' \in Nat
  <2>1. Height - 1 \in Nat
    BY BarrierAssumption
  <2> QED
    BY <1>1, <1>3, <1>4, <1>5, <2>1
<1>7. \A u \in Threads :
        /\ u \in inside' <=>
             call'[u] = "wait" /\ pc'[u] \in Frees \cup Filled \cup {"released", "semwait", "leave"}
        /\ pc'[u] \notin Filled /\ (Last(u)' => Last(u))
  BY <1>1, <1>2, <1>3 DEF Round, Last, Ends, Filled, Frees
<1> QED
  BY <1>1, <1>2, <1>6, <1>7 DEF Round

LEMMA SemWaitKept ==
  ASSUME LockTypes, Calls, Round, NEW t \in Threads, SemWait(t)
  PROVE  Round'
<1>1. /\ pc[t] = "semwait" /\ sem > 0 /\ sem' = sem - 1 /\ pc' = [pc EXCEPT ![t] = "leave"]
      /\ UNCHANGED <<call, height, inside, open, serial>>
  BY DEF SemWait, Continue, Goto
<1>2. /\ pc'[t] = "leave" /\ \A u \in Threads : u # t => pc'[u] = pc[u]
      /\ call[t] = "wait" /\ t \in inside
  BY <1>1 DEF LockTypes, Calls, Round, Filled
<1>3. open /\ (\A u \in Threads : pc[u] \notin Filled) /\ sem = Cardinality(Sleepers)
  <2>1. sem # 0
    BY <1>1 DEF Round
  <2> QED
    BY <2>1 DEF Round
<1>4. Sleepers' = Sleepers \ {t} /\ t \in Sleepers /\ IsFiniteSet(Sleepers)
  <2>1. Sleepers \subseteq inside
    BY DEF Sleepers
  <2>2. IsFiniteSet(Sleepers)
    BY <2>1, FS_Subset DEF Round
  <2> QED
    BY <1>1, <1>2, <2>2 DEF Sleepers, Frees
<1>5. sem' = Cardinality(Sleepers)' /\ sem' \in Nat
  <2>1. Cardinality(Sleepers \ {t}) = Cardinality(Sleepers) - 1
    BY <1>4, FS_RemoveElement
  <2>2. Cardinality(Sleepers \ {t}) = sem - 1 /\ sem - 1 \in Nat
    BY <1>1, <1>3, <2>1 DEF Round
  <2> QED
    BY <1>1, <1>4, <2>2
<1>6. \A u \in Threads :
        /\ u \in inside' <=>
             call'[u] = "wait" /\ pc'[u] \in Frees \cup Filled \cup {"released", "semwait", "leave"}
        /\ pc'[u] \notin Filled /\ (Last(u)' => Last(u))
  BY <1>1, <1>2, <1>3 DEF Round, Last, Ends, Filled, Frees
<1> QED
  BY <1>1, <1>3, <1>5, <1>6 DEF Round

\* A thread comes to the barrier: none is leaving it.
LEMMA ArriveKept ==
  ASSUME LockTypes, Ruled, Calls, Round, NEW t \in Threads, Arrive(t)
  PROVE  Round' /\ ~open /\ t \notin inside
<1>1. /\ pc[t] = "locked" /\ call[t] = "wait" /\ height' = height - 1
      /\ inside' = inside \cup {t} /\ open' = (height = 1) /\ serial' = FALSE
      /\ pc' = [pc EXCEPT ![t] = IF height = 1 THEN "transfer" ELSE "release"]
      /\ UNCHANGED <<call, sem>>
  BY DEF Arrive, Continue, Goto
<1>2. InQueue(t) /\ pc[t] \notin Waits /\ pc[t] \notin {"transfer", "adopt"}
  BY <1>1 DEF InQueue, Waits, Works
<1>3. ~open /\ \A u \in Threads : ~Last(u)
  BY <1>2 DEF Ruled
<1>4. t \notin inside /\ sem = 0 /\ height > 0 /\ \A u \in Threads : pc[u] \notin Filled \cup {"leave"}
  BY <1>1, <1>3 DEF Round, Filled, Frees
<1>5. /\ pc'[t] = (IF height = 1 THEN "transfer" ELSE "release")
      /\ \A u \in Threads : u # t => pc'[u] = pc[u]
  BY <1>1 DEF LockTypes
<1>6. /\ inside' \subseteq Threads /\ IsFiniteSet(inside')
      /\ Cardinality(inside') + height' = Height /\ height' \in Nat /\ (height' = 0 <=> height = 1)
  <2>1. IsFiniteSet(inside) /\ Cardinality(inside) \in Nat /\ height \in Nat
        /\ Cardinality(inside) + height = Height
    BY FS_CardinalityType DEF Round
  <2>2. IsFiniteSet(inside \cup {t}) /\ Cardinality(inside \cup {t}) = Cardinality(inside) + 1
    BY <1>4, <2>1, FS_AddElement
  <2>3. inside \cup {t} \subseteq Threads
    BY DEF Round
  <2>4. (Cardinality(inside) + 1) + (height - 1) = Height /\ height - 1 \in Nat
        /\ (height - 1 = 0 <=> height = 1)
    BY <1>4, <2>1
  <2> QED
    BY <1>1, <2>2, <2>3, <2>4
<1>7. \A u \in Threads :
        /\ u \in inside' <=>
             call'[u] = "wait" /\ pc'[u] \in Frees \cup Filled \cup {"released", "semwait", "leave"}
        /\ pc'[u] \in Filled \cup {"leave"} => u = t /\ height = 1
        /\ ~Last(u)'
  <2> SUFFICES ASSUME NEW u \in Threads
               PROVE  /\ u \in inside' <=>
                           call'[u] = "wait" /\ pc'[u] \in Frees \cup Filled \cup {"released", "semwait", "leave"}
                      /\ pc'[u] \in Filled \cup {"leave"} => u = t /\ height = 1
                      /\ ~Last(u)'
    OBVIOUS
  <2>1. CASE u = t
    BY <1>1, <1>5, <2>1 DEF Filled, Frees, Last, Ends
  <2>2. CASE u # t
    BY <1>1, <1>3, <1>4, <1>5, <2>2 DEF Round, Last, Ends
  <2> QED
    BY <2>1, <2>2
<1>10. open' \in BOOLEAN /\ serial' \in BOOLEAN
  BY <1>1
<1>11. sem' \in Nat
  BY <1>1, <1>4
<1>8. CASE height = 1
  <2>1. pc'[t] = "transfer" /\ open' /\ ~serial' /\ inside' # {} /\ sem' = 0 /\ height' = 0
    BY <1>1, <1>4, <1>5, <1>6, <1>8
  <2> QED
    BY <1>3, <1>4, <1>6, <1>7, <1>10, <1>11, <2>1 DEF Round, Filled
<1>9. CASE height # 1
  <2>1. ~open' /\ ~serial' /\ sem' = 0
    BY <1>1, <1>4, <1>6, <1>9
  <2>2. height' > 0
    BY <1>6, <1>9
  <2> QED
    BY <1>3, <1>4, <1>6, <1>7, <1>9, <1>10, <1>11, <2>1, <2>2 DEF Round, Filled
<1> QED
  BY <1>8, <1>9

\* A thread leaves: the last one closes the round.
LEMMA LeaveKept ==
  ASSUME LockTypes, Calls, Round, NEW t \in Threads, Leave(t)
  PROVE  /\ Round' /\ open /\ ~serial /\ t \in inside
         /\ inside = {t} <=> height + 1 = Height
         /\ \A u \in Threads : pc[u] \notin Filled
<1>1. /\ pc[t] = "leave" /\ height' = height + 1 /\ inside' = inside \ {t}
      /\ open' = (inside # {t}) /\ serial' = (serial \/ height + 1 = Height)
      /\ pc' = [pc EXCEPT ![t] = IF height + 1 = Height THEN "last" ELSE "compare"]
      /\ UNCHANGED <<call, sem>>
  BY DEF Leave, Continue, Goto
<1>2. /\ pc'[t] = (IF height + 1 = Height THEN "last" ELSE "compare")
      /\ \A u \in Threads : u # t => pc'[u] = pc[u]
      /\ call[t] = "wait" /\ t \in inside /\ open /\ ~serial
  BY <1>1 DEF LockTypes, Calls, Round
<1>3. \A u \in Threads : pc[u] \notin Filled /\ ~Last(u)
  BY <1>1, <1>2 DEF Round, Filled
<1>4. sem = Cardinality(Sleepers) /\ Sleepers' = Sleepers /\ t \notin Sleepers
  BY <1>1, <1>2, <1>3 DEF Round, Sleepers, Frees
<1>5. /\ inside' \subseteq Threads /\ IsFiniteSet(inside')
      /\ Cardinality(inside') + height' = Height /\ height' \in Nat /\ height' > 0
      /\ inside = {t} <=> height + 1 = Height
  <2>1. IsFiniteSet(inside) /\ Cardinality(inside) \in Nat /\ height \in Nat
        /\ Cardinality(inside) + height = Height
    BY FS_CardinalityType DEF Round
  <2>2. IsFiniteSet(inside \ {t}) /\ Cardinality(inside \ {t}) = Cardinality(inside) - 1
    BY <1>2, <2>1, FS_RemoveElement
  <2>3. inside \ {t} \subseteq Threads
    BY DEF Round
  <2>4. inside = {t} <=> Cardinality(inside) = 1
    <3>1. Cardinality({t}) = 1
      BY FS_Singleton
    <3>2. Cardinality(inside \ {t}) = 0 => inside \ {t} = {}
      BY <2>2, FS_EmptySet
    <3>3. ASSUME Cardinality(inside) = 1 PROVE inside = {t}
      <4>1. inside \ {t} = {}
        BY <2>2, <3>2, <3>3
      <4> QED
        BY <1>2, <4>1
    <3> QED
      BY <3>1, <3>3
  <2>5. (Cardinality(inside) - 1) + (height + 1) = Height /\ height + 1 \in Nat /\ height + 1 > 0
        /\ (Cardinality(inside) = 1 <=> height + 1 = Height)
    BY <2>1, BarrierAssumption
  <2> QED
    BY <1>1, <2>2, <2>3, <2>4, <2>5
<1>6. \A u \in Threads :
        /\ u \in inside' <=>
             call'[u] = "wait" /\ pc'[u] \in Frees \cup Filled \cup {"released", "semwait", "leave"}
        /\ pc'[u] \notin Filled
        /\ Last(u)' => u = t /\ height + 1 = Height
        /\ pc'[u] = "leave" => u # t /\ u \in inside
  <2> SUFFICES ASSUME NEW u \in Threads
               PROVE  /\ u \in inside' <=>
                           call'[u] = "wait" /\ pc'[u] \in Frees \cup Filled \cup {"released", "semwait", "leave"}
                      /\ pc'[u] \notin Filled
                      /\ Last(u)' => u = t /\ height + 1 = Height
                      /\ pc'[u] = "leave" => u # t /\ u \in inside
    OBVIOUS
  <2>1. CASE u = t
    BY <1>1, <1>2, <2>1 DEF Filled, Frees, Last, Ends
  <2>2. CASE u # t
    <3>1. pc'[u] = pc[u] /\ call'[u] = call[u] /\ (u \in inside' <=> u \in inside)
      BY <1>1, <1>2, <2>2
    <3>2. pc[u] = "leave" => call[u] = "wait"
      BY DEF Calls
    <3> QED
      BY <1>3, <2>2, <3>1, <3>2 DEF Round, Last, Ends
  <2> QED
    BY <2>1, <2>2
<1>9. open' \in BOOLEAN /\ serial' \in BOOLEAN
  BY <1>1
<1>7. CASE height + 1 = Height
  <2>1. inside' = {} /\ ~open' /\ inside = {t}
    BY <1>1, <1>2, <1>5, <1>7
  <2>2. sem' = 0
    <3>1. Sleepers \subseteq {}
      BY <1>4, <1>5, <1>7 DEF Sleepers
    <3> QED
      BY <1>1, <1>4, <3>1, FS_EmptySet
  <2> QED
    BY <1>2, <1>3, <1>5, <1>6, <1>9, <2>1, <2>2 DEF Round
<1>8. CASE height + 1 # Height
  <2>1. inside # {t}
    BY <1>5, <1>8
  <2>2. inside' # {} /\ open'
    BY <1>1, <1>2, <2>1
  <2>3. ~serial'
    BY <1>1, <1>2, <1>8
  <2>4. sem' = Cardinality(Sleepers)' /\ sem' \in Nat
    BY <1>1, <1>4 DEF Round
  <2> QED
    BY <1>2, <1>3, <1>5, <1>6, <1>8, <1>9, <2>2, <2>3, <2>4 DEF Round
<1> QED
  BY <1>7, <1>8

LEMMA RoundKept ==
  ASSUME LockTypes, Ruled, Calls, Round, NEW t \in Threads, StepOf(t)
  PROVE  Round'
<1> DEFINE Places3 == Frees \cup Filled \cup {"released", "semwait", "leave"}
<1>1. t \in inside <=> call[t] = "wait" /\ pc[t] \in Places3
  BY DEF Round
<1>2. CASE LockStep(t)
  <2>1. /\ \A u \in Threads : u # t => pc'[u] = pc[u]
        /\ UNCHANGED <<job, call, barrierVars, onceVars>>
        /\ \/ pc[t] \in Coming \ {"locked"} /\ pc'[t] \in Coming \ {"enqueue"}
           \/ pc[t] \in Frees /\ pc'[t] \in Frees \cup {"released"}
           \/ pc[t] \in {"transfer", "adopt"} /\ pc'[t] \in {"adopt", "transferred"}
    BY <1>2, LockMoves
  <2>2. /\ pc'[t] \in Places3 <=> pc[t] \in Places3
        /\ pc'[t] \in Filled <=> pc[t] \in Filled
        /\ pc'[t] = "leave" <=> pc[t] = "leave"
        /\ Last(t)' => Last(t)
    BY <2>1 DEF Coming, Frees, Filled, Last, Ends
  <2>3. UNCHANGED <<inside, height, sem, open, serial>>
    BY <2>1 DEF barrierVars
  <2> QED
    BY <1>1, <2>1, <2>2, <2>3, RoundSame
<1>3. ASSUME Goto(t, pc'[t]), call' \in {call, [call EXCEPT ![t] = call'[t]]},
             UNCHANGED <<inside, height, sem, open, serial>>,
             pc[t] \notin Filled \cup {"leave"}, pc'[t] \notin Filled \cup {"leave"},
             t \in inside <=> call'[t] = "wait" /\ pc'[t] \in Places3,
             Last(t)' => Last(t)
      PROVE  Round'
  <2>1. \A u \in Threads : u # t => pc'[u] = pc[u] /\ call'[u] = call[u]
    BY <1>3 DEF LockTypes, Goto
  <2>2. pc'[t] \in Filled <=> pc[t] \in Filled
    BY <1>3
  <2>3. pc'[t] = "leave" <=> pc[t] = "leave"
    BY <1>3
  <2> QED
    BY <1>3, <2>1, <2>2, <2>3, RoundSame
<1> USE DEF Goto, Continue, Frees, Filled, Last, Ends, LockTypes, Calls
<1>4. CASE BarrierWait(t) \/ Once(t) \/ CondInit(t)
  <2>1. PICK f : pc[t] = "idle" /\ pc' = [pc EXCEPT ![t] = "enqueue"]
                 /\ call' = [call EXCEPT ![t] = f] /\ UNCHANGED <<inside, height, sem, open, serial>>
    BY <1>4 DEF BarrierWait, Once, CondInit, Call, barrierVars
  <2> QED
    BY <1>1, <1>3, <2>1
<1>5. CASE Destroy(t)
  <2>1. /\ pc[t] = "idle" /\ pc' = [pc EXCEPT ![t] = pc'[t]] /\ pc'[t] \in {"idle", "destroying"}
        /\ call' = [call EXCEPT ![t] = "destroy"] /\ UNCHANGED <<inside, height, sem, open, serial>>
    BY <1>5 DEF Destroy, TryAcquire, barrierVars
  <2> QED
    BY <1>1, <1>3, <2>1
<1>6. CASE Released(t)
  <2>1. /\ pc[t] = "released"
        /\ pc' = [pc EXCEPT ![t] = CASE call[t] = "wait" -> "semwait"
                                     [] call[t] = "cancelled" -> "dead"
                                     [] OTHER -> "idle"]
        /\ call' = call /\ UNCHANGED <<inside, height, sem, open, serial>>
    BY <1>6 DEF Released
  <2>2. pc'[t] \in {"semwait", "dead", "idle"} /\ (pc'[t] = "semwait" <=> call[t] = "wait")
    BY <2>1
  <2>3. pc' = [pc EXCEPT ![t] = pc'[t]]
    BY <2>1
  <2> QED
    BY <1>1, <1>3, <2>1, <2>2, <2>3
<1>7. CASE LastOut(t)
  <2>1. /\ pc[t] = "last" /\ pc' = [pc EXCEPT ![t] = "release"]
        /\ call' = [call EXCEPT ![t] = "last"] /\ UNCHANGED <<inside, height, sem, open, serial>>
    BY <1>7 DEF LastOut, barrierVars
  <2> QED
    BY <1>1, <1>3, <2>1
<1>8. CASE OtherOut(t)
  <2>1. /\ pc[t] = "compare" /\ pc' = [pc EXCEPT ![t] = "idle"] /\ call' = call
        /\ UNCHANGED <<inside, height, sem, open, serial>>
    BY <1>8 DEF OtherOut, barrierVars
  <2> QED
    BY <1>1, <1>3, <2>1
<1>9. CASE Destroying(t)
  <2>1. /\ pc[t] = "destroying" /\ pc' = [pc EXCEPT ![t] = "release"] /\ call' = call
        /\ UNCHANGED <<inside, height, sem, open, serial>> /\ call[t] = "destroy"
    BY <1>9 DEF Destroying
  <2> QED
    BY <1>1, <1>3, <2>1
<1>10. CASE OnceLocked(t) \/ MarkDone(t) \/ AppendToList(t)
  <2>1. /\ pc[t] \in {"locked", "mark"} /\ pc'[t] \in {"release", "init"} /\ call' = call
        /\ pc' = [pc EXCEPT ![t] = pc'[t]]
        /\ UNCHANGED <<inside, height, sem, open, serial>> /\ call[t] \in {"once", "list"}
    BY <1>10 DEF OnceLocked, MarkDone, AppendToList, barrierVars
  <2> QED
    BY <1>1, <1>3, <2>1
<1>11. CASE InitRoutine(t)
  <2>1. /\ pc[t] = "init" /\ pc'[t] \in {"release", "mark"} /\ call[t] = "once"
        /\ pc' = [pc EXCEPT ![t] = pc'[t]] /\ call'[t] \in {"once", "cancelled"}
        /\ call' \in {call, [call EXCEPT ![t] = call'[t]]}
        /\ UNCHANGED <<inside, height, sem, open, serial>>
    BY <1>11 DEF InitRoutine, barrierVars
  <2> QED
    BY <1>1, <1>3, <2>1
<1>12. CASE Arrive(t)
  BY ONLY <1>12, LockTypes, Ruled, Calls, Round, ArriveKept
<1>13. CASE BreakBarrier(t)
  BY ONLY <1>13, LockTypes, Calls, Round, BreakKept
<1>14. CASE SemWait(t)
  BY ONLY <1>14, LockTypes, Calls, Round, SemWaitKept
<1>15. CASE Leave(t)
  BY ONLY <1>15, LockTypes, Calls, Round, LeaveKept
<1> QED
  BY <1>2, <1>4, <1>5, <1>6, <1>7, <1>8, <1>9, <1>10, <1>11, <1>12, <1>13, <1>14, <1>15
  DEF StepOf, InCall

\* A call that has not begun its acquisition when the barrier is destroyed.
LEMMA Emptied ==
  ASSUME LockTypes, Ruled, Calls, Round, Ended, job = "barrier",
         NEW t \in Threads, pc[t] = "destroying", ~(height < Height)
  PROVE  inside = {} /\ \A u \in Threads : call[u] # "destroy" => pc[u] \in {"idle", "released", "compare"}
<1>1. InQueue(t) /\ pc[t] \notin Waits
  BY DEF InQueue, Waits, Works
<1>2. \A u \in Threads : ~Last(u)
  BY <1>1 DEF Ruled
<1>3. inside = {}
  <2>1. Cardinality(inside) \in Nat /\ IsFiniteSet(inside) /\ height \in Nat /\ Cardinality(inside) + height = Height
    BY FS_CardinalityType DEF Round
  <2>2. Cardinality(inside) = 0
    BY <2>1, BarrierAssumption
  <2> QED
    BY <2>1, <2>2, FS_EmptySet
<1>4. ASSUME NEW u \in Threads, call[u] # "destroy" PROVE pc[u] \in {"idle", "released", "compare"}
  <2>1. u # t
    BY <1>4 DEF Calls
  <2>2. pc[u] \notin Coming
    BY <2>1 DEF Ended
  <2>3. call[u] \in {"none", "wait", "last"}
    BY <1>4 DEF Calls
  <2>4. ~(call[u] = "wait" /\ pc[u] \in Frees \cup Filled \cup {"released", "semwait", "leave"})
    BY <1>3 DEF Round
  <2>5. pc[u] # "last" /\ ~(pc[u] \in Frees /\ call[u] = "last")
    BY <1>2 DEF Last, Ends
  <2>6. pc[u] \notin {"destroying", "init", "mark", "dead"}
    BY <1>4, <2>3 DEF Calls
  <2>7. pc[u] \in Waits \cup Works \cup Frees \cup
          {"idle", "enqueue", "transferred", "released", "semwait", "leave", "last", "compare", "dead"}
    BY DEF LockTypes
  <2>8. pc[u] \notin Filled \cup {"semwait", "leave"} /\ pc[u] \notin Frees
    BY <2>3, <2>4, <2>5 DEF Calls
  <2> QED
    BY <2>2, <2>5, <2>6, <2>7, <2>8 DEF Coming, Filled, Frees, Works, Waits
<1> QED
  BY <1>3, <1>4

LEMMA EndedKept ==
  ASSUME LockTypes, Ruled, Calls, Round, Ended, NEW t \in Threads, StepOf(t)
  PROVE  Ended'
<1> USE DEF Goto, Continue
\* When nobody else comes, and when the barrier is destroyed.
<1>1. ASSUME Goto(t, pc'[t]), pc'[t] # "destroying",
             pc'[t] \in Coming => pc[t] \in Coming \/ begun < MaxCalls,
             begun' \in Nat, begun' >= begun, UNCHANGED <<job, barrier>>,
             barrier # "valid" => inside' = inside,
             call' \in {call, [call EXCEPT ![t] = call'[t]]},
             barrier # "valid" /\ call'[t] # "destroy" => pc'[t] \in {"idle", "released", "compare"}
      PROVE  Ended'
  <2>1. \A u \in Threads : u # t => pc'[u] = pc[u] /\ call'[u] = call[u]
    BY <1>1 DEF LockTypes
  <2>2. ASSUME NEW u \in Threads, pc'[u] = "destroying"
        PROVE  barrier' = "valid" /\ begun' >= MaxCalls /\ \A x \in Threads : x # u => pc'[x] \notin Coming
    <3>1. u # t /\ pc[u] = "destroying"
      BY <1>1, <2>1, <2>2
    <3>2. barrier = "valid" /\ begun >= MaxCalls /\ \A x \in Threads : x # u => pc[x] \notin Coming
      BY <3>1 DEF Ended
    <3>3. begun' >= MaxCalls /\ ~(begun < MaxCalls)
      BY <1>1, <3>2, McsAssumption DEF LockTypes
    <3>4. pc'[t] \notin Coming
      BY <1>1, <3>1, <3>2, <3>3
    <3> QED
      BY <1>1, <2>1, <3>2, <3>3, <3>4
  <2>3. ASSUME barrier' # "valid"
        PROVE  /\ job' = "barrier" /\ inside' = {}
               /\ \A u \in Threads : call'[u] # "destroy" => pc'[u] \in {"idle", "released", "compare"}
    BY <1>1, <2>1, <2>3 DEF Ended
  <2> QED
    BY <2>2, <2>3 DEF Ended
<1>2. /\ barrier # "valid" => job = "barrier" /\ inside = {}
      /\ barrier # "valid" /\ call[t] # "destroy" => pc[t] \in {"idle", "released", "compare"}
      /\ begun \in Nat /\ begun >= begun
  BY DEF Ended, LockTypes
<1> USE DEF LockTypes, Calls, barrierVars, onceVars, callVars
<1>3. CASE LockStep(t)
  <2>1. /\ \A u \in Threads : u # t => pc'[u] = pc[u]
        /\ UNCHANGED <<job, call, barrierVars, onceVars>>
        /\ \/ pc[t] \in Coming \ {"locked"} /\ pc'[t] \in Coming \ {"enqueue"}
           \/ pc[t] \in Frees /\ pc'[t] \in Frees \cup {"released"}
           \/ pc[t] \in {"transfer", "adopt"} /\ pc'[t] \in {"adopt", "transferred"}
        /\ begun' >= begun /\ begun' \in Nat
    BY ONLY LockTypes, Ruled, <1>3, LockMoves
  <2>2. Goto(t, pc'[t])
    BY <1>3, <2>1 DEF LockStep, McsStep, Acquire, ReleaseLock, Enqueue, Link, Notify, AwaitReady, WakeUp,
       Release, Unlock, AwaitLink, Pass, Transfer, Adopt, FlagWait
  <2>3. barrier # "valid" /\ call'[t] # "destroy" => pc'[t] \in {"idle", "released", "compare"}
    BY <1>2, <2>1 DEF Coming, Frees
  <2>4. pc'[t] # "destroying" /\ (pc'[t] \in Coming => pc[t] \in Coming)
    BY <2>1 DEF Coming, Frees
  <2> QED
    BY <1>1, <2>1, <2>2, <2>3, <2>4
<1>4. CASE BarrierWait(t)
  <2>1. pc[t] = "idle" /\ pc'[t] = "enqueue" /\ barrier = "valid" /\ begun < MaxCalls
    BY <1>4 DEF BarrierWait, Call
  <2> QED
    BY <1>1, <1>2, <1>4, <2>1 DEF BarrierWait, Call
<1>5. CASE Once(t) \/ CondInit(t)
  <2>1. pc[t] = "idle" /\ pc'[t] = "enqueue" /\ job # "barrier" /\ begun < MaxCalls
    BY <1>5 DEF Once, CondInit, Call
  <2> QED
    BY <1>1, <1>2, <1>5, <2>1 DEF Once, CondInit, Call
<1>6. CASE Destroy(t)
  <2>1. /\ barrier = "valid" /\ NobodyComes /\ pc[t] = "idle" /\ pc'[t] \in {"idle", "destroying"}
        /\ begun' = begun + 1 /\ UNCHANGED <<job, barrier, inside>>
        /\ \A u \in Threads : u # t => pc'[u] = pc[u]
    BY <1>6 DEF Destroy, TryAcquire
  <2>2. begun' >= MaxCalls /\ \A u \in Threads : pc'[u] \notin Coming
    BY <2>1, McsAssumption DEF NobodyComes, Coming
  <2> QED
    BY <2>1, <2>2 DEF Ended
<1>7. CASE Released(t)
  <2>1. /\ pc[t] = "released" /\ Goto(t, pc'[t]) /\ pc'[t] \in {"semwait", "dead", "idle"}
        /\ pc'[t] = "semwait" => call[t] = "wait"
        /\ pc'[t] = "dead" => call[t] = "cancelled"
        /\ begun' = begun /\ UNCHANGED <<job, call, inside>>
        /\ barrier' = barrier \/ (barrier = "invalid" /\ barrier' = "freed")
    BY <1>7 DEF Released
  <2>2. barrier # "valid" /\ call[t] # "destroy" => pc'[t] = "idle"
    <3>1. barrier # "valid" => ~(call[t] = "wait" /\ pc[t] = "released")
      BY <1>2 DEF Round
    <3> QED
      BY <1>2, <2>1, <3>1
  <2>3. \A u \in Threads : u # t => pc'[u] = pc[u]
    BY <2>1
  <2>4. CASE barrier' = barrier
    BY <1>1, <1>2, <2>1, <2>2, <2>4 DEF Coming
  <2>5. CASE barrier = "invalid" /\ barrier' = "freed"
    <3>1. \A u \in Threads : pc'[u] # "destroying"
      BY <2>1, <2>3, <2>5 DEF Ended
    <3>2. \A u \in Threads : call[u] # "destroy" => pc'[u] \in {"idle", "released", "compare"}
      BY <2>2, <2>3, <2>5 DEF Ended
    <3> QED
      BY <1>2, <2>1, <2>5, <3>1, <3>2 DEF Ended
  <2> QED
    BY <2>1, <2>4, <2>5
<1>8. CASE Destroying(t)
  <2>1. /\ pc[t] = "destroying" /\ Goto(t, "release") /\ pc'[t] = "release"
        /\ begun' = begun /\ UNCHANGED <<job, call, inside>> /\ call[t] = "destroy"
        /\ barrier' = IF height < Height THEN barrier ELSE "invalid"
    BY <1>8 DEF Destroying
  <2>2. job = "barrier"
    BY <2>1
  <2>3. \A u \in Threads : u # t => pc'[u] = pc[u]
    BY <2>1
  <2>4. CASE height < Height
    BY <1>1, <1>2, <2>1, <2>4 DEF Coming
  <2>5. CASE ~(height < Height)
    <3>1. inside = {} /\ \A u \in Threads : call[u] # "destroy" => pc[u] \in {"idle", "released", "compare"}
      BY ONLY LockTypes, Ruled, Calls, Round, Ended, <2>2, <2>1, <2>5, t \in Threads, Emptied
    <3>2. \A u \in Threads : call[u] # "destroy" => pc'[u] \in {"idle", "released", "compare"}
      BY <2>1, <2>3, <3>1
    <3>3. \A u \in Threads : pc'[u] # "destroying"
      <4>1. \A u \in Threads : u # t => pc[u] # "destroying"
        <5>1. \A u \in Threads : pc[u] = "destroying" => InQueue(u) /\ pc[u] \notin Waits
          BY DEF InQueue, Waits, Works
        <5> QED
          BY <2>1, <5>1 DEF Ruled
      <4> QED
        BY <2>1, <2>3, <4>1
    <3> QED
      BY <2>1, <2>2, <2>5, <3>1, <3>2, <3>3 DEF Ended
  <2> QED
    BY <2>4, <2>5
<1>9. CASE Arrive(t) \/ BreakBarrier(t) \/ SemWait(t) \/ Leave(t)
  <2>1. /\ pc[t] \in {"locked", "transferred", "semwait", "leave"} /\ call[t] = "wait"
        /\ Goto(t, pc'[t]) /\ pc'[t] \in {"transfer", "release", "leave", "last", "compare"}
        /\ begun' = begun /\ UNCHANGED <<job, barrier, call>>
    BY <1>9 DEF Arrive, BreakBarrier, SemWait, Leave, Filled
  <2>2. barrier = "valid"
    BY <1>2, <2>1
  <2> QED
    BY <1>1, <1>2, <2>1, <2>2 DEF Coming
<1>10. CASE LastOut(t)
  <2>1. /\ pc[t] = "last" /\ Goto(t, pc'[t]) /\ pc'[t] = "release" /\ call[t] = "wait"
        /\ call' = [call EXCEPT ![t] = "last"]
        /\ begun' = begun /\ UNCHANGED <<job, barrier, inside>>
    BY <1>10 DEF LastOut, Filled
  <2>2. barrier = "valid"
    BY <1>2, <2>1
  <2> QED
    BY <1>1, <1>2, <2>1, <2>2 DEF Coming
<1>11. CASE OtherOut(t)
  <2>1. /\ pc[t] = "compare" /\ Goto(t, pc'[t]) /\ pc'[t] = "idle"
        /\ begun' = begun /\ UNCHANGED <<job, barrier, call, inside>>
    BY <1>11 DEF OtherOut
  <2> QED
    BY <1>1, <1>2, <2>1 DEF Coming
<1>12. CASE OnceLocked(t) \/ InitRoutine(t) \/ MarkDone(t) \/ AppendToList(t)
  <2>1. /\ pc[t] \in {"locked", "init", "mark"} /\ call[t] \in {"once", "list"} /\ Goto(t, pc'[t])
        /\ pc'[t] \in {"release", "init", "mark"}
        /\ call' \in {call, [call EXCEPT ![t] = call'[t]]}
        /\ begun' = begun /\ UNCHANGED <<job, barrier, inside>>
    BY <1>12 DEF OnceLocked, InitRoutine, MarkDone, AppendToList
  <2>2. barrier = "valid"
    BY <1>2, <2>1
  <2> QED
    BY <1>1, <1>2, <2>1, <2>2 DEF Coming
<1> QED
  BY <1>3, <1>4, <1>5, <1>6, <1>7, <1>8, <1>9, <1>10, <1>11, <1>12 DEF StepOf, InCall

LEMMA InitedKept ==
  ASSUME LockTypes, Ruled, Calls, Inited, NEW t \in Threads, StepOf(t)
  PROVE  Inited'
\* done and inits stay, and no thread begins or ends init_routine.
<1>1. ASSUME UNCHANGED <<done, inits>>,
             \A u \in Threads : u # t => pc'[u] = pc[u] /\ call'[u] = call[u],
             pc'[t] = "mark" <=> pc[t] = "mark", pc'[t] = "init" => ~done,
             pc'[t] \in Frees \cup {"released"} /\ call'[t] = "once" => done
      PROVE  Inited'
  <2>1. (\E u \in Threads : pc'[u] = "mark") <=> (\E u \in Threads : pc[u] = "mark")
    BY <1>1
  <2>2. \A u \in Threads :
          /\ pc'[u] \in {"init", "mark"} => ~done
          /\ pc'[u] \in Frees \cup {"released"} /\ call'[u] = "once" => done
    BY <1>1 DEF Inited
  <2> QED
    BY <1>1, <2>1, <2>2 DEF Inited
<1>2. \A u, v \in Threads : pc[u] \in {"init", "mark"} /\ pc[v] \in {"init", "mark"} => u = v
  <2>1. \A u \in Threads : pc[u] \in {"init", "mark"} => InQueue(u) /\ pc[u] \notin Waits
    BY DEF InQueue, Waits, Works
  <2> QED
    BY <2>1 DEF Ruled
<1> USE DEF LockTypes, Calls, Goto, Continue, onceVars
<1>3. CASE LockStep(t)
  <2>1. /\ \A u \in Threads : u # t => pc'[u] = pc[u]
        /\ UNCHANGED <<job, call, barrierVars, onceVars>>
        /\ \/ pc[t] \in Coming \ {"locked"} /\ pc'[t] \in Coming \ {"enqueue"}
           \/ pc[t] \in Frees /\ pc'[t] \in Frees \cup {"released"}
           \/ pc[t] \in {"transfer", "adopt"} /\ pc'[t] \in {"adopt", "transferred"}
    BY ONLY LockTypes, Ruled, <1>3, LockMoves
  <2>2. pc'[t] \in Frees \cup {"released"} /\ call[t] = "once" => done
    BY <2>1 DEF Inited, Coming, Frees
  <2> QED
    BY <1>1, <2>1, <2>2 DEF Coming, Frees
<1>4. CASE BarrierWait(t) \/ Once(t) \/ CondInit(t)
  BY <1>1, <1>4 DEF BarrierWait, Once, CondInit, Call, Frees
<1>5. CASE Destroy(t)
  BY <1>1, <1>5 DEF Destroy, TryAcquire, Frees
<1>6. CASE Released(t)
  BY <1>1, <1>6 DEF Released, Frees
<1>7. CASE Arrive(t) \/ BreakBarrier(t) \/ SemWait(t) \/ Leave(t) \/ OtherOut(t) \/ Destroying(t)
           \/ AppendToList(t)
  <2>1. /\ pc[t] \in {"locked", "transferred", "semwait", "leave", "compare", "destroying"}
        /\ pc' = [pc EXCEPT ![t] = pc'[t]]
        /\ pc'[t] \in {"transfer", "release", "leave", "last", "compare", "idle"}
        /\ call' = call /\ UNCHANGED <<done, inits>> /\ (call[t] # "once" \/ pc'[t] = "idle")
    BY <1>7 DEF Arrive, BreakBarrier, SemWait, Leave, OtherOut, Destroying, AppendToList, Filled
  <2> QED
    BY <1>1, <2>1 DEF Frees, Filled
<1>8. CASE LastOut(t)
  BY <1>1, <1>8 DEF LastOut, Frees
<1>9. CASE OnceLocked(t)
  <2>1. /\ pc[t] = "locked" /\ pc' = [pc EXCEPT ![t] = IF done THEN "release" ELSE "init"]
        /\ call' = call /\ UNCHANGED <<done, inits>>
    BY <1>9 DEF OnceLocked
  <2> QED
    BY <1>1, <2>1 DEF Frees
<1>10. CASE InitRoutine(t)
  <2>1. pc[t] = "init" /\ ~done /\ done' = done /\ \A u \in Threads : u # t => pc[u] \notin {"init", "mark"}
    BY <1>2, <1>10 DEF InitRoutine, Inited
  <2>2. inits = 0
    BY <2>1 DEF Inited
  <2>3. CASE inits' = inits + 1 /\ pc' = [pc EXCEPT ![t] = "mark"] /\ call' = call
    <3>1. pc'[t] = "mark" /\ inits' = 1 /\ \A u \in Threads : u # t => pc'[u] = pc[u]
      BY <2>2, <2>3
    <3> QED
      BY <2>1, <2>3, <3>1 DEF Inited, Frees
  <2>4. CASE inits' = inits /\ pc' = [pc EXCEPT ![t] = "release"]
             /\ call' = [call EXCEPT ![t] = "cancelled"]
    BY <1>1, <2>1, <2>4
  <2> QED
    BY <1>10, <2>3, <2>4 DEF InitRoutine
<1>11. CASE MarkDone(t)
  <2>1. /\ pc[t] = "mark" /\ done' = TRUE /\ inits' = inits /\ call' = call
        /\ pc'[t] = "release" /\ \A u \in Threads : u # t => pc'[u] = pc[u]
    BY <1>11 DEF MarkDone
  <2>2. \A u \in Threads : pc'[u] \notin {"init", "mark"}
    BY <1>2, <2>1
  <2> QED
    BY <2>1, <2>2 DEF Inited
<1> QED
  BY <1>3, <1>4, <1>5, <1>6, <1>7, <1>8, <1>9, <1>10, <1>11 DEF StepOf, InCall

\* The node of the barrier stays first.
LEMMA ThereKept ==
  ASSUME LockTypes, NEW who, NEW lo, NEW hi, NodeThere(who, lo, hi), NEW t \in Threads,
         \A u \in Threads : u # t => pc'[u] = pc[u] /\ call'[u] = call[u],
         open' => open \/ (lo < hi /\ who[lo] = None),
         pc[t] \in {"transfer", "adopt"} => pc'[t] \in {"transfer", "adopt"},
         Last(t)' => Last(t) \/ (lo < hi /\ who[lo] = None)
  PROVE  NodeThere(who, lo, hi)'
<1>1. \A u \in Threads : u # t => (Last(u)' <=> Last(u))
  BY DEF Last, Ends
<1>2. (\A u \in Threads : pc'[u] \notin {"transfer", "adopt"}) =>
         \A u \in Threads : pc[u] \notin {"transfer", "adopt"}
  OBVIOUS
<1> QED
  BY <1>1, <1>2 DEF NodeThere

-----------------------------------------------------------------------------
(* The steps of the threads                                                *)

\* There is a queue, with the node of the barrier in it while a round leaves.
Linked ==
  \E who \in [Nat -> Threads \cup {None}], pl \in [Threads -> Nat], lo \in Nat, hi \in Nat :
    Queue(who, pl, lo, hi) /\ NodeThere(who, lo, hi)

\* While a thread frees the lock no round leaves the barrier.
LEMMA FreesAlone ==
  ASSUME Ruled, Round, NEW t \in Threads, pc[t] \in Frees
  PROVE  ~open /\ \A u \in Threads : u # t => ~Last(u)
<1>1. CASE call[t] = "last"
  BY <1>1 DEF Round, Last, Ends
<1>2. CASE call[t] # "last"
  <2>1. InQueue(t) /\ pc[t] \notin Waits /\ pc[t] \notin {"transfer", "adopt"}
    BY <1>2 DEF InQueue, Frees, Waits
  <2> QED
    BY <2>1 DEF Ruled
<1> QED
  BY <1>1, <1>2

LEMMA LockStepLinked ==
  ASSUME NodesOutlive, LockTypes, Users, Ruled,
         NEW who \in [Nat -> Threads \cup {None}], NEW pl \in [Threads -> Nat],
         NEW lo \in Nat, NEW hi \in Nat, Queue(who, pl, lo, hi), NodeThere(who, lo, hi),
         NEW t \in Threads, LockStep(t)
  PROVE  Linked'
<1>1. /\ \A u \in Threads : u # t => pc'[u] = pc[u]
      /\ UNCHANGED <<job, call, barrierVars, onceVars>>
      /\ \/ pc[t] \in Coming \ {"locked"} /\ pc'[t] \in Coming \ {"enqueue"}
         \/ pc[t] \in Frees /\ pc'[t] \in Frees \cup {"released"}
         \/ pc[t] \in {"transfer", "adopt"} /\ pc'[t] \in {"adopt", "transferred"}
  BY LockMoves
<1>2. McsStep(t) /\ call' = call /\ open' = open
  BY <1>1 DEF LockStep, barrierVars
<1>3. OneEnds /\ Round
  BY DEF Ruled, Users
<1>4. Last(t)' => Last(t)
  BY <1>1, <1>2 DEF Last, Ends, Coming, Frees
<1>5. (pc[t] \in {"transfer", "adopt"} => pc'[t] = "adopt") => NodeThere(who, lo, hi)'
  BY <1>1, <1>2, <1>4, ThereKept
<1>6. CASE Enqueue(t)
  <2>1. pc[t] = "enqueue" /\ Joins(t, "locked")
    <3>1. lock = None => pred' \in {pred, [pred EXCEPT ![t] = None]}
      BY <1>6 DEF Enqueue
    <3> QED
      BY <1>6, <3>1 DEF Enqueue, Joins, Goto
  <2>2. Queue([who EXCEPT ![hi] = t], [pl EXCEPT ![t] = hi], lo, hi + 1)'
    BY <1>2, <2>1, JoinsQueue
  <2>3. NodeThere(who, lo, hi)'
    BY <1>5, <2>1
  <2>4. NodeThere([who EXCEPT ![hi] = t], lo, hi + 1)'
    BY <2>3 DEF NodeThere
  <2>5. /\ [who EXCEPT ![hi] = t] \in [Nat -> Threads \cup {None}]
        /\ [pl EXCEPT ![t] = hi] \in [Threads -> Nat] /\ hi + 1 \in Nat
    OBVIOUS
  <2> QED
    BY <2>2, <2>4, <2>5 DEF Linked
<1>7. CASE Link(t)
  BY <1>2, <1>5, <1>7, LinkStep DEF Link, Linked
<1>8. CASE Notify(t)
  BY <1>2, <1>5, <1>8, NotifyStep DEF Notify, Linked
<1>9. CASE AwaitReady(t)
  BY <1>2, <1>5, <1>9, AwaitReadyStep DEF AwaitReady, Linked
<1>10. CASE WakeUp(t, "sleep_ready", "locked")
  BY <1>2, <1>5, <1>10, WakeReadyStep DEF WakeUp, Linked
<1>11. CASE Release(t)
  BY <1>2, <1>3, <1>5, <1>11, ReleaseStep DEF Release, Linked
<1>12. CASE Unlock(t) /\ lock # held[t]
  BY <1>2, <1>3, <1>5, <1>12, UnlockLinkedStep DEF Unlock, Linked
<1>13. CASE AwaitLink(t)
  BY <1>2, <1>3, <1>5, <1>13, AwaitLinkStep DEF AwaitLink, Linked
<1>14. CASE WakeUp(t, "sleep_linked", "pass")
  BY <1>2, <1>3, <1>5, <1>14, WakeLinkedStep DEF WakeUp, Linked
<1>15. ASSUME pc[t] \in Frees, pc'[t] = "released" PROVE \A a, b : NodeThere(who, a, b)'
  <2>1. ~open /\ \A u \in Threads : u # t => ~Last(u)
    BY <1>3, <1>15, FreesAlone
  <2>2. \A u \in Threads : ~Last(u)'
    BY <1>1, <1>2, <1>15, <2>1 DEF Last, Ends, Frees
  <2> QED
    BY <1>2, <2>1, <2>2 DEF NodeThere
<1>16. CASE Unlock(t) /\ lock = held[t]
  <2>1. Queue(who, pl, hi, hi)'
    BY <1>2, <1>3, <1>16, UnlockEmptyStep
  <2>2. NodeThere(who, hi, hi)'
    BY <1>15, <1>16 DEF Unlock, Goto, LockTypes, Frees
  <2> QED
    BY <2>1, <2>2 DEF Linked
<1>17. CASE Pass(t)
  <2>1. pc'[t] = "released" /\ Queue(who, pl, lo + 1, hi)' /\ pc[t] \in Frees
    BY <1>2, <1>3, <1>17, PassStep DEF Pass, Frees
  <2>2. NodeThere(who, lo + 1, hi)' /\ lo + 1 \in Nat
    BY <1>15, <2>1
  <2> QED
    BY <2>1, <2>2 DEF Linked
<1>18. ASSUME Transfer(t) \/ Adopt(t), Queue([who EXCEPT ![lo] = None], pl, lo, hi)' PROVE Linked'
  <2>1. lo < hi
    BY <1>3, <1>18, OwnNodes DEF Transfer, Adopt
  <2>2. NodeThere([who EXCEPT ![lo] = None], lo, hi)'
    BY <2>1 DEF NodeThere
  <2>3. [who EXCEPT ![lo] = None] \in [Nat -> Threads \cup {None}]
    OBVIOUS
  <2> QED
    BY <1>18, <2>2, <2>3 DEF Linked
<1>19. CASE Transfer(t) /\ lock = held[t]
  BY <1>2, <1>3, <1>18, <1>19, TransferAlone
<1>20. CASE Transfer(t) /\ lock # held[t]
  <2>1. pc'[t] = "adopt"
    BY <1>20 DEF Transfer, Goto, LockTypes
  <2>2. Queue(who, pl, lo, hi)'
    BY <1>2, <1>3, <1>20, TransferStep
  <2> QED
    BY <1>5, <2>1, <2>2 DEF Linked
<1>21. CASE Adopt(t)
  BY <1>2, <1>3, <1>18, <1>21, AdoptStep
<1> QED
  BY <1>2, <1>6, <1>7, <1>8, <1>9, <1>10, <1>11, <1>12, <1>13, <1>14, <1>16, <1>17, <1>19, <1>20, <1>21
  DEF McsStep, Acquire, ReleaseLock

LEMMA LinkedKept ==
  ASSUME NodesOutlive, LockTypes, Users, Linked, NEW t \in Threads, StepOf(t)
  PROVE  Ruled /\ Linked'
<1>1. PICK who \in [Nat -> Threads \cup {None}], pl \in [Threads -> Nat], lo \in Nat, hi \in Nat :
        Queue(who, pl, lo, hi) /\ NodeThere(who, lo, hi)
  BY DEF Linked
<1>2. Calls /\ Round /\ Ended /\ Inited
  BY DEF Users
<1>3. Ruled
  BY <1>1, <1>2, QueueRules
<1> SUFFICES Linked'
  BY <1>3
<1>4. ASSUME Queue(who, pl, lo, hi)', NodeThere(who, lo, hi)' PROVE Linked'
  BY <1>4 DEF Linked
<1>5. CASE LockStep(t)
  BY <1>1, <1>3, <1>5, LockStepLinked
\* A step that leaves the lock alone.
<1>6. ASSUME pc' = [pc EXCEPT ![t] = pc'[t]], Quiet, UNCHANGED held,
             \A u \in Threads : u # t => call'[u] = call[u],
             pc[t] \notin Waits \cup Frees \cup {"adopt"},
             pc'[t] \notin Waits \cup (Frees \ {"release"}) \cup {"adopt"},
             InQueue(t)' <=> InQueue(t), ~Ends(t)'
      PROVE  Queue(who, pl, lo, hi)'
  BY <1>1, <1>6, Moves
<1>7. ASSUME pc' = [pc EXCEPT ![t] = pc'[t]], \A u \in Threads : u # t => call'[u] = call[u],
             open' => open \/ (lo < hi /\ who[lo] = None),
             pc[t] \notin {"transfer", "adopt"},
             Last(t)' => Last(t) \/ (lo < hi /\ who[lo] = None)
      PROVE  NodeThere(who, lo, hi)'
  <2>1. \A u \in Threads : u # t => pc'[u] = pc[u] /\ call'[u] = call[u]
    BY <1>7 DEF LockTypes
  <2> QED
    BY <1>1, <1>7, <2>1, ThereKept
<1>8. CASE BarrierWait(t) \/ Once(t) \/ CondInit(t)
  <2>1. PICK f \in {"wait", "once", "list"} :
          /\ pc[t] = "idle" /\ pc' = [pc EXCEPT ![t] = "enqueue"] /\ Quiet /\ UNCHANGED <<held, open>>
          /\ call' = [call EXCEPT ![t] = f]
    BY <1>8 DEF BarrierWait, Once, CondInit, Call, Continue, Goto, Quiet, barrierVars
  <2>2. /\ pc'[t] = "enqueue" /\ pc' = [pc EXCEPT ![t] = pc'[t]]
        /\ \A u \in Threads : u # t => call'[u] = call[u]
    BY <2>1 DEF LockTypes
  <2>3. ~InQueue(t) /\ ~InQueue(t)' /\ ~Ends(t)' /\ ~Last(t)'
    BY <2>1, <2>2 DEF InQueue, Ends, Last, Waits, Works, Frees
  <2> QED
    BY <1>4, <1>6, <1>7, <2>1, <2>2, <2>3 DEF Waits, Frees
<1>9. CASE Arrive(t)
  <2>1. /\ pc[t] = "locked" /\ call[t] = "wait" /\ Quiet /\ UNCHANGED <<held, call>>
        /\ pc' = [pc EXCEPT ![t] = IF height = 1 THEN "transfer" ELSE "release"]
        /\ open' = (height = 1)
    BY <1>9 DEF Arrive, Continue, Goto, Quiet
  <2>2. /\ pc'[t] = (IF height = 1 THEN "transfer" ELSE "release") /\ pc' = [pc EXCEPT ![t] = pc'[t]]
        /\ \A u \in Threads : u # t => pc'[u] = pc[u]
    BY <2>1 DEF LockTypes
  <2>3. InQueue(t) /\ InQueue(t)' /\ ~Ends(t)' /\ pc[t] \notin Waits /\ ~Last(t)'
    BY <2>1, <2>2 DEF InQueue, Ends, Last, Waits, Works, Frees
  <2>4. Queue(who, pl, lo, hi)'
    BY <1>6, <2>1, <2>2, <2>3 DEF Waits, Frees
  <2>5. \A u \in Threads : ~Last(u)'
    <3>1. \A u \in Threads : ~Last(u)
      BY <1>3, <2>3 DEF Ruled
    <3> QED
      BY <2>1, <2>2, <2>3, <3>1 DEF Last, Ends
  <2>6. ~(open' /\ \A u \in Threads : pc'[u] \notin {"transfer", "adopt"})
    BY <2>1, <2>2
  <2> QED
    BY <1>4, <2>4, <2>5, <2>6 DEF NodeThere
<1>10. CASE Leave(t)
  <2>1. /\ pc[t] = "leave" /\ Quiet /\ UNCHANGED <<held, call>>
        /\ pc' = [pc EXCEPT ![t] = IF height + 1 = Height THEN "last" ELSE "compare"]
    BY <1>10 DEF Leave, Continue, Goto, Quiet
  <2>2. pc'[t] \in {"last", "compare"} /\ pc' = [pc EXCEPT ![t] = pc'[t]]
    BY <2>1 DEF LockTypes
  <2>3. ~InQueue(t) /\ ~InQueue(t)' /\ ~Ends(t)'
    BY <2>1, <2>2 DEF InQueue, Ends, Waits, Works, Frees
  <2>4. open /\ \A u \in Threads : pc[u] \notin Filled
    BY ONLY LockTypes, <1>2, t \in Threads, <1>10, LeaveKept
  <2>5. lo < hi /\ who[lo] = None
    BY <1>1, <2>4 DEF NodeThere, Filled
  <2> QED
    BY <1>4, <1>6, <1>7, <2>1, <2>2, <2>3, <2>5 DEF Waits, Frees
<1>11. CASE BreakBarrier(t) \/ SemWait(t) \/ OtherOut(t)
  <2>1. /\ pc[t] \in {"transferred", "semwait", "compare"} /\ Quiet /\ UNCHANGED <<held, call, open>>
        /\ pc' = [pc EXCEPT ![t] = pc'[t]] /\ pc'[t] \in {"leave", "idle"}
    BY <1>11 DEF BreakBarrier, SemWait, OtherOut, Continue, Goto, Quiet, LockTypes, barrierVars
  <2>2. ~InQueue(t) /\ ~InQueue(t)' /\ ~Ends(t)' /\ ~Last(t)'
    BY <2>1 DEF InQueue, Ends, Last, Waits, Works, Frees
  <2> QED
    BY <1>4, <1>6, <1>7, <2>1, <2>2 DEF Waits, Frees
<1>12. CASE Destroying(t) \/ OnceLocked(t) \/ InitRoutine(t) \/ MarkDone(t) \/ AppendToList(t)
  <2>1. /\ pc[t] \in {"destroying", "locked", "init", "mark"} /\ Quiet /\ UNCHANGED <<held, open>>
        /\ pc' = [pc EXCEPT ![t] = pc'[t]] /\ pc'[t] \in {"release", "init", "mark"}
        /\ \A u \in Threads : u # t => call'[u] = call[u]
        /\ call'[t] # "last"
    BY <1>2, <1>12 DEF Destroying, OnceLocked, InitRoutine, MarkDone, AppendToList, Continue, Goto, Quiet,
       LockTypes, barrierVars, Calls
  <2>2. InQueue(t) /\ InQueue(t)' /\ ~Ends(t)' /\ ~Last(t)'
    BY <2>1 DEF InQueue, Ends, Last, Waits, Works, Frees
  <2> QED
    BY <1>4, <1>6, <1>7, <2>1, <2>2 DEF Waits, Frees
<1>13. CASE LastOut(t)
  <2>1. Last(t) /\ pc[t] = "last" /\ pc' = [pc EXCEPT ![t] = pc'[t]] /\ UNCHANGED open
        /\ \A u \in Threads : u # t => call'[u] = call[u]
    BY <1>13 DEF LastOut, Last, Goto, LockTypes, barrierVars
  <2>2. lo < hi /\ who[lo] = None
    BY <1>1, <2>1 DEF NodeThere
  <2>3. Queue(who, pl, lo, hi)'
    BY <1>1, <1>13, <2>2, LastOutStep
  <2> QED
    BY <1>4, <1>7, <2>1, <2>2, <2>3
<1>14. ASSUME NEW n \in Node, n # Proxy, Fresh({n}), UNCHANGED <<lock, event, pred, open>>,
              pc[t] \in {"idle", "released"}, pc'[t] \in {"idle", "semwait", "dead"},
              \A u \in Threads : u # t =>
                /\ pc'[u] = pc[u] /\ call'[u] = call[u] /\ held'[u] = held[u] /\ calls'[u] = calls[u]
                /\ n # MyNode(u),
              calls'[t] = calls[t] \/ \A u \in Threads : pc[u] \notin Waits
       PROVE  Linked'
  <2>1. Queue(who, pl, lo, hi)'
    BY <1>1, <1>14, OutsideStep
  <2>2. ~Last(t)'
    BY <1>14 DEF Last, Ends, Frees
  <2>3. NodeThere(who, lo, hi)'
    BY <1>1, <1>14, <2>2, ThereKept
  <2> QED
    BY <1>4, <2>1, <2>3
<1>15. CASE Released(t)
  <2>1. /\ pc[t] = "released" /\ pc'[t] \in {"semwait", "dead", "idle"} /\ Fresh({MyNode(t)})
        /\ UNCHANGED <<lock, event, pred, open, calls, call>>
        /\ \A u \in Threads : u # t => pc'[u] = pc[u] /\ held'[u] = held[u]
    BY <1>15 DEF Released, Goto, LockTypes, callVars
  <2>2. MyNode(t) \in Node /\ MyNode(t) # Proxy /\ \A u \in Threads : u # t => MyNode(t) # MyNode(u)
    BY MyNodes
  <2>3. PICK n \in Node : n = MyNode(t)
    BY <2>2
  <2> QED
    BY <1>14, <2>1, <2>2, <2>3
<1>16. CASE Destroy(t)
  <2>1. PICK n : n = StackNode(t, calls[t] + 1)
    OBVIOUS
  <2>2. /\ pc[t] = "idle" /\ NobodyComes /\ Fresh({n}) /\ held' = [held EXCEPT ![t] = n]
        /\ calls' = [calls EXCEPT ![t] = @ + 1] /\ begun' = begun + 1
        /\ lock' = (IF lock = None THEN n ELSE lock)
        /\ pc' = [pc EXCEPT ![t] = IF lock = None THEN "destroying" ELSE "idle"]
        /\ UNCHANGED <<event, pred, open>> /\ call' = [call EXCEPT ![t] = "destroy"]
    BY <1>16, <2>1 DEF Destroy, TryAcquire, Goto, barrierVars
  <2>3. /\ n \in Node /\ n # Proxy /\ \A u \in Threads : u # t => n # MyNode(u)
    <3>1. calls[t] + 1 \in Nat /\ \A u \in Threads : calls[u] \in Nat
      BY DEF LockTypes
    <3> QED
      BY <2>1, <3>1, Nodes DEF MyNode
  <2>4. CASE lock = None
    <3>1. Joins(t, "destroying")
      BY <2>1, <2>2, <2>4 DEF Joins
    <3>2. Queue([who EXCEPT ![hi] = t], [pl EXCEPT ![t] = hi], lo, hi + 1)'
      BY <1>1, <2>2, <3>1, JoinsQueue DEF LockTypes
    <3>3. NodeThere(who, lo, hi)'
      <4>1. pc'[t] = "destroying" /\ pc' = [pc EXCEPT ![t] = pc'[t]]
            /\ \A u \in Threads : u # t => call'[u] = call[u]
        BY <2>2, <2>4 DEF LockTypes
      <4>2. ~Last(t)'
        BY <4>1 DEF Last, Ends, Frees
      <4> QED
        BY <1>7, <2>2, <4>1, <4>2
    <3>4. NodeThere([who EXCEPT ![hi] = t], lo, hi + 1)'
      BY <3>3 DEF NodeThere
    <3>5. /\ [who EXCEPT ![hi] = t] \in [Nat -> Threads \cup {None}]
          /\ [pl EXCEPT ![t] = hi] \in [Threads -> Nat] /\ hi + 1 \in Nat
      OBVIOUS
    <3> QED
      BY <3>2, <3>4, <3>5 DEF Linked
  <2>5. CASE lock # None
    <3>1. \A u \in Threads : pc[u] \notin Waits
      BY <2>2 DEF NobodyComes, Waits
    <3>2. pc'[t] = "idle" /\ lock' = lock
          /\ \A u \in Threads : u # t =>
               pc'[u] = pc[u] /\ call'[u] = call[u] /\ held'[u] = held[u] /\ calls'[u] = calls[u]
      BY <2>2, <2>5 DEF LockTypes
    <3> QED
      BY <1>14, <2>2, <2>3, <3>1, <3>2
  <2> QED
    BY <2>4, <2>5
<1> QED
  BY <1>5, <1>8, <1>9, <1>10, <1>11, <1>12, <1>13, <1>15, <1>16 DEF StepOf, InCall

-----------------------------------------------------------------------------
(* The theorems                                                            *)

BarrierInv == LockTypes /\ Users /\ Linked

LEMMA InitBarrierInv == Init => BarrierInv
<1> SUFFICES ASSUME Init PROVE BarrierInv
  OBVIOUS
<1>1. /\ pc = [t \in Threads |-> "idle"] /\ call = [t \in Threads |-> "none"]
      /\ event = [t \in Threads |-> FALSE] /\ lock = None /\ inside = {} /\ open = FALSE /\ barrier = "valid"
      /\ height = Height /\ sem = 0 /\ serial = FALSE /\ done = FALSE /\ inits = 0
      /\ job \in {"barrier", "once", "list"}
  BY DEF Init, McsInit
<1>2. LockTypes
  BY DEF Init, McsInit, LockTypes
<1>3. \A t \in Threads : pc[t] = "idle" /\ call[t] = "none" /\ ~event[t]
  BY <1>1
<1>4. Calls
  BY <1>1, <1>3 DEF Calls, Filled, Coming, Frees
<1>5. Round
  <2>1. IsFiniteSet(inside) /\ Cardinality(inside) = 0
    BY <1>1, FS_EmptySet
  <2>2. height \in Nat /\ height > 0 /\ sem \in Nat /\ Cardinality(inside) + height = Height
    BY <1>1, <2>1, BarrierAssumption
  <2>3. \A t \in Threads : ~Last(t) /\ pc[t] \notin Filled \cup {"leave"}
    BY <1>3 DEF Last, Ends, Frees, Filled
  <2>4. open \in BOOLEAN /\ serial \in BOOLEAN /\ ~open
    BY <1>1
  <2> QED
    BY <1>1, <1>3, <2>1, <2>2, <2>3, <2>4 DEF Round, Frees
<1>6. Ended /\ Inited
  BY <1>1, <1>3 DEF Ended, Inited, Frees
<1>7. Linked
  <2>1. PICK who \in [Nat -> Threads \cup {None}], pl \in [Threads -> Nat] : TRUE
    <3>1. [i \in Nat |-> None] \in [Nat -> Threads \cup {None}] /\ [t \in Threads |-> 0] \in [Threads -> Nat]
      OBVIOUS
    <3> QED
      BY <3>1
  <2>2. \A t \in Threads : ~InQueue(t) /\ ~Ends(t) /\ ~Last(t)
    BY <1>3 DEF InQueue, Ends, Last, Waits, Works, Frees
  <2>3. Places(who, pl, 0, 0)
    BY <1>1, <2>2 DEF Places
  <2>4. Queue(who, pl, 0, 0)
    BY <1>3, <2>3 DEF Queue, Handing, Waits
  <2>5. NodeThere(who, 0, 0)
    BY <1>1, <2>2 DEF NodeThere
  <2> QED
    BY <2>1, <2>4, <2>5 DEF Linked
<1> QED
  BY <1>2, <1>4, <1>5, <1>6, <1>7 DEF BarrierInv, Users

LEMMA NextBarrierInv ==
  ASSUME NodesOutlive, BarrierInv, [Next]_vars
  PROVE  BarrierInv'
<1>1. ASSUME NEW t \in Threads, StepOf(t) PROVE BarrierInv'
  <2>1. Ruled /\ Linked'
    BY <1>1, LinkedKept DEF BarrierInv
  <2>2. LockTypes'
    BY <1>1, <2>1, TypesKept DEF BarrierInv, StepOf
  <2>3. Calls'
    BY <1>1, <2>1, CallsKept DEF BarrierInv, Users
  <2>4. Round'
    BY <1>1, <2>1, RoundKept DEF BarrierInv, Users
  <2>5. Ended'
    BY <1>1, <2>1, EndedKept DEF BarrierInv, Users
  <2>6. Inited'
    BY <1>1, <2>1, InitedKept DEF BarrierInv, Users
  <2> QED
    BY <2>1, <2>2, <2>3, <2>4, <2>5, <2>6 DEF BarrierInv, Users
<1>2. CASE UNCHANGED vars
  <2> USE <1>2 DEF vars, mcsVars, flagVars, callVars, barrierVars, onceVars, InQueue, Ends, Last
  <2>1. LockTypes'
    BY DEF BarrierInv, LockTypes
  <2>2. Calls' /\ Ended' /\ Inited'
    BY DEF BarrierInv, Users, Calls, Ended, Inited
  <2>3. Round'
    BY DEF BarrierInv, Users, Round, Sleepers
  <2>4. PICK who \in [Nat -> Threads \cup {None}], pl \in [Threads -> Nat], lo \in Nat, hi \in Nat :
          Queue(who, pl, lo, hi) /\ NodeThere(who, lo, hi)
    BY DEF BarrierInv, Linked
  <2>5. Queue(who, pl, lo, hi)'
    <3>1. Places(who, pl, lo, hi)'
      BY <2>4 DEF Queue, Places, At, MyNode, StackNode
    <3>2. \A u \in Threads : First(who, pl, lo, u) => First(who, pl, lo, u)'
      BY DEF First, Late, MyNode, StackNode
    <3>3. \A u \in Threads : \A p : Behind(who, pl, lo, u, p) => Behind(who, pl, lo, u, p)'
      BY DEF Behind, Late, Unheard, MyNode, StackNode
    <3>4. \A u \in Threads : Handing(lo, hi, u) => Handing(lo, hi, u)'
      BY DEF Handing
    <3>5. (\A w : At(w)' = At(w)) /\ \A u : Prev(who, pl, u)' = Prev(who, pl, u)
      BY QuietNodes
    <3>6. \A u \in Threads : pc[u] \in Waits =>
            (IF pl[u] = lo THEN First(who, pl, lo, u) ELSE Behind(who, pl, lo, u, Prev(who, pl, u)))'
      <4> SUFFICES ASSUME NEW u \in Threads, pc[u] \in Waits
                   PROVE (IF pl[u] = lo THEN First(who, pl, lo, u)
                          ELSE Behind(who, pl, lo, u, Prev(who, pl, u)))'
        OBVIOUS
      <4>1. PICK p : p = Prev(who, pl, u)
        OBVIOUS
      <4> QED
        BY <2>4, <3>2, <3>3, <3>5, <4>1 DEF Queue
    <3> QED
      BY <2>4, <3>1, <3>4, <3>5, <3>6 DEF Queue
  <2>6. NodeThere(who, lo, hi)'
    BY <2>4 DEF NodeThere
  <2> QED
    BY <2>1, <2>2, <2>3, <2>5, <2>6 DEF BarrierInv, Users, Linked
<1> QED
  BY <1>1, <1>2 DEF Next, StepOf

LEMMA OwnersSafe == NodesOutlive /\ BarrierInv => OneOwner
<1> SUFFICES ASSUME NodesOutlive, BarrierInv PROVE OneOwner
  OBVIOUS
<1>1. PICK who \in [Nat -> Threads \cup {None}], pl \in [Threads -> Nat], lo \in Nat, hi \in Nat :
        Queue(who, pl, lo, hi) /\ NodeThere(who, lo, hi)
  BY DEF BarrierInv, Linked
<1>2. Ruled /\ LockTypes /\ Round
  BY <1>1, QueueRules DEF BarrierInv, Users
<1>3. \A t \in Owners : t \in Threads /\ (pc[t] = "transferred" \/ (InQueue(t) /\ pc[t] \notin Waits))
  BY DEF Owners, InQueue, Works, Waits, Frees
\* While a round leaves the barrier the lock belongs to it.
<1>4. ASSUME open, \A u \in Threads : pc[u] \notin {"transfer", "adopt"}, NEW t \in Owners
      PROVE  pc[t] = "transferred"
  BY <1>2, <1>3, <1>4 DEF Ruled
<1>5. ASSUME NEW t \in Threads, pc[t] = "transferred"
      PROVE  open /\ \A u \in Threads : pc[u] \in {"transfer", "adopt", "transferred"} => u = t
  BY <1>2, <1>5 DEF Round, Filled
<1>6. \A t, u \in Owners : t = u
  <2> SUFFICES ASSUME NEW t \in Owners, NEW u \in Owners PROVE t = u
    OBVIOUS
  <2>1. CASE pc[t] = "transferred" \/ pc[u] = "transferred"
    <3>1. open /\ \A v \in Threads : pc[v] \notin {"transfer", "adopt"}
      BY <1>3, <1>5, <2>1
    <3>2. pc[t] = "transferred" /\ pc[u] = "transferred"
      BY <1>4, <3>1
    <3> QED
      BY <1>3, <1>5, <3>2
  <2>2. CASE pc[t] # "transferred" /\ pc[u] # "transferred"
    BY <1>2, <1>3, <2>2 DEF Ruled
  <2> QED
    BY <2>1, <2>2
<1>7. Cardinality(Owners) <= 1
  <2>1. CASE Owners = {}
    BY <2>1, FS_EmptySet
  <2>2. CASE Owners # {}
    <3>1. PICK t : Owners = {t}
      BY <1>6, <2>2
    <3>2. Cardinality({t}) = 1
      BY FS_Singleton
    <3> QED
      BY <3>1, <3>2
  <2> QED
    BY <2>1, <2>2
<1>8. Draining => \A t \in Owners : pc[t] = "transferred"
  BY <1>4 DEF Draining
<1> QED
  BY <1>7, <1>8 DEF OneOwner

\* Under every interleaving of the lock's instructions the lock has one owner, also
\* while a barrier keeps it from the thread that came last to the one that leaves
\* last; a thread that frees it finds its successor linked; init_routine is run
\* once, before anybody gets past it; and a barrier is destroyed under nobody.
THEOREM UsersAlwaysSafe == NodesOutlive => (Spec => []UsersSafe)
<1> SUFFICES ASSUME NodesOutlive PROVE Spec => []UsersSafe
  OBVIOUS
<1>1. BarrierInv => UsersSafe
  <2> SUFFICES ASSUME BarrierInv PROVE UsersSafe
    OBVIOUS
  <2>1. OneOwner
    BY OwnersSafe
  <2>2. SuccessorLinked
    BY DEF SuccessorLinked, BarrierInv, LockTypes, Waits, Works, Frees
  <2>3. OnceOnly
    BY DEF OnceOnly, BarrierInv, Users, Inited
  <2>4. DestroyedQuiet
    BY DEF DestroyedQuiet, BarrierInv, Users, Ended
  <2> QED
    BY <2>1, <2>2, <2>3, <2>4 DEF UsersSafe
<1>2. BarrierInv /\ [Next]_vars => BarrierInv'
  BY NextBarrierInv
<1> QED
  BY <1>1, <1>2, InitBarrierInv, PTL DEF Spec

-----------------------------------------------------------------------------
(* The barrier implements its specification                                *)

\* Where the threads are for the specification.
Where == [t \in Threads |-> IF t \notin inside THEN "out" ELSE IF open THEN "free" ELSE "waiting"]

LEMMA SameCardinality == \A S : Abstract!Cardinality(S) = Cardinality(S)
BY DEF Abstract!Cardinality, Cardinality

LEMMA Whereabouts ==
  ASSUME Round
  PROVE  /\ Abstract!At("free") = IF open THEN inside ELSE {}
         /\ Abstract!At("waiting") = IF open THEN {} ELSE inside
BY DEF Round, Abstract!At

LEMMA ArriveImplements ==
  ASSUME LockTypes, Ruled, Calls, Round, NEW t \in Threads, Arrive(t)
  PROVE  Abstract!Arrive(t)
<1>1. Round' /\ ~open /\ t \notin inside
  BY ArriveKept
<1>2. height' = height - 1 /\ inside' = inside \cup {t} /\ open' = (height = 1) /\ serial' = FALSE
  BY DEF Arrive
<1>3. Where[t] = "out" /\ Abstract!At("free") = {} /\ Abstract!At("waiting") = inside
  BY <1>1, Whereabouts DEF Where
<1>4. Cardinality(inside) + 1 < Height <=> height # 1
  <2>1. Cardinality(inside) \in Nat /\ height \in Nat /\ Cardinality(inside) + height = Height /\ height > 0
    BY <1>1, FS_CardinalityType DEF Round
  <2> QED
    BY <2>1
<1>5. CASE height # 1
  <2>1. ~open'
    BY <1>2, <1>5
  <2>2. Where' = [Where EXCEPT ![t] = "waiting"]
    BY <1>1, <1>2, <2>1 DEF Where
  <2>3. Abstract!Cardinality(Abstract!At("waiting")) + 1 < Height
    BY <1>3, SameCardinality, <1>4, <1>5
  <2> QED
    BY <1>2, <1>3, <2>2, <2>3 DEF Abstract!Arrive, Where
<1>6. CASE height = 1
  <2>1. open'
    BY <1>2, <1>6
  <2>2. Where' = [u \in Threads |-> IF u \in inside \cup {t} THEN "free" ELSE "out"]
    BY <1>2, <2>1 DEF Where
  <2>3. ~(Abstract!Cardinality(Abstract!At("waiting")) + 1 < Height)
    BY <1>3, SameCardinality, <1>4, <1>6
  <2>4. Where' = [u \in Threads |-> IF u \in Abstract!At("waiting") \cup {t} THEN "free" ELSE "out"]
    BY <1>3, <2>2
  <2> QED
    BY <1>2, <1>3, <2>3, <2>4 DEF Abstract!Arrive, Where
<1> QED
  BY <1>5, <1>6

LEMMA LeaveImplements ==
  ASSUME LockTypes, Calls, Round, NEW t \in Threads, Leave(t)
  PROVE  \E told \in BOOLEAN : Abstract!Leave(t, told)
<1>1. /\ open /\ ~serial /\ t \in inside
      /\ inside = {t} <=> height + 1 = Height
  BY LeaveKept
<1>2. inside' = inside \ {t} /\ open' = (inside # {t}) /\ serial' = (serial \/ height + 1 = Height)
  BY DEF Leave
<1>3. Where[t] = "free" /\ Abstract!At("free") = inside
  BY <1>1, Whereabouts DEF Where
<1>4. PICK told \in BOOLEAN : told <=> height + 1 = Height
  OBVIOUS
<1>5. Where' = [Where EXCEPT ![t] = "out"]
  <2>1. CASE inside = {t}
    BY <1>1, <1>2, <2>1 DEF Where
  <2>2. CASE inside # {t}
    <3>1. open'
      BY <1>2, <2>2
    <3> QED
      BY <1>1, <1>2, <3>1 DEF Where
  <2> QED
    BY <2>1, <2>2
<1>6. serial' = (serial \/ told)
  BY <1>2, <1>4
<1>7. (told => ~serial) /\ (Abstract!At("free") = {t} => told \/ serial)
  BY <1>1, <1>3, <1>4
<1> QED
  BY <1>3, <1>4, <1>5, <1>6, <1>7 DEF Abstract!Leave, Where

\* No thread passes the barrier before as many have come as its height says, each
\* round has one serial thread, and a thread that comes again is not counted for
\* the round it has left: the code does only what BarrierSpec allows.
THEOREM BarrierImplemented == NodesOutlive => (Spec => ImplementsBarrier)
<1> SUFFICES ASSUME NodesOutlive PROVE Spec => Abstract!Spec
  BY DEF ImplementsBarrier
<1>1. Init => Abstract!Init
  BY DEF Init, Abstract!Init
<1>2. BarrierInv /\ BarrierInv' /\ [Next]_vars
        => [Abstract!Next]_<<[t \in Threads |-> IF t \notin inside THEN "out"
                                               ELSE IF open THEN "free" ELSE "waiting"], serial>>
  <2> SUFFICES ASSUME BarrierInv, [Next]_vars
               PROVE  Abstract!Next \/ UNCHANGED <<Where, serial>>
    BY DEF Where
  <2>1. CASE UNCHANGED vars
    BY <2>1 DEF vars, barrierVars, Where
  <2>2. ASSUME NEW t \in Threads, StepOf(t) PROVE Abstract!Next \/ UNCHANGED <<Where, serial>>
    <3>1. Ruled /\ LockTypes /\ Calls /\ Round
      BY <2>2, LinkedKept DEF BarrierInv, Users
    <3>2. CASE Arrive(t)
      BY <3>1, <3>2, ArriveImplements DEF Abstract!Next
    <3>3. CASE Leave(t)
      BY <3>1, <3>3, LeaveImplements DEF Abstract!Next
    <3>4. CASE ~Arrive(t) /\ ~Leave(t)
      <4>1. UNCHANGED <<inside, open, serial>>
        BY <2>2, <3>4 DEF StepOf, InCall, LockStep, BarrierWait, Destroy, Once, CondInit, Call, Released,
           BreakBarrier, SemWait, LastOut, OtherOut, Destroying, OnceLocked, InitRoutine, MarkDone,
           AppendToList, barrierVars
      <4> QED
        BY <4>1 DEF Where
    <3> QED
      BY <3>2, <3>3, <3>4
  <2> QED
    BY <2>1, <2>2 DEF Next, StepOf
<1>3. BarrierInv /\ [Next]_vars => BarrierInv'
  BY NextBarrierInv
<1> QED
  BY <1>1, <1>2, <1>3, InitBarrierInv, PTL DEF Spec, Abstract!Spec

-----------------------------------------------------------------------------
(* Nobody is left behind                                                   *)

\* A thread that waits has been given the lock.
Given(t) ==
  /\ pc[t] \in Waits
  /\ IF pc[t] = "sleep_ready" THEN event[t] ELSE readyFlag[MyNode(t)] = Set

\* The lock is in somebody's hands, or belongs to a round that leaves the barrier.
Owned == lock # None => open \/ \E t \in Threads : Leads(t) \/ Given(t) \/ Last(t)

\* A thread that frees the lock and knows of no successor, when it is not the last
\* of the queue, has one that is going to set the flag of its node.
Told(t) ==
  pc[t] \in {"unlock", "linked", "sleep_linked"} /\ nextFlag[held[t]] # Set /\ ~event[t] /\ lock # held[t]
    => \E s \in Threads : pc[s] \in {"link", "notify"} /\ pred[s] = held[t]
Heard == \A t \in Threads : Told(t)

\* The bounds on the calls and the units of the semaphore hold step by step.
Bounded ==
  /\ \A t \in Threads :
       /\ calls[t] <= begun /\ calls[t] <= MaxCalls + 1
       /\ pc[t] = "enqueue" => calls[t] < MaxCalls
  /\ sem <= Height - 1

RestInv == Owned /\ Heard /\ Bounded

\* What the queue says of the thread that has the lock, and of the one behind it.
LEMMA Leading ==
  ASSUME NodesOutlive, LockTypes, Round, Linked
  PROVE  /\ Ruled
         /\ \A t \in Threads : Leads(t) =>
              /\ lock # None /\ held[t] \in Node /\ held[t] # None
              /\ held[t] = IF Ends(t) THEN Proxy ELSE MyNode(t)
              /\ \A u \in Threads : Leads(u) => u = t
              /\ pc[t] \in {"linked", "sleep_linked", "pass", "adopt"} => lock # held[t]
              /\ pc[t] = "sleep_linked" => nextFlag[held[t]] = t
              /\ lock # held[t] =>
                   \E s \in Threads :
                     /\ pc[s] \in Waits /\ s # t /\ ~event[s]
                     /\ readyFlag[MyNode(s)] = IF pc[s] = "sleep_ready" THEN s ELSE Clear
                     /\ IF pc[s] = "link" THEN pred[s] = held[t] ELSE next[held[t]] = MyNode(s)
                     /\ next[held[t]] # None => next[held[t]] = MyNode(s)
              /\ pc[t] # "sleep_linked" =>
                   \A s \in Threads :
                     pc[s] \in {"link", "notify"} /\ pred[s] = held[t] => nextFlag[held[t]] = Clear
<1>1. PICK who \in [Nat -> Threads \cup {None}], pl \in [Threads -> Nat], lo \in Nat, hi \in Nat :
        Queue(who, pl, lo, hi) /\ NodeThere(who, lo, hi)
  BY DEF Linked
<1>2. Ruled /\ OneEnds /\ Places(who, pl, lo, hi)
  BY <1>1, QueueRules DEF Ruled, Queue
<1> SUFFICES ASSUME NEW t \in Threads, Leads(t)
             PROVE  /\ lock # None /\ held[t] \in Node /\ held[t] # None
                    /\ held[t] = IF Ends(t) THEN Proxy ELSE MyNode(t)
                    /\ \A u \in Threads : Leads(u) => u = t
                    /\ pc[t] \in {"linked", "sleep_linked", "pass", "adopt"} => lock # held[t]
                    /\ pc[t] = "sleep_linked" => nextFlag[held[t]] = t
                    /\ lock # held[t] =>
                         \E s \in Threads :
                           /\ pc[s] \in Waits /\ s # t /\ ~event[s]
                           /\ readyFlag[MyNode(s)] = IF pc[s] = "sleep_ready" THEN s ELSE Clear
                           /\ IF pc[s] = "link" THEN pred[s] = held[t] ELSE next[held[t]] = MyNode(s)
                           /\ next[held[t]] # None => next[held[t]] = MyNode(s)
                    /\ pc[t] # "sleep_linked" =>
                         \A s \in Threads :
                           pc[s] \in {"link", "notify"} /\ pred[s] = held[t] => nextFlag[held[t]] = Clear
  BY <1>2
<1>3. /\ lo < hi /\ lo \in lo .. hi - 1 /\ held[t] = At(who[lo]) /\ held[t] \in Node /\ held[t] # None
      /\ who[lo] = IF Ends(t) THEN None ELSE t
      /\ InQueue(t) => pl[t] = lo /\ held[t] = MyNode(t)
  BY <1>2, Leader
<1>4. /\ \A i \in lo .. hi - 1 : At(who[i]) # None
      /\ \A i, j \in lo .. hi - 1 : At(who[i]) = At(who[j]) => i = j
  BY <1>2, Distinct
<1>5. lock = At(who[hi - 1]) /\ hi - 1 \in lo .. hi - 1
  BY <1>2, <1>3 DEF Places
<1>6. lock # None /\ (lock = held[t] <=> lo + 1 = hi)
  <2>1. lock = held[t] <=> lo = hi - 1
    BY <1>3, <1>4, <1>5
  <2> QED
    BY <1>3, <1>4, <1>5, <2>1
<1>7. held[t] = IF Ends(t) THEN Proxy ELSE MyNode(t)
  BY <1>3, McsAssumption, MyNodes DEF At
<1>8. \A u \in Threads : Leads(u) => u = t
  BY <1>2, OneLeader
<1>9. /\ pc[t] \in {"linked", "sleep_linked", "pass", "adopt"} => lock # held[t]
      /\ pc[t] = "sleep_linked" => nextFlag[held[t]] = t
  BY <1>1, <1>6 DEF Queue, Handing
<1>10. ASSUME lock # held[t]
       PROVE  \E s \in Threads :
                /\ pc[s] \in Waits /\ s # t /\ ~event[s]
                /\ readyFlag[MyNode(s)] = IF pc[s] = "sleep_ready" THEN s ELSE Clear
                /\ IF pc[s] = "link" THEN pred[s] = held[t] ELSE next[held[t]] = MyNode(s)
                /\ next[held[t]] # None => next[held[t]] = MyNode(s)
  <2>1. lo + 1 < hi
    BY <1>3, <1>6, <1>10
  <2>2. PICK s \in Threads : pc[s] \in Waits /\ s # t /\ Behind(who, pl, lo, s, held[t])
                             /\ (next[held[t]] # None => pc[s] # "link" /\ next[held[t]] = MyNode(s))
    <3>1. Queue(who, pl, lo, hi)
      BY <1>1
    <3> HIDE <1>1
    <3> QED
      BY <1>2, <2>1, <3>1, Successor
  <2> QED
    BY <2>2 DEF Behind
<1>11. ASSUME pc[t] # "sleep_linked", NEW s \in Threads, pc[s] \in {"link", "notify"}, pred[s] = held[t]
       PROVE  nextFlag[held[t]] = Clear
  <2>1. InQueue(s) /\ pc[s] \in Waits
    BY <1>11 DEF InQueue, Waits
  <2>2. CASE pl[s] = lo
    <3>1. First(who, pl, lo, s)
      BY <1>1, <2>1, <2>2 DEF Queue
    <3> QED
      BY <1>11, <3>1 DEF First, Late
  <2>3. CASE pl[s] # lo
    <3>1. Behind(who, pl, lo, s, Prev(who, pl, s))
      BY <1>1, <2>1, <2>3 DEF Queue
    <3>2. CASE pred[s] = Prev(who, pl, s)
      <4>1. Unheard(held[t])
        BY <1>11, <3>1, <3>2 DEF Behind
      <4>2. \A w \in Threads : pc[w] = "sleep_linked" => Leads(w)
        BY DEF Leads, InQueue, Ends, Frees, Waits
      <4> QED
        BY <1>8, <1>11, <4>1, <4>2 DEF Unheard
    <3>3. CASE pred[s] # Prev(who, pl, s)
      BY <1>11, <3>1, <3>3 DEF Behind, Late
    <3> QED
      BY <3>2, <3>3
  <2> QED
    BY <2>2, <2>3
<1> QED
  BY <1>3, <1>6, <1>7, <1>8, <1>9, <1>10, <1>11

\* What a step of one thread leaves to another.
LEMMA OthersLeft ==
  ASSUME NodesOutlive, LockTypes, Ruled, NEW t \in Threads, StepOf(t), NEW u \in Threads, u # t
  PROVE  /\ pc'[u] = pc[u] /\ call'[u] = call[u] /\ calls'[u] = calls[u] /\ MyNode(u)' = MyNode(u)
         /\ held'[u] = held[u] /\ pred'[u] = pred[u]
         /\ event[u] => event'[u]
         /\ readyFlag[MyNode(u)] = Set => readyFlag'[MyNode(u)] = Set
<1> DEFINE n == StackNode(t, calls[t] + 1)
<1> USE DEF LockTypes, Goto, Continue, callVars, flagVars
<1>1. n # MyNode(u) /\ MyNode(t) # MyNode(u) /\ Proxy # MyNode(u) /\ MyNode(u) \in Node
  <2>1. calls[t] \in Nat /\ calls[u] \in Nat /\ calls[t] + 1 \in Nat
    OBVIOUS
  <2> QED
    BY <2>1, Nodes, MyNodes DEF MyNode
<1>2. Clear # Set /\ Set \notin Threads
  BY MyNodes
<1> HIDE DEF n
<1> SUFFICES /\ pc'[u] = pc[u] /\ call'[u] = call[u] /\ calls'[u] = calls[u]
             /\ held'[u] = held[u] /\ pred'[u] = pred[u]
             /\ event[u] => event'[u]
             /\ readyFlag[MyNode(u)] = Set => readyFlag'[MyNode(u)] = Set
  BY DEF MyNode
<1>3. CASE Destroy(t)
  BY <1>1, <1>3 DEF Destroy, TryAcquire, Fresh, n
<1>4. CASE BarrierWait(t) \/ Once(t) \/ CondInit(t)
  BY <1>4 DEF BarrierWait, Once, CondInit, Call
<1>5. CASE Released(t)
  BY <1>1, <1>5 DEF Released, Fresh
<1>6. CASE Arrive(t) \/ BreakBarrier(t) \/ SemWait(t) \/ Leave(t) \/ OtherOut(t)
  BY <1>6 DEF Arrive, BreakBarrier, SemWait, Leave, OtherOut
<1>7. CASE Destroying(t) \/ OnceLocked(t) \/ MarkDone(t) \/ AppendToList(t)
  BY <1>7 DEF Destroying, OnceLocked, MarkDone, AppendToList
<1>8. CASE LastOut(t) \/ InitRoutine(t)
  BY <1>8 DEF LastOut, InitRoutine
<1>9. CASE LockStep(t)
  <2>1. McsStep(t) /\ call' = call
    BY <1>9 DEF LockStep
  <2>2. CASE Enqueue(t)
    BY <1>1, <2>1, <2>2 DEF Enqueue, Fresh, n
  <2>3. CASE Link(t)
    BY <2>1, <2>3 DEF Link
  <2>4. CASE Notify(t)
    BY <2>1, <2>4 DEF Notify, FlagSet
  <2>5. CASE AwaitReady(t)
    <3>1. readyFlag' \in {readyFlag, [readyFlag EXCEPT ![held[t]] = t]}
          /\ (readyFlag' # readyFlag => readyFlag[held[t]] = Clear)
      BY <2>5 DEF AwaitReady, FlagWait
    <3>2. readyFlag[MyNode(u)] = Set => readyFlag'[MyNode(u)] = Set
      BY <1>1, <1>2, <3>1
    <3>3. UNCHANGED <<calls, held, pred, event>> /\ pc'[u] = pc[u]
      BY <2>5 DEF AwaitReady, FlagWait
    <3> QED
      BY <2>1, <3>2, <3>3
  <2>6. CASE WakeUp(t, "sleep_ready", "locked") \/ WakeUp(t, "sleep_linked", "pass")
    BY <2>1, <2>6 DEF WakeUp
  <2>7. CASE Release(t) \/ Unlock(t)
    BY <2>1, <2>7 DEF Release, Unlock
  <2>8. CASE AwaitLink(t)
    BY <2>1, <2>8 DEF AwaitLink, FlagWait
  <2>9. CASE Pass(t)
    <3>1. /\ pc'[u] = pc[u] /\ UNCHANGED <<calls, held, pred>>
          /\ \/ UNCHANGED <<readyFlag, event>>
             \/ FlagSet(readyFlag, readyFlag', next[held[t]])
      BY <2>9 DEF Pass
    <3>2. /\ event[u] => event'[u]
          /\ readyFlag[MyNode(u)] = Set => readyFlag'[MyNode(u)] = Set
      BY <1>1, <1>2, <3>1 DEF FlagSet
    <3> QED
      BY <2>1, <3>1, <3>2
  <2>10. CASE Transfer(t)
    BY <1>1, <2>1, <2>10 DEF Transfer, Fresh
  <2>11. CASE Adopt(t)
    BY <2>1, <2>11 DEF Adopt
  <2> QED
    BY <2>1, <2>2, <2>3, <2>4, <2>5, <2>6, <2>7, <2>8, <2>9, <2>10, <2>11 DEF McsStep, Acquire, ReleaseLock
<1> QED
  BY <1>3, <1>4, <1>5, <1>6, <1>7, <1>8, <1>9 DEF StepOf, InCall

LEMMA BoundedKept ==
  ASSUME LockTypes, Calls, Round, Bounded, NEW t \in Threads, StepOf(t)
  PROVE  Bounded'
<1> USE DEF LockTypes, Goto, Continue, callVars, flagVars, Bounded
<1>1. MaxCalls \in Nat /\ Height \in Nat \ {0} /\ sem \in Nat
  BY McsAssumption, BarrierAssumption DEF Round
<1>2. ASSUME UNCHANGED <<calls, begun>>, sem' <= Height - 1,
             \A u \in Threads : pc'[u] = "enqueue" => pc[u] = "enqueue"
      PROVE  Bounded'
  BY <1>2
<1>3. ASSUME pc[t] = "enqueue" \/ (pc[t] = "idle" /\ begun < MaxCalls + 1), pc'[t] # "enqueue",
             calls' = [calls EXCEPT ![t] = @ + 1], begun' = begun + 1, sem' = sem,
             \A u \in Threads : u # t => pc'[u] = pc[u]
      PROVE  Bounded'
  <2>1. calls[t] \in Nat /\ begun \in Nat /\ calls[t] <= begun /\ calls[t] < MaxCalls + 1
    BY <1>1, <1>3
  <2>2. calls'[t] = calls[t] + 1 /\ \A u \in Threads : u # t => calls'[u] = calls[u]
    BY <1>3
  <2> QED
    BY <1>1, <1>3, <2>1, <2>2
<1>4. CASE Destroy(t)
  BY <1>3, <1>4 DEF Destroy, TryAcquire, barrierVars
<1>5. CASE BarrierWait(t) \/ Once(t) \/ CondInit(t)
  <2>1. /\ pc[t] = "idle" /\ begun < MaxCalls /\ pc' = [pc EXCEPT ![t] = "enqueue"]
        /\ UNCHANGED <<calls, begun, sem>>
    BY <1>5 DEF BarrierWait, Once, CondInit, Call, barrierVars
  <2>2. calls[t] < MaxCalls
    BY <1>1, <2>1
  <2> QED
    BY <2>1, <2>2
<1>6. CASE Released(t)
  <2>1. pc'[t] # "enqueue" /\ \A u \in Threads : u # t => pc'[u] = pc[u]
    BY <1>6 DEF Released
  <2> QED
    BY <1>2, <1>6, <2>1 DEF Released
<1>7. CASE Arrive(t) \/ Leave(t) \/ OtherOut(t)
  BY <1>2, <1>7 DEF Arrive, Leave, OtherOut, barrierVars
<1>8. CASE BreakBarrier(t)
  <2>1. sem = 0
    BY <1>8 DEF BreakBarrier, Round, Filled
  <2> QED
    BY <1>1, <1>2, <1>8, <2>1 DEF BreakBarrier
<1>9. CASE SemWait(t)
  <2>1. sem' <= Height - 1
    BY <1>1, <1>9 DEF SemWait
  <2> QED
    BY <1>2, <1>9, <2>1 DEF SemWait
<1>10. CASE Destroying(t) \/ OnceLocked(t) \/ MarkDone(t) \/ AppendToList(t)
  BY <1>2, <1>10 DEF Destroying, OnceLocked, MarkDone, AppendToList, barrierVars
<1>11. CASE LastOut(t) \/ InitRoutine(t)
  BY <1>2, <1>11 DEF LastOut, InitRoutine, barrierVars
<1>12. CASE LockStep(t)
  <2>1. McsStep(t) /\ sem' = sem
    BY <1>12 DEF LockStep, barrierVars
  <2>2. CASE Enqueue(t)
    BY <1>3, <2>1, <2>2 DEF Enqueue
  <2>3. CASE Link(t) \/ Notify(t)
    BY <1>2, <2>1, <2>3 DEF Link, Notify
  <2>4. CASE AwaitReady(t) \/ AwaitLink(t)
    BY <1>2, <2>1, <2>4 DEF AwaitReady, AwaitLink, FlagWait
  <2>5. CASE WakeUp(t, "sleep_ready", "locked") \/ WakeUp(t, "sleep_linked", "pass")
    BY <1>2, <2>1, <2>5 DEF WakeUp
  <2>6. CASE Release(t) \/ Unlock(t) \/ Pass(t)
    BY <1>2, <2>1, <2>6 DEF Release, Unlock, Pass
  <2>7. CASE Transfer(t) \/ Adopt(t)
    BY <1>2, <2>1, <2>7 DEF Transfer, Adopt
  <2> QED
    BY <2>1, <2>2, <2>3, <2>4, <2>5, <2>6, <2>7 DEF McsStep, Acquire, ReleaseLock
<1> QED
  BY <1>4, <1>5, <1>6, <1>7, <1>8, <1>9, <1>10, <1>11, <1>12 DEF StepOf, InCall

\* Who has the lock passes it on, and it is somebody's at every moment.
LEMMA OwnedKept ==
  ASSUME NodesOutlive, LockTypes, Users, Linked, Owned, NEW t \in Threads, StepOf(t)
  PROVE  Owned'
<1> DEFINE Mine(u) == Leads(u) \/ Given(u) \/ Last(u)
<1>1. Calls /\ Round /\ Ruled
  BY Leading DEF Users
<1>2. ASSUME NEW u \in Threads, u # t, Mine(u) PROVE Mine(u)'
  <2>1. /\ pc'[u] = pc[u] /\ call'[u] = call[u] /\ MyNode(u)' = MyNode(u)
        /\ event[u] => event'[u]
        /\ readyFlag[MyNode(u)] = Set => readyFlag'[MyNode(u)] = Set
    BY <1>1, <1>2, OthersLeft
  <2>2. Leads(u) => Leads(u)'
    BY <2>1 DEF Leads, InQueue, Ends
  <2>3. Last(u) => Last(u)'
    BY <2>1 DEF Last, Ends
  <2>4. Given(u) => Given(u)'
    BY <2>1 DEF Given
  <2> QED
    BY <1>2, <2>2, <2>3, <2>4
<1> SUFFICES ASSUME lock' # None, lock = None \/ open \/ Mine(t)
             PROVE  open' \/ \E u \in Threads : Mine(u)'
  BY <1>2 DEF Owned
<1> HIDE DEF Mine
<1>3. ASSUME Leads(t)' \/ Given(t)' \/ Last(t)' \/ open' PROVE open' \/ \E u \in Threads : Mine(u)'
  BY <1>3 DEF Mine
<1> USE DEF Goto, Continue, LockTypes, Leads, InQueue, Ends, Last, Waits, Works, Frees
\* A step outside of the lock, of a thread that does not have it.
<1>4. ASSUME UNCHANGED <<lock, open>>, ~Mine(t) PROVE open'
  BY <1>4
<1>5. CASE Destroy(t)
  <2>1. pc[t] = "idle" /\ open' = open /\ pc' = [pc EXCEPT ![t] = IF lock = None THEN "destroying" ELSE "idle"]
        /\ lock' = IF lock = None THEN StackNode(t, calls[t] + 1) ELSE lock
    BY <1>5 DEF Destroy, TryAcquire, barrierVars
  <2>2. ~Mine(t)
    BY <2>1 DEF Mine, Given
  <2>3. lock = None => Leads(t)'
    BY <2>1
  <2> QED
    BY <1>3, <2>1, <2>2, <2>3
<1>6. CASE BarrierWait(t) \/ Once(t) \/ CondInit(t)
  <2>1. pc[t] = "idle" /\ UNCHANGED <<lock, open>>
    BY <1>6 DEF BarrierWait, Once, CondInit, Call, barrierVars
  <2> QED
    BY <1>4, <2>1 DEF Mine, Given
<1>7. CASE Released(t)
  <2>1. pc[t] = "released" /\ UNCHANGED <<lock, open>>
    BY <1>7 DEF Released
  <2> QED
    BY <1>4, <2>1 DEF Mine, Given
<1>8. CASE Arrive(t)
  <2>1. pc'[t] \in {"transfer", "release"} /\ call'[t] = "wait"
    BY <1>8 DEF Arrive
  <2> QED
    BY <1>3, <2>1
<1>9. CASE BreakBarrier(t) \/ SemWait(t) \/ OtherOut(t)
  <2>1. pc[t] \in {"transferred", "semwait", "compare"} /\ UNCHANGED <<lock, open>>
    BY <1>9 DEF BreakBarrier, SemWait, OtherOut, barrierVars
  <2> QED
    BY <1>4, <2>1 DEF Mine, Given
<1>10. CASE Leave(t)
  <2>1. inside = {t} <=> height + 1 = Height
    BY <1>1, <1>10, LeaveKept
  <2>2. open' = (inside # {t}) /\ (height + 1 = Height => pc'[t] = "last")
    BY <1>10 DEF Leave
  <2> QED
    BY <1>3, <2>1, <2>2
<1>11. CASE LastOut(t)
  <2>1. pc'[t] = "release" /\ call'[t] = "last"
    BY <1>11 DEF LastOut
  <2> QED
    BY <1>3, <2>1
<1>12. CASE Destroying(t) \/ OnceLocked(t) \/ MarkDone(t) \/ AppendToList(t)
  <2>1. pc'[t] \in {"release", "init"}
    BY <1>12 DEF Destroying, OnceLocked, MarkDone, AppendToList
  <2> QED
    BY <1>3, <2>1
<1>13. CASE InitRoutine(t)
  <2>1. pc'[t] \in {"release", "mark"}
    BY <1>13 DEF InitRoutine
  <2> QED
    BY <1>3, <2>1
<1>14. CASE LockStep(t)
  <2>1. McsStep(t) /\ call' = call /\ open' = open
    BY <1>14 DEF LockStep, barrierVars
  <2>2. CASE Enqueue(t)
    <3>1. ~Mine(t)
      BY <2>2 DEF Enqueue, Mine, Given
    <3>2. lock = None => Leads(t)'
      BY <2>2 DEF Enqueue
    <3> QED
      BY <1>3, <2>1, <3>1, <3>2
  <2>3. CASE Link(t) \/ Notify(t)
    <3>1. UNCHANGED <<lock, readyFlag, calls>> /\ pc[t] \in {"link", "notify"} /\ pc'[t] \in {"notify", "ready"}
      BY <2>3 DEF Link, Notify, callVars
    <3>2. Mine(t) => Given(t)'
      BY <3>1 DEF Mine, Given, MyNode
    <3> QED
      BY <1>3, <2>1, <3>1, <3>2
  <2>4. CASE AwaitReady(t)
    <3>1. UNCHANGED <<lock, readyFlag>> \/ (UNCHANGED lock /\ readyFlag[held[t]] = Clear)
      BY <2>4 DEF AwaitReady, FlagWait
    <3>2. held[t] = MyNode(t) /\ pc[t] = "ready" /\ Clear # Set
      BY <2>4, MyNodes, Linked DEF AwaitReady, Linked, Queue, Places
    <3>3. Mine(t) => pc'[t] = "locked"
      BY <2>4, <3>2 DEF AwaitReady, FlagWait, Mine, Given
    <3> QED
      BY <1>3, <2>1, <3>1, <3>3
  <2>5. CASE WakeUp(t, "sleep_ready", "locked") \/ WakeUp(t, "sleep_linked", "pass")
    <3>1. pc'[t] \in {"locked", "pass"}
      BY <2>5 DEF WakeUp
    <3> QED
      BY <1>3, <3>1
  <2>6. CASE Release(t) \/ AwaitLink(t)
    <3>1. pc'[t] \in Frees
      BY <2>6 DEF Release, AwaitLink, FlagWait
    <3> QED
      BY <1>3, <3>1
  <2>7. CASE Unlock(t)
    <3>1. pc'[t] = "linked"
      BY <2>7 DEF Unlock
    <3> QED
      BY <1>3, <3>1
  <2>8. CASE Pass(t)
    <3>1. Leads(t) /\ lock # held[t] /\ next[held[t]] # None
      BY <1>1, <2>8, Leading DEF Pass, Ruled
    <3>2. PICK s \in Threads :
            /\ pc[s] \in Waits /\ s # t /\ next[held[t]] = MyNode(s)
            /\ readyFlag[MyNode(s)] = IF pc[s] = "sleep_ready" THEN s ELSE Clear
      BY <1>1, <3>1, Leading
    <3>3. FlagSet(readyFlag, readyFlag', MyNode(s)) /\ pc'[s] = pc[s] /\ calls' = calls
      BY <2>8, <3>1, <3>2 DEF Pass, callVars
    <3>4. MyNode(s) \in Node /\ Clear \notin Threads
      BY MyNodes
    <3>5. CASE pc[s] = "sleep_ready"
      <4>1. readyFlag[MyNode(s)] = s
        BY <3>2, <3>5
      <4>2. event'[s] = TRUE
        BY <3>3, <4>1 DEF FlagSet
      <4>3. Given(s)'
        BY <3>3, <3>5, <4>2 DEF Given
      <4> QED
        BY <4>3 DEF Mine
    <3>6. CASE pc[s] # "sleep_ready"
      <4>1. readyFlag[MyNode(s)] = Clear
        BY <3>2, <3>6
      <4>2. readyFlag'[MyNode(s)] = Set
        BY <3>3, <3>4, <4>1 DEF FlagSet
      <4>3. MyNode(s)' = MyNode(s)
        BY <3>3 DEF MyNode
      <4>4. Given(s)'
        BY <3>2, <3>3, <3>6, <4>2, <4>3 DEF Given
      <4> QED
        BY <4>4 DEF Mine
    <3> QED
      BY <3>5, <3>6
  <2>9. CASE Transfer(t)
    <3>1. pc[t] = "transfer"
      BY <2>9 DEF Transfer
    <3>2. open
      BY <1>1, <3>1 DEF Round, Filled
    <3> QED
      BY <2>1, <3>2
  <2>10. CASE Adopt(t)
    <3>1. pc[t] = "adopt"
      BY <2>10 DEF Adopt
    <3>2. open
      BY <1>1, <3>1 DEF Round, Filled
    <3> QED
      BY <2>1, <3>2
  <2> QED
    BY <2>1, <2>2, <2>3, <2>4, <2>5, <2>6, <2>7, <2>8, <2>9, <2>10 DEF McsStep, Acquire, ReleaseLock
<1> QED
  BY <1>5, <1>6, <1>7, <1>8, <1>9, <1>10, <1>11, <1>12, <1>13, <1>14 DEF StepOf, InCall

\* A thread that links keeps its word before it waits.
LEMMA HeardKept ==
  ASSUME NodesOutlive, LockTypes, Users, Linked, Heard, NEW t \in Threads, StepOf(t)
  PROVE  Heard'
<1>1. Calls /\ Round /\ Ruled
  BY Leading DEF Users
<1> USE DEF Goto, Continue, LockTypes, callVars, flagVars
<1> SUFFICES ASSUME NEW u \in Threads, pc'[u] \in {"unlock", "linked", "sleep_linked"},
                    nextFlag'[held'[u]] # Set, ~event'[u], lock' # held'[u]
             PROVE  \E s \in Threads : pc'[s] \in {"link", "notify"} /\ pred'[s] = held'[u]
  BY DEF Heard, Told
<1>2. Clear # Set /\ Set \notin Threads /\ Clear \notin Threads
  BY MyNodes
<1>3. CASE u = t
  <2>1. Release(t) \/ Unlock(t) \/ AwaitLink(t)
    <3>1. CASE LockStep(t)
      BY <1>3, <3>1 DEF LockStep, McsStep, Acquire, ReleaseLock, Enqueue, Link, Notify, AwaitReady, WakeUp,
         Pass, Transfer, Adopt, FlagWait
    <3>2. CASE ~LockStep(t)
      BY <1>3, <3>2 DEF StepOf, InCall, Destroy, TryAcquire, BarrierWait, Once, CondInit, Call, Released,
         Arrive, BreakBarrier, SemWait, Leave, OtherOut, LastOut, Destroying, OnceLocked, InitRoutine,
         MarkDone, AppendToList
    <3> QED
      BY <3>1, <3>2
  <2>2. Leads(t)
    BY <2>1 DEF Release, Unlock, AwaitLink, Leads, InQueue, Ends, Frees, Waits
  <2>3. UNCHANGED <<held, pred, event>> /\ \A s \in Threads : s # t => pc'[s] = pc[s]
    BY <2>1 DEF Release, Unlock, AwaitLink, FlagWait
  <2>4. CASE Release(t)
    <3>1. next[held[t]] = None /\ lock # held[t]
      BY <1>3, <2>4 DEF Release
    <3>2. PICK s \in Threads : /\ pc[s] \in Waits /\ s # t
                               /\ IF pc[s] = "link" THEN pred[s] = held[t] ELSE next[held[t]] = MyNode(s)
      BY <1>1, <2>2, <3>1, Leading
    <3>3. pc[s] = "link" /\ pred[s] = held[t]
      BY <3>1, <3>2, MyNodes
    <3> QED
      BY <1>3, <2>3, <3>2, <3>3
  <2>5. CASE Unlock(t)
    <3>1. lock # held[t] /\ nextFlag' = nextFlag /\ pc[t] = "unlock"
      BY <1>3, <2>5 DEF Unlock
    <3>2. PICK s \in Threads : pc[s] \in {"link", "notify"} /\ pred[s] = held[t]
      BY <1>3, <2>3, <3>1 DEF Heard, Told
    <3> QED
      BY <1>3, <2>3, <3>1, <3>2
  <2>6. CASE AwaitLink(t)
    <3>1. lock' = lock /\ pc[t] = "linked" /\ nextFlag[held[t]] = Clear
      BY <1>3, <2>6 DEF AwaitLink, FlagWait
    <3>2. PICK s \in Threads : pc[s] \in {"link", "notify"} /\ pred[s] = held[t]
      BY <1>2, <1>3, <2>3, <3>1 DEF Heard, Told
    <3> QED
      BY <1>3, <2>3, <3>1, <3>2
  <2> QED
    BY <2>1, <2>4, <2>5, <2>6
<1>4. CASE u # t
  <2>1. pc'[u] = pc[u] /\ held'[u] = held[u] /\ ~event[u]
    BY <1>1, <1>4, OthersLeft
  <2>2. Leads(u)
    BY <2>1 DEF Leads, InQueue, Ends, Frees, Waits
  <2>3. /\ lock # None /\ held[u] \in Node /\ (~Leads(t))
        /\ held[u] = IF Ends(u) THEN Proxy ELSE MyNode(u)
        /\ pc[u] = "sleep_linked" => nextFlag[held[u]] = u
        /\ pc[u] # "sleep_linked" =>
             \A s \in Threads : pc[s] \in {"link", "notify"} /\ pred[s] = held[u] => nextFlag[held[u]] = Clear
    BY <1>1, <1>4, <2>2, Leading
  <2>4. pc[t] \notin {"release", "unlock", "linked", "sleep_linked", "pass", "transfer", "adopt", "locked"}
    BY <2>3 DEF Leads, InQueue, Ends, Frees, Works, Waits
  <2>5. /\ StackNode(t, calls[t] + 1) # held[u] /\ MyNode(t) # held[u] /\ StackNode(t, calls[t] + 1) \in Node
    <3>1. calls[t] \in Nat /\ calls[u] \in Nat /\ calls[t] + 1 \in Nat
      OBVIOUS
    <3> QED
      BY <1>4, <2>3, <3>1, Nodes, MyNodes DEF MyNode
  \* Two kinds of steps: one that adds a thread to the queue, and one that leaves it.
  <2>6. ASSUME lock # held[u] => nextFlag[held[u]] # Set,
               UNCHANGED pred \/ pc[t] \in {"idle", "enqueue"},
               lock' = lock \/ pc[t] = "enqueue",
               pc'[t] = pc[t] \/ pc[t] \notin {"link", "notify"} \/ (pc'[t] = "notify" /\ pred' = pred),
               lock' # lock => pc'[t] = "link" /\ pred'[t] = lock
        PROVE  \E s \in Threads : pc'[s] \in {"link", "notify"} /\ pred'[s] = held'[u]
    <3>1. CASE lock = held[u]
      BY <2>1, <2>6, <3>1
    <3>2. CASE lock # held[u]
      <4>1. PICK s \in Threads : pc[s] \in {"link", "notify"} /\ pred[s] = held[u]
        BY <2>1, <2>6, <3>2 DEF Heard, Told
      <4>2. CASE s = t
        BY <2>1, <2>6, <4>1, <4>2
      <4>3. CASE s # t
        <5>1. pc'[s] = pc[s] /\ pred'[s] = pred[s]
          BY <1>1, <4>3, OthersLeft
        <5> QED
          BY <2>1, <4>1, <5>1
      <4> QED
        BY <4>2, <4>3
    <3> QED
      BY <3>1, <3>2
  <2>7. CASE Destroy(t)
    <3>1. /\ pc[t] = "idle" /\ lock' = lock /\ pred' = pred
          /\ nextFlag'[held[u]] = nextFlag[held[u]]
      BY <2>3, <2>5, <2>7 DEF Destroy, TryAcquire, Fresh
    <3> QED
      BY <2>1, <2>6, <3>1
  <2>8. CASE BarrierWait(t) \/ Once(t) \/ CondInit(t)
    <3>1. pc[t] = "idle" /\ UNCHANGED <<lock, pred, nextFlag>>
      BY <2>8 DEF BarrierWait, Once, CondInit, Call
    <3> QED
      BY <2>1, <2>6, <3>1
  <2>9. CASE Released(t)
    <3>1. pc[t] = "released" /\ UNCHANGED <<lock, pred>> /\ nextFlag'[held[u]] = nextFlag[held[u]]
      BY <2>3, <2>5, <2>9 DEF Released, Fresh
    <3> QED
      BY <2>1, <2>6, <3>1
  <2>10. CASE Arrive(t) \/ BreakBarrier(t) \/ SemWait(t) \/ Leave(t) \/ OtherOut(t)
    <3>1. pc[t] \notin {"link", "notify"} /\ UNCHANGED <<lock, pred, nextFlag>>
      BY <2>10 DEF Arrive, BreakBarrier, SemWait, Leave, OtherOut
    <3> QED
      BY <2>1, <2>6, <3>1
  <2>11. CASE Destroying(t) \/ OnceLocked(t) \/ MarkDone(t) \/ AppendToList(t) \/ LastOut(t) \/ InitRoutine(t)
    <3>1. pc[t] \notin {"link", "notify"} /\ UNCHANGED <<lock, pred, nextFlag>>
      BY <2>11 DEF Destroying, OnceLocked, MarkDone, AppendToList, LastOut, InitRoutine
    <3> QED
      BY <2>1, <2>6, <3>1
  <2>12. CASE LockStep(t)
    <3>1. McsStep(t) /\ call' = call
      BY <2>12 DEF LockStep
    <3>2. CASE Enqueue(t)
      <4>1. /\ pc[t] = "enqueue" /\ pc'[t] = "link" /\ pred'[t] = lock
            /\ nextFlag'[held[u]] = nextFlag[held[u]]
        BY <2>3, <2>5, <3>2 DEF Enqueue, Fresh
      <4> QED
        BY <2>1, <2>6, <4>1
    <3>3. CASE Link(t)
      <4>1. pc[t] = "link" /\ pc'[t] = "notify" /\ UNCHANGED <<lock, pred, nextFlag>>
        BY <3>3 DEF Link
      <4> QED
        BY <2>1, <2>6, <4>1
    <3>4. CASE Notify(t)
      <4>1. /\ pc[t] = "notify" /\ UNCHANGED lock /\ FlagSet(nextFlag, nextFlag', pred[t])
            /\ pred' = [pred EXCEPT ![t] = None]
        BY <3>4 DEF Notify
      <4>2. nextFlag[held[u]] = Set => nextFlag'[held[u]] = Set
        BY <1>2, <2>3, <4>1 DEF FlagSet
      <4>3. PICK s \in Threads : pc[s] \in {"link", "notify"} /\ pred[s] = held[u]
        BY <2>1, <4>1, <4>2 DEF Heard, Told
      <4>4. CASE s # t
        <5>1. pc'[s] = pc[s] /\ pred'[s] = pred[s]
          BY <1>1, <4>4, OthersLeft
        <5> QED
          BY <2>1, <4>3, <5>1
      <4>5. CASE s = t
        <5>1. CASE pc[u] = "sleep_linked"
          <6>1. nextFlag[pred[t]] = u
            BY <2>3, <4>3, <4>5, <5>1
          <6>2. event'[u] = TRUE
            BY <4>1, <6>1 DEF FlagSet
          <6> QED
            BY <6>2
        <5>2. CASE pc[u] # "sleep_linked"
          <6>1. nextFlag[held[u]] = Clear
            BY <2>3, <4>3, <5>2
          <6>2. nextFlag'[held[u]] = Set
            BY <2>3, <4>1, <4>3, <4>5, <6>1 DEF FlagSet
          <6> QED
            BY <2>1, <6>2
        <5> QED
          BY <5>1, <5>2
      <4> QED
        BY <4>4, <4>5
    <3>5. CASE AwaitReady(t) \/ WakeUp(t, "sleep_ready", "locked")
      <4>1. pc[t] \in {"ready", "sleep_ready"} /\ UNCHANGED <<lock, pred, nextFlag>>
        BY <3>5 DEF AwaitReady, WakeUp
      <4> QED
        BY <2>1, <2>6, <4>1
    <3>6. ~(Release(t) \/ Unlock(t) \/ AwaitLink(t) \/ WakeUp(t, "sleep_linked", "pass") \/ Pass(t)
            \/ Transfer(t) \/ Adopt(t))
      BY <2>4 DEF Release, Unlock, AwaitLink, WakeUp, Pass, Transfer, Adopt
    <3> QED
      BY <3>1, <3>2, <3>3, <3>4, <3>5, <3>6 DEF McsStep, Acquire, ReleaseLock
  <2> QED
    BY <2>7, <2>8, <2>9, <2>10, <2>11, <2>12 DEF StepOf, InCall
<1> QED
  BY <1>3, <1>4

\* When no thread can go on, nobody has the lock, no round is leaving the barrier,
\* and who is not outside waits at the semaphore.
LEMMA NobodyLeft == NodesOutlive /\ BarrierInv /\ RestInv => NobodyStranded
<1> SUFFICES ASSUME NodesOutlive, BarrierInv, RestInv, \A t \in InCalls : Blocked(t)
             PROVE  lock = None /\ ~open /\ \A t \in Threads : pc[t] \in {"idle", "dead", "semwait"}
  BY DEF NobodyStranded
<1>1. LockTypes /\ Users /\ Round /\ Linked /\ Ruled
  BY Leading DEF BarrierInv, Users
<1>2. \A t \in Threads :
        \/ pc[t] \in {"idle", "dead"}
        \/ pc[t] \in {"sleep_ready", "sleep_linked"} /\ ~event[t]
        \/ pc[t] = "adopt" /\ next[held[t]] = None
        \/ pc[t] = "semwait" /\ sem = 0
  BY DEF InCalls, Blocked
\* A thread behind the one that has the lock has done all it does before it waits.
<1>3. ASSUME NEW t \in Threads, pc[t] \in {"adopt", "sleep_linked"} PROVE FALSE
  <2>1. Leads(t)
    BY <1>3 DEF Leads, InQueue, Ends, Works, Frees, Waits
  <2>2. lock # held[t] /\ (pc[t] = "sleep_linked" => nextFlag[held[t]] = t)
    BY <1>1, <1>3, <2>1, Leading
  <2>3. CASE pc[t] = "adopt"
    <3>1. PICK s \in Threads : /\ pc[s] \in Waits
                               /\ IF pc[s] = "link" THEN pred[s] = held[t] ELSE next[held[t]] = MyNode(s)
      BY <1>1, <2>1, <2>2, Leading
    <3>2. next[held[t]] = MyNode(s)
      BY <1>2, <3>1 DEF Waits
    <3> QED
      BY <1>1, <1>2, <2>3, <3>2, MyNodes
  <2>4. CASE pc[t] = "sleep_linked"
    <3>1. nextFlag[held[t]] # Set /\ ~event[t]
      BY <1>1, <1>2, <2>2, <2>4, MyNodes
    <3>2. PICK s \in Threads : pc[s] \in {"link", "notify"}
      BY <2>2, <2>4, <3>1 DEF RestInv, Heard, Told
    <3> QED
      BY <1>2, <3>2
  <2> QED
    BY <1>3, <2>3, <2>4
<1>4. ~open
  <2> SUFFICES ASSUME open PROVE FALSE
    OBVIOUS
  <2>1. \A t \in Threads : pc[t] \notin Filled
    BY <1>2, <1>3 DEF Filled
  <2>2. sem = Cardinality(Sleepers) /\ inside # {} /\ inside \subseteq Threads
    BY <1>1, <2>1 DEF Round
  <2>3. Sleepers = inside
    BY <1>1, <1>2, <1>3 DEF Round, Sleepers, Frees, Filled
  <2>4. PICK t \in Threads : t \in inside
    BY <2>2
  <2>5. pc[t] = "semwait" /\ sem = 0
    BY <1>1, <1>2, <1>3, <2>4 DEF Round, Frees, Filled
  <2>6. Cardinality(inside) # 0
    BY <1>1, <2>2, FS_EmptySet DEF Round
  <2> QED
    BY <2>2, <2>3, <2>5, <2>6
<1>5. lock = None
  <2>1. \A t \in Threads : ~Leads(t) /\ ~Given(t) /\ ~Last(t)
    BY <1>2, <1>3 DEF Leads, Given, Last, Ends, InQueue, Waits, Works, Frees
  <2> QED
    BY <1>4, <2>1 DEF RestInv, Owned
<1>6. ASSUME NEW t \in Threads PROVE pc[t] # "sleep_ready"
  <2>1. PICK who \in [Nat -> Threads \cup {None}], pl \in [Threads -> Nat], lo \in Nat, hi \in Nat :
          Queue(who, pl, lo, hi) /\ NodeThere(who, lo, hi)
    BY <1>1 DEF Linked
  <2>2. Places(who, pl, lo, hi)
    BY <2>1 DEF Queue
  <2>3. lo = hi
    <3>1. ASSUME lo # hi PROVE FALSE
      <4>1. lock = At(who[hi - 1]) /\ hi - 1 \in lo .. hi - 1
        BY <2>2, <3>1 DEF Places
      <4>2. At(who[hi - 1]) # None
        BY <1>1, <2>2, <4>1, Distinct
      <4> QED
        BY <1>5, <4>1, <4>2
    <3> QED
      BY <3>1
  <2>4. ~InQueue(t)
    BY <2>2, <2>3 DEF Places
  <2> QED
    BY <2>4 DEF InQueue, Waits
<1> QED
  BY <1>2, <1>3, <1>4, <1>5, <1>6

\* Under every interleaving of its instructions, and whatever waits for whom, no
\* thread is left behind at the queue lock, at a once_control or at a barrier: when
\* all calls have come to where they wait, they wait for a round that is not
\* complete, and the flags, the nodes and the counters are within their types.
THEOREM LockAlwaysPassesOn ==
  NodesOutlive => (Spec => [](TypeOK /\ NobodyStranded /\ (GoesOn => LockPassesOn)))
<1> SUFFICES ASSUME NodesOutlive
             PROVE  Spec => [](TypeOK /\ NobodyStranded /\ (GoesOn => LockPassesOn))
  OBVIOUS
<1>1. Init => BarrierInv /\ RestInv
  <2> SUFFICES ASSUME Init PROVE RestInv
    BY InitBarrierInv
  <2>1. /\ lock = None /\ pc = [t \in Threads |-> "idle"] /\ calls = [t \in Threads |-> 0] /\ begun = 0
        /\ sem = 0 /\ MaxCalls \in Nat /\ Height \in Nat \ {0}
    BY McsAssumption, BarrierAssumption DEF Init, McsInit
  <2> QED
    BY <2>1 DEF RestInv, Owned, Heard, Told, Bounded
<1>2. BarrierInv /\ RestInv /\ [Next]_vars => BarrierInv' /\ RestInv'
  <2> SUFFICES ASSUME BarrierInv, RestInv, [Next]_vars PROVE RestInv'
    BY NextBarrierInv
  <2>1. ASSUME NEW t \in Threads, StepOf(t) PROVE RestInv'
    BY <2>1, OwnedKept, HeardKept, BoundedKept DEF RestInv, BarrierInv, Users
  <2>2. CASE UNCHANGED vars
    BY <2>2 DEF vars, mcsVars, flagVars, callVars, barrierVars, RestInv, Owned, Heard, Told, Bounded, Leads,
       Given, Last, InQueue, Ends, MyNode, StackNode
  <2> QED
    BY <2>1, <2>2 DEF Next, StepOf
<1>3. BarrierInv /\ RestInv => TypeOK /\ NobodyStranded /\ (GoesOn => LockPassesOn)
  <2> SUFFICES ASSUME BarrierInv, RestInv PROVE TypeOK /\ NobodyStranded
    BY DEF LockPassesOn
  <2>1. Ruled /\ LockTypes /\ Round
    BY Leading DEF BarrierInv, Users
  <2>2. calls \in [Threads -> 0 .. MaxCalls + 1]
    BY <2>1, McsAssumption DEF LockTypes, RestInv, Bounded
  <2>3. height \in 0 .. Height /\ sem \in 0 .. Height - 1
    <3>1. Cardinality(inside) \in Nat /\ height \in Nat /\ sem \in Nat /\ sem <= Height - 1
          /\ Cardinality(inside) + height = Height
      BY <2>1, FS_CardinalityType DEF Round, RestInv, Bounded
    <3> QED
      BY <3>1, BarrierAssumption
  <2> QED
    BY <2>1, <2>2, <2>3, NobodyLeft DEF TypeOK, LockTypes, Ruled
<1> QED
  BY <1>1, <1>2, <1>3, PTL DEF Spec
==========
