---------------------------- MODULE PtwTsdProofs ----------------------------
(***************************************************************************)
(* Safety of PtwTsd for any threads, keys, values and rounds, while no key *)
(* is deleted that has associations with several threads; and that nobody  *)
(* waits for ever, while none is deleted that an ending thread has.        *)
(***************************************************************************)
EXTENDS PtwTsd, SequenceTheorems, TLAPS

\* The loop of pthread_key_delete runs once at most, and so with keyLock held.
OneThreadAtDelete == "shared_delete" \notin Env

-----------------------------------------------------------------------------
(* The inductive invariant *)

Setting == {"setKey", "setThread", "setValue"}
Deleting == {"deleteKey", "deleteLoop", "deleteThread", "deleteLast"}
Waiting == {"deleteWait", "selfWait"}
Round == {"loop", "next", "both"}

Places ==
  {"user", "destructor", "again", "round", "ended"} \cup Setting \cup Deleting \cup Waiting \cup Round

Once(chain) == \A i, j \in 1 .. Len(chain) : chain[i] = chain[j] => i = j
FirstOf(chain) == IF chain = <<>> THEN None ELSE Head(chain)

TsdType ==
  /\ TypeOK
  /\ pc \in [Threads -> Places] /\ about \in [Threads -> Keys \cup {None}]
  /\ target \in [Threads -> Threads \cup Value \cup {None}]
  /\ \A t \in Threads :
       /\ pc[t] \in Setting \cup Deleting \cup Waiting \cup {"both"} => about[t] \in Keys
       /\ pc[t] \in Setting => target[t] \in Value
       /\ pc[t] = "deleteThread" => target[t] \in Threads

\* Who has got a lock stays its owner.
Owns(t) ==
  /\ pc[t] \in {"setThread", "deleteThread", "both"} => Holds(t, keyLock[about[t]])
  /\ pc[t] = "deleteLoop" => Holds(t, keyLock[about[t]]) \/ threads[about[t]] = <<>>
  /\ pc[t] = "both" => Holds(t, threadLock[t])

\* A key in a call of pthread_setspecific is not deleted, and one that is being
\* deleted gets no associations any more and loses the one it has.
Phase(t) ==
  /\ pc[t] \in Setting => key[about[t]] = "live"
  /\ pc[t] \in Deleting => key[about[t]] = "deleted" /\ Len(threads[about[t]]) <= 1
  /\ pc[t] = "deleteThread" => Contains(threads[about[t]], target[t])
  /\ pc[t] = "deleteLast" => threads[about[t]] = <<>>
  /\ pc[t] \in Waiting => key[about[t]] = "slotless"

OneDeleter ==
  \A t, u \in Threads :
    {pc[t], pc[u]} \subseteq Deleting \cup Waiting /\ about[t] = about[u] => t = u

\* A thread that ends has passed no association of its chain by, unless it ran a
\* destructor in this round, and then there is another round.
Passes(t) ==
  /\ pc[t] = "user" => iterations[t] = 0
  /\ remaining[t] => iterations[t] <= Rounds
  /\ pc[t] = "again" => remaining[t]
  /\ pc[t] = "destructor" => remaining[t]
  /\ pc[t] \in Setting \cup Deleting \cup Waiting => iterations[t] = 0 \/ remaining[t]
  /\ pc[t] \in Round => remaining[t] \/ nextAssoc[t] = FirstOf(keys[t])
  /\ pc[t] = "both" => nextAssoc[t] = about[t]
  /\ pc[t] = "ended" => keys[t] = <<>>

\* The chains tell the same and nothing twice, and what they lead to is there.
Chained ==
  /\ \A t \in Threads : Once(keys[t])
  /\ \A k \in Keys : Once(threads[k])
  /\ \A t \in Threads, k \in Keys :
       /\ Contains(keys[t], k) <=> Contains(threads[k], t)
       /\ Contains(keys[t], k) => key[k] \in {"live", "deleted"}
  /\ \A t \in Threads : nextAssoc[t] # None => Contains(keys[t], nextAssoc[t])

\* Every value is in one place at most: in the slot of a thread, on its way to
\* one, or with its destructor.
Slotted ==
  /\ \A t \in Threads, k \in Keys : value[t][k] \in 0 .. values
  /\ \A t, u \in Threads, j, k \in Keys :
       value[t][j] # 0 /\ value[t][j] = value[u][k] => t = u /\ j = k
Coming ==
  \A t \in Threads : pc[t] \in Setting =>
    /\ target[t] \in 1 .. values
    /\ \A u \in Threads : pc[u] \in Setting /\ target[u] = target[t] => u = t
    /\ \A u \in Threads, k \in Keys : value[u][k] # target[t]
Given ==
  \A v \in Value : ran[v] # 0 =>
    /\ ran[v] = 1 /\ v \in 1 .. values
    /\ \A u \in Threads : pc[u] \in Setting => target[u] # v
    /\ \A u \in Threads, k \in Keys : value[u][k] # v

\* A value that a destructor has to get lies in a slot that an association leads to.
Owing ==
  /\ \A t \in Threads : iterations[t] <= Rounds => \A v \in owed[t] :
       v # 0 /\ \E k \in Keys : value[t][k] = v /\ Contains(keys[t], k) /\ key[k] = "live"
  /\ \A t \in Threads : pc[t] = "setValue" => Contains(keys[t], about[t])

Accounted == Slotted /\ Coming /\ Given /\ Owing

TsdInv ==
  /\ TsdType
  /\ \A t \in Threads : Owns(t) /\ Phase(t) /\ Passes(t)
  /\ OneDeleter /\ Chained

-----------------------------------------------------------------------------
(* Queues and chains *)

LEMMA Queues ==
  ASSUME NEW q \in Seq(Threads), NEW t \in Threads
  PROVE  /\ Append(q, t) \in Seq(Threads)
         /\ Holds(t, q) => Tail(q) \in Seq(Threads)
         /\ q = <<>> => <<t>> = Append(q, t)
         /\ \A u \in Threads : Holds(u, q) => Holds(u, Append(q, t))
         /\ \A u, w \in Threads : Holds(u, q) /\ Holds(w, q) => u = w
         /\ \A u \in Threads : q = <<>> => ~Holds(u, q) /\ (Holds(u, Append(q, t)) <=> u = t)
<1>1. Append(q, t) \in Seq(Threads) /\ Append(q, t) # <<>>
  BY AppendProperties
<1>2. Holds(t, q) => Tail(q) \in Seq(Threads)
  BY HeadTailProperties DEF Holds
<1>3. Head(Append(q, t)) = IF q = <<>> THEN t ELSE Head(q)
  BY HeadTailAppend
<1>4. q = <<>> => <<t>> = Append(q, t)
  OBVIOUS
<1> QED
  BY <1>1, <1>2, <1>3, <1>4 DEF Holds

\* An association that is put first in a chain.
LEMMA ChainPut ==
  ASSUME NEW S, NEW s \in Seq(S), NEW e \in S, Once(s), ~Contains(s, e)
  PROVE  /\ <<e>> \o s \in Seq(S) /\ Once(<<e>> \o s) /\ <<e>> \o s # <<>>
         /\ \A x : Contains(<<e>> \o s, x) <=> x = e \/ Contains(s, x)
<1> DEFINE r == <<e>> \o s
<1>1. /\ r \in Seq(S) /\ Len(s) \in Nat /\ Len(r) = Len(s) + 1
      /\ \A i \in 1 .. Len(s) + 1 : r[i] = IF i = 1 THEN e ELSE s[i - 1]
  <2>1. <<e>> \in Seq(S) /\ Len(<<e>>) = 1 /\ <<e>>[1] = e
    OBVIOUS
  <2>2. /\ r \in Seq(S) /\ Len(r) = 1 + Len(s)
        /\ \A i \in 1 .. 1 + Len(s) : r[i] = IF i <= 1 THEN <<e>>[i] ELSE s[i - 1]
    BY <2>1, ConcatProperties
  <2>3. Len(s) \in Nat
    BY LenProperties
  <2> QED
    BY <2>1, <2>2, <2>3
<1> HIDE DEF r
<1>2. \A i \in 1 .. Len(s) : s[i] # e
  BY DEF Contains
<1>3. Once(r)
  <2> SUFFICES ASSUME NEW i \in 1 .. Len(r), NEW j \in 1 .. Len(r), r[i] = r[j]
               PROVE  i = j
    BY DEF Once
  <2>1. CASE i = 1 \/ j = 1
    <3>1. ASSUME NEW k \in 1 .. Len(r), k # 1 PROVE r[k] # e
      <4>1. k - 1 \in 1 .. Len(s) /\ r[k] = s[k - 1]
        BY <1>1, <3>1
      <4> QED
        BY <1>2, <4>1
    <3>2. r[1] = e
      BY <1>1
    <3> QED
      BY <2>1, <3>1, <3>2
  <2>2. CASE i # 1 /\ j # 1
    <3>1. i - 1 \in 1 .. Len(s) /\ j - 1 \in 1 .. Len(s) /\ s[i - 1] = s[j - 1]
      BY <1>1, <2>2
    <3> QED
      BY <3>1 DEF Once
  <2> QED
    BY <2>1, <2>2
<1>4. r # <<>>
  BY <1>1
<1>5. ASSUME NEW x PROVE Contains(r, x) <=> x = e \/ Contains(s, x)
  <2>1. ASSUME NEW i \in 1 .. Len(r), r[i] = x PROVE x = e \/ Contains(s, x)
    <3>1. i = 1 \/ (i - 1 \in 1 .. Len(s) /\ s[i - 1] = x)
      BY <1>1, <2>1
    <3> QED
      BY <1>1, <2>1, <3>1 DEF Contains
  <2>2. ASSUME NEW i \in 1 .. Len(s), s[i] = x PROVE Contains(r, x)
    <3>1. i + 1 \in 1 .. Len(r) /\ r[i + 1] = x
      BY <1>1, <2>2
    <3> QED
      BY <3>1 DEF Contains
  <2>3. 1 \in 1 .. Len(r) /\ r[1] = e
    BY <1>1
  <2> QED
    BY <2>1, <2>2, <2>3 DEF Contains
<1> QED
  BY <1>1, <1>3, <1>4, <1>5 DEF r

\* An association that is taken out of a chain, and the one behind it.
LEMMA ChainCut ==
  ASSUME NEW S, NEW s \in Seq(S), NEW e, Once(s), Contains(s, e)
  PROVE  /\ At(s, e) \in 1 .. Len(s) /\ s[At(s, e)] = e
         /\ RemoveAt(s, At(s, e)) \in Seq(S) /\ Once(RemoveAt(s, At(s, e)))
         /\ Len(RemoveAt(s, At(s, e))) = Len(s) - 1
         /\ \A j \in 1 .. Len(s) - 1 :
              RemoveAt(s, At(s, e))[j] = IF j < At(s, e) THEN s[j] ELSE s[j + 1]
         /\ \A x : Contains(RemoveAt(s, At(s, e)), x) <=> x # e /\ Contains(s, x)
<1> DEFINE i == At(s, e)
           a == SubSeq(s, 1, i - 1)
           b == SubSeq(s, i + 1, Len(s))
           r == RemoveAt(s, i)
<1>1. Len(s) \in Nat /\ DOMAIN s = 1 .. Len(s) /\ \A j \in 1 .. Len(s) : s[j] \in S
  BY LenProperties, ElementOfSeq
<1>2. i \in 1 .. Len(s) /\ s[i] = e
  BY <1>1 DEF At, Contains
<1> HIDE DEF i
<1>3. r = a \o b
  BY DEF RemoveAt
<1>4. /\ a \in Seq(S) /\ Len(a) = i - 1
      /\ \A j \in 1 .. i - 1 : a[j] = s[j]
  <2>1. 1 \in Int /\ i - 1 \in Int /\ \A j \in 1 .. i - 1 : s[j] \in S
    BY <1>1, <1>2
  <2>2. /\ a \in Seq(S) /\ Len(a) = (IF 1 <= i - 1 THEN (i - 1) - 1 + 1 ELSE 0)
        /\ \A j \in 1 .. (i - 1) - 1 + 1 : a[j] = s[1 + j - 1]
    BY <2>1, SubSeqProperties
  <2>3. /\ (i - 1) - 1 + 1 = i - 1 /\ (IF 1 <= i - 1 THEN (i - 1) - 1 + 1 ELSE 0) = i - 1
        /\ \A j \in 1 .. i - 1 : 1 + j - 1 = j
    BY <1>1, <1>2
  <2> QED
    BY <2>2, <2>3
<1>5. /\ b \in Seq(S) /\ Len(b) = Len(s) - i
      /\ \A j \in 1 .. Len(s) - i : b[j] = s[i + j]
  <2>1. i + 1 \in Int /\ Len(s) \in Int /\ \A j \in i + 1 .. Len(s) : s[j] \in S
    BY <1>1, <1>2
  <2>2. /\ b \in Seq(S) /\ Len(b) = (IF i + 1 <= Len(s) THEN Len(s) - (i + 1) + 1 ELSE 0)
        /\ \A j \in 1 .. Len(s) - (i + 1) + 1 : b[j] = s[(i + 1) + j - 1]
    BY <2>1, SubSeqProperties, SMTT(30)
  <2>3. \A m \in Nat : \A n \in 1 .. m :
          /\ m - (n + 1) + 1 = m - n /\ (IF n + 1 <= m THEN m - (n + 1) + 1 ELSE 0) = m - n
          /\ \A j \in 1 .. m - n : (n + 1) + j - 1 = n + j
    BY SMTT(30)
  <2>4. /\ Len(s) - (i + 1) + 1 = Len(s) - i
        /\ (IF i + 1 <= Len(s) THEN Len(s) - (i + 1) + 1 ELSE 0) = Len(s) - i
        /\ \A j \in 1 .. Len(s) - i : (i + 1) + j - 1 = i + j
    BY <1>1, <1>2, <2>3
  <2> QED
    BY <2>2, <2>4, SMTT(30)
<1> HIDE DEF a, b, r
<1>6. /\ r \in Seq(S) /\ Len(r) = Len(s) - 1
      /\ \A j \in 1 .. Len(s) - 1 : r[j] = IF j < i THEN s[j] ELSE s[j + 1]
  <2>1. /\ r \in Seq(S) /\ Len(r) = Len(a) + Len(b)
        /\ \A j \in 1 .. Len(a) + Len(b) : r[j] = IF j <= Len(a) THEN a[j] ELSE b[j - Len(a)]
    BY <1>3, <1>4, <1>5, ConcatProperties
  <2>2. Len(a) + Len(b) = Len(s) - 1 /\ Len(r) = Len(s) - 1
    BY <1>1, <1>2, <1>4, <1>5, <2>1
  <2>3. ASSUME NEW j \in 1 .. Len(s) - 1, j < i PROVE r[j] = s[j]
    BY <1>1, <1>2, <1>4, <2>1, <2>2, <2>3
  <2>4. ASSUME NEW j \in 1 .. Len(s) - 1, ~(j < i) PROVE r[j] = s[j + 1]
    <3>1. r[j] = b[j - (i - 1)]
      BY <1>1, <1>2, <1>4, <2>1, <2>2, <2>4
    <3>2. j - (i - 1) \in 1 .. Len(s) - i /\ i + (j - (i - 1)) = j + 1
      BY <1>1, <1>2, <2>4
    <3> QED
      BY <1>5, <3>1, <3>2
  <2> QED
    BY <2>1, <2>2, <2>3, <2>4
<1>7. Once(r)
  <2> SUFFICES ASSUME NEW j \in 1 .. Len(r), NEW k \in 1 .. Len(r), r[j] = r[k]
               PROVE  j = k
    BY DEF Once
  <2> DEFINE p(x) == IF x < i THEN x ELSE x + 1
  <2>1. p(j) \in 1 .. Len(s) /\ p(k) \in 1 .. Len(s) /\ s[p(j)] = s[p(k)]
    BY <1>1, <1>2, <1>6
  <2>2. p(j) = p(k)
    BY <2>1 DEF Once
  <2>3. j \in Nat /\ k \in Nat /\ i \in Nat
    BY <1>1, <1>2, <1>6
  <2>4. CASE j < i /\ k < i
    BY <2>2, <2>4
  <2>5. CASE ~(j < i) /\ ~(k < i)
    BY <2>2, <2>3, <2>5
  <2>6. CASE j < i <=> ~(k < i)
    BY <2>2, <2>3, <2>6
  <2> QED
    BY <2>4, <2>5, <2>6
<1>8. ASSUME NEW x PROVE Contains(r, x) <=> x # e /\ Contains(s, x)
  <2>1. ASSUME NEW j \in 1 .. Len(r), r[j] = x PROVE x # e /\ Contains(s, x)
    <3>1. PICK k \in 1 .. Len(s) : s[k] = x /\ k # i
      BY <1>1, <1>2, <1>6, <2>1
    <3> QED
      BY <1>2, <3>1 DEF Once, Contains
  <2>2. ASSUME NEW j \in 1 .. Len(s), s[j] = x, x # e PROVE Contains(r, x)
    <3>1. j # i
      BY <1>2, <2>2
    <3>2. CASE j < i
      <4>1. j \in 1 .. Len(r) /\ r[j] = x
        BY <1>1, <1>2, <1>6, <2>2, <3>2
      <4> QED
        BY <4>1 DEF Contains
    <3>3. CASE j > i
      <4>1. j - 1 \in 1 .. Len(r) /\ r[j - 1] = x
        BY <1>1, <1>2, <1>6, <2>2, <3>3
      <4> QED
        BY <4>1 DEF Contains
    <3> QED
      BY <1>1, <1>2, <3>1, <3>2, <3>3
  <2> QED
    BY <2>1, <2>2 DEF Contains
<1> QED
  BY <1>2, <1>6, <1>7, <1>8 DEF r, i

-----------------------------------------------------------------------------
(* What a step does to the locks, to the chains and to the other threads *)

\* Every lock that another thread has stays with it.
KeysHeld(t) ==
  /\ keyLock' \in [Keys -> Seq(Threads)]
  /\ \A u \in Threads \ {t}, k \in Keys : Holds(u, keyLock[k]) => Holds(u, keyLock'[k])
ThreadsHeld(t) ==
  /\ threadLock' \in [Threads -> Seq(Threads)]
  /\ \A u \in Threads \ {t}, w \in Threads :
       Holds(u, threadLock[w]) => Holds(u, threadLock'[w])

LEMMA KeyQueued ==
  ASSUME TsdInv, NEW t \in Threads, NEW k \in Keys,
         keyLock' = [keyLock EXCEPT ![k] = Append(@, t)]
  PROVE  /\ KeysHeld(t)
         /\ \A j \in Keys : Holds(t, keyLock[j]) => Holds(t, keyLock'[j])
         /\ keyLock[k] = <<>> => Holds(t, keyLock'[k])
<1>1. keyLock \in [Keys -> Seq(Threads)] /\ keyLock[k] \in Seq(Threads)
  BY DEF TsdInv, TsdType, TypeOK
<1>2. /\ Append(keyLock[k], t) \in Seq(Threads)
      /\ \A u \in Threads : Holds(u, keyLock[k]) => Holds(u, Append(keyLock[k], t))
      /\ keyLock[k] = <<>> => Holds(t, Append(keyLock[k], t))
  BY <1>1, Queues
<1>3. /\ keyLock' \in [Keys -> Seq(Threads)]
      /\ \A j \in Keys : j # k => keyLock'[j] = keyLock[j]
      /\ keyLock'[k] = Append(keyLock[k], t)
  BY <1>1, <1>2
<1> QED
  BY <1>2, <1>3 DEF KeysHeld

LEMMA KeyReleased ==
  ASSUME TsdInv, NEW t \in Threads, NEW k \in Keys, Holds(t, keyLock[k]),
         keyLock' = [keyLock EXCEPT ![k] = Tail(@)]
  PROVE  KeysHeld(t)
<1>1. keyLock \in [Keys -> Seq(Threads)] /\ keyLock[k] \in Seq(Threads)
  BY DEF TsdInv, TsdType, TypeOK
<1>2. /\ Tail(keyLock[k]) \in Seq(Threads)
      /\ \A u \in Threads : Holds(u, keyLock[k]) => u = t
  BY <1>1, Queues
<1>3. /\ keyLock' \in [Keys -> Seq(Threads)]
      /\ \A j \in Keys : j # k => keyLock'[j] = keyLock[j]
  BY <1>1, <1>2
<1> QED
  BY <1>2, <1>3 DEF KeysHeld

LEMMA ThreadQueued ==
  ASSUME TsdInv, NEW t \in Threads, NEW w \in Threads,
         threadLock' = [threadLock EXCEPT ![w] = Append(@, t)]
  PROVE  ThreadsHeld(t)
<1>1. threadLock \in [Threads -> Seq(Threads)] /\ threadLock[w] \in Seq(Threads)
  BY DEF TsdInv, TsdType, TypeOK
<1>2. /\ Append(threadLock[w], t) \in Seq(Threads)
      /\ \A u \in Threads : Holds(u, threadLock[w]) => Holds(u, Append(threadLock[w], t))
  BY <1>1, Queues
<1>3. /\ threadLock' \in [Threads -> Seq(Threads)]
      /\ \A j \in Threads : j # w => threadLock'[j] = threadLock[j]
      /\ threadLock'[w] = Append(threadLock[w], t)
  BY <1>1, <1>2
<1> QED
  BY <1>2, <1>3 DEF ThreadsHeld

LEMMA ThreadReleased ==
  ASSUME TsdInv, NEW t \in Threads, NEW w \in Threads, Holds(t, threadLock[w]),
         threadLock' = [threadLock EXCEPT ![w] = Tail(@)]
  PROVE  ThreadsHeld(t)
<1>1. threadLock \in [Threads -> Seq(Threads)] /\ threadLock[w] \in Seq(Threads)
  BY DEF TsdInv, TsdType, TypeOK
<1>2. /\ Tail(threadLock[w]) \in Seq(Threads)
      /\ \A u \in Threads : Holds(u, threadLock[w]) => u = t
  BY <1>1, Queues
<1>3. /\ threadLock' \in [Threads -> Seq(Threads)]
      /\ \A j \in Threads : j # w => threadLock'[j] = threadLock[j]
  BY <1>1, <1>2
<1> QED
  BY <1>2, <1>3 DEF ThreadsHeld

LEMMA LocksLeft ==
  ASSUME TsdInv, NEW t \in Threads
  PROVE  /\ keyLock' = keyLock => KeysHeld(t)
         /\ threadLock' = threadLock => ThreadsHeld(t)
BY DEF KeysHeld, ThreadsHeld, TsdInv, TsdType, TypeOK

\* The association of t with k is made, for t, which is not at a place where
\* its chain has been walked through.
Made(t, k) ==
  /\ keys' \in [Threads -> Seq(Keys)] /\ threads' \in [Keys -> Seq(Threads)]
  /\ \A u \in Threads : Once(keys'[u]) /\ (u # t => keys'[u] = keys[u])
  /\ \A j \in Keys : Once(threads'[j]) /\ (j # k => threads'[j] = threads[j])
  /\ \A u \in Threads, j \in Keys :
       /\ Contains(keys'[u], j) <=> Contains(keys[u], j) \/ (u = t /\ j = k)
       /\ Contains(threads'[j], u) <=> Contains(threads[j], u) \/ (u = t /\ j = k)

LEMMA Makes ==
  ASSUME TsdInv, NEW t \in Threads, NEW k \in Keys, ~Contains(keys[t], k),
         keys' = [keys EXCEPT ![t] = <<k>> \o @],
         threads' = [threads EXCEPT ![k] = <<t>> \o @]
  PROVE  Made(t, k)
<1>1. /\ keys \in [Threads -> Seq(Keys)] /\ threads \in [Keys -> Seq(Threads)]
      /\ \A u \in Threads : Once(keys[u])
      /\ \A j \in Keys : Once(threads[j])
      /\ ~Contains(threads[k], t)
  BY DEF TsdInv, TsdType, TypeOK, Chained
<1>2. keys'[t] = <<k>> \o keys[t] /\ threads'[k] = <<t>> \o threads[k]
  BY <1>1
<1>3. /\ keys'[t] \in Seq(Keys) /\ Once(keys'[t])
      /\ \A x : Contains(keys'[t], x) <=> x = k \/ Contains(keys[t], x)
  BY <1>1, <1>2, ChainPut
<1>4. /\ threads'[k] \in Seq(Threads) /\ Once(threads'[k])
      /\ \A x : Contains(threads'[k], x) <=> x = t \/ Contains(threads[k], x)
  BY <1>1, <1>2, ChainPut
<1> QED
  BY <1>1, <1>3, <1>4 DEF Made

\* The association of t with k is gone, and a thread that would have come to it
\* next comes to the one behind it.
Gone(t, k) ==
  /\ keys' \in [Threads -> Seq(Keys)] /\ threads' \in [Keys -> Seq(Threads)]
  /\ nextAssoc' \in [Threads -> Keys \cup {None}]
  /\ \A u \in Threads : Once(keys'[u]) /\ (keys[u] = <<>> => keys'[u] = <<>>)
  /\ \A j \in Keys :
       /\ Once(threads'[j]) /\ Len(threads'[j]) <= Len(threads[j])
       /\ threads[j] = <<>> => threads'[j] = <<>>
       /\ j # k => threads'[j] = threads[j]
  /\ Len(threads[k]) <= 1 => threads'[k] = <<>>
  /\ \A u \in Threads, j \in Keys :
       /\ Contains(keys'[u], j) <=> Contains(keys[u], j) /\ ~(u = t /\ j = k)
       /\ Contains(threads'[j], u) <=> Contains(threads[j], u) /\ ~(u = t /\ j = k)
  /\ \A u \in Threads :
       /\ nextAssoc'[u] # None => Contains(keys'[u], nextAssoc'[u])
       /\ nextAssoc[u] = FirstOf(keys[u]) => nextAssoc'[u] = FirstOf(keys'[u])
       /\ u # t => nextAssoc'[u] = nextAssoc[u]

\* What a chain of t keeps of its order.
LEMMA NextKept ==
  ASSUME TsdInv, NEW t \in Threads, NEW k \in Keys, Contains(keys[t], k)
  PROVE  LET s == keys[t]
             r == RemoveAt(s, At(s, k)) IN
         /\ r \in Seq(Keys) /\ Once(r)
         /\ \A x : Contains(r, x) <=> x # k /\ Contains(s, x)
         /\ Behind(t, k) \in Keys \cup {None}
         /\ Behind(t, k) # None => Contains(s, Behind(t, k)) /\ Contains(r, Behind(t, k))
         /\ FirstOf(r) = IF FirstOf(s) = k THEN Behind(t, k) ELSE FirstOf(s)
<1> DEFINE s == keys[t]
           i == At(s, k)
           r == RemoveAt(s, i)
<1>1. s \in Seq(Keys) /\ Once(s)
  BY DEF TsdInv, TsdType, TypeOK, Chained
<1>2. Len(s) \in Nat /\ \A j \in 1 .. Len(s) : s[j] \in Keys
  BY <1>1, LenProperties, ElementOfSeq
<1>3. /\ i \in 1 .. Len(s) /\ s[i] = k
      /\ r \in Seq(Keys) /\ Once(r) /\ Len(r) = Len(s) - 1
      /\ \A j \in 1 .. Len(s) - 1 : r[j] = IF j < i THEN s[j] ELSE s[j + 1]
      /\ \A x : Contains(r, x) <=> x # k /\ Contains(s, x)
  <2> HIDE DEF s
  <2> QED
    BY <1>1, ChainCut DEF s
<1>4. Behind(t, k) = IF i < Len(s) THEN s[i + 1] ELSE None
  BY DEF Behind
<1>5. None \notin Keys
  BY TsdAssumption
<1> HIDE DEF s, i, r
<1>6. i < Len(s) => Contains(s, s[i + 1]) /\ s[i + 1] # k
  <2> SUFFICES ASSUME i < Len(s) PROVE Contains(s, s[i + 1]) /\ s[i + 1] # k
    OBVIOUS
  <2>1. i + 1 \in 1 .. Len(s) /\ i + 1 # i
    BY <1>2, <1>3
  <2> QED
    BY <1>1, <1>3, <2>1 DEF Once, Contains
<1>7. FirstOf(s) = s[1] /\ (s[1] = k <=> i = 1)
  <2>1. 1 \in 1 .. Len(s) /\ s # <<>>
    BY <1>1, <1>2, <1>3
  <2>2. Head(s) = s[1]
    BY <1>1, <2>1
  <2> QED
    BY <1>1, <1>3, <2>1, <2>2 DEF FirstOf, Once
<1>8. FirstOf(r) = IF i = 1 THEN Behind(t, k) ELSE s[1]
  <2>1. CASE Len(s) = 1
    <3>1. r = <<>> /\ i = 1
      BY <1>3, <2>1
    <3> QED
      BY <1>4, <2>1, <3>1 DEF FirstOf
  <2>2. CASE Len(s) # 1
    <3>1. r # <<>> /\ Len(s) > 1 /\ 1 \in 1 .. Len(s) - 1
      BY <1>2, <1>3, <2>2
    <3>2. Head(r) = r[1]
      BY <1>3, <3>1
    <3>3. r[1] = IF i = 1 THEN s[2] ELSE s[1]
      BY <1>2, <1>3, <3>1
    <3> QED
      BY <1>3, <1>4, <3>1, <3>2, <3>3 DEF FirstOf
  <2> QED
    BY <2>1, <2>2
<1>9. /\ Behind(t, k) \in Keys \cup {None}
      /\ Behind(t, k) # None => Contains(s, Behind(t, k)) /\ Contains(r, Behind(t, k))
  BY <1>2, <1>3, <1>4, <1>6
<1> QED
  BY <1>3, <1>7, <1>8, <1>9 DEF s, i, r

LEMMA Destroyed ==
  ASSUME TsdInv, NEW t \in Threads, NEW k \in Keys, Contains(keys[t], k), TkAssocDestroy(t, k)
  PROVE  Gone(t, k)
<1> DEFINE r == RemoveAt(keys[t], At(keys[t], k))
           q == RemoveAt(threads[k], At(threads[k], t))
           b == Behind(t, k)
<1>1. /\ keys \in [Threads -> Seq(Keys)] /\ threads \in [Keys -> Seq(Threads)]
      /\ nextAssoc \in [Threads -> Keys \cup {None}]
      /\ \A u \in Threads : Once(keys[u])
      /\ \A j \in Keys : Once(threads[j])
      /\ Contains(threads[k], t)
      /\ \A u \in Threads : nextAssoc[u] # None => Contains(keys[u], nextAssoc[u])
  BY DEF TsdInv, TsdType, TypeOK, Chained
<1>2. /\ keys' = [keys EXCEPT ![t] = r] /\ threads' = [threads EXCEPT ![k] = q]
      /\ nextAssoc' = [nextAssoc EXCEPT ![t] = IF @ = k THEN b ELSE @]
  BY DEF TkAssocDestroy, Unchain
<1>3. /\ r \in Seq(Keys) /\ Once(r)
      /\ \A x : Contains(r, x) <=> x # k /\ Contains(keys[t], x)
      /\ b \in Keys \cup {None}
      /\ b # None => Contains(r, b)
      /\ FirstOf(r) = IF FirstOf(keys[t]) = k THEN b ELSE FirstOf(keys[t])
  BY NextKept
<1>4. threads[k] \in Seq(Threads) /\ Len(threads[k]) \in Nat
  BY <1>1, LenProperties
<1>5. /\ q \in Seq(Threads) /\ Once(q) /\ Len(q) = Len(threads[k]) - 1
      /\ \A x : Contains(q, x) <=> x # t /\ Contains(threads[k], x)
  BY <1>1, <1>4, ChainCut
<1> HIDE DEF r, q, b
<1>6. Len(threads[k]) <= 1 => q = <<>>
  BY <1>4, <1>5, EmptySeq
<1>7. keys[t] # <<>> /\ threads[k] # <<>>
  BY <1>1 DEF Contains
<1>8. \A u \in Threads : keys'[u] = IF u = t THEN r ELSE keys[u]
  BY <1>1, <1>2
<1>9. \A j \in Keys : threads'[j] = IF j = k THEN q ELSE threads[j]
  BY <1>1, <1>2
<1>10. \A u \in Threads : nextAssoc'[u] = IF u = t /\ nextAssoc[t] = k THEN b ELSE nextAssoc[u]
  BY <1>1, <1>2
<1>11. /\ keys' \in [Threads -> Seq(Keys)] /\ threads' \in [Keys -> Seq(Threads)]
       /\ nextAssoc' \in [Threads -> Keys \cup {None}]
  BY <1>1, <1>2, <1>3, <1>5
<1>12. \A j \in Keys : Len(threads'[j]) <= Len(threads[j])
  <2>1. \A j \in Keys : Len(threads[j]) \in Nat
    BY <1>1, LenProperties
  <2> QED
    BY <1>5, <1>9, <2>1
<1>13. \A u \in Threads, j \in Keys :
         /\ Contains(keys'[u], j) <=> Contains(keys[u], j) /\ ~(u = t /\ j = k)
         /\ Contains(threads'[j], u) <=> Contains(threads[j], u) /\ ~(u = t /\ j = k)
  BY <1>3, <1>5, <1>8, <1>9
<1>14. \A u \in Threads :
         /\ nextAssoc'[u] # None => Contains(keys'[u], nextAssoc'[u])
         /\ nextAssoc[u] = FirstOf(keys[u]) => nextAssoc'[u] = FirstOf(keys'[u])
         /\ u # t => nextAssoc'[u] = nextAssoc[u]
  BY <1>1, <1>3, <1>8, <1>10
<1>15. /\ \A u \in Threads : Once(keys'[u]) /\ (keys[u] = <<>> => keys'[u] = <<>>)
       /\ \A j \in Keys : /\ Once(threads'[j])
                          /\ threads[j] = <<>> => threads'[j] = <<>>
                          /\ j # k => threads'[j] = threads[j]
       /\ Len(threads[k]) <= 1 => threads'[k] = <<>>
  BY <1>1, <1>3, <1>5, <1>6, <1>7, <1>8, <1>9
<1> QED
  BY <1>11, <1>12, <1>13, <1>14, <1>15 DEF Gone

\* A thread goes on, or begins a call and with it a step, and the others stay.
Moves(t, l) ==
  /\ l \in Places /\ pc' \in [Threads -> Places] /\ pc'[t] = l
  /\ about' \in [Threads -> Keys \cup {None}]
  /\ target' \in [Threads -> Threads \cup Value \cup {None}]
  /\ \A u \in Threads \ {t} : pc'[u] = pc[u] /\ about'[u] = about[u] /\ target'[u] = target[u]

\* What a step leaves to the other threads.
LeavesTo(t) ==
  \A u \in Threads \ {t} :
    /\ pc[u] \in Setting \cup Deleting \cup Waiting => key'[about[u]] = key[about[u]]
    /\ pc[u] \in Deleting => \/ threads'[about[u]] = threads[about[u]]
                             \/ pc[u] = "deleteKey" /\ Len(threads'[about[u]]) <= 1
    /\ iterations'[u] = iterations[u] /\ remaining'[u] = remaining[u]
    /\ nextAssoc[u] = FirstOf(keys[u]) => nextAssoc'[u] = FirstOf(keys'[u])
    /\ pc[u] = "both" => nextAssoc'[u] = nextAssoc[u]
    /\ keys[u] = <<>> => keys'[u] = <<>>

LEMMA OthersKeep ==
  ASSUME TsdInv, NEW t \in Threads, NEW u \in Threads \ {t},
         pc'[u] = pc[u], about'[u] = about[u], target'[u] = target[u],
         KeysHeld(t), ThreadsHeld(t), LeavesTo(t)
  PROVE  Owns(u)' /\ Phase(u)' /\ Passes(u)'
<1>1. Owns(u) /\ Phase(u) /\ Passes(u)
  BY DEF TsdInv
<1>2. pc[u] \in Setting \cup Deleting \cup Waiting \cup {"both"} => about[u] \in Keys
  BY DEF TsdInv, TsdType
<1>3. Owns(u)'
  <2>1. pc[u] \in {"setThread", "deleteThread", "both"} => Holds(u, keyLock'[about[u]])
    BY <1>1, <1>2 DEF Owns, KeysHeld, Setting, Deleting
  <2>2. pc[u] = "deleteLoop" => Holds(u, keyLock'[about[u]]) \/ threads'[about[u]] = <<>>
    BY <1>1, <1>2 DEF Owns, KeysHeld, LeavesTo, Deleting
  <2>3. pc[u] = "both" => Holds(u, threadLock'[u])
    BY <1>1 DEF Owns, ThreadsHeld
  <2> QED
    BY <2>1, <2>2, <2>3 DEF Owns
<1>4. Phase(u)'
  BY <1>1 DEF Phase, LeavesTo, Setting, Deleting, Waiting
<1>5. Passes(u)'
  BY <1>1 DEF Passes, LeavesTo
<1> QED
  BY <1>3, <1>4, <1>5

\* A thread that begins to delete a key finds it live, and is the only one.
LEMMA DeleterAlone ==
  ASSUME TsdInv, NEW t \in Threads, NEW l, Moves(t, l),
         l \in Deleting \cup Waiting =>
           \/ pc[t] \in Deleting \cup Waiting /\ about'[t] = about[t]
           \/ key[about'[t]] = "live"
  PROVE  OneDeleter'
<1>1. \A u \in Threads : pc[u] \in Deleting \cup Waiting => key[about[u]] # "live"
  BY DEF TsdInv, Phase
<1>2. OneDeleter
  BY DEF TsdInv
<1>3. ASSUME NEW u \in Threads, u # t, pc'[u] \in Deleting \cup Waiting,
             pc'[t] \in Deleting \cup Waiting, about'[u] = about'[t]
      PROVE  FALSE
  BY <1>1, <1>2, <1>3 DEF OneDeleter, Moves
<1>4. ASSUME NEW u \in Threads, NEW w \in Threads, u # t, w # t,
             pc'[u] \in Deleting \cup Waiting, pc'[w] \in Deleting \cup Waiting,
             about'[u] = about'[w]
      PROVE  u = w
  <2>1. pc[u] \in Deleting \cup Waiting /\ pc[w] \in Deleting \cup Waiting /\ about[u] = about[w]
    BY <1>4 DEF Moves
  <2> QED
    BY <1>2, <2>1 DEF OneDeleter
<1> SUFFICES ASSUME NEW u \in Threads, NEW w \in Threads,
                    pc'[u] \in Deleting \cup Waiting, pc'[w] \in Deleting \cup Waiting,
                    about'[u] = about'[w]
             PROVE  u = w
  BY DEF OneDeleter
<1>5. CASE u = t /\ w # t
  BY <1>3, <1>5
<1>6. CASE u # t /\ w = t
  BY <1>3, <1>6
<1> QED
  BY <1>4, <1>5, <1>6

\* Chains that are left alone stay sound while the keys in them do.
LEMMA ChainsStay ==
  ASSUME TsdInv, keys' = keys, threads' = threads,
         \A u \in Threads, k \in Keys : Contains(keys[u], k) => key'[k] \in {"live", "deleted"},
         \A u \in Threads : nextAssoc'[u] # None => Contains(keys[u], nextAssoc'[u])
  PROVE  Chained'
BY DEF TsdInv, Chained

\* Values stay where they are when chains keep what leads to them.
LEMMA AccountStays ==
  ASSUME TsdInv, Accounted, UNCHANGED <<value, owed, ran, values>>,
         \A u \in Threads : /\ pc'[u] \in Setting => pc[u] \in Setting /\ target'[u] = target[u]
                            /\ iterations'[u] <= Rounds => iterations[u] <= Rounds,
         \A u \in Threads, j \in Keys :
           Contains(keys[u], j) /\ key[j] = "live" => Contains(keys'[u], j) /\ key'[j] = "live",
         \A u \in Threads : pc'[u] = "setValue" =>
           (pc[u] = "setValue" /\ about'[u] = about[u]) \/ Contains(keys'[u], about'[u])
  PROVE  Accounted'
<1>1. Slotted'
  BY DEF Accounted, Slotted
<1>2. Coming'
  BY DEF Accounted, Coming
<1>3. Given'
  BY DEF Accounted, Given
<1>4. ASSUME NEW u \in Threads, pc'[u] = "setValue" PROVE Contains(keys'[u], about'[u])
  <2>1. pc[u] = "setValue" =>
          about[u] \in Keys /\ key[about[u]] = "live" /\ Contains(keys[u], about[u])
    BY DEF Accounted, Owing, TsdInv, TsdType, Phase, Setting
  <2> QED
    BY <1>4, <2>1
<1>5. ASSUME NEW u \in Threads, iterations'[u] <= Rounds, NEW v \in owed'[u]
      PROVE  v # 0 /\ \E k \in Keys : value'[u][k] = v /\ Contains(keys'[u], k) /\ key'[k] = "live"
  <2>1. PICK k \in Keys : value[u][k] = v /\ Contains(keys[u], k) /\ key[k] = "live"
    BY <1>5 DEF Accounted, Owing
  <2> QED
    BY <1>5, <2>1 DEF Accounted, Owing
<1> QED
  BY <1>1, <1>2, <1>3, <1>4, <1>5 DEF Accounted, Owing

\* A slot gets NULL, or a value that is nowhere else.
LEMMA SlotStored ==
  ASSUME TsdInv, Accounted, NEW t \in Threads, NEW k \in Keys, NEW v \in Value,
         value' = [value EXCEPT ![t][k] = v], values' \in Value, values <= values', v <= values',
         v # 0 => \A u \in Threads, j \in Keys : value[u][j] # v
  PROVE  /\ \A u \in Threads, j \in Keys :
              value'[u][j] = IF u = t /\ j = k THEN v ELSE value[u][j]
         /\ Slotted'
<1>1. values \in Value /\ value \in [Threads -> [Keys -> Value]]
  BY DEF TsdInv, TsdType, TypeOK
<1>2. \A u \in Threads, j \in Keys :
        value'[u][j] = IF u = t /\ j = k THEN v ELSE value[u][j]
  BY <1>1
<1>3. \A u \in Threads, j \in Keys : value'[u][j] \in 0 .. values'
  <2>1. \A u \in Threads, j \in Keys : value[u][j] \in 0 .. values
    BY DEF Accounted, Slotted
  <2> QED
    BY <1>1, <1>2, <2>1, TsdAssumption DEF Value
<1>4. ASSUME NEW u \in Threads, NEW w \in Threads, NEW i \in Keys, NEW j \in Keys,
             value'[u][i] # 0, value'[u][i] = value'[w][j]
      PROVE  u = w /\ i = j
  BY <1>2, <1>4 DEF Accounted, Slotted
<1> QED
  BY <1>2, <1>3, <1>4 DEF Slotted

LEMMA FirstIn ==
  ASSUME TsdInv, NEW t \in Threads
  PROVE  /\ FirstOf(keys[t]) \in Keys \cup {None}
         /\ FirstOf(keys[t]) # None => Contains(keys[t], FirstOf(keys[t]))
         /\ FirstOf(keys[t]) = None => keys[t] = <<>>
<1>1. keys[t] \in Seq(Keys) /\ None \notin Keys
  BY TsdAssumption DEF TsdInv, TsdType, TypeOK
<1>2. CASE keys[t] = <<>>
  BY <1>2 DEF FirstOf
<1>3. CASE keys[t] # <<>>
  <2>1. 1 \in 1 .. Len(keys[t]) /\ Head(keys[t]) = keys[t][1] /\ Head(keys[t]) \in Keys
    BY <1>1, <1>3, EmptySeq, HeadTailProperties
  <2> QED
    BY <1>1, <1>3, <2>1 DEF FirstOf, Contains
<1> QED
  BY <1>2, <1>3

-----------------------------------------------------------------------------
(* Each step keeps the invariant *)

LEMMA KeyMade ==
  ASSUME TsdInv, NEW t \in Threads, NEW k \in Keys, KeyCreate(t, k)
  PROVE  TsdInv' /\ (Accounted => Accounted')
<1> DEFINE l == pc[t]
<1>1. /\ pc' = pc
      /\ key[k] = "none"
      /\ key' = [key EXCEPT ![k] = "live"]
      /\ destructor' \in [Keys -> BOOLEAN]
      /\ UNCHANGED <<keyLock, threadLock, threads, keys, nextAssoc, value, iterations,
                     remaining, about, target, values, ran, owed>>
  BY TsdAssumption DEF KeyCreate, chains, locks, call, rounds, history, TsdInv, TsdType,
       TypeOK, Value, Setting
<1>2. Moves(t, l)
  BY <1>1 DEF Moves, TsdInv, TsdType, TypeOK, Setting, Deleting, Waiting, Round, Places
<1>3. KeysHeld(t)
  BY <1>1, LocksLeft
<1>4. ThreadsHeld(t)
  BY <1>1, LocksLeft
<1>5. TypeOK'
  BY <1>1, <1>2, <1>3, <1>4, TsdAssumption DEF Moves, KeysHeld, ThreadsHeld, TsdInv, TsdType,
       TypeOK, Passes, Setting, Deleting, Waiting, Round, Places
<1>6. TsdType'
  BY <1>1, <1>2, <1>3, <1>4, <1>5 DEF Moves, KeysHeld, ThreadsHeld, TsdInv, TsdType, Setting,
       Deleting, Waiting, Round, Places
<1>7. LeavesTo(t)
  <2>1. ASSUME NEW u \in Threads \ {t}, pc[u] \in Setting \cup Deleting \cup Waiting
        PROVE  about[u] \in Keys /\ about[u] # k
    BY <1>1, <2>1 DEF TsdInv, TsdType, Phase, OneDeleter, Setting, Deleting, Waiting
  <2> QED
    BY <1>1, <2>1 DEF LeavesTo, TsdInv, TsdType, TypeOK
<1>8. Owns(t)'
  BY <1>1, <1>2, <1>3, <1>4 DEF Moves, KeysHeld, ThreadsHeld, TsdInv, TsdType, TypeOK, Owns,
       Phase, Passes, Setting, Deleting, Waiting, Round, Places
<1>9. Phase(t)'
  BY <1>1, <1>2, <1>3, <1>4 DEF Moves, KeysHeld, ThreadsHeld, TsdInv, TsdType, TypeOK, Owns,
       Phase, Passes, Setting, Deleting, Waiting, Round, Places
<1>10. Passes(t)'
  BY <1>1, <1>2, <1>3, <1>4 DEF Moves, KeysHeld, ThreadsHeld, TsdInv, TsdType, TypeOK, Owns,
       Phase, Passes, Setting, Deleting, Waiting, Round, Places
<1>11. OneDeleter'
  BY <1>1, <1>2, DeleterAlone DEF Setting, Deleting, Waiting, Round, Places
<1>12. Chained'
  <2>1. \A u \in Threads, j \in Keys : Contains(keys[u], j) => key'[j] \in {"live", "deleted"}
    BY <1>1 DEF TsdInv, TsdType, TypeOK, Chained
  <2> QED
    BY <1>1, <2>1, ChainsStay DEF TsdInv, Chained
<1>13. ASSUME NEW u \in Threads PROVE Owns(u)' /\ Phase(u)' /\ Passes(u)'
  BY <1>2, <1>3, <1>4, <1>7, <1>8, <1>9, <1>10, <1>13, OthersKeep DEF Moves
<1>14. ASSUME Accounted PROVE Accounted'
  <2>1. \A u \in Threads : /\ pc'[u] \in Setting => pc[u] \in Setting /\ target'[u] = target[u]
                           /\ iterations'[u] <= Rounds => iterations[u] <= Rounds
    BY <1>1, <1>2, TsdAssumption DEF Moves, Setting, TsdInv, TsdType, TypeOK
  <2>2. \A u \in Threads, j \in Keys :
          Contains(keys[u], j) /\ key[j] = "live" => Contains(keys'[u], j) /\ key'[j] = "live"
    BY <1>1 DEF TsdInv, TsdType, TypeOK
  <2>3. \A u \in Threads : pc'[u] = "setValue" =>
          (pc[u] = "setValue" /\ about'[u] = about[u]) \/ Contains(keys'[u], about'[u])
    BY <1>1, <1>2 DEF Moves, TsdInv, TsdType, TypeOK
  <2>4. UNCHANGED <<value, owed, ran, values>>
    BY <1>1
  <2> QED
    BY <1>14, <2>1, <2>2, <2>3, <2>4, AccountStays
<1> QED
  BY <1>6, <1>11, <1>12, <1>13, <1>14 DEF TsdInv

LEMMA ValueSet ==
  ASSUME TsdInv, NEW t \in Threads, NEW k \in Keys, SetSpecific(t, k), pc' = pc
  PROVE  TsdInv'
<1> DEFINE l == pc[t]
<1>1. /\ pc' = pc
      /\ values' \in Value
      /\ value' \in [Threads -> [Keys -> Value]]
      /\ owed' \in [Threads -> SUBSET Value]
      /\ UNCHANGED <<key, destructor, keyLock, threadLock, threads, keys, nextAssoc,
                     iterations, remaining, about, target, ran>>
  <2>1. PICK v \in {0} \cup (IF values < MaxValues THEN {values + 1} ELSE {}) :
          /\ values' = IF v = 0 THEN values ELSE v
          /\ IF destructor[k] /\ v # 0
             THEN keyLock' = [keyLock EXCEPT ![k] = Append(@, t)] /\ Goto(t, "setKey")
             ELSE Stores(t, k, v) /\ UNCHANGED <<keyLock, call, pc>>
    BY DEF SetSpecific
  <2>2. pc[t] \in {"user", "destructor"}
        /\ UNCHANGED <<key, destructor, threadLock, chains, rounds, ran>>
    BY DEF SetSpecific, InProgram
  <2>3. v \in Value /\ values' \in Value
    BY <2>1, TsdAssumption DEF Value, TsdInv, TsdType, TypeOK
  <2>4. ~(destructor[k] /\ v # 0)
    BY <2>1, <2>2 DEF Goto, TsdInv, TsdType
  <2>5. Stores(t, k, v) /\ UNCHANGED <<keyLock, call, pc>>
    BY <2>1, <2>4
  <2>6. value' \in [Threads -> [Keys -> Value]] /\ owed' \in [Threads -> SUBSET Value]
    BY <2>3, <2>5 DEF Stores, TsdInv, TsdType, TypeOK
  <2> QED
    BY <2>2, <2>3, <2>5, <2>6 DEF chains, rounds, call
<1>2. Moves(t, l)
  BY <1>1 DEF Moves, TsdInv, TsdType, TypeOK, Setting, Deleting, Waiting, Round, Places
<1>3. KeysHeld(t)
  BY <1>1, LocksLeft
<1>4. ThreadsHeld(t)
  BY <1>1, LocksLeft
<1>5. TypeOK'
  BY <1>1, <1>2, <1>3, <1>4, TsdAssumption DEF Moves, KeysHeld, ThreadsHeld, TsdInv, TsdType,
       TypeOK, Passes, Setting, Deleting, Waiting, Round, Places
<1>6. TsdType'
  BY <1>1, <1>2, <1>3, <1>4, <1>5 DEF Moves, KeysHeld, ThreadsHeld, TsdInv, TsdType, Setting,
       Deleting, Waiting, Round, Places
<1>7. LeavesTo(t)
  BY <1>1 DEF LeavesTo, TsdInv, TsdType, TypeOK
<1>8. Owns(t)'
  BY <1>1, <1>2, <1>3, <1>4 DEF Moves, KeysHeld, ThreadsHeld, TsdInv, TsdType, TypeOK, Owns,
       Phase, Passes, Setting, Deleting, Waiting, Round, Places
<1>9. Phase(t)'
  BY <1>1, <1>2, <1>3, <1>4 DEF Moves, KeysHeld, ThreadsHeld, TsdInv, TsdType, TypeOK, Owns,
       Phase, Passes, Setting, Deleting, Waiting, Round, Places
<1>10. Passes(t)'
  BY <1>1, <1>2, <1>3, <1>4 DEF Moves, KeysHeld, ThreadsHeld, TsdInv, TsdType, TypeOK, Owns,
       Phase, Passes, Setting, Deleting, Waiting, Round, Places
<1>11. OneDeleter'
  BY <1>1, <1>2, DeleterAlone DEF Setting, Deleting, Waiting, Round, Places
<1>12. Chained'
  BY <1>1, ChainsStay DEF TsdInv, Chained
<1>13. ASSUME NEW u \in Threads PROVE Owns(u)' /\ Phase(u)' /\ Passes(u)'
  BY <1>2, <1>3, <1>4, <1>7, <1>8, <1>9, <1>10, <1>13, OthersKeep DEF Moves
<1> QED
  BY <1>6, <1>11, <1>12, <1>13 DEF TsdInv

LEMMA ValueToSet ==
  ASSUME TsdInv, NEW t \in Threads, NEW k \in Keys, SetSpecific(t, k), pc' # pc
  PROVE  TsdInv'
<1> DEFINE l == "setKey"
<1>1. /\ pc' = [pc EXCEPT ![t] = l]
      /\ pc[t] \in {"user", "destructor"}
      /\ key[k] = "live"
      /\ values' \in Value
      /\ keyLock' = [keyLock EXCEPT ![k] = Append(@, t)]
      /\ about' = [about EXCEPT ![t] = k]
      /\ target' \in [Threads -> Threads \cup Value \cup {None}]
      /\ target'[t] \in Value
      /\ \A u \in Threads \ {t} : target'[u] = target[u]
      /\ UNCHANGED <<key, destructor, threadLock, threads, keys, nextAssoc, value, iterations,
                     remaining, ran, owed>>
  <2>1. PICK v \in {0} \cup (IF values < MaxValues THEN {values + 1} ELSE {}) :
          /\ values' = IF v = 0 THEN values ELSE v
          /\ IF destructor[k] /\ v # 0
             THEN /\ keyLock' = [keyLock EXCEPT ![k] = Append(@, t)]
                  /\ Calls(t, k, v)
                  /\ Goto(t, "setKey")
                  /\ UNCHANGED <<value, owed>>
             ELSE UNCHANGED pc
    BY DEF SetSpecific
  <2>2. /\ pc[t] \in {"user", "destructor"} /\ key[k] = "live"
        /\ UNCHANGED <<key, destructor, threadLock, chains, rounds, ran>>
    BY DEF SetSpecific, InProgram
  <2>3. v \in Value /\ values' \in Value
    BY <2>1, TsdAssumption DEF Value, TsdInv, TsdType, TypeOK
  <2>4. /\ keyLock' = [keyLock EXCEPT ![k] = Append(@, t)]
        /\ Calls(t, k, v) /\ Goto(t, "setKey") /\ UNCHANGED <<value, owed>>
    BY <2>1
  <2>5. /\ target' \in [Threads -> Threads \cup Value \cup {None}] /\ target'[t] \in Value
        /\ \A u \in Threads \ {t} : target'[u] = target[u]
    BY <2>3, <2>4 DEF Calls, TsdInv, TsdType
  <2> QED
    BY <2>2, <2>3, <2>4, <2>5 DEF chains, rounds, Goto, Calls
<1>2. Moves(t, l)
  BY <1>1 DEF Moves, TsdInv, TsdType, TypeOK, Setting, Deleting, Waiting, Round, Places
<1>3. KeysHeld(t)
  BY <1>1, KeyQueued
<1>4. ThreadsHeld(t)
  BY <1>1, LocksLeft
<1>5. /\ \A j \in Keys : Holds(t, keyLock[j]) => Holds(t, keyLock'[j])
      /\ keyLock[k] = <<>> => Holds(t, keyLock'[k])
  BY <1>1, KeyQueued
<1>6. TypeOK'
  BY <1>1, <1>2, <1>3, <1>4, <1>5, TsdAssumption DEF Moves, KeysHeld, ThreadsHeld, TsdInv,
       TsdType, TypeOK, Passes, Setting, Deleting, Waiting, Round, Places
<1>7. TsdType'
  BY <1>1, <1>2, <1>3, <1>4, <1>5, <1>6 DEF Moves, KeysHeld, ThreadsHeld, TsdInv, TsdType,
       Setting, Deleting, Waiting, Round, Places
<1>8. LeavesTo(t)
  BY <1>1 DEF LeavesTo, TsdInv, TsdType, TypeOK
<1>9. Owns(t)'
  BY <1>1, <1>2, <1>3, <1>4, <1>5 DEF Moves, KeysHeld, ThreadsHeld, TsdInv, TsdType, TypeOK,
       Owns, Phase, Passes, Setting, Deleting, Waiting, Round, Places
<1>10. Phase(t)'
  BY <1>1, <1>2, <1>3, <1>4, <1>5 DEF Moves, KeysHeld, ThreadsHeld, TsdInv, TsdType, TypeOK,
       Owns, Phase, Passes, Setting, Deleting, Waiting, Round, Places
<1>11. Passes(t)'
  BY <1>1, <1>2, <1>3, <1>4, <1>5 DEF Moves, KeysHeld, ThreadsHeld, TsdInv, TsdType, TypeOK,
       Owns, Phase, Passes, Setting, Deleting, Waiting, Round, Places
<1>12. OneDeleter'
  BY <1>1, <1>2, DeleterAlone DEF Setting, Deleting, Waiting, Round, Places
<1>13. Chained'
  BY <1>1, ChainsStay DEF TsdInv, Chained
<1>14. ASSUME NEW u \in Threads PROVE Owns(u)' /\ Phase(u)' /\ Passes(u)'
  BY <1>2, <1>3, <1>4, <1>8, <1>9, <1>10, <1>11, <1>14, OthersKeep DEF Moves
<1> QED
  BY <1>7, <1>12, <1>13, <1>14 DEF TsdInv

LEMMA SetsThread ==
  ASSUME TsdInv, NEW t \in Threads, SetThread(t)
  PROVE  TsdInv' /\ (Accounted => Accounted')
<1>1. PICK k \in Keys : k = about[t]
  BY DEF SetThread, Goto, TsdInv, TsdType, TypeOK, Setting, Deleting, Waiting, Round, Places
<1> DEFINE l == "setThread"
<1>2. /\ pc' = [pc EXCEPT ![t] = l]
      /\ pc[t] = "setKey"
      /\ Holds(t, keyLock[k])
      /\ k = about[t]
      /\ threadLock' = [threadLock EXCEPT ![t] = Append(@, t)]
      /\ UNCHANGED <<key, destructor, keyLock, threads, keys, nextAssoc, value, iterations,
                     remaining, about, target, values, ran, owed>>
  BY <1>1, TsdAssumption DEF SetThread, Goto, chains, locks, call, rounds, history
<1>3. Moves(t, l)
  BY <1>2 DEF Moves, TsdInv, TsdType, TypeOK, Setting, Deleting, Waiting, Round, Places
<1>4. KeysHeld(t)
  BY <1>2, LocksLeft
<1>5. ThreadsHeld(t)
  BY <1>2, ThreadQueued
<1>6. TypeOK'
  BY <1>2, <1>3, <1>4, <1>5, TsdAssumption DEF Moves, KeysHeld, ThreadsHeld, TsdInv, TsdType,
       TypeOK, Passes, Setting, Deleting, Waiting, Round, Places
<1>7. TsdType'
  BY <1>2, <1>3, <1>4, <1>5, <1>6 DEF Moves, KeysHeld, ThreadsHeld, TsdInv, TsdType, Setting,
       Deleting, Waiting, Round, Places
<1>8. LeavesTo(t)
  BY <1>2 DEF LeavesTo, TsdInv, TsdType, TypeOK
<1>9. Owns(t)'
  BY <1>2, <1>3, <1>4, <1>5 DEF Moves, KeysHeld, ThreadsHeld, TsdInv, TsdType, TypeOK, Owns,
       Phase, Passes, Setting, Deleting, Waiting, Round, Places
<1>10. Phase(t)'
  BY <1>2, <1>3, <1>4, <1>5 DEF Moves, KeysHeld, ThreadsHeld, TsdInv, TsdType, TypeOK, Owns,
       Phase, Passes, Setting, Deleting, Waiting, Round, Places
<1>11. Passes(t)'
  BY <1>2, <1>3, <1>4, <1>5 DEF Moves, KeysHeld, ThreadsHeld, TsdInv, TsdType, TypeOK, Owns,
       Phase, Passes, Setting, Deleting, Waiting, Round, Places
<1>12. OneDeleter'
  BY <1>2, <1>3, DeleterAlone DEF Setting, Deleting, Waiting, Round, Places
<1>13. Chained'
  BY <1>2, ChainsStay DEF TsdInv, Chained
<1>14. ASSUME NEW u \in Threads PROVE Owns(u)' /\ Phase(u)' /\ Passes(u)'
  BY <1>3, <1>4, <1>5, <1>8, <1>9, <1>10, <1>11, <1>14, OthersKeep DEF Moves
<1>15. ASSUME Accounted PROVE Accounted'
  <2>1. \A u \in Threads : /\ pc'[u] \in Setting => pc[u] \in Setting /\ target'[u] = target[u]
                           /\ iterations'[u] <= Rounds => iterations[u] <= Rounds
    BY <1>2, <1>3, TsdAssumption DEF Moves, Setting, TsdInv, TsdType, TypeOK
  <2>2. \A u \in Threads, j \in Keys :
          Contains(keys[u], j) /\ key[j] = "live" => Contains(keys'[u], j) /\ key'[j] = "live"
    BY <1>2 DEF TsdInv, TsdType, TypeOK
  <2>3. \A u \in Threads : pc'[u] = "setValue" =>
          (pc[u] = "setValue" /\ about'[u] = about[u]) \/ Contains(keys'[u], about'[u])
    BY <1>2, <1>3 DEF Moves, TsdInv, TsdType, TypeOK
  <2>4. UNCHANGED <<value, owed, ran, values>>
    BY <1>2
  <2> QED
    BY <1>15, <2>1, <2>2, <2>3, <2>4, AccountStays
<1> QED
  BY <1>7, <1>12, <1>13, <1>14, <1>15 DEF TsdInv

LEMMA Associated ==
  ASSUME TsdInv, NEW t \in Threads, Associate(t), Contains(keys[t], about[t])
  PROVE  TsdInv' /\ (Accounted => Accounted')
<1>1. PICK k \in Keys : k = about[t]
  BY DEF Associate, Goto, TsdInv, TsdType, TypeOK, Setting, Deleting, Waiting, Round, Places
<1> DEFINE l == "setValue"
<1>2. /\ pc' = [pc EXCEPT ![t] = l]
      /\ pc[t] = "setThread"
      /\ Holds(t, threadLock[t])
      /\ k = about[t]
      /\ threadLock' = [threadLock EXCEPT ![t] = Tail(@)]
      /\ keyLock' = [keyLock EXCEPT ![k] = Tail(@)]
      /\ UNCHANGED <<key, destructor, threads, keys, nextAssoc, value, iterations, remaining,
                     about, target, values, ran, owed>>
  BY <1>1, TsdAssumption DEF Associate, Goto, chains, locks, call, rounds, history
<1>3. Moves(t, l)
  BY <1>2 DEF Moves, TsdInv, TsdType, TypeOK, Setting, Deleting, Waiting, Round, Places
<1>4. KeysHeld(t)
  <2>1. Holds(t, keyLock[k])
    BY <1>2 DEF TsdInv, Owns
  <2> QED
    BY <1>2, <2>1, KeyReleased
<1>5. ThreadsHeld(t)
  BY <1>2, ThreadReleased
<1>6. TypeOK'
  BY <1>2, <1>3, <1>4, <1>5, TsdAssumption DEF Moves, KeysHeld, ThreadsHeld, TsdInv, TsdType,
       TypeOK, Passes, Setting, Deleting, Waiting, Round, Places
<1>7. TsdType'
  BY <1>2, <1>3, <1>4, <1>5, <1>6 DEF Moves, KeysHeld, ThreadsHeld, TsdInv, TsdType, Setting,
       Deleting, Waiting, Round, Places
<1>8. LeavesTo(t)
  BY <1>2 DEF LeavesTo, TsdInv, TsdType, TypeOK
<1>9. Owns(t)'
  BY <1>2, <1>3, <1>4, <1>5 DEF Moves, KeysHeld, ThreadsHeld, TsdInv, TsdType, TypeOK, Owns,
       Phase, Passes, Setting, Deleting, Waiting, Round, Places
<1>10. Phase(t)'
  BY <1>2, <1>3, <1>4, <1>5 DEF Moves, KeysHeld, ThreadsHeld, TsdInv, TsdType, TypeOK, Owns,
       Phase, Passes, Setting, Deleting, Waiting, Round, Places
<1>11. Passes(t)'
  BY <1>2, <1>3, <1>4, <1>5 DEF Moves, KeysHeld, ThreadsHeld, TsdInv, TsdType, TypeOK, Owns,
       Phase, Passes, Setting, Deleting, Waiting, Round, Places
<1>12. OneDeleter'
  BY <1>2, <1>3, DeleterAlone DEF Setting, Deleting, Waiting, Round, Places
<1>13. Chained'
  BY <1>2, ChainsStay DEF TsdInv, Chained
<1>14. ASSUME NEW u \in Threads PROVE Owns(u)' /\ Phase(u)' /\ Passes(u)'
  BY <1>3, <1>4, <1>5, <1>8, <1>9, <1>10, <1>11, <1>14, OthersKeep DEF Moves
<1>15. ASSUME Accounted PROVE Accounted'
  <2>1. \A u \in Threads : /\ pc'[u] \in Setting => pc[u] \in Setting /\ target'[u] = target[u]
                           /\ iterations'[u] <= Rounds => iterations[u] <= Rounds
    BY <1>2, <1>3, TsdAssumption DEF Moves, Setting, TsdInv, TsdType, TypeOK
  <2>2. \A u \in Threads, j \in Keys :
          Contains(keys[u], j) /\ key[j] = "live" => Contains(keys'[u], j) /\ key'[j] = "live"
    BY <1>2 DEF TsdInv, TsdType, TypeOK
  <2>3. \A u \in Threads : pc'[u] = "setValue" =>
          (pc[u] = "setValue" /\ about'[u] = about[u]) \/ Contains(keys'[u], about'[u])
    BY <1>2, <1>3 DEF Moves, TsdInv, TsdType, TypeOK
  <2>4. UNCHANGED <<value, owed, ran, values>>
    BY <1>2
  <2> QED
    BY <1>15, <2>1, <2>2, <2>3, <2>4, AccountStays
<1> QED
  BY <1>7, <1>12, <1>13, <1>14, <1>15 DEF TsdInv

LEMMA Associates ==
  ASSUME TsdInv, NEW t \in Threads, Associate(t), ~Contains(keys[t], about[t]),
          pc'[t] = "setValue"
  PROVE  TsdInv' /\ (Accounted => Accounted')
<1>1. PICK k \in Keys : k = about[t]
  BY DEF Associate, Goto, Return, TsdInv, TsdType, TypeOK, Setting, Deleting, Waiting, Round,
       Places
<1> DEFINE l == "setValue"
<1>2. /\ pc' = [pc EXCEPT ![t] = l]
      /\ pc[t] = "setThread"
      /\ Holds(t, threadLock[t])
      /\ k = about[t]
      /\ threadLock' = [threadLock EXCEPT ![t] = Tail(@)]
      /\ keyLock' = [keyLock EXCEPT ![k] = Tail(@)]
      /\ ~Contains(keys[t], k)
      /\ keys' = [keys EXCEPT ![t] = <<k>> \o @]
      /\ threads' = [threads EXCEPT ![k] = <<t>> \o @]
      /\ UNCHANGED <<key, destructor, nextAssoc, value, iterations, remaining, about, target,
                     values, ran, owed>>
  <2>1. ~Return(t)
    BY DEF Return, Goto, Associate, TsdInv, TsdType
  <2> QED
    BY <1>1, <2>1 DEF Associate, Goto, chains, locks, call, rounds, history
<1>3. Moves(t, l)
  BY <1>2 DEF Moves, TsdInv, TsdType, TypeOK, Setting, Deleting, Waiting, Round, Places
<1>4. KeysHeld(t)
  <2>1. Holds(t, keyLock[k])
    BY <1>2 DEF TsdInv, Owns
  <2> QED
    BY <1>2, <2>1, KeyReleased
<1>5. ThreadsHeld(t)
  BY <1>2, ThreadReleased
<1>6. Made(t, k)
  BY <1>2, Makes
<1>7. TypeOK'
  BY <1>2, <1>3, <1>4, <1>5, <1>6, TsdAssumption DEF Moves, KeysHeld, ThreadsHeld, Made,
       TsdInv, TsdType, TypeOK, Passes, Setting, Deleting, Waiting, Round, Places
<1>8. TsdType'
  BY <1>2, <1>3, <1>4, <1>5, <1>6, <1>7 DEF Moves, KeysHeld, ThreadsHeld, Made, TsdInv,
       TsdType, Setting, Deleting, Waiting, Round, Places
<1>9. LeavesTo(t)
  <2>1. ASSUME NEW u \in Threads \ {t}, pc[u] \in Deleting
        PROVE  about[u] \in Keys /\ about[u] # k
    BY <1>2, <2>1 DEF TsdInv, TsdType, Phase, Setting, Deleting
  <2> QED
    BY <1>2, <1>6, <2>1 DEF LeavesTo, Made
<1>10. Owns(t)'
  BY <1>2, <1>3, <1>4, <1>5, <1>6 DEF Moves, KeysHeld, ThreadsHeld, Made, TsdInv, TsdType,
       TypeOK, Owns, Phase, Passes, Setting, Deleting, Waiting, Round, Places
<1>11. Phase(t)'
  BY <1>2, <1>3, <1>4, <1>5, <1>6 DEF Moves, KeysHeld, ThreadsHeld, Made, TsdInv, TsdType,
       TypeOK, Owns, Phase, Passes, Setting, Deleting, Waiting, Round, Places
<1>12. Passes(t)'
  BY <1>2, <1>3, <1>4, <1>5, <1>6 DEF Moves, KeysHeld, ThreadsHeld, Made, TsdInv, TsdType,
       TypeOK, Owns, Phase, Passes, Setting, Deleting, Waiting, Round, Places
<1>13. OneDeleter'
  BY <1>2, <1>3, DeleterAlone DEF Setting, Deleting, Waiting, Round, Places
<1>14. Chained'
  <2>1. key' = key /\ nextAssoc' = nextAssoc /\ Chained
    BY <1>2 DEF TsdInv
  <2>2. key[k] = "live"
    BY <1>2 DEF TsdInv, Phase, Setting
  <2>3. \A u \in Threads, j \in Keys :
          /\ Contains(keys'[u], j) <=> Contains(threads'[j], u)
          /\ Contains(keys'[u], j) => key'[j] \in {"live", "deleted"}
    BY <2>1, <2>2, <1>6 DEF Made, Chained
  <2>4. \A u \in Threads : nextAssoc'[u] # None => Contains(keys'[u], nextAssoc'[u])
    BY <2>1, <1>6 DEF Made, Chained, TsdInv, TsdType, TypeOK
  <2> QED
    BY <2>3, <2>4, <1>6 DEF Made, Chained
<1>15. ASSUME NEW u \in Threads PROVE Owns(u)' /\ Phase(u)' /\ Passes(u)'
  BY <1>3, <1>4, <1>5, <1>9, <1>10, <1>11, <1>12, <1>15, OthersKeep DEF Moves
<1>16. ASSUME Accounted PROVE Accounted'
  <2>1. \A u \in Threads : /\ pc'[u] \in Setting => pc[u] \in Setting /\ target'[u] = target[u]
                           /\ iterations'[u] <= Rounds => iterations[u] <= Rounds
    BY <1>2, <1>3, TsdAssumption DEF Moves, Setting, TsdInv, TsdType, TypeOK
  <2>2. \A u \in Threads, j \in Keys :
          Contains(keys[u], j) /\ key[j] = "live" => Contains(keys'[u], j) /\ key'[j] = "live"
    BY <1>2, <1>6 DEF Made, TsdInv, TsdType, TypeOK
  <2>3. \A u \in Threads : pc'[u] = "setValue" =>
          (pc[u] = "setValue" /\ about'[u] = about[u]) \/ Contains(keys'[u], about'[u])
    BY <1>2, <1>3, <1>6 DEF Moves, Made, TsdInv, TsdType, TypeOK
  <2>4. UNCHANGED <<value, owed, ran, values>>
    BY <1>2
  <2> QED
    BY <1>16, <2>1, <2>2, <2>3, <2>4, AccountStays
<1> QED
  BY <1>8, <1>13, <1>14, <1>15, <1>16 DEF TsdInv

LEMMA AssociatesNot ==
  ASSUME TsdInv, NEW t \in Threads, Associate(t), ~Contains(keys[t], about[t]),
          pc'[t] # "setValue"
  PROVE  TsdInv' /\ (Accounted => Accounted')
<1>1. PICK k \in Keys : k = about[t]
  BY DEF Associate, Return, Goto, Calls, TsdInv, TsdType, TypeOK, Setting, Deleting, Waiting,
       Round, Places
<1> DEFINE l == IF iterations[t] = 0 THEN "user" ELSE "destructor"
<1>2. /\ pc' = [pc EXCEPT ![t] = l]
      /\ pc[t] = "setThread"
      /\ Holds(t, threadLock[t])
      /\ k = about[t]
      /\ threadLock' = [threadLock EXCEPT ![t] = Tail(@)]
      /\ keyLock' = [keyLock EXCEPT ![k] = Tail(@)]
      /\ about' = [about EXCEPT ![t] = None]
      /\ target' = [target EXCEPT ![t] = None]
      /\ UNCHANGED <<key, destructor, threads, keys, nextAssoc, value, iterations, remaining,
                     values, ran, owed>>
  <2>1. ~Goto(t, "setValue")
    BY DEF Goto, TsdInv, TsdType
  <2> QED
    BY <1>1, <2>1 DEF Associate, Return, Goto, Calls, chains, locks, call, rounds, history
<1>3. Moves(t, l)
  BY <1>2 DEF Moves, TsdInv, TsdType, TypeOK, Setting, Deleting, Waiting, Round, Places
<1>4. KeysHeld(t)
  <2>1. Holds(t, keyLock[k])
    BY <1>2 DEF TsdInv, Owns
  <2> QED
    BY <1>2, <2>1, KeyReleased
<1>5. ThreadsHeld(t)
  BY <1>2, ThreadReleased
<1>6. TypeOK'
  BY <1>2, <1>3, <1>4, <1>5, TsdAssumption DEF Moves, KeysHeld, ThreadsHeld, TsdInv, TsdType,
       TypeOK, Passes, Setting, Deleting, Waiting, Round, Places
<1>7. TsdType'
  BY <1>2, <1>3, <1>4, <1>5, <1>6 DEF Moves, KeysHeld, ThreadsHeld, TsdInv, TsdType, Setting,
       Deleting, Waiting, Round, Places
<1>8. LeavesTo(t)
  BY <1>2 DEF LeavesTo, TsdInv, TsdType, TypeOK
<1>9. Owns(t)'
  BY <1>2, <1>3, <1>4, <1>5 DEF Moves, KeysHeld, ThreadsHeld, TsdInv, TsdType, TypeOK, Owns,
       Phase, Passes, Setting, Deleting, Waiting, Round, Places
<1>10. Phase(t)'
  BY <1>2, <1>3, <1>4, <1>5 DEF Moves, KeysHeld, ThreadsHeld, TsdInv, TsdType, TypeOK, Owns,
       Phase, Passes, Setting, Deleting, Waiting, Round, Places
<1>11. Passes(t)'
  BY <1>2, <1>3, <1>4, <1>5 DEF Moves, KeysHeld, ThreadsHeld, TsdInv, TsdType, TypeOK, Owns,
       Phase, Passes, Setting, Deleting, Waiting, Round, Places
<1>12. OneDeleter'
  BY <1>2, <1>3, DeleterAlone DEF Setting, Deleting, Waiting, Round, Places
<1>13. Chained'
  BY <1>2, ChainsStay DEF TsdInv, Chained
<1>14. ASSUME NEW u \in Threads PROVE Owns(u)' /\ Phase(u)' /\ Passes(u)'
  BY <1>3, <1>4, <1>5, <1>8, <1>9, <1>10, <1>11, <1>14, OthersKeep DEF Moves
<1>15. ASSUME Accounted PROVE Accounted'
  <2>1. \A u \in Threads : /\ pc'[u] \in Setting => pc[u] \in Setting /\ target'[u] = target[u]
                           /\ iterations'[u] <= Rounds => iterations[u] <= Rounds
    BY <1>2, <1>3, TsdAssumption DEF Moves, Setting, TsdInv, TsdType, TypeOK
  <2>2. \A u \in Threads, j \in Keys :
          Contains(keys[u], j) /\ key[j] = "live" => Contains(keys'[u], j) /\ key'[j] = "live"
    BY <1>2 DEF TsdInv, TsdType, TypeOK
  <2>3. \A u \in Threads : pc'[u] = "setValue" =>
          (pc[u] = "setValue" /\ about'[u] = about[u]) \/ Contains(keys'[u], about'[u])
    BY <1>2, <1>3 DEF Moves, TsdInv, TsdType, TypeOK
  <2>4. UNCHANGED <<value, owed, ran, values>>
    BY <1>2
  <2> QED
    BY <1>15, <2>1, <2>2, <2>3, <2>4, AccountStays
<1> QED
  BY <1>7, <1>12, <1>13, <1>14, <1>15 DEF TsdInv

LEMMA SetsValue ==
  ASSUME TsdInv, NEW t \in Threads, SetValue(t)
  PROVE  TsdInv'
<1> DEFINE l == IF iterations[t] = 0 THEN "user" ELSE "destructor"
<1>1. /\ pc' = [pc EXCEPT ![t] = l]
      /\ pc[t] = "setValue"
      /\ about' = [about EXCEPT ![t] = None]
      /\ target' = [target EXCEPT ![t] = None]
      /\ value' \in [Threads -> [Keys -> Value]]
      /\ owed' \in [Threads -> SUBSET Value]
      /\ UNCHANGED <<key, destructor, keyLock, threadLock, threads, keys, nextAssoc,
                     iterations, remaining, values, ran>>
  BY TsdAssumption, SMTT(30) DEF SetValue, Stores, Return, Goto, Calls, chains, locks, call, rounds,
       history, TsdInv, TsdType, TypeOK, Value, Setting
<1>2. Moves(t, l)
  BY <1>1 DEF Moves, TsdInv, TsdType, TypeOK, Setting, Deleting, Waiting, Round, Places
<1>3. KeysHeld(t)
  BY <1>1, LocksLeft
<1>4. ThreadsHeld(t)
  BY <1>1, LocksLeft
<1>5. TypeOK'
  BY <1>1, <1>2, <1>3, <1>4, TsdAssumption DEF Moves, KeysHeld, ThreadsHeld, TsdInv, TsdType,
       TypeOK, Passes, Setting, Deleting, Waiting, Round, Places
<1>6. TsdType'
  BY <1>1, <1>2, <1>3, <1>4, <1>5 DEF Moves, KeysHeld, ThreadsHeld, TsdInv, TsdType, Setting,
       Deleting, Waiting, Round, Places
<1>7. LeavesTo(t)
  BY <1>1 DEF LeavesTo, TsdInv, TsdType, TypeOK
<1>8. Owns(t)'
  BY <1>1, <1>2, <1>3, <1>4 DEF Moves, KeysHeld, ThreadsHeld, TsdInv, TsdType, TypeOK, Owns,
       Phase, Passes, Setting, Deleting, Waiting, Round, Places
<1>9. Phase(t)'
  BY <1>1, <1>2, <1>3, <1>4 DEF Moves, KeysHeld, ThreadsHeld, TsdInv, TsdType, TypeOK, Owns,
       Phase, Passes, Setting, Deleting, Waiting, Round, Places
<1>10. Passes(t)'
  BY <1>1, <1>2, <1>3, <1>4 DEF Moves, KeysHeld, ThreadsHeld, TsdInv, TsdType, TypeOK, Owns,
       Phase, Passes, Setting, Deleting, Waiting, Round, Places
<1>11. OneDeleter'
  BY <1>1, <1>2, DeleterAlone DEF Setting, Deleting, Waiting, Round, Places
<1>12. Chained'
  BY <1>1, ChainsStay DEF TsdInv, Chained
<1>13. ASSUME NEW u \in Threads PROVE Owns(u)' /\ Phase(u)' /\ Passes(u)'
  BY <1>2, <1>3, <1>4, <1>7, <1>8, <1>9, <1>10, <1>13, OthersKeep DEF Moves
<1> QED
  BY <1>6, <1>11, <1>12, <1>13 DEF TsdInv

LEMMA Deletes ==
  ASSUME TsdInv, NEW t \in Threads, OneThreadAtDelete, NEW k \in Keys, KeyDelete(t, k),
          threads[k] # <<>>
  PROVE  TsdInv'
<1> DEFINE l == "deleteKey"
<1>1. /\ pc' = [pc EXCEPT ![t] = l]
      /\ pc[t] \in {"user", "destructor"}
      /\ key[k] = "live"
      /\ \A u \in Threads : about[u] = k => pc[u] \notin Setting
      /\ Len(threads[k]) <= 1
      /\ key' = [key EXCEPT ![k] = "deleted"]
      /\ about' = [about EXCEPT ![t] = k]
      /\ target' = [target EXCEPT ![t] = None]
      /\ owed' \in [Threads -> SUBSET Value]
      /\ keyLock' = [keyLock EXCEPT ![k] = Append(@, t)]
      /\ UNCHANGED <<destructor, threadLock, threads, keys, nextAssoc, value, iterations,
                     remaining, values, ran>>
  BY TsdAssumption DEF KeyDelete, OneThreadAtDelete, InProgram, Setting, Goto, Calls, chains,
       locks, call, rounds, history, TsdInv, TsdType, TypeOK, Value, Setting
<1>2. Moves(t, l)
  BY <1>1 DEF Moves, TsdInv, TsdType, TypeOK, Setting, Deleting, Waiting, Round, Places
<1>3. KeysHeld(t)
  BY <1>1, KeyQueued
<1>4. ThreadsHeld(t)
  BY <1>1, LocksLeft
<1>5. /\ \A j \in Keys : Holds(t, keyLock[j]) => Holds(t, keyLock'[j])
      /\ keyLock[k] = <<>> => Holds(t, keyLock'[k])
  BY <1>1, KeyQueued
<1>6. TypeOK'
  BY <1>1, <1>2, <1>3, <1>4, <1>5, TsdAssumption DEF Moves, KeysHeld, ThreadsHeld, TsdInv,
       TsdType, TypeOK, Passes, Setting, Deleting, Waiting, Round, Places
<1>7. TsdType'
  BY <1>1, <1>2, <1>3, <1>4, <1>5, <1>6 DEF Moves, KeysHeld, ThreadsHeld, TsdInv, TsdType,
       Setting, Deleting, Waiting, Round, Places
<1>8. LeavesTo(t)
  <2>1. ASSUME NEW u \in Threads \ {t}, pc[u] \in Setting \cup Deleting \cup Waiting
        PROVE  about[u] \in Keys /\ about[u] # k
    BY <1>1, <2>1 DEF TsdInv, TsdType, Phase, OneDeleter, Setting, Deleting, Waiting
  <2> QED
    BY <1>1, <2>1 DEF LeavesTo, TsdInv, TsdType, TypeOK
<1>9. Owns(t)'
  BY <1>1, <1>2, <1>3, <1>4, <1>5 DEF Moves, KeysHeld, ThreadsHeld, TsdInv, TsdType, TypeOK,
       Owns, Phase, Passes, Setting, Deleting, Waiting, Round, Places
<1>10. Phase(t)'
  BY <1>1, <1>2, <1>3, <1>4, <1>5 DEF Moves, KeysHeld, ThreadsHeld, TsdInv, TsdType, TypeOK,
       Owns, Phase, Passes, Setting, Deleting, Waiting, Round, Places
<1>11. Passes(t)'
  BY <1>1, <1>2, <1>3, <1>4, <1>5 DEF Moves, KeysHeld, ThreadsHeld, TsdInv, TsdType, TypeOK,
       Owns, Phase, Passes, Setting, Deleting, Waiting, Round, Places
<1>12. OneDeleter'
  BY <1>1, <1>2, DeleterAlone DEF Setting, Deleting, Waiting, Round, Places, TsdInv, TsdType
<1>13. Chained'
  <2>1. \A u \in Threads, j \in Keys : Contains(keys[u], j) => key'[j] \in {"live", "deleted"}
    BY <1>1 DEF TsdInv, TsdType, TypeOK, Chained
  <2> QED
    BY <1>1, <2>1, ChainsStay DEF TsdInv, Chained
<1>14. ASSUME NEW u \in Threads PROVE Owns(u)' /\ Phase(u)' /\ Passes(u)'
  BY <1>2, <1>3, <1>4, <1>8, <1>9, <1>10, <1>11, <1>14, OthersKeep DEF Moves
<1> QED
  BY <1>7, <1>12, <1>13, <1>14 DEF TsdInv

LEMMA DeletesAlone ==
  ASSUME TsdInv, NEW t \in Threads, OneThreadAtDelete, NEW k \in Keys, KeyDelete(t, k),
          threads[k] = <<>>
  PROVE  TsdInv'
<1> DEFINE l == "deleteLast"
<1>1. /\ pc' = [pc EXCEPT ![t] = l]
      /\ pc[t] \in {"user", "destructor"}
      /\ key[k] = "live"
      /\ \A u \in Threads : about[u] = k => pc[u] \notin Setting
      /\ Len(threads[k]) <= 1
      /\ key' = [key EXCEPT ![k] = "deleted"]
      /\ about' = [about EXCEPT ![t] = k]
      /\ target' = [target EXCEPT ![t] = None]
      /\ owed' \in [Threads -> SUBSET Value]
      /\ threads[k] = <<>>
      /\ UNCHANGED <<destructor, keyLock, threadLock, threads, keys, nextAssoc, value,
                     iterations, remaining, values, ran>>
  BY TsdAssumption DEF KeyDelete, OneThreadAtDelete, InProgram, Setting, Goto, Calls, chains,
       locks, call, rounds, history, TsdInv, TsdType, TypeOK, Value, Setting
<1>2. Moves(t, l)
  BY <1>1 DEF Moves, TsdInv, TsdType, TypeOK, Setting, Deleting, Waiting, Round, Places
<1>3. KeysHeld(t)
  BY <1>1, LocksLeft
<1>4. ThreadsHeld(t)
  BY <1>1, LocksLeft
<1>5. TypeOK'
  BY <1>1, <1>2, <1>3, <1>4, TsdAssumption DEF Moves, KeysHeld, ThreadsHeld, TsdInv, TsdType,
       TypeOK, Passes, Setting, Deleting, Waiting, Round, Places
<1>6. TsdType'
  BY <1>1, <1>2, <1>3, <1>4, <1>5 DEF Moves, KeysHeld, ThreadsHeld, TsdInv, TsdType, Setting,
       Deleting, Waiting, Round, Places
<1>7. LeavesTo(t)
  <2>1. ASSUME NEW u \in Threads \ {t}, pc[u] \in Setting \cup Deleting \cup Waiting
        PROVE  about[u] \in Keys /\ about[u] # k
    BY <1>1, <2>1 DEF TsdInv, TsdType, Phase, OneDeleter, Setting, Deleting, Waiting
  <2> QED
    BY <1>1, <2>1 DEF LeavesTo, TsdInv, TsdType, TypeOK
<1>8. Owns(t)'
  BY <1>1, <1>2, <1>3, <1>4 DEF Moves, KeysHeld, ThreadsHeld, TsdInv, TsdType, TypeOK, Owns,
       Phase, Passes, Setting, Deleting, Waiting, Round, Places
<1>9. Phase(t)'
  BY <1>1, <1>2, <1>3, <1>4 DEF Moves, KeysHeld, ThreadsHeld, TsdInv, TsdType, TypeOK, Owns,
       Phase, Passes, Setting, Deleting, Waiting, Round, Places
<1>10. Passes(t)'
  BY <1>1, <1>2, <1>3, <1>4 DEF Moves, KeysHeld, ThreadsHeld, TsdInv, TsdType, TypeOK, Owns,
       Phase, Passes, Setting, Deleting, Waiting, Round, Places
<1>11. OneDeleter'
  BY <1>1, <1>2, DeleterAlone DEF Setting, Deleting, Waiting, Round, Places, TsdInv, TsdType
<1>12. Chained'
  <2>1. \A u \in Threads, j \in Keys : Contains(keys[u], j) => key'[j] \in {"live", "deleted"}
    BY <1>1 DEF TsdInv, TsdType, TypeOK, Chained
  <2> QED
    BY <1>1, <2>1, ChainsStay DEF TsdInv, Chained
<1>13. ASSUME NEW u \in Threads PROVE Owns(u)' /\ Phase(u)' /\ Passes(u)'
  BY <1>2, <1>3, <1>4, <1>7, <1>8, <1>9, <1>10, <1>13, OthersKeep DEF Moves
<1> QED
  BY <1>6, <1>11, <1>12, <1>13 DEF TsdInv

LEMMA DeletesKey ==
  ASSUME TsdInv, NEW t \in Threads, DeleteKey(t)
  PROVE  TsdInv' /\ (Accounted => Accounted')
<1>1. PICK k \in Keys : k = about[t]
  BY DEF DeleteKey, Goto, TsdInv, TsdType, TypeOK, Setting, Deleting, Waiting, Round, Places
<1> DEFINE l == "deleteLoop"
<1>2. /\ pc' = [pc EXCEPT ![t] = l]
      /\ pc[t] = "deleteKey"
      /\ Holds(t, keyLock[k])
      /\ k = about[t]
      /\ UNCHANGED <<key, destructor, keyLock, threadLock, threads, keys, nextAssoc, value,
                     iterations, remaining, about, target, values, ran, owed>>
  BY <1>1, TsdAssumption DEF DeleteKey, Goto, chains, locks, call, rounds, history
<1>3. Moves(t, l)
  BY <1>2 DEF Moves, TsdInv, TsdType, TypeOK, Setting, Deleting, Waiting, Round, Places
<1>4. KeysHeld(t)
  BY <1>2, LocksLeft
<1>5. ThreadsHeld(t)
  BY <1>2, LocksLeft
<1>6. TypeOK'
  BY <1>2, <1>3, <1>4, <1>5, TsdAssumption DEF Moves, KeysHeld, ThreadsHeld, TsdInv, TsdType,
       TypeOK, Passes, Setting, Deleting, Waiting, Round, Places
<1>7. TsdType'
  BY <1>2, <1>3, <1>4, <1>5, <1>6 DEF Moves, KeysHeld, ThreadsHeld, TsdInv, TsdType, Setting,
       Deleting, Waiting, Round, Places
<1>8. LeavesTo(t)
  BY <1>2 DEF LeavesTo, TsdInv, TsdType, TypeOK
<1>9. Owns(t)'
  BY <1>2, <1>3, <1>4, <1>5 DEF Moves, KeysHeld, ThreadsHeld, TsdInv, TsdType, TypeOK, Owns,
       Phase, Passes, Setting, Deleting, Waiting, Round, Places
<1>10. Phase(t)'
  BY <1>2, <1>3, <1>4, <1>5 DEF Moves, KeysHeld, ThreadsHeld, TsdInv, TsdType, TypeOK, Owns,
       Phase, Passes, Setting, Deleting, Waiting, Round, Places
<1>11. Passes(t)'
  BY <1>2, <1>3, <1>4, <1>5 DEF Moves, KeysHeld, ThreadsHeld, TsdInv, TsdType, TypeOK, Owns,
       Phase, Passes, Setting, Deleting, Waiting, Round, Places
<1>12. OneDeleter'
  BY <1>2, <1>3, DeleterAlone DEF Setting, Deleting, Waiting, Round, Places
<1>13. Chained'
  BY <1>2, ChainsStay DEF TsdInv, Chained
<1>14. ASSUME NEW u \in Threads PROVE Owns(u)' /\ Phase(u)' /\ Passes(u)'
  BY <1>3, <1>4, <1>5, <1>8, <1>9, <1>10, <1>11, <1>14, OthersKeep DEF Moves
<1>15. ASSUME Accounted PROVE Accounted'
  <2>1. \A u \in Threads : /\ pc'[u] \in Setting => pc[u] \in Setting /\ target'[u] = target[u]
                           /\ iterations'[u] <= Rounds => iterations[u] <= Rounds
    BY <1>2, <1>3, TsdAssumption DEF Moves, Setting, TsdInv, TsdType, TypeOK
  <2>2. \A u \in Threads, j \in Keys :
          Contains(keys[u], j) /\ key[j] = "live" => Contains(keys'[u], j) /\ key'[j] = "live"
    BY <1>2 DEF TsdInv, TsdType, TypeOK
  <2>3. \A u \in Threads : pc'[u] = "setValue" =>
          (pc[u] = "setValue" /\ about'[u] = about[u]) \/ Contains(keys'[u], about'[u])
    BY <1>2, <1>3 DEF Moves, TsdInv, TsdType, TypeOK
  <2>4. UNCHANGED <<value, owed, ran, values>>
    BY <1>2
  <2> QED
    BY <1>15, <2>1, <2>2, <2>3, <2>4, AccountStays
<1> QED
  BY <1>7, <1>12, <1>13, <1>14, <1>15 DEF TsdInv

LEMMA LoopEnds ==
  ASSUME TsdInv, NEW t \in Threads, DeleteLoop(t), threads[about[t]] = <<>>
  PROVE  TsdInv' /\ (Accounted => Accounted')
<1>1. PICK k \in Keys : k = about[t]
  BY DEF DeleteLoop, Goto, TsdInv, TsdType, TypeOK, Setting, Deleting, Waiting, Round, Places
<1> DEFINE l == "deleteLast"
<1>2. /\ pc' = [pc EXCEPT ![t] = l]
      /\ pc[t] = "deleteLoop"
      /\ k = about[t]
      /\ threads[k] = <<>>
      /\ UNCHANGED <<key, destructor, keyLock, threadLock, threads, keys, nextAssoc, value,
                     iterations, remaining, about, target, values, ran, owed>>
  BY <1>1, TsdAssumption DEF DeleteLoop, Goto, chains, locks, call, rounds, history, TsdInv,
       Phase
<1>3. Moves(t, l)
  BY <1>2 DEF Moves, TsdInv, TsdType, TypeOK, Setting, Deleting, Waiting, Round, Places
<1>4. KeysHeld(t)
  BY <1>2, LocksLeft
<1>5. ThreadsHeld(t)
  BY <1>2, LocksLeft
<1>6. TypeOK'
  BY <1>2, <1>3, <1>4, <1>5, TsdAssumption DEF Moves, KeysHeld, ThreadsHeld, TsdInv, TsdType,
       TypeOK, Passes, Setting, Deleting, Waiting, Round, Places
<1>7. TsdType'
  BY <1>2, <1>3, <1>4, <1>5, <1>6 DEF Moves, KeysHeld, ThreadsHeld, TsdInv, TsdType, Setting,
       Deleting, Waiting, Round, Places
<1>8. LeavesTo(t)
  BY <1>2 DEF LeavesTo, TsdInv, TsdType, TypeOK
<1>9. Owns(t)'
  BY <1>2, <1>3, <1>4, <1>5 DEF Moves, KeysHeld, ThreadsHeld, TsdInv, TsdType, TypeOK, Owns,
       Phase, Passes, Setting, Deleting, Waiting, Round, Places
<1>10. Phase(t)'
  BY <1>2, <1>3, <1>4, <1>5 DEF Moves, KeysHeld, ThreadsHeld, TsdInv, TsdType, TypeOK, Owns,
       Phase, Passes, Setting, Deleting, Waiting, Round, Places
<1>11. Passes(t)'
  BY <1>2, <1>3, <1>4, <1>5 DEF Moves, KeysHeld, ThreadsHeld, TsdInv, TsdType, TypeOK, Owns,
       Phase, Passes, Setting, Deleting, Waiting, Round, Places
<1>12. OneDeleter'
  BY <1>2, <1>3, DeleterAlone DEF Setting, Deleting, Waiting, Round, Places
<1>13. Chained'
  BY <1>2, ChainsStay DEF TsdInv, Chained
<1>14. ASSUME NEW u \in Threads PROVE Owns(u)' /\ Phase(u)' /\ Passes(u)'
  BY <1>3, <1>4, <1>5, <1>8, <1>9, <1>10, <1>11, <1>14, OthersKeep DEF Moves
<1>15. ASSUME Accounted PROVE Accounted'
  <2>1. \A u \in Threads : /\ pc'[u] \in Setting => pc[u] \in Setting /\ target'[u] = target[u]
                           /\ iterations'[u] <= Rounds => iterations[u] <= Rounds
    BY <1>2, <1>3, TsdAssumption DEF Moves, Setting, TsdInv, TsdType, TypeOK
  <2>2. \A u \in Threads, j \in Keys :
          Contains(keys[u], j) /\ key[j] = "live" => Contains(keys'[u], j) /\ key'[j] = "live"
    BY <1>2 DEF TsdInv, TsdType, TypeOK
  <2>3. \A u \in Threads : pc'[u] = "setValue" =>
          (pc[u] = "setValue" /\ about'[u] = about[u]) \/ Contains(keys'[u], about'[u])
    BY <1>2, <1>3 DEF Moves, TsdInv, TsdType, TypeOK
  <2>4. UNCHANGED <<value, owed, ran, values>>
    BY <1>2
  <2> QED
    BY <1>15, <2>1, <2>2, <2>3, <2>4, AccountStays
<1> QED
  BY <1>7, <1>12, <1>13, <1>14, <1>15 DEF TsdInv

LEMMA LoopGoesOn ==
  ASSUME TsdInv, NEW t \in Threads, DeleteLoop(t), threads[about[t]] # <<>>
  PROVE  TsdInv' /\ (Accounted => Accounted')
<1>1. PICK k \in Keys : k = about[t]
  BY DEF DeleteLoop, Goto, TsdInv, TsdType, TypeOK, Setting, Deleting, Waiting, Round, Places
<1>2. PICK w \in Threads : w = Head(threads[k])
  BY <1>1, HeadTailProperties DEF DeleteLoop, Goto, TsdInv, TsdType, TypeOK
<1> DEFINE l == "deleteThread"
<1>3. /\ pc' = [pc EXCEPT ![t] = l]
      /\ pc[t] = "deleteLoop"
      /\ k = about[t]
      /\ threads[k] # <<>>
      /\ w = Head(threads[k])
      /\ Contains(threads[k], w)
      /\ target' = [target EXCEPT ![t] = w]
      /\ threadLock' = [threadLock EXCEPT ![w] = Append(@, t)]
      /\ UNCHANGED <<key, destructor, keyLock, threads, keys, nextAssoc, value, iterations,
                     remaining, about, values, ran, owed>>
  <2>1. Head(threads[k]) = threads[k][1] /\ 1 \in 1 .. Len(threads[k])
    BY <1>1, <1>2, LenProperties, EmptySeq DEF TsdInv, TsdType, TypeOK, DeleteLoop
  <2> QED
    BY <1>1, <1>2, <2>1 DEF DeleteLoop, Goto, chains, locks, call, rounds, history, Contains
<1>4. Moves(t, l)
  BY <1>3 DEF Moves, TsdInv, TsdType, TypeOK, Setting, Deleting, Waiting, Round, Places
<1>5. KeysHeld(t)
  BY <1>3, LocksLeft
<1>6. ThreadsHeld(t)
  BY <1>3, ThreadQueued
<1>7. TypeOK'
  BY <1>3, <1>4, <1>5, <1>6, TsdAssumption DEF Moves, KeysHeld, ThreadsHeld, TsdInv, TsdType,
       TypeOK, Passes, Setting, Deleting, Waiting, Round, Places
<1>8. TsdType'
  BY <1>3, <1>4, <1>5, <1>6, <1>7 DEF Moves, KeysHeld, ThreadsHeld, TsdInv, TsdType, Setting,
       Deleting, Waiting, Round, Places
<1>9. LeavesTo(t)
  BY <1>3 DEF LeavesTo, TsdInv, TsdType, TypeOK
<1>10. Owns(t)'
  BY <1>3, <1>4, <1>5, <1>6 DEF Moves, KeysHeld, ThreadsHeld, TsdInv, TsdType, TypeOK, Owns,
       Phase, Passes, Setting, Deleting, Waiting, Round, Places
<1>11. Phase(t)'
  BY <1>3, <1>4, <1>5, <1>6 DEF Moves, KeysHeld, ThreadsHeld, TsdInv, TsdType, TypeOK, Owns,
       Phase, Passes, Setting, Deleting, Waiting, Round, Places
<1>12. Passes(t)'
  BY <1>3, <1>4, <1>5, <1>6 DEF Moves, KeysHeld, ThreadsHeld, TsdInv, TsdType, TypeOK, Owns,
       Phase, Passes, Setting, Deleting, Waiting, Round, Places
<1>13. OneDeleter'
  BY <1>3, <1>4, DeleterAlone DEF Setting, Deleting, Waiting, Round, Places
<1>14. Chained'
  BY <1>3, ChainsStay DEF TsdInv, Chained
<1>15. ASSUME NEW u \in Threads PROVE Owns(u)' /\ Phase(u)' /\ Passes(u)'
  BY <1>4, <1>5, <1>6, <1>9, <1>10, <1>11, <1>12, <1>15, OthersKeep DEF Moves
<1>16. ASSUME Accounted PROVE Accounted'
  <2>1. \A u \in Threads : /\ pc'[u] \in Setting => pc[u] \in Setting /\ target'[u] = target[u]
                           /\ iterations'[u] <= Rounds => iterations[u] <= Rounds
    BY <1>3, <1>4, TsdAssumption DEF Moves, Setting, TsdInv, TsdType, TypeOK
  <2>2. \A u \in Threads, j \in Keys :
          Contains(keys[u], j) /\ key[j] = "live" => Contains(keys'[u], j) /\ key'[j] = "live"
    BY <1>3 DEF TsdInv, TsdType, TypeOK
  <2>3. \A u \in Threads : pc'[u] = "setValue" =>
          (pc[u] = "setValue" /\ about'[u] = about[u]) \/ Contains(keys'[u], about'[u])
    BY <1>3, <1>4 DEF Moves, TsdInv, TsdType, TypeOK
  <2>4. UNCHANGED <<value, owed, ran, values>>
    BY <1>3
  <2> QED
    BY <1>16, <2>1, <2>2, <2>3, <2>4, AccountStays
<1> QED
  BY <1>8, <1>13, <1>14, <1>15, <1>16 DEF TsdInv

LEMMA DeletesAssoc ==
  ASSUME TsdInv, NEW t \in Threads, DeleteAssoc(t)
  PROVE  TsdInv' /\ (Accounted => Accounted')
<1>1. PICK k \in Keys : k = about[t]
  BY DEF DeleteAssoc, Goto, Calls, TsdInv, TsdType, TypeOK, Setting, Deleting, Waiting, Round,
       Places
<1>2. PICK w \in Threads : w = target[t]
  BY <1>1 DEF DeleteAssoc, Goto, Calls, TsdInv, TsdType, TypeOK
<1> DEFINE l == "deleteLoop"
<1>3. /\ pc' = [pc EXCEPT ![t] = l]
      /\ pc[t] = "deleteThread"
      /\ k = about[t]
      /\ w = target[t]
      /\ Contains(keys[w], k)
      /\ TkAssocDestroy(w, k)
      /\ Len(threads[k]) <= 1
      /\ Holds(t, threadLock[w])
      /\ Holds(t, keyLock[k])
      /\ threadLock' = [threadLock EXCEPT ![w] = Tail(@)]
      /\ keyLock' = [keyLock EXCEPT ![k] = Tail(@)]
      /\ about' = [about EXCEPT ![t] = k]
      /\ target' = [target EXCEPT ![t] = None]
      /\ UNCHANGED <<key, destructor, value, iterations, remaining, values, ran, owed>>
  BY <1>1, <1>2 DEF DeleteAssoc, Goto, Calls, chains, locks, call, rounds, history, TsdInv,
       TsdType, TypeOK, Owns, Phase, Chained, Setting, Deleting, Waiting, Round, Places
<1>4. Moves(t, l)
  BY <1>3 DEF Moves, TsdInv, TsdType, TypeOK, Setting, Deleting, Waiting, Round, Places
<1>5. KeysHeld(t)
  BY <1>3, KeyReleased
<1>6. ThreadsHeld(t)
  BY <1>3, ThreadReleased
<1>7. Gone(w, k)
  BY <1>3, Destroyed
<1>8. TypeOK'
  BY <1>3, <1>4, <1>5, <1>6, <1>7, TsdAssumption DEF Moves, KeysHeld, ThreadsHeld, Gone,
       TsdInv, TsdType, TypeOK, Passes, Setting, Deleting, Waiting, Round, Places
<1>9. TsdType'
  BY <1>3, <1>4, <1>5, <1>6, <1>7, <1>8, SMTT(30) DEF Moves, KeysHeld, ThreadsHeld, Gone, TsdInv,
       TsdType, Setting, Deleting, Waiting, Round, Places
<1>10. LeavesTo(t)
  <2>1. ASSUME NEW u \in Threads \ {t}, pc[u] \in Deleting
        PROVE  about[u] \in Keys /\ about[u] # k
    BY <1>3, <2>1 DEF TsdInv, TsdType, OneDeleter, Deleting
  <2>2. ASSUME NEW u \in Threads \ {t}, pc[u] = "both"
        PROVE  u # w
    <3>1. Holds(u, threadLock[u])
      BY <2>2 DEF TsdInv, Owns
    <3>2. threadLock[u] \in Seq(Threads)
      BY DEF TsdInv, TsdType, TypeOK
    <3> QED
      BY <1>3, <3>1, <3>2, Queues
  <2> QED
    BY <1>3, <1>7, <2>1, <2>2 DEF LeavesTo, Gone
<1>11. Owns(t)'
  BY <1>3, <1>4, <1>5, <1>6, <1>7 DEF Moves, KeysHeld, ThreadsHeld, Gone, TsdInv, TsdType,
       TypeOK, Owns, Phase, Passes, Setting, Deleting, Waiting, Round, Places
<1>12. Phase(t)'
  BY <1>3, <1>4, <1>5, <1>6, <1>7 DEF Moves, KeysHeld, ThreadsHeld, Gone, TsdInv, TsdType,
       TypeOK, Owns, Phase, Passes, Setting, Deleting, Waiting, Round, Places
<1>13. Passes(t)'
  BY <1>3, <1>4, <1>5, <1>6, <1>7 DEF Moves, KeysHeld, ThreadsHeld, Gone, TsdInv, TsdType,
       TypeOK, Owns, Phase, Passes, Setting, Deleting, Waiting, Round, Places
<1>14. OneDeleter'
  BY <1>3, <1>4, DeleterAlone DEF Setting, Deleting, Waiting, Round, Places
<1>15. Chained'
  BY <1>3, <1>4, <1>5, <1>6, <1>7 DEF Moves, KeysHeld, ThreadsHeld, Gone, TsdInv, TsdType,
       TypeOK, Phase, Chained, Setting, Deleting, Waiting, Round, Places
<1>16. ASSUME NEW u \in Threads PROVE Owns(u)' /\ Phase(u)' /\ Passes(u)'
  BY <1>4, <1>5, <1>6, <1>10, <1>11, <1>12, <1>13, <1>16, OthersKeep DEF Moves
<1>17. ASSUME Accounted PROVE Accounted'
  <2>1. \A u \in Threads : /\ pc'[u] \in Setting => pc[u] \in Setting /\ target'[u] = target[u]
                           /\ iterations'[u] <= Rounds => iterations[u] <= Rounds
    BY <1>3, <1>4, TsdAssumption DEF Moves, Setting, TsdInv, TsdType, TypeOK
  <2>2. \A u \in Threads, j \in Keys :
          Contains(keys[u], j) /\ key[j] = "live" => Contains(keys'[u], j) /\ key'[j] = "live"
    <3>1. key[k] = "deleted"
      BY <1>3 DEF TsdInv, Phase, Deleting
    <3> QED
      BY <1>3, <3>1, <1>7 DEF Gone, TsdInv, TsdType, TypeOK
  <2>3. \A u \in Threads : pc'[u] = "setValue" =>
          (pc[u] = "setValue" /\ about'[u] = about[u]) \/ Contains(keys'[u], about'[u])
    BY <1>3, <1>4 DEF Moves, TsdInv, TsdType, TypeOK
  <2>4. UNCHANGED <<value, owed, ran, values>>
    BY <1>3
  <2> QED
    BY <1>17, <2>1, <2>2, <2>3, <2>4, AccountStays
<1> QED
  BY <1>9, <1>14, <1>15, <1>16, <1>17 DEF TsdInv

LEMMA LastWait ==
  ASSUME TsdInv, NEW t \in Threads, DeleteLast(t), destructor[about[t]]
  PROVE  TsdInv' /\ (Accounted => Accounted')
<1>1. PICK k \in Keys : k = about[t]
  BY DEF DeleteLast, Goto, TsdInv, TsdType, TypeOK, Setting, Deleting, Waiting, Round, Places
<1> DEFINE l == IF Holds(t, keyLock[k]) THEN "selfWait" ELSE "deleteWait"
<1>2. /\ pc' = [pc EXCEPT ![t] = l]
      /\ pc[t] = "deleteLast"
      /\ k = about[t]
      /\ threads[k] = <<>>
      /\ key' = [key EXCEPT ![k] = "slotless"]
      /\ keyLock' = [keyLock EXCEPT ![k] = Append(@, t)]
      /\ UNCHANGED <<destructor, threadLock, threads, keys, nextAssoc, value, iterations,
                     remaining, about, target, values, ran, owed>>
  BY <1>1, TsdAssumption DEF DeleteLast, Goto, chains, locks, call, rounds, history, TsdInv,
       Phase
<1>3. Moves(t, l)
  BY <1>2 DEF Moves, TsdInv, TsdType, TypeOK, Setting, Deleting, Waiting, Round, Places
<1>4. KeysHeld(t)
  BY <1>2, KeyQueued
<1>5. ThreadsHeld(t)
  BY <1>2, LocksLeft
<1>6. /\ \A j \in Keys : Holds(t, keyLock[j]) => Holds(t, keyLock'[j])
      /\ keyLock[k] = <<>> => Holds(t, keyLock'[k])
  BY <1>2, KeyQueued
<1>7. TypeOK'
  BY <1>2, <1>3, <1>4, <1>5, <1>6, TsdAssumption DEF Moves, KeysHeld, ThreadsHeld, TsdInv,
       TsdType, TypeOK, Passes, Setting, Deleting, Waiting, Round, Places
<1>8. TsdType'
  BY <1>2, <1>3, <1>4, <1>5, <1>6, <1>7 DEF Moves, KeysHeld, ThreadsHeld, TsdInv, TsdType,
       Setting, Deleting, Waiting, Round, Places
<1>9. LeavesTo(t)
  <2>1. ASSUME NEW u \in Threads \ {t}, pc[u] \in Setting \cup Deleting \cup Waiting
        PROVE  about[u] \in Keys /\ about[u] # k
    BY <1>2, <2>1 DEF TsdInv, TsdType, Phase, OneDeleter, Setting, Deleting, Waiting
  <2> QED
    BY <1>2, <2>1 DEF LeavesTo, TsdInv, TsdType, TypeOK
<1>10. Owns(t)'
  BY <1>2, <1>3, <1>4, <1>5, <1>6 DEF Moves, KeysHeld, ThreadsHeld, TsdInv, TsdType, TypeOK,
       Owns, Phase, Passes, Setting, Deleting, Waiting, Round, Places
<1>11. Phase(t)'
  BY <1>2, <1>3, <1>4, <1>5, <1>6 DEF Moves, KeysHeld, ThreadsHeld, TsdInv, TsdType, TypeOK,
       Owns, Phase, Passes, Setting, Deleting, Waiting, Round, Places
<1>12. Passes(t)'
  BY <1>2, <1>3, <1>4, <1>5, <1>6 DEF Moves, KeysHeld, ThreadsHeld, TsdInv, TsdType, TypeOK,
       Owns, Phase, Passes, Setting, Deleting, Waiting, Round, Places
<1>13. OneDeleter'
  BY <1>2, <1>3, DeleterAlone DEF Setting, Deleting, Waiting, Round, Places
<1>14. Chained'
  <2>1. \A u \in Threads : ~Contains(keys[u], k)
    <3>0. \A u \in Threads : ~Contains(threads[k], u)
      BY <1>2 DEF Contains
    <3> QED
      BY <3>0 DEF TsdInv, Chained
  <2>2. \A u \in Threads, j \in Keys : Contains(keys[u], j) => key'[j] \in {"live", "deleted"}
    BY <1>2, <2>1, SMTT(30) DEF TsdInv, TsdType, TypeOK, Chained
  <2> QED
    BY <1>2, <2>2, ChainsStay DEF TsdInv, Chained
<1>15. ASSUME NEW u \in Threads PROVE Owns(u)' /\ Phase(u)' /\ Passes(u)'
  BY <1>3, <1>4, <1>5, <1>9, <1>10, <1>11, <1>12, <1>15, OthersKeep DEF Moves
<1>16. ASSUME Accounted PROVE Accounted'
  <2>1. \A u \in Threads : /\ pc'[u] \in Setting => pc[u] \in Setting /\ target'[u] = target[u]
                           /\ iterations'[u] <= Rounds => iterations[u] <= Rounds
    BY <1>2, <1>3, TsdAssumption DEF Moves, Setting, TsdInv, TsdType, TypeOK
  <2>2. \A u \in Threads, j \in Keys :
          Contains(keys[u], j) /\ key[j] = "live" => Contains(keys'[u], j) /\ key'[j] = "live"
    <3>1. key[k] # "live"
      BY <1>2 DEF TsdInv, Phase, Deleting, Waiting
    <3> QED
      BY <1>2, <3>1 DEF TsdInv, TsdType, TypeOK
  <2>3. \A u \in Threads : pc'[u] = "setValue" =>
          (pc[u] = "setValue" /\ about'[u] = about[u]) \/ Contains(keys'[u], about'[u])
    BY <1>2, <1>3 DEF Moves, TsdInv, TsdType, TypeOK
  <2>4. UNCHANGED <<value, owed, ran, values>>
    BY <1>2
  <2> QED
    BY <1>16, <2>1, <2>2, <2>3, <2>4, AccountStays
<1> QED
  BY <1>8, <1>13, <1>14, <1>15, <1>16 DEF TsdInv

LEMMA NoLastWait ==
  ASSUME TsdInv, NEW t \in Threads, DeleteLast(t), ~destructor[about[t]]
  PROVE  TsdInv' /\ (Accounted => Accounted')
<1>1. PICK k \in Keys : k = about[t]
  BY DEF DeleteLast, Return, Goto, Calls, TsdInv, TsdType, TypeOK, Setting, Deleting, Waiting,
       Round, Places
<1> DEFINE l == IF iterations[t] = 0 THEN "user" ELSE "destructor"
<1>2. /\ pc' = [pc EXCEPT ![t] = l]
      /\ pc[t] = "deleteLast"
      /\ k = about[t]
      /\ threads[k] = <<>>
      /\ key' = [key EXCEPT ![k] = "freed"]
      /\ about' = [about EXCEPT ![t] = None]
      /\ target' = [target EXCEPT ![t] = None]
      /\ UNCHANGED <<destructor, keyLock, threadLock, threads, keys, nextAssoc, value,
                     iterations, remaining, values, ran, owed>>
  BY <1>1, TsdAssumption DEF DeleteLast, Return, Goto, Calls, chains, locks, call, rounds,
       history, TsdInv, Phase
<1>3. Moves(t, l)
  BY <1>2 DEF Moves, TsdInv, TsdType, TypeOK, Setting, Deleting, Waiting, Round, Places
<1>4. KeysHeld(t)
  BY <1>2, LocksLeft
<1>5. ThreadsHeld(t)
  BY <1>2, LocksLeft
<1>6. TypeOK'
  BY <1>2, <1>3, <1>4, <1>5, TsdAssumption DEF Moves, KeysHeld, ThreadsHeld, TsdInv, TsdType,
       TypeOK, Passes, Setting, Deleting, Waiting, Round, Places
<1>7. TsdType'
  BY <1>2, <1>3, <1>4, <1>5, <1>6 DEF Moves, KeysHeld, ThreadsHeld, TsdInv, TsdType, Setting,
       Deleting, Waiting, Round, Places
<1>8. LeavesTo(t)
  <2>1. ASSUME NEW u \in Threads \ {t}, pc[u] \in Setting \cup Deleting \cup Waiting
        PROVE  about[u] \in Keys /\ about[u] # k
    BY <1>2, <2>1 DEF TsdInv, TsdType, Phase, OneDeleter, Setting, Deleting, Waiting
  <2> QED
    BY <1>2, <2>1 DEF LeavesTo, TsdInv, TsdType, TypeOK
<1>9. Owns(t)'
  BY <1>2, <1>3, <1>4, <1>5 DEF Moves, KeysHeld, ThreadsHeld, TsdInv, TsdType, TypeOK, Owns,
       Phase, Passes, Setting, Deleting, Waiting, Round, Places
<1>10. Phase(t)'
  BY <1>2, <1>3, <1>4, <1>5 DEF Moves, KeysHeld, ThreadsHeld, TsdInv, TsdType, TypeOK, Owns,
       Phase, Passes, Setting, Deleting, Waiting, Round, Places
<1>11. Passes(t)'
  BY <1>2, <1>3, <1>4, <1>5 DEF Moves, KeysHeld, ThreadsHeld, TsdInv, TsdType, TypeOK, Owns,
       Phase, Passes, Setting, Deleting, Waiting, Round, Places
<1>12. OneDeleter'
  BY <1>2, <1>3, DeleterAlone DEF Setting, Deleting, Waiting, Round, Places
<1>13. Chained'
  <2>1. \A u \in Threads : ~Contains(keys[u], k)
    <3>0. \A u \in Threads : ~Contains(threads[k], u)
      BY <1>2 DEF Contains
    <3> QED
      BY <3>0 DEF TsdInv, Chained
  <2>2. \A u \in Threads, j \in Keys : Contains(keys[u], j) => key'[j] \in {"live", "deleted"}
    BY <1>2, <2>1 DEF TsdInv, TsdType, TypeOK, Chained
  <2> QED
    BY <1>2, <2>2, ChainsStay DEF TsdInv, Chained
<1>14. ASSUME NEW u \in Threads PROVE Owns(u)' /\ Phase(u)' /\ Passes(u)'
  BY <1>3, <1>4, <1>5, <1>8, <1>9, <1>10, <1>11, <1>14, OthersKeep DEF Moves
<1>15. ASSUME Accounted PROVE Accounted'
  <2>1. \A u \in Threads : /\ pc'[u] \in Setting => pc[u] \in Setting /\ target'[u] = target[u]
                           /\ iterations'[u] <= Rounds => iterations[u] <= Rounds
    BY <1>2, <1>3, TsdAssumption DEF Moves, Setting, TsdInv, TsdType, TypeOK
  <2>2. \A u \in Threads, j \in Keys :
          Contains(keys[u], j) /\ key[j] = "live" => Contains(keys'[u], j) /\ key'[j] = "live"
    <3>1. key[k] # "live"
      BY <1>2 DEF TsdInv, Phase, Deleting, Waiting
    <3> QED
      BY <1>2, <3>1 DEF TsdInv, TsdType, TypeOK
  <2>3. \A u \in Threads : pc'[u] = "setValue" =>
          (pc[u] = "setValue" /\ about'[u] = about[u]) \/ Contains(keys'[u], about'[u])
    BY <1>2, <1>3 DEF Moves, TsdInv, TsdType, TypeOK
  <2>4. UNCHANGED <<value, owed, ran, values>>
    BY <1>2
  <2> QED
    BY <1>15, <2>1, <2>2, <2>3, <2>4, AccountStays
<1> QED
  BY <1>7, <1>12, <1>13, <1>14, <1>15 DEF TsdInv

LEMMA DeletesEnd ==
  ASSUME TsdInv, NEW t \in Threads, DeleteEnds(t)
  PROVE  TsdInv' /\ (Accounted => Accounted')
<1>1. PICK k \in Keys : k = about[t]
  BY DEF DeleteEnds, Return, Goto, Calls, TsdInv, TsdType, TypeOK, Setting, Deleting, Waiting,
       Round, Places
<1> DEFINE l == IF iterations[t] = 0 THEN "user" ELSE "destructor"
<1>2. /\ pc' = [pc EXCEPT ![t] = l]
      /\ pc[t] = "deleteWait"
      /\ k = about[t]
      /\ Holds(t, keyLock[k])
      /\ key' = [key EXCEPT ![k] = "freed"]
      /\ keyLock' = [keyLock EXCEPT ![k] = Tail(@)]
      /\ about' = [about EXCEPT ![t] = None]
      /\ target' = [target EXCEPT ![t] = None]
      /\ UNCHANGED <<destructor, threadLock, threads, keys, nextAssoc, value, iterations,
                     remaining, values, ran, owed>>
  BY <1>1, TsdAssumption DEF DeleteEnds, Return, Goto, Calls, chains, locks, call, rounds,
       history
<1>3. Moves(t, l)
  BY <1>2 DEF Moves, TsdInv, TsdType, TypeOK, Setting, Deleting, Waiting, Round, Places
<1>4. KeysHeld(t)
  BY <1>2, KeyReleased
<1>5. ThreadsHeld(t)
  BY <1>2, LocksLeft
<1>6. TypeOK'
  BY <1>2, <1>3, <1>4, <1>5, TsdAssumption DEF Moves, KeysHeld, ThreadsHeld, TsdInv, TsdType,
       TypeOK, Passes, Setting, Deleting, Waiting, Round, Places
<1>7. TsdType'
  BY <1>2, <1>3, <1>4, <1>5, <1>6 DEF Moves, KeysHeld, ThreadsHeld, TsdInv, TsdType, Setting,
       Deleting, Waiting, Round, Places
<1>8. LeavesTo(t)
  <2>1. ASSUME NEW u \in Threads \ {t}, pc[u] \in Setting \cup Deleting \cup Waiting
        PROVE  about[u] \in Keys /\ about[u] # k
    BY <1>2, <2>1 DEF TsdInv, TsdType, Phase, OneDeleter, Setting, Deleting, Waiting
  <2> QED
    BY <1>2, <2>1 DEF LeavesTo, TsdInv, TsdType, TypeOK
<1>9. Owns(t)'
  BY <1>2, <1>3, <1>4, <1>5 DEF Moves, KeysHeld, ThreadsHeld, TsdInv, TsdType, TypeOK, Owns,
       Phase, Passes, Setting, Deleting, Waiting, Round, Places
<1>10. Phase(t)'
  BY <1>2, <1>3, <1>4, <1>5 DEF Moves, KeysHeld, ThreadsHeld, TsdInv, TsdType, TypeOK, Owns,
       Phase, Passes, Setting, Deleting, Waiting, Round, Places
<1>11. Passes(t)'
  BY <1>2, <1>3, <1>4, <1>5 DEF Moves, KeysHeld, ThreadsHeld, TsdInv, TsdType, TypeOK, Owns,
       Phase, Passes, Setting, Deleting, Waiting, Round, Places
<1>12. OneDeleter'
  BY <1>2, <1>3, DeleterAlone DEF Setting, Deleting, Waiting, Round, Places
<1>13. Chained'
  <2>1. \A u \in Threads : ~Contains(keys[u], k)
    <3>0. key[k] = "slotless"
      BY <1>2 DEF TsdInv, Phase, Waiting
    <3> QED
      BY <1>2, <3>0 DEF TsdInv, Chained
  <2>2. \A u \in Threads, j \in Keys : Contains(keys[u], j) => key'[j] \in {"live", "deleted"}
    BY <1>2, <2>1, SMTT(30) DEF TsdInv, TsdType, TypeOK, Chained
  <2> QED
    BY <1>2, <2>2, ChainsStay DEF TsdInv, Chained
<1>14. ASSUME NEW u \in Threads PROVE Owns(u)' /\ Phase(u)' /\ Passes(u)'
  BY <1>3, <1>4, <1>5, <1>8, <1>9, <1>10, <1>11, <1>14, OthersKeep DEF Moves
<1>15. ASSUME Accounted PROVE Accounted'
  <2>1. \A u \in Threads : /\ pc'[u] \in Setting => pc[u] \in Setting /\ target'[u] = target[u]
                           /\ iterations'[u] <= Rounds => iterations[u] <= Rounds
    BY <1>2, <1>3, TsdAssumption DEF Moves, Setting, TsdInv, TsdType, TypeOK
  <2>2. \A u \in Threads, j \in Keys :
          Contains(keys[u], j) /\ key[j] = "live" => Contains(keys'[u], j) /\ key'[j] = "live"
    <3>1. key[k] # "live"
      BY <1>2 DEF TsdInv, Phase, Deleting, Waiting
    <3> QED
      BY <1>2, <3>1 DEF TsdInv, TsdType, TypeOK
  <2>3. \A u \in Threads : pc'[u] = "setValue" =>
          (pc[u] = "setValue" /\ about'[u] = about[u]) \/ Contains(keys'[u], about'[u])
    BY <1>2, <1>3 DEF Moves, TsdInv, TsdType, TypeOK
  <2>4. UNCHANGED <<value, owed, ran, values>>
    BY <1>2
  <2> QED
    BY <1>15, <2>1, <2>2, <2>3, <2>4, AccountStays
<1> QED
  BY <1>7, <1>12, <1>13, <1>14, <1>15 DEF TsdInv

LEMMA BeginsRound ==
  ASSUME TsdInv, NEW t \in Threads, BeginRound(t)
  PROVE  TsdInv' /\ (Accounted => Accounted')
<1> DEFINE l == "round"
<1>1. /\ pc' = [pc EXCEPT ![t] = l]
      /\ pc[t] \in {"user", "again"}
      /\ iterations' = [iterations EXCEPT ![t] = @ + 1]
      /\ remaining' = [remaining EXCEPT ![t] = FALSE]
      /\ threadLock' = [threadLock EXCEPT ![t] = Append(@, t)]
      /\ UNCHANGED <<key, destructor, keyLock, threads, keys, nextAssoc, value, about, target,
                     values, ran, owed>>
  BY TsdAssumption DEF BeginRound, Goto, chains, locks, call, rounds, history
<1>2. Moves(t, l)
  BY <1>1 DEF Moves, TsdInv, TsdType, TypeOK, Setting, Deleting, Waiting, Round, Places
<1>3. KeysHeld(t)
  BY <1>1, LocksLeft
<1>4. ThreadsHeld(t)
  BY <1>1, ThreadQueued
<1>5. TypeOK'
  BY <1>1, <1>2, <1>3, <1>4, TsdAssumption, SMTT(30) DEF Moves, KeysHeld, ThreadsHeld, TsdInv, TsdType,
       TypeOK, Passes, Setting, Deleting, Waiting, Round, Places
<1>6. TsdType'
  BY <1>1, <1>2, <1>3, <1>4, <1>5 DEF Moves, KeysHeld, ThreadsHeld, TsdInv, TsdType, Setting,
       Deleting, Waiting, Round, Places
<1>7. LeavesTo(t)
  BY <1>1 DEF LeavesTo, TsdInv, TsdType, TypeOK
<1>8. Owns(t)'
  BY <1>1, <1>2, <1>3, <1>4 DEF Moves, KeysHeld, ThreadsHeld, TsdInv, TsdType, TypeOK, Owns,
       Phase, Passes, Setting, Deleting, Waiting, Round, Places
<1>9. Phase(t)'
  BY <1>1, <1>2, <1>3, <1>4 DEF Moves, KeysHeld, ThreadsHeld, TsdInv, TsdType, TypeOK, Owns,
       Phase, Passes, Setting, Deleting, Waiting, Round, Places
<1>10. Passes(t)'
  BY <1>1, <1>2, <1>3, <1>4 DEF Moves, KeysHeld, ThreadsHeld, TsdInv, TsdType, TypeOK, Owns,
       Phase, Passes, Setting, Deleting, Waiting, Round, Places
<1>11. OneDeleter'
  BY <1>1, <1>2, DeleterAlone DEF Setting, Deleting, Waiting, Round, Places
<1>12. Chained'
  BY <1>1, ChainsStay DEF TsdInv, Chained
<1>13. ASSUME NEW u \in Threads PROVE Owns(u)' /\ Phase(u)' /\ Passes(u)'
  BY <1>2, <1>3, <1>4, <1>7, <1>8, <1>9, <1>10, <1>13, OthersKeep DEF Moves
<1>14. ASSUME Accounted PROVE Accounted'
  <2>1. \A u \in Threads : /\ pc'[u] \in Setting => pc[u] \in Setting /\ target'[u] = target[u]
                           /\ iterations'[u] <= Rounds => iterations[u] <= Rounds
    BY <1>1, <1>2, TsdAssumption DEF Moves, Setting, TsdInv, TsdType, TypeOK
  <2>2. \A u \in Threads, j \in Keys :
          Contains(keys[u], j) /\ key[j] = "live" => Contains(keys'[u], j) /\ key'[j] = "live"
    BY <1>1 DEF TsdInv, TsdType, TypeOK
  <2>3. \A u \in Threads : pc'[u] = "setValue" =>
          (pc[u] = "setValue" /\ about'[u] = about[u]) \/ Contains(keys'[u], about'[u])
    BY <1>1, <1>2 DEF Moves, TsdInv, TsdType, TypeOK
  <2>4. UNCHANGED <<value, owed, ran, values>>
    BY <1>1
  <2> QED
    BY <1>14, <2>1, <2>2, <2>3, <2>4, AccountStays
<1> QED
  BY <1>6, <1>11, <1>12, <1>13, <1>14 DEF TsdInv

LEMMA TakesFirst ==
  ASSUME TsdInv, NEW t \in Threads, First(t)
  PROVE  TsdInv' /\ (Accounted => Accounted')
<1> DEFINE l == "loop"
<1>1. /\ pc' = [pc EXCEPT ![t] = l]
      /\ pc[t] = "round"
      /\ Holds(t, threadLock[t])
      /\ nextAssoc' = [nextAssoc EXCEPT ![t] = FirstOf(keys[t])]
      /\ threadLock' = [threadLock EXCEPT ![t] = Tail(@)]
      /\ UNCHANGED <<key, destructor, keyLock, threads, keys, value, iterations, remaining,
                     about, target, values, ran, owed>>
  BY TsdAssumption DEF First, FirstOf, Goto, chains, locks, call, rounds, history
<1>2. Moves(t, l)
  BY <1>1 DEF Moves, TsdInv, TsdType, TypeOK, Setting, Deleting, Waiting, Round, Places
<1>3. KeysHeld(t)
  BY <1>1, LocksLeft
<1>4. ThreadsHeld(t)
  BY <1>1, ThreadReleased
<1>5. FirstOf(keys[t]) \in Keys \cup {None} /\ (FirstOf(keys[t]) # None => Contains(keys[t],
        FirstOf(keys[t])))
  BY FirstIn
<1>6. TypeOK'
  BY <1>1, <1>2, <1>3, <1>4, <1>5, TsdAssumption DEF Moves, KeysHeld, ThreadsHeld, TsdInv,
       TsdType, TypeOK, Passes, Setting, Deleting, Waiting, Round, Places
<1>7. TsdType'
  BY <1>1, <1>2, <1>3, <1>4, <1>5, <1>6 DEF Moves, KeysHeld, ThreadsHeld, TsdInv, TsdType,
       Setting, Deleting, Waiting, Round, Places
<1>8. LeavesTo(t)
  BY <1>1 DEF LeavesTo, TsdInv, TsdType, TypeOK
<1>9. Owns(t)'
  BY <1>1, <1>2, <1>3, <1>4, <1>5 DEF Moves, KeysHeld, ThreadsHeld, TsdInv, TsdType, TypeOK,
       Owns, Phase, Passes, Setting, Deleting, Waiting, Round, Places
<1>10. Phase(t)'
  BY <1>1, <1>2, <1>3, <1>4, <1>5 DEF Moves, KeysHeld, ThreadsHeld, TsdInv, TsdType, TypeOK,
       Owns, Phase, Passes, Setting, Deleting, Waiting, Round, Places
<1>11. Passes(t)'
  BY <1>1, <1>2, <1>3, <1>4, <1>5 DEF Moves, KeysHeld, ThreadsHeld, TsdInv, TsdType, TypeOK,
       Owns, Phase, Passes, Setting, Deleting, Waiting, Round, Places
<1>12. OneDeleter'
  BY <1>1, <1>2, DeleterAlone DEF Setting, Deleting, Waiting, Round, Places
<1>13. Chained'
  BY <1>1, <1>2, <1>3, <1>4, <1>5, ChainsStay DEF TsdInv, TsdType, TypeOK, Chained
<1>14. ASSUME NEW u \in Threads PROVE Owns(u)' /\ Phase(u)' /\ Passes(u)'
  BY <1>2, <1>3, <1>4, <1>8, <1>9, <1>10, <1>11, <1>14, OthersKeep DEF Moves
<1>15. ASSUME Accounted PROVE Accounted'
  <2>1. \A u \in Threads : /\ pc'[u] \in Setting => pc[u] \in Setting /\ target'[u] = target[u]
                           /\ iterations'[u] <= Rounds => iterations[u] <= Rounds
    BY <1>1, <1>2, TsdAssumption DEF Moves, Setting, TsdInv, TsdType, TypeOK
  <2>2. \A u \in Threads, j \in Keys :
          Contains(keys[u], j) /\ key[j] = "live" => Contains(keys'[u], j) /\ key'[j] = "live"
    BY <1>1 DEF TsdInv, TsdType, TypeOK
  <2>3. \A u \in Threads : pc'[u] = "setValue" =>
          (pc[u] = "setValue" /\ about'[u] = about[u]) \/ Contains(keys'[u], about'[u])
    BY <1>1, <1>2 DEF Moves, TsdInv, TsdType, TypeOK
  <2>4. UNCHANGED <<value, owed, ran, values>>
    BY <1>1
  <2> QED
    BY <1>15, <2>1, <2>2, <2>3, <2>4, AccountStays
<1> QED
  BY <1>7, <1>12, <1>13, <1>14, <1>15 DEF TsdInv

LEMMA Loops ==
  ASSUME TsdInv, NEW t \in Threads, Loop(t)
  PROVE  TsdInv' /\ (Accounted => Accounted')
<1> DEFINE l == "next"
<1>1. /\ pc' = [pc EXCEPT ![t] = l]
      /\ pc[t] = "loop"
      /\ threadLock' = [threadLock EXCEPT ![t] = Append(@, t)]
      /\ UNCHANGED <<key, destructor, keyLock, threads, keys, nextAssoc, value, iterations,
                     remaining, about, target, values, ran, owed>>
  BY TsdAssumption DEF Loop, Goto, chains, locks, call, rounds, history
<1>2. Moves(t, l)
  BY <1>1 DEF Moves, TsdInv, TsdType, TypeOK, Setting, Deleting, Waiting, Round, Places
<1>3. KeysHeld(t)
  BY <1>1, LocksLeft
<1>4. ThreadsHeld(t)
  BY <1>1, ThreadQueued
<1>5. TypeOK'
  BY <1>1, <1>2, <1>3, <1>4, TsdAssumption DEF Moves, KeysHeld, ThreadsHeld, TsdInv, TsdType,
       TypeOK, Passes, Setting, Deleting, Waiting, Round, Places
<1>6. TsdType'
  BY <1>1, <1>2, <1>3, <1>4, <1>5 DEF Moves, KeysHeld, ThreadsHeld, TsdInv, TsdType, Setting,
       Deleting, Waiting, Round, Places
<1>7. LeavesTo(t)
  BY <1>1 DEF LeavesTo, TsdInv, TsdType, TypeOK
<1>8. Owns(t)'
  BY <1>1, <1>2, <1>3, <1>4 DEF Moves, KeysHeld, ThreadsHeld, TsdInv, TsdType, TypeOK, Owns,
       Phase, Passes, Setting, Deleting, Waiting, Round, Places
<1>9. Phase(t)'
  BY <1>1, <1>2, <1>3, <1>4 DEF Moves, KeysHeld, ThreadsHeld, TsdInv, TsdType, TypeOK, Owns,
       Phase, Passes, Setting, Deleting, Waiting, Round, Places
<1>10. Passes(t)'
  BY <1>1, <1>2, <1>3, <1>4 DEF Moves, KeysHeld, ThreadsHeld, TsdInv, TsdType, TypeOK, Owns,
       Phase, Passes, Setting, Deleting, Waiting, Round, Places
<1>11. OneDeleter'
  BY <1>1, <1>2, DeleterAlone DEF Setting, Deleting, Waiting, Round, Places
<1>12. Chained'
  BY <1>1, ChainsStay DEF TsdInv, Chained
<1>13. ASSUME NEW u \in Threads PROVE Owns(u)' /\ Phase(u)' /\ Passes(u)'
  BY <1>2, <1>3, <1>4, <1>7, <1>8, <1>9, <1>10, <1>13, OthersKeep DEF Moves
<1>14. ASSUME Accounted PROVE Accounted'
  <2>1. \A u \in Threads : /\ pc'[u] \in Setting => pc[u] \in Setting /\ target'[u] = target[u]
                           /\ iterations'[u] <= Rounds => iterations[u] <= Rounds
    BY <1>1, <1>2, TsdAssumption DEF Moves, Setting, TsdInv, TsdType, TypeOK
  <2>2. \A u \in Threads, j \in Keys :
          Contains(keys[u], j) /\ key[j] = "live" => Contains(keys'[u], j) /\ key'[j] = "live"
    BY <1>1 DEF TsdInv, TsdType, TypeOK
  <2>3. \A u \in Threads : pc'[u] = "setValue" =>
          (pc[u] = "setValue" /\ about'[u] = about[u]) \/ Contains(keys'[u], about'[u])
    BY <1>1, <1>2 DEF Moves, TsdInv, TsdType, TypeOK
  <2>4. UNCHANGED <<value, owed, ran, values>>
    BY <1>1
  <2> QED
    BY <1>14, <2>1, <2>2, <2>3, <2>4, AccountStays
<1> QED
  BY <1>6, <1>11, <1>12, <1>13, <1>14 DEF TsdInv

LEMMA GetsKey ==
  ASSUME TsdInv, NEW t \in Threads, NextAssoc(t), nextAssoc[t] # None,
          keyLock[nextAssoc[t]] = <<>>
  PROVE  TsdInv' /\ (Accounted => Accounted')
<1>1. PICK k \in Keys : k = nextAssoc[t]
  BY DEF NextAssoc, TryKey, Goto, TsdInv, TsdType, TypeOK, Setting, Deleting, Waiting, Round,
       Places
<1> DEFINE l == "both"
<1>2. /\ pc' = [pc EXCEPT ![t] = l]
      /\ pc[t] = "next"
      /\ Holds(t, threadLock[t])
      /\ k = nextAssoc[t]
      /\ keyLock[k] = <<>>
      /\ about' = [about EXCEPT ![t] = k]
      /\ keyLock' = [keyLock EXCEPT ![k] = Append(@, t)]
      /\ UNCHANGED <<key, destructor, threadLock, threads, keys, nextAssoc, value, iterations,
                     remaining, target, values, ran, owed>>
  <2>1. TryKey(t, k) /\ keyLock[k] = <<>>
    BY <1>1 DEF NextAssoc
  <2>2. keyLock' = [keyLock EXCEPT ![k] = <<t>>] /\ <<t>> = Append(keyLock[k], t)
    BY <2>1 DEF TryKey
  <2> QED
    BY <1>1, <2>1, <2>2 DEF NextAssoc, TryKey, Goto, chains, locks, call, rounds, history
<1>3. Moves(t, l)
  BY <1>2 DEF Moves, TsdInv, TsdType, TypeOK, Setting, Deleting, Waiting, Round, Places
<1>4. KeysHeld(t)
  BY <1>2, KeyQueued
<1>5. ThreadsHeld(t)
  BY <1>2, LocksLeft
<1>6. /\ \A j \in Keys : Holds(t, keyLock[j]) => Holds(t, keyLock'[j])
      /\ keyLock[k] = <<>> => Holds(t, keyLock'[k])
  BY <1>2, KeyQueued
<1>7. TypeOK'
  BY <1>2, <1>3, <1>4, <1>5, <1>6, TsdAssumption DEF Moves, KeysHeld, ThreadsHeld, TsdInv,
       TsdType, TypeOK, Passes, Setting, Deleting, Waiting, Round, Places
<1>8. TsdType'
  BY <1>2, <1>3, <1>4, <1>5, <1>6, <1>7 DEF Moves, KeysHeld, ThreadsHeld, TsdInv, TsdType,
       Setting, Deleting, Waiting, Round, Places
<1>9. LeavesTo(t)
  BY <1>2 DEF LeavesTo, TsdInv, TsdType, TypeOK
<1>10. Owns(t)'
  BY <1>2, <1>3, <1>4, <1>5, <1>6 DEF Moves, KeysHeld, ThreadsHeld, TsdInv, TsdType, TypeOK,
       Owns, Phase, Passes, Setting, Deleting, Waiting, Round, Places
<1>11. Phase(t)'
  BY <1>2, <1>3, <1>4, <1>5, <1>6 DEF Moves, KeysHeld, ThreadsHeld, TsdInv, TsdType, TypeOK,
       Owns, Phase, Passes, Setting, Deleting, Waiting, Round, Places
<1>12. Passes(t)'
  BY <1>2, <1>3, <1>4, <1>5, <1>6 DEF Moves, KeysHeld, ThreadsHeld, TsdInv, TsdType, TypeOK,
       Owns, Phase, Passes, Setting, Deleting, Waiting, Round, Places
<1>13. OneDeleter'
  BY <1>2, <1>3, DeleterAlone DEF Setting, Deleting, Waiting, Round, Places
<1>14. Chained'
  BY <1>2, ChainsStay DEF TsdInv, Chained
<1>15. ASSUME NEW u \in Threads PROVE Owns(u)' /\ Phase(u)' /\ Passes(u)'
  BY <1>3, <1>4, <1>5, <1>9, <1>10, <1>11, <1>12, <1>15, OthersKeep DEF Moves
<1>16. ASSUME Accounted PROVE Accounted'
  <2>1. \A u \in Threads : /\ pc'[u] \in Setting => pc[u] \in Setting /\ target'[u] = target[u]
                           /\ iterations'[u] <= Rounds => iterations[u] <= Rounds
    BY <1>2, <1>3, TsdAssumption DEF Moves, Setting, TsdInv, TsdType, TypeOK
  <2>2. \A u \in Threads, j \in Keys :
          Contains(keys[u], j) /\ key[j] = "live" => Contains(keys'[u], j) /\ key'[j] = "live"
    BY <1>2 DEF TsdInv, TsdType, TypeOK
  <2>3. \A u \in Threads : pc'[u] = "setValue" =>
          (pc[u] = "setValue" /\ about'[u] = about[u]) \/ Contains(keys'[u], about'[u])
    BY <1>2, <1>3 DEF Moves, TsdInv, TsdType, TypeOK
  <2>4. UNCHANGED <<value, owed, ran, values>>
    BY <1>2
  <2> QED
    BY <1>16, <2>1, <2>2, <2>3, <2>4, AccountStays
<1> QED
  BY <1>8, <1>13, <1>14, <1>15, <1>16 DEF TsdInv

LEMMA FindsBusy ==
  ASSUME TsdInv, NEW t \in Threads, NextAssoc(t), nextAssoc[t] # None,
          keyLock[nextAssoc[t]] # <<>>
  PROVE  TsdInv' /\ (Accounted => Accounted')
<1> DEFINE l == "loop"
<1>1. /\ pc' = [pc EXCEPT ![t] = l]
      /\ pc[t] = "next"
      /\ Holds(t, threadLock[t])
      /\ threadLock' = [threadLock EXCEPT ![t] = Tail(@)]
      /\ UNCHANGED <<key, destructor, keyLock, threads, keys, nextAssoc, value, iterations,
                     remaining, about, target, values, ran, owed>>
  BY TsdAssumption DEF NextAssoc, TryKey, Goto, chains, locks, call, rounds, history
<1>2. Moves(t, l)
  BY <1>1 DEF Moves, TsdInv, TsdType, TypeOK, Setting, Deleting, Waiting, Round, Places
<1>3. KeysHeld(t)
  BY <1>1, LocksLeft
<1>4. ThreadsHeld(t)
  BY <1>1, ThreadReleased
<1>5. TypeOK'
  BY <1>1, <1>2, <1>3, <1>4, TsdAssumption DEF Moves, KeysHeld, ThreadsHeld, TsdInv, TsdType,
       TypeOK, Passes, Setting, Deleting, Waiting, Round, Places
<1>6. TsdType'
  BY <1>1, <1>2, <1>3, <1>4, <1>5 DEF Moves, KeysHeld, ThreadsHeld, TsdInv, TsdType, Setting,
       Deleting, Waiting, Round, Places
<1>7. LeavesTo(t)
  BY <1>1 DEF LeavesTo, TsdInv, TsdType, TypeOK
<1>8. Owns(t)'
  BY <1>1, <1>2, <1>3, <1>4 DEF Moves, KeysHeld, ThreadsHeld, TsdInv, TsdType, TypeOK, Owns,
       Phase, Passes, Setting, Deleting, Waiting, Round, Places
<1>9. Phase(t)'
  BY <1>1, <1>2, <1>3, <1>4 DEF Moves, KeysHeld, ThreadsHeld, TsdInv, TsdType, TypeOK, Owns,
       Phase, Passes, Setting, Deleting, Waiting, Round, Places
<1>10. Passes(t)'
  BY <1>1, <1>2, <1>3, <1>4 DEF Moves, KeysHeld, ThreadsHeld, TsdInv, TsdType, TypeOK, Owns,
       Phase, Passes, Setting, Deleting, Waiting, Round, Places
<1>11. OneDeleter'
  BY <1>1, <1>2, DeleterAlone DEF Setting, Deleting, Waiting, Round, Places
<1>12. Chained'
  BY <1>1, ChainsStay DEF TsdInv, Chained
<1>13. ASSUME NEW u \in Threads PROVE Owns(u)' /\ Phase(u)' /\ Passes(u)'
  BY <1>2, <1>3, <1>4, <1>7, <1>8, <1>9, <1>10, <1>13, OthersKeep DEF Moves
<1>14. ASSUME Accounted PROVE Accounted'
  <2>1. \A u \in Threads : /\ pc'[u] \in Setting => pc[u] \in Setting /\ target'[u] = target[u]
                           /\ iterations'[u] <= Rounds => iterations[u] <= Rounds
    BY <1>1, <1>2, TsdAssumption DEF Moves, Setting, TsdInv, TsdType, TypeOK
  <2>2. \A u \in Threads, j \in Keys :
          Contains(keys[u], j) /\ key[j] = "live" => Contains(keys'[u], j) /\ key'[j] = "live"
    BY <1>1 DEF TsdInv, TsdType, TypeOK
  <2>3. \A u \in Threads : pc'[u] = "setValue" =>
          (pc[u] = "setValue" /\ about'[u] = about[u]) \/ Contains(keys'[u], about'[u])
    BY <1>1, <1>2 DEF Moves, TsdInv, TsdType, TypeOK
  <2>4. UNCHANGED <<value, owed, ran, values>>
    BY <1>1
  <2> QED
    BY <1>14, <2>1, <2>2, <2>3, <2>4, AccountStays
<1> QED
  BY <1>6, <1>11, <1>12, <1>13, <1>14 DEF TsdInv

LEMMA RoundEnds ==
  ASSUME TsdInv, NEW t \in Threads, NextAssoc(t), nextAssoc[t] = None
  PROVE  TsdInv' /\ (Accounted => Accounted')
<1> DEFINE l == IF remaining[t] THEN "again" ELSE "ended"
<1>1. /\ pc' = [pc EXCEPT ![t] = l]
      /\ pc[t] = "next"
      /\ Holds(t, threadLock[t])
      /\ nextAssoc[t] = None
      /\ threadLock' = [threadLock EXCEPT ![t] = Tail(@)]
      /\ UNCHANGED <<key, destructor, keyLock, threads, keys, nextAssoc, value, iterations,
                     remaining, about, target, values, ran, owed>>
  BY TsdAssumption DEF NextAssoc, Goto, chains, locks, call, rounds, history
<1>2. Moves(t, l)
  BY <1>1 DEF Moves, TsdInv, TsdType, TypeOK, Setting, Deleting, Waiting, Round, Places
<1>3. KeysHeld(t)
  BY <1>1, LocksLeft
<1>4. ThreadsHeld(t)
  BY <1>1, ThreadReleased
<1>5. FirstOf(keys[t]) = None => keys[t] = <<>>
  BY FirstIn
<1>6. TypeOK'
  BY <1>1, <1>2, <1>3, <1>4, <1>5, TsdAssumption DEF Moves, KeysHeld, ThreadsHeld, TsdInv,
       TsdType, TypeOK, Passes, Setting, Deleting, Waiting, Round, Places
<1>7. TsdType'
  BY <1>1, <1>2, <1>3, <1>4, <1>5, <1>6 DEF Moves, KeysHeld, ThreadsHeld, TsdInv, TsdType,
       Setting, Deleting, Waiting, Round, Places
<1>8. LeavesTo(t)
  BY <1>1 DEF LeavesTo, TsdInv, TsdType, TypeOK
<1>9. Owns(t)'
  BY <1>1, <1>2, <1>3, <1>4, <1>5 DEF Moves, KeysHeld, ThreadsHeld, TsdInv, TsdType, TypeOK,
       Owns, Phase, Passes, Setting, Deleting, Waiting, Round, Places
<1>10. Phase(t)'
  BY <1>1, <1>2, <1>3, <1>4, <1>5 DEF Moves, KeysHeld, ThreadsHeld, TsdInv, TsdType, TypeOK,
       Owns, Phase, Passes, Setting, Deleting, Waiting, Round, Places
<1>11. Passes(t)'
  BY <1>1, <1>2, <1>3, <1>4, <1>5 DEF Moves, KeysHeld, ThreadsHeld, TsdInv, TsdType, TypeOK,
       Owns, Phase, Passes, Setting, Deleting, Waiting, Round, Places
<1>12. OneDeleter'
  BY <1>1, <1>2, DeleterAlone DEF Setting, Deleting, Waiting, Round, Places
<1>13. Chained'
  BY <1>1, ChainsStay DEF TsdInv, Chained
<1>14. ASSUME NEW u \in Threads PROVE Owns(u)' /\ Phase(u)' /\ Passes(u)'
  BY <1>2, <1>3, <1>4, <1>8, <1>9, <1>10, <1>11, <1>14, OthersKeep DEF Moves
<1>15. ASSUME Accounted PROVE Accounted'
  <2>1. \A u \in Threads : /\ pc'[u] \in Setting => pc[u] \in Setting /\ target'[u] = target[u]
                           /\ iterations'[u] <= Rounds => iterations[u] <= Rounds
    BY <1>1, <1>2, TsdAssumption DEF Moves, Setting, TsdInv, TsdType, TypeOK
  <2>2. \A u \in Threads, j \in Keys :
          Contains(keys[u], j) /\ key[j] = "live" => Contains(keys'[u], j) /\ key'[j] = "live"
    BY <1>1 DEF TsdInv, TsdType, TypeOK
  <2>3. \A u \in Threads : pc'[u] = "setValue" =>
          (pc[u] = "setValue" /\ about'[u] = about[u]) \/ Contains(keys'[u], about'[u])
    BY <1>1, <1>2 DEF Moves, TsdInv, TsdType, TypeOK
  <2>4. UNCHANGED <<value, owed, ran, values>>
    BY <1>1
  <2> QED
    BY <1>15, <2>1, <2>2, <2>3, <2>4, AccountStays
<1> QED
  BY <1>7, <1>12, <1>13, <1>14, <1>15 DEF TsdInv

LEMMA RunsDestructor ==
  ASSUME TsdInv, NEW t \in Threads, BothLocks(t),
          value[t][about[t]] # 0 /\ iterations[t] <= Rounds
  PROVE  TsdInv'
<1>1. PICK k \in Keys : k = about[t]
  BY DEF BothLocks, TakeValue, Goto, Calls, TsdInv, TsdType, TypeOK, Setting, Deleting,
       Waiting, Round, Places
<1> DEFINE l == "destructor"
<1>2. /\ pc' = [pc EXCEPT ![t] = l]
      /\ pc[t] = "both"
      /\ k = about[t]
      /\ Holds(t, keyLock[k])
      /\ Holds(t, threadLock[t])
      /\ value' \in [Threads -> [Keys -> Value]]
      /\ threadLock' = [threadLock EXCEPT ![t] = Tail(@)]
      /\ keyLock' = [keyLock EXCEPT ![k] = Tail(@)]
      /\ about' = [about EXCEPT ![t] = None]
      /\ target' = [target EXCEPT ![t] = None]
      /\ iterations[t] <= Rounds
      /\ Contains(keys[t], k)
      /\ ran' \in [Value -> Nat]
      /\ owed' \in [Threads -> SUBSET Value]
      /\ nextAssoc' = [nextAssoc EXCEPT ![t] = Behind(t, k)]
      /\ remaining' = [remaining EXCEPT ![t] = TRUE]
      /\ UNCHANGED <<key, destructor, threads, keys, iterations, values>>
  <2>1. pc[t] = "both" /\ Holds(t, keyLock[k]) /\ Holds(t, threadLock[t])
    BY <1>1 DEF BothLocks, TsdInv, Owns
  <2>2. Contains(keys[t], k)
    <3>1. nextAssoc[t] = k /\ k # None
      BY <1>1, <2>1, TsdAssumption DEF TsdInv, Passes
    <3> QED
      BY <3>1 DEF TsdInv, Chained
  <2>3. value' \in [Threads -> [Keys -> Value]]
    BY <1>1, TsdAssumption, SMTT(30) DEF BothLocks, TakeValue, Value, TsdInv, TsdType, TypeOK
  <2>4. ran' \in [Value -> Nat] /\ owed' \in [Threads -> SUBSET Value]
    <3>1. value[t][k] \in Value
      BY DEF TsdInv, TsdType, TypeOK
    <3>2. /\ ran' = [ran EXCEPT ![value[t][k]] = @ + 1]
          /\ owed' = [owed EXCEPT ![t] = @ \ {value[t][k]}]
      BY <1>1 DEF BothLocks
    <3> QED
      BY <3>1, <3>2 DEF TsdInv, TsdType, TypeOK
  <2> QED
    BY <1>1, <2>1, <2>2, <2>3, <2>4
       DEF BothLocks, Goto, Calls, chains, locks, call, rounds, history
<1>3. Moves(t, l)
  BY <1>2 DEF Moves, TsdInv, TsdType, TypeOK, Setting, Deleting, Waiting, Round, Places
<1>4. KeysHeld(t)
  BY <1>2, KeyReleased
<1>5. ThreadsHeld(t)
  BY <1>2, ThreadReleased
<1>6. Behind(t, k) \in Keys \cup {None} /\ (Behind(t, k) # None => Contains(keys[t], Behind(t,
        k)))
  BY <1>2, NextKept
<1>7. TypeOK'
  BY <1>2, <1>3, <1>4, <1>5, <1>6, TsdAssumption DEF Moves, KeysHeld, ThreadsHeld, TsdInv,
       TsdType, TypeOK, Passes, Setting, Deleting, Waiting, Round, Places
<1>8. TsdType'
  BY <1>2, <1>3, <1>4, <1>5, <1>6, <1>7 DEF Moves, KeysHeld, ThreadsHeld, TsdInv, TsdType,
       Setting, Deleting, Waiting, Round, Places
<1>9. LeavesTo(t)
  BY <1>2 DEF LeavesTo, TsdInv, TsdType, TypeOK
<1>10. Owns(t)'
  BY <1>2, <1>3, <1>4, <1>5, <1>6 DEF Moves, KeysHeld, ThreadsHeld, TsdInv, TsdType, TypeOK,
       Owns, Phase, Passes, Setting, Deleting, Waiting, Round, Places
<1>11. Phase(t)'
  BY <1>2, <1>3, <1>4, <1>5, <1>6 DEF Moves, KeysHeld, ThreadsHeld, TsdInv, TsdType, TypeOK,
       Owns, Phase, Passes, Setting, Deleting, Waiting, Round, Places
<1>12. Passes(t)'
  BY <1>2, <1>3, <1>4, <1>5, <1>6 DEF Moves, KeysHeld, ThreadsHeld, TsdInv, TsdType, TypeOK,
       Owns, Phase, Passes, Setting, Deleting, Waiting, Round, Places
<1>13. OneDeleter'
  BY <1>2, <1>3, DeleterAlone DEF Setting, Deleting, Waiting, Round, Places
<1>14. Chained'
  BY <1>2, <1>3, <1>4, <1>5, <1>6, ChainsStay DEF TsdInv, TsdType, TypeOK, Chained
<1>15. ASSUME NEW u \in Threads PROVE Owns(u)' /\ Phase(u)' /\ Passes(u)'
  BY <1>3, <1>4, <1>5, <1>9, <1>10, <1>11, <1>12, <1>15, OthersKeep DEF Moves
<1> QED
  BY <1>8, <1>13, <1>14, <1>15 DEF TsdInv

LEMMA DestroysAssoc ==
  ASSUME TsdInv, NEW t \in Threads, BothLocks(t),
          ~(value[t][about[t]] # 0 /\ iterations[t] <= Rounds)
  PROVE  TsdInv'
<1>1. PICK k \in Keys : k = about[t]
  BY DEF BothLocks, TakeValue, Goto, Calls, TsdInv, TsdType, TypeOK, Setting, Deleting,
       Waiting, Round, Places
<1> DEFINE l == "loop"
<1>2. /\ pc' = [pc EXCEPT ![t] = l]
      /\ pc[t] = "both"
      /\ k = about[t]
      /\ Holds(t, keyLock[k])
      /\ Holds(t, threadLock[t])
      /\ value' \in [Threads -> [Keys -> Value]]
      /\ threadLock' = [threadLock EXCEPT ![t] = Tail(@)]
      /\ keyLock' = [keyLock EXCEPT ![k] = Tail(@)]
      /\ about' = [about EXCEPT ![t] = None]
      /\ target' = [target EXCEPT ![t] = None]
      /\ Contains(keys[t], k)
      /\ TkAssocDestroy(t, k)
      /\ UNCHANGED <<key, destructor, iterations, remaining, values, ran, owed>>
  <2>1. pc[t] = "both" /\ Holds(t, keyLock[k]) /\ Holds(t, threadLock[t])
    BY <1>1 DEF BothLocks, TsdInv, Owns
  <2>2. Contains(keys[t], k)
    <3>1. nextAssoc[t] = k /\ k # None
      BY <1>1, <2>1, TsdAssumption DEF TsdInv, Passes
    <3> QED
      BY <3>1 DEF TsdInv, Chained
  <2>3. value' \in [Threads -> [Keys -> Value]]
    BY <1>1, TsdAssumption DEF BothLocks, TakeValue, Value, TsdInv, TsdType, TypeOK
  <2> QED
    BY <1>1, <2>1, <2>2, <2>3 DEF BothLocks, Goto, Calls, chains, locks, call, rounds, history
<1>3. Moves(t, l)
  BY <1>2 DEF Moves, TsdInv, TsdType, TypeOK, Setting, Deleting, Waiting, Round, Places
<1>4. KeysHeld(t)
  BY <1>2, KeyReleased
<1>5. ThreadsHeld(t)
  BY <1>2, ThreadReleased
<1>6. Gone(t, k)
  BY <1>2, Destroyed
<1>7. TypeOK'
  BY <1>2, <1>3, <1>4, <1>5, <1>6, TsdAssumption DEF Moves, KeysHeld, ThreadsHeld, Gone,
       TsdInv, TsdType, TypeOK, Passes, Setting, Deleting, Waiting, Round, Places
<1>8. TsdType'
  BY <1>2, <1>3, <1>4, <1>5, <1>6, <1>7 DEF Moves, KeysHeld, ThreadsHeld, Gone, TsdInv,
       TsdType, Setting, Deleting, Waiting, Round, Places
<1>9. LeavesTo(t)
  <2>1. ASSUME NEW u \in Threads \ {t}, pc[u] \in Deleting, about[u] = k
        PROVE  pc[u] = "deleteKey" /\ Len(threads'[k]) <= 1
    <3>0. Contains(threads[k], t)
      BY <1>2 DEF TsdInv, Chained
    <3>1. threads[k] # <<>> /\ keyLock[k] \in Seq(Threads)
      BY <3>0 DEF TsdInv, TsdType, TypeOK, Contains
    <3>2. ~Holds(u, keyLock[k])
      BY <1>2, <3>1, Queues
    <3>3. Len(threads[k]) <= 1 /\ Len(threads[k]) \in Nat /\ Len(threads'[k]) \in Nat
      BY <2>1, <1>6, LenProperties DEF TsdInv, TsdType, TypeOK, Phase, Gone
    <3> QED
      BY <2>1, <3>1, <3>2, <3>3, <1>6 DEF TsdInv, Owns, Phase, Deleting, Gone
  <2>2. \A u \in Threads \ {t} : pc[u] \in Deleting => about[u] \in Keys
    BY DEF TsdInv, TsdType
  <2> QED
    BY <1>2, <1>6, <2>1, <2>2 DEF LeavesTo, Gone
<1>10. Owns(t)'
  BY <1>2, <1>3, <1>4, <1>5, <1>6 DEF Moves, KeysHeld, ThreadsHeld, Gone, TsdInv, TsdType,
       TypeOK, Owns, Phase, Passes, Setting, Deleting, Waiting, Round, Places
<1>11. Phase(t)'
  BY <1>2, <1>3, <1>4, <1>5, <1>6 DEF Moves, KeysHeld, ThreadsHeld, Gone, TsdInv, TsdType,
       TypeOK, Owns, Phase, Passes, Setting, Deleting, Waiting, Round, Places
<1>12. Passes(t)'
  BY <1>2, <1>3, <1>4, <1>5, <1>6 DEF Moves, KeysHeld, ThreadsHeld, Gone, TsdInv, TsdType,
       TypeOK, Owns, Phase, Passes, Setting, Deleting, Waiting, Round, Places
<1>13. OneDeleter'
  BY <1>2, <1>3, DeleterAlone DEF Setting, Deleting, Waiting, Round, Places
<1>14. Chained'
  BY <1>2, <1>3, <1>4, <1>5, <1>6 DEF Moves, KeysHeld, ThreadsHeld, Gone, TsdInv, TsdType,
       TypeOK, Phase, Chained, Setting, Deleting, Waiting, Round, Places
<1>15. ASSUME NEW u \in Threads PROVE Owns(u)' /\ Phase(u)' /\ Passes(u)'
  BY <1>3, <1>4, <1>5, <1>9, <1>10, <1>11, <1>12, <1>15, OthersKeep DEF Moves
<1> QED
  BY <1>8, <1>13, <1>14, <1>15 DEF TsdInv

LEMMA DestructorEnds ==
  ASSUME TsdInv, NEW t \in Threads, DestructorReturns(t)
  PROVE  TsdInv' /\ (Accounted => Accounted')
<1> DEFINE l == "loop"
<1>1. /\ pc' = [pc EXCEPT ![t] = l]
      /\ pc[t] = "destructor"
      /\ UNCHANGED <<key, destructor, keyLock, threadLock, threads, keys, nextAssoc, value,
                     iterations, remaining, about, target, values, ran, owed>>
  BY TsdAssumption DEF DestructorReturns, Goto, chains, locks, call, rounds, history
<1>2. Moves(t, l)
  BY <1>1 DEF Moves, TsdInv, TsdType, TypeOK, Setting, Deleting, Waiting, Round, Places
<1>3. KeysHeld(t)
  BY <1>1, LocksLeft
<1>4. ThreadsHeld(t)
  BY <1>1, LocksLeft
<1>5. TypeOK'
  BY <1>1, <1>2, <1>3, <1>4, TsdAssumption DEF Moves, KeysHeld, ThreadsHeld, TsdInv, TsdType,
       TypeOK, Passes, Setting, Deleting, Waiting, Round, Places
<1>6. TsdType'
  BY <1>1, <1>2, <1>3, <1>4, <1>5 DEF Moves, KeysHeld, ThreadsHeld, TsdInv, TsdType, Setting,
       Deleting, Waiting, Round, Places
<1>7. LeavesTo(t)
  BY <1>1 DEF LeavesTo, TsdInv, TsdType, TypeOK
<1>8. Owns(t)'
  BY <1>1, <1>2, <1>3, <1>4 DEF Moves, KeysHeld, ThreadsHeld, TsdInv, TsdType, TypeOK, Owns,
       Phase, Passes, Setting, Deleting, Waiting, Round, Places
<1>9. Phase(t)'
  BY <1>1, <1>2, <1>3, <1>4 DEF Moves, KeysHeld, ThreadsHeld, TsdInv, TsdType, TypeOK, Owns,
       Phase, Passes, Setting, Deleting, Waiting, Round, Places
<1>10. Passes(t)'
  BY <1>1, <1>2, <1>3, <1>4 DEF Moves, KeysHeld, ThreadsHeld, TsdInv, TsdType, TypeOK, Owns,
       Phase, Passes, Setting, Deleting, Waiting, Round, Places
<1>11. OneDeleter'
  BY <1>1, <1>2, DeleterAlone DEF Setting, Deleting, Waiting, Round, Places
<1>12. Chained'
  BY <1>1, ChainsStay DEF TsdInv, Chained
<1>13. ASSUME NEW u \in Threads PROVE Owns(u)' /\ Phase(u)' /\ Passes(u)'
  BY <1>2, <1>3, <1>4, <1>7, <1>8, <1>9, <1>10, <1>13, OthersKeep DEF Moves
<1>14. ASSUME Accounted PROVE Accounted'
  <2>1. \A u \in Threads : /\ pc'[u] \in Setting => pc[u] \in Setting /\ target'[u] = target[u]
                           /\ iterations'[u] <= Rounds => iterations[u] <= Rounds
    BY <1>1, <1>2, TsdAssumption DEF Moves, Setting, TsdInv, TsdType, TypeOK
  <2>2. \A u \in Threads, j \in Keys :
          Contains(keys[u], j) /\ key[j] = "live" => Contains(keys'[u], j) /\ key'[j] = "live"
    BY <1>1 DEF TsdInv, TsdType, TypeOK
  <2>3. \A u \in Threads : pc'[u] = "setValue" =>
          (pc[u] = "setValue" /\ about'[u] = about[u]) \/ Contains(keys'[u], about'[u])
    BY <1>1, <1>2 DEF Moves, TsdInv, TsdType, TypeOK
  <2>4. UNCHANGED <<value, owed, ran, values>>
    BY <1>1
  <2> QED
    BY <1>14, <2>1, <2>2, <2>3, <2>4, AccountStays
<1> QED
  BY <1>6, <1>11, <1>12, <1>13, <1>14 DEF TsdInv
-----------------------------------------------------------------------------
(* Where the values go *)

LEMMA AccountsSet ==
  ASSUME TsdInv, Accounted, NEW t \in Threads, NEW k \in Keys, SetSpecific(t, k), pc' = pc
  PROVE  Accounted'
<1>1. /\ pc[t] \in {"user", "destructor"}
      /\ UNCHANGED <<key, destructor, threadLock, chains, rounds, ran>>
  BY DEF SetSpecific, InProgram
<1>2. PICK v \in {0} \cup (IF values < MaxValues THEN {values + 1} ELSE {}) :
        /\ values' = IF v = 0 THEN values ELSE v
        /\ IF destructor[k] /\ v # 0
           THEN Goto(t, "setKey")
           ELSE Stores(t, k, v) /\ UNCHANGED <<keyLock, call, pc>>
  BY DEF SetSpecific
<1>3. ~(destructor[k] /\ v # 0)
  BY <1>1, <1>2 DEF Goto, TsdInv, TsdType
<1>4. /\ value' = [value EXCEPT ![t][k] = v]
      /\ owed' = [owed EXCEPT ![t] = @ \ {value[t][k]}]
      /\ UNCHANGED <<pc, about, target, key, keys, iterations, ran>>
  BY <1>1, <1>2, <1>3 DEF Stores, call, chains, rounds
<1>5. values \in Nat /\ values \in Value /\ \A u \in Threads, j \in Keys : value[u][j] \in 0 .. values
  BY TsdAssumption DEF TsdInv, TsdType, TypeOK, Value, Accounted, Slotted
<1>6. /\ v \in Value /\ values' \in Value /\ values <= values' /\ v <= values'
      /\ v # 0 => v = values + 1
  BY <1>2, <1>5, TsdAssumption DEF Value
<1>7. v # 0 => \A u \in Threads, j \in Keys : value[u][j] # v
  BY <1>5, <1>6
<1>8. /\ \A u \in Threads, j \in Keys :
           value'[u][j] = IF u = t /\ j = k THEN v ELSE value[u][j]
      /\ Slotted'
  BY <1>4, <1>6, <1>7, SlotStored
<1>9. Coming'
  <2>1. \A u \in Threads : pc[u] \in Setting => target[u] \in 1 .. values
    BY DEF Accounted, Coming
  <2>2. \A u \in Threads : pc[u] \in Setting => target[u] \in 1 .. values' /\ target[u] # v
    BY <1>5, <1>6, <2>1 DEF Value
  <2> QED
    BY <1>4, <1>8, <2>2 DEF Accounted, Coming
<1>10. Given'
  <2>1. \A w \in Value : ran[w] # 0 => w \in 1 .. values
    BY DEF Accounted, Given
  <2>2. \A w \in Value : ran[w] # 0 => w \in 1 .. values' /\ w # v
    BY <1>5, <1>6, <2>1 DEF Value
  <2> QED
    BY <1>4, <1>8, <2>2 DEF Accounted, Given
<1>11. Owing'
  BY <1>4, <1>8 DEF Accounted, Owing, TsdInv, TsdType, TypeOK
<1> QED
  BY <1>8, <1>9, <1>10, <1>11 DEF Accounted

LEMMA AccountsToSet ==
  ASSUME TsdInv, Accounted, NEW t \in Threads, NEW k \in Keys, SetSpecific(t, k), pc' # pc
  PROVE  Accounted'
<1>1. /\ pc[t] \in {"user", "destructor"}
      /\ UNCHANGED <<key, destructor, threadLock, chains, rounds, ran>>
  BY DEF SetSpecific, InProgram
<1>2. PICK v \in {0} \cup (IF values < MaxValues THEN {values + 1} ELSE {}) :
        /\ values' = IF v = 0 THEN values ELSE v
        /\ IF destructor[k] /\ v # 0
           THEN Calls(t, k, v) /\ Goto(t, "setKey") /\ UNCHANGED <<value, owed>>
           ELSE UNCHANGED pc
  BY DEF SetSpecific
<1>3. /\ v # 0 /\ Calls(t, k, v) /\ Goto(t, "setKey")
      /\ UNCHANGED <<value, owed, key, keys, iterations, ran>>
  BY <1>1, <1>2 DEF chains, rounds
<1>4. values \in Nat /\ v = values + 1 /\ values' = values + 1
  BY <1>2, <1>3 DEF TsdInv, TsdType, TypeOK, Value
<1>5. /\ pc'[t] = "setKey" /\ target'[t] = values + 1
      /\ \A u \in Threads \ {t} : pc'[u] = pc[u] /\ about'[u] = about[u] /\ target'[u] = target[u]
  BY <1>3, <1>4 DEF Calls, Goto, TsdInv, TsdType
<1>6. Slotted'
  BY <1>3, <1>4 DEF Accounted, Slotted
<1>7. Coming'
  <2>1. \A u \in Threads, j \in Keys : value[u][j] \in 0 .. values
    BY DEF Accounted, Slotted
  <2>2. \A u \in Threads \ {t} : pc[u] \in Setting => target[u] \in 1 .. values
    BY DEF Accounted, Coming
  <2> QED
    BY <1>3, <1>4, <1>5, <2>1, <2>2 DEF Accounted, Coming
<1>8. Given'
  BY <1>3, <1>4, <1>5 DEF Accounted, Given
<1>9. Owing'
  BY <1>3, <1>5 DEF Accounted, Owing
<1> QED
  BY <1>6, <1>7, <1>8, <1>9 DEF Accounted

LEMMA AccountsValue ==
  ASSUME TsdInv, Accounted, NEW t \in Threads, SetValue(t)
  PROVE  Accounted'
<1>1. PICK k \in Keys : k = about[t]
  BY DEF SetValue, TsdInv, TsdType, Setting
<1>2. PICK v \in Value : v = target[t]
  BY DEF SetValue, TsdInv, TsdType, Setting
<1>3. pc[t] = "setValue" /\ pc[t] \in Setting
  BY DEF SetValue, Setting
<1>4. /\ value' = [value EXCEPT ![t][k] = v]
      /\ owed' \in [Threads -> SUBSET Value]
      /\ \A u \in Threads \ {t} : owed'[u] = owed[u]
      /\ owed'[t] \subseteq (owed[t] \ {value[t][k]}) \cup {v}
      /\ UNCHANGED <<key, keys, iterations, values, ran>>
  BY <1>1, <1>2 DEF SetValue, Stores, chains, rounds, TsdInv, TsdType, TypeOK
<1>5. /\ pc'[t] \notin Setting
      /\ \A u \in Threads \ {t} : pc'[u] = pc[u] /\ about'[u] = about[u] /\ target'[u] = target[u]
  BY DEF SetValue, Return, Goto, Calls, TsdInv, TsdType, Setting
<1>6. /\ v \in 1 .. values /\ values \in Nat /\ values \in Value
      /\ \A u \in Threads \ {t} : pc[u] \in Setting => target[u] # v
      /\ \A u \in Threads, j \in Keys : value[u][j] # v
  BY <1>2, <1>3 DEF Accounted, Coming, TsdInv, TsdType, TypeOK, Value
<1>7. /\ \A u \in Threads, j \in Keys :
           value'[u][j] = IF u = t /\ j = k THEN v ELSE value[u][j]
      /\ Slotted'
  <2>1. values' \in Value /\ values <= values' /\ v <= values'
    BY <1>4, <1>6
  <2> QED
    BY <1>4, <1>6, <2>1, SlotStored
<1>8. Coming'
  BY <1>4, <1>5, <1>6, <1>7 DEF Accounted, Coming
<1>9. Given'
  <2>1. \A w \in Value : ran[w] # 0 => w # v
    BY <1>2, <1>3 DEF Accounted, Given
  <2> QED
    BY <1>4, <1>5, <1>7, <2>1 DEF Accounted, Given
<1>10. Owing'
  <2>1. Contains(keys[t], k) /\ key[k] = "live"
    BY <1>1, <1>3 DEF Accounted, Owing, TsdInv, Phase
  <2>2. \A u \in Threads : pc'[u] = "setValue" => Contains(keys'[u], about'[u])
    BY <1>4, <1>5 DEF Accounted, Owing, Setting
  <2>3. ASSUME NEW u \in Threads, iterations'[u] <= Rounds, NEW w \in owed'[u]
        PROVE  w # 0 /\ \E j \in Keys : value'[u][j] = w /\ Contains(keys'[u], j) /\ key'[j] = "live"
    <3>1. CASE u = t /\ w = v
      BY <1>4, <1>6, <1>7, <2>1, <3>1
    <3>2. CASE ~(u = t /\ w = v)
      <4>1. w \in owed[u] /\ (u = t => w # value[t][k])
        BY <1>4, <2>3, <3>2
      <4>2. PICK j \in Keys : value[u][j] = w /\ Contains(keys[u], j) /\ key[j] = "live"
        BY <1>4, <2>3, <4>1 DEF Accounted, Owing
      <4>3. w # 0
        BY <1>4, <2>3, <4>1 DEF Accounted, Owing
      <4>4. value'[u][j] = w
        BY <1>7, <4>1, <4>2
      <4> QED
        BY <1>4, <4>2, <4>3, <4>4
    <3> QED
      BY <3>1, <3>2
  <2> QED
    BY <2>2, <2>3 DEF Owing
<1> QED
  BY <1>7, <1>8, <1>9, <1>10 DEF Accounted

LEMMA AccountsDelete ==
  ASSUME TsdInv, Accounted, NEW t \in Threads, NEW k \in Keys, KeyDelete(t, k)
  PROVE  Accounted'
<1>1. /\ key' = [key EXCEPT ![k] = "deleted"]
      /\ owed' = [u \in Threads |-> owed[u] \ {value[u][k]}]
      /\ UNCHANGED <<keys, value, iterations, values, ran>>
  BY DEF KeyDelete, chains, rounds
<1>2. /\ pc'[t] \notin Setting
      /\ \A u \in Threads \ {t} : pc'[u] = pc[u] /\ about'[u] = about[u] /\ target'[u] = target[u]
  BY DEF KeyDelete, Goto, Calls, TsdInv, TsdType, Setting
<1>3. Slotted' /\ Coming' /\ Given'
  BY <1>1, <1>2 DEF Accounted, Slotted, Coming, Given
<1>4. Owing'
  <2>1. \A u \in Threads : pc'[u] = "setValue" => Contains(keys'[u], about'[u])
    BY <1>1, <1>2 DEF Accounted, Owing, Setting
  <2>2. ASSUME NEW u \in Threads, iterations'[u] <= Rounds, NEW w \in owed'[u]
        PROVE  w # 0 /\ \E j \in Keys : value'[u][j] = w /\ Contains(keys'[u], j) /\ key'[j] = "live"
    <3>1. w \in owed[u] /\ w # value[u][k] /\ iterations[u] <= Rounds
      BY <1>1, <2>2
    <3>2. PICK j \in Keys : value[u][j] = w /\ Contains(keys[u], j) /\ key[j] = "live"
      BY <3>1 DEF Accounted, Owing
    <3>3. w # 0 /\ key'[j] = "live"
      BY <1>1, <3>1, <3>2 DEF Accounted, Owing, TsdInv, TsdType, TypeOK
    <3> QED
      BY <1>1, <3>2, <3>3
  <2> QED
    BY <2>1, <2>2 DEF Owing
<1> QED
  BY <1>3, <1>4 DEF Accounted

LEMMA AccountsBoth ==
  ASSUME TsdInv, Accounted, NEW t \in Threads, BothLocks(t)
  PROVE  Accounted'
<1>1. PICK k \in Keys : k = about[t]
  BY DEF BothLocks, TsdInv, TsdType
<1>2. PICK v \in Value : v = value[t][k]
  BY DEF TsdInv, TsdType, TypeOK
<1>3. /\ pc[t] = "both" /\ value' = [value EXCEPT ![t][k] = 0]
      /\ UNCHANGED <<key, iterations, values>>
  BY <1>1 DEF BothLocks, TakeValue
<1>4. /\ pc'[t] \notin Setting
      /\ \A u \in Threads \ {t} : pc'[u] = pc[u] /\ about'[u] = about[u] /\ target'[u] = target[u]
  BY DEF BothLocks, Goto, Calls, TsdInv, TsdType, Setting
<1>5. values \in Nat /\ values \in Value /\ 0 \in Value /\ v \in 0 .. values
  BY <1>2, TsdAssumption DEF Accounted, Slotted, TsdInv, TsdType, TypeOK, Value
<1>6. /\ \A u \in Threads, j \in Keys :
           value'[u][j] = IF u = t /\ j = k THEN 0 ELSE value[u][j]
      /\ Slotted'
  <2>1. values' \in Value /\ values <= values' /\ 0 <= values'
    BY <1>3, <1>5
  <2> QED
    BY <1>3, <1>5, <2>1, SlotStored
<1>7. Coming'
  BY <1>3, <1>4, <1>5, <1>6 DEF Accounted, Coming
<1>8. CASE v # 0 /\ iterations[t] <= Rounds
  <2>1. /\ ran' = [ran EXCEPT ![v] = @ + 1] /\ owed' = [owed EXCEPT ![t] = @ \ {v}]
        /\ keys' = keys
    BY <1>1, <1>2, <1>8 DEF BothLocks
  <2>2. ran \in [Value -> Nat] /\ owed \in [Threads -> SUBSET Value]
    BY DEF TsdInv, TsdType, TypeOK
  <2>3. ran[v] = 0
    BY <1>1, <1>2 DEF Accounted, Given
  <2>4. ASSUME NEW w \in Value, ran'[w] # 0
        PROVE  /\ ran'[w] = 1 /\ w \in 1 .. values'
               /\ \A u \in Threads : pc'[u] \in Setting => target'[u] # w
               /\ \A u \in Threads, j \in Keys : value'[u][j] # w
    <3>1. CASE w = v
      <4>1. \A u \in Threads, j \in Keys : value'[u][j] # v
        BY <1>2, <1>6, <1>8 DEF Accounted, Slotted
      <4>2. \A u \in Threads : pc[u] \in Setting => target[u] # v
        BY <1>2 DEF Accounted, Coming
      <4> QED
        BY <1>3, <1>4, <1>5, <1>8, <2>1, <2>2, <2>3, <3>1, <4>1, <4>2
    <3>2. CASE w # v
      <4>1. ran[w] # 0 /\ ran'[w] = ran[w]
        BY <2>1, <2>2, <2>4, <3>2
      <4>2. /\ ran[w] = 1 /\ w \in 1 .. values
            /\ \A u \in Threads : pc[u] \in Setting => target[u] # w
            /\ \A u \in Threads, j \in Keys : value[u][j] # w
        BY <4>1 DEF Accounted, Given
      <4> QED
        BY <1>3, <1>4, <1>5, <1>6, <4>1, <4>2
    <3> QED
      BY <3>1, <3>2
  <2>5. Owing'
    <3>1. \A u \in Threads : pc'[u] = "setValue" => Contains(keys'[u], about'[u])
      BY <1>4, <2>1 DEF Accounted, Owing, Setting
    <3>2. ASSUME NEW u \in Threads, iterations'[u] <= Rounds, NEW w \in owed'[u]
          PROVE  w # 0 /\ \E j \in Keys : value'[u][j] = w /\ Contains(keys'[u], j) /\ key'[j] = "live"
      <4>1. w \in owed[u] /\ (u = t => w # v) /\ iterations[u] <= Rounds
        BY <1>3, <2>1, <2>2, <3>2
      <4>2. PICK j \in Keys : value[u][j] = w /\ Contains(keys[u], j) /\ key[j] = "live"
        BY <4>1 DEF Accounted, Owing
      <4>3. w # 0 /\ value'[u][j] = w
        BY <1>2, <1>6, <4>1, <4>2 DEF Accounted, Owing
      <4> QED
        BY <1>3, <2>1, <4>2, <4>3
    <3> QED
      BY <3>1, <3>2 DEF Owing
  <2> QED
    BY <1>6, <1>7, <2>4, <2>5 DEF Accounted, Given
<1>9. CASE ~(v # 0 /\ iterations[t] <= Rounds)
  <2>1. TkAssocDestroy(t, k) /\ UNCHANGED <<ran, owed>>
    BY <1>1, <1>2, <1>9 DEF BothLocks, history
  <2>2. Contains(keys[t], k)
    <3>1. nextAssoc[t] = k /\ k # None
      BY <1>1, <1>3, TsdAssumption DEF TsdInv, Passes
    <3> QED
      BY <3>1 DEF TsdInv, Chained
  <2>3. Gone(t, k)
    BY <2>1, <2>2, Destroyed
  <2>4. Given'
    BY <1>3, <1>4, <1>5, <1>6, <2>1 DEF Accounted, Given
  <2>5. Owing'
    <3>1. ASSUME NEW u \in Threads, pc'[u] = "setValue" PROVE Contains(keys'[u], about'[u])
      <4>1. u # t /\ pc[u] = "setValue" /\ about'[u] = about[u]
        BY <1>4, <3>1 DEF Setting
      <4>2. about[u] \in Keys /\ Contains(keys[u], about[u])
        BY <4>1 DEF Accounted, Owing, TsdInv, TsdType, Setting
      <4> QED
        BY <2>3, <4>1, <4>2 DEF Gone
    <3>2. ASSUME NEW u \in Threads, iterations'[u] <= Rounds, NEW w \in owed'[u]
          PROVE  w # 0 /\ \E j \in Keys : value'[u][j] = w /\ Contains(keys'[u], j) /\ key'[j] = "live"
      <4>1. w \in owed[u] /\ iterations[u] <= Rounds
        BY <1>3, <2>1, <3>2
      <4>2. PICK j \in Keys : value[u][j] = w /\ Contains(keys[u], j) /\ key[j] = "live"
        BY <4>1 DEF Accounted, Owing
      <4>3. w # 0
        BY <4>1 DEF Accounted, Owing
      <4>4. ~(u = t /\ j = k)
        BY <1>2, <1>9, <4>1, <4>2, <4>3
      <4>5. value'[u][j] = w /\ Contains(keys'[u], j)
        BY <1>6, <2>3, <4>2, <4>4 DEF Gone
      <4> QED
        BY <1>3, <4>2, <4>3, <4>5
    <3> QED
      BY <3>1, <3>2 DEF Owing
  <2> QED
    BY <1>6, <1>7, <2>4, <2>5 DEF Accounted
<1> QED
  BY <1>8, <1>9

LEMMA TsdStart == Init => TsdInv /\ Accounted
<1> SUFFICES ASSUME Init PROVE TsdInv /\ Accounted
  OBVIOUS
<1>1. \A t \in Threads : keys[t] = <<>> /\ ~\E k : Contains(keys[t], k)
  BY DEF Init, Contains
<1>2. \A k \in Keys : threads[k] = <<>> /\ ~\E t : Contains(threads[k], t)
  BY DEF Init, Contains
<1>3. \A t \in Threads : pc[t] = "user"
  BY DEF Init
<1>4. TypeOK
  BY TsdAssumption DEF Init, TypeOK, Value
<1>5. TsdType
  BY <1>3, <1>4 DEF Init, TsdType, Setting, Deleting, Waiting, Places
<1>6. Chained
  BY <1>1, <1>2 DEF Init, Chained, Once
<1>7. OneDeleter
  BY <1>3 DEF OneDeleter, Deleting, Waiting
<1>8. \A t \in Threads : Owns(t) /\ Phase(t) /\ Passes(t)
  BY <1>1, <1>3 DEF Init, Owns, Phase, Passes, Setting, Deleting, Waiting, Round
<1>9. Accounted
  BY <1>3 DEF Init, Value, Accounted, Slotted, Coming, Given, Owing, Setting
<1> QED
  BY <1>5, <1>6, <1>7, <1>8, <1>9 DEF TsdInv

LEMMA TsdStep ==
  OneThreadAtDelete /\ TsdInv /\ [Next]_vars => TsdInv' /\ (Accounted => Accounted')
<1> SUFFICES ASSUME OneThreadAtDelete, TsdInv, [Next]_vars
             PROVE  TsdInv' /\ (Accounted => Accounted')
  OBVIOUS
<1>1. CASE UNCHANGED vars
  <2>1. UNCHANGED <<key, destructor, keyLock, threadLock, threads, keys, nextAssoc, value,
                    iterations, remaining, pc, about, target, values, ran, owed>>
    BY <1>1 DEF vars, chains, locks, call, rounds, history
  <2>2. TsdInv'
    BY <2>1 DEF TsdInv, TsdType, TypeOK, Owns, Phase, Passes, OneDeleter, Chained
  <2>3. ASSUME Accounted PROVE Accounted'
    BY <2>1, <2>3 DEF Accounted, Slotted, Coming, Given, Owing
  <2> QED
    BY <2>2, <2>3
<1>2. CASE Next
  <2>1. PICK t \in Threads :
          \/ \E k \in Keys : KeyCreate(t, k) \/ SetSpecific(t, k) \/ KeyDelete(t, k)
          \/ BeginRound(t) \/ DestructorReturns(t) \/ InCall(t)
    BY <1>2 DEF Next
  <2>2. ASSUME NEW k \in Keys, KeyCreate(t, k) \/ SetSpecific(t, k) \/ KeyDelete(t, k)
        PROVE  TsdInv' /\ (Accounted => Accounted')
    BY <2>2, KeyMade, ValueSet, ValueToSet, Deletes, DeletesAlone, AccountsSet, AccountsToSet,
       AccountsDelete
  <2>3. CASE SetThread(t) \/ Associate(t) \/ SetValue(t)
    BY <2>3, SetsThread, Associated, Associates, AssociatesNot, SetsValue, AccountsValue
  <2>4. CASE DeleteKey(t) \/ DeleteLoop(t) \/ DeleteAssoc(t) \/ DeleteLast(t) \/ DeleteEnds(t)
    BY <2>4, DeletesKey, LoopEnds, LoopGoesOn, DeletesAssoc, LastWait, NoLastWait, DeletesEnd
  <2>5. CASE BeginRound(t) \/ First(t) \/ Loop(t) \/ DestructorReturns(t)
    BY <2>5, BeginsRound, TakesFirst, Loops, DestructorEnds
  <2>6. CASE NextAssoc(t) \/ BothLocks(t)
    BY <2>6, GetsKey, FindsBusy, RoundEnds, RunsDestructor, DestroysAssoc, AccountsBoth
  <2> QED
    BY <2>1, <2>2, <2>3, <2>4, <2>5, <2>6 DEF InCall
<1> QED
  BY <1>1, <1>2

\* The two chains of associations tell the same, a thread works only on keys,
\* threads and associations that are there, and none of an ended thread is left,
\* in whatever order keys are set and deleted and threads end
\* (pthread_key_delete.c, pthread_setspecific.c, ptw32_callUserDestroyRoutines.c).
THEOREM AssocsAlwaysSound == OneThreadAtDelete => (Spec => []AssocsSound)
<1> SUFFICES ASSUME OneThreadAtDelete PROVE Spec => []AssocsSound
  OBVIOUS
<1>1. OneThreadAtDelete /\ TsdInv /\ [Next]_vars => TsdInv'
  BY TsdStep
<1>2. TsdInv => AssocsSound
  <2> SUFFICES ASSUME TsdInv PROVE AssocsSound
    OBVIOUS
  <2>1. ChainsAgree
    <3>1. \A t \in Threads, k \in Keys : keys[t] = <<>> => ~Contains(keys[t], k)
      BY DEF Contains
    <3> QED
      BY <3>1 DEF TsdInv, Passes, Chained, ChainsAgree
  <2>2. ASSUME NEW t \in Threads, NEW k \in Range(keys[t]) PROVE key[k] \in {"live", "deleted"}
    <3>1. keys[t] \in Seq(Keys)
      BY DEF TsdInv, TsdType, TypeOK
    <3>2. PICK i \in DOMAIN keys[t] : k = keys[t][i]
      BY <2>2 DEF Range
    <3>3. i \in 1 .. Len(keys[t]) /\ k \in Keys
      BY <3>1, <3>2, LenProperties, ElementOfSeq
    <3>4. Contains(keys[t], k)
      BY <3>2, <3>3 DEF Contains
    <3> QED
      BY <3>3, <3>4 DEF TsdInv, Chained
  <2>3. ASSUME NEW t \in Threads, pc[t] = "deleteThread" PROVE pc[target[t]] # "ended"
    <3>1. /\ about[t] \in Keys /\ target[t] \in Threads
          /\ Contains(threads[about[t]], target[t])
      BY <2>3 DEF TsdInv, TsdType, Phase, Deleting
    <3> QED
      BY <2>1, <3>1 DEF ChainsAgree
  <2>4. ASSUME NEW t \in Threads, pc[t] = "both" PROVE Contains(keys[t], about[t])
    <3>1. nextAssoc[t] = about[t] /\ about[t] # None
      BY <2>4, TsdAssumption DEF TsdInv, TsdType, Passes
    <3> QED
      BY <3>1 DEF TsdInv, Chained
  <2>5. \A t \in Threads : pc[t] # "undefined"
    BY DEF TsdInv, TsdType, Places, Setting, Deleting, Waiting, Round
  <2>6. \A t \in Threads : nextAssoc[t] # None => Contains(keys[t], nextAssoc[t])
    BY DEF TsdInv, Chained
  <2>7. WorksOnLive
    BY <2>2, <2>3, <2>4, <2>5, <2>6 DEF WorksOnLive
  <2> QED
    BY <2>1, <2>7 DEF TsdInv, TsdType, AssocsSound
<1> QED
  BY <1>1, <1>2, TsdStart, PTL DEF Spec

\* pthread_key_delete takes an association off its chains with both locks held, as
\* the comment of ptw32_tkAssocDestroy asks for (pthread_key_delete.c).
THEOREM BothAlwaysLocked == OneThreadAtDelete => (Spec => []BothLocked)
<1> SUFFICES ASSUME OneThreadAtDelete PROVE Spec => []BothLocked
  OBVIOUS
<1>1. OneThreadAtDelete /\ TsdInv /\ [Next]_vars => TsdInv'
  BY TsdStep
<1>2. TsdInv => BothLocked
  BY DEF TsdInv, Owns, BothLocked
<1> QED
  BY <1>1, <1>2, TsdStart, PTL DEF Spec

\* No value is given to a destructor twice, and a thread that comes to its end within
\* PTHREAD_DESTRUCTOR_ITERATIONS rounds has given them every value that it had for
\* keys that were not deleted, whatever its destructors set, and however often it
\* had to let go of its locks (ptw32_callUserDestroyRoutines.c).
THEOREM ValuesAlwaysDestroyed == OneThreadAtDelete => (Spec => []ValuesDestroyed)
<1> SUFFICES ASSUME OneThreadAtDelete PROVE Spec => []ValuesDestroyed
  OBVIOUS
<1>1. OneThreadAtDelete /\ (TsdInv /\ Accounted) /\ [Next]_vars => (TsdInv /\ Accounted)'
  BY TsdStep
<1>2. TsdInv /\ Accounted => ValuesDestroyed
  <2> SUFFICES ASSUME TsdInv, Accounted PROVE ValuesDestroyed
    OBVIOUS
  <2>1. ASSUME NEW v \in Value PROVE ran[v] <= 1
    <3>1. ran[v] = 0 \/ ran[v] = 1
      BY DEF Accounted, Given
    <3> QED
      BY <3>1
  <2>2. ASSUME NEW t \in Threads, pc[t] = "ended", iterations[t] <= Rounds PROVE owed[t] = {}
    <3>1. keys[t] = <<>>
      BY <2>2 DEF TsdInv, Passes
    <3>2. \A k \in Keys : ~Contains(keys[t], k)
      BY <3>1 DEF Contains
    <3> QED
      BY <2>2, <3>2 DEF Accounted, Owing
  <2> QED
    BY <2>1, <2>2 DEF ValuesDestroyed
<1>3. Init => TsdInv /\ Accounted
  BY TsdStart
<1> QED
  BY <1>1, <1>2, <1>3, PTL DEF Spec
-----------------------------------------------------------------------------
(* No deadlock *)

\* A key is not deleted while another thread that has a value for it ends.
NoneEndsAtDelete == "ending_delete" \notin Env

\* A thread waits for a lock that is not its own yet, or for itself.
Waits(t) ==
  \/ pc[t] \in {"setKey", "deleteKey", "deleteWait"} /\ ~Holds(t, keyLock[about[t]])
  \/ pc[t] \in {"setThread", "round", "next"} /\ ~Holds(t, threadLock[t])
  \/ pc[t] = "deleteThread" /\ ~Holds(t, threadLock[target[t]])
  \/ pc[t] = "selfWait"

\* The owner of the lock that a thread waits for.
Ahead(t) ==
  IF pc[t] \in {"setKey", "deleteKey", "deleteWait"} THEN Head(keyLock[about[t]])
  ELSE Head(threadLock[IF pc[t] = "deleteThread" THEN target[t] ELSE t])

\* Whoever a thread waits for can go on, or waits for one that can.
LocksPassOn ==
  \A t \in Threads : Waits(t) =>
    /\ pc[t] # "selfWait" /\ Ahead(t) \in Threads
    /\ Waits(Ahead(t)) => Ahead(Ahead(t)) \in Threads /\ ~Waits(Ahead(Ahead(t)))

\* The threads that have queued for a lock and not released it: a queue has each
\* of them once, and no other.
KeyClaimers(k) ==
  {t \in Threads :
     /\ about[t] = k
     /\ \/ pc[t] \in {"setKey", "setThread", "deleteKey", "deleteThread", "deleteWait", "both"}
        \/ pc[t] = "deleteLoop" /\ threads[k] # <<>>}
ThreadClaimers(w) ==
  {t \in Threads : \/ t = w /\ pc[t] \in {"setThread", "round", "next", "both"}
                   \/ pc[t] = "deleteThread" /\ target[t] = w}
Lists(queue, S) == Once(queue) /\ \A t \in Threads : Contains(queue, t) <=> t \in S

Queued ==
  /\ \A k \in Keys : Lists(keyLock[k], KeyClaimers(k))
  /\ \A w \in Threads : Lists(threadLock[w], ThreadClaimers(w))

\* A deletion that waits for its key still finds the association that it came for:
\* nobody has both locks, and so nobody can take it away.  That is what keeps it
\* from leaving the loop with the lock, and from queueing behind itself.
Finds(t) ==
  /\ pc[t] # "selfWait"
  /\ pc[t] = "deleteKey" =>
       /\ threads[about[t]] # <<>>
       /\ \A u \in Threads : pc[u] = "both" => about[u] # about[t]
  /\ pc[t] \in {"destructor", "again", "round"} \cup Round => iterations[t] # 0

WaitInv == Queued /\ \A t \in Threads : Finds(t)

\* What a step of t does to a queue: nothing, to enter it at its end, or to leave
\* it in front.
Turn(q, r, t, S, R) ==
  \/ r = q /\ (t \in S <=> t \in R)
  \/ r = Append(q, t) /\ t \notin S /\ t \in R
  \/ r = Tail(q) /\ Holds(t, q) /\ t \notin R

LEMMA TurnKept ==
  ASSUME NEW q \in Seq(Threads), NEW r, NEW t \in Threads, NEW S, NEW R,
         Lists(q, S), \A u \in Threads \ {t} : u \in S <=> u \in R, Turn(q, r, t, S, R)
  PROVE  Lists(r, R)
<1>1. Len(q) \in Nat /\ DOMAIN q = 1 .. Len(q) /\ \A i \in 1 .. Len(q) : q[i] \in Threads
  BY LenProperties, ElementOfSeq
<1>2. CASE r = q /\ (t \in S <=> t \in R)
  BY <1>2 DEF Lists
<1>3. CASE r = Append(q, t) /\ t \notin S /\ t \in R
  <2>1. Len(r) = Len(q) + 1 /\ \A i \in 1 .. Len(q) + 1 : r[i] = IF i = Len(q) + 1 THEN t ELSE q[i]
    BY <1>1, <1>3, AppendProperties
  <2>2. \A i \in 1 .. Len(q) : q[i] # t
    BY <1>3 DEF Lists, Contains
  <2>3. Once(r)
    <3> SUFFICES ASSUME NEW i \in 1 .. Len(r), NEW j \in 1 .. Len(r), r[i] = r[j] PROVE i = j
      BY DEF Once
    <3>1. \A x, y \in 1 .. Len(q) : q[x] = q[y] => x = y
      BY DEF Lists, Once
    <3>2. CASE i = Len(q) + 1
      BY <1>1, <2>1, <2>2, <3>2
    <3>3. CASE j = Len(q) + 1
      BY <1>1, <2>1, <2>2, <3>3
    <3>4. CASE i # Len(q) + 1 /\ j # Len(q) + 1
      <4>1. i \in 1 .. Len(q) /\ j \in 1 .. Len(q)
        BY <1>1, <2>1, <3>4
      <4> QED
        BY <2>1, <3>1, <3>4, <4>1
    <3> QED
      BY <3>2, <3>3, <3>4
  <2>4. ASSUME NEW u \in Threads PROVE Contains(r, u) <=> u = t \/ Contains(q, u)
    <3>1. ASSUME NEW i \in 1 .. Len(r), r[i] = u PROVE u = t \/ Contains(q, u)
      <4>1. u = t \/ (i \in 1 .. Len(q) /\ q[i] = u)
        BY <1>1, <2>1, <3>1
      <4> QED
        BY <4>1 DEF Contains
    <3>2. ASSUME NEW i \in 1 .. Len(q), q[i] = u PROVE Contains(r, u)
      <4>1. i \in 1 .. Len(r) /\ r[i] = u
        BY <1>1, <2>1, <3>2
      <4> QED
        BY <4>1 DEF Contains
    <3>3. Contains(r, t)
      <4>1. Len(r) \in 1 .. Len(r) /\ r[Len(r)] = t
        BY <1>1, <2>1
      <4> QED
        BY <4>1 DEF Contains
    <3> QED
      BY <3>1, <3>2, <3>3 DEF Contains
  <2> QED
    BY <1>3, <2>3, <2>4 DEF Lists
<1>4. CASE r = Tail(q) /\ Holds(t, q) /\ t \notin R
  <2>1. q # <<>> /\ q[1] = t /\ 1 \in 1 .. Len(q)
    BY <1>1, <1>4, HeadTailProperties, EmptySeq DEF Holds
  <2>2. Len(r) = Len(q) - 1 /\ \A i \in 1 .. Len(q) - 1 : r[i] = q[i + 1]
    BY <1>1, <1>4, <2>1, HeadTailProperties
  <2>3. \A x, y \in 1 .. Len(q) : q[x] = q[y] => x = y
    BY DEF Lists, Once
  <2>4. Once(r)
    <3> SUFFICES ASSUME NEW i \in 1 .. Len(r), NEW j \in 1 .. Len(r), r[i] = r[j] PROVE i = j
      BY DEF Once
    <3>1. i + 1 \in 1 .. Len(q) /\ j + 1 \in 1 .. Len(q) /\ q[i + 1] = q[j + 1]
      BY <1>1, <2>2
    <3>2. i + 1 = j + 1
      BY <2>3, <3>1
    <3> QED
      BY <1>1, <2>2, <3>2
  <2>5. ASSUME NEW u \in Threads PROVE Contains(r, u) <=> u # t /\ Contains(q, u)
    <3>1. ASSUME NEW i \in 1 .. Len(r), r[i] = u PROVE u # t /\ Contains(q, u)
      <4>1. i + 1 \in 1 .. Len(q) /\ q[i + 1] = u /\ i + 1 # 1
        BY <1>1, <2>2, <3>1
      <4> QED
        BY <2>1, <2>3, <4>1 DEF Contains
    <3>2. ASSUME NEW i \in 1 .. Len(q), q[i] = u, u # t PROVE Contains(r, u)
      <4>1. i # 1
        BY <2>1, <3>2
      <4>2. i - 1 \in 1 .. Len(r) /\ r[i - 1] = u
        BY <1>1, <2>2, <3>2, <4>1
      <4> QED
        BY <4>2 DEF Contains
    <3> QED
      BY <3>1, <3>2 DEF Contains
  <2> QED
    BY <1>4, <2>5, <2>4 DEF Lists
<1> QED
  BY <1>2, <1>3, <1>4 DEF Turn

\* The owner of a lock is in its queue, and a queue that somebody is in has one.
LEMMA OwnerListed ==
  ASSUME NEW q \in Seq(Threads), NEW S, Lists(q, S)
  PROVE  /\ \A t \in Threads : Holds(t, q) => t \in S
         /\ \A t \in Threads : t \in S => /\ q # <<>> /\ Head(q) \in Threads /\ Head(q) \in S
                                          /\ Holds(Head(q), q)
<1>1. Len(q) \in Nat /\ DOMAIN q = 1 .. Len(q) /\ \A i \in 1 .. Len(q) : q[i] \in Threads
  BY LenProperties, ElementOfSeq
<1>2. ASSUME q # <<>> PROVE Head(q) \in Threads /\ Contains(q, Head(q))
  <2>1. 1 \in 1 .. Len(q) /\ Head(q) = q[1]
    BY <1>1, <1>2, HeadTailProperties, EmptySeq
  <2> QED
    BY <1>1, <2>1 DEF Contains
<1>3. \A t \in Threads : t \in S => q # <<>>
  BY DEF Lists, Contains
<1>4. ASSUME NEW t \in Threads, Holds(t, q) PROVE t \in S
  <2>1. q # <<>> /\ Head(q) = t
    BY <1>4 DEF Holds
  <2> QED
    BY <1>2, <2>1 DEF Lists
<1>5. ASSUME NEW t \in Threads, t \in S
      PROVE  q # <<>> /\ Head(q) \in Threads /\ Head(q) \in S /\ Holds(Head(q), q)
  <2>1. q # <<>>
    BY <1>3, <1>5
  <2>2. Head(q) \in Threads /\ Contains(q, Head(q))
    BY <1>2, <2>1
  <2>3. Head(q) \in S
    BY <2>2 DEF Lists
  <2> QED
    BY <2>1, <2>2, <2>3 DEF Holds
<1> QED
  BY <1>4, <1>5

\* A step of t that takes its turn in the queues keeps the invariant, when it
\* leaves the other threads and the associations they delete alone.
LetsBe(t) ==
  /\ \A u \in Threads \ {t} :
       /\ pc'[u] = pc[u] /\ about'[u] = about[u] /\ target'[u] = target[u]
       /\ iterations'[u] = iterations[u]
       /\ pc[u] \in {"deleteKey", "deleteLoop"} =>
            (threads'[about[u]] = <<>> <=> threads[about[u]] = <<>>)
  /\ pc'[t] = "both" => keyLock[about'[t]] = <<>>
KeyTurn(t) ==
  \A k \in Keys : Turn(keyLock[k], keyLock'[k], t, KeyClaimers(k), KeyClaimers(k)')
ThreadTurn(t) ==
  \A w \in Threads : Turn(threadLock[w], threadLock'[w], t, ThreadClaimers(w), ThreadClaimers(w)')

LEMMA WaitKept ==
  ASSUME TsdInv, WaitInv, NEW t \in Threads, LetsBe(t), KeyTurn(t), ThreadTurn(t), Finds(t)'
  PROVE  WaitInv'
<1>1. /\ \A k \in Keys : keyLock[k] \in Seq(Threads) /\ Lists(keyLock[k], KeyClaimers(k))
      /\ \A w \in Threads : threadLock[w] \in Seq(Threads) /\ Lists(threadLock[w], ThreadClaimers(w))
  BY DEF TsdInv, TsdType, TypeOK, WaitInv, Queued
<1>2. ASSUME NEW k \in Keys PROVE Lists(keyLock[k], KeyClaimers(k))'
  <2>1. \A u \in Threads \ {t} : u \in KeyClaimers(k) <=> u \in KeyClaimers(k)'
    BY DEF LetsBe, KeyClaimers
  <2>2. Turn(keyLock[k], keyLock'[k], t, KeyClaimers(k), KeyClaimers(k)')
    BY DEF KeyTurn
  <2>3. Lists(keyLock'[k], KeyClaimers(k)')
    BY <1>1, <2>1, <2>2, TurnKept
  <2> QED
    BY <2>3 DEF Lists
<1>3. ASSUME NEW w \in Threads PROVE Lists(threadLock[w], ThreadClaimers(w))'
  <2>1. \A u \in Threads \ {t} : u \in ThreadClaimers(w) <=> u \in ThreadClaimers(w)'
    BY DEF LetsBe, ThreadClaimers
  <2>2. Turn(threadLock[w], threadLock'[w], t, ThreadClaimers(w), ThreadClaimers(w)')
    BY DEF ThreadTurn
  <2>3. Lists(threadLock'[w], ThreadClaimers(w)')
    BY <1>1, <2>1, <2>2, TurnKept
  <2> QED
    BY <2>3 DEF Lists
<1>4. ASSUME NEW u \in Threads \ {t} PROVE Finds(u)'
  <2>1. Finds(u) /\ pc'[u] = pc[u] /\ about'[u] = about[u] /\ iterations'[u] = iterations[u]
    BY DEF WaitInv, LetsBe
  <2>2. ASSUME pc[u] = "deleteKey"
        PROVE  /\ threads'[about[u]] # <<>>
               /\ \A w \in Threads : pc'[w] = "both" => about'[w] # about[u]
    <3>1. PICK k \in Keys : k = about[u] /\ u \in KeyClaimers(k)
      BY <2>2 DEF TsdInv, TsdType, Deleting, KeyClaimers
    <3>2. keyLock[k] # <<>>
      <4>1. keyLock[k] \in Seq(Threads) /\ Lists(keyLock[k], KeyClaimers(k))
        BY <1>1
      <4>2. \A x \in Threads : x \in KeyClaimers(k) => keyLock[k] # <<>>
        BY <4>1, OwnerListed
      <4> QED
        BY <3>1, <4>1, <4>2
    <3>3. \A w \in Threads : pc'[w] = "both" => about'[w] # about[u]
      BY <2>1, <2>2, <3>1, <3>2 DEF Finds, LetsBe
    <3>4. threads'[about[u]] # <<>>
      BY <2>1, <2>2 DEF Finds, LetsBe
    <3> QED
      BY <3>3, <3>4
  <2> QED
    BY <2>1, <2>2 DEF Finds
<1> QED
  BY <1>2, <1>3, <1>4 DEF WaitInv, Queued

\* A thread that holds no lock and has queued for none.
Free == {"user", "destructor", "again", "ended", "setValue", "deleteLast", "loop"}

LEMMA FreeClaimsNone ==
  ASSUME NEW t \in Threads
  PROVE  /\ pc[t] \in Free => /\ \A k \in Keys : t \notin KeyClaimers(k)
                             /\ \A w \in Threads : t \notin ThreadClaimers(w)
         /\ pc'[t] \in Free => /\ \A k \in Keys : t \notin KeyClaimers(k)'
                              /\ \A w \in Threads : t \notin ThreadClaimers(w)'
BY DEF Free, KeyClaimers, ThreadClaimers

\* A thread steps from one place to another.
Steps(t, l, k) ==
  /\ pc' = [pc EXCEPT ![t] = l] /\ about' = [about EXCEPT ![t] = k]
  /\ \A u \in Threads \ {t} : target'[u] = target[u] /\ iterations'[u] = iterations[u]

LEMMA StepsTo ==
  ASSUME TsdInv, NEW t \in Threads, NEW l, NEW k, Steps(t, l, k)
  PROVE  /\ pc'[t] = l /\ about'[t] = k
         /\ \A u \in Threads \ {t} :
              /\ pc'[u] = pc[u] /\ about'[u] = about[u] /\ target'[u] = target[u]
              /\ iterations'[u] = iterations[u]
BY DEF Steps, TsdInv, TsdType, TypeOK

\* One queue is entered or left.
LEMMA KeyTurns ==
  ASSUME TsdInv, NEW t \in Threads, NEW k \in Keys,
         \/ /\ keyLock' = [keyLock EXCEPT ![k] = Append(@, t)]
            /\ t \notin KeyClaimers(k) /\ t \in KeyClaimers(k)'
         \/ /\ keyLock' = [keyLock EXCEPT ![k] = Tail(@)]
            /\ Holds(t, keyLock[k]) /\ t \notin KeyClaimers(k)',
         \A j \in Keys \ {k} : t \in KeyClaimers(j) <=> t \in KeyClaimers(j)'
  PROVE  KeyTurn(t)
<1>1. keyLock \in [Keys -> Seq(Threads)]
  BY DEF TsdInv, TsdType, TypeOK
<1>2. \A j \in Keys \ {k} : keyLock'[j] = keyLock[j]
  BY <1>1
<1>3. Turn(keyLock[k], keyLock'[k], t, KeyClaimers(k), KeyClaimers(k)')
  BY <1>1 DEF Turn
<1>4. \A j \in Keys \ {k} : Turn(keyLock[j], keyLock'[j], t, KeyClaimers(j), KeyClaimers(j)')
  BY <1>2 DEF Turn
<1> QED
  BY <1>3, <1>4 DEF KeyTurn

LEMMA ThreadTurns ==
  ASSUME TsdInv, NEW t \in Threads, NEW w \in Threads,
         \/ /\ threadLock' = [threadLock EXCEPT ![w] = Append(@, t)]
            /\ t \notin ThreadClaimers(w) /\ t \in ThreadClaimers(w)'
         \/ /\ threadLock' = [threadLock EXCEPT ![w] = Tail(@)]
            /\ Holds(t, threadLock[w]) /\ t \notin ThreadClaimers(w)',
         \A j \in Threads \ {w} : t \in ThreadClaimers(j) <=> t \in ThreadClaimers(j)'
  PROVE  ThreadTurn(t)
<1>1. threadLock \in [Threads -> Seq(Threads)]
  BY DEF TsdInv, TsdType, TypeOK
<1>2. \A j \in Threads \ {w} : threadLock'[j] = threadLock[j]
  BY <1>1
<1>3. Turn(threadLock[w], threadLock'[w], t, ThreadClaimers(w), ThreadClaimers(w)')
  BY <1>1 DEF Turn
<1>4. \A j \in Threads \ {w} :
        Turn(threadLock[j], threadLock'[j], t, ThreadClaimers(j), ThreadClaimers(j)')
  BY <1>2 DEF Turn
<1> QED
  BY <1>3, <1>4 DEF ThreadTurn

\* A step that leaves the locks and the associations alone.
LEMMA QuietKept ==
  ASSUME TsdInv, WaitInv, NEW t \in Threads, NEW l, NEW k, Steps(t, l, k), iterations' = iterations,
         UNCHANGED <<keyLock, threadLock, threads>>,
         l \notin {"both", "deleteKey", "selfWait"},
         l \in {"destructor", "again", "round"} \cup Round => iterations[t] # 0,
         \A j \in Keys : t \in KeyClaimers(j) <=> t \in KeyClaimers(j)',
         \A w \in Threads : t \in ThreadClaimers(w) <=> t \in ThreadClaimers(w)'
  PROVE  WaitInv'
<1>1. LetsBe(t)
  BY StepsTo DEF LetsBe
<1>2. KeyTurn(t) /\ ThreadTurn(t)
  BY DEF KeyTurn, ThreadTurn, Turn
<1>3. Finds(t)'
  BY StepsTo DEF Finds
<1> QED
  BY <1>1, <1>2, <1>3, WaitKept

LEMMA WaitsCreate ==
  ASSUME TsdInv, WaitInv, NEW t \in Threads, NEW k \in Keys, KeyCreate(t, k)
  PROVE  WaitInv'
<1>1. UNCHANGED <<pc, about, target, iterations, keyLock, threadLock, threads>>
  BY DEF KeyCreate, locks, chains, rounds, call
<1> QED
  BY <1>1 DEF WaitInv, Queued, Finds, Lists, KeyClaimers, ThreadClaimers

LEMMA WaitsSpecific ==
  ASSUME TsdInv, WaitInv, NEW t \in Threads, NEW k \in Keys, SetSpecific(t, k)
  PROVE  WaitInv'
<1>1. CASE UNCHANGED <<pc, about, target, iterations, keyLock, threadLock, threads>>
  BY <1>1 DEF WaitInv, Queued, Finds, Lists, KeyClaimers, ThreadClaimers
<1>2. ASSUME NEW v,
             /\ keyLock' = [keyLock EXCEPT ![k] = Append(@, t)] /\ pc[t] \in Free
             /\ pc' = [pc EXCEPT ![t] = "setKey"] /\ about' = [about EXCEPT ![t] = k]
             /\ target' = [target EXCEPT ![t] = v]
             /\ UNCHANGED <<threadLock, threads, iterations>>
      PROVE  WaitInv'
  <2>1. Steps(t, "setKey", k)
    BY <1>2 DEF Steps, TsdInv, TsdType
  <2>2. LetsBe(t)
    BY <1>2, <2>1, StepsTo DEF LetsBe
  <2>3. KeyTurn(t)
    <3>1. t \in KeyClaimers(k)' /\ \A j \in Keys \ {k} : t \notin KeyClaimers(j)'
      BY <2>1, StepsTo DEF KeyClaimers
    <3> QED
      BY <1>2, <3>1, FreeClaimsNone, KeyTurns
  <2>4. ThreadTurn(t)
    BY <1>2, <2>1, StepsTo, FreeClaimsNone DEF ThreadTurn, Turn, ThreadClaimers
  <2>5. Finds(t)'
    BY <2>1, StepsTo DEF Finds, Round
  <2> QED
    BY <2>2, <2>3, <2>4, <2>5, WaitKept
<1>3. PICK v \in {0} \cup (IF values < MaxValues THEN {values + 1} ELSE {}) :
        \/ UNCHANGED <<keyLock, pc, about, target>>
        \/ /\ keyLock' = [keyLock EXCEPT ![k] = Append(@, t)]
           /\ pc' = [pc EXCEPT ![t] = "setKey"] /\ about' = [about EXCEPT ![t] = k]
           /\ target' = [target EXCEPT ![t] = v]
  BY DEF SetSpecific, Goto, Calls, call
<1>4. pc[t] \in Free /\ UNCHANGED <<threadLock, threads, iterations>>
  BY DEF SetSpecific, InProgram, Free, chains, rounds
<1> QED
  BY <1>1, <1>2, <1>3, <1>4

LEMMA WaitsSetThread ==
  ASSUME TsdInv, WaitInv, NEW t \in Threads, SetThread(t)
  PROVE  WaitInv'
<1>1. PICK k \in Keys : k = about[t]
  BY DEF SetThread, TsdInv, TsdType, Setting
<1>2. /\ pc[t] = "setKey" /\ threadLock' = [threadLock EXCEPT ![t] = Append(@, t)]
      /\ UNCHANGED <<keyLock, threads, iterations>> /\ Steps(t, "setThread", k)
  BY <1>1 DEF SetThread, Goto, Steps, chains, rounds, call, TsdInv, TsdType, TypeOK
<1>3. LetsBe(t)
  BY <1>2, StepsTo DEF LetsBe
<1>4. KeyTurn(t)
  BY <1>1, <1>2, StepsTo DEF KeyTurn, Turn, KeyClaimers
<1>5. ThreadTurn(t)
  <2>1. /\ t \notin ThreadClaimers(t) /\ t \in ThreadClaimers(t)'
        /\ \A w \in Threads \ {t} : t \notin ThreadClaimers(w) /\ t \notin ThreadClaimers(w)'
    BY <1>2, StepsTo DEF ThreadClaimers
  <2> QED
    BY <1>2, <2>1, ThreadTurns
<1>6. Finds(t)'
  BY <1>2, StepsTo DEF Finds, Round
<1> QED
  BY <1>3, <1>4, <1>5, <1>6, WaitKept

\* The association is made or there, or there is no memory for it.
LEMMA WaitsAssociate ==
  ASSUME TsdInv, WaitInv, NEW t \in Threads, Associate(t)
  PROVE  WaitInv'
<1>1. PICK k \in Keys : k = about[t]
  BY DEF Associate, TsdInv, TsdType, Setting
<1>2. PICK l \in {"setValue", "user", "destructor"}, j \in Keys \cup {None} :
        /\ Steps(t, l, j) /\ (l = "destructor" => iterations[t] # 0)
        /\ threads' = threads \/ threads' = [threads EXCEPT ![k] = <<t>> \o @]
  <2>1. CASE Goto(t, "setValue") /\ UNCHANGED call
    BY <1>1, <2>1 DEF Associate, Goto, Steps, call, rounds, TsdInv, TsdType, TypeOK
  <2>2. CASE Return(t)
    BY <2>2 DEF Associate, Goto, Calls, Return, Steps, call, rounds, TsdInv, TsdType, TypeOK
  <2> QED
    BY <1>1, <2>1, <2>2 DEF Associate
<1>3. /\ pc[t] = "setThread" /\ Holds(t, threadLock[t]) /\ Holds(t, keyLock[k])
      /\ threadLock' = [threadLock EXCEPT ![t] = Tail(@)]
      /\ keyLock' = [keyLock EXCEPT ![k] = Tail(@)] /\ iterations' = iterations
  BY <1>1 DEF Associate, rounds, TsdInv, Owns
<1>4. LetsBe(t)
  <2>1. key[k] = "live" /\ \A u \in Threads : pc[u] \in Deleting => key[about[u]] = "deleted"
    BY <1>1, <1>3 DEF TsdInv, Phase, Setting
  <2>2. \A u \in Threads : pc[u] \in Deleting => about[u] \in Keys \ {k}
    BY <2>1 DEF TsdInv, TsdType
  <2>3. \A i \in Keys \ {k} : threads'[i] = threads[i]
    BY <1>2 DEF TsdInv, TsdType, TypeOK
  <2> QED
    BY <1>2, <2>2, <2>3, StepsTo DEF LetsBe, Deleting
<1>5. pc'[t] \in Free
  BY <1>2, StepsTo DEF Free
<1>6. KeyTurn(t)
  <2>1. \A i \in Keys \ {k} : t \notin KeyClaimers(i)
    BY <1>1 DEF KeyClaimers
  <2> QED
    BY <1>3, <1>5, <2>1, FreeClaimsNone, KeyTurns
<1>7. ThreadTurn(t)
  <2>1. \A w \in Threads \ {t} : t \notin ThreadClaimers(w)
    BY <1>3 DEF ThreadClaimers
  <2> QED
    BY <1>3, <1>5, <2>1, FreeClaimsNone, ThreadTurns
<1>8. Finds(t)'
  BY <1>2, <1>3, StepsTo DEF Finds, Round
<1> QED
  BY <1>4, <1>6, <1>7, <1>8, WaitKept

LEMMA WaitsSetValue ==
  ASSUME TsdInv, WaitInv, NEW t \in Threads, SetValue(t)
  PROVE  WaitInv'
<1>1. PICK l \in {"user", "destructor"} : l = IF iterations[t] = 0 THEN "user" ELSE "destructor"
  OBVIOUS
<1>2. /\ Steps(t, l, None) /\ iterations' = iterations /\ pc[t] \in Free
      /\ UNCHANGED <<keyLock, threadLock, threads>>
  BY <1>1 DEF SetValue, Goto, Calls, Return, Steps, Free, locks, chains, rounds, TsdInv, TsdType
<1>3. l \in Free /\ pc'[t] = l
  BY <1>1, <1>2, StepsTo DEF Free
<1> QED
  BY <1>1, <1>2, <1>3, FreeClaimsNone, QuietKept DEF Round

\* An ending thread that has the association in its hands would be one with a
\* value for the key that ends, and the guard excludes it.
LEMMA WaitsDelete ==
  ASSUME NoneEndsAtDelete, TsdInv, WaitInv, NEW t \in Threads, NEW k \in Keys, KeyDelete(t, k)
  PROVE  WaitInv'
<1>1. /\ pc[t] \in Free /\ UNCHANGED <<threadLock, threads, iterations>>
      /\ \A u \in Threads \ {t} : Contains(threads[k], u) => iterations[u] = 0
  BY DEF KeyDelete, NoneEndsAtDelete, InProgram, Free, chains, rounds
<1>2. CASE threads[k] = <<>>
  <2>1. Steps(t, "deleteLast", k) /\ keyLock' = keyLock
    BY <1>1, <1>2 DEF KeyDelete, Goto, Calls, Steps, TsdInv, TsdType
  <2>2. pc'[t] \in Free
    BY <2>1, StepsTo DEF Free
  <2> QED
    BY <1>1, <2>1, <2>2, FreeClaimsNone, QuietKept DEF Round
<1>3. CASE threads[k] # <<>>
  <2>1. Steps(t, "deleteKey", k) /\ keyLock' = [keyLock EXCEPT ![k] = Append(@, t)]
    BY <1>1, <1>3 DEF KeyDelete, Goto, Calls, Steps, TsdInv, TsdType
  <2>2. LetsBe(t)
    BY <1>1, <2>1, StepsTo DEF LetsBe
  <2>3. KeyTurn(t)
    <3>1. t \in KeyClaimers(k)' /\ \A j \in Keys \ {k} : t \notin KeyClaimers(j)'
      BY <2>1, StepsTo DEF KeyClaimers
    <3> QED
      BY <1>1, <2>1, <3>1, FreeClaimsNone, KeyTurns
  <2>4. ThreadTurn(t)
    <3>1. \A w \in Threads : t \notin ThreadClaimers(w)'
      BY <2>1, StepsTo DEF ThreadClaimers
    <3> QED
      BY <1>1, <3>1, FreeClaimsNone DEF ThreadTurn, Turn
  <2>5. ASSUME NEW u \in Threads, pc'[u] = "both", about'[u] = k PROVE FALSE
    <3>1. u # t /\ pc[u] = "both" /\ about[u] = k
      BY <2>1, <2>5, StepsTo
    <3>2. nextAssoc[u] = k /\ k # None
      BY <3>1, TsdAssumption DEF TsdInv, Passes
    <3>3. Contains(threads[k], u)
      BY <3>2 DEF TsdInv, Chained
    <3> QED
      BY <1>1, <3>1, <3>3 DEF WaitInv, Finds, Round
  <2>6. Finds(t)'
    BY <1>1, <1>3, <2>1, <2>5, StepsTo DEF Finds, Round
  <2> QED
    BY <2>2, <2>3, <2>4, <2>6, WaitKept
<1> QED
  BY <1>2, <1>3

LEMMA WaitsDeleteKey ==
  ASSUME TsdInv, WaitInv, NEW t \in Threads, DeleteKey(t)
  PROVE  WaitInv'
<1>1. /\ pc[t] = "deleteKey" /\ Steps(t, "deleteLoop", about[t]) /\ iterations' = iterations
      /\ UNCHANGED <<keyLock, threadLock, threads>> /\ threads[about[t]] # <<>>
  BY DEF DeleteKey, Goto, Steps, locks, chains, rounds, call, TsdInv, TsdType, TypeOK, WaitInv,
       Finds
<1>2. \A j \in Keys : t \in KeyClaimers(j) <=> t \in KeyClaimers(j)'
  BY <1>1, StepsTo DEF KeyClaimers
<1>3. \A w \in Threads : t \in ThreadClaimers(w) <=> t \in ThreadClaimers(w)'
  BY <1>1, StepsTo DEF ThreadClaimers
<1>4. LetsBe(t)
  BY <1>1, StepsTo DEF LetsBe
<1>5. KeyTurn(t) /\ ThreadTurn(t)
  BY <1>1, <1>2, <1>3 DEF KeyTurn, ThreadTurn, Turn
<1>6. Finds(t)'
  BY <1>1, StepsTo DEF Finds, Round
<1> QED
  BY <1>4, <1>5, <1>6, WaitKept

LEMMA WaitsDeleteLoop ==
  ASSUME TsdInv, WaitInv, NEW t \in Threads, DeleteLoop(t)
  PROVE  WaitInv'
<1>1. PICK k \in Keys : k = about[t]
  BY DEF DeleteLoop, TsdInv, TsdType, Deleting
<1>2. pc[t] = "deleteLoop" /\ UNCHANGED <<keyLock, threads, iterations>>
  BY DEF DeleteLoop, chains, rounds
<1>3. CASE threads[k] = <<>>
  <2>1. Steps(t, "deleteLast", k) /\ threadLock' = threadLock
    BY <1>1, <1>2, <1>3 DEF DeleteLoop, Goto, Steps, TsdInv, TsdType, TypeOK
  <2>2. pc'[t] \in Free
    BY <2>1, StepsTo DEF Free
  <2>3. \A j \in Keys : t \notin KeyClaimers(j)
    BY <1>1, <1>2, <1>3 DEF KeyClaimers
  <2>4. \A w \in Threads : t \notin ThreadClaimers(w)
    BY <1>2 DEF ThreadClaimers
  <2> QED
    BY <1>2, <2>1, <2>2, <2>3, <2>4, FreeClaimsNone, QuietKept DEF Round
<1>4. CASE threads[k] # <<>>
  <2>1. PICK w \in Threads : w = Head(threads[k])
    BY <1>4, HeadTailProperties DEF TsdInv, TsdType, TypeOK
  <2>2. /\ Steps(t, "deleteThread", k) /\ target' = [target EXCEPT ![t] = w]
        /\ threadLock' = [threadLock EXCEPT ![w] = Append(@, t)]
    BY <1>1, <1>2, <1>4, <2>1 DEF DeleteLoop, Goto, Steps, TsdInv, TsdType, TypeOK
  <2>3. LetsBe(t)
    BY <1>2, <2>2, StepsTo DEF LetsBe
  <2>4. KeyTurn(t)
    <3>1. \A j \in Keys : t \in KeyClaimers(j) <=> t \in KeyClaimers(j)'
      BY <1>1, <1>2, <1>4, <2>2, StepsTo DEF KeyClaimers
    <3> QED
      BY <1>2, <3>1 DEF KeyTurn, Turn
  <2>5. ThreadTurn(t)
    <3>1. target'[t] = w
      BY <2>2 DEF TsdInv, TsdType
    <3>2. /\ t \in ThreadClaimers(w)' /\ \A j \in Threads : t \notin ThreadClaimers(j)
          /\ \A j \in Threads \ {w} : t \notin ThreadClaimers(j)'
      BY <1>2, <2>2, <3>1, StepsTo DEF ThreadClaimers
    <3> QED
      BY <2>2, <3>2, ThreadTurns
  <2>6. Finds(t)'
    BY <2>2, StepsTo DEF Finds, Round
  <2> QED
    BY <2>3, <2>4, <2>5, <2>6, WaitKept
<1> QED
  BY <1>3, <1>4

\* The only association of the key is gone with both locks.
LEMMA WaitsDeleteAssoc ==
  ASSUME TsdInv, WaitInv, NEW t \in Threads, DeleteAssoc(t)
  PROVE  WaitInv'
<1>1. PICK k \in Keys : k = about[t]
  BY DEF DeleteAssoc, TsdInv, TsdType, Deleting
<1>2. PICK w \in Threads : w = target[t]
  BY DEF DeleteAssoc, TsdInv, TsdType
<1>3. /\ pc[t] = "deleteThread" /\ Holds(t, threadLock[w]) /\ Holds(t, keyLock[k])
      /\ Contains(threads[k], w) /\ Contains(keys[w], k) /\ Len(threads[k]) <= 1
  BY <1>1, <1>2 DEF DeleteAssoc, TsdInv, Owns, Phase, Deleting, Chained
<1>4. /\ TkAssocDestroy(w, k) /\ Steps(t, "deleteLoop", k)
      /\ threadLock' = [threadLock EXCEPT ![w] = Tail(@)]
      /\ keyLock' = [keyLock EXCEPT ![k] = Tail(@)]
  BY <1>1, <1>2, <1>3 DEF DeleteAssoc, Goto, Calls, Steps, rounds, TsdInv, TsdType
<1>5. threads'[k] = <<>> /\ \A j \in Keys \ {k} : threads'[j] = threads[j]
  BY <1>3, <1>4, Destroyed DEF Gone
<1>6. LetsBe(t)
  <2>1. \A u \in Threads \ {t} : pc[u] \in {"deleteKey", "deleteLoop"} => about[u] \in Keys \ {k}
    BY <1>1, <1>3 DEF TsdInv, TsdType, OneDeleter, Deleting
  <2> QED
    BY <1>4, <1>5, <2>1, StepsTo DEF LetsBe
<1>7. KeyTurn(t)
  <2>1. t \notin KeyClaimers(k)'
    BY <1>4, <1>5, StepsTo DEF KeyClaimers
  <2>2. \A j \in Keys \ {k} : t \notin KeyClaimers(j) /\ t \notin KeyClaimers(j)'
    BY <1>1, <1>4, StepsTo DEF KeyClaimers
  <2> QED
    BY <1>3, <1>4, <2>1, <2>2, KeyTurns
<1>8. ThreadTurn(t)
  <2>1. \A j \in Threads : t \notin ThreadClaimers(j)'
    BY <1>4, StepsTo DEF ThreadClaimers
  <2>2. \A j \in Threads \ {w} : t \notin ThreadClaimers(j)
    BY <1>2, <1>3 DEF ThreadClaimers
  <2> QED
    BY <1>3, <1>4, <2>1, <2>2, ThreadTurns
<1>9. Finds(t)'
  BY <1>4, StepsTo DEF Finds, Round
<1> QED
  BY <1>6, <1>7, <1>8, <1>9, WaitKept

\* A thread comes here without the lock, so that it queues behind others only.
LEMMA WaitsDeleteLast ==
  ASSUME TsdInv, WaitInv, NEW t \in Threads, DeleteLast(t)
  PROVE  WaitInv'
<1>1. PICK k \in Keys : k = about[t]
  BY DEF DeleteLast, TsdInv, TsdType, Deleting
<1>2. pc[t] = "deleteLast" /\ pc[t] \in Free /\ UNCHANGED <<threadLock, threads, iterations>>
  BY DEF DeleteLast, Free, chains, rounds
<1>3. CASE destructor[k]
  <2>1. ~Holds(t, keyLock[k])
    <3>1. keyLock[k] \in Seq(Threads) /\ Lists(keyLock[k], KeyClaimers(k))
      BY DEF TsdInv, TsdType, TypeOK, WaitInv, Queued
    <3>2. Holds(t, keyLock[k]) => t \in KeyClaimers(k)
      BY <3>1, OwnerListed
    <3> QED
      BY <1>2, <3>2, FreeClaimsNone
  <2>2. Steps(t, "deleteWait", k) /\ keyLock' = [keyLock EXCEPT ![k] = Append(@, t)]
    BY <1>1, <1>2, <1>3, <2>1 DEF DeleteLast, Goto, Steps, call, TsdInv, TsdType, TypeOK
  <2>3. LetsBe(t)
    BY <1>2, <2>2, StepsTo DEF LetsBe
  <2>4. KeyTurn(t)
    <3>1. t \in KeyClaimers(k)' /\ \A j \in Keys \ {k} : t \notin KeyClaimers(j)'
      BY <2>2, StepsTo DEF KeyClaimers
    <3> QED
      BY <1>2, <2>2, <3>1, FreeClaimsNone, KeyTurns
  <2>5. ThreadTurn(t)
    <3>1. \A w \in Threads : t \notin ThreadClaimers(w)'
      BY <2>2, StepsTo DEF ThreadClaimers
    <3> QED
      BY <1>2, <3>1, FreeClaimsNone DEF ThreadTurn, Turn
  <2>6. Finds(t)'
    BY <2>2, StepsTo DEF Finds, Round
  <2> QED
    BY <2>3, <2>4, <2>5, <2>6, WaitKept
<1>4. CASE ~destructor[k]
  <2>1. PICK l \in {"user", "destructor"} : l = IF iterations[t] = 0 THEN "user" ELSE "destructor"
    OBVIOUS
  <2>2. Steps(t, l, None) /\ keyLock' = keyLock
    BY <1>1, <1>2, <1>4, <2>1 DEF DeleteLast, Goto, Calls, Return, Steps, TsdInv, TsdType
  <2>3. l \in Free /\ pc'[t] = l
    BY <2>1, <2>2, StepsTo DEF Free
  <2> QED
    BY <1>2, <2>1, <2>2, <2>3, FreeClaimsNone, QuietKept DEF Round
<1> QED
  BY <1>3, <1>4

LEMMA WaitsDeleteEnds ==
  ASSUME TsdInv, WaitInv, NEW t \in Threads, DeleteEnds(t)
  PROVE  WaitInv'
<1>1. PICK k \in Keys : k = about[t]
  BY DEF DeleteEnds, TsdInv, TsdType, Waiting
<1>2. PICK l \in {"user", "destructor"} : l = IF iterations[t] = 0 THEN "user" ELSE "destructor"
  OBVIOUS
<1>3. /\ pc[t] = "deleteWait" /\ Holds(t, keyLock[k]) /\ Steps(t, l, None)
      /\ keyLock' = [keyLock EXCEPT ![k] = Tail(@)]
      /\ UNCHANGED <<threadLock, threads, iterations>>
  BY <1>1, <1>2 DEF DeleteEnds, Goto, Calls, Return, Steps, chains, rounds, TsdInv, TsdType
<1>4. pc'[t] = l /\ pc'[t] \in Free
  BY <1>2, <1>3, StepsTo DEF Free
<1>5. LetsBe(t)
  BY <1>2, <1>3, <1>4, StepsTo DEF LetsBe
<1>6. KeyTurn(t)
  <2>1. \A j \in Keys \ {k} : t \notin KeyClaimers(j)
    BY <1>1 DEF KeyClaimers
  <2> QED
    BY <1>3, <1>4, <2>1, FreeClaimsNone, KeyTurns
<1>7. ThreadTurn(t)
  <2>1. \A w \in Threads : t \notin ThreadClaimers(w)
    BY <1>3 DEF ThreadClaimers
  <2> QED
    BY <1>3, <1>4, <2>1, FreeClaimsNone DEF ThreadTurn, Turn
<1>8. Finds(t)'
  BY <1>2, <1>3, <1>4, StepsTo DEF Finds, Round
<1> QED
  BY <1>5, <1>6, <1>7, <1>8, WaitKept

\* A thread queues for its own lock, to begin a round or to come to an association.
LEMMA WaitsOwnLock ==
  ASSUME TsdInv, WaitInv, NEW t \in Threads, BeginRound(t) \/ Loop(t)
  PROVE  WaitInv'
<1>1. PICK l \in {"round", "next"} :
        /\ Steps(t, l, about[t]) /\ pc[t] \in Free
        /\ threadLock' = [threadLock EXCEPT ![t] = Append(@, t)]
        /\ UNCHANGED <<keyLock, threads>>
        /\ iterations'[t] # 0
  <2>1. CASE BeginRound(t)
    <3>1. iterations[t] \in Nat /\ iterations'[t] = iterations[t] + 1
      BY <2>1, TsdAssumption DEF BeginRound, TsdInv, TsdType, TypeOK
    <3>2. /\ Steps(t, "round", about[t]) /\ pc[t] \in Free
          /\ threadLock' = [threadLock EXCEPT ![t] = Append(@, t)]
          /\ UNCHANGED <<keyLock, threads>>
      BY <2>1 DEF BeginRound, Goto, Steps, Free, call, chains, TsdInv, TsdType, TypeOK
    <3> QED
      BY <3>1, <3>2
  <2>2. CASE Loop(t)
    BY <2>2 DEF Loop, Goto, Steps, Free, call, chains, rounds, TsdInv, TsdType, TypeOK, WaitInv,
         Finds, Round
  <2> QED
    BY <2>1, <2>2
<1>2. LetsBe(t)
  BY <1>1, StepsTo DEF LetsBe
<1>3. KeyTurn(t)
  <2>1. \A j \in Keys : t \notin KeyClaimers(j)'
    BY <1>1, StepsTo DEF KeyClaimers
  <2> QED
    BY <1>1, <2>1, FreeClaimsNone DEF KeyTurn, Turn
<1>4. ThreadTurn(t)
  <2>1. t \in ThreadClaimers(t)' /\ \A w \in Threads \ {t} : t \notin ThreadClaimers(w)'
    BY <1>1, StepsTo DEF ThreadClaimers
  <2> QED
    BY <1>1, <2>1, FreeClaimsNone, ThreadTurns
<1>5. Finds(t)'
  BY <1>1, StepsTo DEF Finds
<1> QED
  BY <1>2, <1>3, <1>4, <1>5, WaitKept

\* A thread lets go of its own lock: the chain is looked at, a key is busy, or
\* the chain has come to its end.
LEMMA WaitsLetsGo ==
  ASSUME TsdInv, WaitInv, NEW t \in Threads, NEW l \in {"loop", "again", "ended"},
         pc[t] \in {"round", "next"}, Holds(t, threadLock[t]), Steps(t, l, about[t]),
         threadLock' = [threadLock EXCEPT ![t] = Tail(@)],
         UNCHANGED <<keyLock, threads, iterations>>
  PROVE  WaitInv'
<1>1. pc'[t] = l /\ l \in Free /\ iterations'[t] # 0
  BY StepsTo DEF Free, WaitInv, Finds, Round
<1>2. LetsBe(t)
  BY <1>1, StepsTo DEF LetsBe
<1>3. KeyTurn(t)
  <2>1. \A j \in Keys : t \notin KeyClaimers(j)
    BY DEF KeyClaimers
  <2> QED
    BY <1>1, <2>1, FreeClaimsNone DEF KeyTurn, Turn
<1>4. ThreadTurn(t)
  <2>1. \A w \in Threads \ {t} : t \notin ThreadClaimers(w)
    BY DEF ThreadClaimers
  <2> QED
    BY <1>1, <2>1, FreeClaimsNone, ThreadTurns
<1>5. Finds(t)'
  BY <1>1 DEF Finds
<1> QED
  BY <1>2, <1>3, <1>4, <1>5, WaitKept

LEMMA WaitsNext ==
  ASSUME TsdInv, WaitInv, NEW t \in Threads, First(t) \/ NextAssoc(t)
  PROVE  WaitInv'
<1>1. CASE First(t)
  <2>1. Steps(t, "loop", about[t])
    BY <1>1 DEF First, Goto, Steps, call, rounds, TsdInv, TsdType, TypeOK
  <2> QED
    BY <1>1, <2>1, WaitsLetsGo DEF First, rounds
<1>2. CASE NextAssoc(t) /\ ~(nextAssoc[t] # None /\ keyLock[nextAssoc[t]] = <<>>)
  <2>1. PICK l \in {"loop", "again", "ended"} :
          /\ Steps(t, l, about[t]) /\ keyLock' = keyLock
          /\ threadLock' = [threadLock EXCEPT ![t] = Tail(@)]
    BY <1>2 DEF NextAssoc, TryKey, Goto, Steps, rounds, TsdInv, TsdType, TypeOK
  <2>2. /\ pc[t] = "next" /\ Holds(t, threadLock[t]) /\ UNCHANGED <<threads, iterations>>
    BY <1>2 DEF NextAssoc, chains, rounds
  <2> QED
    BY <2>1, <2>2, WaitsLetsGo
<1>3. CASE NextAssoc(t) /\ nextAssoc[t] # None /\ keyLock[nextAssoc[t]] = <<>>
  <2>1. PICK k \in Keys : k = nextAssoc[t]
    BY <1>3 DEF TsdInv, TsdType, TypeOK
  <2>2. /\ pc[t] = "next" /\ UNCHANGED <<threadLock, threads, iterations>>
        /\ Steps(t, "both", k) /\ keyLock[k] = <<>> /\ keyLock' = [keyLock EXCEPT ![k] = <<t>>]
    BY <1>3, <2>1 DEF NextAssoc, TryKey, Goto, Steps, chains, rounds, TsdInv, TsdType, TypeOK
  <2>3. keyLock' = [keyLock EXCEPT ![k] = Append(@, t)]
    BY <2>2
  <2>4. LetsBe(t)
    BY <2>2, StepsTo DEF LetsBe
  <2>5. KeyTurn(t)
    <3>1. t \in KeyClaimers(k)' /\ t \notin KeyClaimers(k)
          /\ \A j \in Keys \ {k} : t \notin KeyClaimers(j) /\ t \notin KeyClaimers(j)'
      BY <2>2, StepsTo DEF KeyClaimers
    <3> QED
      BY <2>3, <3>1, KeyTurns
  <2>6. ThreadTurn(t)
    <3>1. \A w \in Threads : t \in ThreadClaimers(w) <=> t \in ThreadClaimers(w)'
      BY <2>2, StepsTo DEF ThreadClaimers
    <3> QED
      BY <2>2, <3>1 DEF ThreadTurn, Turn
  <2>7. Finds(t)'
    BY <2>2, StepsTo DEF Finds, WaitInv, Round
  <2> QED
    BY <2>4, <2>5, <2>6, <2>7, WaitKept
<1> QED
  BY <1>1, <1>2, <1>3

\* Nobody deletes the key whose association is taken: one who waited would be in
\* the queue that was empty, and one who has got the lock is not its owner.
LEMMA WaitsBoth ==
  ASSUME TsdInv, WaitInv, NEW t \in Threads, BothLocks(t)
  PROVE  WaitInv'
<1>1. PICK k \in Keys : k = about[t]
  BY DEF BothLocks, TsdInv, TsdType
<1>2. /\ pc[t] = "both" /\ Holds(t, keyLock[k]) /\ Holds(t, threadLock[t]) /\ iterations[t] # 0
      /\ Contains(keys[t], k) /\ Contains(threads[k], t)
  <2>1. nextAssoc[t] = k /\ k # None
    BY <1>1, TsdAssumption DEF BothLocks, TsdInv, Passes
  <2> QED
    BY <1>1, <2>1 DEF BothLocks, TsdInv, Owns, Chained, WaitInv, Finds, Round
<1>3. PICK l \in {"destructor", "loop"} :
        /\ Steps(t, l, None) /\ (threads' = threads \/ TkAssocDestroy(t, k))
  BY <1>1 DEF BothLocks, Goto, Calls, Steps, TsdInv, TsdType, TypeOK
<1>4. /\ threadLock' = [threadLock EXCEPT ![t] = Tail(@)]
      /\ keyLock' = [keyLock EXCEPT ![k] = Tail(@)] /\ iterations' = iterations
  BY <1>1 DEF BothLocks
<1>5. pc'[t] = l /\ pc'[t] \in Free
  BY <1>3, StepsTo DEF Free
<1>6. LetsBe(t)
  <2>1. \A j \in Keys \ {k} : threads'[j] = threads[j]
    BY <1>2, <1>3, Destroyed DEF Gone
  <2>2. ASSUME NEW u \in Threads \ {t}, pc[u] \in {"deleteKey", "deleteLoop"}
        PROVE  about[u] \in Keys \ {k}
    <3>1. about[u] \in Keys
      BY <2>2 DEF TsdInv, TsdType, Deleting
    <3>2. pc[u] = "deleteKey" => about[u] # k
      BY <1>1, <1>2 DEF WaitInv, Finds
    <3>3. pc[u] = "deleteLoop" /\ about[u] = k => Holds(u, keyLock[k])
      BY <1>2 DEF TsdInv, Owns, Contains
    <3>4. Holds(u, keyLock[k]) => u = t
      BY <1>2 DEF Holds
    <3> QED
      BY <2>2, <3>1, <3>2, <3>3, <3>4
  <2> QED
    BY <1>3, <1>4, <1>5, <2>1, <2>2, StepsTo DEF LetsBe
<1>7. KeyTurn(t)
  <2>1. \A j \in Keys \ {k} : t \notin KeyClaimers(j)
    BY <1>1 DEF KeyClaimers
  <2> QED
    BY <1>2, <1>4, <1>5, <2>1, FreeClaimsNone, KeyTurns
<1>8. ThreadTurn(t)
  <2>1. \A w \in Threads \ {t} : t \notin ThreadClaimers(w)
    BY <1>2 DEF ThreadClaimers
  <2> QED
    BY <1>2, <1>4, <1>5, <2>1, FreeClaimsNone, ThreadTurns
<1>9. Finds(t)'
  BY <1>2, <1>4, <1>5 DEF Finds
<1> QED
  BY <1>6, <1>7, <1>8, <1>9, WaitKept

LEMMA WaitsDestructor ==
  ASSUME TsdInv, WaitInv, NEW t \in Threads, DestructorReturns(t)
  PROVE  WaitInv'
<1>1. /\ Steps(t, "loop", about[t]) /\ iterations' = iterations /\ iterations[t] # 0
      /\ UNCHANGED <<keyLock, threadLock, threads>> /\ pc[t] \in Free
  BY DEF DestructorReturns, Goto, Steps, Free, locks, chains, rounds, call, TsdInv, TsdType,
     TypeOK, WaitInv, Finds
<1>2. pc'[t] \in Free
  BY <1>1, StepsTo DEF Free
<1> QED
  BY <1>1, <1>2, FreeClaimsNone, QuietKept

LEMMA WaitStep ==
  OneThreadAtDelete /\ NoneEndsAtDelete /\ TsdInv /\ WaitInv /\ [Next]_vars => WaitInv'
<1> SUFFICES ASSUME NoneEndsAtDelete, TsdInv, WaitInv, [Next]_vars PROVE WaitInv'
  OBVIOUS
<1>1. CASE UNCHANGED vars
  <2>1. UNCHANGED <<pc, about, target, iterations, keyLock, threadLock, threads>>
    BY <1>1 DEF vars, locks, chains, call, rounds
  <2> QED
    BY <2>1 DEF WaitInv, Queued, Finds, Lists, KeyClaimers, ThreadClaimers
<1>2. CASE Next
  <2>1. PICK t \in Threads :
          \/ \E k \in Keys : KeyCreate(t, k) \/ SetSpecific(t, k) \/ KeyDelete(t, k)
          \/ BeginRound(t) \/ DestructorReturns(t) \/ InCall(t)
    BY <1>2 DEF Next
  <2>2. ASSUME NEW k \in Keys, KeyCreate(t, k) \/ SetSpecific(t, k) \/ KeyDelete(t, k)
        PROVE  WaitInv'
    BY <2>2, WaitsCreate, WaitsSpecific, WaitsDelete
  <2>3. CASE SetThread(t) \/ Associate(t) \/ SetValue(t)
    BY <2>3, WaitsSetThread, WaitsAssociate, WaitsSetValue
  <2>4. CASE DeleteKey(t) \/ DeleteLoop(t) \/ DeleteAssoc(t) \/ DeleteLast(t) \/ DeleteEnds(t)
    BY <2>4, WaitsDeleteKey, WaitsDeleteLoop, WaitsDeleteAssoc, WaitsDeleteLast, WaitsDeleteEnds
  <2>5. CASE BeginRound(t) \/ First(t) \/ Loop(t) \/ DestructorReturns(t)
    BY <2>5, WaitsOwnLock, WaitsNext, WaitsDestructor
  <2>6. CASE NextAssoc(t) \/ BothLocks(t)
    BY <2>6, WaitsNext, WaitsBoth
  <2> QED
    BY <2>1, <2>2, <2>3, <2>4, <2>5, <2>6 DEF InCall
<1> QED
  BY <1>1, <1>2

LEMMA WaitStart == Init => WaitInv
<1> SUFFICES ASSUME Init PROVE WaitInv
  OBVIOUS
<1>1. \A t \in Threads : pc[t] = "user" /\ pc[t] \in Free
  BY DEF Init, Free
<1>2. \A k \in Keys : keyLock[k] = <<>> /\ \A t \in Threads : t \notin KeyClaimers(k)
  BY <1>1, FreeClaimsNone DEF Init
<1>3. \A w \in Threads : threadLock[w] = <<>> /\ \A t \in Threads : t \notin ThreadClaimers(w)
  BY <1>1, FreeClaimsNone DEF Init
<1>4. ASSUME NEW S, \A t \in Threads : t \notin S PROVE Lists(<<>>, S)
  BY <1>4 DEF Lists, Once, Contains
<1>5. Queued
  BY <1>2, <1>3, <1>4 DEF Queued
<1> QED
  BY <1>1, <1>5 DEF WaitInv, Finds, Round

\* Who waits for a key has its owner ahead, who at most waits for a thread's lock;
\* and who waits for the lock of a thread has one ahead that waits for nothing.
LEMMA AheadGoesOn ==
  ASSUME TsdInv, WaitInv
  PROVE  /\ \A t \in Threads, k \in Keys :
              t \in KeyClaimers(k) =>
                LET h == Head(keyLock[k]) IN
                /\ h \in Threads
                /\ Waits(h) => pc[h] \in {"setThread", "deleteThread"}
         /\ \A t, w \in Threads :
              t \in ThreadClaimers(w) =>
                Head(threadLock[w]) \in Threads /\ ~Waits(Head(threadLock[w]))
<1>1. ASSUME NEW t \in Threads, NEW k \in Keys, t \in KeyClaimers(k)
      PROVE  LET h == Head(keyLock[k]) IN
             h \in Threads /\ (Waits(h) => pc[h] \in {"setThread", "deleteThread"})
  <2>1. keyLock[k] \in Seq(Threads) /\ Lists(keyLock[k], KeyClaimers(k))
    BY DEF TsdInv, TsdType, TypeOK, WaitInv, Queued
  <2>2. PICK h \in Threads : h = Head(keyLock[k]) /\ h \in KeyClaimers(k) /\ Holds(h, keyLock[k])
    BY <1>1, <2>1, OwnerListed
  <2> QED
    BY <2>2 DEF Waits, KeyClaimers
<1>2. ASSUME NEW t \in Threads, NEW w \in Threads, t \in ThreadClaimers(w)
      PROVE  Head(threadLock[w]) \in Threads /\ ~Waits(Head(threadLock[w]))
  <2>1. threadLock[w] \in Seq(Threads) /\ Lists(threadLock[w], ThreadClaimers(w))
    BY DEF TsdInv, TsdType, TypeOK, WaitInv, Queued
  <2>2. PICK h \in Threads :
          h = Head(threadLock[w]) /\ h \in ThreadClaimers(w) /\ Holds(h, threadLock[w])
    BY <1>2, <2>1, OwnerListed
  <2> QED
    BY <2>2 DEF Waits, ThreadClaimers
<1> QED
  BY <1>1, <1>2

\* A thread in pthread_setspecific, in pthread_key_delete or at its end that waits
\* for a lock has one ahead of it that can go on, at most two owners away, although
\* the ending thread takes threadLock and keyLock in the opposite order, and no
\* thread ever queues behind itself in the last lines of pthread_key_delete.c.
THEOREM LocksAlwaysPassOn ==
  OneThreadAtDelete /\ NoneEndsAtDelete => (Spec => []LocksPassOn)
<1> SUFFICES ASSUME OneThreadAtDelete, NoneEndsAtDelete PROVE Spec => []LocksPassOn
  OBVIOUS
<1>1. (TsdInv /\ WaitInv) /\ [Next]_vars => (TsdInv /\ WaitInv)'
  BY TsdStep, WaitStep
<1>2. TsdInv /\ WaitInv => LocksPassOn
  <2> SUFFICES ASSUME TsdInv, WaitInv, NEW t \in Threads, Waits(t)
               PROVE  /\ pc[t] # "selfWait" /\ Ahead(t) \in Threads
                      /\ Waits(Ahead(t)) => Ahead(Ahead(t)) \in Threads /\ ~Waits(Ahead(Ahead(t)))
    BY DEF LocksPassOn
  <2>1. pc[t] # "selfWait"
    BY DEF WaitInv, Finds
  <2>2. ASSUME NEW u \in Threads, Waits(u), pc[u] \in {"setThread", "deleteThread", "round", "next"}
        PROVE  Ahead(u) \in Threads /\ ~Waits(Ahead(u))
    <3>1. PICK w \in Threads : w = IF pc[u] = "deleteThread" THEN target[u] ELSE u
      BY <2>2 DEF TsdInv, TsdType
    <3>2. u \in ThreadClaimers(w) /\ Ahead(u) = Head(threadLock[w])
      BY <2>2, <3>1 DEF ThreadClaimers, Ahead
    <3> QED
      BY <3>1, <3>2, AheadGoesOn
  <2>3. CASE pc[t] \in {"setKey", "deleteKey", "deleteWait"}
    <3>1. PICK k \in Keys : k = about[t]
      BY <2>3 DEF TsdInv, TsdType, Setting, Deleting, Waiting
    <3>2. t \in KeyClaimers(k) /\ Ahead(t) = Head(keyLock[k])
      BY <2>3, <3>1 DEF KeyClaimers, Ahead
    <3>3. PICK h \in Threads : h = Ahead(t) /\ (Waits(h) => pc[h] \in {"setThread", "deleteThread"})
      BY <3>1, <3>2, AheadGoesOn
    <3> QED
      BY <2>1, <2>2, <3>3
  <2>4. CASE pc[t] \in {"setThread", "deleteThread", "round", "next"}
    BY <2>1, <2>2, <2>4
  <2> QED
    BY <2>1, <2>3, <2>4 DEF Waits
<1>3. Init => TsdInv /\ WaitInv
  BY TsdStart, WaitStart
<1> QED
  BY <1>1, <1>2, <1>3, PTL DEF Spec
=============================================================================
