------------------------- MODULE PipeMsgReadProofs -------------------------
(***************************************************************************)
(* What PipeMsgRead and PipeNames promise, for every pipe and path, every  *)
(* set of timeouts and every bound.                                        *)
(***************************************************************************)
EXTENDS PipeMsgRead, PipeNames, SequenceTheorems, TLAPS

-----------------------------------------------------------------------------
(* The inductive invariant of the messages *)

\* The cells p of messages with the sizes z: each message is there to its end,
\* and the next one follows, up to the last that was written.
Stream(p, z) ==
  /\ \A i \in DOMAIN p : p[i].m \in DOMAIN z /\ p[i].k \in 0 .. z[p[i].m]
  /\ \A i \in DOMAIN p : \A d \in Nat : p[i].k + d <= z[p[i].m] =>
       i + d \in DOMAIN p /\ p[i + d] = [m |-> p[i].m, k |-> p[i].k + d]
  /\ \A i \in DOMAIN p : p[i].k = z[p[i].m] =>
       IF i = Len(p) THEN p[i].m = Len(z) ELSE p[i + 1] = [m |-> p[i].m + 1, k |-> 0]

Types ==
  /\ pipe \in Seq(Cell) /\ size \in Seq(0 .. MaxBody) /\ result \in Seq(Seq(Cell))
  /\ pc \in [Readers -> {"off", "select", "expired", "header", "body"}]
  /\ msgsz \in [Readers -> Int] /\ buf \in [Readers -> Seq(Cell)]
  /\ Len(size) <= MaxMsg /\ Len(result) <= Len(size)

\* A reader in the middle of a message has its header, and the body waits.
InBody(r) ==
  /\ buf[r] = <<[m |-> Len(result) + 1, k |-> 0]>>
  /\ msgsz[r] # 0 /\ msgsz[r] = size[Len(result) + 1]

Framing ==
  /\ Types
  /\ Stream(pipe, size)
  /\ \A i \in DOMAIN result : result[i] = Cells(i, size[i])
  /\ \A r \in Readers :
       /\ pc[r] \in {"header", "body"} => pipe # <<>>
       /\ pc[r] = "body" => InBody(r)
  /\ IF pipe = <<>>
       THEN Len(result) = Len(size)
       ELSE pipe[1] = [m |-> Len(result) + 1,
                       k |-> IF \E r \in Readers : pc[r] = "body" THEN 1 ELSE 0]

-----------------------------------------------------------------------------
(* Cells are written behind, and taken in front *)

LEMMA CellsOf ==
  ASSUME NEW m \in 1 .. MaxMsg, NEW n \in 0 .. MaxBody
  PROVE  /\ Cells(m, n) \in Seq(Cell) /\ Len(Cells(m, n)) = n + 1
         /\ \A i \in 1 .. n + 1 : Cells(m, n)[i] = [m |-> m, k |-> i - 1]
<1>1. \A i \in 1 .. n + 1 : [m |-> m, k |-> i - 1] \in Cell
  BY PipeAssumption DEF Cell
<1>2. n + 1 \in Nat
  BY PipeAssumption
<1> QED
  BY <1>1, <1>2 DEF Cells

LEMMA StreamPut ==
  ASSUME NEW p \in Seq(Cell), NEW z \in Seq(0 .. MaxBody), Stream(p, z), Len(z) < MaxMsg,
         NEW n \in 0 .. MaxBody
  PROVE  LET c == Cells(Len(z) + 1, n) IN
         /\ p \o c \in Seq(Cell) /\ Stream(p \o c, Append(z, n)) /\ p \o c # <<>>
         /\ (p \o c)[1] = IF p = <<>> THEN [m |-> Len(z) + 1, k |-> 0] ELSE p[1]
<1>1. PICK l \in Nat, L \in Nat : l = Len(p) /\ L = Len(z) + 1
  OBVIOUS
<1>2. L \in 1 .. MaxMsg
  BY <1>1, PipeAssumption
<1>3. PICK c : c = Cells(L, n)
  OBVIOUS
<1>4. /\ c \in Seq(Cell) /\ Len(c) = n + 1
      /\ \A i \in 1 .. n + 1 : c[i] = [m |-> L, k |-> i - 1]
  BY <1>2, <1>3, CellsOf
<1>5. PICK q \in Seq(Cell) : q = p \o c
  BY <1>4, ConcatProperties
<1>6. n \in Nat /\ Len(q) = l + (n + 1) /\ DOMAIN q = 1 .. l + (n + 1) /\ DOMAIN p = 1 .. l
  <2>1. n \in Nat
    BY PipeAssumption
  <2>2. Len(q) = Len(p) + Len(c)
    BY <1>4, <1>5, ConcatProperties
  <2>3. DOMAIN q = 1 .. Len(q) /\ DOMAIN p = 1 .. Len(p)
    OBVIOUS
  <2> QED
    BY <1>1, <1>4, <2>1, <2>2, <2>3
<1>7. \A i \in 1 .. l : i \in DOMAIN q /\ q[i] = p[i]
  BY <1>1, <1>4, <1>5, <1>6, ConcatProperties
<1>8. \A i \in 1 .. n + 1 : l + i \in DOMAIN q /\ q[l + i] = [m |-> L, k |-> i - 1]
  <2> SUFFICES ASSUME NEW i \in 1 .. n + 1
               PROVE  l + i \in DOMAIN q /\ q[l + i] = [m |-> L, k |-> i - 1]
    OBVIOUS
  <2>1. l + i \in DOMAIN q /\ ~(l + i <= l) /\ (l + i) - l = i
    BY <1>6
  <2>2. q[l + i] = c[(l + i) - l]
    BY <1>1, <1>4, <1>5, <1>6, <2>1, ConcatProperties, SMTT(30)
  <2> QED
    BY <1>4, <2>1, <2>2
<1>9. PICK y : y = Append(z, n)
  OBVIOUS
<1>10. /\ Len(y) = L /\ DOMAIN y = 1 .. L /\ DOMAIN z = 1 .. L - 1 /\ y[L] = n
       /\ \A i \in DOMAIN z : i \in DOMAIN y /\ i # L /\ y[i] = z[i] /\ z[i] \in Nat
  BY <1>1, <1>9, PipeAssumption
<1>11. \A i \in DOMAIN q : i \in 1 .. l \/ \E j \in 1 .. n + 1 : i = l + j
  <2> SUFFICES ASSUME NEW i \in DOMAIN q, i \notin 1 .. l
               PROVE  \E j \in 1 .. n + 1 : i = l + j
    OBVIOUS
  <2>1. i - l \in 1 .. n + 1 /\ i = l + (i - l)
    BY <1>6
  <2> QED
    BY <2>1
<1>12. ASSUME NEW i \in DOMAIN q
       PROVE  /\ q[i].m \in DOMAIN y /\ q[i].k \in 0 .. y[q[i].m]
              /\ \A d \in Nat : q[i].k + d <= y[q[i].m] =>
                   i + d \in DOMAIN q /\ q[i + d] = [m |-> q[i].m, k |-> q[i].k + d]
              /\ q[i].k = y[q[i].m] =>
                   IF i = Len(q) THEN q[i].m = Len(y) ELSE q[i + 1] = [m |-> q[i].m + 1, k |-> 0]
  <2>1. CASE i \in 1 .. l
    <3>1. q[i] = p[i] /\ p[i].m \in DOMAIN z /\ y[p[i].m] = z[p[i].m] /\ p[i].k \in 0 .. z[p[i].m]
      BY <1>6, <1>7, <1>10, <2>1 DEF Stream
    <3>2. ASSUME NEW d \in Nat, p[i].k + d <= z[p[i].m]
          PROVE  i + d \in DOMAIN q /\ q[i + d] = [m |-> p[i].m, k |-> p[i].k + d]
      BY <1>6, <1>7, <2>1, <3>2 DEF Stream
    <3>3. ASSUME p[i].k = z[p[i].m]
          PROVE  IF i = Len(q) THEN p[i].m = Len(y) ELSE q[i + 1] = [m |-> p[i].m + 1, k |-> 0]
      <4>1. i # Len(q)
        BY <1>6, <2>1
      <4>2. CASE i = l
        <5>1. p[i].m = Len(z)
          <6>1. i \in DOMAIN p /\ i = Len(p)
            BY <1>1, <1>6, <2>1, <4>2
          <6>2. IF i = Len(p) THEN p[i].m = Len(z) ELSE p[i + 1] = [m |-> p[i].m + 1, k |-> 0]
            BY <3>3, <6>1 DEF Stream
          <6> QED
            BY <6>1, <6>2
        <5>2. q[l + 1] = [m |-> L, k |-> 1 - 1]
          <6>1. 1 \in 1 .. n + 1
            BY <1>6
          <6> QED
            BY <1>8, <6>1
        <5> QED
          BY <1>1, <4>1, <4>2, <5>1, <5>2
      <4>3. CASE i # l
        <5>1. p[i + 1] = [m |-> p[i].m + 1, k |-> 0] /\ i + 1 \in 1 .. l
          BY <1>1, <1>6, <2>1, <3>3, <4>3, SMTT(30) DEF Stream
        <5> QED
          BY <1>7, <4>1, <5>1
      <4> QED
        BY <4>2, <4>3
    <3> QED
      BY <1>10, <3>1, <3>2, <3>3
  <2>2. ASSUME NEW j \in 1 .. n + 1, i = l + j
        PROVE  /\ q[i].m \in DOMAIN y /\ q[i].k \in 0 .. y[q[i].m]
               /\ \A d \in Nat : q[i].k + d <= y[q[i].m] =>
                    i + d \in DOMAIN q /\ q[i + d] = [m |-> q[i].m, k |-> q[i].k + d]
               /\ q[i].k = y[q[i].m] =>
                    IF i = Len(q) THEN q[i].m = Len(y) ELSE q[i + 1] = [m |-> q[i].m + 1, k |-> 0]
    <3>1. q[i] = [m |-> L, k |-> j - 1] /\ y[L] = n /\ L \in DOMAIN y
      BY <1>2, <1>8, <1>10, <2>2
    <3>2. ASSUME NEW d \in Nat, (j - 1) + d <= n
          PROVE  i + d \in DOMAIN q /\ q[i + d] = [m |-> L, k |-> (j - 1) + d]
      <4>1. j + d \in 1 .. n + 1 /\ i + d = l + (j + d) /\ (j + d) - 1 = (j - 1) + d
        BY <1>6, <2>2, <3>2
      <4>2. q[l + (j + d)] = [m |-> L, k |-> (j + d) - 1] /\ l + (j + d) \in DOMAIN q
        BY <1>8, <4>1
      <4> QED
        BY <4>1, <4>2
    <3>3. j - 1 \in 0 .. n /\ (j - 1 = n => i = Len(q))
      BY <1>6, <2>2
    <3> QED
      BY <1>10, <3>1, <3>2, <3>3
  <2> QED
    BY <1>11, <2>1, <2>2
<1>13. Stream(q, y)
  BY <1>12 DEF Stream
<1>14. q # <<>> /\ q[1] = IF p = <<>> THEN [m |-> L, k |-> 0] ELSE p[1]
  <2>1. CASE p = <<>>
    <3>1. l = 0
      BY <1>1, <2>1
    <3>2. q[0 + 1] = [m |-> L, k |-> 1 - 1]
      BY <1>6, <1>8, <3>1
    <3> QED
      BY <1>6, <2>1, <3>2
  <2>2. CASE p # <<>>
    <3>1. 1 \in 1 .. l
      BY <1>1, <2>2
    <3> QED
      BY <1>6, <1>7, <2>2, <3>1
  <2> QED
    BY <2>1, <2>2
<1> QED
  BY <1>1, <1>3, <1>5, <1>9, <1>13, <1>14

LEMMA StreamTake ==
  ASSUME NEW p \in Seq(Cell), NEW z \in Seq(0 .. MaxBody), Stream(p, z),
         NEW n \in Nat, n <= Len(p)
  PROVE  LET q == SubSeq(p, n + 1, Len(p)) IN
         /\ q \in Seq(Cell) /\ Stream(q, z) /\ (q = <<>> <=> n = Len(p))
         /\ q # <<>> => q[1] = p[n + 1]
<1>1. PICK l \in Nat : l = Len(p) /\ DOMAIN p = 1 .. l
  OBVIOUS
<1>2. PICK q : q = SubSeq(p, n + 1, Len(p))
  OBVIOUS
<1>3. \A i \in n + 1 .. l : p[i] \in Cell
  BY <1>1
<1>4. /\ q \in Seq(Cell) /\ Len(q) = l - n
      /\ \A i \in 1 .. l - n : q[i] = p[n + i]
  <2>1. /\ SubSeq(p, n + 1, l) \in Seq(Cell)
        /\ Len(SubSeq(p, n + 1, l)) = (IF n + 1 <= l THEN (l - (n + 1)) + 1 ELSE 0)
        /\ \A i \in 1 .. (l - (n + 1)) + 1 : SubSeq(p, n + 1, l)[i] = p[((n + 1) + i) - 1]
    BY <1>1, <1>3, SubSeqProperties
  <2>2. (l - (n + 1)) + 1 = l - n /\ (IF n + 1 <= l THEN (l - (n + 1)) + 1 ELSE 0) = l - n
    BY <1>1
  <2>3. \A i \in 1 .. l - n : ((n + 1) + i) - 1 = n + i
    BY <1>1
  <2> QED
    BY <1>1, <1>2, <2>1, <2>2, <2>3
<1>5. DOMAIN q = 1 .. l - n /\ \A i \in DOMAIN q : n + i \in DOMAIN p /\ q[i] = p[n + i]
  BY <1>1, <1>4, SMTT(30)
<1>6. ASSUME NEW i \in DOMAIN q
      PROVE  /\ q[i].m \in DOMAIN z /\ q[i].k \in 0 .. z[q[i].m]
             /\ \A d \in Nat : q[i].k + d <= z[q[i].m] =>
                  i + d \in DOMAIN q /\ q[i + d] = [m |-> q[i].m, k |-> q[i].k + d]
             /\ q[i].k = z[q[i].m] =>
                  IF i = Len(q) THEN q[i].m = Len(z) ELSE q[i + 1] = [m |-> q[i].m + 1, k |-> 0]
  <2>1. q[i] = p[n + i] /\ n + i \in DOMAIN p /\ i \in Nat
    BY <1>5
  <2>2. /\ p[n + i].m \in DOMAIN z /\ p[n + i].k \in 0 .. z[p[n + i].m]
        /\ \A d \in Nat : p[n + i].k + d <= z[p[n + i].m] =>
             (n + i) + d \in DOMAIN p /\ p[(n + i) + d] = [m |-> p[n + i].m, k |-> p[n + i].k + d]
        /\ p[n + i].k = z[p[n + i].m] =>
             IF n + i = l THEN p[n + i].m = Len(z)
               ELSE p[(n + i) + 1] = [m |-> p[n + i].m + 1, k |-> 0]
    BY <1>1, <2>1 DEF Stream
  <2>3. \A d \in Nat : (n + i) + d \in DOMAIN p => i + d \in DOMAIN q /\ (n + i) + d = n + (i + d)
    BY <1>1, <1>5
  <2>4. n + i = l <=> i = Len(q)
    BY <1>1, <1>4, <2>1
  <2>5. \A d \in Nat : (n + i) + d \in DOMAIN p => i + d \in DOMAIN q /\ q[i + d] = p[(n + i) + d]
    BY <1>5, <2>3
  <2>6. i # Len(q) => (n + i) + 1 \in DOMAIN p
    BY <1>1, <2>1, <2>4
  <2>7. i # Len(q) => q[i + 1] = p[(n + i) + 1]
    BY <2>5, <2>6
  <2> QED
    BY ONLY <2>1, <2>2, <2>4, <2>5, <2>7
<1>7. Stream(q, z)
  BY <1>6 DEF Stream
<1>8. (q = <<>> <=> n = Len(p)) /\ (q # <<>> => q[1] = p[n + 1])
  <2>1. q = <<>> <=> Len(q) = 0
    BY <1>4
  <2>2. q # <<>> => 1 \in 1 .. l - n
    BY <1>1, <1>4, <2>1
  <2> QED
    BY <1>1, <1>4, <2>1, <2>2
<1> QED
  BY <1>2, <1>4, <1>7, <1>8

-----------------------------------------------------------------------------
(* Steps *)

LEMMA FramingInit == Init => Framing
<1> SUFFICES ASSUME Init PROVE Framing
  OBVIOUS
<1> USE DEF Init
<1>1. msgsz \in [Readers -> Int]
  <2>1. 0 .. MaxBody \subseteq Int
    BY PipeAssumption
  <2> QED
    BY <2>1
<1>2. MaxMsg \in Nat
  BY PipeAssumption
<1>3. Types
  BY <1>1, <1>2 DEF Types
<1>4. Stream(<<>>, <<>>)
  BY DEF Stream
<1> QED
  BY <1>3, <1>4 DEF Framing

LEMMA Lengths ==
  ASSUME Framing
  PROVE  /\ pipe \in Seq(Cell) /\ size \in Seq(0 .. MaxBody) /\ result \in Seq(Seq(Cell))
         /\ Len(pipe) \in Nat /\ Len(size) \in Nat /\ Len(result) \in Nat
         /\ DOMAIN pipe = 1 .. Len(pipe) /\ DOMAIN size = 1 .. Len(size)
         /\ DOMAIN result = 1 .. Len(result)
         /\ Len(size) <= MaxMsg /\ Len(result) <= Len(size) /\ MaxMsg \in Nat /\ MaxBody \in Nat
<1>1. pipe \in Seq(Cell) /\ size \in Seq(0 .. MaxBody) /\ result \in Seq(Seq(Cell))
  BY DEF Framing, Types
<1>2. Len(pipe) \in Nat /\ DOMAIN pipe = 1 .. Len(pipe)
  BY <1>1
<1>3. Len(size) \in Nat /\ DOMAIN size = 1 .. Len(size)
  BY <1>1
<1>4. Len(result) \in Nat /\ DOMAIN result = 1 .. Len(result)
  BY <1>1
<1>5. Len(size) <= MaxMsg /\ Len(result) <= Len(size) /\ MaxMsg \in Nat /\ MaxBody \in Nat
  BY PipeAssumption DEF Framing, Types
<1> QED
  BY <1>1, <1>2, <1>3, <1>4, <1>5

\* While cells wait, the message after those taken was written.
LEMMA NextMessage ==
  ASSUME Framing, pipe # <<>>
  PROVE  \E m \in 1 .. MaxMsg, n \in 0 .. MaxBody :
           /\ m = Len(result) + 1 /\ m \in DOMAIN size /\ n = size[m]
           /\ pipe[1].m = m /\ 1 \in DOMAIN pipe /\ Head(pipe) = pipe[1]
<1>1. 1 \in DOMAIN pipe /\ Head(pipe) = pipe[1]
  BY Lengths
<1>2. pipe[1].m = Len(result) + 1
  BY DEF Framing
<1>3. Len(result) + 1 \in DOMAIN size
  BY <1>1, <1>2 DEF Framing, Stream
<1>4. size[Len(result) + 1] \in 0 .. MaxBody
  BY <1>3, Lengths
<1>5. Len(result) + 1 \in 1 .. MaxMsg
  BY <1>3, Lengths
<1> QED
  BY <1>1, <1>2, <1>3, <1>4, <1>5

\* The cells of one message more.
LEMMA FramingPut ==
  ASSUME Framing, NEW n \in 0 .. MaxBody, Len(size) < MaxMsg,
         pipe' = pipe \o Cells(Len(size) + 1, n), size' = Append(size, n),
         UNCHANGED <<pc, msgsz, buf, result>>
  PROVE  Framing'
<1>1. PICK z \in Seq(0 .. MaxBody) : z = size
  BY Lengths
<1>2. /\ pipe' \in Seq(Cell) /\ Stream(pipe', size') /\ pipe' # <<>>
      /\ pipe'[1] = IF pipe = <<>> THEN [m |-> Len(size) + 1, k |-> 0] ELSE pipe[1]
  BY Lengths, StreamPut DEF Framing
<1>3. /\ size' \in Seq(0 .. MaxBody) /\ Len(size') = Len(size) + 1
      /\ \A i \in 1 .. Len(size) : size'[i] = size[i]
  BY <1>1
<1>4. Types'
  <2>1. Len(size') <= MaxMsg /\ Len(result') <= Len(size')
    BY <1>3, Lengths
  <2> QED
    BY <1>2, <1>3, <2>1 DEF Framing, Types
<1>5. \A i \in DOMAIN result : result'[i] = Cells(i, size'[i])
  <2>1. \A i \in DOMAIN result : size'[i] = size[i]
    BY <1>3, Lengths
  <2> QED
    BY <2>1 DEF Framing
<1>6. \A r \in Readers : pc[r] = "body" => InBody(r)'
  <2> SUFFICES ASSUME NEW r \in Readers, pc[r] = "body" PROVE InBody(r)'
    OBVIOUS
  <2>1. InBody(r) /\ pipe # <<>>
    BY DEF Framing
  <2>2. Len(result) + 1 \in 1 .. Len(size)
    BY <2>1, NextMessage, Lengths
  <2> QED
    BY <1>3, <2>1, <2>2 DEF InBody
<1>7. pipe'[1] = [m |-> Len(result) + 1, k |-> IF \E r \in Readers : pc[r] = "body" THEN 1 ELSE 0]
  BY <1>2 DEF Framing
<1> QED
  BY <1>2, <1>4, <1>5, <1>6, <1>7 DEF Framing

\* A reader that moves on and reads nothing.
LEMMA FramingMove ==
  ASSUME Framing, NEW r \in Readers, UNCHANGED <<pipe, size, msgsz, buf, result>>,
         pc[r] # "body", NEW l \in {"off", "select", "expired", "header"},
         pc' = [pc EXCEPT ![r] = l], l = "header" => pipe # <<>>
  PROVE  Framing'
<1>1. Types'
  BY DEF Framing, Types
<1>2. \A s \in Readers : /\ pc'[s] = "body" <=> pc[s] = "body"
                         /\ pc'[s] \in {"header", "body"} => pipe # <<>>
  BY DEF Framing, Types
<1> QED
  BY <1>1, <1>2 DEF Framing, InBody

\* The last cells of a message leave the pipe.
LEMMA FramingTaken ==
  ASSUME Framing, NEW r \in Readers, NEW n \in Nat, n \in DOMAIN pipe,
         NEW m \in 1 .. MaxMsg, NEW k \in 0 .. MaxBody,
         m = Len(result) + 1, m \in DOMAIN size, k = size[m],
         pipe[n] = [m |-> m, k |-> k],
         pipe' = SubSeq(pipe, n + 1, Len(pipe)),
         result' = Append(result, Cells(m, k)),
         pc' = [pc EXCEPT ![r] = "select"], \A s \in Readers : s # r => pc[s] = "off",
         msgsz' \in [Readers -> Int], buf' \in [Readers -> Seq(Cell)], size' = size
  PROVE  Framing'
<1>1. Cells(m, k) \in Seq(Cell)
  BY CellsOf
<1>2. PICK t \in Seq(Seq(Cell)), e \in Seq(Cell) : t = result /\ e = Cells(m, k)
  BY <1>1, Lengths
<1>3. /\ result' \in Seq(Seq(Cell)) /\ Len(result') = m /\ result'[m] = Cells(m, k)
      /\ \A i \in DOMAIN result' : (i \in DOMAIN result /\ result'[i] = result[i]) \/ i = m
  <2>1. /\ Append(t, e) \in Seq(Seq(Cell)) /\ Len(Append(t, e)) = Len(t) + 1
        /\ Append(t, e)[Len(t) + 1] = e
        /\ \A i \in DOMAIN Append(t, e) : (i \in DOMAIN t /\ Append(t, e)[i] = t[i]) \/ i = Len(t) + 1
    BY ONLY t \in Seq(Seq(Cell)), e \in Seq(Cell)
  <2> QED
    BY <1>2, <2>1
<1>4. n <= Len(pipe)
  BY Lengths
<1>5. /\ pipe' \in Seq(Cell) /\ Stream(pipe', size) /\ (pipe' = <<>> <=> n = Len(pipe))
      /\ pipe' # <<>> => pipe'[1] = pipe[n + 1]
  BY <1>4, Lengths, StreamTake DEF Framing
<1>6. pc' \in [Readers -> {"off", "select"}]
  BY DEF Framing, Types
<1>7. Types'
  <2>1. Len(size') <= MaxMsg /\ Len(result') <= Len(size')
    BY <1>3, Lengths
  <2> QED
    BY <1>3, <1>5, <1>6, <2>1 DEF Framing, Types
<1>8. IF n = Len(pipe) THEN m = Len(size) ELSE pipe[n + 1] = [m |-> m + 1, k |-> 0]
  <2>1. pipe[n].m = m /\ pipe[n].k = size[pipe[n].m] /\ Stream(pipe, size)
    BY DEF Framing
  <2> QED
    BY <2>1 DEF Stream
<1>9. \A s \in Readers : pc'[s] \notin {"header", "body"}
  BY <1>6
<1>10. IF pipe' = <<>> THEN Len(result') = Len(size) ELSE pipe'[1] = [m |-> Len(result') + 1, k |-> 0]
  BY <1>3, <1>5, <1>8
<1>11. \A i \in DOMAIN result' : result'[i] = Cells(i, size[i])
  BY <1>3 DEF Framing
<1> QED
  BY <1>5, <1>7, <1>9, <1>10, <1>11 DEF Framing

\* A message was taken: what takes it from the pipe appends its cells.
Takes ==
  /\ Len(result) < Len(size) /\ size' = size
  /\ result' = Append(result, Cells(Len(result) + 1, size[Len(result) + 1]))

\* The first read of readpipemsg_nb finds the header of the next message.
LEMMA FramingHeader ==
  ASSUME Framing, Sole, NEW r \in Readers, ReadHeader(r)
  PROVE  Framing' /\ (Takes \/ UNCHANGED <<result, size>>)
<1>1. pc[r] = "header" /\ pipe # <<>> /\ \A s \in Readers : s # r => pc[s] = "off"
  BY DEF ReadHeader, Sole
<1>2. PICK m \in 1 .. MaxMsg, n \in 0 .. MaxBody :
        /\ m = Len(result) + 1 /\ m \in DOMAIN size /\ n = size[m]
        /\ pipe[1].m = m /\ 1 \in DOMAIN pipe /\ Head(pipe) = pipe[1]
  BY <1>1, NextMessage
<1>3. pipe[1] = [m |-> m, k |-> 0] /\ n \in Nat
  <2>1. ~\E s \in Readers : pc[s] = "body"
    BY <1>1
  <2> QED
    BY <1>1, <1>2, <2>1, Lengths DEF Framing
<1>4. SizesAt(Head(pipe)) = {n}
  BY <1>2, <1>3 DEF SizesAt
<1>5. Len(result) < Len(size)
  BY <1>2, Lengths
<1>6. /\ pipe' = Tail(pipe) /\ size' = size /\ msgsz' = [msgsz EXCEPT ![r] = n]
      /\ IF n = 0
           THEN Success(r, <<pipe[1]>>)
           ELSE /\ pc' = [pc EXCEPT ![r] = "body"]
                /\ buf' = [buf EXCEPT ![r] = <<pipe[1]>>]
                /\ UNCHANGED result
  BY <1>2, <1>4 DEF ReadHeader
<1>7. Tail(pipe) = SubSeq(pipe, 1 + 1, Len(pipe))
  <2>1. \A q \in Seq(Cell) : q # <<>> => Tail(q) = SubSeq(q, 2, Len(q))
    BY TailIsSubSeq
  <2> QED
    BY <1>1, <2>1, Lengths
<1>8. <<pipe[1]>> \in Seq(Cell) /\ <<>> \in Seq(Cell)
  <2>1. pipe[1] \in Cell
    BY <1>2, Lengths
  <2> QED
    BY <2>1
<1>9. msgsz' \in [Readers -> Int] /\ buf \in [Readers -> Seq(Cell)]
  BY <1>3, <1>6 DEF Framing, Types
<1>10. CASE n = 0
  <2>1. Cells(m, n) = <<pipe[1]>>
    <3>1. Cells(m, n) = [i \in 1 .. 1 |-> [m |-> m, k |-> i - 1]]
      BY <1>10 DEF Cells
    <3>2. <<[m |-> m, k |-> 0]>> = [i \in 1 .. 1 |-> [m |-> m, k |-> i - 1]]
      OBVIOUS
    <3> QED
      BY <1>3, <3>1, <3>2
  <2>2. Success(r, <<pipe[1]>>)
    BY <1>6, <1>10
  <2>3. /\ result' = Append(result, Cells(m, n)) /\ pc' = [pc EXCEPT ![r] = "select"]
        /\ buf' \in [Readers -> Seq(Cell)]
    BY <1>8, <1>9, <2>1, <2>2 DEF Success
  <2>4. pipe[1] = [m |-> m, k |-> n]
    BY <1>3, <1>10
  <2>5. Framing'
    BY <1>1, <1>2, <1>6, <1>7, <1>9, <2>3, <2>4, FramingTaken
  <2> QED
    BY <1>2, <1>5, <1>6, <2>3, <2>5 DEF Takes
<1>11. CASE n # 0
  <2>1. pc' = [pc EXCEPT ![r] = "body"] /\ buf' = [buf EXCEPT ![r] = <<pipe[1]>>] /\ result' = result
    BY <1>6, <1>11
  <2>2. 1 + 1 \in DOMAIN pipe /\ pipe[1 + 1] = [m |-> m, k |-> 1]
    <3>1. pipe[1].k + 1 <= size[pipe[1].m]
      BY <1>2, <1>3, <1>11
    <3>2. 1 + 1 \in DOMAIN pipe /\ pipe[1 + 1] = [m |-> pipe[1].m, k |-> pipe[1].k + 1]
      BY <1>2, <3>1 DEF Framing, Stream
    <3> QED
      BY <1>3, <3>2
  <2>3. 1 <= Len(pipe)
    BY <2>2, Lengths
  <2>4. /\ pipe' \in Seq(Cell) /\ Stream(pipe', size) /\ (pipe' = <<>> <=> 1 = Len(pipe))
        /\ pipe' # <<>> => pipe'[1] = pipe[1 + 1]
    <3>1. /\ SubSeq(pipe, 1 + 1, Len(pipe)) \in Seq(Cell)
          /\ Stream(SubSeq(pipe, 1 + 1, Len(pipe)), size)
          /\ SubSeq(pipe, 1 + 1, Len(pipe)) = <<>> <=> 1 = Len(pipe)
          /\ SubSeq(pipe, 1 + 1, Len(pipe)) # <<>> =>
               SubSeq(pipe, 1 + 1, Len(pipe))[1] = pipe[1 + 1]
      <4>1. Stream(pipe, size)
        BY DEF Framing
      <4> QED
        BY <2>3, <4>1, Lengths, StreamTake
    <3> QED
      BY <1>6, <1>7, <3>1
  <2>5. pipe' # <<>> /\ pipe'[1] = [m |-> m, k |-> 1]
    <3>1. 1 # Len(pipe)
      BY <2>2, Lengths
    <3> QED
      BY <2>2, <2>4, <3>1
  <2>6. Types'
    BY <1>6, <1>8, <1>9, <2>1, <2>4 DEF Framing, Types
  <2>7. pc'[r] = "body" /\ buf'[r] = <<pipe[1]>> /\ msgsz'[r] = n
    BY <1>6, <2>1 DEF Framing, Types
  <2>8. InBody(r)'
    BY <1>2, <1>3, <1>6, <1>11, <2>1, <2>7 DEF InBody
  <2>9. \A s \in Readers : pc'[s] \in {"header", "body"} => s = r
    BY <1>1, <2>1
  <2>10. Framing'
    BY <1>2, <1>6, <2>1, <2>4, <2>5, <2>6, <2>7, <2>8, <2>9 DEF Framing
  <2> QED
    BY <1>6, <2>1, <2>10
<1> QED
  BY <1>10, <1>11

\* The second read finds all the rest of that message.
LEMMA FramingBody ==
  ASSUME Framing, Sole, NEW r \in Readers, ReadBody(r)
  PROVE  Framing' /\ Takes
<1>1. pc[r] = "body" /\ pipe # <<>> /\ \A s \in Readers : s # r => pc[s] = "off"
  BY DEF ReadBody, Sole
<1>2. PICK m \in 1 .. MaxMsg, n \in 0 .. MaxBody :
        /\ m = Len(result) + 1 /\ m \in DOMAIN size /\ n = size[m]
        /\ pipe[1].m = m /\ 1 \in DOMAIN pipe /\ Head(pipe) = pipe[1]
  BY <1>1, NextMessage
<1>3. n \in Nat
  BY Lengths
<1>4. InBody(r) /\ pipe[1] = [m |-> m, k |-> 1]
  BY <1>1, <1>2 DEF Framing
<1>5. n # 0 /\ msgsz[r] = n /\ buf[r] = <<[m |-> m, k |-> 0]>>
  BY <1>2, <1>4 DEF InBody
<1>6. ASSUME NEW i \in 1 .. n PROVE i \in DOMAIN pipe /\ pipe[i] = [m |-> m, k |-> i]
  <2>1. PICK d \in Nat : d = i - 1 /\ 1 + d = i
    BY <1>3
  <2>2. pipe[1].k + d <= size[pipe[1].m]
    BY <1>2, <1>3, <1>4, <2>1
  <2>3. 1 + d \in DOMAIN pipe /\ pipe[1 + d] = [m |-> pipe[1].m, k |-> pipe[1].k + d]
    BY <1>2, <2>2 DEF Framing, Stream
  <2> QED
    BY <1>4, <2>1, <2>3
<1>7. n \in DOMAIN pipe /\ pipe[n] = [m |-> m, k |-> n] /\ n <= Len(pipe)
  <2>1. n \in 1 .. n
    BY <1>3, <1>5
  <2> QED
    BY <1>6, <2>1, Lengths
<1>8. PICK t : t = SubSeq(pipe, 1, n)
  OBVIOUS
<1>9. PICK e : e = <<[m |-> m, k |-> 0]>>
  OBVIOUS
<1>10. pipe' = SubSeq(pipe, n + 1, Len(pipe)) /\ Success(r, e \o t) /\ UNCHANGED <<size, msgsz>>
  <2>1. PICK w : w = msgsz[r] + 1 - Len(buf[r])
    OBVIOUS
  <2>2. w = n /\ ~(Len(pipe) < w)
    BY <1>3, <1>5, <1>7, <2>1, Lengths
  <2> QED
    BY <1>5, <1>8, <1>9, <2>1, <2>2 DEF ReadBody
<1>11. e \o t = Cells(m, n) /\ Cells(m, n) \in Seq(Cell)
  <2>0. pipe \in Seq(Cell)
    BY Lengths
  <2>1. e \in Seq(Cell) /\ Len(e) = 1 /\ e[1] = [m |-> m, k |-> 0]
    <3>1. [m |-> m, k |-> 0] \in Cell
      BY Lengths DEF Cell
    <3> QED
      BY <1>9, <3>1
  <2>2. /\ t \in Seq(Cell) /\ Len(t) = n
        /\ \A i \in 1 .. n : t[i] = [m |-> m, k |-> i]
    <3>1. \A i \in 1 .. n : pipe[i] \in Cell
      <4> SUFFICES ASSUME NEW i \in 1 .. n PROVE pipe[i] \in Cell
        OBVIOUS
      <4>1. i \in DOMAIN pipe
        BY <1>6
      <4> QED
        BY ONLY <2>0, <4>1
    <3>2. /\ SubSeq(pipe, 1, n) \in Seq(Cell)
          /\ Len(SubSeq(pipe, 1, n)) = (IF 1 <= n THEN (n - 1) + 1 ELSE 0)
          /\ \A i \in 1 .. (n - 1) + 1 : SubSeq(pipe, 1, n)[i] = pipe[(1 + i) - 1]
      BY <1>3, <3>1, SubSeqProperties
    <3>3. (n - 1) + 1 = n /\ 1 <= n /\ \A i \in 1 .. n : (1 + i) - 1 = i
      BY <1>3, <1>5
    <3> QED
      BY <1>6, <1>8, <3>2, <3>3
  <2>3. /\ Cells(m, n) \in Seq(Cell) /\ Len(Cells(m, n)) = n + 1
        /\ \A i \in 1 .. n + 1 : Cells(m, n)[i] = [m |-> m, k |-> i - 1]
    BY CellsOf
  <2>4. /\ e \o t \in Seq(Cell) /\ Len(e \o t) = n + 1
        /\ \A i \in 1 .. n + 1 : (e \o t)[i] = IF i <= 1 THEN e[i] ELSE t[i - 1]
    <3>1. /\ e \o t \in Seq(Cell) /\ Len(e \o t) = Len(e) + Len(t)
          /\ \A i \in 1 .. Len(e) + Len(t) : (e \o t)[i] = IF i <= Len(e) THEN e[i] ELSE t[i - Len(e)]
      BY <2>1, <2>2, ConcatProperties
    <3>2. Len(e) + Len(t) = n + 1
      BY <1>3, <2>1, <2>2
    <3> QED
      BY <2>1, <3>1, <3>2
  <2>5. ASSUME NEW i \in 1 .. n + 1 PROVE (e \o t)[i] = Cells(m, n)[i]
    <3>1. CASE i = 1
      BY <2>1, <2>3, <2>4, <3>1
    <3>2. CASE i # 1
      <4>1. i - 1 \in 1 .. n /\ ~(i <= 1)
        BY <1>3, <3>2
      <4> QED
        BY <2>2, <2>3, <2>4, <4>1
    <3> QED
      BY <3>1, <3>2
  <2>6. PICK x \in Seq(Cell), y \in Seq(Cell) : x = e \o t /\ y = Cells(m, n)
    BY <2>3, <2>4
  <2>7. Len(x) = n + 1 /\ Len(y) = n + 1 /\ \A i \in 1 .. n + 1 : x[i] = y[i]
    BY <2>3, <2>4, <2>5, <2>6
  <2>8. x = y
    BY <2>7, SeqEqual
  <2> QED
    BY <2>3, <2>6, <2>8
<1>12. /\ result' = Append(result, Cells(m, n)) /\ pc' = [pc EXCEPT ![r] = "select"]
       /\ buf' \in [Readers -> Seq(Cell)] /\ msgsz' \in [Readers -> Int]
  BY <1>10, <1>11 DEF Success, Framing, Types
<1>13. Framing'
  BY <1>1, <1>2, <1>3, <1>7, <1>10, <1>12, FramingTaken
<1>14. Len(result) < Len(size)
  BY <1>2, Lengths
<1> QED
  BY <1>2, <1>10, <1>12, <1>13, <1>14 DEF Takes

-----------------------------------------------------------------------------
\* A step of the loops around one reader, and what it does to the messages.
Puts == Len(size) < MaxMsg /\ (\E n \in 0 .. MaxBody : size' = Append(size, n)) /\ result' = result

LEMMA FramingNext ==
  ASSUME Framing, Sole, [Next]_vars
  PROVE  Framing' /\ (Puts \/ Takes \/ UNCHANGED <<size, result>>)
<1>1. CASE Write
  <2>1. PICK n \in 0 .. MaxBody :
          /\ Len(size) < MaxMsg /\ pipe' = pipe \o Cells(Len(size) + 1, n)
          /\ size' = Append(size, n) /\ UNCHANGED <<pc, msgsz, buf, result>>
    BY <1>1 DEF Write
  <2> QED
    BY <2>1, FramingPut DEF Puts
<1>2. CASE WriteReply
  <2>1. \A n \in 1 .. MaxBody + 2 : (IF n > MaxBody THEN MaxBody ELSE n) \in 0 .. MaxBody
    BY Lengths
  <2>2. PICK n \in 1 .. MaxBody + 2 :
          LET cut == IF n > MaxBody THEN MaxBody ELSE n IN
          /\ pipe' = pipe \o Cells(Len(size) + 1, cut)
          /\ size' = Append(size, cut)
    BY <1>2 DEF WriteReply
  <2>3. PICK k \in 0 .. MaxBody : k = IF n > MaxBody THEN MaxBody ELSE n
    BY <2>1
  <2>4. /\ Len(size) < MaxMsg /\ pipe' = pipe \o Cells(Len(size) + 1, k)
        /\ size' = Append(size, k) /\ UNCHANGED <<pc, msgsz, buf, result>>
    BY <1>2, <2>2, <2>3 DEF WriteReply
  <2> QED
    BY <2>4, FramingPut DEF Puts
<1>3. ASSUME NEW r \in Readers, Open(r) \/ Select(r) \/ Expire(r) \/ CallAgain(r)
      PROVE  Framing' /\ UNCHANGED <<size, result>>
  <2>1. UNCHANGED <<pipe, size, msgsz, buf, result>>
    BY <1>3 DEF Open, Select, Expire, CallAgain, pipeVars
  <2>2. CASE Select(r)
    BY <2>1, <2>2, FramingMove DEF Select
  <2>3. CASE Open(r)
    BY <2>1, <2>3, FramingMove DEF Open
  <2>4. CASE Expire(r)
    BY <2>1, <2>4, FramingMove DEF Expire
  <2>5. CASE CallAgain(r)
    BY <2>1, <2>5, FramingMove DEF CallAgain
  <2> QED
    BY <1>3, <2>1, <2>2, <2>3, <2>4, <2>5
<1>4. ASSUME UNCHANGED <<pipeVars, pc>>
      PROVE  Framing' /\ UNCHANGED <<size, result>>
  BY <1>4 DEF pipeVars, Framing, Types, InBody
<1>5. ASSUME NEW r \in Readers, HeaderAgain(r)
      PROVE  FALSE
  BY <1>5 DEF HeaderAgain, Framing
<1> QED
  BY <1>1, <1>2, <1>3, <1>4, <1>5, FramingHeader, FramingBody DEF Next, Read, Tick, vars

\* A reader that came stays.
LEMMA OnceSole ==
  LET P == pc \in [Readers -> {"off", "select", "expired", "header", "body", "undefined"}] IN
  P /\ [Next]_vars => P' /\ (Sole' => Sole)
<1> DEFINE P == pc \in [Readers -> {"off", "select", "expired", "header", "body", "undefined"}]
<1> SUFFICES ASSUME P, [Next]_vars
             PROVE  P' /\ \A r \in Readers : pc[r] # "off" => pc'[r] # "off"
  BY DEF Sole
<1>1. CASE Write \/ WriteReply \/ UNCHANGED vars
  BY <1>1 DEF Write, WriteReply, vars
<1>2. ASSUME NEW r \in Readers,
             Open(r) \/ Select(r) \/ Tick(r) \/ Expire(r) \/ CallAgain(r) \/ Read(r)
      PROVE  \/ UNCHANGED pc
             \/ \E l \in {"select", "expired", "header", "body", "undefined"} :
                  pc' = [pc EXCEPT ![r] = l]
  <2>1. CASE Open(r) \/ Select(r) \/ Tick(r) \/ Expire(r) \/ CallAgain(r)
    BY <2>1 DEF Open, Select, Tick, Expire, CallAgain
  <2>2. CASE Read(r)
    BY <2>2 DEF Read, ReadHeader, HeaderAgain, ReadBody, Success
  <2> QED
    BY <1>2, <2>1, <2>2
<1> QED
  BY <1>1, <1>2 DEF Next

LEMMA FramingEver == Spec => [](Sole => Framing)
<1> DEFINE P == pc \in [Readers -> {"off", "select", "expired", "header", "body", "undefined"}]
<1>1. Init => P
  BY DEF Init
<1>2. P /\ (Sole => Framing) /\ [Next]_vars => P' /\ (Sole => Framing)'
  BY OnceSole, FramingNext
<1> QED
  BY <1>1, <1>2, FramingInit, PTL DEF Spec

\* However the writes, short reads and timeouts interleave, the only reader of a
\* pipe returns success with one whole message, the next that was written, and
\* never for a part of one: a callback, a client and the accept loop see messages.
THEOREM SuccessesAreMessages == Spec => []SuccessIsMessage
<1>1. Framing => WholeMessages
  <2> SUFFICES ASSUME Framing, NEW i \in DOMAIN result
               PROVE  result[i] # <<>> /\ result[i] = Cells(result[i][1].m, size[result[i][1].m])
    BY DEF WholeMessages
  <2>1. i \in 1 .. MaxMsg /\ i \in DOMAIN size
    BY Lengths
  <2>2. size[i] \in 0 .. MaxBody /\ MaxBody \in Nat
    BY <2>1, Lengths
  <2>3. result[i] = Cells(i, size[i])
    BY DEF Framing
  <2>4. Len(Cells(i, size[i])) = size[i] + 1 /\ Cells(i, size[i])[1] = [m |-> i, k |-> 1 - 1]
    <3>1. 1 \in 1 .. size[i] + 1
      BY <2>2
    <3> QED
      BY <2>1, <2>2, <3>1, CellsOf
  <2>5. result[i] # <<>>
    BY <2>2, <2>3, <2>4
  <2> QED
    BY <2>3, <2>4, <2>5
<1> QED
  BY <1>1, FramingEver, PTL DEF SuccessIsMessage

\* What a reader came to read is in the pipe, all of it.
ReadGoesOn ==
  \A r \in Readers :
    /\ pc[r] \in {"header", "body"} => pipe # <<>>
    /\ pc[r] = "body" => Len(pipe) >= msgsz[r]
    /\ pc[r] # "undefined"

\* The only reader of a pipe never finds it empty between its select() and the end
\* of the message: the EAGAIN of the header, after which the code would take what
\* an earlier call left in msgsz, is not met, and the next read of the body has
\* all its bytes, so that no worker spins in that loop.
THEOREM ReadNeverWaits == Spec => [](Sole => ReadGoesOn)
<1>1. Framing => ReadGoesOn
  <2> SUFFICES ASSUME Framing, NEW r \in Readers
               PROVE  /\ pc[r] \in {"header", "body"} => pipe # <<>>
                      /\ pc[r] = "body" => Len(pipe) >= msgsz[r]
                      /\ pc[r] # "undefined"
    BY DEF ReadGoesOn
  <2>1. (pc[r] \in {"header", "body"} => pipe # <<>>) /\ pc[r] # "undefined"
    BY DEF Framing, Types
  <2>2. ASSUME pc[r] = "body" PROVE Len(pipe) >= msgsz[r]
    <3>1. pipe # <<>> /\ pipe[1] = [m |-> Len(result) + 1, k |-> 1]
      BY <2>2 DEF Framing
    <3>2. PICK m \in 1 .. MaxMsg, n \in 0 .. MaxBody :
            m = Len(result) + 1 /\ m \in DOMAIN size /\ n = size[m] /\ 1 \in DOMAIN pipe
      BY <3>1, NextMessage
    <3>3. msgsz[r] = n
      BY <2>2, <3>2 DEF Framing, InBody
    <3>4. n \in Nat /\ 1 <= n
      BY <3>1, <3>2, Lengths DEF Framing, Stream
    <3>5. n - 1 \in Nat /\ 1 + (n - 1) = n
      BY <3>4
    <3>6. pipe[1].m = m /\ pipe[1].k = 1
      BY <3>1, <3>2
    <3>7. 1 + (n - 1) \in DOMAIN pipe
      <4>1. \A d \in Nat : pipe[1].k + d <= size[pipe[1].m] => 1 + d \in DOMAIN pipe
        BY <3>2 DEF Framing, Stream
      <4>2. \A d \in Nat : 1 + d <= n => 1 + d \in DOMAIN pipe
        BY <3>2, <3>6, <4>1
      <4> QED
        BY <3>4, <3>5, <4>2
    <3> QED
      BY <3>3, <3>4, <3>5, <3>7, Lengths
  <2> QED
    BY <2>1, <2>2
<1> QED
  BY <1>1, FramingEver, PTL

-----------------------------------------------------------------------------
(* The queue of messages *)

LEMMA AheadSeq ==
  ASSUME NEW n \in Nat, NEW m \in Nat, n <= m
  PROVE  /\ Ahead(n, m) \in Seq(Nat) /\ Len(Ahead(n, m)) = m - n
         /\ \A i \in 1 .. m - n : Ahead(n, m)[i] = n + i
<1>1. m - n \in Nat
  OBVIOUS
<1>2. \A i \in 1 .. m - n : n + i \in Nat
  OBVIOUS
<1> QED
  BY <1>1, <1>2 DEF Ahead

LEMMA AheadMoves ==
  ASSUME NEW n \in Nat, NEW m \in Nat, n <= m
  PROVE  /\ Append(Ahead(n, m), m + 1) = Ahead(n, m + 1)
         /\ n < m => /\ Ahead(n, m) # <<>> /\ Head(Ahead(n, m)) = n + 1
                     /\ Tail(Ahead(n, m)) = Ahead(n + 1, m)
<1>1. PICK a \in Seq(Nat) : a = Ahead(n, m)
  BY AheadSeq
<1>2. Len(a) = m - n /\ \A i \in 1 .. m - n : a[i] = n + i
  BY <1>1, AheadSeq
<1>3. Append(a, m + 1) = Ahead(n, m + 1)
  <2>1. m + 1 \in Nat /\ n <= m + 1 /\ (m + 1) - n = (m - n) + 1
    OBVIOUS
  <2>2. PICK b \in Seq(Nat) : b = Ahead(n, m + 1)
    BY <2>1, AheadSeq
  <2>3. Len(b) = (m - n) + 1 /\ \A i \in 1 .. (m - n) + 1 : b[i] = n + i
    BY <2>1, <2>2, AheadSeq
  <2>4. Append(a, m + 1) \in Seq(Nat)
    BY <2>1
  <2>5. PICK c \in Seq(Nat) : c = Append(a, m + 1)
    BY <2>4
  <2>6. Len(c) = (m - n) + 1
        /\ \A i \in 1 .. (m - n) + 1 : c[i] = IF i = (m - n) + 1 THEN m + 1 ELSE a[i]
    BY <1>2, <2>5, SMTT(30)
  <2>7. \A i \in 1 .. (m - n) + 1 : c[i] = b[i]
    <3> SUFFICES ASSUME NEW i \in 1 .. (m - n) + 1 PROVE c[i] = b[i]
      OBVIOUS
    <3>1. CASE i = (m - n) + 1
      BY <2>3, <2>6, <3>1
    <3>2. CASE i # (m - n) + 1
      <4>1. i \in 1 .. m - n
        BY <3>2
      <4> QED
        BY <1>2, <2>3, <2>6, <3>2, <4>1
    <3> QED
      BY <3>1, <3>2
  <2>8. c = b
    BY <2>3, <2>6, <2>7, SeqEqual
  <2> QED
    BY <2>2, <2>5, <2>8
<1>4. ASSUME n < m
      PROVE  a # <<>> /\ Head(a) = n + 1 /\ Tail(a) = Ahead(n + 1, m)
  <2>1. 1 \in 1 .. m - n /\ n + 1 \in Nat /\ n + 1 <= m /\ m - (n + 1) = (m - n) - 1
    BY <1>4
  <2>2. a # <<>> /\ Head(a) = a[1]
    BY <1>2, <2>1
  <2>3. /\ Tail(a) \in Seq(Nat) /\ Len(Tail(a)) = Len(a) - 1
        /\ \A i \in 1 .. Len(Tail(a)) : Tail(a)[i] = a[i + 1]
    BY <2>2, HeadTailProperties
  <2>4. PICK t \in Seq(Nat) : t = Tail(a)
    BY <2>3
  <2>5. Len(t) = (m - n) - 1 /\ \A i \in 1 .. (m - n) - 1 : t[i] = a[i + 1]
    BY <1>2, <2>3, <2>4
  <2>6. PICK u \in Seq(Nat) : u = Ahead(n + 1, m)
    BY <2>1, AheadSeq
  <2>7. Len(u) = (m - n) - 1 /\ \A i \in 1 .. (m - n) - 1 : u[i] = (n + 1) + i
    BY <2>1, <2>6, AheadSeq, ZenonT(60)
  <2>8. \A i \in 1 .. (m - n) - 1 : t[i] = u[i]
    <3> SUFFICES ASSUME NEW i \in 1 .. (m - n) - 1 PROVE t[i] = u[i]
      OBVIOUS
    <3>1. i + 1 \in 1 .. m - n /\ n + (i + 1) = (n + 1) + i
      OBVIOUS
    <3> QED
      BY <1>2, <2>5, <2>7, <3>1
  <2>9. t = u
    BY <2>5, <2>7, <2>8, SeqEqual
  <2> QED
    BY <1>2, <2>1, <2>2, <2>4, <2>6, <2>9
<1> QED
  BY <1>1, <1>3, <1>4

LEMMA TakenAhead == Framing => Taken = Ahead(0, Len(result))
<1> SUFFICES ASSUME Framing PROVE Taken = Ahead(0, Len(result))
  OBVIOUS
<1>1. DOMAIN result = 1 .. Len(result) /\ Len(result) - 0 = Len(result)
  BY Lengths
<1>2. ASSUME NEW i \in 1 .. Len(result) PROVE Number(result[i]) = 0 + i
  <2>1. i \in 1 .. MaxMsg /\ i \in DOMAIN size
    BY Lengths
  <2>2. size[i] \in 0 .. MaxBody /\ MaxBody \in Nat
    BY <2>1, Lengths
  <2>3. Len(Cells(i, size[i])) = size[i] + 1 /\ Cells(i, size[i])[1] = [m |-> i, k |-> 1 - 1]
    <3>1. 1 \in 1 .. size[i] + 1
      BY <2>2
    <3> QED
      BY <2>1, <2>2, <3>1, CellsOf
  <2>4. result[i] = Cells(i, size[i])
    BY <1>1 DEF Framing
  <2>5. Cells(i, size[i]) # <<>>
    BY <2>2, <2>3
  <2> QED
    BY <2>3, <2>4, <2>5 DEF Number
<1> QED
  BY <1>1, <1>2 DEF Taken, Ahead

\* The pipe of one reader implements the queue of whole messages that fifo.h
\* speaks of: each step is a write of one message at its end, a call that takes
\* the first one, or none of the two.
THEOREM QueueImplemented == Spec => ImplementsQueue
<1>1. Init => Queue!Init
  <2> SUFFICES ASSUME Init PROVE Queue!Init
    OBVIOUS
  <2>1. size = <<>> /\ result = <<>>
    BY DEF Init
  <2>2. Waiting = <<>> /\ Taken = <<>> /\ Len(size) = 0
    BY <2>1 DEF Waiting, Ahead, Taken
  <2> QED
    BY <2>2 DEF Queue!Init
<1>2. (Sole => Framing) /\ (Sole => Framing)' /\ (Sole' => Sole) /\ [Next]_vars
        => (Sole' => [Queue!Next]_(Queue!vars))
  <2> SUFFICES ASSUME Framing, Framing', Sole, [Next]_vars
               PROVE  [Queue!Next]_(Queue!vars)
    BY SMTT(30)
  <2>1. PICK w \in Nat, n \in Nat : w = Len(size) /\ n = Len(result) /\ n <= w
    BY Lengths
  <2>2. Waiting = Ahead(n, w) /\ Taken = Ahead(0, n)
    BY <2>1, TakenAhead DEF Waiting
  <2>6. Waiting' = Ahead(Len(result'), Len(size'))
    BY DEF Waiting, Ahead
  <2>7. Taken' = Ahead(0, Len(result'))
    <3>1. Framing' => (Taken = Ahead(0, Len(result)))'
      BY TakenAhead, PTL
    <3> QED
      BY <3>1 DEF Ahead
  <2>3. CASE Puts
    <3>1. Len(size') = w + 1 /\ result' = result /\ w < MaxMsg
      BY <2>1, <2>3, Lengths DEF Puts
    <3>2. Waiting' = Append(Waiting, w + 1)
      <4>1. Waiting' = Ahead(n, w + 1)
        BY <2>1, <2>6, <3>1
      <4>2. Append(Ahead(n, w), w + 1) = Ahead(n, w + 1)
        BY <2>1, AheadMoves
      <4> QED
        BY <2>2, <4>1, <4>2
    <3>3. Taken' = Taken
      BY <2>1, <2>2, <2>7, <3>1
    <3> QED
      BY <2>1, <3>1, <3>2, <3>3 DEF Queue!Next, Queue!Put
  <2>4. CASE Takes
    <3>1. Len(result') = n + 1 /\ size' = size /\ n < w
      BY <2>1, <2>4, Lengths DEF Takes
    <3>2. Waiting # <<>> /\ Head(Waiting) = n + 1 /\ Waiting' = Tail(Waiting)
      <4>1. Waiting' = Ahead(n + 1, w)
        BY <2>1, <2>6, <3>1
      <4>2. Ahead(n, w) # <<>> /\ Head(Ahead(n, w)) = n + 1 /\ Tail(Ahead(n, w)) = Ahead(n + 1, w)
        BY <2>1, <3>1, AheadMoves
      <4> QED
        BY <2>2, <4>1, <4>2
    <3>3. Taken' = Append(Taken, n + 1)
      <4>1. Taken' = Ahead(0, n + 1)
        BY <2>1, <2>7, <3>1
      <4>2. 0 \in Nat /\ 0 <= n
        OBVIOUS
      <4>3. Append(Ahead(0, n), n + 1) = Ahead(0, n + 1)
        BY <4>2, AheadMoves
      <4> QED
        BY <2>2, <4>1, <4>3
    <3> QED
      BY <3>1, <3>2, <3>3 DEF Queue!Next, Queue!Take
  <2>5. CASE UNCHANGED <<size, result>>
    BY <2>5 DEF Queue!vars, Waiting, Ahead, Taken, Number
  <2> QED
    BY <2>3, <2>4, <2>5, FramingNext, SMTT(30)
<1> DEFINE P == pc \in [Readers -> {"off", "select", "expired", "header", "body", "undefined"}]
<1>3. Init => P
  BY DEF Init
<1>4. P /\ [Next]_vars => P' /\ (Sole' => Sole)
  BY OnceSole
<1> HIDE DEF P
<1> QED
  BY <1>1, <1>2, <1>3, <1>4, FramingEver, PTL DEF Spec, ImplementsQueue

-----------------------------------------------------------------------------
(* The timeouts *)

\* What is left of the time of a reader and what it spent add up to what it
\* was given.
Sum ==
  /\ asked \in [Readers -> Int] /\ left \in [Readers -> Int] /\ spent \in [Readers -> Nat]
  /\ \A r \in Readers : asked[r] >= 0 => left[r] >= 0 /\ left[r] + spent[r] = asked[r]

\* The timeval starts with the time that was passed, and none is spent.
LEMMA SumInit == Init => Sum
<1> SUFFICES ASSUME Init PROVE Sum
  OBVIOUS
<1>1. asked \in [Readers -> Int]
  <2>1. \A r \in Readers : Timeouts[r] \subseteq Int
    BY PipeAssumption
  <2>2. PICK X : asked \in [Readers -> X]
    BY DEF Init
  <2> QED
    BY <2>1, <2>2 DEF Init
<1>2. \A r \in Readers : Timeval(asked[r]) \in Int /\ (asked[r] >= 0 => Timeval(asked[r]) = asked[r])
  BY <1>1, SMT DEF Timeval
<1>3. left = [r \in Readers |-> Timeval(asked[r])] /\ spent = [r \in Readers |-> 0]
  BY DEF Init
<1> QED
  BY <1>1, <1>2, <1>3, SMT DEF Sum

\* Every step but a tick leaves the three alone.
LEMMA OnlyTicks ==
  ASSUME [Next]_vars, \A r \in Readers : ~Tick(r)
  PROVE  UNCHANGED timeVars
<1>1. CASE Write
  BY <1>1 DEF Write
<1>2. CASE WriteReply
  BY <1>2 DEF WriteReply
<1>3. ASSUME NEW r \in Readers, Open(r) \/ Select(r) \/ Expire(r) \/ CallAgain(r)
      PROVE  UNCHANGED timeVars
  BY <1>3 DEF Open, Select, Expire, CallAgain
<1>4. ASSUME NEW r \in Readers, Read(r)
      PROVE  UNCHANGED timeVars
  BY <1>4 DEF Read, ReadHeader, HeaderAgain, ReadBody
<1>5. CASE UNCHANGED vars
  BY <1>5 DEF vars
<1> QED
  BY <1>1, <1>2, <1>3, <1>4, <1>5 DEF Next

\* A tick moves one from what is left to what is spent.
LEMMA SumNext == Sum /\ [Next]_vars => Sum'
<1> SUFFICES ASSUME Sum, [Next]_vars PROVE Sum'
  OBVIOUS
<1>1. ASSUME NEW r \in Readers, Tick(r) PROVE Sum'
  <2>1. /\ left' = [left EXCEPT ![r] = IF @ > 0 THEN @ - 1 ELSE @]
        /\ spent' = [spent EXCEPT ![r] = @ + 1]
        /\ asked' = asked /\ left[r] # 0
    BY <1>1 DEF Tick
  <2> QED
    BY <2>1, SMT DEF Sum
<1>2. CASE \A r \in Readers : ~Tick(r)
  BY <1>2, OnlyTicks DEF Sum, timeVars
<1> QED
  BY <1>1, <1>2

\* All the calls of select() that one client, worker or accept loop makes wait
\* for no longer in total than the timeout it was given.
THEOREM BudgetEver == Spec => []Budget
<1>1. Sum => Budget
  BY SMT DEF Sum, Budget
<1> QED
  BY <1>1, SumInit, SumNext, PTL DEF Spec

-----------------------------------------------------------------------------
(* The names *)

\* A name that fits its buffer is printed whole.
LEMMA PrintedWhole ==
  ASSUME NEW p \in Nat, NEW s \in Nat, NEW t \in Nat, NEW n \in Nat, p + s + t < n
  PROVE  Printed(p, s, t, n) = [path |-> p, suffix |-> s, tail |-> t]
BY SMT DEF Printed, Least

\* A path the client accepts is shorter than the limit.
LEMMA AcceptedIsShort ==
  ASSUME NEW len \in Nat, ClientAccepts(len)
  PROVE  len < Longest /\ Least(len, Longest) = len
BY SMT DEF ClientAccepts, Least, Longest, NAMELEN_MAX

\* What a client accepts is printed whole on both sides.
LEMMA AgreeEver ==
  ASSUME NEW len \in Nat, NEW d \in PidDigits
  PROVE  Agree(len, d)
<1> SUFFICES ASSUME ClientAccepts(len)
             PROVE  /\ ServerPath(len) = len
                    /\ ServerRequest(len, d) = ClientRequest(len, d)
                    /\ ServerReply(len, d) = ClientReply(len, d)
                    /\ NameLength(ClientReply(len, d)) = len + 1 + d + ReadTail
                    /\ NameLength(ServerReply(len, d)) <= NAMELEN_MAX
  BY DEF Agree
<1>1. len < 235 /\ Least(len, Longest) = len
  BY AcceptedIsShort DEF Longest, NAMELEN_MAX
<1>2. d \in 1 .. 10
  BY DEF PidDigits
<1>3. ClientRequest(len, d) = [path |-> len, suffix |-> 1 + d, tail |-> 0]
  BY <1>1, <1>2, PrintedWhole DEF ClientRequest, NAMELEN_MAX
<1>4. ClientReply(len, d) = [path |-> len, suffix |-> 1 + d, tail |-> 5]
  BY <1>1, <1>2, <1>3, PrintedWhole DEF ClientReply, NAMELEN_MAX, ReadTail
<1>5. ConnectSuffix(len, d) = 1 + d
  BY <1>1, <1>2, <1>3 DEF ConnectSuffix, NameLength
<1>6. ServerPath(len) = len
  BY <1>1 DEF ServerPath
<1>7. ServerRequest(len, d) = [path |-> len, suffix |-> 1 + d, tail |-> 0]
  BY <1>1, <1>2, <1>5, <1>6 DEF ServerRequest, Least, NAMELEN_MAX
<1>8. ServerReply(len, d) = [path |-> len, suffix |-> 1 + d, tail |-> 5]
  BY <1>7 DEF ServerReply, ReadTail
<1> QED
  BY <1>1, <1>2, <1>3, <1>4, <1>6, <1>7, <1>8 DEF NameLength, ReadTail, NAMELEN_MAX

\* fifo_client_new and fifo_server_runforever come to the same names, with
\* nothing cut off, for a path of any length that the client takes.
THEOREM NamesAlwaysAgree == NamesSpec => []NamesAgree
<1> DEFINE Given == pathname \in Paths /\ digits \in PidDigits
<1>1. NamesInit => Given
  BY DEF NamesInit
<1>2. Given /\ [FALSE]_<<pathname, digits>> => Given'
  OBVIOUS
<1>3. Given => NamesAgree
  BY PathsAssumption, AgreeEver DEF NamesAgree
<1> QED
  BY <1>1, <1>2, <1>3, PTL DEF NamesSpec
=============================================================================
