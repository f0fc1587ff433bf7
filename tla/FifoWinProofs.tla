---------------------------- MODULE FifoWinProofs ----------------------------
(***************************************************************************)
(* Safety of FifoWin for any number of clients, sessions, requests and     *)
(* pipe instances, whatever the environment: each instance is driven by    *)
(* one operation and closed once, and no request is lost or answered twice.*)
(***************************************************************************)
EXTENDS FifoWin, FiniteSetTheorems, SequenceTheorems, TLAPS

-----------------------------------------------------------------------------
(* The inductive invariant *)

\* Which instance the server offers, and which it is busy with.
AtServer ==
  /\ hNamedPipe = made
  /\ spc = "off" <=> made = 0
  /\ cur # 0 <=> spc = "callback"
  /\ spc = "callback" => inst[cur] = "alive" /\ reply[cur] = NoReply
  /\ spc = "create" => inst[hNamedPipe] # "none"
  /\ spc \in {"connect", "wait", "callback", "returned"} => inst[hNamedPipe] = "none"

\* InstanceDriven, with the operation that drives an instance.
Driven ==
  \A i \in Instance :
    IF inst[i] = "alive" /\ cur # i THEN ops[i] \in {{"read"}, {"write"}} ELSE ops[i] = {}

\* An instance that has had no client holds no message; one that is served has had
\* one; only a closed one is done with.
InstanceLife ==
  \A i \in Instance :
    /\ made < i => pipe[i] = "none" /\ inst[i] = "none"
    /\ pipe[i] \in {"none", "free"} => inq[i] = <<>> /\ outq[i] = <<>>
    /\ inq[i] # <<>> => pipe[i] \in {"connected", "left"}
    /\ inst[i] = "alive" => pipe[i] \in {"connected", "left"}

\* A client has an instance from the open to the close of its handle, and no other
\* client has it.
AtClient ==
  \A c \in Clients :
    /\ handle[c] # 0 <=> cpc[c] \in {"opened", "idle", "write", "read"}
    /\ handle[c] # 0 => pipe[handle[c]] \in {"connected", "gone"}
    /\ cpc[c] = "write" => sent[c] < MaxReq
    /\ \A d \in Clients : handle[c] # 0 /\ handle[d] = handle[c] => d = c

\* s requests are the replies g read, those of o in the pipe, with b = 1 the request
\* r in the callback, and the requests n in the pipe, in this order.
InOrder(g, o, b, r, n, s) ==
  /\ Len(g) + Len(o) + b + Len(n) = s
  /\ \A k \in 1 .. Len(g) : g[k].to = k
  /\ \A k \in 1 .. Len(o) : o[k].to = Len(g) + k
  /\ b = 1 => r = Len(g) + Len(o) + 1
  /\ \A k \in 1 .. Len(n) : n[k] = Len(g) + Len(o) + b + k

Answering(i) == IF spc = "callback" /\ cur = i THEN 1 ELSE 0

Flow ==
  \A c \in Clients :
    handle[c] # 0 /\ pipe[handle[c]] = "connected" =>
      InOrder(got[c], outq[handle[c]], Answering(handle[c]), request[handle[c]],
              inq[handle[c]], sent[c])

WinInv == TypeOK /\ AtServer /\ Driven /\ HandlesOwned /\ InstanceLife /\ AtClient /\ Flow

-----------------------------------------------------------------------------
(* Requests and replies on their way *)

\* A session starts with none.
LEMMA FlowStarts ==
  ASSUME NEW r
  PROVE  InOrder(<<>>, <<>>, 0, r, <<>>, 0)
BY DEF InOrder

\* The two ends of a sequence.
LEMMA AppendEnds ==
  ASSUME NEW S, NEW q \in Seq(S), NEW x \in S
  PROVE  /\ Append(q, x) \in Seq(S) /\ Len(Append(q, x)) = Len(q) + 1 /\ Len(q) \in Nat
         /\ Append(q, x)[Len(q) + 1] = x
         /\ \A k \in 1 .. Len(q) : Append(q, x)[k] = q[k]
OBVIOUS

LEMMA TailStarts ==
  ASSUME NEW S, NEW q \in Seq(S), q # <<>>
  PROVE  /\ Head(q) = q[1] /\ Head(q) \in S /\ Len(q) \in Nat /\ Len(q) > 0
         /\ Tail(q) \in Seq(S) /\ Len(Tail(q)) = Len(q) - 1
         /\ \A k \in 1 .. Len(q) - 1 : Tail(q)[k] = q[k + 1]
OBVIOUS

\* A request is written.
LEMMA FlowWrite ==
  ASSUME NEW g \in Seq(Reply), NEW o \in Seq(Reply), NEW b \in 0 .. 1, NEW r,
         NEW n \in Seq(ReqNumber), NEW s \in Nat, s + 1 \in ReqNumber, InOrder(g, o, b, r, n, s)
  PROVE  InOrder(g, o, b, r, Append(n, s + 1), s + 1)
<1>1. /\ Len(Append(n, s + 1)) = Len(n) + 1 /\ Append(n, s + 1)[Len(n) + 1] = s + 1
      /\ \A k \in 1 .. Len(n) : Append(n, s + 1)[k] = n[k]
  BY AppendEnds
<1>2. Len(g) \in Nat /\ Len(o) \in Nat /\ Len(n) \in Nat
  OBVIOUS
<1>3. Len(g) + Len(o) + b + Len(n) = s
  BY DEF InOrder
<1>4. \A k \in 1 .. Len(n) + 1 : Append(n, s + 1)[k] = Len(g) + Len(o) + b + k
  <2>1. \A k \in 1 .. Len(n) : Append(n, s + 1)[k] = Len(g) + Len(o) + b + k
    BY <1>1 DEF InOrder
  <2>2. s + 1 = Len(g) + Len(o) + b + (Len(n) + 1)
    BY <1>2, <1>3
  <2>3. \A k \in 1 .. Len(n) + 1 : k \in 1 .. Len(n) \/ k = Len(n) + 1
    BY <1>2
  <2> QED
    BY <1>1, <2>1, <2>2, <2>3
<1>5. Len(g) + Len(o) + b + (Len(n) + 1) = s + 1
  BY <1>2, <1>3, SMTT(30)
<1> QED
  BY <1>1, <1>4, <1>5 DEF InOrder

\* The server reads the first of them.
LEMMA FlowRequest ==
  ASSUME NEW g \in Seq(Reply), NEW o \in Seq(Reply), NEW r,
         NEW n \in Seq(ReqNumber), NEW s \in Nat, n # <<>>, InOrder(g, o, 0, r, n, s)
  PROVE  InOrder(g, o, 1, Head(n), Tail(n), s)
<1>1. /\ Head(n) = n[1] /\ Len(n) \in Nat /\ Len(n) > 0 /\ Len(Tail(n)) = Len(n) - 1
      /\ \A k \in 1 .. Len(n) - 1 : Tail(n)[k] = n[k + 1]
  BY TailStarts
<1>2. Len(g) \in Nat /\ Len(o) \in Nat
  OBVIOUS
<1>3. Head(n) = Len(g) + Len(o) + 1
  BY <1>1, <1>2 DEF InOrder
<1>4. \A k \in 1 .. Len(Tail(n)) : Tail(n)[k] = Len(g) + Len(o) + 1 + k
  <2> SUFFICES ASSUME NEW k \in 1 .. Len(n) - 1 PROVE Tail(n)[k] = Len(g) + Len(o) + 1 + k
    BY <1>1
  <2>1. Tail(n)[k] = n[k + 1] /\ k + 1 \in 1 .. Len(n) /\ k \in Nat
    BY <1>1
  <2>2. n[k + 1] = Len(g) + Len(o) + 0 + (k + 1)
    BY <2>1 DEF InOrder
  <2> QED
    BY <1>2, <2>1, <2>2
<1>5. Len(g) + Len(o) + 1 + Len(Tail(n)) = s
  <2>1. Len(g) + Len(o) + 0 + Len(n) = s
    BY DEF InOrder
  <2> QED
    BY <1>1, <1>2, <2>1
<1> QED
  BY <1>3, <1>4, <1>5 DEF InOrder

\* The reply to it is written.
LEMMA FlowReply ==
  ASSUME NEW g \in Seq(Reply), NEW o \in Seq(Reply), NEW r, NEW q, NEW x \in Reply, x.to = r,
         NEW n \in Seq(ReqNumber), NEW s \in Nat, InOrder(g, o, 1, r, n, s)
  PROVE  InOrder(g, Append(o, x), 0, q, n, s)
<1>1. /\ Len(Append(o, x)) = Len(o) + 1 /\ Append(o, x)[Len(o) + 1] = x
      /\ \A k \in 1 .. Len(o) : Append(o, x)[k] = o[k]
  BY AppendEnds
<1>2. Len(g) \in Nat /\ Len(o) \in Nat /\ Len(n) \in Nat
  OBVIOUS
<1>3. \A k \in 1 .. Len(Append(o, x)) : Append(o, x)[k].to = Len(g) + k
  <2>1. \A k \in 1 .. Len(o) : Append(o, x)[k].to = Len(g) + k
    BY <1>1 DEF InOrder
  <2>2. x.to = Len(g) + (Len(o) + 1)
    <3>1. x.to = Len(g) + Len(o) + 1
      BY DEF InOrder
    <3> QED
      BY <1>2, <3>1
  <2>3. \A k \in 1 .. Len(o) + 1 : k \in 1 .. Len(o) \/ k = Len(o) + 1
    BY <1>2
  <2> QED
    BY <1>1, <2>1, <2>2, <2>3
<1>4. \A k \in 1 .. Len(n) : n[k] = Len(g) + Len(Append(o, x)) + 0 + k
  <2>1. \A k \in 1 .. Len(n) : n[k] = Len(g) + Len(o) + 1 + k
    BY DEF InOrder
  <2> QED
    BY <1>1, <1>2, <2>1
<1>5. Len(g) + Len(Append(o, x)) + 0 + Len(n) = s
  <2>1. Len(g) + Len(o) + 1 + Len(n) = s
    BY DEF InOrder
  <2> QED
    BY <1>1, <1>2, <2>1
<1>6. \A k \in 1 .. Len(g) : g[k].to = k
  BY DEF InOrder
<1> QED
  BY <1>3, <1>4, <1>5, <1>6 DEF InOrder

\* The client reads the first reply.
LEMMA FlowRead ==
  ASSUME NEW g \in Seq(Reply), NEW o \in Seq(Reply), NEW b \in 0 .. 1, NEW r,
         NEW n \in Seq(ReqNumber), NEW s \in Nat, o # <<>>, InOrder(g, o, b, r, n, s)
  PROVE  InOrder(Append(g, Head(o)), Tail(o), b, r, n, s)
<1>1. /\ Head(o) = o[1] /\ Head(o) \in Reply /\ Len(o) \in Nat /\ Len(o) > 0
      /\ Len(Tail(o)) = Len(o) - 1 /\ \A k \in 1 .. Len(o) - 1 : Tail(o)[k] = o[k + 1]
  BY TailStarts
<1> DEFINE h == Append(g, Head(o))
<1>2. /\ Len(h) = Len(g) + 1 /\ h[Len(g) + 1] = Head(o) /\ \A k \in 1 .. Len(g) : h[k] = g[k]
  BY <1>1, AppendEnds
<1>3. Len(g) \in Nat /\ Len(n) \in Nat
  OBVIOUS
<1> HIDE DEF h
<1>4. Head(o).to = Len(g) + 1
  BY <1>1 DEF InOrder
<1>5. \A k \in 1 .. Len(h) : h[k].to = k
  <2>1. \A k \in 1 .. Len(g) : h[k].to = k
    BY <1>2 DEF InOrder
  <2>2. h[Len(g) + 1].to = Len(g) + 1
    BY <1>2, <1>4
  <2> QED
    BY <1>2, <1>3, <2>1, <2>2
<1>6. \A k \in 1 .. Len(Tail(o)) : Tail(o)[k].to = Len(h) + k
  <2> SUFFICES ASSUME NEW k \in 1 .. Len(o) - 1 PROVE Tail(o)[k].to = Len(h) + k
    BY <1>1
  <2>1. Tail(o)[k] = o[k + 1] /\ k + 1 \in 1 .. Len(o) /\ k \in Nat
    BY <1>1
  <2>2. o[k + 1].to = Len(g) + (k + 1)
    BY <2>1 DEF InOrder
  <2> QED
    BY <1>2, <1>3, <2>1, <2>2
<1>7. Len(h) + Len(Tail(o)) = Len(g) + Len(o)
  BY <1>1, <1>2, <1>3
<1>8. /\ Len(h) + Len(Tail(o)) + b + Len(n) = s
      /\ b = 1 => r = Len(h) + Len(Tail(o)) + 1
      /\ \A k \in 1 .. Len(n) : n[k] = Len(h) + Len(Tail(o)) + b + k
  BY <1>7 DEF InOrder
<1> QED
  BY <1>5, <1>6, <1>8 DEF InOrder, h

LEMMA WinInitInv == Init => WinInv
<1> SUFFICES ASSUME Init PROVE WinInv
  OBVIOUS
<1> USE WinConstants DEF Init, Instance, ReqNumber
<1>1. NoReply \in Reply /\ <<>> \in Seq(Reply) /\ <<>> \in Seq(ReqNumber)
  BY DEF Reply, NoReply
<1>2. TypeOK
  <2>1. /\ cpc \in [Clients -> {"out", "open", "busy", "opened", "idle", "write", "read"}]
        /\ sess \in [Clients -> 0 .. MaxSession] /\ handle \in [Clients -> 0 .. MaxInst]
        /\ sent \in [Clients -> ReqNumber] /\ got \in [Clients -> Seq(Reply)]
    BY <1>1
  <2>2. /\ hNamedPipe \in 0 .. MaxInst /\ made \in 0 .. MaxInst /\ cur \in 0 .. MaxInst
    OBVIOUS
  <2>3. /\ pipe \in [Instance -> {"none", "free", "connected", "left", "gone"}]
        /\ ops \in [Instance -> SUBSET {"read", "write"}]
        /\ inst \in [Instance -> {"none", "alive", "freed"}]
        /\ request \in [Instance -> ReqNumber]
        /\ reply \in [Instance -> Reply] /\ written \in [Instance -> Reply]
        /\ inq \in [Instance -> Seq(ReqNumber)] /\ outq \in [Instance -> Seq(Reply)]
    BY <1>1
  <2> QED
    BY <2>1, <2>2, <2>3 DEF TypeOK
<1> QED
  BY <1>2 DEF WinInv, AtServer, Driven, HandlesOwned, Exists, InstanceLife, AtClient, Flow

-----------------------------------------------------------------------------
(* The accept loop *)

LEMMA LoopStep ==
  ASSUME WinInv, ConnectToNewClient \/ LoopStops
  PROVE  WinInv'
<1> USE DEF WinInv, ConnectToNewClient, LoopStops, clientVars, instVars
<1>1. /\ UNCHANGED <<cpc, sess, handle, sent, got, ops, inst, request, reply, written, cur,
                     hNamedPipe, made, pipe, inq, outq>>
      /\ spc \in {"connect", "wait"} /\ spc' \in {"wait", "returned"}
  OBVIOUS
<1>2. event' \in BOOLEAN /\ fPendingIO' \in BOOLEAN
  BY DEF TypeOK
<1>3. TypeOK'
  BY <1>1, <1>2 DEF TypeOK
<1>4. AtServer' /\ Driven' /\ InstanceLife' /\ AtClient'
  BY <1>1 DEF AtServer, Driven, InstanceLife, AtClient
<1>5. HandlesOwned'
  BY <1>1 DEF HandlesOwned, Exists
<1>6. \A i \in Instance : Answering(i)' = Answering(i)
  BY <1>1 DEF Answering
<1>7. \A c \in Clients : handle[c] # 0 => handle[c] \in Instance
  BY DEF TypeOK, Instance
<1>8. Flow'
  BY <1>1, <1>6, <1>7 DEF Flow
<1> QED
  BY <1>3, <1>4, <1>5, <1>8

\* What stays of every session when the pipes of others change.
LEMMA FlowStays ==
  ASSUME WinInv, UNCHANGED <<handle, got, sent>>,
         \A i \in Instance :
           pipe'[i] = "connected" =>
             /\ pipe[i] = "connected" /\ inq'[i] = inq[i] /\ outq'[i] = outq[i]
             /\ request'[i] = request[i] /\ Answering(i)' = Answering(i)
  PROVE  Flow'
<1>1. \A c \in Clients : handle[c] # 0 => handle[c] \in Instance
  BY DEF WinInv, TypeOK, Instance
<1>2. SUFFICES ASSUME NEW c \in Clients, handle[c] # 0, pipe'[handle[c]] = "connected"
               PROVE  InOrder(got[c], outq'[handle[c]], Answering(handle[c])', request'[handle[c]],
                              inq'[handle[c]], sent[c])
  BY DEF Flow, Answering
<1>3. InOrder(got[c], outq[handle[c]], Answering(handle[c]), request[handle[c]],
              inq[handle[c]], sent[c])
  BY <1>1, <1>2 DEF Flow, WinInv
<1> QED
  BY <1>1, <1>2, <1>3 DEF Answering

LEMMA NewInstanceStep ==
  ASSUME WinInv, ServerStart \/ CreateNext
  PROVE  WinInv'
<1> USE DEF WinInv
<1>1. /\ UNCHANGED <<cpc, sess, handle, sent, got, ops, inst, request, reply, written, cur,
                     inq, outq>>
      /\ made < MaxInst /\ made' = made + 1 /\ hNamedPipe' = made + 1
      /\ pipe' = [pipe EXCEPT ![made + 1] = "free"] /\ spc' = "connect"
      /\ spc \in {"off", "exited", "create"}
      /\ fPendingIO' = fPendingIO /\ event' \in BOOLEAN
  BY DEF ServerStart, CreateNext, NewInstance, clientVars, instVars, TypeOK
<1>2. /\ made \in Nat /\ made + 1 \in Instance /\ made + 1 \in 0 .. MaxInst
      /\ MaxInst \in Nat /\ \A i \in Instance : i \in Nat /\ i # 0
  BY <1>1, WinConstants DEF TypeOK, Instance
<1>3. /\ pipe \in [Instance -> {"none", "free", "connected", "left", "gone"}]
      /\ pipe[made + 1] = "none" /\ inst[made + 1] = "none"
  BY <1>1, <1>2 DEF TypeOK, InstanceLife
<1>4. TypeOK'
  BY <1>1, <1>2, <1>3 DEF TypeOK
<1>5. AtServer'
  BY <1>1, <1>2, <1>3 DEF AtServer
<1>6. Driven'
  BY <1>1 DEF Driven
<1>7. InstanceLife'
  BY <1>1, <1>2, <1>3 DEF InstanceLife
<1>8. AtClient'
  <2>1. \A c \in Clients : handle[c] # 0 => handle[c] \in Instance
    BY DEF TypeOK, Instance
  <2> QED
    BY <1>1, <1>2, <1>3, <2>1 DEF AtClient
<1>9. HandlesOwned'
  <2> SUFFICES ASSUME NEW i \in Instance
               PROVE  Exists(i)' <=> inst'[i] = "alive"
                                     \/ (i = hNamedPipe' /\ inst'[i] = "none" /\ spc' # "exited")
    BY DEF HandlesOwned
  <2>1. CASE i = made + 1
    BY <1>1, <1>3, <2>1 DEF Exists
  <2>2. CASE i # made + 1
    <3>1. i = hNamedPipe => inst[i] # "none" \/ spc = "exited"
      BY <1>1, <1>2 DEF AtServer
    <3> QED
      BY <1>1, <1>3, <2>2, <3>1 DEF HandlesOwned, Exists
  <2> QED
    BY <2>1, <2>2
<1>10. Flow'
  BY <1>1, <1>3, FlowStays DEF Answering, AtServer
<1> QED
  BY <1>4, <1>5, <1>6, <1>7, <1>8, <1>9, <1>10

LEMMA EndServerStep ==
  ASSUME WinInv, ServerFails \/ ServerExits
  PROVE  WinInv'
<1> USE DEF WinInv
<1>1. /\ UNCHANGED <<cpc, sess, handle, sent, got, hNamedPipe, event, fPendingIO, made, outq>>
      /\ spc' = "exited" /\ spc # "off"
      /\ pipe' = [i \in Instance |-> IF Exists(i) THEN "gone" ELSE pipe[i]]
      /\ ops' = [i \in Instance |-> {}]
      /\ inst' = [i \in Instance |-> IF inst[i] = "alive" THEN "freed" ELSE inst[i]]
      /\ request' = [i \in Instance |-> 0]
      /\ reply' = [i \in Instance |-> NoReply]
      /\ written' = [i \in Instance |-> NoReply]
      /\ inq' = [i \in Instance |-> <<>>]
      /\ cur' = 0
  BY DEF ServerFails, ServerExits, EndServer, Serving, clientVars
<1>2. NoReply \in Reply /\ MaxReq \in Nat /\ MaxInst \in Nat
  BY WinConstants DEF NoReply, Reply, ReqNumber
<1>3. TypeOK'
  <2>1. /\ ops' \in [Instance -> SUBSET {"read", "write"}]
        /\ request' \in [Instance -> ReqNumber]
        /\ reply' \in [Instance -> Reply] /\ written' \in [Instance -> Reply]
        /\ inq' \in [Instance -> Seq(ReqNumber)] /\ cur' \in 0 .. MaxInst
    BY <1>1, <1>2 DEF ReqNumber
  <2>2. /\ pipe' \in [Instance -> {"none", "free", "connected", "left", "gone"}]
        /\ inst' \in [Instance -> {"none", "alive", "freed"}]
    BY <1>1 DEF TypeOK
  <2> QED
    BY <1>1, <2>1, <2>2 DEF TypeOK
<1>4. AtServer' /\ Driven'
  BY <1>1 DEF AtServer, Driven
<1>5. InstanceLife'
  BY <1>1 DEF InstanceLife, Exists
<1>6. AtClient'
  <2>1. \A c \in Clients : handle[c] # 0 => handle[c] \in Instance
    BY DEF TypeOK, Instance
  <2> QED
    BY <1>1, <2>1 DEF AtClient, Exists
<1>7. HandlesOwned'
  BY <1>1 DEF HandlesOwned, Exists
<1>8. Flow'
  BY <1>1, FlowStays DEF Exists
<1> QED
  BY <1>3, <1>4, <1>5, <1>6, <1>7, <1>8

-----------------------------------------------------------------------------
(* Instances and their routines *)

\* The instance of i is closed, by its routine or at once.
LEMMA CloseStep ==
  ASSUME WinInv, NEW i \in Instance, DisconnectAndClose(i),
         UNCHANGED <<clientVars, hNamedPipe, event, fPendingIO, made>>,
         inst[i] = "alive" \/ (i = hNamedPipe /\ spc = "wait"),
         ops' = [ops EXCEPT ![i] = {}],
         cur' = 0, spc' = IF inst[i] = "alive" THEN "wait" ELSE "create",
         spc = "wait" \/ (spc = "callback" /\ i = cur)
  PROVE  WinInv'
<1> USE DEF WinInv
<1>1. /\ UNCHANGED <<cpc, sess, handle, sent, got, hNamedPipe, event, fPendingIO, made>>
      /\ pipe' = [pipe EXCEPT ![i] = "gone"] /\ inst' = [inst EXCEPT ![i] = "freed"]
      /\ request' = [request EXCEPT ![i] = 0] /\ reply' = [reply EXCEPT ![i] = NoReply]
      /\ written' = [written EXCEPT ![i] = NoReply]
      /\ inq' = [inq EXCEPT ![i] = <<>>] /\ outq' = [outq EXCEPT ![i] = <<>>]
  BY DEF DisconnectAndClose, clientVars
<1>2. NoReply \in Reply /\ MaxReq \in Nat /\ MaxInst \in Nat /\ 0 \notin Instance
  BY WinConstants DEF NoReply, Reply, ReqNumber, Instance
<1>3. /\ made \in Nat /\ i \in Nat /\ i <= made
  BY <1>2 DEF TypeOK, Instance, AtServer, InstanceLife
<1>4. TypeOK'
  <2>1. /\ request' \in [Instance -> ReqNumber]
        /\ reply' \in [Instance -> Reply] /\ written' \in [Instance -> Reply]
    BY <1>1, <1>2 DEF TypeOK, ReqNumber
  <2>2. inq' \in [Instance -> Seq(ReqNumber)] /\ outq' \in [Instance -> Seq(Reply)]
    BY <1>1 DEF TypeOK
  <2>3. /\ pipe' \in [Instance -> {"none", "free", "connected", "left", "gone"}]
        /\ inst' \in [Instance -> {"none", "alive", "freed"}]
        /\ ops' \in [Instance -> SUBSET {"read", "write"}]
        /\ cur' \in 0 .. MaxInst
    BY <1>1, <1>2 DEF TypeOK
  <2> QED
    BY <1>1, <2>1, <2>2, <2>3 DEF TypeOK
<1>5. AtServer'
  BY <1>1, <1>2, <1>3 DEF AtServer, TypeOK
<1>6. Driven'
  <2>1. \A j \in Instance \ {i} : cur # j
    BY <1>2 DEF AtServer
  <2> QED
    BY <1>1, <1>2, <2>1 DEF Driven, TypeOK
<1>7. InstanceLife'
  BY <1>1, <1>3 DEF InstanceLife, TypeOK
<1>8. AtClient'
  <2>1. \A c \in Clients : handle[c] # 0 => handle[c] \in Instance
    BY DEF TypeOK, Instance
  <2> QED
    BY <1>1, <2>1 DEF AtClient, TypeOK
<1>9. HandlesOwned'
  BY <1>1 DEF HandlesOwned, Exists, TypeOK
<1>10. Flow'
  <2>1. \A j \in Instance : pipe'[j] = "connected" =>
          /\ j # i /\ pipe[j] = "connected" /\ inq'[j] = inq[j] /\ outq'[j] = outq[j]
          /\ request'[j] = request[j]
    BY <1>1 DEF TypeOK
  <2>2. \A j \in Instance \ {i} : Answering(j)' = Answering(j)
    BY <1>2 DEF Answering, AtServer
  <2> QED
    BY <1>1, <2>1, <2>2, FlowStays
<1> QED
  BY <1>4, <1>5, <1>6, <1>7, <1>8, <1>9, <1>10

\* A read is started on the instance of i.
LEMMA ReadStep ==
  ASSUME WinInv, NEW i \in Instance, pipe[i] \in {"connected", "left"},
         UNCHANGED <<clientVars, hNamedPipe, event, fPendingIO, made, pipe, request, reply,
                     written, inq, outq, cur>>,
         inst[i] = "alive" \/ i = hNamedPipe,
         ops' = [ops EXCEPT ![i] = {"read"}], inst' = [inst EXCEPT ![i] = "alive"],
         spc = "wait", spc' = IF inst[i] = "alive" THEN "wait" ELSE "create"
  PROVE  WinInv'
<1> USE DEF WinInv
<1>1. UNCHANGED <<cpc, sess, handle, sent, got>> /\ cur = 0
  BY DEF clientVars, AtServer
<1>2. MaxInst \in Nat /\ 0 \notin Instance
  BY WinConstants DEF Instance
<1>3. /\ made \in Nat /\ i \in Nat /\ i <= made
  BY <1>2 DEF TypeOK, Instance, AtServer, InstanceLife
<1>4. TypeOK'
  BY <1>1 DEF TypeOK
<1>5. AtServer'
  BY <1>1 DEF AtServer, TypeOK
<1>6. Driven'
  BY <1>1, <1>2 DEF Driven, TypeOK
<1>7. InstanceLife'
  BY <1>3 DEF InstanceLife, TypeOK
<1>8. AtClient'
  BY <1>1 DEF AtClient
<1>9. HandlesOwned'
  BY DEF HandlesOwned, Exists, TypeOK
<1>10. Flow'
  <2>1. \A j \in Instance : Answering(j)' = Answering(j)
    BY <1>1, <1>2 DEF Answering
  <2> QED
    BY <1>1, <2>1, FlowStays
<1> QED
  BY <1>4, <1>5, <1>6, <1>7, <1>8, <1>9, <1>10

\* Either of the two, on an instance whose last operation is done.
LEMMA ReadOrCloseStep ==
  ASSUME WinInv, NEW i \in Instance, ReadOrClose(i), spc = "wait", ops[i] \subseteq {"write"},
         UNCHANGED <<clientVars, hNamedPipe, event, fPendingIO, made, cur>>,
         inst[i] = "alive" \/ i = hNamedPipe,
         spc' = IF inst[i] = "alive" THEN "wait" ELSE "create"
  PROVE  WinInv'
<1>1. cur = 0 /\ ops \in [Instance -> SUBSET {"read", "write"}]
  BY DEF WinInv, AtServer, TypeOK
<1>2. CASE pipe[i] = "connected" \/ inq[i] # <<>>
  <2>1. pipe[i] \in {"connected", "left"}
    BY <1>2 DEF WinInv, InstanceLife
  <2>2. (ops[i] \ {"write"}) \cup {"read"} = {"read"}
    OBVIOUS
  <2> QED
    BY <1>2, <2>1, <2>2, ReadStep DEF ReadOrClose
<1>3. CASE ~(pipe[i] = "connected" \/ inq[i] # <<>>)
  <2>1. ops[i] \ {"write"} = {}
    OBVIOUS
  <2> QED
    BY <1>1, <1>3, <2>1, CloseStep DEF ReadOrClose
<1> QED
  BY <1>2, <1>3

LEMMA AcceptStep == WinInv /\ Accept => WinInv'
<1> SUFFICES ASSUME WinInv, Accept PROVE WinInv'
  OBVIOUS
<1>1. hNamedPipe \in Instance /\ inst[hNamedPipe] = "none" /\ ops[hNamedPipe] = {}
  <2>1. hNamedPipe \in Instance
    BY WinConstants DEF WinInv, Accept, AtServer, TypeOK, Instance
  <2> QED
    BY <2>1 DEF WinInv, Accept, AtServer, Driven
<1> QED
  BY <1>1, ReadOrCloseStep DEF Accept

LEMMA WriteRoutineStep ==
  ASSUME WinInv, NEW i \in Instance, CompletedWriteRoutine(i)
  PROVE  WinInv'
<1>1. spc = "wait" /\ cur = 0 /\ 0 \notin Instance
  BY DEF CompletedWriteRoutine, WinInv, AtServer, Instance
<1>2. inst[i] = "alive" /\ ops[i] = {"write"}
  BY <1>1 DEF CompletedWriteRoutine, WinInv, Driven
<1>3. UNCHANGED <<clientVars, hNamedPipe, event, fPendingIO, made, cur>> /\ spc' = "wait"
  BY <1>1 DEF CompletedWriteRoutine, acceptVars
<1>4. CASE ReadOrClose(i)
  BY <1>1, <1>2, <1>3, <1>4, ReadOrCloseStep
<1>5. CASE ops' = [ops EXCEPT ![i] = @ \ {"write"}] /\ DisconnectAndClose(i)
  <2>1. ops[i] \ {"write"} = {}
    BY <1>2
  <2> QED
    BY <1>1, <1>2, <1>3, <1>5, <2>1, CloseStep
<1> QED
  BY <1>4, <1>5 DEF CompletedWriteRoutine

LEMMA ReadRoutineStep ==
  ASSUME WinInv, NEW i \in Instance, CompletedReadRoutine(i)
  PROVE  WinInv'
<1> USE DEF WinInv
<1>1. /\ spc = "wait" /\ cur = 0 /\ 0 \notin Instance /\ inst[i] = "alive" /\ ops[i] = {"read"}
      /\ UNCHANGED <<clientVars, hNamedPipe, event, fPendingIO, made>>
      /\ ops' = [ops EXCEPT ![i] = {}]
  <2>1. spc = "wait" /\ cur = 0 /\ 0 \notin Instance /\ "read" \in ops[i]
    BY DEF CompletedReadRoutine, AtServer, Instance
  <2>2. inst[i] = "alive" /\ ops[i] = {"read"}
    BY <2>1 DEF Driven
  <2>3. ops[i] \ {"read"} = {}
    BY <2>2
  <2> QED
    BY <2>1, <2>2, <2>3 DEF CompletedReadRoutine
<1>2. CASE DisconnectAndClose(i) /\ UNCHANGED <<spc, cur>>
  BY <1>1, <1>2, CloseStep
<1>3. CASE ~(DisconnectAndClose(i) /\ UNCHANGED <<spc, cur>>)
  <2>1. /\ inq[i] # <<>> /\ request' = [request EXCEPT ![i] = Head(inq[i])]
        /\ inq' = [inq EXCEPT ![i] = Tail(@)] /\ reply' = [reply EXCEPT ![i] = NoReply]
        /\ spc' = "callback" /\ cur' = i
        /\ UNCHANGED <<written, pipe, inst, outq, cpc, sess, handle, sent, got>>
    BY <1>1, <1>3 DEF CompletedReadRoutine, clientVars
  <2>2. /\ inq \in [Instance -> Seq(ReqNumber)] /\ outq \in [Instance -> Seq(Reply)]
        /\ inq[i] \in Seq(ReqNumber)
    BY DEF TypeOK
  <2>3. Head(inq[i]) \in ReqNumber /\ Tail(inq[i]) \in Seq(ReqNumber) /\ NoReply \in Reply
    BY <2>1, <2>2, TailStarts, WinConstants DEF NoReply, Reply, ReqNumber
  <2>4. TypeOK'
    <3>1. /\ request' \in [Instance -> ReqNumber] /\ reply' \in [Instance -> Reply]
          /\ inq' \in [Instance -> Seq(ReqNumber)]
      BY <2>1, <2>2, <2>3 DEF TypeOK
    <3>2. cur' \in 0 .. MaxInst /\ ops' \in [Instance -> SUBSET {"read", "write"}]
      BY <1>1, <2>1 DEF TypeOK, Instance
    <3> QED
      BY <1>1, <2>1, <3>1, <3>2 DEF TypeOK
  <2>5. AtServer'
    BY <1>1, <2>1 DEF AtServer, TypeOK
  <2>6. Driven'
    BY <1>1, <2>1 DEF Driven, TypeOK
  <2>7. InstanceLife'
    BY <1>1, <2>1, <2>2 DEF InstanceLife
  <2>8. AtClient'
    BY <1>1, <2>1 DEF AtClient
  <2>9. HandlesOwned'
    BY <1>1, <2>1 DEF HandlesOwned, Exists
  <2>10. Flow'
    <3> SUFFICES ASSUME NEW c \in Clients, handle[c] # 0, pipe[handle[c]] = "connected"
                 PROVE  InOrder(got[c], outq[handle[c]], Answering(handle[c])', request'[handle[c]],
                                inq'[handle[c]], sent[c])
      BY <2>1 DEF Flow, Answering
    <3>1. handle[c] \in Instance /\ got[c] \in Seq(Reply) /\ sent[c] \in Nat
      BY DEF TypeOK, Instance, ReqNumber
    <3>2. InOrder(got[c], outq[handle[c]], 0, request[handle[c]], inq[handle[c]], sent[c])
      BY <1>1 DEF Flow, Answering
    <3>3. CASE handle[c] = i
      <4>1. InOrder(got[c], outq[i], 1, Head(inq[i]), Tail(inq[i]), sent[c])
        BY <2>1, <2>2, <3>1, <3>2, <3>3, FlowRequest
      <4>2. Answering(i)' = 1 /\ request'[i] = Head(inq[i]) /\ inq'[i] = Tail(inq[i])
        BY <2>1, <2>2 DEF Answering, TypeOK
      <4> QED
        BY <2>1, <3>3, <4>1, <4>2 DEF Answering
    <3>4. CASE handle[c] # i
      <4>1. /\ Answering(handle[c])' = 0 /\ request'[handle[c]] = request[handle[c]]
            /\ inq'[handle[c]] = inq[handle[c]]
        BY <2>1, <2>2, <3>1, <3>4 DEF Answering, TypeOK
      <4> QED
        BY <3>2, <4>1 DEF Answering
    <3> QED
      BY <3>3, <3>4
  <2> QED
    BY <2>4, <2>5, <2>6, <2>7, <2>8, <2>9, <2>10
<1> QED
  BY <1>2, <1>3

\* The callback answers the request that it was given, or keeps silent about it.
LEMMA RepliesAnswer ==
  ASSUME WinInv, spc = "callback", NEW r \in Replies
  PROVE  r \in Reply /\ r.to = request[cur]
<1>1. reply[cur] = NoReply /\ cur \in Instance /\ request[cur] \in ReqNumber
  <2>1. reply[cur] = NoReply /\ cur \in Instance
    BY DEF WinInv, AtServer, TypeOK, Instance
  <2> QED
    BY <2>1 DEF WinInv, TypeOK
<1>2. r = [to |-> request[cur], empty |-> FALSE] \/ r = [to |-> request[cur], empty |-> TRUE]
  BY <1>1 DEF Replies, NoReply
<1>3. \A e \in BOOLEAN : [to |-> request[cur], empty |-> e] \in Reply
  BY <1>1 DEF Reply
<1>4. r \in Reply
  BY <1>2, <1>3
<1>5. r.to = request[cur]
  BY <1>2
<1> QED
  BY <1>4, <1>5

LEMMA CallbackStep == WinInv /\ CallbackReturns => WinInv'
<1> SUFFICES ASSUME WinInv, CallbackReturns PROVE WinInv'
  OBVIOUS
<1> USE DEF WinInv
<1>1. /\ spc = "callback" /\ cur \in Instance /\ inst[cur] = "alive" /\ 0 \notin Instance
      /\ spc' = "wait" /\ cur' = 0 /\ ops[cur] = {}
      /\ UNCHANGED <<cpc, sess, handle, sent, got, hNamedPipe, event, fPendingIO, made>>
  <2>1. cur \in Instance /\ spc = "callback" /\ 0 \notin Instance
    BY DEF CallbackReturns, AtServer, TypeOK, Instance
  <2> QED
    BY <2>1 DEF CallbackReturns, AtServer, Driven, clientVars
<1>2. CASE DisconnectAndClose(cur) /\ UNCHANGED ops
  <2>1. ops' = [ops EXCEPT ![cur] = {}]
    BY <1>1, <1>2 DEF TypeOK
  <2> QED
    BY <1>1, <1>2, <2>1, CloseStep DEF clientVars
<1>3. CASE ~(DisconnectAndClose(cur) /\ UNCHANGED ops)
  <2>1. PICK r \in Replies :
          /\ pipe[cur] = "connected"
          /\ reply' = [reply EXCEPT ![cur] = r]
          /\ written' = [written EXCEPT ![cur] = r]
          /\ outq' = [outq EXCEPT ![cur] = Append(@, r)]
          /\ ops' = [ops EXCEPT ![cur] = @ \cup {"write"}]
          /\ UNCHANGED <<pipe, inst, request, inq>>
    BY <1>3 DEF CallbackReturns
  <2>2. r \in Reply /\ r.to = request[cur]
    BY <1>1, RepliesAnswer
  <2>3. ops[cur] \cup {"write"} = {"write"}
    BY <1>1
  <2>4. ops' = [ops EXCEPT ![cur] = {"write"}]
    BY <2>1, <2>3
  <2>5. /\ outq \in [Instance -> Seq(Reply)] /\ outq[cur] \in Seq(Reply)
        /\ Append(outq[cur], r) \in Seq(Reply)
    BY <1>1, <2>2 DEF TypeOK
  <2>6. TypeOK'
    <3>1. outq' \in [Instance -> Seq(Reply)]
      BY <2>1, <2>5
    <3>2. /\ reply' \in [Instance -> Reply] /\ written' \in [Instance -> Reply]
      BY <2>1, <2>2 DEF TypeOK
    <3>3. ops' \in [Instance -> SUBSET {"read", "write"}]
      BY <2>4 DEF TypeOK
    <3>4. cur' \in 0 .. MaxInst
      BY <1>1, WinConstants
    <3> QED
      BY <1>1, <2>1, <3>1, <3>2, <3>3, <3>4 DEF TypeOK
  <2>7. AtServer'
    BY <1>1, <2>1 DEF AtServer
  <2>8. Driven'
    BY <1>1, <2>1, <2>4 DEF Driven, TypeOK
  <2>9. InstanceLife'
    BY <1>1, <2>1, <2>5 DEF InstanceLife
  <2>10. AtClient'
    BY <1>1, <2>1 DEF AtClient
  <2>11. HandlesOwned'
    BY <1>1, <2>1 DEF HandlesOwned, Exists
  <2>12. Flow'
    <3> SUFFICES ASSUME NEW c \in Clients, handle[c] # 0, pipe[handle[c]] = "connected"
                 PROVE  InOrder(got[c], outq'[handle[c]], Answering(handle[c])', request[handle[c]],
                                inq[handle[c]], sent[c])
      BY <1>1, <2>1 DEF Flow, Answering
    <3>1. /\ handle[c] \in Instance /\ got[c] \in Seq(Reply) /\ sent[c] \in Nat
          /\ inq[handle[c]] \in Seq(ReqNumber) /\ Answering(handle[c])' = 0
      BY <1>1 DEF TypeOK, Instance, ReqNumber, Answering
    <3>2. InOrder(got[c], outq[handle[c]], Answering(handle[c]), request[handle[c]],
                  inq[handle[c]], sent[c])
      BY DEF Flow
    <3>3. CASE handle[c] = cur
      <4>1. Answering(cur) = 1 /\ outq'[cur] = Append(outq[cur], r)
        BY <1>1, <2>1, <2>5 DEF Answering
      <4> QED
        BY <2>2, <2>5, <3>1, <3>2, <3>3, <4>1, FlowReply
    <3>4. CASE handle[c] # cur
      <4>1. Answering(handle[c]) = 0 /\ outq'[handle[c]] = outq[handle[c]]
        BY <1>1, <2>1, <2>5, <3>1, <3>4 DEF Answering
      <4> QED
        BY <3>1, <3>2, <4>1
    <3> QED
      BY <3>3, <3>4
  <2> QED
    BY <2>6, <2>7, <2>8, <2>9, <2>10, <2>11, <2>12
<1> QED
  BY <1>2, <1>3

-----------------------------------------------------------------------------
(* The client *)

\* A step of a client alone: only where it stands, or how often it has been there.
LEMMA ClientMoves ==
  ASSUME WinInv, NEW c \in Clients, NEW l, cpc' = [cpc EXCEPT ![c] = l],
         l \in {"out", "open", "busy", "opened", "idle", "write", "read"},
         handle[c] # 0 <=> l \in {"opened", "idle", "write", "read"},
         l = "write" => sent[c] < MaxReq,
         UNCHANGED <<sess, handle, sent, got, acceptVars, instVars, pipe, inq, outq>>
  PROVE  WinInv'
<1> USE DEF WinInv
<1>1. UNCHANGED <<spc, hNamedPipe, event, fPendingIO, made, ops, inst, request, reply, written, cur>>
  BY DEF acceptVars, instVars
<1>2. TypeOK' /\ AtServer' /\ Driven'
  BY <1>1 DEF TypeOK, AtServer, Driven
<1>3. HandlesOwned' /\ InstanceLife'
  BY <1>1 DEF HandlesOwned, Exists, InstanceLife
<1>4. AtClient'
  BY DEF AtClient, TypeOK
<1>5. Flow'
  BY <1>1, FlowStays DEF Answering
<1> QED
  BY <1>2, <1>3, <1>4, <1>5

LEMMA OpenStep ==
  ASSUME WinInv, NEW c \in Clients, Open(c)
  PROVE  WinInv'
<1> USE DEF WinInv
<1>1. /\ cpc[c] \in {"out", "open"} /\ handle[c] = 0
      /\ sess' \in [Clients -> 0 .. MaxSession]
      /\ sent' = [sent EXCEPT ![c] = 0] /\ got' = [got EXCEPT ![c] = <<>>]
      /\ UNCHANGED <<spc, hNamedPipe, fPendingIO, made, ops, inst, request, reply, written, cur,
                     inq, outq>>
  <2>1. sess' \in [Clients -> 0 .. MaxSession]
    <3>1. /\ sess' = [sess EXCEPT ![c] = IF cpc[c] = "out" THEN sess[c] + 1 ELSE sess[c]]
          /\ cpc[c] = "out" => sess[c] < MaxSession
      BY DEF Open
    <3> QED
      BY <3>1, WinConstants DEF TypeOK
  <2> QED
    BY <2>1 DEF Open, AtClient, instVars
<1>2. 0 \in ReqNumber /\ <<>> \in Seq(Reply) /\ 0 \notin Instance
  BY WinConstants DEF ReqNumber, Instance
<1>3. sent' \in [Clients -> ReqNumber] /\ got' \in [Clients -> Seq(Reply)]
  BY <1>1, <1>2 DEF TypeOK
<1>4. AtServer'
  BY <1>1 DEF AtServer
<1>5. Driven'
  BY <1>1 DEF Driven
<1>6. CASE \E i \in FreeInstances :
             /\ pipe' = [pipe EXCEPT ![i] = "connected"]
             /\ handle' = [handle EXCEPT ![c] = i]
             /\ event' = (event \/ (ConnectPending /\ i = hNamedPipe))
             /\ Goto(c, "opened")
  <2>1. PICK i \in FreeInstances :
             /\ pipe' = [pipe EXCEPT ![i] = "connected"]
             /\ handle' = [handle EXCEPT ![c] = i]
             /\ event' = (event \/ (ConnectPending /\ i = hNamedPipe))
             /\ Goto(c, "opened")
    BY <1>6
  <2>2. /\ i \in Instance /\ pipe[i] = "free" /\ i \in 0 .. MaxInst /\ i # 0
        /\ cpc' = [cpc EXCEPT ![c] = "opened"]
    BY <2>1, WinConstants DEF FreeInstances, Instance, Goto
  <2>3. inst[i] # "alive" /\ inq[i] = <<>> /\ outq[i] = <<>> /\ cur # i
    BY <2>2 DEF InstanceLife, AtServer
  <2>4. event' \in BOOLEAN
    BY <2>1
  <2>5. TypeOK'
    BY <1>1, <1>3, <2>1, <2>2, <2>4 DEF TypeOK
  <2>6. HandlesOwned' /\ InstanceLife'
    BY <1>1, <2>1, <2>2 DEF HandlesOwned, Exists, InstanceLife, TypeOK
  <2>7. \A d \in Clients \ {c} : handle[d] # i
    BY <2>2 DEF AtClient
  <2>8. AtClient'
    BY <1>1, <2>1, <2>2, <2>7, SMTT(30) DEF AtClient, TypeOK
  <2>9. Flow'
    <3> SUFFICES ASSUME NEW d \in Clients, handle'[d] # 0, pipe'[handle'[d]] = "connected"
                 PROVE  InOrder(got'[d], outq'[handle'[d]], Answering(handle[d])',
                                request'[handle'[d]], inq'[handle'[d]], sent'[d])
      BY DEF Flow, Answering
    <3>1. CASE d = c
      <4>1. /\ handle'[d] = i /\ got'[d] = <<>> /\ sent'[d] = 0 /\ outq'[i] = <<>> /\ inq'[i] = <<>>
        BY <1>1, <2>1, <2>3, <3>1 DEF TypeOK
      <4>2. Answering(handle[d])' = 0
        BY <1>1, <2>3, <4>1 DEF Answering
      <4> QED
        BY <4>1, <4>2, FlowStarts
    <3>2. CASE d # c
      <4>1. handle'[d] = handle[d] /\ got'[d] = got[d] /\ sent'[d] = sent[d] /\ handle[d] # i
        BY <1>1, <2>1, <2>7, <3>2 DEF TypeOK
      <4>2. handle[d] \in Instance /\ pipe[handle[d]] = "connected"
        BY <2>1, <4>1 DEF TypeOK, Instance
      <4>3. InOrder(got[d], outq[handle[d]], Answering(handle[d]), request[handle[d]],
                    inq[handle[d]], sent[d])
        BY <4>1, <4>2 DEF Flow
      <4> QED
        BY <1>1, <4>1, <4>3 DEF Answering
    <3> QED
      BY <3>1, <3>2
  <2> QED
    BY <1>4, <1>5, <2>5, <2>6, <2>8, <2>9
<1>7. CASE UNCHANGED <<pipe, handle, event>> /\ (Goto(c, "busy") \/ Goto(c, "out"))
  <2>1. PICK l \in {"busy", "out"} : cpc' = [cpc EXCEPT ![c] = l]
    BY <1>7 DEF Goto
  <2>2. TypeOK'
    BY <1>1, <1>3, <1>7, <2>1 DEF TypeOK
  <2>3. HandlesOwned' /\ InstanceLife'
    BY <1>1, <1>7 DEF HandlesOwned, Exists, InstanceLife
  <2>4. AtClient'
    BY <1>1, <1>7, <2>1 DEF AtClient, TypeOK
  <2>5. Flow'
    <3> SUFFICES ASSUME NEW d \in Clients, handle[d] # 0, pipe[handle[d]] = "connected"
                 PROVE  InOrder(got'[d], outq[handle[d]], Answering(handle[d]),
                                request[handle[d]], inq[handle[d]], sent'[d])
      BY <1>1, <1>7 DEF Flow, Answering
    <3>1. got'[d] = got[d] /\ sent'[d] = sent[d]
      BY <1>1 DEF TypeOK
    <3> QED
      BY <3>1 DEF Flow
  <2> QED
    BY <1>4, <1>5, <2>2, <2>3, <2>4, <2>5
<1> QED
  BY <1>6, <1>7 DEF Open

LEMMA CloseHandleStep ==
  ASSUME WinInv, NEW c \in Clients, CloseHandle(c, "out")
  PROVE  WinInv'
<1> USE DEF WinInv
<1>1. /\ cpc' = [cpc EXCEPT ![c] = "out"] /\ handle' = [handle EXCEPT ![c] = 0]
      /\ UNCHANGED <<sess, sent, got, spc, hNamedPipe, event, fPendingIO, made,
                     ops, inst, request, reply, written, cur, inq>>
  BY DEF CloseHandle, Goto, acceptVars, instVars
<1>2. /\ MaxInst \in Nat /\ 0 \in 0 .. MaxInst /\ <<>> \in Seq(Reply)
      /\ handle[c] # 0 => handle[c] \in Instance
  BY WinConstants DEF TypeOK, Instance
\* What happens to the pipe.
<1>3. /\ pipe' = IF handle[c] # 0 /\ pipe[handle[c]] = "connected"
                 THEN [pipe EXCEPT ![handle[c]] = "left"] ELSE pipe
      /\ outq' = IF handle[c] # 0 /\ pipe[handle[c]] # "connected"
                 THEN [outq EXCEPT ![handle[c]] = <<>>] ELSE outq
  BY DEF CloseHandle, Broken
<1>4. TypeOK'
  <2>1. cpc' \in [Clients -> {"out", "open", "busy", "opened", "idle", "write", "read"}]
        /\ handle' \in [Clients -> 0 .. MaxInst]
    BY <1>1, <1>2 DEF TypeOK
  <2>2. /\ pipe' \in [Instance -> {"none", "free", "connected", "left", "gone"}]
        /\ outq' \in [Instance -> Seq(Reply)]
    BY <1>2, <1>3 DEF TypeOK
  <2> QED
    BY <1>1, <2>1, <2>2 DEF TypeOK
<1>5. AtServer' /\ Driven'
  BY <1>1 DEF AtServer, Driven
<1>6. HandlesOwned' /\ InstanceLife'
  <2>1. \A i \in Instance : /\ pipe'[i] = pipe[i] \/ (pipe[i] = "connected" /\ pipe'[i] = "left")
                            /\ outq'[i] = outq[i] \/ outq'[i] = <<>>
    BY <1>2, <1>3 DEF TypeOK
  <2> QED
    BY <1>1, <2>1 DEF HandlesOwned, Exists, InstanceLife
<1>7. \A d \in Clients \ {c} : handle[d] # 0 => handle[d] # handle[c] /\ handle[d] \in Instance
  BY DEF AtClient, TypeOK, Instance
<1>8. \A d \in Clients \ {c} : handle[d] # 0 =>
        pipe'[handle[d]] = pipe[handle[d]] /\ outq'[handle[d]] = outq[handle[d]]
  BY <1>2, <1>3, <1>7 DEF TypeOK
<1>9. AtClient'
  BY <1>1, <1>7, <1>8 DEF AtClient, TypeOK
<1>10. Flow'
  <2> SUFFICES ASSUME NEW d \in Clients, handle'[d] # 0, pipe'[handle'[d]] = "connected"
               PROVE  InOrder(got[d], outq'[handle'[d]], Answering(handle[d])',
                              request[handle'[d]], inq[handle'[d]], sent[d])
    BY <1>1 DEF Flow, Answering
  <2>1. d # c /\ handle'[d] = handle[d]
    BY <1>1 DEF TypeOK
  <2>2. InOrder(got[d], outq[handle[d]], Answering(handle[d]), request[handle[d]],
                inq[handle[d]], sent[d])
    BY <1>8, <2>1 DEF Flow
  <2> QED
    BY <1>1, <1>8, <2>1, <2>2 DEF Answering
<1> QED
  BY <1>4, <1>5, <1>6, <1>9, <1>10

\* A request or a reply is moved between a client and the pipe of its handle.
LEMMA TransferStep ==
  ASSUME WinInv, NEW c \in Clients, Write(c) \/ ReadFile(c),
         ~UNCHANGED <<sent, got, inq, outq>>
  PROVE  WinInv'
<1> USE DEF WinInv
<1> DEFINE h == handle[c]
<1>1. /\ cpc[c] \in {"write", "read"} /\ cpc' = [cpc EXCEPT ![c] = "idle"]
      /\ UNCHANGED <<sess, handle, spc, hNamedPipe, event, fPendingIO, made,
                     ops, inst, request, reply, written, cur, pipe>>
  BY DEF Write, ReadFile, Goto, acceptVars, instVars
<1>2. /\ h # 0 /\ h \in Instance /\ got[c] \in Seq(Reply) /\ sent[c] \in ReqNumber
      /\ sent[c] \in Nat /\ inq[h] \in Seq(ReqNumber) /\ outq[h] \in Seq(Reply)
  <2>1. h # 0 /\ h \in Instance
    BY <1>1, WinConstants DEF AtClient, TypeOK, Instance
  <2> QED
    BY <2>1 DEF TypeOK, ReqNumber
\* The write.
<1>3. CASE Write(c)
  <2>1. /\ cpc[c] = "write" /\ pipe[h] = "connected"
        /\ sent' = [sent EXCEPT ![c] = sent[c] + 1] /\ got' = got
        /\ inq' = [inq EXCEPT ![h] = Append(inq[h], sent[c] + 1)] /\ outq' = outq
    BY <1>3 DEF Write, Broken
  <2>2. sent[c] + 1 \in ReqNumber /\ sent[c] + 1 \in Nat
    <3>1. sent[c] < MaxReq /\ sent[c] \in 0 .. MaxReq /\ MaxReq \in Nat
      BY <2>1, WinConstants DEF AtClient, TypeOK, ReqNumber
    <3> QED
      BY <3>1 DEF ReqNumber
  <2>3. Append(inq[h], sent[c] + 1) \in Seq(ReqNumber)
    BY <1>2, <2>2
  <2>4. TypeOK'
    <3>1. sent' \in [Clients -> ReqNumber] /\ inq' \in [Instance -> Seq(ReqNumber)]
      BY <2>1, <2>2, <2>3 DEF TypeOK
    <3>2. cpc' \in [Clients -> {"out", "open", "busy", "opened", "idle", "write", "read"}]
      BY <1>1 DEF TypeOK
    <3> QED
      BY <1>1, <2>1, <3>1, <3>2 DEF TypeOK
  <2>5. \A i \in Instance \ {h} : inq'[i] = inq[i]
    BY <2>1 DEF TypeOK
  <2>6. AtServer' /\ Driven' /\ HandlesOwned'
    BY <1>1 DEF AtServer, Driven, HandlesOwned, Exists
  <2>7. InstanceLife'
    BY <1>1, <2>1, <2>5 DEF InstanceLife
  <2>8. AtClient'
    <3>1. \A d \in Clients : cpc'[d] = IF d = c THEN "idle" ELSE cpc[d]
      BY <1>1 DEF TypeOK
    <3>2. \A d \in Clients \ {c} : sent'[d] = sent[d]
      BY <2>1 DEF TypeOK
    <3>3. cpc[c] = "write" /\ cpc'[c] = "idle"
      BY <2>1, <3>1
    <3> QED
      BY <1>1, <3>1, <3>2, <3>3 DEF AtClient
  <2>9. Flow'
    <3> SUFFICES ASSUME NEW d \in Clients, handle[d] # 0, pipe[handle[d]] = "connected"
                 PROVE  InOrder(got[d], outq[handle[d]], Answering(handle[d]),
                                request[handle[d]], inq'[handle[d]], sent'[d])
      BY <1>1, <2>1 DEF Flow, Answering
    <3>1. InOrder(got[d], outq[handle[d]], Answering(handle[d]), request[handle[d]],
                  inq[handle[d]], sent[d])
      BY DEF Flow
    <3>2. CASE d = c
      <4>1. inq'[h] = Append(inq[h], sent[c] + 1) /\ sent'[c] = sent[c] + 1
        BY <1>2, <2>1 DEF TypeOK
      <4>2. Answering(h) \in 0 .. 1
        BY DEF Answering
      <4>3. InOrder(got[c], outq[h], Answering(h), request[h], Append(inq[h], sent[c] + 1), sent[c] + 1)
        BY <1>2, <2>2, <3>1, <3>2, <4>2, FlowWrite
      <4> QED
        BY <3>2, <4>1, <4>3
    <3>3. CASE d # c
      <4>1. handle[d] # h /\ handle[d] \in Instance /\ sent'[d] = sent[d]
        BY <2>1, <3>3 DEF AtClient, TypeOK, Instance
      <4> QED
        BY <2>5, <3>1, <4>1
    <3> QED
      BY <3>2, <3>3
  <2> QED
    BY <2>4, <2>6, <2>7, <2>8, <2>9
\* The read.
<1>4. CASE ReadFile(c)
  <2>1. /\ outq[h] # <<>> /\ got' = [got EXCEPT ![c] = Append(got[c], Head(outq[h]))]
        /\ outq' = [outq EXCEPT ![h] = Tail(outq[h])] /\ sent' = sent /\ inq' = inq
    BY <1>4 DEF ReadFile
  <2>2. /\ Head(outq[h]) \in Reply /\ Tail(outq[h]) \in Seq(Reply)
        /\ Append(got[c], Head(outq[h])) \in Seq(Reply)
    <3>1. Head(outq[h]) \in Reply /\ Tail(outq[h]) \in Seq(Reply)
      BY <1>2, <2>1, TailStarts
    <3> QED
      BY <1>2, <3>1, AppendEnds
  <2>3. TypeOK'
    <3>1. got' \in [Clients -> Seq(Reply)] /\ outq' \in [Instance -> Seq(Reply)]
      BY <2>1, <2>2 DEF TypeOK
    <3>2. cpc' \in [Clients -> {"out", "open", "busy", "opened", "idle", "write", "read"}]
      BY <1>1 DEF TypeOK
    <3> QED
      BY <1>1, <2>1, <3>1, <3>2 DEF TypeOK
  <2>4. \A i \in Instance \ {h} : outq'[i] = outq[i]
    BY <2>1 DEF TypeOK
  <2>5. AtServer' /\ Driven' /\ HandlesOwned'
    BY <1>1 DEF AtServer, Driven, HandlesOwned, Exists
  <2>6. InstanceLife'
    <3>1. pipe[h] \in {"connected", "gone"}
      BY <1>2 DEF AtClient
    <3> QED
      BY <1>1, <2>1, <2>4, <3>1 DEF InstanceLife
  <2>7. AtClient'
    BY <1>1, <1>2, <2>1, SMTT(30) DEF AtClient, TypeOK
  <2>8. Flow'
    <3> SUFFICES ASSUME NEW d \in Clients, handle[d] # 0, pipe[handle[d]] = "connected"
                 PROVE  InOrder(got'[d], outq'[handle[d]], Answering(handle[d]),
                                request[handle[d]], inq[handle[d]], sent[d])
      BY <1>1, <2>1 DEF Flow, Answering
    <3>1. InOrder(got[d], outq[handle[d]], Answering(handle[d]), request[handle[d]],
                  inq[handle[d]], sent[d])
      BY DEF Flow
    <3>2. CASE d = c
      <4>1. outq'[h] = Tail(outq[h]) /\ got'[c] = Append(got[c], Head(outq[h]))
        BY <1>2, <2>1 DEF TypeOK
      <4>2. Answering(h) \in 0 .. 1
        BY DEF Answering
      <4>3. InOrder(Append(got[c], Head(outq[h])), Tail(outq[h]), Answering(h), request[h],
                    inq[h], sent[c])
        BY <1>2, <2>1, <3>1, <3>2, <4>2, FlowRead
      <4> QED
        BY <3>2, <4>1, <4>3
    <3>3. CASE d # c
      <4>1. handle[d] # h /\ handle[d] \in Instance /\ got'[d] = got[d]
        BY <2>1, <3>3 DEF AtClient, TypeOK, Instance
      <4> QED
        BY <2>4, <3>1, <4>1
    <3> QED
      BY <3>2, <3>3
  <2> QED
    BY <2>3, <2>5, <2>6, <2>7, <2>8
<1> QED
  BY <1>3, <1>4

LEMMA ClientNextInv ==
  ASSUME WinInv, NEW c \in Clients, ClientCall(c) \/ ClientStep(c) \/ ClientDies(c)
  PROVE  WinInv'
<1>1. CASE Open(c)
  BY <1>1, OpenStep
<1>2. CASE CloseHandle(c, "out")
  BY <1>2, CloseHandleStep
<1>3. CASE (Write(c) \/ ReadFile(c)) /\ ~UNCHANGED <<sent, got, inq, outq>>
  BY <1>3, TransferStep
<1>4. CASE /\ \/ Write(c) \/ ReadFile(c)
           /\ UNCHANGED <<sent, got, inq, outq>>
  <2>1. handle[c] # 0 /\ cpc' = [cpc EXCEPT ![c] = "idle"]
    BY <1>4 DEF Write, ReadFile, Goto, WinInv, AtClient
  <2>2. UNCHANGED <<sess, handle, sent, got, acceptVars, instVars, pipe, inq, outq>>
    BY <1>4 DEF Write, ReadFile
  <2> QED
    BY <2>1, <2>2, ClientMoves
<1>5. CASE WaitNamedPipe(c)
  <2>1. PICK l \in {"open", "out"} : cpc' = [cpc EXCEPT ![c] = l]
    BY <1>5 DEF WaitNamedPipe, Goto
  <2>2. /\ UNCHANGED <<sess, handle, sent, got, acceptVars, instVars, pipe, inq, outq>>
        /\ handle[c] = 0
    BY <1>5 DEF WaitNamedPipe, WinInv, AtClient
  <2> QED
    BY <2>1, <2>2, ClientMoves
<1>6. CASE SetReadMode(c) /\ ~CloseHandle(c, "out")
  <2>1. /\ UNCHANGED <<sess, handle, sent, got, acceptVars, instVars, pipe, inq, outq>>
        /\ handle[c] # 0 /\ cpc' = [cpc EXCEPT ![c] = "idle"]
    BY <1>6 DEF SetReadMode, Goto, WinInv, AtClient
  <2> QED
    BY <2>1, ClientMoves
<1>7. CASE BeginWrite(c)
  <2>1. /\ UNCHANGED <<sess, handle, sent, got, acceptVars, instVars, pipe, inq, outq>>
        /\ handle[c] # 0 /\ cpc' = [cpc EXCEPT ![c] = "write"] /\ sent[c] < MaxReq
    BY <1>7 DEF BeginWrite, Goto, WinInv, AtClient
  <2> QED
    BY <2>1, ClientMoves
<1>8. CASE BeginRead(c)
  <2>1. /\ UNCHANGED <<sess, handle, sent, got, acceptVars, instVars, pipe, inq, outq>>
        /\ handle[c] # 0 /\ cpc' = [cpc EXCEPT ![c] = "read"]
    BY <1>8 DEF BeginRead, Goto, WinInv, AtClient
  <2> QED
    BY <2>1, ClientMoves
<1> QED
  BY <1>1, <1>2, <1>3, <1>4, <1>5, <1>6, <1>7, <1>8
     DEF ClientCall, ClientStep, ClientDies, Free, SetReadMode

-----------------------------------------------------------------------------
(* The results *)

LEMMA WinNextInv == WinInv /\ [Next]_vars => WinInv'
<1> SUFFICES ASSUME WinInv, [Next]_vars PROVE WinInv'
  OBVIOUS
<1>1. CASE UNCHANGED vars
  <2>1. UNCHANGED <<cpc, sess, handle, sent, got, spc, hNamedPipe, event, fPendingIO, made,
                    ops, inst, request, reply, written, cur, pipe, inq, outq>>
    BY <1>1 DEF vars, clientVars, acceptVars, instVars
  <2>2. TypeOK' /\ AtServer' /\ Driven'
    BY <2>1 DEF WinInv, TypeOK, AtServer, Driven
  <2>3. HandlesOwned' /\ InstanceLife' /\ AtClient'
    BY <2>1 DEF WinInv, HandlesOwned, Exists, InstanceLife, AtClient
  <2>4. Flow'
    BY <2>1, FlowStays DEF Answering
  <2> QED
    BY <2>2, <2>3, <2>4 DEF WinInv
<1>2. CASE Next
  BY <1>2, ClientNextInv, LoopStep, NewInstanceStep, EndServerStep, AcceptStep, CallbackStep,
     ReadRoutineStep, WriteRoutineStep DEF Next, ServerStep, Routine
<1> QED
  BY <1>1, <1>2

LEMMA WinAlways == Spec => []WinInv
<1> QED
  BY WinInitInv, WinNextInv, PTL DEF Spec

\* Each client that the Windows server accepted is driven by exactly one overlapped
\* operation or by its routine, and its instance is closed and its storage freed
\* once, on every path of ConnectToNewClient and of the two completion routines
\* (fifo-win.c), whatever fails and whoever ends.
THEOREM InstancesAlwaysSound == Spec => []InstancesSound
<1>1. WinInv => InstancesSound
  <2> SUFFICES ASSUME WinInv PROVE InstanceDriven
    BY DEF WinInv, InstancesSound
  <2>1. Cardinality({}) = 0 /\ Cardinality({"read"}) = 1 /\ Cardinality({"write"}) = 1
    BY FS_EmptySet, FS_Singleton
  <2> QED
    BY <2>1 DEF WinInv, Driven, InstanceDriven
<1> QED
  BY <1>1, WinAlways, PTL

LEMMA NatConcat ==
  ASSUME NEW p \in Seq(Nat), NEW q \in Seq(Nat)
  PROVE  /\ p \o q \in Seq(Nat) /\ Len(p \o q) = Len(p) + Len(q)
         /\ \A k \in 1 .. Len(p) + Len(q) :
              (p \o q)[k] = IF k <= Len(p) THEN p[k] ELSE q[k - Len(p)]
BY ConcatProperties, Zenon

\* What InOrder says of the messages put one behind the other.
LEMMA InOrderMeans ==
  ASSUME NEW g \in Seq(Reply), NEW o \in Seq(Reply), NEW b \in 0 .. 1, NEW r,
         NEW n \in Seq(ReqNumber), NEW s \in Nat, InOrder(g, o, b, r, n, s)
  PROVE  [k \in 1 .. Len(g \o o) |-> (g \o o)[k].to] \o (IF b = 1 THEN <<r>> ELSE <<>>) \o n
           = [k \in 1 .. s |-> k]
<1> DEFINE a == g \o o
           m == [k \in 1 .. Len(a) |-> a[k].to]
           w == IF b = 1 THEN <<r>> ELSE <<>>
<1>1. Len(g) \in Nat /\ Len(o) \in Nat /\ Len(n) \in Nat
  OBVIOUS
<1>2. a \in Seq(Reply) /\ Len(a) = Len(g) + Len(o)
  OBVIOUS
<1>3. \A k \in 1 .. Len(a) : a[k].to = k
  <2> SUFFICES ASSUME NEW k \in 1 .. Len(a) PROVE a[k].to = k
    OBVIOUS
  <2>1. CASE k <= Len(g)
    <3>1. a[k] = g[k] /\ k \in 1 .. Len(g)
      BY <1>1, <2>1
    <3> QED
      BY <3>1 DEF InOrder
  <2>2. CASE k > Len(g)
    <3>1. a[k] = o[k - Len(g)] /\ k - Len(g) \in 1 .. Len(o)
      BY <1>1, <1>2, <2>2
    <3>2. o[k - Len(g)].to = Len(g) + (k - Len(g))
      BY <3>1 DEF InOrder
    <3> QED
      BY <1>1, <3>1, <3>2
  <2> QED
    BY <1>1, <2>1, <2>2
<1> HIDE DEF a
<1>4. m \in Seq(Nat) /\ Len(m) = Len(a) /\ \A k \in 1 .. Len(a) : m[k] = k
  BY <1>1, <1>2, <1>3
<1>5. /\ b = 1 => r = Len(a) + 1
      /\ Len(a) + b + Len(n) = s
      /\ \A k \in 1 .. Len(n) : n[k] = Len(a) + b + k
  BY <1>2 DEF InOrder
<1>6. w \in Seq(Nat) /\ Len(w) = b /\ (b = 1 => w[1] = Len(a) + 1)
  BY <1>1, <1>2, <1>5
<1>7. n \in Seq(Nat)
  <2>1. ReqNumber \subseteq Nat
    BY DEF ReqNumber
  <2> QED
    BY <2>1, SeqMonotonic, Zenon
<1>0. Len(a) \in Nat /\ b \in Nat
  BY <1>1, <1>2
<1> HIDE DEF m, w
<1> DEFINE mw == m \o w
<1> HIDE DEF mw
<1>8. /\ mw \in Seq(Nat) /\ Len(mw) = Len(a) + b
      /\ \A k \in 1 .. Len(a) + b : mw[k] = k
  <2>1. /\ mw \in Seq(Nat) /\ Len(mw) = Len(m) + Len(w)
        /\ \A k \in 1 .. Len(m) + Len(w) :
             mw[k] = IF k <= Len(m) THEN m[k] ELSE w[k - Len(m)]
    BY <1>4, <1>6, NatConcat, Zenon DEF mw
  <2>2. ASSUME NEW k \in 1 .. Len(a) + b PROVE mw[k] = k
    <3>1. CASE k <= Len(a)
      <4>1. k \in 1 .. Len(a) /\ k \in 1 .. Len(m) + Len(w) /\ k <= Len(m)
        BY <1>0, <1>4, <1>6, <3>1
      <4>2. mw[k] = m[k] /\ m[k] = k
        BY <1>4, <2>1, <4>1
      <4> QED
        BY <4>2
    <3>2. CASE k > Len(a)
      <4>1. b = 1 /\ k = Len(a) + 1 /\ k - Len(a) = 1 /\ ~(k <= Len(a))
        BY <1>0, <3>2
      <4>2. mw[k] = w[1]
        BY <1>4, <1>6, <2>1, <4>1
      <4> QED
        BY <1>6, <4>1, <4>2
    <3> QED
      BY <1>0, <3>1, <3>2
  <2> QED
    BY <1>4, <1>6, <2>1, <2>2
<1>9. /\ mw \o n \in Seq(Nat) /\ Len(mw \o n) = s
      /\ \A k \in 1 .. s : (mw \o n)[k] = IF k <= Len(a) + b THEN mw[k] ELSE n[k - (Len(a) + b)]
  <2>1. mw \in Seq(Nat) /\ Len(mw) = Len(a) + b
    BY <1>8
  <2>2. /\ mw \o n \in Seq(Nat) /\ Len(mw \o n) = Len(mw) + Len(n)
        /\ \A k \in 1 .. Len(mw) + Len(n) :
             (mw \o n)[k] = IF k <= Len(mw) THEN mw[k] ELSE n[k - Len(mw)]
    BY <1>7, <2>1, NatConcat, Zenon
  <2>3. Len(mw) + Len(n) = s
    BY <1>5, <2>1
  <2> QED
    BY <2>1, <2>2, <2>3, Zenon
<1>10. ASSUME NEW k \in 1 .. s PROVE (mw \o n)[k] = k
  <2>1. CASE k <= Len(a) + b
    <3>1. k \in 1 .. Len(a) + b
      BY <1>0, <2>1
    <3> QED
      BY <1>8, <1>9, <2>1, <3>1
  <2>2. CASE k > Len(a) + b
    <3>1. k - (Len(a) + b) \in 1 .. Len(n) /\ ~(k <= Len(a) + b)
      BY <1>0, <1>1, <1>5, <2>2
    <3>2. (mw \o n)[k] = n[k - (Len(a) + b)]
      BY <1>9, <3>1
    <3>3. n[k - (Len(a) + b)] = Len(a) + b + (k - (Len(a) + b))
      BY <1>5, <3>1
    <3> QED
      BY <1>0, <3>2, <3>3
  <2>3. k <= Len(a) + b \/ k > Len(a) + b
    BY <1>0
  <2> QED
    BY <2>1, <2>2, <2>3, Zenon
<1>11. mw \o n = [k \in 1 .. s |-> k]
  <2> DEFINE u == [k \in 1 .. s |-> k]
  <2>1. u \in Seq(Nat) /\ Len(u) = s /\ \A k \in 1 .. s : u[k] = k
    OBVIOUS
  <2> HIDE DEF u
  <2>2. mw \o n = u
    BY <1>9, <1>10, <2>1, SeqEqual
  <2> QED
    BY <2>2 DEF u
<1> QED
  BY <1>11 DEF mw, m, w, a

\* Nothing that a client wrote in its session is lost, answered twice or out of order,
\* as long as its pipe is connected: the pipe, the instance of the server and the
\* replies hold all of it.
THEOREM RequestsAlwaysKept == Spec => []NoRequestLost
<1>1. WinInv => NoRequestLost
  <2> SUFFICES ASSUME WinInv, NEW c \in Clients, handle[c] # 0, ~Broken(c)
               PROVE  [k \in 1 .. Len(Answers(c)) |-> Answers(c)[k].to]
                        \o InCallback(handle[c]) \o inq[handle[c]] = [k \in 1 .. sent[c] |-> k]
    BY DEF NoRequestLost
  <2> DEFINE h == handle[c]
  <2>1. /\ h \in Instance /\ got[c] \in Seq(Reply) /\ sent[c] \in Nat
        /\ inq[h] \in Seq(ReqNumber) /\ outq[h] \in Seq(Reply) /\ Answering(h) \in 0 .. 1
    BY DEF WinInv, TypeOK, Instance, ReqNumber, Answering
  <2>2. InOrder(got[c], outq[h], Answering(h), request[h], inq[h], sent[c])
    BY DEF WinInv, Flow, Broken
  <2>3. InCallback(h) = IF Answering(h) = 1 THEN <<request[h]>> ELSE <<>>
    <3>1. CASE spc = "callback" /\ cur = h
      BY <3>1 DEF InCallback, Answering
    <3>2. CASE ~(spc = "callback" /\ cur = h)
      BY <3>2 DEF InCallback, Answering
    <3> QED
      BY <3>1, <3>2
  <2>4. Answers(c) = got[c] \o outq[h]
    BY DEF Answers
  <2> HIDE DEF h
  <2>5. [k \in 1 .. Len(got[c] \o outq[h]) |-> (got[c] \o outq[h])[k].to]
          \o (IF Answering(h) = 1 THEN <<request[h]>> ELSE <<>>) \o inq[h]
          = [k \in 1 .. sent[c] |-> k]
    BY <2>1, <2>2, InOrderMeans, ZenonT(60)
  <2>6. [k \in 1 .. Len(Answers(c)) |-> Answers(c)[k].to] \o InCallback(h) \o inq[h]
          = [k \in 1 .. sent[c] |-> k]
    BY <2>3, <2>4, <2>5, Zenon
  <2> QED
    BY <2>6 DEF h
<1> QED
  BY <1>1, WinAlways, PTL
=============================================================================
