------------------------------ MODULE FifoWin ------------------------------
(***************************************************************************)
(* The transport of src/fifo-win.c: one server thread that serves every    *)
(* client by overlapped I/O with completion routines, the client processes *)
(* that call the fifo_client_* functions, and the named pipes of Windows   *)
(* between them.                                                           *)
(*                                                                         *)
(* A pipe instance is numbered by the CreateNamedPipe call that made it.   *)
(* The server holds one instance more than it has clients: the one in      *)
(* hNamedPipe, which waits for the next.  A completion routine runs only   *)
(* inside the alertable wait of the accept loop (spc = "wait"), so the     *)
(* server is one thread of control, and what interleaves with it are the   *)
(* clients.  A wait that times out prints a dot and is no step.            *)
(***************************************************************************)
EXTENDS Naturals, Sequences, FiniteSets

CONSTANTS
  Clients,     \* the client processes
  MaxSession,  \* bound: calls of fifo_client_new that one process makes
  MaxReq,      \* bound: requests written in one session
  MaxInst,     \* bound: pipe instances the server creates
  PipeCap,     \* messages a pipe holds in one direction
  Env          \* what the programs around the library do, and what may fail

WinOptions ==
  { "sample_loop",      \* clients run main() of examples/fifoclient.c;
                        \* without it they make any sequence of API calls
    "wait_forever",     \* clients pass wait_timeout < 0
    "silent_callback",  \* pipemsgcb may leave reply.msgsz at 0
    "clients_die",      \* a client process may end at any moment
    "pipes_fail",       \* a call that makes or connects a pipe may fail
    "server_ends" }     \* servloopcb may return 0; a server may be restarted

ASSUME WinConstants ==
  /\ MaxSession \in Nat \ {0} /\ MaxReq \in Nat \ {0}
  /\ MaxInst \in Nat \ {0} /\ PipeCap \in Nat \ {0}
  /\ Env \subseteq WinOptions

VARIABLES
  cpc,        \* where each client stands: "out" is outside any session
  sess,       \* how often it has called fifo_client_new
  handle,     \* client->hNamedPipe: the instance, 0 when it has none
  sent,       \* requests written in this session
  got,        \* history: the replies read in this session
  spc,        \* where the server thread stands
  hNamedPipe, \* the instance for the next client
  event,      \* hConnectEvent is signalled
  fPendingIO, \* the variable of fifo_server_runforever
  cur,        \* the instance whose CompletedReadRoutine is running
  made,       \* instances created so far
  pipe,       \* the state of each instance
  ops,        \* the overlapped operations outstanding on it
  inst,       \* its pipe_instance_t
  request,    \* pPipeInst->request
  reply,      \* pPipeInst->reply
  written,    \* what the write in flight was given
  inq, outq   \* messages to the server and to the client

clientVars == <<cpc, sess, handle, sent, got>>
acceptVars == <<spc, hNamedPipe, event, fPendingIO, made>>
instVars   == <<ops, inst, request, reply, written, cur>>
vars == <<clientVars, acceptVars, instVars, pipe, inq, outq>>

Instance == 1 .. MaxInst
ReqNumber == 0 .. MaxReq

\* A request is the number it has in its session.  A reply names the request
\* it answers; it is empty when the callback left msgsz at 0, and then the
\* message written has no byte at all.
Reply == [to : ReqNumber, empty : BOOLEAN]
NoReply == [to |-> 0, empty |-> TRUE]

Serving == spc \in {"connect", "wait", "callback", "create"}
Exists(i) == pipe[i] \in {"free", "connected", "left"}
FreeInstances == {i \in Instance : pipe[i] = "free"}

\* ConnectNamedPipe(hNamedPipe) is under way.
ConnectPending == spc \in {"wait", "callback", "returned"} /\ fPendingIO /\ ~event

Goto(c, l) == cpc' = [cpc EXCEPT ![c] = l]

Init ==
  /\ cpc = [c \in Clients |-> "out"]
  /\ sess = [c \in Clients |-> 0]
  /\ handle = [c \in Clients |-> 0]
  /\ sent = [c \in Clients |-> 0]
  /\ got = [c \in Clients |-> <<>>]
  /\ spc = "off" /\ hNamedPipe = 0 /\ event = FALSE /\ fPendingIO = FALSE
  /\ cur = 0 /\ made = 0
  /\ pipe = [i \in Instance |-> "none"]
  /\ ops = [i \in Instance |-> {}]
  /\ inst = [i \in Instance |-> "none"]
  /\ request = [i \in Instance |-> 0]
  /\ reply = [i \in Instance |-> NoReply]
  /\ written = [i \in Instance |-> NoReply]
  /\ inq = [i \in Instance |-> <<>>]
  /\ outq = [i \in Instance |-> <<>>]

-----------------------------------------------------------------------------
(* The accept loop *)

\* The process ends: its handles close, and with them every pipe.  What a
\* client has not read stays readable, since nobody disconnected it.
EndServer ==
  /\ spc' = "exited"
  /\ pipe' = [i \in Instance |-> IF Exists(i) THEN "gone" ELSE pipe[i]]
  /\ ops' = [i \in Instance |-> {}]
  /\ inst' = [i \in Instance |-> IF inst[i] = "alive" THEN "freed" ELSE inst[i]]
  /\ request' = [i \in Instance |-> 0]
  /\ reply' = [i \in Instance |-> NoReply]
  /\ written' = [i \in Instance |-> NoReply]
  /\ inq' = [i \in Instance |-> <<>>]
  /\ cur' = 0
  /\ UNCHANGED <<clientVars, hNamedPipe, event, fPendingIO, made, outq>>

\* CreateNamedPipe: from now on a client can connect to the instance.
NewInstance ==
  /\ made < MaxInst
  /\ made' = made + 1
  /\ hNamedPipe' = made + 1
  /\ pipe' = [pipe EXCEPT ![made + 1] = "free"]
  /\ spc' = "connect"
  /\ UNCHANGED <<clientVars, instVars, fPendingIO, inq, outq>>

\* fifo_server_new, which makes the event signalled, and the first pipe.
ServerStart ==
  /\ spc \in {"off"} \cup (IF "server_ends" \in Env THEN {"exited"} ELSE {})
  /\ event' = TRUE
  /\ NewInstance

CreateNext == spc = "create" /\ NewInstance /\ UNCHANGED event

\* A ConnectToNewClient that takes ERROR_PIPE_CONNECTED for a pending connect.
ConnectToNewClient_NoSetEvent ==
  /\ spc = "connect"
  /\ spc' = "wait"
  /\ fPendingIO' = (pipe[hNamedPipe] = "free")
  /\ event' = FALSE
  /\ UNCHANGED <<clientVars, instVars, hNamedPipe, made, pipe, inq, outq>>

\* ConnectToNewClient.  The call resets the event; it is set again when a
\* pending connect completes, or here for a client that was there already.
\* One that came and left is an error (ERROR_NO_DATA), like any other.
ConnectToNewClient ==
  /\ spc = "connect"
  /\ spc' = "wait"
  /\ \/ /\ fPendingIO' = (pipe[hNamedPipe] = "free")
        /\ event' = (pipe[hNamedPipe] = "connected")
     \/ /\ "pipes_fail" \in Env
        /\ fPendingIO' = FALSE
        /\ event' = FALSE
  /\ UNCHANGED <<clientVars, instVars, hNamedPipe, made, pipe, inq, outq>>

\* DisconnectNamedPipe drops what the client has not read yet.
DisconnectAndClose(i) ==
  /\ pipe' = [pipe EXCEPT ![i] = "gone"]
  /\ inst' = [inst EXCEPT ![i] = "freed"]
  /\ request' = [request EXCEPT ![i] = 0]
  /\ reply' = [reply EXCEPT ![i] = NoReply]
  /\ written' = [written EXCEPT ![i] = NoReply]
  /\ inq' = [inq EXCEPT ![i] = <<>>]
  /\ outq' = [outq EXCEPT ![i] = <<>>]

\* ReadFileEx is accepted while the client is there or has left something
\* to read; otherwise the instance is closed.
ReadOrClose(i) ==
  IF pipe[i] = "connected" \/ inq[i] # <<>>
  THEN /\ ops' = [ops EXCEPT ![i] = (@ \ {"write"}) \cup {"read"}]
       /\ inst' = [inst EXCEPT ![i] = "alive"]
       /\ UNCHANGED <<pipe, request, reply, written, inq, outq>>
  ELSE /\ ops' = [ops EXCEPT ![i] = @ \ {"write"}]
       /\ DisconnectAndClose(i)

\* The wait returned 0: a pipe_instance_t for the client, its first read.
Accept ==
  /\ spc = "wait" /\ event
  /\ spc' = "create"
  /\ ReadOrClose(hNamedPipe)
  /\ UNCHANGED <<clientVars, hNamedPipe, event, fPendingIO, made, cur>>

\* GetOverlappedResult, GlobalAlloc or CreateNamedPipe failed: exit().
ServerFails ==
  /\ "pipes_fail" \in Env
  /\ spc = "create" \/ (spc = "wait" /\ event)
  /\ EndServer

\* servloopcb returned 0.  Its handles stay open until the process ends, and
\* no completion routine runs any more.
LoopStops ==
  /\ "server_ends" \in Env
  /\ spc = "wait"
  /\ spc' = "returned"
  /\ UNCHANGED <<clientVars, hNamedPipe, event, fPendingIO, made, instVars,
                 pipe, inq, outq>>

\* The program returns from main, or its process is ended from outside.
ServerExits ==
  /\ "server_ends" \in Env
  /\ Serving \/ spc = "returned"
  /\ EndServer

-----------------------------------------------------------------------------
(* The completion routines *)

\* A routine that does not clear reply.msgsz before it calls pipemsgcb.
CompletedReadRoutine_NoReset(i) ==
  /\ spc = "wait"
  /\ "read" \in ops[i]
  /\ inq[i] # <<>>
  /\ request' = [request EXCEPT ![i] = Head(inq[i])]
  /\ inq' = [inq EXCEPT ![i] = Tail(@)]
  /\ ops' = [ops EXCEPT ![i] = @ \ {"read"}]
  /\ spc' = "callback"
  /\ cur' = i
  /\ UNCHANGED <<clientVars, hNamedPipe, event, fPendingIO, made, written,
                 pipe, inst, reply, outq>>

\* CompletedReadRoutine up to the callback.  Without a request there is only
\* the error that says the client has left.
CompletedReadRoutine(i) ==
  /\ spc = "wait"
  /\ "read" \in ops[i]
  /\ \/ /\ inq[i] # <<>>
        /\ request' = [request EXCEPT ![i] = Head(inq[i])]
        /\ inq' = [inq EXCEPT ![i] = Tail(@)]
        /\ reply' = [reply EXCEPT ![i] = NoReply]
        /\ ops' = [ops EXCEPT ![i] = @ \ {"read"}]
        /\ spc' = "callback"
        /\ cur' = i
        /\ UNCHANGED <<written, pipe, inst, outq>>
     \/ /\ inq[i] = <<>> /\ pipe[i] = "left"
        /\ ops' = [ops EXCEPT ![i] = @ \ {"read"}]
        /\ DisconnectAndClose(i)
        /\ UNCHANGED <<spc, cur>>
  /\ UNCHANGED <<clientVars, hNamedPipe, event, fPendingIO, made>>

\* What the callback has left in pPipeInst->reply: its answer, or what was
\* there when it does not touch it.
Replies ==
  {[to |-> request[cur], empty |-> FALSE]} \cup
  IF "silent_callback" \notin Env THEN {}
  ELSE {IF reply[cur].empty THEN [to |-> request[cur], empty |-> TRUE] ELSE reply[cur]}

\* The callback returned.  The reply is always written, with no byte at all
\* when there is none; it fails when the client has left.
CallbackReturns ==
  /\ spc = "callback"
  /\ spc' = "wait"
  /\ cur' = 0
  /\ \E r \in Replies :
       IF pipe[cur] = "connected"
       THEN /\ reply' = [reply EXCEPT ![cur] = r]
            /\ written' = [written EXCEPT ![cur] = r]
            /\ outq' = [outq EXCEPT ![cur] = Append(@, r)]
            /\ ops' = [ops EXCEPT ![cur] = @ \cup {"write"}]
            /\ UNCHANGED <<pipe, inst, request, inq>>
       ELSE DisconnectAndClose(cur) /\ UNCHANGED ops
  /\ UNCHANGED <<clientVars, hNamedPipe, event, fPendingIO, made>>

\* A write completes when its message has found room in the pipe (one that
\* has not is at the end of the queue, behind a full pipe), or in error when
\* the client has left.
WriteDone(i) == Len(outq[i]) <= PipeCap \/ pipe[i] = "left"

\* A routine that returns on an error, as if the read would report it again.
CompletedWriteRoutine_NoClose(i) ==
  /\ spc = "wait"
  /\ "write" \in ops[i] /\ WriteDone(i)
  /\ IF Len(outq[i]) <= PipeCap /\ pipe[i] = "connected"
     THEN ReadOrClose(i)
     ELSE /\ ops' = [ops EXCEPT ![i] = @ \ {"write"}]
          /\ UNCHANGED <<pipe, inst, request, reply, written, inq, outq>>
  /\ UNCHANGED <<clientVars, acceptVars, cur>>

\* CompletedWriteRoutine: as many bytes as reply.msgsz tells, then read on.
CompletedWriteRoutine(i) ==
  /\ spc = "wait"
  /\ "write" \in ops[i] /\ WriteDone(i)
  /\ IF Len(outq[i]) <= PipeCap /\ written[i].empty = reply[i].empty
     THEN ReadOrClose(i)
     ELSE /\ ops' = [ops EXCEPT ![i] = @ \ {"write"}]
          /\ DisconnectAndClose(i)
  /\ UNCHANGED <<clientVars, acceptVars, cur>>

-----------------------------------------------------------------------------
(* The client *)

SampleLoop == "sample_loop" \in Env
WaitForever == "wait_forever" \in Env
Broken(c) == pipe[handle[c]] # "connected"

\* CreateFile, at first and again after a wait: it takes a free instance,
\* or learns that all are busy, or that there is no such pipe.
Open(c) ==
  /\ cpc[c] \in {"out", "open"}
  /\ cpc[c] = "out" => sess[c] < MaxSession
  /\ sess' = [sess EXCEPT ![c] = IF cpc[c] = "out" THEN @ + 1 ELSE @]
  /\ \/ \E i \in FreeInstances :
          /\ pipe' = [pipe EXCEPT ![i] = "connected"]
          /\ handle' = [handle EXCEPT ![c] = i]
          /\ event' = (event \/ (ConnectPending /\ i = hNamedPipe))
          /\ Goto(c, "opened")
     \/ /\ FreeInstances = {}
        /\ \/ (\E i \in Instance : Exists(i)) /\ Goto(c, "busy")
           \/ (\A i \in Instance : ~Exists(i)) /\ Goto(c, "out")
        /\ UNCHANGED <<pipe, handle, event>>
  /\ sent' = [sent EXCEPT ![c] = 0]
  /\ got' = [got EXCEPT ![c] = <<>>]
  /\ UNCHANGED <<spc, hNamedPipe, fPendingIO, made, instVars, inq, outq>>

\* WaitNamedPipe: an instance is free (another client may take it first), or
\* the time is over, or there is no pipe of this name any more.
WaitNamedPipe(c) ==
  /\ cpc[c] = "busy"
  /\ \/ FreeInstances # {} /\ Goto(c, "open")
     \/ ~WaitForever /\ FreeInstances = {} /\ Goto(c, "out")
     \/ (\A i \in Instance : ~Exists(i)) /\ Goto(c, "out")
  /\ UNCHANGED <<sess, handle, sent, got, acceptVars, instVars, pipe, inq, outq>>

\* CloseHandle in the client, by itself or because the process ended.
CloseHandle(c, l) ==
  /\ Goto(c, l)
  /\ handle' = [handle EXCEPT ![c] = 0]
  /\ pipe' = IF handle[c] # 0 /\ ~Broken(c)
             THEN [pipe EXCEPT ![handle[c]] = "left"] ELSE pipe
  /\ outq' = IF handle[c] # 0 /\ Broken(c)
             THEN [outq EXCEPT ![handle[c]] = <<>>] ELSE outq
  /\ UNCHANGED <<sess, sent, got, acceptVars, instVars, inq>>

\* SetNamedPipeHandleState, the last step of fifo_client_new.
SetReadMode(c) ==
  /\ cpc[c] = "opened"
  /\ \/ /\ ~Broken(c) /\ Goto(c, "idle")
        /\ UNCHANGED <<sess, handle, sent, got, acceptVars, instVars, pipe, inq, outq>>
     \/ Broken(c) /\ CloseHandle(c, "out")

\* fifo_client_free.  The sample program comes to it at its end.
Free(c) ==
  /\ cpc[c] = "idle"
  /\ SampleLoop => Broken(c) \/ (sent[c] = MaxReq /\ Len(got[c]) = MaxReq)
  /\ CloseHandle(c, "out")

\* A client process ends; a new one may come in its place.
ClientDies(c) ==
  /\ "clients_die" \in Env
  /\ cpc[c] # "out"
  /\ CloseHandle(c, "out")

BeginWrite(c) ==
  /\ cpc[c] = "idle" /\ sent[c] < MaxReq
  /\ SampleLoop => Len(got[c]) = sent[c]
  /\ Goto(c, "write")
  /\ UNCHANGED <<sess, handle, sent, got, acceptVars, instVars, pipe, inq, outq>>

\* WriteFile in fifo_client_write.  It waits while the pipe is full.
Write(c) ==
  /\ cpc[c] = "write"
  /\ Goto(c, "idle")
  /\ \/ /\ ~Broken(c) /\ Len(inq[handle[c]]) < PipeCap
        /\ sent' = [sent EXCEPT ![c] = @ + 1]
        /\ inq' = [inq EXCEPT ![handle[c]] = Append(@, sent[c] + 1)]
     \/ Broken(c) /\ UNCHANGED <<sent, inq>>
  /\ UNCHANGED <<sess, handle, got, acceptVars, instVars, pipe, outq>>

\* fifo_client_read with a timeout asks PeekNamedPipe first, which succeeds
\* on an empty pipe as well; it fails only on a pipe that is broken, and so
\* does then the call, after its time or at once.
BeginRead(c) ==
  /\ cpc[c] = "idle"
  /\ SampleLoop => Len(got[c]) < sent[c]
  /\ WaitForever \/ ~Broken(c) \/ outq[handle[c]] # <<>>
  /\ Goto(c, "read")
  /\ UNCHANGED <<sess, handle, sent, got, acceptVars, instVars, pipe, inq, outq>>

\* ReadFile in fifo_client_read.  It waits for a message or the end of the
\* pipe, whatever wait_timeout is.
ReadFile(c) ==
  /\ cpc[c] = "read"
  /\ Goto(c, "idle")
  /\ \/ /\ outq[handle[c]] # <<>>
        /\ got' = [got EXCEPT ![c] = Append(@, Head(outq[handle[c]]))]
        /\ outq' = [outq EXCEPT ![handle[c]] = Tail(@)]
     \/ outq[handle[c]] = <<>> /\ Broken(c) /\ UNCHANGED <<got, outq>>
  /\ UNCHANGED <<sess, handle, sent, acceptVars, instVars, pipe, inq>>

-----------------------------------------------------------------------------
\* Between two calls of the library the program is free to do what it likes,
\* inside a call it runs.
ClientCall(c) == (cpc[c] = "out" /\ Open(c)) \/ Free(c) \/ BeginWrite(c) \/ BeginRead(c)
ClientStep(c) == (cpc[c] = "open" /\ Open(c)) \/ WaitNamedPipe(c) \/ SetReadMode(c)
                 \/ Write(c) \/ ReadFile(c)
ServerStep == CreateNext \/ ConnectToNewClient \/ Accept \/ CallbackReturns
Routine(i) == CompletedReadRoutine(i) \/ CompletedWriteRoutine(i)

Next ==
  \/ \E c \in Clients : ClientCall(c) \/ ClientStep(c) \/ ClientDies(c)
  \/ ServerStart \/ ServerStep \/ ServerFails \/ LoopStops \/ ServerExits
  \/ \E i \in Instance : Routine(i)

Spec == Init /\ [][Next]_vars

\* What runs is scheduled: the client inside a call, the server thread, and
\* a routine whose operation is complete, each time the loop waits.  The
\* sample program also makes its next call.
FairSpec ==
  /\ Spec
  /\ \A c \in Clients : WF_vars(ClientStep(c))
  /\ SampleLoop => \A c \in Clients : WF_vars(Free(c) \/ BeginWrite(c) \/ BeginRead(c))
  /\ WF_vars(ServerStep)
  /\ \A i \in Instance : SF_vars(Routine(i))

-----------------------------------------------------------------------------
(* Properties *)

TypeOK ==
  /\ cpc \in [Clients -> {"out", "open", "busy", "opened", "idle", "write", "read"}]
  /\ sess \in [Clients -> 0 .. MaxSession]
  /\ handle \in [Clients -> 0 .. MaxInst]
  /\ sent \in [Clients -> ReqNumber]
  /\ got \in [Clients -> Seq(Reply)]
  /\ spc \in {"off", "connect", "wait", "callback", "create", "returned", "exited"}
  /\ hNamedPipe \in 0 .. MaxInst /\ made \in 0 .. MaxInst /\ cur \in 0 .. MaxInst
  /\ event \in BOOLEAN /\ fPendingIO \in BOOLEAN
  /\ pipe \in [Instance -> {"none", "free", "connected", "left", "gone"}]
  /\ ops \in [Instance -> SUBSET {"read", "write"}]
  /\ inst \in [Instance -> {"none", "alive", "freed"}]
  /\ request \in [Instance -> ReqNumber]
  /\ reply \in [Instance -> Reply] /\ written \in [Instance -> Reply]
  /\ inq \in [Instance -> Seq(ReqNumber)] /\ outq \in [Instance -> Seq(Reply)]

\* Each client that is being served is driven by exactly one operation in
\* flight, or by its routine that runs right now: with none it would never
\* be heard again, with two a routine would use what another has freed.
InstanceDriven ==
  \A i \in Instance :
    Cardinality(ops[i]) = IF inst[i] = "alive" /\ cur # i THEN 1 ELSE 0

\* An open server handle is hNamedPipe or belongs to one pipe_instance_t,
\* which is freed exactly when the handle is closed: no error path of the
\* routines leaks or closes twice.
HandlesOwned ==
  \A i \in Instance :
    Exists(i) <=> inst[i] = "alive" \/ (i = hNamedPipe /\ inst[i] = "none" /\ spc # "exited")

\* The two together: an instance is driven and open from the moment a client
\* is taken until it is closed, once.
InstancesSound == TypeOK /\ InstanceDriven /\ HandlesOwned

\* What a client wrote in its session is, in this order and without a gap or
\* a repetition: answered and read, answered, in the callback, or waiting.
Answers(c) == got[c] \o outq[handle[c]]
InCallback(i) == IF spc = "callback" /\ cur = i THEN <<request[i]>> ELSE <<>>

NoRequestLost ==
  \A c \in Clients : handle[c] # 0 /\ ~Broken(c) =>
    [k \in 1 .. Len(Answers(c)) |-> Answers(c)[k].to]
      \o InCallback(handle[c]) \o inq[handle[c]] = [k \in 1 .. sent[c] |-> k]

\* After the loop took a client it comes to offer an instance to the next:
\* fifo_server_runforever runs for ever.
AcceptsAgain ==
  Serving ~> (~Serving \/ FreeInstances # {} \/ made = MaxInst)

\* A client that found all instances busy and waits without a limit gets one.
BusyConnects ==
  \A c \in Clients : cpc[c] = "busy" ~> cpc[c] = "opened"

\* A request is answered, whatever the other clients do.
RequestAnswered ==
  \A c \in Clients : \A k \in 1 .. MaxReq :
    sent[c] >= k ~> (Len(got[c]) >= k \/ handle[c] = 0)

\* The instance of a client that left is closed and its storage freed.
InstanceReclaimed ==
  \A i \in Instance : pipe[i] = "left" ~> pipe[i] = "gone"

\* A client gets an instance, its answers, and gives the instance back.
ClientsServed == BusyConnects /\ RequestAnswered /\ InstanceReclaimed

\* A read with a timeout returns (fifo.h names FIFO_TIME_NOWAIT).
TimedReadReturns ==
  \A c \in Clients : cpc[c] = "read" /\ ~WaitForever ~> cpc[c] # "read"
=============================================================================
