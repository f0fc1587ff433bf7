-------------------------- MODULE FifoLinuxProofs --------------------------
(***************************************************************************)
(* Safety of FifoLinux for any clients, bounds and environment: what the   *)
(* pipes and their readers are, and then what is delivered through them,   *)
(* requests to their worker and, to a program that waits for each reply,   *)
(* replies to their requests, by a server that survives.                   *)
(***************************************************************************)
EXTENDS FifoLinux, SequenceTheorems, TLAPS

-----------------------------------------------------------------------------
(* The inductive invariant *)

\* What fifo_client_new has set up by the point it has reached.
ClientShape ==
  \A c \in Clients :
    /\ cpc[c] # "out" => sess[c] # 0
    /\ cpc[c] \in {"mkrep", "openrep", "openacc", "connect", "opening", "openreq",
                   "opened"} => reqFile[c] # 0
    /\ cpc[c] = "openrep" => repFile[c] # 0
    /\ cpc[c] = "writing" => nreq[c] < MaxReq
    /\ cpc[c] \in {"openacc", "connect", "opening", "openreq", "opened",
                   "idle", "writing", "reading", "failed"} => rfd[c] # 0

\* What the accept loop and the workers have open by the point they reached.
ServerShape ==
  /\ spc \in {"openreq", "openrep", "blocked", "spawn"} => cur # NoSession
  /\ spc \in {"openrep", "blocked", "spawn"} => reqfd[cur] # NoSession
  /\ spc \in {"blocked", "spawn"} => repfd[cur] # NoSession
  /\ \A s \in Session : Running(s) => reqfd[s] # NoSession /\ repfd[s] # NoSession

\* The pipes opened for a session are of the process that connected.
OwnPipes ==
  \A s \in Session :
    /\ reqfd[s] # NoSession => reqfd[s][1] = s[1]
    /\ repfd[s] # NoSession => repfd[s][1] = s[1]

\* A session that has not sent its connect message yet.
Unsent(s) ==
  \/ s[2] > sess[s[1]]
  \/ s[2] = sess[s[1]] /\ cpc[s[1]] \in {"mkrep", "openrep", "openacc", "connect"}

\* The server handles the connect message of a session once.
ConnectOnce ==
  /\ \A s \in Session :
       Unsent(s) => s # cur /\ wpc[s] = "none" /\ \A i \in DOMAIN acceptq : acceptq[i] # s
  /\ \A i \in DOMAIN acceptq : acceptq[i] # cur /\ wpc[acceptq[i]] = "none"
  /\ \A i, j \in DOMAIN acceptq : acceptq[i] = acceptq[j] => i = j
  /\ cur # NoSession => wpc[cur] = "none"

Inv == TypeOK /\ ClientShape /\ ServerShape /\ OwnPipes /\ ConnectOnce

-----------------------------------------------------------------------------
(* What a step leaves alone *)

LEMMA ClientFrame ==
  ASSUME NEW c \in Clients, ClientCall(c) \/ ClientStep(c) \/ Kill(c), ~OpenReplyEnd(c)
  PROVE  UNCHANGED <<serverVars, workerVars>>
BY DEF ClientCall, ClientStep, MkRequestPipe, BeginWrite, BeginRead, BeginFree,
       MkReplyPipe, OpenReplyEnd, OpenAccept, NewFails, SendConnect, OpenRequestEnd,
       Connected, Write, Read, ReadTimeout, SendEof, UnlinkRequest, UnlinkReply, Kill,
       WritePipe, Die, serverVars, workerVars

LEMMA ServerFrame ==
  ASSUME ServerNew \/ AcceptStep \/ LoopStops \/ (\E s \in Session : WorkerStep(s))
  PROVE  UNCHANGED <<sess, nreq, rfd, wfd, fileVars, got>>
BY DEF ServerNew, AcceptStep, LoopStops, WorkerStep, Accept, OpenRequest, OpenReply,
       OpenReplyFails, Spawn, WorkerRead, Callback, WorkerWrite, WorkerFails, ServerEnds,
       WorkerExit, clientVars

-----------------------------------------------------------------------------
LEMMA Ranges ==
  /\ 0 \in Generation /\ 0 \in ReqNumber /\ NoSession \notin Session
  /\ \A g \in Generation : g < MaxSession => g + 1 \in Generation
  /\ \A k \in ReqNumber : k < MaxReq => k + 1 \in ReqNumber
  /\ \A c \in Clients, g \in Generation : g # 0 => <<c, g>> \in Session
  /\ \A s \in Session :
       s[1] \in Clients /\ s[2] \in Generation /\ s[2] # 0 /\ s = <<s[1], s[2]>>
BY ConstantsAssumption DEF Generation, ReqNumber, Session, NoSession

\* An inode is told from no inode, and a name that is unbound leads to none.
LEMMA Inodes ==
  /\ \A c \in Clients, g \in Generation : <<c, g>> # NoSession
  /\ \A c \in Clients : <<c, 0>> \notin Session
BY ConstantsAssumption DEF Generation, Session, NoSession

LEMMA InitInv == Init => Inv
<1> SUFFICES ASSUME Init PROVE Inv
  OBVIOUS
<1> USE Ranges DEF Init, Message
<1>1. TypeOK
  BY DEF TypeOK, ClientType, FileType, PipeType, ServerType, WorkerType
<1>2. ClientShape
  BY DEF ClientShape
<1>3. ServerShape
  BY DEF ServerShape, Running
<1>4. ConnectOnce
  BY DEF ConnectOnce, Unsent
<1>5. OwnPipes
  BY DEF OwnPipes
<1> QED
  BY <1>1, <1>2, <1>3, <1>4, <1>5 DEF Inv

-----------------------------------------------------------------------------
(* Types *)

\* A queue of a family of queues takes a message, or gives up its first one.
LEMMA QueueTypes ==
  ASSUME NEW q \in [Session -> Seq(Message)], NEW p
  PROVE  /\ \A m \in Message : [q EXCEPT ![p] = Append(@, m)] \in [Session -> Seq(Message)]
         /\ p \in Session /\ q[p] # <<>> =>
              /\ Head(q[p]) \in Message
              /\ [q EXCEPT ![p] = Tail(@)] \in [Session -> Seq(Message)]
<1>1. ASSUME NEW m \in Message, NEW t \in Session
      PROVE  [q EXCEPT ![p] = Append(@, m)][t] \in Seq(Message)
  <2>1. Append(q[t], m) \in Seq(Message)
    OBVIOUS
  <2> QED
    BY <2>1
<1>2. ASSUME p \in Session, q[p] # <<>>
      PROVE  Head(q[p]) \in Message /\ Tail(q[p]) \in Seq(Message)
  BY <1>2
<1> QED
  BY <1>1, <1>2

LEMMA Keep ==
  ASSUME TypeOK
  PROVE  /\ UNCHANGED clientVars => ClientType'
         /\ UNCHANGED fileVars => FileType'
         /\ UNCHANGED pipeVars => PipeType'
         /\ UNCHANGED serverVars => ServerType'
         /\ UNCHANGED workerVars => WorkerType'
         /\ UNCHANGED got => got' \in [Session -> Seq(Message)]
BY DEF TypeOK, ClientType, FileType, PipeType, ServerType, WorkerType, clientVars, fileVars,
       pipeVars, serverVars, workerVars

LEMMA DieType ==
  ASSUME TypeOK, NEW c \in Clients, Die(c)
  PROVE  TypeOK'
<1>1. ClientType'
  BY Ranges DEF TypeOK, ClientType, Die, Goto
<1> QED
  BY <1>1, Keep DEF TypeOK, Die

LEMMA EndType ==
  ASSUME TypeOK, NEW how \in {"exited", "killed"}, ServerEnds(how)
  PROVE  TypeOK'
<1>1. ServerType' /\ WorkerType'
  BY Ranges DEF TypeOK, ServerType, WorkerType, ServerEnds
<1> QED
  BY <1>1, Keep DEF TypeOK, ServerEnds

LEMMA WriteType ==
  ASSUME TypeOK, NEW c \in Clients, NEW m \in Message,
         NEW ok \in {"idle", "reading", "unlink"}, NEW failed \in {"idle", "failed", "unlink"},
         WritePipe(c, m, ok, failed)
  PROVE  TypeOK'
<1>1. CASE Die(c)
  BY <1>1, DieType
<1>2. CASE UNCHANGED <<sess, rfd, wfd, fileVars, acceptq, repq, serverVars, workerVars, got>>
           /\ reqq' = [reqq EXCEPT ![<<c, wfd[c]>>] = Append(@, m)]
           /\ nreq' = [nreq EXCEPT ![c] = IF IsEof(m) THEN @ ELSE m.n]
           /\ Goto(c, ok)
  <2>1. ClientType'
    BY <1>2 DEF TypeOK, ClientType, Goto, Message
  <2>2. PipeType'
    BY <1>2, QueueTypes DEF TypeOK, PipeType
  <2> QED
    BY <1>2, <2>1, <2>2, Keep DEF TypeOK
<1>3. CASE UNCHANGED <<sess, nreq, rfd, wfd, fileVars, pipeVars, serverVars, workerVars, got>>
           /\ Goto(c, failed)
  <2>1. ClientType'
    BY <1>3 DEF TypeOK, ClientType, Goto
  <2> QED
    BY <1>3, <2>1, Keep DEF TypeOK
<1> QED
  BY <1>1, <1>2, <1>3 DEF WritePipe

LEMMA ClientCallType ==
  ASSUME Inv, NEW c \in Clients, ClientCall(c) \/ Kill(c)
  PROVE  TypeOK'
<1>1. CASE MkRequestPipe(c)
  <2>1. ClientType' /\ FileType'
    BY <1>1, Ranges DEF MkRequestPipe, Goto, Inv, TypeOK, ClientType, FileType
  <2> QED
    BY <1>1, <2>1, Keep DEF MkRequestPipe, Inv, TypeOK
<1>2. CASE BeginWrite(c) \/ BeginRead(c)
  <2>1. ClientType'
    BY <1>2 DEF BeginWrite, BeginRead, Goto, Inv, TypeOK, ClientType
  <2> QED
    BY <1>2, <2>1, Keep DEF BeginWrite, BeginRead, Inv, TypeOK
<1>3. CASE BeginFree(c)
  <2>1. ClientType'
    BY <1>3, Ranges DEF BeginFree, Goto, Inv, TypeOK, ClientType
  <2> QED
    BY <1>3, <2>1, Keep DEF BeginFree, Inv, TypeOK
<1>4. CASE Kill(c)
  BY <1>4, DieType DEF Kill, Inv
<1> QED
  BY <1>1, <1>2, <1>3, <1>4 DEF ClientCall

LEMMA ClientStepType ==
  ASSUME Inv, NEW c \in Clients, ClientStep(c)
  PROVE  TypeOK'
<1>1. CASE MkReplyPipe(c)
  <2>1. ClientType' /\ FileType'
    BY <1>1 DEF MkReplyPipe, Goto, Inv, TypeOK, ClientType, FileType
  <2> QED
    BY <1>1, <2>1, Keep DEF MkReplyPipe, Inv, TypeOK
<1>2. CASE OpenReplyEnd(c)
  <2>1. ClientType'
    BY <1>2 DEF OpenReplyEnd, Goto, Inv, TypeOK, ClientType, FileType
  <2>2. ServerType'
    BY <1>2 DEF OpenReplyEnd, Inv, TypeOK, ServerType
  <2> QED
    BY <1>2, <2>1, <2>2, Keep DEF OpenReplyEnd, Inv, TypeOK
<1>3. CASE OpenAccept(c) \/ OpenRequestEnd(c)
  <2>1. ClientType'
    BY <1>3 DEF OpenAccept, OpenRequestEnd, Goto, Inv, TypeOK, ClientType
  <2> QED
    BY <1>3, <2>1, Keep DEF OpenAccept, OpenRequestEnd, Inv, TypeOK
<1>4. CASE NewFails(c)
  <2>1. ClientType'
    BY <1>4, Ranges DEF NewFails, Goto, Inv, TypeOK, ClientType
  <2> QED
    BY <1>4, <2>1, Keep DEF NewFails, Inv, TypeOK
<1>5. CASE SendConnect(c)
  <2>1. CASE Die(c)
    BY <2>1, DieType DEF Inv
  <2>2. CASE acceptq' = Append(acceptq, Current(c)) /\ Goto(c, "opening")
             /\ UNCHANGED <<sess, nreq, rfd, wfd, fileVars, reqq, repq, serverVars, workerVars, got>>
    <3>1. Current(c) \in Session
      BY <1>5, Ranges DEF SendConnect, Current, Inv, TypeOK, ClientType, ClientShape
    <3>2. ClientType' /\ PipeType'
      BY <2>2, <3>1 DEF Goto, Inv, TypeOK, ClientType, PipeType
    <3> QED
      BY <2>2, <3>2, Keep DEF Inv, TypeOK
  <2>3. CASE rfd' = [rfd EXCEPT ![c] = 0] /\ Goto(c, "unlink")
             /\ UNCHANGED <<sess, nreq, wfd, fileVars, pipeVars, serverVars, workerVars, got>>
    <3>1. ClientType'
      BY <2>3, Ranges DEF Goto, Inv, TypeOK, ClientType
    <3> QED
      BY <2>3, <3>1, Keep DEF Inv, TypeOK
  <2> QED
    BY <1>5, <2>1, <2>2, <2>3 DEF SendConnect
<1>6. CASE Connected(c)
  <2>1. ClientType'
    BY <1>6 DEF Connected, Goto, Inv, TypeOK, ClientType, FileType
  <2> QED
    BY <1>6, <2>1, Keep DEF Connected, Inv, TypeOK
<1>7. CASE Write(c)
  <2>1. Request(c, nreq[c] + 1) \in Message
    BY <1>7, Ranges DEF Write, Request, Current, Message, Inv, TypeOK, ClientType, ClientShape
  <2> QED
    BY <1>7, <2>1, WriteType DEF Write, Inv
<1>8. CASE SendEof(c)
  <2>1. Request(c, 0) \in Message
    BY <1>8, Ranges DEF SendEof, Request, Current, Message, Inv, TypeOK, ClientType, ClientShape
  <2> QED
    BY <1>8, <2>1, WriteType DEF SendEof, Inv
<1>9. CASE Read(c)
  <2>1. <<c, rfd[c]>> \in Session /\ Current(c) \in Session
    BY <1>9, Ranges DEF Read, Current, Inv, TypeOK, ClientType, ClientShape
  <2>2. ClientType'
    BY <1>9 DEF Read, Goto, Inv, TypeOK, ClientType
  <2>3. PipeType' /\ got' \in [Session -> Seq(Message)]
    BY <1>9, <2>1 DEF Read, Inv, TypeOK, PipeType
  <2> QED
    BY <1>9, <2>2, <2>3, Keep DEF Read, Inv, TypeOK
<1>10. CASE ReadTimeout(c)
  <2>1. ClientType'
    BY <1>10 DEF ReadTimeout, Goto, Inv, TypeOK, ClientType
  <2> QED
    BY <1>10, <2>1, Keep DEF ReadTimeout, Inv, TypeOK
<1>11. CASE UnlinkRequest(c)
  <2>1. ClientType' /\ FileType'
    BY <1>11, Ranges DEF UnlinkRequest, Goto, Inv, TypeOK, ClientType, FileType
  <2> QED
    BY <1>11, <2>1, Keep DEF UnlinkRequest, Inv, TypeOK
<1>12. CASE UnlinkReply(c)
  <2>1. ClientType' /\ FileType'
    BY <1>12, Ranges DEF UnlinkReply, Goto, Inv, TypeOK, ClientType, FileType
  <2> QED
    BY <1>12, <2>1, Keep DEF UnlinkReply, Inv, TypeOK
<1> QED
  BY <1>1, <1>2, <1>3, <1>4, <1>5, <1>6, <1>7, <1>8, <1>9, <1>10, <1>11, <1>12 DEF ClientStep

LEMMA ServerStepType ==
  ASSUME Inv, ServerNew \/ AcceptStep \/ LoopStops
  PROVE  TypeOK'
<1>1. CASE ServerNew \/ OpenReplyFails
  <2>1. ServerType'
    BY <1>1, Ranges DEF ServerNew, OpenReplyFails, NextConnect, Inv, TypeOK, ServerType
  <2> QED
    BY <1>1, <2>1, Keep DEF ServerNew, OpenReplyFails, Inv, TypeOK
<1>2. CASE Accept
  <2>1. ServerType' /\ PipeType'
    BY <1>2 DEF Accept, Inv, TypeOK, ServerType, PipeType
  <2> QED
    BY <1>2, <2>1, Keep DEF Accept, Inv, TypeOK
<1>3. CASE OpenRequest
  <2>1. cur[1] \in Clients
    BY <1>3, Ranges DEF OpenRequest, Inv, TypeOK, ServerType, ServerShape
  <2>2. ServerType'
    BY <1>3, <2>1, Ranges DEF OpenRequest, NextConnect, Inv, TypeOK, ServerType, FileType
  <2>3. ClientType'
    BY <1>3, <2>1 DEF OpenRequest, Inv, TypeOK, ClientType
  <2> QED
    BY <1>3, <2>2, <2>3, Keep DEF OpenRequest, Inv, TypeOK
<1>4. CASE OpenReply
  <2>1. cur[1] \in Clients
    BY <1>4, Ranges DEF OpenReply, Inv, TypeOK, ServerType, ServerShape
  <2>2. ServerType'
    BY <1>4, <2>1, Ranges DEF OpenReply, Inv, TypeOK, ServerType, FileType
  <2> QED
    BY <1>4, <2>2, Keep DEF OpenReply, Inv, TypeOK
<1>5. CASE Spawn
  <2>1. ServerType' /\ WorkerType'
    BY <1>5 DEF Spawn, NextConnect, Inv, TypeOK, ServerType, WorkerType
  <2> QED
    BY <1>5, <2>1, Keep DEF Spawn, Inv, TypeOK
<1>6. CASE LoopStops
  BY <1>6, EndType DEF LoopStops, Inv
<1> QED
  BY <1>1, <1>2, <1>3, <1>4, <1>5, <1>6 DEF AcceptStep

LEMMA WorkerStepType ==
  ASSUME Inv, NEW s \in Session, WorkerStep(s)
  PROVE  TypeOK'
<1>1. CASE WorkerRead(s)
  <2>1. reqfd[s] \in Session
    BY <1>1 DEF WorkerRead, Running, Inv, TypeOK, ServerType, ServerShape
  <2>2. reqq \in [Session -> Seq(Message)]
    BY DEF Inv, TypeOK, PipeType
  <2>3. PipeType'
    BY <1>1, <2>1, <2>2, QueueTypes DEF WorkerRead, Inv, TypeOK, PipeType
  <2>4. Head(reqq[reqfd[s]]) \in Message
    BY <1>1, <2>1, <2>2, QueueTypes DEF WorkerRead
  <2>5. ServerType'
    BY <1>1, Ranges DEF WorkerRead, WorkerExit, Inv, TypeOK, ServerType
  <2>6. WorkerType'
    BY <1>1, <2>4 DEF WorkerRead, WorkerExit, Inv, TypeOK, WorkerType
  <2> QED
    BY <1>1, <2>3, <2>5, <2>6, Keep DEF WorkerRead, Inv, TypeOK
<1>2. CASE Callback(s)
  <2>1. wmsg[s] \in Message /\ served \in [Session -> Seq(Message)]
    BY DEF Inv, TypeOK, WorkerType
  <2>2. served' \in [Session -> Seq(Message)]
    BY <1>2, <2>1, QueueTypes DEF Callback
  <2>3. WorkerType'
    BY <1>2, <2>2 DEF Callback, Inv, TypeOK, WorkerType
  <2> QED
    BY <1>2, <2>3, Keep DEF Callback, Inv, TypeOK
<1>3. CASE WorkerWrite(s)
  <2>1. CASE ServerEnds("killed")
    BY <2>1, EndType DEF Inv
  <2>2. CASE ~ServerEnds("killed")
    <3>1. wmsg[s] \in Message /\ repq \in [Session -> Seq(Message)]
      BY DEF Inv, TypeOK, WorkerType, PipeType
    <3>2. [repq EXCEPT ![repfd[s]] = Append(@, wmsg[s])] \in [Session -> Seq(Message)]
      BY <3>1, QueueTypes
    <3>3. repq' \in [Session -> Seq(Message)]
      BY <1>3, <2>2, <3>2 DEF WorkerWrite
    <3>4. PipeType' /\ WorkerType'
      BY <1>3, <2>2, <3>3 DEF WorkerWrite, Inv, TypeOK, PipeType, WorkerType
    <3> QED
      BY <1>3, <2>2, <3>4, Keep DEF WorkerWrite, Inv, TypeOK
  <2> QED
    BY <2>1, <2>2
<1>4. CASE WorkerFails(s)
  <2>1. ServerType' /\ WorkerType'
    BY <1>4, Ranges DEF WorkerFails, WorkerExit, Inv, TypeOK, ServerType, WorkerType
  <2> QED
    BY <1>4, <2>1, Keep DEF WorkerFails, Inv, TypeOK
<1> QED
  BY <1>1, <1>2, <1>3, <1>4 DEF WorkerStep

-----------------------------------------------------------------------------
(* Shape of the clients *)

LEMMA ClientShapeStep ==
  ASSUME Inv, Next
  PROVE  ClientShape'
<1> USE DEF Inv, TypeOK, ClientType, FileType, ClientShape
<1>1. ASSUME NEW c \in Clients, MkRequestPipe(c)
      PROVE  ClientShape'
  BY <1>1, Ranges DEF MkRequestPipe, Goto, clientVars, fileVars, pipeVars, Generation
<1>2. ASSUME NEW c \in Clients, BeginWrite(c)
      PROVE  ClientShape'
  BY <1>2, Ranges DEF BeginWrite, Goto, clientVars, fileVars, pipeVars
<1>3. ASSUME NEW c \in Clients, BeginRead(c)
      PROVE  ClientShape'
  BY <1>3, Ranges DEF BeginRead, Goto, clientVars, fileVars, pipeVars
<1>4. ASSUME NEW c \in Clients, BeginFree(c)
      PROVE  ClientShape'
  BY <1>4, Ranges DEF BeginFree, Goto, clientVars, fileVars, pipeVars
<1>5. ASSUME NEW c \in Clients, Kill(c)
      PROVE  ClientShape'
  BY <1>5, Ranges DEF Kill, Goto, clientVars, fileVars, pipeVars, Die
<1>6. ASSUME NEW c \in Clients, MkReplyPipe(c)
      PROVE  ClientShape'
  BY <1>6, Ranges DEF MkReplyPipe, Goto, clientVars, fileVars, pipeVars
<1>7. ASSUME NEW c \in Clients, OpenReplyEnd(c)
      PROVE  ClientShape'
  BY <1>7, Ranges DEF OpenReplyEnd, Goto, clientVars, fileVars, pipeVars
<1>8. ASSUME NEW c \in Clients, OpenAccept(c)
      PROVE  ClientShape'
  BY <1>8, Ranges DEF OpenAccept, Goto, clientVars, fileVars, pipeVars
<1>9. ASSUME NEW c \in Clients, NewFails(c)
      PROVE  ClientShape'
  BY <1>9, Ranges DEF NewFails, Goto, clientVars, fileVars, pipeVars
<1>10. ASSUME NEW c \in Clients, SendConnect(c)
      PROVE  ClientShape'
  BY <1>10, Ranges DEF SendConnect, Goto, clientVars, fileVars, pipeVars, Die, Current
<1>11. ASSUME NEW c \in Clients, OpenRequestEnd(c)
      PROVE  ClientShape'
  BY <1>11, Ranges DEF OpenRequestEnd, Goto, clientVars, fileVars, pipeVars
<1>12. ASSUME NEW c \in Clients, Connected(c)
      PROVE  ClientShape'
  BY <1>12, Ranges DEF Connected, Goto, clientVars, fileVars, pipeVars
<1>13. ASSUME NEW c \in Clients, Write(c)
      PROVE  ClientShape'
  BY <1>13, Ranges DEF Write, Goto, clientVars, fileVars, pipeVars, WritePipe, Die, Request, IsEof
<1>14. ASSUME NEW c \in Clients, Read(c)
      PROVE  ClientShape'
  BY <1>14, Ranges DEF Read, Goto, clientVars, fileVars, pipeVars
<1>15. ASSUME NEW c \in Clients, ReadTimeout(c)
      PROVE  ClientShape'
  BY <1>15, Ranges DEF ReadTimeout, Goto, clientVars, fileVars, pipeVars
<1>16. ASSUME NEW c \in Clients, SendEof(c)
      PROVE  ClientShape'
  BY <1>16, Ranges DEF SendEof, Goto, clientVars, fileVars, pipeVars, WritePipe, Die, Request, IsEof
<1>17. ASSUME NEW c \in Clients, UnlinkRequest(c)
      PROVE  ClientShape'
  BY <1>17, Ranges DEF UnlinkRequest, Goto, clientVars, fileVars, pipeVars
<1>18. ASSUME NEW c \in Clients, UnlinkReply(c)
      PROVE  ClientShape'
  BY <1>18, Ranges DEF UnlinkReply, Goto, clientVars, fileVars, pipeVars
<1>19. CASE OpenRequest
  BY <1>19 DEF OpenRequest, fileVars
<1>20. CASE ServerNew \/ Accept \/ OpenReply \/ OpenReplyFails \/ Spawn \/ LoopStops
  BY <1>20 DEF ServerNew, Accept, OpenReply, OpenReplyFails, Spawn, LoopStops, ServerEnds, clientVars, fileVars
<1>21. ASSUME NEW s \in Session, WorkerStep(s)
      PROVE  ClientShape'
  BY <1>21 DEF WorkerStep, WorkerRead, Callback, WorkerWrite, WorkerFails, ServerEnds, clientVars, fileVars
<1> HIDE DEF Inv, ClientShape
<1> QED
  BY <1>1, <1>2, <1>3, <1>4, <1>5, <1>6, <1>7, <1>8, <1>9, <1>10, <1>11, <1>12, <1>13, <1>14, <1>15, <1>16, <1>17, <1>18, <1>19, <1>20, <1>21 DEF Next, ClientCall, ClientStep, AcceptStep

-----------------------------------------------------------------------------
(* Shape of the server *)

LEMMA ServerShapeStep ==
  ASSUME Inv, Next
  PROVE  ServerShape'
<1> USE DEF Inv, TypeOK, ServerType, WorkerType, ServerShape, Running
<1>1. ASSUME NEW c \in Clients, ClientCall(c) \/ ClientStep(c) \/ Kill(c), ~OpenReplyEnd(c)
      PROVE  ServerShape'
  <2>1. UNCHANGED <<spc, cur, reqfd, repfd, wpc>>
    BY <1>1, ClientFrame DEF serverVars, workerVars
  <2> QED
    BY <2>1
<1>2. ASSUME NEW c \in Clients, OpenReplyEnd(c)
      PROVE  ServerShape'
  BY <1>2 DEF OpenReplyEnd, workerVars
<1>3. CASE ServerNew \/ Accept
  <2>1. CASE ServerNew
    BY <2>1 DEF ServerNew, workerVars
  <2>2. CASE Accept
    <3>1. Head(acceptq) \in Session
      BY <2>2 DEF Accept, PipeType
    <3> QED
      BY <2>2, <3>1, Ranges DEF Accept, workerVars
  <2> QED
    BY <1>3, <2>1, <2>2
<1>4. CASE OpenRequest
  BY <1>4, Ranges, Inodes DEF OpenRequest, NextConnect, workerVars, FileType
<1>5. CASE OpenReply
  BY <1>5, Ranges, Inodes DEF OpenReply, workerVars, FileType
<1>6. CASE OpenReplyFails
  BY <1>6, Ranges DEF OpenReplyFails, NextConnect, workerVars, ConnectOnce
<1>7. CASE Spawn
  BY <1>7, Ranges DEF Spawn, NextConnect, ConnectOnce
<1>8. CASE LoopStops
  BY <1>8 DEF LoopStops, ServerEnds
<1>9. ASSUME NEW s \in Session, WorkerStep(s)
      PROVE  ServerShape'
  <2>1. CASE Callback(s)
    BY <2>1 DEF Callback, serverVars
  <2>2. CASE UNCHANGED <<spc, cur, reqfd, repfd>> /\ Running(s)
             /\ wpc' \in {[wpc EXCEPT ![s] = "callback"], [wpc EXCEPT ![s] = "select"]}
    BY <2>2
  <2>3. CASE WorkerExit(s) /\ UNCHANGED <<spc, cur>> /\ Running(s)
    BY <2>3 DEF WorkerExit, ConnectOnce
  <2>4. CASE ServerEnds("killed")
    BY <2>4 DEF ServerEnds
  <2>5. CASE WorkerRead(s)
    BY <2>2, <2>3, <2>5 DEF WorkerRead
  <2>6. CASE WorkerWrite(s)
    BY <2>2, <2>4, <2>6 DEF WorkerWrite, serverVars
  <2>7. CASE WorkerFails(s)
    BY <2>3, <2>7 DEF WorkerFails
  <2> QED
    BY <1>9, <2>1, <2>5, <2>6, <2>7 DEF WorkerStep
<1> HIDE DEF Inv, ServerShape
<1> QED
  BY <1>1, <1>2, <1>3, <1>4, <1>5, <1>6, <1>7, <1>8, <1>9 DEF Next, AcceptStep

-----------------------------------------------------------------------------
(* The pipes of a connection *)

LEMMA OwnPipesStep ==
  ASSUME Inv, Next
  PROVE  OwnPipes'
<1> USE DEF OwnPipes
<1>0. OwnPipes /\ reqfd \in [Session -> Session \cup {NoSession}]
               /\ repfd \in [Session -> Session \cup {NoSession}]
  BY DEF Inv, TypeOK, ServerType
<1>1. CASE \A s \in Session : reqfd'[s] \in {NoSession, reqfd[s]} /\ repfd'[s] \in {NoSession, repfd[s]}
  BY <1>0, <1>1
<1>2. CASE OpenRequest
  BY <1>0, <1>2 DEF OpenRequest
<1>3. CASE OpenReply
  BY <1>0, <1>3 DEF OpenReply
<1>4. ASSUME NEW c \in Clients, ClientCall(c) \/ ClientStep(c) \/ Kill(c)
      PROVE  UNCHANGED <<reqfd, repfd>>
  BY <1>4, ClientFrame DEF serverVars, OpenReplyEnd
<1>5. CASE ServerNew \/ Accept \/ OpenReplyFails \/ Spawn \/ LoopStops
  BY <1>0, <1>1, <1>5 DEF ServerNew, Accept, OpenReplyFails, Spawn, LoopStops, ServerEnds
<1>6. ASSUME NEW s \in Session, WorkerStep(s)
      PROVE  OwnPipes'
  BY <1>0, <1>1, <1>6 DEF WorkerStep, WorkerRead, Callback, WorkerWrite, WorkerFails,
     WorkerExit, ServerEnds, serverVars
<1> HIDE DEF OwnPipes
<1> QED
  BY <1>1, <1>2, <1>3, <1>4, <1>5, <1>6 DEF Next, AcceptStep

-----------------------------------------------------------------------------
(* One connection for a session *)

LEMMA ClientMove ==
  ASSUME Inv, NEW c \in Clients, ClientCall(c) \/ ClientStep(c) \/ Kill(c), ~MkRequestPipe(c)
  PROVE  /\ sess' = sess
         /\ \A d \in Clients : d # c => cpc'[d] = cpc[d]
         /\ cpc'[c] # "mkrep"
         /\ cpc'[c] \in {"openrep", "openacc", "connect"} =>
              cpc[c] \in {"mkrep", "openrep", "openacc"}
<1> USE DEF Inv, TypeOK, ClientType, Goto, clientVars
<1>1. CASE BeginWrite(c) \/ BeginRead(c) \/ BeginFree(c) \/ Kill(c)
  BY <1>1 DEF BeginWrite, BeginRead, BeginFree, Kill, Die
<1>2. CASE MkReplyPipe(c) \/ OpenReplyEnd(c) \/ OpenAccept(c) \/ Connected(c)
  BY <1>2 DEF MkReplyPipe, OpenReplyEnd, OpenAccept, Connected
<1>3. CASE NewFails(c) \/ OpenRequestEnd(c)
  BY <1>3 DEF NewFails, OpenRequestEnd
<1>4. CASE SendConnect(c)
  BY <1>4 DEF SendConnect, Die
<1>5. CASE Write(c)
  BY <1>5 DEF Write, WritePipe, Die
<1>6. CASE SendEof(c)
  BY <1>6 DEF SendEof, WritePipe, Die
<1>7. CASE Read(c) \/ ReadTimeout(c) \/ UnlinkRequest(c) \/ UnlinkReply(c)
  BY <1>7 DEF Read, ReadTimeout, UnlinkRequest, UnlinkReply
<1> QED
  BY <1>1, <1>2, <1>3, <1>4, <1>5, <1>6, <1>7 DEF ClientCall, ClientStep

LEMMA ClientUnsent ==
  ASSUME Inv, NEW c \in Clients, ClientCall(c) \/ ClientStep(c) \/ Kill(c),
         NEW s \in Session
  PROVE  Unsent(s)' => Unsent(s) /\ (SendConnect(c) => s # Current(c))
<1> USE DEF Inv, TypeOK, ClientType
<1>1. CASE MkRequestPipe(c)
  <2>1. /\ cpc[c] \in {"out", "dead"} /\ ~SendConnect(c)
        /\ sess[c] \in Nat /\ sess' = [sess EXCEPT ![c] = sess[c] + 1]
        /\ \A d \in Clients : d # c => cpc'[d] = cpc[d]
    BY <1>1, ConstantsAssumption DEF MkRequestPipe, Outside, SendConnect, Goto, Generation
  <2>2. s[1] \in Clients /\ s[2] \in Nat
    BY ConstantsAssumption DEF Session
  <2>3. CASE s[1] = c
    BY <2>1, <2>2, <2>3 DEF Unsent
  <2>4. CASE s[1] # c
    BY <2>1, <2>2, <2>4 DEF Unsent
  <2> QED
    BY <2>1, <2>3, <2>4
<1>2. CASE ~MkRequestPipe(c)
  <2>1. Unsent(s)' => Unsent(s)
    BY <1>2, ClientMove, Ranges DEF Unsent
  <2>2. SendConnect(c) => cpc'[c] \notin {"mkrep", "openrep", "openacc", "connect"}
    BY DEF SendConnect, Die, Goto
  <2>3. ASSUME Unsent(s)', SendConnect(c), s = Current(c)
        PROVE  FALSE
    <3>1. s[1] = c /\ s[2] = sess[c]
      BY <2>3 DEF Current
    <3>2. sess' = sess
      BY <1>2, ClientMove
    <3> QED
      BY <2>2, <2>3, <3>1, <3>2, Ranges DEF Unsent, Generation
  <2> QED
    BY <2>1, <2>3
<1> QED
  BY <1>1, <1>2

LEMMA ServerUnsent ==
  ASSUME Inv, ServerNew \/ AcceptStep \/ LoopStops \/ (\E s \in Session : WorkerStep(s)),
         NEW s \in Session
  PROVE  Unsent(s)' <=> Unsent(s)
<1>1. sess' = sess
  BY ServerFrame
<1>2. CASE cpc' = cpc
  BY <1>1, <1>2 DEF Unsent
<1>3. CASE OpenRequest
  BY <1>1, <1>3, Ranges DEF OpenRequest, Unsent, Inv, TypeOK, ClientType
<1> QED
  BY <1>2, <1>3 DEF ServerNew, AcceptStep, LoopStops, WorkerStep, Accept, OpenReply,
     OpenReplyFails, Spawn, WorkerRead, Callback, WorkerWrite, WorkerFails, ServerEnds, clientVars

LEMMA AcceptQueue ==
  ASSUME NEW q \in Seq(Session), NEW s \in Session
  PROVE  /\ \A i \in DOMAIN q : q[i] \in Session
         /\ \A i \in DOMAIN Append(q, s) :
              \/ i \in DOMAIN q /\ Append(q, s)[i] = q[i]
              \/ i = Len(q) + 1 /\ i \notin DOMAIN q /\ Append(q, s)[i] = s
         /\ q # <<>> =>
              /\ 1 \in DOMAIN q /\ Head(q) = q[1]
              /\ \A i \in DOMAIN Tail(q) :
                   i \in Nat /\ i # 0 /\ i + 1 \in DOMAIN q /\ Tail(q)[i] = q[i + 1]
OBVIOUS

LEMMA ConnectOnceStep ==
  ASSUME Inv, Next
  PROVE  ConnectOnce'
<1> USE DEF Inv, TypeOK, PipeType, ServerType, WorkerType, ConnectOnce
<1>1. ASSUME NEW c \in Clients, ClientCall(c) \/ ClientStep(c) \/ Kill(c), ~SendConnect(c)
      PROVE  ConnectOnce'
  <2>1. \A s \in Session : Unsent(s)' => Unsent(s)
    BY <1>1, ClientUnsent
  <2>2. UNCHANGED <<acceptq, cur, wpc>>
    BY <1>1 DEF ClientCall, ClientStep, MkRequestPipe, BeginWrite, BeginRead, BeginFree,
       MkReplyPipe, OpenReplyEnd, OpenAccept, NewFails, OpenRequestEnd, Connected, Write,
       Read, ReadTimeout, SendEof, UnlinkRequest, UnlinkReply, Kill, WritePipe, Die,
       serverVars, workerVars, pipeVars
  <2> QED
    BY <2>1, <2>2
<1>2. ASSUME NEW c \in Clients, SendConnect(c)
      PROVE  ConnectOnce'
  <2>1. \A s \in Session : Unsent(s)' => Unsent(s) /\ s # Current(c)
    BY <1>2, ClientUnsent DEF ClientStep
  <2>2. UNCHANGED <<cur, wpc>>
    BY <1>2 DEF SendConnect, Die, serverVars, workerVars
  <2>3. CASE acceptq' = acceptq
    BY <2>1, <2>2, <2>3
  <2>4. CASE acceptq' = Append(acceptq, Current(c))
    <3>1. PICK s \in Session : s = Current(c) /\ Unsent(s)
      BY <1>2, Ranges, ZenonT(60) DEF SendConnect, Current, Unsent, ClientType, ClientShape
    <3>2. \A i \in DOMAIN acceptq' :
            \/ i \in DOMAIN acceptq /\ acceptq'[i] = acceptq[i]
            \/ i = Len(acceptq) + 1 /\ i \notin DOMAIN acceptq /\ acceptq'[i] = s
      <4>1. acceptq \in Seq(Session)
        OBVIOUS
      <4>2. acceptq' = Append(acceptq, s)
        BY <2>4, <3>1
      <4> QED
        BY ONLY <4>1, <4>2, s \in Session, AcceptQueue
    <3>3. s # cur /\ wpc[s] = "none" /\ \A i \in DOMAIN acceptq : acceptq[i] # s
      BY <3>1
    <3>4. \A t \in Session : Unsent(t)' => \A i \in DOMAIN acceptq' : acceptq'[i] # t
      BY <2>1, <3>1, <3>2
    <3>5. \A i \in DOMAIN acceptq' : acceptq'[i] # cur /\ wpc[acceptq'[i]] = "none"
      BY <3>2, <3>3
    <3>6. ASSUME NEW i \in DOMAIN acceptq', NEW j \in DOMAIN acceptq', acceptq'[i] = acceptq'[j]
          PROVE  i = j
      <4>1. \A k, l \in DOMAIN acceptq : acceptq[k] = acceptq[l] => k = l
        OBVIOUS
      <4> QED
        BY ONLY <3>2, <3>3, <3>6, <4>1, i \in DOMAIN acceptq', j \in DOMAIN acceptq'
    <3> QED
      BY <2>1, <2>2, <3>4, <3>5, <3>6
  <2> QED
    BY <1>2, <2>3, <2>4 DEF SendConnect, Die, pipeVars
<1>3. ASSUME ServerNew \/ AcceptStep \/ LoopStops \/ (\E s \in Session : WorkerStep(s)),
             ~Accept
      PROVE  ConnectOnce'
  <2>1. \A s \in Session : Unsent(s)' <=> Unsent(s)
    BY <1>3, ServerUnsent
  <2>2. acceptq' = acceptq
    BY <1>3 DEF ServerNew, AcceptStep, LoopStops, WorkerStep, OpenRequest, OpenReply,
       OpenReplyFails, Spawn, WorkerRead, Callback, WorkerWrite, WorkerFails, ServerEnds, pipeVars
  <2>3. \A i \in DOMAIN acceptq : acceptq[i] \in Session
    BY AcceptQueue
  <2>4. CASE Spawn
    <3>1. cur \in Session /\ cur' = NoSession /\ \A t \in Session : t # cur => wpc'[t] = wpc[t]
      BY <2>4 DEF Spawn, NextConnect, ServerShape
    <3>2. ASSUME NEW s \in Session, Unsent(s)'
          PROVE  s # cur' /\ wpc'[s] = "none" /\ \A i \in DOMAIN acceptq' : acceptq'[i] # s
      <4>1. s # cur /\ wpc[s] = "none" /\ \A i \in DOMAIN acceptq : acceptq[i] # s
        BY <2>1, <3>2
      <4> QED
        BY ONLY <4>1, <2>2, <3>1, Ranges, s \in Session
    <3>3. ASSUME NEW i \in DOMAIN acceptq'
          PROVE  acceptq'[i] # cur' /\ wpc'[acceptq'[i]] = "none"
      <4>1. acceptq[i] \in Session /\ acceptq[i] # cur /\ wpc[acceptq[i]] = "none"
        BY <2>2, <2>3
      <4> QED
        BY ONLY <4>1, <2>2, <3>1, Ranges
    <3> QED
      BY <2>2, <3>1, <3>2, <3>3
  <2>5. CASE ~Spawn
    <3>1. cur' \in {cur, NoSession}
      BY <1>3, <2>5 DEF ServerNew, AcceptStep, LoopStops, WorkerStep, OpenRequest, OpenReply,
         OpenReplyFails, NextConnect, WorkerRead, Callback, WorkerWrite, WorkerFails,
         ServerEnds, serverVars
    <3>2. \A s \in Session : wpc'[s] = "none" <=> wpc[s] = "none"
      <4>1. CASE ServerNew \/ OpenRequest \/ OpenReply \/ OpenReplyFails
        BY <4>1 DEF ServerNew, OpenRequest, OpenReply, OpenReplyFails, workerVars
      <4>2. CASE LoopStops
        BY <4>2 DEF LoopStops, ServerEnds, Running
      <4>3. ASSUME NEW s \in Session, WorkerStep(s)
            PROVE  \A t \in Session : wpc'[t] = "none" <=> wpc[t] = "none"
        BY <4>3, ZenonT(60) DEF WorkerStep, WorkerRead, Callback, WorkerWrite, WorkerFails, WorkerExit,
           ServerEnds, Running
      <4> QED
        BY <1>3, <2>5, <4>1, <4>2, <4>3 DEF AcceptStep
    <3>3. ASSUME NEW s \in Session, Unsent(s)'
          PROVE  s # cur' /\ wpc'[s] = "none" /\ \A i \in DOMAIN acceptq' : acceptq'[i] # s
      <4>1. s # cur /\ wpc[s] = "none" /\ \A i \in DOMAIN acceptq : acceptq[i] # s
        BY <2>1, <3>3
      <4> QED
        BY ONLY <4>1, <2>2, <3>1, <3>2, Ranges, s \in Session
    <3>4. ASSUME NEW i \in DOMAIN acceptq'
          PROVE  acceptq'[i] # cur' /\ wpc'[acceptq'[i]] = "none"
      <4>1. acceptq[i] \in Session /\ acceptq[i] # cur /\ wpc[acceptq[i]] = "none"
        BY <2>2, <2>3
      <4> QED
        BY ONLY <4>1, <2>2, <3>1, <3>2, Ranges
    <3>5. cur' # NoSession => wpc'[cur'] = "none"
      BY <3>1, <3>2
    <3> QED
      BY <2>2, <3>3, <3>4, <3>5
  <2> QED
    BY <2>4, <2>5
<1>4. CASE Accept
  <2>1. \A s \in Session : Unsent(s)' <=> Unsent(s)
    BY <1>4, ServerUnsent DEF AcceptStep
  <2>2. /\ 1 \in DOMAIN acceptq /\ cur' = acceptq[1] /\ cur' \in Session /\ wpc' = wpc
        /\ \A i \in DOMAIN acceptq' :
             i \in Nat /\ i # 0 /\ i + 1 \in DOMAIN acceptq /\ acceptq'[i] = acceptq[i + 1]
    BY <1>4, AcceptQueue DEF Accept, workerVars
  <2>3. \A i, j \in DOMAIN acceptq' : acceptq'[i] = acceptq'[j] => i = j
    BY <2>2
  <2>4. \A i \in DOMAIN acceptq' : acceptq'[i] # cur' /\ wpc'[acceptq'[i]] = "none"
    BY <2>2
  <2> QED
    BY <2>1, <2>2, <2>3, <2>4
<1> HIDE DEF Inv, ConnectOnce
<1> QED
  BY <1>1, <1>2, <1>3, <1>4 DEF Next, AcceptStep

-----------------------------------------------------------------------------
LEMMA InvStep == Inv /\ [Next]_vars => Inv'
<1> SUFFICES ASSUME Inv, [Next]_vars PROVE Inv'
  OBVIOUS
<1>1. CASE Next
  <2>1. TypeOK'
    BY <1>1, ClientCallType, ClientStepType, ServerStepType, WorkerStepType DEF Next
  <2> QED
    BY <1>1, <2>1, ClientShapeStep, ServerShapeStep, OwnPipesStep, ConnectOnceStep DEF Inv
<1>2. CASE UNCHANGED vars
  BY <1>2 DEF vars, Inv, TypeOK, ClientShape, ServerShape, OwnPipes, ConnectOnce, Unsent, Running,
     ClientType, FileType, PipeType, ServerType, WorkerType, clientVars, fileVars, pipeVars,
     serverVars, workerVars
<1> QED
  BY <1>1, <1>2

LEMMA Invariance == Spec => []Inv
BY InitInv, InvStep, PTL DEF Spec

\* The state of the transport keeps its types, and with them every descriptor
\* it uses is open: whatever the clients, the bounds and the environment.
THEOREM TypeCorrect == Spec => []TypeOK
<1>1. Inv => TypeOK
  BY DEF Inv
<1> QED
  BY <1>1, Invariance, PTL

-----------------------------------------------------------------------------
(* Descriptors *)

LEMMA FdOwnedStep ==
  ASSUME Inv, FdOwned, Next, "threads_fail" \notin Env
  PROVE  FdOwned'
<1> USE DEF Inv, TypeOK, ServerType, WorkerType, FdOwned, Running
<1>1. ASSUME NEW c \in Clients, ClientCall(c) \/ ClientStep(c) \/ Kill(c), ~OpenReplyEnd(c)
      PROVE  FdOwned'
  <2>1. UNCHANGED <<spc, cur, reqfd, repfd, wpc>>
    BY <1>1, ClientFrame DEF serverVars, workerVars
  <2> QED
    BY <2>1
<1>2. ASSUME NEW c \in Clients, OpenReplyEnd(c)
      PROVE  FdOwned'
  BY <1>2 DEF OpenReplyEnd, workerVars
<1>3. CASE ServerNew \/ Accept
  BY <1>3 DEF ServerNew, Accept, workerVars
<1>4. CASE OpenRequest
  BY <1>4 DEF OpenRequest, NextConnect, workerVars
<1>5. CASE OpenReply
  BY <1>5 DEF OpenReply, workerVars
<1>6. CASE OpenReplyFails
  BY <1>6 DEF OpenReplyFails, NextConnect, workerVars
<1>7. CASE Spawn
  BY <1>7 DEF Spawn, NextConnect
<1>8. CASE LoopStops
  BY <1>8 DEF LoopStops, ServerEnds
<1>9. ASSUME NEW s \in Session, WorkerStep(s)
      PROVE  FdOwned'
  <2>1. CASE UNCHANGED <<spc, cur, reqfd, repfd>>
             /\ wpc' \in {[wpc EXCEPT ![s] = l] : l \in {"callback", "select", "write"}}
    BY <2>1
  <2>2. CASE WorkerExit(s) /\ UNCHANGED <<spc, cur>>
    BY <2>2 DEF WorkerExit
  <2>3. CASE ServerEnds("killed")
    BY <2>3 DEF ServerEnds
  <2> QED
    BY <1>9, <2>1, <2>2, <2>3 DEF WorkerStep, WorkerRead, Callback, WorkerWrite, WorkerFails, serverVars
<1> HIDE DEF Inv, FdOwned
<1> QED
  BY <1>1, <1>2, <1>3, <1>4, <1>5, <1>6, <1>7, <1>8, <1>9 DEF Next, AcceptStep

\* While threads can be created, the server's open descriptors are those of
\* its workers and of the connection it is setting up, whatever else fails.
THEOREM DescriptorsOwned ==
  ASSUME "threads_fail" \notin Env
  PROVE  Spec => []FdOwned
<1>1. Init => FdOwned
  BY DEF Init, FdOwned
<1>2. Inv /\ FdOwned /\ [Next]_vars => FdOwned'
  <2>1. FdOwned /\ UNCHANGED vars => FdOwned'
    BY DEF FdOwned, Running, vars, serverVars, workerVars
  <2> QED
    BY <2>1, FdOwnedStep
<1> QED
  BY <1>1, <1>2, Invariance, PTL DEF Spec

-----------------------------------------------------------------------------
(* Messages *)

Belongs(q, c) == \A i \in DOMAIN q : q[i].from[1] = c

\* Whatever is in the pipes of a client, or on its way between them, was
\* written by that client or answers what it wrote.
OwnMessages ==
  \A s \in Session :
    /\ Belongs(reqq[s], s[1]) /\ Belongs(repq[s], s[1]) /\ Belongs(got[s], s[1])
    /\ wmsg[s].from[1] = s[1]

LEMMA BelongsQueue ==
  ASSUME NEW q \in Seq(Message), NEW c, Belongs(q, c)
  PROVE  /\ \A m \in Message : m.from[1] = c => Belongs(Append(q, m), c)
         /\ \A r \in Seq(Message) : Belongs(r, c) => Belongs(q \o r, c)
         /\ Belongs(<<>>, c)
         /\ q # <<>> => Head(q).from[1] = c /\ Belongs(Tail(q), c)
<1>1. ASSUME NEW m \in Message, m.from[1] = c
      PROVE  Belongs(Append(q, m), c)
  BY <1>1 DEF Belongs
<1>2. ASSUME NEW r \in Seq(Message), Belongs(r, c)
      PROVE  Belongs(q \o r, c)
  BY <1>2 DEF Belongs
<1>3. Belongs(<<>>, c)
  BY DEF Belongs
<1>4. ASSUME q # <<>>
      PROVE  Head(q).from[1] = c /\ Belongs(Tail(q), c)
  BY <1>4 DEF Belongs
<1> QED
  BY <1>1, <1>2, <1>3, <1>4

LEMMA OwnMessagesStep ==
  ASSUME Inv, OwnMessages, Next
  PROVE  OwnMessages'
<1> USE DEF Inv, TypeOK, ClientType, PipeType, ServerType, WorkerType, OwnMessages
<1>1. CASE UNCHANGED <<reqq, repq, got, wmsg>>
  BY <1>1
<1>2. ASSUME NEW c \in Clients, NEW m \in Message, m.from[1] = c,
             reqq' = [reqq EXCEPT ![<<c, wfd[c]>>] = Append(@, m)],
             UNCHANGED <<repq, got, wmsg>>
      PROVE  OwnMessages'
  <2>1. ASSUME NEW s \in Session
        PROVE  Belongs(reqq'[s], s[1])
    <3>1. CASE s = <<c, wfd[c]>>
      <4>1. s[1] = c /\ reqq'[s] = Append(reqq[s], m)
        BY <1>2, <3>1
      <4> QED
        BY <1>2, <4>1, BelongsQueue
    <3>2. CASE s # <<c, wfd[c]>>
      BY <1>2, <3>2
    <3> QED
      BY <3>1, <3>2
  <2> QED
    BY <1>2, <2>1
<1>3. ASSUME NEW c \in Clients, Write(c) \/ SendEof(c)
      PROVE  OwnMessages'
  <2>1. \A k \in ReqNumber : Request(c, k) \in Message /\ Request(c, k).from[1] = c
    BY <1>3, Ranges DEF Write, SendEof, Request, Current, Message, ClientShape
  <2>2. Write(c) => nreq[c] + 1 \in ReqNumber
    BY <1>3, Ranges DEF Write, ClientShape
  <2> QED
    BY <1>1, <1>2, <1>3, <2>1, <2>2, Ranges, ZenonT(60) DEF Write, SendEof, WritePipe, Die, pipeVars, workerVars
<1>4. ASSUME NEW c \in Clients, Read(c)
      PROVE  OwnMessages'
  <2>1. <<c, rfd[c]>> \in Session /\ Current(c) \in Session
    BY <1>4, Ranges DEF Read, Current, ClientShape
  <2>2. ASSUME NEW s \in Session
        PROVE  Belongs(got'[s], s[1]) /\ Belongs(repq'[s], s[1])
    <3>1. CASE s = Current(c)
      <4>1. s[1] = c /\ got'[s] = got[s] \o repq[<<c, rfd[c]>>]
        BY <1>4, <3>1 DEF Read, Current
      <4>2. Belongs(repq[<<c, rfd[c]>>], c)
        BY <2>1
      <4>3. Belongs(got'[s], s[1])
        BY <2>1, <4>1, <4>2, BelongsQueue
      <4> QED
        BY <1>4, <4>3, <2>1, BelongsQueue, SMTT(30) DEF Read
    <3>2. CASE s # Current(c)
      <4>1. got'[s] = got[s]
        BY <1>4, <3>2 DEF Read
      <4>2. repq'[s] = repq[s] \/ repq'[s] = <<>>
        BY <1>4, <2>1 DEF Read
      <4> QED
        BY <4>1, <4>2 DEF Belongs
    <3> QED
      BY <3>1, <3>2
  <2> QED
    BY <1>4, <2>2 DEF Read, workerVars
<1>5. ASSUME NEW s \in Session, WorkerRead(s)
      PROVE  OwnMessages'
  <2>1. reqfd[s] \in Session /\ reqfd[s][1] = s[1]
    BY <1>5 DEF WorkerRead, ServerShape, OwnPipes, Running
  <2>2. Head(reqq[reqfd[s]]).from[1] = s[1]
    BY <1>5, <2>1, BelongsQueue DEF WorkerRead
  <2>3. ASSUME NEW t \in Session
        PROVE  Belongs(reqq'[t], t[1])
    BY <1>5, <2>1, BelongsQueue, SMTT(30) DEF WorkerRead
  <2> QED
    BY <1>5, <2>2, <2>3 DEF WorkerRead
<1>6. ASSUME NEW s \in Session, WorkerWrite(s)
      PROVE  OwnMessages'
  <2>0. repfd[s] \in Session /\ repfd[s][1] = s[1]
    BY <1>6 DEF WorkerWrite, ServerShape, OwnPipes, Running
  <2>1. CASE repq' = [repq EXCEPT ![repfd[s]] = Append(@, wmsg[s])]
             /\ UNCHANGED <<reqq, got, wmsg>>
    <3>1. ASSUME NEW t \in Session
          PROVE  Belongs(repq'[t], t[1])
      <4>1. CASE t = repfd[s]
        <5>1. t[1] = s[1] /\ repq'[t] = Append(repq[t], wmsg[s])
          BY <2>0, <2>1, <4>1
        <5>2. /\ wmsg[s] \in Message /\ wmsg[s].from[1] = s[1]
              /\ repq[t] \in Seq(Message) /\ Belongs(repq[t], t[1])
          OBVIOUS
        <5> QED
          BY <5>1, <5>2, BelongsQueue
      <4>2. CASE t # repfd[s]
        BY <2>1, <4>2
      <4> QED
        BY <4>1, <4>2
    <3> QED
      BY <2>1, <3>1
  <2> QED
    BY <1>1, <1>6, <2>1 DEF WorkerWrite, ServerEnds, pipeVars
<1>7. ASSUME NEW c \in Clients, ClientCall(c) \/ ClientStep(c) \/ Kill(c),
             ~Write(c), ~SendEof(c), ~Read(c)
      PROVE  UNCHANGED <<reqq, repq, got, wmsg>>
  BY <1>7 DEF ClientCall, ClientStep, MkRequestPipe, BeginWrite, BeginRead, BeginFree,
     MkReplyPipe, OpenReplyEnd, OpenAccept, NewFails, SendConnect, OpenRequestEnd, Connected,
     ReadTimeout, UnlinkRequest, UnlinkReply, Kill, Die, workerVars, pipeVars
<1>8. ASSUME ServerNew \/ AcceptStep \/ LoopStops
      PROVE  UNCHANGED <<reqq, repq, got, wmsg>>
  BY <1>8 DEF ServerNew, AcceptStep, LoopStops, Accept, OpenRequest, OpenReply,
     OpenReplyFails, Spawn, ServerEnds, pipeVars, workerVars
<1>9. ASSUME NEW s \in Session, Callback(s) \/ WorkerFails(s)
      PROVE  UNCHANGED <<reqq, repq, got, wmsg>>
  BY <1>9 DEF Callback, WorkerFails, pipeVars
<1> HIDE DEF Inv, OwnMessages
<1> QED
  BY <1>1, <1>3, <1>4, <1>5, <1>6, <1>7, <1>8, <1>9 DEF Next, WorkerStep

\* Whatever fails, and however the steps of clients and threads interleave, a
\* client only ever reads replies to its own requests.
THEOREM NoCrossTalkEver == Spec => []NoCrossTalk
<1>1. Init => OwnMessages
  BY DEF Init, OwnMessages, Belongs
<1>2. Inv /\ OwnMessages /\ [Next]_vars => OwnMessages'
  <2>1. OwnMessages /\ UNCHANGED vars => OwnMessages'
    BY DEF OwnMessages, vars, pipeVars, workerVars
  <2> QED
    BY <2>1, OwnMessagesStep
<1>3. OwnMessages => NoCrossTalk
  BY DEF OwnMessages, Belongs, NoCrossTalk
<1> QED
  BY <1>1, <1>2, <1>3, Invariance, PTL DEF Spec

-----------------------------------------------------------------------------
(* Readers *)

\* No worker has the pipe open that the request name of a client leads to.
Unread(c) == \A s \in Session : reqfd[s] # <<c, reqFile[c]>>

\* The connect message of a client is on its way, or being handled.
Pending(c) ==
  \/ \E i \in DOMAIN acceptq : acceptq[i][1] = c
  \/ spc = "openreq" /\ cur[1] = c

Early == {"out", "mkrep", "openrep", "openacc", "connect", "unlinkrep"}
Waiting == {"opening", "openreq", "dead"}

\* While its connect message is on its way, a client waits in the open of its
\* request pipe, which nobody reads yet; it has one on its way at most.
Connecting ==
  /\ \A s \in Session : reqfd[s] # NoSession => reqfd[s][2] <= sess[reqfd[s][1]]
  /\ \A c \in Clients : reqFile[c] <= sess[c]
  /\ \A c \in Clients : cpc[c] \in Early \/ Pending(c) => Unread(c)
  /\ \A c \in Clients : Pending(c) => cpc[c] \in Waiting
  /\ spc = "openreq" => \A i \in DOMAIN acceptq : acceptq[i][1] # cur[1]
  /\ \A i, j \in DOMAIN acceptq : acceptq[i][1] = acceptq[j][1] => i = j

\* A client that moves on, with its pipes and its connect message as they were.
LEMMA ClientMoves ==
  ASSUME Inv, Connecting, SoleReader, NEW c \in Clients,
         UNCHANGED <<sess, reqFile, acceptq, cur, reqfd>>,
         spc' = "openreq" <=> spc = "openreq",
         \A d \in Clients : d # c => cpc'[d] = cpc[d],
         cpc'[c] \in Early => cpc[c] \in Early,
         cpc[c] \in Waiting => cpc'[c] \in Waiting \/ ~Pending(c)
  PROVE  Connecting' /\ SoleReader'
<1>1. \A d \in Clients : (Pending(d)' <=> Pending(d)) /\ (Unread(d)' <=> Unread(d))
  BY DEF Pending, Unread
<1> QED
  BY <1>1 DEF Connecting, SoleReader

LEMMA ClientReaders ==
  ASSUME Inv, Connecting, SoleReader, Env \cap {"signals", "pids_reused"} = {},
         NEW c \in Clients, ClientCall(c) \/ ClientStep(c) \/ Kill(c)
  PROVE  Connecting' /\ SoleReader'
<1> USE DEF Inv, TypeOK, ClientType, FileType, PipeType, ServerType, Goto
<1>0. UNCHANGED <<cur, reqfd>> /\ (spc' = "openreq" <=> spc = "openreq")
  <2>1. CASE OpenReplyEnd(c)
    BY <2>1 DEF OpenReplyEnd
  <2> QED
    BY <2>1, ClientFrame DEF serverVars
<1>1. CASE MkRequestPipe(c)
  <2>1. \A d \in Clients : Pending(d)' <=> Pending(d)
    BY <1>0, <1>1 DEF MkRequestPipe, Pending, pipeVars
  <2>2. \A d \in Clients : d # c => (Unread(d)' <=> Unread(d))
    BY <1>0, <1>1 DEF MkRequestPipe, Unread
  <2>0. /\ cpc[c] = "out" /\ sess' = [sess EXCEPT ![c] = sess[c] + 1]
        /\ reqFile'[c] \in {sess[c] + 1, reqFile[c]}
    BY <1>1 DEF MkRequestPipe, Outside
  <2>10. /\ sess[c] \in Nat /\ sess[c] + 1 \in Generation
         /\ \A d \in Clients : sess[d] \in Nat /\ reqFile[d] \in Nat
         /\ \A d \in Clients : sess[d] <= sess'[d]
    BY <1>1, <2>0, ConstantsAssumption DEF MkRequestPipe, Generation
  <2>3. Unread(c)'
    <3>1. ASSUME NEW s \in Session, reqfd[s] = <<c, sess[c] + 1>>
          PROVE  FALSE
      <4>1. reqfd[s] # NoSession
        BY <2>10, <3>1, Inodes
      <4>2. reqfd[s][2] <= sess[reqfd[s][1]]
        BY <4>1 DEF Connecting
      <4>3. reqfd[s][1] = c /\ reqfd[s][2] = sess[c] + 1
        BY ONLY <3>1
      <4>4. sess[c] + 1 <= sess[c]
        BY ONLY <4>2, <4>3
      <4> QED
        BY ONLY <2>10, <4>4
    <3>2. Unread(c)
      BY <2>0 DEF Connecting, Early
    <3> QED
      BY <1>0, <2>0, <3>1, <3>2 DEF Unread
  <2>4. \A s \in Session : reqfd'[s] # NoSession => reqfd'[s][2] <= sess'[reqfd'[s][1]]
    <3>1. ASSUME NEW s \in Session, reqfd[s] # NoSession
          PROVE  reqfd[s][2] <= sess'[reqfd[s][1]]
      <4> DEFINE d == reqfd[s][1]
      <4>1. reqfd[s] \in Session
        BY <3>1
      <4>2. d \in Clients /\ reqfd[s][2] \in Nat
        BY <4>1, ConstantsAssumption DEF Session
      <4>3. reqfd[s][2] <= sess[d]
        BY <3>1 DEF Connecting
      <4>4. sess[d] \in Nat /\ sess'[d] \in Nat /\ sess[d] <= sess'[d]
        BY <2>0, <2>10, <4>2
      <4> QED
        BY ONLY <4>2, <4>3, <4>4
    <3> QED
      BY <1>0, <3>1
  <2>5. \A d \in Clients : reqFile'[d] <= sess'[d]
    <3>1. \A d \in Clients : reqFile[d] <= sess[d]
      BY DEF Connecting
    <3>2. reqFile' = [reqFile EXCEPT ![c] = reqFile'[c]]
      BY <1>1 DEF MkRequestPipe
    <3> QED
      BY <2>0, <2>10, <3>1, <3>2
  <2>6. \A d \in Clients : d # c => cpc'[d] = cpc[d]
    BY <1>1 DEF MkRequestPipe
  <2>7. ~Pending(c)
    BY <2>0 DEF Connecting, Waiting
  <2>8. acceptq' = acceptq /\ SoleReader'
    BY <1>0, <1>1 DEF MkRequestPipe, pipeVars, SoleReader
  <2> QED
    BY <1>0, <2>1, <2>2, <2>3, <2>4, <2>5, <2>6, <2>7, <2>8 DEF Connecting
<1>2. CASE UnlinkRequest(c)
  <2>1. \A d \in Clients : Pending(d)' <=> Pending(d)
    BY <1>0, <1>2 DEF UnlinkRequest, Pending, pipeVars
  <2>2. \A d \in Clients : d # c => (Unread(d)' <=> Unread(d)) /\ cpc'[d] = cpc[d]
    BY <1>0, <1>2 DEF UnlinkRequest, Unread
  <2>3. Unread(c)'
    <3>1. reqFile'[c] = 0
      BY <1>2 DEF UnlinkRequest
    <3>2. \A s \in Session : reqfd[s] # <<c, 0>>
      BY Ranges, Inodes, ZenonT(60)
    <3> QED
      BY <1>0, <3>1, <3>2 DEF Unread
  <2>4. sess' = sess /\ \A d \in Clients : reqFile'[d] <= sess'[d]
    BY <1>2, ConstantsAssumption DEF UnlinkRequest, Connecting, Generation
  <2>5. ~Pending(c)
    BY <1>2 DEF UnlinkRequest, Connecting, Waiting
  <2>6. acceptq' = acceptq /\ SoleReader'
    BY <1>0, <1>2 DEF UnlinkRequest, pipeVars, SoleReader
  <2> QED
    BY <1>0, <2>1, <2>2, <2>3, <2>4, <2>5, <2>6 DEF Connecting
<1>3. CASE SendConnect(c) /\ acceptq' # acceptq
  <2>1. acceptq' = Append(acceptq, Current(c)) /\ UNCHANGED <<sess, reqFile>>
    BY <1>3 DEF SendConnect, Die, pipeVars, fileVars
  <2>2. Current(c) \in Session /\ Current(c)[1] = c
    BY <1>3, Ranges DEF SendConnect, Current, ClientShape
  <2>3. \A i \in DOMAIN acceptq' :
          \/ i \in DOMAIN acceptq /\ acceptq'[i] = acceptq[i]
          \/ i = Len(acceptq) + 1 /\ i \notin DOMAIN acceptq /\ acceptq'[i] = Current(c)
    BY <2>1, <2>2, AcceptQueue, SMTT(30)
  <2>4. ~Pending(c) /\ Unread(c)
    BY <1>3 DEF SendConnect, Connecting, Waiting, Early
  <2>5. \A d \in Clients : Unread(d)' <=> Unread(d)
    BY <1>0, <2>1 DEF Unread
  <2>6. \A d \in Clients : d # c => cpc'[d] = cpc[d] /\ (Pending(d)' => Pending(d))
    <3>1. \A d \in Clients : d # c => cpc'[d] = cpc[d]
      BY <1>3 DEF SendConnect, Die
    <3>2. ASSUME NEW d \in Clients, d # c, Pending(d)'
          PROVE  Pending(d)
      BY <1>0, <2>2, <2>3, <3>2 DEF Pending
    <3> QED
      BY <3>1, <3>2
  <2>7. cpc'[c] = "opening"
    BY <1>3 DEF SendConnect, Die, pipeVars
  <2>8. \A i \in DOMAIN acceptq : acceptq[i][1] # c
    BY <2>4 DEF Pending
  <2>9. \A i, j \in DOMAIN acceptq' : acceptq'[i][1] = acceptq'[j][1] => i = j
    BY ONLY <2>2, <2>3, <2>8, Connecting DEF Connecting
  <2>10. spc = "openreq" => \A i \in DOMAIN acceptq' : acceptq'[i][1] # cur[1]
    BY <2>2, <2>3, <2>4 DEF Connecting, Pending
  <2>11. SoleReader'
    BY <1>0 DEF SoleReader
  <2> QED
    BY <1>0, <2>1, <2>4, <2>5, <2>6, <2>7, <2>9, <2>10, <2>11 DEF Connecting, Early, Waiting
<1>4. CASE ~MkRequestPipe(c) /\ ~UnlinkRequest(c) /\ acceptq' = acceptq
  <2>1. UNCHANGED <<sess, reqFile>> /\ \A d \in Clients : d # c => cpc'[d] = cpc[d]
    <3>1. reqFile' = reqFile
      BY <1>4 DEF ClientCall, ClientStep, BeginWrite, BeginRead, BeginFree,
         MkReplyPipe, OpenReplyEnd, OpenAccept, NewFails, SendConnect, OpenRequestEnd, Connected,
         Write, Read, ReadTimeout, SendEof, UnlinkReply, Kill, WritePipe, Die, fileVars
    <3> QED
      BY <1>4, <3>1, ClientMove
  <2>2. /\ cpc'[c] \in Early => cpc[c] \in Early
        /\ cpc[c] \in Waiting => cpc'[c] \in Waiting \/ ~Pending(c)
    <3>1. CASE BeginWrite(c) \/ BeginRead(c) \/ BeginFree(c) \/ Connected(c)
      BY <3>1 DEF BeginWrite, BeginRead, BeginFree, Connected, Early, Waiting
    <3>2. CASE Kill(c)
      BY <3>2 DEF Kill, Die, Early, Waiting
    <3>3. CASE MkReplyPipe(c) \/ OpenReplyEnd(c) \/ OpenAccept(c)
      BY <3>3 DEF MkReplyPipe, OpenReplyEnd, OpenAccept, Early, Waiting
    <3>4. CASE NewFails(c)
      BY <3>4 DEF NewFails, Early, Waiting
    <3>5. CASE SendConnect(c)
      BY <3>5 DEF SendConnect, Die, Early, Waiting
    <3>6. CASE OpenRequestEnd(c)
      <4>1. Pending(c) => ReqReaders(<<c, reqFile[c]>>) = {}
        BY <3>6 DEF OpenRequestEnd, Connecting, Unread, ReqReaders, ClientShape
      <4> QED
        BY <3>6, <4>1 DEF OpenRequestEnd, Early, Waiting
    <3>7. CASE Write(c)
      BY <3>7 DEF Write, WritePipe, Die, Early, Waiting
    <3>8. CASE SendEof(c)
      BY <3>8 DEF SendEof, WritePipe, Die, Early, Waiting
    <3>9. CASE Read(c) \/ ReadTimeout(c) \/ UnlinkReply(c)
      BY <3>9 DEF Read, ReadTimeout, UnlinkReply, Early, Waiting
    <3> QED
      BY <1>4, <3>1, <3>2, <3>3, <3>4, <3>5, <3>6, <3>7, <3>8, <3>9 DEF ClientCall, ClientStep
  <2> QED
    BY <1>0, <1>4, <2>1, <2>2, ClientMoves
<1>5. ~SendConnect(c) => acceptq' = acceptq
  BY DEF ClientCall, ClientStep, MkRequestPipe, BeginWrite, BeginRead, BeginFree,
     MkReplyPipe, OpenReplyEnd, OpenAccept, NewFails, OpenRequestEnd, Connected, Write,
     Read, ReadTimeout, SendEof, UnlinkRequest, UnlinkReply, Kill, WritePipe, Die, pipeVars
<1> QED
  BY <1>1, <1>2, <1>3, <1>4, <1>5

\* The server and its workers, as long as they open no request pipe.
LEMMA ServerCloses ==
  ASSUME Inv, Connecting, SoleReader,
         UNCHANGED <<sess, reqFile, cpc, acceptq>>,
         \A s \in Session : reqfd'[s] \in {NoSession, reqfd[s]},
         spc' = "openreq" => spc = "openreq" /\ cur' = cur
  PROVE  Connecting' /\ SoleReader'
<1>1. \A c \in Clients : (Pending(c)' => Pending(c)) /\ (Unread(c) => Unread(c)')
  BY Inodes DEF Pending, Unread, Inv, TypeOK, FileType
<1>2. SoleReader'
  BY DEF SoleReader
<1>3. \A s \in Session : reqfd'[s] # NoSession => reqfd'[s][2] <= sess'[reqfd'[s][1]]
  BY DEF Connecting
<1> QED
  BY <1>1, <1>2, <1>3 DEF Connecting

LEMMA ServerReaders ==
  ASSUME Inv, Connecting, SoleReader,
         ServerNew \/ AcceptStep \/ LoopStops \/ (\E s \in Session : WorkerStep(s))
  PROVE  Connecting' /\ SoleReader'
<1> USE DEF Inv, TypeOK, ClientType, FileType, PipeType, ServerType
<1>1. CASE Accept
  <2>1. /\ UNCHANGED <<sess, reqFile, cpc, reqfd>> /\ spc' = "openreq"
        /\ spc = "select" /\ cur' \in Session
        /\ 1 \in DOMAIN acceptq /\ cur' = acceptq[1]
        /\ \A i \in DOMAIN acceptq' :
             i \in Nat /\ i # 0 /\ i + 1 \in DOMAIN acceptq /\ acceptq'[i] = acceptq[i + 1]
    BY <1>1, AcceptQueue DEF Accept, clientVars, fileVars
  <2>2. \A c \in Clients : (Pending(c)' => Pending(c)) /\ (Unread(c) <=> Unread(c)')
    BY <2>1 DEF Pending, Unread
  <2>3. \A i, j \in DOMAIN acceptq : acceptq[i][1] = acceptq[j][1] => i = j
    BY DEF Connecting
  <2>4. \A i \in DOMAIN acceptq' : acceptq'[i][1] # cur'[1]
    BY ONLY <2>1, <2>3
  <2>5. \A i, j \in DOMAIN acceptq' : acceptq'[i][1] = acceptq'[j][1] => i = j
    BY ONLY <2>1, <2>3
  <2> QED
    BY <2>1, <2>2, <2>4, <2>5 DEF Connecting, SoleReader
<1>2. CASE OpenRequest /\ spc' = "openrep"
  <2> DEFINE c == cur[1]
  <2>1. /\ cur \in Session /\ c \in Clients /\ reqFile[c] # 0
        /\ reqfd' = [reqfd EXCEPT ![cur] = <<c, reqFile[c]>>]
        /\ UNCHANGED <<sess, reqFile, acceptq>> /\ spc = "openreq"
    BY <1>2, Ranges DEF OpenRequest, NextConnect, ServerShape, fileVars, pipeVars
  <2>2. Pending(c) /\ Unread(c) /\ cpc[c] \in Waiting
    BY <2>1 DEF Pending, Connecting
  <2>3. \A d \in Clients : d = c => ~Pending(d)'
    BY <1>2, <2>1 DEF Pending, Connecting
  <2>4. \A d \in Clients : d # c => cpc'[d] = cpc[d]
    BY <1>2, <2>1 DEF OpenRequest
  <2>5. cpc'[c] \notin Early
    BY <1>2, <2>1, <2>2 DEF OpenRequest, Early, Waiting
  <2>6. \A d \in Clients : d # c => (Unread(d) => Unread(d)') /\ (Pending(d)' => Pending(d))
    BY <1>2, <2>1 DEF Unread, Pending
  <2>7. \A s \in Session : reqfd'[s] # NoSession => reqfd'[s][2] <= sess'[reqfd'[s][1]]
    BY <2>1 DEF Connecting
  <2>8. SoleReader'
    BY <2>1, <2>2 DEF SoleReader, Unread
  <2>9. \A i, j \in DOMAIN acceptq' : acceptq'[i][1] = acceptq'[j][1] => i = j
    BY <2>1 DEF Connecting
  <2> QED
    BY <1>2, <2>1, <2>4, <2>5, <2>6, <2>7, <2>8, <2>3, <2>9 DEF Connecting
<1>3. CASE OpenRequest /\ spc' # "openrep"
  BY <1>3, ServerCloses DEF OpenRequest, NextConnect, fileVars, pipeVars
<1>4. CASE ServerNew \/ OpenReply \/ OpenReplyFails \/ Spawn
  BY <1>4, ServerCloses DEF ServerNew, OpenReply, OpenReplyFails, Spawn, NextConnect,
     clientVars, fileVars, pipeVars
<1>5. ASSUME NEW how \in {"exited", "killed"}, ServerEnds(how)
      PROVE  Connecting' /\ SoleReader'
  BY <1>5, ServerCloses DEF ServerEnds, clientVars, fileVars, pipeVars
<1>6. ASSUME NEW s \in Session, WorkerStep(s), ~ServerEnds("killed")
      PROVE  Connecting' /\ SoleReader'
  <2>1. UNCHANGED <<sess, reqFile, cpc, acceptq, spc, cur>>
    BY <1>6 DEF WorkerStep, WorkerRead, Callback, WorkerWrite, WorkerFails, clientVars,
       fileVars, pipeVars, serverVars
  <2>2. \A t \in Session : reqfd'[t] \in {NoSession, reqfd[t]}
    BY <1>6 DEF WorkerStep, WorkerRead, Callback, WorkerWrite, WorkerFails, WorkerExit, serverVars
  <2> QED
    BY <2>1, <2>2, ServerCloses
<1> QED
  BY <1>1, <1>2, <1>3, <1>4, <1>5, <1>6 DEF AcceptStep, LoopStops

LEMMA ConnectingEver ==
  ASSUME Env \cap {"signals", "pids_reused"} = {}
  PROVE  Spec => [](Connecting /\ SoleReader)
<1>1. Init => Connecting /\ SoleReader
  <2> SUFFICES ASSUME Init PROVE Connecting /\ SoleReader
    OBVIOUS
  <2>1. SoleReader
    BY DEF Init, SoleReader
  <2>2. \A c \in Clients : ~Pending(c) /\ Unread(c)
    BY Ranges, Inodes DEF Init, Pending, Unread
  <2>3. Connecting
    BY <2>2 DEF Init, Connecting
  <2> QED
    BY <2>1, <2>3
<1>2. Inv /\ Connecting /\ SoleReader /\ [Next]_vars => Connecting' /\ SoleReader'
  <2>1. Connecting /\ SoleReader /\ UNCHANGED vars => Connecting' /\ SoleReader'
    BY DEF Connecting, SoleReader, Pending, Unread, vars, clientVars, fileVars, pipeVars, serverVars
  <2> QED
    BY <2>1, ClientReaders, ServerReaders DEF Next
<1> QED
  BY <1>1, <1>2, Invariance, PTL DEF Spec

\* Where no signal interrupts the blocking open of fifo_client_new, and no new
\* client gets the pid of a killed one, no two workers ever have the same
\* request pipe open: whatever else fails, however often clients connect,
\* leave, die and connect again.
THEOREM OneReader ==
  ASSUME Env \cap {"signals", "pids_reused"} = {}
  PROVE  Spec => []SoleReader
BY ConnectingEver, PTL

\* Under the same two conditions a client that is past the blocking open of
\* fifo_client_new got there because the accept loop opened its pipe: its
\* connect message is neither in the accept FIFO nor about to be handled.
THEOREM ConnectedByServer ==
  ASSUME Env \cap {"signals", "pids_reused"} = {}
  PROVE  Spec => []OpenedByServer
<1>1. Connecting => OpenedByServer
  <2> SUFFICES ASSUME Connecting, NEW c \in Clients,
                      cpc[c] \in {"opened", "idle", "writing", "reading", "failed", "eof"}
               PROVE  /\ \A i \in DOMAIN acceptq : acceptq[i] # Current(c)
                      /\ spc = "openreq" => cur # Current(c)
    BY DEF OpenedByServer
  <2>1. ~Pending(c)
    BY DEF Connecting, Waiting
  <2>2. Current(c)[1] = c
    BY DEF Current
  <2> QED
    BY <2>1, <2>2 DEF Pending
<1> QED
  BY <1>1, ConnectingEver, PTL

-----------------------------------------------------------------------------
(* What is delivered *)

\* No signal interrupts a call, and no new client has the pid of a killed one.
Calm == Env \cap {"signals", "pids_reused"} = {}

-----------------------------------------------------------------------------
(* The inductive invariant of the requests *)

NotSent == {"mkrep", "openrep", "openacc", "connect"}
Opening == {"opening", "openreq", "opened"}
Using == {"idle", "writing", "reading", "failed", "eof"}

\* A client writes to the pipe that its request name leads to, and has not done so
\* before fifo_client_new returned.
Named ==
  \A c \in Clients :
    /\ cpc[c] \in Using => wfd[c] = reqFile[c] /\ reqFile[c] # 0
    /\ cpc[c] \in NotSent \cup Opening => nreq[c] = 0

\* A connect message is of the session that its client is in.
PendingCurrent ==
  /\ \A i \in DOMAIN acceptq : acceptq[i] = Current(acceptq[i][1])
  /\ spc = "openreq" => cur = Current(cur[1])

\* The pipe that the server reads for a session is the one that this session
\* writes to, and no other session will.
Readers ==
  \A s \in Session : reqfd[s] # NoSession =>
    /\ ~Unsent(s)
    /\ reqfd[s] = <<s[1], reqFile[s[1]]>> => s = Current(s[1])
    /\ s = Current(s[1]) /\ cpc[s[1]] \in Opening \cup Using =>
         reqfd[s] = <<s[1], reqFile[s[1]]>>

\* Nobody has written to a pipe before its session is connected.
Unwritten ==
  /\ \A s \in Session : s[2] > sess[s[1]] => reqq[s] = <<>>
  /\ \A c \in Clients :
       reqFile[c] # 0 /\ (cpc[c] \in Early \cup Opening \/ Pending(c)) =>
         reqq[<<c, reqFile[c]>>] = <<>>

\* The requests that a worker took from its pipe.
Taken(s) == Len(served[s]) + (IF wpc[s] = "callback" THEN 1 ELSE 0)

Handed ==
  \A s \in Session :
    /\ \A i \in DOMAIN served[s] : served[s][i] = [from |-> s, n |-> i]
    /\ wpc[s] = "none" => served[s] = <<>>
    /\ wpc[s] = "callback" => wmsg[s] = [from |-> s, n |-> Len(served[s]) + 1]

Eof(s) == [from |-> s, n |-> 0]
EndsWith(q, m) == Len(q) # 0 /\ q[Len(q)] = m
NoEof(q) == \A i \in DOMAIN q : q[i].n # 0

\* q is what comes after the first m requests of s, perhaps with its end.
Follows(s, m, q) ==
  \A i \in DOMAIN q :
    q[i] = [from |-> s, n |-> m + i] \/ (i = Len(q) /\ q[i] = Eof(s))

\* What waits for a worker: all that its session wrote and the worker did not take.
Flowing ==
  \A s \in Session : reqfd[s] # NoSession =>
    /\ Follows(s, Taken(s), reqq[reqfd[s]])
    /\ s = Current(s[1]) /\ cpc[s[1]] \in Opening \cup Using =>
         NoEof(reqq[reqfd[s]]) /\ Taken(s) + Len(reqq[reqfd[s]]) = nreq[s[1]]
    /\ Left(s) => EndsWith(reqq[reqfd[s]], Eof(s))

Delivery == Named /\ PendingCurrent /\ Readers /\ Unwritten /\ Handed /\ Flowing

-----------------------------------------------------------------------------
(* A pipe gets one message more, or one less *)

LEMMA FollowsAppend ==
  ASSUME NEW s, NEW m \in Nat, NEW q \in Seq(Message), Follows(s, m, q), NoEof(q),
         NEW k, k = m + Len(q) + 1 \/ k = 0, [from |-> s, n |-> k] \in Message
  PROVE  /\ Follows(s, m, Append(q, [from |-> s, n |-> k]))
         /\ k # 0 => NoEof(Append(q, [from |-> s, n |-> k]))
         /\ EndsWith(Append(q, [from |-> s, n |-> k]), [from |-> s, n |-> k])
         /\ Len(Append(q, [from |-> s, n |-> k])) = Len(q) + 1
<1> DEFINE e == [from |-> s, n |-> k]
           a == Append(q, e)
<1>1. Len(q) \in Nat /\ Len(a) = Len(q) + 1 /\ a[Len(q) + 1] = e
  OBVIOUS
<1>2. \A i \in DOMAIN a : (i \in DOMAIN q /\ a[i] = q[i]) \/ i = Len(q) + 1
  OBVIOUS
<1>3. ASSUME NEW i \in DOMAIN q PROVE q[i].n # 0 /\ q[i] = [from |-> s, n |-> m + i]
  BY <1>3 DEF Follows, NoEof, Eof
<1>4. e.n = k
  OBVIOUS
<1> HIDE DEF a
<1>5. Follows(s, m, a)
  <2> SUFFICES ASSUME NEW i \in DOMAIN a
               PROVE  a[i] = [from |-> s, n |-> m + i] \/ (i = Len(a) /\ a[i] = Eof(s))
    BY DEF Follows
  <2>1. CASE i \in DOMAIN q /\ a[i] = q[i]
    BY <1>3, <2>1
  <2>2. CASE i = Len(q) + 1
    <3>1. m + i = m + Len(q) + 1
      BY <1>1, <2>2
    <3> QED
      BY <1>1, <2>2, <3>1 DEF Eof
  <2> QED
    BY <1>2, <2>1, <2>2
<1>6. k # 0 => NoEof(a)
  BY <1>1, <1>2, <1>3, <1>4 DEF NoEof
<1>7. EndsWith(a, e)
  BY <1>1 DEF EndsWith
<1> QED
  BY <1>1, <1>5, <1>6, <1>7 DEF a

LEMMA FollowsTail ==
  ASSUME NEW s, NEW m \in Nat, NEW q \in Seq(Message), q # <<>>, Follows(s, m, q),
         Head(q).n # 0
  PROVE  /\ Head(q) = [from |-> s, n |-> m + 1]
         /\ Follows(s, m + 1, Tail(q))
         /\ NoEof(q) => NoEof(Tail(q))
         /\ EndsWith(q, Eof(s)) => EndsWith(Tail(q), Eof(s))
         /\ Len(Tail(q)) + 1 = Len(q)
<1>1. /\ Len(q) \in Nat /\ Len(q) >= 1 /\ Head(q) = q[1] /\ 1 \in DOMAIN q
      /\ Len(Tail(q)) = Len(q) - 1
      /\ \A i \in DOMAIN Tail(q) : i \in 1 .. Len(q) - 1 /\ i + 1 \in DOMAIN q /\ Tail(q)[i] = q[i + 1]
  OBVIOUS
<1>2. q[1] = [from |-> s, n |-> m + 1]
  BY <1>1 DEF Follows, Eof
<1>3. Follows(s, m + 1, Tail(q))
  <2> SUFFICES ASSUME NEW i \in DOMAIN Tail(q)
               PROVE  \/ Tail(q)[i] = [from |-> s, n |-> (m + 1) + i]
                      \/ i = Len(Tail(q)) /\ Tail(q)[i] = Eof(s)
    BY DEF Follows
  <2>1. i \in 1 .. Len(q) - 1 /\ i + 1 \in DOMAIN q /\ Tail(q)[i] = q[i + 1]
    BY <1>1
  <2>2. q[i + 1] = [from |-> s, n |-> m + (i + 1)] \/ (i + 1 = Len(q) /\ q[i + 1] = Eof(s))
    BY <2>1 DEF Follows
  <2>3. m + (i + 1) = (m + 1) + i /\ (i + 1 = Len(q) => i = Len(Tail(q)))
    BY <1>1, <2>1
  <2> QED
    BY <2>1, <2>2, <2>3
<1>4. NoEof(q) => NoEof(Tail(q))
  BY <1>1 DEF NoEof
<1>5. ASSUME EndsWith(q, Eof(s)) PROVE EndsWith(Tail(q), Eof(s))
  <2>1. q[Len(q)] = Eof(s)
    BY <1>5 DEF EndsWith
  <2>2. Len(q) # 1
    BY <1>1, <2>1 DEF Eof
  <2>3. Len(Tail(q)) \in DOMAIN Tail(q) /\ Len(Tail(q)) + 1 = Len(q)
    BY <1>1, <2>2
  <2> QED
    BY <1>1, <2>1, <2>2, <2>3 DEF EndsWith
<1> QED
  BY <1>1, <1>2, <1>3, <1>4, <1>5

LEMMA TakenNat ==
  ASSUME Inv, NEW s \in Session
  PROVE  Len(served[s]) \in Nat /\ Taken(s) \in Nat
<1>1. served[s] \in Seq(Message)
  BY DEF Inv, TypeOK, WorkerType
<1>2. Len(served[s]) \in Nat
  BY <1>1
<1>3. Len(served[s]) + 1 \in Nat /\ Len(served[s]) + 0 \in Nat
  BY <1>2
<1>4. Taken(s) \in {Len(served[s]) + 1, Len(served[s]) + 0}
  BY DEF Taken
<1> QED
  BY <1>2, <1>3, <1>4

LEMMA DeliveryInit == Init => Delivery
<1> SUFFICES ASSUME Init PROVE Delivery
  OBVIOUS
<1> USE DEF Init
<1>1. Named
  BY DEF Named, Using
<1>2. PendingCurrent
  BY DEF PendingCurrent
<1>3. Readers
  BY DEF Readers
<1>4. Unwritten
  <2>1. \A c \in Clients : reqFile[c] = 0
    OBVIOUS
  <2>2. \A s \in Session : reqq[s] = <<>>
    OBVIOUS
  <2> QED
    BY <2>1, <2>2 DEF Unwritten
<1>5. Handed
  BY DEF Handed
<1>6. Flowing
  BY DEF Flowing
<1> QED
  BY <1>1, <1>2, <1>3, <1>4, <1>5, <1>6 DEF Delivery

-----------------------------------------------------------------------------
(* Steps of a client *)

\* A client moves on and leaves alone its names and all that is in the pipes.
LEMMA ClientStays ==
  ASSUME Inv, Connecting, Delivery, NEW c \in Clients,
         UNCHANGED <<sess, nreq, reqFile, acceptq, cur, reqfd, reqq, wpc, wmsg, served>>,
         spc' = "openreq" <=> spc = "openreq",
         \A d \in Clients : d # c => cpc'[d] = cpc[d] /\ wfd'[d] = wfd[d],
         cpc'[c] \in Using => wfd'[c] = reqFile[c] /\ reqFile[c] # 0,
         \A L \in {NotSent, NotSent \cup Opening, Opening \cup Using, Early \cup Opening} :
           cpc'[c] \in L => cpc[c] \in L,
         cpc[c] = "dead" => cpc'[c] = "dead",
         cpc'[c] \in {"unlink", "unlinkrep", "out"} =>
           cpc[c] \in {"unlink", "unlinkrep", "out"} \/ reqfd[Current(c)] = NoSession
  PROVE  Delivery'
<1>1. Named'
  <2>1. \A d \in Clients : cpc'[d] \in Using => wfd'[d] = reqFile'[d] /\ reqFile'[d] # 0
    BY DEF Delivery, Named
  <2>2. \A d \in Clients : cpc'[d] \in NotSent \cup Opening => nreq'[d] = 0
    BY DEF Delivery, Named
  <2> QED
    BY <2>1, <2>2 DEF Named
<1>2. PendingCurrent'
  BY DEF Delivery, PendingCurrent, Current
<1>3. Readers'
  <2>1. \A s \in Session : Unsent(s)' => Unsent(s)
    <3>1. \A d \in Clients : cpc'[d] \in NotSent => cpc[d] \in NotSent
      OBVIOUS
    <3> QED
      BY <3>1, Ranges DEF Unsent, NotSent
  <2>2. \A s \in Session : cpc'[s[1]] \in Opening \cup Using => cpc[s[1]] \in Opening \cup Using
    BY Ranges
  <2> QED
    BY <2>1, <2>2 DEF Delivery, Readers, Current
<1>4. Unwritten'
  <2>1. \A d \in Clients : Pending(d)' <=> Pending(d)
    BY DEF Pending
  <2>2. \A d \in Clients : cpc'[d] \in Early \cup Opening => cpc[d] \in Early \cup Opening
    OBVIOUS
  <2> QED
    BY <2>1, <2>2 DEF Delivery, Unwritten
<1>5. Handed'
  BY DEF Delivery, Handed
<1>6. Flowing'
  <2>1. ASSUME NEW s \in Session, reqfd[s] # NoSession
        PROVE  /\ Follows(s, Taken(s), reqq[reqfd[s]])
               /\ s = Current(s[1]) /\ cpc'[s[1]] \in Opening \cup Using =>
                    NoEof(reqq[reqfd[s]]) /\ Taken(s) + Len(reqq[reqfd[s]]) = nreq[s[1]]
               /\ Left(s)' => EndsWith(reqq[reqfd[s]], Eof(s))
    <3>1. s[1] \in Clients /\ s = <<s[1], s[2]>>
      BY Ranges
    <3>2. cpc'[s[1]] \in Opening \cup Using => cpc[s[1]] \in Opening \cup Using
      BY <3>1
    <3>3. s[2] = sess[s[1]] => s = Current(s[1])
      BY <3>1 DEF Current
    <3>4. Left(s)' => Left(s)
      BY <2>1, <3>1, <3>3 DEF Left
    <3> QED
      BY <2>1, <3>2, <3>4 DEF Delivery, Flowing
  <2>2. \A s \in Session : Taken(s)' = Taken(s)
    BY DEF Taken
  <2> QED
    BY <2>1, <2>2 DEF Flowing, Current
<1> QED
  BY <1>1, <1>2, <1>3, <1>4, <1>5, <1>6 DEF Delivery

\* fifo_client_new begins: nobody knows the pipe that the name leads to now.
LEMMA DeliveryBegin ==
  ASSUME Inv, Connecting, Connecting', Delivery, Calm, NEW c \in Clients, MkRequestPipe(c)
  PROVE  Delivery'
<1> USE DEF Inv, TypeOK, ClientType, FileType
<1>1. /\ cpc[c] = "out" /\ cpc'[c] = "mkrep" /\ sess[c] \in Nat /\ sess'[c] = sess[c] + 1
      /\ nreq'[c] = 0 /\ reqFile'[c] \in {reqFile[c], sess'[c]} /\ sess'[c] \in Generation
      /\ \A d \in Clients : d # c => /\ cpc'[d] = cpc[d] /\ sess'[d] = sess[d]
                                     /\ nreq'[d] = nreq[d] /\ reqFile'[d] = reqFile[d]
      /\ UNCHANGED <<wfd, acceptq, reqq, spc, cur, reqfd, wpc, wmsg, served>>
  BY ConstantsAssumption DEF MkRequestPipe, Outside, Calm, Goto, Generation, pipeVars, serverVars, workerVars
<1>2. ~Pending(c) /\ \A d \in Clients : Pending(d)' <=> Pending(d)
  BY <1>1 DEF Connecting, Waiting, Pending
<1>3. \A s \in Session :
        s[1] \in Clients /\ s[2] \in Nat /\ s = <<s[1], s[2]>> /\ sess[s[1]] \in Nat
  BY Ranges, ConstantsAssumption DEF Generation
<1>4. ASSUME NEW s \in Session, reqfd[s] # NoSession, s[1] = c
      PROVE  s[2] <= sess[c] /\ ~Unsent(s)' /\ s # Current(c)' /\ Left(s)
  <2>1. ~Unsent(s)
    BY <1>4 DEF Delivery, Readers
  <2>2. s[2] <= sess[c]
    BY <1>1, <1>3, <1>4, <2>1 DEF Unsent
  <2>3. s[2] < sess'[c]
    BY <1>1, <1>3, <2>2
  <2> QED
    BY <1>1, <1>3, <1>4, <2>2, <2>3 DEF Unsent, Current, Left
<1>5. Named'
  BY <1>1 DEF Delivery, Named, Using
<1>6. PendingCurrent'
  <2>1. \A i \in DOMAIN acceptq : acceptq[i][1] # c /\ acceptq[i] \in Session
    BY <1>2, AcceptQueue DEF Pending, PipeType
  <2>2. spc = "openreq" => cur[1] # c /\ cur \in Session
    BY <1>2 DEF Pending, ServerShape, ServerType
  <2> QED
    BY <1>1, <1>3, <2>1, <2>2 DEF Delivery, PendingCurrent, Current
<1>7. Readers'
  <2> SUFFICES ASSUME NEW s \in Session, reqfd[s] # NoSession
               PROVE  /\ ~Unsent(s)'
                      /\ reqfd[s] = <<s[1], reqFile'[s[1]]>> => s = Current(s[1])'
                      /\ s = Current(s[1])' /\ cpc'[s[1]] \in Opening \cup Using =>
                           reqfd[s] = <<s[1], reqFile'[s[1]]>>
    BY <1>1 DEF Readers
  <2>1. CASE s[1] = c
    <3>1. reqfd[s] # <<c, reqFile'[c]>>
      BY <1>1 DEF Connecting, Unread, Early
    <3> QED
      BY <1>4, <2>1, <3>1
  <2>2. CASE s[1] # c
    BY <1>1, <1>3, <2>2, SMTT(30) DEF Delivery, Readers, Unsent, Current
  <2> QED
    BY <2>1, <2>2
<1>8. Unwritten'
  <2>1. ASSUME NEW s \in Session, s[2] > sess'[s[1]] PROVE reqq[s] = <<>>
    <3>1. sess'[s[1]] \in {sess[s[1]], sess[s[1]] + 1}
      BY <1>1, <1>3
    <3>2. s[2] > sess[s[1]]
      BY <1>3, <2>1, <3>1
    <3> QED
      BY <3>2 DEF Delivery, Unwritten
  <2>2. ASSUME NEW d \in Clients, reqFile'[d] # 0,
               cpc'[d] \in Early \cup Opening \/ Pending(d)
        PROVE  reqq[<<d, reqFile'[d]>>] = <<>>
    <3>1. CASE d # c
      BY <1>1, <2>2, <3>1 DEF Delivery, Unwritten
    <3>2. CASE d = c /\ reqFile'[c] = reqFile[c]
      BY <1>1, <2>2, <3>2 DEF Delivery, Unwritten, Early
    <3>3. CASE d = c /\ reqFile'[c] = sess'[c]
      <4>1. <<c, sess'[c]>> \in Session
        BY <1>1, Ranges
      <4>2. reqq[<<c, sess'[c]>>] = <<>>
        BY <1>1, <4>1 DEF Delivery, Unwritten
      <4> QED
        BY <3>3, <4>2
    <3> QED
      BY <1>1, <3>1, <3>2, <3>3
  <2> QED
    BY <1>1, <1>2, <2>1, <2>2 DEF Unwritten
<1>9. Handed'
  BY <1>1 DEF Delivery, Handed
<1>10. Flowing'
  <2>1. \A s \in Session : Taken(s)' = Taken(s)
    BY <1>1 DEF Taken
  <2>2. ASSUME NEW s \in Session, reqfd[s] # NoSession
        PROVE  /\ Follows(s, Taken(s), reqq[reqfd[s]])
               /\ s = Current(s[1])' /\ cpc'[s[1]] \in Opening \cup Using =>
                    NoEof(reqq[reqfd[s]]) /\ Taken(s) + Len(reqq[reqfd[s]]) = nreq'[s[1]]
               /\ Left(s)' => EndsWith(reqq[reqfd[s]], Eof(s))
    <3>1. CASE s[1] = c
      BY <1>4, <2>2, <3>1 DEF Delivery, Flowing
    <3>2. CASE s[1] # c
      <4>1. (Current(s[1])' = Current(s[1])) /\ (Left(s)' <=> Left(s))
        BY <1>1, <1>3, <3>2 DEF Current, Left
      <4> QED
        BY <1>1, <1>3, <2>2, <3>2, <4>1 DEF Delivery, Flowing
    <3> QED
      BY <3>1, <3>2
  <2> QED
    BY <1>1, <2>1, <2>2 DEF Flowing
<1> QED
  BY <1>5, <1>6, <1>7, <1>8, <1>9, <1>10 DEF Delivery

\* The connect message goes into the accept FIFO.
LEMMA DeliveryConnect ==
  ASSUME Inv, Connecting, Delivery, NEW c \in Clients, cpc[c] = "connect",
         acceptq' = Append(acceptq, Current(c)), Goto(c, "opening"),
         UNCHANGED <<sess, nreq, wfd, reqFile, reqq, spc, cur, reqfd, wpc, wmsg, served>>
  PROVE  Delivery'
<1> USE DEF Inv, TypeOK, ClientType, PipeType
<1>1. cpc'[c] = "opening" /\ \A d \in Clients : d # c => cpc'[d] = cpc[d]
  BY DEF Goto
<1>2. Current(c) \in Session /\ Current(c)[1] = c
  BY Ranges DEF Current, ClientShape
<1>3. \A i \in DOMAIN acceptq' :
        (i \in DOMAIN acceptq /\ acceptq'[i] = acceptq[i]) \/ acceptq'[i] = Current(c)
  BY <1>2, AcceptQueue
<1>4. \A d \in Clients : d # c => (Pending(d)' => Pending(d))
  BY <1>2, <1>3 DEF Pending
<1>5. \A s \in Session : s[1] \in Clients
  BY Ranges
<1>6. reqfd[Current(c)] = NoSession
  BY <1>2 DEF Delivery, Readers, Unsent, Current
<1>7. Named'
  BY <1>1 DEF Delivery, Named, NotSent, Opening, Using
<1>8. PendingCurrent'
  <2>1. \A i \in DOMAIN acceptq' : acceptq'[i] = Current(acceptq'[i][1])
    BY <1>2, <1>3 DEF Delivery, PendingCurrent
  <2> QED
    BY <2>1 DEF Delivery, PendingCurrent, Current
<1>9. Readers'
  <2>1. \A s \in Session : Unsent(s)' => Unsent(s)
    BY <1>1, <1>5 DEF Unsent
  <2>2. \A s \in Session : reqfd[s] # NoSession /\ s = Current(s[1]) => cpc'[s[1]] = cpc[s[1]]
    BY <1>1, <1>5, <1>6
  <2> QED
    BY <2>1, <2>2 DEF Delivery, Readers, Current
<1>10. Unwritten'
  BY <1>1, <1>4 DEF Delivery, Unwritten, Early, Opening
<1>11. Handed'
  BY DEF Delivery, Handed
<1>12. Flowing'
  <2>1. \A s \in Session : Taken(s)' = Taken(s)
    BY DEF Taken
  <2>2. \A s \in Session : Left(s)' => Left(s)
    BY <1>1, <1>5 DEF Left
  <2>3. \A s \in Session : reqfd[s] # NoSession /\ s = Current(s[1]) => cpc'[s[1]] = cpc[s[1]]
    BY <1>1, <1>5, <1>6
  <2> QED
    BY <2>1, <2>2, <2>3 DEF Delivery, Flowing, Current
<1> QED
  BY <1>7, <1>8, <1>9, <1>10, <1>11, <1>12 DEF Delivery

\* A message of a client arrives at the pipe that its worker reads.
LEMMA DeliveryWrite ==
  ASSUME Inv, Connecting, Delivery, NEW c \in Clients, NEW k \in ReqNumber,
         NEW ok \in Using \cup {"unlink"},
         cpc[c] \in Using, k = nreq[c] + 1 \/ k = 0, k = 0 <=> ok = "unlink",
         ReqReaders(<<c, wfd[c]>>) # {},
         reqq' = [reqq EXCEPT ![<<c, wfd[c]>>] = Append(@, Request(c, k))],
         nreq' = [nreq EXCEPT ![c] = IF k = 0 THEN @ ELSE k],
         Goto(c, ok),
         UNCHANGED <<sess, wfd, reqFile, acceptq, spc, cur, reqfd, wpc, wmsg, served>>
  PROVE  Delivery'
<1> USE DEF Inv, TypeOK, ClientType, FileType, PipeType
<1>1. cpc'[c] = ok /\ \A d \in Clients : d # c => cpc'[d] = cpc[d]
  BY DEF Goto
<1>21. <<c, reqFile[c]>> \in Session /\ wfd[c] = reqFile[c] /\ reqFile[c] <= sess[c]
  BY Ranges DEF Delivery, Named, Using, Connecting
<1>20. Current(c) \in Session
  BY Ranges DEF Using, Current, ClientShape
<1>2. PICK p \in Session, s \in Session :
        /\ p = <<c, reqFile[c]>> /\ wfd[c] = reqFile[c] /\ reqFile[c] <= sess[c]
        /\ s = Current(c) /\ s[1] = c /\ s[2] = sess[c]
        /\ p[1] = c /\ p[2] = reqFile[c] /\ p # NoSession
  BY <1>21, <1>20, Ranges DEF Current
<1> DEFINE e == [from |-> s, n |-> k]
<1>3. reqfd[s] = p /\ s[1] = c /\ s[2] = sess[c]
  <2>1. PICK t \in Session : reqfd[t] = p
    BY <1>2 DEF ReqReaders
  <2>2. t[1] = c
    BY <1>2, <2>1 DEF OwnPipes
  <2>3. t = s
    BY <1>2, <2>1, <2>2 DEF Delivery, Readers
  <2> QED
    BY <1>2, <2>1, <2>3
<1>4. ASSUME NEW t \in Session, reqfd[t] = p
      PROVE  t = s
  <2>1. t[1] = c
    BY <1>2, <1>4 DEF OwnPipes
  <2> QED
    BY <1>2, <1>4, <2>1 DEF Delivery, Readers
<1>5. /\ \A t \in Session : t # p => reqq'[t] = reqq[t]
      /\ reqq'[p] = Append(reqq[p], e) /\ e \in Message /\ reqq[p] \in Seq(Message)
  BY <1>2 DEF Request, Message
<1>6. /\ Taken(s) \in Nat /\ Follows(s, Taken(s), reqq[p]) /\ NoEof(reqq[p])
      /\ Taken(s) + Len(reqq[p]) = nreq[c] /\ Len(reqq[p]) \in Nat /\ nreq[c] \in Nat
  <2>3. Taken(s) \in Nat
    BY TakenNat
  <2>4. reqq[p] \in Seq(Message) /\ nreq[c] \in Nat
    BY <1>2, ConstantsAssumption DEF ReqNumber
  <2>5. Len(reqq[p]) \in Nat
    BY <2>4
  <2>6. p # NoSession
    BY <1>2, Ranges
  <2>7. /\ Follows(s, Taken(s), reqq[reqfd[s]])
        /\ NoEof(reqq[reqfd[s]]) /\ Taken(s) + Len(reqq[reqfd[s]]) = nreq[s[1]]
    BY <1>2, <1>3, <2>6 DEF Delivery, Flowing
  <2> QED
    BY <1>3, <2>3, <2>4, <2>5, <2>7
<1>7. /\ Follows(s, Taken(s), reqq'[p])
      /\ k # 0 => NoEof(reqq'[p])
      /\ EndsWith(reqq'[p], e) /\ Len(reqq'[p]) = Len(reqq[p]) + 1
  <2>1. k = Taken(s) + Len(reqq[p]) + 1 \/ k = 0
    BY <1>6
  <2>2. /\ reqq[p] \in Seq(Message) /\ Follows(s, Taken(s), reqq[p]) /\ NoEof(reqq[p])
        /\ e \in Message /\ Taken(s) \in Nat /\ reqq'[p] = Append(reqq[p], e)
    BY <1>5, <1>6
  <2> QED
    BY ONLY <2>1, <2>2, k \in ReqNumber, FollowsAppend
<1>8. /\ \A t \in Session : Taken(t)' = Taken(t)
      /\ \A d \in Clients : Pending(d)' <=> Pending(d)
      /\ \A d \in Clients : Current(d)' = Current(d)
  BY DEF Taken, Pending, Current
<1>9. Named'
  BY <1>1 DEF Delivery, Named, Using, NotSent, Opening
<1>10. PendingCurrent'
  BY DEF Delivery, PendingCurrent, Current
<1>11. Readers'
  <2>1. \A t \in Session : Unsent(t)' => Unsent(t)
    BY <1>1, Ranges DEF Unsent, Using
  <2>2. \A d \in Clients : cpc'[d] \in Opening \cup Using => cpc[d] \in Opening \cup Using
    BY <1>1
  <2> QED
    BY <1>8, <2>1, <2>2, Ranges DEF Delivery, Readers
<1>12. Unwritten'
  <2>1. \A t \in Session : t[2] > sess[t[1]] => t # p
    BY <1>2, ConstantsAssumption DEF Generation
  <2>2. \A d \in Clients : cpc'[d] \in Early \cup Opening \/ Pending(d) => d # c
    BY <1>1 DEF Connecting, Waiting, Using, Early, Opening
  <2>3. \A d \in Clients : d # c /\ reqFile[d] # 0 =>
          <<d, reqFile[d]>> \in Session /\ <<d, reqFile[d]>> # p
    BY <1>2, Ranges
  <2> QED
    BY <1>1, <1>5, <1>8, <2>1, <2>2, <2>3 DEF Delivery, Unwritten
<1>13. Handed'
  BY DEF Delivery, Handed
<1>14. Flowing'
  <2> SUFFICES ASSUME NEW t \in Session, reqfd[t] # NoSession
               PROVE  /\ Follows(t, Taken(t), reqq'[reqfd[t]])
                      /\ t = Current(t[1]) /\ cpc'[t[1]] \in Opening \cup Using =>
                           /\ NoEof(reqq'[reqfd[t]])
                           /\ Taken(t) + Len(reqq'[reqfd[t]]) = nreq'[t[1]]
                      /\ Left(t)' => EndsWith(reqq'[reqfd[t]], Eof(t))
    BY <1>8 DEF Flowing, Current
  <2>1. CASE t = s
    <3>1. cpc'[c] \in Opening \cup Using => k # 0 /\ nreq'[c] = k
      BY <1>1 DEF Opening, Using
    <3>2. Left(s)' => k = 0
      <4>1. sess[c] \in Nat /\ sess' = sess
        BY ConstantsAssumption DEF Generation
      <4> QED
        BY ONLY <1>1, <1>3, <4>1, k = 0 <=> ok = "unlink", ok \in Using \cup {"unlink"} DEF Left, Using
    <3>3. k # 0 => Taken(s) + (Len(reqq[p]) + 1) = k
      BY <1>6
    <3> QED
      BY <1>3, <1>7, <2>1, <3>1, <3>2, <3>3 DEF Eof
  <2>2. CASE t # s
    <3>1. reqfd[t] \in Session /\ reqq'[reqfd[t]] = reqq[reqfd[t]]
      BY <1>4, <1>5, <2>2 DEF ServerType
    <3>2. t = Current(t[1]) => t[1] # c
      BY <1>2, <2>2
    <3>3. Left(t)' => Left(t)
      <4>1. t[1] \in Clients /\ t = <<t[1], t[2]>> /\ sess' = sess
        BY Ranges
      <4>2. t[1] = c => t[2] # sess[c]
        BY <1>2, <2>2, <4>1 DEF Current
      <4>3. t[1] = c => cpc[c] # "dead"
        BY DEF Using
      <4> QED
        BY <1>1, <4>1, <4>2, <4>3 DEF Left
    <3> QED
      BY <1>1, <3>1, <3>2, <3>3, Ranges DEF Delivery, Flowing
  <2> QED
    BY <2>1, <2>2
<1> QED
  BY <1>9, <1>10, <1>11, <1>12, <1>13, <1>14 DEF Delivery

\* fifo_client_free forgets the request pipe, with what waits in it.
LEMMA DeliveryUnlink ==
  ASSUME Inv, Connecting, Delivery, NEW c \in Clients, UnlinkRequest(c)
  PROVE  Delivery'
<1> USE DEF Inv, TypeOK, ClientType, FileType, Goto
<1>1. /\ cpc[c] = "unlink" /\ cpc'[c] = "unlinkrep" /\ reqFile'[c] = 0
      /\ \A d \in Clients : d # c =>
           cpc'[d] = cpc[d] /\ reqFile'[d] = reqFile[d] /\ wfd'[d] = wfd[d]
      /\ UNCHANGED <<sess, nreq, acceptq, reqq, spc, cur, reqfd, wpc, wmsg, served>>
  BY DEF UnlinkRequest, pipeVars, serverVars, workerVars
<1>2. \A s \in Session : s[1] \in Clients /\ s = <<s[1], s[2]>>
  BY Ranges
<1>3. /\ \A s \in Session : Taken(s)' = Taken(s)
      /\ \A s \in Session : Left(s)' <=> Left(s)
      /\ \A s \in Session : Unsent(s)' <=> Unsent(s)
      /\ \A d \in Clients : Pending(d)' <=> Pending(d)
  BY <1>1, <1>2 DEF Taken, Left, Unsent, Pending
<1>4. Named'
  BY <1>1 DEF Delivery, Named, Using, NotSent, Opening
<1>5. PendingCurrent'
  BY <1>1 DEF Delivery, PendingCurrent, Current
<1>6. Readers'
  <2>1. \A s \in Session : reqfd[s] # <<c, 0>>
    BY Inodes, Ranges, ZenonT(60) DEF ServerType
  <2> QED
    BY <1>1, <1>2, <1>3, <2>1 DEF Delivery, Readers, Current, Opening, Using
<1>7. Unwritten'
  BY <1>1, <1>3 DEF Delivery, Unwritten
<1>8. Handed'
  BY <1>1 DEF Delivery, Handed
<1>9. Flowing'
  BY <1>1, <1>2, <1>3 DEF Delivery, Flowing, Current, Opening, Using
<1> QED
  BY <1>4, <1>5, <1>6, <1>7, <1>8, <1>9 DEF Delivery

\* A write of a client: the message arrives, or it does not.
LEMMA DeliveryWritePipe ==
  ASSUME Inv, Connecting, Delivery, Calm, NEW c \in Clients, NEW k \in ReqNumber,
         NEW ok \in {"idle", "reading", "unlink"}, NEW failed \in {"idle", "failed", "unlink"},
         cpc[c] \in Using, k = nreq[c] + 1 \/ k = 0,
         k = 0 <=> ok = "unlink", k = 0 <=> failed = "unlink",
         WritePipe(c, Request(c, k), ok, failed)
  PROVE  Delivery'
<1> USE DEF Inv, TypeOK, ClientType
<1>1. Request(c, k).n = k /\ (IsEof(Request(c, k)) <=> k = 0)
  BY DEF Request, IsEof
<1>2. CASE /\ ReqReaders(<<c, wfd[c]>>) # {}
           /\ reqq' = [reqq EXCEPT ![<<c, wfd[c]>>] = Append(@, Request(c, k))]
           /\ nreq' = [nreq EXCEPT ![c] = IF IsEof(Request(c, k)) THEN @ ELSE Request(c, k).n]
           /\ Goto(c, ok)
           /\ UNCHANGED <<sess, rfd, wfd, fileVars, acceptq, repq, serverVars, workerVars, got>>
  <2>1. nreq' = [nreq EXCEPT ![c] = IF k = 0 THEN @ ELSE k]
    BY <1>1, <1>2
  <2>2. ok \in Using \cup {"unlink"}
    BY DEF Using
  <2>3. UNCHANGED <<sess, wfd, reqFile, acceptq, spc, cur, reqfd, wpc, wmsg, served>>
    BY <1>2 DEF fileVars, serverVars, workerVars
  <2> QED
    BY <1>2, <2>1, <2>2, <2>3, DeliveryWrite
<1>3. CASE Die(c)
  BY <1>3, ClientStays DEF Die, Goto, fileVars, pipeVars, serverVars, workerVars, Using,
     NotSent, Opening, Early
<1>4. CASE /\ ReqReaders(<<c, wfd[c]>>) = {} /\ Goto(c, failed)
           /\ UNCHANGED <<sess, nreq, rfd, wfd, fileVars, pipeVars, serverVars, workerVars, got>>
  <2>1. wfd[c] = reqFile[c] /\ reqFile[c] # 0
    BY DEF Delivery, Named
  <2>2. Current(c) \in Session /\ Current(c)[1] = c
    BY Ranges DEF Using, Current, ClientShape
  <2>3. reqfd[Current(c)] = NoSession
    BY <1>4, <2>1, <2>2 DEF ReqReaders, Delivery, Readers
  <2>4. cpc'[c] = failed /\ \A d \in Clients : d # c => cpc'[d] = cpc[d] /\ wfd'[d] = wfd[d]
    BY <1>4 DEF Goto
  <2>5. UNCHANGED <<sess, nreq, wfd, reqFile, acceptq, spc, cur, reqfd, reqq, wpc, wmsg, served>>
    BY <1>4 DEF fileVars, pipeVars, serverVars, workerVars
  <2> QED
    BY <2>1, <2>3, <2>4, <2>5, ClientStays DEF Using, NotSent, Opening, Early
<1> QED
  BY <1>2, <1>3, <1>4 DEF WritePipe, Calm

LEMMA DeliveryClient ==
  ASSUME Inv, Connecting, Connecting', Delivery, Calm, NEW c \in Clients,
         ClientCall(c) \/ ClientStep(c) \/ Kill(c)
  PROVE  Delivery'
<1> USE DEF Inv, TypeOK, ClientType, Goto
<1>1. CASE BeginWrite(c) \/ BeginRead(c) \/ BeginFree(c) \/ Read(c) \/ ReadTimeout(c)
  <2>1. cpc[c] \in {"idle", "failed", "reading"} /\ cpc'[c] \in Using
    BY <1>1 DEF BeginWrite, BeginRead, BeginFree, Read, ReadTimeout, Using
  <2>2. wfd[c] = reqFile[c] /\ reqFile[c] # 0
    BY <2>1 DEF Delivery, Named, Using
  <2>3. \A d \in Clients : d # c => cpc'[d] = cpc[d]
    BY <1>1 DEF BeginWrite, BeginRead, BeginFree, Read, ReadTimeout
  <2>4. UNCHANGED <<sess, nreq, wfd, reqFile, acceptq, spc, cur, reqfd, reqq, wpc, wmsg, served>>
    BY <1>1 DEF BeginWrite, BeginRead, BeginFree, Read, ReadTimeout, fileVars, pipeVars,
       serverVars, workerVars
  <2> QED
    BY <2>1, <2>2, <2>3, <2>4, ClientStays DEF Using, NotSent, Opening, Early
<1>2. CASE MkReplyPipe(c) \/ OpenReplyEnd(c) \/ OpenAccept(c) \/ OpenRequestEnd(c)
  <2>1. \/ cpc[c] \in NotSent /\ cpc'[c] \in NotSent
        \/ cpc[c] \in Opening /\ cpc'[c] \in Opening
    BY <1>2 DEF MkReplyPipe, OpenReplyEnd, OpenAccept, OpenRequestEnd, NotSent, Opening
  <2>2. \A d \in Clients : d # c => cpc'[d] = cpc[d]
    BY <1>2 DEF MkReplyPipe, OpenReplyEnd, OpenAccept, OpenRequestEnd
  <2>3. /\ UNCHANGED <<sess, nreq, wfd, reqFile, acceptq, cur, reqfd, reqq, wpc, wmsg, served>>
        /\ spc' = "openreq" <=> spc = "openreq"
    BY <1>2 DEF MkReplyPipe, OpenReplyEnd, OpenAccept, OpenRequestEnd, fileVars, pipeVars,
       serverVars, workerVars
  <2> QED
    BY <2>1, <2>2, <2>3, ClientStays DEF Using, NotSent, Opening, Early
<1>3. ASSUME cpc[c] \in NotSent, cpc'[c] \in {"out", "unlink", "dead"},
             \A d \in Clients : d # c => cpc'[d] = cpc[d] /\ wfd'[d] = wfd[d],
             UNCHANGED <<sess, nreq, fileVars, pipeVars, serverVars, workerVars>>,
             cpc'[c] = "out" => cpc[c] = "mkrep"
      PROVE  Delivery'
  <2>1. Current(c) \in Session /\ Unsent(Current(c))
    BY <1>3, Ranges DEF NotSent, Current, Unsent, ClientShape
  <2>2. reqfd[Current(c)] = NoSession
    BY <2>1 DEF Delivery, Readers
  <2>3. UNCHANGED <<sess, nreq, reqFile, acceptq, spc, cur, reqfd, reqq, wpc, wmsg, served>>
    BY <1>3 DEF fileVars, pipeVars, serverVars, workerVars
  <2> QED
    BY <1>3, <2>2, <2>3, ClientStays DEF Using, NotSent, Opening, Early
<1>4. CASE NewFails(c)
  <2>1. /\ cpc[c] \in NotSent /\ cpc'[c] \in {"out", "unlink"}
        /\ cpc'[c] = "out" => cpc[c] = "mkrep"
        /\ \A d \in Clients : d # c => cpc'[d] = cpc[d]
    BY <1>4 DEF NewFails, NotSent, Calm
  <2> QED
    BY <1>3, <1>4, <2>1 DEF NewFails
<1>5. CASE SendConnect(c)
  <2>1. CASE acceptq' = Append(acceptq, Current(c)) /\ Goto(c, "opening")
             /\ UNCHANGED <<sess, nreq, rfd, wfd, fileVars, reqq, repq, serverVars, workerVars, got>>
    <3>1. UNCHANGED <<sess, nreq, wfd, reqFile, reqq, spc, cur, reqfd, wpc, wmsg, served>>
      BY <2>1 DEF fileVars, serverVars, workerVars
    <3> QED
      BY <1>5, <2>1, <3>1, DeliveryConnect DEF SendConnect
  <2>2. CASE Die(c)
    BY <1>3, <1>5, <2>2 DEF SendConnect, Die, NotSent
  <2>3. CASE Goto(c, "unlink")
             /\ UNCHANGED <<sess, nreq, wfd, fileVars, pipeVars, serverVars, workerVars, got>>
    BY <1>3, <1>5, <2>3 DEF SendConnect, NotSent
  <2> QED
    BY <1>5, <2>1, <2>2, <2>3 DEF SendConnect
<1>6. CASE Connected(c)
  <2>1. cpc[c] = "opened" /\ cpc'[c] = "idle" /\ wfd'[c] = reqFile[c] /\ reqFile[c] # 0
    BY <1>6 DEF Connected, ClientShape
  <2>2. \A d \in Clients : d # c => cpc'[d] = cpc[d] /\ wfd'[d] = wfd[d]
    BY <1>6 DEF Connected
  <2>3. UNCHANGED <<sess, nreq, reqFile, acceptq, spc, cur, reqfd, reqq, wpc, wmsg, served>>
    BY <1>6 DEF Connected, fileVars, pipeVars, serverVars, workerVars
  <2> QED
    BY <2>1, <2>2, <2>3, ClientStays DEF Using, NotSent, Opening, Early
<1>7. CASE Write(c)
  <2>1. cpc[c] \in Using /\ nreq[c] + 1 \in ReqNumber /\ nreq[c] + 1 # 0
    BY <1>7, Ranges, ConstantsAssumption DEF Write, Using, ClientShape, ReqNumber
  <2> QED
    BY <1>7, <2>1, DeliveryWritePipe DEF Write
<1>8. CASE SendEof(c)
  <2>1. cpc[c] \in Using
    BY <1>8 DEF SendEof, Using
  <2> QED
    BY <1>8, <2>1, Ranges, DeliveryWritePipe DEF SendEof
<1>9. CASE UnlinkReply(c)
  <2>1. cpc[c] = "unlinkrep" /\ cpc'[c] = "out" /\ \A d \in Clients : d # c => cpc'[d] = cpc[d]
    BY <1>9 DEF UnlinkReply
  <2>2. UNCHANGED <<sess, nreq, wfd, reqFile, acceptq, spc, cur, reqfd, reqq, wpc, wmsg, served>>
    BY <1>9 DEF UnlinkReply, pipeVars, serverVars, workerVars
  <2> QED
    BY <2>1, <2>2, ClientStays, SMTT(30) DEF Using, NotSent, Opening, Early
<1>10. CASE Kill(c)
  <2>1. cpc'[c] = "dead" /\ \A d \in Clients : d # c => cpc'[d] = cpc[d] /\ wfd'[d] = wfd[d]
    BY <1>10 DEF Kill, Die
  <2>2. UNCHANGED <<sess, nreq, reqFile, acceptq, spc, cur, reqfd, reqq, wpc, wmsg, served>>
    BY <1>10 DEF Kill, Die, fileVars, pipeVars, serverVars, workerVars
  <2> QED
    BY <2>1, <2>2, ClientStays DEF Using, NotSent, Opening, Early
<1> QED
  BY <1>1, <1>2, <1>4, <1>5, <1>6, <1>7, <1>8, <1>9, <1>10, DeliveryBegin, DeliveryUnlink
  DEF ClientCall, ClientStep

-----------------------------------------------------------------------------
(* Steps of the server *)

\* The server moves on: it opens no request pipe and takes no message.
LEMMA ServerStays ==
  ASSUME Inv, Connecting, Delivery, PendingCurrent',
         UNCHANGED <<sess, nreq, wfd, reqFile, cpc, reqq, served, wmsg>>,
         \A d \in Clients : Pending(d)' => Pending(d),
         \A s \in Session : reqfd'[s] # NoSession => reqfd'[s] = reqfd[s] /\ Taken(s)' = Taken(s),
         \A s \in Session : wpc'[s] \in {"none", "callback"} => wpc'[s] = wpc[s]
  PROVE  Delivery'
<1>1. Named'
  BY DEF Delivery, Named
<1>2. Readers'
  BY DEF Delivery, Readers, Unsent, Current
<1>3. Unwritten'
  BY DEF Delivery, Unwritten
<1>4. Handed'
  BY DEF Delivery, Handed
<1>5. Flowing'
  BY DEF Delivery, Flowing, Current, Left
<1> QED
  BY <1>1, <1>2, <1>3, <1>4, <1>5 DEF Delivery

\* The server opens the pipe of a session: it is still empty, and stays its own.
LEMMA DeliveryOpen ==
  ASSUME Inv, Connecting, Delivery, OpenRequest, spc' = "openrep"
  PROVE  Delivery'
<1> DEFINE c == cur[1]
           p == <<c, reqFile[c]>>
<1> USE DEF Inv, TypeOK, ClientType, FileType, ServerType
<1>1. /\ cur \in Session /\ c \in Clients /\ reqFile[c] # 0 /\ spc = "openreq"
      /\ \A s \in Session : reqfd'[s] = IF s = cur THEN p ELSE reqfd[s]
      /\ UNCHANGED <<sess, nreq, wfd, reqFile, acceptq, reqq, wpc, wmsg, served>>
      /\ \A d \in Clients :
           cpc'[d] = cpc[d] \/ (d = c /\ cpc[d] = "openreq" /\ cpc'[d] = "opened")
    BY Ranges DEF OpenRequest, NextConnect, ServerShape, fileVars, pipeVars, workerVars
<1>2. cur = Current(c) /\ Pending(c) /\ cpc[c] \in Waiting /\ Unread(c)
  BY <1>1 DEF Delivery, PendingCurrent, Pending, Connecting
<1>3. reqq[p] = <<>>
  BY <1>1, <1>2 DEF Delivery, Unwritten
<1>4. wpc[cur] = "none" /\ served[cur] = <<>> /\ ~Unsent(cur)
  BY <1>1, Ranges DEF ConnectOnce, Delivery, Handed
<1>5. Taken(cur) = 0
  BY <1>4 DEF Taken
<1>6. \A s \in Session : s[1] \in Clients
  BY Ranges
<1>7. /\ \A s \in Session : Unsent(s)' <=> Unsent(s)
      /\ \A s \in Session : Left(s)' <=> Left(s)
      /\ \A d \in Clients : Pending(d)' => Pending(d)
      /\ \A d \in Clients : cpc'[d] \in Early \cup Opening <=> cpc[d] \in Early \cup Opening
      /\ \A d \in Clients : cpc'[d] \in Opening \cup Using <=> cpc[d] \in Opening \cup Using
  BY <1>1, <1>6 DEF Unsent, Left, Pending, Early, Opening, Using
<1>8. \A s \in Session : Taken(s)' = Taken(s)
  BY <1>1 DEF Taken
<1>9. Named'
  BY <1>1 DEF Delivery, Named, Using, NotSent, Opening
<1>10. PendingCurrent'
  BY <1>1 DEF Delivery, PendingCurrent, Current
<1>11. Readers'
  <2> SUFFICES ASSUME NEW s \in Session, reqfd'[s] # NoSession
               PROVE  /\ ~Unsent(s)
                      /\ reqfd'[s] = <<s[1], reqFile[s[1]]>> => s = Current(s[1])
                      /\ s = Current(s[1]) /\ cpc[s[1]] \in Opening \cup Using =>
                           reqfd'[s] = <<s[1], reqFile[s[1]]>>
    BY <1>1, <1>6, <1>7 DEF Readers, Current
  <2>1. CASE s = cur
    BY <1>1, <1>2, <1>4, <2>1
  <2>2. CASE s # cur
    BY <1>1, <2>2 DEF Delivery, Readers
  <2> QED
    BY <2>1, <2>2
<1>12. Unwritten'
  BY <1>1, <1>7 DEF Delivery, Unwritten
<1>13. Handed'
  BY <1>1 DEF Delivery, Handed
<1>14. Flowing'
  <2>1. ASSUME NEW s \in Session, reqfd'[s] # NoSession
        PROVE  /\ Follows(s, Taken(s), reqq[reqfd'[s]])
               /\ s = Current(s[1]) /\ cpc[s[1]] \in Opening \cup Using =>
                    NoEof(reqq[reqfd'[s]]) /\ Taken(s) + Len(reqq[reqfd'[s]]) = nreq[s[1]]
               /\ Left(s) => EndsWith(reqq[reqfd'[s]], Eof(s))
    <3>1. CASE s = cur
      <4>1. reqq[reqfd'[s]] = <<>> /\ Taken(s) = 0
        BY <1>1, <1>3, <1>5, <3>1
      <4>2. Follows(s, 0, <<>>) /\ NoEof(<<>>) /\ Len(<<>>) = 0
        BY DEF Follows, NoEof
      <4>3. ~Left(s)
        BY <1>1, <1>2, <3>1, Ranges, ConstantsAssumption DEF Left, Waiting, Current, Generation
      <4>4. cpc[c] \in Opening \cup Using => nreq[c] = 0
        BY <1>1, <1>2 DEF Waiting, Opening, Using, Delivery, Named
      <4> QED
        BY <3>1, <4>1, <4>2, <4>3, <4>4
    <3>2. CASE s # cur
      BY <1>1, <2>1, <3>2 DEF Delivery, Flowing
    <3> QED
      BY <3>1, <3>2
  <2> QED
    BY <1>1, <1>6, <1>7, <1>8, <2>1 DEF Flowing, Current
<1> QED
  BY <1>9, <1>10, <1>11, <1>12, <1>13, <1>14 DEF Delivery

\* A worker takes what its pipe has next.
LEMMA DeliveryTake ==
  ASSUME Inv, Connecting, SoleReader, Delivery, NEW s \in Session, WorkerRead(s)
  PROVE  Delivery'
<1> USE DEF Inv, TypeOK, PipeType, ServerType, WorkerType
<1>1. PICK p \in Session, q \in Seq(Message) :
        /\ p = reqfd[s] /\ p # NoSession /\ q = reqq[p] /\ q # <<>> /\ wpc[s] = "select"
        /\ wmsg' = [wmsg EXCEPT ![s] = Head(q)] /\ reqq' = [reqq EXCEPT ![p] = Tail(q)]
        /\ \/ Head(q).n = 0 /\ WorkerExit(s)
           \/ Head(q).n # 0 /\ wpc' = [wpc EXCEPT ![s] = "callback"] /\ UNCHANGED reqfd
  <2>1. reqfd[s] \in Session /\ reqfd[s] # NoSession
    BY Ranges DEF WorkerRead, ServerShape, Running
  <2>2. reqq[reqfd[s]] \in Seq(Message)
    BY <2>1
  <2> QED
    BY <2>1, <2>2 DEF WorkerRead, IsEof
<1>2. UNCHANGED <<cpc, sess, nreq, wfd, reqFile, acceptq, spc, cur, served>>
  BY DEF WorkerRead, clientVars, fileVars
<1>3. /\ \A t \in Session : t # s => reqfd'[t] = reqfd[t] /\ wpc'[t] = wpc[t] /\ wmsg'[t] = wmsg[t]
      /\ reqfd'[s] \in {NoSession, p} /\ wmsg'[s] = Head(q)
      /\ wpc'[s] = (IF Head(q).n = 0 THEN "done" ELSE "callback")
      /\ Head(q).n = 0 => reqfd'[s] = NoSession
  BY <1>1 DEF WorkerExit
<1>4. /\ \A t \in Session : t # p => reqq'[t] = reqq[t]
      /\ reqq'[p] = Tail(q)
      /\ \A t \in Session : reqq[t] = <<>> => reqq'[t] = <<>>
  BY <1>1
<1>5. \A t \in Session : t # s /\ reqfd[t] # NoSession => reqfd[t] # p
  BY <1>1 DEF SoleReader
<1>6. Taken(s) = Len(served[s]) + 0 /\ Len(served[s]) \in Nat /\ Taken(s) \in Nat
  BY <1>1, TakenNat DEF Taken
<1>7. Follows(s, Taken(s), q)
  BY <1>1 DEF Delivery, Flowing
<1>8. Head(q).n # 0 =>
        /\ Head(q) = [from |-> s, n |-> Taken(s) + 1]
        /\ Follows(s, Taken(s) + 1, Tail(q))
        /\ NoEof(q) => NoEof(Tail(q))
        /\ EndsWith(q, Eof(s)) => EndsWith(Tail(q), Eof(s))
        /\ Len(Tail(q)) + 1 = Len(q) /\ Len(Tail(q)) \in Nat
  <2>1. Tail(q) \in Seq(Message)
    BY <1>1
  <2>2. Len(Tail(q)) \in Nat
    BY <2>1
  <2> QED
    BY ONLY <1>1, <1>6, <1>7, <2>2, FollowsTail, ZenonT(60)
<1>9. \A t \in Session : t # s => Taken(t)' = Taken(t)
  BY <1>2, <1>3 DEF Taken
<1>10. Head(q).n # 0 => Taken(s)' = Taken(s) + 1
  BY <1>2, <1>3, <1>6 DEF Taken
<1>11. Named'
  BY <1>2 DEF Delivery, Named
<1>12. PendingCurrent'
  BY <1>2 DEF Delivery, PendingCurrent, Current
<1>13. Readers'
  <2>1. \A t \in Session : reqfd'[t] # NoSession => reqfd'[t] = reqfd[t]
    BY <1>1, <1>3
  <2>2. \A t \in Session : Unsent(t)' <=> Unsent(t)
    BY <1>2 DEF Unsent
  <2> QED
    BY <1>2, <2>1, <2>2 DEF Delivery, Readers, Current
<1>14. Unwritten'
  <2>1. \A d \in Clients : Pending(d)' <=> Pending(d)
    BY <1>2 DEF Pending
  <2>2. \A d \in Clients : reqFile[d] # 0 => <<d, reqFile[d]>> \in Session
    BY Ranges DEF FileType
  <2> QED
    BY <1>2, <1>4, <2>1, <2>2 DEF Delivery, Unwritten
<1>15. Handed'
  <2>1. Head(q).n # 0 => wmsg'[s] = [from |-> s, n |-> Len(served[s]) + 1]
    BY <1>3, <1>6, <1>8
  <2>2. \A t \in Session : wpc'[t] = "none" => wpc[t] = "none"
    BY <1>3
  <2>3. \A t \in Session :
          wpc'[t] = "callback" => wmsg'[t] = [from |-> t, n |-> Len(served[t]) + 1]
    BY <1>3, <2>1 DEF Delivery, Handed
  <2> QED
    BY <1>2, <2>2, <2>3 DEF Delivery, Handed
<1>16. Flowing'
  <2>1. ASSUME NEW t \in Session, reqfd'[t] # NoSession
        PROVE  /\ Follows(t, Taken(t)', reqq'[reqfd'[t]])
               /\ t = Current(t[1]) /\ cpc[t[1]] \in Opening \cup Using =>
                    /\ NoEof(reqq'[reqfd'[t]])
                    /\ Taken(t)' + Len(reqq'[reqfd'[t]]) = nreq[t[1]]
               /\ Left(t) => EndsWith(reqq'[reqfd'[t]], Eof(t))
    <3>1. CASE t = s
      <4>1. Head(q).n # 0 /\ reqfd'[t] = p /\ Taken(t)' = Taken(s) + 1 /\ reqq'[p] = Tail(q)
        BY <1>3, <1>4, <1>10, <2>1, <3>1
      <4>2. /\ s = Current(s[1]) /\ cpc[s[1]] \in Opening \cup Using =>
                 NoEof(q) /\ Taken(s) + Len(q) = nreq[s[1]]
            /\ Left(s) => EndsWith(q, Eof(s))
        BY <1>1 DEF Delivery, Flowing
      <4>3. (Taken(s) + 1) + Len(Tail(q)) = Taken(s) + Len(q)
        <5>1. Len(q) \in Nat
          OBVIOUS
        <5>2. Len(Tail(q)) + 1 = Len(q) /\ Len(Tail(q)) \in Nat /\ Taken(s) \in Nat
          BY <1>6, <1>8, <4>1
        <5>3. \A a, b, d \in Nat : b + 1 = d => (a + 1) + b = a + d
          OBVIOUS
        <5> QED
          BY ONLY <5>1, <5>2, <5>3
      <4> QED
        BY <1>8, <3>1, <4>1, <4>2, <4>3
    <3>2. CASE t # s
      <4>1. reqfd[t] # NoSession /\ reqfd'[t] = reqfd[t] /\ reqfd[t] \in Session
        BY <1>3, <2>1, <3>2
      <4>2. reqq'[reqfd[t]] = reqq[reqfd[t]] /\ Taken(t)' = Taken(t)
        BY <1>4, <1>5, <1>9, <3>2, <4>1
      <4> QED
        BY <4>1, <4>2 DEF Delivery, Flowing
    <3> QED
      BY <3>1, <3>2
  <2>2. \A t \in Session : Left(t)' <=> Left(t)
    BY <1>2 DEF Left
  <2> QED
    BY <1>2, <2>1, <2>2 DEF Flowing, Current
<1> QED
  BY <1>11, <1>12, <1>13, <1>14, <1>15, <1>16 DEF Delivery

\* The worker hands its callback what it took.
LEMMA DeliveryHand ==
  ASSUME Inv, Connecting, Delivery, NEW s \in Session, Callback(s)
  PROVE  Delivery'
<1> USE DEF Inv, TypeOK, WorkerType
<1>1. /\ wpc[s] = "callback" /\ wpc'[s] \in {"write", "select"}
      /\ \A t \in Session : t # s => wpc'[t] = wpc[t] /\ served'[t] = served[t]
      /\ UNCHANGED <<cpc, sess, nreq, wfd, reqFile, acceptq, reqq, spc, cur, reqfd, wmsg>>
  BY DEF Callback, clientVars, fileVars, pipeVars, serverVars
<1>2. PICK h \in Seq(Message) : h = served[s]
  OBVIOUS
<1>3. /\ served'[s] = Append(h, [from |-> s, n |-> Len(h) + 1])
      /\ [from |-> s, n |-> Len(h) + 1] \in Message
  <2>1. served'[s] = Append(h, wmsg[s]) /\ wmsg[s] \in Message
    BY <1>2 DEF Callback
  <2>2. wmsg[s] = [from |-> s, n |-> Len(h) + 1]
    BY <1>1, <1>2 DEF Delivery, Handed
  <2> QED
    BY <2>1, <2>2
<1>4. /\ Len(h) \in Nat /\ Len(served'[s]) = Len(h) + 1
      /\ \A i \in DOMAIN served'[s] :
           \/ i \in DOMAIN h /\ served'[s][i] = h[i]
           \/ i = Len(h) + 1 /\ served'[s][i] = [from |-> s, n |-> Len(h) + 1]
  BY ONLY <1>2, <1>3
<1>5. \A t \in Session : Taken(t)' = Taken(t)
  <2>1. Taken(s) = Len(h) + 1
    BY <1>1, <1>2 DEF Taken
  <2>2. Taken(s)' = (Len(h) + 1) + 0
    BY <1>1, <1>4 DEF Taken
  <2>3. \A t \in Session : t # s => Taken(t)' = Taken(t)
    BY <1>1 DEF Taken
  <2> QED
    BY <1>4, <2>1, <2>2, <2>3
<1>6. Named'
  BY <1>1 DEF Delivery, Named
<1>7. PendingCurrent'
  BY <1>1 DEF Delivery, PendingCurrent, Current
<1>8. Readers'
  BY <1>1 DEF Delivery, Readers, Unsent, Current
<1>9. Unwritten'
  BY <1>1 DEF Delivery, Unwritten, Pending
<1>10. Handed'
  <2>1. \A i \in DOMAIN h : h[i] = [from |-> s, n |-> i]
    BY <1>2 DEF Delivery, Handed
  <2>2. \A i \in DOMAIN served'[s] : served'[s][i] = [from |-> s, n |-> i]
    BY <1>4, <2>1
  <2> QED
    BY <1>1, <2>2 DEF Delivery, Handed
<1>11. Flowing'
  BY <1>1, <1>5 DEF Delivery, Flowing, Current, Left
<1> QED
  BY <1>6, <1>7, <1>8, <1>9, <1>10, <1>11 DEF Delivery

LEMMA DeliveryServer ==
  ASSUME Inv, Connecting, SoleReader, Delivery,
         ServerNew \/ AcceptStep \/ LoopStops \/ (\E s \in Session : WorkerStep(s))
  PROVE  Delivery'
<1> USE DEF Inv, TypeOK, PipeType, ServerType, WorkerType
<1>1. CASE Accept
  <2>1. /\ 1 \in DOMAIN acceptq /\ cur' = acceptq[1] /\ spc' = "openreq"
        /\ \A i \in DOMAIN acceptq' : i + 1 \in DOMAIN acceptq /\ acceptq'[i] = acceptq[i + 1]
        /\ UNCHANGED <<cpc, sess, nreq, wfd, reqFile, reqq, reqfd, wpc, served, wmsg>>
    BY <1>1, AcceptQueue DEF Accept, clientVars, fileVars, workerVars
  <2>2. \A d \in Clients : Pending(d)' => Pending(d)
    BY <2>1 DEF Pending
  <2>3. PendingCurrent'
    <3>1. \A i \in DOMAIN acceptq : acceptq[i] = Current(acceptq[i][1])
      BY DEF Delivery, PendingCurrent
    <3> QED
      BY <2>1, <3>1 DEF PendingCurrent, Current
  <2>4. \A s \in Session : Taken(s)' = Taken(s)
    BY <2>1 DEF Taken
  <2> QED
    BY <2>1, <2>2, <2>3, <2>4, ServerStays
<1>2. ASSUME UNCHANGED <<cpc, sess, nreq, wfd, reqFile, acceptq, reqq, served, wmsg>>,
             spc' = "openreq" => spc = "openreq" /\ cur' = cur,
             \A s \in Session : reqfd'[s] # NoSession =>
               reqfd'[s] = reqfd[s] /\ (wpc[s] = "callback" => wpc'[s] = "callback"),
             \A s \in Session : wpc'[s] \in {"none", "callback"} => wpc'[s] = wpc[s]
      PROVE  Delivery'
  <2>1. PendingCurrent'
    BY <1>2 DEF Delivery, PendingCurrent, Current
  <2>2. \A d \in Clients : Pending(d)' => Pending(d)
    BY <1>2 DEF Pending
  <2>3. ASSUME NEW s \in Session, reqfd'[s] # NoSession
        PROVE  Taken(s)' = Taken(s)
    BY <1>2, <2>3 DEF Taken
  <2> QED
    BY <1>2, <2>1, <2>2, <2>3, ServerStays
<1>3. CASE OpenRequest
  BY <1>2, <1>3, DeliveryOpen DEF OpenRequest, NextConnect, fileVars, pipeVars, workerVars
<1>4. CASE ServerNew \/ OpenReply \/ OpenReplyFails
  BY <1>2, <1>4 DEF ServerNew, OpenReply, OpenReplyFails, NextConnect, clientVars, fileVars,
     pipeVars, workerVars
<1>5. CASE Spawn
  <2>1. cur \in Session /\ wpc[cur] = "none"
    BY <1>5 DEF Spawn, ServerShape, ConnectOnce
  <2> QED
    BY <1>2, <1>5, <2>1 DEF Spawn, NextConnect, clientVars, fileVars, pipeVars
<1>6. ASSUME NEW how \in {"exited", "killed"}, ServerEnds(how)
      PROVE  Delivery'
  BY <1>2, <1>6 DEF ServerEnds, Running, clientVars, fileVars, pipeVars
<1>7. ASSUME NEW s \in Session, WorkerWrite(s)
      PROVE  Delivery'
  <2>1. CASE ServerEnds("killed")
    BY <1>6, <2>1
  <2>2. CASE ~ServerEnds("killed")
    BY <1>2, <1>7, <2>2 DEF WorkerWrite, clientVars, fileVars, serverVars
  <2> QED
    BY <2>1, <2>2
<1>8. ASSUME NEW s \in Session, WorkerFails(s)
      PROVE  Delivery'
  BY <1>2, <1>8 DEF WorkerFails, WorkerExit, clientVars, fileVars, pipeVars
<1> QED
  BY <1>1, <1>3, <1>4, <1>5, <1>6, <1>7, <1>8, DeliveryTake, DeliveryHand
  DEF AcceptStep, LoopStops, WorkerStep

-----------------------------------------------------------------------------
LEMMA DeliveryEver ==
  ASSUME Calm
  PROVE  Spec => []Delivery
<1>1. Inv /\ Inv' /\ Connecting /\ Connecting' /\ SoleReader /\ Delivery /\ [Next]_vars => Delivery'
  <2> SUFFICES ASSUME Inv, Inv', Connecting, Connecting', SoleReader, Delivery, [Next]_vars
               PROVE  Delivery'
    OBVIOUS
  <2>1. CASE Next
    BY <2>1, DeliveryClient, DeliveryServer DEF Next
  <2>2. CASE UNCHANGED vars
    <3>1. UNCHANGED <<sess, nreq, wfd, reqFile, cpc, reqq, served, wmsg, wpc, acceptq, spc, cur, reqfd>>
      BY <2>2 DEF vars, clientVars, fileVars, pipeVars, serverVars, workerVars
    <3>2. PendingCurrent'
      BY <3>1 DEF Delivery, PendingCurrent, Current
    <3>3. \A d \in Clients : Pending(d)' => Pending(d)
      BY <3>1 DEF Pending
    <3>4. \A s \in Session : Taken(s)' = Taken(s)
      BY <3>1 DEF Taken
    <3> QED
      BY <3>1, <3>2, <3>3, <3>4, ServerStays
  <2> QED
    BY <2>1, <2>2
<1>2. Spec => [](Connecting /\ SoleReader)
  BY ConnectingEver DEF Calm
<1> QED
  BY <1>1, <1>2, DeliveryInit, Invariance, PTL DEF Spec

\* Every worker hands its callback the requests of its own session, from the
\* first, in order, none lost and none twice: for any number of clients that
\* connect, leave and die as they like, and whatever the worker's system calls
\* and the callback do.
THEOREM RequestsServedInOrder ==
  ASSUME Calm
  PROVE  Spec => []ServedInOrder
<1>1. Delivery => ServedInOrder
  BY DEF Delivery, Handed, ServedInOrder
<1> QED
  BY <1>1, DeliveryEver, PTL

\* When a client left by fifo_client_free, the empty message that ends its
\* worker is in the pipe for as long as the server has that pipe open.
THEOREM OrphansHaveEof ==
  ASSUME Calm
  PROVE  Spec => []OrphanHasEof
<1>1. Inv /\ Delivery => OrphanHasEof
  <2> SUFFICES ASSUME Inv, Delivery, NEW s \in Session, Left(s), reqfd[s] # NoSession
               PROVE  \E i \in DOMAIN reqq[reqfd[s]] :
                        reqq[reqfd[s]][i] = [from |-> s, n |-> 0]
    BY DEF OrphanHasEof
  <2>1. EndsWith(reqq[reqfd[s]], Eof(s))
    BY DEF Delivery, Flowing
  <2>2. reqq[reqfd[s]] \in Seq(Message)
    BY DEF Inv, TypeOK, PipeType, ServerType
  <2>3. Len(reqq[reqfd[s]]) \in DOMAIN reqq[reqfd[s]]
    BY <2>1, <2>2 DEF EndsWith
  <2> QED
    BY <2>1, <2>3 DEF EndsWith, Eof
<1> QED
  BY <1>1, DeliveryEver, Invariance, PTL

-----------------------------------------------------------------------------
(* The inductive invariant of the replies *)

\* Every client runs main() of examples/fifoclient.c, and waits for each reply as
\* long as it takes.
Waits == {"sample_loop", "wait_forever"} \subseteq Env

\* A client names its reply pipe after its own session.
ReplyNamed ==
  \A c \in Clients :
    /\ repFile[c] \in {0, sess[c]} /\ rfd[c] \in {0, sess[c]}
    /\ cpc[c] \in {"out", "mkrep"} => repFile[c] = 0
    /\ cpc[c] \in {"out", "mkrep", "openrep", "eof", "unlink", "unlinkrep", "dead"} => rfd[c] = 0

Staying == Opening \cup {"idle", "writing", "reading"}
Serving == spc \in {"openrep", "blocked", "spawn"}

\* A worker replies to the session that it reads from, whose client stays until it
\* has the first reply.
ReplyOwn ==
  /\ \A s \in Session : repfd[s] # NoSession => repfd[s] = s
  /\ Serving =>
       /\ cur = Current(cur[1])
       /\ cpc[cur[1]] \in Staying \cup {"dead"}

Replies(s) == Len(got[s]) + Len(repq[s])

\* The replies of a session, read and waiting, answer its requests in their order.
Answered ==
  \A s \in Session :
    /\ \A i \in DOMAIN got[s] : got[s][i] = [from |-> s, n |-> i]
    /\ \A i \in DOMAIN repq[s] : repq[s][i] = [from |-> s, n |-> Len(got[s]) + i]
    /\ wpc[s] = "none" => got[s] = <<>> /\ repq[s] = <<>>
    /\ wpc[s] = "write" => wmsg[s] = [from |-> s, n |-> Len(served[s])]

\* A client and its worker take turns.
TakesTurns(c, s) ==
  /\ cpc[c] \in Staying =>
       /\ Replies(s) <= Len(served[s])
       /\ wpc[s] = "write" => cpc[c] = "reading" /\ Replies(s) + 1 = Len(served[s])
  /\ cpc[c] \in Opening \cup {"idle", "writing"} => Len(got[s]) = nreq[c] /\ repq[s] = <<>>
  /\ cpc[c] = "reading" => Len(got[s]) + 1 = nreq[c] /\ Len(repq[s]) <= 1
  /\ cpc[c] = "failed" => reqfd[s] = NoSession

Turns == \A c \in Clients : sess[c] # 0 => TakesTurns(c, Current(c))

Answering == ReplyNamed /\ ReplyOwn /\ Answered /\ Turns

\* The session s is over: its client wrote its end, or could not.
Over(s) ==
  s[2] < sess[s[1]] \/ cpc[s[1]] \in {"unlink", "unlinkrep", "out"}

\* A worker with a request has a client that waits for the reply.
Alive ==
  /\ spc # "killed"
  /\ \A c \in Clients : cpc[c] = "dead" => ~Pending(c)
  /\ \A s \in Session : reqfd[s] # NoSession =>
       /\ s = Current(s[1]) => cpc[s[1]] \notin {"dead", "failed"}
       /\ s = Current(s[1]) /\ cpc[s[1]] = "eof" => reqq[reqfd[s]] = <<>>
       /\ Over(s) => reqq[reqfd[s]] = <<Eof(s)>>
  /\ \A s \in Session : wpc[s] \in {"callback", "write"} =>
       s = Current(s[1]) /\ cpc[s[1]] = "reading"

-----------------------------------------------------------------------------
LEMMA AnsweringInit == Init => Answering
<1> SUFFICES ASSUME Init PROVE Answering
  OBVIOUS
<1> USE DEF Init
<1>1. ReplyNamed
  BY DEF ReplyNamed
<1>2. ReplyOwn
  BY DEF ReplyOwn, Serving
<1>3. Answered
  BY DEF Answered
<1>4. Turns
  BY DEF Turns
<1> QED
  BY <1>1, <1>2, <1>3, <1>4 DEF Answering

LEMMA Lengths ==
  ASSUME Inv, NEW s \in Session
  PROVE  /\ got[s] \in Seq(Message) /\ repq[s] \in Seq(Message) /\ served[s] \in Seq(Message)
         /\ Len(got[s]) \in Nat /\ Len(repq[s]) \in Nat /\ Len(served[s]) \in Nat
         /\ Replies(s) \in Nat /\ Replies(s) = Len(got[s]) + Len(repq[s])
         /\ repq[s] = <<>> <=> Len(repq[s]) = 0
<1>1. got[s] \in Seq(Message) /\ repq[s] \in Seq(Message) /\ served[s] \in Seq(Message)
  BY DEF Inv, TypeOK, PipeType, WorkerType
<1>2. Len(got[s]) \in Nat /\ Len(repq[s]) \in Nat /\ Len(served[s]) \in Nat
  BY <1>1
<1>3. repq[s] = <<>> <=> Len(repq[s]) = 0
  BY <1>1
<1>4. \A a, b \in Nat : a + b \in Nat
  OBVIOUS
<1> QED
  BY <1>1, <1>2, <1>3, <1>4 DEF Replies

\* While its client stays, a worker took no more than the client wrote.
LEMMA Counted ==
  ASSUME Inv, Delivery, NEW c \in Clients, NEW s \in Session, s = Current(c),
         cpc[c] \in Staying, reqfd[s] # NoSession
  PROVE  /\ nreq[c] \in Nat /\ Taken(s) \in Nat /\ Taken(s) <= nreq[c]
         /\ Taken(s) = Len(served[s]) + (IF wpc[s] = "callback" THEN 1 ELSE 0)
         /\ reqfd[s] \in Session /\ Len(reqq[reqfd[s]]) \in Nat
         /\ Taken(s) + Len(reqq[reqfd[s]]) = nreq[c]
<1>1. reqfd[s] \in Session
  BY DEF Inv, TypeOK, ServerType
<1>2. s[1] = c /\ cpc[c] \in Opening \cup Using
  BY DEF Current, Staying, Using
<1>3. Taken(s) + Len(reqq[reqfd[s]]) = nreq[c]
  BY <1>1, <1>2 DEF Delivery, Flowing
<1>4. reqq[reqfd[s]] \in Seq(Message)
  BY <1>1 DEF Inv, TypeOK, PipeType
<1>5. Len(reqq[reqfd[s]]) \in Nat
  BY <1>4
<1>6. nreq[c] \in Nat
  BY ConstantsAssumption DEF Inv, TypeOK, ClientType, ReqNumber
<1>7. Taken(s) \in Nat
  BY TakenNat
<1>8. Taken(s) <= nreq[c]
  BY <1>3, <1>5, <1>6, <1>7
<1> QED
  BY <1>1, <1>3, <1>5, <1>6, <1>7, <1>8 DEF Taken

-----------------------------------------------------------------------------
(* Names of the reply pipes *)

LEMMA ReplyNamedClient ==
  ASSUME Inv, ReplyNamed, Calm, NEW c \in Clients, ClientCall(c) \/ ClientStep(c) \/ Kill(c)
  PROVE  ReplyNamed'
<1> USE DEF Inv, TypeOK, ClientType, FileType, ReplyNamed, Goto
<1>1. CASE MkRequestPipe(c)
  <2>1. cpc[c] = "out"
    BY <1>1 DEF MkRequestPipe, Outside, Calm
  <2> QED
    BY <1>1, <2>1 DEF MkRequestPipe
<1>2. CASE MkReplyPipe(c)
  BY <1>2, Ranges DEF MkReplyPipe, fileVars, ClientShape
<1>3. CASE OpenReplyEnd(c)
  BY <1>3 DEF OpenReplyEnd, fileVars, ClientShape
<1>4. CASE OpenAccept(c) \/ OpenRequestEnd(c) \/ Connected(c) \/ BeginWrite(c) \/ BeginRead(c)
  BY <1>4 DEF OpenAccept, OpenRequestEnd, Connected, BeginWrite, BeginRead, fileVars
<1>5. CASE NewFails(c)
  BY <1>5 DEF NewFails, Calm, fileVars
<1>6. CASE SendConnect(c)
  BY <1>6 DEF SendConnect, Die, fileVars
<1>7. CASE BeginFree(c) \/ Read(c) \/ ReadTimeout(c)
  BY <1>7 DEF BeginFree, Read, ReadTimeout, fileVars
<1>8. CASE Write(c)
  BY <1>8 DEF Write, WritePipe, Die, fileVars
<1>9. CASE SendEof(c)
  BY <1>9 DEF SendEof, WritePipe, Die, fileVars
<1>10. CASE UnlinkRequest(c) \/ UnlinkReply(c)
  BY <1>10, Ranges DEF UnlinkRequest, UnlinkReply, fileVars
<1>11. CASE Kill(c)
  BY <1>11 DEF Kill, Die, fileVars
<1> QED
  BY <1>1, <1>2, <1>3, <1>4, <1>5, <1>6, <1>7, <1>8, <1>9, <1>10, <1>11 DEF ClientCall, ClientStep

LEMMA ReplyNamedServer ==
  ASSUME Inv, ReplyNamed,
         ServerNew \/ AcceptStep \/ LoopStops \/ (\E s \in Session : WorkerStep(s))
  PROVE  ReplyNamed'
<1>1. UNCHANGED <<sess, rfd, repFile>>
  BY ServerFrame DEF fileVars
<1>2. CASE cpc' = cpc
  BY <1>1, <1>2 DEF ReplyNamed
<1>3. CASE OpenRequest
  BY <1>1, <1>3 DEF OpenRequest, ReplyNamed, Inv, TypeOK, ClientType
<1> QED
  BY <1>2, <1>3 DEF ServerNew, AcceptStep, LoopStops, WorkerStep, Accept, OpenReply,
     OpenReplyFails, Spawn, WorkerRead, Callback, WorkerWrite, WorkerFails, ServerEnds, clientVars

-----------------------------------------------------------------------------
(* Steps of a client that waits for its replies *)

\* A client moves on without reading.
LEMMA ClientKeepsTurn ==
  ASSUME Inv, Answering, ReplyNamed', NEW c \in Clients,
         UNCHANGED <<sess, got, repq, wpc, wmsg, served, reqfd, repfd, cur>>,
         Serving' <=> Serving,
         \A d \in Clients : d # c => cpc'[d] = cpc[d] /\ nreq'[d] = nreq[d],
         Serving /\ cur[1] = c => cpc'[c] \in Staying \cup {"dead"},
         TakesTurns(c, Current(c))'
  PROVE  Answering'
<1>1. ReplyOwn'
  <2>1. Serving => cur[1] \in Clients
    BY Ranges DEF Serving, Inv, ServerShape, TypeOK, ServerType
  <2> QED
    BY <2>1 DEF Answering, ReplyOwn, Current
<1>2. Answered'
  BY DEF Answering, Answered
<1>3. Turns'
  <2>1. ASSUME NEW d \in Clients, d # c, sess[d] # 0
        PROVE  TakesTurns(d, Current(d))'
    BY <2>1 DEF Answering, Turns, TakesTurns, Current, Replies
  <2> QED
    BY <2>1 DEF Turns
<1> QED
  BY <1>1, <1>2, <1>3 DEF Answering

\* fifo_client_new begins.
LEMMA AnsweringBegin ==
  ASSUME Inv, Answering, ReplyNamed', Calm, NEW c \in Clients, MkRequestPipe(c)
  PROVE  Answering'
<1>1. /\ cpc[c] = "out" /\ cpc'[c] = "mkrep"
      /\ \A d \in Clients : d # c =>
           cpc'[d] = cpc[d] /\ sess'[d] = sess[d] /\ nreq'[d] = nreq[d]
      /\ UNCHANGED <<got, repq, wpc, wmsg, served, reqfd, repfd, cur, spc>>
  BY DEF MkRequestPipe, Outside, Calm, Goto, Inv, TypeOK, ClientType, pipeVars, serverVars, workerVars
<1>2. ReplyOwn'
  <2>1. Serving => cur[1] \in Clients /\ cur[1] # c
    BY <1>1, Ranges DEF Serving, Inv, ServerShape, TypeOK, ServerType, Answering, ReplyOwn,
       Staying, Opening
  <2> QED
    BY <1>1, <2>1 DEF Answering, ReplyOwn, Current, Serving
<1>3. Answered'
  BY <1>1 DEF Answering, Answered
<1>4. Turns'
  <2>1. ASSUME NEW d \in Clients, d # c, sess[d] # 0
        PROVE  TakesTurns(d, Current(d))'
    BY <1>1, <2>1 DEF Answering, Turns, TakesTurns, Current, Replies
  <2>2. TakesTurns(c, Current(c))'
    BY <1>1 DEF TakesTurns, Staying, Opening
  <2> QED
    BY <1>1, <2>1, <2>2 DEF Turns
<1> QED
  BY <1>2, <1>3, <1>4 DEF Answering

\* A client reads the one reply it waits for.
LEMMA AnsweringRead ==
  ASSUME Inv, Delivery, Answering, ReplyNamed', NEW c \in Clients, Read(c)
  PROVE  Answering'
<1> USE DEF Inv, TypeOK, ClientType, PipeType
<1>1. Current(c) \in Session /\ <<c, rfd[c]>> = Current(c) /\ sess[c] # 0
  BY Ranges DEF Read, ClientShape, Answering, ReplyNamed, Current
<1>2. PICK s \in Session : s = Current(c) /\ s = <<c, rfd[c]>> /\ s[1] = c
  BY <1>1 DEF Current
<1>3. PICK g \in Seq(Message), r \in Seq(Message) : g = got[s] /\ r = repq[s] /\ r # <<>>
  BY <1>2 DEF Read
<1>4. /\ cpc[c] = "reading" /\ cpc'[c] = "idle"
      /\ \A d \in Clients : d # c => cpc'[d] = cpc[d]
      /\ got'[s] = g \o r /\ repq'[s] = <<>>
      /\ \A t \in Session : t # s => got'[t] = got[t] /\ repq'[t] = repq[t]
      /\ UNCHANGED <<sess, nreq, wpc, wmsg, served, reqfd, repfd, cur, spc>>
  BY <1>2, <1>3 DEF Read, Goto, serverVars, workerVars
<1>5. TakesTurns(c, s)
  BY <1>1, <1>2 DEF Answering, Turns
<1>6. /\ Len(g) \in Nat /\ Len(r) \in Nat /\ Len(served[s]) \in Nat /\ nreq[c] \in Nat
      /\ Len(r) # 0 /\ Len(r) <= 1 /\ Len(g) + 1 = nreq[c] /\ Len(g) + Len(r) <= Len(served[s])
  <2>1. nreq[c] \in Nat
    BY ConstantsAssumption DEF ReqNumber
  <2> QED
    BY <1>3, <1>4, <1>5, <2>1, Lengths DEF TakesTurns, Staying
<1>7. Len(r) = 1 /\ Len(g) + Len(r) = nreq[c]
  <2>1. \A a, b, d \in Nat : b # 0 /\ b <= 1 /\ a + 1 = d => b = 1 /\ a + b = d
    OBVIOUS
  <2> QED
    BY <1>6, <2>1
<1>8. Len(g \o r) = nreq[c] /\ Len(g \o r) = Len(g) + Len(r)
  <2>1. Len(g \o r) = Len(g) + Len(r)
    OBVIOUS
  <2> QED
    BY <1>7, <2>1
<1>9. \A i \in DOMAIN (g \o r) : (g \o r)[i] = [from |-> s, n |-> i]
  <2>1. /\ \A i \in DOMAIN g : g[i] = [from |-> s, n |-> i]
        /\ \A i \in DOMAIN r : r[i] = [from |-> s, n |-> Len(g) + i]
    BY <1>3 DEF Answering, Answered
  <2>2. \A i \in DOMAIN (g \o r) :
          \/ i \in DOMAIN g /\ (g \o r)[i] = g[i]
          \/ i = Len(g) + 1 /\ (g \o r)[i] = r[1]
    <3>1. \A i \in 1 .. Len(g) + 1 : i \in 1 .. Len(g) \/ i = Len(g) + 1
      BY <1>6
    <3>2. DOMAIN (g \o r) = 1 .. Len(g) + 1 /\ DOMAIN g = 1 .. Len(g)
      BY <1>7, <1>8
    <3>3. \A i \in 1 .. Len(g) : (g \o r)[i] = g[i]
      BY <1>6
    <3>4. (g \o r)[Len(g) + 1] = r[1]
      <4>1. \A i \in 1 .. Len(g) + Len(r) :
              (g \o r)[i] = IF i <= Len(g) THEN g[i] ELSE r[i - Len(g)]
        BY ConcatProperties
      <4>2. Len(g) + 1 \in 1 .. Len(g) + Len(r)
        BY <1>6, <1>7
      <4>3. \A a \in Nat : (a + 1) - a = 1 /\ ~(a + 1 <= a)
        OBVIOUS
      <4> QED
        BY ONLY <1>6, <4>1, <4>2, <4>3
    <3> QED
      BY <3>1, <3>2, <3>3, <3>4
  <2>3. 1 \in DOMAIN r
    BY ONLY <1>7, r \in Seq(Message)
  <2> QED
    BY ONLY <2>1, <2>2, <2>3
<1>10. wpc[s] # "write" /\ wpc[s] # "none"
  <2>1. wpc[s] # "none"
    BY <1>3 DEF Answering, Answered
  <2>2. ASSUME wpc[s] = "write" PROVE FALSE
    <3>1. Taken(s) <= nreq[c] /\ Taken(s) = Len(served[s]) + 0
      BY <1>2, <1>4, <2>2, Counted DEF Running, ServerShape, Staying
    <3>2. (Len(g) + Len(r)) + 1 = Len(served[s])
      BY <1>3, <1>4, <1>5, <2>2 DEF TakesTurns, Staying, Replies
    <3> QED
      BY ONLY <1>6, <1>7, <3>1, <3>2
  <2> QED
    BY <2>1, <2>2
<1>11. ReplyOwn'
  <2>1. Serving => cur \in Session /\ cur[1] \in Clients
    BY Ranges DEF Serving, ServerShape, ServerType
  <2> QED
    BY <1>4, <2>1 DEF Answering, ReplyOwn, Serving, Staying, Current
<1>12. Answered'
  <2>1. \A t \in Session : t # s =>
          /\ \A i \in DOMAIN got'[t] : got'[t][i] = [from |-> t, n |-> i]
          /\ \A i \in DOMAIN repq'[t] : repq'[t][i] = [from |-> t, n |-> Len(got'[t]) + i]
          /\ wpc'[t] = "none" => got'[t] = <<>> /\ repq'[t] = <<>>
          /\ wpc'[t] = "write" => wmsg'[t] = [from |-> t, n |-> Len(served'[t])]
    BY <1>4, SMTT(30) DEF Answering, Answered
  <2>2. /\ \A i \in DOMAIN got'[s] : got'[s][i] = [from |-> s, n |-> i]
        /\ \A i \in DOMAIN repq'[s] : repq'[s][i] = [from |-> s, n |-> Len(got'[s]) + i]
    BY <1>4, <1>9
  <2> QED
    BY <1>4, <1>10, <2>1, <2>2 DEF Answered
<1>13. Turns'
  <2>1. ASSUME NEW d \in Clients, d # c, sess[d] # 0
        PROVE  TakesTurns(d, Current(d))'
    <3>1. Current(d) \in Session /\ Current(d) # s /\ Current(d)' = Current(d)
      BY <1>2, <1>4, <2>1, Ranges DEF Current
    <3>2. got'[Current(d)] = got[Current(d)] /\ repq'[Current(d)] = repq[Current(d)]
      BY <1>4, <3>1
    <3> QED
      BY <1>4, <2>1, <3>1, <3>2 DEF Answering, Turns, TakesTurns, Replies
  <2>2. TakesTurns(c, s)'
    <3>1. Replies(s)' = nreq[c] /\ Len(got'[s]) = nreq[c]
      BY <1>4, <1>6, <1>8 DEF Replies
    <3>2. nreq[c] <= Len(served[s])
      BY ONLY <1>6, <1>7
    <3> QED
      BY <1>4, <1>10, <3>1, <3>2 DEF TakesTurns, Staying, Opening
  <2>3. Current(c)' = s
    BY <1>2, <1>4 DEF Current
  <2> QED
    BY <1>4, <2>1, <2>2, <2>3 DEF Turns
<1> QED
  BY <1>11, <1>12, <1>13 DEF Answering

\* A write to a pipe that the server does not have open.
LEMMA NobodyReads ==
  ASSUME Inv, Delivery, NEW c \in Clients, cpc[c] \in Using, ReqReaders(<<c, wfd[c]>>) = {}
  PROVE  Current(c) \in Session /\ reqfd[Current(c)] = NoSession
<1>1. wfd[c] = reqFile[c] /\ reqFile[c] # 0
  BY DEF Delivery, Named
<1>2. Current(c) \in Session /\ Current(c)[1] = c
  BY Ranges DEF Using, Current, Inv, TypeOK, ClientType, ClientShape
<1> QED
  BY <1>1, <1>2 DEF ReqReaders, Delivery, Readers

LEMMA AnsweringClient ==
  ASSUME Inv, Delivery, Answering, Calm, Waits, NEW c \in Clients,
         ClientCall(c) \/ ClientStep(c) \/ Kill(c)
  PROVE  Answering'
<1> USE DEF Inv, TypeOK, ClientType
<1>0. ReplyNamed'
  BY ReplyNamedClient DEF Answering
<1>1. CASE MkRequestPipe(c)
  BY <1>0, <1>1, AnsweringBegin
<1>2. CASE Read(c)
  BY <1>0, <1>2, AnsweringRead
<1>3. ~BeginRead(c) /\ ~ReadTimeout(c)
  BY DEF BeginRead, ReadTimeout, Waits, Calm
<1>4. CASE ~MkRequestPipe(c) /\ ~Read(c)
  <2>1. /\ UNCHANGED <<got, repq, wpc, wmsg, served, reqfd, repfd, cur>>
        /\ \A d \in Clients : d # c => nreq'[d] = nreq[d]
    BY <1>3, <1>4 DEF ClientCall, ClientStep, BeginWrite, BeginFree, MkReplyPipe, OpenReplyEnd,
       OpenAccept, NewFails, SendConnect, OpenRequestEnd, Connected, Write, SendEof,
       UnlinkRequest, UnlinkReply, Kill, WritePipe, Die, serverVars, workerVars, pipeVars
  <2>2. sess' = sess /\ \A d \in Clients : d # c => cpc'[d] = cpc[d]
    BY <1>4, ClientMove
  <2>3. Serving' <=> Serving
    <3>1. CASE OpenReplyEnd(c)
      BY <3>1 DEF OpenReplyEnd, Serving
    <3> QED
      BY <3>1, ClientFrame DEF serverVars, Serving
  <2>4. ASSUME TakesTurns(c, Current(c))',
               Serving /\ cur[1] = c => cpc'[c] \in Staying \cup {"dead"}
        PROVE  Answering'
    BY <1>0, <2>1, <2>2, <2>3, <2>4, ClientKeepsTurn
  <2>5. ASSUME cpc[c] \notin Staying \/ cpc'[c] = "dead",
               cpc'[c] \notin Staying \cup {"failed"}, cpc[c] # "dead"
        PROVE  Answering'
    BY <2>4, <2>5 DEF TakesTurns, Answering, ReplyOwn, Staying, Opening
  <2>6. CASE MkReplyPipe(c) \/ OpenReplyEnd(c) \/ OpenAccept(c)
    BY <2>5, <2>6 DEF MkReplyPipe, OpenReplyEnd, OpenAccept, Goto, Staying, Opening
  <2>7. CASE NewFails(c)
    BY <2>5, <2>7 DEF NewFails, Calm, Goto, Staying, Opening
  <2>8. CASE UnlinkRequest(c) \/ UnlinkReply(c)
    BY <2>5, <2>8 DEF UnlinkRequest, UnlinkReply, Goto, Staying, Opening
  <2>9. CASE Kill(c)
    BY <2>5, <2>9 DEF Kill, Die, Goto, Staying, Opening
  <2>10. CASE SendEof(c)
    BY <2>5, <2>10 DEF SendEof, WritePipe, Die, Goto, Staying, Opening
  <2>11. CASE SendConnect(c)
    <3>1. cpc[c] = "connect" /\ cpc'[c] \in {"opening", "unlink", "dead"}
      BY <2>11 DEF SendConnect, Die, Goto
    <3>2. CASE cpc'[c] # "opening"
      BY <2>5, <3>1, <3>2 DEF Staying, Opening
    <3>3. CASE cpc'[c] = "opening"
      <4>0. Current(c) \in Session
        BY <3>1, Ranges DEF Current, ClientShape
      <4>1. PICK s \in Session : s = Current(c) /\ s[1] = c /\ s[2] = sess[c]
        BY <4>0 DEF Current
      <4>2. wpc[s] = "none"
        BY <3>1, <4>1 DEF Unsent, ConnectOnce
      <4>3. got[s] = <<>> /\ repq[s] = <<>> /\ nreq[c] = 0
        BY <3>1, <4>2 DEF Answering, Answered, Delivery, Named, NotSent
      <4>4. nreq'[c] = nreq[c] /\ Current(c)' = s
        BY <2>2, <2>11, <4>1 DEF SendConnect, Die, Current
      <4>5. Replies(s) = 0 /\ Len(served[s]) \in Nat /\ Len(got[s]) = 0
        BY <4>3, Lengths DEF Replies
      <4>6. TakesTurns(c, s)'
        BY <2>1, <3>3, <4>2, <4>3, <4>4, <4>5 DEF TakesTurns, Replies, Staying, Opening
      <4>7. ~(Serving /\ cur[1] = c)
        BY <3>1 DEF Answering, ReplyOwn, Staying, Opening
      <4> QED
        BY <2>4, <4>4, <4>6, <4>7
    <3> QED
      BY <3>2, <3>3
  <2>12. CASE OpenRequestEnd(c) \/ Connected(c) \/ BeginWrite(c)
    <3>1. /\ nreq' = nreq
          /\ \/ cpc[c] \in Opening /\ cpc'[c] \in Opening \cup {"idle"}
             \/ cpc[c] = "idle" /\ cpc'[c] = "writing"
      <4>1. CASE OpenRequestEnd(c)
        BY <4>1 DEF OpenRequestEnd, Goto, Opening
      <4>2. CASE Connected(c)
        BY <4>2 DEF Connected, Goto, Opening
      <4>3. CASE BeginWrite(c)
        BY <4>3 DEF BeginWrite, Goto
      <4> QED
        BY <2>12, <4>1, <4>2, <4>3
    <3>2. TakesTurns(c, Current(c)) /\ Current(c)' = Current(c)
      BY <2>2, <3>1 DEF Answering, Turns, Opening, ClientShape, Current
    <3>3. TakesTurns(c, Current(c))'
      BY <2>1, <3>1, <3>2 DEF TakesTurns, Replies, Staying, Opening
    <3> QED
      BY <2>4, <3>1, <3>3 DEF Staying
  <2>13. CASE Write(c)
    <3>0. Current(c) \in Session /\ sess[c] # 0
      BY <2>13, Ranges DEF Write, Current, ClientShape
    <3>1. PICK s \in Session : s = Current(c) /\ s[1] = c /\ sess[c] # 0
      BY <3>0 DEF Current
    <3>2. TakesTurns(c, s) /\ Current(c)' = s /\ cpc[c] = "writing"
      BY <2>2, <2>13, <3>1 DEF Write, Answering, Turns, Current
    <3>3. CASE cpc'[c] = "reading" /\ nreq'[c] = nreq[c] + 1
      <4>1. Len(repq[s]) <= 1 /\ Len(got[s]) = nreq[c]
        BY <3>2, Lengths DEF TakesTurns
      <4>2. /\ Replies(s) <= Len(served[s]) /\ wpc[s] # "write"
        BY <3>2 DEF TakesTurns, Staying
      <4>3. Replies(s)' = Replies(s)
        BY <2>1 DEF Replies
      <4>4. TakesTurns(c, s)'
        BY <2>1, <3>3, <4>1, <4>2, <4>3 DEF TakesTurns, Staying, Opening
      <4> QED
        BY <2>4, <3>2, <3>3, <4>4 DEF Staying
    <3>4. CASE ReqReaders(<<c, wfd[c]>>) = {} /\ cpc'[c] \in {"failed", "dead"}
      <4>1. reqfd[s] = NoSession
        BY <3>1, <3>2, <3>4, NobodyReads DEF Using
      <4>2. ~(Serving /\ cur[1] = c)
        BY <3>1, <4>1 DEF Answering, ReplyOwn, Serving, ServerShape
      <4>3. TakesTurns(c, s)'
        BY <2>1, <3>4, <4>1 DEF TakesTurns, Staying, Opening
      <4> QED
        BY <2>4, <3>2, <4>2, <4>3
    <3>5. Request(c, nreq[c] + 1).n = nreq[c] + 1 /\ ~IsEof(Request(c, nreq[c] + 1))
      BY ConstantsAssumption DEF Request, IsEof, ReqNumber
    <3> QED
      BY <2>13, <3>3, <3>4, <3>5 DEF Write, WritePipe, Die, Goto, Waits, Calm
  <2>14. CASE BeginFree(c)
    <3>1. cpc'[c] = "eof" /\ cpc[c] \in {"idle", "failed"} /\ (cpc[c] = "idle" => nreq[c] = MaxReq)
      BY <2>14 DEF BeginFree, Goto, Waits
    <3>2. ASSUME Serving, cur[1] = c PROVE FALSE
      <4>1. cpc[c] = "idle" /\ cur = Current(c) /\ cur \in Session /\ wpc[cur] = "none"
        BY <3>1, <3>2 DEF Answering, ReplyOwn, Staying, Opening, Serving, ServerShape,
           ServerType, ConnectOnce
      <4>2. got[cur] = <<>> /\ Len(got[cur]) = nreq[c]
        BY <4>1 DEF Answering, Answered, Turns, TakesTurns, ClientShape
      <4> QED
        BY <3>1, <4>1, <4>2, ConstantsAssumption
    <3>3. TakesTurns(c, Current(c))'
      BY <3>1 DEF TakesTurns, Staying, Opening
    <3> QED
      BY <2>4, <3>2, <3>3
  <2> QED
    BY <1>3, <1>4, <2>6, <2>7, <2>8, <2>9, <2>10, <2>11, <2>12, <2>13, <2>14 DEF ClientCall, ClientStep
<1> QED
  BY <1>1, <1>2, <1>4

-----------------------------------------------------------------------------
(* Steps of a server that is waited for *)

\* The server moves on: it hands nothing over, and replies to nobody.
LEMMA ServerKeepsTurn ==
  ASSUME Inv, Answering, ReplyNamed', ReplyOwn',
         UNCHANGED <<got, repq, served, sess, nreq>>,
         \A d \in Clients : cpc'[d] = cpc[d] \/ (cpc[d] \in Opening /\ cpc'[d] \in Opening),
         \A s \in Session : cpc[s[1]] = "failed" => reqfd'[s] \in {NoSession, reqfd[s]},
         \A s \in Session : wpc'[s] = "none" => wpc[s] = "none",
         \A s \in Session : wpc'[s] = "write" => wpc[s] = "write" /\ wmsg'[s] = wmsg[s]
  PROVE  Answering'
<1>1. Answered'
  BY DEF Answering, Answered
<1>2. Turns'
  <2>1. ASSUME NEW d \in Clients, sess[d] # 0
        PROVE  TakesTurns(d, Current(d))'
    <3>0. Current(d) \in Session
      BY <2>1, Ranges DEF Current, Inv, TypeOK, ClientType
    <3>1. PICK s \in Session : s = Current(d) /\ s[1] = d
      BY <3>0 DEF Current
    <3>2. TakesTurns(d, s) /\ Current(d)' = s /\ Replies(s)' = Replies(s)
      BY <2>1, <3>1 DEF Answering, Turns, Current, Replies
    <3>3. /\ cpc'[d] = cpc[d] \/ (cpc[d] \in Opening /\ cpc'[d] \in Opening)
          /\ cpc[d] = "failed" => reqfd'[s] \in {NoSession, reqfd[s]}
          /\ wpc'[s] = "write" => wpc[s] = "write"
      BY <3>1
    <3>4. TakesTurns(d, s)'
      BY <3>2, <3>3 DEF TakesTurns, Staying, Opening
    <3> QED
      BY <3>2, <3>4
  <2> QED
    BY <2>1 DEF Turns
<1> QED
  BY <1>1, <1>2 DEF Answering

\* The callback of a worker returns: its client still waits for that reply.
LEMMA AnsweringHand ==
  ASSUME Inv, Delivery, Answering, ReplyNamed', NEW s \in Session, Callback(s)
  PROVE  Answering'
<1>1. /\ wpc[s] = "callback" /\ wpc'[s] \in {"write", "select"}
      /\ served'[s] = Append(served[s], wmsg[s])
      /\ \A t \in Session : t # s => wpc'[t] = wpc[t] /\ served'[t] = served[t]
      /\ UNCHANGED <<cpc, sess, nreq, got, repq, spc, cur, reqfd, repfd, wmsg>>
  BY DEF Callback, clientVars, fileVars, pipeVars, serverVars, Inv, TypeOK, WorkerType
<1>2. /\ served[s] \in Seq(Message) /\ wmsg[s] = [from |-> s, n |-> Len(served[s]) + 1]
      /\ Len(served[s]) \in Nat
  BY <1>1, Lengths DEF Delivery, Handed
<1>3. Len(served'[s]) = Len(served[s]) + 1
  BY <1>1, <1>2
<1>4. ReplyOwn'
  BY <1>1 DEF Answering, ReplyOwn, Serving, Current
<1>5. Answered'
  BY <1>1, <1>2, <1>3 DEF Answering, Answered
<1>6. Turns'
  <2> SUFFICES ASSUME NEW d \in Clients, sess[d] # 0
               PROVE  TakesTurns(d, Current(d))'
    BY <1>1 DEF Turns
  <2>1. Current(d) \in Session /\ Current(d)' = Current(d) /\ TakesTurns(d, Current(d))
    BY <1>1, Ranges DEF Current, Inv, TypeOK, ClientType, Answering, Turns
  <2>2. CASE Current(d) # s
    BY <1>1, <2>1, <2>2 DEF TakesTurns, Replies
  <2>3. CASE Current(d) = s
    <3>1. Replies(s)' = Replies(s) /\ Replies(s) \in Nat
      BY <1>1, Lengths DEF Replies
    <3>2. CASE cpc[d] \notin Staying
      BY <1>1, <2>1, <2>3, <3>2 DEF TakesTurns, Staying, Opening
    <3>3. CASE cpc[d] \in Staying
      <4>1. nreq[d] \in Nat /\ Taken(s) <= nreq[d] /\ Taken(s) = Len(served[s]) + 1
        BY <1>1, <2>3, <3>3, Counted DEF Running, Inv, ServerShape
      <4>2. Replies(s) <= Len(served[s]) /\ Len(got[s]) \in Nat /\ Len(repq[s]) \in Nat
        BY <2>1, <2>3, <3>3, Lengths DEF TakesTurns
      <4>3. /\ Replies(s) = Len(got[s]) + Len(repq[s])
            /\ repq[s] = <<>> => Len(repq[s]) = 0
        BY Lengths
      <4>4. cpc[d] = "reading"
        <5>1. ASSUME Len(got[s]) = nreq[d], repq[s] = <<>> PROVE FALSE
          <6>1. \A a, l, m, k \in Nat : ~(a <= l /\ m = l + 1 /\ m <= k /\ a = k + 0)
            OBVIOUS
          <6> QED
            BY <1>2, <3>1, <4>1, <4>2, <4>3, <5>1, <6>1, TakenNat
        <5> QED
          BY <2>1, <2>3, <3>3, <5>1 DEF TakesTurns, Staying
      <4>5. Len(got[s]) + 1 = nreq[d]
        BY <2>1, <2>3, <4>4 DEF TakesTurns
      <4>6. Replies(s) + 1 = Len(served'[s])
        <5>1. PICK a \in Nat, b \in Nat, l \in Nat, k \in Nat :
                a = Len(got[s]) /\ b = Len(repq[s]) /\ l = Len(served[s]) /\ k = nreq[d]
          BY <1>2, <4>1, <4>2
        <5>2. a + b = Replies(s) /\ a + b <= l /\ l + 1 <= k /\ a + 1 = k
          BY <4>1, <4>2, <4>3, <4>5, <5>1
        <5>3. (a + b) + 1 = l + 1
          BY ONLY <5>2, a \in Nat, b \in Nat, l \in Nat, k \in Nat
        <5> QED
          BY <1>3, <5>1, <5>2, <5>3
      <4>7. Replies(s) <= Len(served'[s])
        BY <1>2, <1>3, <3>1, <4>2
      <4> QED
        BY <1>1, <2>1, <2>3, <3>1, <4>4, <4>6, <4>7 DEF TakesTurns, Staying, Opening
    <3> QED
      BY <3>2, <3>3
  <2> QED
    BY <2>2, <2>3
<1> QED
  BY <1>4, <1>5, <1>6 DEF Answering

\* A reply arrives at the client that waits for it.
LEMMA AnsweringReply ==
  ASSUME Inv, Delivery, Answering, ReplyNamed', NEW s \in Session,
         wpc[s] = "write", HasRepReader(repfd[s]),
         repq' = [repq EXCEPT ![repfd[s]] = Append(@, wmsg[s])],
         wpc' = [wpc EXCEPT ![s] = "select"],
         UNCHANGED <<cpc, sess, nreq, got, served, spc, cur, reqfd, repfd, wmsg>>
  PROVE  Answering'
<1> USE DEF Inv, TypeOK, ClientType, PipeType, WorkerType
<1>1. PICK c \in Clients : c = s[1]
  BY Ranges
<1>2. repfd[s] = s /\ rfd[c] = s[2] /\ reqfd[s] # NoSession
  BY <1>1 DEF ServerShape, Running, Answering, ReplyOwn, HasRepReader
<1>3. s = Current(c) /\ rfd[c] # 0 /\ sess[c] # 0
  BY <1>1, <1>2, Ranges DEF Answering, ReplyNamed, Current
<1>4. TakesTurns(c, s) /\ ~Unsent(s)
  BY <1>2, <1>3 DEF Answering, Turns, Delivery, Readers
<1>5. cpc[c] \in Staying
  BY <1>1, <1>2, <1>3, <1>4, Ranges, SMTT(30) DEF Answering, ReplyNamed, TakesTurns, Unsent, Staying,
     Opening, Current
<1>6. cpc[c] = "reading" /\ Replies(s) + 1 = Len(served[s]) /\ Len(got[s]) + 1 = nreq[c]
  BY <1>4, <1>5 DEF TakesTurns
<1>7. PICK q \in Seq(Message), m \in Message :
        q = repq[s] /\ m = wmsg[s] /\ m = [from |-> s, n |-> Len(served[s])]
  BY DEF Answering, Answered
<1>8. /\ repq'[s] = Append(q, m) /\ wpc'[s] = "select"
      /\ \A t \in Session : t # s => repq'[t] = repq[t] /\ wpc'[t] = wpc[t]
  BY <1>2, <1>7
<1>9. /\ Len(q) \in Nat /\ Len(Append(q, m)) = Len(q) + 1
      /\ \A i \in DOMAIN Append(q, m) :
           \/ i \in DOMAIN q /\ Append(q, m)[i] = q[i]
           \/ i = Len(q) + 1 /\ Append(q, m)[i] = m
  BY ONLY q \in Seq(Message), m \in Message
<1>10. /\ Len(got[s]) \in Nat /\ Len(served[s]) \in Nat /\ Replies(s) = Len(got[s]) + Len(q)
       /\ nreq[c] \in Nat /\ Len(served[s]) <= nreq[c]
  <2>1. nreq[c] \in Nat /\ Taken(s) <= nreq[c] /\ Taken(s) = Len(served[s]) + 0
    BY <1>3, <1>5, Counted DEF Running, Inv, ServerShape
  <2> QED
    BY <1>7, <2>1, Lengths
<1>11. /\ Len(served[s]) = Len(got[s]) + (Len(q) + 1)
       /\ Len(q) + 1 <= 1
  <2>1. \A g, l, v, k \in Nat : (g + l) + 1 = v /\ v <= k /\ g + 1 = k =>
          v = g + (l + 1) /\ l + 1 <= 1
    OBVIOUS
  <2> QED
    BY <1>6, <1>9, <1>10, <2>1
<1>12. ReplyOwn'
  BY DEF Answering, ReplyOwn, Serving, Current
<1>13. Answered'
  <2>1. \A i \in DOMAIN repq'[s] : repq'[s][i] = [from |-> s, n |-> Len(got[s]) + i]
    <3>1. \A i \in DOMAIN q : q[i] = [from |-> s, n |-> Len(got[s]) + i]
      BY <1>7 DEF Answering, Answered
    <3>2. m = [from |-> s, n |-> Len(got[s]) + (Len(q) + 1)]
      BY <1>7, <1>11
    <3> QED
      BY ONLY <1>8, <1>9, <3>1, <3>2
  <2>2. \A i \in DOMAIN got[s] : got[s][i] = [from |-> s, n |-> i]
    BY DEF Answering, Answered
  <2>3. \A t \in Session : t # s =>
          /\ \A i \in DOMAIN got[t] : got[t][i] = [from |-> t, n |-> i]
          /\ \A i \in DOMAIN repq'[t] : repq'[t][i] = [from |-> t, n |-> Len(got[t]) + i]
          /\ wpc'[t] = "none" => got[t] = <<>> /\ repq'[t] = <<>>
          /\ wpc'[t] = "write" => wmsg[t] = [from |-> t, n |-> Len(served[t])]
    <3>1. ASSUME NEW t \in Session, t # s
          PROVE  repq'[t] = repq[t] /\ wpc'[t] = wpc[t]
      BY <1>8, <3>1
    <3> QED
      BY ONLY <3>1, Answering DEF Answering, Answered
  <2> QED
    BY ONLY <1>8, <2>1, <2>2, <2>3, UNCHANGED <<got, served, wmsg>> DEF Answered
<1>14. Turns'
  <2>1. ASSUME NEW d \in Clients, d # c, sess[d] # 0
        PROVE  TakesTurns(d, Current(d))'
    <3>1. Current(d) \in Session /\ Current(d) # s /\ Current(d)' = Current(d)
      BY <1>1, <2>1, Ranges DEF Current
    <3>2. repq'[Current(d)] = repq[Current(d)] /\ wpc'[Current(d)] = wpc[Current(d)]
      BY <1>8, <3>1
    <3> QED
      BY <2>1, <3>1, <3>2 DEF Answering, Turns, TakesTurns, Replies
  <2>2. TakesTurns(c, s)'
    <3>1. Replies(s)' = Len(got[s]) + (Len(q) + 1) /\ Len(repq'[s]) = Len(q) + 1
      BY <1>8, <1>9 DEF Replies
    <3>2. Replies(s)' <= Len(served[s])
      BY <1>10, <1>11, <3>1
    <3> QED
      BY <1>6, <1>8, <1>11, <3>1, <3>2 DEF TakesTurns, Staying, Opening
  <2>3. Current(c)' = s
    BY <1>3 DEF Current
  <2> QED
    BY <2>1, <2>2, <2>3 DEF Turns
<1> QED
  BY <1>12, <1>13, <1>14 DEF Answering

LEMMA AnsweringServer ==
  ASSUME Inv, Connecting, Delivery, Answering,
         ServerNew \/ AcceptStep \/ LoopStops \/ (\E s \in Session : WorkerStep(s))
  PROVE  Answering'
<1> USE DEF Inv, TypeOK, ClientType, ServerType, WorkerType
<1>1. ReplyNamed' /\ UNCHANGED <<sess, nreq, got, repFile>>
  BY ReplyNamedServer, ServerFrame DEF Answering, fileVars
<1>2. ASSUME UNCHANGED <<cpc, repq, served>>,
             Serving' => Serving /\ cur' = cur,
             \A s \in Session : repfd'[s] \in {NoSession, repfd[s], s},
             \A s \in Session : reqfd'[s] \in {NoSession, reqfd[s]},
             \A s \in Session : wpc'[s] = "none" => wpc[s] = "none",
             \A s \in Session : wpc'[s] = "write" => wpc[s] = "write" /\ wmsg'[s] = wmsg[s]
      PROVE  Answering'
  <2>1. ReplyOwn'
    BY <1>1, <1>2 DEF Answering, ReplyOwn, Current
  <2> QED
    BY <1>1, <1>2, <2>1, ServerKeepsTurn
<1>3. CASE ServerNew \/ Accept \/ OpenReplyFails
  BY <1>2, <1>3 DEF ServerNew, Accept, OpenReplyFails, NextConnect, Serving, clientVars,
     fileVars, pipeVars, workerVars
<1>4. CASE OpenRequest /\ spc' # "openrep"
  BY <1>2, <1>4 DEF OpenRequest, NextConnect, Serving, fileVars, pipeVars, workerVars
<1>5. CASE OpenRequest /\ spc' = "openrep"
  <2> DEFINE c == cur[1]
  <2>1. /\ cur \in Session /\ c \in Clients /\ spc = "openreq" /\ cur' = cur
        /\ \A s \in Session : s # cur => reqfd'[s] = reqfd[s]
        /\ UNCHANGED <<repfd, repq, served, wpc, wmsg>>
        /\ \A d \in Clients :
             cpc'[d] = cpc[d] \/ (d = c /\ cpc[d] = "openreq" /\ cpc'[d] = "opened")
    BY <1>5, Ranges DEF OpenRequest, NextConnect, ServerShape, fileVars, pipeVars, workerVars
  <2>2. cur = Current(c) /\ cpc[c] \in Waiting
    BY <2>1 DEF Delivery, PendingCurrent, Pending, Connecting
  <2>3. ReplyOwn'
    BY <1>1, <2>1, <2>2 DEF Answering, ReplyOwn, Current, Waiting, Staying, Opening
  <2>4. \A s \in Session : cpc[s[1]] = "failed" => reqfd'[s] \in {NoSession, reqfd[s]}
    BY <2>1, <2>2 DEF Waiting
  <2>5. \A d \in Clients : cpc'[d] = cpc[d] \/ (cpc[d] \in Opening /\ cpc'[d] \in Opening)
    BY <2>1 DEF Opening
  <2> QED
    BY <1>1, <2>1, <2>3, <2>4, <2>5, ServerKeepsTurn
<1>6. CASE OpenReply
  <2>1. cur \in Session /\ cur[1] \in Clients /\ cur = Current(cur[1])
    BY <1>6, Ranges DEF OpenReply, ServerShape, Answering, ReplyOwn, Serving
  <2>2. repFile[cur[1]] = sess[cur[1]]
    BY <1>6, <2>1 DEF OpenReply, Answering, ReplyNamed
  <2>3. repfd' = [repfd EXCEPT ![cur] = cur]
    BY <1>6, <2>1, <2>2 DEF OpenReply, Current
  <2> QED
    BY <1>2, <1>6, <2>1, <2>3 DEF OpenReply, Serving, clientVars, fileVars, pipeVars, workerVars
<1>7. CASE Spawn
  <2>1. cur \in Session /\ wpc[cur] = "none"
    BY <1>7 DEF Spawn, ServerShape, ConnectOnce
  <2> QED
    BY <1>2, <1>7, <2>1 DEF Spawn, NextConnect, Serving, clientVars, fileVars, pipeVars
<1>8. ASSUME NEW how \in {"exited", "killed"}, ServerEnds(how)
      PROVE  Answering'
  BY <1>2, <1>8 DEF ServerEnds, Running, Serving, clientVars, fileVars, pipeVars
<1>9. ASSUME NEW s \in Session, WorkerRead(s) \/ WorkerFails(s)
      PROVE  Answering'
  <2>1. UNCHANGED <<cpc, repq, served, spc, cur>>
    BY <1>9 DEF WorkerRead, WorkerFails, clientVars, fileVars, pipeVars
  <2>2. /\ \A t \in Session : t # s => wpc'[t] = wpc[t] /\ wmsg'[t] = wmsg[t]
        /\ wpc'[s] \in {"callback", "done"}
        /\ \A t \in Session : repfd'[t] \in {NoSession, repfd[t]} /\ reqfd'[t] \in {NoSession, reqfd[t]}
    BY <1>9 DEF WorkerRead, WorkerFails, WorkerExit
  <2> QED
    BY <1>2, <2>1, <2>2 DEF Serving
<1>10. ASSUME NEW s \in Session, Callback(s)
       PROVE  Answering'
  BY <1>1, <1>10, AnsweringHand
<1>11. ASSUME NEW s \in Session, WorkerWrite(s)
       PROVE  Answering'
  <2>1. CASE ServerEnds("killed")
    BY <1>8, <2>1
  <2>2. CASE /\ HasRepReader(repfd[s])
             /\ repq' = [repq EXCEPT ![repfd[s]] = Append(@, wmsg[s])]
             /\ wpc' = [wpc EXCEPT ![s] = "select"]
             /\ UNCHANGED <<clientVars, fileVars, acceptq, reqq, serverVars, wmsg, served, got>>
    <3>1. wpc[s] = "write" /\ UNCHANGED <<cpc, sess, nreq, got, served, spc, cur, reqfd, repfd, wmsg>>
      BY <1>11, <2>2 DEF WorkerWrite, clientVars, serverVars
    <3> QED
      BY <1>1, <2>2, <3>1, AnsweringReply
  <2> QED
    BY <1>11, <2>1, <2>2 DEF WorkerWrite
<1> QED
  BY <1>3, <1>4, <1>5, <1>6, <1>7, <1>8, <1>9, <1>10, <1>11 DEF AcceptStep, LoopStops, WorkerStep

LEMMA AnsweringEver ==
  ASSUME Calm, Waits
  PROVE  Spec => []Answering
<1>1. Inv /\ Connecting /\ Delivery /\ Answering /\ [Next]_vars => Answering'
  <2> SUFFICES ASSUME Inv, Connecting, Delivery, Answering, [Next]_vars
               PROVE  Answering'
    OBVIOUS
  <2>1. CASE Next
    BY <2>1, AnsweringClient, AnsweringServer DEF Next
  <2>2. CASE UNCHANGED vars
    <3>1. UNCHANGED <<cpc, sess, nreq, rfd, repFile, got, repq, served, wmsg, wpc, spc, cur, reqfd, repfd>>
      BY <2>2 DEF vars, clientVars, fileVars, pipeVars, serverVars, workerVars
    <3>2. ReplyNamed' /\ ReplyOwn'
      BY <3>1 DEF Answering, ReplyNamed, ReplyOwn, Serving, Current
    <3> QED
      BY <3>1, <3>2, ServerKeepsTurn
  <2> QED
    BY <2>1, <2>2
<1>2. Spec => [](Connecting /\ SoleReader)
  BY ConnectingEver DEF Calm
<1> QED
  BY <1>1, <1>2, AnsweringInit, DeliveryEver, Invariance, PTL DEF Spec

\* A client that runs the sample program and waits for each reply as long as it
\* takes reads, in the i-th place, the reply to its i-th request: also when other
\* clients are killed or fail to connect, when the server runs out of descriptors
\* or threads, and when it stops.
THEOREM RepliesAlwaysMatch ==
  ASSUME Calm, Waits
  PROVE  Spec => []RepliesMatch
<1>1. Answering => RepliesMatch
  BY DEF Answering, Answered, RepliesMatch
<1> QED
  BY <1>1, AnsweringEver, PTL

-----------------------------------------------------------------------------
(* The life of the server *)

LEMMA AliveInit == Init => Alive
BY DEF Init, Alive, Pending

\* A client moves on, and lets nobody down that has a request of it.
LEMMA ClientLives ==
  ASSUME Inv, Delivery, Alive, NEW c \in Clients,
         UNCHANGED <<sess, reqfd, wpc>>, spc' # "killed",
         \A d \in Clients : d # c => cpc'[d] = cpc[d] /\ (Pending(d)' => Pending(d)),
         cpc'[c] = "dead" => ~Pending(c)',
         \A s \in Session : reqfd[s] # NoSession /\ s # Current(c) =>
           reqq'[reqfd[s]] = reqq[reqfd[s]],
         cpc[c] = "reading" /\ wpc[Current(c)] \in {"callback", "write"} => cpc'[c] = "reading",
         reqfd[Current(c)] # NoSession =>
           /\ cpc'[c] \notin {"dead", "failed"}
           /\ cpc'[c] = "eof" => reqq'[reqfd[Current(c)]] = <<>>
           /\ cpc'[c] \in {"unlink", "unlinkrep", "out"} =>
                reqq'[reqfd[Current(c)]] = <<Eof(Current(c))>>
  PROVE  Alive'
<1>1. \A d \in Clients : cpc'[d] = "dead" => ~Pending(d)'
  BY DEF Alive
<1>2. ASSUME NEW s \in Session, reqfd[s] # NoSession
      PROVE  /\ s = Current(s[1]) => cpc'[s[1]] \notin {"dead", "failed"}
             /\ s = Current(s[1]) /\ cpc'[s[1]] = "eof" => reqq'[reqfd[s]] = <<>>
             /\ Over(s)' => reqq'[reqfd[s]] = <<Eof(s)>>
  <2>1. s[1] \in Clients /\ s = <<s[1], s[2]>> /\ Current(s[1]) = <<s[1], sess[s[1]]>>
    BY Ranges DEF Current
  <2>2. CASE s = Current(c)
    <3>1. s[1] = c /\ s[2] = sess[c] /\ sess[c] \in Nat
      BY <2>2, ConstantsAssumption DEF Current, Inv, TypeOK, ClientType, Generation
    <3>2. Over(s)' => cpc'[c] \in {"unlink", "unlinkrep", "out"}
      BY <3>1 DEF Over
    <3> QED
      BY <1>2, <2>2, <3>1, <3>2
  <2>3. CASE s # Current(c) /\ s[1] = c
    <3>1. ~Unsent(s) /\ s[2] # sess[c] /\ s[2] \in Nat /\ sess[c] \in Nat
      BY <1>2, <2>1, <2>3, Ranges, ConstantsAssumption DEF Delivery, Readers, Inv, TypeOK,
         ClientType, Generation
    <3>2. s[2] < sess[c]
      BY <2>3, <3>1 DEF Unsent
    <3>3. reqq[reqfd[s]] = <<Eof(s)>>
      BY <1>2, <2>3, <3>2 DEF Alive, Over
    <3> QED
      BY <1>2, <2>1, <2>3, <3>1, <3>3
  <2>4. CASE s[1] # c
    <3>1. cpc'[s[1]] = cpc[s[1]] /\ (Over(s)' <=> Over(s)) /\ s # Current(c)
      BY <2>1, <2>4 DEF Over, Current
    <3> QED
      BY <1>2, <3>1 DEF Alive
  <2> QED
    BY <2>2, <2>3, <2>4
<1>3. ASSUME NEW s \in Session, wpc[s] \in {"callback", "write"}
      PROVE  s = Current(s[1]) /\ cpc'[s[1]] = "reading"
  <2>1. s = Current(s[1]) /\ cpc[s[1]] = "reading" /\ s[1] \in Clients
    BY <1>3, Ranges DEF Alive
  <2> QED
    BY <1>3, <2>1
<1> QED
  BY <1>1, <1>2, <1>3 DEF Alive, Current

\* A client that got its reply: its worker has no other request.
LEMMA ReadFrees ==
  ASSUME Inv, Delivery, Answering, NEW c \in Clients, Read(c)
  PROVE  wpc[Current(c)] \notin {"callback", "write"}
<1> USE DEF Inv, TypeOK, ClientType
<1>1. Current(c) \in Session /\ <<c, rfd[c]>> = Current(c) /\ sess[c] # 0
  BY Ranges DEF Read, ClientShape, Answering, ReplyNamed, Current
<1>2. PICK s \in Session : s = Current(c) /\ s = <<c, rfd[c]>>
  BY <1>1
<1>3. TakesTurns(c, s) /\ cpc[c] = "reading" /\ repq[s] # <<>>
  BY <1>1, <1>2 DEF Answering, Turns, Read
<1>4. PICK g \in Nat, r \in Nat, v \in Nat :
        g = Len(got[s]) /\ r = Len(repq[s]) /\ v = Len(served[s]) /\ Replies(s) = g + r /\ r # 0
  BY <1>3, Lengths
<1>5. g + 1 = nreq[c] /\ g + r <= v /\ (wpc[s] = "write" => (g + r) + 1 = v)
  BY <1>3, <1>4 DEF TakesTurns, Staying
<1>6. SUFFICES ASSUME wpc[s] \in {"callback", "write"} PROVE FALSE
  BY <1>2
<1>7. PICK k \in Nat : k = nreq[c] /\ Taken(s) <= k
  BY <1>2, <1>3, <1>6, Counted DEF Running, ServerShape, Staying
<1>8. CASE wpc[s] = "callback"
  <2>1. Taken(s) = v + 1
    BY <1>4, <1>8 DEF Taken
  <2> QED
    BY <1>4, <1>5, <1>7, <2>1
<1>9. CASE wpc[s] = "write"
  <2>1. Taken(s) = v + 0
    BY <1>4, <1>9 DEF Taken
  <2> QED
    BY <1>4, <1>5, <1>7, <1>9, <2>1
<1> QED
  BY <1>6, <1>8, <1>9

\* A client whose every request is answered has left nothing in its pipe.
LEMMA NothingWaits ==
  ASSUME Inv, Delivery, Answering, NEW c \in Clients, cpc[c] \in {"idle", "writing"},
         reqfd[Current(c)] # NoSession
  PROVE  reqq[reqfd[Current(c)]] = <<>>
<1> USE DEF Inv, TypeOK, ClientType, ServerType, PipeType
<1>1. Current(c) \in Session /\ sess[c] # 0
  BY Ranges DEF ClientShape, Current
<1>2. PICK s \in Session : s = Current(c)
  BY <1>1
<1>3. TakesTurns(c, s)
  BY <1>1, <1>2 DEF Answering, Turns
<1>4. PICK k \in Nat, m \in Nat, v \in Nat :
        /\ k = nreq[c] /\ m = Taken(s) /\ v = Len(served[s])
        /\ m + Len(reqq[reqfd[s]]) = k /\ (m = v + 0 \/ m = v + 1)
  <2>1. nreq[c] \in Nat /\ Taken(s) \in Nat /\ Taken(s) + Len(reqq[reqfd[s]]) = nreq[c]
    BY <1>2, Counted DEF Staying
  <2>2. Taken(s) = Len(served[s]) + 0 \/ Taken(s) = Len(served[s]) + 1
    BY DEF Taken
  <2>3. Len(served[s]) \in Nat
    BY Lengths
  <2> QED
    BY <2>1, <2>2, <2>3
<1>5. Replies(s) = k + 0 /\ Replies(s) <= v
  <2>1. Len(got[s]) = k /\ repq[s] = <<>> /\ Replies(s) <= v
    BY <1>3, <1>4 DEF TakesTurns, Staying
  <2> QED
    BY <2>1, Lengths
<1>6. PICK q \in Seq(Message) : q = reqq[reqfd[s]]
  BY <1>2, Counted DEF Staying
<1>7. Len(q) \in Nat
  OBVIOUS
<1>8. Len(q) = 0
  BY ONLY <1>4, <1>5, <1>6, <1>7, k \in Nat, m \in Nat, v \in Nat
<1> QED
  BY <1>2, <1>6, <1>8

\* A client writes to the pipe of its own session, if anybody reads that.
LEMMA WritesItsOwn ==
  ASSUME Inv, Delivery, NEW c \in Clients, cpc[c] \in Using, ReqReaders(<<c, wfd[c]>>) # {}
  PROVE  /\ Current(c) \in Session /\ <<c, wfd[c]>> \in Session
         /\ reqfd[Current(c)] = <<c, wfd[c]>>
         /\ \A s \in Session : reqfd[s] = <<c, wfd[c]>> => s = Current(c)
<1>1. wfd[c] = reqFile[c] /\ reqFile[c] # 0
  BY DEF Delivery, Named
<1>2. Current(c) \in Session
  BY Ranges DEF Using, Current, Inv, TypeOK, ClientType, ClientShape
<1>3. PICK p \in Session : p = <<c, reqFile[c]>> /\ p[1] = c /\ p # NoSession
  BY <1>1, Ranges DEF Inv, TypeOK, FileType
<1>4. ASSUME NEW s \in Session, reqfd[s] = p
      PROVE  s = Current(c)
  <2>1. s[1] = c
    BY <1>3, <1>4 DEF Inv, OwnPipes
  <2> QED
    BY <1>3, <1>4, <2>1 DEF Delivery, Readers
<1>5. PICK s \in Session : reqfd[s] = p
  BY <1>1, <1>3 DEF ReqReaders
<1> QED
  BY <1>1, <1>2, <1>3, <1>4, <1>5

\* fifo_client_new begins: the sessions that its process had are over.
LEMMA AliveBegin ==
  ASSUME Inv, Delivery, Alive, Calm, NEW c \in Clients, MkRequestPipe(c)
  PROVE  Alive'
<1> USE DEF Inv, TypeOK, ClientType
<1>1. /\ cpc[c] = "out" /\ cpc'[c] = "mkrep" /\ sess[c] \in Nat /\ sess'[c] = sess[c] + 1
      /\ \A d \in Clients : d # c => cpc'[d] = cpc[d] /\ sess'[d] = sess[d]
      /\ UNCHANGED <<acceptq, reqq, spc, cur, reqfd, wpc>>
  BY ConstantsAssumption DEF MkRequestPipe, Outside, Calm, Goto, Generation, pipeVars,
     serverVars, workerVars
<1>2. \A d \in Clients : (Pending(d)' <=> Pending(d)) /\ (cpc'[d] = "dead" => cpc[d] = "dead")
  BY <1>1 DEF Pending
<1>3. ASSUME NEW s \in Session, reqfd[s] # NoSession, s[1] = c
      PROVE  s # Current(c)' /\ reqq[reqfd[s]] = <<Eof(s)>>
  <2>1. ~Unsent(s) /\ s[2] \in Nat
    BY <1>3, Ranges, ConstantsAssumption DEF Delivery, Readers, Generation
  <2>2. s[2] # sess[c] + 1
    BY <1>1, <1>3, <2>1 DEF Unsent
  <2>3. Current(c)' = <<c, sess[c] + 1>>
    BY <1>1 DEF Current
  <2>4. s # Current(c)'
    BY <2>2, <2>3
  <2> QED
    BY <1>1, <1>3, <2>4 DEF Alive, Over
<1>4. ASSUME NEW s \in Session, s[1] # c
      PROVE  /\ s[1] \in Clients /\ cpc'[s[1]] = cpc[s[1]]
             /\ Current(s[1])' = Current(s[1]) /\ (Over(s)' <=> Over(s))
  BY <1>1, <1>4, Ranges DEF Current, Over
<1>5. ASSUME NEW s \in Session, reqfd[s] # NoSession
      PROVE  /\ s = Current(s[1])' => cpc'[s[1]] \notin {"dead", "failed"}
             /\ s = Current(s[1])' /\ cpc'[s[1]] = "eof" => reqq[reqfd[s]] = <<>>
             /\ Over(s)' => reqq[reqfd[s]] = <<Eof(s)>>
  <2>1. CASE s[1] = c
    BY <1>3, <1>5, <2>1
  <2>2. CASE s[1] # c
    BY <1>4, <1>5, <2>2 DEF Alive
  <2> QED
    BY <2>1, <2>2
<1>6. ASSUME NEW s \in Session, wpc[s] \in {"callback", "write"}
      PROVE  s = Current(s[1])' /\ cpc'[s[1]] = "reading"
  <2>1. s = Current(s[1]) /\ cpc[s[1]] = "reading"
    BY <1>6 DEF Alive
  <2>2. s[1] # c
    BY <1>1, <2>1
  <2> QED
    BY <1>4, <2>1, <2>2
<1> QED
  BY <1>1, <1>2, <1>5, <1>6 DEF Alive

LEMMA AliveClient ==
  ASSUME Inv, Connecting, Delivery, Answering, Alive, Calm, Waits, Killable = {},
         NEW c \in Clients, ClientCall(c) \/ ClientStep(c) \/ Kill(c)
  PROVE  Alive'
<1> USE DEF Inv, TypeOK, ClientType
<1>1. CASE MkRequestPipe(c)
  BY <1>1, AliveBegin
<1>2. ~BeginRead(c) /\ ~ReadTimeout(c) /\ ~Kill(c)
  BY DEF BeginRead, ReadTimeout, Kill, Waits, Calm
<1>3. CASE ~MkRequestPipe(c)
  <2>1. /\ UNCHANGED <<sess, cur, reqfd, wpc>> /\ spc' # "killed"
        /\ spc' = "openreq" => spc = "openreq"
        /\ \A d \in Clients : d # c => cpc'[d] = cpc[d]
    <3>1. CASE OpenReplyEnd(c)
      BY <1>3, <3>1, ClientMove DEF OpenReplyEnd, Alive, workerVars
    <3> QED
      BY <1>3, <3>1, ClientFrame, ClientMove DEF serverVars, workerVars, Alive
  <2>2. acceptq' = acceptq => \A d \in Clients : Pending(d)' => Pending(d)
    BY <2>1 DEF Pending
  <2>3. Pending(c) => cpc[c] \in Waiting
    BY DEF Connecting
  <2>4. \A s \in Session : reqfd[s] # NoSession => reqfd[s] \in Session
    BY DEF ServerType
  <2>5. ASSUME UNCHANGED <<acceptq, reqq>>,
               cpc[c] \notin Waiting \/ cpc'[c] # "dead",
               cpc[c] # "reading" \/ wpc[Current(c)] \notin {"callback", "write"},
               reqfd[Current(c)] # NoSession =>
                 /\ cpc'[c] \notin {"dead", "failed"}
                 /\ cpc'[c] = "eof" => reqq[reqfd[Current(c)]] = <<>>
                 /\ cpc'[c] \in {"unlink", "unlinkrep", "out"} =>
                      reqq[reqfd[Current(c)]] = <<Eof(Current(c))>>
        PROVE  Alive'
    <3>1. cpc'[c] = "dead" => ~Pending(c)'
      BY <2>2, <2>3, <2>5
    <3> QED
      BY <2>1, <2>2, <2>5, <3>1, ClientLives
  <2>6. cpc[c] \in NotSent => reqfd[Current(c)] = NoSession
    <3>1. ASSUME cpc[c] \in NotSent PROVE Current(c) \in Session /\ Unsent(Current(c))
      BY <3>1, Ranges DEF NotSent, Current, Unsent, ClientShape
    <3> QED
      BY <3>1 DEF Delivery, Readers
  <2>7. CASE MkReplyPipe(c) \/ OpenReplyEnd(c) \/ OpenAccept(c)
    BY <2>5, <2>7 DEF MkReplyPipe, OpenReplyEnd, OpenAccept, Goto, pipeVars
  <2>8. CASE NewFails(c)
    <3>1. cpc[c] \in NotSent /\ UNCHANGED <<acceptq, reqq>>
      BY <2>8 DEF NewFails, Calm, NotSent, pipeVars
    <3> QED
      BY <2>5, <2>6, <3>1 DEF NotSent, Waiting
  <2>9. CASE SendConnect(c)
    <3>1. cpc[c] = "connect" /\ reqfd[Current(c)] = NoSession /\ reqq' = reqq
      BY <2>6, <2>9 DEF SendConnect, NotSent, Die, pipeVars
    <3>2. CASE acceptq' = acceptq
      BY <2>5, <3>1, <3>2 DEF Waiting
    <3>3. CASE acceptq' = Append(acceptq, Current(c)) /\ cpc'[c] = "opening"
      <4>1. Current(c) \in Session /\ Current(c)[1] = c
        BY <3>1, Ranges DEF Current, ClientShape
      <4>2. \A i \in DOMAIN acceptq' :
              (i \in DOMAIN acceptq /\ acceptq'[i] = acceptq[i]) \/ acceptq'[i] = Current(c)
        BY <3>3, <4>1, AcceptQueue DEF PipeType
      <4>3. \A d \in Clients : d # c => (Pending(d)' => Pending(d))
        BY <2>1, <4>1, <4>2 DEF Pending
      <4> QED
        BY <2>1, <3>1, <3>3, <4>3, ClientLives
    <3> QED
      BY <2>9, <3>2, <3>3 DEF SendConnect, Die, Goto, pipeVars
  <2>10. CASE OpenRequestEnd(c) \/ Connected(c) \/ BeginWrite(c)
    BY <2>5, <2>10 DEF OpenRequestEnd, Connected, BeginWrite, Goto, pipeVars
  <2>11. CASE Read(c)
    <3>1. cpc'[c] = "idle" /\ UNCHANGED <<acceptq, reqq>>
      BY <2>11 DEF Read, Goto
    <3> QED
      BY <2>5, <2>11, <3>1, ReadFrees
  <2>12. CASE BeginFree(c)
    <3>1. /\ cpc'[c] = "eof" /\ cpc[c] \in {"idle", "failed"} /\ sess[c] # 0
          /\ UNCHANGED <<acceptq, reqq>>
      BY <2>12 DEF BeginFree, Goto, pipeVars, ClientShape
    <3>2. cpc[c] = "failed" => reqfd[Current(c)] = NoSession
      BY <3>1 DEF Answering, Turns, TakesTurns
    <3> QED
      BY <2>5, <3>1, <3>2, NothingWaits
  <2>13. ASSUME NEW k \in ReqNumber, NEW ok, NEW failed, ok \notin {"dead", "failed", "eof"},
                ok \in {"unlink", "unlinkrep", "out"} => k = 0 /\ cpc[c] = "eof",
                cpc[c] \in {"writing", "eof"}, WritePipe(c, Request(c, k), ok, failed)
         PROVE  Alive'
    <3>1. CASE ReqReaders(<<c, wfd[c]>>) = {}
      <4>1. reqfd[Current(c)] = NoSession
        BY <2>13, <3>1, NobodyReads DEF Using
      <4>2. UNCHANGED <<acceptq, reqq>>
        BY <2>13, <3>1 DEF WritePipe, Die, pipeVars
      <4> QED
        BY <2>5, <2>13, <4>1, <4>2 DEF Waiting
    <3>2. CASE ReqReaders(<<c, wfd[c]>>) # {}
      <4>0. /\ Current(c) \in Session /\ <<c, wfd[c]>> \in Session
            /\ reqfd[Current(c)] = <<c, wfd[c]>>
            /\ \A t \in Session : reqfd[t] = <<c, wfd[c]>> => t = Current(c)
        <5>1. cpc[c] \in Using
          BY <2>13 DEF Using
        <5> QED
          BY <3>2, <5>1, WritesItsOwn
      <4>1. PICK s \in Session, p \in Session :
              /\ s = Current(c) /\ p = <<c, wfd[c]>> /\ reqfd[s] = p
              /\ \A t \in Session : reqfd[t] = p => t = s
        BY <4>0
      <4>2. /\ cpc'[c] = ok /\ acceptq' = acceptq
            /\ reqq' = [reqq EXCEPT ![p] = Append(@, Request(c, k))]
        BY <2>13, <3>2, <4>1 DEF WritePipe, Goto, Calm
      <4>3. ASSUME NEW t \in Session, reqfd[t] # NoSession, t # s
            PROVE  reqq'[reqfd[t]] = reqq[reqfd[t]]
        BY <2>4, <4>1, <4>2, <4>3 DEF PipeType
      <4>4. k = 0 /\ cpc[c] = "eof" => reqq'[p] = <<Eof(s)>>
        <5>1. ASSUME k = 0, cpc[c] = "eof" PROVE reqq'[p] = <<Eof(s)>>
          <6>1. s[1] = c /\ p # NoSession
            BY <4>1, Ranges DEF Current
          <6>2. reqq[p] = <<>>
            BY <4>1, <5>1, <6>1 DEF Alive
          <6>3. Request(c, k) = Eof(s)
            BY <4>1, <5>1 DEF Request, Eof
          <6>4. reqq'[p] = Append(<<>>, Eof(s))
            BY <4>2, <6>2, <6>3 DEF PipeType
          <6> QED
            BY <6>4
        <5> QED
          BY <5>1
      <4> QED
        BY <2>1, <2>2, <2>13, <4>1, <4>2, <4>3, <4>4, ClientLives
    <3> QED
      BY <3>1, <3>2
  <2>14. CASE Write(c)
    <3>1. cpc[c] = "writing" /\ WritePipe(c, Request(c, nreq[c] + 1), "reading", "failed")
      BY <2>14 DEF Write, Waits
    <3>2. nreq[c] + 1 \in ReqNumber
      BY <3>1, Ranges DEF ClientShape
    <3> QED
      BY <2>13, <3>1, <3>2
  <2>15. CASE SendEof(c)
    <3>1. cpc[c] = "eof" /\ WritePipe(c, Request(c, 0), "unlink", "unlink") /\ 0 \in ReqNumber
      BY <2>15, Ranges DEF SendEof
    <3> QED
      BY <2>13, <3>1
  <2>16. CASE UnlinkRequest(c) \/ UnlinkReply(c)
    <3>1. /\ cpc[c] \in {"unlink", "unlinkrep"} /\ cpc'[c] \in {"unlinkrep", "out"}
          /\ UNCHANGED <<acceptq, reqq>>
      BY <2>16 DEF UnlinkRequest, UnlinkReply, Goto, pipeVars
    <3>2. Current(c) \in Session /\ Over(Current(c))
      BY <3>1, Ranges DEF Current, Over, ClientShape
    <3> QED
      BY <2>5, <3>1, <3>2 DEF Alive
  <2> QED
    BY <1>2, <1>3, <2>7, <2>8, <2>9, <2>10, <2>11, <2>12, <2>14, <2>15, <2>16
    DEF ClientCall, ClientStep
<1> QED
  BY <1>1, <1>3

\* The server moves on: it takes no request, and opens no pipe for a client.
LEMMA ServerLives ==
  ASSUME Alive, UNCHANGED <<sess, cpc>>, spc' # "killed",
         \A d \in Clients : Pending(d)' => Pending(d),
         \A s \in Session : reqfd'[s] # NoSession =>
           reqfd'[s] = reqfd[s] /\ reqq'[reqfd[s]] = reqq[reqfd[s]],
         \A s \in Session : wpc'[s] \in {"callback", "write"} => wpc[s] \in {"callback", "write"}
  PROVE  Alive'
<1>1. \A s \in Session : (Over(s)' <=> Over(s)) /\ Current(s[1])' = Current(s[1])
  BY DEF Over, Current
<1> QED
  BY <1>1 DEF Alive

\* The server opens the request pipe of a client that waits for it.
LEMMA AliveOpen ==
  ASSUME Inv, Connecting, Delivery, Alive, OpenRequest, spc' = "openrep"
  PROVE  Alive'
<1> USE DEF Inv, TypeOK, ClientType, ServerType
<1>1. PICK c \in Clients, r \in Session : c = cur[1] /\ r = cur
  BY Ranges DEF OpenRequest, ServerShape
<1>2. /\ spc = "openreq" /\ UNCHANGED <<sess, acceptq, reqq, wpc>>
      /\ \A s \in Session : s # r => reqfd'[s] = reqfd[s]
      /\ \A d \in Clients :
           cpc'[d] = cpc[d] \/ (d = c /\ cpc[d] = "openreq" /\ cpc'[d] = "opened")
  BY <1>1 DEF OpenRequest, NextConnect, fileVars, pipeVars, workerVars
<1>3. r = Current(c) /\ cpc[c] \in {"opening", "openreq"}
  BY <1>1, <1>2 DEF Delivery, PendingCurrent, Pending, Connecting, Waiting, Alive
<1>4. cpc'[c] \in Opening
  BY <1>2, <1>3 DEF Opening
<1>5. \A d \in Clients : cpc'[d] = "dead" => cpc[d] = "dead" /\ (Pending(d)' => Pending(d))
  BY <1>2, <1>4 DEF Pending, Opening
<1>6. ASSUME NEW s \in Session
      PROVE  /\ s[1] \in Clients /\ (Over(s)' <=> Over(s)) /\ Current(s[1])' = Current(s[1])
             /\ \A l \in {"dead", "failed", "eof"} : cpc'[s[1]] = l => cpc[s[1]] = l
             /\ cpc[s[1]] = "reading" => cpc'[s[1]] = "reading"
  BY <1>2, Ranges DEF Over, Current
<1>7. ~Over(r)
  <2>1. r[1] = c /\ r[2] = sess[c] /\ sess[c] \in Nat
    BY <1>3, ConstantsAssumption DEF Current, Generation
  <2> QED
    BY <1>3, <2>1 DEF Over
<1>8. ASSUME NEW s \in Session, reqfd'[s] # NoSession
      PROVE  /\ s = Current(s[1]) => cpc'[s[1]] \notin {"dead", "failed"}
             /\ s = Current(s[1]) /\ cpc'[s[1]] = "eof" => reqq[reqfd'[s]] = <<>>
             /\ Over(s) => reqq[reqfd'[s]] = <<Eof(s)>>
  <2>1. CASE s = r
    BY <1>1, <1>4, <1>7, <2>1 DEF Opening
  <2>2. CASE s # r
    BY <1>2, <1>6, <1>8, <2>2 DEF Alive
  <2> QED
    BY <2>1, <2>2
<1> QED
  BY <1>2, <1>5, <1>6, <1>8 DEF Alive

\* A worker takes a request, of a client that waits for the reply.
LEMMA AliveTake ==
  ASSUME Inv, SoleReader, Delivery, Answering, Alive, NEW s \in Session, WorkerRead(s)
  PROVE  Alive'
<1> USE DEF Inv, TypeOK, ClientType, PipeType, ServerType, WorkerType
<1>1. PICK p \in Session, q \in Seq(Message) :
        /\ p = reqfd[s] /\ p # NoSession /\ q = reqq[p] /\ q # <<>>
        /\ reqq' = [reqq EXCEPT ![p] = Tail(q)]
        /\ \/ Head(q).n = 0 /\ WorkerExit(s)
           \/ Head(q).n # 0 /\ wpc' = [wpc EXCEPT ![s] = "callback"] /\ UNCHANGED reqfd
  <2>1. reqfd[s] \in Session /\ reqfd[s] # NoSession
    BY Ranges DEF WorkerRead, ServerShape, Running
  <2>2. reqq[reqfd[s]] \in Seq(Message)
    BY <2>1
  <2> QED
    BY <2>1, <2>2 DEF WorkerRead, IsEof
<1>2. UNCHANGED <<cpc, sess, acceptq, spc, cur>>
  BY DEF WorkerRead, clientVars
<1>3. \A t \in Session : t # s /\ reqfd[t] # NoSession => reqfd[t] # p
  BY <1>1 DEF SoleReader
<1>4. ASSUME NEW t \in Session, t # s, reqfd[t] # NoSession
      PROVE  reqq'[reqfd[t]] = reqq[reqfd[t]]
  BY <1>1, <1>3, <1>4
<1>5. \A d \in Clients : Pending(d)' <=> Pending(d)
  BY <1>2 DEF Pending
<1>6. CASE Head(q).n = 0 /\ WorkerExit(s)
  <2>1. \A t \in Session : t # s => reqfd'[t] = reqfd[t] /\ wpc'[t] = wpc[t]
    BY <1>6 DEF WorkerExit
  <2>2. reqfd'[s] = NoSession /\ wpc'[s] = "done"
    BY <1>6 DEF WorkerExit
  <2>3. spc' # "killed"
    BY <1>2 DEF Alive
  <2> QED
    BY <1>2, <1>4, <1>5, <2>1, <2>2, <2>3, ServerLives
<1>7. CASE Head(q).n # 0 /\ wpc' = [wpc EXCEPT ![s] = "callback"] /\ UNCHANGED reqfd
  <2>1. PICK c \in Clients : c = s[1]
    BY Ranges
  <2>2. ~Unsent(s) /\ ~Over(s)
    <3>1. ~Unsent(s)
      BY <1>1 DEF Delivery, Readers
    <3>2. ASSUME Over(s) PROVE FALSE
      <4>1. q = <<Eof(s)>>
        BY <1>1, <3>2 DEF Alive
      <4> QED
        BY <1>7, <4>1 DEF Eof
    <3> QED
      BY <3>1, <3>2
  <2>3. s[2] = sess[c]
    <3>1. s[2] \in Nat /\ sess[c] \in Nat
      BY Ranges, ConstantsAssumption DEF Generation
    <3>2. ~(s[2] > sess[c]) /\ ~(s[2] < sess[c])
      BY <2>1, <2>2 DEF Unsent, Over
    <3> QED
      BY ONLY <3>1, <3>2
  <2>4. s = Current(c)
    BY <2>1, <2>3, Ranges DEF Current
  <2>5. cpc[c] \in Staying
    <3>1. cpc[c] \notin {"dead", "failed", "eof"}
      BY <1>1, <2>1, <2>4 DEF Alive
    <3>2. cpc[c] \notin {"unlink", "unlinkrep", "out"}
      BY <2>1, <2>2 DEF Over
    <3>3. cpc[c] \notin {"mkrep", "openrep", "openacc", "connect"}
      BY <2>1, <2>2, <2>3 DEF Unsent
    <3> QED
      BY <3>1, <3>2, <3>3 DEF Staying, Opening
  <2>6. cpc[c] \notin {"idle", "writing"}
    BY <1>1, <2>4, NothingWaits
  <2>7. cpc[c] \notin Opening
    <3> SUFFICES ASSUME cpc[c] \in Opening PROVE FALSE
      OBVIOUS
    <3>1. nreq[c] = 0
      BY DEF Delivery, Named
    <3>2. PICK m \in Nat, l \in Nat : m = Taken(s) /\ l = Len(q) /\ m + l = nreq[c]
      BY <1>1, <2>4, <2>5, Counted
    <3>3. l = 0
      BY <3>1, <3>2
    <3>4. Len(q) # 0
      BY ONLY <1>1, q \in Seq(Message)
    <3> QED
      BY <3>2, <3>3, <3>4
  <2>8. cpc[c] = "reading"
    BY <2>5, <2>6, <2>7 DEF Staying
  <2>9. \A t \in Session :
          /\ (Over(t)' <=> Over(t)) /\ Current(t[1])' = Current(t[1])
          /\ t # s => wpc'[t] = wpc[t]
    BY <1>2, <1>7 DEF Over, Current
  <2>10. ASSUME NEW t \in Session, reqfd[t] # NoSession
         PROVE  /\ t = Current(t[1]) => cpc[t[1]] \notin {"dead", "failed"}
                /\ t = Current(t[1]) /\ cpc[t[1]] = "eof" => reqq'[reqfd[t]] = <<>>
                /\ Over(t) => reqq'[reqfd[t]] = <<Eof(t)>>
    <3>1. CASE t = s
      BY <2>1, <2>2, <2>8, <3>1
    <3>2. CASE t # s
      BY <1>4, <2>10, <3>2 DEF Alive
    <3> QED
      BY <3>1, <3>2
  <2>11. \A t \in Session : wpc'[t] \in {"callback", "write"} =>
           t = Current(t[1]) /\ cpc[t[1]] = "reading"
    BY <2>1, <2>4, <2>8, <2>9 DEF Alive
  <2> QED
    BY <1>2, <1>5, <1>7, <2>9, <2>10, <2>11 DEF Alive
<1> QED
  BY <1>1, <1>6, <1>7

LEMMA AliveServer ==
  ASSUME Inv, Connecting, SoleReader, Delivery, Answering, Alive,
         ServerNew \/ AcceptStep \/ LoopStops \/ (\E s \in Session : WorkerStep(s))
  PROVE  Alive'
<1> USE DEF Inv, TypeOK, ServerType, WorkerType, PipeType
<1>1. ASSUME UNCHANGED <<cpc, sess, reqq>>, spc' # "killed",
             \A d \in Clients : Pending(d)' => Pending(d),
             \A s \in Session : reqfd'[s] \in {NoSession, reqfd[s]},
             \A s \in Session : wpc'[s] \in {"callback", "write"} => wpc[s] \in {"callback", "write"}
      PROVE  Alive'
  BY <1>1, ServerLives
<1>2. ASSUME acceptq' = acceptq, spc' # "openreq" PROVE \A d \in Clients : Pending(d)' => Pending(d)
  BY <1>2 DEF Pending
<1>3. CASE Accept
  <2>1. \A d \in Clients : Pending(d)' => Pending(d)
    BY <1>3, AcceptQueue DEF Accept, Pending
  <2> QED
    BY <1>1, <1>3, <2>1 DEF Accept, clientVars, workerVars
<1>4. CASE ServerNew \/ OpenReplyFails \/ OpenReply
  BY <1>1, <1>2, <1>4 DEF ServerNew, OpenReplyFails, OpenReply, NextConnect, clientVars,
     pipeVars, workerVars
<1>5. CASE OpenRequest /\ spc' # "openrep"
  BY <1>1, <1>2, <1>5 DEF OpenRequest, NextConnect, pipeVars, workerVars
<1>6. CASE OpenRequest /\ spc' = "openrep"
  BY <1>6, AliveOpen
<1>7. CASE Spawn
  BY <1>1, <1>2, <1>7 DEF Spawn, NextConnect, clientVars, pipeVars
<1>8. CASE LoopStops
  BY <1>1, <1>2, <1>8 DEF LoopStops, ServerEnds, Running, clientVars, pipeVars
<1>9. ASSUME NEW s \in Session, WorkerRead(s) PROVE Alive'
  BY <1>9, AliveTake
<1>10. ASSUME UNCHANGED <<acceptq, spc, cur>>
       PROVE  spc' # "killed" /\ \A d \in Clients : Pending(d)' => Pending(d)
  BY <1>10 DEF Pending, Alive
<1>11. ASSUME NEW s \in Session, Callback(s) PROVE Alive'
  BY <1>1, <1>10, <1>11 DEF Callback, clientVars, pipeVars, serverVars
<1>12. ASSUME NEW s \in Session, WorkerFails(s) PROVE Alive'
  BY <1>1, <1>10, <1>12 DEF WorkerFails, WorkerExit, clientVars, pipeVars
<1>13. ASSUME NEW s \in Session, WorkerWrite(s) PROVE Alive'
  <2>1. wpc[s] = "write"
    BY <1>13 DEF WorkerWrite
  <2>2. HasRepReader(repfd[s])
    <3>1. PICK c \in Clients : c = s[1]
      BY Ranges
    <3>2. s = Current(c) /\ cpc[c] = "reading" /\ repfd[s] = s
      BY <2>1, <3>1 DEF Alive, Running, ServerShape, Answering, ReplyOwn
    <3>3. rfd[c] = sess[c] /\ s[2] = sess[c]
      BY <3>2 DEF ClientShape, Answering, ReplyNamed, Current
    <3> QED
      BY <3>1, <3>2, <3>3 DEF HasRepReader
  <2> QED
    BY <1>1, <1>10, <1>13, <2>2 DEF WorkerWrite, clientVars, serverVars
<1> QED
  BY <1>3, <1>4, <1>5, <1>6, <1>7, <1>8, <1>9, <1>11, <1>12, <1>13 DEF AcceptStep, WorkerStep

LEMMA AliveEver ==
  ASSUME Calm, Waits, Killable = {}
  PROVE  Spec => []Alive
<1>1. /\ Inv /\ Connecting /\ SoleReader /\ Delivery /\ Answering /\ Alive /\ [Next]_vars
      => Alive'
  <2> SUFFICES ASSUME Inv, Connecting, SoleReader, Delivery, Answering, Alive, [Next]_vars
               PROVE  Alive'
    OBVIOUS
  <2>1. CASE Next
    BY <2>1, AliveClient, AliveServer DEF Next
  <2>2. CASE UNCHANGED vars
    <3>1. UNCHANGED <<cpc, sess, reqq, wpc, acceptq, spc, cur, reqfd>>
      BY <2>2 DEF vars, clientVars, pipeVars, serverVars, workerVars
    <3>2. spc' # "killed" /\ \A d \in Clients : Pending(d)' => Pending(d)
      BY <3>1 DEF Pending, Alive
    <3> QED
      BY <3>1, <3>2, ServerLives
  <2> QED
    BY <2>1, <2>2
<1>2. Spec => [](Connecting /\ SoleReader)
  BY ConnectingEver DEF Calm
<1> QED
  BY <1>1, <1>2, AliveInit, AnsweringEver, DeliveryEver, Invariance, PTL DEF Spec

\* No client that runs the sample program, waits for its replies and is not killed
\* makes the server die of a write to a pipe that has lost its reader: whether or
\* not the programs ignore SIGPIPE, whichever descriptors and threads run out, and
\* however the clients come and go.
THEOREM ServerAlwaysSurvives ==
  ASSUME Calm, Waits, Killable = {}
  PROVE  Spec => []ServerSurvives
<1>1. Alive => ServerSurvives
  BY DEF Alive, ServerSurvives
<1> QED
  BY <1>1, AliveEver, PTL
=============================================================================
