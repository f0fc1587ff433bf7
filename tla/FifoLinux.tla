----------------------------- MODULE FifoLinux -----------------------------
(***************************************************************************)
(* The transport of src/fifo.c: one server process (the accept loop of     *)
(* fifo_server_runforever and one client_fifo_worker thread per accepted   *)
(* client), the client processes that call the fifo_client_* functions,    *)
(* and the kernel's FIFOs between them.                                    *)
(*                                                                         *)
(* A client with pid p owns two FIFOs, "<accept name>.p" (the requests)    *)
(* and "<accept name>.p-read" (the replies).  A name is bound to an inode  *)
(* by mkfifo and unbound by unlink; the inode lives on while somebody has  *)
(* it open.  An inode is written <<c, g>>: the g-th fifo_client_new of     *)
(* process c created it.                                                   *)
(*                                                                         *)
(* One step is one system call that another process or thread can notice.  *)
(* Messages are not larger than PIPE_BUF, so a write is all or nothing,    *)
(* and a worker takes one whole message in a step: this needs that nobody  *)
(* else reads its pipe, which is the property SoleReader.                  *)
(***************************************************************************)
EXTENDS Naturals, Sequences, FiniteSets

CONSTANTS
  Clients,     \* the client processes, each with a pid of its own
  MaxSession,  \* bound: calls of fifo_client_new that one process makes
  MaxReq,      \* bound: requests written in one session
  AcceptCap,   \* connect messages the accept FIFO holds
  PipeCap,     \* messages a request or a reply FIFO holds
  FdMax,       \* descriptors the server process may have open
  Killable,    \* the client processes that may be killed at any moment
  Env          \* what the programs around the library do, and what may fail

EnvOptions ==
  { "sample_loop",      \* clients run main() of examples/fifoclient.c;
                        \* without it they make any sequence of API calls
    "wait_forever",     \* clients pass wait_timeout < 0
    "sigpipe_ignored",  \* the programs ignore SIGPIPE; the default kills
    "silent_callback",  \* pipemsgcb may leave reply.msgsz at 0
    "syscalls_fail",    \* mkfifo and open may fail in a client
    "threads_fail",     \* pthread_create may fail
    "loop_stops",       \* servloopcb may return 0
    "signals",          \* a signal handler may interrupt what blocks: EINTR
    "pids_reused" }     \* a new client gets the pid of one that was killed

ASSUME ConstantsAssumption ==
  /\ MaxSession \in Nat \ {0} /\ MaxReq \in Nat \ {0}
  /\ AcceptCap \in Nat \ {0} /\ PipeCap \in Nat \ {0} /\ FdMax \in Nat
  /\ Killable \subseteq Clients
  /\ Env \subseteq EnvOptions

VARIABLES
  cpc,      \* where each client stands: "out" is outside any session
  sess,     \* the number of the client's session, 0 before the first
  nreq,     \* requests the client wrote in this session
  rfd,      \* client->readfd: generation of the reply inode, 0 when closed
  wfd,      \* client->writefd: generation of the request inode, or 0
  reqFile,  \* generation the name "....pid" is bound to, 0 when unlinked
  repFile,  \* the same for "....pid-read"
  acceptq,  \* connect messages in the accept FIFO
  reqq,     \* messages in each request inode
  repq,     \* messages in each reply inode
  spc,      \* where the accept loop stands
  cur,      \* the session whose connect message it is handling
  reqfd,    \* the server's descriptors: for the session that connected,
  repfd,    \*   the inode opened, NoSession when closed
  wpc,      \* where the worker of a session stands
  wmsg,     \* its pipeinst->request
  served,   \* history: requests given to pipemsgcb by the worker
  got       \* history: replies read in the session

clientVars  == <<cpc, sess, nreq, rfd, wfd>>
fileVars    == <<reqFile, repFile>>
serverVars  == <<spc, cur, reqfd, repfd>>
workerVars  == <<wpc, wmsg, served>>
pipeVars    == <<acceptq, reqq, repq>>
vars == <<clientVars, fileVars, pipeVars, serverVars, workerVars, got>>

Session == Clients \X (1 .. MaxSession)
Current(c) == <<c, sess[c]>>
NoSession == <<>>               \* neither a session nor an inode
Generation == 0 .. MaxSession   \* 0 where there is none
ReqNumber == 0 .. MaxReq

\* A message carries the session that wrote it and its number there: number
\* 0 is the empty message of fifo_client_free.  A reply carries the identity
\* of the request it answers.  The code sees neither; they name the message.
Message == [from : Session, n : ReqNumber]

Request(c, k) == [from |-> Current(c), n |-> k]
IsEof(m) == m.n = 0

Up == spc \in {"select", "openreq", "openrep", "blocked", "spawn"}
Running(s) == wpc[s] \in {"select", "callback", "write"}

\* Who has the read end of a FIFO open.  The server opens a request pipe and
\* the client its reply pipe O_RDWR, so neither ever reads end of file.
ReqReaders(p) == {s \in Session : reqfd[s] = p}
HasRepReader(p) == rfd[p[1]] = p[2]

ServerFds == 1 + Cardinality({s \in Session : reqfd[s] # NoSession})
               + Cardinality({s \in Session : repfd[s] # NoSession})

Goto(c, l) == cpc' = [cpc EXCEPT ![c] = l]

\* The kernel closes what a process has open when it ends; names stay.
Die(c) ==
  /\ Goto(c, "dead")
  /\ rfd' = [rfd EXCEPT ![c] = 0]
  /\ wfd' = [wfd EXCEPT ![c] = 0]
  /\ UNCHANGED <<sess, nreq, fileVars, pipeVars, serverVars, workerVars, got>>

Init ==
  /\ cpc  = [c \in Clients |-> "out"]
  /\ sess = [c \in Clients |-> 0]
  /\ nreq = [c \in Clients |-> 0]
  /\ rfd  = [c \in Clients |-> 0]
  /\ wfd  = [c \in Clients |-> 0]
  /\ reqFile = [c \in Clients |-> 0]
  /\ repFile = [c \in Clients |-> 0]
  /\ acceptq = <<>>
  /\ reqq = [s \in Session |-> <<>>]
  /\ repq = [s \in Session |-> <<>>]
  /\ spc = "off"
  /\ cur = NoSession
  /\ reqfd = [s \in Session |-> NoSession]
  /\ repfd = [s \in Session |-> NoSession]
  /\ wpc = [s \in Session |-> "none"]
  /\ wmsg = [s \in Session |-> [from |-> s, n |-> 0]]
  /\ served = [s \in Session |-> <<>>]
  /\ got = [s \in Session |-> <<>>]

-----------------------------------------------------------------------------
(* fifo_client_new *)

\* Where a process with the pid of c may call fifo_client_new.
Outside == IF "pids_reused" \in Env THEN {"out", "dead"} ELSE {"out"}

\* mkfifo(".pid").  EEXIST is not an error: a leftover name is used as it is.
MkRequestPipe(c) ==
  /\ cpc[c] \in Outside /\ sess[c] < MaxSession
  /\ sess' = [sess EXCEPT ![c] = @ + 1]
  /\ nreq' = [nreq EXCEPT ![c] = 0]
  /\ reqFile' = [reqFile EXCEPT ![c] = IF @ = 0 THEN sess'[c] ELSE @]
  /\ Goto(c, "mkrep")
  /\ UNCHANGED <<rfd, wfd, repFile, pipeVars, serverVars, workerVars, got>>

\* mkfifo(".pid-read")
MkReplyPipe(c) ==
  /\ cpc[c] = "mkrep"
  /\ repFile' = [repFile EXCEPT ![c] = IF @ = 0 THEN sess[c] ELSE @]
  /\ Goto(c, "openrep")
  /\ UNCHANGED <<sess, nreq, rfd, wfd, reqFile, pipeVars, serverVars, workerVars, got>>

\* open(".pid-read", O_NONBLOCK|O_RDWR) releases a server blocked on it.
OpenReplyEnd(c) ==
  /\ cpc[c] = "openrep"
  /\ rfd' = [rfd EXCEPT ![c] = repFile[c]]
  /\ spc' = IF spc = "blocked" /\ repfd[cur] = <<c, repFile[c]>> THEN "spawn" ELSE spc
  /\ Goto(c, "openacc")
  /\ UNCHANGED <<sess, nreq, wfd, fileVars, pipeVars, cur, reqfd, repfd, workerVars, got>>

\* open(accept FIFO, O_WRONLY) blocks until a server has it open.
OpenAccept(c) ==
  /\ cpc[c] = "openacc" /\ Up
  /\ Goto(c, "connect")
  /\ UNCHANGED <<sess, nreq, rfd, wfd, fileVars, pipeVars, serverVars, workerVars, got>>

\* The failures of fifo_client_new.  A failed mkfifo of the reply pipe leaves
\* the request pipe behind; the later ones go through fifo_client_free, with
\* client->writefd still 0.  The accept FIFO exists from fifo_server_new until
\* the exit handler of the server unlinks it.
NewFails(c) ==
  /\ \/ /\ cpc[c] = "mkrep" /\ repFile[c] = 0 /\ "syscalls_fail" \in Env
        /\ Goto(c, "out")
        /\ UNCHANGED rfd
     \/ /\ \/ cpc[c] \in {"openrep", "openacc"} /\ "syscalls_fail" \in Env
           \/ cpc[c] = "openacc" /\ spc \in {"off", "exited"}
           \/ cpc[c] = "openreq" /\ "signals" \in Env
        /\ rfd' = [rfd EXCEPT ![c] = 0]
        /\ Goto(c, "unlink")
  /\ UNCHANGED <<sess, nreq, wfd, fileVars, pipeVars, serverVars, workerVars, got>>

\* write(the ".pid" suffix) to the accept FIFO, then close it.
SendConnect(c) ==
  /\ cpc[c] = "connect"
  /\ \/ /\ Up /\ Len(acceptq) < AcceptCap
        /\ acceptq' = Append(acceptq, Current(c))
        /\ Goto(c, "opening")
        /\ UNCHANGED <<sess, nreq, rfd, wfd, fileVars, reqq, repq, serverVars, workerVars, got>>
     \/ /\ ~Up /\ "sigpipe_ignored" \notin Env
        /\ Die(c)
     \/ /\ \/ ~Up /\ "sigpipe_ignored" \in Env
           \/ Up /\ Len(acceptq) >= AcceptCap /\ "signals" \in Env
        /\ rfd' = [rfd EXCEPT ![c] = 0]
        /\ Goto(c, "unlink")
        /\ UNCHANGED <<sess, nreq, wfd, fileVars, pipeVars, serverVars, workerVars, got>>

\* open(".pid", O_WRONLY) blocks here until the server opens the pipe; a
\* writer that waits is released by any open of the read end (OpenRequest).
OpenRequestEnd(c) ==
  /\ cpc[c] = "opening"
  /\ Goto(c, IF ReqReaders(<<c, reqFile[c]>>) # {} THEN "opened" ELSE "openreq")
  /\ UNCHANGED <<sess, nreq, rfd, wfd, fileVars, pipeVars, serverVars, workerVars, got>>

\* fifo_client_new returns FIFO_S_OK.
Connected(c) ==
  /\ cpc[c] = "opened"
  /\ wfd' = [wfd EXCEPT ![c] = reqFile[c]]
  /\ Goto(c, "idle")
  /\ UNCHANGED <<sess, nreq, rfd, fileVars, pipeVars, serverVars, workerVars, got>>

-----------------------------------------------------------------------------
(* fifo_client_write, fifo_client_read and fifo_client_free *)

\* A write on the request pipe blocks while it is full.  With no reader it
\* raises SIGPIPE, or fails with EPIPE where the program ignores the signal.
WritePipe(c, m, ok, failed) ==
  LET p == <<c, wfd[c]>> IN
  \/ /\ ReqReaders(p) # {} /\ Len(reqq[p]) < PipeCap
     /\ reqq' = [reqq EXCEPT ![p] = Append(@, m)]
     /\ nreq' = [nreq EXCEPT ![c] = IF IsEof(m) THEN @ ELSE m.n]
     /\ Goto(c, ok)
     /\ UNCHANGED <<sess, rfd, wfd, fileVars, acceptq, repq, serverVars, workerVars, got>>
  \/ /\ ReqReaders(p) = {} /\ "sigpipe_ignored" \notin Env
     /\ Die(c)
  \/ /\ \/ ReqReaders(p) = {} /\ "sigpipe_ignored" \in Env
        \/ ReqReaders(p) # {} /\ Len(reqq[p]) >= PipeCap /\ "signals" \in Env
     /\ Goto(c, failed)
     /\ UNCHANGED <<sess, nreq, rfd, wfd, fileVars, pipeVars, serverVars, workerVars, got>>

BeginWrite(c) ==
  /\ cpc[c] = "idle" /\ nreq[c] < MaxReq
  /\ Goto(c, "writing")
  /\ UNCHANGED <<sess, nreq, rfd, wfd, fileVars, pipeVars, serverVars, workerVars, got>>

\* The sample program reads after each write that succeeded and leaves its
\* loop after one that failed.
Write(c) ==
  /\ cpc[c] = "writing"
  /\ IF "sample_loop" \in Env
       THEN WritePipe(c, Request(c, nreq[c] + 1), "reading", "failed")
       ELSE WritePipe(c, Request(c, nreq[c] + 1), "idle", "idle")

BeginRead(c) ==
  /\ cpc[c] = "idle" /\ "sample_loop" \notin Env
  /\ Goto(c, "reading")
  /\ UNCHANGED <<sess, nreq, rfd, wfd, fileVars, pipeVars, serverVars, workerVars, got>>

\* read(readfd, msg, sizeof(*msg)) takes every byte that waits, up to 4096:
\* PipeCap small replies fit.  The size in their headers is not looked at.
Read(c) ==
  LET p == <<c, rfd[c]>> IN
  /\ cpc[c] = "reading" /\ repq[p] # <<>>
  /\ got' = [got EXCEPT ![Current(c)] = @ \o repq[p]]
  /\ repq' = [repq EXCEPT ![p] = <<>>]
  /\ Goto(c, "idle")
  /\ UNCHANGED <<sess, nreq, rfd, wfd, fileVars, acceptq, reqq, serverVars, workerVars>>

\* A client that treats a negative wait_timeout as an ordinary one.
ReadTimeout_NegativeWaits(c) ==
  /\ cpc[c] = "reading" /\ repq[<<c, rfd[c]>>] = <<>>
  /\ Goto(c, "idle")
  /\ UNCHANGED <<sess, nreq, rfd, wfd, fileVars, pipeVars, serverVars, workerVars, got>>

\* select() returns 0, FIFO_E_TIMEOUT, or fails, FIFO_E_FAILED.  The request
\* stays unanswered.
ReadTimeout(c) ==
  /\ cpc[c] = "reading" /\ repq[<<c, rfd[c]>>] = <<>>
  /\ "wait_forever" \notin Env \/ "signals" \in Env
  /\ Goto(c, "idle")
  /\ UNCHANGED <<sess, nreq, rfd, wfd, fileVars, pipeVars, serverVars, workerVars, got>>

\* fifo_client_free starts with close(readfd).  The sample program calls it
\* when its loop ends.
BeginFree(c) ==
  /\ cpc[c] \in {"idle", "failed"}
  /\ "sample_loop" \in Env => nreq[c] = MaxReq \/ cpc[c] = "failed"
  /\ rfd' = [rfd EXCEPT ![c] = 0]
  /\ Goto(c, "eof")
  /\ UNCHANGED <<sess, nreq, wfd, fileVars, pipeVars, serverVars, workerVars, got>>

\* A fifo_client_free that closes the pipe without the empty message.
SendEof_Skipped(c) ==
  /\ cpc[c] = "eof"
  /\ Goto(c, "unlink")
  /\ UNCHANGED <<sess, nreq, rfd, wfd, fileVars, pipeVars, serverVars, workerVars, got>>

\* fifo_client_write of a zeroed message, whatever becomes of it
SendEof(c) ==
  /\ cpc[c] = "eof"
  /\ WritePipe(c, Request(c, 0), "unlink", "unlink")

\* A fifo_client_free that forgets the name of the request pipe.
UnlinkRequest_Forgotten(c) ==
  /\ cpc[c] = "unlink"
  /\ wfd' = [wfd EXCEPT ![c] = 0]
  /\ Goto(c, "unlinkrep")
  /\ UNCHANGED <<sess, nreq, rfd, fileVars, pipeVars, serverVars, workerVars, got>>

\* close(writefd); unlink(".pid")
UnlinkRequest(c) ==
  /\ cpc[c] = "unlink"
  /\ wfd' = [wfd EXCEPT ![c] = 0]
  /\ reqFile' = [reqFile EXCEPT ![c] = 0]
  /\ Goto(c, "unlinkrep")
  /\ UNCHANGED <<sess, nreq, rfd, repFile, pipeVars, serverVars, workerVars, got>>

\* unlink(".pid-read"); mem_free
UnlinkReply(c) ==
  /\ cpc[c] = "unlinkrep"
  /\ repFile' = [repFile EXCEPT ![c] = 0]
  /\ Goto(c, "out")
  /\ UNCHANGED <<sess, nreq, rfd, wfd, reqFile, pipeVars, serverVars, workerVars, got>>

Kill(c) ==
  /\ c \in Killable /\ cpc[c] \notin {"out", "dead"}
  /\ Die(c)

-----------------------------------------------------------------------------
(* fifo_server_new and the accept loop of fifo_server_runforever *)

\* mkfifo and open(O_NONBLOCK|O_RDWR) of the accept FIFO; where they fail the
\* program ends and the server stays off.
ServerNew ==
  /\ spc = "off"
  /\ spc' = "select"
  /\ UNCHANGED <<clientVars, fileVars, pipeVars, cur, reqfd, repfd, workerVars, got>>

\* select() returns 1 and readpipemsg_nb takes one connect message.  With
\* select() returning 0 the loop only goes round.
Accept ==
  /\ spc = "select" /\ acceptq # <<>>
  /\ cur' = Head(acceptq)
  /\ acceptq' = Tail(acceptq)
  /\ spc' = "openreq"
  /\ UNCHANGED <<clientVars, fileVars, reqq, repq, reqfd, repfd, workerVars, got>>

\* The loop goes round: `continue`, or the end of its body.
NextConnect == spc' = "select" /\ cur' = NoSession

\* requestfd = open(".pid", O_NONBLOCK|O_RDWR): this is what a client blocked
\* in fifo_client_new waits for.
OpenRequest ==
  LET c == cur[1] IN
  /\ spc = "openreq"
  /\ \/ /\ reqFile[c] # 0 /\ ServerFds < FdMax
        /\ reqfd' = [reqfd EXCEPT ![cur] = <<c, reqFile[c]>>]
        /\ spc' = "openrep"
        /\ cpc' = IF cpc[c] = "openreq" THEN [cpc EXCEPT ![c] = "opened"] ELSE cpc
        /\ UNCHANGED cur
     \/ /\ reqFile[c] = 0 \/ ServerFds >= FdMax
        /\ NextConnect
        /\ UNCHANGED <<cpc, reqfd>>
  /\ UNCHANGED <<sess, nreq, rfd, wfd, fileVars, pipeVars, repfd, workerVars, got>>

\* The error path of the second open without its close(requestfd).
OpenReplyFails_Leaks ==
  /\ \/ spc = "openrep" /\ (repFile[cur[1]] = 0 \/ ServerFds >= FdMax)
     \/ spc = "blocked" /\ "signals" \in Env
  /\ NextConnect
  /\ UNCHANGED <<clientVars, fileVars, pipeVars, reqfd, repfd, workerVars, got>>

\* The name is gone, no descriptor is left, or a signal ends the wait.
OpenReplyFails ==
  /\ \/ spc = "openrep" /\ (repFile[cur[1]] = 0 \/ ServerFds >= FdMax)
     \/ spc = "blocked" /\ "signals" \in Env
  /\ reqfd' = [reqfd EXCEPT ![cur] = NoSession]
  /\ repfd' = [repfd EXCEPT ![cur] = NoSession]
  /\ NextConnect
  /\ UNCHANGED <<clientVars, fileVars, pipeVars, workerVars, got>>

\* The reply pipe opened under a name that another client left in the buffer.
OpenReply_StaleName ==
  /\ spc = "openrep" /\ ServerFds < FdMax
  /\ \E c \in Clients :
       /\ repFile[c] # 0
       /\ repfd' = [repfd EXCEPT ![cur] = <<c, repFile[c]>>]
       /\ spc' = IF HasRepReader(<<c, repFile[c]>>) THEN "spawn" ELSE "blocked"
  /\ UNCHANGED <<clientVars, fileVars, pipeVars, cur, reqfd, workerVars, got>>

\* replyfd = open(".pid-read", O_WRONLY): a blocking open, which waits while
\* no process reads that pipe.
OpenReply ==
  LET c == cur[1] IN
  /\ spc = "openrep" /\ repFile[c] # 0 /\ ServerFds < FdMax
  /\ repfd' = [repfd EXCEPT ![cur] = <<c, repFile[c]>>]
  /\ spc' = IF HasRepReader(<<c, repFile[c]>>) THEN "spawn" ELSE "blocked"
  /\ UNCHANGED <<clientVars, fileVars, pipeVars, cur, reqfd, workerVars, got>>

\* pipe_instance_new and pthread_create.  pthread_create reports a failure
\* with a positive number, which the comparison with -1 does not catch: the
\* loop goes on and both descriptors stay open for good.
Spawn ==
  /\ spc = "spawn"
  /\ \/ wpc' = [wpc EXCEPT ![cur] = "select"]
     \/ "threads_fail" \in Env /\ UNCHANGED wpc
  /\ NextConnect
  /\ UNCHANGED <<clientVars, fileVars, pipeVars, reqfd, repfd, wmsg, served, got>>

\* The server process ends: the kernel closes its descriptors.
ServerEnds(how) ==
  /\ spc' = how
  /\ cur' = NoSession
  /\ reqfd' = [s \in Session |-> NoSession]
  /\ repfd' = [s \in Session |-> NoSession]
  /\ wpc' = [s \in Session |-> IF Running(s) THEN "killed" ELSE wpc[s]]
  /\ UNCHANGED <<clientVars, fileVars, pipeVars, wmsg, served, got>>

\* servloopcb returned 0 or select() failed: exit(), and the handler that the
\* sample server registers unlinks the accept FIFO.
LoopStops ==
  /\ spc = "select" /\ Env \cap {"loop_stops", "signals"} # {}
  /\ ServerEnds("exited")

-----------------------------------------------------------------------------
(* client_fifo_worker of the session s *)

\* pipe_instance_free
WorkerExit(s) ==
  /\ wpc' = [wpc EXCEPT ![s] = "done"]
  /\ reqfd' = [reqfd EXCEPT ![s] = NoSession]
  /\ repfd' = [repfd EXCEPT ![s] = NoSession]

\* A worker that takes the 0 of a select() that timed out for 1: where the
\* pipe is empty it goes on with what its buffer still holds.
WorkerRead_ZeroIsReady(s) ==
  LET q == reqq[reqfd[s]]
      m == IF q = <<>> THEN wmsg[s] ELSE Head(q) IN
  /\ wpc[s] = "select"
  /\ wmsg' = [wmsg EXCEPT ![s] = m]
  /\ reqq' = [reqq EXCEPT ![reqfd[s]] = IF q = <<>> THEN q ELSE Tail(q)]
  /\ IF IsEof(m)
       THEN WorkerExit(s)
       ELSE wpc' = [wpc EXCEPT ![s] = "callback"] /\ UNCHANGED <<reqfd, repfd>>
  /\ UNCHANGED <<clientVars, fileVars, acceptq, repq, spc, cur, served, got>>

\* select() and readpipemsg_nb
WorkerRead(s) ==
  LET p == reqfd[s] IN
  /\ wpc[s] = "select" /\ reqq[p] # <<>>
  /\ wmsg' = [wmsg EXCEPT ![s] = Head(reqq[p])]
  /\ reqq' = [reqq EXCEPT ![p] = Tail(@)]
  /\ IF IsEof(Head(reqq[p]))
       THEN WorkerExit(s)
       ELSE wpc' = [wpc EXCEPT ![s] = "callback"] /\ UNCHANGED <<reqfd, repfd>>
  /\ UNCHANGED <<clientVars, fileVars, acceptq, repq, spc, cur, served, got>>

\* A worker that clears reply.msgsz after the callback and not before it.
Callback_ClearsReply(s) ==
  /\ wpc[s] = "callback"
  /\ served' = [served EXCEPT ![s] = Append(@, wmsg[s])]
  /\ wpc' = [wpc EXCEPT ![s] = "select"]
  /\ UNCHANGED <<clientVars, fileVars, pipeVars, serverVars, wmsg, got>>

\* pipemsgcb; with reply.msgsz left at 0 the worker writes nothing.
Callback(s) ==
  /\ wpc[s] = "callback"
  /\ served' = [served EXCEPT ![s] = Append(@, wmsg[s])]
  /\ \/ wpc' = [wpc EXCEPT ![s] = "write"]
     \/ "silent_callback" \in Env /\ wpc' = [wpc EXCEPT ![s] = "select"]
  /\ UNCHANGED <<clientVars, fileVars, pipeVars, serverVars, wmsg, got>>

\* write(replyfd): blocks while the pipe is full.  With no reader it raises
\* SIGPIPE and ends the server, unless that is ignored.
WorkerWrite(s) ==
  LET p == repfd[s] IN
  /\ wpc[s] = "write"
  /\ \/ /\ HasRepReader(p) /\ Len(repq[p]) < PipeCap
        /\ repq' = [repq EXCEPT ![p] = Append(@, wmsg[s])]
        /\ wpc' = [wpc EXCEPT ![s] = "select"]
        /\ UNCHANGED <<clientVars, fileVars, acceptq, reqq, serverVars, wmsg, served, got>>
     \/ /\ ~HasRepReader(p) /\ "sigpipe_ignored" \notin Env
        /\ ServerEnds("killed")

\* select() or write() fails: the worker ends.
WorkerFails(s) ==
  LET p == repfd[s] IN
  /\ \/ wpc[s] = "write" /\ ~HasRepReader(p) /\ "sigpipe_ignored" \in Env
     \/ wpc[s] = "write" /\ HasRepReader(p) /\ Len(repq[p]) >= PipeCap /\ "signals" \in Env
     \/ wpc[s] = "select" /\ "signals" \in Env
  /\ WorkerExit(s)
  /\ UNCHANGED <<clientVars, fileVars, pipeVars, spc, cur, wmsg, served, got>>

-----------------------------------------------------------------------------
ClientCall(c) ==
  \/ MkRequestPipe(c) \/ BeginWrite(c) \/ BeginRead(c) \/ BeginFree(c)

ClientStep(c) ==
  \/ MkReplyPipe(c) \/ OpenReplyEnd(c) \/ OpenAccept(c) \/ NewFails(c)
  \/ SendConnect(c) \/ OpenRequestEnd(c) \/ Connected(c)
  \/ Write(c) \/ Read(c) \/ ReadTimeout(c)
  \/ SendEof(c) \/ UnlinkRequest(c) \/ UnlinkReply(c)

AcceptStep ==
  Accept \/ OpenRequest \/ OpenReply \/ OpenReplyFails \/ Spawn

WorkerStep(s) ==
  WorkerRead(s) \/ Callback(s) \/ WorkerWrite(s) \/ WorkerFails(s)

Next ==
  \/ \E c \in Clients : ClientCall(c) \/ ClientStep(c) \/ Kill(c)
  \/ ServerNew \/ AcceptStep \/ LoopStops
  \/ \E s \in Session : WorkerStep(s)

Spec == Init /\ [][Next]_vars

\* The scheduler runs every thread that is not blocked.  When a program makes
\* its next call, when a client is killed and whether the server is started
\* or stopped is left open.  With "signals" this would make every wait end by
\* an interruption: the liveness properties are for an Env without it.
Fairness ==
  /\ \A c \in Clients : WF_vars(ClientStep(c))
  /\ WF_vars(AcceptStep)
  /\ \A s \in Session : WF_vars(WorkerStep(s))

FairSpec == Spec /\ Fairness

-----------------------------------------------------------------------------
(* Invariants *)

ClientType ==
  /\ cpc \in [Clients -> {"out", "mkrep", "openrep", "openacc", "connect", "opening",
                          "openreq", "opened", "idle", "writing", "reading", "failed",
                          "eof", "unlink", "unlinkrep", "dead"}]
  /\ sess \in [Clients -> Generation] /\ nreq \in [Clients -> ReqNumber]
  /\ rfd \in [Clients -> Generation] /\ wfd \in [Clients -> Generation]

FileType ==
  reqFile \in [Clients -> Generation] /\ repFile \in [Clients -> Generation]

PipeType ==
  /\ acceptq \in Seq(Session)
  /\ reqq \in [Session -> Seq(Message)] /\ repq \in [Session -> Seq(Message)]

ServerType ==
  /\ spc \in {"off", "select", "openreq", "openrep", "blocked", "spawn", "exited", "killed"}
  /\ cur \in Session \cup {NoSession}
  /\ reqfd \in [Session -> Session \cup {NoSession}]
  /\ repfd \in [Session -> Session \cup {NoSession}]

WorkerType ==
  /\ wpc \in [Session -> {"none", "select", "callback", "write", "done", "killed"}]
  /\ wmsg \in [Session -> Message] /\ served \in [Session -> Seq(Message)]

\* The types of the state: what the generations, queues and program counters
\* of fifo_client_t, fifo_server_t and pipe_instance_t range over.
TypeOK ==
  /\ ClientType /\ FileType /\ PipeType /\ ServerType /\ WorkerType
  /\ got \in [Session -> Seq(Message)]

\* No two workers ever read the same request pipe, however a client connects,
\* leaves and connects again: readpipemsg_nb takes a message in two reads and
\* would hand a part of it to each of them.
SoleReader ==
  \A s, t \in Session : s # t /\ reqfd[s] # NoSession => reqfd[s] # reqfd[t]

\* fifo_client_new gets past its blocking open only when the server has opened
\* the pipe for this connect message: no leftover name or worker releases it.
OpenedByServer ==
  \A c \in Clients :
    cpc[c] \in {"opened", "idle", "writing", "reading", "failed", "eof"} =>
      /\ \A i \in DOMAIN acceptq : acceptq[i] # Current(c)
      /\ spc = "openreq" => cur # Current(c)

\* A reply is only ever read by the process whose request it answers: the
\* names the server derives from a connect message lead back to its sender.
NoCrossTalk ==
  \A s \in Session : \A i \in DOMAIN got[s] : got[s][i].from[1] = s[1]

\* A worker hands its callback the requests of the session that connected,
\* from the first, in order, none lost or twice, and of no other session.
ServedInOrder ==
  \A s \in Session : \A i \in DOMAIN served[s] :
    served[s][i] = [from |-> s, n |-> i]

\* Every descriptor the server holds belongs to the connection that the
\* accept loop is setting up or to a worker that runs: none outlives them.
FdOwned ==
  \A s \in Session :
    reqfd[s] # NoSession \/ repfd[s] # NoSession =>
      Running(s) \/ (cur = s /\ spc \in {"openrep", "blocked", "spawn"})

Left(s) ==
  LET c == s[1] IN
  /\ cpc[c] # "dead"
  /\ sess[c] > s[2] \/ (sess[c] = s[2] /\ cpc[c] \in {"unlink", "unlinkrep", "out"})

\* When a client left by fifo_client_free and the server still has its pipe
\* open, the empty message waits in the pipe: the server's own O_RDWR open
\* hides the end of file, so nothing else would ever tell the worker.
OrphanHasEof ==
  \A s \in Session :
    Left(s) /\ reqfd[s] # NoSession =>
      \E i \in DOMAIN reqq[reqfd[s]] : reqq[reqfd[s]][i] = [from |-> s, n |-> 0]

\* The i-th reply that a session reads answers its i-th request: a program
\* that writes and reads in turn never gets the answer to something else.
RepliesMatch ==
  \A s \in Session : \A i \in DOMAIN got[s] : got[s][i] = [from |-> s, n |-> i]

\* No client can make the server process die of a write to a pipe that has
\* lost its reader: fifo_server_runforever runs until its loop is stopped.
ServerSurvives == spc # "killed"

-----------------------------------------------------------------------------
(* Action and liveness properties *)

\* One fifo_client_read returns one reply.
OneReplyPerRead ==
  [][\A s \in Session : Len(got'[s]) <= Len(got[s]) + 1]_vars

\* A client that has sent its connect message comes out of the blocking open
\* of fifo_client_new: the server opens its pipe.
ConnectCompletes ==
  \A c \in Clients : cpc[c] \in {"opening", "openreq"} ~> cpc[c] = "idle"

\* A request that is written is answered, and its reply read.
RequestAnswered ==
  \A c \in Clients : cpc[c] = "writing" ~> cpc[c] = "idle"

\* The worker of a client that left closes its pipes and ends.
WorkerReaped ==
  \A s \in Session : Running(s) /\ Left(s) ~> ~Running(s)

\* A session goes through to its end, one reply to a read.
SessionsComplete ==
  OneReplyPerRead /\ ConnectCompletes /\ RequestAnswered /\ WorkerReaped

\* The accept loop gets back to its select(), whatever its client does.
AcceptLoopReturns == spc = "openrep" ~> spc \in {"select", "exited", "killed"}

=============================================================================
