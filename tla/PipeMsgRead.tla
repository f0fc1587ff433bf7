---------------------------- MODULE PipeMsgRead ----------------------------
(***************************************************************************)
(* The loop that a worker and the accept loop of src/fifo.c make around    *)
(* readpipemsg_nb: select() with a timeout, and once it finds the pipe     *)
(* ready, the size of a message and then its body, read by read.           *)
(*                                                                         *)
(* The struct timeval of a reader is filled in once and passed to every    *)
(* select(); Linux writes back to it what is left of the time.  Time counts *)
(* only in select().  fifo_client_read uses its timeval in the same way.   *)
(*                                                                         *)
(* A message is written at once (it is not larger than PIPE_BUF) as a run  *)
(* of cells: cell 0 holds msgsz, the others a part of msgbuf each.  A pipe *)
(* with one reader is the request pipe of a worker, or the accept FIFO of  *)
(* the only server.  A second reader is a second server that was started   *)
(* on the name, which fifo_server_new allows: mkfifo may say EEXIST.       *)
(***************************************************************************)
EXTENDS Integers, Sequences

CONSTANTS
  Readers,   \* the threads that may come to read this pipe
  MaxMsg,    \* bound: messages written
  MaxBody,   \* cells of the longest body
  PipeCells, \* cells the pipe holds
  Timeouts,  \* the timeouts each reader may be given: a function of Readers,
             \* where a negative one is FIFO_TIME_INFINITE
  MaxWait    \* bound: the ticks for which an endless wait is followed

ASSUME PipeAssumption ==
  /\ MaxMsg \in Nat /\ MaxBody \in Nat \ {0} /\ PipeCells \in Nat
  /\ Timeouts \in [Readers -> SUBSET Int] /\ MaxWait \in Nat

VARIABLES
  pipe,      \* the cells that were written and not read
  size,      \* msgsz of each message written so far
  pc,        \* where each reader stands
  msgsz,     \* msg->msgsz in its buffer
  buf,       \* the cells this call has put into its buffer
  result,    \* history: the cells that each call which returned 0 had read
  asked,     \* the timeout each reader was given
  left,      \* its timeval: the ticks left of it, or -1
  spent      \* history: the ticks it spent in select()

pipeVars == <<pipe, size, msgsz, buf, result>>
timeVars == <<asked, left, spent>>
vars == <<pipeVars, timeVars, pc>>

Cell == [m : 1 .. MaxMsg, k : 0 .. MaxBody]
Cells(m, n) == [i \in 1 .. n + 1 |-> [m |-> m, k |-> i - 1]]

\* The size that a reader finds where it expects one: that of the message, or
\* whatever a part of a body amounts to as a number.
SizesAt(cell) == IF cell.k = 0 THEN {size[cell.m]} ELSE 0 .. MaxBody

\* A conversion that takes FIFO_TIME_NOWAIT, 0, for infinite as well.
Timeval_ZeroIsInfinite(ms) == IF ms <= 0 THEN -1 ELSE ms

\* tv_sec = -1 for a negative timeout; otherwise seconds and microseconds,
\* which add up to the milliseconds that were passed.
Timeval(ms) == IF ms < 0 THEN -1 ELSE ms

\* A worker's buffer starts zeroed; the accept loop's is not initialised.
Init ==
  /\ pipe = <<>> /\ size = <<>> /\ result = <<>>
  /\ pc = [r \in Readers |-> "off"]
  /\ msgsz \in [Readers -> 0 .. MaxBody]
  /\ buf = [r \in Readers |-> <<>>]
  /\ asked \in {f \in [Readers -> UNION {Timeouts[r] : r \in Readers}] :
                  \A r \in Readers : f[r] \in Timeouts[r]}
  /\ left = [r \in Readers |-> Timeval(asked[r])]
  /\ spent = [r \in Readers |-> 0]

\* A worker that cuts what it writes, and leaves msgsz as the callback set it.
WriteReply_StaleSize ==
  /\ Len(size) < MaxMsg
  /\ \E n \in 1 .. MaxBody + 2 :
       LET cut == IF n > MaxBody THEN MaxBody ELSE n IN
       /\ Len(pipe) + cut + 1 <= PipeCells
       /\ pipe' = pipe \o Cells(Len(size) + 1, cut)
       /\ size' = Append(size, n)
  /\ UNCHANGED <<timeVars, pc, msgsz, buf, result>>

\* fifo_client_write of a message that fits its buffer; it blocks while there
\* is no room for all of it.
Write ==
  /\ Len(size) < MaxMsg
  /\ \E n \in 0 .. MaxBody :
       /\ Len(pipe) + n + 1 <= PipeCells
       /\ pipe' = pipe \o Cells(Len(size) + 1, n)
       /\ size' = Append(size, n)
  /\ UNCHANGED <<timeVars, pc, msgsz, buf, result>>

\* The worker's write of a reply that the callback gave any size: a larger
\* one is cut, and msgsz with it, so that the header tells what is written.
WriteReply ==
  /\ Len(size) < MaxMsg
  /\ \E n \in 1 .. MaxBody + 2 :
       LET cut == IF n > MaxBody THEN MaxBody ELSE n IN
       /\ Len(pipe) + cut + 1 <= PipeCells
       /\ pipe' = pipe \o Cells(Len(size) + 1, cut)
       /\ size' = Append(size, cut)
  /\ UNCHANGED <<timeVars, pc, msgsz, buf, result>>

\* fifo_server_new, whether it made the FIFO or found it there, or a worker
\* that starts: one thread more reads from the pipe.
Open(r) ==
  /\ pc[r] = "off"
  /\ pc' = [pc EXCEPT ![r] = "select"]
  /\ UNCHANGED <<pipeVars, timeVars>>

Sole == \A r, s \in Readers : pc[r] # "off" /\ pc[s] # "off" => r = s

\* readpipemsg_nb returns 0; an error, -1, needs a pipe that all have closed.
Success(r, cells) ==
  /\ result' = Append(result, cells)
  /\ pc' = [pc EXCEPT ![r] = "select"]
  /\ buf' = [buf EXCEPT ![r] = <<>>]

\* select() returns 1 while there is something to read.
Select(r) ==
  /\ pc[r] = "select" /\ pipe # <<>>
  /\ pc' = [pc EXCEPT ![r] = "header"]
  /\ UNCHANGED <<pipeVars, timeVars>>

\* Time passes in select().
Tick(r) ==
  /\ pc[r] = "select" /\ pipe = <<>> /\ left[r] # 0
  /\ left[r] < 0 => spent[r] < MaxWait
  /\ left' = [left EXCEPT ![r] = IF @ > 0 THEN @ - 1 ELSE @]
  /\ spent' = [spent EXCEPT ![r] = @ + 1]
  /\ UNCHANGED <<pipeVars, asked, pc>>

\* select() returns 0, and its owner comes to call it again.
Expire(r) ==
  /\ pc[r] = "select" /\ pipe = <<>> /\ left[r] = 0
  /\ pc' = [pc EXCEPT ![r] = "expired"]
  /\ UNCHANGED <<pipeVars, timeVars>>

CallAgain(r) ==
  /\ pc[r] = "expired"
  /\ pc' = [pc EXCEPT ![r] = "select"]
  /\ UNCHANGED <<pipeVars, timeVars>>

\* read(fd, msg, sizeof(msg->msgsz))
ReadHeader(r) ==
  /\ pc[r] = "header" /\ pipe # <<>>
  /\ pipe' = Tail(pipe)
  /\ \E n \in SizesAt(Head(pipe)) :
       /\ msgsz' = [msgsz EXCEPT ![r] = n]
       /\ IF n = 0
            THEN Success(r, <<Head(pipe)>>)
            ELSE /\ pc' = [pc EXCEPT ![r] = "body"]
                 /\ buf' = [buf EXCEPT ![r] = <<Head(pipe)>>]
                 /\ UNCHANGED result
  /\ UNCHANGED <<timeVars, size>>

\* EAGAIN: `continue` evaluates the condition of the loop, offset is -1 and not
\* 0, and the loop ends.  msgsz is what an earlier call left in the buffer: 0
\* is taken for a message that was read; with another value the body is read
\* to an address in front of the buffer, and nothing is known any more.
HeaderAgain(r) ==
  /\ pc[r] = "header" /\ pipe = <<>>
  /\ IF msgsz[r] = 0
       THEN Success(r, <<>>)
       ELSE pc' = [pc EXCEPT ![r] = "undefined"] /\ UNCHANGED <<buf, result>>
  /\ UNCHANGED <<timeVars, pipe, size, msgsz>>

\* A second read that asks for msgsz bytes too many, the size of the header.
ReadBody_HeaderTwice(r) ==
  LET n == msgsz[r] + 2 - Len(buf[r])
      take == SubSeq(pipe, 1, n) IN
  /\ pc[r] = "body" /\ Len(pipe) >= n
  /\ pipe' = SubSeq(pipe, n + 1, Len(pipe))
  /\ Success(r, buf[r] \o take)
  /\ UNCHANGED <<timeVars, size, msgsz>>

\* read(fd, msg + offset, msgsize - offset), again and again until the whole
\* message is there; EAGAIN is a step that changes nothing.
ReadBody(r) ==
  LET want == msgsz[r] + 1 - Len(buf[r])
      n == IF Len(pipe) < want THEN Len(pipe) ELSE want
      now == buf[r] \o SubSeq(pipe, 1, n) IN
  /\ pc[r] = "body" /\ pipe # <<>>
  /\ pipe' = SubSeq(pipe, n + 1, Len(pipe))
  /\ IF n = want
       THEN Success(r, now)
       ELSE buf' = [buf EXCEPT ![r] = now] /\ UNCHANGED <<pc, result>>
  /\ UNCHANGED <<timeVars, size, msgsz>>

Read(r) == ReadHeader(r) \/ HeaderAgain(r) \/ ReadBody(r)

Next ==
  \/ Write \/ WriteReply
  \/ \E r \in Readers :
       Open(r) \/ Select(r) \/ Tick(r) \/ Expire(r) \/ CallAgain(r) \/ Read(r)

Spec == Init /\ [][Next]_vars

-----------------------------------------------------------------------------
\* Every call that reports success has read a whole message, and only that.
WholeMessages ==
  \A i \in DOMAIN result :
    result[i] # <<>> /\ result[i] = Cells(result[i][1].m, size[result[i][1].m])

\* So it is while there is one reader, for messages cut by the writer as well.
SuccessIsMessage == Sole => WholeMessages

\* The pipe of one reader is the queue of whole messages of MessageQueue: as
\* long as no second one opens it, each step is a step of the queue or none.
Number(cells) == IF cells = <<>> THEN 0 ELSE cells[1].m
Taken == [i \in DOMAIN result |-> Number(result[i])]
Ahead(n, m) == [i \in 1 .. m - n |-> n + i]
Waiting == Ahead(Len(result), Len(size))
Queue == INSTANCE MessageQueue WITH
  written <- Len(size), waiting <- Waiting, taken <- Taken
ImplementsQueue == Queue!Init /\ [][Sole' => [Queue!Next]_(Queue!vars)]_vars

\* A call that was made because select() found the pipe ready comes back: the
\* rest of the message never has to be waited for.  A select() with a finite
\* timeout, 0 too, comes back though nothing arrives.
CallReturns ==
  \A r \in Readers :
    /\ pc[r] = "header" ~> (pc[r] = "select" \/ ~Sole)
    /\ pc[r] = "select" /\ asked[r] >= 0 ~> pc[r] # "select"

\* A finite timeout is a budget for the life of its owner: all its calls of
\* select() together never wait for longer.
Budget == \A r \in Readers : asked[r] >= 0 => spent[r] <= asked[r]

\* Each call of select() is told to wait as long as the owner was.
FullWait ==
  [][\A r \in Readers :
       pc[r] # "select" /\ pc'[r] = "select" => left[r] = Timeval(asked[r])]_vars
=============================================================================
