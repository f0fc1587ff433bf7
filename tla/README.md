# A verification project for fifo

`fifo` is a small request/reply transport over named pipes: a server with a
callback, and clients that write a request and read its reply. It has an
implementation for Linux and one for Windows, and brings with it `pthreads-w32`, the
threads its programs use on Windows. This directory models the three in TLA+,
checks the models with TLC and proves their safety properties with TLAPS: those of
both transports, of the framing and the names, and of most of pthreads-w32.

## 1. The system

| component | source | state | operations |
|---|---|---|---|
| Linux client | `src/src/fifo.c` 384-562, `src/examples/fifoclient.c` | `readfd`, `writefd`, `wait_timeout`, two names in the file system | `fifo_client_new`, `_write`, `_read`, `_free` |
| Linux accept loop | `fifo.c` 237-381, `src/examples/fifoserver.c` | `accept_pipefd`, the timeouts, the connect message at hand and the two descriptors it opens | `fifo_server_new`, `_runforever`, `_free` |
| Linux workers | `fifo.c` 78-115, 173-234 | one `pipe_instance_t` per connection | a thread each: read, callback, write, exit |
| message framing | `fifo.c` 118-170, 203-208, `fifo.h` 88-108 | a position in the byte stream of a pipe, the buffer of one message | `readpipemsg_nb` |
| timeouts | `fifo.c` 186-190, 269-283, 326-330, 463-469, 532-536 | a `struct timeval` per client, worker and accept loop | each `select()` |
| sizes and names | `fifo.c` 249-253, 317-351, 400-427 | none | the lengths at which names are cut or refused |
| Windows transport | `src/src/fifo-win.c` | a pipe instance per client and one more, an overlapped connect | the same API over completion routines |
| pthreads-w32 | `src/pthreads-w32/pthreads.2` | see below | the POSIX calls over Win32 objects |
| syslog client, getopt, allocation helpers, build files | the rest of `src/` | | not modelled (section 5) |

The parts of pthreads-w32:

| part | state | operations |
|---|---|---|
| queue lock, barrier, once | a pointer to the last node, two flags per node; a count and a semaphore; `done` | acquire, try, release, transfer; `pthread_barrier_wait`, `_destroy`; `pthread_once` |
| mutexes | `lock_idx`, an auto-reset event, owner, count, a robust node | init, lock, trylock, timedlock, unlock, consistent, destroy, death of an owner |
| spin locks | an interlocked word or a mutex | init, lock, trylock, unlock, destroy |
| semaphores | a value and a semaphore of the kernel | wait, timedwait, trywait, post, post_multiple, getvalue, destroy |
| condition variables | a gate, a queue, three counts | wait, timedwait, signal, broadcast, destroy |
| read-write locks | two mutexes, a condition, three counts | rdlock, wrlock, their try and timed forms, unlock, destroy |
| threads and cancellation | a `ptw32_thread_t` per thread, the list of those for reuse | create, exit, join, detach, cancel, testcancel, setcancelstate, setcanceltype |
| thread-specific data | a chain of associations per key and one per thread | key_create, key_delete, setspecific, the destructors of an ending thread |
| attribute objects, creation | five kinds of attribute object, the blocks of what is made from them | init, get, set, destroy; the constructors; priorities |
| timeouts | none | `ptw32_relmillisecs`, `pthread_delay_np` |

### How the components interact

*Linux.* A server owns the *accept FIFO*. A client with pid `p` creates two FIFOs,
`<accept>.p` for its requests and `<accept>.p-read` for its replies, opens the
second for reading and writes a connect message, its suffix `.p`, to the accept
FIFO. It then opens the first for writing, which blocks until somebody reads it.
The accept loop takes the connect message, opens the request FIFO (`O_RDWR`: this
releases the client), then the reply FIFO (`O_WRONLY`: this blocks while the client
does not read it), and starts a worker thread with both. The worker reads a request,
calls the callback and writes the reply, if there is one. `fifo_client_free` closes
the reply end, writes an empty message that makes the worker end, and unlinks both
names. Client and server share nothing but the FIFOs and their names; the threads
of the server share the process, and with it its descriptors and its death.

*Windows.* One thread serves all clients. Its loop waits, alertably, for the event
of an overlapped `ConnectNamedPipe`; completion routines run only inside this wait.
A connected instance gets a `pipe_instance_t`, whose read routine calls the callback
and starts the write of the reply, and whose write routine starts the next read.
The loop then creates the next instance. A client that finds every instance busy
waits in `WaitNamedPipe`.

*pthreads-w32.* Nearly everything is guarded by the queue lock. A condition variable
is two semaphores and two mutexes, a read-write lock two mutexes and a condition, a
barrier a semaphore and the queue lock, which one thread acquires and another
releases. Cancellation reaches into each of them that waits.

### What is hard about it

* **Names and inodes.** A connection is made by four look-ups of names, between which
  names can be unlinked and created again.
* **Blocking opens.** Client and server each wait for the other in an `open`.
* **No end of file.** Both open the pipes they read `O_RDWR`, so neither notices that
  the other is gone. The one that *writes* notices: by SIGPIPE.
* **Late replies.** A read that timed out leaves its reply in the pipe.
* **Framing.** A message is read in two steps from a stream.
* **Completion order.** On Windows reads, writes and their failures of one instance
  have to alternate, and exactly one of them closes the handle.
* **Lost wake-ups.** Every lock of pthreads-w32 changes a word or a count in one step
  and signals, or waits, in another.
* **Timeouts and cancellation that race a wake-up**, and what has to be given back.
* **Objects that go away**: destroyed, freed, reused or on the stack of a thread that
  has left, while another still uses them.
* **Limits.** Pipes, descriptors, threads, instances, INT_MAX, the width of a DWORD.
* **Partial failure.** Each step of a connection or creation can fail after others.

The list of hazards with their lines and the properties about each is in
`PROJECT.json`.

### What makes each component correct

* Linux client: `fifo_client_new` returns, and not before the server has opened its
  pipe (OpenedByServer); a request is answered by its own reply (RepliesMatch), never
  by that of another process (NoCrossTalk), and one read returns one message.
* Accept loop: it gets back to its `select()` (AcceptLoopReturns), survives
  (ServerSurvives), and no descriptor is lost on an error path (FdOwned).
* Workers: one per request pipe (SoleReader), which hands the callback the requests of
  its session in order (ServedInOrder), is told when the client left (OrphanHasEof)
  and ends. SessionsComplete is the liveness of the three.
* Framing: a byte stream read in two steps is a queue of messages (ImplementsQueue,
  SuccessIsMessage, CallReturns); a timeout bounds the wait (Budget); both sides mean
  the same names (NamesAgree).
* Windows transport: an instance has one operation or callback that drives it and is
  closed once (InstancesSound); no request is lost or answered twice (NoRequestLost);
  who waits is served (ClientsServed).
* Queue lock, barrier, once: one thread owns the lock, its release finds its successor,
  and nothing is destroyed under a user (UsersSafe); nobody is left behind in its
  queue (LockPassesOn); rounds do not mix (ImplementsBarrier).
* Mutexes: held by the owner recorded (HeldByOwner), nobody sleeps at a free one
  (NobodyStranded), the next owner learns of a death (DeathNoticed).
* Condition variables: counts and waiters agree (CondSound), a signal wakes one that
  waited then, a broadcast all (EverybodyServed).
* Read-write locks, semaphores, spin locks: each implements its abstract object
  (ImplementsRw, ImplementsSem, ImplementsLock); the counts stay sound (CountsHold,
  SemSound); who waits is served (ObjectsServe).
* Threads: no structure is freed under a thread or lost (StructsKept), a cancellation is
  acted on (CancelsArrive), no lock is left behind (NobodyHangs).
* Thread-specific data: the two chains agree (AssocsSound), each value meets its
  destructor once (ValuesDestroyed), calls end (CallsEnd).
* Attribute objects: a created object is as its attributes say (CreatedAsTold) and a
  failed creation leaves nothing (NothingLeaks). Timeouts: TimeoutsSound.

## 2. The modules

| module | models | extends / is checked against |
|---|---|---|
| FifoLinux | clients, accept loop, workers, pipes and names of Linux | |
| PipeMsgRead | `readpipemsg_nb` and the `select()` before it | implements MessageQueue |
| PipeNames | the lengths of the pipe names | composed with PipeMsgRead in MCPipeMsgRead |
| FifoWin | the Windows transport, both sides | |
| PtwMcsLock, PtwBarrier | the queue lock, and its users: barrier, once, list | PtwBarrier extends PtwMcsLock, implements BarrierSpec |
| PtwMutex | mutexes of all types | |
| PtwSem | what one critical section makes of a semaphore (operators) | used by PtwCond, PtwSemaphore |
| PtwCond | condition variables | |
| PtwThreads | threads, cancellation, reuse of structures | |
| PtwTsd | thread-specific data | |
| PtwCalls | the threads and their calls, shared by the three below and PtwMutex | |
| PtwRwlock, PtwSemaphore, PtwSpin | read-write locks, semaphores, spin locks | implement RwSpec, SemSpec, LockSpec |
| PtwAttr, PtwTime | attribute objects and creation; time arithmetic | |
| MC... | constants and environments for TLC | MCPtwObjects and MCPipeMsgRead join what shares no state: `which` and `about` say what a behaviour is about |
| FifoLinuxProofs, FifoWinProofs | theorems | FifoLinux; FifoWin |
| PipeMsgReadProofs | theorems | PipeMsgRead, MessageQueue, PipeNames |
| PtwBarrierProofs, PtwCondProofs, PtwThreadsProofs, PtwTsdProofs | theorems | PtwMcsLock, PtwBarrier, BarrierSpec; PtwCond; PtwThreads; PtwTsd |
| PtwObjectsProofs | theorems | PtwMutex, PtwRwlock, PtwSemaphore, PtwSpin, their specifications, PtwAttr, PtwTime |

### FifoLinux

One step is one system call that another process or thread can notice, so all
orders of these are explored. An inode is `<<c, g>>`, the one that the `g`-th
`fifo_client_new` of process `c` created; `reqFile[c]` and `repFile[c]` say which
generation the two names of `c` lead to at the moment (0: the name does not exist).

| state | code |
|---|---|
| `cpc` | where a client stands in `fifo_client_new` ("mkrep" to "opened"), between calls ("idle"), in `_write`, `_read` and `_free` ("eof", "unlink", "unlinkrep") |
| `rfd`, `wfd` | `client->readfd`, `client->writefd`: the generation of the inode they have open |
| `spc`, `cur` | where the accept loop stands, and whose connect message is in `client_fifo` |
| `reqfd`, `repfd` | `requestfd` and `replyfd` of a connection, in the loop or in its `pipe_instance_t`: the inode they have open |
| `wpc`, `wmsg` | where the worker stands, and `pipeinst->request` |
| `acceptq`, `reqq`, `repq` | the messages in the accept FIFO and in each inode |
| `served`, `got` | history: what the callback was given, what a client has read |

`Env` says what the programs around the library do and what may go wrong:
"sample_loop" (the client of `src/examples`, otherwise any sequence of calls),
"wait_forever" (`wait_timeout < 0`), "sigpipe_ignored", "silent_callback" (no
reply), "syscalls_fail", "threads_fail", "loop_stops", "signals" (EINTR in calls
that block), "pids_reused" (a new client gets the pid of a killed one, and with it
the names that one left). `Killable` clients may die at any step. The kernel is
modelled as this code uses it (fifo(7), pipe(7)): an open that waits for the other
side, a write without a reader that raises SIGPIPE, a write that waits for room,
unlink and mkfifo on names, and the descriptors that exit closes.

A client blocked in its open for writing is released by *an* open for reading, even
when that reader has closed again by the time the client runs ("opened"); likewise
the accept loop in its open of the reply pipe ("spawn"). Messages carry the session
and the number they were written with; the code does not look at these. A write is
all or nothing, since a message is not larger than PIPE_BUF, and a worker takes one
whole message in a step. What this needs, one reader per pipe, is SoleReader, and
that the reads then add up to it is PipeMsgRead.

### PipeMsgRead, MessageQueue, PipeNames

`readpipemsg_nb` read by read, and the `select()` before it. The pipe is a sequence of
cells, the header of a message and the parts of its body. `ReadBody` is one round of
the loop that reads the body, `HeaderAgain` is EAGAIN where the header was expected:
the `continue` leaves the loop, because `offset` is -1 then, and the size of an
earlier message is used. A read that expects a size and meets a part of a body may
find any number. The writer cuts a reply to its buffer. `left` is the `struct timeval`
of an owner, in which each `select()` leaves what is left of the time; a tick is a
unit of time spent there. `MessageQueue` is a queue of whole messages, and a message
is taken from it when the call that reads it returns.

`PipeNames` keeps of a name how many characters it has of its three parts, and
compares what the four `snprintf()` of client and server make of the same path.

### FifoWin

One server thread, so what interleaves with it are the clients and the kernel.
`spc` is "wait" in the alertable wait, the only place where `Routine(i)` runs, and
"callback" while the program's callback has control. `pipe`, `ops` and `inst` are
the state of a pipe instance, the overlapped operations outstanding on it, and its
`pipe_instance_t`. `Env` has "sample_loop", "wait_forever", "silent_callback",
"clients_die", "pipes_fail" and "server_ends".

### pthreads-w32

*PtwMcsLock* has one interlocked instruction per step. The nodes lie on the stacks
of the threads that use them: `Slots` is how many places a thread uses in turn, so
with one slot the next call of a thread has its node where the last one was.
*PtwBarrier* adds the users: `job` says which. In *PtwMutex* a step is one
interlocked instruction, one wait or one SetEvent; in *PtwCond* and below it is a wait
or a critical section under the object's lock. *PtwThreads* keeps the queue of the
lock of each thread's state, because a cancelled thread may hold a place in it, and
the reuse pool, because handles outlive threads. *PtwTsd* keeps both chains, the two
kinds of lock with their queues, and the rounds of an ending thread.

What the program, or the scheduler, does not do in the passing runs is named by a
constant: `Env` of PtwThreads ("early", "anywhere", "stale") and of PtwTsd
("shared_delete", "ending_delete"), `CancelAt` of PtwCond, `Avoided` of PtwMutex, `FoldLate` of
PtwRwlock, `CancelRace` and `DestroyRace` of PtwSemaphore, `EventFails` of PtwAttr.
Each of them is a counterexample when it is let in (section 3).

Some behaviours of the code that the models follow and its documentation would not
suggest: `pthread_*attr_setpshared` accepts PTHREAD_PROCESS_SHARED and the mutex,
the condition and the barrier are refused only when they are created (a barrier with
ENOMEM); `pthread_rwlock_init` refuses every attribute object; the cleanup of
`sem_wait` (sem_wait.c 56-68) acts on the first member of the semaphore where its
comment speaks of the handle; the node of a robust mutex is used without a test of
its allocation, so the models assume that one.

## 3. What is checked

| run | instance | properties | shows |
|---|---|---|---|
| Patient | 2 clients, 2 sessions each, 2 requests, pipes of 2 | RepliesMatch, ServerSurvives, SessionsComplete | a client that waits for each reply without an end is served correctly: it connects, each request gets its reply, one per read, and its worker ends |
| Api | 2 clients, 2 sessions, 1 request, 4 descriptors | SoleReader, OpenedByServer, ServedInOrder, OrphanHasEof, NoCrossTalk, FdOwned | any sequence of calls, kills, failing calls, a server that stops; SIGPIPE ignored |
| Framing | 3 messages of up to 3 cells, a pipe of 6, one reader with each timeout and a second one | SuccessIsMessage, NamesAgree, Budget, ImplementsQueue, CallReturns | framing with one reader is a queue of messages; a timeout bounds all calls; every length of path and pid gives the same names |
| WinApi | 2 clients, 2 sessions, 2 requests, 3 instances | InstancesSound, NoRequestLost | any sequence of calls, clients that die, pipes that fail, a server that ends and starts again |
| WinPatient | 2 clients, 1 session, 2 requests, 3 instances | ClientsServed | the sample clients, one of which finds all instances busy, are served and their instances closed |
| Barrier | 3 threads, 5 calls, 2 nodes a thread, height 2 | LockPassesOn, UsersSafe, ImplementsBarrier | the queue lock, and a barrier, a once and a list on it |
| Mutex | 3 threads, 5 calls, all types | HeldByOwner, NobodyStranded, DeathNoticed | mutexes, with timeouts, static initialisers, and deaths of robust ones' owners |
| Cond | 3 threads, 3 waits, 2 signals, 1 cancellation | CondSound, EverybodyServed | waits, timeouts, signals, broadcasts, a cancellation and a destruction |
| Threads | 1 driver, 2 threads, 3 structures, 1 cancellation | StructsKept, CancelsArrive, NobodyHangs | threads that are created, end, are joined, detached, cancelled |
| Objects | 3 threads, 5 calls; INT_MAX 4; SEM_VALUE_MAX 3; a DWORD of 64 values | CountsHold, SemSound, CreatedAsTold, NothingLeaks, TimeoutsSound, ImplementsRw, ImplementsSem, ImplementsLock, ObjectsServe | read-write lock, semaphore, spin lock, attribute objects, timeouts |
| Tsd | 2 threads, 2 keys, 3 values, 2 rounds | AssocsSound, ValuesDestroyed, CallsEnd | keys deleted and set while threads end |

One run ends in a counterexample: **Wedged** (AcceptLoopReturns). A client times out
and closes while the accept loop is between its two opens; the second never returns,
and no other client is served. The client gets that far because its own blocking
open is released by the first open of the loop.

SessionsComplete, SemSound, CondSound and the like are conjunctions of named parts, so
that a reader, or a proof, can take one part at a time.

Each property has in `PROJECT.json` a mutant, a changed definition under which its run
must find it violated; the changed definitions stand beside the ones they replace
and are marked as mutants.

### Deviations

The instances below show where the code does something that a reader would not expect,
and why the runs above exclude it. The first group has its own configuration; the
others are a run above with one constant changed, the property being the INVARIANT.

| configuration | property violated | what happens |
|---|---|---|
| Coalesced.cfg | OneReplyPerRead | a read times out, the next request is written, and one `fifo_client_read` returns both replies as one message |
| Reconnect.cfg | RepliesMatch | a client times out, closes and connects again between the two opens of the loop; the worker reads the pipe of the old session and answers into that of the new one |
| ThreadLimit.cfg | FdOwned | `pthread_create` fails with a positive number; the test is against -1 |
| TwoServers.cfg | WholeMessages | two servers with one name; one finds the pipe empty and returns success |
| SecondRead.cfg | FullWait | the second `select()` waits only for what the first left |
| WinDeaf.cfg | AcceptsAgain | a callback that does not return stops the accept loop of Windows |
| WinNoWait.cfg | TimedReadReturns | a Windows client with a finite timeout peeks at an empty pipe, and then reads it without an end |
| Barrier, Slots = 1, MaxCalls = 4 | SuccessorLinked | a late write of a flag goes to a node that is used anew |
| Cond, 4 threads, CancelAt = {"atGate"}, Functions = {"wait", "signal"} | NobodyHangs | a wait cancelled at the gate gives back neither its count nor the mutex |
| Threads, Env = {"early"} | CancelStays | a thread cancelled before it runs sets its state to running and forgets it |
| Threads, Env = {"anywhere"} | NobodyHangs | an asynchronous cancellation leaves a lock locked |
| Threads, 2 drivers, Env = {"stale"} | CancelHitsTarget | a cancellation reaches the next user of a structure |
| Tsd, Env = {"shared_delete"} | BothLocked | `pthread_key_delete` releases the lock of the key in each round of its loop |
| Tsd, Env = {"ending_delete"} | CallsEnd | the thread of the only association ends while `pthread_key_delete` waits for the key's lock; its loop then does not run, and so does not release the lock |
| Objects, FoldLate | CountsHold | a timed read lock that runs out of time at INT_MAX leaves the counts wrong (pthread_rwlock_timedrdlock.c 83-94) |
| Objects, CancelRace | SemSound | a `sem_wait` cancelled when the value is 0 is not counted out |
| Objects, DestroyRace | SemSound | `sem_destroy` frees what another thread has looked up (sem_destroy.c 118-130) |
| Objects, EventFails | NothingLeaks | `pthread_mutex_init` forgets the node of a robust mutex |

WaitersWoken and NeverUnaware of
PtwMutex and CancelTakesNone of PtwCond state three more expectations that the code
does not meet; their comments say where.

ServerSurvives is a property of Patient only: a client that times out and closes
before its reply is written makes the worker's write raise SIGPIPE, which ends the
server. `fifo.c` says so itself ("TODO: SIGPIPE", line 320), so this is not listed as
a finding; Api, where the programs ignore the signal, and the theorems of section 4
show what holds with it.

### Bounds, and why they are enough

*FifoLinux.* Two clients are enough for what one can do to another, because clients
meet only in the accept FIFO, in the descriptor table and in the death of the
process. Two sessions per process are needed for all that reuses a name. `PipeCap` 1
makes every write meet a full pipe; 2 is needed for two replies to meet. `FdMax` 4
stops the server from holding two connections at a time (it needs 5 with the accept
FIFO), so both opens fail somewhere; where descriptors must suffice it is 9.

*Framing.* Six cells hold two of the longest messages, so that writers wait, and
readers meet the end of one message and the start of the next. The path lengths go
from 0 past every limit in the code; a pid of 32 bits has at most 10 digits.

*FifoWin.* Three instances are two for the clients and the one that listens; with two
sessions in WinApi they run out, which is where clients have to wait.

*pthreads-w32.* Three threads are one that holds an object and two that meet at it,
one of which may time out or be cancelled. Five calls are two rounds of a barrier of
two and an odd thread; with an even number all bounded behaviours end between
rounds. Three waits and two signals let a timed-out wait race a signal meant for
another; `GoneMax` 2 stands for INT_MAX / 2, so that the count of waiters gone is
folded, and `IntMax` 4 for INT_MAX in the same way. With `Word` 64 (2^32), 10
milliseconds a second and 4 nanoseconds a millisecond, all roundings and overflows
happen; the arithmetic is the same. Two rounds stand for
PTHREAD_DESTRUCTOR_ITERATIONS (4): a first one, and one that repeats and is the last.
A key whose associations belong to several threads, or to one that is ending, is
not deleted in Tsd.

Clients, threads and structures are symmetric where a run has no liveness property and
names nobody; a run with liveness uses no symmetry. Deadlock is not checked: a bounded
run ends, and a program may stay outside any call. That threads do not wait for each
other for ever is stated by properties instead (NobodyHangs, NobodyStranded,
EverybodyServed, CallsEnd, ObjectsServe, SessionsComplete, ClientsServed).

### Fairness

* FifoLinux: weak fairness of each client inside a library call, of the accept loop and
  of each worker: the scheduler runs what is not blocked. Nothing is assumed of when a
  program makes its next call, of kills, or of whether a server is ever started. A
  write that waits for room and an open that waits for its peer are not enabled
  meanwhile, so weak fairness does not push them through. The failing steps belong
  to the same units, so liveness is checked only where nothing fails.
* FifoWin: weak fairness of each client inside a call, or in the loop of the sample
  program, and of the server thread; strong
  fairness of the completion routine of each instance. A queued routine is enabled
  only while the loop waits, and leaves again when the loop goes on; but Windows runs
  the queued ones in order each time the loop waits, so none is passed over for ever.
* PipeMsgRead: time passes, and the kernel ends a call that has a reason to end.
* Objects: weak fairness of each thread inside a call, and of the unlock of a thread
  that has the lock: programs do not keep locks for ever.
* PtwTsd: weak fairness of each thread inside a call, and of the return of destructors.

## 4. What is proved

For all values of the constants (any numbers of clients, threads, instances, keys and
calls, any capacities, timeouts and paths, and, unless said otherwise, any `Env` and
`Killable`). The assumptions in the last column exclude what section 3 lists as a
deviation, or what TLC shows to break the property; nothing else is excluded.

| theorem | property | assumption |
|---|---|---|
| TypeCorrect | TypeOK of FifoLinux | |
| DescriptorsOwned | FdOwned | threads can be created |
| NoCrossTalkEver | NoCrossTalk | |
| OneReader, ConnectedByServer | SoleReader, OpenedByServer | Calm: no signal interrupts a blocking call, no pid of a killed client is reused |
| RequestsServedInOrder, OrphansHaveEof | ServedInOrder, OrphanHasEof | Calm |
| RepliesAlwaysMatch | RepliesMatch | Calm, and Waits: the clients run the loop of `src/examples` and wait for each reply without an end |
| ServerAlwaysSurvives | ServerSurvives | Calm, Waits, no client is killed |
| SuccessesAreMessages, QueueImplemented | SuccessIsMessage, ImplementsQueue | one reader (`Sole`, in the properties) |
| ReadNeverWaits | (ReadGoesOn, the safety core of CallReturns) | one reader |
| BudgetEver, NamesAlwaysAgree | Budget, NamesAgree | |
| InstancesAlwaysSound, RequestsAlwaysKept | InstancesSound, NoRequestLost | |
| MutexHeldByOwner, DeathsAlwaysNoticed | HeldByOwner, DeathNoticed | NoBlindTimedLock: no `pthread_mutex_timedlock` of a robust mutex of type normal, if there are any |
| MutexImplemented | (LockSpec) | NoneRobust: no robust mutexes |
| SleepersAlwaysWoken | NobodyStranded of PtwMutex | NoBlindTimedLock; GoesOn, see below |
| SemaphoresSound | SemSound | ~CancelRace, ~DestroyRace |
| SemaphoreImplemented | ImplementsSem | ~CancelRace |
| SpinLocksImplemented | ImplementsLock | |
| RwCountsHold, RwImplemented | CountsHold, ImplementsRw | ~FoldLate |
| TimeoutsAlwaysSound | TimeoutsSound | |
| AlwaysAsTold | CreatedAsTold | |
| NeverLeaks | NothingLeaks | ~EventFails |
| UsersAlwaysSafe, BarrierImplemented | UsersSafe, ImplementsBarrier | NodesOutlive: the next call of a thread does not have its node where the last one was |
| LockAlwaysPassesOn | LockPassesOn | NodesOutlive; GoesOn, see below |
| CondAlwaysSound | CondSound | PastGateOnly: no cancellation acts at the gate |
| EverybodyAlwaysServed | EverybodyServed | PastGateOnly; GoesOn, see below |
| StructsAlwaysKept, NobodyEverHangs | StructsKept, NobodyHangs | Orderly: no asynchronous cancellation comes while its target waits for its own lock or is in a call about another thread ("anywhere"), and no structure is freed under a call of `pthread_cancel` ("stale") |
| CancelsAlwaysArrive | CancelsArrive | Orderly, and no thread is cancelled before it runs ("early") |
| AssocsAlwaysSound, ValuesAlwaysDestroyed, BothAlwaysLocked | AssocsSound, ValuesDestroyed, (BothLocked) | OneThreadAtDelete: a key is deleted while one thread at most has a value for it |
| LocksAlwaysPassOn | (LocksPassOn, the safety core of CallsEnd) | OneThreadAtDelete, and NoneEndsAtDelete: no other thread that has a value for it is ending then |

The formulas in brackets are not properties of a run. ReadGoesOn and LocksPassOn state
what is safety in one: what a call needs to go on is there. LockSpec is the abstract
lock that a spin lock implements as well.

NobodyStranded, LockPassesOn and EverybodyServed say what is so when no thread can take
a step, and ENABLED is out of the prover's reach. Each of the three modules therefore
tells in a state predicate, Blocked(t), what a thread in a call can wait for, and says
in GoesOn that a thread is Blocked exactly when no step of its call is ENABLED. The
properties of the runs are conjunctions of GoesOn and of what is so when all threads
are Blocked. The theorems prove the latter outright (WokenByTheLiving;
NobodyStranded of PtwBarrier; NobodyHangs and NoSignalLost), and the properties of the
runs from GoesOn; GoesOn itself TLC checks, in the same runs.

The other assumptions are those the modules state on their constants; TLC evaluates
them in the runs. The threads of pthreads-w32 are finitely many where sets of them
are counted (PtwCalls, PtwCond), and SEM_VALUE_MAX is at least 2.

### The inductive invariants

A property is seldom inductive as it stands. What has to be added says why the code
is correct, so this is the part worth reading.

*FifoLinux.*

    Inv == TypeOK /\ ClientShape /\ ServerShape /\ OwnPipes /\ ConnectOnce

TypeOK alone is not inductive: that a write appends a message to a queue that exists
needs the descriptor to be open (ClientShape, ServerShape: what a client, the loop
and a worker have open by the point they have reached; OwnPipes: the pipes opened for
a connect message are of the process that sent it), and that a worker is not
started twice for one session needs ConnectOnce: the connect message of a session
is at one place at most (not sent, in the accept FIFO, at hand, or handled).

* *DescriptorsOwned* is inductive with Inv. *NoCrossTalkEver* needs OwnMessages: all
  that is in the pipes of a process, and what its workers hold, is by that process or
  answers it.
* *OneReader* and *ConnectedByServer* need Connecting: while the connect message of a
  process is on its way, the process waits in its blocking open (or is dead), and
  nobody reads the pipe its name leads to; it has one such message at most. A signal
  that ends this open breaks exactly this, since the client may then leave and
  connect again with its old message still on its way; a new client with the pid of a
  killed one does the same to the message that one left. With "signals" or
  "pids_reused" added to the `Env` of Api, TLC finds SoleReader and OrphanHasEof
  violated, which is why Calm excludes both.
* *RequestsServedInOrder* and *OrphansHaveEof* need Delivery: the pipe a session uses
  is its own (Named), a pending connect message is that of the current session
  (PendingCurrent), a pipe with a reader has one worker (Readers), one that nobody has
  opened yet is empty (Unwritten), and what the callback was given, what the worker
  holds and what is in the pipe are the requests of the session in a row, followed by
  the end of it when the client left (Handed, Flowing).
* *RepliesAlwaysMatch* needs Answering: client and worker take turns (Turns), so that
  at most one request is without a reply, and the replies so far are those of the
  requests so far (ReplyNamed, ReplyOwn, Answered).
* *ServerAlwaysSurvives* needs Alive: while a worker has a request, its client waits
  for the reply and has the pipe open.

*PipeMsgRead.* Framing: the pipe is the rest of one message followed by whole ones
(Stream), and a reader in the middle of a message has the header that belongs to this
rest; that the body of a message is in the pipe behind its header is ReadNeverWaits.
The refinement takes a message from the queue in the step in which its last
part is read. Sum: what is left of a timeout and what was spent add up to it.
*PipeNames*: a path that the client accepts is shorter than the limit that leaves room
for the longest suffix, so that no buffer cuts anything.

*FifoWin.* `WinInv`: for each instance one of its read, its write, its routine or
nobody drives it (Driven), its handle belongs to one session (HandlesOwned), it is
closed when its `pipe_instance_t` is freed (InstanceLife), and what a client wrote is
answered and read, answered, with the callback or in the pipe, in this order (Flow).

*PtwMutex.* `MutexInv`: while somebody holds the mutex or is about to write the word
back, `lock_idx` is not 0 (WordLocked), one thread at most does so and has its count
(HoldsCounted, Recorded), and an owner's death shows in the state of the robust node
(StateTells). NoBlindTimedLock is needed because `pthread_mutex_timedlock` gets a
robust mutex of type normal without recording an owner.

*MutexImplemented* adds MadeFirst: while a static mutex is not made, or was destroyed
instead, no thread is past its initialisation or holds it. The abstract holder is the
thread that has locked the mutex, however often; it becomes the holder in the exchange
that finds the word 0 and ceases to be it where the last `pthread_mutex_unlock` begins,
before the word is written back. Robust mutexes are left out because the code destroys
one that is recursive under the thread that has it, and one that is not recoverable
without looking at the word (`Destroy`).

*SleepersAlwaysWoken* adds WakeInv: who sleeps is not in a call that only tries
(Sleeping); while all threads live, a word that is not 0 is that of a thread that holds
the mutex or is releasing it, and a thread sleeps only while the word is marked -1, the
event is signalled, or another thread is on its way to the mark or to the event
(Watched); a death shows in the event or was told to a thread that will inherit
(DeathTold).

*PtwSemaphore.* The kernel's units are those of the waiters that are not counted in
the value any more (UnitsCount), which needs that only calls that wait are at the
places where threads are counted (Waiting). *PtwSpin*: the interlocked word tells
whether a thread has it (WordTells). *PtwRwlock*: who is at which place has which of
the two mutexes (Owning), and the counts are those of the readers and of the
writer that drains them (Counting).

*PtwBarrier.* `BarrierInv`: the nodes of the queue lock form a chain from the owner's
to the last, in which each successor is known to its predecessor or about to write
itself there (Linked), and each user is at a place that agrees with whether it has
the lock (Users). That a thread acquires the lock of a barrier and another releases
it makes the chain move from node to node without its thread, which is why the nodes
of a call have to outlive the next one of the same thread. *LockAlwaysPassesOn* adds
RestInv: a lock that is not free is with a thread that leads the queue, was given to
one that waits, or belongs to the last of a round (Owned), and a thread that frees the
lock without knowing of a successor, while it is not the last, has one that is about to
link and will set its flag (Heard): the handshake of `ptw32_mcs_lock_release` with
`ptw32_mcs_lock_acquire` ends, whoever comes first.

*PtwCond.* `CondInv`: `nWaitersBlocked + nWaitersToUnblock - nWaitersGone` is the
number of threads between entering and leaving, and the units of the queue are those
of the threads that were chosen and did not take theirs (Counted).
*EverybodyAlwaysServed* adds RestInv and SignalInv. RestInv: the unit of the gate is
there when nobody keeps it (GateBack); who is to be unblocked finds a unit in the
queue, is on its way out, or its unit is about to be posted (UnitsKept); the mutex is
with a thread that gives it back (MutexKept). For UnitsKept the posts that are still to
come are counted as a set of pairs of a thread and a number, so that no sum has to be
taken. SignalInv: each wait has its own number and no signal is for a wait that is not
counted yet (Numbered), and each signal has ended a wait of its own among those it was
for, is for whoever leaves next, which `nWaitersToUnblock` covers, or is for nobody that
is left but those to be unblocked (Matched). The first kind is a matching of signals
with waits that ended; that it is one-to-one gives the count in NoSignalLost.

*PtwThreads.* `ThreadsInv`: a structure has one owner, and is then neither fresh nor
in the reuse pool (Owned); the structure that a worker's handle leads to is that of the
worker until it is freed, with the state, status and event that go with the place
where the worker is (Known, Kept, Aimed); what a call has tested of the worker it is
about still holds (Doing), which needs that one thread creates a worker and one joins
or detaches it at a time (Unique); who is in the queue of a stateLock is there once, and
at a place where it waits for the lock or has it (Queued); and who was joined is being
detached unless its structure is free already (Joined). "anywhere" breaks Queued, for a
cancelled thread leaves a place in the queue behind; "stale" breaks Doing, for a handle
was tested before the structure got its next owner. *CancelsAlwaysArrive* adds
Accepted: a cancellation that was accepted is pending in the structure until the thread
acts on it, which is so only when no call of `pthread_cancel` is about a thread that is
just starting and will set its state to running.

*PtwTsd.* `TsdInv`: a thread at a step has the locks that the step relies on (Owns,
Phase, Passes), a key has one deleter, and an association is in the chain of its key
exactly when it is in that of its thread (Chained), but for the two steps that link
and unlink it. Accounted adds where each value is: it belongs to a key (Slotted), it
is about to be handed over (Coming), it was (Given), or it is owed (Owing).

*PtwAttr, PtwTime.* What the getters say of an attribute object was encoded in it
(ToldAll); what is allocated is counted by what exists (AllCounted). The timeouts are
arithmetic on `/` and `%`.

### What is only model-checked

* Liveness (SessionsComplete, ClientsServed, CallReturns, AcceptLoopReturns,
  ObjectsServe, CallsEnd): fairness and leads-to are out of the reach of the prover.
* GoesOn, that Blocked tells of a thread whether a step of its call is ENABLED, in
  PtwMutex, PtwBarrier and PtwCond.

## 5. What is not modelled, and why

* The bytes of messages and names: abstracted to identities, cells and lengths.
* `client_timeout` only prints a character, and has no step.
* A server that is started again on the FIFOs of one that died, and two servers, apart
  from their reads (PipeMsgRead).
* The names of the Windows transport, where client and server cut at different lengths
  (`fifo-win.c` 227-243, 363): the difference is two constants.
* Of pthreads-w32: cleanup handlers (macros over setjmp or exceptions, and the
  destructors they call), signal masks, the start and end of the DLL, calls that only
  read or accept one value (scope, scheduling policy, `pthread_equal`,
  `pthread_getspecific`), `sem_open`, `_close` and `_unlink` (they set ENOSYS),
  `ptw32_OLL_lock.c` (unfinished and in no build), the QueueUserAPCEx driver, the
  tests, and the second copy of the headers in `Pre-built.2`.
* The syslog client, which neither transport calls; the vendored getopt; allocation
  helpers and type definitions; build files.

## 6. Plan

The models are complete but for section 5, and each safety and action property of the
passing runs has its theorem. What could be added:

1. An abstract robust lock, with EOWNERDEAD and ENOTRECOVERABLE, that a robust mutex
   implements; LockSpec has no place for a dead owner who is told of.
2. GoesOn, and from it the liveness properties, where a prover for ENABLED and fairness
   is at hand.
