----------------------------- MODULE PipeNames -----------------------------
(***************************************************************************)
(* The lengths of the pipe names that client and server of src/fifo.c make *)
(* from one path, each in a buffer of its own.  A name is how many         *)
(* characters it has of its three parts: the path, ".pid" and "-read".     *)
(* Two names are the same when all three are, so equal records are equal   *)
(* names: each part is cut only at its end.                                *)
(***************************************************************************)
EXTENDS Naturals

CONSTANT Paths \* the lengths of path that a server and its clients are started with

ASSUME PathsAssumption == Paths \subseteq Nat

VARIABLES
  pathname, \* that length
  digits    \* the digits of the pid of a client

NAMELEN_MAX == 255            \* FIFO_NAMELEN_MAX; a buffer has one byte more
Longest == NAMELEN_MAX - 20   \* the limit that both pass to strnlen()
ReadTail == 5                 \* "-read"
PidDigits == 1 .. 10          \* of a pid_t of 32 bits

\* Neither changes.
NamesInit == pathname \in Paths /\ digits \in PidDigits
NamesSpec == NamesInit /\ [][FALSE]_<<pathname, digits>>

Least(a, b) == IF a < b THEN a ELSE b

\* snprintf() into n bytes keeps n - 1 characters at most, and so cuts first
\* what comes last.
Printed(path, suffix, tail, n) ==
  LET p == Least(path, n - 1)
      s == Least(suffix, n - 1 - p)
  IN [path |-> p, suffix |-> s, tail |-> Least(tail, n - 1 - p - s)]

NameLength(name) == name.path + name.suffix + name.tail

\* fifo_server_new: a longer path is cut.
ServerPath(len) == Least(len, Longest)

\* A client with the limit of its Windows twin, the whole buffer.
ClientAccepts_WholeBuffer(len) == len <= NAMELEN_MAX

\* fifo_client_new: a path that reaches the limit is refused.
ClientAccepts(len) == Least(len, Longest) # Longest

\* The two names of a client, and the suffix that its connect message carries.
ClientRequest(len, d) == Printed(Least(len, Longest), 1 + d, 0, NAMELEN_MAX)
ClientReply(len, d) ==
  LET name == ClientRequest(len, d) IN Printed(name.path, name.suffix, ReadTail, NAMELEN_MAX)
ConnectSuffix(len, d) == NameLength(ClientRequest(len, d)) - len

\* What fifo_server_runforever makes of that message in client_fifo: it prints
\* the suffix behind its path and appends "-read" to what it got, unchecked.
ServerRequest(len, d) ==
  LET p == ServerPath(len)
  IN [path |-> p, suffix |-> Least(ConnectSuffix(len, d), NAMELEN_MAX - p - 1), tail |-> 0]
ServerReply(len, d) == [ServerRequest(len, d) EXCEPT !.tail = ReadTail]

-----------------------------------------------------------------------------
\* For a path that the client accepts, client and server speak of the same
\* three FIFOs, none of the names is cut, and the strcat() of the server stays
\* in its buffer: the margin of 20 is enough for ".pid-read".
Agree(len, d) ==
  ClientAccepts(len) =>
    /\ ServerPath(len) = len
    /\ ServerRequest(len, d) = ClientRequest(len, d)
    /\ ServerReply(len, d) = ClientReply(len, d)
    /\ NameLength(ClientReply(len, d)) = len + 1 + d + ReadTail
    /\ NameLength(ServerReply(len, d)) <= NAMELEN_MAX

NamesAgree == Agree(pathname, digits)
=============================================================================
