---------------------------- MODULE MessageQueue ----------------------------
(***************************************************************************)
(* What the pipes of src/fifo.h promise: fifo_pipemsg_t is an "atomic pipe *)
(* message", so a pipe is a queue of whole messages.  Messages are numbered *)
(* in the order they are written.                                          *)
(***************************************************************************)
EXTENDS Naturals, Sequences

CONSTANT MaxMsg   \* bound: messages written

VARIABLES
  written,  \* how many messages were written
  waiting,  \* the messages that wait in the pipe
  taken     \* the messages that were read

vars == <<written, waiting, taken>>

Init == written = 0 /\ waiting = <<>> /\ taken = <<>>

Put ==
  /\ written < MaxMsg
  /\ written' = written + 1
  /\ waiting' = Append(waiting, written + 1)
  /\ UNCHANGED taken

Take ==
  /\ waiting # <<>>
  /\ taken' = Append(taken, Head(waiting))
  /\ waiting' = Tail(waiting)
  /\ UNCHANGED written

Next == Put \/ Take

Spec == Init /\ [][Next]_vars
=============================================================================
