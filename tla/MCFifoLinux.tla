---------------------------- MODULE MCFifoLinux ----------------------------
(***************************************************************************)
(* FifoLinux on small instances.  Each .cfg chooses the clients, the bounds *)
(* and one of the environments below.                                      *)
(***************************************************************************)
EXTENDS FifoLinux, TLC

CONSTANTS c1, c2

\* A program that writes a request, waits for its reply for ever, and so on.
PatientEnv == {"sample_loop", "wait_forever"}

\* Any sequence of API calls with a finite wait, in programs that took the
\* precaution of ignoring SIGPIPE, and a server that may be stopped.
ApiEnv == {"sigpipe_ignored", "silent_callback", "syscalls_fail", "loop_stops"}

\* The sample program, with SIGPIPE as it is, where everything else may fail.
FaultyEnv == {"sample_loop", "syscalls_fail", "signals", "threads_fail", "loop_stops"}

\* The environments of the counterexamples.
SampleEnv == {"sample_loop"}
ThreadsFailEnv == {"sample_loop", "wait_forever", "threads_fail"}

Processes == Permutations(Clients)
=============================================================================
