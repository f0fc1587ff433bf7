----------------------------- MODULE MCFifoWin -----------------------------
(***************************************************************************)
(* FifoWin on small instances, with the environments of its runs.          *)
(***************************************************************************)
EXTENDS FifoWin, TLC

CONSTANTS c1, c2

\* The sample programs, where clients wait for a free instance for ever.
WinPatientEnv == {"sample_loop", "wait_forever", "silent_callback"}

\* Any sequence of calls, and everything that may end or fail.
WinApiEnv == {"silent_callback", "clients_die", "pipes_fail", "server_ends"}

\* Any sequence of calls by clients with a finite timeout.
WinCallsEnv == {}

WinClients == Permutations(Clients)
=============================================================================
