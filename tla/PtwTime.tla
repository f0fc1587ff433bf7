------------------------------ MODULE PtwTime ------------------------------
(***************************************************************************)
(* How pthreads.2 turns a point of time, or a length of it, into the       *)
(* milliseconds that a wait of Windows is given, in a DWORD.               *)
(***************************************************************************)
EXTENDS Integers

CONSTANTS
  Word,     \* the values that a DWORD has
  MsPerSec, \* MILLISEC_PER_SEC
  NsPerMs   \* NANOSEC_PER_MILLISEC

ASSUME TimeAssumption ==
  /\ Word \in Nat /\ Word > 2
  /\ MsPerSec \in Nat \ {0} /\ NsPerMs \in Nat \ {0}

VARIABLES
  until, \* the time a call is given, in seconds and nanoseconds
  now    \* when it is given it, in milliseconds

INFINITE == Word - 1

\* Times on both sides of now and of what a DWORD holds.
TimeInit ==
  /\ until \in [sec : 0 .. (2 * Word) \div MsPerSec, nsec : 0 .. MsPerSec * NsPerMs - 1]
  /\ now \in {0, 1, Word \div 2, Word}

\* The conversion changes neither.
TimeSpec == TimeInit /\ [][FALSE]_<<until, now>>

\* A mutant: the longest wait is taken as it comes.
relmillisecs_Unlimited(sec, nsec, time) ==
  LET abs == sec * MsPerSec + (nsec + NsPerMs \div 2) \div NsPerMs
  IN IF abs > time THEN (abs - time) % Word ELSE 0

\* ptw32_relmillisecs: from now, in milliseconds, until an absolute time.
relmillisecs(sec, nsec, time) ==
  LET abs == sec * MsPerSec + (nsec + NsPerMs \div 2) \div NsPerMs
      ms == (abs - time) % Word
  IN IF abs <= time THEN 0 ELSE IF ms = INFINITE THEN ms - 1 ELSE ms

\* pthread_delay_np: the seconds, and then the sum, are cut to a DWORD.
delay(sec, nsec) == (((sec * MsPerSec) % Word) + ((nsec + NsPerMs - 1) \div NsPerMs)) % Word

-----------------------------------------------------------------------------
\* A wait until some time comes to an end, and does so within half a millisecond
\* of it, if it is not more than a DWORD of milliseconds away.
WaitInTime(sec, nsec, time) ==
  LET ns == (sec * MsPerSec - time) * NsPerMs + nsec
      wait == relmillisecs(sec, nsec, time)
  IN /\ wait # INFINITE
     /\ ns < (INFINITE - 1) * NsPerMs => 2 * wait * NsPerMs >= 2 * ns - NsPerMs
     /\ ns >= 0 => 2 * wait * NsPerMs <= 2 * ns + NsPerMs

\* A delay that a DWORD can hold is never cut short.
DelayInTime(sec, nsec) ==
  sec * MsPerSec + MsPerSec < INFINITE =>
    delay(sec, nsec) # INFINITE /\ delay(sec, nsec) * NsPerMs >= sec * MsPerSec * NsPerMs + nsec

\* The timeouts of all timed functions.
TimeoutsSound == WaitInTime(until.sec, until.nsec, now) /\ DelayInTime(until.sec, until.nsec)
=============================================================================
