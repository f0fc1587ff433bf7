--------------------------- MODULE MCPipeMsgRead ---------------------------
(***************************************************************************)
(* PipeMsgRead with the readers of its .cfg, and the names of the pipes    *)
(* (PipeNames).  A behaviour is about messages or about one pair of names. *)
(***************************************************************************)
EXTENDS PipeMsgRead, PipeNames

CONSTANTS r1, r2

VARIABLE about

names == <<pathname, digits>>

MCInit ==
  /\ Init
  /\ \/ about = "messages" /\ pathname = 0 /\ digits = 1
     \/ /\ about = "names" /\ NamesInit
        /\ \A r \in Readers : msgsz[r] = 0 /\ asked[r] = -1

Messages == about = "messages" /\ UNCHANGED <<about, names>>

\* Time passes, the kernel ends a call that has a reason to end, and a thread
\* that can go on does.
MCSpec ==
  /\ MCInit /\ [][Messages /\ Next]_<<about, names, vars>>
  /\ \A r \in Readers :
       /\ WF_vars(Messages /\ Tick(r))
       /\ WF_vars(Messages /\ (Select(r) \/ Expire(r) \/ Read(r)))

\* One reader waits without an end, not at all, or for a while, the other
\* without an end.
SomeTimeouts == [r \in Readers |-> IF r = r1 THEN {-1, 0, 2} ELSE {-1}]
EndlessWait == [r \in Readers |-> {-1}]

\* Shorter than any limit, at each of them, and longer.
SomePaths == 0 .. NAMELEN_MAX + 20
=============================================================================
