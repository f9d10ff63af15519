------------------------------ MODULE MCStage2 ------------------------------
(***************************************************************************)
(* Stage 2 on a small instance. The server has two threads that may be     *)
(* told to process the job; the shell is another process: it lists jobs.   *)
(***************************************************************************)
EXTENDS Stage2, TLC

CONSTANTS server, shell,           \* processes
          p1, p2, p3,              \* process ids
          g1, g2,                  \* threads of the server
          fine, better, cut, vague, lost, rough   \* drafts

OneThread == {g1}
ServerThreads == {g1, g2}
MCProcs == {server, shell}
OneProc == {server}
MCProcOf == [t \in Threads |-> server]

Pid1 == {p1}
Pid2 == {p1, p2}
Pid3 == {p1, p2, p3}
\* The findings that hold the job or end it: each names its gate.
Naming == {g \in ParkingGates : g[2] # "needs_revision"}
TwoGates == {<<"MEDIA_GATE", "needs_revision", NoReason>>, <<"DEDUP_GATE", "duplicate", NoReason>>}

Symmetries == Permutations({p1, p2, p3}) \cup Permutations({g1, g2})

MCLint == [d \in Drafts |->
    CASE d = cut -> "truncated"
      [] d = vague -> "ungrounded"
      [] d = lost -> "unclassified"
      [] d = rough -> "unsound"
      [] OTHER -> "clean"]
=============================================================================
