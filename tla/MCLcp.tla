------------------------------- MODULE MCLcp -------------------------------
(***************************************************************************)
(* A job from its crawl to its publication, on a small instance: a thread  *)
(* of one server, an operator.                                             *)
(***************************************************************************)
EXTENDS Lcp, TLC

CONSTANTS server,             \* the only process that runs Stage 2
          p1,                 \* its process id
          g1,                 \* its thread
          o1,                 \* the operator
          fine, better, vague \* drafts

MCLint == [d \in Drafts |-> IF d = vague THEN "ungrounded" ELSE "clean"]
MCProcOf == [t \in Threads |-> server]
Hold == {<<"DEDUP_GATE", "needs_human_review", "dedup">>}

\* No step reads the log or the messages that were sent, and no property of this run
\* is about them: states that differ only there are explored once.
Unsaid == <<row, draft, cover, marker, count, inflight, pc, run, flagVars, procVars, view, message, reviewCover,
            tmpCover, handle, freeze, url, op, mem, crashes>>
=============================================================================
