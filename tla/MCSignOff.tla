----------------------------- MODULE MCSignOff -----------------------------
(***************************************************************************)
(* People on one parked job, on a small instance: two operators, one cover *)
(* and two drafts whose grounding is held, of which lint clears one. The   *)
(* job is processed once its hold is resolved.                             *)
(***************************************************************************)
EXTENDS SignOff, TLC

CONSTANTS o1, o2,      \* operators
          vague, wild  \* drafts

MCLint == [d \in Drafts |-> "ungrounded"]
MCSound == {vague}

\* No step reads the log, and what the properties of this run ask of it is whether a
\* decision was said: states that differ in anything else of it are explored once.
Decisions == {"REVIEW_PACKET", "SIGNOFF_APPROVE", "SIGNOFF_REJECT", "PUBLISHED_RECORDED",
              "SUPERSEDED", "REDLINE_OVERRIDE", "NHR_RESOLVED", "NOTIFICATION_SENT"}
Heard == <<row, draft, cover, {e[1] : e \in audit} \cap Decisions, signVars>>

Symmetries == Permutations({o1, o2})
=============================================================================
