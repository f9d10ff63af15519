------------------------------ MODULE JobStore ------------------------------
(***************************************************************************)
(* What the program keeps of ONE job, and the calls that change it: the    *)
(* row of the jobs table (storage/job_store.py), the draft and the cover   *)
(* that Stage 2 leaves in the job directory (storage/draft_store.py), and  *)
(* the job's audit events.                                                 *)
(*                                                                         *)
(* One job is enough: every call is keyed by job_id and touches one row    *)
(* and one directory. A call on the store is one atomic step - the SQL     *)
(* runs read, validation and update under BEGIN IMMEDIATE, and a file is   *)
(* written by os.replace - but an operation of the program makes several   *)
(* calls, and anything may happen between two of them.                     *)
(***************************************************************************)
EXTENDS JobState

CONSTANTS
    Drafts,    \* the texts an LLM may write; equality stands for equal hashes
    Covers,    \* the covers the media gate may compose
    None,      \* an absent file, a NULL hash
    Lint       \* what the lint and grounding gates say of a draft

\* The gates are pure functions of the draft and its source. In the order they
\* are consulted: the model's answer was cut short, a claim has no ground, the
\* category is unknown, the structure is wrong, nothing is wrong.
Verdicts == {"truncated", "ungrounded", "unclassified", "unsound", "clean"}

ASSUME DraftAssumption ==
    /\ Lint \in [Drafts -> Verdicts]
    /\ None \notin Drafts \cup Covers

VARIABLES
    row,       \* the job's row: its state and its review_reason
    draft,     \* processed/draft.json
    cover,     \* processed/cover/cover.jpg
    audit      \* the set of the job's audit events

storeVars == <<row, draft, cover, audit>>

Row == [state : RestingStates, reason : Reasons \cup {NoReason}]

StoreTypeOK ==
    /\ row \in Row
    /\ draft \in Drafts \cup {None}
    /\ cover \in Covers \cup {None}

\* Mutant: the edge is not checked again under the write lock.
SetStateUnchecked(s) == row' = [state |-> s, reason |-> NoReason]

\* set_state: the edge is checked against the row as it is now, under the write
\* lock, and the review_reason is overwritten, with NULL when none is given.
SetState(s) ==
    /\ IsLegal(row.state, s)
    /\ s \notin TransientStates
    /\ row' = [state |-> s, reason |-> NoReason]

SetStateRefused(s) == ~IsLegal(row.state, s) \/ s \in TransientStates

\* Mutant: the transient state reaches the table.
PersistTransient(s, why) ==
    /\ IsLegal(row.state, "processing")
    /\ row' = [state |-> "processing", reason |-> why]

\* persist_from_processing, up to its COMMIT: the row must be able to reach
\* processing, and processing the target.
PersistFromProcessing(s, why) ==
    /\ IsLegal(row.state, "processing")
    /\ IsLegal("processing", s)
    /\ row' = [state |-> s, reason |-> why]

PersistRefused(s) ==
    ~IsLegal(row.state, "processing") \/ ~IsLegal("processing", s)

\* AuditLog.append of an event of this job; what is said beside its name is
\* whatever the properties tell apart.
AuditEvent(event, said) == audit' = audit \cup {<<event, said>>}
=============================================================================
