------------------------------ MODULE JobState ------------------------------
(***************************************************************************)
(* The job state machine of core/state.py: the states, the edge table and  *)
(* the classes of states the rest of the program is written in terms of.   *)
(* Pure: no variables, no constants.                                       *)
(***************************************************************************)

\* JobState: the sixteen members of the enum, under their persisted values.
States ==
    {"new", "crawl_failed", "crawled", "crawled_warn", "processing",
     "process_failed", "blocked", "duplicate", "needs_human_review",
     "needs_revision", "processed", "review_pending", "approved",
     "rejected", "superseded", "published_recorded"}

\* ReviewReason: why a job is held for a human; "none" is a NULL column.
Reasons == {"risk", "dedup", "grounding", "classification"}
NoReason == "none"

TransientStates == {"processing"}
TerminalStates == {"rejected", "superseded", "published_recorded"}

\* Every state the table of jobs may hold: processing is never persisted.
RestingStates == States \ TransientStates

\* _TRANSITIONS, as a relation: the pairs <<from, to>> of the table.
Transitions ==
    {"new"} \X {"crawled", "crawled_warn", "needs_revision", "crawl_failed"}
    \cup {"crawl_failed"} \X {"new"}
    \cup {"crawled"} \X {"crawled_warn", "processing"}
    \cup {"crawled_warn", "process_failed"} \X {"processing"}
    \cup {"processing"} \X {"process_failed", "blocked", "duplicate",
                            "needs_human_review", "needs_revision", "processed"}
    \cup {"needs_human_review"} \X {"processed", "rejected", "superseded"}
    \cup {"needs_revision"} \X {"processing", "superseded"}
    \cup {"processed"} \X {"review_pending"}
    \cup {"review_pending"} \X {"approved", "rejected", "superseded"}
    \cup {"approved"} \X {"published_recorded", "superseded"}
    \cup {"blocked", "duplicate"} \X {"superseded"}

\* is_legal_transition.
IsLegal(from, to) == <<from, to>> \in Transitions

\* Mutant: process accepts a processed job too.
AlsoProcessed ==
    {"crawled", "crawled_warn", "process_failed", "needs_revision", "processed"}

\* What Pipeline.process accepts at entry, which is also what a marker stands
\* for a crash on (RECONCILABLE_STATES).
ReconcilableStates == {"crawled", "crawled_warn", "process_failed", "needs_revision"}

\* _MARKER_ONLY_CLEAR_STATES: a marker here is a leftover that is only removed.
MarkerOnlyClearStates == TerminalStates \cup {"blocked", "duplicate"}

\* Where a Stage-2 run may leave the job: the successors of processing.
StageTwoOutcomes == {s \in States : IsLegal("processing", s)}

\* The persisted state may go from a to b: by an edge of the table between
\* resting states (set_state, persist_crawl_result) or through the transient
\* processing (persist_from_processing).
PersistedEdge(a, b) ==
    \/ b \in RestingStates /\ IsLegal(a, b)
    \/ IsLegal(a, "processing") /\ IsLegal("processing", b)
=============================================================================
