------------------------------ MODULE LcpProofs ------------------------------
(***************************************************************************)
(* Theorems about one job, for any threads, processes, PIDs, drafts,       *)
(* covers, limits and deaths: first about Stage 2 by itself, then about    *)
(* Stage 2 and the operators on the same row. What the operators keep by   *)
(* themselves is in SignOffProofs.                                         *)
(*                                                                         *)
(* The inductive invariants of Stage 2 are conjunctions of the type        *)
(* invariant and of what each thread knows at the step it has reached.     *)
(***************************************************************************)
EXTENDS Lcp, FiniteSetTheorems, TLAPS

\* What a run will persist: park and the error handler change two of its fields.
LEMMA ParkedRun ==
  ASSUME NEW r \in Run, NEW s \in StageTwoOutcomes, NEW why \in Reasons \cup {NoReason}
  PROVE  [r EXCEPT !.target = s, !.reason = why] \in Run
  BY DEF Run

\* What park and the error handler leave in those fields.
LEMMA ParkSets ==
  ASSUME Stage2TypeOK, NEW t \in Threads, NEW s, NEW why, Park(t, s, why)
  PROVE  run'[t].target = s /\ run'[t].reason = why
  BY DEF Park, Run, Stage2TypeOK

\* A job that has just been crawled, with nothing running, has the types.
LEMMA TypeInit == Init => Stage2TypeOK
  BY DEF Init, Crawled, Stage2Init, Stage2TypeOK, StoreTypeOK, Row, Run, FreshRun,
         NoView, View, RestingStates, States, TransientStates, Labels, Reasons

\* The pass over the worklist moves nothing but itself, and at its end the marker.
LEMMA PassReadsOnly ==
  ASSUME Reconcile
  PROVE  /\ UNCHANGED <<row, draft, cover, audit, count, inflight, pc, run, crashEntry,
                        serviceError, pid, deaths, kills>>
         /\ marker' = marker \/ (ClearStale /\ marker' = None)
  BY DEF Reconcile, Snapshot, LookMarker, LookOwner, LookAlive, LookCount, Judge, Reads, ReadsOn,
     ClearStale, storeVars, flagVars, procVars

\* A read after the first goes on with the state that was read, or ends the pass; it is
\* about to clear, or to count, only in the states where it may.
LEMMA PassGoesOn ==
  ASSUME Stage2TypeOK, LookMarker \/ LookOwner \/ LookAlive \/ LookCount
  PROVE  /\ view' \in View
         /\ view.at # "idle"
         /\ steady' \in {steady, {}}
         /\ \/ view' = NoView
            \/ /\ view'.state = view.state
               /\ view'.at = "clear" => view.state \in MarkerOnlyClearStates
               /\ view'.at = "count" => view.state \in ReconcilableStates
         /\ report' = report \/ LookCount
<1>1. view \in View /\ NoView \in View
  BY DEF Stage2TypeOK, NoView, View, RestingStates, States, TransientStates
<1>2. ASSUME NEW next \in View, Reads(next)
      PROVE  view' = next /\ steady' \in {steady, {}}
  BY <1>2 DEF Reads
<1>3. \A at \in {"marker", "owner", "probe", "count", "clear"}, i \in Pids \cup {None} :
         /\ [view EXCEPT !.at = at] \in View
         /\ [view EXCEPT !.at = at].state = view.state
         /\ [view EXCEPT !.at = at].at = at
         /\ [view EXCEPT !.at = at, !.owner = i] \in View
         /\ [view EXCEPT !.at = at, !.owner = i].state = view.state
         /\ [view EXCEPT !.at = at, !.owner = i].at = at
  BY <1>1 DEF View
<1>4. ASSUME Judge
      PROVE  /\ view' \in View /\ steady' \in {steady, {}} /\ report' = report
             /\ \/ view' = NoView
                \/ /\ view'.state = view.state
                   /\ view'.at = "clear" => view.state \in MarkerOnlyClearStates
                   /\ view'.at = "count" => view.state \in ReconcilableStates
  BY <1>1, <1>2, <1>3, <1>4 DEF Judge, ReadsOn
<1>5. CASE LookMarker
  BY <1>1, <1>2, <1>3, <1>5 DEF LookMarker, ReadsOn, Viewing
<1>6. CASE LookOwner
  <2>1. CASE marker \in Pids
    <3> DEFINE next == [view EXCEPT !.at = "probe", !.owner = marker]
    <3>1. next \in View /\ next.state = view.state /\ next.at = "probe"
      BY <1>3, <2>1
    <3>2. Reads(next) /\ report' = report /\ view.at = "owner"
      BY <1>6, <2>1 DEF LookOwner, ReadsOn, Viewing
    <3> HIDE DEF next
    <3>3. view' = next /\ steady' \in {steady, {}}
      BY <1>2, <3>1, <3>2
    <3> QED
      BY <3>1, <3>2, <3>3
  <2>2. CASE marker \notin Pids
    BY <1>4, <1>6, <2>2 DEF LookOwner, Viewing
  <2> QED
    BY <2>1, <2>2
<1>7. CASE LookAlive
  BY <1>1, <1>2, <1>4, <1>7 DEF LookAlive, ReadsOn, Viewing
<1>8. CASE LookCount
  BY <1>1, <1>2, <1>8 DEF LookCount, Viewing
<1> QED
  BY <1>5, <1>6, <1>7, <1>8

\* It keeps the types.
LEMMA PassKeepsTypes ==
  ASSUME Stage2TypeOK, Reconcile
  PROVE  Stage2TypeOK'
<1>1. NoView \in View /\ [NoView EXCEPT !.at = "marker", !.state = row.state] \in View
  BY DEF Stage2TypeOK, StoreTypeOK, Row, NoView, View, RestingStates, States, TransientStates
<1>2. view' \in View /\ steady' \subseteq Threads /\ report' \in {"nothing", "interrupted", "exhausted"}
  <2>1. CASE Snapshot
    BY <1>1, <2>1 DEF Snapshot, Stage2TypeOK
  <2>2. CASE ClearStale
    BY <1>1, <2>2 DEF ClearStale, Stage2TypeOK
  <2>3. CASE LookMarker \/ LookOwner \/ LookAlive \/ LookCount
    BY <2>3, PassGoesOn DEF Stage2TypeOK, LookCount
  <2> QED
    BY <2>1, <2>2, <2>3 DEF Reconcile
<1> QED
  BY <1>2, PassReadsOnly DEF Stage2TypeOK, StoreTypeOK

\* Every step of process, of a process or of the worklist keeps the types.
LEMMA TypeStep == Stage2TypeOK /\ [Next]_vars => Stage2TypeOK'
<1> SUFFICES ASSUME Stage2TypeOK, [Next]_vars
             PROVE  Stage2TypeOK'
  OBVIOUS
<1> USE StageTwoAssumption, DraftAssumption DEF Stage2TypeOK, StoreTypeOK
<1>1. ASSUME NEW t \in Threads, Enter(t)
      PROVE  Stage2TypeOK'
  BY <1>1 DEF Enter, Transition, Goto, storeVars, flagVars, procVars, viewVars, Labels
<1>2. ASSUME NEW t \in Threads, CheckMarker(t)
      PROVE  Stage2TypeOK'
  BY <1>2 DEF CheckMarker, Transition, Goto, flagVars, procVars, viewVars, Labels, AuditEvent
<1>2b. ASSUME NEW t \in Threads, EnterFails(t)
       PROVE  Stage2TypeOK'
  BY <1>2b DEF EnterFails, Transition, Goto, storeVars, flagVars, viewVars, Labels
<1>3. ASSUME NEW t \in Threads, OpenMarker(t) \/ StampMarker(t)
      PROVE  Stage2TypeOK'
  BY <1>3 DEF OpenMarker, StampMarker, Transition, Goto, Alive, storeVars, flagVars, procVars, viewVars, Labels
<1>4. ASSUME NEW t \in Threads, GateParks(t)
      PROVE  Stage2TypeOK'
  <2>1. PICK g \in Found : Park(t, g[2], g[3])
    BY <1>4 DEF GateParks
  <2>2. g[2] \in StageTwoOutcomes /\ g[3] \in Reasons \cup {NoReason}
    BY <2>1 DEF ParkingGates, StageTwoOutcomes, States, IsLegal, Transitions, Reasons, NoReason
  <2>3. [run[t] EXCEPT !.target = g[2], !.reason = g[3]] \in Run
    BY <2>2, ParkedRun
  <2>4. run' \in [Threads -> Run]
    BY <2>1, <2>3 DEF Park
  <2> QED
    BY <1>4, <2>4 DEF GateParks, Transition, Goto, flagVars, procVars, viewVars, Labels
<1>5. ASSUME NEW t \in Threads, GatesPass(t)
      PROVE  Stage2TypeOK'
  BY <1>5 DEF GatesPass, Transition, Goto, flagVars, procVars, viewVars, Labels
<1>6. ASSUME NEW t \in Threads, Assemble(t)
      PROVE  Stage2TypeOK'
  <2>1. run' \in [Threads -> Run]
    BY <1>6 DEF Assemble, Run
  <2> QED
    BY <1>6, <2>1 DEF Assemble, Transition, Goto, storeVars, flagVars, procVars, viewVars, Labels
<1>7. ASSUME NEW t \in Threads, ServiceFails(t)
      PROVE  Stage2TypeOK'
  <2>1. "process_failed" \in StageTwoOutcomes
    BY DEF StageTwoOutcomes, States, IsLegal, Transitions
  <2>2. [run[t] EXCEPT !.target = "process_failed", !.reason = NoReason] \in Run
    BY <2>1, ParkedRun
  <2>3. run' \in [Threads -> Run]
    BY <1>7, <2>2 DEF ServiceFails, Park
  <2> QED
    BY <1>7, <2>3 DEF ServiceFails, Transition, Goto, storeVars, flagVars, procVars, viewVars, Labels
<1>8. ASSUME NEW t \in Threads, OtherError(t)
      PROVE  Stage2TypeOK'
  BY <1>8 DEF OtherError, Transition, Goto, storeVars, flagVars, procVars, viewVars, Labels
<1>9. ASSUME NEW t \in Threads, SaveDraft(t)
      PROVE  Stage2TypeOK'
  BY <1>9 DEF SaveDraft, Transition, Goto, flagVars, procVars, viewVars, Labels, Run
<1>10. ASSUME NEW t \in Threads, LintDraft(t)
       PROVE  Stage2TypeOK'
  <2>1. PICK s \in StageTwoOutcomes, why \in Reasons \cup {NoReason} : Park(t, s, why)
    BY <1>10 DEF LintDraft, StageTwoOutcomes, States, IsLegal, Transitions, Reasons
  <2>2. [run[t] EXCEPT !.target = s, !.reason = why] \in Run
    BY ParkedRun
  <2>3. run' \in [Threads -> Run]
    BY <2>1, <2>2 DEF Park
  <2> QED
    BY <1>10, <2>3 DEF LintDraft, Transition, Goto, flagVars, procVars, viewVars, Labels
<1>11. ASSUME NEW t \in Threads, Persist(t)
       PROVE  Stage2TypeOK'
  <2>1. run[t].target \in RestingStates /\ run[t].reason \in Reasons \cup {NoReason}
    BY <1>11 DEF Persist, PersistFromProcessing, Run, IsLegal, Transitions,
       RestingStates, States, TransientStates
  <2> QED
    BY <1>11, <2>1 DEF Persist, PersistFromProcessing, Transition, Goto, flagVars, procVars,
       viewVars, Labels, Row
<1>12. ASSUME NEW t \in Threads, PersistFails(t)
       PROVE  Stage2TypeOK'
  BY <1>12 DEF PersistFails, Transition, Goto, storeVars, flagVars, procVars, viewVars, Labels
<1>13. ASSUME NEW t \in Threads, ClearAfterCommit(t) \/ ClearInFinally(t)
       PROVE  Stage2TypeOK'
  BY <1>13 DEF ClearAfterCommit, ClearInFinally, ClearMarker, Transition, Goto,
     storeVars, flagVars, procVars, viewVars, Labels
<1>14. ASSUME NEW t \in Threads, Leave(t)
       PROVE  Stage2TypeOK'
  BY <1>14 DEF Leave, Transition, Goto, storeVars, flagVars, viewVars, Labels, Run, FreshRun
<1>15. ASSUME NEW p \in Procs, Die(p)
       PROVE  Stage2TypeOK'
  <2> DEFINE dying == {t \in Threads : ProcOf[t] = p /\ Underway(t)}
  <2>1. Cardinality(dying) \in Nat
    BY FS_Subset, FS_CardinalityType DEF StageTwoAssumption
  <2>2. kills' \in Nat
    BY <1>15, <2>1 DEF Die
  <2>3. FreshRun \in Run /\ NoView \in View
    BY DEF FreshRun, Run, NoView, View, NoReason, RestingStates, States, TransientStates
  <2> QED
    BY <1>15, <2>2, <2>3 DEF Die, Alive, storeVars, Labels
<1>16. ASSUME NEW p \in Procs, Start(p)
       PROVE  Stage2TypeOK'
  BY <1>16 DEF Start, storeVars, flagVars, viewVars
<1>17. ASSUME Reconcile
       PROVE  Stage2TypeOK'
  BY <1>17, PassKeepsTypes
<1>18. CASE SupersededMeanwhile
  BY <1>18 DEF SupersededMeanwhile, SetState, runVars, flagVars, procVars, viewVars, Row,
     RestingStates, States, TransientStates
<1>19. CASE UNCHANGED vars
  BY <1>19 DEF vars, storeVars, runVars, flagVars, procVars, viewVars
<1> QED
  BY <1>1, <1>2, <1>3, <1>4, <1>5, <1>6, <1>7, <1>8, <1>9, <1>10, <1>11, <1>12,
     <1>13, <1>14, <1>15, <1>16, <1>17, <1>18, <1>19, <1>2b
     DEF Next, Stage2Next, Process

\* The store, the marker and the locals of a run never leave their types.
THEOREM TypeCorrect == Spec => []Stage2TypeOK
  BY TypeInit, TypeStep, PTL DEF Spec

-----------------------------------------------------------------------------
\* What a run is about to persist is in the log already.
Explained(state, why) ==
    \A e \in Evidence : state = e[1] /\ why = e[2] => <<e[3], e[4]>> \in audit

EvidenceInv ==
    /\ Stage2TypeOK
    /\ Explained(row.state, row.reason)
    /\ \A t \in Threads : pc[t] = "persist" => Explained(run[t].target, run[t].reason)

\* No step takes an event out of the log.
LEMMA AuditGrows == [Next]_vars => audit \subseteq audit'
<1> SUFFICES ASSUME [Next]_vars PROVE audit \subseteq audit'
  OBVIOUS
<1> USE DEF storeVars, AuditEvent
<1>1. ASSUME NEW t \in Threads, Process(t)
      PROVE  audit \subseteq audit'
  <2>1. CASE Enter(t) \/ CheckMarker(t) \/ OpenMarker(t) \/ StampMarker(t)
    BY <2>1 DEF Enter, CheckMarker, OpenMarker, StampMarker
  <2>2. CASE GateParks(t) \/ GatesPass(t) \/ Assemble(t) \/ SaveDraft(t) \/ LintDraft(t)
    BY <2>2 DEF GateParks, GatesPass, Assemble, SaveDraft, LintDraft
  <2>3. CASE ServiceFails(t) \/ OtherError(t) \/ Persist(t) \/ PersistFails(t)
    BY <2>3 DEF ServiceFails, OtherError, Persist, PersistFails
  <2>4. CASE ClearAfterCommit(t) \/ ClearInFinally(t) \/ Leave(t) \/ EnterFails(t)
    BY <2>4 DEF ClearAfterCommit, ClearInFinally, ClearMarker, Leave, EnterFails
  <2> QED
    BY <1>1, <2>1, <2>2, <2>3, <2>4 DEF Process
<1>2. ASSUME NEW p \in Procs, Die(p) \/ Start(p)
      PROVE  audit \subseteq audit'
  BY <1>2 DEF Die, Start
<1>3. CASE Reconcile
  BY <1>3, PassReadsOnly DEF storeVars
<1>4. CASE SupersededMeanwhile
  BY <1>4 DEF SupersededMeanwhile
<1>5. CASE UNCHANGED vars
  BY <1>5 DEF vars
<1> QED
  BY <1>1, <1>2, <1>3, <1>4, <1>5 DEF Next, Stage2Next

\* The three steps that choose what to persist leave the job explained.
LEMMA ChoiceIsExplained ==
  ASSUME Stage2TypeOK, NEW t \in Threads, GateParks(t) \/ LintDraft(t) \/ ServiceFails(t)
  PROVE  Explained(run[t].target, run[t].reason)'
<1>1. Stage2TypeOK
  OBVIOUS
<1>2. ASSUME NEW s, NEW why, Park(t, s, why)
      PROVE  run'[t].target = s /\ run'[t].reason = why
  BY <1>1, <1>2, ParkSets
<1>3. CASE GateParks(t)
  <2>1. PICK g \in Found : AuditEvent(g[1], g[2]) /\ Park(t, g[2], g[3])
    BY <1>3 DEF GateParks
  <2>2. g \in ParkingGates /\ <<g[1], g[2]>> \in audit'
    BY <2>1, StageTwoAssumption DEF AuditEvent
  <2> QED
    BY <1>2, <2>1, <2>2 DEF Explained, Evidence, ParkingGates, NoReason
<1>4. CASE LintDraft(t)
  <2>1. CASE Park(t, "needs_revision", NoReason)
    BY <1>2, <2>1 DEF Explained, Evidence, NoReason
  <2>2. CASE Park(t, "needs_human_review", "grounding")
             /\ AuditEvent("GROUNDING_GATE", "needs_human_review")
    BY <1>2, <2>2 DEF Explained, Evidence, AuditEvent, NoReason
  <2>3. CASE Park(t, "needs_human_review", "classification")
             /\ AuditEvent("LINT_GATE", "needs_human_review")
    BY <1>2, <2>3 DEF Explained, Evidence, AuditEvent, NoReason
  <2>4. CASE Park(t, "processed", NoReason) /\ AuditEvent("LINT_GATE", "pass")
    BY <1>2, <2>4 DEF Explained, Evidence, AuditEvent, NoReason
  <2> QED
    BY <1>4, <2>1, <2>2, <2>3, <2>4 DEF LintDraft
<1>5. CASE ServiceFails(t)
  <2>1. Park(t, "process_failed", NoReason)
    BY <1>5 DEF ServiceFails
  <2> QED
    BY <1>2, <2>1 DEF Explained, Evidence, NoReason
<1> QED
  BY <1>3, <1>4, <1>5

\* The other steps change neither what a run will persist nor the row, but for
\* Persist, which copies the one into the other.
LEMMA OthersKeepThePlan ==
  ASSUME Stage2TypeOK, [Next]_vars, NEW u \in Threads, pc'[u] = "persist",
         ~(GateParks(u) \/ LintDraft(u) \/ ServiceFails(u))
  PROVE  pc[u] = "persist" /\ run'[u] = run[u]
<1> USE DEF Stage2TypeOK, Transition, Goto, Park
<1>1. ASSUME NEW t \in Threads, Process(t)
      PROVE  pc[u] = "persist" /\ run'[u] = run[u]
  <2>1. CASE Enter(t) \/ CheckMarker(t) \/ OpenMarker(t) \/ StampMarker(t)
    BY <2>1 DEF Enter, CheckMarker, OpenMarker, StampMarker
  <2>2. CASE GatesPass(t) \/ Assemble(t) \/ SaveDraft(t)
    BY <2>2 DEF GatesPass, Assemble, SaveDraft
  <2>3. CASE OtherError(t) \/ Persist(t) \/ PersistFails(t)
    BY <2>3 DEF OtherError, Persist, PersistFails
  <2>4. CASE ClearAfterCommit(t) \/ ClearInFinally(t) \/ Leave(t) \/ EnterFails(t)
    BY <2>4 DEF ClearAfterCommit, ClearInFinally, ClearMarker, Leave, EnterFails
  <2>5. CASE t # u /\ (GateParks(t) \/ LintDraft(t) \/ ServiceFails(t))
    BY <2>5 DEF GateParks, LintDraft, ServiceFails
  <2> QED
    BY <1>1, <2>1, <2>2, <2>3, <2>4, <2>5 DEF Process
<1>2. ASSUME NEW p \in Procs, Die(p) \/ Start(p)
      PROVE  pc[u] = "persist" /\ run'[u] = run[u]
  BY <1>2 DEF Die, Start
<1>3. CASE Reconcile
  BY <1>3, PassReadsOnly DEF storeVars
<1>4. CASE SupersededMeanwhile
  BY <1>4 DEF SupersededMeanwhile, runVars
<1>5. CASE UNCHANGED vars
  BY <1>5 DEF vars, runVars
<1> QED
  BY <1>1, <1>2, <1>3, <1>4, <1>5 DEF Next, Stage2Next

\* Of the steps of Stage 2, only the commit of a run changes the row, to what it has
\* chosen.
LEMMA CommitMovesTheRow ==
  ASSUME Stage2Next, row' # row
  PROVE  \E t \in Threads : /\ Persist(t)
                            /\ pc[t] = "persist"
                            /\ row' = [state |-> run[t].target, reason |-> run[t].reason]
<1> USE DEF storeVars
<1>1. ASSUME NEW t \in Threads, Process(t)
      PROVE  Persist(t)
  <2>1. CASE Enter(t) \/ CheckMarker(t) \/ OpenMarker(t) \/ StampMarker(t)
    BY <2>1 DEF Enter, CheckMarker, OpenMarker, StampMarker
  <2>2. CASE GateParks(t) \/ GatesPass(t) \/ Assemble(t) \/ SaveDraft(t) \/ LintDraft(t)
    BY <2>2 DEF GateParks, GatesPass, Assemble, SaveDraft, LintDraft
  <2>3. CASE ServiceFails(t) \/ OtherError(t) \/ PersistFails(t)
    BY <2>3 DEF ServiceFails, OtherError, PersistFails
  <2>4. CASE ClearAfterCommit(t) \/ ClearInFinally(t) \/ Leave(t) \/ EnterFails(t)
    BY <2>4 DEF ClearAfterCommit, ClearInFinally, ClearMarker, Leave, EnterFails
  <2> QED
    BY <1>1, <2>1, <2>2, <2>3, <2>4 DEF Process
<1>2. ASSUME NEW p \in Procs, Die(p) \/ Start(p)
      PROVE  FALSE
  BY <1>2 DEF Die, Start
<1>3. CASE Reconcile
  BY <1>3, PassReadsOnly DEF storeVars
<1>4. PICK t \in Threads : Persist(t)
  BY <1>1, <1>2, <1>3 DEF Stage2Next
<1> QED
  BY <1>4 DEF Persist, PersistFromProcessing, Transition

\* And of all steps, that and an operator's who supersedes the job.
LEMMA RowMovesAtPersist ==
  ASSUME [Next]_vars, row' # row, ~SupersededMeanwhile
  PROVE  \E t \in Threads : /\ Persist(t)
                            /\ pc[t] = "persist"
                            /\ row' = [state |-> run[t].target, reason |-> run[t].reason]
  BY CommitMovesTheRow DEF Next, vars, storeVars

\* Whatever the threads, their interleaving and the crashes: a state a gate has
\* put the job in is explained by an event that was in the log before it.
THEOREM EvidenceBeforeState == Spec => []ParkedHasEvidence
<1>1. Init => EvidenceInv
  <2> SUFFICES ASSUME Init PROVE EvidenceInv
    OBVIOUS
  <2>1. Stage2TypeOK
    BY TypeInit
  <2>2. Explained(row.state, row.reason)
    BY DEF Init, Crawled, Explained, Evidence
  <2>3. \A t \in Threads : pc[t] # "persist"
    BY DEF Init, Stage2Init
  <2> QED
    BY <2>1, <2>2, <2>3 DEF EvidenceInv
<1>2. EvidenceInv /\ [Next]_vars => EvidenceInv'
  <2> SUFFICES ASSUME EvidenceInv, [Next]_vars PROVE EvidenceInv'
    OBVIOUS
  <2>1. Stage2TypeOK /\ Stage2TypeOK'
    BY TypeStep DEF EvidenceInv
  <2>2. audit \subseteq audit'
    BY AuditGrows
  <2>3. Explained(row.state, row.reason)'
    <3>1. CASE row' = row
      BY <2>2, <3>1 DEF EvidenceInv, Explained
    <3>2. CASE SupersededMeanwhile
      BY <3>2 DEF SupersededMeanwhile, SetState, Explained, Evidence
    <3>3. CASE row' # row /\ ~SupersededMeanwhile
      <4>1. PICK t \in Threads : /\ pc[t] = "persist"
                                 /\ row' = [state |-> run[t].target, reason |-> run[t].reason]
        BY <2>1, <3>3, RowMovesAtPersist
      <4> QED
        BY <2>2, <4>1 DEF EvidenceInv, Explained
    <3> QED
      BY <3>1, <3>2, <3>3
  <2>4. ASSUME NEW u \in Threads, pc'[u] = "persist"
        PROVE  Explained(run[u].target, run[u].reason)'
    <3>1. CASE GateParks(u) \/ LintDraft(u) \/ ServiceFails(u)
      BY <2>1, <3>1, ChoiceIsExplained
    <3>2. CASE ~(GateParks(u) \/ LintDraft(u) \/ ServiceFails(u))
      <4>1. pc[u] = "persist" /\ run'[u] = run[u]
        BY <2>1, <2>4, <3>2, OthersKeepThePlan
      <4> QED
        BY <2>2, <4>1 DEF EvidenceInv, Explained
    <3> QED
      BY <3>1, <3>2
  <2> QED
    BY <2>1, <2>3, <2>4 DEF EvidenceInv
<1>3. EvidenceInv => ParkedHasEvidence
  BY DEF EvidenceInv, Explained, ParkedHasEvidence
<1> QED
  BY <1>1, <1>2, <1>3, PTL DEF Spec

-----------------------------------------------------------------------------
\* Under one server: what a thread that is in process() can rely on. Until its
\* commit the row stays where it can be processed, unless an operator closes it.
BeforeCommit == {"check", "mark", "stamp", "gates", "assemble", "save", "lint", "persist"}

OpenOrClosed == ReconcilableStates \cup {"superseded"}

Passed(d) == d # None /\ Lint[d] = "clean"

Knows(t) ==
    /\ pc[t] # "idle" => inflight = {t}
    /\ pc[t] \in BeforeCommit => row.state \in OpenOrClosed
    /\ pc[t] \in {"save", "lint"} => run[t].draft # None
    /\ pc[t] = "lint" => draft = run[t].draft
    /\ pc[t] = "persist" /\ run[t].target = "processed" => Passed(draft)

SlotInv ==
    /\ Stage2TypeOK
    /\ \A t \in Threads : Knows(t)

\* And what the row itself promises of the draft.
ExclusiveInv ==
    /\ SlotInv
    /\ row.state = "processed" => Passed(draft)

\* The slot keeps every other thread out, when all the threads must take it.
LEMMA OneAtATime ==
  ASSUME SlotInv, Exclusive, NEW t \in Threads, Process(t),
         NEW u \in Threads, u # t
  PROVE  pc[u] = "idle" /\ pc'[u] = "idle"
<1> USE DEF SlotInv, Knows, Transition, Goto
<1>1. pc \in [Threads -> Labels]
  BY DEF Stage2TypeOK
<1>2. CASE Enter(t)
  BY <1>1, <1>2 DEF Enter, Exclusive
<1>3. CASE CheckMarker(t) \/ OpenMarker(t) \/ StampMarker(t) \/ GateParks(t) \/ GatesPass(t)
  BY <1>1, <1>3 DEF CheckMarker, OpenMarker, StampMarker, GateParks, GatesPass
<1>4. CASE Assemble(t) \/ SaveDraft(t) \/ LintDraft(t) \/ ServiceFails(t) \/ OtherError(t)
  BY <1>1, <1>4 DEF Assemble, SaveDraft, LintDraft, ServiceFails, OtherError
<1>5. CASE Persist(t) \/ PersistFails(t) \/ ClearAfterCommit(t) \/ ClearInFinally(t) \/ Leave(t)
           \/ EnterFails(t)
  BY <1>1, <1>5 DEF Persist, PersistFails, ClearAfterCommit, ClearInFinally, ClearMarker, Leave, EnterFails
<1> QED
  BY <1>2, <1>3, <1>4, <1>5 DEF Process

\* A step of the run in the slot keeps what that run knows.
LEMMA RunKeepsKnowing ==
  ASSUME SlotInv, Exclusive, NEW t \in Threads, Process(t)
  PROVE  Knows(t)'
<1> USE DEF SlotInv, Stage2TypeOK, Knows, BeforeCommit, OpenOrClosed, Transition, Goto
<1>1. CASE Enter(t)
  BY <1>1 DEF Enter, Exclusive, storeVars
<1>2. CASE CheckMarker(t) \/ OpenMarker(t) \/ StampMarker(t)
  BY <1>2 DEF CheckMarker, OpenMarker, StampMarker, storeVars
<1>3. CASE GateParks(t)
  <2>1. PICK g \in ParkingGates : Park(t, g[2], g[3])
    BY <1>3, StageTwoAssumption DEF GateParks
  <2>2. run'[t].target # "processed"
    BY <2>1 DEF Park, ParkingGates, Run
  <2> QED
    BY <1>3, <2>2 DEF GateParks
<1>4. CASE GatesPass(t)
  BY <1>4 DEF GatesPass
<1>5. CASE Assemble(t)
  <2>1. run'[t].draft # None
    BY <1>5, DraftAssumption DEF Assemble, Run
  <2> QED
    BY <1>5, <2>1 DEF Assemble, storeVars
<1>6. CASE ServiceFails(t)
  <2>1. run'[t].target # "processed"
    BY <1>6 DEF ServiceFails, Park, Run
  <2> QED
    BY <1>6, <2>1 DEF ServiceFails, storeVars
<1>7. CASE OtherError(t) \/ PersistFails(t)
  BY <1>7 DEF OtherError, PersistFails, storeVars
<1>8. CASE SaveDraft(t)
  BY <1>8 DEF SaveDraft, ReconcilableStates
<1>9. CASE LintDraft(t)
  <2>1. run'[t].target = "processed" => Lint[run[t].draft] = "clean"
    BY <1>9, ParkSets DEF LintDraft
  <2> QED
    BY <1>9, <2>1 DEF LintDraft, Passed
<1>10. CASE Persist(t)
  BY <1>10 DEF Persist, PersistFromProcessing
<1>11. CASE ClearAfterCommit(t) \/ ClearInFinally(t) \/ Leave(t) \/ EnterFails(t)
  BY <1>11 DEF ClearAfterCommit, ClearInFinally, ClearMarker, Leave, EnterFails, storeVars
<1> QED
  BY <1>1, <1>2, <1>3, <1>4, <1>5, <1>6, <1>7, <1>8, <1>9, <1>10, <1>11 DEF Process

\* The row, the draft and the slot are all that the threads rely on: who leaves them
\* alone, or closes the job, takes nothing from what they know.
LEMMA OthersKeepKnowing ==
  ASSUME SlotInv, UNCHANGED <<draft, pc, run, inflight>>,
         row' = row \/ row'.state = "superseded", NEW u \in Threads
  PROVE  Knows(u)'
  BY DEF SlotInv, Knows, BeforeCommit, OpenOrClosed

\* Every step keeps it: the run in the slot by RunKeepsKnowing, a death by what it
\* leaves, and the worklist by what it does not touch.
LEMMA SlotStep ==
  ASSUME Exclusive
  PROVE  SlotInv /\ [Next]_vars => SlotInv'
<1> SUFFICES ASSUME SlotInv, [Next]_vars PROVE SlotInv'
  OBVIOUS
<1>1. Stage2TypeOK /\ Stage2TypeOK'
  BY TypeStep DEF SlotInv
<1>2. SUFFICES ASSUME NEW u \in Threads PROVE Knows(u)'
  BY <1>1 DEF SlotInv
<1>3. ASSUME NEW t \in Threads, Process(t)
      PROVE  Knows(u)'
  <2>1. CASE u = t
    BY <1>3, <2>1, RunKeepsKnowing
  <2>2. CASE u # t
    <3>1. pc'[u] = "idle"
      BY <1>3, <2>2, OneAtATime
    <3> QED
      BY <3>1 DEF Knows, BeforeCommit
  <2> QED
    BY <2>1, <2>2
<1>4. ASSUME NEW p \in Procs, Die(p)
      PROVE  Knows(u)'
  BY <1>1, <1>4 DEF Die, SlotInv, Knows, BeforeCommit, Stage2TypeOK, storeVars
<1>5. ASSUME NEW p \in Procs, Start(p)
      PROVE  Knows(u)'
  BY <1>5, OthersKeepKnowing DEF Start, storeVars
<1>6. CASE Reconcile
  BY <1>6, OthersKeepKnowing, PassReadsOnly
<1>7. CASE SupersededMeanwhile
  BY <1>7, OthersKeepKnowing DEF SupersededMeanwhile, SetState, runVars
<1>8. CASE UNCHANGED vars
  BY <1>8, OthersKeepKnowing DEF vars, storeVars, runVars
<1> QED
  BY <1>3, <1>4, <1>5, <1>6, <1>7, <1>8 DEF Next, Stage2Next

\* The draft and the cover are written by a run before its commit, and by nobody else.
LEMMA WritesWhileOpen ==
  ASSUME SlotInv, [Next]_vars, draft' # draft \/ cover' # cover
  PROVE  row.state \in OpenOrClosed /\ \E t \in Threads : pc[t] \in BeforeCommit
<1> USE DEF storeVars
<1>1. ASSUME NEW t \in Threads, Process(t)
      PROVE  SaveDraft(t) \/ GateParks(t) \/ GatesPass(t)
  <2>1. CASE Enter(t) \/ CheckMarker(t) \/ OpenMarker(t) \/ StampMarker(t)
    BY <2>1 DEF Enter, CheckMarker, OpenMarker, StampMarker
  <2>2. CASE Assemble(t) \/ LintDraft(t) \/ ServiceFails(t) \/ OtherError(t)
    BY <2>2 DEF Assemble, LintDraft, ServiceFails, OtherError
  <2>3. CASE Persist(t) \/ PersistFails(t)
    BY <2>3 DEF Persist, PersistFails
  <2>4. CASE ClearAfterCommit(t) \/ ClearInFinally(t) \/ Leave(t) \/ EnterFails(t)
    BY <2>4 DEF ClearAfterCommit, ClearInFinally, ClearMarker, Leave, EnterFails
  <2> QED
    BY <1>1, <2>1, <2>2, <2>3, <2>4 DEF Process
<1>2. ASSUME NEW p \in Procs, Die(p) \/ Start(p)
      PROVE  FALSE
  BY <1>2 DEF Die, Start
<1>3. ASSUME Reconcile
      PROVE  FALSE
  BY <1>3, PassReadsOnly DEF storeVars
<1>4. PICK t \in Threads : SaveDraft(t) \/ GateParks(t) \/ GatesPass(t)
  BY <1>1, <1>2, <1>3 DEF Next, Stage2Next, SupersededMeanwhile, vars
<1> QED
  BY <1>4 DEF SaveDraft, GateParks, GatesPass, Transition, SlotInv, Knows, BeforeCommit

\* And a row that says processed is one a run has brought there, with the draft it
\* had judged.
LEMMA ExclusiveStep ==
  ASSUME Exclusive
  PROVE  ExclusiveInv /\ [Next]_vars => ExclusiveInv'
<1> SUFFICES ASSUME ExclusiveInv, [Next]_vars PROVE ExclusiveInv'
  OBVIOUS
<1>1. SlotInv /\ SlotInv' /\ Stage2TypeOK
  BY SlotStep DEF ExclusiveInv, SlotInv
<1>2. CASE row' = row
  <2>1. row.state = "processed" => draft' = draft
    BY <1>1, WritesWhileOpen DEF OpenOrClosed, ReconcilableStates
  <2> QED
    BY <1>1, <1>2, <2>1 DEF ExclusiveInv, Passed
<1>3. CASE SupersededMeanwhile
  BY <1>1, <1>3 DEF SupersededMeanwhile, SetState, ExclusiveInv
<1>4. CASE row' # row /\ ~SupersededMeanwhile
  <2>1. PICK t \in Threads : /\ Persist(t)
                             /\ pc[t] = "persist"
                             /\ row' = [state |-> run[t].target, reason |-> run[t].reason]
    BY <1>1, <1>4, RowMovesAtPersist
  <2> QED
    BY <1>1, <2>1 DEF Persist, ExclusiveInv, SlotInv, Knows, Passed
<1> QED
  BY <1>2, <1>3, <1>4

\* A crawled job with nothing running satisfies it.
LEMMA ExclusiveInit == Init => ExclusiveInv
<1> SUFFICES ASSUME Init PROVE ExclusiveInv
  OBVIOUS
<1>1. Stage2TypeOK
  BY TypeInit
<1>2. row.state # "processed"
  BY DEF Init, Crawled
<1>3. \A t \in Threads : pc[t] = "idle"
  BY DEF Init, Stage2Init
<1> QED
  BY <1>1, <1>2, <1>3 DEF ExclusiveInv, SlotInv, Knows, BeforeCommit

\* When one server takes every run, whatever dies and restarts, a job that
\* Stage 2 calls processed has a stored draft that passed the gates.
THEOREM ProcessedIsClean ==
  ASSUME Exclusive
  PROVE  Spec => []ProcessedDraftIsClean
<1>1. ExclusiveInv => ProcessedDraftIsClean
  BY DEF ExclusiveInv, SlotInv, ProcessedDraftIsClean, Passed
<1> QED
  BY <1>1, ExclusiveInit, ExclusiveStep, PTL DEF Spec

\* And its draft is never written again once it has left the states that can be
\* processed: save_draft runs only on a row that nobody has moved on.
THEOREM DraftStaysFrozen ==
  ASSUME Exclusive
  PROVE  Spec => DraftFrozen
<1>1. SlotInv /\ [Next]_vars => [draft' # draft => row.state \in OpenOrClosed]_vars
  BY WritesWhileOpen
<1>2. Init => SlotInv
  BY ExclusiveInit DEF ExclusiveInv
<1> QED
  BY <1>1, <1>2, SlotStep, PTL DEF Spec, DraftFrozen, OpenOrClosed

-----------------------------------------------------------------------------
(***************************************************************************)
(* The loop guard of Stage 2 counts what it should, for any limits and any *)
(* number of deaths, when every run goes through the slot of one server.   *)
(*                                                                         *)
(* CountIsExact is not inductive. What is not yet counted has to be pinned *)
(* to the marker while a run starts, is counted, and is cleared; the       *)
(* worklist must not take a marker away that still has to be counted; and  *)
(* the count must stay below the deaths in the states it does not speak of,*)
(* because a pass may report on a state it read before.                    *)
(***************************************************************************)

\* What the marker says and the counter does not know yet.
Pending == IF marker # None /\ ~\E t \in Threads : Underway(t) THEN 1 ELSE 0

CountInv ==
    /\ SlotInv
    /\ kills <= deaths
    /\ count + Pending <= kills
    /\ row.state \in ReconcilableStates => kills = count + Pending
    /\ \A t \in Threads : pc[t] = "reset" => marker = None
    /\ view.at = "clear" => view.state \in MarkerOnlyClearStates
    /\ view.at = "count" => view.state \in ReconcilableStates
    /\ view.at # "idle" /\ view.state \in MarkerOnlyClearStates =>
         row.state \notin ReconcilableStates
    /\ report = "exhausted" => deaths > MaxAttempts

\* A row that can no longer be processed never can again.
LEMMA ClosedForGood ==
  ASSUME Stage2TypeOK, [Next]_vars, row.state \notin ReconcilableStates
  PROVE  row'.state \notin ReconcilableStates
<1>1. CASE row' = row
  BY <1>1
<1>2. CASE SupersededMeanwhile
  BY <1>2 DEF SupersededMeanwhile, SetState, ReconcilableStates
<1>3. CASE row' # row /\ ~SupersededMeanwhile
  <2>1. PICK t \in Threads : Persist(t)
    BY <1>3, RowMovesAtPersist
  <2>2. IsLegal(row.state, "processing")
    BY <2>1 DEF Persist, PersistFromProcessing
  <2> QED
    BY <2>2 DEF IsLegal, Transitions, ReconcilableStates
<1> QED
  BY <1>1, <1>2, <1>3

\* Of the threads only the one that steps can be underway, before and after.
LEMMA OnlyOneUnderway ==
  ASSUME SlotInv, Exclusive, NEW t \in Threads, Process(t)
  PROVE  /\ Pending = IF marker # None /\ pc[t] \in {"idle", "check"} THEN 1 ELSE 0
         /\ Pending' = IF marker' # None /\ pc'[t] \in {"idle", "check"} THEN 1 ELSE 0
<1>1. \A u \in Threads : u # t => pc[u] = "idle" /\ pc'[u] = "idle"
  BY OneAtATime
<1> QED
  BY <1>1 DEF Pending, Underway

\* The conjuncts that speak of the counter and of the marker.
Counted ==
    /\ kills <= deaths
    /\ count + Pending <= kills
    /\ row.state \in ReconcilableStates => kills = count + Pending
    /\ \A t \in Threads : pc[t] = "reset" => marker = None

\* A step of the run in the slot keeps the count.
LEMMA RunCounts ==
  ASSUME CountInv, Exclusive, Stage2TypeOK', NEW t \in Threads, Process(t)
  PROVE  Counted'
<1>1. Stage2TypeOK /\ SlotInv
  BY DEF CountInv, SlotInv
<1>2. /\ Pending = IF marker # None /\ pc[t] \in {"idle", "check"} THEN 1 ELSE 0
      /\ Pending' = IF marker' # None /\ pc'[t] \in {"idle", "check"} THEN 1 ELSE 0
  BY <1>1, OnlyOneUnderway
<1>3. \A u \in Threads : u # t => pc'[u] = "idle"
  BY <1>1, OneAtATime
<1>4. row.state \notin ReconcilableStates => row'.state \notin ReconcilableStates
  BY <1>1, ClosedForGood DEF Next, Stage2Next
<1>5. /\ count \in Nat /\ kills \in Nat /\ deaths \in Nat
      /\ pc \in [Threads -> Labels]
      /\ None \notin Pids /\ Blank # None
  BY <1>1, StageTwoAssumption DEF Stage2TypeOK
<1>6. /\ kills <= deaths
      /\ count + Pending <= kills
      /\ row.state \in ReconcilableStates => kills = count + Pending
      /\ pc[t] = "reset" => marker = None
  BY DEF CountInv
<1>7. SUFFICES /\ kills' <= deaths'
               /\ count' + Pending' <= kills'
               /\ row.state \in ReconcilableStates => kills' = count' + Pending'
               /\ pc'[t] = "reset" => marker' = None
  BY <1>3, <1>4 DEF Counted
<1>8. CASE UNCHANGED <<count, kills, deaths, Pending>> /\ pc'[t] # "reset"
  BY <1>5, <1>6, <1>8
<1>9. CASE Enter(t)
  BY <1>2, <1>5, <1>8, <1>9 DEF Enter, Transition, Goto, procVars
<1>10. CASE CheckMarker(t)
  BY <1>2, <1>5, <1>6, <1>10 DEF CheckMarker, Transition, Goto, procVars
<1>11. CASE EnterFails(t)
  <2>1. pc'[t] = "idle" /\ marker' = marker /\ pc[t] \in {"check", "mark", "stamp"}
    BY <1>5, <1>11 DEF EnterFails, Transition, Goto
  <2> QED
    BY <1>2, <1>5, <1>6, <1>11, <2>1 DEF EnterFails
<1>12. CASE OpenMarker(t) \/ StampMarker(t)
  <2>1. pc[t] \notin {"idle", "check"} /\ pc'[t] \in {"stamp", "gates"}
    BY <1>5, <1>12 DEF OpenMarker, StampMarker, Transition, Goto
  <2> QED
    BY <1>2, <1>8, <1>12, <2>1 DEF OpenMarker, StampMarker, procVars
<1>13. CASE GateParks(t) \/ GatesPass(t) \/ Assemble(t) \/ ServiceFails(t) \/ OtherError(t)
            \/ SaveDraft(t) \/ LintDraft(t)
  <2>1. /\ pc[t] \in {"gates", "assemble", "save", "lint"}
        /\ pc'[t] \in {"assemble", "save", "lint", "persist", "unwind"}
    BY <1>5, <1>13 DEF GateParks, GatesPass, Assemble, ServiceFails, OtherError, SaveDraft,
       LintDraft, Transition, Goto
  <2>2. UNCHANGED <<count, kills, deaths, marker>>
    BY <1>13 DEF GateParks, GatesPass, Assemble, ServiceFails, OtherError, SaveDraft,
       LintDraft, procVars
  <2> QED
    BY <1>2, <1>8, <2>1, <2>2
<1>14. CASE Persist(t) \/ PersistFails(t)
  <2>1. pc[t] = "persist" /\ pc'[t] \in {"clear", "unwind"}
    BY <1>5, <1>14 DEF Persist, PersistFails, Transition, Goto
  <2> QED
    BY <1>2, <1>8, <1>14, <2>1 DEF Persist, PersistFails, procVars
<1>15. CASE ClearAfterCommit(t) \/ ClearInFinally(t)
  <2>1. /\ pc[t] \in {"clear", "unwind"} /\ pc'[t] \in {"unwind", "reset"}
        /\ marker' = None /\ UNCHANGED <<count, kills, deaths>>
    BY <1>5, <1>15 DEF ClearAfterCommit, ClearInFinally, ClearMarker, Transition, Goto, procVars
  <2> QED
    BY <1>2, <1>5, <1>6, <2>1
<1>16. CASE Leave(t)
  <2>1. pc[t] = "reset" /\ pc'[t] = "idle" /\ marker' = marker /\ deaths' = deaths
    BY <1>5, <1>16 DEF Leave, Transition, Goto
  <2>2. Pending = 0 /\ Pending' = 0
    BY <1>2, <1>6, <2>1
  <2>3. \/ count' = count /\ kills' = kills
        \/ count' = 0 /\ kills' = 0
    BY <1>16 DEF Leave
  <2> QED
    BY <1>5, <1>6, <2>1, <2>2, <2>3
<1> QED
  BY <1>9, <1>10, <1>11, <1>12, <1>13, <1>14, <1>15, <1>16 DEF Process

\* The death of a process: the run in the slot, if it is one of its own and has left
\* a marker, becomes the one failure that is still to be counted.
LEMMA DeathCounts ==
  ASSUME CountInv, Exclusive, NEW p \in Procs, Die(p)
  PROVE  Counted'
<1> DEFINE dying == {t \in Threads : ProcOf[t] = p /\ Underway(t)}
<1>1. SlotInv /\ Stage2TypeOK
  BY DEF CountInv, SlotInv
<1>2. count \in Nat /\ kills \in Nat /\ deaths \in Nat /\ pc \in [Threads -> Labels]
  BY <1>1 DEF Stage2TypeOK
<1>3. \A t, u \in Threads : pc[t] # "idle" /\ pc[u] # "idle" => t = u
  BY <1>1 DEF SlotInv, Knows
<1>4. /\ kills' = kills + (IF marker = None THEN 0 ELSE Cardinality(dying))
      /\ deaths' = deaths + 1 /\ UNCHANGED <<count, marker, row>>
      /\ \A t \in Threads : pc'[t] = IF ProcOf[t] = p THEN "idle" ELSE pc[t]
  BY DEF Die, storeVars
<1>5. /\ kills <= deaths
      /\ count + Pending <= kills
      /\ row.state \in ReconcilableStates => kills = count + Pending
  BY DEF CountInv
<1>6. \A t \in Threads : pc'[t] = "reset" => marker' = None
  BY <1>4 DEF CountInv
<1>7. CASE dying = {}
  <2>1. Cardinality(dying) = 0
    BY <1>7, FS_EmptySet
  <2>2. \A t \in Threads : Underway(t)' <=> Underway(t)
    BY <1>4, <1>7 DEF Underway
  <2>3. Pending' = Pending
    BY <1>4, <2>2 DEF Pending
  <2> QED
    BY <1>2, <1>4, <1>5, <1>6, <2>1, <2>3 DEF Counted
<1>8. CASE dying # {}
  <2>1. PICK t \in Threads : ProcOf[t] = p /\ Underway(t)
    BY <1>8
  <2>2. dying = {t}
    BY <1>3, <2>1 DEF Underway
  <2>3. Cardinality(dying) = 1
    BY <2>2, FS_Singleton
  <2>4. Pending = 0
    BY <2>1 DEF Pending
  <2>5. \A u \in Threads : ~Underway(u)'
    BY <1>3, <1>4, <2>1 DEF Underway
  <2>6. Pending' = IF marker = None THEN 0 ELSE 1
    BY <1>4, <2>5 DEF Pending
  <2> QED
    BY <1>2, <1>4, <1>5, <1>6, <2>3, <2>4, <2>6 DEF Counted
<1> QED
  BY <1>7, <1>8

\* The worklist clears no marker that is still to be counted.
LEMMA ClearStaleCounts ==
  ASSUME CountInv, ClearStale
  PROVE  Counted'
<1>1. Stage2TypeOK
  BY DEF CountInv, SlotInv
<1>2. marker' = None /\ UNCHANGED <<count, kills, deaths, row>>
  BY DEF ClearStale, procVars, storeVars
<1>3. Pending' = 0 /\ Pending \in {0, 1}
  BY <1>2 DEF Pending
<1>4. row.state \notin ReconcilableStates
  BY DEF CountInv, ClearStale, Viewing
<1>5. count \in Nat /\ kills \in Nat /\ kills <= deaths /\ count + Pending <= kills
  BY <1>1 DEF Stage2TypeOK, CountInv
<1> QED
  BY <1>2, <1>3, <1>4, <1>5 DEF Counted

\* Every step keeps the count.
LEMMA StepCounts ==
  ASSUME CountInv, Exclusive, [Next]_vars
  PROVE  Counted'
<1>1. Stage2TypeOK /\ Stage2TypeOK'
  BY TypeStep DEF CountInv, SlotInv
<1>2. CASE /\ UNCHANGED <<marker, pc, count, kills, deaths>>
           /\ row'.state \in ReconcilableStates => row.state \in ReconcilableStates
  <2>1. Pending' = Pending
    BY <1>2 DEF Pending, Underway
  <2> QED
    BY <1>2, <2>1 DEF CountInv, Counted
<1>3. row'.state \in ReconcilableStates => row.state \in ReconcilableStates
  BY <1>1, ClosedForGood
<1>4. ASSUME NEW p \in Procs, Start(p)
      PROVE  Counted'
  BY <1>2, <1>3, <1>4 DEF Start
<1>5. CASE Reconcile /\ ~ClearStale
  BY <1>2, <1>3, <1>5, PassReadsOnly
<1>6. CASE SupersededMeanwhile
  BY <1>2, <1>3, <1>6 DEF SupersededMeanwhile, runVars, procVars
<1>7. CASE UNCHANGED vars
  BY <1>2, <1>3, <1>7 DEF vars, runVars, procVars
<1> QED
  BY <1>1, <1>4, <1>5, <1>6, <1>7, RunCounts, DeathCounts, ClearStaleCounts
     DEF Next, Stage2Next

\* The conjuncts that speak of the worklist.
Watched ==
    /\ view.at = "clear" => view.state \in MarkerOnlyClearStates
    /\ view.at = "count" => view.state \in ReconcilableStates
    /\ view.at # "idle" /\ view.state \in MarkerOnlyClearStates =>
         row.state \notin ReconcilableStates
    /\ report = "exhausted" => deaths > MaxAttempts

\* No step but those of the worklist changes what it has read and said, and no
\* death is taken back.
LEMMA OthersKeepTheView ==
  ASSUME [Next]_vars, ~Reconcile
  PROVE  /\ view' = view \/ view' = NoView
         /\ report' = report
         /\ deaths' = deaths \/ deaths' = deaths + 1
<1> USE DEF procVars, viewVars
<1>1. ASSUME NEW t \in Threads, Process(t)
      PROVE  view' = view /\ report' = report /\ (deaths' = deaths \/ deaths' = deaths + 1)
  <2>1. CASE Enter(t) \/ CheckMarker(t) \/ EnterFails(t) \/ OpenMarker(t) \/ StampMarker(t)
    BY <2>1 DEF Enter, CheckMarker, EnterFails, OpenMarker, StampMarker
  <2>2. CASE GateParks(t) \/ GatesPass(t) \/ Assemble(t) \/ SaveDraft(t) \/ LintDraft(t)
    BY <2>2 DEF GateParks, GatesPass, Assemble, SaveDraft, LintDraft
  <2>3. CASE ServiceFails(t) \/ OtherError(t) \/ Persist(t) \/ PersistFails(t)
    BY <2>3 DEF ServiceFails, OtherError, Persist, PersistFails
  <2>4. CASE ClearAfterCommit(t) \/ ClearInFinally(t) \/ Leave(t)
    BY <2>4 DEF ClearAfterCommit, ClearInFinally, ClearMarker, Leave
  <2> QED
    BY <1>1, <2>1, <2>2, <2>3, <2>4 DEF Process
<1>2. ASSUME NEW p \in Procs, Die(p) \/ Start(p)
      PROVE  /\ view' = view \/ view' = NoView
             /\ report' = report
             /\ deaths' = deaths \/ deaths' = deaths + 1
  BY <1>2 DEF Die, Start
<1>3. CASE SupersededMeanwhile \/ UNCHANGED vars
  BY <1>3 DEF SupersededMeanwhile, vars, runVars
<1> QED
  BY <1>1, <1>2, <1>3 DEF Next, Stage2Next

\* Every step keeps what the worklist knows: a pass that says exhausted has read a
\* count, and the count is no more than the deaths.
LEMMA StepWatches ==
  ASSUME CountInv, [Next]_vars
  PROVE  Watched'
<1>1. Stage2TypeOK /\ Watched
  BY DEF CountInv, SlotInv, Watched
<1>2. /\ count \in Nat /\ kills \in Nat /\ deaths \in Nat /\ MaxAttempts \in Nat
      /\ view \in View
  BY <1>1, StageTwoAssumption DEF Stage2TypeOK
<1>3. row.state \notin ReconcilableStates => row'.state \notin ReconcilableStates
  BY <1>1, ClosedForGood
<1>4. NoView.at = "idle"
  BY DEF NoView
<1>5. CASE ~Reconcile
  BY <1>1, <1>2, <1>3, <1>4, <1>5, OthersKeepTheView DEF Watched
<1>6. CASE Snapshot
  <2>1. /\ view'.at = "marker" /\ view'.state = row.state
        /\ row' = row /\ report' = "nothing" /\ deaths' = deaths
    BY <1>6 DEF Snapshot, NoView, storeVars, procVars
  <2>2. MarkerOnlyClearStates \cap ReconcilableStates = {}
    BY DEF MarkerOnlyClearStates, TerminalStates, ReconcilableStates
  <2> QED
    BY <1>1, <2>1, <2>2 DEF Watched
<1>7. CASE LookMarker \/ LookOwner \/ LookAlive \/ LookCount
  <2>1. row' = row /\ deaths' = deaths
    BY <1>7, PassReadsOnly DEF Reconcile
  <2>2. report' = "exhausted" => report = "exhausted" \/ count > MaxAttempts
    BY <1>1, <1>7, PassGoesOn DEF LookCount
  <2>3. count <= deaths
    <3>1. Pending \in {0, 1} /\ kills <= deaths /\ count + Pending <= kills
      BY DEF CountInv, Pending
    <3> QED
      BY <1>2, <3>1
  <2> QED
    BY <1>1, <1>2, <1>4, <1>7, <2>1, <2>2, <2>3, PassGoesOn DEF Watched
<1>8. CASE ClearStale
  BY <1>1, <1>4, <1>8 DEF ClearStale, Watched, procVars
<1> QED
  BY <1>5, <1>6, <1>7, <1>8 DEF Reconcile

\* A job that has just been crawled has nothing to count.
LEMMA CountInit == Init => CountInv
<1> SUFFICES ASSUME Init PROVE CountInv
  OBVIOUS
<1>1. SlotInv
  BY ExclusiveInit DEF ExclusiveInv
<1>2. Pending = 0
  BY DEF Init, Stage2Init, Pending
<1> QED
  BY <1>1, <1>2 DEF Init, Stage2Init, CountInv, NoView

\* When one server takes every run, the loop guard counts every death and every
\* failure at entry that left a marker, once, and a job is reported as exhausted
\* only after more of them than it allows.
THEOREM CountStaysExact ==
  ASSUME Exclusive
  PROVE  Spec => []CountIsExact
<1>1. CountInv /\ [Next]_vars => CountInv'
  BY SlotStep, StepCounts, StepWatches DEF CountInv, Counted, Watched
<1>2. CountInv => CountIsExact
  BY DEF CountInv, CountIsExact, Pending
<1> QED
  BY <1>1, <1>2, CountInit, PTL DEF Spec

-----------------------------------------------------------------------------
(***************************************************************************)
(* The worklist beside the run in the slot. A run that has written its PID *)
(* finds that PID, or nothing, in the marker until it clears it; and while *)
(* the worklist is about to clear a marker, only a run on a superseded job *)
(* can be underway.                                                        *)
(***************************************************************************)
Stamped == AtWork \cup {"clear", "unwind"}

OwnsMarker(t) ==
    /\ pc[t] # "idle" => Alive(ProcOf[t])
    /\ pc[t] \in Stamped => marker \in {pid[ProcOf[t]], None}
    /\ pc[t] \in AtWork /\ row.state \in ReconcilableStates => marker = pid[ProcOf[t]]

\* A pass over a job that Stage 2 is done with has read the PID of the run that is
\* coming to its end; when it finds that the owner is dead, that run has cleared its marker.
ClearsNoRun ==
    \A t \in Threads : pc[t] # "idle" =>
        /\ view.at = "probe" /\ view.state \in MarkerOnlyClearStates =>
             row.state = "superseded" \/ view.owner = pid[ProcOf[t]]
        /\ view.at = "clear" => row.state = "superseded" \/ marker = None

\* A run that was at work when the pass read the job, and still is, has owned the marker
\* all along.
SparesSteady ==
    \A t \in steady :
        /\ pc[t] \notin {"check", "mark", "stamp"}
        /\ pc[t] \in AtWork /\ view.state \in ReconcilableStates =>
             /\ view.at \in {"marker", "owner"} => marker = pid[ProcOf[t]]
             /\ view.at = "probe" => view.owner = pid[ProcOf[t]]
             /\ view.at # "count"

SparesInv ==
    /\ CountInv
    /\ \A t \in Threads : OwnsMarker(t)
    /\ ClearsNoRun
    /\ SparesSteady

\* A step of the run in the slot: it stamps the marker with its own PID, and its
\* process lives, for it steps.
LEMMA RunOwns ==
  ASSUME SparesInv, Exclusive, NEW t \in Threads, Process(t)
  PROVE  OwnsMarker(t)' /\ view' = view
<1>1. Stage2TypeOK /\ pc \in [Threads -> Labels]
  BY DEF SparesInv, CountInv, SlotInv, Stage2TypeOK
<1>2. OwnsMarker(t)
  BY DEF SparesInv
<1> USE <1>1, <1>2 DEF OwnsMarker, Stamped, AtWork, Transition, Goto, storeVars, Alive, procVars, viewVars
<1>3. CASE Enter(t) \/ CheckMarker(t) \/ EnterFails(t) \/ OpenMarker(t) \/ StampMarker(t)
  BY <1>3 DEF Enter, CheckMarker, EnterFails, OpenMarker, StampMarker
<1>4. CASE GateParks(t) \/ GatesPass(t) \/ Assemble(t) \/ SaveDraft(t) \/ LintDraft(t)
  BY <1>4 DEF GateParks, GatesPass, Assemble, SaveDraft, LintDraft
<1>5. CASE ServiceFails(t) \/ OtherError(t) \/ Persist(t) \/ PersistFails(t)
  BY <1>5 DEF ServiceFails, OtherError, Persist, PersistFails
<1>6. CASE ClearAfterCommit(t) \/ ClearInFinally(t) \/ Leave(t)
  BY <1>6 DEF ClearAfterCommit, ClearInFinally, ClearMarker, Leave
<1> QED
  BY <1>3, <1>4, <1>5, <1>6 DEF Process

\* A job that is superseded stays so.
LEMMA SupersededForGood ==
  ASSUME Stage2TypeOK, [Next]_vars, row.state = "superseded"
  PROVE  row'.state = "superseded"
<1>1. ~IsLegal("superseded", "processing") /\ ~SupersededMeanwhile
  BY DEF IsLegal, Transitions, SupersededMeanwhile
<1>2. CASE row' # row
  <2>1. PICK t \in Threads : Persist(t)
    BY <1>1, <1>2, RowMovesAtPersist
  <2> QED
    BY <1>1, <2>1 DEF Persist, PersistFromProcessing
<1> QED
  BY <1>2

\* What the worklist relies on, but for the count.
Spared == (\A t \in Threads : OwnsMarker(t)) /\ ClearsNoRun /\ SparesSteady

\* A run begins only while the row may be processed. While the worklist is about to clear a
\* marker, one can stamp its own only on a superseded job; and a run that was at work when
\* the pass read the job leaves the marker as it is for as long as it is at work.
LEMMA RunSpares ==
  ASSUME SparesInv, Exclusive, [Next]_vars, NEW t \in Threads, Process(t)
  PROVE  Spared'
<1>1. Stage2TypeOK /\ SlotInv /\ CountInv /\ pc \in [Threads -> Labels]
  BY DEF SparesInv, CountInv, SlotInv, Stage2TypeOK
<1>2. OwnsMarker(t)' /\ view' = view
  BY RunOwns
<1>3. \A u \in Threads : u # t => pc'[u] = "idle"
  BY <1>1, OneAtATime
<1>4. row.state = "superseded" => row'.state = "superseded"
  BY <1>1, SupersededForGood
<1>5. view.at # "idle" /\ view.state \in MarkerOnlyClearStates /\ row.state # "superseded" =>
        pc[t] \notin BeforeCommit
  BY <1>1 DEF CountInv, SlotInv, Knows, OpenOrClosed
<1>6. view.at # "idle" /\ view.state \in MarkerOnlyClearStates /\ row.state # "superseded" =>
        pc[t] # "idle" /\ pid' = pid /\ marker' \in {marker, None}
  BY <1>1, <1>5 DEF CountInv, BeforeCommit, Process, Enter, CheckMarker, EnterFails, OpenMarker,
     StampMarker, GateParks, GatesPass, Assemble, SaveDraft, LintDraft, ServiceFails, OtherError,
     Persist, PersistFails, ClearAfterCommit, ClearInFinally, ClearMarker, Leave, Transition, procVars
<1>7. ClearsNoRun'
  <2>1. view.at = "clear" => view.state \in MarkerOnlyClearStates
    BY <1>1 DEF CountInv
  <2> QED
    BY <1>2, <1>3, <1>4, <1>6, <2>1 DEF SparesInv, ClearsNoRun
<1>8. SparesSteady'
  <2>1. /\ steady' \subseteq steady
        /\ \/ Enter(t) /\ steady' = steady \ {t}
           \/ pc[t] # "idle" /\ steady' = steady
    BY <1>1 DEF Process, Enter, CheckMarker, EnterFails, OpenMarker,
       StampMarker, GateParks, GatesPass, Assemble, SaveDraft, LintDraft, ServiceFails, OtherError,
       Persist, PersistFails, ClearAfterCommit, ClearInFinally, ClearMarker, Leave, Transition, viewVars
  <2>2. ASSUME t \in steady'
        PROVE  /\ pc'[t] \notin {"check", "mark", "stamp"}
               /\ pc'[t] \in AtWork => pc[t] \in AtWork /\ marker' = marker /\ pid' = pid
    <3>1. pc[t] \notin {"idle", "check", "mark", "stamp"}
      BY <2>1, <2>2 DEF SparesInv, SparesSteady, Enter, Transition
    <3> QED
      BY <1>1, <3>1 DEF AtWork, Process, Enter, CheckMarker, EnterFails, OpenMarker, StampMarker,
         GateParks, GatesPass, Assemble, SaveDraft, LintDraft, ServiceFails, OtherError, Persist,
         PersistFails, ClearAfterCommit, ClearInFinally, ClearMarker, Leave, Transition, Goto, procVars
  <2>3. steady' \subseteq Threads
    BY <1>1, <2>1 DEF Stage2TypeOK
  <2>4. ASSUME NEW u \in steady', u # t
        PROVE  pc'[u] = "idle"
    BY <1>3, <2>3, <2>4
  <2> QED
    BY <1>2, <2>1, <2>2, <2>4 DEF SparesInv, SparesSteady, AtWork
<1> QED
  BY <1>2, <1>3, <1>7, <1>8 DEF Spared, OwnsMarker, Stamped, AtWork

\* A process that dies takes its runs with it, and the others keep their PIDs.
LEMMA ProcessSpares ==
  ASSUME SparesInv, NEW p \in Procs, Die(p) \/ Start(p)
  PROVE  Spared'
<1>1. /\ pc \in [Threads -> Labels] /\ pid \in [Procs -> Pids \cup {None}]
      /\ ProcOf \in [Threads -> Procs] /\ steady \subseteq Threads
      /\ NoView.at = "idle" /\ NoView.state \notin ReconcilableStates
  BY StageTwoAssumption DEF SparesInv, CountInv, SlotInv, Stage2TypeOK, NoView, ReconcilableStates
<1>2. CASE Die(p)
  <2>1. /\ \A u \in Threads : pc'[u] = IF ProcOf[u] = p THEN "idle" ELSE pc[u]
        /\ \A q \in Procs : q # p => pid'[q] = pid[q]
        /\ (view' = view /\ steady' = steady) \/ (view' = NoView /\ steady' = {})
        /\ UNCHANGED <<marker, row>>
    BY <1>1, <1>2 DEF Die, storeVars
  <2>2. ASSUME NEW u \in Threads
        PROVE  OwnsMarker(u)'
    BY <1>1, <2>1 DEF SparesInv, OwnsMarker, Stamped, AtWork, Alive
  <2>3. ClearsNoRun'
    BY <1>1, <2>1 DEF SparesInv, ClearsNoRun
  <2>4. SparesSteady'
    BY <1>1, <2>1 DEF SparesInv, SparesSteady, AtWork
  <2> QED
    BY <2>2, <2>3, <2>4 DEF Spared
<1>3. CASE Start(p)
  <2>1. /\ UNCHANGED <<marker, pc, view, row, steady>>
        /\ \A q \in Procs : Alive(q) => pid'[q] = pid[q]
    BY <1>1, <1>3 DEF Start, Alive, viewVars, storeVars
  <2>2. ASSUME NEW u \in Threads, pc[u] # "idle"
        PROVE  pid'[ProcOf[u]] = pid[ProcOf[u]] /\ Alive(ProcOf[u])'
    BY <1>1, <2>1, <2>2 DEF SparesInv, OwnsMarker, Alive
  <2>3. \A u \in Threads : OwnsMarker(u)'
    BY <2>1, <2>2 DEF SparesInv, OwnsMarker, Stamped, AtWork
  <2>4. ClearsNoRun'
    BY <2>1, <2>2 DEF SparesInv, ClearsNoRun
  <2>5. SparesSteady'
    BY <1>1, <2>1, <2>2 DEF SparesInv, SparesSteady, AtWork
  <2> QED
    BY <2>3, <2>4, <2>5 DEF Spared
<1> QED
  BY <1>2, <1>3

\* What a read of the pass goes on with.
LEMMA PassRecalls ==
  ASSUME Stage2TypeOK
  PROVE  /\ LookMarker /\ marker # None => view' = [view EXCEPT !.at = "owner"]
         /\ LookOwner /\ marker \in Pids => view' = [view EXCEPT !.at = "probe", !.owner = marker]
         /\ LookOwner /\ marker \notin Pids => Judge
         /\ LookAlive => view' = NoView \/ (~PidAlive(view.owner) /\ Judge)
         /\ Judge => view' = NoView \/ view'.at \in {"count", "clear"}
  BY DEF LookMarker, LookOwner, LookAlive, Judge, Reads, ReadsOn, Viewing, Stage2TypeOK, View

\* A read of the pass. At the end of it a run in the slot is found alive by the PID that
\* was read, or has cleared its marker.
LEMMA ReadSpares ==
  ASSUME SparesInv, LookMarker \/ LookOwner \/ LookAlive \/ LookCount
  PROVE  Spared'
<1>1. Stage2TypeOK /\ SlotInv /\ CountInv
  BY DEF SparesInv, CountInv, SlotInv
<1>2. UNCHANGED <<row, pc, pid, marker>>
  BY PassReadsOnly DEF Reconcile, ClearStale, Viewing, LookMarker, LookOwner, LookAlive, LookCount
<1>3. /\ pc \in [Threads -> Labels] /\ pid \in [Procs -> Pids \cup {None}]
      /\ ProcOf \in [Threads -> Procs] /\ steady \subseteq Threads /\ view \in View
      /\ marker \in Pids \cup {Blank, None}
      /\ NoView.at = "idle" /\ NoView.state \notin ReconcilableStates
      /\ MarkerOnlyClearStates \cap ReconcilableStates = {}
  BY <1>1, StageTwoAssumption DEF Stage2TypeOK, NoView, ReconcilableStates, MarkerOnlyClearStates,
     TerminalStates
<1>4. \A u \in Threads : OwnsMarker(u)'
  BY <1>2 DEF SparesInv, OwnsMarker, Alive
<1>5. ASSUME NEW u \in Threads, pc[u] # "idle"
      PROVE  ProcOf[u] \in Procs /\ PidAlive(pid[ProcOf[u]]) /\ pid[ProcOf[u]] \in Pids
  BY <1>3, <1>5 DEF SparesInv, OwnsMarker, Alive, PidAlive
<1>6. ASSUME view' # NoView
      PROVE  /\ view'.state = view.state /\ view.at # "idle"
             /\ view'.at = "clear" => view.state \in MarkerOnlyClearStates
             /\ view'.at = "count" => view.state \in ReconcilableStates
  BY <1>1, <1>6, PassGoesOn
<1>7. ClearsNoRun'
  <2> SUFFICES ASSUME NEW u \in Threads, pc[u] # "idle", view' # NoView, row.state # "superseded",
                      view.state \in MarkerOnlyClearStates
               PROVE  /\ view'.at = "probe" => view'.owner = pid[ProcOf[u]]
                      /\ view'.at = "clear" => marker = None
    BY <1>2, <1>3, <1>6 DEF ClearsNoRun
  <2>1. pc[u] \in Stamped \cup {"reset"}
    BY <1>1, <1>3, <1>6 DEF CountInv, SlotInv, Knows, BeforeCommit, OpenOrClosed, Stamped, AtWork, Labels
  <2>2. marker \in {pid[ProcOf[u]], None}
    BY <1>1, <2>1 DEF SparesInv, OwnsMarker, CountInv
  <2>3. CASE LookMarker
    BY <1>1, <1>3, <2>3, PassRecalls DEF LookMarker, ReadsOn, Reads, View
  <2>4. CASE LookOwner
    BY <1>1, <1>3, <1>5, <2>2, <2>4, PassRecalls, StageTwoAssumption DEF View
  <2>5. CASE LookAlive
    <3>1. view.owner = pid[ProcOf[u]]
      BY <2>5 DEF SparesInv, ClearsNoRun, LookAlive, Viewing
    <3> QED
      BY <1>1, <1>5, <2>5, <3>1, PassRecalls
  <2>6. CASE LookCount
    BY <2>6 DEF LookCount, Reads
  <2> QED
    BY <2>3, <2>4, <2>5, <2>6
<1>8. SparesSteady'
  <2>1. steady' \subseteq steady
    BY <1>1, PassGoesOn
  <2> SUFFICES ASSUME NEW u \in steady, pc[u] \in AtWork, view' # NoView,
                      view.state \in ReconcilableStates
               PROVE  /\ view'.at \in {"marker", "owner"} => marker = pid[ProcOf[u]]
                      /\ view'.at = "probe" => view'.owner = pid[ProcOf[u]]
                      /\ view'.at # "count"
    BY <1>2, <1>3, <1>6, <2>1 DEF SparesInv, SparesSteady
  <2>2. /\ pc[u] # "idle" /\ u \in Threads
        /\ view.at \in {"marker", "owner"} => marker = pid[ProcOf[u]]
        /\ view.at = "probe" => view.owner = pid[ProcOf[u]]
    BY <1>3 DEF SparesInv, SparesSteady, AtWork
  <2>3. CASE LookMarker
    BY <1>1, <1>3, <2>2, <2>3, PassRecalls DEF LookMarker, ReadsOn, Reads, Viewing, View
  <2>4. CASE LookOwner
    BY <1>1, <1>3, <1>5, <2>2, <2>4, PassRecalls DEF LookOwner, Viewing, View
  <2>5. CASE LookAlive
    BY <1>1, <1>5, <2>2, <2>5, PassRecalls DEF LookAlive, Viewing
  <2>6. CASE LookCount
    BY <2>6 DEF LookCount, Reads
  <2> QED
    BY <2>3, <2>4, <2>5, <2>6
<1> QED
  BY <1>4, <1>7, <1>8 DEF Spared

\* Every step of Stage 2 keeps what the worklist relies on.
LEMMA StepSpares ==
  ASSUME SparesInv, Exclusive, [Next]_vars
  PROVE  Spared'
<1>1. Stage2TypeOK /\ CountInv
  BY DEF SparesInv, CountInv, SlotInv
<1>2. NoView.at = "idle" /\ NoView.state \notin ReconcilableStates
  BY DEF NoView, ReconcilableStates
<1>3. CASE Snapshot
  <2>1. /\ UNCHANGED <<row, marker, pc, pid>>
        /\ view'.at = "marker" /\ view'.state = row.state
        /\ steady' = {t \in Threads : pc[t] \in AtWork}
    BY <1>3 DEF Snapshot, NoView, storeVars, procVars
  <2>2. (\A t \in Threads : OwnsMarker(t))' /\ ClearsNoRun'
    BY <2>1 DEF SparesInv, OwnsMarker, ClearsNoRun, Alive
  <2>3. SparesSteady'
    BY <2>1 DEF SparesInv, SparesSteady, OwnsMarker, AtWork
  <2> QED
    BY <2>2, <2>3 DEF Spared
<1>4. CASE ClearStale
  <2>1. /\ UNCHANGED <<row, pc, pid>> /\ marker' = None /\ view' = NoView /\ steady' = {}
        /\ row.state \notin ReconcilableStates
    BY <1>1, <1>4 DEF CountInv, ClearStale, Viewing, storeVars, procVars
  <2>2. (\A t \in Threads : OwnsMarker(t))' /\ ClearsNoRun'
    BY <1>2, <2>1 DEF SparesInv, OwnsMarker, ClearsNoRun, Alive
  <2>3. SparesSteady'
    BY <2>1 DEF SparesSteady
  <2> QED
    BY <2>2, <2>3 DEF Spared
<1>5. CASE SupersededMeanwhile \/ UNCHANGED vars
  <2>1. /\ UNCHANGED <<marker, pc, pid, view, steady>>
        /\ row'.state \in ReconcilableStates => row.state \in ReconcilableStates
        /\ row.state = "superseded" => row'.state = "superseded"
    BY <1>1, <1>5, ClosedForGood, SupersededForGood
       DEF SupersededMeanwhile, vars, runVars, procVars, viewVars
  <2>2. (\A t \in Threads : OwnsMarker(t))' /\ ClearsNoRun'
    BY <2>1 DEF SparesInv, OwnsMarker, ClearsNoRun, Alive
  <2>3. SparesSteady'
    BY <2>1 DEF SparesInv, SparesSteady
  <2> QED
    BY <2>2, <2>3 DEF Spared
<1> QED
  BY <1>3, <1>4, <1>5, RunSpares, ProcessSpares, ReadSpares DEF Next, Stage2Next, Reconcile

\* A job that has just been crawled has no marker to take away.
LEMMA SparesInit == Init => SparesInv
  BY CountInit DEF Init, Stage2Init, SparesInv, OwnsMarker, ClearsNoRun, SparesSteady, Stamped,
     AtWork, NoView

\* Every step keeps the count and the markers.
LEMMA SparesStep ==
  ASSUME Exclusive
  PROVE  SparesInv /\ [Next]_vars => SparesInv'
<1>1. CountInv /\ [Next]_vars => CountInv'
  BY SlotStep, StepCounts, StepWatches DEF CountInv, Counted, Watched
<1> QED
  BY <1>1, StepSpares DEF SparesInv, Spared

\* A job that is put on the list, and a marker that is cleared, spare every run they may not touch.
LEMMA SparesAct ==
  ASSUME SparesInv
  PROVE  /\ LookCount => \A t \in steady : pc[t] \notin AtWork
         /\ ClearStale => \A t \in Threads :
              Underway(t) /\ pid[ProcOf[t]] = marker => row.state = "superseded"
<1>1. ASSUME LookCount, NEW t \in steady
      PROVE  pc[t] \notin AtWork
  BY <1>1 DEF SparesInv, SparesSteady, CountInv, LookCount, Viewing
<1>2. ASSUME ClearStale, NEW t \in Threads, Underway(t), pid[ProcOf[t]] = marker
      PROVE  row.state = "superseded"
  BY <1>2 DEF SparesInv, ClearsNoRun, OwnsMarker, Alive, ClearStale, Viewing, Underway
<1> QED
  BY <1>1, <1>2

\* When one server takes every run, for any processes and any number of deaths: the
\* worklist, which reads the state, the marker, its owner and whether that one lives at
\* different times, calls no job interrupted whose run had written its PID when the pass
\* read the job and is still at work, and clears no marker of a run that is alive, but for
\* a job that was superseded meanwhile. The code: Pipeline.reconcile_one, is_processing,
\* processing_owner_pid, _pid_alive, read_interrupt_count.
THEOREM WorklistSparesTheLiving ==
  ASSUME Exclusive
  PROVE  Spec => SparesTheLiving
<1>1. SparesInv /\ [Next]_vars =>
        [/\ LookCount => \A t \in steady : pc[t] \notin AtWork
         /\ ClearStale => \A t \in Threads :
             Underway(t) /\ pid[ProcOf[t]] = marker => row.state = "superseded"]_vars
  BY SparesAct
<1> QED
  BY <1>1, SparesInit, SparesStep, PTL DEF Spec, SparesTheLiving

-----------------------------------------------------------------------------
(***************************************************************************)
(* Stage 2 and the operators. What each side relies on is kept by its own  *)
(* steps; here it is kept by the steps of the other, because the two meet  *)
(* on a row that passes from one to the other and never comes back: Stage  *)
(* 2 writes while the row may still be processed, people act on what they  *)
(* freeze once it is.                                                      *)
(***************************************************************************)
Desk == INSTANCE SignOffProofs

OneOperator == \A o, p \in Operators : o = p

\* What Lcp assumes of its constants is what SignOff does.
LEMMA DeskAssumptions == Desk!DraftAssumption /\ Desk!SignOffAssumption
  BY DraftAssumption, LcpAssumption DEF Desk!DraftAssumption, Desk!SignOffAssumption,
     People!SignOffAssumption, Desk!Verdicts, Verdicts

\* The store that People and Desk speak of is the one Stage 2 writes.
LEMMA OneStore ==
  /\ People!storeVars = storeVars /\ Desk!storeVars = storeVars
  /\ Desk!StoreTypeOK <=> StoreTypeOK
  /\ People!SignedIsStored <=> Desk!SignedIsStored
  BY DEF People!storeVars, Desk!storeVars, storeVars, Desk!StoreTypeOK, StoreTypeOK, Desk!Row, Row,
     Desk!RestingStates, RestingStates, Desk!States, States, Desk!TransientStates, TransientStates,
     Desk!Reasons, Reasons, Desk!NoReason, NoReason, People!SignedIsStored, Desk!SignedIsStored

\* A step of one of the People is a step at the Desk.
LEMMA SameSteps ==
  ASSUME NEW o \in Operators, People!Operate(o) \/ People!Crash(o)
  PROVE  Desk!Operate(o) \/ Desk!Crash(o)
<1> USE DEF People!Go, Desk!Go, People!Refuse, Desk!Refuse, People!Finish, Desk!Finish,
     People!FreshMem, Desk!FreshMem, People!Commit, Desk!Commit, People!Record, Desk!Record,
     People!SetState, Desk!SetState, People!SetStateRefused, Desk!SetStateRefused,
     People!AuditEvent, Desk!AuditEvent, People!IsLegal, Desk!IsLegal, People!Transitions,
     Desk!Transitions, People!TransientStates, Desk!TransientStates, People!NoReason,
     Desk!NoReason, People!NoFreeze, Desk!NoFreeze, People!Bound, Desk!Bound,
     People!NeverSignedOff, Desk!NeverSignedOff, People!Supersedable, Desk!Supersedable,
     People!storeVars, Desk!storeVars, People!fileVars, Desk!fileVars, People!coverVars,
     Desk!coverVars, People!NoHandle, Desk!NoHandle
<1>1. CASE People!Packet(o)
  BY <1>1 DEF People!Packet, Desk!Packet, People!PacketLoad, Desk!PacketLoad,
     People!PacketCheck, Desk!PacketCheck, People!PacketOpen, Desk!PacketOpen,
     People!PacketCopy, Desk!PacketCopy, People!Written, Desk!Written,
     People!PacketReplace, Desk!PacketReplace, People!Rename, Desk!Rename,
     People!PacketUnlink, Desk!PacketUnlink, People!PacketHash, Desk!PacketHash,
     People!PacketMessage, Desk!PacketMessage, People!PacketFreeze, Desk!PacketFreeze,
     People!PacketCommit, Desk!PacketCommit, People!PacketAudit, Desk!PacketAudit,
     Desk!Operate
<1>2. CASE People!Approve(o)
  BY <1>2 DEF People!Approve, Desk!Approve, People!ApproveLoad, Desk!ApproveLoad,
     People!ApproveFreeze, Desk!ApproveFreeze, People!ApproveVerify, Desk!ApproveVerify,
     People!ApproveCommit, Desk!ApproveCommit, People!ApproveAudit, Desk!ApproveAudit,
     Desk!Operate
<1>3. CASE People!Reject(o)
  BY <1>3 DEF People!Reject, Desk!Reject, People!RejectLook, Desk!RejectLook,
     People!RejectFreeze, Desk!RejectFreeze, People!RejectCommit, Desk!RejectCommit,
     People!RejectAudit, Desk!RejectAudit, Desk!Operate
<1>4. CASE People!Resolve(o)
  BY <1>4 DEF People!Resolve, Desk!Resolve, People!ResolveLook, Desk!ResolveLook,
     People!ResolveRelint, Desk!ResolveRelint, People!ResolveCommit, Desk!ResolveCommit,
     People!ResolveAudit, Desk!ResolveAudit, Desk!Operate
<1>5. CASE People!Backfill(o)
  BY <1>5 DEF People!Backfill, Desk!Backfill, People!BackfillLook, Desk!BackfillLook,
     People!BackfillFreeze, Desk!BackfillFreeze, People!BackfillUrl, Desk!BackfillUrl,
     People!BackfillCommit, Desk!BackfillCommit, People!BackfillAudit, Desk!BackfillAudit,
     Desk!Operate
<1>6. CASE People!Supersede(o)
  BY <1>6 DEF People!Supersede, Desk!Supersede, People!SupersedeLook, Desk!SupersedeLook,
     People!SupersedeVoid, Desk!SupersedeVoid, People!SupersedeCommit, Desk!SupersedeCommit,
     People!SupersedeAudit, Desk!SupersedeAudit, Desk!Operate
<1>7. CASE People!Notify(o)
  BY <1>7 DEF People!Notify, Desk!Notify, People!NotifyGuard, Desk!NotifyGuard,
     People!NotifySend, Desk!NotifySend, People!NotifySent, Desk!NotifySent,
     People!NotifyFailed, Desk!NotifyFailed, Desk!Operate
<1>8. CASE People!Crash(o)
  BY <1>8 DEF People!Crash, Desk!Crash
<1> QED
  BY <1>1, <1>2, <1>3, <1>4, <1>5, <1>6, <1>7, <1>8 DEF People!Operate

-----------------------------------------------------------------------------
(***************************************************************************)
(* Each side keeps what the other relies on, for any number of operators   *)
(* and of operations that die. A person moves the row only where no run    *)
(* can be before its commit, or closes the job under it; Stage 2 moves it  *)
(* only where it can be processed.                                         *)
(***************************************************************************)
Decided == {"processed", "review_pending", "approved", "published_recorded",
            "rejected", "superseded"}

\* What a person's step may do to the row and the files of the job.
LEMMA PersonMoves ==
  ASSUME NEW o \in Operators, People!Operate(o) \/ People!Crash(o)
  PROVE  /\ UNCHANGED <<draft, cover>>
         /\ row' # row => /\ UNCHANGED <<message, freeze>>
                          /\ \E s \in Decided : /\ IsLegal(row.state, s)
                                                /\ row' = [state |-> s, reason |-> NoReason]
<1>1. Desk!Operate(o) \/ Desk!Crash(o)
  BY SameSteps
<1>2. /\ UNCHANGED <<draft, cover>>
      /\ row' # row => /\ UNCHANGED Desk!fileVars
                       /\ \E s \in Desk!InReview \cup {"processed", "rejected", "superseded"} :
                            Desk!IsLegal(row.state, s) /\ row' = [state |-> s, reason |-> Desk!NoReason]
  BY <1>1, Desk!PeopleMoveTheRow, DeskAssumptions
<1> QED
  BY <1>2 DEF Desk!fileVars, Desk!InReview, Decided, Desk!IsLegal, IsLegal, Desk!Transitions,
     Transitions, Desk!NoReason, NoReason

\* Stage 2 moves the row at a commit, and only where it can be processed.
LEMMA StageTwoMovesTheUndecided ==
  ASSUME Stage2TypeOK, Stage2Next, row'.state # row.state
  PROVE  row.state \in ReconcilableStates /\ row'.state \in StageTwoOutcomes
<1>1. PICK t \in Threads : /\ Persist(t)
                           /\ row' = [state |-> run[t].target, reason |-> run[t].reason]
  BY CommitMovesTheRow
<1>2. row.state \in RestingStates
  BY DEF Stage2TypeOK, StoreTypeOK, Row
<1> QED
  BY <1>1, <1>2 DEF Persist, PersistFromProcessing, IsLegal, Transitions, ReconcilableStates,
     StageTwoOutcomes, States

\* What Stage 2 may do to them: the row moves at a commit, the draft and the cover are
\* written before it.
LEMMA StageTwoMoves ==
  ASSUME SlotInv, Stage2Next
  PROVE  /\ draft' # draft \/ cover' # cover => row.state \in OpenOrClosed
         /\ row'.state # row.state =>
              row.state \in ReconcilableStates /\ row'.state \in StageTwoOutcomes
<1>1. [Next]_vars
  BY DEF Next
<1>2. draft' # draft \/ cover' # cover => row.state \in OpenOrClosed
  BY <1>1, WritesWhileOpen
<1>3. row'.state # row.state =>
         row.state \in ReconcilableStates /\ row'.state \in StageTwoOutcomes
  BY StageTwoMovesTheUndecided DEF SlotInv
<1> QED
  BY <1>2, <1>3

\* The types of both sides. They share the store.
LcpTypes == Stage2TypeOK /\ Desk!TypeInv

\* And what a run in the slot can rely on.
LcpInv == SlotInv /\ Desk!TypeInv

\* The job begins crawled, with nobody at work on it.
LEMMA LcpInvInit == LcpInit => LcpInv /\ LcpTypes
<1> SUFFICES ASSUME LcpInit PROVE LcpInv /\ LcpTypes
  OBVIOUS
<1>1. SlotInv
  <2>1. Init
    BY DEF LcpInit, Init
  <2> QED
    BY <2>1, ExclusiveInit DEF ExclusiveInv
<1>2. StoreTypeOK
  BY <1>1 DEF SlotInv, Stage2TypeOK
<1>3. People!FreshMem \in Desk!Mem
  BY DEF People!FreshMem, Desk!Mem, Desk!Images, Desk!RestingStates, Desk!States, Desk!TransientStates
<1>4. People!SignOffInit
  BY DEF LcpInit
<1>5. Desk!SignOffTypeOK
  BY <1>2, <1>3, <1>4, OneStore DEF People!SignOffInit, People!NoReview, Desk!SignOffTypeOK,
     Desk!Steps, Desk!Images, Desk!Handle, People!NoHandle, People!NoFreeze, Desk!NoFreeze
<1>6. Desk!TypeInv
  BY <1>4, <1>5 DEF Desk!TypeInv, Desk!Loaded, Desk!PacketSteps, Desk!CopySteps, People!SignOffInit
<1> QED
  BY <1>1, <1>6 DEF LcpInv, LcpTypes, SlotInv

\* Stage 2 leaves the operators' variables alone and its own in order.
LEMMA StageTwoKeepsTypes ==
  ASSUME LcpTypes, Stage2Next, UNCHANGED signVars
  PROVE  LcpTypes'
<1>1. Stage2TypeOK'
  BY TypeStep DEF LcpTypes, Next
<1>2. Desk!StoreTypeOK'
  BY <1>1 DEF Stage2TypeOK, StoreTypeOK, Row, RestingStates, States, TransientStates,
     Reasons, NoReason, Desk!StoreTypeOK, Desk!Row, Desk!RestingStates, Desk!States,
     Desk!TransientStates, Desk!Reasons, Desk!NoReason
<1> QED
  BY <1>1, <1>2 DEF LcpTypes, Desk!TypeInv, Desk!SignOffTypeOK, Desk!Loaded, signVars

\* And the operators those of Stage 2.
LEMMA PersonKeepsTypes ==
  ASSUME LcpTypes, NEW o \in Operators, People!Operate(o) \/ People!Crash(o), UNCHANGED runVars
  PROVE  LcpTypes'
<1>1. Desk!TypeInv'
  <2>1. Desk!Operate(o) \/ Desk!Crash(o)
    BY SameSteps
  <2> QED
    BY <2>1, Desk!OperatorKeepsTypes, DeskAssumptions DEF LcpTypes
<1>2. Stage2TypeOK'
  BY <1>1 DEF LcpTypes, Stage2TypeOK, StoreTypeOK, Row, RestingStates, States,
     TransientStates, Reasons, NoReason, Desk!TypeInv, Desk!SignOffTypeOK, Desk!StoreTypeOK,
     Desk!Row, Desk!RestingStates, Desk!States, Desk!TransientStates, Desk!Reasons,
     Desk!NoReason, runVars, flagVars, procVars, viewVars
<1> QED
  BY <1>1, <1>2 DEF LcpTypes

\* Every step keeps the types, whoever takes it and however many run or decide.
LEMMA LcpTypesStep == LcpTypes /\ [LcpNext]_lcpVars => LcpTypes'
<1> SUFFICES ASSUME LcpTypes, [LcpNext]_lcpVars PROVE LcpTypes'
  OBVIOUS
<1>1. CASE UNCHANGED lcpVars
  <2>1. Stage2TypeOK'
    BY <1>1, TypeStep DEF LcpTypes, lcpVars, vars
  <2> QED
    BY <1>1, <2>1 DEF LcpTypes, lcpVars, signVars, storeVars, Desk!TypeInv, Desk!SignOffTypeOK,
       Desk!StoreTypeOK, Desk!Loaded
<1> QED
  BY <1>1, StageTwoKeepsTypes, PersonKeepsTypes DEF LcpNext

\* The store, the runs of Stage 2 and the files and the operations of people keep their
\* types on one job, whoever acts and whatever dies.
THEOREM LcpTypeCorrect == LcpSpec => [](Stage2TypeOK /\ People!SignOffTypeOK)
<1>1. LcpTypes => People!SignOffTypeOK
  BY OneStore DEF LcpTypes, Stage2TypeOK, StoreTypeOK, People!StoreTypeOK, People!Row, Row,
     People!RestingStates, RestingStates, People!States, States, People!TransientStates,
     TransientStates, People!Reasons, Reasons, People!NoReason, NoReason,
     Desk!TypeInv, Desk!SignOffTypeOK, People!SignOffTypeOK, Desk!Freezes, People!Freezes,
     Desk!NoFreeze, People!NoFreeze, Desk!Steps, People!Steps, Desk!Mem, People!Mem,
     Desk!Images, People!Images, Desk!Handle, People!Handle,
     Desk!RestingStates, Desk!States, Desk!TransientStates
<1>2. LcpTypes => Stage2TypeOK
  BY DEF LcpTypes
<1> QED
  BY <1>1, <1>2, LcpInvInit, LcpTypesStep, PTL DEF LcpSpec

\* A person moves the row out of the reach of a run, or from where none is before its
\* commit.
LEMMA PersonKeepsLcp ==
  ASSUME LcpInv, NEW o \in Operators, People!Operate(o) \/ People!Crash(o), UNCHANGED runVars
  PROVE  LcpInv'
<1>1. LcpTypes'
  BY PersonKeepsTypes DEF LcpInv, LcpTypes, SlotInv
<1>2. ASSUME NEW u \in Threads PROVE Knows(u)'
  <2>1. UNCHANGED <<draft, pc, run, inflight>>
    BY PersonMoves DEF runVars
  <2>2. CASE row' = row \/ row'.state = "superseded"
    BY <2>1, <2>2, OthersKeepKnowing DEF LcpInv
  <2>3. CASE row' # row /\ row'.state # "superseded"
    <3>1. row.state \notin OpenOrClosed
      BY <2>3, PersonMoves DEF Decided, IsLegal, Transitions, OpenOrClosed, ReconcilableStates
    <3> QED
      BY <2>1, <3>1 DEF LcpInv, SlotInv, Knows, BeforeCommit
  <2> QED
    BY <2>2, <2>3
<1> QED
  BY <1>1, <1>2 DEF LcpInv, LcpTypes, SlotInv

\* Every step, whoever takes it.
LEMMA LcpStep ==
  ASSUME Exclusive
  PROVE  LcpInv /\ [LcpNext]_lcpVars => LcpInv'
<1> SUFFICES ASSUME LcpInv, [LcpNext]_lcpVars PROVE LcpInv'
  OBVIOUS
<1>1. LcpTypes'
  BY LcpTypesStep DEF LcpInv, LcpTypes, SlotInv
<1>2. CASE Stage2Next \/ UNCHANGED lcpVars
  <2>1. SlotInv'
    BY <1>2, SlotStep DEF LcpInv, Next, lcpVars, vars
  <2> QED
    BY <1>1, <2>1 DEF LcpInv, LcpTypes
<1> QED
  BY <1>2, PersonKeepsLcp DEF LcpNext

\* The draft and the cover of a job that is processed or under review are no longer
\* written, however many operators decide and whatever dies. The code: Pipeline.process,
\* signoff.py.
THEOREM ReviewedStaysFrozen ==
  ASSUME Exclusive
  PROVE  LcpSpec => ReviewedIsFrozen
<1>1. LcpInv /\ [LcpNext]_lcpVars =>
        [draft' # draft \/ cover' # cover =>
           row.state \notin {"processed", "review_pending", "approved",
                             "published_recorded"}]_lcpVars
  BY StageTwoMoves, PersonMoves DEF LcpInv, LcpNext, OpenOrClosed, ReconcilableStates
<1> QED
  BY <1>1, LcpInvInit, LcpStep, PTL DEF LcpSpec, ReviewedIsFrozen

-----------------------------------------------------------------------------
(***************************************************************************)
(* The loop guard and the worklist, beside any number of operators. People *)
(* never bring a job back to where it can be processed, and what they do   *)
(* to the row takes no marker, no count and no run with it.                *)
(***************************************************************************)
\* A person's step moves no job to where it can be processed, and closes the one it
\* takes from there; a superseded job is left alone.
LEMMA PeopleNeverReopen ==
  ASSUME NEW o \in Operators, People!Operate(o) \/ People!Crash(o)
  PROVE  /\ row'.state \in ReconcilableStates => row' = row
         /\ row.state = "superseded" => row'.state = "superseded"
  BY PersonMoves DEF Decided, ReconcilableStates, IsLegal, Transitions

\* It keeps the count, and what the worklist knows.
LEMMA PersonKeepsTheCount ==
  ASSUME LcpInv, SparesInv, NEW o \in Operators, People!Operate(o) \/ People!Crash(o),
         UNCHANGED runVars
  PROVE  SparesInv'
<1>1. SlotInv'
  BY PersonKeepsLcp DEF LcpInv
<1>2. UNCHANGED <<marker, count, pc, run, pid, deaths, kills, view, report, steady>>
  BY DEF runVars, procVars, viewVars
<1>3. /\ row'.state \in ReconcilableStates => row.state \in ReconcilableStates
      /\ row.state = "superseded" => row'.state = "superseded"
  BY PeopleNeverReopen
<1>4. CountInv'
  <2>1. Pending' = Pending
    BY <1>2 DEF Pending, Underway
  <2> QED
    BY <1>1, <1>2, <1>3, <2>1 DEF SparesInv, CountInv
<1>5. (\A t \in Threads : OwnsMarker(t))' /\ ClearsNoRun'
  BY <1>2, <1>3 DEF SparesInv, OwnsMarker, ClearsNoRun, Alive
<1>6. SparesSteady'
  BY <1>2 DEF SparesInv, SparesSteady
<1> QED
  BY <1>4, <1>5, <1>6 DEF SparesInv

WatchInv == LcpInv /\ SparesInv

\* Nothing runs yet, and nothing is counted.
LEMMA WatchInit == LcpInit => WatchInv
<1>1. LcpInit => Init
  BY DEF LcpInit, Init
<1> QED
  BY <1>1, LcpInvInit, SparesInit DEF WatchInv

\* Every step, whoever takes it.
LEMMA WatchStep ==
  ASSUME Exclusive
  PROVE  WatchInv /\ [LcpNext]_lcpVars => WatchInv'
<1> SUFFICES ASSUME WatchInv, [LcpNext]_lcpVars PROVE SparesInv'
  BY LcpStep DEF WatchInv
<1>1. CASE Stage2Next \/ UNCHANGED lcpVars
  BY <1>1, SparesStep DEF WatchInv, Next, lcpVars, vars
<1> QED
  BY <1>1, PersonKeepsTheCount DEF LcpNext, WatchInv

\* Whatever people decide while a job is processed again and again, the loop guard counts
\* every death and every failure at entry that left a marker, once. The code:
\* Pipeline.process, attempt_count, signoff.py.
THEOREM CountStaysExactBesidePeople ==
  ASSUME Exclusive
  PROVE  LcpSpec => []CountIsExact
<1>1. WatchInv => CountIsExact
  BY DEF WatchInv, SparesInv, CountInv, CountIsExact, Pending
<1> QED
  BY <1>1, WatchInit, WatchStep, PTL DEF LcpSpec

\* And the worklist calls no job interrupted whose run had written its PID when the pass
\* read the job and is still at work, and clears the marker of no run that is alive, but for a job that somebody superseded under
\* it. The code: Pipeline.reconcile_one, signoff.supersede.
THEOREM WorklistSparesBesidePeople ==
  ASSUME Exclusive
  PROVE  LcpSpec => SparesTheLiving
<1>1. WatchInv /\ [LcpNext]_lcpVars =>
        [/\ LookCount => \A t \in steady : pc[t] \notin AtWork
         /\ ClearStale => \A t \in Threads :
             Underway(t) /\ pid[ProcOf[t]] = marker => row.state = "superseded"]_vars
  BY SparesAct DEF WatchInv
<1> QED
  BY <1>1, WatchInit, WatchStep, PTL DEF LcpSpec, SparesTheLiving

-----------------------------------------------------------------------------
(***************************************************************************)
(* What the log says of the decisions, beside any number of threads in any *)
(* processes: Stage 2 reports none, and moves the row only where none can  *)
(* have been taken yet.                                                    *)
(***************************************************************************)
StageTwoEvents == {"INTERRUPTED_DETECTED", "RISK_GATE", "DEDUP_GATE", "MEDIA_GATE",
                   "GROUNDING_GATE", "LINT_GATE"}

\* What Stage 2 adds to the log of the job.
LEMMA StageTwoSays ==
  ASSUME Stage2Next, NEW e, e \notin StageTwoEvents
  PROVE  Desk!Said(e)' => Desk!Said(e)
<1>1. CASE UNCHANGED audit
  BY <1>1 DEF Desk!Said
<1>2. ASSUME NEW t \in Threads, Process(t), audit' # audit
      PROVE  \E event \in StageTwoEvents : \E said : AuditEvent(event, said)
  <2>1. CASE CheckMarker(t)
    BY <1>2, <2>1 DEF CheckMarker, StageTwoEvents
  <2>2. CASE GateParks(t)
    BY <2>2, StageTwoAssumption DEF GateParks, ParkingGates, StageTwoEvents
  <2>3. CASE LintDraft(t)
    BY <1>2, <2>3 DEF LintDraft, StageTwoEvents
  <2>4. CASE Enter(t) \/ EnterFails(t) \/ OpenMarker(t) \/ StampMarker(t) \/ GatesPass(t)
    BY <1>2, <2>4 DEF Enter, EnterFails, OpenMarker, StampMarker, GatesPass, storeVars
  <2>5. CASE Assemble(t) \/ SaveDraft(t) \/ ServiceFails(t) \/ OtherError(t)
    BY <1>2, <2>5 DEF Assemble, SaveDraft, ServiceFails, OtherError, storeVars
  <2>6. CASE Persist(t) \/ PersistFails(t) \/ ClearAfterCommit(t) \/ ClearInFinally(t) \/ Leave(t)
    BY <1>2, <2>6 DEF Persist, PersistFails, ClearAfterCommit, ClearInFinally, ClearMarker,
       Leave, storeVars
  <2> QED
    BY <1>2, <2>1, <2>2, <2>3, <2>4, <2>5, <2>6 DEF Process
<1>3. ASSUME NEW p \in Procs, Die(p) \/ Start(p)
      PROVE  UNCHANGED audit
  BY <1>3 DEF Die, Start, storeVars
<1>4. Reconcile => UNCHANGED audit
  BY PassReadsOnly
<1>5. CASE audit' # audit
  <2>1. PICK event \in StageTwoEvents : \E said : AuditEvent(event, said)
    BY <1>2, <1>3, <1>4, <1>5 DEF Stage2Next
  <2> QED
    BY <2>1 DEF AuditEvent, Desk!Said
<1> QED
  BY <1>1, <1>5

\* Stage 2 leaves a decided row alone, and reports nothing.
LEMMA StageTwoDecidesNothing ==
  ASSUME LcpTypes, Desk!DecisionsInv, Stage2Next, UNCHANGED signVars
  PROVE  Desk!DecisionsInv'
<1>1. \A e \in Desk!DecisionEvents : Desk!Said(e)' => Desk!Said(e)
  BY StageTwoSays DEF Desk!DecisionEvents, StageTwoEvents
<1>2. op' = op
  BY DEF signVars
<1> USE DEF Desk!DecisionsInv, Desk!Taken, Desk!AllOnce, Desk!Once, Desk!LogIsTrue,
            Desk!Settled, Desk!DecisionEvents
<1>3. CASE row'.state = row.state
  BY <1>1, <1>2, <1>3
<1>4. CASE row'.state # row.state
  <2>1. row.state \in ReconcilableStates
    BY <1>4, StageTwoMovesTheUndecided DEF LcpTypes
  <2>2. /\ \A e \in Desk!DecisionEvents : ~Desk!Said(e)
        /\ \A o \in Operators : op[o] \notin Desk!AuditSteps
    BY <2>1 DEF ReconcilableStates, Desk!AuditSteps
  <2> QED
    BY <1>1, <1>2, <2>2 DEF Desk!AuditSteps
<1> QED
  BY <1>3, <1>4

\* However many threads process a job and however many people decide about it, in
\* however many processes, and whatever dies: the log reports no decision the row did not
\* take, and none of them twice. No slot is needed. The code: Pipeline.process,
\* persist_from_processing, set_state, signoff.py.
THEOREM DecisionsAreRealBesideStageTwo == LcpSpec => []People!DecisionsAreTrue
<1>1. LcpInit => Desk!DecisionsInv
  <2> SUFFICES ASSUME LcpInit PROVE Desk!DecisionsInv
    OBVIOUS
  <2>1. \A e : ~Desk!Said(e)
    BY DEF LcpInit, Crawled, Desk!Said
  <2>2. \A o \in Operators : op[o] = "idle"
    BY DEF LcpInit, People!SignOffInit
  <2> QED
    BY <2>1, <2>2 DEF Desk!DecisionsInv, Desk!Taken, Desk!AllOnce, Desk!Once, Desk!LogIsTrue
<1>2. LcpTypes /\ Desk!DecisionsInv /\ [LcpNext]_lcpVars => Desk!DecisionsInv'
  <2> SUFFICES ASSUME LcpTypes, Desk!DecisionsInv, [LcpNext]_lcpVars PROVE Desk!DecisionsInv'
    OBVIOUS
  <2>1. CASE UNCHANGED lcpVars
    <3>1. UNCHANGED <<row, op>> /\ \A e : Desk!Said(e)' <=> Desk!Said(e)
      BY <2>1 DEF lcpVars, storeVars, signVars, Desk!Said
    <3> QED
      BY <3>1 DEF Desk!DecisionsInv, Desk!Taken, Desk!AllOnce, Desk!Once, Desk!LogIsTrue
  <2>2. ASSUME NEW o \in Operators, People!Operate(o) \/ People!Crash(o)
        PROVE  Desk!DecisionsInv'
    <3>1. Desk!Operate(o) \/ Desk!Crash(o)
      BY <2>2, SameSteps
    <3> QED
      BY <3>1, Desk!CommitsAreTaken, Desk!RecordsAreTrue, Desk!OtherStepsAreQuiet,
         DeskAssumptions DEF LcpTypes
  <2> QED
    BY <2>1, <2>2, StageTwoDecidesNothing DEF LcpNext
<1>3. Desk!DecisionsInv => People!DecisionsAreTrue
  <2>1. Desk!DecisionsAreTrue => People!DecisionsAreTrue
    BY DEF Desk!DecisionsAreTrue, People!DecisionsAreTrue, Desk!Said, People!Said,
       Desk!RestingStates, People!RestingStates, Desk!States, People!States,
       Desk!TransientStates, People!TransientStates
  <2> QED
    BY <2>1, Desk!DecisionsByParts, DeskAssumptions
<1> QED
  BY <1>1, <1>2, <1>3, LcpInvInit, LcpTypesStep, PTL DEF LcpSpec

-----------------------------------------------------------------------------
(***************************************************************************)
(* Why a job is where it is, beside any number of operators and of         *)
(* threads. An override clears a hold and says so only afterwards, or      *)
(* never when it dies, so that a processed job need not have passed lint:  *)
(* but then a gate had held it, and had said so first.                     *)
(***************************************************************************)
\* The states no job reaches unless the gates were done with it.
PastTheGates == {"needs_human_review", "processed", "review_pending", "approved",
                 "published_recorded"}

\* A gate has passed the draft, or held the job for a human.
AGateHasSpoken ==
    \E e \in Evidence : e[1] \in {"needs_human_review", "processed"} /\ <<e[3], e[4]>> \in audit

JobIsExplained ==
    /\ row.state # "processed" => ParkedHasEvidence
    /\ row.state \in PastTheGates => AGateHasSpoken

\* A hold has a reason, and what passed has none.
Reasoned(state, why) ==
    /\ state = "needs_human_review" => why \in Reasons
    /\ state = "processed" => why = NoReason

ExplainedInv ==
    /\ LcpTypes
    /\ Reasoned(row.state, row.reason)
    /\ row.state # "processed" => Explained(row.state, row.reason)
    /\ row.state \in PastTheGates => AGateHasSpoken
    /\ \A t \in Threads : pc[t] = "persist" => /\ Explained(run[t].target, run[t].reason)
                                               /\ Reasoned(run[t].target, run[t].reason)

\* The steps that choose what to persist give a reason for a hold.
LEMMA ChoiceHasAReason ==
  ASSUME Stage2TypeOK, NEW t \in Threads, GateParks(t) \/ LintDraft(t) \/ ServiceFails(t)
  PROVE  Reasoned(run[t].target, run[t].reason)'
<1> USE DEF Reasoned, Reasons, NoReason
<1>1. CASE GateParks(t)
  <2>1. PICK g \in ParkingGates : Park(t, g[2], g[3])
    BY <1>1, StageTwoAssumption DEF GateParks
  <2> QED
    BY <2>1, ParkSets DEF ParkingGates
<1>2. CASE LintDraft(t)
  BY <1>2, ParkSets DEF LintDraft
<1>3. CASE ServiceFails(t)
  BY <1>3, ParkSets DEF ServiceFails
<1> QED
  BY <1>1, <1>2, <1>3

\* What is explained and has its reason is past the gates because one has spoken.
LEMMA ExplainedByAGate ==
  ASSUME NEW state, NEW why, Explained(state, why), Reasoned(state, why),
         state \in {"needs_human_review", "processed"}
  PROVE  AGateHasSpoken
  BY DEF Explained, Reasoned, Evidence, AGateHasSpoken, Reasons, NoReason

\* A gate that has spoken has spoken, whatever else is said.
LEMMA SpokenForGood ==
  ASSUME audit \subseteq audit'
  PROVE  /\ AGateHasSpoken => AGateHasSpoken'
         /\ \A s, why : Explained(s, why) => Explained(s, why)'
  BY DEF AGateHasSpoken, Explained

\* Stage 2 commits what it has explained.
LEMMA StageTwoExplains ==
  ASSUME ExplainedInv, Stage2Next, UNCHANGED signVars
  PROVE  ExplainedInv'
<1>1. LcpTypes' /\ Stage2TypeOK /\ [Next]_vars
  BY StageTwoKeepsTypes DEF ExplainedInv, LcpTypes, Next
<1>2. audit \subseteq audit'
  BY <1>1, AuditGrows
<1>3. ASSUME NEW t \in Threads, pc'[t] = "persist"
      PROVE  /\ Explained(run[t].target, run[t].reason)'
             /\ Reasoned(run[t].target, run[t].reason)'
  <2>1. CASE GateParks(t) \/ LintDraft(t) \/ ServiceFails(t)
    BY <1>1, <2>1, ChoiceIsExplained, ChoiceHasAReason
  <2>2. CASE ~(GateParks(t) \/ LintDraft(t) \/ ServiceFails(t))
    <3>1. pc[t] = "persist" /\ run'[t] = run[t]
      BY <1>1, <1>3, <2>2, OthersKeepThePlan
    <3> QED
      BY <1>2, <3>1 DEF ExplainedInv, Explained, Reasoned
  <2> QED
    BY <2>1, <2>2
<1>4. /\ Reasoned(row.state, row.reason)'
      /\ row'.state # "processed" => Explained(row.state, row.reason)'
      /\ row'.state \in PastTheGates => AGateHasSpoken'
  <2>1. CASE row' = row
    BY <1>2, <2>1 DEF ExplainedInv, Explained, Reasoned, AGateHasSpoken
  <2>2. CASE row' # row
    <3>1. PICK t \in Threads : /\ Persist(t) /\ pc[t] = "persist"
                               /\ row' = [state |-> run[t].target, reason |-> run[t].reason]
      BY <2>2, CommitMovesTheRow
    <3>2. /\ Explained(row'.state, row'.reason)
          /\ Reasoned(row'.state, row'.reason)
      BY <3>1 DEF ExplainedInv
    <3>3. row'.state \in PastTheGates => row'.state \in {"needs_human_review", "processed"}
      BY <3>1 DEF Persist, PersistFromProcessing, IsLegal, Transitions, PastTheGates
    <3>4. row'.state \in PastTheGates => AGateHasSpoken
      BY <3>2, <3>3, ExplainedByAGate
    <3> QED
      BY <1>2, <3>2, <3>4, SpokenForGood DEF Explained, Reasoned
  <2> QED
    BY <2>1, <2>2
<1> QED
  BY <1>1, <1>3, <1>4 DEF ExplainedInv

\* A person takes a job past the gates from where they have left it.
LEMMA PersonKeepsExplained ==
  ASSUME ExplainedInv, NEW o \in Operators, People!Operate(o) \/ People!Crash(o),
         UNCHANGED runVars
  PROVE  ExplainedInv'
<1>1. LcpTypes'
  BY PersonKeepsTypes DEF ExplainedInv
<1>2. audit \subseteq audit'
  BY SameSteps, Desk!PeopleForgetNoEvent, DeskAssumptions
<1>3. ASSUME NEW t \in Threads, pc'[t] = "persist"
      PROVE  /\ Explained(run[t].target, run[t].reason)'
             /\ Reasoned(run[t].target, run[t].reason)'
  BY <1>2, <1>3 DEF ExplainedInv, Explained, Reasoned, runVars
<1>4. /\ Reasoned(row.state, row.reason)'
      /\ row'.state # "processed" => Explained(row.state, row.reason)'
      /\ row'.state \in PastTheGates => AGateHasSpoken'
  <2>1. CASE row' = row
    BY <1>2, <2>1 DEF ExplainedInv, Explained, Reasoned, AGateHasSpoken
  <2>2. CASE row' # row
    <3>1. PICK s \in Decided : IsLegal(row.state, s) /\ row' = [state |-> s, reason |-> NoReason]
      BY <2>2, PersonMoves
    <3>2. s \in PastTheGates => row.state \in PastTheGates
      BY <3>1, <2>2, PersonMoves DEF Decided, IsLegal, Transitions, PastTheGates, ExplainedInv,
         LcpTypes, Stage2TypeOK, StoreTypeOK, Row, RestingStates, TransientStates
    <3> QED
      BY <1>2, <3>1, <3>2, SpokenForGood
         DEF ExplainedInv, Explained, Reasoned, Evidence, Decided, NoReason
  <2> QED
    BY <2>1, <2>2
<1> QED
  BY <1>1, <1>3, <1>4 DEF ExplainedInv

\* However many people decide about the job while however many threads process it, and
\* whatever dies: a job that is blocked, a duplicate or on hold has the event of the gate
\* that put it there, and none is processed, under review, approved or published unless a
\* gate had passed its draft or held it for a human. The code: Pipeline.process,
\* persist_gate_state, signoff.resolve.
THEOREM EveryJobIsExplained == LcpSpec => []JobIsExplained
<1>1. LcpInit => ExplainedInv
  BY LcpInvInit DEF LcpInit, Crawled, People!SignOffInit, Stage2Init, ExplainedInv, Explained,
     Reasoned, Evidence, PastTheGates
<1>2. ExplainedInv /\ [LcpNext]_lcpVars => ExplainedInv'
  <2> SUFFICES ASSUME ExplainedInv, [LcpNext]_lcpVars PROVE ExplainedInv'
    OBVIOUS
  <2>1. CASE UNCHANGED lcpVars
    BY <2>1, LcpTypesStep DEF lcpVars, storeVars, runVars, ExplainedInv, Explained, Reasoned,
       AGateHasSpoken
  <2> QED
    BY <2>1, StageTwoExplains, PersonKeepsExplained DEF LcpNext
<1>3. ExplainedInv => JobIsExplained
  BY DEF ExplainedInv, Explained, JobIsExplained, ParkedHasEvidence
<1> QED
  BY <1>1, <1>2, <1>3, PTL DEF LcpSpec

-----------------------------------------------------------------------------
(***************************************************************************)
(* The files of a review and what the group is shown, beside the runs of   *)
(* one server. The cover of a packet is that of Stage 2, which may write   *)
(* it again: but only in a run that has not committed, and while such a    *)
(* run lives, also on a job superseded under it, no packet was ever begun. *)
(***************************************************************************)
Undisturbed ==
    row.state \in ReconcilableStates \/ (\E t \in Threads : pc[t] \in BeforeCommit)
        => Desk!NothingBegun

PacketInv == LcpInv /\ Undisturbed /\ Desk!FilesInv

\* A run begins where the row can be processed.
LEMMA RunsBeginOpen ==
  ASSUME Stage2TypeOK, Stage2Next, NEW t \in Threads, pc'[t] \in BeforeCommit
  PROVE  pc[t] \in BeforeCommit \/ row.state \in ReconcilableStates
<1>1. pc \in [Threads -> Labels]
  BY DEF Stage2TypeOK
<1> USE <1>1 DEF BeforeCommit, Transition, Goto
<1>2. ASSUME NEW u \in Threads, Process(u)
      PROVE  pc[t] \in BeforeCommit \/ row.state \in ReconcilableStates
  <2>1. CASE Enter(u)
    BY <2>1 DEF Enter
  <2>2. CASE CheckMarker(u) \/ OpenMarker(u) \/ StampMarker(u) \/ EnterFails(u)
    BY <2>2 DEF CheckMarker, OpenMarker, StampMarker, EnterFails
  <2>3. CASE GateParks(u) \/ GatesPass(u) \/ Assemble(u) \/ SaveDraft(u) \/ LintDraft(u)
    BY <2>3 DEF GateParks, GatesPass, Assemble, SaveDraft, LintDraft
  <2>4. CASE ServiceFails(u) \/ OtherError(u) \/ Persist(u) \/ PersistFails(u)
    BY <2>4 DEF ServiceFails, OtherError, Persist, PersistFails
  <2>5. CASE ClearAfterCommit(u) \/ ClearInFinally(u) \/ Leave(u)
    BY <2>5 DEF ClearAfterCommit, ClearInFinally, ClearMarker, Leave
  <2> QED
    BY <1>2, <2>1, <2>2, <2>3, <2>4, <2>5 DEF Process
<1>3. ASSUME NEW p \in Procs, Die(p) \/ Start(p)
      PROVE  pc[t] \in BeforeCommit
  BY <1>3 DEF Die, Start
<1>4. CASE Reconcile
  BY <1>4, PassReadsOnly
<1> QED
  BY <1>2, <1>3, <1>4 DEF Stage2Next

\* A crawled job has no files of a review.
LEMMA PacketInit == LcpInit => PacketInv
<1> SUFFICES ASSUME LcpInit PROVE Desk!NothingBegun /\ Desk!FilesInv
  BY LcpInvInit DEF PacketInv, Undisturbed
<1>1. /\ People!SignOffInit /\ row.state \in {"crawled", "crawled_warn"} /\ cover = None
      /\ ~Desk!Said("NOTIFICATION_SENT")
  BY DEF LcpInit, Crawled, Desk!Said
<1> QED
  BY <1>1 DEF People!SignOffInit, People!NoReview, People!NoFreeze, Desk!NoFreeze,
     People!NoHandle, Desk!NoHandle, Desk!NothingBegun, Desk!FilesInv, Desk!Prepared,
     Desk!Copied, Desk!CopySteps, Desk!PacketIsWhole, Desk!CoverIsWhole,
     Desk!FilesBeforeState, Desk!AnnouncedWasReviewed

\* Stage 2 writes the cover, and moves the row, only where nothing was begun.
LEMMA StageTwoKeepsPackets ==
  ASSUME PacketInv, Stage2Next, UNCHANGED signVars
  PROVE  Undisturbed' /\ Desk!FilesInv'
<1>1. Stage2TypeOK /\ SlotInv
  BY DEF PacketInv, LcpInv, SlotInv
<1>2. UNCHANGED <<message, reviewCover, tmpCover, handle, shared, freeze, url, sent, op, mem>>
  BY DEF signVars
<1>3. row'.state # row.state =>
        row.state \in ReconcilableStates /\ row'.state \in StageTwoOutcomes
  BY <1>1, StageTwoMoves
<1>4. Undisturbed'
  <2>1. Desk!NothingBegun' <=> Desk!NothingBegun
    BY <1>2 DEF Desk!NothingBegun, Desk!NoFreeze, Desk!NoHandle
  <2> QED
    BY <1>1, <1>3, <2>1, RunsBeginOpen DEF PacketInv, Undisturbed
<1>5. cover' # cover \/ row'.state # row.state => Desk!NothingBegun
  <2>1. [Next]_vars
    BY DEF Next
  <2> QED
    BY <1>1, <1>3, <2>1, WritesWhileOpen DEF PacketInv, Undisturbed
<1>6. Desk!Said("NOTIFICATION_SENT")' => Desk!Said("NOTIFICATION_SENT")
  BY StageTwoSays DEF StageTwoEvents
<1>7. row'.state # row.state =>
        row'.state \notin {"review_pending", "approved", "published_recorded"}
  BY <1>3 DEF StageTwoOutcomes, IsLegal, Transitions, States
<1> USE <1>2, <1>6, <1>7 DEF PacketInv, Desk!FilesInv, Desk!Prepared, Desk!PacketIsWhole,
            Desk!Copied, Desk!CoverIsWhole, Desk!CopySteps, Desk!FilesBeforeState,
            Desk!AnnouncedWasReviewed, Desk!WasReviewed, Desk!NoFreeze
<1>8. CASE cover' = cover /\ row'.state = row.state
  BY <1>4, <1>8
<1>9. CASE Desk!NothingBegun
  BY <1>4, <1>9 DEF Desk!NothingBegun
<1> QED
  BY <1>5, <1>8, <1>9

\* A person begins a packet on a processed job, where no run can be before its commit.
LEMMA PersonKeepsPackets ==
  ASSUME PacketInv, NEW o \in Operators, People!Operate(o) \/ People!Crash(o),
         UNCHANGED runVars
  PROVE  Undisturbed' /\ Desk!FilesInv'
<1>1. Desk!Operate(o) \/ Desk!Crash(o)
  BY SameSteps
<1>2. Desk!FilesInv'
  BY <1>1, Desk!PeopleKeepFiles, DeskAssumptions DEF PacketInv, LcpInv
<1>3. Undisturbed'
  <2> SUFFICES ASSUME \/ row'.state \in ReconcilableStates
                      \/ \E t \in Threads : pc'[t] \in BeforeCommit
               PROVE  Desk!NothingBegun'
    BY DEF Undisturbed
  <2>1. \/ row.state \in ReconcilableStates
        \/ \E t \in Threads : pc[t] \in BeforeCommit
    BY PeopleNeverReopen DEF runVars
  <2>2. row.state \in OpenOrClosed
    BY <2>1 DEF PacketInv, LcpInv, SlotInv, Knows, OpenOrClosed
  <2>3. row.state \notin {"processed", "review_pending"}
    BY <2>2 DEF OpenOrClosed, ReconcilableStates
  <2> QED
    BY <1>1, <2>1, <2>3, Desk!NothingBegins, DeskAssumptions
       DEF PacketInv, LcpInv, Undisturbed
<1> QED
  BY <1>2, <1>3

\* Every step, whoever takes it.
LEMMA PacketStep ==
  ASSUME Exclusive
  PROVE  PacketInv /\ [LcpNext]_lcpVars => PacketInv'
<1> SUFFICES ASSUME PacketInv, [LcpNext]_lcpVars PROVE Undisturbed' /\ Desk!FilesInv'
  BY LcpStep DEF PacketInv
<1>1. CASE UNCHANGED lcpVars
  <2>1. Desk!Said("NOTIFICATION_SENT")' <=> Desk!Said("NOTIFICATION_SENT")
    BY <1>1 DEF lcpVars, storeVars, Desk!Said
  <2> QED
    BY <1>1, <2>1 DEF lcpVars, storeVars, runVars, signVars, PacketInv, Undisturbed,
       Desk!NothingBegun, Desk!FilesInv, Desk!Prepared, Desk!Copied, Desk!PacketIsWhole,
       Desk!CoverIsWhole, Desk!FilesBeforeState, Desk!AnnouncedWasReviewed
<1> QED
  BY <1>1, StageTwoKeepsPackets, PersonKeepsPackets DEF LcpNext

\* However many people decide while the job is processed and whatever dies: a job that
\* waits for a decision has its packet, and a published one its URL. The code:
\* build_review_packet, backfill_published_url, Pipeline.process.
THEOREM FilesComeFirstBesideStageTwo ==
  ASSUME Exclusive
  PROVE  LcpSpec => []People!FilesBeforeState
<1>1. PacketInv => People!FilesBeforeState
  BY DEF PacketInv, Desk!FilesInv, Desk!FilesBeforeState, People!FilesBeforeState,
     Desk!NoFreeze, People!NoFreeze
<1> QED
  BY <1>1, PacketInit, PacketStep, PTL DEF LcpSpec

\* And the group is shown what was put to review, with the cover that was frozen unless one
\* packet has opened cover.jpg.tmp while another was copying to it or had yet to rename it:
\* a cover that Stage 2 composes again, for a job superseded under its run too, is in no
\* packet. The code: send_notification, build_review_packet, run_media_gate.
THEOREM OnlyReviewedIsAnnouncedBesideStageTwo ==
  ASSUME Exclusive
  PROVE  LcpSpec => []People!AnnouncedWasReviewed
<1>1. PacketInv => People!AnnouncedWasReviewed
  BY DEF PacketInv, Desk!FilesInv, Desk!AnnouncedWasReviewed, People!AnnouncedWasReviewed,
     Desk!NoFreeze, People!NoFreeze, Desk!Said, People!Said, Desk!RestingStates,
     People!RestingStates, Desk!States, People!States, Desk!TransientStates,
     People!TransientStates
<1> QED
  BY <1>1, PacketInit, PacketStep, PTL DEF LcpSpec

-----------------------------------------------------------------------------
(***************************************************************************)
(* One operator, beside any number of threads. What an operation relies on *)
(* after it has read the draft and the freeze record outlives every step   *)
(* of Stage 2: it writes the draft only where nothing is frozen, and never *)
(* takes a job out of review.                                              *)
(***************************************************************************)
ReviewInv == LcpInv /\ Desk!SignedInv

\* Nothing is frozen and no packet is begun while a job is crawled.
LEMMA ReviewInvInit == LcpInit => ReviewInv
<1> SUFFICES ASSUME LcpInit PROVE Desk!SignedInv
  BY LcpInvInit DEF ReviewInv
<1>1. People!SignOffInit /\ row.state \in {"crawled", "crawled_warn"}
  BY DEF LcpInit, Crawled
<1> QED
  BY <1>1 DEF People!SignOffInit, People!NoReview, People!NoFreeze, Desk!NoFreeze, Desk!SignedInv,
     Desk!Binds, Desk!Building, Desk!CopySteps, Desk!InReview

\* Stage 2 writes the draft where nothing is frozen, and moves the row where no
\* decision was taken.
LEMMA StageTwoKeepsSigned ==
  ASSUME ReviewInv, Stage2Next, UNCHANGED signVars
  PROVE  Desk!SignedInv'
<1> USE DEF ReviewInv, LcpInv, signVars, Desk!WasReviewed, Desk!InReview, Desk!NoFreeze,
            Desk!CopySteps
<1>1. CASE row.state \in ReconcilableStates
  <2>1. row'.state \in StageTwoOutcomes \cup ReconcilableStates /\ freeze = Desk!NoFreeze
    BY <1>1, StageTwoMoves DEF Desk!SignedInv, ReconcilableStates
  <2>2. \A o \in Operators : op[o] \notin Desk!Building
    BY <1>1 DEF Desk!SignedInv, Desk!Binds, ReconcilableStates
  <2> QED
    BY <1>1, <2>1, <2>2 DEF Desk!SignedInv, Desk!Binds, Desk!Building, ReconcilableStates,
       StageTwoOutcomes, IsLegal, Transitions, States
<1>2. CASE row.state = "superseded"
  <2>1. row'.state = "superseded"
    BY <1>2, StageTwoMoves DEF ReconcilableStates
  <2> QED
    BY <1>2, <2>1 DEF Desk!SignedInv, Desk!Binds, Desk!PacketAgrees
<1>3. CASE row.state \notin OpenOrClosed
  <2>1. row'.state = row.state /\ draft' = draft
    BY <1>3, StageTwoMoves DEF OpenOrClosed
  <2> QED
    BY <1>3, <2>1 DEF Desk!SignedInv, Desk!Binds, Desk!PacketAgrees
<1> QED
  BY <1>1, <1>2, <1>3 DEF OpenOrClosed

\* Every step, whoever takes it.
LEMMA ReviewStep ==
  ASSUME Exclusive, OneOperator
  PROVE  ReviewInv /\ [LcpNext]_lcpVars => ReviewInv'
<1> SUFFICES ASSUME ReviewInv, [LcpNext]_lcpVars PROVE Desk!SignedInv'
  BY LcpStep DEF ReviewInv
<1>1. CASE UNCHANGED lcpVars
  BY <1>1 DEF ReviewInv, lcpVars, signVars, storeVars, Desk!SignedInv, Desk!Binds, Desk!PacketAgrees
<1>2. ASSUME NEW o \in Operators, People!Operate(o) \/ People!Crash(o)
      PROVE  Desk!SignedInv'
  <2>1. Desk!Operate(o) \/ Desk!Crash(o)
    BY <1>2, SameSteps
  <2>2. Desk!Alone
    BY DEF OneOperator, Desk!Alone
  <2> QED
    BY <2>1, <2>2, Desk!SignedStep, DeskAssumptions DEF ReviewInv, LcpInv
<1> QED
  BY <1>1, <1>2, StageTwoKeepsSigned DEF LcpNext

\* What an approval is about is still what is stored and what the reviewer was shown,
\* although Stage 2 may be running beside it and any operation may die. The code:
\* build_review_packet, approve, Pipeline.process.
THEOREM SignedStaysStored ==
  ASSUME Exclusive, OneOperator
  PROVE  LcpSpec => []SignedIsStored
<1>1. ReviewInv => SignedIsStored
  BY DEF ReviewInv, Desk!SignedInv, Desk!PacketAgrees, Desk!InReview, SignedIsStored,
     People!SignedIsStored
<1> QED
  BY <1>1, ReviewInvInit, ReviewStep, PTL DEF LcpSpec

-----------------------------------------------------------------------------
(***************************************************************************)
(* The job implements Artifact: each step of Stage 2 or of the operator is *)
(* one of its steps or none of them.                                       *)
(***************************************************************************)
\* A step that leaves the row has nothing to show: only a packet that is being built
\* writes a file of it, and nothing is frozen yet.
LEMMA QuietSteps ==
  ASSUME ReviewInv, [LcpNext]_lcpVars, row'.state = row.state
  PROVE  Phase' = Phase /\ (Phase \notin {"open", "closed"} => UNCHANGED <<message, freeze>>)
<1>1. Phase' = Phase
  BY DEF Phase
<1>2. ASSUME NEW o \in Operators, People!Operate(o) \/ People!Crash(o),
             Phase \notin {"open", "closed"}
      PROVE  UNCHANGED <<message, freeze>>
  <2>1. Desk!Operate(o) \/ Desk!Crash(o)
    BY <1>2, SameSteps
  <2>2. message' # message \/ freeze' # freeze => op[o] \in Desk!Building
    BY <2>1, Desk!PacketsWriteTheFiles, DeskAssumptions
  <2> QED
    BY <1>2, <2>2 DEF ReviewInv, Desk!SignedInv, Desk!Binds, Phase
<1> QED
  BY <1>1, <1>2 DEF LcpNext, signVars, lcpVars

\* One operator never opens cover.jpg.tmp under the hands of another, and freezes the hash
\* of a whole cover.
LEMMA OneCopiesAlone ==
  ASSUME OneOperator, ~shared, [LcpNext]_lcpVars
  PROVE  ~shared'
<1>1. ASSUME NEW o \in Operators, People!Operate(o) \/ People!Crash(o)
      PROVE  ~shared'
  <2>1. Desk!Operate(o) \/ Desk!Crash(o)
    BY <1>1, SameSteps
  <2> QED
    BY <2>1, Desk!OneNeverShares, DeskAssumptions DEF OneOperator, Desk!Alone
<1> QED
  BY <1>1 DEF LcpNext, lcpVars, signVars

WholeCover == freeze # Desk!NoFreeze => freeze.cover \in Covers \cup {None}

\* So says the invariant of the files.
LEMMA OneFreezesWhole ==
  ASSUME PacketInv, ~shared
  PROVE  WholeCover
  BY DEF PacketInv, LcpInv, SlotInv, Stage2TypeOK, StoreTypeOK, WholeCover, Desk!FilesInv,
     Desk!PacketIsWhole, Desk!CoverIsWhole

\* A person who moves the row freezes, signs, records or closes, or leaves a job open.
LEMMA PersonActs ==
  ASSUME ReviewInv, ReviewInv', WholeCover, NEW o \in Operators,
         People!Operate(o) \/ People!Crash(o), row'.state # row.state
  PROVE  Reviewed!Next \/ UNCHANGED <<Phase, IF Phase \in {"open", "closed"} THEN None ELSE Packet>>
<1>1. UNCHANGED <<message, freeze>> /\ row.state \in RestingStates
  BY PersonMoves DEF ReviewInv, LcpInv, SlotInv, Stage2TypeOK, StoreTypeOK, Row
<1>2. PICK s \in Decided : IsLegal(row.state, s) /\ row' = [state |-> s, reason |-> NoReason]
  BY PersonMoves
<1> USE DEF IsLegal, Transitions, Phase, RestingStates, TransientStates
<1>3. CASE s = "review_pending"
  <2>1. freeze \in Desk!Freezes /\ message = freeze.body /\ freeze.cover \in Covers \cup {None}
    BY <1>1, <1>2, <1>3 DEF ReviewInv, LcpInv, Desk!TypeInv, Desk!SignOffTypeOK,
       Desk!SignedInv, Desk!PacketAgrees, Desk!InReview, WholeCover
  <2>2. Packet \in Packets
    BY <2>1 DEF Desk!Freezes, Packet, Packets
  <2> QED
    BY <1>1, <1>2, <1>3, <2>2 DEF Packet, Reviewed!Next, Reviewed!Freeze
<1>4. CASE s = "approved"
  BY <1>1, <1>2, <1>4 DEF Packet, Reviewed!Next, Reviewed!Sign
<1>5. CASE s = "published_recorded"
  BY <1>1, <1>2, <1>5 DEF Packet, Reviewed!Next, Reviewed!Publish
<1>6. CASE s \in {"rejected", "superseded"}
  BY <1>2, <1>6 DEF Reviewed!Next, Reviewed!Close
<1>7. CASE s = "processed"
  BY <1>2, <1>7
<1> QED
  BY <1>3, <1>4, <1>5, <1>6, <1>7 DEF Decided

\* What is signed, and then recorded, is the packet that was frozen, with the message
\* that shows it, and a closed job stays closed: Stage 2 and one operator keep the promise
\* of Artifact. The code: build_review_packet, approve, backfill_published_url, supersede.
THEOREM LcpKeepsArtifact ==
  ASSUME Exclusive, OneOperator
  PROVE  LcpSpec => ReviewKeepsArtifact
<1>1. LcpInit => Reviewed!Init
  BY DEF LcpInit, Crawled, Reviewed!Init, Phase
<1>2. ReviewInv /\ ReviewInv' /\ WholeCover /\ [LcpNext]_lcpVars =>
        [Reviewed!Next]_<<Phase, IF Phase \in {"open", "closed"} THEN None ELSE Packet>>
  <2> SUFFICES ASSUME ReviewInv, ReviewInv', WholeCover, [LcpNext]_lcpVars
               PROVE  [Reviewed!Next]_<<Phase, IF Phase \in {"open", "closed"} THEN None ELSE Packet>>
    OBVIOUS
  <2>1. CASE row'.state = row.state
    BY <2>1, QuietSteps DEF Packet
  <2>2. CASE row'.state # row.state /\ Stage2Next
    <3>1. Phase = "open" /\ Phase' = "open"
      BY <2>2, StageTwoMoves DEF ReviewInv, LcpInv, Phase, ReconcilableStates, StageTwoOutcomes,
         IsLegal, Transitions, States
    <3> QED
      BY <3>1
  <2>3. CASE row'.state # row.state /\ ~Stage2Next
    BY <2>3, PersonActs DEF LcpNext, lcpVars, storeVars
  <2> QED
    BY <2>1, <2>2, <2>3
<1>3. LcpInit => ~shared
  BY DEF LcpInit, People!SignOffInit, People!NoReview
<1>4. ~shared /\ [LcpNext]_lcpVars => ~shared'
  BY OneCopiesAlone
<1>5. PacketInv /\ ~shared => WholeCover
  BY OneFreezesWhole
<1> QED
  BY <1>1, <1>2, <1>3, <1>4, <1>5, ReviewInvInit, ReviewStep, PacketInit, PacketStep, PTL
     DEF LcpSpec, ReviewKeepsArtifact, Reviewed!Spec
=============================================================================
