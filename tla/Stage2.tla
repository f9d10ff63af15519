------------------------------- MODULE Stage2 -------------------------------
(***************************************************************************)
(* Stage 2 of one job: Pipeline.process, the .processing marker that makes *)
(* its death visible, the counter of those deaths, and the worklist pass   *)
(* (Pipeline.reconcile) that reads both.                                   *)
(*                                                                         *)
(* A thread runs process() step by step; a step is one call on the store,  *)
(* the job directory or the audit log. The threads of a process die with   *)
(* it, between any two steps, and their `finally` does not run. A new      *)
(* process gets any PID that is free, a dead one's too. A thread in        *)
(* Guarded goes through the GUI server's in-flight set (webserver._Handler *)
(* and Api._run_bg); the others - the CLI, Api.process_batch - do not.     *)
(***************************************************************************)
EXTENDS JobStore, Naturals, FiniteSets

CONSTANTS
    Threads,       \* the threads that may call process() on the job
    Procs,         \* the processes of the machine, whatever they run
    ProcOf,        \* the process of a thread
    Guarded,       \* the threads that take the server's in-flight slot
    Viewer,        \* the process that lists jobs (CLI list, GUI list_jobs)
    Pids,          \* the process ids the machine hands out
    Blank,         \* the text of a marker that is open but not yet written
    Found,         \* what the parking gates may find, given title and cover
    MaxAttempts,   \* DEFAULT_MAX_INTERRUPT_ATTEMPTS
    MaxDeaths,     \* bound: how often a process may die or a call fail at entry
    MaxCount       \* bound: no run starts once the counter has got there

\* run_gate_chain: risk, then media, then dedup, each audited before it parks
\* the job, and the first that parks it ends the chain: the gate that says so,
\* the state it parks the job in and the reason it gives.
ParkingGates ==
    {<<"RISK_GATE", "blocked", NoReason>>,
     <<"RISK_GATE", "needs_human_review", "risk">>,
     <<"MEDIA_GATE", "needs_revision", NoReason>>,
     <<"DEDUP_GATE", "duplicate", NoReason>>,
     <<"DEDUP_GATE", "needs_human_review", "dedup">>}

ASSUME StageTwoAssumption ==
    /\ Found \subseteq ParkingGates
    /\ IsFiniteSet(Threads)
    /\ ProcOf \in [Threads -> Procs]
    /\ Guarded \subseteq Threads
    /\ \A t, u \in Guarded : ProcOf[t] = ProcOf[u]
    /\ Viewer \in Procs
    /\ None \notin Pids \cup {Blank}
    /\ Blank \notin Pids
    /\ MaxAttempts \in Nat
    /\ MaxDeaths \in Nat
    /\ MaxCount \in Nat

VARIABLES
    marker,     \* .processing: the PID written in it, Blank, or None
    count,      \* the interrupt counter file; an absent file reads as 0
    pid,        \* the PID each process runs under, None when it is dead
    inflight,   \* the threads that hold the server's slot for the job
    pc,         \* where in process() each thread is
    run,        \* the draft of each thread's process(), and what it will persist
    crashEntry, \* the threads whose _was_crash_entry is set
    serviceError, \* the threads whose _raised_service_error is set
    view,       \* the worklist pass: where it is, the state and the owner it has read
    report,     \* what the pass, or the last one, says of the job
    steady,     \* history: the threads that had written their PID and were at work when
                \* the pass now on its way read the job, and have begun no other run
    deaths,     \* how many processes have died, or calls failed at entry
    kills       \* history: the runs since the last reset that died, or failed at
                \* entry, and left a marker behind

flagVars == <<crashEntry, serviceError>>
procVars == <<pid, deaths, kills>>
viewVars == <<view, report, steady>>
runVars == <<marker, count, inflight, pc, run, flagVars, procVars, viewVars>>
vars == <<storeVars, runVars>>

Labels == {"idle", "check", "mark", "stamp", "gates", "assemble", "save", "lint",
           "persist", "clear", "unwind", "reset"}

\* A run that has written its PID and has not committed, nor given up.
AtWork == {"gates", "assemble", "save", "lint", "persist"}

Run == [draft : Drafts \cup {None},
        target : StageTwoOutcomes \cup {None},
        reason : Reasons \cup {NoReason}]

FreshRun == [draft |-> None, target |-> None, reason |-> NoReason]

View == [at : {"idle", "marker", "owner", "probe", "count", "clear"},
         state : RestingStates,
         owner : Pids \cup {None}]

NoView == [at |-> "idle", state |-> "new", owner |-> None]

Stage2TypeOK ==
    /\ StoreTypeOK
    /\ marker \in Pids \cup {Blank, None}
    /\ count \in Nat
    /\ pid \in [Procs -> Pids \cup {None}]
    /\ inflight \subseteq Guarded
    /\ pc \in [Threads -> Labels]
    /\ run \in [Threads -> Run]
    /\ crashEntry \subseteq Threads
    /\ serviceError \subseteq Threads
    /\ view \in View
    /\ report \in {"nothing", "interrupted", "exhausted"}
    /\ steady \subseteq Threads
    /\ deaths \in Nat
    /\ kills \in Nat

Alive(p) == pid[p] # None
PidAlive(i) == \E p \in Procs : pid[p] = i

Goto(t, label) == pc' = [pc EXCEPT ![t] = label]
Transition(t, from, to) ==
    /\ pc[t] = from
    /\ Alive(ProcOf[t])
    /\ Goto(t, to)

-----------------------------------------------------------------------------
(***************************************************************************)
(* Pipeline.process                                                        *)
(***************************************************************************)

\* Mutant: a second thread of the server is let in.
EnterNoSlot(t) ==
    /\ Transition(t, "idle", "check")
    /\ row.state \in ReconcilableStates
    /\ count < MaxCount
    /\ inflight' = inflight \cup ({t} \cap Guarded)
    /\ steady' = steady \ {t}
    /\ UNCHANGED <<storeVars, marker, count, run, flagVars, procVars, view, report>>

\* The call, from the in-flight guard to the check of the state. A thread that
\* finds the slot taken, or the job in another state, changes nothing.
Enter(t) ==
    /\ Transition(t, "idle", "check")
    /\ row.state \in ReconcilableStates
    /\ t \in Guarded => inflight = {}
    /\ count < MaxCount
    /\ inflight' = inflight \cup ({t} \cap Guarded)
    /\ steady' = steady \ {t}
    /\ UNCHANGED <<storeVars, marker, count, run, flagVars, procVars, view, report>>

\* A marker at entry is taken for a run that died: count it, say so.
CheckMarker(t) ==
    /\ Transition(t, "check", "mark")
    /\ IF marker = None
       THEN UNCHANGED <<crashEntry, count, audit>>
       ELSE /\ crashEntry' = crashEntry \cup {t}
            /\ count' = count + 1
            /\ AuditEvent("INTERRUPTED_DETECTED", "-")
    /\ UNCHANGED <<row, draft, cover, marker, inflight, run, serviceError,
                   procVars, viewVars>>

\* The event or the marker cannot be written - the log ends in a torn line, the disk is
\* full - and the call raises before its try: it gives back the slot and nothing else,
\* so that the next attempt finds a marker and counts it, once more or for the first time.
EnterFails(t) ==
    /\ pc[t] \in {"check", "mark", "stamp"}
    /\ pc[t] = "check" => marker # None
    /\ Transition(t, pc[t], "idle")
    /\ deaths < MaxDeaths
    /\ deaths' = deaths + 1
    /\ count' = IF pc[t] = "check" THEN count + 1 ELSE count
    /\ kills' = IF marker = None THEN kills ELSE kills + 1
    /\ inflight' = inflight \ {t}
    /\ crashEntry' = crashEntry \ {t}
    /\ UNCHANGED <<storeVars, marker, run, serviceError, pid, viewVars>>

\* mark_processing writes the PID of its own process over any other. The file
\* is truncated when it is opened and written when it is closed.
OpenMarker(t) ==
    /\ Transition(t, "mark", "stamp")
    /\ marker' = Blank
    /\ UNCHANGED <<storeVars, count, inflight, run, flagVars, procVars, viewVars>>

StampMarker(t) ==
    /\ Transition(t, "stamp", "gates")
    /\ marker' = pid[ProcOf[t]]
    /\ UNCHANGED <<storeVars, count, inflight, run, flagVars, procVars, viewVars>>

\* A step that is about to leave the job at `target`.
Park(t, target, why) ==
    run' = [run EXCEPT ![t] = [@ EXCEPT !.target = target, !.reason = why]]

\* Mutant: the gate parks the job and says nothing.
GateParksSilently(t) ==
    /\ Transition(t, "gates", "persist")
    /\ \E g \in Found : Park(t, g[2], g[3])
    /\ UNCHANGED <<storeVars, marker, count, inflight, flagVars, procVars, viewVars>>

\* The media gate composes the cover before it decides and before dedup runs;
\* a job without a sound image keeps the file it has.
GateParks(t) ==
    /\ Transition(t, "gates", "persist")
    /\ \E g \in Found :
          /\ AuditEvent(g[1], g[2])
          /\ Park(t, g[2], g[3])
          /\ cover' \in IF g[1] = "RISK_GATE" THEN {cover} ELSE Covers \cup {cover}
    /\ UNCHANGED <<row, draft, marker, count, inflight, flagVars, procVars, viewVars>>

GatesPass(t) ==
    /\ Transition(t, "gates", "assemble")
    /\ cover' \in Covers \cup {cover}
    /\ UNCHANGED <<row, draft, audit, marker, count, inflight, run,
                   flagVars, procVars, viewVars>>

\* assemble, and the optional AI copy: one text or another comes back.
Assemble(t) ==
    /\ Transition(t, "assemble", "save")
    /\ \E d \in Drafts : run' = [run EXCEPT ![t].draft = d]
    /\ UNCHANGED <<storeVars, marker, count, inflight, flagVars, procVars, viewVars>>

\* ExternalServiceError or DependencyError from a gate or the LLM: the handler
\* goes on to persist PROCESS_FAILED.
ServiceFails(t) ==
    /\ pc[t] \in {"gates", "assemble"}
    /\ Transition(t, pc[t], "persist")
    /\ serviceError' = serviceError \cup {t}
    /\ Park(t, "process_failed", NoReason)
    /\ UNCHANGED <<storeVars, marker, count, inflight, crashEntry, procVars, viewVars>>

\* Any other exception goes straight to the finally: the job keeps its state.
OtherError(t) ==
    /\ pc[t] \in {"gates", "assemble", "save", "lint"}
    /\ Transition(t, pc[t], "unwind")
    /\ UNCHANGED <<storeVars, marker, count, inflight, run, flagVars, procVars, viewVars>>

\* Mutant: a draft that is there is not replaced.
SaveDraftOnce(t) ==
    /\ Transition(t, "save", "lint")
    /\ draft' = IF draft = None THEN run[t].draft ELSE draft
    /\ UNCHANGED <<row, cover, audit, marker, count, inflight, run,
                   flagVars, procVars, viewVars>>

SaveDraft(t) ==
    /\ Transition(t, "save", "lint")
    /\ draft' = run[t].draft
    /\ UNCHANGED <<row, cover, audit, marker, count, inflight, run,
                   flagVars, procVars, viewVars>>

\* The verdict on the draft the run assembled, not on the file it saved: a
\* truncated text parks without a lint, then run_draft_lint_gate audits first.
LintDraft(t) ==
    /\ Transition(t, "lint", "persist")
    /\ \/ /\ Lint[run[t].draft] = "truncated"
          /\ Park(t, "needs_revision", NoReason)
          /\ UNCHANGED audit
       \/ /\ Lint[run[t].draft] = "ungrounded"
          /\ AuditEvent("GROUNDING_GATE", "needs_human_review")
          /\ Park(t, "needs_human_review", "grounding")
       \/ /\ Lint[run[t].draft] = "unclassified"
          /\ AuditEvent("LINT_GATE", "needs_human_review")
          /\ Park(t, "needs_human_review", "classification")
       \/ /\ Lint[run[t].draft] = "unsound"
          /\ AuditEvent("LINT_GATE", "needs_revision")
          /\ Park(t, "needs_revision", NoReason)
       \/ /\ Lint[run[t].draft] = "clean"
          /\ AuditEvent("LINT_GATE", "pass")
          /\ Park(t, "processed", NoReason)
    /\ UNCHANGED <<row, draft, cover, marker, count, inflight, flagVars, procVars, viewVars>>

\* persist_gate_state commits the target, or is refused because the row has
\* left the states that lead to processing.
Persist(t) ==
    /\ Transition(t, "persist", "clear")
    /\ PersistFromProcessing(run[t].target, run[t].reason)
    /\ UNCHANGED <<draft, cover, audit, marker, count, inflight, run,
                   flagVars, procVars, viewVars>>

PersistFails(t) ==
    /\ Transition(t, "persist", "unwind")
    /\ PersistRefused(run[t].target)
    /\ UNCHANGED <<storeVars, marker, count, inflight, run, flagVars, procVars, viewVars>>

\* clear_processing unlinks whatever marker is there: outside the transaction
\* after the commit, and again in the finally.
ClearMarker(t, from, to) ==
    /\ Transition(t, from, to)
    /\ marker' = None
    /\ UNCHANGED <<storeVars, count, inflight, run, flagVars, procVars, viewVars>>

ClearAfterCommit(t) == ClearMarker(t, "clear", "unwind")
ClearInFinally(t) == ClearMarker(t, "unwind", "reset")

\* Mutants: the counter is cleared whatever happened; the slot is not given back.
LeaveForgetting(t) ==
    /\ Transition(t, "reset", "idle")
    /\ count' = 0
    /\ kills' = IF t \in crashEntry \cap serviceError THEN kills ELSE 0
    /\ inflight' = inflight \ {t}
    /\ run' = [run EXCEPT ![t] = FreshRun]
    /\ crashEntry' = crashEntry \ {t}
    /\ serviceError' = serviceError \ {t}
    /\ UNCHANGED <<storeVars, marker, pid, deaths, viewVars>>
LeaveHolding(t) ==
    /\ Transition(t, "reset", "idle")
    /\ count' = 0
    /\ kills' = 0
    /\ run' = [run EXCEPT ![t] = FreshRun]
    /\ crashEntry' = crashEntry \ {t}
    /\ serviceError' = serviceError \ {t}
    /\ UNCHANGED <<storeVars, marker, inflight, pid, deaths, viewVars>>

\* The counter is cleared unless the run was a retry after a crash that ended
\* in a service error; then the in-flight slot is given back.
Leave(t) ==
    /\ Transition(t, "reset", "idle")
    /\ LET kept == t \in crashEntry \cap serviceError
       IN /\ count' = IF kept THEN count ELSE 0
          /\ kills' = IF kept THEN kills ELSE 0
    /\ inflight' = inflight \ {t}
    /\ run' = [run EXCEPT ![t] = FreshRun]
    /\ crashEntry' = crashEntry \ {t}
    /\ serviceError' = serviceError \ {t}
    /\ UNCHANGED <<storeVars, marker, pid, deaths, viewVars>>

Process(t) ==
    \/ Enter(t) \/ CheckMarker(t) \/ EnterFails(t) \/ OpenMarker(t) \/ StampMarker(t)
    \/ GateParks(t) \/ GatesPass(t) \/ Assemble(t) \/ SaveDraft(t) \/ LintDraft(t)
    \/ ServiceFails(t) \/ OtherError(t)
    \/ Persist(t) \/ PersistFails(t)
    \/ ClearAfterCommit(t) \/ ClearInFinally(t) \/ Leave(t)

-----------------------------------------------------------------------------
(***************************************************************************)
(* Processes: a hard death, and a start under any free PID.                *)
(***************************************************************************)

\* A run has looked for a marker and has not returned.
Underway(t) == pc[t] \notin {"idle", "check"}

\* The threads of p are gone, with the slot they held in its memory.
Die(p) ==
    /\ Alive(p)
    /\ deaths < MaxDeaths
    /\ deaths' = deaths + 1
    /\ kills' = kills + (IF marker = None THEN 0
                         ELSE Cardinality({t \in Threads : ProcOf[t] = p /\ Underway(t)}))
    /\ pid' = [pid EXCEPT ![p] = None]
    /\ pc' = [t \in Threads |-> IF ProcOf[t] = p THEN "idle" ELSE pc[t]]
    /\ run' = [t \in Threads |-> IF ProcOf[t] = p THEN FreshRun ELSE run[t]]
    /\ inflight' = {t \in inflight : ProcOf[t] # p}
    /\ crashEntry' = {t \in crashEntry : ProcOf[t] # p}
    /\ serviceError' = {t \in serviceError : ProcOf[t] # p}
    /\ view' = IF p = Viewer THEN NoView ELSE view
    /\ steady' = IF p = Viewer THEN {} ELSE steady
    /\ UNCHANGED <<storeVars, marker, count, report>>

Start(p) ==
    /\ ~Alive(p)
    /\ \E i \in Pids : ~PidAlive(i) /\ pid' = [pid EXCEPT ![p] = i]
    /\ UNCHANGED <<storeVars, marker, count, inflight, pc, run, flagVars, deaths, kills, viewVars>>

-----------------------------------------------------------------------------
(***************************************************************************)
(* Pipeline.reconcile / reconcile_one, on this job                         *)
(***************************************************************************)

\* The pass lives in the viewer, and each of its reads is a step: the marker may be
\* cleared, or stamped by another run, between any two.
Viewing(at) == view.at = at /\ Alive(Viewer)

\* list_all / get_job: the state the pass will judge by; nothing is on its list yet.
Snapshot ==
    /\ Viewing("idle")
    /\ view' = [NoView EXCEPT !.at = "marker", !.state = row.state]
    /\ report' = "nothing"
    /\ steady' = {t \in Threads : pc[t] \in AtWork}
    /\ UNCHANGED <<storeVars, marker, count, inflight, pc, run, flagVars, procVars>>

\* A read that the pass goes on from, or ends with.
Reads(next) ==
    /\ view' = next
    /\ steady' = IF next = NoView THEN {} ELSE steady
    /\ UNCHANGED <<storeVars, marker, count, inflight, pc, run, flagVars, procVars>>

\* The job is not on the list, or not yet.
ReadsOn(next) == Reads(next) /\ UNCHANGED report

\* What a marker without a living owner means, by the state that was read before it.
Judge ==
    \/ /\ view.state \in ReconcilableStates
       /\ ReadsOn([view EXCEPT !.at = "count"])
    \/ /\ view.state \in MarkerOnlyClearStates
       /\ ReadsOn([view EXCEPT !.at = "clear"])
    \/ /\ view.state \notin ReconcilableStates \cup MarkerOnlyClearStates
       /\ ReadsOn(NoView)

\* is_processing.
LookMarker ==
    /\ Viewing("marker")
    /\ IF marker = None THEN ReadsOn(NoView) ELSE ReadsOn([view EXCEPT !.at = "owner"])

\* Mutant: the owner of the marker is not asked for.
OwnerUnasked ==
    /\ Viewing("owner")
    /\ Judge

\* processing_owner_pid: a marker that is blank, or gone by now, has no owner.
LookOwner ==
    /\ Viewing("owner")
    /\ IF marker \in Pids
       THEN ReadsOn([view EXCEPT !.at = "probe", !.owner = marker])
       ELSE Judge

\* _pid_alive: the PID that was read, whoever has it now.
LookAlive ==
    /\ Viewing("probe")
    /\ IF PidAlive(view.owner) THEN ReadsOn(NoView) ELSE Judge

\* Mutant: a look at the worklist counts as an interruption.
LookCounting ==
    /\ Viewing("count")
    /\ count' = count + 1
    /\ report' = IF count > MaxAttempts THEN "exhausted" ELSE "interrupted"
    /\ view' = NoView
    /\ steady' = {}
    /\ UNCHANGED <<storeVars, marker, inflight, pc, run, flagVars, procVars>>

\* read_interrupt_count, and the job is on the list.
LookCount ==
    /\ Viewing("count")
    /\ Reads(NoView)
    /\ report' = IF count > MaxAttempts THEN "exhausted" ELSE "interrupted"

ClearStale ==
    /\ Viewing("clear")
    /\ marker' = None
    /\ view' = NoView
    /\ steady' = {}
    /\ UNCHANGED <<storeVars, count, inflight, pc, run, flagVars, procVars, report>>

Reconcile == Snapshot \/ LookMarker \/ LookOwner \/ LookAlive \/ LookCount \/ ClearStale

-----------------------------------------------------------------------------
Stage2Init ==
    /\ marker = None
    /\ count = 0
    /\ pid \in {f \in [Procs -> Pids] : \A p, q \in Procs : f[p] = f[q] => p = q}
    /\ inflight = {}
    /\ pc = [t \in Threads |-> "idle"]
    /\ run = [t \in Threads |-> FreshRun]
    /\ crashEntry = {}
    /\ serviceError = {}
    /\ view = NoView
    /\ report = "nothing"
    /\ steady = {}
    /\ deaths = 0
    /\ kills = 0

\* A job that Stage 1 has just left behind.
Crawled ==
    /\ row \in [state : {"crawled", "crawled_warn"}, reason : {NoReason}]
    /\ draft = None
    /\ cover = None
    /\ audit = {}

Stage2Next ==
    \/ \E t \in Threads : Process(t)
    \/ \E p \in Procs : Die(p) \/ Start(p)
    \/ Reconcile

\* A thread that is in process() goes on; nobody has to call it, to start a
\* process again or to look at the worklist.
Stage2Fairness == \A t \in Threads : WF_vars(pc[t] # "idle" /\ Process(t))

\* supersede, which SignOff models in full, of a job that Stage 2 has parked: it
\* takes no slot, so that a run on the job may be underway.
SupersededMeanwhile ==
    /\ row.state \in {"blocked", "duplicate", "needs_revision", "needs_human_review"}
    /\ SetState("superseded")
    /\ UNCHANGED <<draft, cover, audit, runVars>>

Init == Crawled /\ Stage2Init
Next == Stage2Next \/ SupersededMeanwhile
Spec == Init /\ [][Next]_vars
FairSpec == Spec /\ Stage2Fairness

-----------------------------------------------------------------------------
(***************************************************************************)
(* Properties                                                              *)
(***************************************************************************)

\* Exclusive: every run goes through the in-flight slot of one server.
Exclusive == Guarded = Threads

\* A state a gate put the job in is explained by an event that was in the log
\* before it, whatever died in between: the gates audit, then persist.
Evidence ==
    {<<"blocked", NoReason, "RISK_GATE", "blocked">>,
     <<"needs_human_review", "risk", "RISK_GATE", "needs_human_review">>,
     <<"duplicate", NoReason, "DEDUP_GATE", "duplicate">>,
     <<"needs_human_review", "dedup", "DEDUP_GATE", "needs_human_review">>,
     <<"needs_human_review", "grounding", "GROUNDING_GATE", "needs_human_review">>,
     <<"needs_human_review", "classification", "LINT_GATE", "needs_human_review">>,
     <<"processed", NoReason, "LINT_GATE", "pass">>}

ParkedHasEvidence ==
    \A e \in Evidence :
        row = [state |-> e[1], reason |-> e[2]] => <<e[3], e[4]>> \in audit

\* A job that Stage 2 calls processed has a stored draft, and it is one the
\* lint and grounding gates passed - not the draft of some other run.
ProcessedDraftIsClean ==
    row.state = "processed" => draft # None /\ Lint[draft] = "clean"

\* The loop guard counts once every hard death, and every failure at entry, that left
\* a marker behind and nothing else: what is not yet counted is what the marker still
\* says. And a job reported as exhausted has failed so more often than the guard allows,
\* also when it is looked at between the count of a retry and its own marker: looking
\* at the worklist, a service error or a healthy run never pushes it there.
CountIsExact ==
    /\ row.state \in ReconcilableStates =>
         kills = count + (IF marker # None /\ ~\E t \in Threads : Underway(t)
                          THEN 1 ELSE 0)
    /\ report = "exhausted" => deaths > MaxAttempts

\* The draft is written only while the row can still be processed, or was given
\* up under the run: once the job is processed, or is held for a human or past
\* that, the stored draft is the one that was judged.
DraftFrozen ==
    [][draft' # draft => row.state \in ReconcilableStates \cup {"superseded"}]_vars

\* The worklist leaves the living alone, although it reads the state, the marker, its
\* owner and whether that one lives at different times. A run that had written its PID
\* when the pass read the job is not called interrupted while it is still at work,
\* whoever else has died, and whoever has their PIDs now. (A run that begins during the
\* pass may be: its marker is blank for a moment, or the owner that was read is the one
\* before it; and so may one that has ended and cleared its marker after it was seen.)
\* And no marker of a run that is alive is removed, but for a job that was superseded
\* while it ran.
SparesTheLiving ==
    [][/\ LookCount => \A t \in steady : pc[t] \notin AtWork
       /\ ClearStale => \A t \in Threads :
             Underway(t) /\ pid[ProcOf[t]] = marker => row.state = "superseded"]_vars

\* A run that fails without a result keeps its marker, for the worklist to see.
FailureKeepsMarker ==
    [][\A t \in Threads : Leave(t) /\ run[t].target = None => marker # None]_vars

\* Every run ends, and gives the slot back, whatever fails in it.
RunsEnd == \A t \in Threads : pc[t] # "idle" ~> pc[t] = "idle" /\ t \notin inflight
=============================================================================
