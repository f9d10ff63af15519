------------------------------ MODULE GuiJobs ------------------------------
(***************************************************************************)
(* The GUI server's bookkeeping of the long tasks on one job: the shared   *)
(* in-flight set, which its synchronous routes (webserver._Handler) and    *)
(* its background tasks (Api._run_bg) take before a Stage-1 or Stage-2     *)
(* pass, and the status that the page polls (Api.job_status).              *)
(*                                                                         *)
(* A call is a request handler's thread. A background call starts a worker *)
(* and answers; a worker that is done leaves a timer that will drop the    *)
(* status, whosever it is by then. The set and the status have a lock      *)
(* each: a step is what is done under one of them.                         *)
(***************************************************************************)
EXTENDS Naturals

CONSTANTS
    Calls,       \* handlers that may be busy with the job at once
    Background,  \* those of a *_async route; the others run in the handler
    NoCall

ASSUME GuiAssumption ==
    /\ Background \subseteq Calls
    /\ NoCall \notin Calls

VARIABLES
    slot,     \* job_id is in Api.inflight
    status,   \* Api._status of the job, and the call that has written it
    call,     \* where in _run_bg a handler is
    worker,   \* what the thread that runs the pass for a call does
    timers,   \* the calls whose _cleanup thread sleeps
    answer    \* what the handler last answered

vars == <<slot, status, call, worker, timers, answer>>

Status == [is : {"absent", "running", "done", "error"}, of : Calls \cup {NoCall}]
NoStatus == [is |-> "absent", of |-> NoCall]

GuiTypeOK ==
    /\ slot \in BOOLEAN
    /\ status \in Status
    /\ call \in [Calls -> {"idle", "announce", "launch", "reply"}]
    /\ worker \in [Calls -> {"none", "pass", "sync", "release", "failing", "publish", "report"}]
    /\ timers \subseteq Calls
    /\ answer \in [Calls -> {"nothing", "running", "done", "error", "broken"}]

\* A bound: a handler comes back when its last timer is gone.
Free(c) == call[c] = "idle" /\ worker[c] = "none" /\ c \notin timers
CallGoes(c, from, to) == call[c] = from /\ call' = [call EXCEPT ![c] = to]
WorkerGoes(c, from, to) == worker[c] = from /\ worker' = [worker EXCEPT ![c] = to]

\* Mutant: the slot is not asked for.
TakeAnyway(c) ==
    /\ c \in Background
    /\ Free(c)
    /\ slot' = TRUE
    /\ CallGoes(c, "idle", "announce")
    /\ UNCHANGED <<status, worker, timers, answer>>

\* _run_bg takes the slot, or answers with the status that is there: the task
\* that has the slot may not have written its own yet.
Take(c) ==
    /\ c \in Background
    /\ Free(c)
    /\ ~slot
    /\ slot' = TRUE
    /\ CallGoes(c, "idle", "announce")
    /\ UNCHANGED <<status, worker, timers, answer>>

\* Mutant: no answer is made up when there is no status yet.
RefuseBare(c) ==
    /\ Free(c)
    /\ slot
    /\ answer' = [answer EXCEPT ![c] = IF c \in Background THEN status.is ELSE "running"]
    /\ UNCHANGED <<slot, status, call, worker, timers>>

Refuse(c) ==
    /\ Free(c)
    /\ slot
    /\ answer' = [answer EXCEPT ![c] =
           IF c \in Background /\ status.is # "absent" THEN status.is ELSE "running"]
    /\ UNCHANGED <<slot, status, call, worker, timers>>

Announce(c) ==
    /\ CallGoes(c, "announce", "launch")
    /\ status' = [is |-> "running", of |-> c]
    /\ UNCHANGED <<slot, worker, timers, answer>>

Launch(c) ==
    /\ CallGoes(c, "launch", "reply")
    /\ WorkerGoes(c, "none", "pass")
    /\ UNCHANGED <<slot, status, timers, answer>>

\* The answer is read from the status as it is now; when it is gone that is a
\* KeyError.
Reply(c) ==
    /\ CallGoes(c, "reply", "idle")
    /\ answer' = [answer EXCEPT ![c] =
           IF status.is = "absent" THEN "broken" ELSE status.is]
    /\ UNCHANGED <<slot, status, worker, timers>>

-----------------------------------------------------------------------------
\* Mutant: an exception that is not an LcpError ends the worker.
PassDies(c) ==
    /\ WorkerGoes(c, "pass", "none")
    /\ UNCHANGED <<slot, status, call, timers, answer>>

\* The pass ends, well or with an error dict; an exception becomes one.
PassEnds(c) ==
    /\ WorkerGoes(c, "pass", "release") \/ WorkerGoes(c, "pass", "failing")
    /\ UNCHANGED <<slot, status, call, timers, answer>>

\* Mutant: the slot stays taken.
ReleaseNothing(c) ==
    /\ WorkerGoes(c, "release", "publish") \/ WorkerGoes(c, "failing", "report")
    /\ UNCHANGED <<slot, status, call, timers, answer>>

\* The slot is given back first, and then the result is published.
Release(c) ==
    /\ WorkerGoes(c, "release", "publish") \/ WorkerGoes(c, "failing", "report")
    /\ slot' = FALSE
    /\ UNCHANGED <<status, call, timers, answer>>

Publish(c) ==
    /\ \/ /\ WorkerGoes(c, "publish", "none")
          /\ status' = [is |-> "done", of |-> c]
       \/ /\ WorkerGoes(c, "report", "none")
          /\ status' = [is |-> "error", of |-> c]
    /\ timers' = timers \cup {c}
    /\ UNCHANGED <<slot, call, answer>>

\* _cleanup, when its five minutes are over: a status that is not running is
\* dropped. They are longer than it takes the handler to answer.
Cleanup(c) ==
    /\ c \in timers
    /\ call[c] = "idle"
    /\ timers' = timers \ {c}
    /\ status' = IF status.is \in {"done", "error"} THEN NoStatus ELSE status
    /\ UNCHANGED <<slot, call, worker, answer>>

-----------------------------------------------------------------------------
\* A synchronous route runs the pass in its handler and holds the slot for it.
SyncTakes(c) ==
    /\ c \notin Background
    /\ Free(c)
    /\ ~slot
    /\ slot' = TRUE
    /\ WorkerGoes(c, "none", "sync")
    /\ UNCHANGED <<status, call, timers, answer>>

SyncEnds(c) ==
    /\ WorkerGoes(c, "sync", "none")
    /\ slot' = FALSE
    /\ UNCHANGED <<status, call, timers, answer>>

Handle(c) == Announce(c) \/ Launch(c) \/ Reply(c)
Work(c) == PassEnds(c) \/ Release(c) \/ Publish(c) \/ SyncEnds(c)

Init ==
    /\ slot = FALSE
    /\ status = NoStatus
    /\ call = [c \in Calls |-> "idle"]
    /\ worker = [c \in Calls |-> "none"]
    /\ timers = {}
    /\ answer = [c \in Calls |-> "nothing"]

Next ==
    \E c \in Calls :
        Take(c) \/ Refuse(c) \/ SyncTakes(c) \/ Handle(c) \/ Work(c) \/ Cleanup(c)

\* A handler and a worker that are at it go on - the passes they run end, and
\* so do the sleeps of the timers. Nobody has to call.
Fairness ==
    \A c \in Calls : WF_vars(Handle(c)) /\ WF_vars(Work(c)) /\ WF_vars(Cleanup(c))

Spec == Init /\ [][Next]_vars /\ Fairness

-----------------------------------------------------------------------------
(***************************************************************************)
(* Properties                                                              *)
(***************************************************************************)

\* The calls whose hold on the slot has begun and has not ended.
Holds(c) == call[c] \in {"announce", "launch"} \/ worker[c] \in {"pass", "sync", "release", "failing"}

\* Within the server one pass at a time runs on the job, whether its route is
\* synchronous or not, and the slot is taken as long as it runs.
OnePass ==
    /\ \A c, d \in Calls : Holds(c) /\ Holds(d) => c = d
    /\ slot = \E c \in Calls : Holds(c)

\* The slot does not stay taken, whatever the pass does.
SlotIsFreed == slot ~> ~slot

\* A page that polls a task sees its end, or its status is gone: the status of
\* no call stays at running.
PollEnds == \A c \in Calls :
    status = [is |-> "running", of |-> c] ~> status # [is |-> "running", of |-> c]

=============================================================================
