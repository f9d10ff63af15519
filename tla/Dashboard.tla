----------------------------- MODULE Dashboard -----------------------------
(***************************************************************************)
(* What the dashboard makes of audit.jsonl (storage/audit_aggregate.py):   *)
(* how many jobs reached each gate and were stopped there, and the time    *)
(* between two gates. The appends of AuditLog are those of Stage-2 runs,   *)
(* which say one event per gate in the order of PARK_GATES and of          *)
(* run_draft_lint_gate, and of resolve --relint, which says a lint alone.  *)
(*                                                                         *)
(* Every event of one call carries the ts the shell minted for it.         *)
(***************************************************************************)
EXTENDS AuditLog

CONSTANTS
    Jobs,
    MaxCalls     \* bound: how many calls of process and resolve

Gates == {"RISK_GATE", "MEDIA_GATE", "DEDUP_GATE", "GROUNDING_GATE", "LINT_GATE"}

\* The order a run goes through the gates in.
Following ==
    [RISK_GATE |-> "MEDIA_GATE", MEDIA_GATE |-> "DEDUP_GATE",
     DEDUP_GATE |-> "GROUNDING_GATE", GROUNDING_GATE |-> "LINT_GATE",
     LINT_GATE |-> "closed"]

\* What a gate's event says: pass; hold, with a review_reason; or stop, without.
Statuses ==
    [RISK_GATE |-> {"pass", "stop", "hold"}, MEDIA_GATE |-> {"pass", "stop"},
     DEDUP_GATE |-> {"pass", "stop", "hold"}, GROUNDING_GATE |-> {"pass", "hold"},
     LINT_GATE |-> {"pass", "stop", "hold"}]

GateEvents ==
    [job : Jobs, ts : 1..MaxCalls, gate : Gates, status : {"pass", "stop", "hold"}]

ASSUME DashboardAssumption ==
    /\ Events = GateEvents
    /\ MaxCalls \in Nat

VARIABLES
    row,      \* the job may be run ("open"), is held by its grounding ("held"), or neither
    call,     \* the call each writer is in
    clock,    \* the last ts minted
    shared    \* history: jobs two calls have been in at once

callVars == <<row, call, clock, shared>>
dashVars == <<vars, callVars>>

Calls ==
    [job : Jobs \cup {Nobody}, ts : 0..MaxCalls,
     at : Gates \cup {"none", "open", "held", "closed"}, relint : BOOLEAN]
NoCall == [job |-> Nobody, ts |-> 0, at |-> "none", relint |-> FALSE]

CallsOK ==
    /\ row \in [Jobs -> {"open", "held", "closed"}]
    /\ call \in [Writers -> Calls]
    /\ \A w \in Writers : call[w] # NoCall => call[w].job \in Jobs /\ call[w].ts > 0
    /\ \A w \in Writers : pc[w] \in {"read", "write"} => call[w].at \in Gates
    /\ clock \in 0..MaxCalls
    /\ shared \subseteq Jobs

DashTypeOK == AuditTypeOK /\ CallsOK

-----------------------------------------------------------------------------
\* A call of process or of resolve starts with a ts of its own.
Enters(w, j, gate, relint) ==
    /\ pc[w] = "idle" /\ call[w] = NoCall
    /\ clock < MaxCalls
    /\ clock' = clock + 1
    /\ call' = [call EXCEPT ![w] = [job |-> j, ts |-> clock + 1, at |-> gate, relint |-> relint]]
    /\ shared' = IF \E v \in Writers : call[v].job = j THEN shared \cup {j} ELSE shared
    /\ UNCHANGED <<vars, row>>

Process(w) == \E j \in Jobs : row[j] = "open" /\ Enters(w, j, "RISK_GATE", FALSE)

\* Mutant: any hold is taken for one of grounding.
RelintAny(w) == \E j \in Jobs : row[j] # "open" /\ Enters(w, j, "LINT_GATE", TRUE)

Relint(w) == \E j \in Jobs : row[j] = "held" /\ Enters(w, j, "LINT_GATE", TRUE)

\* A human overrules the hold, which no gate speaks of.
Overrule(j) ==
    /\ row[j] = "held"
    /\ row' = [row EXCEPT ![j] = "closed"]
    /\ UNCHANGED <<vars, call, clock, shared>>

\* What the call can say at the gate it is at. A relint never holds.
Due(w) ==
    {[job |-> call[w].job, ts |-> call[w].ts, gate |-> call[w].at, status |-> s] :
       s \in IF call[w].relint THEN {"pass", "stop"}
             ELSE UNION {Statuses[g] : g \in Gates \cap {call[w].at}}}

\* Where the call goes from there: the next gate, or the row it is to write.
Then(c, status) ==
    CASE status = "pass" -> Following[c.at]
      [] status = "hold" /\ c.at = "GROUNDING_GATE" -> "held"
      [] status = "stop" /\ c.relint -> "held"
      [] status = "stop" /\ ~c.relint /\ c.at \in {"MEDIA_GATE", "LINT_GATE"} -> "open"
      [] OTHER -> "closed"

\* Each gate says what it found before the row is written and before the next one.
Say(w) == \E e \in Due(w) :
    /\ Write(w, e)
    /\ call' = [call EXCEPT ![w].at = Then(call[w], e.status)]
    /\ UNCHANGED <<row, clock, shared>>

Ends(w) == call' = [call EXCEPT ![w] = NoCall]

\* An append that fails raises through the gate and the call.
SayFails(w) ==
    /\ (ReadTail(w) /\ pc'[w] = "unlock") \/ \E e \in Due(w) : WriteShort(w, e)
    /\ Ends(w)
    /\ UNCHANGED <<row, clock, shared>>

\* The rest of an append.
Appends(w) ==
    /\ \/ call[w].at \in Gates /\ Lock(w)
       \/ ReadTail(w) /\ pc'[w] = "write"
       \/ Unlock(w) \/ Close(w)
    /\ UNCHANGED callVars

\* The verdict is said; now the row. A run writes over an open one, a relint over
\* the held one; over any other the store refuses and the call raises.
Persist(w) ==
    /\ pc[w] = "idle" /\ call[w].at \in {"open", "held", "closed"}
    /\ row' = IF row[call[w].job] = (IF call[w].relint THEN "held" ELSE "open")
              THEN [row EXCEPT ![call[w].job] = call[w].at] ELSE row
    /\ Ends(w)
    /\ UNCHANGED <<vars, clock, shared>>

\* Between two gates: the draft is truncated, the service fails, the process dies.
Stops(w) ==
    /\ pc[w] = "idle" /\ call[w] # NoCall
    /\ Ends(w)
    /\ UNCHANGED <<vars, row, clock, shared>>

\* The process dies in an append.
Dies(w) == Die(w) /\ Ends(w) /\ UNCHANGED <<row, clock, shared>>

DashInit ==
    /\ Init
    /\ row = [j \in Jobs |-> "open"]
    /\ call = [w \in Writers |-> NoCall]
    /\ clock = 0
    /\ shared = {}

DashNext ==
    \/ \E j \in Jobs : Overrule(j)
    \/ \E w \in Writers :
          \/ Process(w) \/ Relint(w) \/ Appends(w) \/ Say(w) \/ SayFails(w)
          \/ Persist(w) \/ Stops(w) \/ Dies(w)

DashSpec == DashInit /\ [][DashNext]_dashVars

-----------------------------------------------------------------------------
(***************************************************************************)
(* aggregate_audit                                                         *)
(***************************************************************************)

\* iter_events: what decodes.
Read == {lines[i] : i \in {n \in 1..Len(lines) : lines[n] # Torn}}

Passed(e) == e.status = "pass"

\* The jobs that reached a gate, and those that were stopped there at least once.
Reached(gate) == {r.event.job : r \in {x \in Read : x.event.gate = gate}}
Intercepted(gate) ==
    {r.event.job : r \in {x \in Read : x.event.gate = gate /\ ~Passed(x.event)}}

\* _GATE_ORDER.
GateOrder ==
    [RISK_GATE |-> 0, DEDUP_GATE |-> 1, MEDIA_GATE |-> 2, GROUNDING_GATE |-> 3,
     LINT_GATE |-> 4]

\* The pairs of neighbours among the events of a job, sorted by their seq.
Neighbours(j) ==
    LET own == {r \in Read : r.event.job = j}
    IN {<<p[1].event, p[2].event>> :
          p \in {q \in own \X own :
                   /\ q[1].seq < q[2].seq
                   /\ ~ \E r \in own : q[1].seq < r.seq /\ r.seq < q[2].seq}}

\* Mutant: every pair of neighbours is a gap.
GapsOfAll(j) == Neighbours(j)

\* The gaps: the pairs that go forward.
Gaps(j) == {g \in Neighbours(j) : GateOrder[g[2].gate] > GateOrder[g[1].gate]}

-----------------------------------------------------------------------------
(***************************************************************************)
(* Properties                                                              *)
(***************************************************************************)

\* The denominators are honest (audit_aggregate.py:8): a job counted at a gate is
\* counted at every gate before it, whatever died, was run again at once or was
\* resolved, unless a close has written late; and a job that its grounding holds is
\* counted as stopped there, unless a write stopped short.
FunnelIsTrue ==
    /\ ~late => \A g \in Gates \ {"LINT_GATE"} : Reached(Following[g]) \subseteq Reached(g)
    /\ tears = 0 =>
          \A j \in Jobs : row[j] = "held" => j \in Intercepted("GROUNDING_GATE")

\* No gap is the wait between two runs (audit_aggregate.py:51): the only one that
\* takes time is the wait for a resolve, unless two calls were in the job at once or a
\* close has written late.
GapsAreOfOneRun ==
    ~late => \A j \in Jobs \ shared : \A g \in Gaps(j) :
        g[1].ts # g[2].ts => g[1].gate = "GROUNDING_GATE" /\ ~Passed(g[1])
=============================================================================
