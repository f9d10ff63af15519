------------------------------ MODULE LlmClient ------------------------------
(***************************************************************************)
(* LlmClient.chat and its cool-down: a client counts the requests that     *)
(* fail in a row, and from the Threshold-th on lets Seconds pass before it *)
(* tries again. Time is a variable, since a request takes as long as it    *)
(* takes and others may happen while it is under way.                      *)
(*                                                                         *)
(* There is one client: a Pipeline builds its own and calls it in sequence.*)
(* Dry runs and a temperature out of range return before anything is read. *)
(***************************************************************************)
EXTENDS Integers, Sequences

CONSTANTS
    Threshold,  \* COOLDOWN_FAILURE_THRESHOLD
    Seconds,    \* COOLDOWN_SECONDS, in ticks of the clock
    None,       \* the cool-down is not armed
    MaxTime     \* bound: when the clock stops

ASSUME ClientAssumption ==
    /\ Threshold \in Nat \ {0}
    /\ Seconds \in Nat
    /\ MaxTime \in Nat
    /\ None \notin Nat

VARIABLES
    pc,        \* where in chat the caller is
    built,     \* _client: the endpoint and the key were found to be in order
    failures,  \* _consecutive_failures
    until,     \* _cooldown_until
    now,       \* the monotonic clock
    result,    \* what the last call has come to, and when
    failed     \* history: when each request failed, since one was last answered

clientVars == <<built, failures, until>>
vars == <<pc, clientVars, now, result, failed>>

ClientTypeOK ==
    /\ pc \in {"idle", "ensure", "request"}
    /\ built \in BOOLEAN
    /\ failures \in Nat
    /\ until \in Nat \cup {None}
    /\ now \in Nat
    /\ result \in {"none", "skipped", "refused", "failed", "answered"} \X Nat
    /\ failed \in Seq(Nat)

Outcome(what) == <<what, now>>

-----------------------------------------------------------------------------
\* _raise_if_in_cooldown, inside the window: no request is made.
Skip ==
    /\ pc = "idle"
    /\ until # None /\ now < until
    /\ result' = Outcome("skipped")
    /\ UNCHANGED <<pc, clientVars, now, failed>>

\* Mutant: the streak is forgotten with the window.
PassForgiving ==
    /\ pc = "idle"
    /\ until # None => now >= until
    /\ pc' = "ensure"
    /\ until' = None
    /\ failures' = 0
    /\ UNCHANGED <<built, now, result, failed>>

\* _raise_if_in_cooldown: the window is over, and is cleared; the streak stays.
Pass ==
    /\ pc = "idle"
    /\ until # None => now >= until
    /\ pc' = "ensure"
    /\ until' = None
    /\ UNCHANGED <<built, failures, now, result, failed>>

\* _ensure_client: no base_url, no key, an address that is not allowed. It is
\* outside the try, and no failure of the provider.
Refused ==
    /\ pc = "ensure"
    /\ ~built
    /\ pc' = "idle"
    /\ result' = Outcome("refused")
    /\ UNCHANGED <<clientVars, now, failed>>

Ensure ==
    /\ pc = "ensure"
    /\ pc' = "request"
    /\ built' = TRUE
    /\ UNCHANGED <<failures, until, now, result, failed>>

\* The request times out or is refused by the provider: _record_failure.
Failed ==
    /\ pc = "request"
    /\ pc' = "idle"
    /\ failures' = failures + 1
    /\ until' = IF failures' >= Threshold THEN now + Seconds ELSE None
    /\ result' = Outcome("failed")
    /\ failed' = Append(failed, now)
    /\ UNCHANGED <<built, now>>

\* Mutants: the streak stays; there is none.
AnsweredNone ==
    /\ pc = "request"
    /\ pc' = "idle"
    /\ failures' = None
    /\ until' = None
    /\ result' = Outcome("answered")
    /\ failed' = <<>>
    /\ UNCHANGED <<built, now>>
AnsweredStill ==
    /\ pc = "request"
    /\ pc' = "idle"
    /\ until' = None
    /\ result' = Outcome("answered")
    /\ failed' = <<>>
    /\ UNCHANGED <<built, failures, now>>

\* An answer, whatever it is worth: _record_success.
Answered ==
    /\ pc = "request"
    /\ pc' = "idle"
    /\ failures' = 0
    /\ until' = None
    /\ result' = Outcome("answered")
    /\ failed' = <<>>
    /\ UNCHANGED <<built, now>>

Chat == Skip \/ Pass \/ Refused \/ Ensure \/ Failed \/ Answered

Tick ==
    /\ now < MaxTime
    /\ now' = now + 1
    /\ UNCHANGED <<pc, clientVars, result, failed>>

Init ==
    /\ pc = "idle"
    /\ built = FALSE
    /\ failures = 0
    /\ until = None
    /\ now = 0
    /\ result = <<"none", 0>>
    /\ failed = <<>>

Next == Chat \/ Tick
Spec == Init /\ [][Next]_vars

-----------------------------------------------------------------------------
(***************************************************************************)
(* Properties                                                              *)
(***************************************************************************)

\* A provider that is down is left alone: from the Threshold-th failure in a row
\* on, a request fails no sooner than Seconds after the one before, however the
\* calls come in and however long each of them takes.
SparesProvider ==
    \A i \in DOMAIN failed :
        Threshold <= i /\ i < Len(failed) => failed[i + 1] - failed[i] >= Seconds

\* A call is skipped only when the last Threshold requests or more have failed
\* with no answer in between, and the last of them less than Seconds ago: one
\* transient failure never trips it, and no window outlasts its time.
SkippedForCause ==
    [][result' # result /\ result'[1] = "skipped" =>
        /\ Len(failed) >= Threshold
        /\ now < failed[Len(failed)] + Seconds]_vars

=============================================================================
