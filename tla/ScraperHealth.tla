--------------------------- MODULE ScraperHealth ---------------------------
(***************************************************************************)
(* The health log of gossip_scraper: a run adds a line for each platform   *)
(* it has asked, rewrites the file when it is too long, and says ERROR     *)
(* when a platform has failed too often. Runs of several processes write   *)
(* the one file, which no lock protects, and may die between two steps.    *)
(* The lines a rewrite leaves behind, when another has put longer ones     *)
(* there, are at most part of a line, which every reader skips.            *)
(***************************************************************************)
EXTENDS Integers, FiniteSets, SequencesExt

CONSTANTS
    Writers,     \* the runs that may be recording at once
    Scrapers,    \* the platforms
    Nobody,      \* no platform
    Window,      \* _WINDOW_SECONDS, in ticks; none when a tick is longer
    MinSamples,  \* _MIN_SAMPLES
    MaxRecords,  \* _MAX_RECORDS
    MaxFetches, MaxKills, MaxClock   \* bounds: records, deaths, ticks

\* _MIN_SAMPLES and _MAX_RECORDS are positive; there are finitely many runs.
ASSUME HealthAssumption ==
    /\ Window \in Nat /\ {MinSamples, MaxRecords} \subseteq Nat \ {0}
    /\ IsFiniteSet(Writers)

VARIABLES
    clock,
    health,     \* the lines of health.jsonl
    at,         \* where in record each writer is
    line,       \* the line it adds
    kept,       \* the lines it will put back
    alarm,      \* who says ERROR, as long as nothing else happens
    outcomes,   \* history: every record, in the order it was appended
    kills

healthVars == <<clock, health, at, line, kept, alarm, outcomes, kills>>

Lines == [platform : Scrapers, ok : BOOLEAN, at : Nat]

HealthTypeOK ==
    /\ at \in [Writers -> {"idle", "append", "measure", "trim", "refill", "rate"}]
    /\ Len(health) <= MaxRecords + Cardinality(Writers) + kills
    /\ \A i \in DOMAIN health : health[i].platform \in Scrapers /\ health[i].at <= clock
    /\ alarm \subseteq Writers
    /\ \A w \in Writers : /\ at[w] # "idle" => line[w] \in Lines
                          /\ at[w] \in {"trim", "refill"} => Len(kept[w]) = MaxRecords

\* The records of the platform of a line that _rolling_rate counts: those of the window
\* that ends with the line.
Recent(lines, l) ==
    {i \in DOMAIN lines : /\ lines[i].platform = l.platform
                          /\ lines[i].at <= l.at /\ l.at - lines[i].at <= Window}

\* Mutant: a single record is enough.
DegradedAtOnce(lines, l) ==
    LET asked == Recent(lines, l)
        ok == {i \in asked : lines[i].ok}
    IN  asked # {} /\ 5 * Cardinality(ok) < 3 * Cardinality(asked)

\* Enough samples, and a rate below _THRESHOLD, three in five.
Degraded(lines, l) ==
    LET asked == Recent(lines, l)
        ok == {i \in asked : lines[i].ok}
    IN  Cardinality(asked) >= MinSamples /\ 5 * Cardinality(ok) < 3 * Cardinality(asked)

\* Mutant: one line too many is kept.
NewestAndOne(lines) == SubSeq(lines, Len(lines) - MaxRecords, Len(lines))

\* What _truncate keeps.
Newest(lines) == SubSeq(lines, Len(lines) - MaxRecords + 1, Len(lines))

Go(w, from, to) ==
    /\ at[w] = from
    /\ at' = [at EXCEPT ![w] = to]

Forget(w) ==
    /\ line' = [line EXCEPT ![w] = Nobody]
    /\ kept' = [kept EXCEPT ![w] = <<>>]

\* record takes the time of the line,
Record(w, p) ==
    /\ Go(w, "idle", "append")
    /\ Len(outcomes) < MaxFetches
    /\ \E ok \in BOOLEAN :
          line' = [line EXCEPT ![w] = [platform |-> p, ok |-> ok, at |-> clock]]
    /\ alarm' = {}
    /\ UNCHANGED <<clock, health, kept, outcomes, kills>>

\* _append adds it,
AddLine(w) ==
    /\ Go(w, "append", "measure")
    /\ health' = Append(health, line[w])
    /\ outcomes' = Append(outcomes, line[w])
    /\ alarm' = {}
    /\ UNCHANGED <<clock, line, kept, kills>>

\* and _truncate reads the file to see whether it is too long.
Measure(w) ==
    /\ \/ /\ Len(health) <= MaxRecords
          /\ Go(w, "measure", "rate")
          /\ UNCHANGED kept
       \/ /\ Len(health) > MaxRecords
          /\ Go(w, "measure", "trim")
          /\ kept' = [kept EXCEPT ![w] = Newest(health)]
    /\ alarm' = {}
    /\ UNCHANGED <<clock, health, line, outcomes, kills>>

\* If so it opens the file for writing, which empties it,
Trim(w) ==
    /\ Go(w, "trim", "refill")
    /\ health' = <<>>
    /\ alarm' = {}
    /\ UNCHANGED <<clock, line, kept, outcomes, kills>>

\* and puts the last lines back: what another has added in between is overwritten.
Refill(w) ==
    /\ Go(w, "refill", "rate")
    /\ health' = kept[w]
    /\ alarm' = {}
    /\ UNCHANGED <<clock, line, kept, outcomes, kills>>

\* The rate is that of the file as it is read once more.
Rate(w) ==
    /\ Go(w, "rate", "idle")
    /\ alarm' = IF Degraded(health, line[w]) THEN {w} ELSE {}
    /\ Forget(w)
    /\ UNCHANGED <<clock, health, outcomes, kills>>

Kill(w) ==
    /\ at[w] # "idle"
    /\ kills < MaxKills
    /\ kills' = kills + 1
    /\ at' = [at EXCEPT ![w] = "idle"]
    /\ Forget(w)
    /\ alarm' = {}
    /\ UNCHANGED <<clock, health, outcomes>>

ClockTick ==
    /\ clock < MaxClock
    /\ clock' = clock + 1
    /\ alarm' = {}
    /\ UNCHANGED <<health, at, line, kept, outcomes, kills>>

HealthInit ==
    /\ clock = 0
    /\ health = <<>> /\ outcomes = <<>> /\ alarm = {}
    /\ at = [w \in Writers |-> "idle"]
    /\ line = [w \in Writers |-> Nobody]
    /\ kept = [w \in Writers |-> <<>>]
    /\ kills = 0

HealthNext ==
    \/ \E w \in Writers :
          \/ \E p \in Scrapers : Record(w, p)
          \/ AddLine(w) \/ Measure(w) \/ Trim(w) \/ Refill(w) \/ Rate(w) \/ Kill(w)
    \/ ClockTick

HealthSpec == HealthInit /\ [][HealthNext]_healthVars

-----------------------------------------------------------------------------
(***************************************************************************)
(* Properties                                                              *)
(***************************************************************************)
\* Every ERROR line is deserved: within the window of the record that says it the
\* platform was asked MinSamples times or more, and failed more than two in five of them
\* at the least, in truth and not only in what truncation, deaths and other runs have left
\* of the log. The code: record, _truncate and _rolling_rate.
AlarmIsDeserved ==
    [][\A w \in alarm' :
          LET asked == Recent(outcomes, line[w]) IN
          /\ Cardinality(asked) >= MinSamples
          /\ 5 * Cardinality({i \in asked : ~outcomes[i].ok}) > 2 * MinSamples]_healthVars

=============================================================================
