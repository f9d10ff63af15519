------------------------------ MODULE Verdict ------------------------------
(***************************************************************************)
(* One run of Stage 2 as a decision: the gates of gate_registry and of     *)
(* Pipeline._process_inner in their order, each on the facts it learns, up *)
(* to the state the job rests at; and resolve --relint on a grounding hold.*)
(*                                                                         *)
(* A gate either parks the job or hands it on. Facts are drawn when a gate *)
(* first looks at them and stay what they are. How runs interleave, fail   *)
(* and die is Stage2's subject: here nothing raises.                       *)
(***************************************************************************)
EXTENDS Rules, Sequences, Functions

CONSTANTS
    Texts,       \* what may be known of title and source text together
    Cases,       \* what may be found in the text of the risk gate
    Images,      \* what may be measured of an image
    Videos,      \* what may be measured of a video
    Indexes,     \* the site indexes
    Answers,     \* the rewrites the LLM may return
    Copies,      \* the structural copies the LLM may return
    Templates,   \* the columns a caller may ask for, None for none
    Configured   \* the sets of categories the configuration may hold

\* What the facts mean: None is no codec; no daily check is a hard redline, and what a
\* text is flagged for besides is one of them; an index is a sequence of lines; two
\* bodies that may meet have a similarity, which is 1.0 for equal ones (exact_jaccard of
\* a set with itself).
ASSUME VerdictAssumption ==
    /\ None # "h264"
    /\ Hard \cap DailyChecks = {}
    /\ \A t \in Cases : t.daily \subseteq DailyChecks
    /\ \A x \in Indexes \ {None} :
        /\ x \in Seq(Range(x))
        /\ \A i \in Entries(x), t \in Texts :
            None \notin {t.body, x[i].body} => <<t.body, x[i].body>> \in DOMAIN Similar
    /\ \A b \in DOMAIN Similar : b[1] = b[2] => Similar[b] = 10

VARIABLES
    stage,       \* the gate that is next
    call,        \* what process was called with: its text, dry_run, ai_copy, template
    categories,  \* the configured categories
    risk,        \* the facts of the risk gate
    media,       \* those of the media gate; the report keeps the two counts
    index,       \* the site index
    draft,       \* the stored draft
    written,     \* history: the copy of the LLM is in the draft
    state,       \* the state the job rests at
    reason,      \* its review reason
    relint       \* what resolve --relint came to

given == <<call, categories>>
facts == <<risk, media, index>>
work == <<draft, written>>
verdict == <<state, reason>>
vars == <<stage, given, facts, work, verdict, relint>>

NoMedia == [images |-> {}, videos |-> {}]
HasImages == Looked(media.images) # {}
HasVideos == Looked(media.videos) # {}

VerdictTypeOK ==
    /\ stage \in {"risk", "media", "dedup", "assemble", "copy", "lint", "done"}
    /\ state \in {"processing", "blocked", "duplicate", "needs_human_review",
                  "needs_revision", "processed"}
    /\ state = "processing" <=> stage # "done"
    /\ reason \in {"none", "risk", "dedup", "grounding", "classification"}
    /\ reason # "none" => state \in {"needs_human_review", "processed"}
    /\ draft # None => draft.status \in {"drafted", "needs_revision", "not_executed"}
    /\ written \in BOOLEAN
    /\ relint \in {"none", "cleared", "refused"}

\* Mutant: the chain goes on after a gate has parked the job.
ParkOnly(s, why) ==
    /\ stage' = stage
    /\ state' = s
    /\ reason' = why
Park(s, why) ==
    /\ stage' = "done"
    /\ state' = s
    /\ reason' = why

PassTo(next) ==
    /\ stage' = next
    /\ UNCHANGED verdict

-----------------------------------------------------------------------------
RiskGate ==
    /\ stage = "risk"
    /\ \E t \in Cases :
        /\ risk' = t
        /\ CASE AssessRisk(t) = "blocked" -> Park("blocked", "none")
             [] AssessRisk(t) = "needs_human_review" -> Park("needs_human_review", "risk")
             [] AssessRisk(t) = "pass" -> PassTo("media")
    /\ UNCHANGED <<given, media, index, work, relint>>

MediaGate ==
    /\ stage = "media"
    /\ \E i \in SUBSET Images, v \in SUBSET Videos :
        /\ media' = [images |-> i, videos |-> v]
        /\ IF MediaOK(i, v) THEN PassTo("dedup") ELSE Park("needs_revision", "none")
    /\ UNCHANGED <<given, risk, index, work, relint>>

\* A blank source is compared by its title only.
DedupGate ==
    /\ stage = "dedup"
    /\ \E x \in Indexes :
        /\ index' = x
        /\ \E recalled \in SUBSET Indexed(x) :
            /\ IF call.text.body = None THEN recalled = {}
               ELSE MustRecall(x, call.text.body) \subseteq recalled
            /\ LET found == AssessDedup(call.text.title, call.text.body, x, recalled) IN
               CASE found = "duplicate" -> Park("duplicate", "none")
                 [] found = "uncertain" -> Park("needs_human_review", "dedup")
                 [] found = "unique" -> PassTo("assemble")
    /\ UNCHANGED <<given, risk, media, work, relint>>

\* assemble. A draft that needs revision parks the job; a stub goes on to lint.
AssembleDraft ==
    /\ stage = "assemble"
    /\ IF call.dry
       THEN \E u \in SUBSET {"intro"} : draft' = Stub(call.text.length, call.template, u)
       ELSE \E a \in Answers : draft' = Assemble(call.text.length, call.template, call.text, a)
    /\ CASE draft'.status = "needs_revision" -> Park("needs_revision", "none")
         [] draft'.status = "drafted" /\ call.copy -> PassTo("copy")
         [] OTHER -> PassTo("lint")
    /\ UNCHANGED <<given, facts, written, relint>>

\* generate_structural_copy: what is cut off or empty is left out.
WriteCopy ==
    /\ stage = "copy"
    /\ \E c \in Copies :
        /\ draft' = Apply(draft, c)
        /\ written' = Clean(c)
    /\ PassTo("lint")
    /\ UNCHANGED <<given, facts, relint>>

\* run_draft_lint_gate. No caller of process says that there are videos.
LintGate ==
    /\ stage = "lint"
    /\ CASE ~Grounded(draft) -> Park("needs_human_review", "grounding")
         [] Grounded(draft) /\ ~Classified(draft, categories) ->
                Park("needs_human_review", "classification")
         [] Grounded(draft) /\ Classified(draft, categories) ->
                IF LintPasses(draft, categories, HasImages, FALSE)
                THEN Park("processed", "none") ELSE Park("needs_revision", "none")
    /\ UNCHANGED <<given, facts, work, relint>>

\* resolve --relint: lint alone, with what the media report says the job has.
Relint ==
    /\ state = "needs_human_review" /\ reason = "grounding" /\ relint = "none"
    /\ IF LintPasses(draft, categories, HasImages, HasVideos)
       THEN relint' = "cleared" /\ state' = "processed" /\ reason' = "none"
       ELSE relint' = "refused" /\ UNCHANGED verdict
    /\ UNCHANGED <<stage, given, facts, work>>

Init ==
    /\ stage = "risk"
    /\ call \in [text : Texts, dry : BOOLEAN, copy : BOOLEAN, template : Templates]
    /\ categories \in Configured
    /\ risk = None /\ media = NoMedia /\ index = None
    /\ draft = None /\ written = FALSE
    /\ state = "processing" /\ reason = "none"
    /\ relint = "none"

Next == RiskGate \/ MediaGate \/ DedupGate \/ AssembleDraft \/ WriteCopy \/ LintGate \/ Relint
Spec == Init /\ [][Next]_vars

-----------------------------------------------------------------------------
(***************************************************************************)
(* Properties                                                              *)
(***************************************************************************)

\* Nothing passes for want of a measurement: a job is processed only when the risk
\* detector ran, every asset that was crawled could be read and measured, and an
\* index was there to tell it from what is published. (A black scan that ffmpeg gives
\* up counts as one that found nothing: BlackOK is told 0.)
UnmeasuredNeverPasses ==
    state = "processed" =>
        /\ risk.available /\ risk.source
        /\ \A i \in Looked(media.images) : i.readable /\ i.sharpness # None
        /\ \A v \in Looked(media.videos) :
            /\ v.probed
            /\ None \notin {v.size, v.codec, v.fps, v.bitrate, v.width, v.height, v.black}
            /\ v.black > 0 => v.duration # None
        /\ index # None

\* A state without a way back rests on something found: a redline keyword or a source
\* that is not there blocks a job, and only an entry of the index with the same title
\* or nearly the same body makes it a duplicate. A bare token, an empty title, a
\* missing index or an unread asset never does.
TerminalNeedsEvidence ==
    /\ state = "blocked" => risk.available /\ (risk.redlines # {} \/ ~risk.source)
    /\ state = "duplicate" =>
        \E i \in Entries(index) :
            \/ call.text.title # None /\ index[i].title = call.text.title
            \/ /\ None \notin {call.text.body, index[i].body}
               /\ Similar[<<call.text.body, index[i].body>>] >= 8

\* What the index holds word for word never gets past the dedup gate, when every job
\* has one line in it.
SeenIsNotUnique ==
    LET oneLineEach == \A i, j \in Entries(index) : index[i].id = index[j].id => i = j
        seen == \E i \in Entries(index) : index[i].body # None /\ index[i].body = call.text.body
    IN  stage \in {"assemble", "copy", "lint"} \/ state = "processed" =>
            ~(oneLineEach /\ seen)

\* A job is processed only with a draft the LLM has written, both parts of it, and one
\* that a first run's lint passes with the images the job has: no dry run and no run
\* without its structural copy gets there, by lint or, past grounding, by a re-lint.
ProcessedWasWritten ==
    state = "processed" =>
        /\ draft.status = "drafted" /\ written
        /\ LintPasses(draft, categories, HasImages, FALSE)

=============================================================================
