---------------------------- MODULE VerdictProofs ----------------------------
(***************************************************************************)
(* The verdict of a run, for any texts, cases, assets, site indexes,       *)
(* answers and copies, and any limits and categories the configuration may *)
(* hold.                                                                   *)
(*                                                                         *)
(* A gate hands the job on only when it has passed, and no later gate      *)
(* looks at its facts again: what a resting state says of them is true     *)
(* because every stage in between carries it.                              *)
(***************************************************************************)
EXTENDS Verdict, WellFoundedInduction, TLAPS

(***************************************************************************)
(* What the rules of the gates say of the facts.                           *)
(***************************************************************************)
\* assess_risk says one of three things, assess_dedup another three.
LEMMA RiskSays == \A t : AssessRisk(t) \in {"blocked", "needs_human_review", "pass"}
  BY DEF AssessRisk

LEMMA DedupSays ==
    \A title, body, x, recalled :
        AssessDedup(title, body, x, recalled) \in {"duplicate", "uncertain", "unique"}
  BY DEF AssessDedup

\* A text passes only when the detector ran and a source was there.
LEMMA RiskPasses ==
    ASSUME NEW t, AssessRisk(t) = "pass"
    PROVE  t.available /\ t.source
<1>1. t.available /\ ~\E f \in Detect(t) : f.category \in Redlines
  BY DEF AssessRisk
<1>2. ASSUME ~t.source PROVE FALSE
  <2>1. [category |-> "unclear_source", confident |-> TRUE] \in Detect(t)
    BY <1>2 DEF Detect, SourceFlags, Flags
  <2> QED
    BY <1>1, <2>1 DEF Redlines
<1> QED
  BY <1>1, <1>2

\* It is blocked only for a redline keyword or a source that is not there: the daily
\* checks and the bare tokens raise flags of other categories.
LEMMA RiskBlocks ==
    ASSUME NEW t \in Cases, AssessRisk(t) = "blocked"
    PROVE  t.available /\ (t.redlines # {} \/ ~t.source)
<1>1. t.available /\ \E f \in Detect(t) : f.category \in Redlines
  BY DEF AssessRisk
<1>2. PICK f \in Detect(t) : f.category \in Redlines
  BY <1>1
<1>3. ASSUME t.redlines = {}, t.source PROVE FALSE
  <2>1. f.category \in t.daily \cup {"ambiguous_redline"}
    BY <1>2, <1>3 DEF Detect, FootgunFlags, SourceFlags, Flags
  <2>2. f.category \in DailyChecks
    BY <2>1, VerdictAssumption DEF DailyChecks
  <2> QED
    BY <1>2, <2>2, VerdictAssumption DEF Redlines, DailyChecks
<1> QED
  BY <1>1, <1>3

\* Media that passes has been measured: a comparison with what is not there fails.
LEMMA MediaMeasured ==
    ASSUME NEW images, NEW videos, MediaOK(images, videos)
    PROVE  /\ \A i \in Looked(images) : i.readable /\ i.sharpness # None
           /\ \A v \in Looked(videos) :
               /\ v.probed
               /\ None \notin {v.size, v.codec, v.fps, v.bitrate, v.width, v.height, v.black}
               /\ v.black > 0 => v.duration # None
  BY VerdictAssumption DEF MediaOK, ImageOK, VideoOK, SpecOK, BlackOK, AtLeast

\* Of some lines of a file there is a last one: the least distance to its end is one.
LEMMA LastLine ==
    ASSUME NEW n \in Nat, NEW S \in SUBSET (1..n), S # {}
    PROVE  Max(S) \in S
<1> DEFINE Back == {n - i : i \in S}
<1>1. Back \subseteq Nat /\ Back # {}
  <2>1. \A i \in S : i \in 1..n /\ n - i \in Nat
    OBVIOUS
  <2> QED
    BY <2>1
<1>2. PICK b \in Back : \A c \in Back : ~(<<c, b>> \in OpToRel(<, Nat))
  BY <1>1, NatLessThanWellFounded, WFMin
<1>3. ASSUME NEW c \in Back PROVE b <= c
  <2>1. <<c, b>> \in Nat \X Nat /\ b \in Nat /\ c \in Nat
    BY <1>1
  <2>2. c < b => <<c, b>> \in OpToRel(<, Nat)
    BY <2>1 DEF OpToRel
  <2>3. ~(c < b)
    BY <1>2, <2>2
  <2> HIDE DEF Back
  <2> QED
    BY <2>1, <2>3
<1>4. PICK i \in S : b = n - i
  OBVIOUS
<1>5. \A j \in S : i >= j
  BY <1>3, <1>4
<1> QED
  BY <1>5 DEF Max

\* A duplicate has its twin in the index.
LEMMA DuplicateHasTwin ==
    ASSUME NEW title, NEW body, NEW x \in Indexes \cup {None}, NEW recalled \in SUBSET Indexed(x),
           body = None => recalled = {},
           AssessDedup(title, body, x, recalled) = "duplicate"
    PROVE  \E i \in Entries(x) :
              \/ title # None /\ x[i].title = title
              \/ None \notin {body, x[i].body} /\ Similar[<<body, x[i].body>>] >= 8
<1>1. CASE SameTitle(x, title)
  BY <1>1 DEF SameTitle
<1>2. CASE ~SameTitle(x, title)
  <2>1. PICK id \in recalled : Score(x, id, body) >= 8
    BY <1>2 DEF AssessDedup
  <2>2. OfJob(x, id) # {} /\ x # None
    BY DEF Indexed, OfJob, Entries
  <2>3. OfJob(x, id) \subseteq 1..Len(x) /\ Len(x) \in Nat
    BY <2>2, VerdictAssumption DEF OfJob, Entries
  <2>4. Max(OfJob(x, id)) \in OfJob(x, id)
    BY <2>2, <2>3, LastLine
  <2>5. x[Max(OfJob(x, id))].body # None /\ Similar[<<body, x[Max(OfJob(x, id))].body>>] >= 8
    BY <2>1 DEF Score
  <2> QED
    BY <2>4, <2>5 DEF OfJob
<1> QED
  BY <1>1, <1>2

\* And what is unique has none that is the same word for word, where a job has one line:
\* that line is the first of its job, which is recalled, and the last, which is compared.
OneLineEach(x) == \A i, j \in Entries(x) : x[i].id = x[j].id => i = j

LEMMA UniqueHasNoTwin ==
    ASSUME NEW t \in Texts, NEW x \in Indexes \cup {None}, NEW recalled \in SUBSET Indexed(x),
           t.body # None => MustRecall(x, t.body) \subseteq recalled,
           AssessDedup(t.title, t.body, x, recalled) = "unique",
           OneLineEach(x), NEW i \in Entries(x), x[i].body # None
    PROVE  x[i].body # t.body
<1> SUFFICES ASSUME x[i].body = t.body PROVE FALSE
  OBVIOUS
<1> DEFINE id == x[i].id
<1>1. x # None /\ i \in Nat
  BY VerdictAssumption DEF Entries
<1>2. OfJob(x, id) = {i} /\ WithBody(x, id) = {i}
  BY DEF OneLineEach, OfJob, WithBody
<1>3. Min({i}) = i /\ Max({i}) = i
  BY <1>1 DEF Min, Max
<1>4. id \in recalled
  BY <1>2, <1>3 DEF MustRecall, Indexed
<1>5. Score(x, id, t.body) = 10
  BY <1>1, <1>2, <1>3, VerdictAssumption DEF Score
<1> QED
  BY <1>4, <1>5 DEF AssessDedup

-----------------------------------------------------------------------------
(***************************************************************************)
(* What every stage carries. Grounding holds are the only rest a job may   *)
(* leave in this model, by a re-lint: they carry what a processed job does.*)
(***************************************************************************)
Final == state = "processed" \/ (state = "needs_human_review" /\ reason = "grounding")

PastDedup == stage \in {"assemble", "copy", "lint"} \/ Final
PastMedia == stage = "dedup" \/ PastDedup
PastRisk == stage = "media" \/ PastMedia

\* The dedup gate, with what the index had to recall and some of the rest.
Found(found) ==
    \E recalled \in SUBSET Indexed(index) :
        /\ IF call.text.body = None THEN recalled = {}
           ELSE MustRecall(index, call.text.body) \subseteq recalled
        /\ AssessDedup(call.text.title, call.text.body, index, recalled) = found

FactsInv ==
    /\ call.text \in Texts
    /\ index \in Indexes \cup {None}
    /\ PastRisk => AssessRisk(risk) = "pass"
    /\ PastMedia => MediaOK(media.images, media.videos)
    /\ PastDedup => Found("unique")
    /\ state = "blocked" => risk \in Cases /\ AssessRisk(risk) = "blocked"
    /\ state = "duplicate" => Found("duplicate")

\* The draft before the copy is an answer of the LLM; after it, the copy is in the
\* draft, with the status it had, or the draft has no section the copy writes.
DraftInv ==
    /\ stage \in {"risk", "media", "dedup", "assemble"} => draft = None /\ ~written
    /\ stage = "copy" =>
        /\ ~written /\ draft.status = "drafted"
        /\ \E a \in Answers :
              draft = Assemble(call.text.length, call.template, call.text, a)
    /\ stage = "lint" \/ Final =>
        IF written THEN draft.status = "drafted" ELSE draft.faq = 0
    /\ state = "processed" => LintPasses(draft, categories, HasImages, FALSE)

VerdictInv == VerdictTypeOK /\ FactsInv /\ DraftInv

\* An answer makes a draft or one that needs revision, with no section of the copy.
LEMMA AssembledDraft ==
    ASSUME NEW title, NEW category, NEW source, NEW a
    PROVE  LET d == Assemble(title, category, source, a)
           IN  d.status \in {"drafted", "needs_revision"} /\ d.faq = 0
  BY DEF Assemble, EmptyDraft

LEMMA StubbedDraft ==
    ASSUME NEW title, NEW category, NEW u
    PROVE  LET d == Stub(title, category, u) IN d.status = "not_executed" /\ d.faq = 0
  BY DEF Stub, EmptyDraft

\* A copy leaves the status of an assembled draft; one that is cut off or empty
\* leaves the draft.
LEMMA CopiedDraft ==
    ASSUME NEW title, NEW category, NEW source, NEW a, NEW c
    PROVE  LET d == Assemble(title, category, source, a)
           IN  Apply(d, c).status = d.status /\ (~Clean(c) => Apply(d, c) = d)
<1> DEFINE d == Assemble(title, category, source, a)
<1>1. CASE ~Clean(c)
  BY <1>1 DEF Apply
<1>2. CASE Clean(c)
  <2>1. Apply(d, c).status = d.status
    BY <1>2 DEF Apply, Assemble, EmptyDraft
  <2> QED
    BY <1>2, <2>1
<1> QED
  BY <1>1, <1>2

\* A run begins with its call and nothing else.
LEMMA VerdictInit == Init => VerdictInv
  BY DEF Init, VerdictInv, VerdictTypeOK, FactsInv, DraftInv, PastRisk, PastMedia, PastDedup, Final

\* The gates that only look.
LEMMA RiskStep == ASSUME VerdictInv, RiskGate PROVE VerdictInv'
<1> USE DEF RiskGate, Park, PassTo, given, work, verdict
<1>1. PICK t \in Cases :
         /\ risk' = t
         /\ CASE AssessRisk(t) = "blocked" -> Park("blocked", "none")
              [] AssessRisk(t) = "needs_human_review" -> Park("needs_human_review", "risk")
              [] AssessRisk(t) = "pass" -> PassTo("media")
  OBVIOUS
<1>2. \/ AssessRisk(t) = "blocked" /\ Park("blocked", "none")
      \/ AssessRisk(t) = "needs_human_review" /\ Park("needs_human_review", "risk")
      \/ AssessRisk(t) = "pass" /\ PassTo("media")
  BY <1>1, RiskSays
<1>3. VerdictTypeOK'
  BY <1>2 DEF VerdictInv, VerdictTypeOK
<1>4. FactsInv'
  BY <1>1, <1>2 DEF VerdictInv, VerdictTypeOK, FactsInv, PastRisk, PastMedia, PastDedup, Final
<1>5. DraftInv'
  BY <1>2 DEF VerdictInv, VerdictTypeOK, DraftInv, Final
<1> QED
  BY <1>3, <1>4, <1>5 DEF VerdictInv

LEMMA MediaStep == ASSUME VerdictInv, MediaGate PROVE VerdictInv'
<1> USE DEF MediaGate, Park, PassTo, given, work, verdict
<1>1. \/ MediaOK(media'.images, media'.videos) /\ PassTo("dedup")
      \/ Park("needs_revision", "none")
  OBVIOUS
<1>2. VerdictTypeOK'
  BY <1>1 DEF VerdictInv, VerdictTypeOK
<1>3. FactsInv'
  BY <1>1 DEF VerdictInv, VerdictTypeOK, FactsInv, PastRisk, PastMedia, PastDedup, Final
<1>4. DraftInv'
  BY <1>1 DEF VerdictInv, VerdictTypeOK, DraftInv, Final
<1> QED
  BY <1>2, <1>3, <1>4 DEF VerdictInv

LEMMA DedupStep == ASSUME VerdictInv, DedupGate PROVE VerdictInv'
<1> USE DEF Park, PassTo, given, work, verdict
<1>1. PICK x \in Indexes :
         /\ index' = x
         /\ \E recalled \in SUBSET Indexed(x) :
             /\ IF call.text.body = None THEN recalled = {}
                ELSE MustRecall(x, call.text.body) \subseteq recalled
             /\ LET found == AssessDedup(call.text.title, call.text.body, x, recalled) IN
                CASE found = "duplicate" -> Park("duplicate", "none")
                  [] found = "uncertain" -> Park("needs_human_review", "dedup")
                  [] found = "unique" -> PassTo("assemble")
  BY DEF DedupGate
<1>2. PICK recalled \in SUBSET Indexed(x) :
         /\ IF call.text.body = None THEN recalled = {}
            ELSE MustRecall(x, call.text.body) \subseteq recalled
         /\ LET found == AssessDedup(call.text.title, call.text.body, x, recalled) IN
            CASE found = "duplicate" -> Park("duplicate", "none")
              [] found = "uncertain" -> Park("needs_human_review", "dedup")
              [] found = "unique" -> PassTo("assemble")
  BY <1>1
<1> DEFINE found == AssessDedup(call.text.title, call.text.body, x, recalled)
<1>3. \/ found = "duplicate" /\ Park("duplicate", "none")
      \/ found = "uncertain" /\ Park("needs_human_review", "dedup")
      \/ found = "unique" /\ PassTo("assemble")
  BY <1>2, DedupSays
<1>4. \A f \in {"duplicate", "unique"} : found = f => Found(f)'
  BY <1>1, <1>2 DEF DedupGate, Found
<1> HIDE DEF found
<1>5. stage = "dedup" /\ UNCHANGED <<given, risk, media, work, relint>>
  BY DEF DedupGate
<1>6. VerdictTypeOK'
  BY <1>3, <1>5 DEF VerdictInv, VerdictTypeOK
<1>7. FactsInv'
  BY <1>1, <1>3, <1>4, <1>5 DEF VerdictInv, VerdictTypeOK, FactsInv, PastRisk, PastMedia,
     PastDedup, Final
<1>8. DraftInv'
  BY <1>3, <1>5 DEF VerdictInv, VerdictTypeOK, DraftInv, Final
<1> QED
  BY <1>6, <1>7, <1>8 DEF VerdictInv

\* The gates that write.
LEMMA AssembleStep == ASSUME VerdictInv, AssembleDraft PROVE VerdictInv'
<1> USE DEF Park, PassTo, given, facts, verdict
<1>1. stage = "assemble" /\ UNCHANGED <<given, facts, written, relint>> /\ ~written
  BY DEF AssembleDraft, VerdictInv, DraftInv
<1>2. /\ draft'.status \in {"drafted", "needs_revision", "not_executed"} /\ draft'.faq = 0
      /\ draft'.status = "drafted" =>
           \E a \in Answers : draft' = Assemble(call.text.length, call.template, call.text, a)
  BY AssembledDraft, StubbedDraft DEF AssembleDraft
<1>3. \/ draft'.status = "needs_revision" /\ Park("needs_revision", "none")
      \/ draft'.status = "drafted" /\ PassTo("copy")
      \/ PassTo("lint")
  BY DEF AssembleDraft
<1>4. VerdictTypeOK'
  BY <1>1, <1>2, <1>3 DEF VerdictInv, VerdictTypeOK
<1>5. FactsInv'
  BY <1>1, <1>3 DEF VerdictInv, VerdictTypeOK, FactsInv, PastRisk, PastMedia, PastDedup, Final, Found
<1>6. DraftInv'
  BY <1>1, <1>2, <1>3 DEF VerdictInv, VerdictTypeOK, DraftInv, Final
<1> QED
  BY <1>4, <1>5, <1>6 DEF VerdictInv

LEMMA CopyStep == ASSUME VerdictInv, WriteCopy PROVE VerdictInv'
<1> USE DEF PassTo, given, facts, verdict
<1>1. stage = "copy" /\ stage' = "lint" /\ UNCHANGED <<given, facts, verdict, relint>>
  BY DEF WriteCopy
<1>2. PICK c \in Copies : draft' = Apply(draft, c) /\ written' = Clean(c)
  BY DEF WriteCopy
<1>3. PICK a \in Answers : draft = Assemble(call.text.length, call.template, call.text, a)
  BY <1>1 DEF VerdictInv, DraftInv
<1>4. draft.status = "drafted" /\ draft.faq = 0
  BY <1>1, <1>3, AssembledDraft DEF VerdictInv, DraftInv
<1>5. draft'.status = "drafted" /\ (~Clean(c) => draft'.faq = 0)
  BY <1>2, <1>3, <1>4, CopiedDraft
<1>6. written' \in BOOLEAN
  BY <1>2 DEF Clean
<1>7. VerdictTypeOK'
  BY <1>1, <1>5, <1>6 DEF VerdictInv, VerdictTypeOK
<1>8. FactsInv'
  BY <1>1 DEF VerdictInv, VerdictTypeOK, FactsInv, PastRisk, PastMedia, PastDedup, Final, Found
<1>9. DraftInv'
  BY <1>1, <1>2, <1>5 DEF VerdictInv, VerdictTypeOK, DraftInv, Final
<1> QED
  BY <1>7, <1>8, <1>9 DEF VerdictInv

\* And those that judge the draft.
LEMMA LintStep == ASSUME VerdictInv, LintGate PROVE VerdictInv'
<1> USE DEF Park, given, facts, work, verdict
<1>1. stage = "lint" /\ UNCHANGED <<given, facts, work, relint>>
  BY DEF LintGate
<1>2. \/ Park("needs_human_review", "grounding")
      \/ Park("needs_human_review", "classification")
      \/ LintPasses(draft, categories, HasImages, FALSE) /\ Park("processed", "none")
      \/ Park("needs_revision", "none")
  BY DEF LintGate
<1>3. VerdictTypeOK'
  BY <1>1, <1>2 DEF VerdictInv, VerdictTypeOK
<1>4. FactsInv'
  BY <1>1, <1>2 DEF VerdictInv, VerdictTypeOK, FactsInv, PastRisk, PastMedia, PastDedup, Final, Found
<1>5. DraftInv'
  BY <1>1, <1>2 DEF VerdictInv, VerdictTypeOK, DraftInv, Final, HasImages
<1> QED
  BY <1>3, <1>4, <1>5 DEF VerdictInv

LEMMA RelintStep == ASSUME VerdictInv, Relint PROVE VerdictInv'
<1> USE DEF given, facts, work, verdict
<1>1. Final /\ stage = "done" /\ UNCHANGED <<stage, given, facts, work>>
  BY DEF Relint, Final, VerdictInv, VerdictTypeOK
<1>2. \/ /\ LintPasses(draft, categories, HasImages, HasVideos)
         /\ relint' = "cleared" /\ state' = "processed" /\ reason' = "none"
      \/ relint' = "refused" /\ UNCHANGED verdict
  BY DEF Relint
<1>3. LintPasses(draft, categories, HasImages, HasVideos) =>
        LintPasses(draft, categories, HasImages, FALSE)
  BY DEF LintPasses
<1>4. VerdictTypeOK'
  BY <1>1, <1>2 DEF VerdictInv, VerdictTypeOK
<1>5. FactsInv'
  BY <1>1, <1>2 DEF VerdictInv, VerdictTypeOK, FactsInv, PastRisk, PastMedia, PastDedup, Final, Found
<1>6. DraftInv'
  BY <1>1, <1>2, <1>3 DEF VerdictInv, VerdictTypeOK, DraftInv, Final, HasImages
<1> QED
  BY <1>4, <1>5, <1>6 DEF VerdictInv

LEMMA VerdictHolds == Spec => []VerdictInv
<1>1. VerdictInv /\ UNCHANGED vars => VerdictInv'
  <2> SUFFICES ASSUME VerdictInv, UNCHANGED vars PROVE VerdictInv'
    OBVIOUS
  <2> USE DEF vars, given, facts, work, verdict, VerdictInv
  <2>1. VerdictTypeOK'
    BY DEF VerdictTypeOK
  <2>2. FactsInv'
    BY DEF FactsInv, PastRisk, PastMedia, PastDedup, Final, Found
  <2>3. DraftInv'
    BY DEF DraftInv, Final, HasImages
  <2> QED
    BY <2>1, <2>2, <2>3
<1>2. VerdictInv /\ [Next]_vars => VerdictInv'
  BY <1>1, RiskStep, MediaStep, DedupStep, AssembleStep, CopyStep, LintStep, RelintStep DEF Next
<1> QED
  BY <1>2, VerdictInit, PTL DEF Spec

-----------------------------------------------------------------------------
\* The stage, the verdict and the draft keep their types: a job rests with a state, and
\* a reason only where it is held. The code: run_gate_chain, Pipeline._process_inner.
THEOREM VerdictTypeCorrect == Spec => []VerdictTypeOK
<1>1. VerdictInv => VerdictTypeOK
  BY DEF VerdictInv
<1> QED
  BY <1>1, VerdictHolds, PTL

\* No job is processed for want of a measurement. The code: assess_risk, judge_image,
\* judge_video, judge_black_segments, assess_dedup.
THEOREM NothingPassesUnmeasured == Spec => []UnmeasuredNeverPasses
<1>1. VerdictInv => UnmeasuredNeverPasses
  <2> SUFFICES ASSUME VerdictInv, state = "processed" PROVE UnmeasuredNeverPasses
    BY DEF UnmeasuredNeverPasses
  <2>1. AssessRisk(risk) = "pass" /\ MediaOK(media.images, media.videos) /\ Found("unique")
    BY DEF VerdictInv, FactsInv, PastRisk, PastMedia, PastDedup, Final
  <2>2. index # None
    BY <2>1 DEF Found, AssessDedup, Available
  <2> QED
    BY <2>1, <2>2, RiskPasses, MediaMeasured DEF UnmeasuredNeverPasses
<1> QED
  BY <1>1, VerdictHolds, PTL

\* A state without a way back rests on something found. The code: assess_risk,
\* assess_dedup.
THEOREM NothingIsLostUnseen == Spec => []TerminalNeedsEvidence
<1>1. VerdictInv => TerminalNeedsEvidence
  <2> SUFFICES ASSUME VerdictInv PROVE TerminalNeedsEvidence
    OBVIOUS
  <2>1. state = "blocked" => risk.available /\ (risk.redlines # {} \/ ~risk.source)
    BY RiskBlocks DEF VerdictInv, FactsInv
  <2>2. ASSUME state = "duplicate"
        PROVE  \E i \in Entries(index) :
                  \/ call.text.title # None /\ index[i].title = call.text.title
                  \/ /\ None \notin {call.text.body, index[i].body}
                     /\ Similar[<<call.text.body, index[i].body>>] >= 8
    BY <2>2, DuplicateHasTwin DEF VerdictInv, FactsInv, Found
  <2> QED
    BY <2>1, <2>2 DEF TerminalNeedsEvidence
<1> QED
  BY <1>1, VerdictHolds, PTL

\* What the index holds word for word never gets past the dedup gate, whatever else the
\* LSH recalls. The code: assess_dedup, _get_or_build_lsh.
THEOREM SeenNeverPasses == Spec => []SeenIsNotUnique
<1>1. VerdictInv => SeenIsNotUnique
  <2> SUFFICES ASSUME VerdictInv, stage \in {"assemble", "copy", "lint"} \/ state = "processed",
                      OneLineEach(index), NEW i \in Entries(index),
                      index[i].body # None, index[i].body = call.text.body
               PROVE  FALSE
    BY DEF SeenIsNotUnique, OneLineEach
  <2>1. Found("unique") /\ call.text \in Texts /\ index \in Indexes \cup {None}
    BY DEF VerdictInv, FactsInv, PastDedup, Final
  <2> QED
    BY <2>1, UniqueHasNoTwin DEF Found
<1> QED
  BY <1>1, VerdictHolds, PTL

\* A job is processed only with a draft the LLM has written, both parts of it, that lint
\* passes. The code: assemble, generate_structural_copy, lint_draft, relint_clears_hold.
THEOREM ProcessedIsWritten == Spec => []ProcessedWasWritten
<1>1. VerdictInv => ProcessedWasWritten
  <2> SUFFICES ASSUME VerdictInv, state = "processed" PROVE ProcessedWasWritten
    BY DEF ProcessedWasWritten
  <2>1. LintPasses(draft, categories, HasImages, FALSE)
    BY DEF VerdictInv, DraftInv
  <2>2. draft.faq # 0
    BY <2>1 DEF LintPasses
  <2> QED
    BY <2>1, <2>2 DEF VerdictInv, DraftInv, Final, ProcessedWasWritten
<1> QED
  BY <1>1, VerdictHolds, PTL
=============================================================================
