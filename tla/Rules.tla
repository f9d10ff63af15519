------------------------------- MODULE Rules -------------------------------
(***************************************************************************)
(* What the gates of Stage 2 decide: the rules of core/rules and of the    *)
(* assembler as functions of what is known of a text, its assets, the site *)
(* index and the answers of the LLM.                                       *)
(*                                                                         *)
(* A fact stands for what a text match or a measurement found: "redlines"  *)
(* is the set of categories with a keyword in the text, "unsupported" the  *)
(* pieces with a claim of eight characters or more that shares less than   *)
(* 0.6 of its bigrams with the source. Lengths are in characters, the      *)
(* similarity of two bodies is in tenths. Warnings change no verdict and   *)
(* are left out.                                                           *)
(***************************************************************************)
EXTENDS Integers, FiniteSetsExt

CONSTANTS
    Hard,      \* the redline categories that have keywords
    None,      \* no title, a blank body, a fact nobody could measure
    Limits,    \* MediaConfig, ContentConfig and the thresholds of the rules
    Similar    \* exact_jaccard of two bodies, in tenths

-----------------------------------------------------------------------------
(***************************************************************************)
(* risk_rules                                                              *)
(***************************************************************************)

Redlines == Hard \cup {"unclear_source", "unsupported_claim"}
DailyChecks == {"defamation", "private_pii", "copyright_source_missing", "ambiguous_redline"}

Flags(categories, sure) == [category : categories, confident : {sure}]

\* Mutant: a token of the footgun list counts as the redline it may stand for.
FootgunFlagsSure(t) == Flags(t.footguns, TRUE)
\* A bare token is a flag of its own, unless its category has one already.
FootgunFlags(t) ==
    IF t.footguns \subseteq t.redlines THEN {} ELSE Flags({"ambiguous_redline"}, FALSE)

SourceFlags(t) ==
    IF t.source THEN {}
    ELSE Flags({"unclear_source", "copyright_source_missing"}
               \cup (IF t.claim THEN {"unsupported_claim"} ELSE {}), TRUE)

\* KeywordRiskDetector.detect
Detect(t) ==
    Flags(t.redlines \cup t.daily, TRUE) \cup FootgunFlags(t) \cup SourceFlags(t)

\* assess_risk: the most severe finding wins. No run enables a category.
AssessRisk(t) ==
    LET flags == Detect(t)
        redline == \E f \in flags : f.category \in Redlines
        doubt == \E f \in flags : f.category \in DailyChecks \/ ~f.confident
    IN  CASE ~t.available -> "needs_human_review"
          [] t.available /\ redline -> "blocked"
          [] t.available /\ ~redline /\ (t.campus \/ doubt) -> "needs_human_review"
          [] OTHER -> "pass"

-----------------------------------------------------------------------------
(***************************************************************************)
(* asset_rules, and what media_checker does with an asset it cannot read   *)
(***************************************************************************)

\* Assets whose crawl failed are not looked at.
Looked(assets) == {a \in assets : a.crawled}

AtLeast(x, min) == x # None /\ x >= min

ImageOK(i) ==
    /\ i.readable
    /\ i.width >= Limits.minWidth /\ i.height >= Limits.minHeight
    /\ AtLeast(i.sharpness, Limits.blur)

SpecOK(v) ==
    /\ v.codec = "h264"
    /\ AtLeast(v.fps, Limits.minFps) /\ v.fps <= Limits.maxFps
    /\ AtLeast(v.bitrate, Limits.minBitrate)
    /\ AtLeast(v.width, Limits.minWidth) /\ AtLeast(v.height, Limits.minHeight)

\* Mutant: what cannot be compared is let through.
BlackOKUnknown(v) ==
    /\ v.black # None
    /\ v.black > 0 /\ v.duration # None => 5 * v.black <= v.duration
\* judge_black_segments: no black at all, or a fifth of a known duration.
BlackOK(v) ==
    /\ v.black # None
    /\ v.black > 0 => v.duration # None /\ 5 * v.black <= v.duration

VideoOK(v) ==
    /\ v.size # None /\ v.size <= Limits.maxSize
    /\ v.probed
    /\ SpecOK(v)
    /\ BlackOK(v)

MediaOK(images, videos) ==
    /\ \A i \in Looked(images) : ImageOK(i)
    /\ \A v \in Looked(videos) : VideoOK(v)

-----------------------------------------------------------------------------
(***************************************************************************)
(* dedup_rules. A site index is None, when the file is missing, or the     *)
(* sequence of its lines; an entry is the number of a line that holds one. *)
(***************************************************************************)

Entries(index) ==
    IF index = None THEN {} ELSE {i \in DOMAIN index : index[i].kind = "entry"}

\* load_site_index: a malformed line is skipped; a file of nothing else is no index.
Available(index) ==
    /\ index # None
    /\ (\E i \in DOMAIN index : index[i].kind # "blank") => Entries(index) # {}

OfJob(index, id) == {i \in Entries(index) : index[i].id = id}
WithBody(index, id) == {i \in OfJob(index, id) : index[i].body # None}

\* The LSH holds the first body of an id that is not blank. What else it recalls
\* depends on its hashes; a body like the one in it, word for word, it must.
Indexed(index) == {index[i].id : i \in {j \in Entries(index) : index[j].body # None}}
MustRecall(index, body) ==
    {id \in Indexed(index) : index[Min(WithBody(index, id))].body = body}

\* The score of a recalled id: body_by_id holds the last line of the id.
Score(index, id, body) ==
    LET last == index[Max(OfJob(index, id))].body
    IN  IF last = None THEN 0 ELSE Similar[<<body, last>>]

SameTitle(index, title) == title # None /\ \E i \in Entries(index) : index[i].title = title

\* Mutant: the body is compared only when there is a title to compare.
AssessDedupTitled(title, body, index, recalled) ==
    LET Hits(min) == {id \in recalled : title # None /\ Score(index, id, body) >= min}
    IN  CASE SameTitle(index, title) \/ Hits(8) # {} -> "duplicate"
          [] ~SameTitle(index, title) /\ Hits(8) = {} /\ Hits(5) # {} -> "uncertain"
          [] OTHER -> IF Available(index) THEN "unique" ELSE "uncertain"

\* assess_dedup, with the ids the LSH recalled.
AssessDedup(title, body, index, recalled) ==
    LET Hits(min) == {id \in recalled : Score(index, id, body) >= min}
        same == SameTitle(index, title) \/ Hits(8) # {}
    IN  CASE same -> "duplicate"
          [] ~same /\ Hits(5) # {} -> "uncertain"
          [] ~same /\ Hits(5) = {} /\ ~Available(index) -> "uncertain"
          [] OTHER -> "unique"

-----------------------------------------------------------------------------
(***************************************************************************)
(* The draft: client._interpret, assembler, copywriter                     *)
(***************************************************************************)

Clean(answer) == answer.finish = "stop" /\ ~answer.blank

EmptyDraft(title, category) ==
    [title |-> title, category |-> category, status |-> "needs_revision",
     intro |-> 0, event |-> 0, copied |-> FALSE, unsupported |-> {},
     faq |-> 0, facts |-> 0, summary |-> 0, tags |-> 0, hyped |-> FALSE,
     captions |-> 0, videos |-> 0]

\* assemble of a dry run: a stub, whose intro few sources support.
Stub(title, category, unsupported) ==
    [EmptyDraft(title, category) EXCEPT
        !.status = "not_executed", !.intro = 37, !.unsupported = unsupported]

\* assemble: a rewrite counts when it ended well, a non-blank source has a line to
\* quote, and both sections are there.
Assemble(title, category, source, answer) ==
    IF /\ Clean(answer)
       /\ source.body # None => source.anchored
       /\ answer.intro > 0 /\ answer.event > 0
    THEN [EmptyDraft(title, category) EXCEPT
             !.status = "drafted",
             !.intro = answer.intro, !.event = answer.event,
             !.copied = answer.copied, !.unsupported = answer.unsupported]
    ELSE EmptyDraft(title, category)

\* generate_structural_copy and apply_copy_to_draft: tags of the built-in hype list
\* are dropped before (_clean_tags) and five are kept; nothing writes a video section.
Apply(draft, copy) ==
    IF ~Clean(copy) THEN draft
    ELSE [draft EXCEPT
             !.category = IF copy.category # None THEN copy.category ELSE @,
             !.unsupported = @ \cup copy.unsupported,
             !.faq = copy.faq, !.facts = copy.facts, !.summary = copy.summary,
             !.tags = IF copy.tags > 5 THEN 5 ELSE copy.tags,
             !.hyped = copy.hyped, !.captions = copy.captions]

-----------------------------------------------------------------------------
(***************************************************************************)
(* grounding and lint_rules                                                *)
(***************************************************************************)

\* _split_claims. Titles, questions, tags and keywords are not verified, and a
\* quote is a line of the source by construction.
Narrative == {"intro", "event", "faq", "captions", "subheads", "facts", "summary"}

Grounded(draft) == draft.unsupported \cap Narrative = {}

Within(n, bounds) == bounds[1] <= n /\ n <= bounds[2]

\* The category check of run_draft_lint_gate; no configured category, no check.
Classified(draft, categories) == categories # {} => draft.category \in categories

\* Mutant: the sections the copy writes are counted only when they are there.
LintPassesPresent(draft, categories, images, videos) ==
    /\ Within(draft.title, Limits.title) /\ draft.title > 0
    /\ Within(draft.intro, Limits.intro) /\ draft.intro > 0
    /\ Within(draft.event, Limits.event) /\ draft.event > 0
    /\ draft.summary <= Limits.summary
    /\ draft.faq > 0 => Within(draft.faq, Limits.faq)
    /\ draft.facts > 0 => Within(draft.facts, Limits.facts)
    /\ draft.tags > 0 => Within(draft.tags, Limits.tags) /\ ~draft.hyped
    /\ images => draft.captions > 0
    /\ videos => draft.videos > 0
    /\ Classified(draft, categories)
    /\ ~draft.copied

\* lint_draft: no error. A missing section is as bad as one out of its bounds.
LintPasses(draft, categories, images, videos) ==
    /\ Within(draft.title, Limits.title) /\ draft.title > 0
    /\ Within(draft.intro, Limits.intro) /\ draft.intro > 0
    /\ Within(draft.event, Limits.event) /\ draft.event > 0
    /\ draft.summary > 0 /\ draft.summary <= Limits.summary
    /\ draft.faq > 0 /\ Within(draft.faq, Limits.faq)
    /\ draft.facts > 0 /\ Within(draft.facts, Limits.facts)
    /\ Within(draft.tags, Limits.tags) /\ ~draft.hyped
    /\ images => draft.captions > 0
    /\ videos => draft.videos > 0
    /\ Classified(draft, categories)
    /\ ~draft.copied

=============================================================================
