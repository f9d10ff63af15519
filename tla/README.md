# local-content-processor in TLA+

`lcp` takes a source (a URL or a local folder) through *crawl → process → review
packet → sign-off*, one row of a SQLite table and one directory per job. Nothing
in it is a server in the usual sense: a command-line process, a localhost GUI
server with a thread per request and background workers, a crawler child and,
quite possibly, a second shell all act on the same files, and each of them may be
killed at any point. These modules model that: what each operation does to the
row, the files and the log, in which order, with everybody else in between.

## The system

| Part | State it keeps | Operations | Where |
|---|---|---|---|
| Job state machine | none: a table of edges | `is_legal_transition` | `core/state.py` → `JobState` |
| Job store | row (state, review_reason, hashes), `.processing` marker, interrupt counter | `create_job`, `set_state`, `persist_crawl_result`, `persist_from_processing`, marker and counter calls, `delete_job` | `storage/job_store.py` → `JobStore`, `Stage1`, `Stage2` |
| Stage 1 | row and hash, `source.json`, `raw/`, `manifest.json` | `Pipeline.stage1`, `CrawlRunner.crawl_url` and its child, `LocalIngestCrawler.crawl` | `pipeline.py`, `adapters/crawler/*` → `Stage1` |
| Stage 2 | marker, counter, draft, cover | `Pipeline.process`: entry, gates, assemble, lint, persist, `finally` | `pipeline.py`, `adapters/processor/*` → `Stage2` |
| Worklist | none: reads rows and markers | `reconcile`, `reconcile_one` | `pipeline.py` → `Stage2` |
| Review packet, sign-off | `review/` (message, cover, freeze record, URL) | `build_review_packet`, `approve`, `reject`, `resolve`, `backfill_published_url`, `supersede` | `adapters/publisher/*` → `SignOff` |
| Audit log | `audit.jsonl`, a hash chain | `append`, `verify_chain`, `iter_events` | `storage/audit_log.py` → `AuditLog`; one step elsewhere |
| GUI server | in-flight set, polled status | `_run_bg`, worker, cleanup timer, `_dispatch_guarded`, `job_status` | `gui.py`, `webserver.py` → `GuiJobs` |
| Gossip ingest | `source.json`, rows at NEW | `ingest_items` | `adapters/storage/gossip_ingest.py` → `Stage1` (feeds) |
| LLM client | failure streak and cool-down deadline | `chat`, `_interpret` | `adapters/llm/client.py` → `LlmClient`, `Rules` |
| Rules and gates | none: verdicts over facts | `assess_risk`, `judge_image`, `judge_video`, `assess_dedup`, `lint_draft`, `assemble`, the copywriter | `core/rules/*`, `adapters/processor/*` → `Rules`; their chain and the re-lint → `Verdict` |
| Notifier | what the group was shown | `send_notification` | `publisher/notifier.py` → `SignOff` |
| Settings | the keyring, the YAML file, what a shell has loaded of them | `save_settings`, `set_llm_api_key`, `update_llm_config_file`, `init_workspace`, `load_config` | `storage/config_io.py`, `gui.py` → `Settings` |
| Dashboard | none: reads the log | `iter_events`, `aggregate_audit` | `storage/audit_aggregate.py` → `Dashboard` |
| Gossip scraper | the history of ranks, snapshots, a health log | `run`, `save_snapshot`, `dedup`, `rank`, `record` | `gossip_scraper/` → `Scraper`, `ScraperHealth` |
| Saved sources, media codecs, URL guards, text matching | a table; none | pure functions | left out, see below |

**How they interact.** Calls are synchronous within a thread; what is shared is on
disk. A row changes only under `BEGIN IMMEDIATE`, so a store call is one atomic
step; a file is written by a rename, so it is one step too - except the marker and
the health log, which are opened and then written, and where two writers share the
name they rename from. Between two steps anything may happen. Within
the server the *in-flight set* keeps the Stage-1 and Stage-2 routes of one job apart,
the ingest of a folder and the crawl of what was ingested included
(`webserver.py:90`); the CLI, `Api.process_batch`, `ingest_gossip` and all the
sign-off routes do not take it.

**What is hard.** Several runs of one operation on one job; state read at the
start and used at the end; the order of file, row and log around a death; the
judgement of a marker by its PID; a child that outlives, or is outlived by, its
parent; a retry that meets the remains of the first attempt; a status that is
published after the slot is given back. `PROJECT.json` lists each at its line.

**What makes it correct.** In one line each: Stage 1 - a crawled job's hash,
manifest and files are of one crawl, and stay; Stage 2 - a parked job is explained
by the log, a processed one has a draft that passed, and the loop guard counts
hard deaths and nothing else; worklist - it shows dead runs and never disturbs a
live one; the gates - nothing passes because it was not measured, and nothing is
lost for good without evidence; sign-off - the log reports no decision that was
not taken, and what is signed is what is stored and shown, and what is announced was put to
review; audit - what decodes is one chain, and what the dashboard counts in it is
so; GUI - one pass at a time, and every task ends; LLM client - a provider that is
down is left alone, and one that is up is not; settings - an endpoint is not used
with a key older than its own; scraper - the history is the ranking of a whole
run, and no topic is lost on the way to it.

## The modules

Actions carry the names of the functions they model, or of the step of it;
`PROJECT.json` maps each to its lines.

* **`JobState`** – the enum, the edge table as a set of pairs, and the classes of
  states (`ReconcilableStates`, `MarkerOnlyClearStates`).
* **`JobStore`** (extends `JobState`) – `row`, `draft`, `cover`, `audit` of *one*
  job. Every call of the program is keyed by a job id and touches that job's row
  and directory, so one job is enough; what jobs share (the log's chain, the site
  index) is `AuditLog` and an input. A draft is a value; `Lint` says what the
  gates say of it. `audit` is a set of events: only those a property reads are
  kept (a gate that passes, a crawl that is done are left out).
* **`Stage2`** (extends `JobStore`) – threads that run `process()` step by step,
  `pc` being the next step: `check` (a marker at entry?), `mark`/`stamp`
  (`mark_processing`, truncated and then written), `gates`, `assemble`, `save`,
  `lint`, `persist`, `clear`, then `unwind` and `reset`, which are the `finally`.
  `pid` gives each live process a PID, and a new process may get a dead one's.
  `Die(p)` ends every thread of a process between any two steps and runs no
  `finally`. `Guarded` threads take the in-flight slot. `Reconcile` is a pass of
  `reconcile`, each of its reads a step: the state (`Snapshot`), whether there is a
  marker (`LookMarker`), its owner (`LookOwner`; a marker that is blank, or gone since,
  has none), whether the PID that was read is alive (`LookAlive`), the counter
  (`LookCount`), or the removal of the marker (`ClearStale`). `steady` is history: the
  runs that had written their PID and were at work when the pass read the state, and
  have not been followed by another of the thread. `kills` is history: the deaths the loop
  guard should know of. `EnterFails` is an append
  or a marker that cannot be written before the `try` is entered: it counts like a
  death, as the code has it. `SupersededMeanwhile` is `supersede` as Stage 2 sees it: it takes no
  slot, so the row may become `superseded` under a run, and the guarded writes of
  the run are then refused.
* **`SignOff`** (extends `JobStore`) – operators, each in some operation (`op`)
  with its locals (`mem`). An operation reads, writes files, commits one state and
  logs one event; each is a step; `Crash(o)` ends it anywhere. Missing arguments
  (no reason, no attestation, no redline override) refuse before anything is
  written and are not steps. The job starts where Stage 2 leaves it, or with an
  operator who has been there early and holds the draft of an earlier run
  (`EarlyPacket`). `Notify` is `send_notification`: a look at the state, a request
  whose failure may come before or after it was delivered, an event; `sent` is what
  the group has seen. The cover of a packet goes through `cover.jpg.tmp`, the one name
  all packets use: it is opened (and cut short for whoever is copying to it), written
  to its end, renamed, unlinked in the `finally`, and `cover.jpg` is hashed; `handle`
  is the file a packet has open, which a rename by another may have put in `cover.jpg`
  meanwhile. `shared` is history: a packet has opened the copy of another.
* **`Lcp`** (extends `Stage2`, instances `SignOff` over the same row, draft, cover and
  log) – the two together.
* **`Artifact`** – what the sign-off promises in four actions: something is frozen,
  signed as it was frozen, recorded as it was signed, or closed.
* **`Stage1`** – crawlers in `stage1`, each with at most one child, and feeds in
  `ingest_items`. `raw`, `manifest` and `hash` hold the *content* they are made of,
  so that equality is equality of hashes. `Timeout` kills the child at any step of
  it, `Crash` kills the parent and leaves the child running, `FeedDies` ends an
  ingest between the source file and the row. `alone` is history: no attempt, nor
  the child of one whose parent died, has overlapped another yet. `ingested` is
  history: the row was created by an ingest. The events of a crawl in the log are
  left out.
* **`GuiJobs`** – one job's entry in the in-flight set and in `_status`; each call
  has a handler, a worker and a cleanup timer.
* **`AuditLog`** – the file as a sequence of lines, a line being a record or `Torn`;
  `ended` says whether the last has its newline. A write that stops short leaves
  nothing, a part or all but the newline there, and the rest in the buffer (`left`),
  which the `with` writes on its way out, after the `finally` has dropped the lock
  (`Close`); `late` is history: it has. A record's hash is what goes into
  it (the hash before it and its event), which is what collision freedom means.
* **`Dashboard`** (extends `AuditLog`) – who appends what: calls of `process` and of
  `resolve --relint`, each with the `ts` its shell has minted, that say the gates
  of a job in order, stop or die between two of them, and then write the row; and
  what `iter_events` and `aggregate_audit` make of the file. `shared` is history:
  the jobs two calls have been in at once.
* **`LlmClient`** – `chat` as three steps (the cool-down gate, the client's own
  checks, the request) and a clock; `failures` and `until` are the client's two
  fields, `failed` is history: when the failures of the current streak happened.
  There is one client per `Pipeline`, called in sequence.
* **`Settings`** (extends `LlmClient`) – calls of `save_settings` that overlap, each
  with an endpoint of its own, `init_workspace` beside them, and the shell of the
  client: it loads the file when it starts and the key at its first request
  (`ResolveKey`): that of the keyring or, when the keyring has none or raises, that of
  its environment. Keys are numbered in the order they were stored, and the one of the
  environment, which was there before any save, is 0. `given` is history: the key an
  endpoint was saved with; so is `passedOver`: the keyring had a key and did not give it.
* **`Scraper`** – runs of `gossip_scraper` over the boards platforms answer with:
  merge, velocity, filter, ranks, then the history of ranks through the one
  temporary file, or a snapshot. Files have an identity and names point to them,
  so that two runs may write into one and rename it under each other. Scores are
  scaled to integers. The loop of `dedup` is said by its result: a topic opens a group
  (`Opens`) when it is like none that opened one before, or joins the first it is like.
* **`ScraperHealth`** – the health log of all runs, without a lock: `record` takes the
  time of its line (`Record`), appends it (`AddLine`), reads the file to see whether it
  is too long (`Measure`), opens it for writing, which empties it (`Trim`), puts the
  last lines back (`Refill`), and reads it once more for the rate (`Rate`); `alarm` is
  who says ERROR in that step.
* **`Rules`** – the pure part: what each gate says of the facts it is given. A fact
  that the code may lack (an asset that cannot be read, a stream without a bitrate,
  a blank body, a missing index) is `None`, and each operator treats it as the code
  does. Texts are reduced to what the rules tell apart: lengths, identity, and a
  similarity in tenths. Where LSH may or must recall an entry, it *may* recall any
  and *must* recall an equal body.
* **`Verdict`** (extends `Rules`) – the gates of one run in the order of
  `gate_registry` and `_process_inner`, up to the state the job rests at, and
  `resolve --relint` after it. Facts are drawn when a gate first looks at them.
  How runs interleave and die is `Stage2`, which takes verdicts as inputs; what
  the verdicts are is here, where nothing raises.
* **`MC*`** – the instances TLC runs. **`*Proofs`** – theorems.

The operators whose comment begins with "Mutant" are not part of the model: each
is a plausible bug of the definition below it, kept to show that the property
named in `PROJECT.json` would notice it.

## What the runs show

| Run | Instance | Shows |
|---|---|---|
| `stage2` | two server threads in one slot, a second process that lists, 3 PIDs, 2 deaths, loop guard of 1, two gate findings, a clean and an unsound draft, supersede beside it | `CountIsExact`: the marker and the counter together tell hard deaths and nothing else, and the loop guard trips on nothing else. `ProcessedDraftIsClean`, `DraftFrozen`: what was judged is what is stored. `SparesTheLiving`: the worklist, whose five reads are five steps, flags no run that was at work when it began and is still, and clears no marker of a live run |
| `stage2_gates` | one thread, one death, every gate finding that holds the job or ends it, a draft that is clean and one that is cut short, ungrounded or unclassified, fairness of the thread | `ParkedHasEvidence`: whatever dies, the log explains the row. `RunsEnd`: every run ends and gives its slot back |
| `sign_off` | two operators, one death, two drafts held for grounding of which lint clears one | `DecisionsAreTrue`: the log reports no decision the row has not taken, none twice. `FilesBeforeState`: no state without the files it needs. `AnnouncedWasReviewed`: the group is shown what was put to review, with the cover that was frozen unless a packet opened the copy of another, and a notification in the log has got there |
| `lcp` | one thread that may die once, one operator who may die once, a clean draft and an ungrounded one, a hold for a duplicate | `SignedIsStored`, `ReviewedIsFrozen`, and `ReviewKeepsArtifact`: refinement of `Artifact` |
| `stage1` | a crawler of the server, one of the shell, a local ingest, a feed; a content that lands, one that is sent back, one that fails; one death of a parent or a feed | `BundleIsWhole` while no attempts have overlapped; `CrawledIsKept`, in its weaker half however they do; `StateMatchesHash`, `GossipSourceKept` in any case |
| `gui_jobs` | two background calls and a synchronous one, fairness | `OnePass`, `SlotIsFreed`, `PollEnds` |
| `audit_log` | two writers, two jobs, three calls, five lines, one short write, up to a close that writes late | `ChainVerifies`: what decodes is one chain of what was said. `FunnelIsTrue`: a job counted at a gate is counted at those before it. `GapsAreOfOneRun`: only the wait for a relint is ever a gap between calls |
| `llm_client` | two saves, an init, threshold 2, window of 2 ticks, 7 ticks, a key in the environment or none | `ClientIsFit`, `SparesProvider`, `SkippedForCause` |
| `verdict` | all combinations of risk findings, then a re-lint; assets, indexes, answers and copies each with one or two facts changed, at the limits and next to them | `UnmeasuredNeverPasses`, `TerminalNeedsEvidence`, `SeenIsNotUnique`, `ProcessedWasWritten` |
| `scraper` | two processes, three runs (plain, filtered, snapshot), one death, two platforms, three titles of which one is like two that are not alike; beside it three records of two writers, one of them killed or none, a log of one line, two samples, a window shorter than a tick | `HistoryIsARun`, `NothingFetchedIsLost`, `AlarmIsDeserved` |

Most also check the type invariant of their module. Two runs end in a violation:
the code does not do what a comment of it says, and a finding in `PROJECT.json`
quotes the line.

| Run | Property | What happens |
|---|---|---|
| `stage2_batch` | `FailureKeepsMarker` | a run that raises removes the marker the batch relies on to show it |
| `stage1_retry` | `CrawlFailedWroteNothing` | `crawl_failed` leaves a manifest, and every retry fails on it |

**Conditions in the properties.** `BundleIsWhole` and `CrawledIsKept` hold while
attempts do not overlap (`alone`): with two crawls at once, of the shell and the
server, the loser clears the winner's files. `SeenIsNotUnique` asks for one line
per job in the site index: with two, the recall uses the first body and the
comparison the last. `CountIsExact`, `DraftFrozen` and `ProcessedDraftIsClean` hold
where every run takes the in-flight slot; the batch does not. `SparesTheLiving` speaks
of the runs that were at work when the listing began: of one that begins or ends
during it the listing may be wrong. `AnnouncedWasReviewed` asks for the frozen cover
as long as no packet has opened the copy of another (`shared`), and
`ReviewKeepsArtifact` is of one operator at a time. `ClientIsFit` excepts the key of the
environment when the keyring has one and does not give it (`passedOver`).
`ChainVerifies`, the first half of `FunnelIsTrue` and `GapsAreOfOneRun` hold until a
close writes late what a failed write had left (`late`); `GapsAreOfOneRun` leaves out
jobs two calls were in at once, and the other half of `FunnelIsTrue` asks that no write
stopped short. `HistoryIsARun` holds while no two runs of the scraper overlap. Each is a
limit of the code, listed in the next section.

## Disagreements seen while modelling

Besides the two findings, the models showed these behaviours of the code. No
run is kept for them: a property that forbids them would be violated, and the
ones above are worded so as not to claim more than the code gives.

* A run that is alive in another process is counted as a crash of this one:
  `is_processing` does not look at the PID (`pipeline.py:445`).
* "A marker owned by THIS process or any still-running process is in-flight work ... and
  is skipped — NOT mis-flagged as a crash" (`pipeline.py:846`). Not so when the marker
  changes between the reads of the listing. It is blank between `open` and `write`
  (`job_store.py:448`) and gone once a run has ended: `processing_owner_pid` is None of
  both, and the job, healthy or even done, is called interrupted (`pipeline.py:867`).
  And a dead run's PID may be read, a retry stamp its own, and the probe be of the dead.
* A second run outside the slot overwrites the draft of a job that the first has
  processed (`pipeline.py:609`); a packet may freeze a draft that Stage 2 has
  replaced since it was loaded (`cli.py:394`), and approve then refuses it.
* `SIGNOFF_INVALIDATED` is logged for a job that was pending and never signed
  (`signoff.py:607`), and before the state is written, which may be refused
  (`signoff.py:608`).
* A reject that looked before the packet was there rejects the packet without its
  hash (`signoff.py:306`).
* "Reject a REVIEW_PENDING / APPROVED / NEEDS_HUMAN_REVIEW job -> REJECTED"
  (`signoff.py:288`): an approved job is never rejected. `_TRANSITIONS` has no such edge
  (`state.py:107`), `set_state` refuses it, and `DecisionsAreTrue` says so.
* "Atomic copy: write to temp then os.replace so a crash mid-copy never leaves a partial
  cover.jpg" (`review_packet.py:239`) is true of one packet alone. Two copy to one
  `cover.jpg.tmp` (`:241`): the rename of the first may take the copy the second has
  just opened, cut short and still to be written, and `cover_sha` is then the hash of a
  cover that changes a moment later (`:254`); the second may find nothing to rename.
* A job held before its draft was written and then resolved is processed without a
  draft: nothing can freeze, reprocess or supersede it (`signoff.py:428`).
* A second packet that is late rewrites the freeze record under an approval, and
  backfill binds to that record (`signoff.py:472`, `:499`).
* The loser of two crawls clears the winner's `raw/` (`crawl_runner.py:58`); a
  child that is killed late leaves a manifest without its files
  (`crawl_runner.py:158`).
* A task may be shown as done, with the result of the one before, while it runs
  (`gui.py:437`).
* An audit record that has lost its newline is spoilt by the next append
  (`audit_log.py:268`).
* The lock is "held ACROSS read-tail + write" (`audit_log.py:241`), but not across a
  close that writes: when `flush` fails and there is room a moment later, the `with`
  writes what the buffer still holds after `LOCK_UN` (`:247`, `:278`), and two lines may
  claim one place in the chain.
* A line of the site index that is cut inside a multi-byte character raises
  `UnicodeDecodeError` out of `load_site_index`, whose docstring says it does not
  raise; the LSH cache is keyed without `k`.
* "Pieces are grounded like the body" (near `pipeline.py:594`) is not true of FAQ
  questions and title candidates; the cool-down called per-process is per
  `Pipeline` (`pipeline.py:298`).
* `detect_black_segments` does not look at ffmpeg's exit status, so a scan that
  failed counts as one that found nothing, and it scans the first 60 s only
  (`ffprobe.py:221`).

* The re-lint asks for a video section when the report counts a video; the first
  lint never does, for no shell sets `has_videos` (`pipeline.py:648`), and no draft
  has one. "A re-lint after a grounding hold applies the same media-conditional
  requirements the first lint would have" (`media_checker.py:57`) is not so.
* An append or a marker that fails at entry leaves the marker of the run before,
  and every further attempt is counted as a death (`pipeline.py:446`).
* A notification carries the title of the draft that was loaded before the state
  was looked at (`gui.py:992`), so that the title and the cover may be of different
  drafts; one that timed out after it was delivered is logged
  `NOTIFICATION_FAILED`, and sent again.
* `init_workspace` looks whether there is a config and writes one later: a save in
  between is overwritten by the example, "NEVER clobbering an existing config"
  (`config_io.py:236`). Of two saves at once the host of the first is lost with it.
* `resolve_api_key` swallows whatever the keyring raises (`config_io.py:63`): with a
  key in `LCP_LLM_API_KEY`, however old, that one then goes to the endpoint that was
  saved with the key in the keyring.
* "Any black on a short clip ... -> needs_revision" (`asset_rules.py:316`): of a clip
  whose duration is known, however short, only the ratio counts; any black sends back
  one whose duration is not.
* `_GATE_ORDER` has dedup before media, the runs have media before dedup
  (`audit_aggregate.py:60`, `gate_registry.py:114`): the gap between the two is
  dropped in every run. All events of a run carry one `ts`, so that each gap in a
  run is 0 seconds, and the only one that is not is the wait for a relint.
* Two runs of the scraper at once share `.gossip_history.json.tmp`: the history may
  end up empty, or a mixture that no run has written, and the second rename raises
  `FileNotFoundError`; "concurrent writers each win their own round"
  (`trend.py:91`). A mixture that breaks off inside a character raises
  `UnicodeDecodeError` out of `_load_history` in every later run (`trend.py:82`).
* "Zero = new or unchanged" (`trend.py:25`): a new topic gets 0.5. A velocity is the
  rank on the platform against the composite rank of the run before
  (`trend.py:41`), and a run with `--category` leaves a history of that category
  alone.
* Two runs that truncate the health log at once lose records, and a platform that
  fails every time may raise no alarm (`health.py:68`).

**Bounds.** `MaxDeaths`, `MaxCrashes`, `MaxTears`, `MaxKills` bound how often something
dies or stops short, `MaxCount`, `MaxLines`, `MaxCalls`, `MaxStarts`, `MaxFetches`
and `MaxTime`, `MaxClock` stop the counters, the calls and the clocks; nothing else
is cut. Two actors on one job are enough for every race here: each
operation commits the row once, and what a third could do it could do as the
second; `stage1` has four because crawl, local ingest and feed differ.
`MaxAttempts` is 1 where the code has 3, so that exhaustion is reached within
two deaths; the threshold and window of the client are 2 where the code has 3
and 60 s, so that seven ticks hold a streak, two windows and another streak. A log of
one line makes every second record truncate, and a tick longer than the window tells
the records inside it from those outside. Two
drafts suffice to tell "the draft that was judged" from another one; the gates run
has a draft for each verdict but `unsound`, which `stage2` has, and leaves out the
finding that only sends a job back for revision, where no evidence is asked for. A
crawl with a warning differs from a clean one in the name of the state alone, so
`stage1` has no content for it. The facts of `verdict` are those the rules
branch on: for a limit the values at it and beyond it, for a measurement also
its absence; at most a few assets and index lines, since a gate's verdict is a
conjunction or a disjunction over them. Symmetry is used over PIDs, threads,
operators and writers of equal standing, in runs of safety properties only.

Four runs have a `VIEW`, which leaves out what no step reads and no property of the
run is about, so that it merges only states with the same future: the audit log, the
messages sent and two histories (`steady`, `shared`) in `lcp` (`Unsaid`); all of the log
in `sign_off` but which decisions it reports (`Heard`; it only grows, and its
properties ask for nothing else); in `scraper` the snapshots, and of the records that
were made their order (`NoSnapshots`); in `audit_log` a tail that is read again before
it is used, how far a rest had got where its record is not asked for any more, and what
was said once a write has stopped short (`InUse`). That run also stops at the first late
close (`InTime`), after which its properties say nothing but the types.

Deadlock is not checked: a job at rest may stay at rest.

**Fairness.** `Stage2` has weak fairness for a thread that is inside `process()`:
a Python thread that can run goes on, and the LLM, the child processes and the
locks it waits for have timeouts. `GuiJobs` has it for handlers, workers and
timers alike. Nobody is assumed to call, restart or look.

## What is proved

`LcpProofs` proves of `Stage2`, for any threads, processes, PIDs, gates, drafts and
bounds - only what `DraftAssumption` and `StageTwoAssumption` say of them:

* `TypeCorrect`: `Spec => []Stage2TypeOK`.
* `EvidenceBeforeState`: `Spec => []ParkedHasEvidence`. The invariant is not
  inductive: it says nothing of a run that has logged and not yet persisted. The
  strengthening adds that whatever a thread at `persist` is about to write is
  already explained by the log; since the log only grows, the step that persists
  has its evidence. It needs no exclusion: it holds however many runs there are.
* `ProcessedIsClean` and `DraftStaysFrozen`, both assuming `Exclusive` (every run
  goes through the in-flight slot of one server). The inductive invariant says
  that at most the thread in `inflight` is under way, that it entered with the row
  in `ReconcilableStates` and has left it there (or it was superseded meanwhile)
  until it commits, and that from `save` on the stored draft is the one it holds.
  Without the assumption both are false: see the disagreements.
* `CountStaysExact`: `CountIsExact`, under the same assumption. Not inductive as it
  stands: a death is in the marker before it is in the counter. `CountInv` says that
  the deaths are the counter plus one for a marker nobody is under way for (`Pending`)
  as long as the job can be processed, and no fewer than that otherwise; that no
  marker is left where the counter is reset; and what a pass of the worklist that is
  about to remove a marker must have read, so that it removes none that is still to
  be counted.
* `WorklistSparesTheLiving`: `SparesTheLiving`, an action property, under the same
  assumption. The listing reads the row, the marker, its owner, the PIDs and the counter
  in steps of their own, so the invariant (`SparesInv`, on top of `CountInv`) says what
  can have happened between them: as long as a run in `steady` is at work the marker is
  the PID of its process, so that the owner which was read is that one, it is alive, and
  the listing never gets to the counter; and while it is about to clear a marker only a
  run on a superseded job can be under way.

and of `Lcp`, Stage 2 and the operators on one job. Without any assumption on how runs
are started:

* `LcpTypeCorrect`: the types of both.
* `DecisionsAreRealBesideStageTwo`: `DecisionsAreTrue`. Stage 2 says no event of a
  decision (`StageTwoSays`) and moves the row only from `ReconcilableStates`
  (`StageTwoMovesTheUndecided`), where by `Settled` no decision can have been taken.
* `EveryJobIsExplained`: `JobIsExplained` - a job that is blocked, a duplicate or on
  hold has the event of the gate that put it there, and none is processed, under
  review, approved or published unless lint had passed its draft or a gate had held it
  for a human, who overrode it. `ParkedHasEvidence` alone does not survive the
  operators: an override makes a job processed that no lint passed. `ExplainedInv`
  says what the row, and each run about to persist, have in the log; a person takes a
  job past the gates only from where they have left it.

And with `Exclusive`:

* `ReviewedStaysFrozen`: `ReviewedIsFrozen`, an action property, for any number of
  operators. A decision of an operator moves the row while a run is in the slot; what
  the run knows of the row (`SlotInv`) outlives it, because from where it stands
  an operator can only supersede (`PersonMoves`).
* `CountStaysExactBesidePeople` and `WorklistSparesBesidePeople`: the two properties of
  `Stage2` while people decide. `CountInv` and `SparesInv` rest on `SlotInv`, which
  people keep, and they never bring a job back to where it is processed
  (`PeopleNeverReopen`): `WatchInv` is the conjunction.
* `FilesComeFirstBesideStageTwo` and `OnlyReviewedIsAnnouncedBesideStageTwo`. Stage 2
  composes the cover that a packet freezes, so the two can disturb each other.
  `Undisturbed` says why they do not: as long as the job can be processed, or a run
  that has not committed is under way - also on a job superseded under it - no packet
  was ever begun.
* `SignedStaysStored`: `SignedIsStored`, with one operator (`OneOperator`; the freeze
  record has no lock, see the disagreements). `ReviewInv` joins the slot of Stage 2 to
  the `SignedInv` of the operator below: no step of a run disturbs what the operator
  has read, for it writes the draft only where nothing is frozen.
* `LcpKeepsArtifact`: `LcpSpec => ReviewKeepsArtifact`, the refinement of `Artifact`.
  The initial states map to initial states, the step that commits a packet to
  `Freeze`, approve's to `Sign`, and every other one to a step of `Artifact` or a
  stutter, by cases over the operations.

`SignOffProofs` proves, for any operators, drafts, covers and number of deaths:

* `DecisionsAreReal`: `Spec => []DecisionsAreTrue`. What is not inductive is a
  commit that has been made and not yet reported; the strengthening (`DecisionsInv`)
  adds where the row may be while an operator has an event left to say (`Taken`), and
  where it must be once an event of a decision is in the log (`Settled`).
  Who takes an edge is the first, because `set_state` has seen the row at its origin
  and no edge leads back; so nobody else is at the same step and nobody was.
* `FilesComeFirst` and `OnlyReviewedIsAnnounced`: `FilesBeforeState` and
  `AnnouncedWasReviewed`. A second packet may be written over the first after the
  job went to review, so the strengthening (`FilesInv`) is about all packets: as long as
  none has opened the copy of another, one at most is between the opening and the
  rename, the file it renames is whole, and every one freezes the cover Stage 2 has
  left, which stays.
* `AloneSignsWhatIsStored`: with a single operator, whatever dies and however late the
  draft the shell has loaded, what is approved is what is stored. `SignedInv` says
  what an operation relies on at each of its steps while the job is not superseded
  (`Binds`), and that a job under review has a packet of one piece.
* `SignOffTypeCorrect`: a frozen body is a draft, because `build_review_packet` is
  only called with one that was loaded (`Loaded`).

`Stage1Proofs` proves, for any crawlers, feeds, contents and number of deaths:

* `StateAndHashAgree` and `IngestedSourceStays`, however attempts overlap. The first
  rests on what each attempt has in hand at its step (`InHand`); the second on
  `SourceInv`: without a row nobody is where `source.json` is overwritten, and who
  created the row by ingesting had written the file before.
* `CrawledIsWhole` and `CrawledStays`, whose stronger half assumes `alone` as the
  properties do. `AloneInv`: of the attempts and their children one is active, it
  has not crawled the job yet, and at each step the files on disk are what it has in
  hand; a crawled job has none. `CrawledStays` is an action property.
* `Stage1TypeCorrect`.

`GuiJobsProofs` proves `OnePassOnly` (and `GuiTypeCorrect`) for any handlers: the
slot is taken exactly while one call holds it. The strengthening says that a handler
and its worker never hold at once: before the launch there is no worker.

`AuditLogProofs` proves, for any writers, jobs, calls and tears:

* `LogIsOneChain`: `Spec => []ChainVerifies`. The strengthening (`LogInv`) is the lock
  (who is at work holds it) and, until a close has written late, that a writer which is
  about to write still knows the tail of the file and that a torn line is the last one.
* `CallsWriteTheLog`: `DashSpec => Spec`, so that the log the dashboard reads is that
  log; `DashTypeCorrect`.
* `DashboardCountsTrue`: `FunnelIsTrue`. The two lines it is about may be far apart, so
  `FunnelInv` says what is owed to lines already written: what a call is about to say
  has its predecessor in the log (`Backed`), and a held row its hold (`HeldBacked`).
  A torn line ends all that, because nothing can be appended to it (`Dead`).
* `GapsStayInOneRun`: `GapsAreOfOneRun`. `GapInv` says of every job that two calls have
  not shared: one call at a time, the last line of the job is of that call or one a
  relint may follow (`Trail`, `HeldTrail`), and so for any two neighbouring lines
  (`Aligned`). That the pairs `aggregate_audit` makes by sorting on `seq` are
  neighbours in the file follows from the chain.

`LlmClientProofs` proves, for any threshold, window and duration of calls
(`ClientAssumption`):

* `ProviderIsSpared`: `Spec => []SparesProvider`. From the `Threshold`-th failure
  in a row on, failures are a window apart. The invariant says nothing of the
  request that is about to fail; the strengthening ties the client's fields to the
  history (the counter is the length of the streak, the deadline is its last
  failure plus the window) and adds that with a long streak nobody is past the
  gate before that deadline.
* `SkipsAreCaused`: `Spec => SkippedForCause`, an action property from the same
  invariant: a call is skipped only after that many failures and within the window
  of the last.

and of `Settings`, for any finite number of saves:

* `ClientStaysFit`: `SettingsSpec => []ClientIsFit`. An address is in the file, or
  loaded, only when its save is through, and no key an address was saved with is
  newer than the keyring; the client reads the keyring after the file. When it gets the
  key of the environment, either none has been stored, and the address was saved with
  none, or the keyring was passed over.
* `SettingsKeepTheClient`: `SettingsSpec => Spec` of `LlmClient`, a refinement, and
  from it `ProviderIsSparedBesideSaves`.
* `SettingsTypeCorrect`: there are no more keys than saves, which is a fact about a
  cardinality.

`VerdictProofs` proves, for any texts, cases, assets, site indexes, answers and
limits (`VerdictAssumption`):

* `NothingPassesUnmeasured`, `NothingIsLostUnseen`, `SeenNeverPasses`,
  `ProcessedIsWritten` and `VerdictTypeCorrect`: the properties of `Verdict`. They are
  about what is left of a run after its last gate, so `FactsInv` keeps for every gate
  that is past the verdict it gave on facts that have not changed, and `DraftInv`
  which answer the draft was made of. What the rules say then is in lemmas about the
  operators of `Rules`: `RiskBlocks`, `MediaMeasured` (a comparison with a missing
  measurement fails), `DuplicateHasTwin`, `UniqueHasNoTwin`. The last one is why
  entries of an index are line numbers: of two lines of one id the recall uses the
  first and the score the last.

`ScraperProofs` proves, for any runs, platforms, boards and bounds
(`ScraperAssumption`, `HealthAssumption`):

* `HistoryIsWhole`: `HistoryIsARun`. Until two runs overlap (`OneRun`), the file a run
  writes is its own and not the one the history names (`OwnTmp`), so that a death
  between `open` and `replace` leaves the history as it was.
* `NothingIsDropped`: `NothingFetchedIsLost`. Every topic is in the group of one that
  opens a group (`InAGroup`), a group keeps the platforms of its topics (`MergeKeeps`),
  and sorting drops none: `Nth` gives each topic a place, and a counting lemma shows
  that every place has one. Where the algorithm is a recursive function (`Opens`), its
  equation is proved for every index first, and what it says by the least
  counterexample. `ScraperAssumption` says that likeness is symmetric and that a title
  like any other is like itself (a title that normalizes to nothing is like none,
  itself included), that heats and drama scores are integers, and that runs are asked
  for the orders `--sort-by` offers.
* `AlarmsAreDeserved`: `AlarmIsDeserved`, an action property. `HealthInv` says that the
  log, and what each writer has in hand to put back, embeds in the records that were
  made (`Embeds`: an injection of its lines): a failure counted in it is a failure
  there was. Truncations of other runs may lose lines, never add one.
* `ScraperTypesCorrect` (from `ScraperTypeCorrect` and `HealthTypeCorrect`). The bound on
  the length of the log was found by this proof: a run that is killed between its
  append and the truncation leaves one line more than `_MAX_RECORDS`, until a later
  record truncates (`health.py:57`). On the small instance a bound without the kills
  held; in general it does not, and the invariant now counts the writers that have
  appended and are about to measure or to truncate, and the kills.

The only assumptions are the named ones of the modules and, where the statement
says so, `Exclusive`, `OneOperator` or `Alone`. What they say of the constants is
what the code, or the meaning of a fact, guarantees; the others are finiteness
(`IsFiniteSet` of writers, runs and files) and the types of bounds. Each proof has a step per action or per group of
actions, and the theorem combines the initial, the inductive and the implying fact
by `PTL`.

**Only model-checked:** the liveness properties `RunsEnd`, `SlotIsFreed` and
`PollEnds`: fairness and `ENABLED` are out of the prover's reach. Every other property
of a passing run is stated by a theorem.

## Plan

Done: `JobState`, `JobStore`, `Stage2`, `SignOff` with the notification,
`Lcp`/`Artifact`, `Stage1` with the ingest of a batch, `GuiJobs`,
`AuditLog`/`Dashboard`, `LlmClient`/`Settings`, `Rules`/`Verdict`, `Scraper` with its
health log, and the proofs above.

Next, in this order:

1. `sop_steps` - the fold of a job's state and events into what the operator is told
   to do next, as an operator over `JobState`.
2. The table of saved sources, and the stage within a polled status.

**Not modelled, on purpose:** `delete_job`, which no shell calls; the table of saved
sources, whose calls are one statement each; the matching of texts, images and
addresses (regular expressions, shingles, SimHash, SSRF rules) and the codecs, whose
results are facts of `Rules` or inputs; the scrapers of single platforms, the
enrichment and the text of the alerts in `gossip_scraper`; prompt wording and
templates; HTML escaping, authorisation of requests and the browser front end. They
are pure functions of data, or I/O whose outcome the modules above take as an input.
