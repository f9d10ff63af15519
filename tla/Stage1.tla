------------------------------- MODULE Stage1 -------------------------------
(***************************************************************************)
(* Stage 1 of one job: Pipeline.stage1, the crawl of a URL by a child      *)
(* process (crawl_runner, scrapy_impl) or the ingest of a local folder     *)
(* (ingest), and what they leave: the row and its hash, source.json, the   *)
(* raw directory and the manifest. Also what gossip_ingest does to the job *)
(* of an item: its source.json, and its row.                               *)
(*                                                                         *)
(* The parent waits for its child, kills it when it takes too long, and    *)
(* believes the manifest when it ends well. A parent that dies does not    *)
(* take its child along. A crawler in Guarded takes the GUI server's       *)
(* in-flight slot; the others - the CLI, the ingest routes - do not.       *)
(***************************************************************************)
EXTENDS JobState, Naturals

CONSTANTS
    Crawlers,     \* those who may call stage1 on the job
    Feeds,        \* those who may ingest a batch with the item of the job
    Local,        \* the crawlers that ingest a folder; the others crawl a URL
    Guarded,      \* the crawlers that hold the in-flight slot while they run
    Contents,     \* what may be found there; equality stands for equal hashes
    Status,       \* derive_status: what a crawl that finds it reports
    None,         \* no row, no hash, no file
    MaxCrashes    \* bound: how often a parent or an ingest may die

\* STATUS_*: the crawl statuses, and _CRAWL_STATUS_TO_STATE.
Statuses == {"crawled", "crawled_warn", "needs_revision", "crawl_failed"}
Target(c) == IF Status[c] = "needs_revision" THEN "crawled_warn" ELSE Status[c]

ASSUME StageOneAssumption ==
    /\ Local \subseteq Crawlers
    /\ Guarded \subseteq Crawlers
    /\ Status \in [Contents -> Statuses]
    /\ None \notin Contents \cup RestingStates \cup {"url", "gossip"}
    /\ MaxCrashes \in Nat

VARIABLES
    state,      \* the row's state, None when there is no row
    hash,       \* the row's source_text_sha256: the content it is the hash of
    source,     \* the platform in source.json
    raw,        \* the content of raw/
    manifest,   \* the content manifest.json describes
    pc,         \* where in stage1 each crawler is
    child,      \* what its child process does
    found,      \* the content the child, or the ingest, has extracted
    bundle,     \* the content of the manifest the parent has read
    feed,       \* where in ingest_items each feed is with the item of the job
    crashes,
    alone,      \* history: so far every attempt, and the child of one whose parent
                \* died, was over before the next began
    ingested    \* history: the row was created by ingest_items

rowVars == <<state, hash>>
fileVars == <<source, raw, manifest>>
crawlVars == <<child, found>>
history == <<feed, crashes, alone, ingested>>
vars == <<rowVars, fileVars, pc, crawlVars, bundle, history>>

Labels == {"idle", "create", "source", "overwrite", "reset", "crawl", "wait",
           "read", "clear", "ingest", "check", "manifest", "persist"}

\* The steps of a child that runs, and its exit code.
ChildSteps == {"fetch", "check", "write"}
ChildStates == {"none", "ok", "failed"} \cup ChildSteps

Stage1TypeOK ==
    /\ state \in RestingStates \cup {None}
    /\ hash \in Contents \cup {None}
    /\ source \in {"url", "gossip", None}
    /\ raw \in Contents \cup {None}
    /\ manifest \in Contents \cup {None}
    /\ pc \in [Crawlers -> Labels]
    /\ child \in [Crawlers -> ChildStates]
    /\ found \in [Crawlers -> Contents \cup {None}]
    /\ bundle \in [Crawlers -> Contents \cup {None}]
    /\ feed \in [Feeds -> {"idle", "source", "create"}]
    /\ crashes \in Nat
    /\ {alone, ingested} \subseteq BOOLEAN

Go(t, from, to) ==
    /\ pc[t] = from
    /\ pc' = [pc EXCEPT ![t] = to]

Running(t) == child[t] \in ChildSteps

NobodyElse(t) == \A u \in Crawlers \ {t} : pc[u] = "idle" /\ ~Running(u)

-----------------------------------------------------------------------------
(***************************************************************************)
(* Pipeline.stage1, up to the crawl                                        *)
(***************************************************************************)

\* Mutant: a job that is crawled is crawled again.
BeginAgain(t) ==
    /\ t \in Guarded => \A u \in Guarded : pc[u] = "idle"
    /\ child[t] = "none"
    /\ \/ state = None /\ Go(t, "idle", "create")
       \/ state = "crawl_failed" /\ Go(t, "idle", "overwrite")
       \/ state \notin {None, "crawl_failed"} /\ Go(t, "idle", "crawl")
    /\ alone' = (alone /\ NobodyElse(t))
    /\ UNCHANGED <<rowVars, fileVars, crawlVars, bundle, feed, crashes, ingested>>

\* get_job, and where stage1 goes from there. A job that is already crawled is
\* refused. (A crawler starts once; its next attempt is another crawler's, or
\* its own when its child is gone.)
Begin(t) ==
    /\ t \in Guarded => \A u \in Guarded : pc[u] = "idle"
    /\ child[t] = "none"
    /\ \/ state = None /\ Go(t, "idle", "create")
       \/ state = "crawl_failed" /\ Go(t, "idle", "overwrite")
       \/ state = "new" /\ Go(t, "idle", "crawl")
    /\ alone' = (alone /\ NobodyElse(t))
    /\ UNCHANGED <<rowVars, fileVars, crawlVars, bundle, feed, crashes, ingested>>

\* Mutant: the row is inserted in the transient state.
CreateProcessing(t) ==
    /\ Go(t, "create", "source")
    /\ state = None
    /\ state' = "processing"
    /\ hash' = None
    /\ UNCHANGED <<fileVars, crawlVars, bundle, history>>

\* create_job: the row may have been inserted meanwhile.
CreateJob(t) ==
    \/ /\ Go(t, "create", "source")
       /\ state = None
       /\ state' = "new"
       /\ hash' = None
       /\ UNCHANGED <<fileVars, crawlVars, bundle, history>>
    \/ /\ Go(t, "create", "idle")
       /\ state # None
       /\ UNCHANGED <<rowVars, fileVars, crawlVars, bundle, history>>

\* _try_write_url_source: for a URL only, and a failure is logged and ignored.
WriteSource(t) ==
    /\ Go(t, "source", "crawl")
    /\ source' \in IF t \in Local THEN {source} ELSE {source, "url"}
    /\ UNCHANGED <<rowVars, raw, manifest, crawlVars, bundle, history>>

\* Mutant: whatever is there is overwritten.
OverwriteAnySource(t) ==
    /\ Go(t, "overwrite", "reset")
    /\ source' \in IF t \in Local THEN {source} ELSE {source, "url"}
    /\ UNCHANGED <<rowVars, raw, manifest, crawlVars, bundle, history>>

\* _try_overwrite_url_source: the same, but a file that came with an ingested
\* item is left alone.
OverwriteSource(t) ==
    /\ Go(t, "overwrite", "reset")
    /\ source' \in IF t \in Local \/ source = "gossip" THEN {source} ELSE {source, "url"}
    /\ UNCHANGED <<rowVars, raw, manifest, crawlVars, bundle, history>>

\* set_state(NEW), or its refusal: another attempt has moved the job.
ResetToNew(t) ==
    \/ /\ Go(t, "reset", "crawl")
       /\ state # None /\ IsLegal(state, "new")
       /\ state' = "new"
       /\ UNCHANGED <<hash, fileVars, crawlVars, bundle, history>>
    \/ /\ Go(t, "reset", "idle")
       /\ state = None \/ ~IsLegal(state, "new")
       /\ UNCHANGED <<rowVars, fileVars, crawlVars, bundle, history>>

-----------------------------------------------------------------------------
(***************************************************************************)
(* CrawlRunner.crawl_url, and its child: scrapy_impl.main                  *)
(***************************************************************************)

\* preflight refuses the URL: not an allowed domain, not a public address.
Preflight(t) ==
    /\ t \notin Local
    /\ Go(t, "crawl", "idle")
    /\ UNCHANGED <<rowVars, fileVars, crawlVars, bundle, history>>

Spawn(t) ==
    /\ t \notin Local
    /\ Go(t, "crawl", "wait")
    /\ child' = [child EXCEPT ![t] = "fetch"]
    /\ UNCHANGED <<rowVars, fileVars, found, bundle, history>>

\* _run_spider and the writes into raw/: whatever was there is overwritten.
ChildFetches(t) ==
    /\ child[t] = "fetch"
    /\ child' = [child EXCEPT ![t] = "check"]
    /\ \E c \in Contents : raw' = c /\ found' = [found EXCEPT ![t] = c]
    /\ UNCHANGED <<rowVars, source, manifest, pc, bundle, history>>

\* Mutant: raw/ is written by a child that was refused, and it says all is well.
ChildIgnores(t) ==
    /\ child[t] = "check"
    /\ child' = [child EXCEPT ![t] = IF manifest = None THEN "write" ELSE "ok"]
    /\ UNCHANGED <<rowVars, fileVars, pc, found, bundle, history>>

\* write_manifest(create_only): a manifest that is there makes the child fail.
\* It is looked for before the new one is written, by a rename over any other.
ChildChecks(t) ==
    /\ child[t] = "check"
    /\ child' = [child EXCEPT ![t] = IF manifest = None THEN "write" ELSE "failed"]
    /\ UNCHANGED <<rowVars, fileVars, pc, found, bundle, history>>

ChildWrites(t) ==
    /\ child[t] = "write"
    /\ child' = [child EXCEPT ![t] = "ok"]
    /\ manifest' = found[t]
    /\ UNCHANGED <<rowVars, source, raw, pc, found, bundle, history>>

\* Any other exception ends the child with an exit code that is not zero.
ChildFails(t) ==
    /\ Running(t)
    /\ child' = [child EXCEPT ![t] = "failed"]
    /\ UNCHANGED <<rowVars, fileVars, pc, found, bundle, history>>

\* A child that nobody waits for is gone when it ends.
ChildIsReaped(t) ==
    /\ child[t] \in {"ok", "failed"}
    /\ pc[t] = "idle"
    /\ child' = [child EXCEPT ![t] = "none"]
    /\ found' = [found EXCEPT ![t] = None]
    /\ UNCHANGED <<rowVars, fileVars, pc, bundle, history>>

\* TimeoutExpired: the child is killed, after its last write too when it has
\* not exited yet.
Timeout(t) ==
    /\ Go(t, "wait", "clear")
    /\ Running(t) \/ child[t] = "ok"
    /\ child' = [child EXCEPT ![t] = "none"]
    /\ found' = [found EXCEPT ![t] = None]
    /\ UNCHANGED <<rowVars, fileVars, bundle, history>>

ChildExits(t) ==
    /\ \/ child[t] = "ok" /\ Go(t, "wait", "read")
       \/ child[t] = "failed" /\ Go(t, "wait", "clear")
    /\ child' = [child EXCEPT ![t] = "none"]
    /\ found' = [found EXCEPT ![t] = None]
    /\ UNCHANGED <<rowVars, fileVars, bundle, history>>

\* _clear_raw, and ExternalServiceError: the manifest and the row stay.
ClearRaw(t) ==
    /\ Go(t, "clear", "idle")
    /\ raw' = None
    /\ UNCHANGED <<rowVars, source, manifest, crawlVars, bundle, history>>

\* read_manifest: the one that is there, whoever has written it.
ReadManifest(t) ==
    /\ Go(t, "read", "persist")
    /\ manifest # None
    /\ bundle' = [bundle EXCEPT ![t] = manifest]
    /\ UNCHANGED <<rowVars, fileVars, crawlVars, history>>

-----------------------------------------------------------------------------
(***************************************************************************)
(* LocalIngestCrawler.crawl                                                *)
(***************************************************************************)

\* The folder is not there, or the job has a manifest: nothing is written.
\* Else its text and its media are copied into raw/.
Ingest(t) ==
    /\ t \in Local
    /\ \/ Go(t, "crawl", "idle")
       \/ manifest = None /\ Go(t, "crawl", "ingest")
    /\ UNCHANGED <<rowVars, fileVars, crawlVars, bundle, history>>

IngestCopies(t) ==
    /\ Go(t, "ingest", "check")
    /\ \E c \in Contents : raw' = c /\ found' = [found EXCEPT ![t] = c]
    /\ UNCHANGED <<rowVars, source, manifest, child, bundle, history>>

\* The manifest, unless there is one by now.
IngestChecks(t) ==
    \/ /\ manifest = None
       /\ Go(t, "check", "manifest")
       /\ UNCHANGED <<rowVars, fileVars, crawlVars, bundle, history>>
    \/ /\ manifest # None
       /\ Go(t, "check", "idle")
       /\ found' = [found EXCEPT ![t] = None]
       /\ UNCHANGED <<rowVars, fileVars, child, bundle, history>>

IngestWrites(t) ==
    /\ Go(t, "manifest", "persist")
    /\ manifest' = found[t]
    /\ bundle' = [bundle EXCEPT ![t] = found[t]]
    /\ found' = [found EXCEPT ![t] = None]
    /\ UNCHANGED <<rowVars, source, raw, child, history>>

-----------------------------------------------------------------------------
\* Mutants: the row is not looked at again; the hash is a transaction of its own,
\* and the first to come.
PersistAny(t) ==
    /\ Go(t, "persist", "idle")
    /\ state' = Target(bundle[t])
    /\ hash' = bundle[t]
    /\ bundle' = [bundle EXCEPT ![t] = None]
    /\ UNCHANGED <<fileVars, crawlVars, history>>
PersistHashFirst(t) ==
    /\ Go(t, "persist", "idle")
    /\ state' = IF state # None /\ IsLegal(state, Target(bundle[t]))
                THEN Target(bundle[t]) ELSE state
    /\ hash' = bundle[t]
    /\ bundle' = [bundle EXCEPT ![t] = None]
    /\ UNCHANGED <<fileVars, crawlVars, history>>

\* persist_crawl_result: the state and the hash in one transaction, or refused.
PersistCrawl(t) ==
    /\ Go(t, "persist", "idle")
    /\ IF state # None /\ IsLegal(state, Target(bundle[t]))
       THEN state' = Target(bundle[t]) /\ hash' = bundle[t]
       ELSE UNCHANGED rowVars
    /\ bundle' = [bundle EXCEPT ![t] = None]
    /\ UNCHANGED <<fileVars, crawlVars, history>>

\* The parent dies. Its child, if it has one, goes on; an ingest ends.
Crash(t) ==
    /\ pc[t] # "idle"
    /\ crashes < MaxCrashes
    /\ crashes' = crashes + 1
    /\ pc' = [pc EXCEPT ![t] = "idle"]
    /\ bundle' = [bundle EXCEPT ![t] = None]
    /\ found' = IF child[t] = "none" THEN [found EXCEPT ![t] = None] ELSE found
    /\ UNCHANGED <<rowVars, fileVars, child, feed, alone, ingested>>

-----------------------------------------------------------------------------
(***************************************************************************)
(* ingest_items, for the item of the job                                   *)
(***************************************************************************)

restOfFeed == <<fileVars, pc, crawlVars, bundle, crashes, alone>>

\* The item has a valid URL, a platform and a title, and comes first in its
\* batch; an item that is skipped touches nothing.
TakeItem(f) ==
    /\ feed[f] = "idle"
    /\ feed' = [feed EXCEPT ![f] = "source"]
    /\ UNCHANGED <<rowVars, restOfFeed, ingested>>

\* write_source: over whatever is there.
FeedSource(f) ==
    /\ feed[f] = "source"
    /\ feed' = [feed EXCEPT ![f] = "create"]
    /\ source' = "gossip"
    /\ UNCHANGED <<rowVars, raw, manifest, pc, crawlVars, bundle, crashes, alone, ingested>>

\* create_job, or already_exists.
FeedCreate(f) ==
    /\ feed[f] = "create"
    /\ feed' = [feed EXCEPT ![f] = "idle"]
    /\ IF state = None
       THEN state' = "new" /\ hash' = None /\ ingested' = TRUE
       ELSE UNCHANGED <<rowVars, ingested>>
    /\ UNCHANGED restOfFeed

FeedDies(f) ==
    /\ feed[f] # "idle"
    /\ crashes < MaxCrashes
    /\ crashes' = crashes + 1
    /\ feed' = [feed EXCEPT ![f] = "idle"]
    /\ UNCHANGED <<rowVars, fileVars, pc, crawlVars, bundle, alone, ingested>>

IngestItem(f) == TakeItem(f) \/ FeedSource(f) \/ FeedCreate(f) \/ FeedDies(f)

-----------------------------------------------------------------------------
Attempt(t) ==
    \/ Begin(t) \/ CreateJob(t) \/ WriteSource(t) \/ OverwriteSource(t) \/ ResetToNew(t)
    \/ Preflight(t) \/ Spawn(t) \/ Timeout(t) \/ ChildExits(t) \/ ClearRaw(t)
    \/ ReadManifest(t)
    \/ Ingest(t) \/ IngestCopies(t) \/ IngestChecks(t) \/ IngestWrites(t)
    \/ PersistCrawl(t)

Child(t) ==
    \/ ChildFetches(t) \/ ChildChecks(t) \/ ChildWrites(t) \/ ChildFails(t)
    \/ ChildIsReaped(t)

\* A job nobody has heard of.
Init ==
    /\ state = None
    /\ hash = None
    /\ source = None
    /\ raw = None
    /\ manifest = None
    /\ pc = [t \in Crawlers |-> "idle"]
    /\ child = [t \in Crawlers |-> "none"]
    /\ found = [t \in Crawlers |-> None]
    /\ bundle = [t \in Crawlers |-> None]
    /\ feed = [f \in Feeds |-> "idle"]
    /\ crashes = 0
    /\ alone = TRUE
    /\ ingested = FALSE

Next ==
    \/ \E t \in Crawlers : Attempt(t) \/ Child(t) \/ Crash(t)
    \/ \E f \in Feeds : IngestItem(f)
Spec == Init /\ [][Next]_vars

-----------------------------------------------------------------------------
(***************************************************************************)
(* Properties                                                              *)
(***************************************************************************)

Crawled == state \in {"crawled", "crawled_warn"}

\* A crawled job is one whole: the row's hash, the manifest and the files in
\* raw/ are those of one crawl, which is what dedup and grounding go by - as long
\* as no two attempts overlap.
BundleIsWhole == alone /\ Crawled => manifest # None /\ hash = manifest /\ raw = manifest

\* Of the attempts that race for the row one lands: a late one cannot undo it, and
\* at most marks a clean crawl down. As long as no two attempts overlap, Stage 1
\* writes no byte of the bundle of a job it has crawled.
CrawledIsKept ==
    [][Crawled => /\ \/ UNCHANGED rowVars
                     \/ state = "crawled" /\ state' = "crawled_warn"
                  /\ alone' => UNCHANGED <<raw, manifest, hash>>]_vars

\* The state and the hash are those of one crawl, whoever else crawls or dies.
StateMatchesHash ==
    Crawled \/ state = "crawl_failed" => hash # None /\ state = Target(hash)

\* A row that ingest has created has its URL, which the deferred crawl reads from
\* source.json: it is there before the row, wherever the ingest dies, and survives
\* every crawl and every retry.
GossipSourceKept == ingested => source = "gossip"

\* A failed crawl has written no bundle, so that a retry has none to clobber.
CrawlFailedWroteNothing == state = "crawl_failed" => manifest = None

=============================================================================
