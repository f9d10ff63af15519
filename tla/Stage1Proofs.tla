---------------------------- MODULE Stage1Proofs ----------------------------
(***************************************************************************)
(* Stage1 for any crawlers, feeds and contents, and any number of deaths:  *)
(* its types, that a row's state and hash are those of one crawl, that the *)
(* source of an ingested item stays, and that a crawled job is one whole   *)
(* that is kept, as long as no two attempts overlap.                       *)
(***************************************************************************)
EXTENDS Stage1, TLAPS

\* What an attempt has in hand at each of its steps. A child is spawned by an
\* attempt without one, and an attempt that begins has none left over.
InHand(t) ==
    /\ pc[t] \notin {"idle", "wait"} => child[t] = "none"
    /\ pc[t] = "wait" => child[t] # "none"
    /\ child[t] \in {"check", "write", "ok"} \/ pc[t] \in {"check", "manifest"} => found[t] # None
    /\ pc[t] = "persist" => bundle[t] # None

RowInv ==
    /\ Stage1TypeOK
    /\ \A t \in Crawlers : InHand(t)
    /\ StateMatchesHash

\* Only who has inserted the row, or finds it failed, writes its source: who ingests
\* an item and inserts the row afterwards finds the source that was written for it.
SourceInv ==
    /\ state = None => /\ \A t \in Crawlers : pc[t] \notin {"source", "overwrite"}
                       /\ \A f \in Feeds : feed[f] = "create" => source = "gossip"
    /\ ingested => /\ state # None
                   /\ source = "gossip"
                   /\ \A t \in Crawlers : pc[t] # "source"

\* An attempt that may still write: it is under way, or its child is.
Active(t) == pc[t] # "idle" \/ Running(t)

\* What the one attempt that is active has made of the bundle.
OneWhole(t) ==
    /\ child[t] \in {"check", "write"} => raw = found[t]
    /\ child[t] = "write" => manifest = None
    /\ pc[t] = "wait" /\ child[t] = "ok" => raw = found[t] /\ manifest = found[t]
    /\ pc[t] = "read" => raw = manifest
    /\ pc[t] \in {"check", "manifest"} => raw = found[t]
    /\ pc[t] = "persist" => raw = bundle[t] /\ manifest = bundle[t]

AloneInv ==
    /\ \A t, u \in Crawlers : Active(t) /\ Active(u) => t = u
    /\ \A t \in Crawlers : Active(t) => OneWhole(t) /\ ~Crawled
    /\ Crawled => manifest # None /\ hash = manifest /\ raw = manifest

WholeInv == alone => AloneInv

\* None is told apart from what it is not, and a crawl has three targets.
LEMMA NoneIsNoState ==
    /\ None \notin RestingStates
    /\ None \notin Contents
    /\ None \notin {"new", "crawled", "crawled_warn", "crawl_failed", "url", "gossip"}
    /\ "new" \in RestingStates
    /\ \A c \in Contents : Target(c) \in {"crawled", "crawled_warn", "crawl_failed"}
  BY StageOneAssumption DEF Target, Statuses, RestingStates, States, TransientStates

\* They are resting states.
LEMMA TargetIsResting == \A c \in Contents : Target(c) \in RestingStates
  BY NoneIsNoState DEF RestingStates, States, TransientStates

\* An attempt: the row only changes in create, reset and persist.
LEMMA AttemptKeepsRow ==
    ASSUME RowInv, NEW t \in Crawlers, Attempt(t)
    PROVE  RowInv'
<1> USE NoneIsNoState DEF RowInv, Stage1TypeOK, InHand, StateMatchesHash, Crawled, Running, ChildSteps,
    ChildStates, Labels, Go, rowVars, fileVars, crawlVars, history, IsLegal, Transitions
<1>1. CASE Begin(t)
  BY <1>1 DEF Begin, NobodyElse
<1>2. CASE CreateJob(t)
  BY <1>2 DEF CreateJob
<1>3. CASE WriteSource(t)
  BY <1>3 DEF WriteSource
<1>4. CASE OverwriteSource(t)
  BY <1>4 DEF OverwriteSource
<1>5. CASE ResetToNew(t)
  BY <1>5 DEF ResetToNew
<1>6. CASE Preflight(t)
  BY <1>6 DEF Preflight
<1>7. CASE Spawn(t)
  BY <1>7 DEF Spawn
<1>8. CASE Timeout(t)
  BY <1>8 DEF Timeout
<1>9. CASE ChildExits(t)
  BY <1>9 DEF ChildExits
<1>10. CASE ClearRaw(t)
  BY <1>10 DEF ClearRaw
<1>11. CASE ReadManifest(t)
  BY <1>11 DEF ReadManifest
<1>12. CASE Ingest(t)
  BY <1>12 DEF Ingest
<1>13. CASE IngestCopies(t)
  BY <1>13 DEF IngestCopies
<1>14. CASE IngestChecks(t)
  BY <1>14 DEF IngestChecks
<1>15. CASE IngestWrites(t)
  BY <1>15 DEF IngestWrites
<1>16. CASE PersistCrawl(t)
  BY <1>16, TargetIsResting DEF PersistCrawl
<1> QED
  BY <1>1, <1>2, <1>3, <1>4, <1>5, <1>6, <1>7, <1>8, <1>9, <1>10, <1>11, <1>12, <1>13, <1>14, <1>15, <1>16 DEF Attempt

\* A child, or a death, leaves the row alone.
LEMMA ChildKeepsRow ==
    ASSUME RowInv, NEW t \in Crawlers, Child(t) \/ Crash(t)
    PROVE  RowInv'
<1> USE NoneIsNoState DEF RowInv, Stage1TypeOK, InHand, StateMatchesHash, Crawled, Running, ChildSteps,
    ChildStates, Labels, Go, rowVars, fileVars, crawlVars, history, IsLegal, Transitions
<1>1. CASE ChildFetches(t)
  BY <1>1 DEF ChildFetches
<1>2. CASE ChildChecks(t)
  BY <1>2 DEF ChildChecks
<1>3. CASE ChildWrites(t)
  BY <1>3 DEF ChildWrites
<1>4. CASE ChildFails(t)
  BY <1>4 DEF ChildFails
<1>5. CASE ChildIsReaped(t)
  BY <1>5 DEF ChildIsReaped
<1>6. CASE Crash(t)
  BY <1>6 DEF Crash
<1> QED
  BY <1>1, <1>2, <1>3, <1>4, <1>5, <1>6 DEF Child

\* An ingest inserts a row, at most.
LEMMA FeedKeepsRow ==
    ASSUME RowInv, NEW f \in Feeds, IngestItem(f)
    PROVE  RowInv'
<1> USE NoneIsNoState DEF RowInv, Stage1TypeOK, InHand, StateMatchesHash, Crawled, restOfFeed,
    rowVars, fileVars, crawlVars
<1>1. CASE TakeItem(f)
  BY <1>1 DEF TakeItem
<1>2. CASE FeedSource(f)
  BY <1>2 DEF FeedSource
<1>3. CASE FeedCreate(f)
  BY <1>3 DEF FeedCreate
<1>4. CASE FeedDies(f)
  BY <1>4 DEF FeedDies
<1> QED
  BY <1>1, <1>2, <1>3, <1>4 DEF IngestItem

\* The row and what the attempts have in hand, in every reachable state.
LEMMA RowIsKept == Spec => []RowInv
<1>1. Init => RowInv
  <2> SUFFICES ASSUME Init PROVE RowInv
    OBVIOUS
  <2>1. state \in RestingStates \cup {None} /\ hash \in Contents \cup {None}
        /\ source \in {"url", "gossip", None} /\ raw \in Contents \cup {None}
        /\ manifest \in Contents \cup {None} /\ crashes \in Nat
    BY DEF Init
  <2>2. {alone, ingested} \subseteq BOOLEAN
    BY DEF Init
  <2>3. /\ pc \in [Crawlers -> Labels]
        /\ child \in [Crawlers -> ChildStates]
        /\ found \in [Crawlers -> Contents \cup {None}]
        /\ bundle \in [Crawlers -> Contents \cup {None}]
        /\ feed \in [Feeds -> {"idle", "source", "create"}]
    BY DEF Init, Labels, ChildStates
  <2>4. (\A t \in Crawlers : InHand(t)) /\ StateMatchesHash
    BY NoneIsNoState DEF Init, InHand, StateMatchesHash, Crawled
  <2> QED
    BY <2>1, <2>2, <2>3, <2>4 DEF RowInv, Stage1TypeOK
<1>2. RowInv /\ [Next]_vars => RowInv'
  <2> SUFFICES ASSUME RowInv, [Next]_vars PROVE RowInv'
    OBVIOUS
  <2>1. CASE UNCHANGED vars
    BY <2>1 DEF vars, rowVars, fileVars, crawlVars, history, RowInv, Stage1TypeOK, InHand,
       StateMatchesHash, Crawled
  <2> QED
    BY <2>1, AttemptKeepsRow, ChildKeepsRow, FeedKeepsRow DEF Next
<1> QED
  BY <1>1, <1>2, PTL DEF Spec

\* The row, the files and the locals of every crawler keep their types. The code:
\* Pipeline.stage1, CrawlRunner.crawl_url, LocalIngestCrawler.crawl, ingest_items.
THEOREM Stage1TypeCorrect == Spec => []Stage1TypeOK
<1>1. RowInv => Stage1TypeOK
  BY DEF RowInv
<1> QED
  BY <1>1, RowIsKept, PTL

\* Whoever else crawls, and whatever dies: the state of a crawled or failed job is the
\* one its hash stands for. The code: persist_crawl_result, one transaction for both.
THEOREM StateAndHashAgree == Spec => []StateMatchesHash
<1>1. RowInv => StateMatchesHash
  BY DEF RowInv
<1> QED
  BY <1>1, RowIsKept, PTL

-----------------------------------------------------------------------------
(***************************************************************************)
(* The source of an ingested item                                          *)
(***************************************************************************)
\* A crawl writes the source of a row it has inserted, or that is no item's.
LEMMA AttemptKeepsSource ==
    ASSUME RowInv, SourceInv, NEW t \in Crawlers, Attempt(t)
    PROVE  SourceInv'
<1> USE NoneIsNoState DEF RowInv, Stage1TypeOK, SourceInv, Go, rowVars, fileVars, crawlVars, history,
    IsLegal, Transitions
<1>1. CASE Begin(t)
  BY <1>1 DEF Begin
<1>2. CASE CreateJob(t)
  BY <1>2 DEF CreateJob
<1>3. CASE WriteSource(t)
  BY <1>3 DEF WriteSource
<1>4. CASE OverwriteSource(t)
  BY <1>4 DEF OverwriteSource
<1>5. CASE ResetToNew(t)
  BY <1>5 DEF ResetToNew
<1>6. CASE Preflight(t)
  BY <1>6 DEF Preflight
<1>7. CASE Spawn(t)
  BY <1>7 DEF Spawn
<1>8. CASE Timeout(t)
  BY <1>8 DEF Timeout
<1>9. CASE ChildExits(t)
  BY <1>9 DEF ChildExits
<1>10. CASE ClearRaw(t)
  BY <1>10 DEF ClearRaw
<1>11. CASE ReadManifest(t)
  BY <1>11 DEF ReadManifest
<1>12. CASE Ingest(t)
  BY <1>12 DEF Ingest
<1>13. CASE IngestCopies(t)
  BY <1>13 DEF IngestCopies
<1>14. CASE IngestChecks(t)
  BY <1>14 DEF IngestChecks
<1>15. CASE IngestWrites(t)
  BY <1>15 DEF IngestWrites
<1>16. CASE PersistCrawl(t)
  BY <1>16, TargetIsResting DEF PersistCrawl, InHand
<1> QED
  BY <1>1, <1>2, <1>3, <1>4, <1>5, <1>6, <1>7, <1>8, <1>9, <1>10, <1>11, <1>12, <1>13, <1>14, <1>15, <1>16 DEF Attempt

\* A child has nothing to do with it.
LEMMA ChildKeepsSource ==
    ASSUME RowInv, SourceInv, NEW t \in Crawlers, Child(t) \/ Crash(t)
    PROVE  SourceInv'
<1> USE NoneIsNoState DEF RowInv, Stage1TypeOK, SourceInv, Go, rowVars, fileVars, crawlVars, history,
    IsLegal, Transitions
<1>1. CASE ChildFetches(t)
  BY <1>1 DEF ChildFetches
<1>2. CASE ChildChecks(t)
  BY <1>2 DEF ChildChecks
<1>3. CASE ChildWrites(t)
  BY <1>3 DEF ChildWrites
<1>4. CASE ChildFails(t)
  BY <1>4 DEF ChildFails
<1>5. CASE ChildIsReaped(t)
  BY <1>5 DEF ChildIsReaped
<1>6. CASE Crash(t)
  BY <1>6 DEF Crash
<1> QED
  BY <1>1, <1>2, <1>3, <1>4, <1>5, <1>6 DEF Child

\* The file is written first, and the row inserted if there is none by then.
LEMMA FeedKeepsSource ==
    ASSUME RowInv, SourceInv, NEW f \in Feeds, IngestItem(f)
    PROVE  SourceInv'
<1> USE NoneIsNoState DEF RowInv, Stage1TypeOK, SourceInv, restOfFeed, rowVars, fileVars, crawlVars
<1>1. CASE TakeItem(f)
  BY <1>1 DEF TakeItem
<1>2. CASE FeedSource(f)
  BY <1>2 DEF FeedSource
<1>3. CASE FeedCreate(f)
  BY <1>3 DEF FeedCreate
<1>4. CASE FeedDies(f)
  BY <1>4 DEF FeedDies
<1> QED
  BY <1>1, <1>2, <1>3, <1>4 DEF IngestItem

\* Wherever the ingest dies and whoever crawls or retries the job: a row ingest has
\* created has the source of its item. The code: ingest_items, which writes source.json
\* before create_job, and _try_overwrite_url_source.
THEOREM IngestedSourceStays == Spec => []GossipSourceKept
<1>1. Init => SourceInv
  BY DEF Init, SourceInv
<1>2. RowInv /\ SourceInv /\ [Next]_vars => SourceInv'
  <2> SUFFICES ASSUME RowInv, SourceInv, [Next]_vars PROVE SourceInv'
    OBVIOUS
  <2>1. CASE UNCHANGED vars
    BY <2>1 DEF vars, rowVars, fileVars, history, SourceInv
  <2> QED
    BY <2>1, AttemptKeepsSource, ChildKeepsSource, FeedKeepsSource DEF Next
<1>3. SourceInv => GossipSourceKept
  BY DEF SourceInv, GossipSourceKept
<1> QED
  BY <1>1, <1>2, <1>3, RowIsKept, PTL DEF Spec

-----------------------------------------------------------------------------
(***************************************************************************)
(* One attempt at a time: what is active is one, it has not crawled the    *)
(* job yet, and what it has in hand is what is on disk.                    *)
(***************************************************************************)
\* The one that is active goes on, and leaves off a job it has not crawled yet.
LEMMA OneGoesOn ==
    ASSUME WholeInv, NEW t \in Crawlers, Active(t), alone' => alone,
           \A u \in Crawlers \ {t} : pc'[u] = pc[u] /\ child'[u] = child[u],
           alone => OneWhole(t)', alone => ~Crawled'
    PROVE  WholeInv'
  BY DEF WholeInv, AloneInv, Active, Running

\* Each step of the one attempt hands on what it has made.
LEMMA AttemptKeepsWhole ==
    ASSUME RowInv, WholeInv, NEW t \in Crawlers, Attempt(t)
    PROVE  WholeInv'
<1> USE NoneIsNoState DEF RowInv, Stage1TypeOK, InHand, WholeInv, AloneInv, Active, OneWhole, Crawled,
    Running, ChildSteps, ChildStates, Labels, Go, rowVars, fileVars, crawlVars, history, IsLegal,
    Transitions
<1>1. CASE Begin(t)
  <2> SUFFICES ASSUME alone' PROVE AloneInv'
    OBVIOUS
  <2>1. alone /\ \A u \in Crawlers : ~Active(u)
    BY <1>1 DEF Begin, NobodyElse
  <2>2. \A u \in Crawlers : Active(u)' => u = t
    BY <1>1, <2>1 DEF Begin
  <2>3. OneWhole(t)' /\ ~Crawled'
    BY <1>1 DEF Begin
  <2> QED
    BY <2>2, <2>3
<1>2. CASE CreateJob(t)
  <2>1. Active(t) /\ UNCHANGED <<alone, child>> /\ \A u \in Crawlers \ {t} : pc'[u] = pc[u]
    BY <1>2 DEF CreateJob
  <2>2. OneWhole(t)'
    BY <1>2 DEF CreateJob
  <2>3. alone => ~Crawled'
    BY <1>2, <2>1 DEF CreateJob
  <2> QED
    BY <2>1, <2>2, <2>3, OneGoesOn
<1>3. CASE WriteSource(t)
  BY <1>3 DEF WriteSource
<1>4. CASE OverwriteSource(t)
  BY <1>4 DEF OverwriteSource
<1>5. CASE ResetToNew(t)
  <2>1. Active(t) /\ UNCHANGED <<alone, child>> /\ \A u \in Crawlers \ {t} : pc'[u] = pc[u]
    BY <1>5 DEF ResetToNew
  <2>2. OneWhole(t)'
    BY <1>5 DEF ResetToNew
  <2>3. alone => ~Crawled'
    BY <1>5, <2>1 DEF ResetToNew
  <2> QED
    BY <2>1, <2>2, <2>3, OneGoesOn
<1>6. CASE Preflight(t)
  BY <1>6 DEF Preflight
<1>7. CASE Spawn(t)
  BY <1>7 DEF Spawn
<1>8. CASE Timeout(t)
  BY <1>8 DEF Timeout
<1>9. CASE ChildExits(t)
  BY <1>9 DEF ChildExits
<1>10. CASE ClearRaw(t)
  BY <1>10 DEF ClearRaw
<1>11. CASE ReadManifest(t)
  BY <1>11 DEF ReadManifest
<1>12. CASE Ingest(t)
  BY <1>12 DEF Ingest
<1>13. CASE IngestCopies(t)
  BY <1>13 DEF IngestCopies
<1>14. CASE IngestChecks(t)
  <2>1. Active(t) /\ UNCHANGED <<alone, child, state>> /\ \A u \in Crawlers \ {t} : pc'[u] = pc[u]
    BY <1>14 DEF IngestChecks
  <2>2. alone => OneWhole(t) /\ ~Crawled
    BY <2>1
  <2>3. child[t] = "none" /\ child'[t] = "none" /\ pc'[t] \in {"manifest", "idle"}
    BY <1>14 DEF IngestChecks
  <2>4. ASSUME alone, pc'[t] = "manifest" PROVE raw' = found'[t]
    <3>1. ~(pc' = [pc EXCEPT ![t] = "idle"])
      BY <2>4
    <3>2. pc[t] = "check" /\ raw' = raw /\ found' = found
      BY <1>14, <3>1 DEF IngestChecks
    <3> QED
      BY <2>2, <2>4, <3>2
  <2>5. alone => OneWhole(t)'
    BY <2>3, <2>4 DEF OneWhole
  <2> QED
    BY <2>1, <2>2, <2>5, OneGoesOn
<1>15. CASE IngestWrites(t)
  BY <1>15 DEF IngestWrites
<1>16. CASE PersistCrawl(t)
  BY <1>16, TargetIsResting DEF PersistCrawl
<1> QED
  BY <1>1, <1>2, <1>3, <1>4, <1>5, <1>6, <1>7, <1>8, <1>9, <1>10, <1>11, <1>12, <1>13, <1>14, <1>15, <1>16 DEF Attempt

\* So does its child.
LEMMA ChildKeepsWhole ==
    ASSUME RowInv, WholeInv, NEW t \in Crawlers, Child(t) \/ Crash(t)
    PROVE  WholeInv'
<1> USE NoneIsNoState DEF RowInv, Stage1TypeOK, InHand, WholeInv, AloneInv, Active, OneWhole, Crawled,
    Running, ChildSteps, ChildStates, Labels, Go, rowVars, fileVars, crawlVars, history, IsLegal,
    Transitions
<1>1. CASE ChildFetches(t)
  BY <1>1 DEF ChildFetches
<1>2. CASE ChildChecks(t)
  BY <1>2 DEF ChildChecks
<1>3. CASE ChildWrites(t)
  BY <1>3 DEF ChildWrites
<1>4. CASE ChildFails(t)
  BY <1>4 DEF ChildFails
<1>5. CASE ChildIsReaped(t)
  BY <1>5 DEF ChildIsReaped
<1>6. CASE Crash(t)
  BY <1>6 DEF Crash
<1> QED
  BY <1>1, <1>2, <1>3, <1>4, <1>5, <1>6 DEF Child

\* An ingest touches no file of the bundle.
LEMMA FeedKeepsWhole ==
    ASSUME RowInv, WholeInv, NEW f \in Feeds, IngestItem(f)
    PROVE  WholeInv'
  BY NoneIsNoState DEF RowInv, Stage1TypeOK, WholeInv, AloneInv, Active, OneWhole, Crawled, Running,
     IngestItem, TakeItem, FeedSource, FeedCreate, FeedDies, restOfFeed, rowVars, fileVars,
     crawlVars, history

\* The invariant of one attempt at a time, in every reachable state.
LEMMA WholeIsKept == Spec => []WholeInv
<1>1. Init => WholeInv
  BY NoneIsNoState DEF Init, WholeInv, AloneInv, Active, Running, ChildSteps, Crawled,
     RestingStates, States, TransientStates
<1>2. RowInv /\ WholeInv /\ [Next]_vars => WholeInv'
  <2> SUFFICES ASSUME RowInv, WholeInv, [Next]_vars PROVE WholeInv'
    OBVIOUS
  <2>1. CASE UNCHANGED vars
    BY <2>1 DEF vars, rowVars, fileVars, crawlVars, history, WholeInv, AloneInv, Active, OneWhole,
       Crawled, Running
  <2> QED
    BY <2>1, AttemptKeepsWhole, ChildKeepsWhole, FeedKeepsWhole DEF Next
<1> QED
  BY <1>1, <1>2, RowIsKept, PTL DEF Spec

\* As long as no two attempts overlap, however many there are and whatever dies: the
\* hash, the manifest and the files of a crawled job are of one crawl. The code:
\* Pipeline.stage1, _run_spider, write_manifest, persist_crawl_result.
THEOREM CrawledIsWhole == Spec => []BundleIsWhole
<1>1. WholeInv => BundleIsWhole
  BY DEF WholeInv, AloneInv, BundleIsWhole
<1> QED
  BY <1>1, WholeIsKept, PTL

\* No step of an attempt undoes a crawled job.
LEMMA AttemptKeepsCrawled ==
    ASSUME RowInv, WholeInv, Crawled, NEW t \in Crawlers, Attempt(t)
    PROVE  /\ UNCHANGED rowVars \/ (state = "crawled" /\ state' = "crawled_warn")
           /\ alone' => UNCHANGED <<raw, manifest, hash>>
<1> USE NoneIsNoState DEF RowInv, Stage1TypeOK, InHand, WholeInv, AloneInv, Active, OneWhole, Crawled,
    Running, ChildSteps, ChildStates, Labels, Go, rowVars, fileVars, crawlVars, history, IsLegal,
    Transitions
<1>1. CASE Begin(t)
  BY <1>1 DEF Begin
<1>2. CASE CreateJob(t)
  BY <1>2 DEF CreateJob
<1>3. CASE WriteSource(t)
  BY <1>3 DEF WriteSource
<1>4. CASE OverwriteSource(t)
  BY <1>4 DEF OverwriteSource
<1>5. CASE ResetToNew(t)
  BY <1>5 DEF ResetToNew
<1>6. CASE Preflight(t)
  BY <1>6 DEF Preflight
<1>7. CASE Spawn(t)
  BY <1>7 DEF Spawn
<1>8. CASE Timeout(t)
  BY <1>8 DEF Timeout
<1>9. CASE ChildExits(t)
  BY <1>9 DEF ChildExits
<1>10. CASE ClearRaw(t)
  BY <1>10 DEF ClearRaw
<1>11. CASE ReadManifest(t)
  BY <1>11 DEF ReadManifest
<1>12. CASE Ingest(t)
  BY <1>12 DEF Ingest
<1>13. CASE IngestCopies(t)
  BY <1>13 DEF IngestCopies
<1>14. CASE IngestChecks(t)
  BY <1>14 DEF IngestChecks
<1>15. CASE IngestWrites(t)
  BY <1>15 DEF IngestWrites
<1>16. CASE PersistCrawl(t)
  BY <1>16, TargetIsResting DEF PersistCrawl
<1> QED
  BY <1>1, <1>2, <1>3, <1>4, <1>5, <1>6, <1>7, <1>8, <1>9, <1>10, <1>11, <1>12, <1>13, <1>14, <1>15, <1>16 DEF Attempt

\* Nor does one of a child, whose writes need an attempt that is active.
LEMMA ChildKeepsCrawled ==
    ASSUME RowInv, WholeInv, Crawled, NEW t \in Crawlers, Child(t) \/ Crash(t)
    PROVE  /\ UNCHANGED rowVars
           /\ alone' => UNCHANGED <<raw, manifest, hash>>
<1> USE NoneIsNoState DEF RowInv, Stage1TypeOK, InHand, WholeInv, AloneInv, Active, OneWhole, Crawled,
    Running, ChildSteps, ChildStates, Labels, Go, rowVars, fileVars, crawlVars, history, IsLegal,
    Transitions
<1>1. CASE ChildFetches(t)
  BY <1>1 DEF ChildFetches
<1>2. CASE ChildChecks(t)
  BY <1>2 DEF ChildChecks
<1>3. CASE ChildWrites(t)
  BY <1>3 DEF ChildWrites
<1>4. CASE ChildFails(t)
  BY <1>4 DEF ChildFails
<1>5. CASE ChildIsReaped(t)
  BY <1>5 DEF ChildIsReaped
<1>6. CASE Crash(t)
  BY <1>6 DEF Crash
<1> QED
  BY <1>1, <1>2, <1>3, <1>4, <1>5, <1>6 DEF Child

\* A late attempt marks a clean crawl down at most, and without overlap nothing of a
\* crawled job is written at all. The code: stage1's guard, persist_crawl_result.
THEOREM CrawledStays == Spec => CrawledIsKept
<1>1. RowInv /\ WholeInv /\ [Next]_vars =>
        [Crawled => /\ \/ UNCHANGED rowVars
                       \/ state = "crawled" /\ state' = "crawled_warn"
                    /\ alone' => UNCHANGED <<raw, manifest, hash>>]_vars
  <2> SUFFICES ASSUME RowInv, WholeInv, Next, Crawled
               PROVE  /\ UNCHANGED rowVars \/ (state = "crawled" /\ state' = "crawled_warn")
                      /\ alone' => UNCHANGED <<raw, manifest, hash>>
    OBVIOUS
  <2>1. ASSUME NEW f \in Feeds, IngestItem(f)
        PROVE  UNCHANGED rowVars /\ UNCHANGED <<raw, manifest, hash>>
    BY <2>1, NoneIsNoState DEF Crawled, RestingStates, States, TransientStates, IngestItem, TakeItem,
       FeedSource, FeedCreate, FeedDies, restOfFeed, rowVars, fileVars
  <2> QED
    BY <2>1, AttemptKeepsCrawled, ChildKeepsCrawled DEF Next
<1> QED
  BY <1>1, RowIsKept, WholeIsKept, PTL DEF Spec, CrawledIsKept
=============================================================================
