----------------------------- MODULE MCScraper -----------------------------
(* Two runs at once of a person and of cron, two platforms. t2 is like t1 and like t3,
   which are not alike; t1 and t2 begin with the same thirty characters. The history and
   the health log have no step in common: a behaviour is about one of the two. *)
EXTENDS Scraper, ScraperHealth

CONSTANTS r1, r2, weibo, baidu, t1, t2, t3, k1, k2, gossip, sports, f1, f2, f3, f4

MCPlatforms == <<weibo, baidu>>
Entry(t, h) == [title |-> t, heat |-> h]
MCBoards == [p \in {weibo, baidu} |->
    IF p = weibo THEN {<<Entry(t1, 9), Entry(t3, 4)>>, <<Entry(t3, 2)>>}
    ELSE {<<Entry(t2, 12), Entry(t1, 3)>>}]
MCAlike == [p \in {t1, t2, t3} \X {t1, t2, t3} |-> p \notin {<<t1, t3>>, <<t3, t1>>}]
MCKeyOf == [t \in {t1, t2, t3} |-> IF t = t3 THEN k2 ELSE k1]
MCCategoryOf == [t \in {t1, t2, t3} |-> IF t = t3 THEN sports ELSE gossip]
MCDrama == [t \in {t1, t2, t3} |-> IF t = t2 THEN 1500 ELSE 480]
Plain == [snapshot |-> FALSE, dedup |-> TRUE, category |-> None, sort |-> "score"]
MCOptions == {Plain, [Plain EXCEPT !.category = sports, !.sort = "fresh", !.dedup = FALSE],
              [Plain EXCEPT !.snapshot = TRUE]}
\* What the types of the variables of the two are.
ScraperTypesOK == ScraperTypeOK /\ HealthTypeOK

MCPermutations == Permutations({r1, r2})

VARIABLE part

\* No step reads a snapshot, and no property of this run is about one; and of the records
\* that were made only how many there are of each is asked.
Made == [l \in ToSet(outcomes) |-> Cardinality({i \in DOMAIN outcomes : outcomes[i] = l})]
NoSnapshots == <<now, files, pc, mem, past, clock, health, at, line, kept, kills, Made, part>>

MCInit == Init /\ HealthInit /\ part \in {"history", "health"}
MCNext ==
    \/ part = "history" /\ Next /\ UNCHANGED <<healthVars, part>>
    \/ part = "health" /\ HealthNext /\ UNCHANGED <<vars, part>>
MCSpec == MCInit /\ [][MCNext]_<<vars, healthVars, part>>
=============================================================================
