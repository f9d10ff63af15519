------------------------------ MODULE Scraper ------------------------------
(***************************************************************************)
(* gossip_scraper: a batch command that asks every platform for its board, *)
(* merges what is one topic, ranks the rest and keeps the ranks for the    *)
(* next run; and its snapshot, which does the same and keeps the digest.   *)
(*                                                                         *)
(* A run is a process. Cron starts one, a person another: nothing keeps    *)
(* two of them apart, and they share the history of ranks, written through *)
(* a temporary file with a fixed name, and the health log (ScraperHealth). *)
(* What a run does between two calls on a file is one step, and a run may  *)
(* die between any two.                                                    *)
(*                                                                         *)
(* Scores are integers: a normalized value is in 0..60, Drama stands for   *)
(* what tag, keywords and sentiment give. Baidu's hot_change and Tieba's   *)
(* created_at are left out, as are region, summary and the layout.         *)
(***************************************************************************)
EXTENDS Integers, FiniteSets, SequencesExt

CONSTANTS
    Runs,        \* the processes that may be at it at once
    Platforms,   \* the platforms asked, in that order
    Boards,      \* the boards a platform may answer with, hottest first
    Alike,       \* _hybrid_similarity of two titles is 0.30 or more
    KeyOf,       \* _item_key of a title
    CategoryOf,  \* the category of a title
    Drama,       \* what a title alone adds to its surprise
    Options,     \* how a run may be called
    None, Torn,  \* no file, no filter; a text that does not decode
    MaxAge,      \* _MAX_HISTORY_AGE, in ticks
    Files,       \* names for the files there may be at once
    MaxStarts, MaxDeaths, MaxTime   \* bounds: runs, deaths, ticks

Asked == Range(Platforms)
Titles == DOMAIN KeyOf
Entries == [title : Titles, heat : Int]
SortKeys == {"score", "heat", "fresh", "surprise"}

\* Likeness is symmetric, and a title that is like any is like itself: only one that
\* normalizes to nothing is like none. A run that writes needs a file nobody else has:
\* there is one for each run besides the two that have a name.
ASSUME ScraperAssumption ==
    /\ \A x, y \in Titles : /\ Alike[<<x, y>>] = Alike[<<y, x>>]
                            /\ Alike[<<x, y>>] => Alike[<<x, x>>]
    /\ Platforms \in Seq(Asked)
    /\ \A p \in Asked : \A b \in Boards[p] : b \in Seq(Entries)
    /\ \A t \in Titles : Drama[t] \in Int
    /\ \A o \in Options : o.sort \in SortKeys
    /\ MaxAge \in Nat \ {0} /\ {MaxStarts, MaxDeaths, MaxTime} \subseteq Nat
    /\ IsFiniteSet(Runs) /\ IsFiniteSet(Files) /\ None \notin Files
    /\ Cardinality(Files) >= Cardinality(Runs) + 2

VARIABLES
    now,
    history,   \* the file that .gossip_history.json names, or None
    tmp,       \* the file that .gossip_history.json.tmp names, or None
    text,      \* what is in each file
    snapshots, \* gossip_history/: the digest of each minute
    pc,        \* where in its run each process is
    mem,       \* its locals
    saved,     \* history: the ranks that were saved last
    alone,     \* history: no two runs have overlapped yet
    starts, deaths

files == <<history, tmp, text>>
past == <<saved, alone, starts, deaths>>
vars == <<now, files, snapshots, pc, mem, past>>

NoRanks == [ranks |-> [k \in {} |-> 0], at |-> 0]

FreshMem == [opt |-> None, minute |-> 0, fetched |-> <<>>, items |-> <<>>, file |-> None]

Labels == {"idle", "fetch", "rank", "open", "write", "replace", "snap"}

ScraperTypeOK ==
    /\ now \in 0..MaxTime
    /\ history \in Files \cup {None} /\ tmp \in Files \cup {None}
    /\ history # None => history # tmp
    /\ pc \in [Runs -> Labels]
    /\ \A r \in Runs : pc[r] \in {"write", "replace"} => mem[r].file \in Files
    /\ starts \in 0..MaxStarts /\ deaths \in 0..MaxDeaths

-----------------------------------------------------------------------------
(***************************************************************************)
(* dedup: a topic joins the group of the first topic it is like that has   *)
(* joined none itself                                                      *)
(***************************************************************************)
Item(p, board, i) ==
    [platform |-> p, rank |-> i, title |-> board[i].title, heat |-> board[i].heat,
     from |-> {p}, rise |-> 0]

Fetched(boards) ==
    FlattenSeq([n \in DOMAIN Platforms |->
        LET b == boards[Platforms[n]] IN [i \in DOMAIN b |-> Item(Platforms[n], b, i)]])

\* The topics that open a group: those no earlier one of them is like.
Opens(items) ==
    LET opens[i \in DOMAIN items] ==
            \A g \in 1..(i - 1) : opens[g] => ~Alike[<<items[g].title, items[i].title>>]
    IN  {i \in DOMAIN items : opens[i]}

Group(items, g) ==
    {g} \cup {i \in DOMAIN items :
        /\ g < i /\ Alike[<<items[g].title, items[i].title>>]
        /\ \A h \in Opens(items) : h < g => ~Alike[<<items[h].title, items[i].title>>]}

Hottest(items, group) ==
    CHOOSE i \in group : \A j \in group :
        items[j].heat < items[i].heat \/ (items[j].heat = items[i].heat /\ i <= j)

\* Mutant: the first topic of a group is kept, not the hottest.
MergeFirst(items, group) ==
    [items[Min(group)] EXCEPT !.from = {items[i].platform : i \in group}]

Merge(items, group) ==
    [items[Hottest(items, group)] EXCEPT !.from = {items[i].platform : i \in group}]

Nth(S, n) == CHOOSE i \in S : Cardinality({j \in S : j < i}) = n - 1

Dedup(items) ==
    LET open == Opens(items)
    IN  [n \in 1..Cardinality(open) |-> Merge(items, Group(items, Nth(open, n)))]

-----------------------------------------------------------------------------
(***************************************************************************)
(* compute_velocity and rank                                               *)
(***************************************************************************)
\* A topic the history does not know has no earlier rank. What rises is the rank on
\* its own platform, against the rank in the digest of the run before.
Velocity(items, ranks) ==
    [i \in DOMAIN items |->
        [items[i] EXCEPT !.rise =
            IF KeyOf[items[i].title] \in DOMAIN ranks THEN ranks[KeyOf[items[i].title]] - items[i].rank
            ELSE None]]

\* A new topic rises by half a place a second; a tick is half an hour, and what a topic
\* the history knows gains in one is next to nothing.
Bonus(rise) == CASE rise = None -> 150 [] rise # None /\ rise > 0 -> 1 [] OTHER -> 0

Normalize(x, xs) ==
    LET lo == Min(xs) hi == Max(xs) IN IF lo = hi THEN 30 ELSE (60 * (x - lo)) \div (hi - lo)

CrossScore(n) == CASE n >= 4 -> 60 [] n = 3 -> 48 [] n = 2 -> 30 [] OTHER -> 12

Scores(items, i) ==
    LET same == {j \in DOMAIN items : items[j].platform = items[i].platform}
        heat == 100 * Normalize(items[i].heat, {items[j].heat : j \in same})
        fresh == 60 * (60 - Normalize(items[i].rank, {items[j].rank : j \in same}))
        drama == 35 * CrossScore(Cardinality(items[i].from)) + Drama[items[i].title]
        surprise == Min({6000, drama + Bonus(items[i].rise)})
    IN  [heat |-> heat, fresh |-> fresh, surprise |-> surprise,
         score |-> 4 * heat + 2 * fresh + 4 * surprise]

\* The sort is stable: of equal scores the earlier topic keeps its place.
Ahead(items, by) ==
    LET score == [i \in DOMAIN items |-> Scores(items, i)[by]]
    IN  [i \in DOMAIN items |->
            {j \in DOMAIN items : score[j] > score[i] \/ (score[j] = score[i] /\ j < i)}]

Ranked(items, by) ==
    LET ahead == Ahead(items, by)
    IN  [n \in DOMAIN items |->
            [items[CHOOSE i \in DOMAIN items : Cardinality(ahead[i]) = n - 1] EXCEPT !.rank = n]]

\* The rank saved for a key is that of the last topic that has it.
RanksOf(items) ==
    [k \in {KeyOf[items[i].title] : i \in DOMAIN items} |->
        Max({i \in DOMAIN items : KeyOf[items[i].title] = k})]

-----------------------------------------------------------------------------
(***************************************************************************)
(* A run                                                                   *)
(***************************************************************************)
Goto(r, from, to) == pc[r] = from /\ pc' = [pc EXCEPT ![r] = to]
Underway(r) == pc[r] # "idle"
EndRun(r, from) == Goto(r, from, "idle") /\ mem' = [mem EXCEPT ![r] = FreshMem]
Snaps(r) == mem[r].opt.snapshot

Start(r) ==
    /\ Goto(r, "idle", "fetch")
    /\ starts < MaxStarts
    /\ starts' = starts + 1
    /\ alone' = (alone /\ \A q \in Runs \ {r} : ~Underway(q))
    /\ \E o \in Options : mem' = [mem EXCEPT ![r] = [FreshMem EXCEPT !.opt = o, !.minute = now]]
    /\ UNCHANGED <<now, files, snapshots, saved, deaths>>

\* run up to compute_velocity: each platform answers or fails, whatever the others do,
\* and gather keeps their order. What a fetch leaves in the health log is ScraperHealth.
Gather(r) ==
    /\ Goto(r, "fetch", "rank")
    /\ \E boards \in [Asked -> UNION {Boards[p] : p \in Asked} \cup {<<>>}] :
        /\ \A p \in Asked : boards[p] \in Boards[p] \cup {<<>>}
        /\ LET items == Fetched(boards)
           IN  mem' = [mem EXCEPT ![r].fetched = items,
                   ![r].items = IF mem[r].opt.dedup /\ Len(Platforms) > 1 THEN Dedup(items)
                                ELSE items]
    /\ UNCHANGED <<now, files, snapshots, past>>

\* _load_history: no file, or one that does not parse, is no history.
Loaded ==
    IF history = None \/ text[history] \in {None, Torn} THEN NoRanks.ranks
    ELSE IF now - text[history].at < MaxAge THEN text[history].ranks ELSE NoRanks.ranks

\* The velocities, the filter, the ranks. A run without a topic saves nothing.
RankTopics(r) ==
    LET known == Velocity(mem[r].items, Loaded)
        kept == IF mem[r].opt.category = None THEN known
                ELSE SelectSeq(known, LAMBDA x : CategoryOf[x.title] = mem[r].opt.category)
        digest == Ranked(kept, mem[r].opt.sort)
    IN  /\ pc[r] = "rank"
        /\ IF ~Snaps(r) /\ digest = <<>> THEN EndRun(r, "rank")
           ELSE /\ Goto(r, "rank", IF Snaps(r) THEN "snap" ELSE "open")
                /\ mem' = [mem EXCEPT ![r].items = digest]
        /\ UNCHANGED <<now, files, snapshots, past>>

\* A history that two writers have mixed may break off inside a character, which no
\* handler of _load_history is for: the run ends there.
LoadFails(r) ==
    /\ history # None /\ text[history] = Torn
    /\ mem[r].items # <<>>
    /\ EndRun(r, "rank")
    /\ UNCHANGED <<now, files, snapshots, past>>

\* Mutant: the history itself is opened for writing.
OpenInPlace(r) ==
    /\ Goto(r, "open", "write")
    /\ \E f \in IF history # None THEN {history} ELSE {CHOOSE g \in Files : g # tmp} :
        /\ history' = f
        /\ text' = [text EXCEPT ![f] = None]
        /\ mem' = [mem EXCEPT ![r].file = f]
    /\ UNCHANGED <<now, tmp, snapshots, past>>

\* _save_history: tmp.write_text opens the temporary file, whoever else is writing it,
\* and empties it.
OpenTmp(r) ==
    /\ Goto(r, "open", "write")
    /\ LET used == {history} \cup {mem[q].file : q \in Runs}
       IN \E f \in IF tmp # None THEN {tmp} ELSE {CHOOSE g \in Files : g \notin used} :
            /\ tmp' = f
            /\ text' = [text EXCEPT ![f] = None]
            /\ mem' = [mem EXCEPT ![r].file = f]
    /\ UNCHANGED <<now, history, snapshots, past>>

\* The text goes to the start of the file. What another has written there since stays
\* behind it when it is longer.
WriteTmp(r) ==
    /\ Goto(r, "write", "replace")
    /\ LET f == mem[r].file
           ranks == [ranks |-> RanksOf(mem[r].items), at |-> now]
       IN \E x \in IF text[f] = None THEN {ranks} ELSE {ranks, Torn} :
            text' = [text EXCEPT ![f] = x]
    /\ UNCHANGED <<now, history, tmp, snapshots, mem, past>>

\* tmp.replace: the file that has the name now, or FileNotFoundError when another run
\* has taken it away.
Replace(r) ==
    /\ EndRun(r, "replace")
    /\ IF tmp = None THEN UNCHANGED <<history, tmp, saved>>
       ELSE /\ history' = tmp
            /\ tmp' = None
            /\ saved' = RanksOf(mem[r].items)
    /\ UNCHANGED <<now, text, snapshots, alone, starts, deaths>>

\* save_snapshot writes under the minute it began in, over another of that minute.
Snap(r) ==
    /\ EndRun(r, "snap")
    /\ snapshots' = [snapshots EXCEPT ![mem[r].minute] =
           {mem[r].items[i].title : i \in DOMAIN mem[r].items}]
    /\ UNCHANGED <<now, files, past>>

Die(r) ==
    /\ Underway(r)
    /\ deaths < MaxDeaths
    /\ deaths' = deaths + 1
    /\ pc' = [pc EXCEPT ![r] = "idle"]
    /\ mem' = [mem EXCEPT ![r] = FreshMem]
    /\ UNCHANGED <<now, files, snapshots, saved, alone, starts>>

Tick ==
    /\ now < MaxTime
    /\ now' = now + 1
    /\ UNCHANGED <<files, snapshots, pc, mem, past>>

RunStep(r) ==
    \/ Start(r) \/ Gather(r) \/ RankTopics(r) \/ LoadFails(r)
    \/ OpenTmp(r) \/ WriteTmp(r) \/ Replace(r) \/ Snap(r)

Init ==
    /\ now = 0
    /\ history = None /\ tmp = None /\ text = [f \in Files |-> None]
    /\ snapshots = [m \in 0..MaxTime |-> {}]
    /\ pc = [r \in Runs |-> "idle"]
    /\ mem = [r \in Runs |-> FreshMem]
    /\ saved = NoRanks.ranks
    /\ alone = TRUE
    /\ starts = 0 /\ deaths = 0

Next == (\E r \in Runs : RunStep(r) \/ Die(r)) \/ Tick
Spec == Init /\ [][Next]_vars

-----------------------------------------------------------------------------
(***************************************************************************)
(* Properties                                                              *)
(***************************************************************************)
\* While no two runs overlap the history is what the last run that got to its end has
\* ranked, whatever died at whatever step: never half a text, never an older one that
\* comes back. The code: _save_history writes beside the file and renames.
HistoryIsARun ==
    alone => IF history = None THEN saved = NoRanks.ranks
             ELSE \E t \in 0..now : text[history] = [ranks |-> saved, at |-> t]

\* Each topic that was fetched is in the digest, or is merged into one that is at least
\* as hot and names its platform, and that some first topic of a group is like as well.
Covers(digest, fetched, merged) ==
    \A item \in Range(fetched) : \E shown \in Range(digest) :
        /\ item.platform \in shown.from
        /\ shown.heat >= item.heat
        /\ \/ shown.title = item.title
           \/ merged /\ \E head \in Range(fetched) :
                 Alike[<<head.title, item.title>>] /\ Alike[<<head.title, shown.title>>]

\* A run that filters nothing shows everything it fetched. The code: run, dedup and rank.
NothingFetchedIsLost ==
    \A r \in Runs :
        (pc[r] \in {"open", "write", "replace", "snap"} /\ mem[r].opt.category = None) =>
            Covers(mem[r].items, mem[r].fetched, mem[r].opt.dedup)

=============================================================================
