--------------------------- MODULE ScraperProofs ---------------------------
(***************************************************************************)
(* gossip_scraper, for any number of runs, platforms, topics and options:  *)
(* its history of ranks is never half a text, its digest shows all it has  *)
(* fetched, and its alarms are deserved.                                   *)
(***************************************************************************)
EXTENDS MCScraper, FiniteSetTheorems, SequenceTheorems, TLAPS

\* The shapes of what a run keeps in memory, and of the files.
Shaped ==
    /\ DOMAIN text = Files /\ DOMAIN mem = Runs
    /\ \A r \in Runs : DOMAIN mem[r] = DOMAIN FreshMem /\ mem[r].file \in Files \cup {None}

OneRun == alone => \A q, r \in Runs : Underway(q) /\ Underway(r) => q = r

\* A run that is alone has the temporary file for itself: empty, then whole.
OwnTmp == alone => \A r \in Runs : pc[r] \in {"write", "replace"} =>
    /\ tmp # None /\ mem[r].file = tmp
    /\ pc[r] = "write" => text[tmp] = None
    /\ pc[r] = "replace" =>
          \E t \in 0..now : text[tmp] = [ranks |-> RanksOf(mem[r].items), at |-> t]

HistoryInv == ScraperTypeOK /\ Shaped /\ OneRun /\ OwnTmp /\ HistoryIsARun

\* There is a name for a new temporary file.
LEMMA FreeFile ==
  ASSUME Shaped
  PROVE  \E g \in Files : g \notin {history} \cup {mem[q].file : q \in Runs}
<1> DEFINE open == {mem[q].file : q \in Runs}
           used == {history} \cup open
<1>1. IsFiniteSet(Runs) /\ IsFiniteSet(Files) /\ Cardinality(Files) >= Cardinality(Runs) + 2
  BY ScraperAssumption
<1>2. Cardinality(Runs) \in Nat /\ Cardinality(Files) \in Nat
  BY <1>1, FS_CardinalityType
<1>3. IsFiniteSet(open) /\ Cardinality(open) \in Nat /\ Cardinality(open) <= Cardinality(Runs)
  <2> DEFINE file == [q \in Runs |-> mem[q].file]
  <2>1. file \in Surjection(Runs, open)
    BY DEF Surjection
  <2> HIDE DEF file
  <2>2. IsFiniteSet(open) /\ Cardinality(open) <= Cardinality(Runs)
    BY <1>1, <2>1, FS_Surjection
  <2> QED
    BY <2>2, FS_CardinalityType
<1>4. used = open \cup {history}
  OBVIOUS
<1>5. IsFiniteSet(used) /\ Cardinality(used) <= Cardinality(open) + 1
  <2> HIDE DEF open, used
  <2> QED
    BY <1>3, <1>4, FS_AddElement
<1>6. Cardinality(used) \in Nat
  BY <1>5, FS_CardinalityType
<1>7. ASSUME Files \subseteq used
      PROVE  FALSE
  <2>1. Cardinality(Files) <= Cardinality(used)
    BY <1>5, <1>7, FS_Subset
  <2> QED
    BY <1>1, <1>2, <1>3, <1>5, <1>6, <2>1
<1> QED
  BY <1>7

\* Where a run goes.
LEMMA Moves ==
  ASSUME HistoryInv, NEW r \in Runs, NEW from, NEW to \in Labels, Goto(r, from, to)
  PROVE  /\ pc[r] = from /\ pc'[r] = to /\ pc' \in [Runs -> Labels]
         /\ \A q \in Runs : q # r => pc'[q] = pc[q]
  BY DEF HistoryInv, ScraperTypeOK, Goto

\* A memory that is forgotten, or changed but for its file.
LEMMA Remembers ==
  ASSUME Shaped, NEW r \in Runs, UNCHANGED text,
         \/ mem' = [mem EXCEPT ![r] = FreshMem]
         \/ \E opt, minute :
               mem' = [mem EXCEPT ![r] = [FreshMem EXCEPT !.opt = opt, !.minute = minute]]
         \/ \E fetched, items :
               mem' = [mem EXCEPT ![r].fetched = fetched, ![r].items = items]
         \/ \E items : mem' = [mem EXCEPT ![r].items = items]
  PROVE  Shaped' /\ \A q \in Runs : q # r => mem'[q] = mem[q]
<1>1. CASE mem' = [mem EXCEPT ![r] = FreshMem]
  BY <1>1 DEF Shaped, FreshMem
<1>2. ASSUME NEW opt, NEW minute,
             mem' = [mem EXCEPT ![r] = [FreshMem EXCEPT !.opt = opt, !.minute = minute]]
      PROVE  Shaped' /\ \A q \in Runs : q # r => mem'[q] = mem[q]
  BY <1>2 DEF Shaped, FreshMem
<1>3. ASSUME NEW fetched, NEW items,
             mem' = [mem EXCEPT ![r].fetched = fetched, ![r].items = items]
      PROVE  Shaped' /\ \A q \in Runs : q # r => mem'[q] = mem[q]
  BY <1>3 DEF Shaped, FreshMem
<1>4. ASSUME NEW items, mem' = [mem EXCEPT ![r].items = items]
      PROVE  Shaped' /\ \A q \in Runs : q # r => mem'[q] = mem[q]
  BY <1>4 DEF Shaped, FreshMem
<1> QED
  BY <1>1, <1>2, <1>3, <1>4

\* The run that starts, gathers, ranks, snaps, ends or dies writes no history.
LEMMA QuietRun ==
  ASSUME HistoryInv, NEW r \in Runs, UNCHANGED <<now, history, tmp, text, saved>>,
         pc' \in [Runs -> Labels], \A q \in Runs : q # r => pc'[q] = pc[q],
         pc'[r] \notin {"write", "replace"},
         alone' => alone, Shaped', \A q \in Runs : q # r => mem'[q] = mem[q],
         alone' => pc'[r] = "idle" \/ pc[r] # "idle" \/ \A q \in Runs \ {r} : pc[q] = "idle",
         starts' \in 0..MaxStarts, deaths' \in 0..MaxDeaths
  PROVE  HistoryInv'
<1>1. ScraperTypeOK'
  BY DEF HistoryInv, ScraperTypeOK
<1>2. OneRun'
  BY DEF HistoryInv, OneRun, Underway
<1>3. OwnTmp'
  BY DEF HistoryInv, OwnTmp
<1>4. HistoryIsARun'
  BY DEF HistoryInv, HistoryIsARun
<1> QED
  BY <1>1, <1>2, <1>3, <1>4 DEF HistoryInv

\* The steps of a run up to its ranks, its snapshot and its death.
LEMMA QuietRunStep ==
  ASSUME HistoryInv, NEW r \in Runs,
         Start(r) \/ Gather(r) \/ RankTopics(r) \/ LoadFails(r) \/ Snap(r) \/ Die(r)
  PROVE  HistoryInv'
<1> USE DEF files, past
<1>1. /\ ScraperTypeOK /\ Shaped
      /\ starts \in 0..MaxStarts /\ deaths \in 0..MaxDeaths
  BY DEF HistoryInv, ScraperTypeOK
<1>2. CASE Start(r)
  <2>1. /\ Goto(r, "idle", "fetch") /\ starts' = starts + 1 /\ starts < MaxStarts
        /\ alone' = (alone /\ \A q \in Runs \ {r} : ~Underway(q))
        /\ UNCHANGED <<now, history, tmp, text, saved, deaths>>
    BY <1>2 DEF Start
  <2>2. PICK o \in Options : mem' = [mem EXCEPT ![r] = [FreshMem EXCEPT !.opt = o, !.minute = now]]
    BY <1>2 DEF Start
  <2>3. Shaped' /\ \A q \in Runs : q # r => mem'[q] = mem[q]
    BY <1>1, <2>1, <2>2, Remembers
  <2>4. /\ pc'[r] = "fetch" /\ pc' \in [Runs -> Labels]
        /\ \A q \in Runs : q # r => pc'[q] = pc[q]
    BY <2>1, Moves DEF Labels
  <2>5. starts' \in 0..MaxStarts
    BY <1>1, <2>1, ScraperAssumption
  <2> QED
    BY <1>1, <2>1, <2>3, <2>4, <2>5, QuietRun DEF Underway
<1>3. ASSUME NEW from \in Labels \ {"idle"}, NEW to \in Labels \ {"write", "replace"},
             Goto(r, from, to), Shaped', \A q \in Runs : q # r => mem'[q] = mem[q],
             UNCHANGED <<now, history, tmp, text, saved, alone, starts>>,
             deaths' \in 0..MaxDeaths
      PROVE  HistoryInv'
  BY <1>1, <1>3, Moves, QuietRun
<1>4. ASSUME NEW from \in Labels \ {"idle"}, EndRun(r, from),
             UNCHANGED <<now, history, tmp, text, saved, alone, starts, deaths>>
      PROVE  HistoryInv'
  <2>1. Goto(r, from, "idle") /\ Shaped' /\ \A q \in Runs : q # r => mem'[q] = mem[q]
    BY <1>1, <1>4, Remembers DEF EndRun
  <2> QED
    BY <1>1, <1>3, <1>4, <2>1 DEF Labels
<1>5. CASE Gather(r)
  <2>1. Goto(r, "fetch", "rank") /\ UNCHANGED <<now, history, tmp, text, past>>
    BY <1>5 DEF Gather
  <2>2. \E fetched, items : mem' = [mem EXCEPT ![r].fetched = fetched, ![r].items = items]
    BY <1>5 DEF Gather
  <2>3. Shaped' /\ \A q \in Runs : q # r => mem'[q] = mem[q]
    BY <1>1, <2>1, <2>2, Remembers
  <2> QED
    BY <1>1, <1>3, <2>1, <2>3 DEF Labels
<1>6. CASE RankTopics(r)
  <2>1. UNCHANGED <<now, history, tmp, text, past>>
    BY <1>6 DEF RankTopics
  <2>2. \/ EndRun(r, "rank")
        \/ \E to \in {"snap", "open"} : \E items :
              Goto(r, "rank", to) /\ mem' = [mem EXCEPT ![r].items = items]
    BY <1>6 DEF RankTopics
  <2>3. ASSUME NEW to \in {"snap", "open"}, NEW items,
               Goto(r, "rank", to), mem' = [mem EXCEPT ![r].items = items]
        PROVE  HistoryInv'
    <3>1. Shaped' /\ \A q \in Runs : q # r => mem'[q] = mem[q]
      BY <1>1, <2>1, <2>3, Remembers
    <3> QED
      BY <1>1, <1>3, <2>1, <2>3, <3>1 DEF Labels
  <2> QED
    BY <1>4, <2>1, <2>2, <2>3 DEF Labels
<1>7. CASE LoadFails(r) \/ Snap(r)
  BY <1>4, <1>7 DEF LoadFails, Snap, Labels
<1>8. CASE Die(r)
  <2>1. /\ pc[r] # "idle" /\ pc' = [pc EXCEPT ![r] = "idle"]
        /\ deaths' = deaths + 1 /\ deaths < MaxDeaths
        /\ UNCHANGED <<now, history, tmp, text, saved, alone, starts>>
        /\ mem' = [mem EXCEPT ![r] = FreshMem]
    BY <1>8 DEF Die, Underway
  <2>2. Shaped' /\ \A q \in Runs : q # r => mem'[q] = mem[q]
    BY <1>1, <2>1, Remembers
  <2>3. Goto(r, pc[r], "idle") /\ pc[r] \in Labels \ {"idle"}
    BY <1>1, <2>1 DEF Goto, ScraperTypeOK
  <2>4. deaths' \in 0..MaxDeaths
    BY <1>1, <2>1, ScraperAssumption
  <2> QED
    BY <1>1, <1>3, <2>1, <2>2, <2>3, <2>4 DEF Labels
<1> QED
  BY <1>2, <1>5, <1>6, <1>7, <1>8

\* The temporary file is opened: it is not the history, and it is empty.
LEMMA OpenStep ==
  ASSUME HistoryInv, NEW r \in Runs, OpenTmp(r)
  PROVE  HistoryInv'
<1> DEFINE used == {history} \cup {mem[q].file : q \in Runs}
<1>1. ScraperTypeOK /\ Shaped
  BY DEF HistoryInv
<1>2. PICK f \in IF tmp # None THEN {tmp} ELSE {CHOOSE g \in Files : g \notin used} :
        /\ tmp' = f /\ text' = [text EXCEPT ![f] = None]
        /\ mem' = [mem EXCEPT ![r].file = f]
  BY DEF OpenTmp
<1>3. UNCHANGED <<now, history, saved, alone, starts, deaths>>
  BY DEF OpenTmp, past
<1>4. f \in Files /\ f # history /\ f # None
  <2>1. CASE tmp # None
    BY <1>1, <1>2, <2>1, ScraperAssumption DEF ScraperTypeOK
  <2>2. CASE tmp = None
    <3>1. \E g \in Files : g \notin used
      BY <1>1, FreeFile
    <3>2. f \in Files /\ f \notin used
      BY <1>2, <2>2, <3>1
    <3> QED
      BY <3>2, ScraperAssumption
  <2> QED
    BY <2>1, <2>2
<1>5. /\ pc[r] = "open" /\ pc'[r] = "write" /\ pc' \in [Runs -> Labels]
      /\ \A q \in Runs : q # r => pc'[q] = pc[q]
  BY Moves DEF OpenTmp, Labels
<1>6. /\ mem'[r].file = f /\ \A q \in Runs : q # r => mem'[q] = mem[q]
      /\ text'[f] = None /\ \A g \in Files : g # f => text'[g] = text[g]
  BY <1>1, <1>2, <1>4 DEF Shaped, FreshMem
<1>7. Shaped'
  BY <1>1, <1>2, <1>4 DEF Shaped, FreshMem
<1>8. ScraperTypeOK'
  BY <1>1, <1>2, <1>3, <1>4, <1>5, <1>6 DEF ScraperTypeOK
<1>9. OneRun'
  BY <1>3, <1>5 DEF HistoryInv, OneRun, Underway
<1>10. OwnTmp'
  BY <1>2, <1>3, <1>4, <1>5, <1>6 DEF HistoryInv, OneRun, OwnTmp, Underway
<1>11. HistoryIsARun'
  BY <1>1, <1>3, <1>4, <1>6 DEF HistoryInv, HistoryIsARun, ScraperTypeOK
<1> QED
  BY <1>7, <1>8, <1>9, <1>10, <1>11 DEF HistoryInv

\* The text goes into a file that is not the history of a run that is alone.
LEMMA WriteStep ==
  ASSUME HistoryInv, NEW r \in Runs, WriteTmp(r)
  PROVE  HistoryInv'
<1> DEFINE f == mem[r].file
           ranks == [ranks |-> RanksOf(mem[r].items), at |-> now]
<1>1. ScraperTypeOK /\ Shaped /\ now \in Nat
  BY ScraperAssumption DEF HistoryInv, ScraperTypeOK
<1>2. PICK x \in IF text[f] = None THEN {ranks} ELSE {ranks, Torn} :
        text' = [text EXCEPT ![f] = x]
  BY DEF WriteTmp
<1>3. UNCHANGED <<now, history, tmp, mem, saved, alone, starts, deaths>>
  BY DEF WriteTmp, past
<1>4. /\ pc[r] = "write" /\ pc'[r] = "replace" /\ pc' \in [Runs -> Labels]
      /\ \A q \in Runs : q # r => pc'[q] = pc[q]
  BY Moves DEF WriteTmp, Labels
<1>5. f \in Files /\ text'[f] = x /\ \A g \in Files : g # f => text'[g] = text[g]
  BY <1>1, <1>2, <1>4 DEF Shaped, ScraperTypeOK
<1>6. alone => f = tmp /\ f # None /\ f # history /\ x = ranks
  BY <1>1, <1>2, <1>4 DEF HistoryInv, OwnTmp, ScraperTypeOK
<1>7. Shaped'
  BY <1>1, <1>2, <1>3, <1>5 DEF Shaped
<1>8. ScraperTypeOK'
  BY <1>1, <1>3, <1>4, <1>5 DEF ScraperTypeOK
<1>9. OneRun'
  BY <1>3, <1>4 DEF HistoryInv, OneRun, Underway
<1>10. OwnTmp'
  <2>1. ASSUME alone
        PROVE  /\ \A q \in Runs : pc'[q] \in {"write", "replace"} => q = r
               /\ tmp # None /\ f = tmp
               /\ now \in 0..now /\ text'[tmp] = [ranks |-> RanksOf(mem[r].items), at |-> now]
    BY <1>1, <1>3, <1>4, <1>5, <1>6, <2>1 DEF HistoryInv, OneRun, Underway
  <2> QED
    BY <1>3, <1>4, <2>1 DEF OwnTmp
<1>11. HistoryIsARun'
  BY <1>1, <1>3, <1>5, <1>6 DEF HistoryInv, HistoryIsARun, ScraperTypeOK
<1> QED
  BY <1>7, <1>8, <1>9, <1>10, <1>11 DEF HistoryInv

\* The history becomes the file that was written, as a whole.
LEMMA ReplaceStep ==
  ASSUME HistoryInv, NEW r \in Runs, Replace(r)
  PROVE  HistoryInv'
<1>1. ScraperTypeOK /\ Shaped
  BY DEF HistoryInv
<1>2. /\ UNCHANGED <<now, text, alone, starts, deaths>>
      /\ mem' = [mem EXCEPT ![r] = FreshMem] /\ Goto(r, "replace", "idle")
      /\ \/ tmp = None /\ UNCHANGED <<history, tmp, saved>>
         \/ tmp # None /\ history' = tmp /\ tmp' = None /\ saved' = RanksOf(mem[r].items)
  BY DEF Replace, EndRun
<1>3. /\ pc[r] = "replace" /\ pc'[r] = "idle" /\ pc' \in [Runs -> Labels]
      /\ \A q \in Runs : q # r => pc'[q] = pc[q]
  BY <1>2, Moves DEF Labels
<1>4. Shaped' /\ \A q \in Runs : q # r => mem'[q] = mem[q]
  BY <1>1, <1>2, Remembers
<1>5. ScraperTypeOK'
  BY <1>1, <1>2, <1>3, <1>4, ScraperAssumption DEF ScraperTypeOK
<1>6. OneRun'
  BY <1>2, <1>3 DEF HistoryInv, OneRun, Underway
<1>7. alone => /\ \A q \in Runs : pc'[q] = "idle"
               /\ tmp # None
               /\ \E t \in 0..now : text[tmp] = [ranks |-> RanksOf(mem[r].items), at |-> t]
  BY <1>1, <1>3 DEF HistoryInv, OneRun, OwnTmp, Underway, ScraperTypeOK
<1>8. OwnTmp'
  BY <1>2, <1>7 DEF OwnTmp
<1>9. HistoryIsARun'
  BY <1>2, <1>7 DEF HistoryIsARun
<1> QED
  BY <1>4, <1>5, <1>6, <1>8, <1>9 DEF HistoryInv

\* Time passes: what was written stays as old as it is.
LEMMA TickStep ==
  ASSUME HistoryInv, Tick
  PROVE  HistoryInv'
<1>1. /\ now' = now + 1 /\ now' \in 0..MaxTime /\ now \in Nat
      /\ UNCHANGED <<history, tmp, text, pc, mem, saved, alone, starts, deaths>>
  BY ScraperAssumption DEF Tick, files, past, HistoryInv, ScraperTypeOK
<1>2. \A t \in 0..now : t \in 0..now'
  BY <1>1
<1>3. ScraperTypeOK' /\ Shaped' /\ OneRun'
  BY <1>1 DEF HistoryInv, ScraperTypeOK, Shaped, OneRun, Underway
<1>4. OwnTmp' /\ HistoryIsARun'
  BY <1>1, <1>2 DEF HistoryInv, OwnTmp, HistoryIsARun
<1> QED
  BY <1>3, <1>4 DEF HistoryInv

\* No file, and no run.
LEMMA HistoryInit == Init => HistoryInv
<1> SUFFICES ASSUME Init PROVE HistoryInv
  OBVIOUS
<1>1. ScraperTypeOK /\ Shaped
  BY ScraperAssumption DEF Init, ScraperTypeOK, Shaped, Labels, FreshMem
<1> QED
  BY <1>1 DEF Init, HistoryInv, OneRun, OwnTmp, HistoryIsARun, Underway

\* Every step of a run keeps the history.
LEMMA HistoryStep == HistoryInv /\ [Next]_vars => HistoryInv'
<1>1. ASSUME HistoryInv, UNCHANGED vars
      PROVE  HistoryInv'
  BY <1>1 DEF vars, files, past, HistoryInv, ScraperTypeOK, Shaped, OneRun, OwnTmp,
              HistoryIsARun, Underway
<1> QED
  BY <1>1, QuietRunStep, OpenStep, WriteStep, ReplaceStep, TickStep DEF Next, RunStep

\* Wherever a run dies, the history is the whole of what an earlier one has ranked:
\* until two runs overlap, whose mixture nothing keeps apart.
THEOREM HistoryIsWhole == Spec => []HistoryIsARun
  BY HistoryInit, HistoryStep, PTL DEF Spec, HistoryInv

\* The types of a run's variables.
THEOREM ScraperTypeCorrect == Spec => []ScraperTypeOK
  BY HistoryInit, HistoryStep, PTL DEF Spec, HistoryInv

-----------------------------------------------------------------------------
(***************************************************************************)
(* The digest: what a run has fetched is in it. First what the operators   *)
(* on lists do, each recursive function by its least counterexample.       *)
(***************************************************************************)
\* Of some positions one is the first.
LEMMA FirstOfAll ==
  ASSUME NEW S \in SUBSET Nat, S # {}
  PROVE  \E i \in S : \A j \in S : i <= j
<1>1. PICK i \in S : \A j \in S : ~(<<j, i>> \in OpToRel(<, Nat))
  BY NatLessThanWellFounded, WFMin
<1>2. ASSUME NEW j \in S PROVE i <= j
  <2>1. i \in Nat /\ j \in Nat /\ <<j, i>> \in Nat \X Nat
    OBVIOUS
  <2>2. j < i => <<j, i>> \in OpToRel(<, Nat)
    BY <2>1 DEF OpToRel
  <2>3. ~(j < i)
    BY <1>1, <2>2
  <2> QED
    BY <2>1, <2>3
<1> QED
  BY <1>2

\* Of some positions, the one with the highest value, the earliest of equals, is one of them.
LEMMA Winner ==
  ASSUME NEW N \in Nat, NEW h \in [1..N -> Int], NEW S \in SUBSET (1..N), S # {}
  PROVE  \E i \in S : \A j \in S : h[j] < h[i] \/ (h[j] = h[i] /\ i <= j)
<1> DEFINE Beats(i, j) == h[j] < h[i] \/ (h[j] = h[i] /\ i <= j)
           Won(n) == \E i \in S : i <= n /\ \A j \in S : j <= n => Beats(i, j)
           T == {n \in 1..N : (\E i \in S : i <= n) /\ ~Won(n)}
<1>1. \A j \in S : j \in Int /\ 1 <= j /\ j <= N /\ h[j] \in Int
  OBVIOUS
<1>2. ASSUME NEW n \in 1..N, NEW e \in S, e <= n, ~Won(n)
      PROVE  n - 1 \in 1..N /\ (\E i \in S : i <= n - 1) /\ ~Won(n - 1)
  <2>1. n \in Int /\ \A j \in S : j <= n => j = n \/ j <= n - 1
    BY <1>1
  <2>2. \E i \in S : i <= n - 1
    <3>1. SUFFICES ASSUME \A i \in S : ~(i <= n - 1) PROVE FALSE
      OBVIOUS
    <3>2. e = n /\ \A j \in S : j <= n => j = n
      BY <1>2, <2>1, <3>1
    <3>3. Beats(n, n) /\ n <= n
      BY <2>1
    <3> HIDE DEF Beats
    <3> QED
      BY <1>2, <3>2, <3>3
  <2>3. ASSUME NEW i \in S, i <= n - 1, \A j \in S : j <= n - 1 => Beats(i, j)
        PROVE  Won(n)
    <3>1. i <= n
      BY <1>1, <2>1, <2>3
    <3>2. CASE n \in S /\ h[n] > h[i]
      <4>1. ASSUME NEW j \in S, j <= n - 1
            PROVE  Beats(n, j)
        <5>1. Beats(i, j)
          BY <2>3, <4>1
        <5>2. h[j] \in Int /\ h[i] \in Int /\ h[n] \in Int
          BY <1>1, <3>2
        <5> QED
          BY <3>2, <5>1, <5>2
      <4>2. Beats(n, n) /\ n <= n
        BY <2>1
      <4> HIDE DEF Beats
      <4> QED
        BY <2>1, <3>2, <4>1, <4>2
    <3>3. CASE ~(n \in S /\ h[n] > h[i])
      <4>1. n \in S => Beats(i, n)
        BY <1>1, <2>1, <3>1, <3>3
      <4> HIDE DEF Beats
      <4> QED
        BY <2>1, <2>3, <3>1, <4>1
    <3> QED
      BY <3>2, <3>3
  <2>4. n - 1 \in 1..N
    BY <1>1, <2>1, <2>2
  <2> QED
    BY <1>2, <2>2, <2>3, <2>4
<1>3. T = {}
  <2>1. T \in SUBSET Nat
    OBVIOUS
  <2>2. ASSUME NEW n \in T, \A m \in T : n <= m
        PROVE  FALSE
    <3>1. PICK e \in S : n \in 1..N /\ e <= n /\ ~Won(n)
      OBVIOUS
    <3> HIDE DEF Won
    <3>2. n - 1 \in T
      BY <1>2, <3>1
    <3> HIDE DEF T
    <3>3. ~(n <= n - 1)
      BY <3>1
    <3> QED
      BY <2>2, <3>2, <3>3
  <2> HIDE DEF T
  <2> QED
    BY <2>1, <2>2, FirstOfAll
<1>4. PICK e \in S : e <= N
  BY <1>1
<1>5. N \in 1..N
  BY <1>1, <1>4
<1>6. Won(N)
  <2> HIDE DEF Won
  <2> QED
    BY <1>3, <1>4, <1>5
<1> QED
  BY <1>1, <1>6

\* The least and the greatest of some values are among them.
LEMMA Extremes ==
  ASSUME NEW N \in Nat, NEW h \in [1..N -> Int], NEW S \in SUBSET (1..N), S # {}
  PROVE  LET X == {h[j] : j \in S} IN
         Min(X) \in Int /\ Max(X) \in Int /\ \A x \in X : Min(X) <= x /\ x <= Max(X)
<1> DEFINE X == {h[j] : j \in S}
           k == [i \in 1..N |-> -h[i]]
<1>1. PICK i \in S : \A j \in S : h[j] < h[i] \/ (h[j] = h[i] /\ i <= j)
  BY Winner
<1>2. k \in [1..N -> Int]
  OBVIOUS
<1>3. PICK m \in S : \A j \in S : k[j] < k[m] \/ (k[j] = k[m] /\ m <= j)
  <2> HIDE DEF k
  <2> QED
    BY <1>2, Winner
<1>4. \A j \in S : h[j] \in Int /\ h[i] >= h[j]
  BY <1>1
<1>5. \A j \in S : h[m] <= h[j]
  <2>1. \A j \in S : h[j] \in Int /\ k[j] = -h[j]
    OBVIOUS
  <2> HIDE DEF k
  <2> QED
    BY <1>3, <2>1
<1>6. /\ X \subseteq Int /\ h[i] \in X /\ h[m] \in X
      /\ \A x \in X : h[i] >= x /\ h[m] <= x
  BY <1>4, <1>5
<1> HIDE DEF X
<1>7. Max(X) \in X /\ \A x \in X : Max(X) >= x
  BY <1>6 DEF Max
<1>8. Min(X) \in X /\ \A x \in X : Min(X) <= x
  BY <1>6 DEF Min
<1> QED
  BY <1>6, <1>7, <1>8 DEF X

\* Where each is before or after each other, no two have as many before them.
LEMMA Places ==
  ASSUME NEW D, IsFiniteSet(D), NEW before \in [D -> SUBSET D],
         \A i \in D : i \notin before[i],
         \A i, j \in D : i \in before[j] => before[i] \subseteq before[j],
         \A i, j \in D : i = j \/ i \in before[j] \/ j \in before[i]
  PROVE  /\ \A i \in D : Cardinality(before[i]) \in 0..(Cardinality(D) - 1)
         /\ \A i, j \in D : Cardinality(before[i]) = Cardinality(before[j]) => i = j
<1>1. ASSUME NEW i \in D, NEW E \in SUBSET D, before[i] \subseteq E, i \in E
      PROVE  /\ Cardinality(before[i]) \in Nat /\ Cardinality(E) \in Nat
             /\ Cardinality(before[i]) + 1 <= Cardinality(E)
  <2>1. IsFiniteSet(E) /\ IsFiniteSet(before[i])
    BY FS_Subset
  <2>2. before[i] \cup {i} \in SUBSET E /\ i \notin before[i]
    BY <1>1
  <2>3. Cardinality(before[i] \cup {i}) = Cardinality(before[i]) + 1
    BY <2>1, <2>2, FS_AddElement
  <2>4. Cardinality(before[i] \cup {i}) <= Cardinality(E)
    BY <2>1, <2>2, FS_Subset
  <2> QED
    BY <2>1, <2>3, <2>4, FS_CardinalityType
<1>2. ASSUME NEW i \in D
      PROVE  Cardinality(before[i]) \in 0..(Cardinality(D) - 1)
  <2>1. before[i] \subseteq D
    OBVIOUS
  <2>2. /\ Cardinality(before[i]) \in Nat /\ Cardinality(D) \in Nat
        /\ Cardinality(before[i]) + 1 <= Cardinality(D)
    BY <1>1, <2>1
  <2> QED
    BY <2>2
<1>3. ASSUME NEW i \in D, NEW j \in D, i \in before[j]
      PROVE  Cardinality(before[i]) # Cardinality(before[j])
  <2>1. before[j] \in SUBSET D /\ before[i] \subseteq before[j]
    BY <1>3
  <2>2. /\ Cardinality(before[i]) \in Nat /\ Cardinality(before[j]) \in Nat
        /\ Cardinality(before[i]) + 1 <= Cardinality(before[j])
    BY <1>1, <1>3, <2>1
  <2> QED
    BY <2>2
<1> QED
  BY <1>2, <1>3

\* The n-th of a set of positions is one of them, and each is the n-th for some n.
LEMMA NthCounts ==
  ASSUME NEW N \in Nat, NEW S \in SUBSET (1..N)
  PROVE  /\ \A i \in S : \E n \in 1..Cardinality(S) : Nth(S, n) = i
         /\ \A n \in 1..Cardinality(S) : Nth(S, n) \in S
<1> DEFINE before == [k \in S |-> {j \in S : j < k}]
           place == [k \in S |-> Cardinality(before[k]) + 1]
<1>1. IsFiniteSet(S)
  <2>1. IsFiniteSet(1..N)
    BY FS_Interval
  <2> QED
    BY <2>1, FS_Subset
<1>2. /\ before \in [S -> SUBSET S]
      /\ \A k \in S : k \notin before[k]
      /\ \A k, j \in S : k \in before[j] => before[k] \subseteq before[j]
      /\ \A k, j \in S : k = j \/ k \in before[j] \/ j \in before[k]
  <2>1. \A j \in S : j \in Int
    OBVIOUS
  <2>2. before \in [S -> SUBSET S] /\ \A j, k \in S : k \in before[j] <=> k < j
    OBVIOUS
  <2> HIDE DEF before
  <2>3. \A j, k \in S : k = j \/ k < j \/ j < k
    BY <2>1
  <2>4. ASSUME NEW k \in S, NEW j \in S, k \in before[j]
        PROVE  before[k] \subseteq before[j]
    <3>1. ASSUME NEW m \in before[k] PROVE m \in before[j]
      <4>1. m \in S /\ m < k /\ k < j
        BY <2>2, <2>4
      <4>2. m < j
        BY <2>1, <4>1
      <4> QED
        BY <2>2, <4>1, <4>2
    <3> QED
      BY <3>1
  <2> QED
    BY <2>1, <2>2, <2>3, <2>4
<1>3. \A k \in S : before[k] = {j \in S : j < k}
  OBVIOUS
<1> HIDE DEF before
<1>4. /\ \A k \in S : Cardinality(before[k]) \in 0..(Cardinality(S) - 1)
      /\ \A k, j \in S : Cardinality(before[k]) = Cardinality(before[j]) => k = j
  BY <1>1, <1>2, Places
<1>5. Cardinality(S) \in Nat
  BY <1>1, FS_CardinalityType
<1>6. \A k \in S : place[k] \in 1..Cardinality(S) /\ Cardinality(before[k]) = place[k] - 1
  BY <1>4, <1>5
<1> HIDE DEF place
<1>7. \A k, j \in S : place[k] = place[j] => k = j
  BY <1>4, <1>6
<1>8. \A k \in S : Nth(S, place[k]) = k
  <2>1. ASSUME NEW k \in S
        PROVE  Nth(S, place[k]) = k
    <3>1. \A i \in S : Cardinality(before[i]) = place[k] - 1 <=> i = k
      BY <1>4, <1>6
    <3> QED
      BY <1>3, <3>1 DEF Nth
  <2> QED
    BY <2>1
<1>9. \A n \in 1..Cardinality(S) : \E k \in S : place[k] = n
  <2>1. IsFiniteSet(1..Cardinality(S)) /\ Cardinality(1..Cardinality(S)) = Cardinality(S)
    BY <1>5, FS_Interval
  <2>2. place \in Injection(S, 1..Cardinality(S))
    BY <1>6, <1>7 DEF Injection, IsInjective, place
  <2>3. place \in Surjection(S, 1..Cardinality(S))
    BY <2>1, <2>2, FS_Injection
  <2> QED
    BY <2>3 DEF Surjection
<1> QED
  BY <1>6, <1>8, <1>9

\* What a value is where each is made of the one before exists, and is of their type.
LEMMA Flattened ==
  ASSUME NEW T, NEW s \in Seq(Seq(T))
  PROVE  FlattenSeq(s) \in Seq(T)
<1> DEFINE N == Len(s)
           Next1(f, i) == IF i = 1 THEN s[i] ELSE f[i - 1] \o s[i]
           Flat(n) == \E f \in [1..n -> Seq(T)] : \A i \in 1..n : f[i] = Next1(f, i)
           Bad == {n \in 1..N : ~Flat(n)}
           flatten == CHOOSE f : f = [i \in 1..N |-> Next1(f, i)]
<1>1. N \in Nat /\ \A i \in 1..N : s[i] \in Seq(T)
  BY LenProperties, ElementOfSeq
<1>2. ASSUME NEW n \in 1..N, n = 1 \/ Flat(n - 1)
      PROVE  Flat(n)
  <2>1. CASE n = 1
    <3> DEFINE g == [i \in 1..1 |-> s[i]]
    <3>1. g \in [1..1 -> Seq(T)] /\ \A i \in 1..1 : g[i] = Next1(g, i)
      BY <1>1, <2>1
    <3> HIDE DEF g, Next1
    <3> QED
      BY <2>1, <3>1
  <2>2. CASE n # 1
    <3>1. PICK f \in [1..(n - 1) -> Seq(T)] : \A i \in 1..(n - 1) : f[i] = Next1(f, i)
      BY <1>2, <2>2
    <3> DEFINE g == [i \in 1..n |-> IF i = n THEN f[n - 1] \o s[n] ELSE f[i]]
    <3>2. n \in Nat /\ n - 1 \in 1..(n - 1) /\ s[n] \in Seq(T) /\ f[n - 1] \in Seq(T)
      BY <1>1, <2>2
    <3>3. f[n - 1] \o s[n] \in Seq(T)
      BY <3>2, ConcatProperties
    <3>4. \A i \in 1..n : i = n \/ i \in 1..(n - 1)
      BY <3>2
    <3>5. g \in [1..n -> Seq(T)]
      BY <3>3, <3>4
    <3>6. \A i \in 1..(n - 1) : g[i] = f[i]
      <4>1. \A i \in 1..(n - 1) : i \in 1..n /\ i # n
        BY <3>2
      <4> QED
        BY <4>1
    <3>7. g[n] = g[n - 1] \o s[n]
      <4>1. g[n] = f[n - 1] \o s[n]
        <5>1. n \in 1..n
          BY <3>2
        <5> QED
          BY <5>1
      <4> HIDE DEF g
      <4> QED
        BY <3>2, <3>6, <4>1
    <3>8. ASSUME NEW i \in 1..n
          PROVE  g[i] = Next1(g, i)
      <4>1. CASE i = n
        <5> HIDE DEF g
        <5> QED
          BY <2>2, <3>7, <4>1
      <4>2. CASE i # n
        <5>1. i \in 1..(n - 1) /\ (i = 1 \/ i - 1 \in 1..(n - 1))
          BY <3>2, <4>2
        <5> HIDE DEF g
        <5> QED
          BY <3>1, <3>6, <5>1
      <4> QED
        BY <4>1, <4>2
    <3> HIDE DEF g, Next1
    <3> QED
      BY <3>5, <3>8
  <2> QED
    BY <2>1, <2>2
<1>3. Bad = {}
  <2>1. Bad \in SUBSET Nat
    OBVIOUS
  <2>2. ASSUME NEW n \in Bad, \A m \in Bad : n <= m
        PROVE  FALSE
    <3> HIDE DEF Flat
    <3>1. n \in 1..N /\ ~Flat(n)
      OBVIOUS
    <3>2. n = 1 \/ n - 1 \in 1..N
      BY <1>1, <3>1
    <3>3. n - 1 \notin Bad
      <4>1. ~(n <= n - 1)
        BY <3>1
      <4> HIDE DEF Bad
      <4> QED
        BY <2>2, <4>1
    <3> QED
      BY <1>2, <3>1, <3>2, <3>3
  <2> HIDE DEF Bad
  <2> QED
    BY <2>1, <2>2, FirstOfAll
<1>4. CASE N = 0
  <2>1. s = <<>>
    BY <1>4, EmptySeq
  <2> QED
    BY <1>4, <2>1, EmptySeq DEF FlattenSeq
<1>5. CASE N # 0
  <2>1. N \in 1..N
    BY <1>1, <1>5
  <2>2. Flat(N)
    <3> HIDE DEF Flat
    <3> QED
      BY <1>3, <2>1
  <2>3. flatten = [i \in 1..N |-> Next1(flatten, i)]
    <3>1. PICK f \in [1..N -> Seq(T)] : \A i \in 1..N : f[i] = Next1(f, i)
      BY <2>2
    <3>2. f = [i \in 1..N |-> Next1(f, i)]
      <4> HIDE DEF Next1
      <4> QED
        BY <3>1
    <3> QED
      BY <3>2
  <2> HIDE DEF flatten
  <2> DEFINE Odd == {i \in 1..N : flatten[i] \notin Seq(T)}
  <2>4. Odd = {}
    <3>1. Odd \in SUBSET Nat
      OBVIOUS
    <3>2. ASSUME NEW n \in Odd, \A m \in Odd : n <= m
          PROVE  FALSE
      <4>1. n \in 1..N /\ flatten[n] \notin Seq(T) /\ s[n] \in Seq(T)
        BY <1>1
      <4>2. flatten[n] = Next1(flatten, n)
        BY <2>3, <4>1
      <4>3. n # 1
        BY <4>1, <4>2
      <4>4. n - 1 \in 1..N /\ ~(n <= n - 1)
        BY <1>1, <4>1, <4>3
      <4>5. flatten[n - 1] \in Seq(T)
        BY <3>2, <4>4
      <4> QED
        BY <4>1, <4>2, <4>3, <4>5, ConcatProperties
    <3> HIDE DEF Odd
    <3> QED
      BY <3>1, <3>2, FirstOfAll
  <2>5. flatten[N] \in Seq(T)
    BY <2>1, <2>4
  <2>6. FlattenSeq(s) = flatten[N]
    BY <1>5 DEF FlattenSeq, flatten
  <2> QED
    BY <2>5, <2>6
<1> QED
  BY <1>4, <1>5

\* The positions that open a group are what the loop makes them.
LEMMA Openers ==
  ASSUME NEW items, NEW N \in Nat, DOMAIN items = 1..N
  PROVE  /\ Opens(items) \in SUBSET (1..N)
         /\ \A i \in 1..N : i \in Opens(items) <=>
               \A g \in Opens(items) : g < i => ~Alike[<<items[g].title, items[i].title>>]
<1> DEFINE A(g, i) == Alike[<<items[g].title, items[i].title>>]
           Rule(S, i) == i \in S <=> \A g \in S : g < i => ~A(g, i)
           Done(n) == \E S \in SUBSET (1..n) : \A i \in 1..n : Rule(S, i)
           Bad == {n \in 1..N : ~Done(n)}
           Next1(f, i) == \A g \in 1..(i - 1) : f[g] => ~A(g, i)
           opens == CHOOSE f : f = [i \in 1..N |-> Next1(f, i)]
<1> HIDE DEF A
<1>1. Done(0)
  OBVIOUS
<1>2. ASSUME NEW n \in 1..N, Done(n - 1)
      PROVE  Done(n)
  <2>1. PICK S \in SUBSET (1..(n - 1)) : \A i \in 1..(n - 1) : Rule(S, i)
    BY <1>2
  <2> DEFINE R == IF \A g \in S : ~A(g, n) THEN S \cup {n} ELSE S
  <2>2. n \in Nat /\ n \notin S /\ \A g \in S : g < n
    OBVIOUS
  <2>3. R \in SUBSET (1..n) /\ \A g \in R : g \in S \/ g = n
    OBVIOUS
  <2>4. ASSUME NEW i \in 1..n
        PROVE  Rule(R, i)
    <3>1. CASE i = n
      BY <2>2, <3>1
    <3>2. CASE i # n
      <4>1. i \in 1..(n - 1) /\ ~(n < i)
        BY <3>2
      <4>2. i \in R <=> i \in S
        BY <3>2
      <4>3. \A g : g \in R /\ g < i <=> g \in S /\ g < i
        BY <4>1
      <4> HIDE DEF R
      <4> QED
        BY <2>1, <4>1, <4>2, <4>3
    <3> QED
      BY <3>1, <3>2
  <2> HIDE DEF R, Rule
  <2> QED
    BY <2>3, <2>4
<1>3. Bad = {}
  <2>1. Bad \in SUBSET Nat
    OBVIOUS
  <2>2. ASSUME NEW n \in Bad, \A m \in Bad : n <= m
        PROVE  FALSE
    <3> HIDE DEF Done
    <3>1. n \in 1..N /\ ~Done(n) /\ n - 1 \in 0..N
      OBVIOUS
    <3>2. n - 1 \notin Bad
      <4>1. ~(n <= n - 1)
        BY <3>1
      <4> HIDE DEF Bad
      <4> QED
        BY <2>2, <4>1
    <3>3. Done(n - 1)
      BY <1>1, <3>1, <3>2
    <3> QED
      BY <1>2, <3>1, <3>3
  <2> HIDE DEF Bad
  <2> QED
    BY <2>1, <2>2, FirstOfAll
<1>4. Done(N)
  <2> HIDE DEF Done
  <2> QED
    BY <1>1, <1>3
<1>5. PICK S \in SUBSET (1..N) : \A i \in 1..N : Rule(S, i)
  BY <1>4
<1>6. opens = [i \in 1..N |-> Next1(opens, i)]
  <2> DEFINE f == [i \in 1..N |-> i \in S]
  <2>1. ASSUME NEW i \in 1..N
        PROVE  f[i] = Next1(f, i)
    <3>1. \A g \in 1..(i - 1) : g \in 1..N /\ g < i /\ (f[g] <=> g \in S)
      <4>1. \A g \in 1..(i - 1) : g \in 1..N /\ g < i
        OBVIOUS
      <4> QED
        BY <4>1
    <3>2. \A g \in S : g < i => g \in 1..(i - 1)
      OBVIOUS
    <3>3. (i \in S) <=> Next1(f, i)
      <4> HIDE DEF f
      <4> QED
        BY <1>5, <3>1, <3>2
    <3>4. (i \in S) = Next1(f, i)
      <4> HIDE DEF f
      <4>1. CASE i \in S
        <5>1. Next1(f, i)
          BY <3>3, <4>1
        <5>2. Next1(f, i) = TRUE
          BY <5>1
        <5>3. (i \in S) = TRUE
          BY <4>1
        <5> HIDE DEF Next1
        <5> QED
          BY <5>2, <5>3
      <4>2. CASE i \notin S
        <5>1. ~Next1(f, i)
          BY <3>3, <4>2
        <5>2. Next1(f, i) = FALSE
          BY <5>1
        <5>3. (i \in S) = FALSE
          BY <4>2
        <5> HIDE DEF Next1
        <5> QED
          BY <5>2, <5>3
      <4> QED
        BY <4>1, <4>2
    <3>5. f[i] = (i \in S)
      OBVIOUS
    <3> HIDE DEF f, Next1
    <3> QED
      BY <3>4, <3>5
  <2>2. f = [i \in 1..N |-> Next1(f, i)]
    <3> HIDE DEF Next1
    <3> QED
      BY <2>1
  <2> HIDE DEF f
  <2> QED
    BY <2>2
<1>7. Opens(items) = {i \in 1..N : opens[i]}
  BY DEF Opens, A
<1> HIDE DEF opens
<1>8. ASSUME NEW i \in 1..N
      PROVE  opens[i] <=> \A g \in 1..(i - 1) : opens[g] => ~A(g, i)
  BY <1>6
<1>9. ASSUME NEW i \in 1..N
      PROVE  i \in Opens(items) <=> \A g \in Opens(items) : g < i => ~A(g, i)
  <2>1. \A g \in 1..(i - 1) : g \in 1..N /\ g < i
    OBVIOUS
  <2>2. \A g \in 1..N : g < i => g \in 1..(i - 1)
    OBVIOUS
  <2> QED
    BY <1>7, <1>8, <2>1, <2>2
<1> QED
  BY <1>7, <1>9 DEF A

-----------------------------------------------------------------------------
(***************************************************************************)
(* The merge, the scores and the ranks                                     *)
(***************************************************************************)
\* A topic, as far as ranks and merges look at it, and a list of them.
IsTopic(x) ==
    /\ DOMAIN x = {"platform", "rank", "title", "heat", "from", "rise"}
    /\ x.rank \in Int /\ x.title \in Titles /\ x.heat \in Int
    /\ x.platform \in x.from

IsList(items) ==
    /\ \E N \in Nat : DOMAIN items = 1..N
    /\ \A i \in DOMAIN items : IsTopic(items[i])

\* A list that shows the same topics covers as much.
LEMMA CoversAsWell ==
  ASSUME NEW fetched, NEW merged, NEW items, NEW digest, Covers(items, fetched, merged),
         \A i \in DOMAIN items : \E n \in DOMAIN digest :
            /\ digest[n].from = items[i].from /\ digest[n].heat = items[i].heat
            /\ digest[n].title = items[i].title
  PROVE  Covers(digest, fetched, merged)
<1>1. \A shown \in Range(items) : \E again \in Range(digest) :
        again.from = shown.from /\ again.heat = shown.heat /\ again.title = shown.title
  BY DEF Range
<1>2. ASSUME NEW item \in Range(fetched)
      PROVE  \E again \in Range(digest) :
                /\ item.platform \in again.from /\ again.heat >= item.heat
                /\ \/ again.title = item.title
                   \/ merged /\ \E head \in Range(fetched) :
                         Alike[<<head.title, item.title>>] /\ Alike[<<head.title, again.title>>]
  <2>1. PICK shown \in Range(items) :
          /\ item.platform \in shown.from /\ shown.heat >= item.heat
          /\ \/ shown.title = item.title
             \/ merged /\ \E head \in Range(fetched) :
                   Alike[<<head.title, item.title>>] /\ Alike[<<head.title, shown.title>>]
    BY DEF Covers
  <2>2. PICK again \in Range(digest) :
          again.from = shown.from /\ again.heat = shown.heat /\ again.title = shown.title
    BY <1>1
  <2> QED
    BY <2>1, <2>2
<1> QED
  BY <1>2 DEF Covers

\* A list covers itself.
LEMMA CoversItself ==
  ASSUME NEW items, IsList(items), NEW merged
  PROVE  Covers(items, items, merged)
<1>1. \A item \in Range(items) : item.platform \in item.from /\ item.heat >= item.heat
  BY DEF Range, IsList, IsTopic
<1> QED
  BY <1>1 DEF Covers

\* Every topic is in a group: its own, or that of the first it is like.
LEMMA InAGroup ==
  ASSUME NEW items, IsList(items), NEW i \in DOMAIN items
  PROVE  \E g \in Opens(items) : g \in DOMAIN items /\ i \in Group(items, g)
<1>1. PICK N \in Nat : DOMAIN items = 1..N
  BY DEF IsList
<1>2. /\ Opens(items) \in SUBSET (1..N)
      /\ i \in Opens(items) <=>
            \A g \in Opens(items) : g < i => ~Alike[<<items[g].title, items[i].title>>]
  BY <1>1, Openers
<1>3. CASE i \in Opens(items)
  BY <1>3 DEF Group
<1>4. CASE i \notin Opens(items)
  <2> DEFINE S == {g \in Opens(items) : g < i /\ Alike[<<items[g].title, items[i].title>>]}
  <2>1. S \in SUBSET Nat /\ S # {}
    BY <1>1, <1>2, <1>4
  <2>2. PICK g \in S : \A h \in S : g <= h
    <3> HIDE DEF S
    <3> QED
      BY <2>1, FirstOfAll
  <2>3. \A h \in Opens(items) : h < g => ~Alike[<<items[h].title, items[i].title>>]
    <3>1. ASSUME NEW h \in Opens(items), h < g, Alike[<<items[h].title, items[i].title>>]
          PROVE  FALSE
      <4>1. h \in Int /\ g \in Int /\ i \in Int
        BY <1>1, <1>2
      <4>2. h \in S /\ ~(g <= h)
        BY <3>1, <4>1
      <4> QED
        BY <2>2, <4>2
    <3> QED
      BY <3>1
  <2> QED
    BY <1>1, <1>2, <2>2, <2>3 DEF Group
<1> QED
  BY <1>3, <1>4

\* A group becomes the hottest of its topics, and the first topic is like both.
LEMMA MergeKeeps ==
  ASSUME NEW items, IsList(items), NEW g \in DOMAIN items
  PROVE  LET m == Merge(items, Group(items, g)) IN
         /\ IsTopic(m)
         /\ \A i \in Group(items, g) :
              /\ i \in DOMAIN items
              /\ items[i].platform \in m.from /\ m.heat >= items[i].heat
              /\ \/ m.title = items[i].title
                 \/ /\ Alike[<<items[g].title, items[i].title>>]
                    /\ Alike[<<items[g].title, m.title>>]
<1> DEFINE G == Group(items, g)
           b == Hottest(items, G)
           m == Merge(items, G)
           heat == [i \in DOMAIN items |-> items[i].heat]
<1>1. PICK N \in Nat : DOMAIN items = 1..N
  BY DEF IsList
<1>2. G \in SUBSET (1..N) /\ g \in G
  BY <1>1 DEF Group
<1>3. heat \in [1..N -> Int]
  BY <1>1 DEF IsList, IsTopic
<1>4. \E i \in G : \A j \in G : heat[j] < heat[i] \/ (heat[j] = heat[i] /\ i <= j)
  <2> HIDE DEF heat, G
  <2> QED
    BY <1>2, <1>3, Winner
<1>5. b \in G /\ \A j \in G : items[j].heat < items[b].heat \/ (items[j].heat = items[b].heat /\ b <= j)
  <2>1. \A i \in G : heat[i] = items[i].heat
    BY <1>1, <1>2
  <2> HIDE DEF heat, G
  <2>2. \E i \in G : \A j \in G :
          items[j].heat < items[i].heat \/ (items[j].heat = items[i].heat /\ i <= j)
    BY <1>4, <2>1
  <2> QED
    BY <2>2 DEF Hottest
<1>6. \A i \in G : i \in DOMAIN items /\ IsTopic(items[i])
  BY <1>1, <1>2 DEF IsList
<1>7. \A i \in G : i = g \/ Alike[<<items[g].title, items[i].title>>]
  BY DEF Group
<1> HIDE DEF G, b
<1>8. m = [items[b] EXCEPT !.from = {items[i].platform : i \in G}]
  BY DEF Merge, b, G
<1>9. /\ DOMAIN m = DOMAIN items[b] /\ m.rank = items[b].rank /\ m.title = items[b].title
      /\ m.heat = items[b].heat /\ m.platform = items[b].platform
      /\ m.from = {items[i].platform : i \in G}
  BY <1>5, <1>6, <1>8 DEF IsTopic
<1> HIDE DEF m
<1>10. IsTopic(m)
  BY <1>5, <1>6, <1>9 DEF IsTopic
<1>11. ASSUME NEW i \in G
       PROVE  /\ items[i].platform \in m.from /\ m.heat >= items[i].heat
              /\ \/ m.title = items[i].title
                 \/ /\ Alike[<<items[g].title, items[i].title>>]
                    /\ Alike[<<items[g].title, m.title>>]
  <2>1. items[i].heat \in Int /\ items[b].heat \in Int
    BY <1>5, <1>6 DEF IsTopic
  <2>2. items[i].platform \in m.from /\ m.heat >= items[i].heat
    BY <1>5, <1>9, <2>1
  <2>3. CASE i = b
    BY <1>9, <2>2, <2>3
  <2>4. CASE i # b
    <3>1. items[g].title \in Titles /\ items[i].title \in Titles /\ items[b].title \in Titles
      BY <1>2, <1>5, <1>6 DEF IsTopic
    <3>2. Alike[<<items[g].title, items[i].title>>] /\ Alike[<<items[g].title, items[b].title>>]
      <4>1. CASE i = g
        <5>1. Alike[<<items[g].title, items[b].title>>]
          BY <1>5, <1>7, <2>4, <4>1
        <5> QED
          BY <3>1, <4>1, <5>1, ScraperAssumption
      <4>2. CASE b = g
        <5>1. Alike[<<items[g].title, items[i].title>>]
          BY <1>7, <2>4, <4>2
        <5> QED
          BY <3>1, <4>2, <5>1, ScraperAssumption
      <4>3. CASE i # g /\ b # g
        BY <1>5, <1>7, <4>3
      <4> QED
        BY <4>1, <4>2, <4>3
    <3> QED
      BY <1>9, <2>2, <3>2
  <2> QED
    BY <2>3, <2>4
<1> QED
  BY <1>6, <1>10, <1>11 DEF m, G

\* dedup loses no topic.
LEMMA DedupCovers ==
  ASSUME NEW items, IsList(items)
  PROVE  IsList(Dedup(items)) /\ Covers(Dedup(items), items, TRUE)
<1> DEFINE open == Opens(items)
           d == Dedup(items)
           k == Cardinality(open)
<1>1. PICK N \in Nat : DOMAIN items = 1..N
  BY DEF IsList
<1>2. open \in SUBSET (1..N)
  BY <1>1, Openers
<1>3. k \in Nat
  <2>1. IsFiniteSet(1..N)
    BY FS_Interval
  <2>2. IsFiniteSet(open)
    BY <1>2, <2>1, FS_Subset
  <2> QED
    BY <2>2, FS_CardinalityType
<1>4. /\ DOMAIN d = 1..k
      /\ \A n \in 1..k : d[n] = Merge(items, Group(items, Nth(open, n)))
  BY DEF Dedup
<1> HIDE DEF d, k
<1>5. \A g \in open : \E n \in 1..k : Nth(open, n) = g
  BY <1>2, NthCounts DEF k
<1>6. \A n \in 1..k : Nth(open, n) \in open
  BY <1>1, <1>2, NthCounts DEF k
<1> HIDE DEF open
<1>7. IsList(d)
  BY <1>1, <1>2, <1>3, <1>4, <1>6, MergeKeeps DEF IsList
<1>8. Covers(d, items, TRUE)
  <2>1. ASSUME NEW i \in DOMAIN items
        PROVE  \E shown \in Range(d) :
                  /\ items[i].platform \in shown.from /\ shown.heat >= items[i].heat
                  /\ \/ shown.title = items[i].title
                     \/ \E head \in Range(items) :
                           Alike[<<head.title, items[i].title>>] /\ Alike[<<head.title, shown.title>>]
    <3>1. PICK g \in open : g \in DOMAIN items /\ i \in Group(items, g)
      BY InAGroup DEF open
    <3>2. PICK n \in 1..k : Nth(open, n) = g
      BY <1>5
    <3>3. /\ items[i].platform \in d[n].from /\ d[n].heat >= items[i].heat
          /\ \/ d[n].title = items[i].title
             \/ /\ Alike[<<items[g].title, items[i].title>>]
                /\ Alike[<<items[g].title, d[n].title>>]
      BY <1>4, <3>1, <3>2, MergeKeeps
    <3>4. d[n] \in Range(d) /\ items[g] \in Range(items)
      BY <1>4, <3>1 DEF Range
    <3> QED
      BY <3>3, <3>4
  <2> QED
    BY <2>1 DEF Covers, Range
<1> QED
  BY <1>7, <1>8 DEF d

\* What is normalized between the least and the greatest of its kind is a number.
LEMMA Normalized ==
  ASSUME NEW N \in Nat, NEW h \in [1..N -> Int], NEW S \in SUBSET (1..N), NEW i \in S
  PROVE  Normalize(h[i], {h[j] : j \in S}) \in Int
<1> DEFINE X == {h[j] : j \in S}
<1>1. h[i] \in X /\ h[i] \in Int
  OBVIOUS
<1>2. Min(X) \in Int /\ Max(X) \in Int /\ Min(X) <= h[i] /\ h[i] <= Max(X)
  BY <1>1, Extremes
<1> HIDE DEF X
<1>3. ASSUME Min(X) # Max(X)
      PROVE  (60 * (h[i] - Min(X))) \div (Max(X) - Min(X)) \in Int
  <2>1. 60 * (h[i] - Min(X)) \in Int /\ Max(X) - Min(X) \in Int /\ Max(X) - Min(X) > 0
    BY <1>1, <1>2, <1>3
  <2> QED
    BY <2>1
<1>4. 30 \in Int
  OBVIOUS
<1>5. Normalize(h[i], X) \in Int
  BY <1>3, <1>4, Zenon DEF Normalize
<1> QED
  BY <1>5 DEF X

\* Each score of a topic is a number.
LEMMA Scored ==
  ASSUME NEW items, IsList(items), NEW i \in DOMAIN items, NEW by \in SortKeys
  PROVE  Scores(items, i)[by] \in Int
<1> DEFINE same == {j \in DOMAIN items : items[j].platform = items[i].platform}
           heats == [j \in DOMAIN items |-> items[j].heat]
           ranks == [j \in DOMAIN items |-> items[j].rank]
           hot == 100 * Normalize(items[i].heat, {items[j].heat : j \in same})
           fresh == 60 * (60 - Normalize(items[i].rank, {items[j].rank : j \in same}))
           drama == 35 * CrossScore(Cardinality(items[i].from)) + Drama[items[i].title]
           sum == drama + Bonus(items[i].rise)
           surprise == Min({6000, sum})
<1>1. PICK N \in Nat : DOMAIN items = 1..N
  BY DEF IsList
<1>2. heats \in [1..N -> Int] /\ ranks \in [1..N -> Int]
  BY <1>1 DEF IsList, IsTopic
<1>3. same \in SUBSET (1..N) /\ i \in same
  BY <1>1
<1>4. /\ heats[i] = items[i].heat /\ ranks[i] = items[i].rank
      /\ {heats[j] : j \in same} = {items[j].heat : j \in same}
      /\ {ranks[j] : j \in same} = {items[j].rank : j \in same}
  BY <1>1, <1>3
<1>5. hot \in Int /\ fresh \in Int
  <2> HIDE DEF heats, ranks, same
  <2>1. /\ Normalize(heats[i], {heats[j] : j \in same}) \in Int
        /\ Normalize(ranks[i], {ranks[j] : j \in same}) \in Int
    BY <1>2, <1>3, Normalized
  <2>2. /\ Normalize(items[i].heat, {items[j].heat : j \in same}) \in Int
        /\ Normalize(items[i].rank, {items[j].rank : j \in same}) \in Int
    BY <1>4, <2>1, Zenon
  <2> QED
    BY <2>2
<1>6. sum \in Int
  <2>1. CrossScore(Cardinality(items[i].from)) \in Int
    BY DEF CrossScore
  <2>2. Bonus(items[i].rise) \in Int
    BY DEF Bonus
  <2>3. Drama[items[i].title] \in Int
    BY ScraperAssumption DEF IsList, IsTopic
  <2> QED
    BY <2>1, <2>2, <2>3
<1>7. surprise \in Int
  <2> HIDE DEF sum
  <2>1. \E x \in {6000, sum} : \A y \in {6000, sum} : x <= y
    <3>1. sum <= 6000 \/ 6000 <= sum
      BY <1>6
    <3> QED
      BY <1>6, <3>1
  <2>2. surprise \in {6000, sum}
    BY <2>1 DEF Min
  <2> QED
    BY <1>6, <2>2
<1>8. Scores(items, i) = [heat |-> hot, fresh |-> fresh, surprise |-> surprise,
                          score |-> 4 * hot + 2 * fresh + 4 * surprise]
  BY DEF Scores
<1> HIDE DEF hot, fresh, surprise
<1> QED
  BY <1>5, <1>7, <1>8 DEF SortKeys

\* Every topic has its place in the ranking, with nothing changed but its rank.
LEMMA RankedKeeps ==
  ASSUME NEW items, IsList(items), NEW by \in SortKeys, NEW i \in DOMAIN items
  PROVE  \E n \in DOMAIN Ranked(items, by) :
            Ranked(items, by)[n] = [items[i] EXCEPT !.rank = n]
<1> DEFINE score == [j \in DOMAIN items |-> Scores(items, j)[by]]
           ahead == Ahead(items, by)
           D == DOMAIN items
           n == Cardinality(ahead[i]) + 1
<1>1. PICK N \in Nat : D = 1..N
  BY DEF IsList
<1>2. \A j \in D : score[j] \in Int /\ j \in Int
  BY <1>1, Scored
<1>3. ahead = [j \in D |-> {k \in D : score[k] > score[j] \/ (score[k] = score[j] /\ k < j)}]
  BY DEF Ahead
<1> HIDE DEF score, ahead, D
<1>4. IsFiniteSet(D) /\ Cardinality(D) = N
  BY <1>1, FS_Interval
<1>5. ahead \in [D -> SUBSET D]
  BY <1>3
<1>6. \A j, k \in D : k \in ahead[j] <=> score[k] > score[j] \/ (score[k] = score[j] /\ k < j)
  BY <1>3
<1>7. /\ \A k \in D : k \notin ahead[k]
      /\ \A k, j \in D : k = j \/ k \in ahead[j] \/ j \in ahead[k]
  BY <1>2, <1>6
<1>8. ASSUME NEW k \in D, NEW j \in D, k \in ahead[j]
      PROVE  ahead[k] \subseteq ahead[j]
  <2>1. ASSUME NEW m \in ahead[k] PROVE m \in ahead[j]
    <3>1. m \in D
      BY <1>5
    <3> QED
      BY <1>2, <1>6, <1>8, <2>1, <3>1
  <2> QED
    BY <2>1
<1>9. /\ \A j \in D : Cardinality(ahead[j]) \in 0..(N - 1)
      /\ \A k, j \in D : Cardinality(ahead[k]) = Cardinality(ahead[j]) => k = j
  BY <1>4, <1>5, <1>7, <1>8, Places
<1>10. n \in D /\ Cardinality(ahead[i]) = n - 1 /\ i \in D
  BY <1>1, <1>9 DEF D
<1> HIDE DEF n
<1>11. (CHOOSE k \in D : Cardinality(ahead[k]) = n - 1) = i
  <2>1. \A k \in D : Cardinality(ahead[k]) = n - 1 <=> k = i
    BY <1>9, <1>10
  <2> QED
    BY <1>10, <2>1
<1>12. /\ DOMAIN Ranked(items, by) = D
       /\ Ranked(items, by)[n] =
            [items[CHOOSE k \in D : Cardinality(ahead[k]) = n - 1] EXCEPT !.rank = n]
  BY <1>10 DEF Ranked, D, ahead
<1> QED
  BY <1>10, <1>11, <1>12

\* What is done to a list once it is merged loses nothing.
LEMMA DigestCovers ==
  ASSUME NEW items, IsList(items), NEW ranks, NEW by \in SortKeys, NEW fetched, NEW merged,
         Covers(items, fetched, merged)
  PROVE  Covers(Ranked(Velocity(items, ranks), by), fetched, merged)
<1> DEFINE known == Velocity(items, ranks)
<1>1. /\ DOMAIN known = DOMAIN items
      /\ \A i \in DOMAIN items :
           /\ IsTopic(known[i])
           /\ known[i].from = items[i].from /\ known[i].heat = items[i].heat
           /\ known[i].title = items[i].title
  <2>1. /\ DOMAIN known = DOMAIN items
        /\ \A i \in DOMAIN items : known[i] = [items[i] EXCEPT !.rise = known[i].rise]
    BY DEF Velocity, IsList, IsTopic
  <2> HIDE DEF known
  <2> QED
    BY <2>1 DEF IsList, IsTopic
<1> HIDE DEF known
<1>2. IsList(known)
  BY <1>1 DEF IsList
<1>3. ASSUME NEW i \in DOMAIN items
      PROVE  \E n \in DOMAIN Ranked(known, by) :
                /\ Ranked(known, by)[n].from = items[i].from
                /\ Ranked(known, by)[n].heat = items[i].heat
                /\ Ranked(known, by)[n].title = items[i].title
  <2>1. PICK n \in DOMAIN Ranked(known, by) :
          Ranked(known, by)[n] = [known[i] EXCEPT !.rank = n]
    BY <1>1, <1>2, RankedKeeps
  <2>2. IsTopic(known[i])
    BY <1>1
  <2> QED
    BY <1>1, <2>1, <2>2 DEF IsTopic
<1> QED
  BY <1>3, CoversAsWell DEF known

\* What the platforms answer is a list of topics.
LEMMA FetchedIsList ==
  ASSUME NEW boards, \A p \in Asked : boards[p] \in Boards[p] \cup {<<>>}
  PROVE  IsList(Fetched(boards))
<1> DEFINE Topics == {x \in [platform : Asked, rank : Int, title : Titles, heat : Int,
                            from : SUBSET Asked, rise : {0}] : x.platform \in x.from}
           Board(p) == [i \in DOMAIN boards[p] |-> Item(p, boards[p], i)]
           s == [n \in DOMAIN Platforms |-> Board(Platforms[n])]
<1>1. Platforms \in Seq(Asked) /\ \A p \in Asked : \A b \in Boards[p] : b \in Seq(Entries)
  BY ScraperAssumption
<1>2. ASSUME NEW p \in Asked
      PROVE  Board(p) \in Seq(Topics)
  <2>1. boards[p] \in Seq(Entries)
    BY <1>1, EmptySeq
  <2>2. /\ DOMAIN boards[p] = 1..Len(boards[p]) /\ Len(boards[p]) \in Nat
        /\ \A i \in DOMAIN boards[p] : boards[p][i] \in Entries
    BY <2>1, LenProperties, ElementOfSeq
  <2>3. \A i \in 1..Len(boards[p]) : Item(p, boards[p], i) \in Topics
    BY <2>2 DEF Item, Entries
  <2> HIDE DEF Topics
  <2> QED
    BY <2>2, <2>3, IsASeq
<1>3. s \in Seq(Seq(Topics))
  <2> HIDE DEF Topics, Board
  <2>1. /\ DOMAIN Platforms = 1..Len(Platforms) /\ Len(Platforms) \in Nat
        /\ \A n \in DOMAIN Platforms : Platforms[n] \in Asked
    BY <1>1, LenProperties, ElementOfSeq
  <2>2. \A n \in 1..Len(Platforms) : Board(Platforms[n]) \in Seq(Topics)
    BY <1>2, <2>1
  <2> QED
    BY <2>1, <2>2, IsASeq
<1>4. FlattenSeq(s) \in Seq(Topics)
  <2> HIDE DEF Topics, s
  <2> QED
    BY <1>3, Flattened
<1>5. Fetched(boards) = FlattenSeq(s)
  BY DEF Fetched
<1> HIDE DEF s
<1>6. /\ DOMAIN Fetched(boards) = 1..Len(Fetched(boards)) /\ Len(Fetched(boards)) \in Nat
      /\ \A i \in DOMAIN Fetched(boards) : Fetched(boards)[i] \in Topics
  <2> HIDE DEF Topics
  <2> QED
    BY <1>4, <1>5, LenProperties, ElementOfSeq
<1>7. \A x \in Topics : IsTopic(x)
  BY DEF IsTopic
<1> QED
  BY <1>6, <1>7 DEF IsList

-----------------------------------------------------------------------------
(***************************************************************************)
(* A run, step by step                                                     *)
(***************************************************************************)
\* What a run has fetched is covered by what it goes on with, from the merge to its end.
Digesting(label, m) ==
    /\ label # "idle" => m.opt \in Options
    /\ label = "rank" => IsList(m.items)
    /\ label \in {"rank", "open", "write", "replace", "snap"} /\ m.opt.category = None =>
          Covers(m.items, m.fetched, m.opt.dedup)

DigestInv == \A r \in Runs : Digesting(pc[r], mem[r])

\* A step of one run leaves the others what they have.
LEMMA DigestKept ==
  ASSUME DigestInv, NEW r \in Runs, Digesting(pc'[r], mem'[r]),
         \A q \in Runs : q # r => pc'[q] = pc[q] /\ mem'[q] = mem[q]
  PROVE  DigestInv'
  BY DEF DigestInv

\* Every step of a run keeps it.
LEMMA DigestRunStep ==
  ASSUME HistoryInv, DigestInv, NEW r \in Runs, RunStep(r) \/ Die(r)
  PROVE  DigestInv'
<1> DEFINE m == mem[r]
<1>1. /\ pc \in [Runs -> Labels] /\ DOMAIN mem = Runs /\ DOMAIN m = DOMAIN FreshMem
      /\ Digesting(pc[r], m) /\ Shaped
  BY DEF HistoryInv, ScraperTypeOK, Shaped, DigestInv
<1>2. ASSUME NEW from \in Labels, NEW to \in Labels, Goto(r, from, to)
      PROVE  pc[r] = from /\ pc'[r] = to /\ \A q \in Runs : q # r => pc'[q] = pc[q]
  BY <1>2, Moves
<1>3. CASE Start(r)
  <2>1. PICK o \in Options : mem' = [mem EXCEPT ![r] = [FreshMem EXCEPT !.opt = o, !.minute = now]]
    BY <1>3 DEF Start
  <2>2. pc'[r] = "fetch" /\ \A q \in Runs : q # r => pc'[q] = pc[q]
    BY <1>2, <1>3 DEF Start, Labels
  <2>3. mem'[r].opt = o /\ \A q \in Runs : q # r => mem'[q] = mem[q]
    BY <1>1, <2>1 DEF FreshMem
  <2>4. Digesting(pc'[r], mem'[r])
    BY <2>2, <2>3 DEF Digesting
  <2> QED
    BY <2>2, <2>3, <2>4, DigestKept
<1>4. CASE Gather(r)
  <2>1. PICK boards :
          /\ \A p \in Asked : boards[p] \in Boards[p] \cup {<<>>}
          /\ LET items == Fetched(boards)
             IN  mem' = [mem EXCEPT ![r].fetched = items,
                     ![r].items = IF mem[r].opt.dedup /\ Len(Platforms) > 1 THEN Dedup(items)
                                  ELSE items]
    BY <1>4 DEF Gather
  <2> DEFINE items == Fetched(boards)
             topics == IF m.opt.dedup /\ Len(Platforms) > 1 THEN Dedup(items) ELSE items
  <2>2. pc[r] = "fetch" /\ pc'[r] = "rank" /\ \A q \in Runs : q # r => pc'[q] = pc[q]
    BY <1>2, <1>4 DEF Gather, Labels
  <2>3. IsList(items)
    BY <2>1, FetchedIsList
  <2>4. mem' = [mem EXCEPT ![r].fetched = items, ![r].items = topics]
    BY <2>1
  <2> HIDE DEF items
  <2>5. IsList(topics) /\ Covers(topics, items, m.opt.dedup)
    <3>1. CASE m.opt.dedup /\ Len(Platforms) > 1
      <4>1. IsList(Dedup(items)) /\ Covers(Dedup(items), items, TRUE)
        BY <2>3, DedupCovers
      <4>2. Covers(Dedup(items), items, m.opt.dedup)
        BY <3>1, <4>1 DEF Covers
      <4> QED
        BY <3>1, <4>1, <4>2
    <3>2. CASE ~(m.opt.dedup /\ Len(Platforms) > 1)
      BY <2>3, <3>2, CoversItself
    <3> QED
      BY <3>1, <3>2
  <2> HIDE DEF topics
  <2>6. /\ mem'[r].opt = m.opt /\ mem'[r].items = topics /\ mem'[r].fetched = items
        /\ \A q \in Runs : q # r => mem'[q] = mem[q]
    BY <1>1, <2>4 DEF FreshMem
  <2>7. Digesting(pc'[r], mem'[r])
    BY <1>1, <2>2, <2>5, <2>6 DEF Digesting
  <2> QED
    BY <2>2, <2>6, <2>7, DigestKept
<1>5. ASSUME NEW from \in Labels, EndRun(r, from)
      PROVE  DigestInv'
  <2>1. pc'[r] = "idle" /\ \A q \in Runs : q # r => pc'[q] = pc[q]
    BY <1>2, <1>5 DEF EndRun, Labels
  <2>2. \A q \in Runs : q # r => mem'[q] = mem[q]
    BY <1>1, <1>5 DEF EndRun
  <2>3. Digesting(pc'[r], mem'[r])
    BY <2>1 DEF Digesting
  <2> QED
    BY <2>1, <2>2, <2>3, DigestKept
<1>6. CASE RankTopics(r)
  <2> DEFINE known == Velocity(m.items, Loaded)
             topics == IF m.opt.category = None THEN known
                     ELSE SelectSeq(known, LAMBDA x : CategoryOf[x.title] = m.opt.category)
             digest == Ranked(topics, m.opt.sort)
  <2>1. CASE EndRun(r, "rank")
    BY <1>5, <2>1 DEF Labels
  <2>2. CASE ~EndRun(r, "rank")
    <3>1. PICK to \in {"snap", "open"} :
            Goto(r, "rank", to) /\ mem' = [mem EXCEPT ![r].items = digest]
      BY <1>6, <2>2 DEF RankTopics
    <3>2. pc[r] = "rank" /\ pc'[r] = to /\ \A q \in Runs : q # r => pc'[q] = pc[q]
      BY <1>2, <3>1 DEF Labels
    <3> HIDE DEF digest
    <3>3. /\ mem'[r].opt = m.opt /\ mem'[r].items = digest /\ mem'[r].fetched = m.fetched
          /\ \A q \in Runs : q # r => mem'[q] = mem[q]
      BY <1>1, <3>1 DEF FreshMem
    <3>4. /\ m.opt \in Options /\ IsList(m.items)
          /\ m.opt.category = None => Covers(m.items, m.fetched, m.opt.dedup)
      BY <1>1, <3>2 DEF Digesting
    <3>5. m.opt.sort \in SortKeys
      BY <3>4, ScraperAssumption
    <3>6. m.opt.category = None => Covers(digest, m.fetched, m.opt.dedup)
      <4>1. m.opt.category = None => digest = Ranked(Velocity(m.items, Loaded), m.opt.sort)
        BY DEF digest
      <4> QED
        BY <3>4, <3>5, <4>1, DigestCovers
    <3>7. Digesting(pc'[r], mem'[r])
      BY <3>1, <3>2, <3>3, <3>4, <3>6 DEF Digesting
    <3> QED
      BY <3>2, <3>3, <3>7, DigestKept
  <2> QED
    BY <2>1, <2>2
<1>7. CASE OpenTmp(r)
  <2>1. pc[r] = "open" /\ pc'[r] = "write" /\ \A q \in Runs : q # r => pc'[q] = pc[q]
    BY <1>2, <1>7 DEF OpenTmp, Labels
  <2>2. PICK f : mem' = [mem EXCEPT ![r].file = f]
    BY <1>7 DEF OpenTmp
  <2>3. /\ mem'[r].opt = m.opt /\ mem'[r].items = m.items /\ mem'[r].fetched = m.fetched
        /\ \A q \in Runs : q # r => mem'[q] = mem[q]
    BY <1>1, <2>2 DEF FreshMem
  <2>4. Digesting(pc'[r], mem'[r])
    BY <1>1, <2>1, <2>3 DEF Digesting
  <2> QED
    BY <2>1, <2>3, <2>4, DigestKept
<1>8. CASE WriteTmp(r)
  <2>1. pc[r] = "write" /\ pc'[r] = "replace" /\ \A q \in Runs : q # r => pc'[q] = pc[q]
    BY <1>2, <1>8 DEF WriteTmp, Labels
  <2>2. mem' = mem
    BY <1>8 DEF WriteTmp
  <2>3. Digesting(pc'[r], mem'[r])
    BY <1>1, <2>1, <2>2 DEF Digesting
  <2> QED
    BY <2>1, <2>2, <2>3, DigestKept
<1>9. CASE LoadFails(r) \/ Replace(r) \/ Snap(r)
  BY <1>5, <1>9 DEF LoadFails, Replace, Snap, Labels
<1>10. CASE Die(r)
  <2>1. pc'[r] = "idle" /\ \A q \in Runs : q # r => pc'[q] = pc[q] /\ mem'[q] = mem[q]
    BY <1>1, <1>10 DEF Die
  <2>2. Digesting(pc'[r], mem'[r])
    BY <2>1 DEF Digesting
  <2> QED
    BY <2>1, <2>2, DigestKept
<1> QED
  BY <1>3, <1>4, <1>6, <1>7, <1>8, <1>9, <1>10 DEF RunStep

\* And so does every step.
LEMMA DigestStep == HistoryInv /\ DigestInv /\ [Next]_vars => DigestInv'
<1>1. ASSUME DigestInv, UNCHANGED <<pc, mem>>
      PROVE  DigestInv'
  BY <1>1 DEF DigestInv
<1> QED
  BY <1>1, DigestRunStep DEF Next, Tick, vars

\* Whatever the platforms answer, which titles are alike, and however the topics are
\* scored: what a run that filters nothing has fetched is in its digest.
THEOREM NothingIsDropped == Spec => []NothingFetchedIsLost
<1>1. Init => DigestInv
  BY DEF Init, DigestInv, Digesting
<1>2. DigestInv => NothingFetchedIsLost
  BY DEF DigestInv, Digesting, NothingFetchedIsLost
<1> QED
  BY <1>1, <1>2, HistoryInit, HistoryStep, DigestStep, PTL DEF Spec

-----------------------------------------------------------------------------
(***************************************************************************)
(* The health log. What is left of it after truncations, deaths and other  *)
(* runs is always some of the records that were made, each no more than    *)
(* once: so that failures which are counted in it are failures there were. *)
(***************************************************************************)

\* The lines of s are lines of t, each in a place of its own.
Embeds(s, t) ==
    \E f \in Injection(DOMAIN s, DOMAIN t) : \A i \in DOMAIN s : s[i] = t[f[i]]

RecordSteps == {"idle", "append", "measure", "trim", "refill", "rate"}

\* Whose line is there and may be one too many.
Trimming == {w \in Writers : at[w] \in {"measure", "trim"}}

\* What a writer has in hand.
InHand ==
    \A w \in Writers :
        /\ at[w] # "idle" => line[w] \in Lines /\ line[w].at <= clock
        /\ at[w] \in {"trim", "refill"} => Len(kept[w]) = MaxRecords

HealthInv ==
    /\ clock \in Nat /\ kills \in Nat /\ alarm \subseteq Writers
    /\ health \in Seq(Lines) /\ outcomes \in Seq(Lines)
    /\ at \in [Writers -> RecordSteps]
    /\ line \in [Writers -> Lines \cup {Nobody}] /\ kept \in [Writers -> Seq(Lines)]
    /\ InHand
    /\ \A i \in DOMAIN outcomes : outcomes[i].at <= clock
    /\ Embeds(health, outcomes) /\ \A w \in Writers : Embeds(kept[w], outcomes)
    /\ Len(health) <= MaxRecords + Cardinality(Trimming) + kills

\* A line that is added to both, or to the longer, leaves the one within the other.
LEMMA EmbedsMore ==
  ASSUME NEW s \in Seq(Lines), NEW t \in Seq(Lines), NEW x \in Lines, Embeds(s, t)
  PROVE  Embeds(s, Append(t, x)) /\ Embeds(Append(s, x), Append(t, x))
<1>1. PICK f \in Injection(DOMAIN s, DOMAIN t) : \A i \in DOMAIN s : s[i] = t[f[i]]
  BY DEF Embeds
<1>2. /\ DOMAIN s = 1..Len(s) /\ DOMAIN t = 1..Len(t) /\ Len(s) \in Nat /\ Len(t) \in Nat
      /\ DOMAIN Append(s, x) = 1..(Len(s) + 1) /\ DOMAIN Append(t, x) = 1..(Len(t) + 1)
      /\ \A i \in 1..Len(s) : Append(s, x)[i] = s[i]
      /\ \A i \in 1..Len(t) : Append(t, x)[i] = t[i]
      /\ Append(s, x)[Len(s) + 1] = x /\ Append(t, x)[Len(t) + 1] = x
  BY AppendProperties, LenProperties
<1>3. /\ f \in [1..Len(s) -> 1..Len(t)]
      /\ \A a, b \in 1..Len(s) : f[a] = f[b] => a = b
  BY <1>1, <1>2 DEF Injection, IsInjective
<1>4. Embeds(s, Append(t, x))
  <2>1. f \in Injection(DOMAIN s, DOMAIN Append(t, x))
    BY <1>2, <1>3 DEF Injection, IsInjective
  <2>2. \A i \in DOMAIN s : s[i] = Append(t, x)[f[i]]
    BY <1>1, <1>2, <1>3
  <2> QED
    BY <2>1, <2>2 DEF Embeds
<1>5. Embeds(Append(s, x), Append(t, x))
  <2> DEFINE g == [i \in 1..(Len(s) + 1) |-> IF i = Len(s) + 1 THEN Len(t) + 1 ELSE f[i]]
  <2>1. g \in Injection(DOMAIN Append(s, x), DOMAIN Append(t, x))
    <3>1. g \in [1..(Len(s) + 1) -> 1..(Len(t) + 1)]
      BY <1>2, <1>3
    <3>2. ASSUME NEW a \in 1..(Len(s) + 1), NEW b \in 1..(Len(s) + 1), g[a] = g[b]
          PROVE  a = b
      <4>1. /\ \A i \in 1..Len(s) : g[i] = f[i] /\ g[i] \in 1..Len(t)
            /\ g[Len(s) + 1] = Len(t) + 1
        BY <1>2, <1>3
      <4>2. \A i \in 1..(Len(s) + 1) : i \in 1..Len(s) \/ i = Len(s) + 1
        BY <1>2
      <4>3. Len(t) + 1 \notin 1..Len(t)
        BY <1>2
      <4> HIDE DEF g
      <4> QED
        BY <1>3, <3>2, <4>1, <4>2, <4>3
    <3> HIDE DEF g
    <3> QED
      BY <1>2, <3>1, <3>2 DEF Injection, IsInjective
  <2>2. \A i \in DOMAIN Append(s, x) : Append(s, x)[i] = Append(t, x)[g[i]]
    BY <1>1, <1>2, <1>3
  <2> HIDE DEF g
  <2> QED
    BY <2>1, <2>2 DEF Embeds
<1> QED
  BY <1>4, <1>5

\* What _truncate keeps are the last MaxRecords lines.
LEMMA NewestLines ==
  ASSUME NEW s \in Seq(Lines), Len(s) > MaxRecords
  PROVE  /\ Newest(s) \in Seq(Lines) /\ Len(Newest(s)) = MaxRecords
         /\ DOMAIN Newest(s) = 1..MaxRecords
         /\ \A i \in 1..MaxRecords : Newest(s)[i] = s[Len(s) - MaxRecords + i]
<1>1. MaxRecords \in Nat /\ MaxRecords >= 1
  BY HealthAssumption
<1>2. PICK last \in Nat : last = Len(s)
  BY LenProperties
<1>3. PICK first \in Nat : first = last - MaxRecords + 1
  BY <1>1, <1>2
<1>4. first >= 1 /\ first <= last /\ last - first + 1 = MaxRecords
  BY <1>1, <1>2, <1>3
<1>5. \A i \in first..last : s[i] \in Lines
  BY <1>2, <1>4, ElementOfSeq
<1>6. /\ SubSeq(s, first, last) \in Seq(Lines)
      /\ Len(SubSeq(s, first, last)) = last - first + 1
      /\ \A i \in 1..(last - first + 1) : SubSeq(s, first, last)[i] = s[first + i - 1]
  BY <1>4, <1>5, SubSeqProperties
<1>7. \A i \in 1..MaxRecords : first + i - 1 = Len(s) - MaxRecords + i
  BY <1>1, <1>2, <1>3
<1>8. Newest(s) = SubSeq(s, first, last)
  BY <1>2, <1>3 DEF Newest
<1> QED
  BY <1>4, <1>6, <1>7, <1>8, LenProperties

\* What _truncate keeps of lines that were recorded, was recorded.
LEMMA EmbedsNewest ==
  ASSUME NEW s \in Seq(Lines), NEW t \in Seq(Lines), Embeds(s, t), Len(s) > MaxRecords
  PROVE  Newest(s) \in Seq(Lines) /\ Len(Newest(s)) = MaxRecords /\ Embeds(Newest(s), t)
<1> DEFINE d == Len(s) - MaxRecords
           n == Newest(s)
<1>1. MaxRecords \in Nat /\ d \in Nat /\ Len(s) \in Nat /\ DOMAIN s = 1..Len(s)
  BY HealthAssumption, LenProperties
<1>2. /\ n \in Seq(Lines) /\ Len(n) = MaxRecords /\ DOMAIN n = 1..MaxRecords
      /\ \A i \in 1..MaxRecords : n[i] = s[d + i]
  BY <1>1, NewestLines DEF Newest
<1>3. PICK f \in Injection(DOMAIN s, DOMAIN t) : \A i \in DOMAIN s : s[i] = t[f[i]]
  BY DEF Embeds
<1> DEFINE g == [i \in 1..MaxRecords |-> f[d + i]]
<1>4. /\ f \in [1..Len(s) -> DOMAIN t]
      /\ \A a, b \in 1..Len(s) : f[a] = f[b] => a = b
  BY <1>1, <1>3 DEF Injection, IsInjective
<1>5. \A i \in 1..MaxRecords : d + i \in 1..Len(s)
  BY <1>1
<1>6. g \in Injection(DOMAIN n, DOMAIN t)
  <2>1. g \in [1..MaxRecords -> DOMAIN t]
    BY <1>4, <1>5
  <2>2. ASSUME NEW a \in 1..MaxRecords, NEW b \in 1..MaxRecords, g[a] = g[b]
        PROVE  a = b
    BY <1>1, <1>4, <1>5, <2>2
  <2> HIDE DEF g
  <2> QED
    BY <1>2, <2>1, <2>2 DEF Injection, IsInjective
<1>7. \A i \in DOMAIN n : n[i] = t[g[i]]
  BY <1>1, <1>2, <1>3, <1>5
<1> HIDE DEF g
<1>8. Embeds(n, t)
  BY <1>6, <1>7 DEF Embeds
<1> QED
  BY <1>2, <1>8

\* An alarm that the lines of the log deserve is one that the records deserve.
LEMMA DegradedInTruth ==
  ASSUME NEW s \in Seq(Lines), NEW t \in Seq(Lines), Embeds(s, t), NEW l, Degraded(s, l)
  PROVE  /\ Cardinality(Recent(t, l)) >= MinSamples
         /\ 5 * Cardinality({i \in Recent(t, l) : ~t[i].ok}) > 2 * MinSamples
<1> DEFINE A == Recent(s, l)
           ok == {i \in A : s[i].ok}
           bad == {i \in A : ~s[i].ok}
           B == Recent(t, l)
           worse == {i \in B : ~t[i].ok}
<1>1. PICK f \in Injection(DOMAIN s, DOMAIN t) : \A i \in DOMAIN s : s[i] = t[f[i]]
  BY DEF Embeds
<1>2. /\ f \in [DOMAIN s -> DOMAIN t]
      /\ \A a, b \in DOMAIN s : f[a] = f[b] => a = b
  BY <1>1 DEF Injection, IsInjective
<1>3. IsFiniteSet(DOMAIN s) /\ IsFiniteSet(DOMAIN t)
  BY LenProperties, FS_Interval
<1>4. /\ A \subseteq DOMAIN s /\ B \subseteq DOMAIN t
      /\ \A i \in A : f[i] \in B
      /\ \A i \in bad : f[i] \in worse
  BY <1>1, <1>2 DEF Recent
<1>5. /\ IsFiniteSet(A) /\ IsFiniteSet(B) /\ IsFiniteSet(ok) /\ IsFiniteSet(bad)
      /\ IsFiniteSet(worse)
  BY <1>3, <1>4, FS_Subset
<1>6. Cardinality(A) <= Cardinality(B)
  <2> DEFINE g == [i \in A |-> f[i]]
  <2>1. g \in Injection(A, B)
    BY <1>2, <1>4 DEF Injection, IsInjective
  <2> HIDE DEF g, A, B
  <2> QED
    BY <1>5, <2>1, FS_Injection
<1>7. Cardinality(bad) <= Cardinality(worse)
  <2> DEFINE g == [i \in bad |-> f[i]]
  <2>1. g \in Injection(bad, worse)
    BY <1>2, <1>4 DEF Injection, IsInjective
  <2> HIDE DEF g, bad, worse
  <2> QED
    BY <1>5, <2>1, FS_Injection
<1>8. Cardinality(A) = Cardinality(ok) + Cardinality(bad)
  <2>1. A = ok \cup bad /\ ok \cap bad = {}
    OBVIOUS
  <2> HIDE DEF ok, bad, A
  <2>2. Cardinality(ok \cup bad) =
          Cardinality(ok) + Cardinality(bad) - Cardinality(ok \cap bad)
    BY <1>5, FS_Union
  <2>3. Cardinality(A) = Cardinality(ok) + Cardinality(bad) - Cardinality({})
    BY <2>1, <2>2, Zenon
  <2> QED
    BY <1>5, <2>3, FS_CardinalityType, FS_EmptySet
<1>9. Cardinality(A) >= MinSamples /\ 5 * Cardinality(ok) < 3 * Cardinality(A)
  BY DEF Degraded
<1>10. /\ Cardinality(A) \in Nat /\ Cardinality(B) \in Nat /\ Cardinality(ok) \in Nat
       /\ Cardinality(bad) \in Nat /\ Cardinality(worse) \in Nat /\ MinSamples \in Nat
  BY <1>5, FS_CardinalityType, HealthAssumption
<1> HIDE DEF A, B, ok, bad, worse
<1>11. Cardinality(B) >= MinSamples /\ 5 * Cardinality(worse) > 2 * MinSamples
  BY <1>6, <1>7, <1>8, <1>9, <1>10
<1> QED
  BY <1>11 DEF B, worse

\* How many are trimming, after a step of one of them.
LEMMA TrimmersCount ==
  ASSUME HealthInv, NEW w \in Writers, NEW label \in RecordSteps, at' = [at EXCEPT ![w] = label]
  PROVE  /\ Cardinality(Trimming) \in Nat /\ Cardinality(Trimming') \in Nat
         /\ at[w] \notin {"measure", "trim"} /\ label \in {"measure", "trim"} =>
              Cardinality(Trimming') = Cardinality(Trimming) + 1
         /\ at[w] \in {"measure", "trim"} /\ label \in {"measure", "trim"} =>
              Cardinality(Trimming') = Cardinality(Trimming)
         /\ at[w] \notin {"measure", "trim"} /\ label \notin {"measure", "trim"} =>
              Cardinality(Trimming') = Cardinality(Trimming)
         /\ Cardinality(Trimming') + 1 >= Cardinality(Trimming)
<1>1. at \in [Writers -> RecordSteps] /\ IsFiniteSet(Writers)
  BY HealthAssumption DEF HealthInv
<1>2. IsFiniteSet(Trimming) /\ IsFiniteSet(Trimming')
  <2>1. Trimming \in SUBSET Writers /\ Trimming' \in SUBSET Writers
    BY DEF Trimming
  <2> QED
    BY <1>1, <2>1, FS_Subset
<1>3. /\ Cardinality(Trimming) \in Nat /\ Cardinality(Trimming') \in Nat
      /\ Cardinality(Trimming \cup {w}) =
           IF w \in Trimming THEN Cardinality(Trimming) ELSE Cardinality(Trimming) + 1
      /\ Cardinality(Trimming \ {w}) =
           IF w \in Trimming THEN Cardinality(Trimming) - 1 ELSE Cardinality(Trimming)
  BY <1>2, FS_CardinalityType, FS_AddElement, FS_RemoveElement
<1>4. Trimming' = IF label \in {"measure", "trim"} THEN Trimming \cup {w} ELSE Trimming \ {w}
  BY <1>1 DEF Trimming
<1>5. w \in Trimming <=> at[w] \in {"measure", "trim"}
  BY DEF Trimming
<1> QED
  BY <1>3, <1>4, <1>5

\* A writer that goes on with what it has in hand leaves the others theirs.
LEMMA OthersKeep ==
  ASSUME HealthInv, NEW w \in Writers, NEW label \in RecordSteps, at' = [at EXCEPT ![w] = label],
         NEW l \in Lines \cup {Nobody}, line' = [line EXCEPT ![w] = l],
         NEW s \in Seq(Lines), kept' = [kept EXCEPT ![w] = s], clock' = clock,
         label # "idle" => l \in Lines /\ l.at <= clock,
         label \in {"trim", "refill"} => Len(s) = MaxRecords
  PROVE  /\ at' \in [Writers -> RecordSteps] /\ line' \in [Writers -> Lines \cup {Nobody}]
         /\ kept' \in [Writers -> Seq(Lines)] /\ InHand'
<1>1. /\ at \in [Writers -> RecordSteps] /\ line \in [Writers -> Lines \cup {Nobody}]
      /\ kept \in [Writers -> Seq(Lines)] /\ InHand
  BY DEF HealthInv
<1>2. /\ at' \in [Writers -> RecordSteps] /\ line' \in [Writers -> Lines \cup {Nobody}]
      /\ kept' \in [Writers -> Seq(Lines)]
  BY <1>1
<1>3. ASSUME NEW v \in Writers
      PROVE  /\ at'[v] # "idle" => line'[v] \in Lines /\ line'[v].at <= clock
             /\ at'[v] \in {"trim", "refill"} => Len(kept'[v]) = MaxRecords
  <2>1. CASE v = w
    BY <1>1, <2>1
  <2>2. CASE v # w
    <3>1. at'[v] = at[v] /\ line'[v] = line[v] /\ kept'[v] = kept[v]
      BY <1>1, <2>2
    <3> QED
      BY <1>1, <3>1 DEF InHand
  <2> QED
    BY <2>1, <2>2
<1> QED
  BY <1>2, <1>3 DEF InHand

\* The time of a record is taken: what there is of the log stays.
LEMMA RecordStep ==
  ASSUME HealthInv, NEW w \in Writers, NEW p \in Scrapers, Record(w, p)
  PROVE  HealthInv'
<1>1. PICK ok \in BOOLEAN :
        line' = [line EXCEPT ![w] = [platform |-> p, ok |-> ok, at |-> clock]]
  BY DEF Record
<1> DEFINE x == [platform |-> p, ok |-> ok, at |-> clock]
<1>2. /\ at[w] = "idle" /\ at' = [at EXCEPT ![w] = "append"] /\ alarm' = {}
      /\ UNCHANGED <<clock, health, kept, outcomes, kills>>
  BY DEF Record, Go
<1>3. clock \in Nat /\ kept \in [Writers -> Seq(Lines)]
  BY DEF HealthInv
<1>4. /\ x \in Lines /\ x.at <= clock /\ kept[w] \in Seq(Lines)
      /\ line' = [line EXCEPT ![w] = x] /\ kept' = [kept EXCEPT ![w] = kept[w]]
  <2>1. x \in Lines /\ x.at <= clock
    BY <1>3 DEF Lines
  <2>2. line' = [line EXCEPT ![w] = x]
    BY <1>1
  <2>3. kept[w] \in Seq(Lines) /\ kept' = [kept EXCEPT ![w] = kept[w]]
    BY <1>2, <1>3
  <2> QED
    BY <2>1, <2>2, <2>3
<1> HIDE DEF x
<1>5. /\ at' \in [Writers -> RecordSteps] /\ line' \in [Writers -> Lines \cup {Nobody}]
      /\ kept' \in [Writers -> Seq(Lines)] /\ InHand'
  BY <1>2, <1>4, OthersKeep DEF RecordSteps
<1>6. Cardinality(Trimming') = Cardinality(Trimming)
  BY <1>2, TrimmersCount DEF RecordSteps
<1> QED
  BY <1>2, <1>5, <1>6 DEF HealthInv

\* The line is added, and the log may now be too long.
LEMMA AddStep ==
  ASSUME HealthInv, NEW w \in Writers, AddLine(w)
  PROVE  HealthInv'
<1>1. /\ at[w] = "append" /\ at' = [at EXCEPT ![w] = "measure"] /\ alarm' = {}
      /\ health' = Append(health, line[w]) /\ outcomes' = Append(outcomes, line[w])
      /\ UNCHANGED <<clock, line, kept, kills>>
  BY DEF AddLine, Go
<1>2. /\ clock \in Nat /\ kills \in Nat /\ MaxRecords \in Nat
      /\ health \in Seq(Lines) /\ outcomes \in Seq(Lines)
      /\ line \in [Writers -> Lines \cup {Nobody}] /\ kept \in [Writers -> Seq(Lines)]
      /\ Embeds(health, outcomes) /\ \A v \in Writers : Embeds(kept[v], outcomes)
      /\ Len(health) <= MaxRecords + Cardinality(Trimming) + kills
  BY HealthAssumption DEF HealthInv
<1> DEFINE x == line[w]
<1>3. x \in Lines /\ x.at <= clock
  BY <1>1 DEF HealthInv, InHand
<1>4. line' = [line EXCEPT ![w] = x] /\ kept' = [kept EXCEPT ![w] = kept[w]]
  BY <1>1, <1>2
<1> HIDE DEF x
<1>5. /\ at' \in [Writers -> RecordSteps] /\ line' \in [Writers -> Lines \cup {Nobody}]
      /\ kept' \in [Writers -> Seq(Lines)] /\ InHand'
  BY <1>1, <1>2, <1>3, <1>4, OthersKeep DEF RecordSteps
<1>6. health' = Append(health, x) /\ outcomes' = Append(outcomes, x)
  BY <1>1 DEF x
<1>7. /\ health' \in Seq(Lines) /\ outcomes' \in Seq(Lines)
      /\ Len(health') = Len(health) + 1 /\ Len(health) \in Nat
  BY <1>2, <1>3, <1>6, AppendProperties, LenProperties
<1>8. Embeds(health', outcomes') /\ \A v \in Writers : Embeds(kept'[v], outcomes')
  BY <1>1, <1>2, <1>3, <1>6, EmbedsMore
<1>9. \A i \in DOMAIN outcomes' : outcomes'[i].at <= clock'
  <2>1. /\ DOMAIN outcomes' = 1..(Len(outcomes) + 1) /\ DOMAIN outcomes = 1..Len(outcomes)
        /\ Len(outcomes) \in Nat /\ outcomes'[Len(outcomes) + 1] = x
        /\ \A i \in 1..Len(outcomes) : outcomes'[i] = outcomes[i]
    BY <1>2, <1>3, <1>6, AppendProperties, LenProperties
  <2>2. \A i \in 1..(Len(outcomes) + 1) : i \in 1..Len(outcomes) \/ i = Len(outcomes) + 1
    BY <2>1
  <2> QED
    BY <1>1, <1>3, <2>1, <2>2 DEF HealthInv
<1>10. /\ Cardinality(Trimming) \in Nat
       /\ Cardinality(Trimming') = Cardinality(Trimming) + 1
  BY <1>1, TrimmersCount DEF RecordSteps
<1>11. Len(health') <= MaxRecords + Cardinality(Trimming') + kills'
  BY <1>1, <1>2, <1>7, <1>10
<1> QED
  BY <1>1, <1>2, <1>5, <1>7, <1>8, <1>9, <1>11 DEF HealthInv

\* The log is measured, and the last lines of it are read when it is too long.
LEMMA MeasureStep ==
  ASSUME HealthInv, NEW w \in Writers, Measure(w)
  PROVE  HealthInv'
<1>1. /\ at[w] = "measure" /\ alarm' = {} /\ UNCHANGED <<clock, health, line, outcomes, kills>>
  BY DEF Measure, Go
<1>2. /\ kills \in Nat /\ MaxRecords \in Nat /\ Len(health) \in Nat /\ health \in Seq(Lines)
      /\ line \in [Writers -> Lines \cup {Nobody}] /\ kept \in [Writers -> Seq(Lines)]
      /\ line[w] \in Lines /\ line[w].at <= clock
      /\ Embeds(health, outcomes) /\ \A v \in Writers : Embeds(kept[v], outcomes)
  BY <1>1, HealthAssumption, LenProperties DEF HealthInv, InHand
<1>3. ASSUME NEW s \in Seq(Lines), kept' = [kept EXCEPT ![w] = s], Embeds(s, outcomes),
             NEW label \in {"rate", "trim"}, at' = [at EXCEPT ![w] = label],
             label = "rate" => Len(health) <= MaxRecords,
             label = "trim" => Len(s) = MaxRecords
      PROVE  HealthInv'
  <2>1. line' = [line EXCEPT ![w] = line[w]] /\ label \in RecordSteps
    BY <1>1, <1>2 DEF RecordSteps
  <2>2. /\ at' \in [Writers -> RecordSteps] /\ line' \in [Writers -> Lines \cup {Nobody}]
        /\ kept' \in [Writers -> Seq(Lines)] /\ InHand'
    BY <1>1, <1>2, <1>3, <2>1, OthersKeep
  <2>3. \A v \in Writers : Embeds(kept'[v], outcomes')
    BY <1>1, <1>2, <1>3
  <2>4. /\ Cardinality(Trimming') \in Nat
        /\ label = "trim" => Cardinality(Trimming') = Cardinality(Trimming)
    BY <1>1, <1>3, <2>1, TrimmersCount
  <2>5. Len(health') <= MaxRecords + Cardinality(Trimming') + kills'
    BY <1>1, <1>2, <1>3, <2>4 DEF HealthInv
  <2> QED
    BY <1>1, <2>2, <2>3, <2>5 DEF HealthInv
<1>4. CASE Len(health) <= MaxRecords /\ Go(w, "measure", "rate") /\ UNCHANGED kept
  <2>1. kept' = [kept EXCEPT ![w] = kept[w]] /\ at' = [at EXCEPT ![w] = "rate"]
    BY <1>2, <1>4 DEF Go
  <2> QED
    BY <1>2, <1>3, <1>4, <2>1
<1>5. CASE /\ Len(health) > MaxRecords /\ Go(w, "measure", "trim")
           /\ kept' = [kept EXCEPT ![w] = Newest(health)]
  <2>1. /\ Newest(health) \in Seq(Lines) /\ Len(Newest(health)) = MaxRecords
        /\ Embeds(Newest(health), outcomes)
    BY <1>2, <1>5, EmbedsNewest DEF HealthInv
  <2> QED
    BY <1>3, <1>5, <2>1 DEF Go
<1> QED
  BY <1>4, <1>5 DEF Measure

\* No lines are lines of any others.
LEMMA NothingEmbeds ==
  ASSUME NEW t
  PROVE  <<>> \in Seq(Lines) /\ Len(<<>>) = 0 /\ Embeds(<<>>, t)
<1> DEFINE f == [i \in {} |-> i]
<1>1. f \in Injection(DOMAIN <<>>, DOMAIN t) /\ \A i \in DOMAIN <<>> : <<>>[i] = t[f[i]]
  BY EmptySeq DEF Injection, IsInjective
<1> HIDE DEF f
<1> QED
  BY <1>1, EmptySeq DEF Embeds

\* The log is emptied, or the last lines are put back.
LEMMA TruncateStep ==
  ASSUME HealthInv, NEW w \in Writers, Trim(w) \/ Refill(w)
  PROVE  HealthInv'
<1>1. /\ kills \in Nat /\ MaxRecords \in Nat
      /\ line \in [Writers -> Lines \cup {Nobody}] /\ kept \in [Writers -> Seq(Lines)]
  BY HealthAssumption DEF HealthInv
<1>2. PICK label \in {"refill", "rate"} :
        /\ at' = [at EXCEPT ![w] = label] /\ at[w] \in {"trim", "refill"}
        /\ health' \in {<<>>, kept[w]}
  BY DEF Trim, Refill, Go
<1>3. alarm' = {} /\ UNCHANGED <<clock, line, kept, outcomes, kills>>
  BY DEF Trim, Refill
<1>4. /\ line[w] \in Lines /\ line[w].at <= clock
      /\ kept[w] \in Seq(Lines) /\ Len(kept[w]) = MaxRecords /\ Embeds(kept[w], outcomes)
  BY <1>1, <1>2 DEF HealthInv, InHand
<1>5. <<>> \in Seq(Lines) /\ Len(<<>>) = 0 /\ Embeds(<<>>, outcomes)
  BY NothingEmbeds
<1>6. health' \in Seq(Lines) /\ Len(health') <= MaxRecords /\ Embeds(health', outcomes)
  <2>1. CASE health' = <<>>
    <3>1. 0 <= MaxRecords
      BY <1>1
    <3> QED
      BY <1>5, <2>1, <3>1, Zenon
  <2>2. CASE health' = kept[w]
    <3>1. MaxRecords <= MaxRecords
      BY <1>1
    <3> QED
      BY <1>4, <2>2, <3>1, Zenon
  <2> QED
    BY <1>2, <2>1, <2>2
<1>7. /\ line' = [line EXCEPT ![w] = line[w]] /\ kept' = [kept EXCEPT ![w] = kept[w]]
      /\ label \in RecordSteps
  BY <1>1, <1>2, <1>3 DEF RecordSteps
<1>8. /\ at' \in [Writers -> RecordSteps] /\ line' \in [Writers -> Lines \cup {Nobody}]
      /\ kept' \in [Writers -> Seq(Lines)] /\ InHand'
  BY <1>2, <1>3, <1>4, <1>7, OthersKeep
<1>9. Cardinality(Trimming') \in Nat
  BY <1>2, <1>7, TrimmersCount
<1>10. Len(health') <= MaxRecords + Cardinality(Trimming') + kills'
  <2>1. health' \in Seq(Lines) => Len(health') \in Nat
    BY LenProperties
  <2> QED
    BY <1>1, <1>3, <1>6, <1>9, <2>1
<1> QED
  BY <1>3, <1>6, <1>8, <1>10 DEF HealthInv

\* A run reads the rate and is done, or is killed: what it had in hand is gone, and the
\* log as long as it was.
LEMMA LeaveStep ==
  ASSUME HealthInv, NEW w \in Writers, Rate(w) \/ Kill(w)
  PROVE  HealthInv'
<1>1. /\ at' = [at EXCEPT ![w] = "idle"] /\ alarm' \subseteq Writers
      /\ line' = [line EXCEPT ![w] = Nobody] /\ kept' = [kept EXCEPT ![w] = <<>>]
      /\ UNCHANGED <<clock, health, outcomes>>
  BY DEF Rate, Kill, Go, Forget
<1>2. \/ at[w] = "rate" /\ kills' = kills
      \/ kills' = kills + 1
  BY DEF Rate, Kill, Go
<1>3. /\ kills \in Nat /\ MaxRecords \in Nat /\ Len(health) \in Nat
      /\ Len(health) <= MaxRecords + Cardinality(Trimming) + kills
  BY HealthAssumption, LenProperties DEF HealthInv
<1>4. <<>> \in Seq(Lines) /\ Embeds(<<>>, outcomes)
  BY NothingEmbeds
<1>5. /\ at' \in [Writers -> RecordSteps] /\ line' \in [Writers -> Lines \cup {Nobody}]
      /\ kept' \in [Writers -> Seq(Lines)] /\ InHand'
  <2> DEFINE l == Nobody
             s == <<>>
             label == "idle"
  <2>1. l \in Lines \cup {Nobody} /\ s \in Seq(Lines) /\ label \in RecordSteps
    BY <1>4 DEF RecordSteps
  <2>2. /\ at' = [at EXCEPT ![w] = label] /\ line' = [line EXCEPT ![w] = l]
        /\ kept' = [kept EXCEPT ![w] = s] /\ clock' = clock
        /\ label = "idle" /\ label \notin {"trim", "refill"}
    BY <1>1
  <2> HIDE DEF l, s, label
  <2> QED
    BY <2>1, <2>2, OthersKeep
<1>6. /\ Cardinality(Trimming) \in Nat /\ Cardinality(Trimming') \in Nat
      /\ Cardinality(Trimming') + 1 >= Cardinality(Trimming)
      /\ at[w] = "rate" => Cardinality(Trimming') = Cardinality(Trimming)
  BY <1>1, TrimmersCount DEF RecordSteps
<1>7. Len(health') <= MaxRecords + Cardinality(Trimming') + kills'
  BY <1>1, <1>2, <1>3, <1>6
<1>8. \A v \in Writers : Embeds(kept'[v], outcomes')
  BY <1>1, <1>4 DEF HealthInv
<1>9. kills' \in Nat
  BY <1>2, <1>3
<1> QED
  BY <1>1, <1>5, <1>7, <1>8, <1>9 DEF HealthInv

\* A file that is not there, and nobody recording.
LEMMA HealthInitOK == HealthInit => HealthInv
<1> SUFFICES ASSUME HealthInit PROVE HealthInv
  OBVIOUS
<1>1. Trimming = {} /\ MaxRecords \in Nat
  BY HealthAssumption DEF HealthInit, Trimming
<1>2. Cardinality(Trimming) = 0
  BY <1>1, FS_EmptySet
<1>3. at \in [Writers -> RecordSteps] /\ InHand
  BY DEF HealthInit, RecordSteps, InHand
<1> QED
  BY <1>1, <1>2, <1>3, NothingEmbeds DEF HealthInit, HealthInv

\* Every step of the health log.
LEMMA HealthStep == HealthInv /\ [HealthNext]_healthVars => HealthInv'
<1> SUFFICES ASSUME HealthInv, [HealthNext]_healthVars PROVE HealthInv'
  OBVIOUS
<1>1. CASE ClockTick \/ UNCHANGED healthVars
  <2>1. /\ UNCHANGED <<health, at, line, kept, outcomes, kills>> /\ alarm' \subseteq Writers
        /\ clock \in Nat /\ clock' \in {clock, clock + 1}
    BY <1>1 DEF ClockTick, healthVars, HealthInv
  <2>2. \A i \in DOMAIN outcomes : outcomes[i].at \in Nat /\ outcomes[i].at <= clock
    <3>1. \A i \in DOMAIN outcomes : outcomes[i] \in Lines
      BY ElementOfSeq, LenProperties DEF HealthInv
    <3> QED
      BY <3>1 DEF HealthInv, Lines
  <2>3. \A i \in DOMAIN outcomes' : outcomes'[i].at <= clock'
    BY <2>1, <2>2
  <2>4. Trimming' = Trimming
    BY <2>1 DEF Trimming
  <2>5. InHand'
    <3>1. InHand /\ \A l \in Lines : l.at \in Nat
      BY DEF HealthInv, Lines
    <3> QED
      BY <2>1, <3>1 DEF InHand
  <2> QED
    BY <2>1, <2>3, <2>4, <2>5 DEF HealthInv
<1> QED
  BY <1>1, RecordStep, AddStep, MeasureStep, TruncateStep, LeaveStep DEF HealthNext

\* The log holds at most what the runs that are at it, and those that were killed,
\* have added to the limit.
LEMMA HealthTypes == HealthInv => HealthTypeOK
<1> SUFFICES ASSUME HealthInv PROVE HealthTypeOK
  OBVIOUS
<1>1. Len(health) <= MaxRecords + Cardinality(Writers) + kills
  <2>1. /\ Cardinality(Trimming) <= Cardinality(Writers)
        /\ Cardinality(Trimming) \in Nat /\ Cardinality(Writers) \in Nat
    <3>1. IsFiniteSet(Writers) /\ Trimming \in SUBSET Writers
      BY HealthAssumption DEF Trimming
    <3> QED
      BY <3>1, FS_Subset, FS_CardinalityType
  <2>2. /\ Len(health) \in Nat /\ MaxRecords \in Nat /\ kills \in Nat
        /\ Len(health) <= MaxRecords + Cardinality(Trimming) + kills
    BY LenProperties, HealthAssumption DEF HealthInv
  <2> QED
    BY <2>1, <2>2
<1>2. ASSUME NEW i \in DOMAIN health
      PROVE  health[i].platform \in Scrapers /\ health[i].at <= clock
  <2>1. PICK f \in Injection(DOMAIN health, DOMAIN outcomes) :
          \A n \in DOMAIN health : health[n] = outcomes[f[n]]
    BY DEF HealthInv, Embeds
  <2>2. f[i] \in DOMAIN outcomes
    BY <2>1 DEF Injection
  <2>3. outcomes[f[i]] \in Lines
    BY <2>2, ElementOfSeq, LenProperties DEF HealthInv
  <2> QED
    BY <2>1, <2>2, <2>3 DEF HealthInv, Lines
<1> QED
  BY <1>1, <1>2 DEF HealthInv, HealthTypeOK, InHand, RecordSteps

\* The types of the health log, and the bound on its length that truncation keeps.
THEOREM HealthTypeCorrect == HealthSpec => []HealthTypeOK
  BY HealthInitOK, HealthStep, HealthTypes, PTL DEF HealthSpec

\* No ERROR is said of a platform that has not failed as often as it takes: whatever
\* the truncations of others, their deaths and lost lines have made of the log.
THEOREM AlarmsAreDeserved == HealthSpec => AlarmIsDeserved
<1> DEFINE Deserved ==
      \A w \in alarm' :
          LET asked == Recent(outcomes, line[w]) IN
          /\ Cardinality(asked) >= MinSamples
          /\ 5 * Cardinality({i \in asked : ~outcomes[i].ok}) > 2 * MinSamples
<1>1. ASSUME HealthInv, [HealthNext]_healthVars
      PROVE  [Deserved]_healthVars
  <2>1. ASSUME NEW w \in Writers, Rate(w)
        PROVE  Deserved
    <3>1. alarm' = IF Degraded(health, line[w]) THEN {w} ELSE {}
      BY <2>1 DEF Rate
    <3>2. health \in Seq(Lines) /\ outcomes \in Seq(Lines) /\ Embeds(health, outcomes)
      BY <1>1 DEF HealthInv
    <3>3. ASSUME Degraded(health, line[w])
          PROVE  /\ Cardinality(Recent(outcomes, line[w])) >= MinSamples
                 /\ 5 * Cardinality({i \in Recent(outcomes, line[w]) : ~outcomes[i].ok})
                      > 2 * MinSamples
      BY <3>2, <3>3, DegradedInTruth
    <3>4. CASE Degraded(health, line[w])
      BY <3>1, <3>3, <3>4
    <3>5. CASE ~Degraded(health, line[w])
      BY <3>1, <3>5
    <3> QED
      BY <3>4, <3>5
  <2>2. ASSUME alarm' = {}
        PROVE  Deserved
    BY <2>2
  <2> QED
    BY <1>1, <2>1, <2>2
       DEF HealthNext, Record, AddLine, Measure, Trim, Refill, Kill, ClockTick
<1> QED
  BY <1>1, HealthInitOK, HealthStep, PTL DEF HealthSpec, AlarmIsDeserved

-----------------------------------------------------------------------------
\* The two halves side by side.
THEOREM ScraperTypesCorrect == MCSpec => []ScraperTypesOK
<1> DEFINE Inv == HistoryInv /\ HealthInv
<1>1. MCInit => Inv
  BY HistoryInit, HealthInitOK DEF MCInit
<1>2. Inv /\ [MCNext]_<<vars, healthVars, part>> => Inv'
  BY HistoryStep, HealthStep DEF MCNext
<1>3. Inv => ScraperTypesOK
  BY HealthTypes DEF HistoryInv, ScraperTypesOK
<1> QED
  BY <1>1, <1>2, <1>3, PTL DEF MCSpec
=============================================================================
