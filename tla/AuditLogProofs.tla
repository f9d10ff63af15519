--------------------------- MODULE AuditLogProofs ---------------------------
(***************************************************************************)
(* The log is one chain for any writers, any events and any length, and    *)
(* the runs of Dashboard write no other log than that.                     *)
(*                                                                         *)
(* ChainVerifies is not inductive: it does not say that a writer which is  *)
(* about to write still knows the tail. The strengthening is the lock (who *)
(* is at work holds it), what the writer has read under it, and that a     *)
(* line without its newline is there to be run into. All of that ends with *)
(* a close that writes late; what stays are the types, so that the whole   *)
(* invariant is: the types, and the chain unless a close has.              *)
(***************************************************************************)
EXTENDS Dashboard, SequenceTheorems, TLAPS

\* Of a hash: it stands for the first n lines, and they are all there.
StandsFor(prev, n) ==
    /\ Len(prev) = n
    /\ \A j \in 1..n : lines[j] # Torn /\ prev[j] = lines[j].event

Chained ==
    \A i \in 1..Len(lines) : lines[i] # Torn =>
        lines[i].seq = i - 1 /\ StandsFor(lines[i].prev, i - 1)

TornEnds == \A i \in 1..Len(lines) : lines[i] = Torn => i = Len(lines)

Locked == \A w \in Writers : pc[w] \notin {"idle", "close"} => holder = w

\* What a writer that is about to write has made of the last line.
Knowing == \A w \in Writers : pc[w] = "write" =>
    tail[w].seq = Len(lines) /\ StandsFor(tail[w].prev, Len(lines))

Logged ==
    tears = 0 =>
        /\ ended
        /\ Len(lines) = Len(said)
        /\ \A i \in 1..Len(lines) : lines[i] # Torn /\ lines[i].event = said[i]

\* What is left, or was written late, is left of a write that stopped short.
OfATear == (late \/ \E w \in Writers : left[w] # Nobody) => tears # 0

LogOK == AuditTypeOK /\ (ended \/ lines # <<>>) /\ OfATear

AuditInv == LogOK /\ ~late /\ Chained /\ TornEnds /\ Locked /\ Knowing /\ Logged

LogInv == LogOK /\ (late \/ AuditInv)

\* What Put makes of the lines, in a well-formed log.
LEMMA PutLines ==
  ASSUME LogOK, NEW line \in Records \cup {Torn}, Put(line)
  PROVE  /\ lines' \in Seq(Records \cup {Torn}) /\ lines' # <<>>
         /\ \/ /\ ended
               /\ Len(lines') = Len(lines) + 1
               /\ \A i \in 1..Len(lines) : lines'[i] = lines[i]
               /\ lines'[Len(lines) + 1] = line
            \/ /\ ~ended
               /\ Len(lines') = Len(lines) /\ Len(lines) > 0
               /\ \A i \in 1..(Len(lines) - 1) : lines'[i] = lines[i]
               /\ lines'[Len(lines)] = Torn
<1>1. lines \in Seq(Records \cup {Torn}) /\ ended \in BOOLEAN
  BY DEF LogOK, AuditTypeOK
<1>2. CASE ended
  <2>1. lines' = Append(lines, line)
    BY <1>2 DEF Put
  <2> QED
    BY <1>1, <1>2, <2>1, AppendProperties
<1>3. CASE ~ended
  <2>1. lines' = [lines EXCEPT ![Len(lines)] = Torn]
    BY <1>3 DEF Put
  <2>2. Len(lines) \in Nat /\ Len(lines) > 0
    BY <1>1, <1>3, EmptySeq, LenProperties DEF LogOK
  <2>3. /\ lines' \in Seq(Records \cup {Torn}) /\ Len(lines') = Len(lines)
        /\ \A j \in 1..Len(lines) : lines'[j] = IF j = Len(lines) THEN Torn ELSE lines[j]
    BY <1>1, <2>1, <2>2, ExceptSeq
  <2> QED
    BY <1>3, <2>2, <2>3
<1> QED
  BY <1>1, <1>2, <1>3

\* A record that is made is one.
LEMMA RecordIsMade ==
  ASSUME AuditTypeOK, NEW w \in Writers, NEW e \in Events
  PROVE  Made(w, e) \in Records /\ Made(w, e) # Torn
  BY AuditAssumption DEF AuditTypeOK, Made, Records

\* What close writes is lines.
LEMMA RestLines ==
  ASSUME LogOK, NEW l \in Rests, PutRest(l)
  PROVE  lines' \in Seq(Records \cup {Torn})
<1>1. /\ lines \in Seq(Records \cup {Torn}) /\ l.record \in Records /\ ended \in BOOLEAN
      /\ l.there \in {"nothing", "part", "run-on", "all"}
  BY DEF LogOK, AuditTypeOK, Rests
<1>2. CASE l.there = "nothing"
  BY <1>1, <1>2, PutLines DEF PutRest
<1>3. CASE l.there = "all"
  BY <1>1, <1>3 DEF PutRest
<1>4. CASE l.there \in {"part", "run-on"}
  <2> DEFINE x == IF l.there = "part" THEN l.record ELSE Torn
  <2>1. /\ x \in Records \cup {Torn}
        /\ lines' = IF ended THEN Append(lines, Torn) ELSE [lines EXCEPT ![Len(lines)] = x]
    BY <1>1, <1>4 DEF PutRest
  <2> HIDE DEF x
  <2>2. CASE ended
    BY <1>1, <2>1, <2>2, AppendProperties
  <2>3. CASE ~ended
    <3>1. Len(lines) \in 1..Len(lines)
      BY <1>1, <2>3, EmptySeq, LenProperties DEF LogOK
    <3> QED
      BY <1>1, <2>1, <2>3, <3>1, ExceptSeq
  <2> QED
    BY <1>1, <2>2, <2>3
<1> QED
  BY <1>1, <1>2, <1>3, <1>4

\* A write, whole or short, keeps the types.
LEMMA WriteKeepsTypes ==
  ASSUME LogOK, NEW w \in Writers, NEW e \in Events, Write(w, e) \/ WriteShort(w, e)
  PROVE  LogOK'
<1>1. AuditTypeOK /\ Made(w, e) \in Records
  BY RecordIsMade DEF LogOK
<1>2. /\ pc' = [pc EXCEPT ![w] = "unlock"] /\ UNCHANGED <<holder, tail, late>>
      /\ said' \in {said, Append(said, e)} /\ tears' \in {tears, tears + 1}
  BY DEF Write, WriteShort, Goto
<1>3. /\ lines' \in Seq(Records \cup {Torn}) /\ ended' \in BOOLEAN
      /\ ended' \/ lines' # <<>>
  <2>1. ASSUME NEW line \in Records \cup {Torn}, Put(line), ended' \in BOOLEAN
        PROVE  /\ lines' \in Seq(Records \cup {Torn}) /\ ended' \in BOOLEAN
               /\ ended' \/ lines' # <<>>
    BY <2>1, PutLines
  <2>2. CASE UNCHANGED <<lines, ended>>
    BY <2>2 DEF LogOK, AuditTypeOK
  <2>3. \/ UNCHANGED <<lines, ended>>
        \/ ended' \in BOOLEAN /\ (Put(Made(w, e)) \/ Put(Torn))
    BY DEF Write, WriteShort
  <2> QED
    BY <1>1, <2>1, <2>2, <2>3
<1>4. left' \in [Writers -> Rests \cup {Nobody}]
  <2>1. CASE Write(w, e)
    BY <1>1, <2>1 DEF Write, AuditTypeOK
  <2>2. CASE WriteShort(w, e)
    <3>1. PICK there \in {"nothing", "part", "run-on", "all"} :
            left' = [left EXCEPT ![w] = [record |-> Made(w, e), there |-> there]]
      BY <2>2 DEF WriteShort
    <3>2. [record |-> Made(w, e), there |-> there] \in Rests
      BY <1>1 DEF Rests
    <3> QED
      BY <1>1, <3>1, <3>2 DEF AuditTypeOK
  <2> QED
    BY <2>1, <2>2
<1>5. \A u \in Writers : pc'[u] = "close" => left'[u] # Nobody
  BY <1>1, <1>2 DEF AuditTypeOK, Write, WriteShort
<1>6. said' \in Seq(Events)
  <2>1. said \in Seq(Events)
    BY <1>1 DEF AuditTypeOK
  <2>2. Append(said, e) \in Seq(Events)
    BY <2>1, AppendProperties
  <2> QED
    BY <1>2, <2>1, <2>2
<1>7. tears' \in Nat /\ OfATear'
  BY <1>1, <1>2 DEF LogOK, AuditTypeOK, OfATear, Write, WriteShort
<1> QED
  BY <1>1, <1>2, <1>3, <1>4, <1>5, <1>6, <1>7 DEF LogOK, AuditTypeOK

\* And so does every step of the log.
LEMMA TypeStep == LogOK /\ [Next]_vars => LogOK'
<1> SUFFICES ASSUME LogOK, [Next]_vars PROVE LogOK'
  OBVIOUS
<1>1. CASE UNCHANGED vars
  BY <1>1 DEF LogOK, AuditTypeOK, OfATear, vars
<1>2. ASSUME NEW w \in Writers, Lock(w) \/ ReadTail(w) \/ Unlock(w) \/ Die(w)
      PROVE  LogOK'
  <2>1. UNCHANGED <<lines, ended, left, said, late, tears>>
    BY <1>2 DEF Lock, ReadTail, Unlock, Die
  <2>2. PICK label \in {"idle", "read", "write", "unlock", "close"} :
          /\ pc' = [pc EXCEPT ![w] = label]
          /\ label = "close" => left[w] # Nobody
    BY <1>2 DEF Lock, ReadTail, Unlock, Die, Goto
  <2>3. holder' \in Writers \cup {Nobody}
    BY <1>2 DEF Lock, ReadTail, Unlock, Die, LogOK, AuditTypeOK
  <2>4. tail' \in [Writers -> [seq : Nat, prev : Seq(Events)]]
    <3>1. Genesis \in [seq : Nat, prev : Seq(Events)]
      BY DEF Genesis
    <3>2. ASSUME lines # <<>>, lines[Len(lines)] # Torn
          PROVE  NextOf(lines[Len(lines)]) \in [seq : Nat, prev : Seq(Events)]
      <4>1. lines[Len(lines)] \in Records
        BY <3>2, EmptySeq, LenProperties DEF LogOK, AuditTypeOK
      <4> QED
        BY <4>1, AppendProperties DEF NextOf, HashOf, Records
    <3> QED
      BY <1>2, <3>1, <3>2 DEF Lock, ReadTail, Unlock, Die, LogOK, AuditTypeOK
  <2>5. /\ pc' \in [Writers -> {"idle", "read", "write", "unlock", "close"}]
        /\ \A u \in Writers : pc'[u] = "close" => left'[u] # Nobody
    BY <2>1, <2>2 DEF LogOK, AuditTypeOK
  <2> QED
    BY <2>1, <2>3, <2>4, <2>5 DEF LogOK, AuditTypeOK, OfATear
<1>3. ASSUME NEW w \in Writers, Close(w)
      PROVE  LogOK'
  <2>1. /\ pc[w] = "close" /\ left[w] \in Rests
        /\ left' = [left EXCEPT ![w] = Nobody] /\ pc' = [pc EXCEPT ![w] = "idle"]
        /\ UNCHANGED <<holder, tail, said, tears>>
    BY <1>3 DEF Close, Goto, LogOK, AuditTypeOK
  <2>2. \/ UNCHANGED <<lines, ended, late>>
        \/ PutRest(left[w]) /\ ended' = TRUE /\ late' = TRUE
    BY <1>3 DEF Close
  <2>3. /\ lines' \in Seq(Records \cup {Torn}) /\ ended' \in BOOLEAN /\ late' \in BOOLEAN
        /\ ended' \/ lines' # <<>>
    BY <2>1, <2>2, RestLines DEF LogOK, AuditTypeOK
  <2>4. left' \in [Writers -> Rests \cup {Nobody}]
    BY <2>1 DEF LogOK, AuditTypeOK
  <2>5. /\ pc' \in [Writers -> {"idle", "read", "write", "unlock", "close"}]
        /\ \A u \in Writers : pc'[u] = "close" => left'[u] # Nobody
    BY <2>1 DEF LogOK, AuditTypeOK
  <2>6. holder \in Writers \cup {Nobody} /\ tail \in [Writers -> [seq : Nat, prev : Seq(Events)]]
    BY DEF LogOK, AuditTypeOK
  <2>7. said \in Seq(Events) /\ tears \in Nat /\ OfATear'
    <3>1. left[w] # Nobody
      BY <2>1 DEF LogOK, AuditTypeOK
    <3>2. tears # 0
      BY <3>1 DEF LogOK, OfATear
    <3> QED
      BY <2>1, <3>2 DEF LogOK, AuditTypeOK, OfATear
  <2> QED
    BY <2>1, <2>3, <2>4, <2>5, <2>6, <2>7 DEF LogOK, AuditTypeOK
<1> QED
  BY <1>1, <1>2, <1>3, WriteKeepsTypes DEF Next

\* An empty log is a chain.
LEMMA AuditInit == Init => AuditInv
<1> SUFFICES ASSUME Init PROVE AuditInv
  OBVIOUS
<1>1. LogOK
  <2>1. AuditTypeOK
    <3>1. lines = <<>> /\ said = <<>> /\ ended \in BOOLEAN /\ late \in BOOLEAN /\ tears \in Nat
      BY DEF Init
    <3>2. /\ pc \in [Writers -> {"idle", "read", "write", "unlock", "close"}]
          /\ \A w \in Writers : pc[w] # "close"
      BY DEF Init
    <3>3. tail \in [Writers -> [seq : Nat, prev : Seq(Events)]]
      BY DEF Init, Genesis
    <3>4. left \in [Writers -> Rests \cup {Nobody}] /\ holder = Nobody
      BY DEF Init
    <3> QED
      BY <3>1, <3>2, <3>3, <3>4, EmptySeq DEF AuditTypeOK
  <2>2. ~late /\ \A w \in Writers : left[w] = Nobody
    BY DEF Init
  <2> QED
    BY <2>1, <2>2 DEF Init, LogOK, OfATear
<1>2. Len(lines) = 0 /\ Len(said) = 0
  BY DEF Init
<1> QED
  BY <1>1, <1>2 DEF Init, AuditInv, Chained, TornEnds, Locked, Knowing, Logged

\* The steps that leave the file alone.
LEMMA QuietStep ==
  ASSUME AuditInv, NEW w \in Writers, ~late', LogOK',
         Lock(w) \/ ReadTail(w) \/ Unlock(w) \/ Close(w) \/ Die(w)
  PROVE  AuditInv'
<1> USE DEF AuditInv, Goto
<1>1. UNCHANGED <<lines, ended, said, tears>>
  BY DEF Lock, ReadTail, Unlock, Close, Die
<1>2. (Chained /\ TornEnds /\ Logged)'
  BY <1>1 DEF Chained, TornEnds, Logged, StandsFor
<1>3. pc \in [Writers -> {"idle", "read", "write", "unlock", "close"}]
  BY DEF LogOK, AuditTypeOK
<1>4. CASE Lock(w)
  <2>1. /\ pc' = [pc EXCEPT ![w] = "read"] /\ holder = Nobody /\ holder' = w /\ tail' = tail
    BY <1>4 DEF Lock
  <2>2. Locked'
    BY <1>3, <2>1, AuditAssumption DEF Locked
  <2>3. Knowing'
    BY <1>1, <1>3, <2>1 DEF Knowing, StandsFor
  <2> QED
    BY <1>2, <2>2, <2>3
<1>5. CASE ReadTail(w)
  <2> DEFINE last == lines[Len(lines)]
             Known(T) == T.seq = Len(lines) /\ StandsFor(T.prev, Len(lines))
  <2>1. /\ holder' = holder /\ pc[w] = "read"
        /\ \A u \in Writers : u # w => pc[u] \in {"idle", "close"}
    BY <1>5, AuditAssumption DEF ReadTail, Locked
  <2>2. ASSUME NEW T, NEW label \in {"write", "unlock"},
               tail' = [tail EXCEPT ![w] = T], pc' = [pc EXCEPT ![w] = label],
               label = "write" => Known(T)
        PROVE  AuditInv'
    <3>1. Locked'
      BY <1>3, <2>1, <2>2 DEF Locked
    <3>2. Knowing'
      <4>1. \A u \in Writers : u # w => pc'[u] # "write"
        BY <1>3, <2>1, <2>2
      <4>2. tail'[w] = T /\ pc'[w] = label
        BY <1>3, <2>2 DEF LogOK, AuditTypeOK
      <4> QED
        BY <1>1, <2>2, <4>1, <4>2 DEF Knowing, StandsFor
    <3> QED
      BY <1>2, <3>1, <3>2
  <2>3. CASE lines = <<>>
    <3>1. Len(lines) = 0 /\ Known(Genesis)
      BY <2>3 DEF StandsFor, Genesis
    <3>2. tail' = [tail EXCEPT ![w] = Genesis] /\ pc' = [pc EXCEPT ![w] = "write"]
      BY <1>5, <2>3 DEF ReadTail
    <3> QED
      BY <2>2, <3>1, <3>2
  <2>4. CASE lines # <<>> /\ last = Torn
    <3>1. tail' = [tail EXCEPT ![w] = Genesis] /\ pc' = [pc EXCEPT ![w] = "unlock"]
      BY <1>5, <2>4 DEF ReadTail
    <3> QED
      BY <2>2, <3>1
  <2>5. CASE lines # <<>> /\ last # Torn
    <3>1. Len(lines) \in Nat \ {0} /\ last \in Records
      BY <2>5, EmptySeq, LenProperties DEF LogOK, AuditTypeOK
    <3>2. last.seq = Len(lines) - 1 /\ StandsFor(last.prev, Len(lines) - 1)
      BY <2>5, <3>1 DEF Chained
    <3>3. last.seq \in Nat /\ last.prev \in Seq(Events) /\ last.event \in Events
      BY <3>1 DEF Records
    <3>4. Known(NextOf(last))
      BY <2>5, <3>1, <3>2, <3>3, AppendProperties DEF NextOf, HashOf, StandsFor
    <3>5. tail' = [tail EXCEPT ![w] = NextOf(last)] /\ pc' = [pc EXCEPT ![w] = "write"]
      BY <1>5, <2>5 DEF ReadTail
    <3> QED
      BY <2>2, <3>4, <3>5
  <2> QED
    BY <2>3, <2>4, <2>5
<1>6. CASE Unlock(w) \/ Die(w)
  <2>1. /\ holder' = Nobody /\ tail' = tail
        /\ \E label \in {"idle", "close"} : pc' = [pc EXCEPT ![w] = label]
        /\ \A u \in Writers : u # w => pc[u] \in {"idle", "close"}
    BY <1>6, AuditAssumption DEF Unlock, Die, Locked
  <2>2. \A u \in Writers : pc'[u] \in {"idle", "close"}
    BY <1>3, <2>1
  <2> QED
    BY <1>2, <2>2 DEF Locked, Knowing
<1>7. CASE Close(w)
  <2>1. /\ pc' = [pc EXCEPT ![w] = "idle"] /\ UNCHANGED <<holder, tail>>
    BY <1>7 DEF Close
  <2>2. Locked' /\ Knowing'
    BY <1>1, <1>3, <2>1 DEF Locked, Knowing, StandsFor
  <2> QED
    BY <1>2, <2>2
<1> QED
  BY <1>4, <1>5, <1>6, <1>7

\* Every line that is there after a write is chained, and only the last is torn.
LEMMA WrittenIsChained ==
  ASSUME AuditInv, NEW w \in Writers, pc[w] = "write",
         NEW line \in Records \cup {Torn}, Put(line),
         line # Torn => line.seq = tail[w].seq /\ line.prev = tail[w].prev
  PROVE  Chained' /\ TornEnds'
<1>1. /\ lines \in Seq(Records \cup {Torn}) /\ Len(lines) \in Nat /\ LogOK
  BY DEF AuditInv, LogOK, AuditTypeOK
<1>2. /\ Chained /\ TornEnds
      /\ tail[w].seq = Len(lines) /\ StandsFor(tail[w].prev, Len(lines))
  BY DEF AuditInv, Knowing
<1>3. CASE /\ Len(lines') = Len(lines) + 1
           /\ \A i \in 1..Len(lines) : lines'[i] = lines[i]
           /\ lines'[Len(lines) + 1] = line
  <2>1. \A i \in 1..Len(lines) : lines[i] # Torn
    BY <1>2 DEF StandsFor
  <2>2. TornEnds'
    BY <1>1, <1>3, <2>1 DEF TornEnds
  <2>3. ASSUME NEW i \in 1..Len(lines), lines'[i] # Torn
        PROVE  lines'[i].seq = i - 1 /\ StandsFor(lines[i].prev, i - 1)'
    <3>1. lines'[i] = lines[i] /\ lines[i].seq = i - 1 /\ StandsFor(lines[i].prev, i - 1)
      BY <1>2, <1>3, <2>1, <2>3 DEF Chained
    <3> QED
      BY <1>1, <1>3, <3>1 DEF StandsFor
  <2>4. ASSUME NEW i \in {Len(lines) + 1}, lines'[i] # Torn
        PROVE  lines'[i].seq = i - 1 /\ StandsFor(lines[i].prev, i - 1)'
    <3>1. lines'[i].seq = i - 1 /\ lines'[i].prev = tail[w].prev
      BY <1>1, <1>2, <1>3, <2>4
    <3> QED
      BY <1>1, <1>2, <1>3, <3>1 DEF StandsFor
  <2>5. Chained'
    <3>1. \A i \in 1..Len(lines') : i \in 1..Len(lines) \/ i \in {Len(lines) + 1}
      BY <1>1, <1>3
    <3> QED
      BY <2>3, <2>4, <3>1 DEF Chained
  <2> QED
    BY <2>2, <2>5
<1>4. CASE /\ Len(lines') = Len(lines) /\ Len(lines) > 0
           /\ \A i \in 1..(Len(lines) - 1) : lines'[i] = lines[i]
           /\ lines'[Len(lines)] = Torn
  <2>1. \A i \in 1..Len(lines) : lines[i] # Torn
    BY <1>2 DEF StandsFor
  <2>2. TornEnds'
    BY <1>1, <1>4, <2>1 DEF TornEnds
  <2>3. ASSUME NEW i \in 1..Len(lines), lines'[i] # Torn
        PROVE  lines'[i].seq = i - 1 /\ StandsFor(lines[i].prev, i - 1)'
    <3>1. /\ i <= Len(lines) - 1 /\ lines'[i] = lines[i]
          /\ lines[i].seq = i - 1 /\ StandsFor(lines[i].prev, i - 1)
      BY <1>1, <1>2, <1>4, <2>1, <2>3 DEF Chained
    <3> QED
      BY <1>1, <1>4, <3>1 DEF StandsFor
  <2>4. Chained'
    BY <1>4, <2>3 DEF Chained
  <2> QED
    BY <2>2, <2>4
<1> QED
  BY <1>1, <1>3, <1>4, PutLines

\* A write, whole or short, keeps the chain.
LEMMA WriteStep ==
  ASSUME AuditInv, NEW w \in Writers, NEW e \in Events, Write(w, e) \/ WriteShort(w, e)
  PROVE  AuditInv'
<1> DEFINE rec == Made(w, e)
<1>1. /\ LogOK /\ LogOK' /\ AuditTypeOK /\ late' = late
      /\ Chained /\ TornEnds /\ Locked /\ Knowing /\ Logged
  BY WriteKeepsTypes DEF AuditInv, LogOK, Write, WriteShort
<1>2. rec \in Records /\ rec # Torn /\ rec.seq = tail[w].seq /\ rec.prev = tail[w].prev
      /\ rec.event = e
  BY <1>1, RecordIsMade DEF Made
<1> HIDE DEF rec
<1>3. /\ pc[w] = "write" /\ pc' = [pc EXCEPT ![w] = "unlock"]
      /\ UNCHANGED <<holder, tail>>
  BY DEF Write, WriteShort, Goto
<1>4. \A u \in Writers : pc'[u] # "write"
  BY <1>1, <1>3 DEF Locked, AuditTypeOK
<1>5. Locked' /\ Knowing'
  BY <1>1, <1>3, <1>4 DEF Locked, Knowing, AuditTypeOK
<1>6. (\E line \in {rec, Torn} : Put(line)) \/ UNCHANGED lines
  BY DEF Write, WriteShort, rec
<1>7. Chained' /\ TornEnds'
  <2>1. CASE UNCHANGED lines
    BY <1>1, <2>1 DEF Chained, TornEnds, StandsFor
  <2>2. CASE \E line \in {rec, Torn} : Put(line)
    BY <1>2, <1>3, <2>2, WrittenIsChained
  <2> QED
    BY <1>6, <2>1, <2>2
<1>8. CASE Write(w, e)
  <2>1. Put(rec) /\ said' = Append(said, e) /\ ended' = TRUE /\ tears' = tears
    BY <1>8 DEF Write, rec
  <2>2. ASSUME tears = 0
        PROVE  Logged'
    <3>1. /\ Len(lines') = Len(lines) + 1
          /\ \A i \in 1..Len(lines) : lines'[i] = lines[i]
          /\ lines'[Len(lines) + 1] = rec
      BY <1>1, <1>2, <2>1, <2>2, PutLines DEF Logged
    <3>2. /\ Len(said') = Len(said) + 1
          /\ \A i \in 1..Len(said) : said'[i] = said[i]
          /\ said'[Len(said) + 1] = e
      BY <1>1, <2>1, AppendProperties DEF AuditTypeOK
    <3>3. Len(lines) = Len(said) /\ Len(said) \in Nat
      BY <1>1, <2>2, LenProperties DEF Logged, AuditTypeOK
    <3>4. \A i \in 1..Len(said) : lines[i] # Torn /\ lines[i].event = said[i]
      BY <1>1, <2>2, <3>3 DEF Logged
    <3> QED
      BY <1>2, <2>1, <3>1, <3>2, <3>3, <3>4 DEF Logged
  <2> QED
    BY <1>1, <1>5, <1>7, <2>1, <2>2 DEF AuditInv, Logged
<1>9. CASE WriteShort(w, e)
  <2>1. tears' = tears + 1 /\ tears \in Nat
    BY <1>1, <1>9 DEF WriteShort, AuditTypeOK
  <2> QED
    BY <1>1, <1>5, <1>7, <2>1 DEF AuditInv, Logged
<1> QED
  BY <1>8, <1>9

\* And so does every step of the log, as long as no close writes late.
LEMMA AuditStep == LogInv /\ [Next]_vars => LogInv'
<1> SUFFICES ASSUME LogInv, [Next]_vars PROVE LogInv'
  OBVIOUS
<1>1. LogOK'
  BY TypeStep DEF LogInv
<1>2. ASSUME ~late'
      PROVE  AuditInv'
  <2>1. AuditInv
    BY <1>2 DEF LogInv, Next, Lock, ReadTail, Write, WriteShort, Unlock, Close, Die, vars
  <2>2. ASSUME UNCHANGED vars
        PROVE  AuditInv'
    BY <1>1, <2>1, <2>2
       DEF vars, AuditInv, Chained, TornEnds, Locked, Knowing, Logged, StandsFor
  <2> QED
    BY <1>1, <1>2, <2>1, <2>2, QuietStep, WriteStep DEF Next
<1> QED
  BY <1>1, <1>2 DEF LogInv

\* The invariant says what verify_chain recomputes.
LEMMA ChainFollows == LogInv => ChainVerifies
<1> SUFFICES ASSUME LogInv PROVE ChainVerifies
  OBVIOUS
<1> SUFFICES ASSUME AuditInv PROVE ChainVerifies
  BY DEF LogInv, LogOK, OfATear, ChainVerifies
<1>1. AuditTypeOK /\ Chained /\ TornEnds /\ Logged
  BY DEF AuditInv, LogOK
<1>2. ASSUME NEW i \in 1..Len(lines), lines[i] # Torn
      PROVE  lines[i].prev =
               [j \in 1..(i - 1) |-> IF lines[j] = Torn THEN Torn ELSE lines[j].event]
  <2>1. lines[i] \in Records
    BY <1>1, <1>2 DEF AuditTypeOK
  <2>2. lines[i].prev \in Seq(Events)
    BY <2>1 DEF Records
  <2>3. StandsFor(lines[i].prev, i - 1)
    BY <1>1, <1>2 DEF Chained
  <2>4. lines[i].prev = [j \in 1..(i - 1) |-> lines[i].prev[j]]
    BY <2>2, <2>3 DEF StandsFor
  <2> QED
    BY <2>3, <2>4 DEF StandsFor
<1> QED
  BY <1>1, <1>2 DEF Chained, TornEnds, Logged, ChainVerifies

\* Whatever threads and processes append to it, and wherever they die: what decodes
\* of the log is one chain, and nothing follows what does not, until a close writes
\* what a failed write has left, behind the lock.
THEOREM LogIsOneChain == Spec => []ChainVerifies
<1>1. Init => LogInv
  BY AuditInit DEF AuditInv, LogInv
<1> QED
  BY <1>1, AuditStep, ChainFollows, PTL DEF Spec

-----------------------------------------------------------------------------
\* What a call can say is an event of the log.
LEMMA DueIsEvent ==
  ASSUME DashTypeOK, NEW w \in Writers, pc[w] \in {"read", "write"}, NEW e \in Due(w)
  PROVE  e \in Events /\ Then(call[w], e.status) \in Gates \cup {"open", "held", "closed"}
<1>1. call[w] \in Calls /\ call[w].at \in Gates
  BY DEF DashTypeOK, CallsOK
<1>2. call[w] # NoCall
  BY <1>1 DEF NoCall, Gates
<1>3. call[w].job \in Jobs /\ call[w].ts \in 1..MaxCalls
  BY <1>1, <1>2, DashboardAssumption DEF DashTypeOK, CallsOK, Calls
<1>4. PICK s \in {"pass", "stop", "hold"} :
        e = [job |-> call[w].job, ts |-> call[w].ts, gate |-> call[w].at, status |-> s]
  BY <1>1 DEF Due, Statuses, Gates
<1>5. e \in Events
  BY <1>1, <1>3, <1>4, DashboardAssumption DEF GateEvents
<1>6. Then(call[w], e.status) \in Gates \cup {"open", "held", "closed"}
  BY <1>1, <1>4 DEF Then, Following, Gates
<1> QED
  BY <1>5, <1>6

\* A call that goes to another place, or ends, is a call.
LEMMA CallMoves ==
  ASSUME NEW c \in Calls, NEW at \in Gates \cup {"open", "held", "closed"}
  PROVE  [c EXCEPT !.at = at] \in Calls /\ [c EXCEPT !.at = at] # NoCall
  BY DEF Calls, NoCall, Gates

\* A step of a call is a step of the log or leaves the log alone.
LEMMA CallStep ==
  ASSUME DashTypeOK, NEW w \in Writers,
         Process(w) \/ Relint(w) \/ Appends(w) \/ Say(w) \/ SayFails(w)
           \/ Persist(w) \/ Stops(w) \/ Dies(w)
  PROVE  [Next]_vars
<1>1. CASE Process(w) \/ Relint(w) \/ Persist(w) \/ Stops(w)
  BY <1>1 DEF Process, Relint, Persist, Stops, Enters
<1>2. CASE Appends(w) \/ Dies(w)
  BY <1>2 DEF Appends, Dies, Next
<1>3. CASE Say(w)
  <2>1. PICK e \in Due(w) : Write(w, e)
    BY <1>3 DEF Say
  <2>2. e \in Events
    BY <2>1, DueIsEvent DEF Write
  <2> QED
    BY <2>1, <2>2 DEF Next
<1>4. CASE SayFails(w)
  <2>1. CASE ReadTail(w)
    BY <2>1 DEF Next
  <2>2. ASSUME NEW e \in Due(w), WriteShort(w, e)
        PROVE  Next
    <3>1. e \in Events
      BY <2>2, DueIsEvent DEF WriteShort
    <3> QED
      BY <2>2, <3>1 DEF Next
  <2> QED
    BY <1>4, <2>1, <2>2 DEF SayFails
<1> QED
  BY <1>1, <1>2, <1>3, <1>4

\* A step of a call keeps the types of the calls.
LEMMA CallsStep ==
  ASSUME DashTypeOK, NEW w \in Writers,
         Process(w) \/ Relint(w) \/ Appends(w) \/ Say(w) \/ SayFails(w)
           \/ Persist(w) \/ Stops(w) \/ Dies(w)
  PROVE  CallsOK'
<1> USE DashboardAssumption DEF CallsOK, DashTypeOK
<1>1. pc \in [Writers -> {"idle", "read", "write", "unlock", "close"}]
  BY DEF AuditTypeOK
<1>2. NoCall \in Calls
  BY DEF NoCall, Calls
<1>3. CASE Process(w) \/ Relint(w)
  <2>1. PICK j \in Jobs, gate \in Gates, relint \in BOOLEAN : Enters(w, j, gate, relint)
    BY <1>3 DEF Process, Relint, Gates
  <2>2. clock + 1 \in 1..MaxCalls
    BY <2>1 DEF Enters
  <2> DEFINE c == [job |-> j, ts |-> clock + 1, at |-> gate, relint |-> relint]
  <2>3. c \in Calls /\ c.job \in Jobs /\ c.ts > 0 /\ pc[w] = "idle"
    BY <2>1, <2>2 DEF Calls, Enters
  <2>4. /\ call' = [call EXCEPT ![w] = c] /\ clock' = clock + 1
        /\ UNCHANGED <<row, pc>> /\ shared' \subseteq Jobs
    BY <2>1 DEF Enters, vars
  <2> QED
    BY <2>2, <2>3, <2>4
<1>4. CASE Appends(w)
  <2>1. UNCHANGED callVars
    BY <1>4 DEF Appends
  <2>2. PICK label \in {"idle", "read", "write", "unlock", "close"} :
          pc' = [pc EXCEPT ![w] = label]
    BY <1>4 DEF Appends, Lock, ReadTail, Unlock, Close, Goto
  <2>3. label \in {"read", "write"} => call[w].at \in Gates
    BY <1>1, <1>4, <2>2 DEF Appends, Lock, ReadTail, Unlock, Close, Goto
  <2> QED
    BY <1>1, <2>1, <2>2, <2>3 DEF callVars
<1>5. CASE Say(w)
  <2>1. PICK e \in Due(w) : Write(w, e) /\ call' = [call EXCEPT ![w].at = Then(call[w], e.status)]
    BY <1>5 DEF Say
  <2>2. pc[w] = "write" /\ pc' = [pc EXCEPT ![w] = "unlock"]
    BY <2>1 DEF Write, Goto
  <2> DEFINE c == [call[w] EXCEPT !.at = Then(call[w], e.status)]
  <2>3. c \in Calls /\ c # NoCall /\ c.job = call[w].job /\ c.ts = call[w].ts
    BY <2>2, DueIsEvent, CallMoves DEF Calls
  <2>4. call[w] # NoCall
    BY <2>2 DEF NoCall, Gates
  <2>5. call' = [call EXCEPT ![w] = c]
    BY <2>1
  <2> QED
    BY <1>1, <1>5, <2>2, <2>3, <2>4, <2>5 DEF Say
<1>6. CASE SayFails(w) \/ Dies(w)
  <2>1. /\ call' = [call EXCEPT ![w] = NoCall] /\ UNCHANGED <<row, clock, shared>>
        /\ \E label \in {"unlock", "idle"} : pc' = [pc EXCEPT ![w] = label]
    <3>1. CASE Dies(w)
      BY <3>1 DEF Dies, Die, Ends, Goto
    <3>2. CASE SayFails(w) /\ ReadTail(w) /\ pc'[w] = "unlock"
      BY <1>1, <3>2 DEF SayFails, ReadTail, Ends, Goto
    <3>3. CASE SayFails(w) /\ \E e \in Due(w) : WriteShort(w, e)
      BY <3>3 DEF SayFails, WriteShort, Ends, Goto
    <3> QED
      BY <1>6, <3>1, <3>2, <3>3 DEF SayFails
  <2> QED
    BY <1>1, <1>2, <2>1
<1>7. CASE Persist(w) \/ Stops(w)
  <2>1. /\ call' = [call EXCEPT ![w] = NoCall] /\ UNCHANGED <<pc, clock, shared>>
        /\ pc[w] = "idle"
    BY <1>7 DEF Persist, Stops, Ends, vars
  <2>2. row' \in [Jobs -> {"open", "held", "closed"}]
    BY <1>7 DEF Persist, Stops, vars
  <2> QED
    BY <1>1, <1>2, <2>1, <2>2
<1> QED
  BY <1>3, <1>4, <1>5, <1>6, <1>7

\* Every step of the calls implements one of the log, and keeps the types.
LEMMA DashStep ==
  ASSUME LogInv, DashTypeOK, [DashNext]_dashVars
  PROVE  [Next]_vars /\ LogInv' /\ DashTypeOK'
<1>1. CASE \E w \in Writers :
             \/ Process(w) \/ Relint(w) \/ Appends(w) \/ Say(w) \/ SayFails(w)
             \/ Persist(w) \/ Stops(w) \/ Dies(w)
  <2>1. [Next]_vars /\ CallsOK'
    BY <1>1, CallStep, CallsStep
  <2>2. LogInv'
    BY <2>1, AuditStep
  <2> QED
    BY <2>1, <2>2 DEF CallsOK, DashTypeOK, LogInv, LogOK
<1>2. CASE (\E j \in Jobs : Overrule(j)) \/ UNCHANGED dashVars
  <2>1. /\ UNCHANGED vars /\ UNCHANGED <<call, clock, shared>>
        /\ row' \in [Jobs -> {"open", "held", "closed"}]
    BY <1>2 DEF Overrule, dashVars, callVars, DashTypeOK, CallsOK
  <2>2. LogInv'
    BY <2>1, AuditStep
  <2>3. pc' = pc
    BY <2>1 DEF vars
  <2> QED
    BY <2>1, <2>2, <2>3 DEF DashTypeOK, CallsOK, LogInv, LogOK
<1> QED
  BY <1>1, <1>2 DEF DashNext

\* Nobody is in a call.
LEMMA DashInitOK == DashInit => AuditInv /\ LogInv /\ DashTypeOK
<1> SUFFICES ASSUME DashInit PROVE AuditInv /\ LogInv /\ DashTypeOK
  OBVIOUS
<1>1. AuditInv /\ LogInv
  BY AuditInit DEF DashInit, AuditInv, LogInv
<1>2. NoCall \in Calls
  BY DashboardAssumption DEF NoCall, Calls
<1> QED
  BY <1>1, <1>2, DashboardAssumption DEF DashInit, Init, DashTypeOK, CallsOK, LogInv, LogOK

\* The runs of Stage 2 and the resolves write an audit log: whatever they say, where
\* they stop and how they overlap, what AuditLog promises of its writers holds.
THEOREM CallsWriteTheLog == DashSpec => Spec
<1>1. DashInit => Init
  BY DEF DashInit
<1> QED
  BY <1>1, DashInitOK, DashStep, PTL DEF DashSpec, Spec

\* The types of the log, of the calls and of what they append.
THEOREM DashTypeCorrect == DashSpec => []DashTypeOK
  BY DashInitOK, DashStep, PTL DEF DashSpec

-----------------------------------------------------------------------------
(***************************************************************************)
(* What the dashboard reads off the log. Both properties are about pairs   *)
(* of lines a long time apart, so that the invariant has to say what a     *)
(* call at a gate and a held row owe to lines already written, as long as  *)
(* the log takes any more.                                                 *)
(***************************************************************************)

\* Line i is an event of job j.
IsOf(i, j) == lines[i] # Torn /\ lines[i].event.job = j

\* Every append from here on fails.
Dead == lines # <<>> /\ lines[Len(lines)] = Torn

\* The first n lines say that job j has been at a gate.
Heard(j, gate, n) == \E k \in 1..n : IsOf(k, j) /\ lines[k].event.gate = gate

\* The grounding holds the job.
Holds(e) == e.gate = "GROUNDING_GATE" /\ ~Passed(e)
HoldSaid(j) == \E k \in 1..Len(lines) : IsOf(k, j) /\ Holds(lines[k].event)

\* No line is of a gate whose predecessor has said nothing.
Ordered == \A i \in 1..Len(lines) : lines[i] # Torn =>
    \A g \in Gates : lines[i].event.gate = Following[g] => Heard(lines[i].event.job, g, i - 1)

\* What a call is about to say, or to write, is backed by the log.
Backed == \A w \in Writers : call[w] # NoCall /\ ~Dead =>
    /\ \A g \in Gates \ {"LINT_GATE"} :
          call[w].at = Following[g] => Heard(call[w].job, g, Len(lines))
    /\ call[w].relint \/ call[w].at = "held" => HoldSaid(call[w].job)

HeldBacked == \A j \in Jobs : row[j] = "held" /\ ~Dead => HoldSaid(j)

FunnelInv == Ordered /\ Backed /\ HeldBacked

\* What the next relint may follow: a hold, or an earlier relint.
Settled(e) == e.gate = "LINT_GATE" \/ Holds(e)

\* Line i is the last of job j.
IsLast(i, j) ==
    /\ i \in 1..Len(lines) /\ IsOf(i, j)
    /\ \A k \in 1..Len(lines) : k > i => ~IsOf(k, j)
LastAt(j, ts) == \E i \in 1..Len(lines) : IsLast(i, j) /\ lines[i].event.ts = ts
LastSettled(j) == \E i \in 1..Len(lines) : IsLast(i, j) /\ Settled(lines[i].event)

\* One call at a time, but for the jobs that are shared.
OneCall == \A v, w \in Writers :
    /\ call[v] # NoCall /\ call[w] # NoCall
    /\ call[w].job = call[v].job /\ call[v].job \notin shared
    => v = w

CallFits == \A w \in Writers : call[w] # NoCall /\ call[w].job \notin shared =>
    IF call[w].relint THEN call[w].at \in {"LINT_GATE", "held", "closed"}
    ELSE row[call[w].job] = "open"

\* The last line of a job is of the run that is in it, or one a relint may follow.
Trail == \A w \in Writers : call[w] # NoCall /\ call[w].job \notin shared /\ ~Dead =>
    /\ ~call[w].relint /\ call[w].at # "RISK_GATE" => LastAt(call[w].job, call[w].ts)
    /\ call[w].relint \/ call[w].at = "held" => LastSettled(call[w].job)

HeldTrail == \A j \in Jobs \ shared : row[j] = "held" /\ ~Dead => LastSettled(j)

\* GapsAreOfOneRun, said of the lines.
Aligned == \A j \in Jobs \ shared : \A k \in 1..Len(lines) : \A i \in 1..(k - 1) :
    /\ IsOf(i, j) /\ IsOf(k, j)
    /\ \A m \in (i + 1)..(k - 1) : ~IsOf(m, j)
    /\ GateOrder[lines[k].event.gate] > GateOrder[lines[i].event.gate]
    /\ lines[i].event.ts # lines[k].event.ts
    => Holds(lines[i].event)

GapInv == OneCall /\ CallFits /\ Trail /\ HeldTrail /\ Aligned

ReadInv == AuditInv /\ DashTypeOK /\ FunnelInv /\ GapInv

DashInv == LogInv /\ DashTypeOK /\ (late \/ ReadInv)

\* A step that writes no line leaves what was heard as it was.
LEMMA QuietLog ==
  ASSUME ReadInv, UNCHANGED lines, shared \subseteq shared'
  PROVE  /\ Dead' = Dead /\ Len(lines') = Len(lines)
         /\ \A j, g, n : Heard(j, g, n)' = Heard(j, g, n)
         /\ \A j : HoldSaid(j)' = HoldSaid(j)
         /\ \A j, ts : LastAt(j, ts)' = LastAt(j, ts)
         /\ \A j : LastSettled(j)' = LastSettled(j)
         /\ Ordered' /\ Aligned'
<1>1. Dead' = Dead /\ Len(lines') = Len(lines)
  BY DEF Dead
<1>2. \A j, g, n : Heard(j, g, n)' = Heard(j, g, n)
  BY DEF Heard, IsOf
<1>3. \A j : HoldSaid(j)' = HoldSaid(j)
  BY DEF HoldSaid, Holds, Passed, IsOf
<1>4. /\ \A j, ts : LastAt(j, ts)' = LastAt(j, ts)
      /\ \A j : LastSettled(j)' = LastSettled(j)
  BY DEF LastAt, LastSettled, IsLast, IsOf, Settled, Holds, Passed
<1>5. Ordered'
  BY DEF ReadInv, FunnelInv, Ordered, Heard, IsOf
<1>6. Aligned'
  BY DEF ReadInv, GapInv, Aligned, IsOf, Holds, Passed
<1> QED
  BY <1>1, <1>2, <1>3, <1>4, <1>5, <1>6

\* A call that ends and writes no row owes nothing any more.
LEMMA CallEnds ==
  ASSUME ReadInv, NEW w \in Writers, Ends(w), UNCHANGED <<lines, row, shared>>
  PROVE  FunnelInv' /\ GapInv'
<1>1. \A v \in Writers : call'[v] # NoCall => call'[v] = call[v] /\ call[v] # NoCall
  BY DEF Ends, ReadInv, DashTypeOK, CallsOK
<1>2. Ordered' /\ Aligned'
  BY QuietLog
<1>3. Backed' /\ HeldBacked'
  BY <1>1, QuietLog DEF Backed, HeldBacked, ReadInv, FunnelInv
<1>4. OneCall' /\ CallFits'
  BY <1>1 DEF OneCall, CallFits, ReadInv, GapInv
<1>5. Trail' /\ HeldTrail'
  BY <1>1, QuietLog DEF Trail, HeldTrail, ReadInv, GapInv
<1> QED
  BY <1>2, <1>3, <1>4, <1>5 DEF FunnelInv, GapInv

\* A run starts at the first gate, and a relint from what holds the job.
LEMMA CallEnters ==
  ASSUME ReadInv, NEW w \in Writers, Process(w) \/ Relint(w)
  PROVE  FunnelInv' /\ GapInv'
<1>1. PICK j \in Jobs, gate \in Gates, relint \in BOOLEAN :
        /\ Enters(w, j, gate, relint)
        /\ IF relint THEN row[j] = "held" /\ gate = "LINT_GATE"
           ELSE row[j] = "open" /\ gate = "RISK_GATE"
  BY DEF Process, Relint, Gates
<1> DEFINE c == [job |-> j, ts |-> clock + 1, at |-> gate, relint |-> relint]
<1>2. /\ UNCHANGED <<lines, row>> /\ call[w] = NoCall
      /\ call'[w] = c /\ \A v \in Writers : v # w => call'[v] = call[v]
  BY <1>1 DEF Enters, vars, ReadInv, DashTypeOK, CallsOK
<1>3. /\ shared \subseteq shared'
      /\ j \notin shared' => \A v \in Writers : call[v].job # j
  BY <1>1 DEF Enters
<1>4. Ordered' /\ Aligned'
  BY <1>2, <1>3, QuietLog
<1>5. Backed'
  <2>1. ASSUME ~Dead, NEW g \in Gates \ {"LINT_GATE"}, gate = Following[g]
        PROVE  relint /\ g = "GROUNDING_GATE"
    BY <1>1, <2>1 DEF Following, Gates
  <2>2. ASSUME ~Dead, relint
        PROVE  HoldSaid(j) /\ Heard(j, "GROUNDING_GATE", Len(lines))
    <3>1. HoldSaid(j)
      BY <1>1, <2>2 DEF ReadInv, FunnelInv, HeldBacked
    <3> QED
      BY <3>1 DEF HoldSaid, Holds, Heard
  <2>3. gate # "held"
    BY <1>1
  <2> QED
    BY <1>2, <1>3, <2>1, <2>2, <2>3, QuietLog DEF Backed, ReadInv, FunnelInv
<1>6. HeldBacked'
  BY <1>2, <1>3, QuietLog DEF HeldBacked, ReadInv, FunnelInv
<1>7. OneCall' /\ CallFits'
  BY <1>1, <1>2, <1>3 DEF OneCall, CallFits, ReadInv, GapInv
<1>8. HeldTrail'
  BY <1>2, <1>3, QuietLog DEF HeldTrail, ReadInv, GapInv
<1>9. Trail'
  <2>1. ASSUME ~Dead, relint, j \notin shared'
        PROVE  LastSettled(j)
    BY <1>1, <1>3, <2>1 DEF ReadInv, GapInv, HeldTrail
  <2> QED
    BY <1>1, <1>2, <1>3, <2>1, QuietLog DEF Trail, ReadInv, GapInv
<1> QED
  BY <1>4, <1>5, <1>6, <1>7, <1>8, <1>9 DEF FunnelInv, GapInv

\* The row that is written has its hold in the log.
LEMMA CallPersists ==
  ASSUME ReadInv, NEW w \in Writers, Persist(w)
  PROVE  FunnelInv' /\ GapInv'
<1> DEFINE j == call[w].job
<1>1. /\ UNCHANGED <<lines, shared>> /\ call[w] # NoCall /\ j \in Jobs
      /\ call'[w] = NoCall /\ \A v \in Writers : v # w => call'[v] = call[v]
  BY DEF Persist, Ends, vars, NoCall, ReadInv, DashTypeOK, CallsOK
<1>2. /\ row' \in [Jobs -> {"open", "held", "closed"}]
      /\ \A k \in Jobs : row'[k] # row[k] => k = j /\ row'[k] = call[w].at
  BY <1>1 DEF Persist, ReadInv, DashTypeOK, CallsOK
<1>3. Ordered' /\ Aligned'
  BY <1>1, QuietLog
<1>4. Backed'
  BY <1>1, QuietLog DEF Backed, ReadInv, FunnelInv
<1>5. HeldBacked'
  BY <1>1, <1>2, QuietLog DEF HeldBacked, Backed, ReadInv, FunnelInv
<1>6. OneCall'
  BY <1>1 DEF OneCall, ReadInv, GapInv
<1>7. CallFits'
  <2>1. ASSUME NEW v \in Writers, call'[v] # NoCall, call'[v].job \notin shared
        PROVE  call[v] = call'[v] /\ row'[call[v].job] = row[call[v].job]
    <3>1. v # w /\ call[v] = call'[v] /\ call[v].job \in Jobs
      BY <1>1, <2>1 DEF ReadInv, DashTypeOK, CallsOK
    <3>2. call[v].job # j
      BY <1>1, <2>1, <3>1 DEF OneCall, ReadInv, GapInv
    <3> QED
      BY <1>2, <3>1, <3>2
  <2> QED
    BY <1>1, <2>1 DEF CallFits, ReadInv, GapInv
<1>8. Trail'
  BY <1>1, QuietLog DEF Trail, ReadInv, GapInv
<1>9. HeldTrail'
  BY <1>1, <1>2, QuietLog DEF HeldTrail, Trail, ReadInv, GapInv
<1> QED
  BY <1>3, <1>4, <1>5, <1>6, <1>7, <1>8, <1>9 DEF FunnelInv, GapInv

\* A human's overrule is in the row alone.
LEMMA Overruled ==
  ASSUME ReadInv, NEW j \in Jobs, Overrule(j)
  PROVE  FunnelInv' /\ GapInv'
<1>1. /\ UNCHANGED <<lines, call, shared>> /\ row[j] = "held"
      /\ \A k \in Jobs : row'[k] # row[k] => k = j /\ row'[k] = "closed"
  BY DEF Overrule, vars, ReadInv, DashTypeOK, CallsOK
<1>2. FunnelInv'
  BY <1>1, QuietLog DEF FunnelInv, Backed, HeldBacked, ReadInv
<1>3. CallFits'
  BY <1>1 DEF CallFits, ReadInv, GapInv, DashTypeOK, CallsOK
<1> QED
  BY <1>1, <1>2, <1>3, QuietLog DEF OneCall, Trail, HeldTrail, ReadInv, GapInv

\* Nothing that the dashboard is read from has moved.
LEMMA QuietCall ==
  ASSUME ReadInv, UNCHANGED <<lines, row, call, shared>>
  PROVE  FunnelInv' /\ GapInv'
  BY QuietLog DEF FunnelInv, Backed, HeldBacked, OneCall, CallFits, Trail, HeldTrail,
                  ReadInv, GapInv

\* What a call has to say is of its job, its run and its gate; and where it goes.
LEMMA DueSays ==
  ASSUME DashTypeOK, NEW w \in Writers, pc[w] \in {"read", "write"}, NEW e \in Due(w)
  PROVE  /\ e.job = call[w].job /\ e.ts = call[w].ts /\ e.gate = call[w].at
         /\ call[w] # NoCall /\ call[w].at \in Gates /\ call[w].job \in Jobs
         /\ \A g \in Gates \ {"LINT_GATE"} :
               Then(call[w], e.status) = Following[g] => g = call[w].at
         /\ Then(call[w], e.status) = "held" => call[w].relint \/ Holds(e)
         /\ call[w].relint /\ call[w].at = "LINT_GATE" =>
               Then(call[w], e.status) \in {"held", "closed"}
<1>1. call[w] \in Calls /\ call[w].at \in Gates /\ call[w] # NoCall
  BY DEF DashTypeOK, CallsOK, NoCall, Gates
<1>2. call[w].job \in Jobs
  BY <1>1 DEF DashTypeOK, CallsOK
<1>3. PICK s \in {"pass", "stop", "hold"} :
        /\ e = [job |-> call[w].job, ts |-> call[w].ts, gate |-> call[w].at, status |-> s]
        /\ call[w].relint => s # "hold"
  BY <1>1 DEF Due, Statuses, Gates
<1>4. CASE s = "pass"
  BY <1>1, <1>2, <1>3, <1>4 DEF Then, Following, Gates
<1>5. CASE s = "stop"
  BY <1>1, <1>2, <1>3, <1>5 DEF Then, Following, Gates, Calls
<1>6. CASE s = "hold"
  BY <1>1, <1>2, <1>3, <1>6 DEF Then, Following, Gates, Calls, Holds, Passed
<1> QED
  BY <1>3, <1>4, <1>5, <1>6

\* What a write leaves in the file: the lines of before, and either one that no
\* append goes on behind, or the event.
LEMMA PutSays ==
  ASSUME AuditInv, NEW w \in Writers, pc[w] = "write",
         NEW line \in Records \cup {Torn}, Put(line)
  PROVE  /\ ~Dead
         /\ \A i \in 1..(Len(lines') - 1) : i \in 1..Len(lines) /\ lines'[i] = lines[i]
         /\ Len(lines) \in Nat /\ Len(lines') \in Nat
         /\ Dead' \/ /\ line # Torn /\ lines'[Len(lines')] = line
                     /\ Len(lines') = Len(lines) + 1
<1>1. lines \in Seq(Records \cup {Torn}) /\ Len(lines) \in Nat /\ LogOK
  BY DEF AuditInv, LogOK, AuditTypeOK
<1>2. \A i \in 1..Len(lines) : lines[i] # Torn
  BY DEF AuditInv, Knowing, StandsFor
<1>3. ~Dead
  BY <1>1, <1>2, EmptySeq, LenProperties DEF Dead
<1> QED
  BY <1>1, <1>3, PutLines DEF Dead

\* A line that is lost closes the log, and says nothing wrong.
LEMMA LogDies ==
  ASSUME ReadInv, Dead', UNCHANGED <<row, shared>>, Len(lines') \in Nat,
         \A i \in 1..(Len(lines') - 1) : i \in 1..Len(lines) /\ lines'[i] = lines[i],
         \A v \in Writers : call'[v] # NoCall =>
            /\ call[v] # NoCall /\ call'[v].job = call[v].job
            /\ call'[v].relint = call[v].relint
            /\ call'[v].relint /\ call[v].job \notin shared =>
                 call'[v].at \in {"LINT_GATE", "held", "closed"}
  PROVE  FunnelInv' /\ GapInv'
<1>1. lines'[Len(lines')] = Torn
  BY DEF Dead
<1>2. Ordered'
  BY <1>1 DEF ReadInv, FunnelInv, Ordered, Heard, IsOf
<1>3. Aligned'
  <2>1. ASSUME NEW i \in 1..(Len(lines') - 1), NEW j
        PROVE  IsOf(i, j)' = IsOf(i, j)
    BY <2>1 DEF IsOf
  <2>2. ASSUME NEW k \in 1..Len(lines'), lines'[k] # Torn
        PROVE  k \in 1..(Len(lines') - 1)
    BY <1>1, <2>2
  <2>3. ASSUME NEW j \in Jobs \ shared, NEW k \in 1..Len(lines'), NEW i \in 1..(k - 1),
               IsOf(i, j)', IsOf(k, j)', \A m \in (i + 1)..(k - 1) : ~IsOf(m, j)',
               GateOrder[lines'[k].event.gate] > GateOrder[lines'[i].event.gate],
               lines'[i].event.ts # lines'[k].event.ts
        PROVE  Holds(lines'[i].event)
    <3>1. k \in 1..(Len(lines') - 1) /\ i \in 1..(Len(lines') - 1)
      <4>1. lines'[k] # Torn
        BY <2>3 DEF IsOf
      <4>2. k \in 1..(Len(lines') - 1)
        BY <2>2, <4>1
      <4> QED
        BY <4>2
    <3>2. IsOf(i, j) /\ IsOf(k, j)
      BY <2>1, <2>3, <3>1
    <3>3. ASSUME NEW m \in (i + 1)..(k - 1)
          PROVE  ~IsOf(m, j)
      <4>1. m \in 1..(Len(lines') - 1)
        BY <3>1, <3>3
      <4> QED
        BY <2>1, <2>3, <3>3, <4>1
    <3>4. k \in 1..Len(lines)
      BY <3>1
    <3> QED
      BY <2>3, <3>1, <3>2, <3>3, <3>4 DEF ReadInv, GapInv, Aligned
  <2> QED
    BY <2>3 DEF Aligned, Holds, Passed
<1>4. OneCall' /\ CallFits'
  BY DEF OneCall, CallFits, ReadInv, GapInv
<1> QED
  BY <1>2, <1>3, <1>4 DEF FunnelInv, GapInv, Backed, HeldBacked, Trail, HeldTrail

\* An event that is written is heard, and is the last of its job; no other job hears
\* of it.
LEMMA EventIsHeard ==
  ASSUME Len(lines) \in Nat, Len(lines') = Len(lines) + 1,
         \A i \in 1..Len(lines) : lines'[i] = lines[i],
         NEW n, n = Len(lines'), lines'[n] # Torn,
         NEW e, e = lines'[n].event
  PROVE  /\ \A j, g : Heard(j, g, Len(lines)) => Heard(j, g, Len(lines))'
         /\ Heard(e.job, e.gate, Len(lines))'
         /\ \A j : HoldSaid(j) => HoldSaid(j)'
         /\ Holds(e) => HoldSaid(e.job)'
         /\ LastAt(e.job, e.ts)'
         /\ Settled(e) => LastSettled(e.job)'
         /\ \A j, ts : j # e.job /\ LastAt(j, ts) => LastAt(j, ts)'
         /\ \A j : j # e.job /\ LastSettled(j) => LastSettled(j)'
<1>1. \A j, g : Heard(j, g, Len(lines)) => Heard(j, g, Len(lines))'
  BY DEF Heard, IsOf
<1>2. Heard(e.job, e.gate, Len(lines))'
  <2>1. n \in 1..Len(lines') /\ IsOf(n, e.job)' /\ lines'[n].event.gate = e.gate
    BY DEF IsOf
  <2> QED
    BY <2>1 DEF Heard
<1>3. \A j : HoldSaid(j) => HoldSaid(j)'
  BY DEF HoldSaid, Holds, Passed, IsOf
<1>4. Holds(e) => HoldSaid(e.job)'
  <2>1. n \in 1..Len(lines') /\ IsOf(n, e.job)' /\ lines'[n].event = e
    BY DEF IsOf
  <2> QED
    BY <2>1 DEF HoldSaid, Holds, Passed
<1>5. IsLast(n, e.job)' /\ n \in 1..Len(lines') /\ lines'[n].event = e
  BY DEF IsLast, IsOf
<1>6. LastAt(e.job, e.ts)'
  BY <1>5 DEF LastAt
<1>7. Settled(e) => LastSettled(e.job)'
  BY <1>5 DEF LastSettled, Settled, Holds, Passed
<1>8. ASSUME NEW j, j # e.job, NEW i \in 1..Len(lines), IsLast(i, j)
      PROVE  IsLast(i, j)' /\ i \in 1..Len(lines') /\ lines'[i].event = lines[i].event
  BY <1>8 DEF IsLast, IsOf
<1>9. \A j, ts : j # e.job /\ LastAt(j, ts) => LastAt(j, ts)'
  BY <1>8 DEF LastAt
<1>10. \A j : j # e.job /\ LastSettled(j) => LastSettled(j)'
  BY <1>8 DEF LastSettled, Settled, Holds, Passed
<1> QED
  BY <1>1, <1>2, <1>3, <1>4, <1>6, <1>7, <1>9, <1>10
\* An event that is written was due: what it follows has been said, and the call
\* goes on, or ends, with what it said in the log.
LEMMA EventIsWritten ==
  ASSUME ReadInv, NEW w \in Writers, pc[w] = "write", NEW e \in Due(w), ~Dead,
         UNCHANGED <<row, shared>>,
         Len(lines) \in Nat, NEW n, n = Len(lines'), n = Len(lines) + 1,
         \A i \in 1..Len(lines) : lines'[i] = lines[i],
         lines'[n] # Torn, lines'[n].event = e,
         \A v \in Writers : v # w => call'[v] = call[v],
         call'[w] \in {NoCall, [call[w] EXCEPT !.at = Then(call[w], e.status)]}
  PROVE  FunnelInv' /\ GapInv'
<1> DEFINE c == call[w]
           at == Then(c, e.status)
<1>1. /\ e.job = c.job /\ e.ts = c.ts /\ e.gate = c.at
      /\ c # NoCall /\ c.at \in Gates /\ c.job \in Jobs
      /\ \A g \in Gates \ {"LINT_GATE"} : at = Following[g] => g = c.at
      /\ at = "held" => c.relint \/ Holds(e)
      /\ c.relint /\ c.at = "LINT_GATE" => at \in {"held", "closed"}
  BY DueSays DEF ReadInv
<1>2. call[w] \in Calls
  BY DEF ReadInv, DashTypeOK, CallsOK
<1>3. call'[w] # NoCall =>
        call'[w].at = at /\ call'[w].job = c.job /\ call'[w].ts = c.ts /\ call'[w].relint = c.relint
  BY <1>2 DEF Calls
<1>4. /\ \A j, g : Heard(j, g, Len(lines)) => Heard(j, g, Len(lines))'
      /\ Heard(e.job, e.gate, Len(lines))'
      /\ \A j : HoldSaid(j) => HoldSaid(j)'
      /\ Holds(e) => HoldSaid(e.job)'
      /\ LastAt(e.job, e.ts)'
      /\ Settled(e) => LastSettled(e.job)'
      /\ \A j, ts : j # e.job /\ LastAt(j, ts) => LastAt(j, ts)'
      /\ \A j : j # e.job /\ LastSettled(j) => LastSettled(j)'
  BY <1>1, EventIsHeard
<1>5. c.job \notin shared /\ c.relint => c.at = "LINT_GATE"
  BY <1>1 DEF ReadInv, GapInv, CallFits, Gates
<1>6. Ordered'
  <2>1. ASSUME NEW i \in 1..n, lines'[i] # Torn,
               NEW g \in Gates, lines'[i].event.gate = Following[g],
               NEW j, j = lines'[i].event.job
        PROVE  Heard(j, g, i - 1)
    <3>1. CASE i \in 1..Len(lines)
      BY <2>1, <3>1 DEF ReadInv, FunnelInv, Ordered
    <3>2. CASE i = n
      <4>1. g # "LINT_GATE"
        BY <1>1, <2>1, <3>2 DEF Following, Gates
      <4> QED
        BY <1>1, <2>1, <3>2, <4>1 DEF ReadInv, FunnelInv, Backed
    <3> QED
      BY <3>1, <3>2
  <2>2. ASSUME NEW i \in 1..n, NEW j, NEW g, Heard(j, g, i - 1)
        PROVE  Heard(j, g, i - 1)'
    BY <2>2 DEF Heard, IsOf
  <2> QED
    BY <2>1, <2>2 DEF Ordered
<1>7. Backed'
  <2>1. ASSUME NEW v \in Writers, v # w, call[v] # NoCall
        PROVE  /\ \A g \in Gates \ {"LINT_GATE"} :
                    call[v].at = Following[g] => Heard(call[v].job, g, Len(lines))'
               /\ call[v].relint \/ call[v].at = "held" => HoldSaid(call[v].job)'
    BY <1>4, <2>1 DEF ReadInv, FunnelInv, Backed
  <2>2. c.relint \/ at = "held" => HoldSaid(e.job)'
    BY <1>1, <1>4 DEF ReadInv, FunnelInv, Backed
  <2> QED
    BY <1>1, <1>3, <1>4, <2>1, <2>2 DEF Backed
<1>8. HeldBacked'
  BY <1>4 DEF HeldBacked, ReadInv, FunnelInv
<1>9. OneCall'
  BY <1>1, <1>3 DEF OneCall, ReadInv, GapInv
<1>10. CallFits'
  BY <1>1, <1>3, <1>5 DEF CallFits, ReadInv, GapInv
<1>11. c.job \notin shared /\ (c.relint \/ at = "held") => Settled(e)
  BY <1>1, <1>5 DEF Settled
<1>12. \A v \in Writers : call[v] # NoCall /\ call[v].job \notin shared /\ v # w =>
         call[v].job # c.job
  BY <1>1 DEF OneCall, ReadInv, GapInv
<1>13. Trail'
  <2>1. ASSUME NEW v \in Writers, v # w, call[v] # NoCall, call[v].job \notin shared,
               NEW j, j = call[v].job, NEW ts, ts = call[v].ts
        PROVE  /\ ~call[v].relint /\ call[v].at # "RISK_GATE" => LastAt(j, ts)'
               /\ call[v].relint \/ call[v].at = "held" => LastSettled(j)'
    <3>1. j # e.job
      BY <1>1, <1>12, <2>1
    <3>2. ~call[v].relint /\ call[v].at # "RISK_GATE" => LastAt(j, ts)
      BY <2>1 DEF ReadInv, GapInv, Trail
    <3>3. call[v].relint \/ call[v].at = "held" => LastSettled(j)
      BY <2>1 DEF ReadInv, GapInv, Trail
    <3> QED
      BY <1>4, <3>1, <3>2, <3>3
  <2> QED
    BY <1>1, <1>3, <1>4, <1>11, <2>1 DEF Trail
<1>14. HeldTrail'
  <2>1. ASSUME NEW j \in Jobs \ shared, row[j] = "held"
        PROVE  LastSettled(j)'
    <3>1. CASE j = e.job
      <4>1. c.relint
        BY <1>1, <2>1, <3>1 DEF ReadInv, GapInv, CallFits
      <4> QED
        BY <1>1, <1>4, <1>11, <2>1, <3>1, <4>1
    <3>2. CASE j # e.job
      <4>1. LastSettled(j)
        BY <2>1 DEF HeldTrail, ReadInv, GapInv
      <4> QED
        BY <1>4, <3>2, <4>1
    <3> QED
      BY <3>1, <3>2
  <2> QED
    BY <2>1 DEF HeldTrail
<1>15. Aligned'
  <2>1. ASSUME NEW i \in 1..Len(lines), NEW j
        PROVE  IsOf(i, j)' = IsOf(i, j)
    BY <2>1 DEF IsOf
  <2>2. ASSUME NEW j \in Jobs \ shared, NEW k \in 1..n, NEW i \in 1..(k - 1),
               IsOf(i, j)', IsOf(k, j)', \A m \in (i + 1)..(k - 1) : ~IsOf(m, j)',
               GateOrder[lines'[k].event.gate] > GateOrder[lines'[i].event.gate],
               lines'[i].event.ts # lines'[k].event.ts
        PROVE  Holds(lines'[i].event)
    <3>1. i \in 1..Len(lines) /\ IsOf(i, j) /\ lines'[i] = lines[i]
      BY <2>1, <2>2
    <3>2. ASSUME NEW m \in (i + 1)..(k - 1)
          PROVE  ~IsOf(m, j)
      <4>1. m \in 1..Len(lines)
        BY <3>1, <3>2
      <4> QED
        BY <2>1, <2>2, <3>2, <4>1
    <3>3. CASE k \in 1..Len(lines)
      BY <2>1, <2>2, <3>1, <3>2, <3>3 DEF ReadInv, GapInv, Aligned
    <3>4. CASE k = n
      <4>1. j = c.job /\ lines'[k].event = e
        BY <1>1, <2>2, <3>4 DEF IsOf
      <4>2. IsLast(i, j)
        BY <3>1, <3>2, <3>4 DEF IsLast
      <4>3. \A l \in 1..Len(lines) : IsLast(l, j) => l = i
        BY <4>2 DEF IsLast
      <4>4. lines[i] \in Records
        BY <3>1 DEF IsOf, ReadInv, AuditInv, LogOK, AuditTypeOK
      <4>5. lines[i].event.gate \in Gates
        BY <4>4, DashboardAssumption DEF Records, GateEvents
      <4>6. c.at # "RISK_GATE"
        BY <1>1, <2>2, <3>1, <4>1, <4>5 DEF GateOrder, Gates
      <4>7. ~c.relint => FALSE
        <5>1. ~c.relint => LastAt(j, c.ts)
          BY <1>1, <2>2, <4>1, <4>6 DEF ReadInv, GapInv, Trail
        <5> QED
          BY <1>1, <2>2, <3>1, <4>1, <4>3, <5>1 DEF LastAt
      <4>8. Settled(lines[i].event)
        <5>1. LastSettled(j)
          BY <1>1, <2>2, <4>1, <4>7 DEF ReadInv, GapInv, Trail
        <5> QED
          BY <4>3, <5>1 DEF LastSettled
      <4>9. lines[i].event.gate # "LINT_GATE"
        BY <1>1, <2>2, <3>1, <4>1 DEF GateOrder, Gates
      <4> QED
        BY <3>1, <4>8, <4>9 DEF Settled
    <3> QED
      BY <3>3, <3>4
  <2> QED
    BY <2>2 DEF Aligned, Holds, Passed
<1> QED
  BY <1>6, <1>7, <1>8, <1>9, <1>10, <1>13, <1>14, <1>15 DEF FunnelInv, GapInv

\* A gate says what it found, or its write stops short.
LEMMA EventStep ==
  ASSUME ReadInv, NEW w \in Writers, NEW e \in Due(w), Write(w, e) \/ WriteShort(w, e),
         UNCHANGED <<row, shared>>, ~ UNCHANGED lines,
         \A v \in Writers : v # w => call'[v] = call[v],
         call'[w] \in {NoCall, [call[w] EXCEPT !.at = Then(call[w], e.status)]}
  PROVE  FunnelInv' /\ GapInv'
<1> DEFINE rec == Made(w, e)
<1>1. pc[w] = "write"
  BY DEF Write, WriteShort
<1>2. PICK line \in {rec, Torn} : Put(line)
  BY DEF Write, WriteShort
<1>3. rec \in Records /\ rec # Torn /\ rec.event = e
  <2>1. e \in Events
    BY <1>1, DueIsEvent DEF ReadInv
  <2> QED
    BY <2>1, RecordIsMade DEF ReadInv, AuditInv, LogOK, Made
<1> HIDE DEF rec
<1>4. /\ ~Dead
      /\ \A i \in 1..(Len(lines') - 1) : i \in 1..Len(lines) /\ lines'[i] = lines[i]
      /\ Len(lines) \in Nat /\ Len(lines') \in Nat
      /\ Dead' \/ /\ line # Torn /\ lines'[Len(lines')] = line
                  /\ Len(lines') = Len(lines) + 1
  BY <1>1, <1>2, <1>3, PutSays DEF ReadInv
<1>5. CASE Dead'
  <2>1. /\ call[w] \in Calls /\ call[w] # NoCall /\ call[w].at \in Gates
        /\ call[w].relint /\ call[w].at = "LINT_GATE" =>
             Then(call[w], e.status) \in {"held", "closed"}
    BY <1>1, DueSays DEF ReadInv, DashTypeOK, CallsOK
  <2>2. call[w].job \notin shared /\ call[w].relint => call[w].at = "LINT_GATE"
    BY <2>1 DEF ReadInv, GapInv, CallFits, Gates
  <2>3. \A v \in Writers : call'[v] # NoCall =>
          /\ call[v] # NoCall /\ call'[v].job = call[v].job
          /\ call'[v].relint = call[v].relint
          /\ v = w => call'[v].at = Then(call[w], e.status)
          /\ v # w => call'[v].at = call[v].at
    BY <2>1 DEF Calls
  <2> QED
    BY <1>4, <1>5, <2>1, <2>2, <2>3, LogDies DEF ReadInv, GapInv, CallFits
<1>6. CASE ~Dead'
  BY <1>1, <1>2, <1>3, <1>4, <1>6, EventIsWritten
<1> QED
  BY <1>5, <1>6

\* Every step keeps what the dashboard is read from.
LEMMA ReadStep ==
  ASSUME ReadInv, [DashNext]_dashVars, ~late'
  PROVE  ReadInv'
<1>1. AuditInv' /\ DashTypeOK'
  BY DashStep DEF ReadInv, AuditInv, LogInv
<1>2. ASSUME UNCHANGED dashVars
      PROVE  FunnelInv' /\ GapInv'
  BY <1>2, QuietCall DEF dashVars, vars, callVars
<1>3. ASSUME NEW j \in Jobs, Overrule(j)
      PROVE  FunnelInv' /\ GapInv'
  BY <1>3, Overruled
<1>4. ASSUME NEW w \in Writers, Process(w) \/ Relint(w)
      PROVE  FunnelInv' /\ GapInv'
  BY <1>4, CallEnters
<1>5. ASSUME NEW w \in Writers, Appends(w)
      PROVE  FunnelInv' /\ GapInv'
  BY <1>5, QuietCall DEF Appends, Lock, ReadTail, Unlock, Close, callVars
<1>6. ASSUME NEW w \in Writers, Say(w)
      PROVE  FunnelInv' /\ GapInv'
  <2>1. PICK e \in Due(w) :
          Write(w, e) /\ call' = [call EXCEPT ![w].at = Then(call[w], e.status)]
    BY <1>6 DEF Say
  <2>2. UNCHANGED <<row, shared>> /\ call \in [Writers -> Calls]
    BY <1>6 DEF Say, ReadInv, DashTypeOK, CallsOK
  <2>3. /\ call'[w] = [call[w] EXCEPT !.at = Then(call[w], e.status)]
        /\ \A v \in Writers : v # w => call'[v] = call[v]
    BY <2>1, <2>2
  <2>4. ~ UNCHANGED lines
    <3>1. Put(Made(w, e)) /\ pc[w] = "write" /\ Made(w, e) \in Records /\ Made(w, e) # Torn
      BY <2>1, DueIsEvent, RecordIsMade DEF Write, ReadInv, AuditInv, LogOK
    <3> QED
      BY <3>1, PutSays DEF ReadInv, Dead
  <2> QED
    BY <2>1, <2>2, <2>3, <2>4, EventStep
<1>7. ASSUME NEW w \in Writers, SayFails(w)
      PROVE  FunnelInv' /\ GapInv'
  <2>1. Ends(w) /\ UNCHANGED <<row, shared>>
    BY <1>7 DEF SayFails
  <2>2. CASE ReadTail(w)
    BY <2>1, <2>2, CallEnds DEF ReadTail
  <2>3. ASSUME NEW e \in Due(w), WriteShort(w, e)
        PROVE  FunnelInv' /\ GapInv'
    <3>1. call'[w] = NoCall /\ \A v \in Writers : v # w => call'[v] = call[v]
      BY <2>1 DEF Ends, ReadInv, DashTypeOK, CallsOK
    <3>2. CASE UNCHANGED lines
      BY <2>1, <3>2, CallEnds
    <3> QED
      BY <2>1, <2>3, <3>1, <3>2, EventStep
  <2> QED
    BY <1>7, <2>2, <2>3 DEF SayFails
<1>8. ASSUME NEW w \in Writers, Persist(w)
      PROVE  FunnelInv' /\ GapInv'
  BY <1>8, CallPersists
<1>9. ASSUME NEW w \in Writers, Stops(w) \/ Dies(w)
      PROVE  FunnelInv' /\ GapInv'
  BY <1>9, CallEnds DEF Stops, Dies, Die, vars
<1> QED
  BY <1>1, <1>2, <1>3, <1>4, <1>5, <1>6, <1>7, <1>8, <1>9 DEF DashNext, ReadInv

\* And so does every step, until a close writes late.
LEMMA DashInvStep == DashInv /\ [DashNext]_dashVars => DashInv'
<1> SUFFICES ASSUME DashInv, [DashNext]_dashVars PROVE DashInv'
  OBVIOUS
<1>1. [Next]_vars /\ LogInv' /\ DashTypeOK'
  BY DashStep DEF DashInv
<1>2. ~late' => ~late
  BY <1>1 DEF Next, Lock, ReadTail, Write, WriteShort, Unlock, Close, Die, vars,
              DashInv, LogInv, LogOK, AuditTypeOK
<1> QED
  BY <1>1, <1>2, ReadStep DEF DashInv

\* An empty log, and nobody in a call.
LEMMA ReadInit == DashInit => DashInv
<1> SUFFICES ASSUME DashInit PROVE DashInv
  OBVIOUS
<1>1. AuditInv /\ LogInv /\ DashTypeOK
  BY DashInitOK
<1>2. Len(lines) = 0 /\ \A w \in Writers : call[w] = NoCall
  BY DEF DashInit, Init
<1>3. \A j \in Jobs : row[j] # "held"
  BY DEF DashInit
<1>4. FunnelInv
  BY <1>2, <1>3 DEF FunnelInv, Ordered, Backed, HeldBacked
<1>5. GapInv
  BY <1>2, <1>3 DEF GapInv, OneCall, CallFits, Trail, HeldTrail, Aligned
<1> QED
  BY <1>1, <1>4, <1>5 DEF ReadInv, DashInv

\* Whatever dies, runs again at once or is resolved: the dashboard counts no job at a
\* gate that it does not count at every gate before, and it knows of every hold; until
\* a close writes what a failed write has left.
THEOREM DashboardCountsTrue == DashSpec => []FunnelIsTrue
<1>1. ASSUME DashInv, ~late
      PROVE  FunnelIsTrue
  <2>1. ASSUME NEW g \in Gates \ {"LINT_GATE"}, NEW j \in Reached(Following[g])
        PROVE  j \in Reached(g)
    <3>1. PICK i \in 1..Len(lines) : lines[i] # Torn /\ lines[i].event.job = j
                                     /\ lines[i].event.gate = Following[g]
      BY <2>1 DEF Reached, Read
    <3>2. Heard(j, g, i - 1)
      BY <1>1, <2>1, <3>1 DEF DashInv, ReadInv, FunnelInv, Ordered
    <3> QED
      BY <3>1, <3>2 DEF Heard, IsOf, Reached, Read
  <2>2. ASSUME tears = 0, NEW j \in Jobs, row[j] = "held"
        PROVE  j \in Intercepted("GROUNDING_GATE")
    <3>1. lines \in Seq(Records \cup {Torn}) /\ \A i \in 1..Len(lines) : lines[i] # Torn
      BY <1>1, <2>2 DEF DashInv, ReadInv, AuditInv, LogOK, AuditTypeOK, Logged
    <3>2. ~Dead
      BY <3>1, EmptySeq, LenProperties DEF Dead
    <3>3. HoldSaid(j)
      BY <1>1, <2>2, <3>2 DEF DashInv, ReadInv, FunnelInv, HeldBacked
    <3> QED
      BY <3>3 DEF HoldSaid, Holds, IsOf, Intercepted, Read
  <2> QED
    BY <2>1, <2>2 DEF FunnelIsTrue
<1>2. ASSUME DashInv, late
      PROVE  FunnelIsTrue
  BY <1>2 DEF DashInv, LogInv, LogOK, OfATear, FunnelIsTrue
<1>3. DashInv => FunnelIsTrue
  BY <1>1, <1>2
<1> QED
  BY <1>3, ReadInit, DashInvStep, PTL DEF DashSpec

\* The pairs that aggregate_audit makes of a job's events, sorted by their seq, are
\* neighbours in the file.
LEMMA NeighboursAreAdjacent ==
  ASSUME ReadInv, NEW j \in Jobs, NEW g \in Neighbours(j)
  PROVE  \E k \in 1..Len(lines) : \E i \in 1..(k - 1) :
            /\ IsOf(i, j) /\ IsOf(k, j) /\ g[1] = lines[i].event /\ g[2] = lines[k].event
            /\ \A m \in (i + 1)..(k - 1) : ~IsOf(m, j)
<1> DEFINE own == {r \in Read : r.event.job = j}
<1>1. PICK q \in own \X own :
        /\ q[1].seq < q[2].seq /\ g = <<q[1].event, q[2].event>>
        /\ ~ \E r \in own : q[1].seq < r.seq /\ r.seq < q[2].seq
  BY DEF Neighbours
<1>2. \A i \in 1..Len(lines) : lines[i] # Torn => lines[i].seq = i - 1
  BY DEF ReadInv, AuditInv, Chained
<1>3. PICK i \in 1..Len(lines) : lines[i] # Torn /\ q[1] = lines[i] /\ lines[i].event.job = j
  BY <1>1 DEF Read
<1>4. PICK k \in 1..Len(lines) : lines[k] # Torn /\ q[2] = lines[k] /\ lines[k].event.job = j
  BY <1>1 DEF Read
<1>5. Len(lines) \in Nat /\ i < k
  BY <1>1, <1>2, <1>3, <1>4, LenProperties DEF ReadInv, AuditInv, LogOK, AuditTypeOK
<1>6. ASSUME NEW m \in (i + 1)..(k - 1), IsOf(m, j)
      PROVE  FALSE
  <2>1. m \in 1..Len(lines) /\ lines[m] \in own
    BY <1>5, <1>6 DEF IsOf, Read
  <2>2. lines[m].seq = m - 1 /\ lines[i].seq = i - 1 /\ lines[k].seq = k - 1
    BY <1>2, <1>3, <1>4, <1>6, <2>1 DEF IsOf
  <2> QED
    BY <1>1, <1>3, <1>4, <1>5, <1>6, <2>1, <2>2
<1>7. /\ i \in 1..(k - 1) /\ IsOf(i, j) /\ IsOf(k, j)
      /\ g[1] = lines[i].event /\ g[2] = lines[k].event
  BY <1>1, <1>3, <1>4, <1>5 DEF IsOf
<1> QED
  BY <1>6, <1>7

\* No gap the dashboard shows is the wait between two runs: what takes time within a
\* job is the wait for a resolve; until a close writes what a failed write has left.
THEOREM GapsStayInOneRun == DashSpec => []GapsAreOfOneRun
<1>1. ASSUME DashInv
      PROVE  GapsAreOfOneRun
  <2> SUFFICES ASSUME ReadInv PROVE GapsAreOfOneRun
    BY <1>1 DEF DashInv, GapsAreOfOneRun
  <2>1. ASSUME NEW j \in Jobs \ shared, NEW g \in Gaps(j), g[1].ts # g[2].ts
        PROVE  g[1].gate = "GROUNDING_GATE" /\ ~Passed(g[1])
    <3>1. g \in Neighbours(j) /\ GateOrder[g[2].gate] > GateOrder[g[1].gate]
      BY <2>1 DEF Gaps
    <3>2. PICK k \in 1..Len(lines) : \E i \in 1..(k - 1) :
            /\ IsOf(i, j) /\ IsOf(k, j) /\ g[1] = lines[i].event /\ g[2] = lines[k].event
            /\ \A m \in (i + 1)..(k - 1) : ~IsOf(m, j)
      BY <2>1, <3>1, NeighboursAreAdjacent
    <3> QED
      BY <2>1, <3>1, <3>2 DEF ReadInv, GapInv, Aligned, Holds
  <2> QED
    BY <2>1 DEF GapsAreOfOneRun
<1> QED
  BY <1>1, ReadInit, DashInvStep, PTL DEF DashSpec
=============================================================================
