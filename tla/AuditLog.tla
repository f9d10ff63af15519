------------------------------ MODULE AuditLog ------------------------------
(***************************************************************************)
(* audit.jsonl: the hash-chained log that every thread and every process   *)
(* of the program appends to (storage/audit_log.py). An append takes the   *)
(* lock of the file, reads the last line, writes one line and lets go; a   *)
(* writer that dies lets go as well. Dashboard says who appends what.      *)
(*                                                                         *)
(* A line is the record it holds, or Torn when it does not decode. A write *)
(* may stop short - the disk is full, the machine stops - before any of    *)
(* the record is there, before it is whole, or just before its newline.    *)
(* What is left stays in the buffer, and closing the file tries it once    *)
(* more, when the lock is gone.                                            *)
(***************************************************************************)
EXTENDS Naturals, Sequences

CONSTANTS
    Writers,     \* the threads that append, of whatever process
    Events,      \* what they have to say
    Torn,        \* a line that does not decode
    Nobody,
    MaxLines,    \* bound: no append starts once the log is that long
    MaxTears     \* bound: how many writes may stop short

\* A record: its place, the hash it links to, its event. Hashes of different
\* things are different, so that a hash stands for all that goes into it: the
\* hash before it and the record.
Records == [seq : Nat, prev : Seq(Events), event : Events]
HashOf(r) == Append(r.prev, r.event)

\* What was to be written, and what of it is there: nothing, a part of a line of its own
\* or one behind a line with no newline, or all but the newline.
Rests == [record : Records, there : {"nothing", "part", "run-on", "all"}]

ASSUME AuditAssumption ==
    /\ Nobody \notin Writers
    /\ Torn \notin Records
    /\ MaxLines \in Nat
    /\ MaxTears \in Nat

VARIABLES
    lines,    \* the lines of the file
    ended,    \* the last line has its newline
    holder,   \* who holds the lock
    pc,       \* where in append each writer is
    tail,     \* what each writer has made of the last line
    left,     \* what each writer's buffer still holds, if its write stopped short
    said,     \* history: the events written in full, in that order
    late,     \* history: a close has written what was left
    tears

vars == <<lines, ended, holder, pc, tail, left, said, late, tears>>

\* Mutant: off by one.
GenesisBefore == [seq |-> 0 - 1, prev |-> <<>>]

\* _tail: the place of the next record, and the hash it links to.
Genesis == [seq |-> 0, prev |-> <<>>]
NextOf(r) == [seq |-> r.seq + 1, prev |-> HashOf(r)]

AuditTypeOK ==
    /\ lines \in Seq(Records \cup {Torn})
    /\ ended \in BOOLEAN
    /\ holder \in Writers \cup {Nobody}
    /\ pc \in [Writers -> {"idle", "read", "write", "unlock", "close"}]
    /\ tail \in [Writers -> [seq : Nat, prev : Seq(Events)]]
    /\ left \in [Writers -> Rests \cup {Nobody}]
    /\ \A w \in Writers : pc[w] = "close" => left[w] # Nobody
    /\ late \in BOOLEAN
    /\ said \in Seq(Events)
    /\ tears \in Nat

Goto(w, label) == pc' = [pc EXCEPT ![w] = label]

\* Mutant: the lock is not waited for.
LockNothing(w) ==
    /\ pc[w] = "idle"
    /\ Len(lines) < MaxLines
    /\ holder' = w
    /\ Goto(w, "read")
    /\ UNCHANGED <<lines, ended, tail, left, said, late, tears>>

\* flock(LOCK_EX) on the file that will be written.
Lock(w) ==
    /\ pc[w] = "idle"
    /\ Len(lines) < MaxLines
    /\ holder = Nobody
    /\ holder' = w
    /\ Goto(w, "read")
    /\ UNCHANGED <<lines, ended, tail, left, said, late, tears>>

\* The tail is read under the lock. When it does not decode the append fails,
\* for good: nothing else writes the file.
ReadTail(w) ==
    /\ pc[w] = "read"
    /\ IF lines # <<>> /\ lines[Len(lines)] = Torn
       THEN /\ Goto(w, "unlock")
            /\ tail' = [tail EXCEPT ![w] = Genesis]
       ELSE /\ Goto(w, "write")
            /\ tail' = [tail EXCEPT ![w] =
                   IF lines = <<>> THEN Genesis ELSE NextOf(lines[Len(lines)])]
    /\ UNCHANGED <<lines, ended, holder, left, said, late, tears>>

\* The line goes to the end of the file: behind a line that has no newline it
\* makes one line with it, which decodes as neither.
Put(line) ==
    lines' = IF ended THEN Append(lines, line) ELSE [lines EXCEPT ![Len(lines)] = Torn]

\* The record a writer makes of an event.
Made(w, e) == [seq |-> tail[w].seq, prev |-> tail[w].prev, event |-> e]

Write(w, e) ==
    /\ pc[w] = "write"
    /\ Put(Made(w, e))
    /\ said' = Append(said, e)
    /\ ended' = TRUE
    /\ Goto(w, "unlock")
    /\ UNCHANGED <<holder, tail, left, late, tears>>

\* The write stops short, and the append fails.
WriteShort(w, e) ==
    /\ pc[w] = "write"
    /\ tears < MaxTears
    /\ tears' = tears + 1
    /\ \E there \in {"nothing", IF ended THEN "part" ELSE "run-on", "all"} :
          /\ left' = [left EXCEPT ![w] = [record |-> Made(w, e), there |-> there]]
          /\ \/ there = "nothing" /\ UNCHANGED <<lines, ended>>
             \/ there = "all" /\ Put(Made(w, e)) /\ ended' = FALSE
             \/ there \in {"part", "run-on"} /\ Put(Torn) /\ ended' = FALSE
    /\ Goto(w, "unlock")
    /\ UNCHANGED <<holder, tail, said, late>>

\* The lock is dropped before the file is closed.
Unlock(w) ==
    /\ pc[w] = "unlock"
    /\ holder' = Nobody
    /\ Goto(w, IF left[w] = Nobody THEN "idle" ELSE "close")
    /\ UNCHANGED <<lines, ended, tail, left, said, late, tears>>

\* What is left goes to the end of the file: a line as any line does; the rest of a line
\* makes it whole if it is the last still, and had no other before it.
PutRest(l) ==
    \/ l.there = "nothing" /\ Put(l.record)
    \/ l.there = "all" /\ UNCHANGED lines
    \/ /\ l.there \in {"part", "run-on"}
       /\ lines' = IF ended THEN Append(lines, Torn)
                   ELSE [lines EXCEPT ![Len(lines)] = IF l.there = "part" THEN l.record ELSE Torn]

\* close writes it, or fails like the write, or nobody is left to close the file.
Close(w) ==
    /\ pc[w] = "close"
    /\ \/ UNCHANGED <<lines, ended, late>>
       \/ PutRest(left[w]) /\ ended' = TRUE /\ late' = TRUE
    /\ left' = [left EXCEPT ![w] = Nobody]
    /\ Goto(w, "idle")
    /\ UNCHANGED <<holder, tail, said, tears>>

\* A writer that dies before it has written: the system drops its lock.
Die(w) ==
    /\ pc[w] \in {"read", "write"}
    /\ holder' = Nobody
    /\ Goto(w, "idle")
    /\ UNCHANGED <<lines, ended, tail, left, said, late, tears>>

Init ==
    /\ lines = <<>>
    /\ ended = TRUE
    /\ holder = Nobody
    /\ pc = [w \in Writers |-> "idle"]
    /\ tail = [w \in Writers |-> Genesis]
    /\ left = [w \in Writers |-> Nobody]
    /\ said = <<>>
    /\ late = FALSE
    /\ tears = 0

Next == \E w \in Writers :
    \/ Lock(w) \/ ReadTail(w) \/ Unlock(w) \/ Close(w) \/ Die(w)
    \/ \E e \in Events : Write(w, e) \/ WriteShort(w, e)

Spec == Init /\ [][Next]_vars

-----------------------------------------------------------------------------
(***************************************************************************)
(* Properties                                                              *)
(***************************************************************************)

\* The records that decode are one chain, as verify_chain recomputes it: no two
\* appends, of threads or of processes, have read the same tail, none has gone on
\* behind a line that was lost, and nothing follows a line that does not decode;
\* until the close of a file whose write had failed writes what was left of it, behind
\* the lock. As long as no write stops short, what an append has returned from is
\* there, in the order of the returns.
ChainVerifies ==
    /\ ~late =>
          /\ \A i \in 1..Len(lines) : lines[i] # Torn =>
                /\ lines[i].seq = i - 1
                /\ lines[i].prev =
                     [j \in 1..(i - 1) |-> IF lines[j] = Torn THEN Torn ELSE lines[j].event]
          /\ \A i \in 1..Len(lines) : lines[i] = Torn => i = Len(lines)
    /\ tears = 0 =>
          /\ Len(lines) = Len(said)
          /\ \A i \in 1..Len(lines) : lines[i] # Torn /\ lines[i].event = said[i]

=============================================================================
