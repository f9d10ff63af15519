----------------------------- MODULE MCAuditLog -----------------------------
(***************************************************************************)
(* Two writers, two jobs, a short log, and writes that may stop short.     *)
(***************************************************************************)
EXTENDS Dashboard, TLC

CONSTANTS w1, w2, j1, j2

MCEvents == GateEvents
\* A tail is read again before the next write; of what is left the record is asked for
\* when none or a part of it is there; and what was said is compared with the lines as
\* long as no write stops short.
Resting(w) ==
    IF left[w] = Nobody \/ left[w].there \in {"nothing", "part"} THEN left[w]
    ELSE left[w].there
InUse ==
    <<lines, ended, holder, pc, [w \in Writers |-> IF pc[w] = "write" THEN tail[w] ELSE Genesis],
      Resting(w1), Resting(w2), IF tears = 0 THEN said ELSE <<>>, late, tears, callVars>>

\* Nothing is said of what follows a late write, but for the types.
InTime == ~late

Symmetries == Permutations({w1, w2}) \cup Permutations({j1, j2})
=============================================================================
