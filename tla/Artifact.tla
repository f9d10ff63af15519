------------------------------ MODULE Artifact ------------------------------
(***************************************************************************)
(* What the sign-off promises of one job, whoever runs and whatever dies:  *)
(* a job is open until something is frozen for review; what is then signed *)
(* is what was frozen, and what is recorded as published is what was       *)
(* signed. A closed job stays closed.                                      *)
(***************************************************************************)
CONSTANTS Texts,      \* what can be reviewed
          Nothing     \* no artifact

VARIABLES phase, artifact

Freeze ==
    /\ phase = "open"
    /\ phase' = "frozen"
    /\ artifact' \in Texts

Sign ==
    /\ phase = "frozen"
    /\ phase' = "signed"
    /\ UNCHANGED artifact

Publish ==
    /\ phase = "signed"
    /\ phase' = "recorded"
    /\ UNCHANGED artifact

Close ==
    /\ phase \in {"open", "frozen", "signed"}
    /\ phase' = "closed"
    /\ artifact' = Nothing

Init ==
    /\ phase = "open"
    /\ artifact = Nothing

Next == Freeze \/ Sign \/ Publish \/ Close

Spec == Init /\ [][Next]_<<phase, artifact>>
=============================================================================
