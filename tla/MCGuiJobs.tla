----------------------------- MODULE MCGuiJobs -----------------------------
(***************************************************************************)
(* Three handlers of the server on one job: two start background tasks,    *)
(* the third runs its pass itself.                                         *)
(***************************************************************************)
EXTENDS GuiJobs, TLC

CONSTANTS a1, a2, s1
=============================================================================
