---------------------------- MODULE GuiJobsProofs ----------------------------
(***************************************************************************)
(* GuiJobs for any handlers: its types, and that the slot is taken exactly *)
(* while one call holds it, so that two passes never run.                  *)
(***************************************************************************)
EXTENDS GuiJobs, TLAPS

\* At first no call is under way.
LEMMA TypeAtFirst == Init => GuiTypeOK
<1>1. Init => slot \in BOOLEAN /\ timers \subseteq Calls
  BY DEF Init
<1>2. Init => status \in Status
  BY DEF Init, Status, NoStatus
<1> QED
  BY <1>1, <1>2 DEF Init, GuiTypeOK

\* The variables keep their types. The code: Api._run_bg, Api.job_status.
THEOREM GuiTypeCorrect == Spec => []GuiTypeOK
<1>1. Init => GuiTypeOK
  BY TypeAtFirst
<1>2. GuiTypeOK /\ [Next]_vars => GuiTypeOK'
  <2> SUFFICES ASSUME GuiTypeOK, [Next]_vars PROVE GuiTypeOK'
    OBVIOUS
  <2> USE DEF GuiTypeOK, Status, NoStatus, CallGoes, WorkerGoes, Free
  <2>1. ASSUME NEW c \in Calls, Take(c) \/ Refuse(c) \/ SyncTakes(c) PROVE GuiTypeOK'
    BY <2>1 DEF Take, Refuse, SyncTakes
  <2>2. ASSUME NEW c \in Calls, Handle(c) PROVE GuiTypeOK'
    BY <2>2 DEF Handle, Announce, Launch, Reply
  <2>3. ASSUME NEW c \in Calls, Work(c) PROVE GuiTypeOK'
    <3>1. CASE PassEnds(c)
      BY <3>1 DEF PassEnds
    <3>2. CASE Release(c)
      BY <3>2 DEF Release
    <3>3. CASE Publish(c)
      BY <3>3 DEF Publish
    <3>4. CASE SyncEnds(c)
      BY <3>4 DEF SyncEnds
    <3> QED
      BY <2>3, <3>1, <3>2, <3>3, <3>4 DEF Work
  <2>4. ASSUME NEW c \in Calls, Cleanup(c) PROVE GuiTypeOK'
    BY <2>4 DEF Cleanup
  <2>5. CASE UNCHANGED vars
    BY <2>5 DEF vars
  <2> QED
    BY <2>1, <2>2, <2>3, <2>4, <2>5 DEF Next
<1> QED
  BY <1>1, <1>2, PTL DEF Spec

-----------------------------------------------------------------------------
(***************************************************************************)
(* A call that holds the slot is in its handler or in its worker and never *)
(* in both: a worker is there only once the handler has launched it, and a *)
(* handler that has announced nothing yet has none.                        *)
(***************************************************************************)
OneThread ==
    \A c \in Calls :
        /\ call[c] \in {"announce", "launch"} => worker[c] = "none"
        /\ call[c] # "idle" => c \in Background

OnePassInv == GuiTypeOK /\ OneThread /\ OnePass

\* A handler takes the slot when it is free, and hands it to its worker or gives it back.
LEMMA HandlersKeepOnePass ==
    ASSUME OnePassInv, NEW c \in Calls,
           Take(c) \/ Refuse(c) \/ SyncTakes(c) \/ Handle(c) \/ Cleanup(c)
    PROVE  OneThread' /\ OnePass'
<1> USE DEF OnePassInv, GuiTypeOK, OneThread, OnePass, Holds, CallGoes, WorkerGoes, Free
<1>1. CASE Take(c)
  BY <1>1 DEF Take
<1>2. CASE Refuse(c)
  BY <1>2 DEF Refuse
<1>3. CASE SyncTakes(c)
  BY <1>3 DEF SyncTakes
<1>4. CASE Announce(c)
  BY <1>4 DEF Announce
<1>5. CASE Launch(c)
  BY <1>5 DEF Launch
<1>6. CASE Reply(c)
  BY <1>6 DEF Reply
<1>7. CASE Cleanup(c)
  BY <1>7 DEF Cleanup
<1> QED
  BY <1>1, <1>2, <1>3, <1>4, <1>5, <1>6, <1>7 DEF Handle

\* A worker gives it back once.
LEMMA WorkersKeepOnePass ==
    ASSUME OnePassInv, NEW c \in Calls, Work(c)
    PROVE  OneThread' /\ OnePass'
<1> USE DEF OnePassInv, GuiTypeOK, OneThread, OnePass, Holds, WorkerGoes
<1>1. CASE PassEnds(c)
  BY <1>1 DEF PassEnds
<1>2. CASE Release(c)
  BY <1>2 DEF Release
<1>3. CASE Publish(c)
  BY <1>3 DEF Publish
<1>4. CASE SyncEnds(c)
  <2>1. \A d \in Calls : ~Holds(d)'
    BY <1>4 DEF SyncEnds
  <2>2. slot' = FALSE
    BY <1>4 DEF SyncEnds
  <2>3. OneThread'
    BY <1>4 DEF SyncEnds
  <2> QED
    BY <2>1, <2>2, <2>3
<1> QED
  BY <1>1, <1>2, <1>3, <1>4 DEF Work

\* One pass at a time runs on a job within the server, and the slot is taken exactly
\* as long as a call holds it, however many handlers there are and whichever of them
\* are synchronous. The code: Api._run_bg, webserver._Handler._dispatch_guarded.
THEOREM OnePassOnly == Spec => []OnePass
<1>1. Init => OnePassInv
  <2>1. Init => GuiTypeOK
    BY TypeAtFirst
  <2>2. Init => OneThread /\ OnePass
    BY DEF Init, OneThread, OnePass, Holds
  <2> QED
    BY <2>1, <2>2 DEF OnePassInv
<1>2. GuiTypeOK' /\ OnePassInv /\ [Next]_vars => OnePassInv'
  <2> SUFFICES ASSUME GuiTypeOK', OnePassInv, [Next]_vars PROVE OneThread' /\ OnePass'
    BY DEF OnePassInv
  <2>1. CASE UNCHANGED vars
    BY <2>1 DEF vars, OnePassInv, OneThread, OnePass, Holds
  <2>2. CASE Next
    BY <2>2, HandlersKeepOnePass, WorkersKeepOnePass DEF Next
  <2> QED
    BY <2>1, <2>2
<1>3. OnePassInv => OnePass
  BY DEF OnePassInv
<1>4. Spec => []GuiTypeOK
  BY GuiTypeCorrect
<1> QED
  BY <1>1, <1>2, <1>3, <1>4, PTL DEF Spec
=============================================================================
