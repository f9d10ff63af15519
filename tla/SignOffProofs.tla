---------------------------- MODULE SignOffProofs ----------------------------
(***************************************************************************)
(* SignOff for any operators, drafts and covers, and any number of         *)
(* operations that die half-way: its types, that the files of a packet     *)
(* come before the state that speaks of them, and that the log reports the *)
(* decisions that were taken and no other.                                 *)
(***************************************************************************)
EXTENDS SignOff, TLAPS

(***************************************************************************)
(* Types. The frozen body is a draft because a packet is only built once   *)
(* the shell has loaded one.                                               *)
(***************************************************************************)
CopySteps == {"packet_open", "packet_copy", "packet_replace", "packet_unlink", "packet_hash"}

PacketSteps == {"packet_check"} \cup CopySteps
               \cup {"packet_message", "packet_freeze", "packet_commit", "packet_audit"}

Loaded == \A o \in Operators : op[o] \in PacketSteps => mem[o].draft # None

TypeInv == SignOffTypeOK /\ Loaded

\* An operation that has ended has forgotten everything.
LEMMA FreshIsMem == FreshMem \in Mem
  BY DEF FreshMem, Mem, Images, RestingStates, States, TransientStates

\* A parked job, with one operator there early or none.
LEMMA TypeAtFirst == Init => TypeInv
<1> SUFFICES ASSUME Init PROVE TypeInv
  OBVIOUS
<1>1. row \in Row
  <2>1. PICK s \in {<<"processed", NoReason>>, <<"needs_human_review", "grounding">>,
                    <<"needs_human_review", "classification">>, <<"needs_revision", NoReason>>,
                    <<"blocked", NoReason>>, <<"duplicate", NoReason>>,
                    <<"needs_human_review", "risk">>, <<"needs_human_review", "dedup">>} :
             row = [state |-> s[1], reason |-> s[2]]
    BY DEF Init, Parked, Outcomes
  <2> QED
    BY <2>1 DEF Row, RestingStates, States, TransientStates, Reasons, NoReason
<1>2. draft \in Drafts \cup {None} /\ cover \in Covers \cup {None}
  BY DEF Init, Parked
<1>3. NoReview
  BY DEF Init, SignOffInit, EarlyPacket
<1>4. op \in [Operators -> Steps] /\ mem \in [Operators -> Mem] /\ Loaded
  <2>1. CASE SignOffInit
    BY <2>1, FreshIsMem DEF SignOffInit, Steps, Loaded, PacketSteps, CopySteps
  <2>2. CASE EarlyPacket
    <3>1. PICK o \in Operators, d \in Drafts :
             /\ op = [p \in Operators |-> IF p = o THEN "packet_check" ELSE "idle"]
             /\ mem = [p \in Operators |-> IF p = o THEN [FreshMem EXCEPT !.draft = d]
                                           ELSE FreshMem]
      BY <2>2 DEF EarlyPacket
    <3>2. [FreshMem EXCEPT !.draft = d] \in Mem /\ [FreshMem EXCEPT !.draft = d].draft = d
      BY FreshIsMem DEF Mem
    <3> QED
      BY <3>1, <3>2, FreshIsMem, DraftAssumption DEF Steps, Loaded, PacketSteps, CopySteps
  <2> QED
    BY <2>1, <2>2 DEF Init
<1> QED
  BY <1>1, <1>2, <1>3, <1>4 DEF TypeInv, SignOffTypeOK, StoreTypeOK, NoReview, Images, Handle,
     NoHandle

\* The forms the last steps of every operation have: a refusal forgets the locals.
LEMMA RefuseKeepsTypes ==
    ASSUME TypeInv, NEW o \in Operators, NEW from, Refuse(o, from)
    PROVE  TypeInv'
  BY FreshIsMem DEF TypeInv, Loaded, PacketSteps, CopySteps, Refuse, Go, Finish, SignOffTypeOK,
     StoreTypeOK, storeVars, fileVars, coverVars, Steps

\* A commit moves the row, or is a refusal.
LEMMA CommitKeepsTypes ==
    ASSUME TypeInv, NEW o \in Operators, NEW from, NEW state \in States, NEW to \in Steps,
           from \in PacketSteps \/ to \notin PacketSteps, Commit(o, from, state, to)
    PROVE  TypeInv'
<1>1. CASE Refuse(o, from)
  BY <1>1, RefuseKeepsTypes
<1>2. CASE Go(o, from, to) /\ SetState(state)
           /\ UNCHANGED <<draft, cover, audit, fileVars, sent, mem, crashes>>
  BY <1>2 DEF TypeInv, Loaded, Go, SetState, SignOffTypeOK, StoreTypeOK, fileVars, coverVars,
     Row, RestingStates, NoReason
<1> QED
  BY <1>1, <1>2 DEF Commit

\* An event changes no file.
LEMMA RecordKeepsTypes ==
    ASSUME TypeInv, NEW o \in Operators, NEW from, NEW event, NEW said,
           Record(o, from, event, said)
    PROVE  TypeInv'
  BY FreshIsMem DEF TypeInv, Loaded, PacketSteps, CopySteps, Record, Go, Finish, SignOffTypeOK,
     StoreTypeOK, fileVars, coverVars, Steps

\* The commits and the events of every operation are of those forms.
Commits(o) ==
    \/ PacketCommit(o) \/ ApproveCommit(o) \/ RejectCommit(o) \/ ResolveCommit(o)
    \/ BackfillCommit(o) \/ SupersedeCommit(o)
Records(o) ==
    \/ PacketAudit(o) \/ ApproveAudit(o) \/ RejectAudit(o) \/ ResolveAudit(o)
    \/ BackfillAudit(o) \/ SupersedeAudit(o) \/ NotifySent(o) \/ NotifyFailed(o)

\* The commits and the events of every operation keep the types.
LEMMA LastStepsKeepTypes ==
    ASSUME TypeInv, NEW o \in Operators, Commits(o) \/ Records(o)
    PROVE  TypeInv'
<1>1. CASE PacketCommit(o) \/ ApproveCommit(o) \/ RejectCommit(o)
  BY <1>1, CommitKeepsTypes DEF PacketCommit, ApproveCommit, RejectCommit, States, Steps,
     PacketSteps, CopySteps
<1>2. CASE ResolveCommit(o) \/ BackfillCommit(o) \/ SupersedeCommit(o)
  BY <1>2, CommitKeepsTypes DEF ResolveCommit, BackfillCommit, SupersedeCommit, States, Steps,
     PacketSteps, CopySteps
<1>3. CASE Records(o)
  BY <1>3, RecordKeepsTypes DEF Records, PacketAudit, ApproveAudit, RejectAudit, ResolveAudit,
     BackfillAudit, SupersedeAudit, NotifySent, NotifyFailed
<1> QED
  BY <1>1, <1>2, <1>3 DEF Commits

\* The names an open file may have.
LEMMA RenameKeepsHandles ==
    ASSUME handle \in [Operators -> Handle], NEW to \in {"live", "gone"}, Rename(to)
    PROVE  handle' \in [Operators -> Handle]
<1>1. ASSUME NEW p \in Operators
      PROVE  [handle[p] EXCEPT !.file = IF @ = "tmp" THEN to ELSE IF @ = to THEN "gone" ELSE @]
               \in Handle
  BY DEF Handle
<1> QED
  BY <1>1 DEF Rename

\* A cover is copied, to whatever file it is.
LEMMA CopyKeepsTypes ==
    ASSUME TypeInv, NEW o \in Operators,
           PacketOpen(o) \/ PacketCopy(o) \/ PacketReplace(o) \/ PacketUnlink(o) \/ PacketHash(o)
    PROVE  TypeInv'
<1> USE DEF TypeInv, Loaded, PacketSteps, CopySteps, SignOffTypeOK, StoreTypeOK, storeVars,
            fileVars, coverVars, Go
<1>1. CASE PacketOpen(o)
  <2>1. CASE cover = None
    BY <1>1, <2>1 DEF PacketOpen, Steps, Mem, Images
  <2>2. CASE cover # None
    <3>1. ASSUME NEW p \in Operators
          PROVE  [handle[p] EXCEPT !.cut = TRUE] \in Handle
      <4>1. handle[p] \in Handle
        OBVIOUS
      <4> QED
        BY <4>1 DEF Handle
    <3>2. [file |-> "tmp", cut |-> FALSE] \in Handle
      BY DEF Handle
    <3>3. handle' \in [Operators -> Handle]
      BY <1>1, <2>2, <3>1, <3>2 DEF PacketOpen
    <3>4. op' \in [Operators -> Steps] /\ Loaded'
      BY <1>1, <2>2 DEF PacketOpen, Steps
    <3>5. tmpCover' \in Images /\ shared' \in BOOLEAN
      BY <1>1, <2>2 DEF PacketOpen, Images
    <3> QED
      BY <1>1, <2>2, <3>3, <3>4, <3>5 DEF PacketOpen
  <2> QED
    BY <2>1, <2>2
<1>2. CASE PacketCopy(o)
  <2>1. handle' \in [Operators -> Handle]
    BY <1>2 DEF PacketCopy, Handle, NoHandle
  <2>2. tmpCover' \in Images /\ reviewCover' \in Images
    BY <1>2 DEF PacketCopy, Written, Images
  <2> QED
    BY <1>2, <2>1, <2>2 DEF PacketCopy, Steps
<1>3. CASE PacketReplace(o)
  <2>1. CASE Rename("live")
    BY <1>3, <2>1, RenameKeepsHandles DEF PacketReplace, Rename, Steps, Images
  <2> QED
    BY <1>3, <2>1 DEF PacketReplace, Steps
<1>4. CASE PacketUnlink(o)
  <2>1. handle' \in [Operators -> Handle] /\ tmpCover' = None
    BY <1>4, RenameKeepsHandles DEF PacketUnlink, Rename
  <2>2. CASE Finish(o)
    BY <1>4, <2>1, <2>2, FreshIsMem DEF PacketUnlink, Finish, Steps, Images
  <2> QED
    BY <1>4, <2>1, <2>2 DEF PacketUnlink, Steps, Images
<1>5. CASE PacketHash(o)
  BY <1>5 DEF PacketHash, Steps, Mem
<1> QED
  BY <1>1, <1>2, <1>3, <1>4, <1>5

\* A packet freezes the draft its shell has loaded.
LEMMA PacketKeepsTypes ==
    ASSUME TypeInv, NEW o \in Operators, Packet(o)
    PROVE  TypeInv'
<1> USE DEF TypeInv, Loaded, PacketSteps, CopySteps, SignOffTypeOK, StoreTypeOK, storeVars,
            fileVars, coverVars, Go
<1>1. CASE PacketLoad(o)
  BY <1>1 DEF PacketLoad, Steps, Mem
<1>2. CASE PacketCheck(o)
  <2>1. CASE Refuse(o, "packet_check")
    BY <2>1, RefuseKeepsTypes
  <2> QED
    BY <1>2, <2>1 DEF PacketCheck, Steps
<1>3. CASE PacketOpen(o) \/ PacketCopy(o) \/ PacketReplace(o) \/ PacketUnlink(o) \/ PacketHash(o)
  BY <1>3, CopyKeepsTypes
<1>4. CASE PacketMessage(o)
  BY <1>4 DEF PacketMessage, Steps, Mem
<1>5. CASE PacketFreeze(o)
  <2>1. [body |-> mem[o].draft, cover |-> mem[o].cover] \in Freezes
    BY <1>5 DEF PacketFreeze, Mem, Freezes
  <2> QED
    BY <1>5, <2>1 DEF PacketFreeze, Steps
<1>6. CASE PacketCommit(o) \/ PacketAudit(o)
  BY <1>6, LastStepsKeepTypes DEF Commits, Records
<1> QED
  BY <1>1, <1>2, <1>3, <1>4, <1>5, <1>6 DEF Packet

\* A decision binds to the frozen body.
LEMMA DecisionsKeepTypes ==
    ASSUME TypeInv, NEW o \in Operators, Approve(o) \/ Reject(o) \/ Resolve(o)
    PROVE  TypeInv'
<1> USE DEF TypeInv, Loaded, PacketSteps, CopySteps, SignOffTypeOK, StoreTypeOK, storeVars,
            fileVars, coverVars, Go
<1>1. CASE ApproveLoad(o)
  BY <1>1 DEF ApproveLoad, Steps, Mem
<1>2. CASE ApproveFreeze(o)
  <2>1. CASE Refuse(o, "approve_freeze")
    BY <2>1, RefuseKeepsTypes
  <2>2. CASE ~Refuse(o, "approve_freeze")
    <3>1. freeze.body \in Drafts /\ freeze.cover \in Images
      BY <1>2, <2>2 DEF ApproveFreeze, Freezes
    <3>2. [mem[o] EXCEPT !.body = freeze.body, !.cover = freeze.cover] \in Mem
      BY <3>1 DEF Mem
    <3>3. op' \in [Operators -> Steps] /\ mem' \in [Operators -> Mem]
      BY <1>2, <2>2, <3>2 DEF ApproveFreeze, Steps
    <3>4. Loaded'
      BY <1>2, <2>2 DEF ApproveFreeze, Mem
    <3> QED
      BY <1>2, <2>2, <3>3, <3>4 DEF ApproveFreeze
  <2> QED
    BY <2>1, <2>2
<1>3. CASE ApproveVerify(o)
  <2>1. CASE Refuse(o, "approve_verify")
    BY <2>1, RefuseKeepsTypes
  <2> QED
    BY <1>3, <2>1 DEF ApproveVerify, Steps
<1>4. CASE RejectLook(o)
  BY <1>4 DEF RejectLook, Steps, Mem, Row
<1>5. CASE RejectFreeze(o)
  <2>1. CASE Refuse(o, "reject_freeze")
    BY <2>1, RefuseKeepsTypes
  <2>2. freeze # NoFreeze => freeze.body \in Drafts
    BY DEF Freezes
  <2> QED
    BY <1>5, <2>1, <2>2 DEF RejectFreeze, Steps, Mem
<1>6. CASE ResolveLook(o)
  BY <1>6 DEF ResolveLook, Steps
<1>7. CASE ResolveRelint(o)
  <2>1. CASE Refuse(o, "resolve_relint")
    BY <2>1, RefuseKeepsTypes
  <2> QED
    BY <1>7, <2>1 DEF ResolveRelint, Steps
<1>8. CASE Commits(o) \/ Records(o)
  BY <1>8, LastStepsKeepTypes
<1> QED
  BY <1>1, <1>2, <1>3, <1>4, <1>5, <1>6, <1>7, <1>8
     DEF Approve, Reject, Resolve, Commits, Records

\* The other operations, and a death.
LEMMA OthersKeepTypes ==
    ASSUME TypeInv, NEW o \in Operators,
           Backfill(o) \/ Supersede(o) \/ Notify(o) \/ Crash(o)
    PROVE  TypeInv'
<1> USE DEF TypeInv, Loaded, PacketSteps, CopySteps, SignOffTypeOK, StoreTypeOK, storeVars,
            fileVars, coverVars, Go
<1>1. CASE BackfillLook(o) \/ BackfillUrl(o)
  BY <1>1 DEF BackfillLook, BackfillUrl, Steps
<1>2. CASE BackfillFreeze(o)
  <2>1. freeze.body \in Drafts
    BY <1>2 DEF BackfillFreeze, Freezes
  <2> QED
    BY <1>2, <2>1 DEF BackfillFreeze, Steps, Mem
<1>3. CASE SupersedeLook(o)
  BY <1>3 DEF SupersedeLook, Steps, Mem, Row
<1>4. CASE SupersedeVoid(o)
  BY <1>4 DEF SupersedeVoid, Steps
<1>5. CASE NotifyGuard(o)
  BY <1>5 DEF NotifyGuard, Steps
<1>6. CASE NotifySend(o)
  BY <1>6 DEF NotifySend, Steps
<1>7. CASE Crash(o)
  <2>1. handle' \in [Operators -> Handle]
    BY <1>7 DEF Crash, Handle, NoHandle
  <2>2. op' \in [Operators -> Steps]
    BY <1>7 DEF Crash, Steps
  <2>3. mem' \in [Operators -> Mem]
    BY <1>7, FreshIsMem DEF Crash, Finish
  <2>4. Loaded'
    BY <1>7 DEF Crash, Finish
  <2> QED
    BY <1>7, <2>1, <2>2, <2>3, <2>4 DEF Crash
<1>8. CASE Commits(o) \/ Records(o)
  BY <1>8, LastStepsKeepTypes
<1> QED
  BY <1>1, <1>2, <1>3, <1>4, <1>5, <1>6, <1>7, <1>8
     DEF Backfill, Supersede, Notify, Commits, Records

\* Every step of an operator, and its death.
LEMMA OperatorKeepsTypes ==
    ASSUME TypeInv, NEW o \in Operators, Operate(o) \/ Crash(o)
    PROVE  TypeInv'
  BY PacketKeepsTypes, DecisionsKeepTypes, OthersKeepTypes DEF Operate

\* The types, and the draft of every packet, in every reachable state.
LEMMA TypesAreKept == Spec => []TypeInv
<1>1. TypeInv /\ [Next]_vars => TypeInv'
  <2> SUFFICES ASSUME TypeInv, [Next]_vars PROVE TypeInv'
    OBVIOUS
  <2>1. CASE UNCHANGED vars
    BY <2>1 DEF vars, signVars, storeVars, fileVars, coverVars, TypeInv, Loaded, SignOffTypeOK,
       StoreTypeOK
  <2>2. ASSUME NEW o \in Operators, Operate(o) \/ Crash(o) PROVE TypeInv'
    BY <2>2, OperatorKeepsTypes
  <2> QED
    BY <2>1, <2>2 DEF Next
<1> QED
  BY <1>1, TypeAtFirst, PTL DEF Spec

\* The job, the files of its review and the locals of every operation keep their types.
\* The code: build_review_packet, signoff.py, send_notification.
THEOREM SignOffTypeCorrect == Spec => []SignOffTypeOK
<1>1. TypeInv => SignOffTypeOK
  BY DEF TypeInv
<1> QED
  BY <1>1, TypesAreKept, PTL
-----------------------------------------------------------------------------
(***************************************************************************)
(* Decisions. Of the operations that race for an edge one wins, and until  *)
(* its event is in the log no other can be where that event is said.       *)
(***************************************************************************)
\* Every decision leads here, and none leads away: a hold that was resolved stays so.
Settled == {"processed", "review_pending", "approved", "published_recorded",
            "rejected", "superseded"}

\* Where the row is while an operator has an event left to say.
Taken(o) ==
    /\ op[o] = "packet_audit" =>
         row.state \in {"review_pending", "approved", "published_recorded",
                        "rejected", "superseded"}
    /\ op[o] = "approve_audit" => row.state \in {"approved", "published_recorded", "superseded"}
    /\ op[o] = "reject_audit" => row.state = "rejected"
    /\ op[o] = "resolve_audit" => row.state \in Settled
    /\ op[o] = "backfill_audit" => row.state = "published_recorded"
    /\ op[o] = "supersede_audit" => row.state = "superseded"

\* Who is about to say an event is the only one, and it was not said before.
Once(step, event) ==
    \A o \in Operators :
        op[o] = step => ~Said(event) /\ \A p \in Operators \ {o} : op[p] # step

AllOnce ==
    /\ Once("packet_audit", "REVIEW_PACKET")
    /\ Once("approve_audit", "SIGNOFF_APPROVE")
    /\ Once("reject_audit", "SIGNOFF_REJECT")
    /\ Once("resolve_audit", "NHR_RESOLVED")
    /\ Once("backfill_audit", "PUBLISHED_RECORDED")

LogIsTrue ==
    /\ Said("REVIEW_PACKET") =>
         row.state \in {"review_pending", "approved", "published_recorded",
                        "rejected", "superseded"}
    /\ Said("SIGNOFF_APPROVE") =>
         row.state \in {"approved", "published_recorded", "superseded"}
    /\ Said("SIGNOFF_REJECT") => row.state = "rejected"
    /\ Said("PUBLISHED_RECORDED") => row.state = "published_recorded"
    /\ Said("SUPERSEDED") \/ Said("REDLINE_OVERRIDE") => row.state = "superseded"
    /\ Said("NHR_RESOLVED") => row.state \in Settled

DecisionsInv == (\A o \in Operators : Taken(o)) /\ AllOnce /\ LogIsTrue

\* The property is these parts.
LEMMA DecisionsByParts == DecisionsInv => DecisionsAreTrue
  BY DEF DecisionsInv, AllOnce, Once, LogIsTrue, Settled, DecisionsAreTrue

DecisionEvents == {"REVIEW_PACKET", "SIGNOFF_APPROVE", "SIGNOFF_REJECT", "NHR_RESOLVED",
                   "PUBLISHED_RECORDED", "SUPERSEDED", "REDLINE_OVERRIDE"}

AuditSteps == {"packet_audit", "approve_audit", "reject_audit", "resolve_audit",
               "backfill_audit", "supersede_audit"}

\* An event adds itself to what was said, and nothing else.
LEMMA SaidByEvent ==
    ASSUME NEW event, NEW said, AuditEvent(event, said), NEW e, Said(e)'
    PROVE  Said(e) \/ e = event
  BY DEF AuditEvent, Said

\* What was said stays said.
LEMMA SaidAlready ==
    ASSUME UNCHANGED audit, NEW e
    PROVE  Said(e)' <=> Said(e)
  BY DEF Said

\* A step that neither decides nor reports a decision.
LEMMA QuietStep ==
    ASSUME TypeInv, DecisionsInv, NEW o \in Operators, NEW to, to \notin AuditSteps,
           op' = [op EXCEPT ![o] = to], UNCHANGED row,
           \A e \in DecisionEvents : Said(e)' => Said(e)
    PROVE  DecisionsInv'
<1> USE DEF TypeInv, SignOffTypeOK, AuditSteps, DecisionEvents
<1>1. \A p \in Operators : Taken(p)'
  BY DEF DecisionsInv, Taken
<1>2. AllOnce'
  BY DEF DecisionsInv, AllOnce, Once
<1>3. LogIsTrue'
  BY DEF DecisionsInv, LogIsTrue
<1> QED
  BY <1>1, <1>2, <1>3 DEF DecisionsInv

\* A refusal decides nothing.
LEMMA QuietRefusal ==
    ASSUME TypeInv, DecisionsInv, NEW o \in Operators, NEW from, Refuse(o, from)
    PROVE  DecisionsInv'
<1>1. \A e \in DecisionEvents : Said(e)' <=> Said(e)
  BY SaidAlready DEF Refuse, storeVars
<1> QED
  BY <1>1, QuietStep DEF Refuse, Go, storeVars, AuditSteps

\* Taking an edge: who takes it is the first, for the row has left its origin.
LEMMA CommitsAreTaken ==
    ASSUME TypeInv, DecisionsInv, NEW o \in Operators, Commits(o)
    PROVE  DecisionsInv'
<1>1. CASE \E from \in Steps : Refuse(o, from)
  BY <1>1, QuietRefusal
<1>2. ASSUME UNCHANGED audit PROVE
        /\ Said("REVIEW_PACKET")' <=> Said("REVIEW_PACKET")
        /\ Said("SIGNOFF_APPROVE")' <=> Said("SIGNOFF_APPROVE")
        /\ Said("SIGNOFF_REJECT")' <=> Said("SIGNOFF_REJECT")
        /\ Said("NHR_RESOLVED")' <=> Said("NHR_RESOLVED")
        /\ Said("PUBLISHED_RECORDED")' <=> Said("PUBLISHED_RECORDED")
        /\ Said("SUPERSEDED")' <=> Said("SUPERSEDED")
        /\ Said("REDLINE_OVERRIDE")' <=> Said("REDLINE_OVERRIDE")
  BY <1>2, SaidAlready
<1> USE DEF TypeInv, SignOffTypeOK, DecisionsInv, Taken, AllOnce, Once, LogIsTrue, Settled,
            Steps, Commit, Go, SetState, IsLegal, Transitions
<1>3. CASE PacketCommit(o)
  BY <1>1, <1>2, <1>3 DEF PacketCommit
<1>4. CASE ApproveCommit(o)
  BY <1>1, <1>2, <1>4 DEF ApproveCommit
<1>5. CASE RejectCommit(o)
  BY <1>1, <1>2, <1>5 DEF RejectCommit
<1>6. CASE ResolveCommit(o)
  <2>1. row.state # "processing"
    BY DEF StoreTypeOK, Row, RestingStates, TransientStates
  <2> QED
    BY <1>1, <1>2, <1>6, <2>1 DEF ResolveCommit
<1>7. CASE BackfillCommit(o)
  BY <1>1, <1>2, <1>7 DEF BackfillCommit
<1>8. CASE SupersedeCommit(o)
  BY <1>1, <1>2, <1>8 DEF SupersedeCommit
<1> QED
  BY <1>3, <1>4, <1>5, <1>6, <1>7, <1>8 DEF Commits

\* Saying it: it was taken, and nobody else is about to say it.
LEMMA RecordsAreTrue ==
    ASSUME TypeInv, DecisionsInv, NEW o \in Operators, Records(o)
    PROVE  DecisionsInv'
<1>1. UNCHANGED row /\ op' = [op EXCEPT ![o] = "idle"]
  BY DEF Records, PacketAudit, ApproveAudit, RejectAudit, ResolveAudit, BackfillAudit,
     SupersedeAudit, NotifySent, NotifyFailed, Record, Go
<1>2. \A p \in Operators : Taken(p)'
  BY <1>1 DEF DecisionsInv, Taken, TypeInv, SignOffTypeOK
<1>3. \A p \in Operators : op'[p] = IF p = o THEN "idle" ELSE op[p]
  BY <1>1 DEF TypeInv, SignOffTypeOK
<1> USE DEF DecisionsInv, Taken, AllOnce, Once, LogIsTrue, Record, Go
<1>4. CASE PacketAudit(o)
  <2>1. \A e : Said(e)' => Said(e) \/ e = "REVIEW_PACKET"
    BY <1>4, SaidByEvent DEF PacketAudit
  <2> QED
    BY <1>1, <1>2, <1>3, <1>4, <2>1 DEF PacketAudit
<1>5. CASE ApproveAudit(o)
  <2>1. \A e : Said(e)' => Said(e) \/ e = "SIGNOFF_APPROVE"
    BY <1>5, SaidByEvent DEF ApproveAudit
  <2> QED
    BY <1>1, <1>2, <1>3, <1>5, <2>1 DEF ApproveAudit
<1>6. CASE RejectAudit(o)
  <2>1. \A e : Said(e)' => Said(e) \/ e = "SIGNOFF_REJECT"
    BY <1>6, SaidByEvent DEF RejectAudit
  <2> QED
    BY <1>1, <1>2, <1>3, <1>6, <2>1 DEF RejectAudit
<1>7. CASE ResolveAudit(o)
  <2>1. \A e : Said(e)' => Said(e) \/ e = "NHR_RESOLVED"
    BY <1>7, SaidByEvent DEF ResolveAudit
  <2> QED
    BY <1>1, <1>2, <1>3, <1>7, <2>1 DEF ResolveAudit
<1>8. CASE BackfillAudit(o)
  <2>1. \A e : Said(e)' => Said(e) \/ e = "PUBLISHED_RECORDED"
    BY <1>8, SaidByEvent DEF BackfillAudit
  <2> QED
    BY <1>1, <1>2, <1>3, <1>8, <2>1 DEF BackfillAudit
<1>9. CASE SupersedeAudit(o)
  <2>1. \A e : Said(e)' => Said(e) \/ e \in {"SUPERSEDED", "REDLINE_OVERRIDE"}
    BY <1>9, SaidByEvent DEF SupersedeAudit
  <2> QED
    BY <1>1, <1>2, <1>3, <1>9, <2>1 DEF SupersedeAudit
<1>10. CASE NotifySent(o) \/ NotifyFailed(o)
  <2>1. \A e : Said(e)' => Said(e) \/ e \in {"NOTIFICATION_SENT", "NOTIFICATION_FAILED"}
    BY <1>10, SaidByEvent DEF NotifySent, NotifyFailed
  <2> QED
    BY <1>1, <2>1, QuietStep DEF AuditSteps, DecisionEvents
<1> QED
  BY <1>4, <1>5, <1>6, <1>7, <1>8, <1>9, <1>10 DEF Records

\* All the other steps are quiet.
LEMMA OtherStepsAreQuiet ==
    ASSUME TypeInv, DecisionsInv, NEW o \in Operators, Operate(o) \/ Crash(o),
           ~Commits(o), ~Records(o)
    PROVE  DecisionsInv'
<1>1. CASE \E from \in Steps : Refuse(o, from)
  BY <1>1, QuietRefusal
<1>2. ASSUME NEW to \in Steps \ AuditSteps, op' = [op EXCEPT ![o] = to], UNCHANGED row,
             UNCHANGED audit
      PROVE  DecisionsInv'
  BY <1>2, QuietStep, SaidAlready
<1>3. CASE Packet(o)
  BY <1>1, <1>2, <1>3 DEF Commits, Records, Packet, PacketLoad, PacketCheck, PacketOpen,
     PacketCopy, PacketReplace, PacketUnlink, PacketHash, PacketMessage, PacketFreeze, Go,
     storeVars, Steps, AuditSteps
<1>4. CASE Approve(o)
  BY <1>1, <1>2, <1>4 DEF Commits, Records, Approve, ApproveLoad, ApproveFreeze,
     ApproveVerify, Go, storeVars, Steps, AuditSteps
<1>5. CASE Reject(o)
  BY <1>1, <1>2, <1>5 DEF Commits, Records, Reject, RejectLook, RejectFreeze, Go, storeVars,
     Steps, AuditSteps
<1>6. CASE Resolve(o)
  <2>1. CASE ResolveLook(o)
    BY <1>2, <2>1 DEF ResolveLook, Go, storeVars, Steps, AuditSteps
  <2>2. CASE ResolveRelint(o) /\ AuditEvent("LINT_GATE", "pass") /\ UNCHANGED row
             /\ Go(o, "resolve_relint", "resolve_commit")
    <3>1. \A e \in DecisionEvents : Said(e)' => Said(e)
      BY <2>2, SaidByEvent DEF DecisionEvents
    <3> QED
      BY <2>2, <3>1, QuietStep DEF Go, AuditSteps
  <2> QED
    BY <1>1, <1>6, <2>1, <2>2 DEF Commits, Records, Resolve, ResolveRelint, Steps
<1>7. CASE Backfill(o)
  BY <1>2, <1>7 DEF Commits, Records, Backfill, BackfillLook, BackfillFreeze, BackfillUrl, Go,
     storeVars, Steps, AuditSteps
<1>8. CASE Supersede(o)
  <2>1. CASE SupersedeLook(o)
    BY <1>2, <2>1 DEF SupersedeLook, Go, storeVars, Steps, AuditSteps
  <2>2. CASE SupersedeVoid(o)
    <3>1. \A e \in DecisionEvents : Said(e)' => Said(e)
      BY <2>2, SaidByEvent DEF SupersedeVoid, DecisionEvents
    <3> QED
      BY <2>2, <3>1, QuietStep DEF SupersedeVoid, Go, AuditSteps
  <2> QED
    BY <1>8, <2>1, <2>2 DEF Commits, Records, Supersede
<1>9. CASE Notify(o)
  BY <1>2, <1>9 DEF Commits, Records, Notify, NotifyGuard, NotifySend, Go, storeVars, Steps,
     AuditSteps
<1>10. CASE Crash(o)
  BY <1>2, <1>10 DEF Crash, storeVars, Steps, AuditSteps
<1> QED
  BY <1>3, <1>4, <1>5, <1>6, <1>7, <1>8, <1>9, <1>10 DEF Operate

\* No step takes an event out of the log.
LEMMA PeopleForgetNoEvent ==
    ASSUME NEW o \in Operators, Operate(o) \/ Crash(o)
    PROVE  audit \subseteq audit'
<1> USE DEF Refuse, Commit, Record, AuditEvent, storeVars
<1>1. CASE Packet(o)
  BY <1>1 DEF Packet, PacketLoad, PacketCheck, PacketOpen, PacketCopy, PacketReplace,
     PacketUnlink, PacketHash, PacketMessage, PacketFreeze, PacketCommit, PacketAudit
<1>2. CASE Approve(o)
  BY <1>2 DEF Approve, ApproveLoad, ApproveFreeze, ApproveVerify, ApproveCommit, ApproveAudit
<1>3. CASE Reject(o)
  BY <1>3 DEF Reject, RejectLook, RejectFreeze, RejectCommit, RejectAudit
<1>4. CASE Resolve(o)
  BY <1>4 DEF Resolve, ResolveLook, ResolveRelint, ResolveCommit, ResolveAudit
<1>5. CASE Backfill(o)
  BY <1>5 DEF Backfill, BackfillLook, BackfillFreeze, BackfillUrl, BackfillCommit, BackfillAudit
<1>6. CASE Supersede(o)
  BY <1>6 DEF Supersede, SupersedeLook, SupersedeVoid, SupersedeCommit, SupersedeAudit
<1>7. CASE Notify(o)
  BY <1>7 DEF Notify, NotifyGuard, NotifySend, NotifySent, NotifyFailed
<1>8. CASE Crash(o)
  BY <1>8 DEF Crash
<1> QED
  BY <1>1, <1>2, <1>3, <1>4, <1>5, <1>6, <1>7, <1>8 DEF Operate

\* However many people decide at once and whatever dies: the log reports no decision
\* the row did not take, and none of them twice. The code: signoff.approve, reject,
\* resolve, backfill_published_url, supersede, and the compare of set_state.
THEOREM DecisionsAreReal == Spec => []DecisionsAreTrue
<1>1. Init => DecisionsInv
  <2> SUFFICES ASSUME Init PROVE DecisionsInv
    OBVIOUS
  <2>1. \A e : ~Said(e)
    BY DEF Init, Parked, Said
  <2>2. \A o \in Operators : op[o] \in {"idle", "packet_check"}
    BY DEF Init, SignOffInit, EarlyPacket
  <2> QED
    BY <2>1, <2>2 DEF DecisionsInv, Taken, AllOnce, Once, LogIsTrue
<1>2. TypeInv /\ DecisionsInv /\ [Next]_vars => DecisionsInv'
  <2> SUFFICES ASSUME TypeInv, DecisionsInv, [Next]_vars PROVE DecisionsInv'
    OBVIOUS
  <2>1. CASE UNCHANGED vars
    <3>1. UNCHANGED <<row, op>> /\ \A e : Said(e)' <=> Said(e)
      BY <2>1, SaidAlready DEF vars, storeVars, signVars
    <3> QED
      BY <3>1 DEF DecisionsInv, Taken, AllOnce, Once, LogIsTrue
  <2>2. ASSUME NEW o \in Operators, Operate(o) \/ Crash(o) PROVE DecisionsInv'
    BY <2>2, CommitsAreTaken, RecordsAreTrue, OtherStepsAreQuiet
  <2> QED
    BY <2>1, <2>2 DEF Next
<1> QED
  BY <1>1, <1>2, TypesAreKept, DecisionsByParts, PTL DEF Spec
-----------------------------------------------------------------------------
(***************************************************************************)
(* Files. Every packet of the job freezes the one cover Stage 2 has left,  *)
(* so that a second packet, started while the job was processed still and  *)
(* finished late, changes nothing the group was shown: as long as no two   *)
(* have been copying it at once, for they copy it to the same name.        *)
(***************************************************************************)
\* The states of a job that was put to review, or was closed instead; none leaves them.
WasReviewed == {"review_pending", "approved", "published_recorded", "rejected", "superseded"}

\* The one packet that copies the cover: its file may have been unlinked by the finally
\* of another, and nobody has cut it.
Copied(o) ==
    /\ op[o] \in {"packet_copy", "packet_replace"} =>
         \A p \in Operators \ {o} : op[p] \notin {"packet_copy", "packet_replace"}
    /\ op[o] = "packet_copy" => /\ ~handle[o].cut
                                /\ \/ handle[o].file = "tmp"
                                   \/ handle[o].file = "gone" /\ tmpCover = None
    /\ op[o] = "packet_replace" => tmpCover \in {None, cover}
    /\ op[o] \in {"packet_unlink", "packet_hash"} => reviewCover = cover
    /\ op[o] \in {"packet_message", "packet_freeze"} =>
         mem[o].cover = cover /\ (cover # None => reviewCover = cover)

\* What an operation has seen to before the step it has reached.
Prepared(o) ==
    /\ op[o] # "packet_copy" => handle[o] = NoHandle
    /\ op[o] \in CopySteps \ {"packet_open"} => cover # None
    /\ ~shared => Copied(o)
    /\ op[o] = "packet_freeze" => message # None
    /\ op[o] = "packet_commit" => freeze # NoFreeze
    /\ op[o] = "backfill_commit" => url
    /\ op[o] = "notify_send" => row.state \in WasReviewed /\ freeze # NoFreeze
    /\ op[o] = "notify_sent" => sent # {}

CoverIsWhole ==
    /\ reviewCover \in {None, cover}
    /\ freeze # NoFreeze => /\ freeze.cover = cover
                            /\ cover # None => reviewCover = cover

PacketIsWhole ==
    /\ freeze # NoFreeze => message # None
    /\ ~shared => CoverIsWhole

FilesInv ==
    /\ \A o \in Operators : Prepared(o)
    /\ PacketIsWhole
    /\ FilesBeforeState
    /\ AnnouncedWasReviewed

\* A freeze record that is written is one.
LEMMA FrozenIsNotNone ==
    ASSUME TypeInv, NEW o \in Operators, PacketFreeze(o)
    PROVE  freeze' # NoFreeze /\ freeze'.cover = mem[o].cover
<1>1. mem[o].draft # None
  BY DEF PacketFreeze, Go, TypeInv, Loaded, PacketSteps
<1> QED
  BY <1>1 DEF PacketFreeze, NoFreeze

\* A step that writes no file, moves no row and reports no notification, and after which
\* its operation copies no file.
FilesUntouched == UNCHANGED <<message, reviewCover, tmpCover, shared, freeze, url>>

LeftAlone == {"idle", "packet_check", "packet_open", "packet_undo", "packet_audit",
              "approve_freeze", "approve_verify", "approve_commit", "approve_audit",
              "reject_freeze", "reject_commit", "reject_audit",
              "resolve_relint", "resolve_commit", "resolve_audit",
              "backfill_freeze", "backfill_url", "backfill_audit",
              "supersede_void", "supersede_commit", "supersede_audit", "notify_failed"}

\* Such a step keeps the files.
LEMMA FilesAreLeft ==
    ASSUME TypeInv, FilesInv, NEW o \in Operators, NEW to \in LeftAlone,
           op' = [op EXCEPT ![o] = to], handle' = [handle EXCEPT ![o] = NoHandle],
           FilesUntouched, UNCHANGED <<row, cover, sent>>,
           \A p \in Operators \ {o} : mem'[p] = mem[p],
           Said("NOTIFICATION_SENT")' => Said("NOTIFICATION_SENT") \/ sent # {}
    PROVE  FilesInv'
<1> USE DEF TypeInv, SignOffTypeOK, FilesUntouched, CopySteps
<1>1. op'[o] = to /\ handle'[o] = NoHandle
  OBVIOUS
<1>2. \A p \in Operators \ {o} : op'[p] = op[p] /\ handle'[p] = handle[p]
  OBVIOUS
<1>3. Prepared(o)'
  BY <1>1 DEF Prepared, Copied, LeftAlone
<1>4. \A p \in Operators \ {o} : Prepared(p)'
  BY <1>1, <1>2 DEF FilesInv, Prepared, Copied, LeftAlone
<1>5. PacketIsWhole' /\ FilesBeforeState'
  BY DEF FilesInv, PacketIsWhole, CoverIsWhole, FilesBeforeState
<1>6. AnnouncedWasReviewed'
  BY DEF FilesInv, AnnouncedWasReviewed
<1> QED
  BY <1>3, <1>4, <1>5, <1>6 DEF FilesInv

\* Who copies no file has none open, and a step that opens none leaves him so.
LEMMA HandleIsLeft ==
    ASSUME TypeInv, FilesInv, NEW o \in Operators, op[o] # "packet_copy", UNCHANGED fileVars
    PROVE  handle' = [handle EXCEPT ![o] = NoHandle] /\ FilesUntouched
<1>1. handle[o] = NoHandle
  BY DEF FilesInv, Prepared
<1> QED
  BY <1>1 DEF fileVars, coverVars, FilesUntouched, TypeInv, SignOffTypeOK

\* A refusal is such a step.
LEMMA RefusalLeavesFiles ==
    ASSUME TypeInv, FilesInv, NEW o \in Operators, NEW from \in Steps \ {"packet_copy"},
           Refuse(o, from)
    PROVE  FilesInv'
<1>1. Said("NOTIFICATION_SENT")' <=> Said("NOTIFICATION_SENT")
  BY SaidAlready DEF Refuse, storeVars
<1>2. \A p \in Operators \ {o} : mem'[p] = mem[p]
  BY DEF Refuse, Finish, TypeInv, SignOffTypeOK
<1>3. handle' = [handle EXCEPT ![o] = NoHandle] /\ FilesUntouched
  BY HandleIsLeft DEF Refuse, Go
<1> QED
  BY <1>1, <1>2, <1>3, FilesAreLeft DEF Refuse, Go, storeVars, LeftAlone

\* An event is such a step: who reports a notification has sent it.
LEMMA RecordsLeaveFiles ==
    ASSUME TypeInv, FilesInv, NEW o \in Operators, Records(o)
    PROVE  FilesInv'
<1>1. ASSUME NEW from \in Steps \ {"packet_copy"}, NEW event, NEW said,
             Record(o, from, event, said), event = "NOTIFICATION_SENT" => sent # {}
      PROVE  FilesInv'
  <2>1. op' = [op EXCEPT ![o] = "idle"] /\ UNCHANGED <<row, cover, sent>>
    BY <1>1 DEF Record, Go
  <2>2. handle' = [handle EXCEPT ![o] = NoHandle] /\ FilesUntouched
    BY <1>1, HandleIsLeft DEF Record, Go
  <2>3. \A p \in Operators \ {o} : mem'[p] = mem[p]
    BY <1>1 DEF Record, Finish, TypeInv, SignOffTypeOK
  <2>4. Said("NOTIFICATION_SENT")' => Said("NOTIFICATION_SENT") \/ sent # {}
    BY <1>1, SaidByEvent DEF Record
  <2> QED
    BY <2>1, <2>2, <2>3, <2>4, FilesAreLeft DEF LeftAlone
<1>2. CASE NotifySent(o)
  <2>1. sent # {}
    BY <1>2 DEF NotifySent, Record, Go, FilesInv, Prepared
  <2> QED
    BY <1>1, <1>2, <2>1 DEF NotifySent, Steps
<1>3. CASE PacketAudit(o) \/ ApproveAudit(o) \/ RejectAudit(o) \/ ResolveAudit(o)
  BY <1>1, <1>3 DEF PacketAudit, ApproveAudit, RejectAudit, ResolveAudit, Steps
<1>4. CASE BackfillAudit(o) \/ SupersedeAudit(o) \/ NotifyFailed(o)
  BY <1>1, <1>4 DEF BackfillAudit, SupersedeAudit, NotifyFailed, Steps
<1> QED
  BY <1>2, <1>3, <1>4 DEF Records

\* The row moves: to review with a frozen packet, to published with a URL, and
\* from what was reviewed only to what was.
LEMMA CommitsFollowFiles ==
    ASSUME TypeInv, FilesInv, NEW o \in Operators, Commits(o)
    PROVE  FilesInv'
<1>1. CASE \E from \in Steps \ {"packet_copy"} : Refuse(o, from)
  BY <1>1, RefusalLeavesFiles
<1>2. ASSUME NEW from \in {"packet_commit", "approve_commit", "reject_commit", "resolve_commit",
                           "backfill_commit", "supersede_commit"},
             NEW state \in RestingStates, NEW to \in LeftAlone,
             Go(o, from, to), IsLegal(row.state, state),
             row' = [state |-> state, reason |-> NoReason],
             UNCHANGED <<draft, cover, audit, fileVars, sent, mem>>,
             state \in {"review_pending", "approved", "published_recorded"} =>
                 row.state \in WasReviewed \/ freeze # NoFreeze,
             state = "published_recorded" => url,
             row.state \in WasReviewed => state \in WasReviewed
      PROVE  FilesInv'
  <2> USE DEF TypeInv, SignOffTypeOK, CopySteps
  <2>1. op'[o] = to /\ \A p \in Operators \ {o} : op'[p] = op[p]
    BY <1>2 DEF Go
  <2>2. handle[o] = NoHandle
    BY <1>2 DEF Go, FilesInv, Prepared
  <2>3. Prepared(o)'
    BY <1>2, <2>1, <2>2 DEF Prepared, Copied, LeftAlone, fileVars, coverVars
  <2>4. \A p \in Operators \ {o} : Prepared(p)'
    BY <1>2, <2>1 DEF FilesInv, Prepared, Copied, LeftAlone, fileVars, coverVars
  <2>5. PacketIsWhole'
    BY <1>2 DEF FilesInv, PacketIsWhole, CoverIsWhole, fileVars, coverVars
  <2>6. FilesBeforeState'
    BY <1>2 DEF FilesInv, PacketIsWhole, FilesBeforeState, fileVars, IsLegal, Transitions,
       WasReviewed
  <2>7. Said("NOTIFICATION_SENT")' <=> Said("NOTIFICATION_SENT")
    BY <1>2, SaidAlready
  <2>8. AnnouncedWasReviewed'
    BY <1>2, <2>7 DEF FilesInv, AnnouncedWasReviewed, WasReviewed, fileVars, coverVars
  <2> QED
    BY <2>3, <2>4, <2>5, <2>6, <2>8 DEF FilesInv
<1> USE DEF FilesInv, Prepared, WasReviewed, RestingStates, States, TransientStates, LeftAlone,
            Commit, Go, SetState, IsLegal, Transitions, Steps
<1>3. CASE PacketCommit(o)
  BY <1>1, <1>2, <1>3 DEF PacketCommit
<1>4. CASE ApproveCommit(o)
  BY <1>1, <1>2, <1>4 DEF ApproveCommit
<1>5. CASE RejectCommit(o)
  BY <1>1, <1>2, <1>5 DEF RejectCommit
<1>6. CASE ResolveCommit(o)
  <2>1. row.state # "processing"
    BY DEF TypeInv, SignOffTypeOK, StoreTypeOK, Row
  <2> QED
    BY <1>1, <1>2, <1>6, <2>1 DEF ResolveCommit
<1>7. CASE BackfillCommit(o)
  BY <1>1, <1>2, <1>7 DEF BackfillCommit
<1>8. CASE SupersedeCommit(o)
  BY <1>1, <1>2, <1>8 DEF SupersedeCommit
<1> QED
  BY <1>3, <1>4, <1>5, <1>6, <1>7, <1>8 DEF Commits

\* A file that is renamed: who has it open has it under its new name, and who has not
\* has none.
LEMMA RenameLeavesTheIdle ==
    ASSUME TypeInv, FilesInv, NEW to \in {"live", "gone"}, Rename(to)
    PROVE  /\ \A p \in Operators : op[p] # "packet_copy" => handle'[p] = NoHandle
           /\ to = "gone" => \A p \in Operators :
                handle'[p].cut = handle[p].cut
                /\ (handle[p].file \in {"tmp", "gone"} => handle'[p].file = "gone")
           /\ tmpCover' = None
<1>1. ASSUME NEW p \in Operators
      PROVE  handle'[p] = [handle[p] EXCEPT !.file = IF @ = "tmp" THEN to
                                                     ELSE IF @ = to THEN "gone" ELSE @]
  BY DEF Rename
<1>2. ASSUME NEW p \in Operators, op[p] # "packet_copy"
      PROVE  handle'[p] = NoHandle
  <2>1. handle[p] = NoHandle
    BY <1>2 DEF FilesInv, Prepared
  <2> QED
    BY <1>1, <2>1 DEF NoHandle
<1>3. ASSUME NEW p \in Operators, to = "gone"
      PROVE  /\ handle'[p].cut = handle[p].cut
             /\ handle[p].file \in {"tmp", "gone"} => handle'[p].file = "gone"
  <2>1. handle[p] \in Handle
    BY DEF TypeInv, SignOffTypeOK
  <2> QED
    BY <1>1, <1>3, <2>1 DEF Handle
<1> QED
  BY <1>2, <1>3 DEF Rename

\* The cover is copied: whole, unless two copy it at once.
LEMMA CopyKeepsFiles ==
    ASSUME TypeInv, FilesInv, NEW o \in Operators,
           PacketOpen(o) \/ PacketCopy(o) \/ PacketReplace(o) \/ PacketUnlink(o) \/ PacketHash(o)
    PROVE  FilesInv'
<1>1. UNCHANGED <<row, draft, cover, audit, message, freeze, url, sent>>
  BY DEF PacketOpen, PacketCopy, PacketReplace, PacketUnlink, PacketHash, storeVars, fileVars
<1>2. Said("NOTIFICATION_SENT")' <=> Said("NOTIFICATION_SENT")
  BY <1>1, SaidAlready
<1>3. shared => shared'
  BY DEF PacketOpen, PacketCopy, PacketReplace, PacketUnlink, PacketHash, fileVars, coverVars
<1>4. ASSUME \A p \in Operators : Prepared(p)', ~shared' => CoverIsWhole'
      PROVE  FilesInv'
  BY <1>1, <1>2, <1>3, <1>4 DEF FilesInv, PacketIsWhole, FilesBeforeState, AnnouncedWasReviewed
<1> USE DEF TypeInv, SignOffTypeOK, Go, CopySteps
<1>5. CASE PacketOpen(o)
  <2>1. CASE cover = None
    <3>1. op' = [op EXCEPT ![o] = "packet_message"] /\ mem'[o].cover = None
          /\ op[o] = "packet_open" /\ UNCHANGED <<reviewCover, tmpCover, handle, shared>>
          /\ \A p \in Operators \ {o} : mem'[p] = mem[p]
      BY <1>5, <2>1 DEF PacketOpen, fileVars, coverVars, Mem
    <3>2. Prepared(o)'
      BY <1>1, <2>1, <3>1 DEF FilesInv, Prepared, Copied
    <3>3. \A p \in Operators \ {o} : Prepared(p)'
      BY <1>1, <3>1 DEF FilesInv, Prepared, Copied
    <3> QED
      BY <1>1, <1>4, <3>1, <3>2, <3>3 DEF FilesInv, PacketIsWhole, CoverIsWhole
  <2>2. CASE cover # None
    <3>1. op' = [op EXCEPT ![o] = "packet_copy"] /\ op[o] = "packet_open"
          /\ UNCHANGED <<reviewCover, mem>>
      BY <1>5, <2>2 DEF PacketOpen
    <3>2. handle'[o] = [file |-> "tmp", cut |-> FALSE]
      BY <1>5, <2>2 DEF PacketOpen
    <3>3. ASSUME NEW p \in Operators \ {o}, op[p] # "packet_copy"
          PROVE  handle'[p] = NoHandle
      <4>1. handle[p] = NoHandle
        BY <3>3 DEF FilesInv, Prepared
      <4>2. handle[p].file # "tmp"
        BY <4>1 DEF NoHandle
      <4> QED
        BY <1>5, <2>2, <4>1, <4>2 DEF PacketOpen
    <3>4. ~shared' => ~shared /\ \A p \in Operators \ {o} :
                                    op[p] \notin {"packet_copy", "packet_replace"}
      BY <1>5, <2>2 DEF PacketOpen
    <3>5. Prepared(o)'
      BY <1>1, <2>2, <3>1, <3>2, <3>4 DEF Prepared, Copied
    <3>6. \A p \in Operators \ {o} : Prepared(p)'
      BY <1>1, <3>1, <3>3, <3>4 DEF FilesInv, Prepared, Copied
    <3> QED
      BY <1>1, <1>4, <3>1, <3>4, <3>5, <3>6 DEF FilesInv, PacketIsWhole, CoverIsWhole
  <2> QED
    BY <2>1, <2>2
<1>6. CASE PacketCopy(o)
  <2>1. op' = [op EXCEPT ![o] = "packet_replace"] /\ op[o] = "packet_copy"
        /\ UNCHANGED <<shared, mem>>
    BY <1>6 DEF PacketCopy
  <2>2. handle'[o] = NoHandle /\ \A p \in Operators \ {o} : handle'[p] = handle[p]
    BY <1>6 DEF PacketCopy
  <2>3. ~shared => reviewCover' = reviewCover /\ tmpCover' \in {None, cover}
    BY <1>6, <2>1 DEF PacketCopy, Written, FilesInv, Prepared, Copied
  <2>4. Prepared(o)'
    BY <1>1, <2>1, <2>2, <2>3 DEF FilesInv, Prepared, Copied
  <2>5. \A p \in Operators \ {o} : Prepared(p)'
    BY <1>1, <2>1, <2>2, <2>3 DEF FilesInv, Prepared, Copied
  <2> QED
    BY <1>1, <1>4, <2>1, <2>3, <2>4, <2>5 DEF FilesInv, PacketIsWhole, CoverIsWhole
<1>7. CASE PacketReplace(o)
  <2>1. CASE tmpCover = None
    <3>1. op' = [op EXCEPT ![o] = "packet_undo"] /\ op[o] = "packet_replace"
          /\ UNCHANGED <<reviewCover, tmpCover, handle, shared, mem>>
      BY <1>7, <2>1 DEF PacketReplace, fileVars, coverVars
    <3>2. \A p \in Operators : Prepared(p)'
      BY <1>1, <3>1 DEF FilesInv, Prepared, Copied
    <3> QED
      BY <1>1, <1>4, <3>1, <3>2 DEF FilesInv, PacketIsWhole, CoverIsWhole
  <2>2. CASE tmpCover # None
    <3>1. op' = [op EXCEPT ![o] = "packet_unlink"] /\ op[o] = "packet_replace"
          /\ reviewCover' = tmpCover /\ UNCHANGED <<shared, mem>>
      BY <1>7, <2>2 DEF PacketReplace
    <3>2. tmpCover' = None /\ \A p \in Operators : op[p] # "packet_copy" => handle'[p] = NoHandle
      BY <1>7, <2>2, RenameLeavesTheIdle DEF PacketReplace
    <3>3. ~shared => reviewCover' = cover
                     /\ \A p \in Operators \ {o} : op[p] \notin {"packet_copy", "packet_replace"}
      BY <2>2, <3>1 DEF FilesInv, Prepared, Copied
    <3>4. Prepared(o)'
      BY <1>1, <3>1, <3>2, <3>3 DEF FilesInv, Prepared, Copied
    <3>5. \A p \in Operators \ {o} : Prepared(p)'
      BY <1>1, <3>1, <3>2, <3>3 DEF FilesInv, Prepared, Copied
    <3> QED
      BY <1>1, <1>4, <3>1, <3>3, <3>4, <3>5 DEF FilesInv, PacketIsWhole, CoverIsWhole
  <2> QED
    BY <2>1, <2>2
<1>8. CASE PacketUnlink(o)
  <2>1. PICK to \in {"packet_hash", "idle"} :
          /\ op' = [op EXCEPT ![o] = to] /\ op[o] \in {"packet_unlink", "packet_undo"}
          /\ to = "packet_hash" => op[o] = "packet_unlink"
    BY <1>8 DEF PacketUnlink
  <2>2. UNCHANGED <<reviewCover, shared>> /\ \A p \in Operators \ {o} : mem'[p] = mem[p]
    BY <1>8 DEF PacketUnlink, Finish
  <2>3. /\ tmpCover' = None
        /\ \A p \in Operators : op[p] # "packet_copy" => handle'[p] = NoHandle
        /\ \A p \in Operators : handle'[p].cut = handle[p].cut
             /\ (handle[p].file \in {"tmp", "gone"} => handle'[p].file = "gone")
    BY <1>8, RenameLeavesTheIdle DEF PacketUnlink
  <2>4. Prepared(o)'
    BY <1>1, <2>1, <2>2, <2>3 DEF FilesInv, Prepared, Copied
  <2>5. \A p \in Operators \ {o} : Prepared(p)'
    BY <1>1, <2>1, <2>2, <2>3 DEF FilesInv, Prepared, Copied
  <2> QED
    BY <1>1, <1>4, <2>2, <2>4, <2>5 DEF FilesInv, PacketIsWhole, CoverIsWhole
<1>9. CASE PacketHash(o)
  <2>1. op' = [op EXCEPT ![o] = "packet_message"] /\ mem'[o].cover = reviewCover
        /\ op[o] = "packet_hash" /\ UNCHANGED <<reviewCover, tmpCover, handle, shared>>
        /\ \A p \in Operators \ {o} : mem'[p] = mem[p]
    BY <1>9 DEF PacketHash, fileVars, coverVars, Mem
  <2>2. Prepared(o)'
    BY <1>1, <2>1 DEF FilesInv, Prepared, Copied
  <2>3. \A p \in Operators \ {o} : Prepared(p)'
    BY <1>1, <2>1 DEF FilesInv, Prepared, Copied
  <2> QED
    BY <1>1, <1>4, <2>1, <2>2, <2>3 DEF FilesInv, PacketIsWhole, CoverIsWhole
<1> QED
  BY <1>5, <1>6, <1>7, <1>8, <1>9

\* The other files are written, and the group is told.
LEMMA WritesKeepFiles ==
    ASSUME TypeInv, FilesInv, NEW o \in Operators,
           PacketMessage(o) \/ PacketFreeze(o)
           \/ BackfillFreeze(o) \/ BackfillUrl(o)
           \/ NotifyGuard(o) \/ NotifySend(o)
    PROVE  FilesInv'
<1>1. UNCHANGED audit => (Said("NOTIFICATION_SENT")' <=> Said("NOTIFICATION_SENT"))
  BY SaidAlready
<1>2. CASE PacketFreeze(o)
  <2>1. freeze' # NoFreeze /\ freeze'.cover = mem[o].cover /\ message # None
        /\ (~shared => mem[o].cover = cover /\ (cover # None => reviewCover = cover))
    BY <1>2, FrozenIsNotNone DEF PacketFreeze, Go, FilesInv, Prepared, Copied
  <2>2. UNCHANGED <<row, cover, message, reviewCover, tmpCover, handle, shared, url, sent, mem>>
        /\ op' = [op EXCEPT ![o] = "packet_commit"] /\ op[o] = "packet_freeze"
    BY <1>2 DEF PacketFreeze, Go, storeVars, coverVars
  <2>3. \A p \in Operators : Prepared(p)'
    BY <2>1, <2>2 DEF TypeInv, SignOffTypeOK, FilesInv, Prepared, Copied, CopySteps
  <2>4. PacketIsWhole' /\ FilesBeforeState'
    BY <2>1, <2>2 DEF FilesInv, PacketIsWhole, CoverIsWhole, FilesBeforeState
  <2>5. AnnouncedWasReviewed'
    <3>1. ~shared => \A shown \in sent : shown = cover
      BY DEF FilesInv, PacketIsWhole, CoverIsWhole, AnnouncedWasReviewed
    <3> QED
      BY <1>1, <1>2, <2>1, <2>2, <3>1 DEF PacketFreeze, storeVars, FilesInv, AnnouncedWasReviewed
  <2> QED
    BY <2>3, <2>4, <2>5 DEF FilesInv
<1> USE DEF TypeInv, SignOffTypeOK, StoreTypeOK, Mem, FilesInv, Prepared, Copied, CopySteps,
            PacketIsWhole, CoverIsWhole, FilesBeforeState, AnnouncedWasReviewed, WasReviewed,
            fileVars, coverVars, storeVars, Go
<1>4. CASE PacketMessage(o)
  <2>1. mem[o].draft # None
    BY <1>4 DEF PacketMessage, Loaded, PacketSteps
  <2> QED
    BY <1>1, <1>4, <2>1 DEF PacketMessage
<1>5. CASE BackfillFreeze(o)
  BY <1>1, <1>5 DEF BackfillFreeze
<1>6. CASE BackfillUrl(o)
  BY <1>1, <1>6 DEF BackfillUrl
<1>7. CASE NotifyGuard(o)
  BY <1>1, <1>7 DEF NotifyGuard
<1>8. CASE NotifySend(o)
  <2>1. \A shown \in sent' : /\ row.state \in WasReviewed /\ freeze # NoFreeze
                             /\ ~shared => shown = freeze.cover
    <3>1. ~shared => reviewCover = freeze.cover
      BY <1>8 DEF NotifySend
    <3> QED
      BY <1>8, <3>1 DEF NotifySend
  <2> QED
    BY <1>1, <1>8, <2>1 DEF NotifySend
<1> QED
  BY <1>2, <1>4, <1>5, <1>6, <1>7, <1>8

Copies(o) ==
    PacketOpen(o) \/ PacketCopy(o) \/ PacketReplace(o) \/ PacketUnlink(o) \/ PacketHash(o)

Writes(o) ==
    \/ Copies(o) \/ PacketMessage(o) \/ PacketFreeze(o)
    \/ BackfillFreeze(o) \/ BackfillUrl(o) \/ NotifyGuard(o) \/ NotifySend(o)

\* All the other steps are.
LEMMA OtherStepsLeaveFiles ==
    ASSUME TypeInv, FilesInv, NEW o \in Operators, Operate(o) \/ Crash(o),
           ~Commits(o), ~Records(o), ~Writes(o)
    PROVE  FilesInv'
<1>1. CASE \E from \in Steps \ {"packet_copy"} : Refuse(o, from)
  BY <1>1, RefusalLeavesFiles
<1>2. ASSUME NEW to \in LeftAlone, op' = [op EXCEPT ![o] = to],
             UNCHANGED <<row, cover, sent>>,
             \/ op[o] # "packet_copy" /\ UNCHANGED fileVars
             \/ FilesUntouched /\ handle' = [handle EXCEPT ![o] = NoHandle],
             \A p \in Operators \ {o} : mem'[p] = mem[p],
             \/ UNCHANGED audit
             \/ AuditEvent("LINT_GATE", "pass")
             \/ AuditEvent("SIGNOFF_INVALIDATED", mem[o].state)
      PROVE  FilesInv'
  <2>1. Said("NOTIFICATION_SENT")' => Said("NOTIFICATION_SENT")
    BY <1>2, SaidByEvent, SaidAlready
  <2>2. FilesUntouched /\ handle' = [handle EXCEPT ![o] = NoHandle]
    BY <1>2, HandleIsLeft
  <2> QED
    BY <1>2, <2>1, <2>2, FilesAreLeft
<1> USE DEF LeftAlone
<1>3. mem \in [Operators -> Mem]
  BY DEF TypeInv, SignOffTypeOK
<1>4. CASE Packet(o)
  BY <1>1, <1>2, <1>3, <1>4 DEF Commits, Records, Writes, Copies, Packet, PacketLoad, PacketCheck, Go,
     storeVars, Steps
<1>5. CASE Approve(o)
  BY <1>1, <1>2, <1>3, <1>5 DEF Commits, Records, Approve, ApproveLoad, ApproveFreeze,
     ApproveVerify, Go, storeVars, Steps
<1>6. CASE Reject(o)
  BY <1>1, <1>2, <1>3, <1>6 DEF Commits, Records, Reject, RejectLook, RejectFreeze, Go,
     storeVars, Steps
<1>7. CASE Resolve(o)
  BY <1>1, <1>2, <1>3, <1>7 DEF Commits, Records, Resolve, ResolveLook, ResolveRelint, Go,
     storeVars, Steps
<1>8. CASE Backfill(o)
  BY <1>2, <1>3, <1>8 DEF Commits, Records, Writes, Backfill, BackfillLook, Go, storeVars
<1>9. CASE Supersede(o)
  <2>1. CASE SupersedeLook(o)
    <3>1. PICK to \in {"supersede_commit", "supersede_void"} : op' = [op EXCEPT ![o] = to]
      BY <2>1 DEF SupersedeLook, Go
    <3>2. op[o] # "packet_copy"
      BY <2>1 DEF SupersedeLook, Go
    <3> QED
      BY <1>2, <1>3, <2>1, <3>1, <3>2 DEF SupersedeLook, storeVars
  <2>2. CASE SupersedeVoid(o)
    BY <1>2, <1>3, <2>2 DEF SupersedeVoid, Go
  <2> QED
    BY <1>9, <2>1, <2>2 DEF Commits, Records, Supersede
<1>10. CASE Notify(o)
  BY <1>10 DEF Records, Writes, Notify
<1>11. CASE Crash(o)
  <2>1. PICK to \in {"idle", "packet_undo"} : op' = [op EXCEPT ![o] = to]
    BY <1>11 DEF Crash
  <2>2. \A p \in Operators \ {o} : mem'[p] = mem[p]
    BY <1>3, <1>11 DEF Crash, Finish
  <2> QED
    BY <1>2, <1>11, <2>1, <2>2 DEF Crash, storeVars, FilesUntouched
<1> QED
  BY <1>4, <1>5, <1>6, <1>7, <1>8, <1>9, <1>10, <1>11 DEF Operate

\* No file of a review is written and nobody is about to write one or to announce it.
NothingBegun ==
    /\ freeze = NoFreeze
    /\ reviewCover = None
    /\ tmpCover = None
    /\ ~shared
    /\ sent = {}
    /\ \A o \in Operators :
         /\ op[o] \notin CopySteps \cup {"packet_undo", "packet_message", "packet_freeze",
                                         "packet_commit", "notify_send", "notify_sent"}
         /\ handle[o] = NoHandle

\* A packet is begun on a processed job, and a notification on one that is under review.
LEMMA NothingBegins ==
    ASSUME TypeInv, NothingBegun, row.state \notin {"processed", "review_pending"},
           NEW o \in Operators, Operate(o) \/ Crash(o)
    PROVE  NothingBegun'
<1> USE DEF TypeInv, SignOffTypeOK, NothingBegun, Go, Refuse, Commit, Record, storeVars, fileVars,
            coverVars, CopySteps
<1>1. CASE Packet(o)
  BY <1>1 DEF Packet, PacketLoad, PacketCheck, PacketOpen, PacketCopy, PacketReplace,
     PacketUnlink, PacketHash, PacketMessage, PacketFreeze, PacketCommit, PacketAudit
<1>2. CASE Approve(o)
  BY <1>2 DEF Approve, ApproveLoad, ApproveFreeze, ApproveVerify, ApproveCommit, ApproveAudit
<1>3. CASE Reject(o)
  BY <1>3 DEF Reject, RejectLook, RejectFreeze, RejectCommit, RejectAudit
<1>4. CASE Resolve(o)
  BY <1>4 DEF Resolve, ResolveLook, ResolveRelint, ResolveCommit, ResolveAudit
<1>5. CASE Backfill(o)
  BY <1>5 DEF Backfill, BackfillLook, BackfillFreeze, BackfillUrl, BackfillCommit, BackfillAudit
<1>6. CASE Supersede(o)
  BY <1>6 DEF Supersede, SupersedeLook, SupersedeVoid, SupersedeCommit, SupersedeAudit
<1>7. CASE Notify(o)
  BY <1>7 DEF Notify, NotifyGuard, NotifySend, NotifySent, NotifyFailed
<1>8. CASE Crash(o)
  BY <1>8 DEF Crash
<1> QED
  BY <1>1, <1>2, <1>3, <1>4, <1>5, <1>6, <1>7, <1>8 DEF Operate

\* Every step of an operator, and its death.
LEMMA PeopleKeepFiles ==
    ASSUME TypeInv, FilesInv, NEW o \in Operators, Operate(o) \/ Crash(o)
    PROVE  FilesInv'
<1>1. CASE Writes(o)
  BY <1>1, CopyKeepsFiles, WritesKeepFiles DEF Writes, Copies
<1> QED
  BY <1>1, CommitsFollowFiles, RecordsLeaveFiles, OtherStepsLeaveFiles

\* The invariant of the files, in every reachable state.
LEMMA FilesAreKept == Spec => []FilesInv
<1>1. Init => FilesInv
  <2> SUFFICES ASSUME Init PROVE FilesInv
    OBVIOUS
  <2>1. ~Said("NOTIFICATION_SENT")
    BY DEF Init, Parked, Said
  <2>2. \A o \in Operators : op[o] \in {"idle", "packet_check"}
    BY DEF Init, SignOffInit, EarlyPacket
  <2>3. NoReview
    BY DEF Init, SignOffInit, EarlyPacket
  <2>4. row.state \in {"processed", "needs_human_review", "needs_revision", "blocked", "duplicate"}
    <3>1. PICK s \in {<<"processed", NoReason>>, <<"needs_human_review", "grounding">>,
                      <<"needs_human_review", "classification">>, <<"needs_revision", NoReason>>,
                      <<"blocked", NoReason>>, <<"duplicate", NoReason>>,
                      <<"needs_human_review", "risk">>, <<"needs_human_review", "dedup">>} :
               row = [state |-> s[1], reason |-> s[2]]
      BY DEF Init, Parked, Outcomes
    <3> QED
      BY <3>1
  <2> QED
    BY <2>1, <2>2, <2>3, <2>4 DEF NoReview, FilesInv, Prepared, Copied, CopySteps, PacketIsWhole,
       CoverIsWhole, FilesBeforeState, AnnouncedWasReviewed
<1>2. TypeInv /\ FilesInv /\ [Next]_vars => FilesInv'
  <2> SUFFICES ASSUME TypeInv, FilesInv, [Next]_vars PROVE FilesInv'
    OBVIOUS
  <2>1. CASE UNCHANGED vars
    <3>1. Said("NOTIFICATION_SENT")' <=> Said("NOTIFICATION_SENT")
      BY <2>1, SaidAlready DEF vars, storeVars
    <3> QED
      BY <2>1, <3>1 DEF vars, storeVars, signVars, fileVars, coverVars, FilesInv, Prepared, Copied,
         PacketIsWhole, CoverIsWhole, FilesBeforeState, AnnouncedWasReviewed
  <2>2. ASSUME NEW o \in Operators, Operate(o) \/ Crash(o) PROVE FilesInv'
    BY <2>2, PeopleKeepFiles
  <2> QED
    BY <2>1, <2>2 DEF Next
<1> QED
  BY <1>1, <1>2, TypesAreKept, PTL DEF Spec

\* Whatever dies, and whoever else acts: a job that waits for a decision has its packet,
\* and a published one its URL. The code: build_review_packet, backfill_published_url,
\* which write the files before they move the row.
THEOREM FilesComeFirst == Spec => []FilesBeforeState
<1>1. FilesInv => FilesBeforeState
  BY DEF FilesInv
<1> QED
  BY <1>1, FilesAreKept, PTL

\* The group is shown what was put to review, however many packets and notifications are
\* under way at once and whatever dies; and with the cover that was frozen, as long as no
\* packet has opened cover.jpg.tmp while another was copying to it or had yet to rename it:
\* one that only unlinks it leaves the other no cover to rename, and that one ends. The
\* code: build_review_packet, send_notification.
THEOREM OnlyReviewedIsAnnounced == Spec => []AnnouncedWasReviewed
<1>1. FilesInv => AnnouncedWasReviewed
  BY DEF FilesInv
<1> QED
  BY <1>1, FilesAreKept, PTL
-----------------------------------------------------------------------------
(***************************************************************************)
(* One operator at a time. What is approved is what is stored because the  *)
(* shell loads the draft before it reads the freeze record, and nobody     *)
(* else writes a freeze record in between; and what was frozen is what is  *)
(* shown because a packet that was begun on a processed job is committed   *)
(* before anything else is.                                                *)
(***************************************************************************)
Alone == \A o, p \in Operators : o = p

InReview == {"review_pending", "approved", "published_recorded"}

Building == CopySteps \cup {"packet_message", "packet_freeze", "packet_commit"}

\* The review directory is of one piece.
PacketAgrees ==
    /\ message = freeze.body
    /\ freeze.cover # None => reviewCover = freeze.cover

\* What the operation relies on at the step it has reached, while nobody has
\* superseded the job.
Binds(o) ==
    /\ op[o] \in Building => row.state = "processed"
    /\ op[o] \in {"packet_message", "packet_freeze"} =>
         (mem[o].cover # None => reviewCover = mem[o].cover)
    /\ op[o] = "packet_freeze" => message = mem[o].draft
    /\ op[o] = "packet_commit" => freeze # NoFreeze /\ PacketAgrees
    /\ row.state # "superseded" =>
         /\ op[o] = "approve_freeze" /\ freeze # NoFreeze => mem[o].draft = draft
         /\ op[o] = "approve_verify" =>
              freeze # NoFreeze /\ mem[o].body = freeze.body /\ mem[o].draft = draft
         /\ op[o] = "approve_commit" => freeze # NoFreeze /\ freeze.body = draft

SignedInv ==
    /\ \A o \in Operators : Binds(o)
    /\ freeze # NoFreeze => row.state \in {"processed"} \cup WasReviewed
    /\ row.state \in InReview => freeze # NoFreeze /\ PacketAgrees
    /\ row.state \in {"approved", "published_recorded"} => freeze.body = draft

\* A refusal gives up what the operation relied on.
LEMMA RefusalKeepsSigned ==
    ASSUME TypeInv, SignedInv, Alone, NEW o \in Operators, NEW from, Refuse(o, from)
    PROVE  SignedInv'
  BY DEF TypeInv, SignOffTypeOK, SignedInv, Binds, Alone, Refuse, Go, storeVars, fileVars, coverVars,
     Building, CopySteps, PacketAgrees, NoFreeze

\* So does the event that ends it.
LEMMA RecordsKeepSigned ==
    ASSUME TypeInv, SignedInv, Alone, NEW o \in Operators, Records(o)
    PROVE  SignedInv'
<1>1. op' = [op EXCEPT ![o] = "idle"] /\ UNCHANGED <<row, draft, cover, fileVars>>
  BY DEF Records, PacketAudit, ApproveAudit, RejectAudit, ResolveAudit, BackfillAudit,
     SupersedeAudit, NotifySent, NotifyFailed, Record, Go
<1> QED
  BY <1>1 DEF TypeInv, SignOffTypeOK, SignedInv, Binds, Alone, fileVars, coverVars, Building, CopySteps,
     PacketAgrees, NoFreeze

\* A commit: the packet is frozen and of one piece, what is approved is the draft.
LEMMA CommitsKeepSigned ==
    ASSUME TypeInv, SignedInv, Alone, NEW o \in Operators, Commits(o)
    PROVE  SignedInv'
<1>1. CASE \E from \in Steps : Refuse(o, from)
  BY <1>1, RefusalKeepsSigned
<1> USE DEF TypeInv, SignOffTypeOK, StoreTypeOK, Row, RestingStates, TransientStates,
            SignedInv, Binds, Alone, fileVars, coverVars, Building, CopySteps, PacketAgrees, NoFreeze, InReview,
            WasReviewed, Commit, Go, SetState, IsLegal, Transitions, Steps
<1>2. CASE PacketCommit(o)
  BY <1>1, <1>2 DEF PacketCommit
<1>3. CASE ApproveCommit(o)
  BY <1>1, <1>3 DEF ApproveCommit
<1>4. CASE RejectCommit(o)
  BY <1>1, <1>4 DEF RejectCommit
<1>5. CASE ResolveCommit(o)
  BY <1>1, <1>5 DEF ResolveCommit
<1>6. CASE BackfillCommit(o)
  BY <1>1, <1>6 DEF BackfillCommit
<1>7. CASE SupersedeCommit(o)
  BY <1>1, <1>7 DEF SupersedeCommit
<1> QED
  BY <1>2, <1>3, <1>4, <1>5, <1>6, <1>7 DEF Commits

\* The steps of a packet before its commit, on a job that is processed.
LEMMA PacketKeepsSigned ==
    ASSUME TypeInv, SignedInv, Alone, NEW o \in Operators,
           PacketLoad(o) \/ PacketCheck(o) \/ Copies(o) \/ PacketMessage(o) \/ PacketFreeze(o)
    PROVE  SignedInv'
<1>1. CASE Refuse(o, "packet_check")
  BY <1>1, RefusalKeepsSigned
<1> USE DEF TypeInv, SignOffTypeOK, StoreTypeOK, Mem, SignedInv, Binds, Alone, storeVars,
            fileVars, coverVars, Building, CopySteps, PacketAgrees, NoFreeze, InReview, WasReviewed, Go
<1>2. CASE PacketLoad(o)
  BY <1>2 DEF PacketLoad
<1>3. CASE PacketCheck(o)
  BY <1>1, <1>3 DEF PacketCheck
<1>4. CASE Copies(o)
  BY <1>4 DEF Copies, PacketOpen, PacketCopy, PacketReplace, PacketUnlink, PacketHash, Finish
<1>5. CASE PacketMessage(o)
  BY <1>5 DEF PacketMessage
<1>6. CASE PacketFreeze(o)
  <2>1. freeze' # NoFreeze
    BY <1>6, FrozenIsNotNone
  <2> QED
    BY <1>6, <2>1 DEF PacketFreeze
<1> QED
  BY <1>2, <1>3, <1>4, <1>5, <1>6

\* The steps of an approval before its commit.
LEMMA ApproveKeepsSigned ==
    ASSUME TypeInv, SignedInv, Alone, NEW o \in Operators,
           ApproveLoad(o) \/ ApproveFreeze(o) \/ ApproveVerify(o)
    PROVE  SignedInv'
<1>1. CASE Refuse(o, "approve_freeze") \/ Refuse(o, "approve_verify")
  BY <1>1, RefusalKeepsSigned
<1> USE DEF TypeInv, SignOffTypeOK, StoreTypeOK, Mem, SignedInv, Binds, Alone, storeVars,
            fileVars, coverVars, Building, CopySteps, PacketAgrees, InReview, WasReviewed, Go
<1>2. CASE ApproveLoad(o)
  BY <1>2 DEF ApproveLoad, NoFreeze
<1>3. CASE ApproveFreeze(o)
  <2>1. CASE Go(o, "approve_freeze", "approve_verify") /\ freeze # NoFreeze
             /\ mem' = [mem EXCEPT ![o] = [@ EXCEPT !.body = freeze.body, !.cover = freeze.cover]]
             /\ UNCHANGED <<storeVars, fileVars, coverVars, sent, crashes>>
    <3>1. mem'[o].body = freeze.body /\ mem'[o].draft = mem[o].draft
      BY <2>1
    <3> QED
      BY <2>1, <3>1
  <2> QED
    BY <1>1, <1>3, <2>1 DEF ApproveFreeze
<1>4. CASE ApproveVerify(o)
  BY <1>1, <1>4 DEF ApproveVerify, Bound
<1> QED
  BY <1>2, <1>3, <1>4

\* All the other steps leave the draft, the message, the freeze record and the row.
LEMMA OthersKeepSigned ==
    ASSUME TypeInv, SignedInv, Alone, NEW o \in Operators, Operate(o) \/ Crash(o),
           ~Commits(o), ~Records(o),
           ~(PacketLoad(o) \/ PacketCheck(o) \/ Copies(o) \/ PacketMessage(o) \/ PacketFreeze(o)),
           ~(ApproveLoad(o) \/ ApproveFreeze(o) \/ ApproveVerify(o))
    PROVE  SignedInv'
<1>1. CASE \E from \in Steps : Refuse(o, from)
  BY <1>1, RefusalKeepsSigned
<1>2. ASSUME NEW to, to \notin Building \cup {"approve_freeze", "approve_verify", "approve_commit"},
             op' = [op EXCEPT ![o] = to],
             UNCHANGED <<row, draft, message, reviewCover, freeze>>
      PROVE  SignedInv'
  BY <1>2 DEF TypeInv, SignOffTypeOK, SignedInv, Binds, Alone, Building, CopySteps, PacketAgrees, NoFreeze
<1> USE DEF Go, storeVars, fileVars, coverVars, Building, CopySteps, Steps
<1>3. CASE Packet(o) \/ Approve(o)
  BY <1>3 DEF Commits, Records, Copies, Packet, Approve
<1>4. CASE Reject(o)
  BY <1>1, <1>2, <1>4 DEF Commits, Records, Reject, RejectLook, RejectFreeze
<1>5. CASE Resolve(o)
  BY <1>1, <1>2, <1>5 DEF Commits, Records, Resolve, ResolveLook, ResolveRelint
<1>6. CASE Backfill(o)
  BY <1>2, <1>6 DEF Commits, Records, Backfill, BackfillLook, BackfillFreeze, BackfillUrl
<1>7. CASE Supersede(o)
  BY <1>2, <1>7 DEF Commits, Records, Supersede, SupersedeLook, SupersedeVoid
<1>8. CASE Notify(o)
  BY <1>2, <1>8 DEF Records, Notify, NotifyGuard, NotifySend
<1>9. CASE Crash(o)
  BY <1>2, <1>9 DEF Crash
<1> QED
  BY <1>3, <1>4, <1>5, <1>6, <1>7, <1>8, <1>9 DEF Operate

\* Every step of the one operator.
LEMMA SignedStep ==
    ASSUME TypeInv, SignedInv, Alone, NEW o \in Operators, Operate(o) \/ Crash(o)
    PROVE  SignedInv'
  BY CommitsKeepSigned, RecordsKeepSigned, PacketKeepsSigned, ApproveKeepsSigned, OthersKeepSigned

\* One operator at a time, whatever dies, and although the shell may have loaded a draft
\* that Stage 2 has replaced since: what is approved is what is stored and what was
\* shown. The code: build_review_packet, approve.
THEOREM AloneSignsWhatIsStored ==
    ASSUME Alone
    PROVE  Spec => []SignedIsStored
<1>1. Init => SignedInv
  <2> SUFFICES ASSUME Init PROVE SignedInv
    OBVIOUS
  <2>1. NoReview /\ \A o \in Operators : op[o] \in {"idle", "packet_check"}
    BY DEF Init, SignOffInit, EarlyPacket
  <2>2. row.state \in {"processed", "needs_human_review", "needs_revision", "blocked", "duplicate"}
    <3>1. PICK s \in {<<"processed", NoReason>>, <<"needs_human_review", "grounding">>,
                      <<"needs_human_review", "classification">>, <<"needs_revision", NoReason>>,
                      <<"blocked", NoReason>>, <<"duplicate", NoReason>>,
                      <<"needs_human_review", "risk">>, <<"needs_human_review", "dedup">>} :
               row = [state |-> s[1], reason |-> s[2]]
      BY DEF Init, Parked, Outcomes
    <3> QED
      BY <3>1
  <2> QED
    BY <2>1, <2>2 DEF NoReview, SignedInv, Binds, Building, CopySteps, InReview
<1>2. TypeInv /\ SignedInv /\ [Next]_vars => SignedInv'
  <2> SUFFICES ASSUME TypeInv, SignedInv, [Next]_vars PROVE SignedInv'
    OBVIOUS
  <2>1. CASE UNCHANGED vars
    BY <2>1 DEF vars, storeVars, signVars, fileVars, coverVars, SignedInv, Binds, PacketAgrees
  <2> QED
    BY <2>1, SignedStep DEF Next
<1>3. SignedInv => SignedIsStored
  BY DEF SignedInv, InReview, PacketAgrees, SignedIsStored
<1> QED
  BY <1>1, <1>2, <1>3, TypesAreKept, PTL DEF Spec

\* One operator never opens cover.jpg.tmp under the hands of another.
LEMMA OneNeverShares ==
    ASSUME Alone, ~shared, NEW o \in Operators, Operate(o) \/ Crash(o)
    PROVE  ~shared'
<1> USE DEF Refuse, Commit, Record, fileVars, coverVars, Alone
<1>1. CASE Packet(o)
  BY <1>1 DEF Packet, PacketLoad, PacketCheck, PacketOpen, PacketCopy, PacketReplace,
     PacketUnlink, PacketHash, PacketMessage, PacketFreeze, PacketCommit, PacketAudit
<1>2. CASE Approve(o)
  BY <1>2 DEF Approve, ApproveLoad, ApproveFreeze, ApproveVerify, ApproveCommit, ApproveAudit
<1>3. CASE Reject(o)
  BY <1>3 DEF Reject, RejectLook, RejectFreeze, RejectCommit, RejectAudit
<1>4. CASE Resolve(o)
  BY <1>4 DEF Resolve, ResolveLook, ResolveRelint, ResolveCommit, ResolveAudit
<1>5. CASE Backfill(o)
  BY <1>5 DEF Backfill, BackfillLook, BackfillFreeze, BackfillUrl, BackfillCommit, BackfillAudit
<1>6. CASE Supersede(o)
  BY <1>6 DEF Supersede, SupersedeLook, SupersedeVoid, SupersedeCommit, SupersedeAudit
<1>7. CASE Notify(o)
  BY <1>7 DEF Notify, NotifyGuard, NotifySend, NotifySent, NotifyFailed
<1>8. CASE Crash(o)
  BY <1>8 DEF Crash
<1> QED
  BY <1>1, <1>2, <1>3, <1>4, <1>5, <1>6, <1>7, <1>8 DEF Operate

\* The row moves at the commits, along an edge to a state that a person may give it,
\* and then no file is written; nobody but Stage 2 writes the draft and its cover.
LEMMA PeopleMoveTheRow ==
    ASSUME NEW o \in Operators, Operate(o) \/ Crash(o)
    PROVE  /\ UNCHANGED <<draft, cover>>
           /\ row' # row => /\ UNCHANGED fileVars
                            /\ \E s \in InReview \cup {"processed", "rejected", "superseded"} :
                                 IsLegal(row.state, s) /\ row' = [state |-> s, reason |-> NoReason]
<1> USE DEF Go, storeVars
<1>1. ASSUME NEW from, Refuse(o, from)
      PROVE  UNCHANGED <<row, draft, cover>>
  BY <1>1 DEF Refuse
<1>2. CASE Commits(o)
  BY <1>1, <1>2 DEF Commits, Commit, SetState, InReview, PacketCommit, ApproveCommit, RejectCommit,
     ResolveCommit, BackfillCommit, SupersedeCommit
<1>3. CASE Records(o)
  BY <1>3 DEF Records, Record, PacketAudit, ApproveAudit, RejectAudit, ResolveAudit,
     BackfillAudit, SupersedeAudit, NotifySent, NotifyFailed
<1>4. CASE Packet(o) \/ Approve(o)
  BY <1>1, <1>2, <1>3, <1>4 DEF Commits, Records, Packet, PacketLoad, PacketCheck, PacketOpen,
     PacketCopy, PacketReplace, PacketUnlink, PacketHash, PacketMessage, PacketFreeze, Approve, ApproveLoad, ApproveFreeze, ApproveVerify
<1>5. CASE Reject(o) \/ Resolve(o)
  BY <1>1, <1>2, <1>3, <1>5 DEF Commits, Records, Reject, RejectLook, RejectFreeze,
     Resolve, ResolveLook, ResolveRelint
<1>6. CASE Backfill(o) \/ Supersede(o)
  BY <1>2, <1>3, <1>6 DEF Commits, Records, Backfill, BackfillLook, BackfillFreeze, BackfillUrl,
     Supersede, SupersedeLook, SupersedeVoid
<1>7. CASE Notify(o) \/ Crash(o)
  BY <1>3, <1>7 DEF Records, Notify, NotifyGuard, NotifySend, Crash
<1> QED
  BY <1>4, <1>5, <1>6, <1>7 DEF Operate

\* The message and the freeze record are written by a packet that is being built.
LEMMA PacketsWriteTheFiles ==
    ASSUME NEW o \in Operators, Operate(o) \/ Crash(o), message' # message \/ freeze' # freeze
    PROVE  op[o] \in Building
<1> USE DEF Go, fileVars, coverVars
<1>1. ASSUME NEW from, Refuse(o, from)
      PROVE  FALSE
  BY <1>1 DEF Refuse
<1>2. CASE Commits(o)
  BY <1>1, <1>2 DEF Commits, Commit, PacketCommit, ApproveCommit, RejectCommit,
     ResolveCommit, BackfillCommit, SupersedeCommit
<1>3. CASE Records(o)
  BY <1>3 DEF Records, Record, PacketAudit, ApproveAudit, RejectAudit, ResolveAudit,
     BackfillAudit, SupersedeAudit, NotifySent, NotifyFailed
<1>4. CASE Packet(o) \/ Approve(o)
  BY <1>1, <1>2, <1>3, <1>4 DEF Building, CopySteps, Commits, Records, Packet, PacketLoad, PacketCheck, PacketOpen,
     PacketCopy, PacketReplace, PacketUnlink, PacketHash, PacketMessage, PacketFreeze, Approve, ApproveLoad, ApproveFreeze, ApproveVerify
<1>5. CASE Reject(o) \/ Resolve(o)
  BY <1>1, <1>2, <1>3, <1>5 DEF Commits, Records, Reject, RejectLook, RejectFreeze,
     Resolve, ResolveLook, ResolveRelint
<1>6. CASE Backfill(o) \/ Supersede(o)
  BY <1>2, <1>3, <1>6 DEF Commits, Records, Backfill, BackfillLook, BackfillFreeze, BackfillUrl,
     Supersede, SupersedeLook, SupersedeVoid
<1>7. CASE Notify(o) \/ Crash(o)
  BY <1>3, <1>7 DEF Records, Notify, NotifyGuard, NotifySend, Crash
<1> QED
  BY <1>4, <1>5, <1>6, <1>7 DEF Operate
=============================================================================
