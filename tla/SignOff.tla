------------------------------ MODULE SignOff ------------------------------
(***************************************************************************)
(* What people do to one job: the review packet that freezes its draft     *)
(* (adapters/publisher/review_packet.py), and the decisions of             *)
(* adapters/publisher/signoff.py - approve, reject, resolve a hold, record *)
(* the publication, supersede - and the notification of their group        *)
(* (adapters/publisher/notifier.py).                                       *)
(*                                                                         *)
(* An operator is a CLI command or a request handler of the GUI server.    *)
(* Nothing keeps two of them apart: these routes take no in-flight slot.   *)
(* An operation is a sequence of reads and writes of files, one set_state  *)
(* and one audit event; each is a step, other operators act in between,    *)
(* and the operation may die after any step. Reads that nobody can tell    *)
(* apart are one step, and so are the title and the message, which hold    *)
(* the same draft.                                                         *)
(***************************************************************************)
EXTENDS JobStore, Naturals

CONSTANTS
    Operators,    \* those who may be acting on the job at once
    Sound,        \* the drafts lint alone passes, grounding aside
    Partial,      \* a cover that is cut short, or has a hole in it
    MaxCrashes    \* bound: how many operations may die half-way

ASSUME SignOffAssumption ==
    /\ Sound \subseteq Drafts
    /\ \A d \in Drafts : /\ Lint[d] = "clean" => d \in Sound
                         /\ Lint[d] \in {"unsound", "unclassified"} => d \notin Sound
    /\ Partial \notin Covers \cup {None}
    /\ MaxCrashes \in Nat

VARIABLES
    message,      \* review/title.txt and message.txt: the draft they show
    reviewCover,  \* review/cover.jpg
    tmpCover,     \* review/cover.jpg.tmp, the one name every packet copies to
    handle,       \* the file each packet is copying to, by the name it has now
    freeze,       \* the freeze record of review/review_manifest.json
    url,          \* review/published_url.txt is there
    sent,         \* the covers the group has been sent, each with a title
    op,           \* the step each operator's operation has reached
    mem,          \* its locals
    crashes,      \* how many operations have died
    shared        \* history: a packet has opened cover.jpg.tmp while another had yet
                  \* to write or rename it

coverVars == <<reviewCover, tmpCover, handle, shared>>
fileVars == <<message, coverVars, freeze, url>>
signVars == <<fileVars, sent, op, mem, crashes>>
vars == <<storeVars, signVars>>

\* What may be in a cover file; its hash is taken for the content.
Images == Covers \cup {None, Partial}

Freezes == [body : Drafts, cover : Images]
NoFreeze == [body |-> None, cover |-> None]

Steps == {"idle",
          "packet_check", "packet_open", "packet_copy", "packet_replace", "packet_unlink",
          "packet_undo", "packet_hash", "packet_message", "packet_freeze",
          "packet_commit", "packet_audit",
          "approve_freeze", "approve_verify", "approve_commit", "approve_audit",
          "reject_freeze", "reject_commit", "reject_audit",
          "resolve_relint", "resolve_commit", "resolve_audit",
          "backfill_freeze", "backfill_url", "backfill_commit", "backfill_audit",
          "supersede_void", "supersede_commit", "supersede_audit",
          "notify_send", "notify_sent", "notify_failed"}

Mem == [draft : Drafts \cup {None},   \* the draft the shell has loaded
        body : Drafts \cup {None},    \* the frozen body an operation binds to
        cover : Images,
        state : RestingStates]        \* the state the operation has observed

\* An open file is at one name or another, or at none since it was renamed over or
\* removed; and it may have been cut since by another who opened it.
Handle == [file : {"none", "tmp", "live", "gone"}, cut : BOOLEAN]
NoHandle == [file |-> "none", cut |-> FALSE]

FreshMem == [draft |-> None, body |-> None, cover |-> None, state |-> "new"]

SignOffTypeOK ==
    /\ StoreTypeOK
    /\ message \in Drafts \cup {None}
    /\ reviewCover \in Images
    /\ tmpCover \in Images
    /\ handle \in [Operators -> Handle]
    /\ shared \in BOOLEAN
    /\ freeze \in Freezes \cup {NoFreeze}
    /\ url \in BOOLEAN
    /\ sent \subseteq Images
    /\ op \in [Operators -> Steps]
    /\ mem \in [Operators -> Mem]
    /\ crashes \in Nat

\* Operator o goes on from one step of an operation to another; an operation
\* that ends, or is refused, forgets its locals.
Go(o, from, to) ==
    /\ op[o] = from
    /\ op' = [op EXCEPT ![o] = to]

Finish(o) == mem' = [mem EXCEPT ![o] = FreshMem]

Refuse(o, from) ==
    /\ Go(o, from, "idle")
    /\ Finish(o)
    /\ UNCHANGED <<storeVars, fileVars, sent, crashes>>

\* set_state, or its refusal, which ends the operation with an error.
Commit(o, from, state, to) ==
    \/ /\ Go(o, from, to)
       /\ SetState(state)
       /\ UNCHANGED <<draft, cover, audit, fileVars, sent, mem, crashes>>
    \/ /\ SetStateRefused(state)
       /\ Refuse(o, from)

\* The event that ends an operation.
Record(o, from, event, said) ==
    /\ Go(o, from, "idle")
    /\ Finish(o)
    /\ AuditEvent(event, said)
    /\ UNCHANGED <<row, draft, cover, fileVars, sent, crashes>>

-----------------------------------------------------------------------------
(***************************************************************************)
(* build_review_packet, from the shell's load_draft on                     *)
(***************************************************************************)
\* Mutant: a job without a draft gets a packet.
PacketLoadAny(o) ==
    /\ Go(o, "idle", "packet_check")
    /\ mem' = [mem EXCEPT ![o].draft = draft]
    /\ UNCHANGED <<storeVars, fileVars, sent, crashes>>

PacketLoad(o) ==
    /\ Go(o, "idle", "packet_check")
    /\ draft # None
    /\ mem' = [mem EXCEPT ![o].draft = draft]
    /\ UNCHANGED <<storeVars, fileVars, sent, crashes>>

PacketCheck(o) ==
    \/ /\ Go(o, "packet_check", "packet_open")
       /\ row.state = "processed"
       /\ UNCHANGED <<storeVars, fileVars, sent, mem, crashes>>
    \/ /\ row.state # "processed"
       /\ Refuse(o, "packet_check")

\* The cover of Stage 2, when there is one, is copied: cover.jpg.tmp is opened, which
\* cuts it short for whoever is still copying to it,
PacketOpen(o) ==
    \/ /\ cover = None
       /\ Go(o, "packet_open", "packet_message")
       /\ mem' = [mem EXCEPT ![o].cover = None]
       /\ UNCHANGED <<storeVars, fileVars, sent, crashes>>
    \/ /\ cover # None
       /\ Go(o, "packet_open", "packet_copy")
       /\ tmpCover' = Partial
       /\ handle' = [p \in Operators |->
                        IF p = o THEN [file |-> "tmp", cut |-> FALSE]
                        ELSE IF handle[p].file = "tmp" THEN [handle[p] EXCEPT !.cut = TRUE]
                        ELSE handle[p]]
       /\ shared' = (shared \/ \E p \in Operators \ {o} :
                                   op[p] \in {"packet_copy", "packet_replace"})
       /\ UNCHANGED <<storeVars, message, reviewCover, freeze, url, sent, mem, crashes>>

\* and written to its end, under whatever name it has by now. Who has been cut leaves a
\* hole, or had written nothing yet.
Written(o, image) == IF handle[o].cut THEN {cover, image} ELSE {cover}

PacketCopy(o) ==
    /\ Go(o, "packet_copy", "packet_replace")
    /\ tmpCover' \in IF handle[o].file = "tmp" THEN Written(o, tmpCover) ELSE {tmpCover}
    /\ reviewCover' \in IF handle[o].file = "live" THEN Written(o, reviewCover) ELSE {reviewCover}
    /\ handle' = [handle EXCEPT ![o] = NoHandle]
    /\ UNCHANGED <<storeVars, message, freeze, url, shared, sent, mem, crashes>>

\* The files that are open under one name are under another, and what was there is gone.
Rename(to) ==
    /\ tmpCover' = None
    /\ handle' = [p \in Operators |->
                     [handle[p] EXCEPT !.file = IF @ = "tmp" THEN to
                                                ELSE IF @ = to THEN "gone" ELSE @]]

\* os.replace renames whatever has that name, a copy of another that has just begun too,
\* and raises when there is none.
PacketReplace(o) ==
    \/ /\ tmpCover # None
       /\ Go(o, "packet_replace", "packet_unlink")
       /\ reviewCover' = tmpCover
       /\ Rename("live")
       /\ UNCHANGED <<storeVars, message, freeze, url, shared, sent, mem, crashes>>
    \/ /\ tmpCover = None
       /\ Go(o, "packet_replace", "packet_undo")
       /\ UNCHANGED <<storeVars, fileVars, sent, mem, crashes>>

\* The finally: it unlinks cover.jpg.tmp, which may be that of another by now.
PacketUnlink(o) ==
    /\ \/ Go(o, "packet_unlink", "packet_hash") /\ UNCHANGED mem
       \/ Go(o, "packet_undo", "idle") /\ Finish(o)
    /\ Rename("gone")
    /\ UNCHANGED <<storeVars, message, reviewCover, freeze, url, shared, sent, crashes>>

\* The hash is that of cover.jpg as it is now.
PacketHash(o) ==
    /\ Go(o, "packet_hash", "packet_message")
    /\ mem' = [mem EXCEPT ![o].cover = reviewCover]
    /\ UNCHANGED <<storeVars, fileVars, sent, crashes>>

\* Mutant: the job is put to review and nothing is frozen.
PacketMessageOnly(o) ==
    /\ Go(o, "packet_message", "packet_commit")
    /\ message' = mem[o].draft
    /\ UNCHANGED <<storeVars, coverVars, freeze, url, sent, mem, crashes>>

PacketMessage(o) ==
    /\ Go(o, "packet_message", "packet_freeze")
    /\ message' = mem[o].draft
    /\ UNCHANGED <<storeVars, coverVars, freeze, url, sent, mem, crashes>>

PacketFreeze(o) ==
    /\ Go(o, "packet_freeze", "packet_commit")
    /\ freeze' = [body |-> mem[o].draft, cover |-> mem[o].cover]
    /\ UNCHANGED <<storeVars, message, coverVars, url, sent, mem, crashes>>

PacketCommit(o) == Commit(o, "packet_commit", "review_pending", "packet_audit")
PacketAudit(o) == Record(o, "packet_audit", "REVIEW_PACKET", mem[o].draft)

Packet(o) ==
    \/ PacketLoad(o) \/ PacketCheck(o)
    \/ PacketOpen(o) \/ PacketCopy(o) \/ PacketReplace(o) \/ PacketUnlink(o) \/ PacketHash(o)
    \/ PacketMessage(o) \/ PacketFreeze(o) \/ PacketCommit(o) \/ PacketAudit(o)

-----------------------------------------------------------------------------
(***************************************************************************)
(* approve                                                                 *)
(***************************************************************************)
ApproveLoad(o) ==
    /\ Go(o, "idle", "approve_freeze")
    /\ mem' = [mem EXCEPT ![o].draft = draft]
    /\ UNCHANGED <<storeVars, fileVars, sent, crashes>>

ApproveFreeze(o) ==
    \/ /\ Go(o, "approve_freeze", "approve_verify")
       /\ freeze # NoFreeze
       /\ mem' = [mem EXCEPT ![o] = [@ EXCEPT !.body = freeze.body, !.cover = freeze.cover]]
       /\ UNCHANGED <<storeVars, fileVars, sent, crashes>>
    \/ /\ freeze = NoFreeze
       /\ Refuse(o, "approve_freeze")

\* Mutant: only the cover is verified.
BoundCover(o) == mem[o].cover \in {None, reviewCover}

\* The draft, loaded again if the shell found none, hashes to the frozen body,
\* and the cover in the review directory to the frozen cover.
Bound(o) ==
    /\ mem[o].body = IF mem[o].draft = None THEN draft ELSE mem[o].draft
    /\ mem[o].cover \in {None, reviewCover}

ApproveVerify(o) ==
    \/ /\ Go(o, "approve_verify", "approve_commit")
       /\ Bound(o)
       /\ UNCHANGED <<storeVars, fileVars, sent, mem, crashes>>
    \/ /\ ~Bound(o)
       /\ Refuse(o, "approve_verify")

ApproveCommit(o) == Commit(o, "approve_commit", "approved", "approve_audit")
ApproveAudit(o) == Record(o, "approve_audit", "SIGNOFF_APPROVE", mem[o].body)

Approve(o) ==
    \/ ApproveLoad(o) \/ ApproveFreeze(o) \/ ApproveVerify(o)
    \/ ApproveCommit(o) \/ ApproveAudit(o)

-----------------------------------------------------------------------------
(***************************************************************************)
(* reject: a freeze record is read unless the job was seen on hold         *)
(***************************************************************************)
RejectLook(o) ==
    /\ Go(o, "idle", "reject_freeze")
    /\ mem' = [mem EXCEPT ![o].state = row.state]
    /\ UNCHANGED <<storeVars, fileVars, sent, crashes>>

RejectFreeze(o) ==
    \/ /\ Go(o, "reject_freeze", "reject_commit")
       /\ mem[o].state = "needs_human_review"
       /\ UNCHANGED <<storeVars, fileVars, sent, mem, crashes>>
    \/ /\ Go(o, "reject_freeze", "reject_commit")
       /\ mem[o].state # "needs_human_review"
       /\ freeze # NoFreeze
       /\ mem' = [mem EXCEPT ![o].body = freeze.body]
       /\ UNCHANGED <<storeVars, fileVars, sent, crashes>>
    \/ /\ mem[o].state # "needs_human_review"
       /\ freeze = NoFreeze
       /\ Refuse(o, "reject_freeze")

RejectCommit(o) == Commit(o, "reject_commit", "rejected", "reject_audit")
RejectAudit(o) == Record(o, "reject_audit", "SIGNOFF_REJECT", mem[o].body)

Reject(o) == RejectLook(o) \/ RejectFreeze(o) \/ RejectCommit(o) \/ RejectAudit(o)

-----------------------------------------------------------------------------
(***************************************************************************)
(* resolve: a lint of the stored draft clears a grounding hold; any hold   *)
(* yields to an override, which needs a reason but no draft                *)
(***************************************************************************)
ResolveLook(o) ==
    /\ row.state = "needs_human_review"
    /\ \/ Go(o, "idle", "resolve_commit")
       \/ /\ row.reason = "grounding"
          /\ Go(o, "idle", "resolve_relint")
    /\ UNCHANGED <<storeVars, fileVars, sent, mem, crashes>>

ResolveRelint(o) ==
    \/ /\ Go(o, "resolve_relint", "resolve_commit")
       /\ draft \in Sound
       /\ AuditEvent("LINT_GATE", "pass")
       /\ UNCHANGED <<row, draft, cover, fileVars, sent, mem, crashes>>
    \/ /\ draft \notin Sound
       /\ Refuse(o, "resolve_relint")

ResolveCommit(o) == Commit(o, "resolve_commit", "processed", "resolve_audit")
ResolveAudit(o) == Record(o, "resolve_audit", "NHR_RESOLVED", "-")

Resolve(o) == ResolveLook(o) \/ ResolveRelint(o) \/ ResolveCommit(o) \/ ResolveAudit(o)

-----------------------------------------------------------------------------
(***************************************************************************)
(* backfill_published_url, with a URL and the attestation                  *)
(***************************************************************************)
BackfillLook(o) ==
    /\ Go(o, "idle", "backfill_freeze")
    /\ row.state = "approved"
    /\ UNCHANGED <<storeVars, fileVars, sent, mem, crashes>>

\* Mutant: the publication is recorded and its URL is not.
BackfillNoUrl(o) ==
    /\ Go(o, "backfill_freeze", "backfill_commit")
    /\ freeze # NoFreeze
    /\ mem' = [mem EXCEPT ![o].body = freeze.body]
    /\ UNCHANGED <<storeVars, fileVars, sent, crashes>>

\* The refusal of a job without a freeze record is left out: a job that was seen
\* approved has one (FilesBeforeState), and no operation removes it.
BackfillFreeze(o) ==
    /\ Go(o, "backfill_freeze", "backfill_url")
    /\ freeze # NoFreeze
    /\ mem' = [mem EXCEPT ![o].body = freeze.body]
    /\ UNCHANGED <<storeVars, fileVars, sent, crashes>>

BackfillUrl(o) ==
    /\ Go(o, "backfill_url", "backfill_commit")
    /\ url' = TRUE
    /\ UNCHANGED <<storeVars, message, coverVars, freeze, sent, mem, crashes>>

BackfillCommit(o) == Commit(o, "backfill_commit", "published_recorded", "backfill_audit")
BackfillAudit(o) == Record(o, "backfill_audit", "PUBLISHED_RECORDED", mem[o].body)

Backfill(o) ==
    \/ BackfillLook(o) \/ BackfillFreeze(o) \/ BackfillUrl(o)
    \/ BackfillCommit(o) \/ BackfillAudit(o)

-----------------------------------------------------------------------------
(***************************************************************************)
(* supersede                                                               *)
(***************************************************************************)

\* _NEVER_SIGNED_OFF and _SUPERSEDABLE. A blocked job takes a second
\* confirmation, which the operator gives or is refused.
NeverSignedOff == {"blocked", "duplicate", "needs_revision", "needs_human_review"}
Supersedable == NeverSignedOff \cup {"review_pending", "approved"}

SupersedeLook(o) ==
    /\ row.state \in Supersedable
    /\ Go(o, "idle", IF row.state \in NeverSignedOff
                     THEN "supersede_commit" ELSE "supersede_void")
    /\ mem' = [mem EXCEPT ![o].state = row.state]
    /\ UNCHANGED <<storeVars, fileVars, sent, crashes>>

SupersedeVoid(o) ==
    /\ Go(o, "supersede_void", "supersede_commit")
    /\ AuditEvent("SIGNOFF_INVALIDATED", mem[o].state)
    /\ UNCHANGED <<row, draft, cover, fileVars, sent, mem, crashes>>

SupersedeCommit(o) == Commit(o, "supersede_commit", "superseded", "supersede_audit")
SupersedeAudit(o) ==
    Record(o, "supersede_audit",
           IF mem[o].state = "blocked" THEN "REDLINE_OVERRIDE" ELSE "SUPERSEDED",
           mem[o].state)

Supersede(o) ==
    \/ SupersedeLook(o) \/ SupersedeVoid(o) \/ SupersedeCommit(o) \/ SupersedeAudit(o)

-----------------------------------------------------------------------------
(***************************************************************************)
(* notify: no decision waits for it. The title is left out: it is that of   *)
(* the draft the shell has loaded before the state is looked at.           *)
(***************************************************************************)
\* Mutant: a job is announced as soon as it has a cover to show.
NotifyGuardAny(o) ==
    /\ Go(o, "idle", "notify_send")
    /\ UNCHANGED <<storeVars, fileVars, sent, mem, crashes>>

\* send_notification looks at the state once.
NotifyGuard(o) ==
    /\ Go(o, "idle", "notify_send")
    /\ row.state = "review_pending"
    /\ UNCHANGED <<storeVars, fileVars, sent, mem, crashes>>

\* The request is answered; or it fails, before it has got to the group or after.
NotifySend(o) ==
    /\ \/ Go(o, "notify_send", "notify_sent") /\ sent' = sent \cup {reviewCover}
       \/ Go(o, "notify_send", "notify_failed") /\ sent' \in {sent, sent \cup {reviewCover}}
    /\ UNCHANGED <<storeVars, fileVars, mem, crashes>>

NotifySent(o) == Record(o, "notify_sent", "NOTIFICATION_SENT", "-")
NotifyFailed(o) == Record(o, "notify_failed", "NOTIFICATION_FAILED", "-")

Notify(o) ==
    NotifyGuard(o) \/ NotifySend(o) \/ NotifySent(o) \/ NotifyFailed(o)

-----------------------------------------------------------------------------
Operate(o) ==
    \/ Packet(o) \/ Approve(o) \/ Reject(o) \/ Resolve(o) \/ Backfill(o) \/ Supersede(o)
    \/ Notify(o)

\* The operation dies where it is: its process was killed, the disk was full. An
\* exception in the copy has its finally still to come.
Crash(o) ==
    /\ op[o] # "idle"
    /\ crashes < MaxCrashes
    /\ crashes' = crashes + 1
    /\ \/ op' = [op EXCEPT ![o] = "idle"]
       \/ op[o] \in {"packet_copy", "packet_replace"} /\ op' = [op EXCEPT ![o] = "packet_undo"]
    /\ Finish(o)
    /\ handle' = [handle EXCEPT ![o] = NoHandle]
    /\ UNCHANGED <<storeVars, message, reviewCover, tmpCover, shared, freeze, url, sent>>

NoReview ==
    /\ message = None
    /\ reviewCover = None
    /\ tmpCover = None
    /\ handle = [o \in Operators |-> NoHandle]
    /\ shared = FALSE
    /\ freeze = NoFreeze
    /\ url = FALSE
    /\ sent = {}
    /\ crashes = 0

SignOffInit ==
    /\ NoReview
    /\ op = [o \in Operators |-> "idle"]
    /\ mem = [o \in Operators |-> FreshMem]

\* A job as Stage 2 leaves it for people: Outcomes(d) are the rows it may have
\* beside a stored draft d. A gate that parks the job before the draft of its
\* run leaves the draft of an earlier run, or none.
Outcomes(d) ==
    LET state == IF d = None THEN {}
                 ELSE CASE Lint[d] = "clean" -> {<<"processed", NoReason>>}
                        [] Lint[d] = "ungrounded" -> {<<"needs_human_review", "grounding">>}
                        [] Lint[d] = "unclassified" -> {<<"needs_human_review", "classification">>}
                        [] OTHER -> {<<"needs_revision", NoReason>>}
        parked == {<<"blocked", NoReason>>, <<"duplicate", NoReason>>,
                   <<"needs_human_review", "risk">>, <<"needs_human_review", "dedup">>}
    IN {[state |-> s[1], reason |-> s[2]] : s \in state \cup parked}

Parked ==
    /\ draft \in Drafts \cup {None}
    /\ row \in Outcomes(draft)
    /\ cover \in Covers \cup {None}
    /\ audit = {}

\* An operator who was there early: the shell has loaded the draft of an earlier
\* run, and Stage 2 has stored another since.
EarlyPacket ==
    /\ NoReview
    /\ \E o \in Operators, d \in Drafts \ {draft} :
          /\ op = [p \in Operators |-> IF p = o THEN "packet_check" ELSE "idle"]
          /\ mem = [p \in Operators |-> IF p = o THEN [FreshMem EXCEPT !.draft = d]
                                        ELSE FreshMem]

Init == Parked /\ (SignOffInit \/ EarlyPacket)
Next == \E o \in Operators : Operate(o) \/ Crash(o)
Spec == Init /\ [][Next]_vars

-----------------------------------------------------------------------------
(***************************************************************************)
(* Properties                                                              *)
(***************************************************************************)

Said(event) == \E said \in Drafts \cup {None, "-"} \cup RestingStates : <<event, said>> \in audit

\* No decision is in the log unless the row has taken it: whoever else decides
\* at the same time, and whatever dies, the log never reports an approval of a
\* job that was rejected instead, a rejection of one that was superseded, ... Nor is
\* one reported twice: of the operations that race for an edge one wins. An approved job
\* can be superseded and not rejected: the docstring of reject says otherwise, _TRANSITIONS
\* has no such edge and set_state refuses it.
DecisionsAreTrue ==
    /\ Said("REVIEW_PACKET") =>
         row.state \in {"review_pending", "approved", "published_recorded",
                        "rejected", "superseded"}
    /\ Said("SIGNOFF_APPROVE") =>
         row.state \in {"approved", "published_recorded", "superseded"}
    /\ Said("SIGNOFF_REJECT") => row.state = "rejected"
    /\ Said("PUBLISHED_RECORDED") => row.state = "published_recorded"
    /\ Said("SUPERSEDED") \/ Said("REDLINE_OVERRIDE") => row.state = "superseded"
    /\ Said("NHR_RESOLVED") => row.state # "needs_human_review"
    /\ \A e \in {<<"packet_audit", "REVIEW_PACKET">>, <<"approve_audit", "SIGNOFF_APPROVE">>,
                 <<"reject_audit", "SIGNOFF_REJECT">>, <<"resolve_audit", "NHR_RESOLVED">>,
                 <<"backfill_audit", "PUBLISHED_RECORDED">>} :
        \A o \in Operators : op[o] = e[1] =>
            ~Said(e[2]) /\ \A p \in Operators \ {o} : op[p] # e[1]

\* A job that waits for a decision, or has one, has the packet the decision is
\* about, and a published one its URL: the files are written before the state.
FilesBeforeState ==
    /\ row.state \in {"review_pending", "approved", "published_recorded"} =>
         freeze # NoFreeze /\ message # None
    /\ row.state = "published_recorded" => url

\* The group is shown jobs that were put to review and nothing earlier, and a notification
\* the log reports has got there, whoever decides meanwhile and whatever dies. Each is
\* shown with the cover that was frozen, by however many packets, as long as none of them
\* has opened cover.jpg.tmp under the hands of another: then the hash of a partial cover
\* may be frozen, and another cover shown. The code: build_review_packet, send_notification.
AnnouncedWasReviewed ==
    /\ \A shown \in sent :
        /\ row.state \in {"review_pending", "approved", "published_recorded",
                          "rejected", "superseded"}
        /\ freeze # NoFreeze
        /\ ~shared => shown = freeze.cover
    /\ Said("NOTIFICATION_SENT") => sent # {}

\* The reviewer approves what the packet shows and the shell would publish: the
\* message, the frozen hashes and the files they are hashes of are the same.
SignedIsStored ==
    row.state \in {"approved", "published_recorded"} =>
        /\ freeze.body = draft
        /\ message = draft
        /\ freeze.cover # None => reviewCover = freeze.cover

=============================================================================
