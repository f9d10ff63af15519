-------------------------------- MODULE Lcp --------------------------------
(***************************************************************************)
(* One job from the end of its crawl to the record of its publication:     *)
(* Stage 2 and its worklist (Stage2) and the operators (SignOff) on the    *)
(* same row, draft, cover and audit log. They share nothing else: the      *)
(* marker is Stage 2's, the review directory the operators'.               *)
(***************************************************************************)
EXTENDS Stage2

CONSTANTS Operators, Sound, Partial, MaxCrashes

VARIABLES message, reviewCover, tmpCover, handle, freeze, url, sent, op, mem, crashes, shared

People == INSTANCE SignOff

\* The operators' constants are as SignOff takes them.
ASSUME LcpAssumption == People!SignOffAssumption

signVars == <<message, reviewCover, tmpCover, handle, freeze, url, sent, op, mem, crashes, shared>>
lcpVars == <<storeVars, runVars, signVars>>

LcpInit == Crawled /\ Stage2Init /\ People!SignOffInit

LcpNext ==
    \/ Stage2Next /\ UNCHANGED signVars
    \/ /\ \E o \in Operators : People!Operate(o) \/ People!Crash(o)
       /\ UNCHANGED runVars

LcpSpec == LcpInit /\ [][LcpNext]_lcpVars

-----------------------------------------------------------------------------
\* What an approval is about is still what is stored and what the reviewer was
\* shown, although Stage 2 may have been running when the packet was asked for.
SignedIsStored == People!SignedIsStored

\* The draft and the cover of a job that is processed or under review are no
\* longer written: there is no way back to processing, whoever decides what.
ReviewedIsFrozen ==
    [][draft' # draft \/ cover' # cover =>
          row.state \notin {"processed", "review_pending", "approved",
                            "published_recorded"}]_lcpVars

\* The review of a job as its readers may think of it.
Phase ==
    CASE row.state = "review_pending" -> "frozen"
      [] row.state = "approved" -> "signed"
      [] row.state = "published_recorded" -> "recorded"
      [] row.state \in {"rejected", "superseded"} -> "closed"
      [] OTHER -> "open"

Packet == [body |-> freeze.body, cover |-> freeze.cover, shown |-> message]
Packets == {p \in [body : Drafts, cover : Covers \cup {None}, shown : Drafts] :
               p.shown = p.body}

Reviewed == INSTANCE Artifact
    WITH Texts <- Packets, Nothing <- None, phase <- Phase,
         artifact <- IF Phase \in {"open", "closed"} THEN None ELSE Packet

\* One operator at a time keeps the promise of Artifact: what is signed, and
\* then recorded, is the packet that was frozen, with the message that shows it.
ReviewKeepsArtifact == Reviewed!Spec
=============================================================================
