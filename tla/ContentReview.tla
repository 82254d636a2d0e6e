---------------------------- MODULE ContentReview ----------------------------
(* One Pin proposal on its way through human review: the list the operators    *)
(* look at and their decision (services/pin_proposals.py), the versions made of*)
(* it, selected and rejected (ai_regeneration.py, ai_creative_generation.py),  *)
(* and the immutable publication snapshot of an approval                       *)
(* (publication_identity.create_snapshot).                                     *)
(*                                                                             *)
(* Deciding, selecting, rejecting and snapshotting each read the rows and write*)
(* them by primary key in the same transaction without locking them: two       *)
(* operators meet between the read and the commit. Regenerating and returning  *)
(* to review lock the draft's row, and are one step each.                      *)
CONSTANTS
  Operators,
  Copies,       \* revisions without artwork of their own: COPY, CONTENT, VIDEO_SPEC
  Backgrounds   \* IMAGE_BACKGROUND revisions, each with its own rendered creative

VARIABLES
  cdraft,     \* PinDraft.status
  selection,  \* the active version: ContentVersionSelection, "original" without a row
  revision,   \* revision -> its status, NONE before it is made
  approvals,  \* PinApproval rows
  snapshots,  \* publication snapshots, by what their fingerprint binds
  desk        \* operator -> the page looked at and the request under way

reviewVars == <<cdraft, selection, revision, approvals, snapshots, desk>>

Revisions == Copies \cup Backgrounds
Versions  == Revisions \cup {"original"}

(* The artwork shown with a version: its own, or the original's.               *)
Artwork(v) == IF v \in Backgrounds THEN v ELSE "original"

NoDesk == [pc |-> "idle", shown |-> "original", version |-> "original",
           decision |-> "none", seen |-> "original"]

CRInit ==
  /\ cdraft = "REVIEW"
  /\ selection = "original"
  /\ revision = [v \in Revisions |-> "NONE"]
  /\ approvals = {}
  /\ snapshots = {}
  /\ desk = [o \in Operators |-> NoDesk]

Reviewable(v) == (IF v = "original" THEN "REVIEW" ELSE revision[v]) = "REVIEW"
Close(o)      == desk' = [desk EXCEPT ![o] = NoDesk]

-----------------------------------------------------------------------------
(* A revision is rendered or generated from the draft in review, under the     *)
(* draft's row lock, with the next version number.                             *)
Regenerate(v) ==
  /\ cdraft = "REVIEW"
  /\ revision[v] = "NONE"
  /\ revision' = [revision EXCEPT ![v] = "REVIEW"]
  /\ UNCHANGED <<cdraft, selection, approvals, snapshots, desk>>

(* The page an operator decides from: the active version and its artwork.      *)
list_proposals(o) ==
  /\ desk[o].pc = "idle"
  /\ desk' = [desk EXCEPT ![o] = [NoDesk EXCEPT !.pc = "looking", !.shown = Artwork(selection)]]
  /\ UNCHANGED <<cdraft, selection, revision, approvals, snapshots>>

(* An active version that owns artwork must have been shown with it; for the   *)
(* others any artwork of the draft will do.                                    *)
resolve_active_identity(shown) ==
  /\ Reviewable(selection)
  /\ selection \in Backgrounds => shown = selection

ReadDecision(o, decision) ==
  /\ desk[o].pc = "looking"
  /\ cdraft = "REVIEW"
  /\ decision = "APPROVED" => resolve_active_identity(desk[o].shown)
  /\ desk' = [desk EXCEPT ![o].pc = "deciding", ![o].decision = decision,
                          ![o].version = selection]
  /\ UNCHANGED <<cdraft, selection, revision, approvals, snapshots>>

decide(o) ==
  /\ desk[o].pc = "deciding"
  /\ cdraft' = desk[o].decision
  /\ approvals' = approvals \cup
       {IF desk[o].decision = "REJECTED"
        THEN [decision |-> "REJECTED", version |-> "original", creative |-> "none"]
        ELSE [decision |-> "APPROVED", version |-> desk[o].version, creative |-> desk[o].shown]}
  /\ Close(o)
  /\ UNCHANGED <<selection, revision, snapshots>>

Approved == {a \in approvals : a.decision = "APPROVED"}

(* Mutant: the decisions already made are not looked at.                       *)
ReturnUnchecked ==
  /\ cdraft = "REJECTED"
  /\ snapshots = {}
  /\ cdraft' = "REVIEW"
  /\ UNCHANGED <<selection, revision, approvals, snapshots, desk>>

return_to_review ==
  /\ cdraft = "REJECTED"
  /\ Approved = {}
  /\ snapshots = {}
  /\ cdraft' = "REVIEW"
  /\ UNCHANGED <<selection, revision, approvals, snapshots, desk>>

-----------------------------------------------------------------------------
ReadSelection(o, v) ==
  /\ desk[o].pc = "idle"
  /\ cdraft = "REVIEW"
  /\ Reviewable(v)
  /\ desk' = [desk EXCEPT ![o] = [NoDesk EXCEPT !.pc = "selecting", !.version = v,
                                                !.seen = selection]]
  /\ UNCHANGED <<cdraft, selection, revision, approvals, snapshots>>

(* The row read is deleted, or updated, or one is inserted; an update of a row *)
(* deleted since, or an insert beside one made since, rolls back.              *)
select_version(o) ==
  LET new == desk[o].version
      had == desk[o].seen # "original"
      has == selection # "original"
  IN  /\ desk[o].pc = "selecting"
      /\ selection' = IF new = "original" THEN (IF had THEN "original" ELSE selection)
                      ELSE IF had = has THEN new ELSE selection
      /\ Close(o)
      /\ UNCHANGED <<cdraft, revision, approvals, snapshots>>

ReadRejection(o, v) ==
  /\ desk[o].pc = "idle"
  /\ cdraft \in {"REVIEW", "REJECTED"}
  /\ revision[v] = "REVIEW"
  /\ desk' = [desk EXCEPT ![o] = [NoDesk EXCEPT !.pc = "rejecting", !.version = v,
                                                !.seen = selection]]
  /\ UNCHANGED <<cdraft, selection, revision, approvals, snapshots>>

reject_image_background_revision(o) ==
  /\ desk[o].pc = "rejecting"
  /\ revision' = [revision EXCEPT ![desk[o].version] = "REJECTED"]
  /\ selection' = IF desk[o].seen = desk[o].version THEN "original" ELSE selection
  /\ Close(o)
  /\ UNCHANGED <<cdraft, approvals, snapshots>>

-----------------------------------------------------------------------------
Identity(a) == [version |-> a.version, creative |-> a.creative]

(* build_publication_candidate and its preflight: the approval's version is    *)
(* the active one of a draft that is approved.                                 *)
ReadSnapshot(o, a) ==
  /\ desk[o].pc = "idle"
  /\ cdraft = "APPROVED"
  /\ selection = a.version /\ Reviewable(a.version)
  /\ Identity(a) \notin snapshots
  /\ desk' = [desk EXCEPT ![o] = [NoDesk EXCEPT !.pc = "snapshot", !.version = a.version,
                                                !.shown = a.creative]]
  /\ UNCHANGED <<cdraft, selection, revision, approvals, snapshots>>

(* The fingerprint is unique: the second insert of one identity rolls back.    *)
create_snapshot(o) ==
  /\ desk[o].pc = "snapshot"
  /\ snapshots' = snapshots \cup {[version |-> desk[o].version, creative |-> desk[o].shown]}
  /\ Close(o)
  /\ UNCHANGED <<cdraft, selection, revision, approvals>>

(* The page is closed, or the request fails before its commit.                 *)
LeaveDesk(o) ==
  /\ desk[o].pc # "idle"
  /\ Close(o)
  /\ UNCHANGED <<cdraft, selection, revision, approvals, snapshots>>

CRNext ==
  \/ \E v \in Revisions : Regenerate(v)
  \/ return_to_review
  \/ \E o \in Operators :
       \/ list_proposals(o) \/ decide(o) \/ select_version(o)
       \/ reject_image_background_revision(o) \/ create_snapshot(o) \/ LeaveDesk(o)
       \/ \E d \in {"APPROVED", "REJECTED"} : ReadDecision(o, d)
       \/ \E v \in Versions : ReadSelection(o, v)
       \/ \E v \in Backgrounds : ReadRejection(o, v)
       \/ \E a \in Approved : ReadSnapshot(o, a)

CRSpec == CRInit /\ [][CRNext]_reviewVars

-----------------------------------------------------------------------------
ReviewTypeOK ==
  /\ cdraft \in {"REVIEW", "APPROVED", "REJECTED"}
  /\ selection \in Versions
  /\ revision \in [Revisions -> {"NONE", "REVIEW", "REJECTED"}]
  /\ snapshots \subseteq [version : Versions, creative : Versions]

(* Two operators may decide at once and leave a rejected draft with an approval*)
(* on record; return_to_review must then refuse it. A draft the human queue    *)
(* offers for a decision has never been approved and has no publication.       *)
ReviewUndecided == cdraft = "REVIEW" => Approved = {} /\ snapshots = {}

(* docs/DECISIONS.md: approval binds the exact selected revision or original   *)
(* version and creative. So an approval of the original binds the original's   *)
(* artwork, and not that of a version nobody has active any more.              *)
ApprovalExact == \A a \in Approved : a.version = "original" => a.creative = "original"

-----------------------------------------------------------------------------
(* The inductive invariant of ReviewUndecided.                                 *)
Desks == [pc : {"idle", "looking", "deciding", "selecting", "rejecting", "snapshot"},
          shown : Versions, version : Versions, seen : Versions,
          decision : {"none", "APPROVED", "REJECTED"}]

DeskShapes ==
  /\ desk \in [Operators -> Desks]
  /\ approvals \subseteq
       [decision : {"APPROVED"}, version : Versions, creative : Versions]
       \cup {[decision |-> "REJECTED", version |-> "original", creative |-> "none"]}

Deciding     == \A o \in Operators : desk[o].pc = "deciding" =>
                  desk[o].decision \in {"APPROVED", "REJECTED"}
Snapshotting == \A o \in Operators : desk[o].pc = "snapshot" => Approved # {}

ReviewInv == ReviewTypeOK /\ DeskShapes /\ Deciding /\ Snapshotting /\ ReviewUndecided
=============================================================================
