------------------------ MODULE BoundedBatch_proofs --------------------------
(* Proofs about BoundedBatch, for every set of executors, every target and     *)
(* every number of faults: its types; calls are admitted, a closed batch       *)
(* leaves no permit behind and no executor leaves owning it; one entry at a    *)
(* time is in doubt, and the database guard never refuses.                     *)
EXTENDS BoundedBatch, FiniteSetTheorems, TLAPS

States == {"OPEN", "PREPARING", "READY", "RUNNING"} \cup TERMINAL
Owners == Executors \cup {None}
Leases == {"none", "live", "expired"}
BatchType == [state : States, open : BOOLEAN, used : 0..Target, owner : Owners, lease : Leases]
OutcomeType == [Slots -> {"none", "PUBLISHED", "FAILED", "UNKNOWN"}]
PermitType == [Slots -> {"none", "ACTIVE", "CONSUMED", "REVOKED"}]
RunType == [owner : Owners, stale : BOOLEAN]

-----------------------------------------------------------------------------
(* The few ways a step writes a record.                                        *)

LEMMA BatchFields ==
  ASSUME batch \in BatchType
  PROVE  /\ batch.state \in States /\ batch.open \in BOOLEAN /\ batch.used \in 0..Target
         /\ batch.owner \in Owners /\ batch.lease \in Leases
  BY DEF BatchType

LEMMA ClosedBatch ==
  ASSUME batch \in BatchType, NEW st \in States
  PROVE  LET b == [batch EXCEPT !.state = st, !.open = FALSE, !.owner = None, !.lease = "none"]
         IN  b \in BatchType /\ b.state = st /\ b.open = FALSE /\ b.owner = None
  BY DEF BatchType, Owners, Leases

LEMMA FrozenBatch ==
  ASSUME batch \in BatchType
  PROVE  LET b == [batch EXCEPT !.state = "PREPARING", !.lease = "live"]
         IN  b \in BatchType /\ b.state = "PREPARING" /\ b.open = batch.open /\ b.owner = batch.owner
  BY DEF BatchType, States, Leases

LEMMA SealedBatch ==
  ASSUME batch \in BatchType
  PROVE  LET b == [batch EXCEPT !.state = "READY", !.open = TRUE]
         IN  b \in BatchType /\ b.state = "READY" /\ b.owner = batch.owner
  BY DEF BatchType, States

LEMMA OwnedBatch ==
  ASSUME batch \in BatchType, NEW e \in Executors
  PROVE  LET b == [batch EXCEPT !.state = "RUNNING", !.owner = e, !.lease = "live"]
         IN  b \in BatchType /\ b.state = "RUNNING" /\ b.owner = e /\ b.open = batch.open
  BY DEF BatchType, States, Owners, Leases

LEMMA FreedBatch ==
  ASSUME batch \in BatchType
  PROVE  LET b == [batch EXCEPT !.owner = None, !.lease = "none"]
         IN  b \in BatchType /\ b.state = batch.state /\ b.owner = None /\ b.open = batch.open
  BY DEF BatchType, Owners, Leases

LEMMA ExpiredBatch ==
  ASSUME batch \in BatchType
  PROVE  LET b == [batch EXCEPT !.lease = "expired"]
         IN  b \in BatchType /\ b.state = batch.state /\ b.owner = batch.owner /\ b.open = batch.open
  BY DEF BatchType, Leases

LEMMA CountedBatch ==
  ASSUME batch \in BatchType, NEW u \in 0..Target, NEW o \in BOOLEAN
  PROVE  LET b == [batch EXCEPT !.used = u, !.open = o]
         IN  b \in BatchType /\ b.state = batch.state /\ b.owner = batch.owner /\ b.open = o
  BY DEF BatchType

LEMMA FreshRun ==
  ASSUME NEW e \in Owners, NEW b \in BOOLEAN
  PROVE  [owner |-> e, stale |-> b] \in RunType
  BY DEF RunType

LEMMA AgedRun ==
  ASSUME run \in RunType
  PROVE  [run EXCEPT !.stale = TRUE] \in RunType
  BY DEF RunType

LEMMA TypeNames ==
  ASSUME TypeOK
  PROVE  /\ batch \in BatchType /\ outcome \in OutcomeType /\ permit \in PermitType
         /\ run \in RunType /\ lock \in Owners
  BY DEF TypeOK, BatchType, OutcomeType, PermitType, RunType, Owners, States, Leases

-----------------------------------------------------------------------------
(* Closing.                                                                    *)

(* What closing does to the batch, whichever state it ends in.                 *)
Closing ==
  /\ batch' \in BatchType /\ batch'.state \in TERMINAL
  /\ batch'.open = FALSE /\ batch'.owner = None
  /\ control' = "PAUSED"
  /\ permit' \in PermitType
  /\ \A s \in Slots : permit'[s] = "ACTIVE" => permit[s] = "ACTIVE" /\ s \in reserved

LEMMA CloseCloses ==
  ASSUME TypeOK, NEW st \in TERMINAL, Close(st)
  PROVE  Closing
<1>1. batch' \in BatchType /\ batch'.state = st /\ batch'.open = FALSE /\ batch'.owner = None
  BY TypeNames, ClosedBatch DEF Close, States
<1>2. permit \in PermitType BY TypeNames
<1>3. /\ permit' \in PermitType
      /\ \A s \in Slots : permit'[s] = "ACTIVE" => permit[s] = "ACTIVE" /\ s \in reserved
  BY <1>2 DEF Close, PermitType
<1> QED BY <1>1, <1>3 DEF Closing, Close

LEMMA VerdictCases == Verdict = "none" \/ Verdict \in TERMINAL
  BY DEF Verdict, TERMINAL

LEMMA ObservedType == TypeOK => Observed \in OutcomeType
<1> SUFFICES ASSUME TypeOK PROVE Observed \in OutcomeType OBVIOUS
<1>1. outcome \in OutcomeType BY TypeNames
<1>2. \A s \in Slots : Seen(s) \in {"PUBLISHED", "FAILED", "UNKNOWN", "pending"} BY DEF Seen
<1> QED BY <1>1, <1>2 DEF Observed, OutcomeType

KeptOrClosed == KeepBatch \/ Closing

LEMMA ObserveKeepsOrCloses ==
  ASSUME TypeOK, Observe
  PROVE  KeptOrClosed /\ outcome' \in OutcomeType /\ (Ended => batch'.state \in TERMINAL)
<1>1. outcome' \in OutcomeType BY ObservedType DEF Observe
<1>2. CASE Verdict = "none" BY <1>1, <1>2 DEF Observe, KeptOrClosed, Ended, KeepBatch
<1>3. CASE Verdict # "none"
  <2>1. Closing BY <1>3, VerdictCases, CloseCloses DEF Observe
  <2> QED BY <1>1, <2>1 DEF KeptOrClosed, Closing
<1> QED BY <1>2, <1>3

LEMMA CloseIfOpenKeepsOrCloses ==
  ASSUME TypeOK, CloseIfOpen
  PROVE  KeptOrClosed /\ batch'.state \in TERMINAL
<1>1. CASE batch.state \in TERMINAL BY <1>1 DEF CloseIfOpen, KeptOrClosed, KeepBatch
<1>2. CASE batch.state \notin TERMINAL
  <2>1. Closing BY <1>2, CloseCloses DEF CloseIfOpen, TERMINAL
  <2> QED BY <2>1 DEF KeptOrClosed, Closing
<1> QED BY <1>1, <1>2

LEMMA CloseDoubtfulKeepsOrCloses ==
  ASSUME TypeOK, CloseDoubtful
  PROVE  KeptOrClosed /\ batch'.state \in TERMINAL
<1>1. CASE batch.state \in {"FAILED", "COMPLETED"}
  BY <1>1 DEF CloseDoubtful, KeptOrClosed, KeepBatch, TERMINAL
<1>2. CASE batch.state \notin {"FAILED", "COMPLETED"}
  <2>1. Closing BY <1>2, CloseCloses DEF CloseDoubtful, TERMINAL
  <2> QED BY <2>1 DEF KeptOrClosed, Closing
<1> QED BY <1>1, <1>2

LEMMA KeptOrClosedType ==
  ASSUME TypeOK, KeptOrClosed
  PROVE  batch' \in BatchType /\ permit' \in PermitType /\ control' \in {"PAUSED", "LIVE"}
<1>1. CASE KeepBatch BY <1>1, TypeNames DEF KeepBatch, TypeOK
<1>2. CASE Closing BY <1>2 DEF Closing
<1> QED BY <1>1, <1>2 DEF KeptOrClosed

-----------------------------------------------------------------------------
(* Types.                                                                      *)

(* The slot a preparer or an executor works on is one of the manifest's.       *)
Placed ==
  /\ prep.at \in {"idle", "check", "exec", "bind"} => prep.slot \in Slots
  /\ \A e \in Executors : pc[e] = "claim" => cur[e] \in Slots

PrepType == [at : {"idle", "check", "exec", "bind", "seal", "fail", "done", "dead", "late"},
             slot : 1..(Target + 1)]

LEMMA MovedPrep ==
  ASSUME prep \in PrepType, NEW l \in {"exec", "fail", "bind", "done", "dead", "late", "check"}
  PROVE  LET p == [prep EXCEPT !.at = l] IN p \in PrepType /\ p.at = l /\ p.slot = prep.slot
  BY DEF PrepType

(* TypeOK with its record and function sets named, and what makes it inductive. *)
Typed ==
  /\ batch \in BatchType /\ outcome \in OutcomeType /\ permit \in PermitType
  /\ run \in RunType
  /\ bound \in SUBSET Slots /\ reserved \in SUBSET Slots /\ marked \in SUBSET Slots
  /\ pub \in [Slots -> {"none", "SCHEDULED", "CANCELLED", "PUBLISHING", "PUBLISHED",
                        "PUBLISH_FAILED", "PUBLISH_UNKNOWN"}]
  /\ control \in {"PAUSED", "LIVE"}
  /\ lock \in Owners
  /\ prep \in PrepType
  /\ pc \in [Executors -> Labels]
  /\ cur \in [Executors -> 0..Target]
  /\ todo \in [Executors -> SUBSET Slots]
  /\ faults \in 0..MaxFaults
  /\ Placed

LEMMA TypedIsTypeOK == Typed => TypeOK
  BY DEF Typed, TypeOK, PrepType, BatchType, OutcomeType, PermitType, RunType, Owners, States, Leases

LEMMA TypedInit == Init => Typed
<1> SUFFICES ASSUME Init PROVE Typed OBVIOUS
<1> USE TargetAssumption DEF Init
<1>1. batch \in BatchType BY DEF BatchType, States, Owners, Leases
<1>2. outcome \in OutcomeType /\ permit \in PermitType BY DEF OutcomeType, PermitType
<1>3. run \in RunType BY FreshRun DEF NoRun, Owners
<1>4. prep \in PrepType BY DEF PrepType
<1>5. Placed BY DEF Placed, Slots
<1> QED BY <1>1, <1>2, <1>3, <1>4, <1>5 DEF Typed, Owners, Labels, Slots

LEMMA TypedPreparer ==
  ASSUME Typed, Freeze \/ Check \/ Execute \/ Bind \/ Seal \/ PrepareFailed \/ PreparerDies
  PROVE  Typed'
<1> USE DEF Typed, Placed, ledger, posts, locals
<1>1. CASE Freeze BY <1>1, FrozenBatch, MovedPrep DEF Freeze
<1>2. CASE Check BY <1>2, MovedPrep DEF Check
<1>3. CASE Execute
  <2>1. permit' \in PermitType BY <1>3 DEF Execute, PermitType
  <2>2. \E l \in {"bind", "fail"} : prep' = [prep EXCEPT !.at = l] BY <1>3 DEF Execute
  <2>3. prep.slot \in Slots BY <1>3 DEF Execute
  <2>4. prep' \in PrepType /\ prep'.slot \in Slots BY <2>2, <2>3, MovedPrep
  <2> QED BY <1>3, <2>1, <2>4 DEF Execute
<1>4. CASE Bind
  <2>1. prep.slot \in Slots BY <1>4 DEF Bind
  <2>2. bound' \in SUBSET Slots BY <1>4, <2>1 DEF Bind
  <2>3. prep' \in PrepType /\ (prep'.at \in {"idle", "check", "exec", "bind"} => prep'.slot \in Slots)
    <3>1. CASE prep' = [prep EXCEPT !.at = "fail"] BY <3>1, MovedPrep
    <3>2. CASE prep' = [slot |-> prep.slot + 1, at |-> IF prep.slot = Target THEN "seal" ELSE "check"]
      BY <2>1, <3>2, TargetAssumption DEF PrepType, Slots
    <3> QED BY <1>4, <3>1, <3>2 DEF Bind
  <2> QED BY <1>4, <2>2, <2>3 DEF Bind
<1>5. CASE Seal BY <1>5, SealedBatch, MovedPrep DEF Seal
<1>6. CASE PrepareFailed
  <2>1. Closing BY <1>6, TypedIsTypeOK, CloseCloses DEF PrepareFailed, TERMINAL
  <2> QED BY <1>6, <2>1, MovedPrep DEF PrepareFailed, Closing
<1>7. CASE PreparerDies
  <2>1. faults' \in 0..MaxFaults BY <1>7, TargetAssumption DEF PreparerDies, Fault
  <2>2. \E l \in {"late", "dead"} : prep' = [prep EXCEPT !.at = l] BY <1>7 DEF PreparerDies
  <2>3. prep' \in PrepType /\ prep'.at \in {"late", "dead"} BY <2>2, MovedPrep
  <2> QED BY <1>7, <2>1, <2>3 DEF PreparerDies
<1> QED BY <1>1, <1>2, <1>3, <1>4, <1>5, <1>6, <1>7

LEMMA TookSlot ==
  ASSUME cur \in [Executors -> 0..Target], NEW e \in Executors, NEW s \in Slots,
         cur' = [cur EXCEPT ![e] = s]
  PROVE  /\ cur' \in [Executors -> 0..Target]
         /\ \A f \in Executors : f # e => cur'[f] = cur[f]
         /\ cur'[e] = s
  BY TargetAssumption DEF Slots

LEMMA DroppedSlot ==
  ASSUME todo \in [Executors -> SUBSET Slots], NEW e \in Executors, NEW s,
         todo' = [todo EXCEPT ![e] = @ \ {s}]
  PROVE  todo' \in [Executors -> SUBSET Slots]
<1> DEFINE S == todo[e] \ {s}
<1>1. S \in SUBSET Slots OBVIOUS
<1>2. todo' = [todo EXCEPT ![e] = S] OBVIOUS
<1> HIDE DEF S
<1> QED BY <1>1, <1>2

LEMMA TypedLoop ==
  ASSUME Typed, NEW e \in Executors, Loop(e)
  PROVE  Typed'
<1>1. UNCHANGED <<batch, bound, reserved, outcome, pub, permit, marked, control, lock, run, prep, faults>>
  BY DEF Loop, ledger, posts
<1>2. CASE Goto(e, "after") /\ UNCHANGED <<cur, todo>>
  BY <1>1, <1>2 DEF Goto, Typed, Placed, Labels
<1>3. ASSUME NEW s \in todo[e],
             todo' = [todo EXCEPT ![e] = @ \ {s}],
             cur' = [cur EXCEPT ![e] = s],
             Goto(e, "claim") \/ Goto(e, "denied")
      PROVE  Typed'
  <2>1. s \in Slots BY DEF Typed
  <2>2. /\ cur' \in [Executors -> 0..Target]
        /\ \A f \in Executors : f # e => cur'[f] = cur[f]
        /\ cur'[e] = s
    BY <1>3, <2>1, TookSlot DEF Typed
  <2>3. todo' \in [Executors -> SUBSET Slots] BY <1>3, DroppedSlot DEF Typed
  <2>4. pc' \in [Executors -> Labels] /\ \A f \in Executors : f # e => pc'[f] = pc[f]
    BY <1>3 DEF Typed, Goto, Labels
  <2>5. \A f \in Executors : pc'[f] = "claim" => cur'[f] \in Slots
    BY <2>1, <2>2, <2>4 DEF Typed, Placed
  <2> QED BY <1>1, <2>2, <2>3, <2>4, <2>5 DEF Typed, Placed
<1> DEFINE Takes(s) == /\ todo' = [todo EXCEPT ![e] = @ \ {s}]
                       /\ cur' = [cur EXCEPT ![e] = s]
                       /\ Goto(e, "claim") \/ Goto(e, "denied")
<1>4. (Goto(e, "after") /\ UNCHANGED <<cur, todo>>) \/ \E s \in todo[e] : Takes(s)
  BY DEF Loop
<1>5. \A s \in todo[e] : Takes(s) => Typed' BY <1>3
<1> HIDE DEF Takes
<1> QED BY <1>2, <1>4, <1>5

LEMMA TypedExecutor ==
  ASSUME Typed, NEW e \in Executors,
         \/ acquire_batch(e) \/ StartRun(e) \/ manifest_candidates(e) \/ Loop(e) \/ Claim(e)
         \/ Verify(e) \/ Failing(e) \/ Boundary(e) \/ LockCall(e) \/ Conflict(e) \/ Call(e)
         \/ ObserveOutcome(e) \/ Reconcile(e) \/ Pause(e) \/ Settle(e) \/ Denied(e)
         \/ After(e) \/ Finish(e) \/ Release(e) \/ LetGo(e) \/ Wrap(e) \/ Incomplete(e)
         \/ Raise(e) \/ Exception(e) \/ Die(e)
  PROVE  Typed'
<1> USE TargetAssumption DEF Typed, Placed, ledger, posts, locals, Goto, Labels
<1>0. TypeOK BY TypedIsTypeOK
<1>a. ASSUME NEW st \in TERMINAL, Close(st)
      PROVE  batch' \in BatchType /\ permit' \in PermitType /\ control' \in {"PAUSED", "LIVE"}
  BY <1>0, <1>a, CloseCloses DEF Closing
<1>b. Observed \in OutcomeType BY <1>0, ObservedType
<1>c. Verdict # "none" => Verdict \in TERMINAL BY VerdictCases
<1>d. {"PAUSED", "FAILED"} \subseteq TERMINAL BY DEF TERMINAL
<1>e. e \in Owners /\ None \in Owners BY DEF Owners
<1>1. CASE acquire_batch(e)
  <2>1. CASE Observe /\ UNCHANGED pc
    BY <1>1, <2>1, <1>0, ObserveKeepsOrCloses, KeptOrClosedType DEF acquire_batch
  <2>2. CASE outcome' = Observed /\ Close("PAUSED") /\ UNCHANGED pc
    BY <1>1, <2>2, <1>a, <1>b, <1>d DEF acquire_batch
  <2>3. CASE /\ outcome' = Observed
             /\ batch' = [batch EXCEPT !.state = "RUNNING", !.owner = e, !.lease = "live"]
             /\ Goto(e, "start")
             /\ UNCHANGED <<control, permit>>
    BY <1>1, <2>3, <1>b, OwnedBatch DEF acquire_batch
  <2> QED BY <1>1, <2>1, <2>2, <2>3 DEF acquire_batch
<1>2. CASE StartRun(e) BY ZenonT(30), <1>2, <1>e, FreshRun DEF StartRun
<1>3. CASE manifest_candidates(e)
  <2>1. outcome' \in OutcomeType BY <1>3, <1>b DEF manifest_candidates
  <2>2. batch' \in BatchType /\ permit' \in PermitType /\ control' \in {"PAUSED", "LIVE"}
    BY <1>3, <1>a, <1>c, <1>d DEF manifest_candidates, KeepBatch
  <2>3. pc' \in [Executors -> Labels] BY <1>3 DEF manifest_candidates
  <2>4. todo' \in [Executors -> SUBSET Slots]
    <3>1. \A left \in SUBSET Slots : \A S \in SUBSET left : S \in SUBSET Slots OBVIOUS
    <3> QED BY <1>3, <3>1 DEF manifest_candidates
  <2> QED BY <1>3, <2>1, <2>2, <2>3, <2>4 DEF manifest_candidates
<1>4. CASE Loop(e) BY <1>4, TypedLoop
<1>5. CASE Claim(e)
  <2>0. CASE CloseIfOpen /\ Goto(e, "denied") /\ UNCHANGED <<outcome, reserved, pub>>
    BY <1>5, <2>0, <1>0, CloseIfOpenKeepsOrCloses, KeptOrClosedType DEF Claim
  <2>1. CASE Observe /\ Goto(e, "denied") /\ UNCHANGED <<reserved, pub>>
    BY <1>5, <2>1, <1>0, ObserveKeepsOrCloses, KeptOrClosedType DEF Claim
  <2>2. CASE /\ Admits(e) /\ cur[e] \notin reserved
             /\ permit[cur[e]] = "ACTIVE"
             /\ outcome' = Observed
             /\ reserved' = reserved \cup {cur[e]}
             /\ batch' = [batch EXCEPT !.used = @ + 1, !.open = batch.used + 1 < Target]
             /\ pub' = [pub EXCEPT ![cur[e]] = "PUBLISHING"]
             /\ permit' = [permit EXCEPT ![cur[e]] = "CONSUMED"]
             /\ Goto(e, "verify")
             /\ UNCHANGED control
    <3>1. batch' \in BatchType
      <4> DEFINE o == batch.used + 1 < Target
      <4>1. batch' = [batch EXCEPT !.used = batch.used + 1, !.open = o] BY <2>2
      <4>2. batch.used + 1 \in 0..Target BY <2>2, BatchFields DEF Admits, AdmissionOpen
      <4>3. o \in BOOLEAN OBVIOUS
      <4> HIDE DEF o
      <4> QED BY <4>1, <4>2, <4>3, CountedBatch
    <3>2. permit' \in PermitType BY <2>2 DEF PermitType
    <3>3. cur[e] \in Slots BY <1>5 DEF Claim
    <3>4. reserved' \in SUBSET Slots BY <2>2, <3>3
    <3> QED BY <1>5, <2>2, <3>1, <3>2, <3>4, <1>b DEF Claim
  <2>3. CASE outcome' = Observed /\ (Close("PAUSED") \/ Close("FAILED"))
             /\ Goto(e, "denied") /\ UNCHANGED <<reserved, pub>>
    BY <1>5, <2>3, <1>a, <1>b, <1>d DEF Claim
  <2>4. CASE Goto(e, "denied") /\ UNCHANGED <<batch, outcome, reserved, pub, permit, control>>
    BY <1>5, <2>4 DEF Claim
  <2> QED BY <1>5, <2>0, <2>1, <2>2, <2>3, <2>4 DEF Claim
<1>6. CASE Verify(e) BY <1>6 DEF Verify
<1>7. CASE Failing(e) BY <1>7, <1>0, ObserveKeepsOrCloses, KeptOrClosedType DEF Failing
<1>8. CASE Boundary(e) BY <1>8 DEF Boundary, check_provider_boundary
<1>9. CASE LockCall(e) BY <1>9, <1>e DEF LockCall
<1>10. CASE Conflict(e)
  BY <1>10, <1>a, <1>b, <1>c DEF Conflict
<1>11. CASE Call(e) BY ZenonT(30), <1>11, <1>e DEF Call
<1>12. CASE ObserveOutcome(e)
  BY <1>12, <1>0, ObserveKeepsOrCloses, KeptOrClosedType DEF ObserveOutcome
<1>13. CASE Reconcile(e) BY <1>13 DEF Reconcile
<1>14. CASE Pause(e) BY <1>14 DEF Pause
<1>15. CASE Settle(e) BY <1>15, <1>0, ObserveKeepsOrCloses, KeptOrClosedType DEF Settle
<1>16. CASE Denied(e) BY <1>16, <1>0, CloseIfOpenKeepsOrCloses, KeptOrClosedType DEF Denied
<1>17. CASE After(e) BY <1>17, <1>0, ObserveKeepsOrCloses, KeptOrClosedType DEF After
<1>f. ASSUME FinishRun(e) PROVE run' \in RunType BY <1>f, <1>e, FreshRun DEF FinishRun, NoRun
<1>18. CASE Finish(e) BY <1>18, <1>f DEF Finish
<1>19. CASE Release(e) BY <1>19, <1>0, ObserveKeepsOrCloses, KeptOrClosedType DEF Release
<1>20. CASE LetGo(e)
  <2>1. CASE CloseDoubtful
    BY <1>20, <2>1, <1>0, CloseDoubtfulKeepsOrCloses, KeptOrClosedType DEF LetGo
  <2>2. CASE ~CloseDoubtful BY <1>20, <2>2, FreedBatch DEF LetGo
  <2> QED BY <2>1, <2>2
<1>21. CASE Wrap(e) BY <1>21, <1>0, ObserveKeepsOrCloses, KeptOrClosedType DEF Wrap
<1>22. CASE Incomplete(e)
  BY <1>22, <1>0, CloseDoubtfulKeepsOrCloses, KeptOrClosedType DEF Incomplete
<1>23. CASE Raise(e)
  BY <1>23, <1>0, <1>f, CloseIfOpenKeepsOrCloses, KeptOrClosedType DEF Raise
<1>24. CASE Exception(e) BY <1>24, <1>e DEF Exception, Fault
<1>25. CASE Die(e) BY <1>25, <1>e DEF Die, Fault
<1> QED BY <1>1, <1>2, <1>3, <1>4, <1>5, <1>6, <1>7, <1>8, <1>9, <1>10, <1>11, <1>12, <1>13,
           <1>14, <1>15, <1>16, <1>17, <1>18, <1>19, <1>20, <1>21, <1>22, <1>23, <1>24, <1>25

LEMMA TypedRest ==
  ASSUME Typed,
         \/ close_batch \/ LeaseExpires \/ RunAges \/ set_control_state
         \/ \E s \in Slots : Withdraw(s) \/ ReconcileUnknown(s) \/ Recover(s)
         \/ UNCHANGED vars
  PROVE  Typed'
<1> USE DEF Typed, Placed, ledger, posts, locals
<1>1. CASE close_batch
  <2>1. Closing BY <1>1, TypedIsTypeOK, CloseCloses DEF close_batch, TERMINAL
  <2> QED BY <1>1, <2>1 DEF close_batch, Closing
<1>2. CASE LeaseExpires BY <1>2, ExpiredBatch DEF LeaseExpires
<1>3. CASE RunAges BY <1>3, AgedRun DEF RunAges
<1>4. CASE set_control_state BY <1>4 DEF set_control_state
<1>5. ASSUME NEW s \in Slots, Withdraw(s) PROVE Typed'
  <2>1. permit' \in PermitType BY <1>5 DEF Withdraw, PermitType
  <2> QED BY <1>5, <2>1 DEF Withdraw
<1>6. ASSUME NEW s \in Slots, ReconcileUnknown(s) PROVE Typed' BY <1>6 DEF ReconcileUnknown
<1>7. ASSUME NEW s \in Slots, Recover(s) PROVE Typed' BY <1>7 DEF Recover
<1>8. CASE UNCHANGED vars BY <1>8 DEF vars
<1> QED BY <1>1, <1>2, <1>3, <1>4, <1>5, <1>6, <1>7, <1>8

LEMMA TypeStep == Typed /\ [Next]_vars => Typed'
  BY TypedPreparer, TypedExecutor, TypedRest DEF Next

(* Every row and local of a bounded batch has its type, for any set of         *)
(* executors and any target.                                                   *)
THEOREM BatchTypes == Spec => []TypeOK
<1>1. Init => Typed BY TypedInit
<1>2. Typed => TypeOK BY TypedIsTypeOK
<1> QED BY <1>1, <1>2, TypeStep, PTL DEF Spec

-----------------------------------------------------------------------------
(* Safety.                                                                     *)

(* Between its claim and the answer of the provider an executor works on an    *)
(* entry of its own: the reservation in Claim happens once per entry.          *)
Flight == {"verify", "boundary", "locking", "call"}

Mine ==
  \A e \in Executors : pc[e] \in Flight =>
    /\ cur[e] \in reserved
    /\ \A f \in Executors : pc[f] \in Flight /\ cur[f] = cur[e] => f = e

CallHoldsLock == \A e \in Executors : lock = e <=> pc[e] = "call"

(* Executors work on a batch only when its preparer is done with it.           *)
OpenIsReady == batch.open => batch.state \in {"READY", "RUNNING"}
Prepared == batch.state \in {"READY", "RUNNING"} \/ reserved # {} => prep.at = "done"
BoundBefore == \A s \in bound : s < prep.slot

Unowned == batch.state \in TERMINAL => batch.owner = None
Spent == \A s \in reserved : permit[s] # "ACTIVE"

Inv ==
  /\ Mine /\ CallHoldsLock /\ OpenIsReady /\ Prepared /\ BoundBefore /\ Unowned /\ Spent
  /\ CallIsAdmitted /\ PermitsDieWithBatch /\ NobodyLeavesOwning

LEMMA InvInit == Init => Inv
<1> SUFFICES ASSUME Init PROVE Inv OBVIOUS
<1> USE ExecutorsAssumption DEF Init
<1>1. Mine /\ CallHoldsLock BY DEF Mine, CallHoldsLock, Flight
<1>2. OpenIsReady /\ Prepared /\ BoundBefore /\ Unowned /\ Spent
  BY DEF OpenIsReady, Prepared, BoundBefore, Unowned, Spent, TERMINAL
<1>3. CallIsAdmitted /\ NobodyLeavesOwning BY DEF CallIsAdmitted, NobodyLeavesOwning
<1>4. PermitsDieWithBatch BY DEF PermitsDieWithBatch, TERMINAL
<1> QED BY <1>1, <1>2, <1>3, <1>4 DEF Inv

-----------------------------------------------------------------------------
(* Most steps are harmless: they close the batch or leave it open, never give  *)
(* a permit back, take no lock, and change nothing a call in flight relies on. *)

SameBatch ==
  /\ batch'.state = batch.state /\ batch'.open = batch.open
  /\ batch'.owner \in {batch.owner, None}
  /\ \A s \in Slots : permit'[s] = "ACTIVE" => permit[s] = "ACTIVE"

(* Another executor's locals stay; this one's leave no call, no ownership.     *)
Unhurt(f) ==
  \/ pc'[f] = pc[f] /\ cur'[f] = cur[f]
  \/ /\ pc'[f] # "call"
     /\ pc'[f] \in Flight => pc[f] \in Flight /\ cur'[f] = cur[f]
     /\ pc'[f] = "idle" => batch'.owner # f

Harmless ==
  /\ UNCHANGED <<bound, reserved, prep>>
  /\ SameBatch \/ Closing
  /\ \A f \in Executors : Unhurt(f)
  /\ \A f \in Executors : lock' = f <=> pc'[f] = "call"
  /\ \A f \in Executors : lock' = f =>
       /\ pc[f] = "call" /\ lock = f
       /\ batch'.state = batch.state /\ batch'.owner = batch.owner /\ control' = control
       /\ pub'[cur[f]] = pub[cur[f]]

LEMMA HarmlessStep ==
  ASSUME Typed, Inv, Harmless
  PROVE  Inv'
<1> USE DEF Inv
<1>1. Mine' BY DEF Harmless, Unhurt, Mine
<1>2. CallHoldsLock' BY DEF Harmless, CallHoldsLock
<1>3. OpenIsReady' BY DEF Harmless, SameBatch, Closing, OpenIsReady
<1>4. Prepared' BY DEF Harmless, SameBatch, Closing, Prepared, TERMINAL
<1>5. BoundBefore' BY DEF Harmless, BoundBefore
<1>6. Unowned' BY DEF Harmless, SameBatch, Closing, Unowned
<1>7. Spent' 
  <2>1. reserved \subseteq Slots BY DEF Typed
  <2> QED BY <2>1 DEF Harmless, SameBatch, Closing, Spent
<1>8. CallIsAdmitted'
  <2> SUFFICES ASSUME NEW e \in Executors, lock' = e
               PROVE  /\ batch'.state = "RUNNING" /\ batch'.owner = e /\ control' = "LIVE"
                      /\ cur'[e] \in reserved' /\ pub'[cur'[e]] = "PUBLISHING"
    BY DEF CallIsAdmitted
  <2>1. lock = e /\ pc[e] = "call" /\ pc'[e] = "call" BY DEF Harmless
  <2>2. cur'[e] = cur[e] BY <2>1 DEF Harmless, Unhurt
  <2> QED BY <2>1, <2>2 DEF Harmless, CallIsAdmitted
<1>9. NobodyLeavesOwning'
  <2> SUFFICES ASSUME NEW e \in Executors, batch'.owner = e PROVE pc'[e] # "idle"
    BY DEF NobodyLeavesOwning
  <2>1. batch.owner = e BY ExecutorsAssumption DEF Harmless, SameBatch, Closing
  <2> QED BY <2>1 DEF Harmless, Unhurt, NobodyLeavesOwning
<1>10. PermitsDieWithBatch'
  <2> SUFFICES ASSUME batch'.state \in TERMINAL, NEW s \in Slots, permit'[s] = "ACTIVE"
               PROVE  s \notin bound' /\ prep'.slot = s /\ prep'.at \in {"bind", "fail", "late"}
    BY DEF PermitsDieWithBatch
  <2>1. CASE SameBatch BY <2>1 DEF SameBatch, PermitsDieWithBatch, Harmless
  <2>2. CASE Closing BY <2>2 DEF Closing, Spent
  <2> QED BY <2>1, <2>2 DEF Harmless
<1> QED BY <1>1, <1>2, <1>3, <1>4, <1>5, <1>6, <1>7, <1>8, <1>9, <1>10

(* The same for a step of one executor, from its new label.                    *)
LEMMA ExecutorStep ==
  ASSUME Typed, Inv, NEW e \in Executors, NEW l \in Labels \ {"call"},
         Goto(e, l),
         UNCHANGED <<bound, reserved, prep>>,
         SameBatch \/ Closing,
         lock' = IF lock = e THEN None ELSE lock,
         \A f \in Executors : f # e => cur'[f] = cur[f],
         l \in Flight => pc[e] \in Flight /\ cur'[e] = cur[e],
         l = "idle" => batch'.owner # e,
         \A f \in Executors : f # e /\ lock = f =>
            /\ batch'.state = batch.state /\ batch'.owner = batch.owner /\ control' = control
            /\ pub'[cur[f]] = pub[cur[f]]
  PROVE  Inv'
<1>1. pc'[e] = l /\ \A f \in Executors : f # e => pc'[f] = pc[f] BY DEF Goto, Typed
<1>2. \A f \in Executors : Unhurt(f) BY <1>1 DEF Unhurt
<1>3. \A f \in Executors : lock' = f <=> pc'[f] = "call"
  BY <1>1, ExecutorsAssumption DEF Inv, CallHoldsLock
<1>4. \A f \in Executors : lock' = f => f # e /\ pc[f] = "call" /\ lock = f
  BY <1>1, <1>3, ExecutorsAssumption DEF Inv, CallHoldsLock
<1>5. Harmless BY <1>2, <1>3, <1>4 DEF Harmless
<1> QED BY <1>5, HarmlessStep

LEMMA NothingClosed ==
  ASSUME UNCHANGED <<batch, permit>>
  PROVE  SameBatch
  BY DEF SameBatch

(* While nobody holds the control and batch rows, a step may close the batch,  *)
(* write control and any publication.                                          *)
LEMMA UnlockedStep ==
  ASSUME Typed, Inv, NEW e \in Executors, NEW l \in Labels \ (Flight \cup {"idle"}),
         lock = None, Goto(e, l),
         UNCHANGED <<bound, reserved, prep, lock, cur>>,
         KeptOrClosed \/ UNCHANGED <<batch, permit>>
  PROVE  Inv'
<1>1. SameBatch \/ Closing BY NothingClosed DEF KeptOrClosed, KeepBatch
<1>2. lock' = IF lock = e THEN None ELSE lock OBVIOUS
<1>3. \A f \in Executors : lock # f BY ExecutorsAssumption
<1>4. l \in Labels \ {"call"} /\ l \notin Flight /\ l # "idle" BY DEF Flight
<1> QED BY <1>1, <1>2, <1>3, <1>4, ExecutorStep

(* An executor returns: the batch must be closed, or no longer its own.        *)
LEMMA ReturnStep ==
  ASSUME Typed, Inv, NEW e \in Executors, lock = None, Goto(e, "idle"),
         UNCHANGED <<bound, reserved, prep, lock, cur>>,
         SameBatch \/ Closing, batch'.owner # e
  PROVE  Inv'
<1>1. lock' = IF lock = e THEN None ELSE lock OBVIOUS
<1>2. \A f \in Executors : lock # f BY ExecutorsAssumption
<1>3. "idle" \in Labels \ {"call"} /\ "idle" \notin Flight BY DEF Labels, Flight
<1> QED BY <1>1, <1>2, <1>3, ExecutorStep

LEMMA EndedIsUnowned ==
  ASSUME Typed, Inv, NEW e \in Executors, KeptOrClosed, batch'.state \in TERMINAL
  PROVE  batch'.owner # e /\ (SameBatch \/ Closing)
<1>1. CASE KeepBatch
  BY <1>1, ExecutorsAssumption, NothingClosed DEF KeepBatch, Inv, Unowned
<1>2. CASE Closing BY <1>2, ExecutorsAssumption DEF Closing
<1> QED BY <1>1, <1>2 DEF KeptOrClosed

-----------------------------------------------------------------------------
(* The steps of the preparer.                                                  *)

LEMMA PreparerStep ==
  ASSUME Typed, Inv, Freeze \/ Check \/ Execute \/ Bind \/ Seal \/ PrepareFailed \/ PreparerDies
  PROVE  Inv'
<1> USE DEF Inv, ledger, posts, locals
<1>0. TypeOK BY TypedIsTypeOK
<1>1. UNCHANGED <<pc, cur, lock, reserved>>
  BY DEF Freeze, Check, Execute, Bind, Seal, PrepareFailed, PreparerDies
<1>2. Mine' /\ CallHoldsLock' BY <1>1 DEF Mine, CallHoldsLock
<1>a. CASE Freeze
  <2>1. /\ batch'.state = "PREPARING" /\ batch'.open = batch.open /\ batch'.owner = batch.owner
        /\ prep'.at = "check" /\ prep'.slot = prep.slot
        /\ batch.state = "OPEN" /\ prep.at = "idle" /\ lock = None
    BY <1>a, FrozenBatch, MovedPrep DEF Freeze, Typed
  <2>2. UNCHANGED <<bound, permit, pub, control>> BY <1>a DEF Freeze
  <2>3. OpenIsReady' /\ Prepared' /\ BoundBefore' /\ Unowned' /\ Spent'
    BY <1>1, <2>1, <2>2 DEF OpenIsReady, Prepared, BoundBefore, Unowned, Spent, TERMINAL
  <2>4. CallIsAdmitted' BY <1>1, <2>1, ExecutorsAssumption DEF CallIsAdmitted
  <2>5. PermitsDieWithBatch' BY <2>1 DEF PermitsDieWithBatch, TERMINAL
  <2>6. NobodyLeavesOwning' BY <1>1, <2>1 DEF NobodyLeavesOwning
  <2> QED BY <1>2, <2>3, <2>4, <2>5, <2>6
<1>b. CASE Check
  <2>1. /\ prep.at = "check" /\ prep'.at \in {"exec", "fail"} /\ prep'.slot = prep.slot
        /\ UNCHANGED <<batch, bound, permit, pub, control>>
    BY <1>b, MovedPrep DEF Check, Typed
  <2>2. OpenIsReady' /\ Prepared' /\ BoundBefore' /\ Unowned' /\ Spent'
    BY <1>1, <2>1 DEF OpenIsReady, Prepared, BoundBefore, Unowned, Spent
  <2>3. CallIsAdmitted' /\ NobodyLeavesOwning' BY <1>1, <2>1 DEF CallIsAdmitted, NobodyLeavesOwning
  <2>4. PermitsDieWithBatch' BY <2>1 DEF PermitsDieWithBatch
  <2> QED BY <1>2, <2>2, <2>3, <2>4
<1>c. CASE Execute
  <2>1. /\ prep.at = "exec" /\ prep'.at \in {"bind", "fail"} /\ prep'.slot = prep.slot
        /\ UNCHANGED <<batch, bound, control>>
    BY <1>c, MovedPrep, ZenonT(30) DEF Execute, Typed
  <2>2. reserved = {} /\ batch.state \notin {"READY", "RUNNING"} BY <2>1 DEF Prepared
  <2>3. OpenIsReady' /\ Prepared' /\ BoundBefore' /\ Unowned' /\ Spent'
    BY <1>1, <2>1, <2>2 DEF OpenIsReady, Prepared, BoundBefore, Unowned, Spent
  <2>4. CallIsAdmitted' BY <1>1, <2>1, <2>2 DEF CallIsAdmitted
  <2>5. PermitsDieWithBatch'
    <3>1. UNCHANGED permit \/ (prep'.at = "bind" /\ permit' = [permit EXCEPT ![prep.slot] = "ACTIVE"])
      <4>1. CASE prep' = [prep EXCEPT !.at = "bind"] /\ permit' = [permit EXCEPT ![prep.slot] = "ACTIVE"]
        BY <4>1, MovedPrep DEF Typed
      <4> QED BY <1>c, <4>1 DEF Execute
    <3>2. \A s \in Slots : s # prep.slot => permit'[s] = permit[s]
      BY <3>1 DEF Typed, PermitType
    <3>3. \A s \in Slots : batch.state \in TERMINAL => permit[s] # "ACTIVE"
      BY <2>1 DEF PermitsDieWithBatch
    <3>4. prep.slot \notin bound BY <1>c, TargetAssumption DEF BoundBefore, Typed, Placed, Slots, Execute
    <3> QED BY <2>1, <3>2, <3>3, <3>4 DEF PermitsDieWithBatch
  <2>6. NobodyLeavesOwning' BY <1>1, <2>1 DEF NobodyLeavesOwning
  <2> QED BY <1>2, <2>3, <2>4, <2>5, <2>6
<1>d. CASE Bind
  <2>0. prep.at = "bind" /\ lock = None /\ prep.slot \in Slots
        /\ UNCHANGED <<batch, permit, pub, control>>
    BY <1>d DEF Bind, Typed, Placed
  <2>1. CASE /\ batch.state = "PREPARING"
             /\ bound' = bound \cup {prep.slot}
             /\ prep' = [slot |-> prep.slot + 1, at |-> IF prep.slot = Target THEN "seal" ELSE "check"]
    <3>1. prep'.slot = prep.slot + 1 /\ prep'.at \in {"seal", "check"} BY <2>1
    <3>2. BoundBefore'
      <4>1. \A s \in bound : s \in Nat BY TargetAssumption DEF Typed, Slots
      <4>2. prep.slot \in Nat BY <2>0, TargetAssumption DEF Slots
      <4> QED BY <2>1, <3>1, <4>1, <4>2 DEF BoundBefore
    <3>3. OpenIsReady' /\ Prepared' /\ Unowned' /\ Spent'
      BY <1>1, <2>0, <2>1 DEF OpenIsReady, Prepared, Unowned, Spent
    <3>4. CallIsAdmitted' /\ NobodyLeavesOwning'
      BY <1>1, <2>0, ExecutorsAssumption DEF CallIsAdmitted, NobodyLeavesOwning
    <3>5. PermitsDieWithBatch' BY <2>0, <2>1 DEF PermitsDieWithBatch, TERMINAL
    <3> QED BY <1>2, <3>2, <3>3, <3>4, <3>5
  <2>2. CASE prep' = [prep EXCEPT !.at = "fail"] /\ UNCHANGED bound
    <3>1. prep'.slot = prep.slot /\ prep'.at = "fail" BY <2>2, MovedPrep DEF Typed
    <3>2. OpenIsReady' /\ Prepared' /\ BoundBefore' /\ Unowned' /\ Spent'
      BY <1>1, <2>0, <2>2, <3>1 DEF OpenIsReady, Prepared, BoundBefore, Unowned, Spent
    <3>4. CallIsAdmitted' /\ NobodyLeavesOwning'
      BY <1>1, <2>0, ExecutorsAssumption DEF CallIsAdmitted, NobodyLeavesOwning
    <3>5. PermitsDieWithBatch' BY <2>0, <2>2, <3>1 DEF PermitsDieWithBatch
    <3> QED BY <1>2, <3>2, <3>4, <3>5
  <2> QED BY <1>d, <2>1, <2>2 DEF Bind
<1>e. CASE Seal
  <2>0. prep.at = "seal" /\ lock = None /\ UNCHANGED <<bound, permit, pub, control>>
    BY <1>e DEF Seal
  <2>1. CASE /\ batch.state = "PREPARING"
             /\ batch' = [batch EXCEPT !.state = "READY", !.open = TRUE]
             /\ prep' = [prep EXCEPT !.at = "done"]
    <3>1. /\ batch'.state = "READY" /\ batch'.owner = batch.owner
          /\ prep'.at = "done" /\ prep'.slot = prep.slot
      BY <2>1, SealedBatch, MovedPrep DEF Typed
    <3>2. OpenIsReady' /\ Prepared' /\ BoundBefore' /\ Unowned' /\ Spent'
      BY <1>1, <2>0, <3>1 DEF OpenIsReady, Prepared, BoundBefore, Unowned, Spent, TERMINAL
    <3>3. CallIsAdmitted' /\ NobodyLeavesOwning'
      BY <1>1, <2>0, <3>1, ExecutorsAssumption DEF CallIsAdmitted, NobodyLeavesOwning
    <3>4. PermitsDieWithBatch' BY <3>1 DEF PermitsDieWithBatch, TERMINAL
    <3> QED BY <1>2, <3>2, <3>3, <3>4
  <2>2. CASE prep' = [prep EXCEPT !.at = "fail"] /\ UNCHANGED batch
    <3>1. prep'.slot = prep.slot /\ prep'.at = "fail" BY <2>2, MovedPrep DEF Typed
    <3>2. OpenIsReady' /\ Prepared' /\ BoundBefore' /\ Unowned' /\ Spent'
      BY <1>1, <2>0, <2>2, <3>1 DEF OpenIsReady, Prepared, BoundBefore, Unowned, Spent
    <3>4. CallIsAdmitted' /\ NobodyLeavesOwning'
      BY <1>1, <2>0, <2>2, ExecutorsAssumption DEF CallIsAdmitted, NobodyLeavesOwning
    <3>5. PermitsDieWithBatch' BY <2>0, <2>2, <3>1 DEF PermitsDieWithBatch
    <3> QED BY <1>2, <3>2, <3>4, <3>5
  <2> QED BY <1>e, <2>1, <2>2 DEF Seal
<1>f. CASE PrepareFailed
  <2>1. Closing BY <1>f, <1>0, CloseCloses DEF PrepareFailed, TERMINAL
  <2>2. prep.at = "fail" /\ prep'.at = "done" /\ prep'.slot = prep.slot /\ lock = None
        /\ UNCHANGED bound
    BY <1>f, MovedPrep DEF PrepareFailed, Typed
  <2>3. OpenIsReady' /\ Prepared' /\ BoundBefore' /\ Unowned'
    BY <1>1, <2>1, <2>2 DEF OpenIsReady, Prepared, BoundBefore, Unowned, Closing
  <2>4. Spent' BY <1>1, <2>1, <2>2 DEF Spent, Closing, Typed
  <2>5. CallIsAdmitted' /\ NobodyLeavesOwning'
    BY <1>1, <2>1, <2>2, ExecutorsAssumption DEF CallIsAdmitted, NobodyLeavesOwning, Closing
  <2>6. PermitsDieWithBatch' BY <2>1 DEF PermitsDieWithBatch, Closing, Spent
  <2> QED BY <1>2, <2>3, <2>4, <2>5, <2>6
<1>g. CASE PreparerDies
  <2>1. \E l \in {"late", "dead"} :
          prep' = [prep EXCEPT !.at = l] /\ (batch.state \in TERMINAL => l = "late")
    BY <1>g DEF PreparerDies
  <2>2. /\ prep'.at \in {"late", "dead"} /\ (batch.state \in TERMINAL => prep'.at = "late")
        /\ prep'.slot = prep.slot
    BY <2>1, MovedPrep DEF Typed
  <2>3. prep.at \in {"check", "exec", "bind", "seal", "fail"}
        /\ UNCHANGED <<batch, bound, permit, pub, control>>
    BY <1>g DEF PreparerDies
  <2>4. OpenIsReady' /\ Prepared' /\ BoundBefore' /\ Unowned' /\ Spent'
    BY <1>1, <2>2, <2>3 DEF OpenIsReady, Prepared, BoundBefore, Unowned, Spent
  <2>5. CallIsAdmitted' /\ NobodyLeavesOwning'
    BY <1>1, <2>3 DEF CallIsAdmitted, NobodyLeavesOwning
  <2>6. PermitsDieWithBatch' BY <2>2, <2>3 DEF PermitsDieWithBatch
  <2> QED BY <1>2, <2>4, <2>5, <2>6
<1> QED BY <1>a, <1>b, <1>c, <1>d, <1>e, <1>f, <1>g

-----------------------------------------------------------------------------
(* The steps of the executors.                                                 *)

(* The reservation: the entry was not reserved before, so it is nobody else's. *)
LEMMA ClaimStep ==
  ASSUME Typed, Inv, NEW e \in Executors, Claim(e)
  PROVE  Inv'
<1> USE DEF Inv, ledger, posts, locals
<1>0. TypeOK BY TypedIsTypeOK
<1>1. pc[e] = "claim" /\ lock = None /\ UNCHANGED <<bound, lock, prep, cur>> BY DEF Claim
<1>a. "denied" \in Labels \ (Flight \cup {"idle"}) BY DEF Labels, Flight
<1>b. CASE CloseIfOpen /\ Goto(e, "denied") /\ UNCHANGED <<outcome, reserved, pub>>
  BY <1>0, <1>1, <1>b, <1>a, CloseIfOpenKeepsOrCloses, UnlockedStep
<1>2. CASE Observe /\ Goto(e, "denied") /\ UNCHANGED <<reserved, pub>>
  BY <1>0, <1>1, <1>2, <1>a, ObserveKeepsOrCloses, UnlockedStep
<1>3. CASE /\ ~Ended /\ Admits(e)
           /\ cur[e] \notin reserved /\ permit[cur[e]] = "ACTIVE"
           /\ reserved' = reserved \cup {cur[e]}
           /\ batch' = [batch EXCEPT !.used = @ + 1, !.open = batch.used + 1 < Target]
           /\ permit' = [permit EXCEPT ![cur[e]] = "CONSUMED"]
           /\ Goto(e, "verify")
  <2>1. /\ batch'.state = "RUNNING" /\ batch.state = "RUNNING"
        /\ batch'.owner = e /\ batch.owner = e
    <3> DEFINE o == batch.used + 1 < Target
    <3>1. batch' = [batch EXCEPT !.used = batch.used + 1, !.open = o] BY <1>3
    <3>2. batch.used + 1 \in 0..Target BY <1>3, BatchFields, TargetAssumption DEF Admits, AdmissionOpen, Typed
    <3>3. o \in BOOLEAN OBVIOUS
    <3> HIDE DEF o
    <3>4. batch'.state = batch.state /\ batch'.owner = batch.owner
      BY <3>1, <3>2, <3>3, CountedBatch DEF Typed
    <3> QED BY <1>3, <3>4 DEF Admits, AdmissionOpen, OwnedBy
  <2>2. pc'[e] = "verify" /\ \A f \in Executors : f # e => pc'[f] = pc[f]
    BY <1>3 DEF Goto, Typed
  <2>3. cur[e] \in Slots BY <1>1 DEF Typed, Placed
  <2>4. permit'[cur[e]] = "CONSUMED" /\ \A s \in Slots : s # cur[e] => permit'[s] = permit[s]
    BY <1>3, <2>3 DEF Typed, PermitType
  <2>5. Mine'
    <3>1. \A f \in Executors : pc[f] \in Flight => cur[f] # cur[e] BY <1>3 DEF Mine
    <3> QED BY <1>1, <1>3, <2>2, <3>1 DEF Mine, Flight
  <2>6. CallHoldsLock' BY <1>1, <2>2, ExecutorsAssumption DEF CallHoldsLock
  <2>7. OpenIsReady' /\ Prepared' /\ BoundBefore' /\ Unowned'
    BY <1>1, <1>3, <2>1 DEF OpenIsReady, Prepared, BoundBefore, Unowned, TERMINAL
  <2>8. Spent'
    <3>1. reserved \subseteq Slots BY DEF Typed
    <3> QED BY <1>3, <2>4, <3>1 DEF Spent
  <2>9. CallIsAdmitted' BY <1>1, ExecutorsAssumption DEF CallIsAdmitted
  <2>10. PermitsDieWithBatch' BY <2>1 DEF PermitsDieWithBatch, TERMINAL
  <2>11. NobodyLeavesOwning' BY <2>1, <2>2 DEF NobodyLeavesOwning
  <2> QED BY <2>5, <2>6, <2>7, <2>8, <2>9, <2>10, <2>11
<1>4. CASE (Close("PAUSED") \/ Close("FAILED")) /\ Goto(e, "denied") /\ UNCHANGED <<reserved, pub>>
  <2>1. Closing BY <1>0, <1>4, CloseCloses DEF TERMINAL
  <2> QED BY <1>1, <1>4, <1>a, <2>1, UnlockedStep DEF KeptOrClosed
<1>5. CASE Goto(e, "denied") /\ UNCHANGED <<batch, outcome, reserved, pub, permit, control>>
  BY <1>1, <1>5, <1>a, UnlockedStep
<1> QED BY <1>b, <1>2, <1>3, <1>4, <1>5 DEF Claim

(* Taking the lock: check_provider_boundary has just seen what it relies on.   *)
LEMMA LockCallStep ==
  ASSUME Typed, Inv, NEW e \in Executors, LockCall(e)
  PROVE  Inv'
<1> USE DEF Inv, ledger, posts, locals
<1>1. /\ pc[e] = "locking" /\ lock = None
      /\ UNCHANGED <<batch, bound, reserved, permit, control, prep, cur>>
  BY DEF LockCall
<1>a. {"conflict", "denied"} \subseteq Labels \ (Flight \cup {"idle"}) BY DEF Labels, Flight
<1>2. CASE pub[cur[e]] = "PUBLISHING" /\ check_provider_boundary(e)
           /\ lock' = e /\ Goto(e, "call") /\ UNCHANGED pub
  <2>1. pc'[e] = "call" /\ \A f \in Executors : f # e => pc'[f] = pc[f]
    BY <1>2 DEF Goto, Typed
  <2>2. Mine' BY <1>1, <2>1 DEF Mine, Flight
  <2>3. CallHoldsLock' BY <1>1, <1>2, <2>1, ExecutorsAssumption DEF CallHoldsLock
  <2>4. OpenIsReady' /\ Prepared' /\ BoundBefore' /\ Unowned' /\ Spent' /\ PermitsDieWithBatch'
    BY <1>1 DEF OpenIsReady, Prepared, BoundBefore, Unowned, Spent, PermitsDieWithBatch
  <2>5. CallIsAdmitted' BY <1>1, <1>2 DEF CallIsAdmitted, check_provider_boundary, OwnedBy
  <2>6. NobodyLeavesOwning' BY <1>1, <2>1 DEF NobodyLeavesOwning
  <2> QED BY <2>2, <2>3, <2>4, <2>5, <2>6
<1>3. CASE Goto(e, "denied") /\ UNCHANGED <<lock, pub>> BY <1>1, <1>3, <1>a, UnlockedStep
<1>4. CASE Goto(e, "conflict") /\ UNCHANGED lock BY <1>1, <1>4, <1>a, UnlockedStep
<1> QED BY <1>2, <1>3, <1>4 DEF LockCall

LEMMA acquireStep ==
  ASSUME Typed, Inv, NEW e \in Executors, acquire_batch(e)
  PROVE  Inv'
<1> USE DEF Inv, ledger, posts, locals
<1>0. TypeOK BY TypedIsTypeOK
<1>1. /\ pc[e] = "idle" /\ lock = None
      /\ UNCHANGED <<bound, reserved, pub, lock, prep, cur>>
  BY DEF acquire_batch
<1>a. ASSUME UNCHANGED pc, KeptOrClosed PROVE Inv'
  <2>1. \A f \in Executors : Unhurt(f) BY <1>1, <1>a DEF Unhurt
  <2>2. SameBatch \/ Closing BY <1>a, NothingClosed DEF KeptOrClosed, KeepBatch
  <2>3. \A f \in Executors : lock' # f /\ pc'[f] # "call"
    BY <1>1, <1>a, ExecutorsAssumption DEF CallHoldsLock
  <2>4. Harmless BY <1>1, <2>1, <2>2, <2>3 DEF Harmless
  <2> QED BY <2>4, HarmlessStep
<1>2. CASE Observe /\ UNCHANGED pc BY <1>0, <1>2, <1>a, ObserveKeepsOrCloses
<1>3. CASE Close("PAUSED") /\ UNCHANGED pc
  <2>1. Closing BY <1>0, <1>3, CloseCloses DEF TERMINAL
  <2> QED BY <1>3, <1>a, <2>1 DEF KeptOrClosed
<1>4. CASE /\ batch.open
           /\ batch' = [batch EXCEPT !.state = "RUNNING", !.owner = e, !.lease = "live"]
           /\ Goto(e, "start")
           /\ UNCHANGED <<control, permit>>
  <2>1. batch'.state = "RUNNING" /\ batch'.owner = e /\ batch'.open = batch.open
    BY <1>4, OwnedBatch DEF Typed
  <2>2. pc'[e] = "start" /\ \A f \in Executors : f # e => pc'[f] = pc[f] BY <1>4 DEF Goto, Typed
  <2>3. Mine' BY <1>1, <2>2 DEF Mine, Flight
  <2>4. CallHoldsLock' /\ CallIsAdmitted'
    BY <1>1, <2>2, ExecutorsAssumption DEF CallHoldsLock, CallIsAdmitted
  <2>5. OpenIsReady' /\ Prepared' /\ BoundBefore' /\ Unowned' /\ Spent'
    BY <1>1, <1>4, <2>1 DEF OpenIsReady, Prepared, BoundBefore, Unowned, Spent, TERMINAL
  <2>6. PermitsDieWithBatch' BY <2>1 DEF PermitsDieWithBatch, TERMINAL
  <2>7. NobodyLeavesOwning' BY <2>1, <2>2 DEF NobodyLeavesOwning
  <2> QED BY <2>3, <2>4, <2>5, <2>6, <2>7
<1> QED BY <1>2, <1>3, <1>4 DEF acquire_batch

(* Steps that leave the batch, the permits and control alone.                  *)
LEMMA InwardStep ==
  ASSUME Typed, Inv, NEW e \in Executors,
         \/ StartRun(e) \/ Loop(e) \/ Verify(e) \/ Boundary(e) \/ Call(e) \/ Reconcile(e)
         \/ Finish(e) \/ Exception(e) \/ Die(e)
  PROVE  Inv'
<1> USE DEF ledger, posts, locals
<1>1. /\ UNCHANGED <<batch, bound, reserved, permit, control, prep>>
      /\ SameBatch
  BY NothingClosed DEF StartRun, Loop, Verify, Boundary, Call, Reconcile, Finish, Exception, Die
<1>2. \A f \in Executors : lock = f <=> pc[f] = "call" BY DEF Inv, CallHoldsLock
<1>3. ASSUME NEW l \in Labels \ (Flight \cup {"idle"}), Goto(e, l),
             lock' = IF lock = e THEN None ELSE lock, UNCHANGED cur,
             \A f \in Executors : f # e /\ lock = f => pub'[cur[f]] = pub[cur[f]]
      PROVE  Inv'
  <2>1. l \in Labels \ {"call"} /\ l \notin Flight /\ l # "idle" BY DEF Flight
  <2> QED BY <1>1, <1>3, <2>1, ExecutorStep
<1>4. {"cands", "wrap", "after", "denied", "claim", "failing", "observe", "reconcile", "settle",
       "pause", "release", "raise", "dead"} \subseteq Labels \ (Flight \cup {"idle"})
  BY DEF Labels, Flight
<1>5. pc[e] # "call" => lock # e BY <1>2
<1>a. CASE StartRun(e)
  <2>1. lock' = IF lock = e THEN None ELSE lock BY <1>a, <1>5 DEF StartRun
  <2> QED BY <1>a, <1>3, <1>4, <2>1 DEF StartRun
<1>b. CASE Loop(e)
  <2>1. /\ lock' = IF lock = e THEN None ELSE lock
        /\ \E l \in {"after", "claim", "denied"} : Goto(e, l)
        /\ UNCHANGED pub
    BY <1>b, <1>5 DEF Loop
  <2>2. \A f \in Executors : f # e => cur'[f] = cur[f] BY <1>b DEF Loop, Typed
  <2>3. PICK l \in {"after", "claim", "denied"} : Goto(e, l) BY <2>1
  <2>4. l \in Labels \ {"call"} /\ l \notin Flight /\ l # "idle" BY <1>4 DEF Flight
  <2> QED BY <1>1, <2>1, <2>2, <2>3, <2>4, ExecutorStep
<1>c. CASE Verify(e)
  <2>1. /\ lock' = IF lock = e THEN None ELSE lock
        /\ pc[e] = "verify" /\ UNCHANGED cur
    BY <1>c, <1>5 DEF Verify
  <2>2. CASE Goto(e, "boundary") /\ UNCHANGED pub
    <3>1. "boundary" \in Labels \ {"call"} BY DEF Labels
    <3> QED BY <1>1, <2>1, <2>2, <3>1, ExecutorStep DEF Flight
  <2>3. CASE pub' = [pub EXCEPT ![cur[e]] = "PUBLISH_FAILED"] /\ Goto(e, "failing")
    <3>1. \A f \in Executors : f # e /\ lock = f => cur[f] # cur[e] /\ cur[f] \in Slots
      BY <1>2, <2>1 DEF Inv, Mine, Flight, Typed
    <3>2. \A f \in Executors : f # e /\ lock = f => pub'[cur[f]] = pub[cur[f]]
      BY <2>3, <3>1 DEF Typed
    <3> QED BY <1>3, <1>4, <2>1, <2>3, <3>2
  <2> QED BY <1>c, <2>2, <2>3 DEF Verify
<1>d. CASE Boundary(e)
  <2>1. lock' = IF lock = e THEN None ELSE lock BY <1>d, <1>5 DEF Boundary
  <2>2. pc[e] = "boundary" /\ UNCHANGED <<cur, pub>> /\ (Goto(e, "locking") \/ Goto(e, "denied"))
    BY <1>d DEF Boundary
  <2>3. CASE Goto(e, "locking")
    <3>1. "locking" \in Labels \ {"call"} BY DEF Labels
    <3> QED BY <1>1, <2>1, <2>2, <2>3, <3>1, ExecutorStep DEF Flight
  <2>4. CASE Goto(e, "denied") BY <1>3, <1>4, <2>1, <2>2, <2>4
  <2> QED BY <2>2, <2>3, <2>4
<1>e. CASE Call(e)
  <2>1. lock = e /\ lock' = None /\ UNCHANGED cur /\ (Goto(e, "observe") \/ Goto(e, "reconcile"))
    BY <1>e, <1>2 DEF Call
  <2> QED BY <1>3, <1>4, <2>1
<1>f. CASE Reconcile(e)
  <2>1. /\ lock' = IF lock = e THEN None ELSE lock
        /\ UNCHANGED cur /\ (Goto(e, "settle") \/ Goto(e, "pause"))
    BY <1>f, <1>5 DEF Reconcile
  <2>2. \A f \in Executors : f # e /\ lock = f => pub'[cur[f]] = pub[cur[f]]
    <3>1. CASE UNCHANGED pub BY <3>1
    <3>2. CASE pub[cur[e]] = "PUBLISH_UNKNOWN" /\ pub' = [pub EXCEPT ![cur[e]] = "PUBLISHED"]
      <4>1. \A f \in Executors : lock = f => pub[cur[f]] = "PUBLISHING" /\ cur[f] \in Slots
        BY DEF Inv, CallIsAdmitted, Typed
      <4> QED BY <3>2, <4>1 DEF Typed
    <3> QED BY <1>f, <3>1, <3>2 DEF Reconcile
  <2> QED BY <1>3, <1>4, <2>1, <2>2
<1>g. CASE Finish(e)
  <2>1. lock' = IF lock = e THEN None ELSE lock BY <1>g, <1>5 DEF Finish
  <2> QED BY <1>g, <1>3, <1>4, <2>1 DEF Finish
<1>h. CASE Exception(e) BY <1>h, <1>3, <1>4 DEF Exception
<1>i. CASE Die(e) BY <1>i, <1>3, <1>4 DEF Die
<1> QED BY <1>a, <1>b, <1>c, <1>d, <1>e, <1>f, <1>g, <1>h, <1>i

(* Steps that observe the batch, and close it if need be, while it is unlocked. *)
LEMMA OutwardStep ==
  ASSUME Typed, Inv, NEW e \in Executors,
         \/ manifest_candidates(e) \/ Failing(e) \/ Conflict(e) \/ ObserveOutcome(e)
         \/ Pause(e) \/ Settle(e) \/ Denied(e) \/ After(e) \/ Release(e) \/ LetGo(e)
         \/ Wrap(e) \/ Incomplete(e) \/ Raise(e)
  PROVE  Inv'
<1> USE DEF ledger, posts, locals
<1>0. TypeOK BY TypedIsTypeOK
<1>1. lock = None /\ UNCHANGED <<bound, reserved, prep, lock, cur>>
  BY DEF manifest_candidates, Failing, Conflict, ObserveOutcome, Pause, Settle, Denied, After,
         Release, LetGo, Wrap, Incomplete, Raise
<1>2. ASSUME NEW l \in Labels \ (Flight \cup {"idle"}), Goto(e, l),
             KeptOrClosed \/ UNCHANGED <<batch, permit>>
      PROVE  Inv'
  BY <1>1, <1>2, UnlockedStep
<1>3. {"raise", "loop", "denied", "after", "pause", "settle", "finish", "letgo", "incomplete"}
        \subseteq Labels \ (Flight \cup {"idle"})
  BY DEF Labels, Flight
<1>4. ASSUME NEW st \in {"PAUSED", "FAILED"} \cup {Verdict}, Close(st), st # "none"
      PROVE  KeptOrClosed
  <2>1. st \in TERMINAL BY <1>4, VerdictCases DEF TERMINAL
  <2> QED BY <1>0, <1>4, <2>1, CloseCloses DEF KeptOrClosed
<1>5. ASSUME Goto(e, "idle"), KeptOrClosed, batch'.state \in TERMINAL
      PROVE  Inv'
  BY <1>1, <1>5, EndedIsUnowned, ReturnStep
<1>a. CASE manifest_candidates(e)
  <2>1. KeptOrClosed BY <1>a, <1>4 DEF manifest_candidates, KeptOrClosed
  <2>2. Goto(e, "raise") \/ Goto(e, "loop") BY <1>a DEF manifest_candidates
  <2> QED BY <1>2, <1>3, <2>1, <2>2
<1>b. CASE Failing(e) BY <1>b, <1>0, <1>2, <1>3, ObserveKeepsOrCloses DEF Failing
<1>c. CASE Conflict(e)
  <2>1. KeptOrClosed \/ UNCHANGED <<batch, permit>> BY <1>c, <1>4 DEF Conflict
  <2> QED BY <1>c, <1>2, <1>3, <2>1 DEF Conflict
<1>d. CASE ObserveOutcome(e)
  <2>1. Goto(e, "after") \/ Goto(e, "pause") BY <1>d DEF ObserveOutcome
  <2> QED BY <1>d, <1>0, <1>2, <1>3, <2>1, ObserveKeepsOrCloses DEF ObserveOutcome
<1>e. CASE Pause(e)
  <2>1. Goto(e, "settle") \/ Goto(e, "after") BY <1>e DEF Pause
  <2> QED BY <1>e, <1>2, <1>3, <2>1 DEF Pause
<1>f. CASE Settle(e) BY <1>f, <1>0, <1>2, <1>3, ObserveKeepsOrCloses DEF Settle
<1>g. CASE Denied(e) BY <1>g, <1>0, <1>2, <1>3, CloseIfOpenKeepsOrCloses DEF Denied
<1>h. CASE After(e) BY <1>h, <1>0, <1>2, <1>3, ObserveKeepsOrCloses DEF After
<1>i. CASE Release(e)
  <2>1. KeptOrClosed /\ (Ended => batch'.state \in TERMINAL)
    BY <1>i, <1>0, ObserveKeepsOrCloses DEF Release
  <2>2. CASE Ended BY <1>i, <1>5, <2>1, <2>2 DEF Release
  <2>3. CASE ~Ended BY <1>i, <1>2, <1>3, <2>1, <2>3 DEF Release
  <2> QED BY <2>2, <2>3
<1>j. CASE LetGo(e)
  <2>1. CASE CloseDoubtful
    BY <1>j, <1>0, <1>5, <2>1, CloseDoubtfulKeepsOrCloses DEF LetGo
  <2>2. CASE ~CloseDoubtful
    <3>1. /\ batch' = IF batch.owner = e
                      THEN [batch EXCEPT !.owner = None, !.lease = "none"] ELSE batch
          /\ UNCHANGED permit /\ Goto(e, "idle")
      BY <1>j, <2>2 DEF LetGo
    <3>2. SameBatch /\ batch'.owner # e
      BY <3>1, FreedBatch, ExecutorsAssumption DEF SameBatch, Typed
    <3> QED BY <1>1, <3>1, <3>2, ReturnStep
  <2> QED BY <2>1, <2>2
<1>k. CASE Wrap(e)
  <2>1. KeptOrClosed /\ (Ended => batch'.state \in TERMINAL)
    BY <1>k, <1>0, ObserveKeepsOrCloses DEF Wrap
  <2>2. CASE Ended BY <1>k, <1>5, <2>1, <2>2 DEF Wrap
  <2>3. CASE ~Ended BY <1>k, <1>2, <1>3, <2>1, <2>3 DEF Wrap
  <2> QED BY <2>2, <2>3
<1>l. CASE Incomplete(e)
  BY <1>l, <1>0, <1>5, CloseDoubtfulKeepsOrCloses DEF Incomplete
<1>m. CASE Raise(e) BY <1>m, <1>0, <1>5, CloseIfOpenKeepsOrCloses DEF Raise
<1> QED BY <1>a, <1>b, <1>c, <1>d, <1>e, <1>f, <1>g, <1>h, <1>i, <1>j, <1>k, <1>l, <1>m

-----------------------------------------------------------------------------
(* Everyone else.                                                              *)

LEMMA RestStep ==
  ASSUME Typed, Inv,
         \/ close_batch \/ LeaseExpires \/ RunAges \/ set_control_state
         \/ \E s \in Slots : Withdraw(s) \/ ReconcileUnknown(s) \/ Recover(s)
         \/ UNCHANGED vars
  PROVE  Inv'
<1> USE DEF ledger, posts, locals
<1>1. ASSUME UNCHANGED <<bound, reserved, prep, lock, pc, cur>>,
             SameBatch \/ Closing,
             lock # None =>
               /\ batch'.state = batch.state /\ batch'.owner = batch.owner /\ control' = control
               /\ \A s \in Slots : pub[s] = "PUBLISHING" => pub'[s] = "PUBLISHING"
      PROVE  Inv'
  <2>1. \A f \in Executors : Unhurt(f) BY <1>1 DEF Unhurt
  <2>2. \A f \in Executors : lock = f => pub[cur[f]] = "PUBLISHING" /\ cur[f] \in Slots /\ lock # None
    BY ExecutorsAssumption DEF Inv, CallIsAdmitted, Typed
  <2>3. \A f \in Executors : lock = f <=> pc[f] = "call" BY DEF Inv, CallHoldsLock
  <2>4. Harmless BY <1>1, <2>1, <2>2, <2>3 DEF Harmless
  <2> QED BY <2>4, HarmlessStep
<1>a. CASE close_batch
  <2>1. Closing BY <1>a, TypedIsTypeOK, CloseCloses DEF close_batch, TERMINAL
  <2> QED BY <1>a, <1>1, <2>1 DEF close_batch
<1>b. CASE LeaseExpires
  <2>1. batch'.state = batch.state /\ batch'.open = batch.open /\ batch'.owner = batch.owner
    BY <1>b, ExpiredBatch DEF LeaseExpires, Typed
  <2> QED BY <1>b, <1>1, <2>1 DEF LeaseExpires, SameBatch
<1>c. CASE RunAges BY <1>c, <1>1, NothingClosed DEF RunAges
<1>d. CASE set_control_state BY <1>d, <1>1, NothingClosed DEF set_control_state
<1>e. ASSUME NEW s \in Slots, Withdraw(s) PROVE Inv'
  <2>1. \A t \in Slots : permit'[t] = "ACTIVE" => permit[t] = "ACTIVE"
    BY <1>e DEF Withdraw, Typed, PermitType
  <2>2. \A t \in Slots : pub[t] = "PUBLISHING" => pub'[t] = "PUBLISHING"
    BY <1>e DEF Withdraw, Typed
  <2> QED BY <1>e, <1>1, <2>1, <2>2 DEF Withdraw, SameBatch
<1>f. ASSUME NEW s \in Slots, ReconcileUnknown(s) PROVE Inv'
  <2>1. \A t \in Slots : pub[t] = "PUBLISHING" => pub'[t] = "PUBLISHING"
    BY <1>f DEF ReconcileUnknown, Typed
  <2> QED BY <1>f, <1>1, <2>1, NothingClosed DEF ReconcileUnknown
<1>g. ASSUME NEW s \in Slots, Recover(s) PROVE Inv'
  BY <1>g, <1>1, NothingClosed DEF Recover
<1>h. CASE UNCHANGED vars BY <1>h, <1>1, NothingClosed DEF vars
<1> QED BY <1>a, <1>b, <1>c, <1>d, <1>e, <1>f, <1>g, <1>h

LEMMA InvStep == Typed /\ Inv /\ [Next]_vars => Inv'
<1> SUFFICES ASSUME Typed, Inv, [Next]_vars PROVE Inv' OBVIOUS
<1> QED BY PreparerStep, ClaimStep, LockCallStep, acquireStep, InwardStep, OutwardStep, RestStep
        DEF Next

LEMMA BatchInvariant == Spec => [](Typed /\ Inv)
<1>1. Init => Typed /\ Inv BY TypedInit, InvInit
<1>2. (Typed /\ Inv) /\ [Next]_vars => (Typed /\ Inv)' BY TypeStep, InvStep
<1> QED BY <1>1, <1>2, PTL DEF Spec

(* _lock_provider_call: whoever pauses, closes or takes over meanwhile, an     *)
(* executor in create_pinterest_post runs the batch, owns it, and holds a      *)
(* reserved PUBLISHING entry under a LIVE control row.                         *)
THEOREM CallsAreAdmitted == Spec => []CallIsAdmitted
<1>1. Inv => CallIsAdmitted BY DEF Inv
<1> QED BY <1>1, BatchInvariant, PTL

(* _close: a closed batch leaves no ACTIVE permit but the one its preparer is  *)
(* about to bind, or died before binding.                                      *)
THEOREM PermitsAreRevoked == Spec => []PermitsDieWithBatch
<1>1. Inv => PermitsDieWithBatch BY DEF Inv
<1> QED BY <1>1, BatchInvariant, PTL

(* run_bounded_batch_once returns with the batch closed or released.           *)
THEOREM OwnershipEnds == Spec => []NobodyLeavesOwning
<1>1. Inv => NobodyLeavesOwning BY DEF Inv
<1> QED BY <1>1, BatchInvariant, PTL

-----------------------------------------------------------------------------
(* The course of a batch.                                                      *)

(* What is recorded is what became of the publication: both are final.         *)
Told == \A s \in Slots :
  /\ outcome[s] # "none" => s \in reserved
  /\ outcome[s] = "PUBLISHED" => pub[s] = "PUBLISHED"
  /\ outcome[s] = "FAILED" => pub[s] = "PUBLISH_FAILED"

OneOut == \A s, t \in reserved : pub[s] # "PUBLISHED" /\ pub[t] # "PUBLISHED" => s = t

Counted == batch.used = Cardinality(reserved)

Unstarted == batch.state \in {"OPEN", "PREPARING", "READY"} => reserved = {}
Whole == batch.state \in {"READY", "RUNNING"} \/ reserved # {} => bound = Slots

(* How a batch can have ended: all of it published, or with a failure in it    *)
(* or something missing, and then with no outcome left to learn.               *)
AllOut == \A s \in reserved : pub[s] = "PUBLISHED"

CompletedFor == batch.state = "COMPLETED" => \A s \in Slots : outcome[s] = "PUBLISHED"
FailedFor == batch.state = "FAILED" =>
  (AllOut /\ reserved # Slots) \/ \E s \in reserved : pub[s] = "PUBLISH_FAILED"

(* An executor takes over only a batch with nothing in doubt, and until its    *)
(* first candidate only others could reserve, who do not own the batch.        *)
Clean == \A e \in Executors : pc[e] \in {"start", "cands"} /\ batch.owner = e => AllOut

Course == /\ Told /\ OneOut /\ Counted /\ Unstarted /\ Whole
          /\ CompletedFor /\ FailedFor /\ Clean

LEMMA SlotFacts ==
  /\ IsFiniteSet(Slots) /\ Slots # {}
  /\ \A S \in SUBSET Slots : IsFiniteSet(S) /\ Cardinality(S) \in Nat
<1>1. IsFiniteSet(Slots) /\ 1 \in Slots
  BY FS_Interval, TargetAssumption DEF Slots
<1>2. ASSUME NEW S \in SUBSET Slots PROVE IsFiniteSet(S)
  BY <1>1, FS_Subset
<1> QED BY <1>1, <1>2, FS_CardinalityType

LEMMA CourseInit == Init => Course
<1> SUFFICES ASSUME Init PROVE Course OBVIOUS
<1>1. Told /\ OneOut /\ Unstarted /\ Whole /\ CompletedFor /\ FailedFor /\ Clean
  BY DEF Init, Told, OneOut, Unstarted, Whole, CompletedFor, FailedFor, Clean
<1>2. Counted BY FS_EmptySet DEF Init, Counted
<1> QED BY <1>1, <1>2 DEF Course

LEMMA CourseFollows ==
  ASSUME Typed, Course
  PROVE  OneInFlight
<1> DEFINE S == {s \in reserved : pub[s] # "PUBLISHED"}
<1>1. CASE S = {} BY <1>1, FS_EmptySet DEF OneInFlight
<1>2. ASSUME NEW s \in S PROVE OneInFlight
  <2>1. S = {s} BY DEF Course, OneOut
  <2>2. Cardinality({s}) <= 1 BY FS_Singleton
  <2> QED BY <2>1, <2>2 DEF OneInFlight
<1> QED BY <1>1, <1>2

(* What is observed of an entry whose outcome is final.                        *)
LEMMA SeenFacts ==
  ASSUME Typed, Told
  PROVE  /\ \A s \in Slots : Observed[s] # "none" => s \in reserved
         /\ \A s \in Slots : Observed[s] = "PUBLISHED" => pub[s] = "PUBLISHED"
         /\ \A s \in Slots : Observed[s] = "FAILED" => pub[s] = "PUBLISH_FAILED"
         /\ \A s \in Slots : outcome[s] \in {"PUBLISHED", "FAILED"} => Observed[s] = outcome[s]
         /\ \A s \in reserved : pub[s] = "PUBLISHED" => Observed[s] = "PUBLISHED"
         /\ \A s \in Slots : Seen(s) = "UNKNOWN" <=> pub[s] = "PUBLISH_UNKNOWN"
         /\ \A s \in Slots : Seen(s) = "FAILED" <=> pub[s] = "PUBLISH_FAILED"
         /\ \A s \in Slots : Seen(s) = "PUBLISHED" <=> pub[s] = "PUBLISHED"
<1>1. reserved \subseteq Slots BY DEF Typed
<1>2. \A s \in Slots : /\ Seen(s) = "UNKNOWN" <=> pub[s] = "PUBLISH_UNKNOWN"
                       /\ Seen(s) = "FAILED" <=> pub[s] = "PUBLISH_FAILED"
                       /\ Seen(s) = "PUBLISHED" <=> pub[s] = "PUBLISHED"
                       /\ Seen(s) # "none"
  BY DEF Seen
<1>3. \A s \in Slots : Observed[s] =
        IF s \in reserved /\ Seen(s) # "pending" THEN Seen(s) ELSE outcome[s]
  BY DEF Observed
<1> HIDE DEF Seen, Observed
<1> QED BY <1>1, <1>2, <1>3 DEF Told

LEMMA VerdictFacts ==
  ASSUME Typed, Course
  PROVE  /\ Verdict \in {"none", "PAUSED", "FAILED", "COMPLETED"}
         /\ reserved = {} => Verdict = "none"
         /\ AllOut /\ reserved # Slots => Verdict = "none"
         /\ AllOut /\ reserved = Slots => Verdict = "COMPLETED"
         /\ Verdict = "COMPLETED" => AllOut /\ reserved = Slots
         /\ Verdict = "FAILED" => \E s \in reserved : pub[s] = "PUBLISH_FAILED"
         /\ (\E s \in reserved : pub[s] = "PUBLISH_FAILED") => Verdict = "FAILED"
<1>1. reserved \subseteq Slots /\ Slots # {} BY SlotFacts DEF Typed
<1>2. \A s \in Slots : /\ Seen(s) = "UNKNOWN" <=> pub[s] = "PUBLISH_UNKNOWN"
                       /\ Seen(s) = "FAILED" <=> pub[s] = "PUBLISH_FAILED"
                       /\ Seen(s) = "PUBLISHED" <=> pub[s] = "PUBLISHED"
  BY DEF Seen
<1> HIDE DEF Seen
<1>3. ASSUME NEW s \in reserved, pub[s] = "PUBLISH_FAILED" PROVE Verdict = "FAILED"
  <2>1. \A t \in reserved : Seen(t) # "UNKNOWN"
    BY <1>1, <1>2, <1>3 DEF Course, OneOut
  <2>2. Seen(s) = "FAILED" BY <1>1, <1>2, <1>3
  <2> QED BY <2>1, <2>2 DEF Verdict
<1>4. Verdict \in {"none", "PAUSED", "FAILED", "COMPLETED"} /\ (reserved = {} => Verdict = "none")
  BY <1>1 DEF Verdict
<1>5. ASSUME AllOut PROVE IF reserved = Slots THEN Verdict = "COMPLETED" ELSE Verdict = "none"
  <2>1. \A s \in reserved : Seen(s) = "PUBLISHED" BY <1>1, <1>2, <1>5 DEF AllOut
  <2> QED BY <2>1 DEF Verdict
<1>6. ASSUME Verdict = "COMPLETED" PROVE AllOut /\ reserved = Slots
  <2>1. reserved = Slots /\ \A s \in Slots : Seen(s) = "PUBLISHED" BY <1>6 DEF Verdict
  <2> QED BY <1>2, <2>1 DEF AllOut
<1>7. ASSUME Verdict = "FAILED" PROVE \E s \in reserved : pub[s] = "PUBLISH_FAILED"
  <2>1. \E s \in reserved : Seen(s) = "FAILED" BY <1>7 DEF Verdict
  <2> QED BY <1>1, <1>2, <2>1
<1> QED BY <1>3, <1>4, <1>5, <1>6, <1>7

-----------------------------------------------------------------------------
(* How the steps carry a batch on.                                             *)

(* The states a step may end the batch in.                                     *)
Ends(st) ==
  \/ st = "PAUSED" /\ batch.state \notin {"FAILED", "COMPLETED"}
  \/ st = Verdict /\ Verdict # "none" /\ outcome' = Observed
  \/ st = "FAILED" /\ batch.state # "COMPLETED" /\ AllOut /\ reserved # Slots

Advances ==
  /\ <<batch.state, batch'.state>> \in
       {<<"OPEN", "PREPARING">>, <<"PREPARING", "READY">>, <<"READY", "RUNNING">>}
  /\ batch'.state = "READY" => bound' = Slots

Final == \A s \in reserved :
  pub[s] \in {"PUBLISHED", "PUBLISH_FAILED"} => pub'[s] = pub[s]

Steady ==
  /\ UNCHANGED reserved /\ bound \subseteq bound' /\ batch'.used = batch.used
  /\ Final
  /\ outcome' \in {outcome, Observed}
  /\ batch'.state = batch.state \/ Ends(batch'.state) \/ Advances
  /\ batch'.open => batch.open \/ batch.state = "PREPARING"

LEMMA CourseKept ==
  ASSUME Typed, Typed', Course, Steady, Clean'
  PROVE  Course' /\ bounded_batch_guard
<1>0. reserved \subseteq Slots /\ bound' \subseteq Slots /\ Slots # {} BY SlotFacts DEF Typed
<1>1. /\ \A x \in Slots : outcome[x] \in {"PUBLISHED", "FAILED"} => outcome'[x] = outcome[x]
      /\ \A x \in Slots : outcome'[x] \in {"PUBLISHED", "FAILED"} =>
           outcome[x] = outcome'[x] \/ Observed[x] = outcome'[x]
      /\ \A x \in Slots : outcome'[x] # "none" => x \in reserved
  BY SeenFacts DEF Steady, Course, Told
<1>2. Told'
  <2>1. ASSUME NEW s \in Slots, outcome'[s] \in {"PUBLISHED", "FAILED"}
        PROVE  /\ outcome'[s] = "PUBLISHED" => pub[s] = "PUBLISHED"
               /\ outcome'[s] = "FAILED" => pub[s] = "PUBLISH_FAILED"
               /\ s \in reserved
    BY <1>1, <2>1, SeenFacts DEF Course, Told
  <2> QED BY <1>1, <2>1 DEF Told, Steady, Final
<1>3. OneOut' BY DEF OneOut, Course, Steady, Final
<1>4. Counted' BY DEF Counted, Course, Steady
<1>5. Unstarted'
  <2>1. batch.state = "OPEN" \/ batch.state = "PREPARING" \/ batch.state = "READY"
        => reserved = {}
    BY DEF Course, Unstarted
  <2>2. Ends(batch'.state) => batch'.state \notin {"OPEN", "PREPARING", "READY"}
    BY VerdictFacts DEF Ends
  <2> QED BY <2>1, <2>2 DEF Unstarted, Steady, Advances
<1>6. Whole'
  <2>1. Ends(batch'.state) => batch'.state \notin {"READY", "RUNNING"}
    BY VerdictFacts DEF Ends
  <2> QED BY <1>0, <2>1 DEF Whole, Course, Steady, Advances
<1>7. ASSUME batch.state = "COMPLETED"
      PROVE  /\ AllOut /\ reserved = Slots /\ Verdict = "COMPLETED"
             /\ batch'.state = "COMPLETED" /\ \A s \in Slots : outcome'[s] = "PUBLISHED"
  <2>1. AllOut /\ reserved = Slots
    BY <1>0, <1>7 DEF Course, CompletedFor, Told, AllOut
  <2>2. Verdict = "COMPLETED" BY <2>1, VerdictFacts
  <2>3. batch'.state = "COMPLETED" BY <1>7, <2>1, <2>2 DEF Steady, Ends, Advances
  <2> QED BY <1>1, <1>7, <2>1, <2>2, <2>3 DEF Course, CompletedFor
<1>8. ASSUME batch'.state = "COMPLETED", batch.state # "COMPLETED"
      PROVE  reserved = Slots /\ \A s \in Slots : outcome'[s] = "PUBLISHED"
  <2>1. Verdict = "COMPLETED" /\ outcome' = Observed
    BY <1>8 DEF Steady, Ends, Advances
  <2> QED BY <2>1, VerdictFacts, SeenFacts DEF AllOut, Course
<1>9. CompletedFor' BY <1>7, <1>8 DEF CompletedFor
<1>10. FailedFor'
  <2> SUFFICES ASSUME batch'.state = "FAILED"
               PROVE  (AllOut' /\ reserved # Slots)
                      \/ \E s \in reserved : pub'[s] = "PUBLISH_FAILED"
    BY DEF FailedFor, Steady
  <2>1. (AllOut /\ reserved # Slots) \/ \E s \in reserved : pub[s] = "PUBLISH_FAILED"
    BY VerdictFacts DEF Steady, Ends, Advances, Course, FailedFor
  <2> QED BY <2>1 DEF AllOut, Steady, Final
<1>11. Course' BY <1>2, <1>3, <1>4, <1>5, <1>6, <1>9, <1>10 DEF Course
<1>12. ASSUME batch.state # batch'.state, Ends(batch'.state)
       PROVE  \/ batch.state \in {"OPEN", "PREPARING", "READY"} /\ batch'.state \in {"PAUSED", "FAILED"}
              \/ batch.state = "RUNNING" /\ batch'.state \in {"PAUSED", "FAILED", "COMPLETED"}
              \/ batch.state = "PAUSED" /\ batch'.state \in {"FAILED", "COMPLETED"}
  <2>1. batch.state \in States BY BatchFields DEF Typed
  <2>2. CASE batch.state \in {"OPEN", "PREPARING", "READY"}
    <3>1. Verdict = "none" BY <2>2, VerdictFacts DEF Course, Unstarted
    <3> QED BY <1>12, <2>2, <3>1 DEF Ends
  <2>3. CASE batch.state = "FAILED"
    <3>1. Verdict = "none" \/ Verdict = "FAILED"
      BY <2>3, VerdictFacts DEF Course, FailedFor
    <3> QED BY <1>12, <2>3, <3>1 DEF Ends
  <2>4. CASE batch.state \in {"RUNNING", "PAUSED"}
    BY <1>12, <2>4, VerdictFacts DEF Ends
  <2> QED BY <1>7, <1>12, <2>1, <2>2, <2>3, <2>4 DEF States, TERMINAL
<1>13. batch'.state \in {"READY", "RUNNING", "COMPLETED"} => bound' = Slots
  BY <1>0, <1>7, <1>8, <1>11 DEF Course, Whole, Steady
<1>14. batch.state # batch'.state =>
         \/ batch.state = "OPEN" /\ batch'.state \in {"PREPARING", "PAUSED", "FAILED"}
         \/ batch.state = "PREPARING" /\ batch'.state \in {"READY", "PAUSED", "FAILED"}
         \/ batch.state = "READY" /\ batch'.state \in {"RUNNING", "PAUSED", "FAILED"}
         \/ batch.state = "RUNNING" /\ batch'.state \in {"PAUSED", "FAILED", "COMPLETED"}
         \/ batch.state = "PAUSED" /\ batch'.state \in {"FAILED", "COMPLETED"}
  <2>1. CASE Ends(batch'.state) BY <1>12, <2>1
  <2>2. CASE Advances BY <2>2 DEF Advances
  <2> QED BY <2>1, <2>2 DEF Steady
<1>15. ~batch.open /\ batch.state # "PREPARING" => ~batch'.open BY DEF Steady
<1>16. /\ batch'.used \in {batch.used, batch.used + 1}
       /\ batch'.used = Cardinality(reserved') /\ reserved \subseteq reserved'
  BY <1>4 DEF Steady, Counted
<1>17. batch'.state = "COMPLETED" => \A x \in Slots : outcome'[x] = "PUBLISHED"
  BY <1>7, <1>8
<1>18. bounded_batch_guard
  BY <1>1, <1>13, <1>14, <1>15, <1>16, <1>17 DEF bounded_batch_guard
<1> QED BY <1>11, <1>18

-----------------------------------------------------------------------------
(* What the writes of the batch row amount to.                                 *)

Row ==
  /\ batch'.used = batch.used /\ batch'.owner \in {batch.owner, None}
  /\ batch'.open => batch.open
  /\ batch'.state = batch.state \/ Ends(batch'.state)

LEMMA CloseRow ==
  ASSUME Typed, NEW st \in TERMINAL, Close(st), Ends(st)
  PROVE  Row
<1>1. \A b \in BatchType :
        LET c == [b EXCEPT !.state = st, !.open = FALSE, !.owner = None, !.lease = "none"]
        IN  c.used = b.used /\ c.owner = None /\ c.open = FALSE /\ c.state = st
  BY DEF BatchType
<1>2. /\ batch'.used = batch.used /\ batch'.owner = None /\ batch'.open = FALSE
      /\ batch'.state = st
  BY <1>1 DEF Close, Typed
<1> QED BY <1>2 DEF Row

LEMMA KeptRow == UNCHANGED batch => Row
  BY DEF Row

LEMMA CloseIfOpenRow ==
  ASSUME Typed, CloseIfOpen
  PROVE  Row
<1>1. "PAUSED" \in TERMINAL /\ (batch.state \notin TERMINAL => Ends("PAUSED"))
  BY DEF TERMINAL, Ends
<1> QED BY <1>1, CloseRow, KeptRow DEF CloseIfOpen, KeepBatch

LEMMA CloseDoubtfulRow ==
  ASSUME Typed, CloseDoubtful
  PROVE  Row
<1>1. "PAUSED" \in TERMINAL /\ (batch.state \notin {"FAILED", "COMPLETED"} => Ends("PAUSED"))
  BY DEF TERMINAL, Ends
<1> QED BY <1>1, CloseRow, KeptRow DEF CloseDoubtful, KeepBatch

LEMMA VerdictRow ==
  ASSUME Typed, Close(Verdict), Verdict # "none", outcome' = Observed
  PROVE  Row
<1>1. Verdict \in TERMINAL /\ Ends(Verdict) BY VerdictCases DEF Ends
<1> QED BY <1>1, CloseRow

LEMMA ObserveRow ==
  ASSUME Typed, Observe
  PROVE  Row
BY VerdictRow, KeptRow DEF Observe, KeepBatch

LEMMA OngoingRow ==
  ASSUME Typed, Course, ~Ended,
         Close("PAUSED") \/ (Close("FAILED") /\ AllOut)
  PROVE  Row
<1>1. batch.state \notin TERMINAL /\ Verdict = "none" BY DEF Ended
<1>2. Ends("PAUSED") BY <1>1 DEF Ends, TERMINAL
<1>3. AllOut => Ends("FAILED") BY <1>1, VerdictFacts DEF Ends, TERMINAL
<1> QED BY <1>2, <1>3, CloseRow DEF TERMINAL

LEMMA ResolvedIsOut ==
  ASSUME Typed, Course, ~Unresolved
  PROVE  AllOut
<1>1. reserved \subseteq Slots BY DEF Typed
<1> QED BY <1>1, SeenFacts DEF Unresolved, AllOut, Course

(* A step that writes the row like this and takes over no batch.               *)
LEMMA RowStep ==
  ASSUME Typed, Typed', Course, Row, Final, UNCHANGED <<reserved, bound>>,
         outcome' \in {outcome, Observed},
         \A f \in Executors : pc'[f] \in {"start", "cands"} => pc[f] \in {"start", "cands"}
  PROVE  Course' /\ bounded_batch_guard
<1>1. Steady BY DEF Steady, Row
<1>2. Clean' BY ExecutorsAssumption DEF Clean, Row, Course, AllOut, Final
<1> QED BY <1>1, <1>2, CourseKept

LEMMA GotoStep ==
  ASSUME Typed, Typed', Course, NEW e \in Executors, NEW l, Goto(e, l),
         l \in {"start", "cands"} => pc[e] \in {"start", "cands"},
         Row, Final, UNCHANGED <<reserved, bound>>, outcome' \in {outcome, Observed}
  PROVE  Course' /\ bounded_batch_guard
<1>1. \A f \in Executors : pc'[f] = IF f = e THEN l ELSE pc[f] BY DEF Goto, Typed
<1> QED BY <1>1, RowStep

LEMMA SamePosts == UNCHANGED pub => Final
  BY DEF Final

-----------------------------------------------------------------------------
(* The steps.                                                                  *)

LEMMA PreparerCourse ==
  ASSUME Typed, Typed', Inv, Course,
         Freeze \/ Check \/ Execute \/ Bind \/ Seal \/ PrepareFailed \/ PreparerDies
  PROVE  Course' /\ bounded_batch_guard
<1> USE DEF ledger, posts, locals
<1>1. UNCHANGED <<pc, reserved, outcome>>
  BY DEF Freeze, Check, Execute, Bind, Seal, PrepareFailed, PreparerDies
<1>a. CASE Check \/ PreparerDies
  BY <1>1, <1>a, KeptRow, SamePosts, RowStep DEF Check, PreparerDies
<1>b. CASE Execute
  <2>1. reserved = {} BY <1>b DEF Inv, Prepared, Execute
  <2>2. Final BY <2>1 DEF Final
  <2> QED BY <1>1, <1>b, <2>2, KeptRow, RowStep DEF Execute
<1>c. CASE PrepareFailed
  <2>1. /\ reserved = {} /\ reserved # Slots
        /\ batch.state # "COMPLETED"
    BY <1>c, SlotFacts DEF Inv, Prepared, PrepareFailed, Course, CompletedFor, Told
  <2>2. Ends("FAILED") BY <2>1 DEF Ends, AllOut
  <2>3. Row BY <1>c, <2>2, CloseRow DEF PrepareFailed, TERMINAL
  <2> QED BY <1>1, <1>c, <2>3, SamePosts, RowStep DEF PrepareFailed
<1>d. ASSUME UNCHANGED pub, bound \subseteq bound',
             batch'.used = batch.used, batch'.owner = batch.owner,
             batch'.state = batch.state \/ Advances,
             batch'.open => batch.open \/ batch.state = "PREPARING"
      PROVE  Course' /\ bounded_batch_guard
  <2>1. Clean' BY <1>1, <1>d DEF Clean, AllOut, Course
  <2>2. Steady BY <1>1, <1>d DEF Steady, Final
  <2> QED BY <2>1, <2>2, CourseKept
<1>e. CASE Freeze
  <2>1. \A b \in BatchType : LET c == [b EXCEPT !.state = "PREPARING", !.lease = "live"]
          IN c.used = b.used /\ c.owner = b.owner /\ c.open = b.open /\ c.state = "PREPARING"
    BY DEF BatchType
  <2>2. /\ batch'.used = batch.used /\ batch'.owner = batch.owner /\ batch'.open = batch.open
        /\ batch'.state = "PREPARING" /\ batch.state = "OPEN"
    BY <1>e, <2>1 DEF Freeze, Typed
  <2> QED BY <1>d, <1>e, <2>2 DEF Freeze, Advances
<1>f. CASE Bind
  BY <1>d, <1>f DEF Bind
<1>g. CASE Seal
  <2>1. CASE UNCHANGED batch BY <1>d, <1>g, <2>1 DEF Seal
  <2>2. CASE batch.state = "PREPARING" /\ bound = Slots
             /\ batch' = [batch EXCEPT !.state = "READY", !.open = TRUE]
    <3>1. \A b \in BatchType : LET c == [b EXCEPT !.state = "READY", !.open = TRUE]
            IN c.used = b.used /\ c.owner = b.owner /\ c.state = "READY"
      BY DEF BatchType
    <3>2. batch'.used = batch.used /\ batch'.owner = batch.owner /\ batch'.state = "READY"
      BY <2>2, <3>1 DEF Typed
    <3> QED BY <1>d, <1>g, <2>2, <3>2 DEF Seal, Advances
  <2> QED BY <1>g, <2>1, <2>2 DEF Seal
<1> QED BY <1>a, <1>b, <1>c, <1>e, <1>f, <1>g

(* A reservation: everything reserved before is published, so this entry alone *)
(* is in doubt.                                                                *)
LEMMA ReserveCourse ==
  ASSUME Typed, Typed', Course, NEW e \in Executors, NEW s \in Slots \ reserved,
         Admits(e), outcome' = Observed, reserved' = reserved \cup {s},
         batch' = [batch EXCEPT !.used = @ + 1, !.open = batch.used + 1 < Target],
         pub' = [pub EXCEPT ![s] = "PUBLISHING"], UNCHANGED bound, Goto(e, "verify")
  PROVE  Course' /\ bounded_batch_guard
<1>0. /\ batch.state = "RUNNING" /\ batch.owner = e /\ batch.open
      /\ reserved \subseteq Slots
  BY DEF Admits, AdmissionOpen, OwnedBy, Typed
<1>1. batch'.state = "RUNNING" /\ batch'.owner = e /\ batch'.used = batch.used + 1
  <2> DEFINE o == batch.used + 1 < Target
  <2>1. \A b \in BatchType : LET c == [b EXCEPT !.used = b.used + 1, !.open = o]
          IN c.used = b.used + 1 /\ c.owner = b.owner /\ c.state = b.state
    BY DEF BatchType
  <2> QED BY <1>0, <2>1 DEF Typed
<1>2. AllOut BY ResolvedIsOut DEF Admits
<1>3. pub'[s] = "PUBLISHING" /\ \A t \in Slots \ {s} : pub'[t] = pub[t] BY DEF Typed
<1>4. Told'
  <2>1. Observed[s] = "none" BY SeenFacts DEF Course
  <2>2. ASSUME NEW x \in Slots, x # s, Observed[x] # "none"
        PROVE  /\ x \in reserved' /\ pub'[x] = pub[x]
               /\ Observed[x] = "PUBLISHED" => pub[x] = "PUBLISHED"
               /\ Observed[x] = "FAILED" => pub[x] = "PUBLISH_FAILED"
    BY <1>3, <2>2, SeenFacts DEF Course
  <2> QED BY <2>1, <2>2 DEF Told
<1>5. OneOut' BY <1>0, <1>2, <1>3 DEF OneOut, AllOut
<1>6. Counted' BY <1>0, <1>1, SlotFacts, FS_AddElement DEF Counted, Course
<1>7. Unstarted' /\ CompletedFor' /\ FailedFor' BY <1>1 DEF Unstarted, CompletedFor, FailedFor
<1>8. Whole' BY <1>0 DEF Whole, Course
<1>9. Clean' BY <1>1 DEF Clean, Goto, Typed
<1>10. \A x \in Slots : outcome[x] \in {"PUBLISHED", "FAILED"} => outcome'[x] = outcome[x]
  BY SeenFacts DEF Course
<1>11. bounded_batch_guard
  BY <1>0, <1>1, <1>6, <1>8, <1>10 DEF bounded_batch_guard, Counted, Whole
<1> QED BY <1>4, <1>5, <1>6, <1>7, <1>8, <1>9, <1>11 DEF Course

LEMMA ClaimCourse ==
  ASSUME Typed, Typed', Course, NEW e \in Executors, Claim(e)
  PROVE  Course' /\ bounded_batch_guard
<1>1. pc[e] = "claim" /\ UNCHANGED bound /\ cur[e] \in Slots BY DEF Claim, Typed, Placed
<1>a. ASSUME Goto(e, "denied"), UNCHANGED <<reserved, pub>>, outcome' \in {outcome, Observed}, Row
      PROVE  Course' /\ bounded_batch_guard
  BY <1>1, <1>a, SamePosts, GotoStep
<1>2. CASE CloseIfOpen /\ Goto(e, "denied") /\ UNCHANGED <<outcome, reserved, pub>>
  BY <1>2, <1>a, CloseIfOpenRow
<1>3. CASE Observe /\ Goto(e, "denied") /\ UNCHANGED <<reserved, pub>>
  BY <1>3, <1>a, ObserveRow DEF Observe
<1>4. CASE /\ Admits(e) /\ cur[e] \notin reserved
           /\ outcome' = Observed
           /\ reserved' = reserved \cup {cur[e]}
           /\ batch' = [batch EXCEPT !.used = @ + 1, !.open = batch.used + 1 < Target]
           /\ pub' = [pub EXCEPT ![cur[e]] = "PUBLISHING"]
           /\ Goto(e, "verify")
  BY <1>1, <1>4, ReserveCourse
<1>5. CASE /\ ~Ended
           /\ \/ Loses(e) /\ Close("PAUSED")
              \/ Mismatches(e) /\ Close("FAILED")
           /\ outcome' = Observed /\ Goto(e, "denied") /\ UNCHANGED <<reserved, pub>>
  <2>1. Mismatches(e) => AllOut BY ResolvedIsOut DEF Mismatches, Admits
  <2> QED BY <1>5, <1>a, <2>1, OngoingRow
<1>6. CASE Goto(e, "denied") /\ UNCHANGED <<batch, outcome, reserved, pub, permit, control>>
  BY <1>6, <1>a, KeptRow
<1> QED BY <1>2, <1>3, <1>4, <1>5, <1>6 DEF Claim

LEMMA acquireCourse ==
  ASSUME Typed, Typed', Inv, Course, NEW e \in Executors, acquire_batch(e)
  PROVE  Course' /\ bounded_batch_guard
<1>1. UNCHANGED <<bound, reserved, pub>> BY DEF acquire_batch
<1>2. CASE Observe /\ UNCHANGED pc
  BY <1>1, <1>2, ObserveRow, SamePosts, RowStep DEF Observe
<1>3. CASE ~Ended /\ outcome' = Observed /\ Close("PAUSED") /\ UNCHANGED pc
  BY <1>1, <1>3, OngoingRow, SamePosts, RowStep
<1>4. CASE /\ ~Ended /\ batch.open /\ outcome' = Observed /\ ~Unresolved
           /\ batch' = [batch EXCEPT !.state = "RUNNING", !.owner = e, !.lease = "live"]
  <2>1. \A b \in BatchType :
          LET c == [b EXCEPT !.state = "RUNNING", !.owner = e, !.lease = "live"]
          IN c.used = b.used /\ c.open = b.open /\ c.state = "RUNNING"
    BY DEF BatchType
  <2>2. batch'.used = batch.used /\ batch'.open = batch.open /\ batch'.state = "RUNNING"
    BY <1>4, <2>1 DEF Typed
  <2>3. batch'.state = batch.state \/ Advances
    BY <1>4, <2>2 DEF Inv, OpenIsReady, Advances
  <2>4. AllOut BY <1>4, ResolvedIsOut
  <2>5. Clean' BY <1>1, <2>4 DEF Clean, AllOut
  <2>6. Steady BY <1>1, <1>4, <2>2, <2>3 DEF Steady, Final
  <2> QED BY <2>5, <2>6, CourseKept
<1> QED BY <1>2, <1>3, <1>4 DEF acquire_batch

(* Steps that leave the batch alone: they make no final outcome another.       *)
LEMMA InwardCourse ==
  ASSUME Typed, Typed', Inv, Course, NEW e \in Executors,
         \/ StartRun(e) \/ Loop(e) \/ Verify(e) \/ Boundary(e) \/ LockCall(e) \/ Call(e)
         \/ Reconcile(e) \/ Finish(e) \/ Exception(e) \/ Die(e)
  PROVE  Course' /\ bounded_batch_guard
<1> USE DEF ledger, posts, locals
<1>1. UNCHANGED <<batch, bound, reserved, outcome>>
  BY DEF StartRun, Loop, Verify, Boundary, LockCall, Call, Reconcile, Finish, Exception, Die
<1>2. \E l \in Labels : Goto(e, l) /\ (l \in {"start", "cands"} => pc[e] \in {"start", "cands"})
  <2>1. CASE StartRun(e) BY <2>1 DEF StartRun, Labels
  <2>2. CASE Loop(e) \/ Verify(e) \/ Boundary(e) BY <2>2 DEF Loop, Verify, Boundary, Labels
  <2>3. CASE LockCall(e) \/ Call(e) BY <2>3 DEF LockCall, Call, Labels
  <2>4. CASE Reconcile(e) \/ Finish(e) \/ Exception(e) \/ Die(e)
    BY <2>4 DEF Reconcile, Finish, Exception, Die, Labels
  <2> QED BY <2>1, <2>2, <2>3, <2>4
<1>3. Final
  <2>1. CASE UNCHANGED pub BY <2>1, SamePosts
  <2>2. ASSUME NEW o, pub' = [pub EXCEPT ![cur[e]] = o],
               pub[cur[e]] \in {"PUBLISHING", "PUBLISH_UNKNOWN"}
        PROVE  Final
    BY <2>2 DEF Final, Typed
  <2>3. CASE Verify(e) \/ LockCall(e) \/ Reconcile(e)
    BY <2>1, <2>2, <2>3 DEF Verify, LockCall, Reconcile
  <2>4. CASE Call(e)
    <3>1. pub[cur[e]] = "PUBLISHING" BY <2>4 DEF Call, Inv, CallHoldsLock, CallIsAdmitted
    <3> QED BY <2>2, <2>4, <3>1 DEF Call
  <2> QED BY <2>1, <2>3, <2>4 DEF StartRun, Loop, Boundary, Finish, Exception, Die
<1> QED BY <1>1, <1>2, <1>3, KeptRow, GotoStep

LEMMA OutwardCourse ==
  ASSUME Typed, Typed', Course, NEW e \in Executors,
         \/ manifest_candidates(e) \/ Failing(e) \/ Conflict(e) \/ ObserveOutcome(e)
         \/ Pause(e) \/ Settle(e) \/ Denied(e) \/ After(e) \/ Release(e) \/ LetGo(e)
         \/ Wrap(e) \/ Incomplete(e) \/ Raise(e)
  PROVE  Course' /\ bounded_batch_guard
<1> USE DEF ledger, posts, locals
<1>1. /\ UNCHANGED <<bound, reserved, pub>>
      /\ \E l \in Labels \ {"start", "cands"} : Goto(e, l)
  <2>1. CASE manifest_candidates(e) \/ Failing(e) \/ Conflict(e) \/ ObserveOutcome(e)
    BY <2>1 DEF manifest_candidates, Failing, Conflict, ObserveOutcome, Labels
  <2>2. CASE Pause(e) \/ Settle(e) \/ Denied(e) \/ After(e) \/ Release(e)
    BY <2>2 DEF Pause, Settle, Denied, After, Release, Labels
  <2>3. CASE LetGo(e) \/ Wrap(e) \/ Incomplete(e) \/ Raise(e)
    BY <2>3 DEF LetGo, Wrap, Incomplete, Raise, Labels
  <2> QED BY <2>1, <2>2, <2>3
<1>2. outcome' \in {outcome, Observed}
  BY DEF manifest_candidates, Failing, Conflict, ObserveOutcome, Pause, Settle, Denied, After,
         Release, LetGo, Wrap, Incomplete, Raise, Observe
<1>3. Row
  <2>1. CASE Failing(e) \/ ObserveOutcome(e) \/ Settle(e) \/ After(e) \/ Release(e) \/ Wrap(e)
    BY <2>1, ObserveRow DEF Failing, ObserveOutcome, Settle, After, Release, Wrap
  <2>2. CASE Denied(e) \/ Raise(e) BY <2>2, CloseIfOpenRow DEF Denied, Raise
  <2>3. CASE Incomplete(e) BY <2>3, CloseDoubtfulRow DEF Incomplete
  <2>4. CASE Pause(e) BY <2>4, KeptRow DEF Pause
  <2>5. CASE Conflict(e) BY <2>5, VerdictRow, KeptRow DEF Conflict
  <2>6. CASE manifest_candidates(e)
    <3>1. ~Ended /\ OwnedBy(e) => AllOut BY <2>6 DEF manifest_candidates, OwnedBy, Course, Clean
    <3> QED BY <2>6, <3>1, VerdictRow, OngoingRow, KeptRow DEF manifest_candidates, KeepBatch
  <2>7. CASE LetGo(e)
    <3>1. \A b \in BatchType : LET c == [b EXCEPT !.owner = None, !.lease = "none"]
            IN c.used = b.used /\ c.open = b.open /\ c.state = b.state /\ c.owner = None
      BY DEF BatchType
    <3>2. CASE batch' = [batch EXCEPT !.owner = None, !.lease = "none"]
      BY <3>1, <3>2 DEF Row, Typed
    <3> QED BY <2>7, <3>2, CloseDoubtfulRow, KeptRow DEF LetGo
  <2> QED BY <2>1, <2>2, <2>3, <2>4, <2>5, <2>6, <2>7
<1> QED BY <1>1, <1>2, <1>3, SamePosts, GotoStep

LEMMA RestCourse ==
  ASSUME Typed, Typed', Course,
         \/ close_batch \/ LeaseExpires \/ RunAges \/ set_control_state
         \/ \E s \in Slots : Withdraw(s) \/ ReconcileUnknown(s) \/ Recover(s)
  PROVE  Course' /\ bounded_batch_guard
<1> USE DEF ledger, posts, locals
<1>1. UNCHANGED <<bound, reserved, outcome, pc>>
  BY DEF close_batch, LeaseExpires, RunAges, set_control_state, Withdraw, ReconcileUnknown, Recover
<1>2. Final
  <2>1. ASSUME NEW s \in Slots, Withdraw(s) \/ ReconcileUnknown(s) \/ Recover(s) PROVE Final
    BY <2>1 DEF Withdraw, ReconcileUnknown, Recover, Final, Typed
  <2> QED BY <2>1, SamePosts DEF close_batch, LeaseExpires, RunAges, set_control_state
<1>3. Row
  <2>1. CASE close_batch
    <3>1. "PAUSED" \in TERMINAL /\ Ends("PAUSED") BY <2>1 DEF close_batch, TERMINAL, Ends
    <3> QED BY <2>1, <3>1, CloseRow DEF close_batch
  <2>2. CASE LeaseExpires
    <3>1. \A b \in BatchType : LET c == [b EXCEPT !.lease = "expired"]
            IN c.used = b.used /\ c.open = b.open /\ c.state = b.state /\ c.owner = b.owner
      BY DEF BatchType
    <3> QED BY <2>2, <3>1 DEF LeaseExpires, Row, Typed
  <2>3. CASE UNCHANGED batch BY <2>3, KeptRow
  <2>4. ASSUME NEW s \in Slots, Withdraw(s) \/ ReconcileUnknown(s) \/ Recover(s) PROVE UNCHANGED batch
    BY <2>4 DEF Withdraw, ReconcileUnknown, Recover
  <2> QED BY <2>1, <2>2, <2>3, <2>4 DEF RunAges, set_control_state
<1> QED BY <1>1, <1>2, <1>3, RowStep

LEMMA CourseStep ==
  ASSUME Typed, Typed', Inv, Course, Next
  PROVE  Course' /\ bounded_batch_guard
BY PreparerCourse, ClaimCourse, acquireCourse, InwardCourse, OutwardCourse, RestCourse DEF Next

LEMMA CourseInvariant == Spec => [](Typed /\ Inv /\ Course)
<1>1. Init => Course BY CourseInit
<1>2. Course /\ UNCHANGED vars => Course'
  BY DEF vars, ledger, posts, locals, Course, Told, OneOut, Counted, Unstarted, Whole,
         CompletedFor, FailedFor, Clean, AllOut
<1>3. Typed /\ Typed' /\ Inv /\ Course /\ [Next]_vars => Course' BY <1>2, CourseStep
<1> QED BY <1>1, <1>3, BatchInvariant, PTL DEF Spec

(* The first failure, or the first outcome nobody knows, ends a batch: of the  *)
(* entries it ever reserved at most one is not known to be published.          *)
THEOREM OneEntryInFlight == Spec => []OneInFlight
BY CourseInvariant, CourseFollows, PTL

(* routine_bounded_batch_guard never refuses what the service writes outside   *)
(* the two places that count on it: states move forward, admission stays       *)
(* closed, reservations are counted and kept, outcomes are final, and          *)
(* COMPLETED means that everything is published.                               *)
THEOREM GuardNeverRefuses == Spec => GuardAccepts
<1>1. Typed /\ Typed' /\ Inv /\ Course /\ [Next]_vars => [bounded_batch_guard]_<<batch, ledger>>
  BY CourseStep DEF vars
<1> QED BY <1>1, CourseInvariant, PTL DEF Spec, GuardAccepts
=============================================================================
