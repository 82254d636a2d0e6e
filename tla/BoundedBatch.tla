---------------------------- MODULE BoundedBatch -----------------------------
(* A bounded batch (services/routine_bounded_batch.py): a manifest of exactly  *)
(* Target publications, frozen and permitted by a preparer                     *)
(* (routine_bounded_preparation.py), then published by executors that own the  *)
(* batch under a lease, through the hooks of run_once and of the dispatch      *)
(* protocol.  The first failure, or the first outcome nobody knows, ends it.   *)
(*                                                                             *)
(* Every operation locks the control row, then the batch row, so a step is one *)
(* transaction or one await.  The dispatch protocol itself is RoutinePublishing *)
(* and appears here only as far as the batch can tell.                         *)
EXTENDS Naturals, FiniteSets

CONSTANTS
  Executors,  \* calls of run_bounded_batch_once
  None,
  Target,     \* target_count: 5 in the code
  MaxFaults   \* bound: deaths and unexpected exceptions

Slots == 1..Target

ASSUME ExecutorsAssumption == None \notin Executors
ASSUME TargetAssumption == Target \in Nat \ {0} /\ MaxFaults \in Nat

VARIABLES
  batch,     \* the row of routine_autonomous_batches
  bound,     \* entries whose publication and permit are bound
  reserved,  \* entries with reserved_at
  outcome,   \* entries' recorded outcome
  pub,       \* status of the publication of each item
  permit,    \* its RoutineDispatchPermit
  marked,    \* slots whose attempt is past its provider boundary
  control,   \* RoutinePublishingControl.state
  lock,      \* the executor holding control and batch rows across provider I/O
  run,       \* the RUNNING routine run: its owner, and is its heartbeat stale?
  prep,      \* the preparer: where it is, and at which slot
  pc, cur, todo,  \* the locals of each executor
  faults

ledger == <<bound, reserved, outcome>>
posts  == <<pub, permit, marked>>
locals == <<pc, cur, todo>>
vars   == <<batch, ledger, posts, control, lock, run, prep, locals, faults>>

TERMINAL == {"PAUSED", "FAILED", "COMPLETED"}
Labels   == {"idle", "start", "cands", "loop", "claim", "verify", "failing", "boundary",
             "denied", "locking", "conflict", "call", "observe", "reconcile", "pause",
             "settle", "after", "finish", "release", "letgo", "wrap", "incomplete",
             "raise", "dead"}

TypeOK ==
  /\ batch \in [state : {"OPEN", "PREPARING", "READY", "RUNNING"} \cup TERMINAL,
                open : BOOLEAN, used : 0..Target, owner : Executors \cup {None},
                lease : {"none", "live", "expired"}]
  /\ bound \in SUBSET Slots /\ reserved \in SUBSET Slots /\ marked \in SUBSET Slots
  /\ outcome \in [Slots -> {"none", "PUBLISHED", "FAILED", "UNKNOWN"}]
  /\ pub \in [Slots -> {"none", "SCHEDULED", "CANCELLED", "PUBLISHING", "PUBLISHED",
                        "PUBLISH_FAILED", "PUBLISH_UNKNOWN"}]
  /\ permit \in [Slots -> {"none", "ACTIVE", "CONSUMED", "REVOKED"}]
  /\ control \in {"PAUSED", "LIVE"}
  /\ lock \in Executors \cup {None}
  /\ run \in [owner : Executors \cup {None}, stale : BOOLEAN]
  /\ prep \in [at : {"idle", "check", "exec", "bind", "seal", "fail", "done", "dead", "late"},
               slot : 1..(Target + 1)]
  /\ pc \in [Executors -> Labels]
  /\ cur \in [Executors -> 0..Target]
  /\ todo \in [Executors -> SUBSET Slots]
  /\ faults \in 0..MaxFaults

NoRun == [owner |-> None, stale |-> FALSE]

(* create_batch has committed the OPEN row.                                    *)
Init ==
  /\ batch = [state |-> "OPEN", open |-> FALSE, used |-> 0, owner |-> None, lease |-> "none"]
  /\ bound = {} /\ reserved = {} /\ marked = {}
  /\ outcome = [s \in Slots |-> "none"]
  /\ pub = [s \in Slots |-> "none"]
  /\ permit = [s \in Slots |-> "none"]
  /\ control = "PAUSED"
  /\ lock = None
  /\ run = NoRun
  /\ prep = [at |-> "idle", slot |-> 1]
  /\ pc = [e \in Executors |-> "idle"]
  /\ cur = [e \in Executors |-> 0]
  /\ todo = [e \in Executors |-> {}]
  /\ faults = 0

Goto(e, l) == pc' = [pc EXCEPT ![e] = l]
Fault == faults < MaxFaults /\ faults' = faults + 1

-----------------------------------------------------------------------------
(* Closing and observing.                                                      *)

(* Mutant: only permits already bound to the manifest are revoked.             *)
CloseBoundOnly(state) ==
  /\ batch' = [batch EXCEPT !.state = state, !.open = FALSE, !.owner = None, !.lease = "none"]
  /\ control' = "PAUSED"
  /\ permit' = [s \in Slots |-> IF s \in bound \ reserved /\ permit[s] = "ACTIVE"
                                THEN "REVOKED" ELSE permit[s]]

(* _close: no owner, nothing admitted, control paused, and the permits of all  *)
(* items that were not reserved revoked, bound to the manifest or not yet.     *)
Close(state) ==
  /\ batch' = [batch EXCEPT !.state = state, !.open = FALSE, !.owner = None, !.lease = "none"]
  /\ control' = "PAUSED"
  /\ permit' = [s \in Slots |-> IF s \notin reserved /\ permit[s] = "ACTIVE"
                                THEN "REVOKED" ELSE permit[s]]

KeepBatch == UNCHANGED <<batch, control, permit>>

(* Mutant: close_batch reclassifies a batch that had already ended.            *)
CloseAgain == Close("PAUSED")

CloseIfOpen ==
  IF batch.state \in TERMINAL THEN KeepBatch ELSE Close("PAUSED")

Seen(s) == CASE pub[s] = "PUBLISHED" -> "PUBLISHED"
             [] pub[s] = "PUBLISH_FAILED" -> "FAILED"
             [] pub[s] = "PUBLISH_UNKNOWN" -> "UNKNOWN"
             [] OTHER -> "pending"

Observed == [s \in Slots |-> IF s \in reserved /\ Seen(s) # "pending" THEN Seen(s) ELSE outcome[s]]

Verdict ==
  LET Is(o) == \E s \in reserved : Seen(s) = o IN
  CASE Is("UNKNOWN") -> "PAUSED"
    [] ~Is("UNKNOWN") /\ Is("FAILED") -> "FAILED"
    [] reserved = Slots /\ \A s \in Slots : Seen(s) = "PUBLISHED" -> "COMPLETED"
    [] OTHER -> "none"

(* _observe_locked.  Its ledger check cannot fail: the database guards it.     *)
Observe ==
  /\ outcome' = Observed
  /\ IF Verdict = "none" THEN KeepBatch ELSE Close(Verdict)

(* What a guarded operation finds closed after observing.                      *)
Ended == Verdict # "none" \/ batch.state \in TERMINAL

(* Mutant: an entry nobody has an outcome of is taken for settled.             *)
UnresolvedIfBad == \E s \in reserved : Observed[s] \in {"FAILED", "UNKNOWN"}

Unresolved == \E s \in reserved : Observed[s] # "PUBLISHED"

OwnedBy(e) == batch.owner = e /\ batch.lease = "live"

-----------------------------------------------------------------------------
(* prepare_batch.                                                              *)

Freeze ==
  /\ prep.at = "idle" /\ batch.state = "OPEN" /\ lock = None
  /\ batch' = [batch EXCEPT !.state = "PREPARING", !.lease = "live"]
  /\ prep' = [prep EXCEPT !.at = "check"]
  /\ UNCHANGED <<ledger, posts, control, lock, run, locals, faults>>

Check ==
  /\ prep.at = "check" /\ lock = None
  /\ prep' = [prep EXCEPT !.at = IF batch.state = "PREPARING" THEN "exec" ELSE "fail"]
  /\ UNCHANGED <<batch, ledger, posts, control, lock, run, locals, faults>>

(* execute_autonomous_item commits the publication and its permit on its own.  *)
Execute ==
  /\ prep.at = "exec"
  /\ \/ /\ pub' = [pub EXCEPT ![prep.slot] = "SCHEDULED"]
        /\ permit' = [permit EXCEPT ![prep.slot] = "ACTIVE"]
        /\ prep' = [prep EXCEPT !.at = "bind"]
     \/ /\ prep' = [prep EXCEPT !.at = "fail"]
        /\ UNCHANGED <<pub, permit>>
  /\ UNCHANGED <<batch, ledger, marked, control, lock, run, locals, faults>>

(* The binding is refused by the database once the batch is not PREPARING, and *)
(* by validate_identity once the permit is not ACTIVE.                         *)
Bind ==
  /\ prep.at = "bind" /\ lock = None
  /\ IF batch.state = "PREPARING" /\ permit[prep.slot] = "ACTIVE"
     THEN /\ bound' = bound \cup {prep.slot}
          /\ prep' = [slot |-> prep.slot + 1,
                      at |-> IF prep.slot = Target THEN "seal" ELSE "check"]
     ELSE /\ prep' = [prep EXCEPT !.at = "fail"]
          /\ UNCHANGED bound
  /\ UNCHANGED <<batch, reserved, outcome, posts, control, lock, run, locals, faults>>

(* seal_batch: every entry bound, active, scheduled and never attempted.       *)
Seal ==
  /\ prep.at = "seal" /\ lock = None
  /\ IF /\ batch.state = "PREPARING" /\ bound = Slots
        /\ \A s \in Slots : pub[s] = "SCHEDULED" /\ permit[s] = "ACTIVE"
     THEN /\ batch' = [batch EXCEPT !.state = "READY", !.open = TRUE]
          /\ prep' = [prep EXCEPT !.at = "done"]
     ELSE prep' = [prep EXCEPT !.at = "fail"] /\ UNCHANGED batch
  /\ UNCHANGED <<ledger, posts, control, lock, run, locals, faults>>

(* The except clause closes whatever state the batch is in by now.             *)
PrepareFailed ==
  /\ prep.at = "fail" /\ lock = None
  /\ Close("FAILED")
  /\ prep' = [prep EXCEPT !.at = "done"]
  /\ UNCHANGED <<ledger, pub, marked, lock, run, locals, faults>>

(* "late" tells a death after the batch was closed from one before.            *)
PreparerDies ==
  /\ prep.at \in {"check", "exec", "bind", "seal", "fail"}
  /\ Fault
  /\ prep' = [prep EXCEPT !.at = IF batch.state \in TERMINAL THEN "late" ELSE "dead"]
  /\ UNCHANGED <<batch, ledger, posts, control, lock, run, locals>>

-----------------------------------------------------------------------------
(* run_bounded_batch_once, and run_once inside it.                             *)

(* acquire_batch.  A live lease refuses and leaves no trace.                   *)
acquire_batch(e) ==
  /\ pc[e] = "idle" /\ lock = None
  /\ \/ /\ Ended \/ ~batch.open
        /\ Observe
        /\ UNCHANGED pc
     \/ /\ ~Ended /\ batch.open
        /\ batch.owner = None \/ batch.lease # "live"
        /\ outcome' = Observed
        /\ IF Unresolved
           THEN Close("PAUSED") /\ UNCHANGED pc
           ELSE /\ batch' = [batch EXCEPT !.state = "RUNNING", !.owner = e, !.lease = "live"]
                /\ Goto(e, "start")
                /\ UNCHANGED <<control, permit>>
  /\ UNCHANGED <<bound, reserved, pub, marked, lock, run, prep, cur, todo, faults>>

(* run_once refuses to start when paused or while another run is alive.        *)
StartRun(e) ==
  /\ pc[e] = "start"
  /\ IF control = "LIVE" /\ (run.owner = None \/ run.stale)
     THEN run' = [owner |-> e, stale |-> FALSE] /\ Goto(e, "cands")
     ELSE Goto(e, "wrap") /\ UNCHANGED run
  /\ UNCHANGED <<batch, ledger, posts, control, lock, prep, cur, todo, faults>>

(* manifest_candidates: any of the remaining entries may be due.               *)
manifest_candidates(e) ==
  /\ pc[e] = "cands" /\ lock = None
  /\ outcome' = Observed
  /\ \/ /\ Ended
        /\ IF Verdict = "none" THEN KeepBatch ELSE Close(Verdict)
        /\ Goto(e, "raise") /\ UNCHANGED todo
     \/ /\ ~Ended /\ ~OwnedBy(e)
        /\ Close("PAUSED")
        /\ Goto(e, "raise") /\ UNCHANGED todo
     \/ /\ ~Ended /\ OwnedBy(e)
        /\ LET left == Slots \ reserved IN
           IF \A s \in left : permit[s] = "ACTIVE" /\ pub[s] = "SCHEDULED"
           THEN \E S \in SUBSET left :
                  todo' = [todo EXCEPT ![e] = S] /\ Goto(e, "loop") /\ KeepBatch
           ELSE Close("FAILED") /\ Goto(e, "raise") /\ UNCHANGED todo
  /\ UNCHANGED <<bound, reserved, pub, marked, lock, run, prep, cur, faults>>

(* The next candidate, in manifest order.  Its permit and its awaited          *)
(* preflight may fail; the daily limit ends the loop without closing.          *)
Loop(e) ==
  /\ pc[e] = "loop"
  /\ \/ Goto(e, "after") /\ UNCHANGED <<cur, todo>>
     \/ \E s \in todo[e] :
        /\ \A t \in todo[e] : s <= t
        /\ todo' = [todo EXCEPT ![e] = @ \ {s}]
        /\ cur' = [cur EXCEPT ![e] = s]
        /\ \/ permit[s] = "ACTIVE" /\ pub[s] = "SCHEDULED" /\ Goto(e, "claim")
           \/ Goto(e, "denied")
  /\ UNCHANGED <<batch, ledger, posts, control, lock, run, prep, faults>>

(* reserve_entry's conditions once the batch has not ended.                    *)
AdmissionOpen ==
  batch.state = "RUNNING" /\ batch.open /\ batch.used < Target /\ control = "LIVE"
Admits(e) == AdmissionOpen /\ OwnedBy(e) /\ ~Unresolved

(* Where reserve_entry closes the batch before it refuses.                     *)
Loses(e) == AdmissionOpen /\ ~OwnedBy(e)
Mismatches(e) == Admits(e) /\ (cur[e] \in reserved \/ permit[cur[e]] # "ACTIVE")

(* claim_for_routine: the reservation, the claim, the consumed permit and the  *)
(* bound attempt in one transaction.  A permit that no longer validates closes *)
(* the batch, and so does reserve_entry for a lease that has run out or an     *)
(* entry that changed; whatever else refuses (admission closed, an entry       *)
(* pending, a quota, a lost race) rolls it all back.                           *)
Claim(e) ==
  /\ pc[e] = "claim" /\ lock = None
  /\ LET s == cur[e] IN
     \/ /\ CloseIfOpen
        /\ Goto(e, "denied")
        /\ UNCHANGED <<outcome, reserved, pub>>
     \/ /\ Ended
        /\ Observe
        /\ Goto(e, "denied")
        /\ UNCHANGED <<reserved, pub>>
     \/ /\ ~Ended /\ Admits(e)
        /\ s \notin reserved /\ permit[s] = "ACTIVE" /\ pub[s] = "SCHEDULED"
        /\ outcome' = Observed
        /\ reserved' = reserved \cup {s}
        /\ batch' = [batch EXCEPT !.used = @ + 1, !.open = batch.used + 1 < Target]
        /\ pub' = [pub EXCEPT ![s] = "PUBLISHING"]
        /\ permit' = [permit EXCEPT ![s] = "CONSUMED"]
        /\ Goto(e, "verify")
        /\ UNCHANGED control
     \/ /\ ~Ended
        /\ \/ Loses(e) /\ Close("PAUSED")
           \/ Mismatches(e) /\ Close("FAILED")
        /\ outcome' = Observed
        /\ Goto(e, "denied")
        /\ UNCHANGED <<reserved, pub>>
     \/ /\ Goto(e, "denied")
        /\ UNCHANGED <<batch, outcome, reserved, pub, permit, control>>
  /\ UNCHANGED <<bound, marked, lock, run, prep, cur, todo, faults>>

(* verify_destination and the second validation, then either the boundary or   *)
(* _persist_pre_provider_failure.                                              *)
Verify(e) ==
  /\ pc[e] = "verify"
  /\ \/ Goto(e, "boundary") /\ UNCHANGED pub
     \/ /\ pub[cur[e]] = "PUBLISHING"
        /\ pub' = [pub EXCEPT ![cur[e]] = "PUBLISH_FAILED"]
        /\ Goto(e, "failing")
  /\ UNCHANGED <<batch, ledger, permit, marked, control, lock, run, prep, cur, todo, faults>>

(* The same failure is observed in a transaction of its own.                   *)
Failing(e) ==
  /\ pc[e] = "failing" /\ lock = None
  /\ Observe
  /\ Goto(e, "denied")
  /\ UNCHANGED <<bound, reserved, pub, marked, lock, run, prep, cur, todo, faults>>

(* check_provider_boundary, control read again under its lock.  Anything else  *)
(* that validate_identity compares may refuse as well.                         *)
check_provider_boundary(e) ==
  /\ batch.state = "RUNNING" /\ OwnedBy(e) /\ control = "LIVE"
  /\ cur[e] \in reserved /\ permit[cur[e]] = "CONSUMED"

Boundary(e) ==
  /\ pc[e] = "boundary" /\ lock = None
  /\ \/ /\ pub[cur[e]] = "PUBLISHING" /\ check_provider_boundary(e)
        /\ marked' = marked \cup {cur[e]}
        /\ Goto(e, "locking")
     \/ Goto(e, "denied") /\ UNCHANGED marked
  /\ UNCHANGED <<batch, ledger, pub, permit, control, lock, run, prep, cur, todo, faults>>

(* Mutant: what the boundary has checked is believed at the call.              *)
LockCallUnchecked(e) ==
  /\ pc[e] = "locking" /\ lock = None /\ pub[cur[e]] = "PUBLISHING"
  /\ lock' = e /\ Goto(e, "call")
  /\ UNCHANGED <<batch, ledger, posts, control, run, prep, cur, todo, faults>>

(* _lock_provider_call: control and batch rows stay locked through the call.   *)
(* Paused since the boundary, the outcome is recorded as UNKNOWN; refused by   *)
(* the batch alone, the claim is left PUBLISHING.                              *)
LockCall(e) ==
  /\ pc[e] = "locking" /\ lock = None
  /\ \/ /\ pub[cur[e]] = "PUBLISHING" /\ check_provider_boundary(e)
        /\ lock' = e /\ Goto(e, "call") /\ UNCHANGED pub
     \/ /\ pub[cur[e]] = "PUBLISHING" /\ control = "LIVE"
        /\ Goto(e, "denied") /\ UNCHANGED <<lock, pub>>
     \/ /\ pub[cur[e]] = "PUBLISHING" /\ control # "LIVE"
        /\ pub' = [pub EXCEPT ![cur[e]] = "PUBLISH_UNKNOWN"]
        /\ Goto(e, "conflict") /\ UNCHANGED lock
     \/ /\ pub[cur[e]] # "PUBLISHING"
        /\ Goto(e, "conflict") /\ UNCHANGED <<lock, pub>>
  /\ UNCHANGED <<batch, ledger, permit, marked, control, run, prep, cur, todo, faults>>

(* The conflict is observed, control paused, and the worker closes the batch.  *)
Conflict(e) ==
  /\ pc[e] = "conflict" /\ lock = None
  /\ outcome' = Observed
  /\ IF Verdict # "none" THEN Close(Verdict)
     ELSE control' = "PAUSED" /\ UNCHANGED <<batch, permit>>
  /\ Goto(e, "denied")
  /\ UNCHANGED <<bound, reserved, pub, marked, lock, run, prep, cur, todo, faults>>

(* The provider answers, and its outcome is persisted before the lock goes: a  *)
(* definitive failure, an unknown outcome, or a post already sent.             *)
Call(e) ==
  /\ pc[e] = "call"
  /\ \E o \in {"PUBLISH_FAILED", "PUBLISH_UNKNOWN"} :
       /\ pub' = [pub EXCEPT ![cur[e]] = o]
       /\ \/ Goto(e, "observe")
          \/ o = "PUBLISH_UNKNOWN" /\ Goto(e, "reconcile")
  /\ lock' = None
  /\ UNCHANGED <<batch, ledger, permit, marked, control, run, prep, cur, todo, faults>>

ObserveOutcome(e) ==
  /\ pc[e] = "observe" /\ lock = None
  /\ Observe
  /\ Goto(e, IF pub[cur[e]] = "PUBLISH_FAILED" THEN "after" ELSE "pause")
  /\ UNCHANGED <<bound, reserved, pub, marked, lock, run, prep, cur, todo, faults>>

(* A sent post is reconciled at once, or its link stays unverified.            *)
Reconcile(e) ==
  /\ pc[e] = "reconcile"
  /\ \/ /\ pub[cur[e]] = "PUBLISH_UNKNOWN"
        /\ pub' = [pub EXCEPT ![cur[e]] = "PUBLISHED"]
        /\ Goto(e, "settle")
     \/ Goto(e, "pause") /\ UNCHANGED pub
  /\ UNCHANGED <<batch, ledger, permit, marked, control, lock, run, prep, cur, todo, faults>>

(* pause_on_unknown; the loop goes on only past a publication that is          *)
(* PUBLISHED when the dispatch returns.                                        *)
Pause(e) ==
  /\ pc[e] = "pause" /\ lock = None
  /\ control' = "PAUSED"
  /\ Goto(e, IF pub[cur[e]] = "PUBLISHED" THEN "settle" ELSE "after")
  /\ UNCHANGED <<batch, ledger, posts, lock, run, prep, cur, todo, faults>>

Settle(e) ==
  /\ pc[e] = "settle" /\ lock = None
  /\ Observe
  /\ Goto(e, "loop")
  /\ UNCHANGED <<bound, reserved, pub, marked, lock, run, prep, cur, todo, faults>>

(* close_batch by the worker, which then leaves its loop.                      *)
Denied(e) ==
  /\ pc[e] = "denied" /\ lock = None
  /\ CloseIfOpen
  /\ Goto(e, "after")
  /\ UNCHANGED <<ledger, pub, marked, lock, run, prep, cur, todo, faults>>

After(e) ==
  /\ pc[e] = "after" /\ lock = None
  /\ Observe
  /\ Goto(e, "finish")
  /\ UNCHANGED <<bound, reserved, pub, marked, lock, run, prep, cur, todo, faults>>

FinishRun(e) == run' = IF run.owner = e THEN NoRun ELSE run

Finish(e) ==
  /\ pc[e] = "finish"
  /\ FinishRun(e)
  /\ Goto(e, "release")
  /\ UNCHANGED <<batch, ledger, posts, control, lock, prep, cur, todo, faults>>

(* Doubtful ticks close the batch, in the transaction after the observing one. *)
(* If someone else has ended it in between, the database refuses to reclassify *)
(* it and the exception is swallowed with nothing changed.                     *)
CloseDoubtful ==
  IF batch.state \in {"FAILED", "COMPLETED"} THEN KeepBatch ELSE Close("PAUSED")

(* A run that did not even start is doubtful.                                  *)
Wrap(e) ==
  /\ pc[e] = "wrap" /\ lock = None
  /\ Observe
  /\ Goto(e, IF Ended THEN "idle" ELSE "incomplete")
  /\ UNCHANGED <<bound, reserved, pub, marked, lock, run, prep, cur, todo, faults>>

Incomplete(e) ==
  /\ pc[e] = "incomplete" /\ lock = None
  /\ CloseDoubtful
  /\ Goto(e, "idle")
  /\ UNCHANGED <<ledger, pub, marked, lock, run, prep, cur, todo, faults>>

(* So is a complete one that leaves an outcome open or control not LIVE.       *)
Release(e) ==
  /\ pc[e] = "release" /\ lock = None
  /\ Observe
  /\ Goto(e, IF Ended THEN "idle" ELSE "letgo")
  /\ UNCHANGED <<bound, reserved, pub, marked, lock, run, prep, cur, todo, faults>>

(* Mutant: the tick leaves without giving up the batch.                        *)
LetGoKept(e) ==
  /\ pc[e] = "letgo" /\ lock = None
  /\ Goto(e, "idle")
  /\ UNCHANGED <<batch, ledger, posts, control, lock, run, prep, cur, todo, faults>>

(* Otherwise ownership is released, and a later tick resumes the batch.        *)
LetGo(e) ==
  /\ pc[e] = "letgo" /\ lock = None
  /\ IF control # "LIVE" \/ \E s \in reserved : outcome[s] # "PUBLISHED"
     THEN CloseDoubtful
     ELSE /\ batch' = IF batch.owner = e
                      THEN [batch EXCEPT !.owner = None, !.lease = "none"] ELSE batch
          /\ UNCHANGED <<control, permit>>
  /\ Goto(e, "idle")
  /\ UNCHANGED <<ledger, pub, marked, lock, run, prep, cur, todo, faults>>

(* The except clauses of run_once and of run_bounded_batch_once.               *)
Raise(e) ==
  /\ pc[e] = "raise" /\ lock = None
  /\ CloseIfOpen
  /\ FinishRun(e)
  /\ Goto(e, "idle")
  /\ UNCHANGED <<ledger, pub, marked, lock, prep, cur, todo, faults>>

AtWork == Labels \ {"idle", "dead", "raise"}

Exception(e) ==
  /\ pc[e] \in AtWork /\ Fault
  /\ lock' = IF lock = e THEN None ELSE lock
  /\ Goto(e, "raise")
  /\ UNCHANGED <<batch, ledger, posts, control, run, prep, cur, todo>>

Die(e) ==
  /\ pc[e] \in AtWork \cup {"raise"} /\ Fault
  /\ lock' = IF lock = e THEN None ELSE lock
  /\ Goto(e, "dead")
  /\ UNCHANGED <<batch, ledger, posts, control, run, prep, cur, todo>>

-----------------------------------------------------------------------------
(* Everyone else.                                                              *)

close_batch ==
  /\ lock = None /\ batch.state \notin TERMINAL
  /\ Close("PAUSED")
  /\ UNCHANGED <<ledger, pub, marked, lock, run, prep, locals, faults>>

LeaseExpires ==
  /\ batch.lease = "live"
  /\ batch' = [batch EXCEPT !.lease = "expired"]
  /\ UNCHANGED <<ledger, posts, control, lock, run, prep, locals, faults>>

RunAges ==
  /\ run.owner # None /\ ~run.stale /\ pc[run.owner] \in {"idle", "dead"}
  /\ run' = [run EXCEPT !.stale = TRUE]
  /\ UNCHANGED <<batch, ledger, posts, control, lock, prep, locals, faults>>

set_control_state ==
  /\ lock = None
  /\ control' \in {"PAUSED", "LIVE"} \ {control}
  /\ UNCHANGED <<batch, ledger, posts, lock, run, prep, locals, faults>>

(* An administrator withdraws a member: its permit, or its schedule.           *)
Withdraw(s) ==
  /\ \/ permit[s] = "ACTIVE" /\ permit' = [permit EXCEPT ![s] = "REVOKED"] /\ UNCHANGED pub
     \/ pub[s] = "SCHEDULED" /\ pub' = [pub EXCEPT ![s] = "CANCELLED"] /\ UNCHANGED permit
  /\ UNCHANGED <<batch, ledger, marked, control, lock, run, prep, locals, faults>>

(* An operator reconciles an unknown outcome with Buffer.                      *)
ReconcileUnknown(s) ==
  /\ pub[s] = "PUBLISH_UNKNOWN"
  /\ \E o \in {"PUBLISHED", "PUBLISH_FAILED"} : pub' = [pub EXCEPT ![s] = o]
  /\ UNCHANGED <<batch, ledger, permit, marked, control, lock, run, prep, locals, faults>>

(* An ordinary worker recovers the claim of an executor that is gone.          *)
Recover(s) ==
  /\ pub[s] = "PUBLISHING" /\ lock = None
  /\ \A e \in Executors : cur[e] = s => pc[e] \notin AtWork
  /\ pub' = [pub EXCEPT ![s] = IF s \in marked THEN "PUBLISH_UNKNOWN" ELSE "PUBLISH_FAILED"]
  /\ control' = IF s \in marked THEN "PAUSED" ELSE control
  /\ UNCHANGED <<batch, ledger, permit, marked, lock, run, prep, locals, faults>>

Next ==
  \/ Freeze \/ Check \/ Execute \/ Bind \/ Seal \/ PrepareFailed \/ PreparerDies
  \/ \E e \in Executors :
       \/ acquire_batch(e) \/ StartRun(e) \/ manifest_candidates(e) \/ Loop(e) \/ Claim(e)
       \/ Verify(e) \/ Failing(e) \/ Boundary(e) \/ LockCall(e) \/ Conflict(e) \/ Call(e)
       \/ ObserveOutcome(e) \/ Reconcile(e) \/ Pause(e) \/ Settle(e) \/ Denied(e)
       \/ After(e) \/ Finish(e) \/ Release(e) \/ LetGo(e) \/ Wrap(e) \/ Incomplete(e) \/ Raise(e) \/ Exception(e) \/ Die(e)
  \/ close_batch \/ LeaseExpires \/ RunAges \/ set_control_state
  \/ \E s \in Slots : Withdraw(s) \/ ReconcileUnknown(s) \/ Recover(s)

Spec == Init /\ [][Next]_vars

-----------------------------------------------------------------------------
(* Properties.                                                                 *)

(* A batch stops at its first doubt: of all the entries it ever reserved, at   *)
(* most one is not known to be published.                                      *)
OneInFlight == Cardinality({s \in reserved : pub[s] # "PUBLISHED"}) <= 1

(* While an executor talks to the provider the batch is running, is owned by   *)
(* that executor, and control is LIVE, whoever pauses or closes meanwhile.     *)
CallIsAdmitted ==
  \A e \in Executors : lock = e =>
    /\ batch.state = "RUNNING" /\ batch.owner = e
    /\ control = "LIVE"
    /\ cur[e] \in reserved /\ pub[cur[e]] = "PUBLISHING"

(* A closed batch leaves no permit behind that something else could spend,     *)
(* except the one a preparer is creating while the batch closes over it.       *)
PermitsDieWithBatch ==
  batch.state \in TERMINAL =>
    \A s \in Slots : permit[s] = "ACTIVE" =>
      s \notin bound /\ prep.slot = s /\ prep.at \in {"bind", "fail", "late"}

(* Every return of an executor leaves the batch to others: it is not owned by  *)
(* a call that is over, so no lease has to run out before the next tick.       *)
NobodyLeavesOwning == \A e \in Executors : batch.owner = e => pc[e] # "idle"

(* The service never asks for what the database trigger refuses, save where    *)
(* CloseDoubtful and Bind count on the refusal: states move forward, a closed  *)
(* admission stays closed, reservations are counted one by one and never       *)
(* undone, and COMPLETED means all of the batch is published.                  *)
bounded_batch_guard ==
  LET s == batch.state
      t == batch'.state
  IN /\ s # t => \/ s = "OPEN" /\ t \in {"PREPARING", "PAUSED", "FAILED"}
                 \/ s = "PREPARING" /\ t \in {"READY", "PAUSED", "FAILED"}
                 \/ s = "READY" /\ t \in {"RUNNING", "PAUSED", "FAILED"}
                 \/ s = "RUNNING" /\ t \in {"PAUSED", "FAILED", "COMPLETED"}
                 \/ s = "PAUSED" /\ t \in {"FAILED", "COMPLETED"}
     /\ ~batch.open /\ s # "PREPARING" => ~batch'.open
     /\ batch'.used \in {batch.used, batch.used + 1}
     /\ batch'.used = Cardinality(reserved') /\ reserved \subseteq reserved'
     /\ t \in {"READY", "RUNNING", "COMPLETED"} => bound' = Slots
     /\ t = "COMPLETED" => \A x \in Slots : outcome'[x] = "PUBLISHED"
     /\ \A x \in Slots : outcome[x] \in {"PUBLISHED", "FAILED"} => outcome'[x] = outcome[x]

GuardAccepts == [][bounded_batch_guard]_<<batch, ledger>>
=============================================================================
