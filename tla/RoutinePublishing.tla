------------------------- MODULE RoutinePublishing --------------------------
(* Unattended publishing of scheduled pins through Buffer: the routine worker  *)
(* (services/routine_pinterest_worker.py), its dispatch protocol               *)
(* (routine_buffer_dispatch.py), the dispatch permit                           *)
(* (routine_dispatch_authorization.py), the control row and the run row        *)
(* (routine_publishing_control.py), the recovery of claims a dead worker left  *)
(* behind, and the operators who schedule, cancel, permit, pause and reconcile *)
(* while a worker runs.                                                        *)
(*                                                                             *)
(* A step is what one database transaction, or one await, makes atomic.        *)
(* PostgreSQL runs READ COMMITTED and the ORM refreshes a loaded row only      *)
(* after a commit or when told to, so a guard reads the database exactly where *)
(* the code re-reads it; elsewhere the value the worker already holds is used. *)
EXTENDS Naturals, FiniteSets

CONSTANTS
  Pubs,          \* the publications
  Workers,       \* processes that may execute run_once
  Operators,     \* clients of the publication routes
  None,
  MaxAttempts,   \* bound: attempts per publication
  MaxPermits,    \* bound: permits created per publication
  MaxCrashes,    \* bound: worker deaths and unexpected exceptions
  DailyLimit,    \* routine_pinterest_daily_write_limit, for the one day modelled
  BatchSize,     \* routine_pinterest_batch_size
  SlowWorkers,   \* may a live worker stay silent for routine_claim_stale_seconds?
  RequestRaces   \* may other steps fall between a request's read and its write?

ASSUME NoneAssumption == None \notin Workers
ASSUME BoundAssumption ==
  /\ MaxAttempts \in Nat /\ MaxPermits \in Nat /\ MaxCrashes \in Nat
  /\ DailyLimit \in Nat \ {0} /\ BatchSize \in Nat \ {0}
ASSUME SwitchAssumption == SlowWorkers \in BOOLEAN /\ RequestRaces \in BOOLEAN

Attempts == Pubs \X (1..MaxAttempts)

VARIABLES
  status,    \* PinPublication.status
  slot,      \* PinPublication.scheduled_for: "none", in the "future", or "due"
  pinId,     \* is PinPublication.pinterest_pin_id set?
  permit,    \* the latest RoutineDispatchPermit of a publication; older ones are spent
  nAtt,      \* number of PublicationAttempt rows of a publication
  att,       \* PublicationAttempt joined with its RoutineAttemptBoundary
  control,   \* RoutinePublishingControl.state
  lock,      \* who holds that row FOR UPDATE across provider I/O
  run,       \* the RUNNING RoutinePublishingRun: its worker, and is its heartbeat stale?
  remote,    \* what Buffer did with an attempt's submission (not in the database)
  pc, mode, todo, rec, job,  \* the locals of run_once in each worker
  req,       \* an operator's request between its read and its write
  crashes,   \* deaths so far
  unpaused   \* ghost: UNKNOWN outcomes the control row has not answered to yet

row  == <<status, slot, pinId>>
db   == <<row, permit, nAtt, att>>
ctl  == <<control, lock, run>>
wrk  == <<pc, mode, todo, rec, job>>
env  == <<remote, req, crashes>>
vars == <<db, ctl, wrk, env, unpaused>>

Statuses == {"APPROVED", "SCHEDULED", "PUBLISHING", "PUBLISHED",
             "PUBLISH_FAILED", "PUBLISH_UNKNOWN", "CANCELLED"}
Results  == {"rejected", "ambiguous", "error", "sent", "pending"}
Labels   == {"idle", "scan", "reread", "rewrite", "due", "select", "admit", "claim",
             "post", "verify", "prefail", "boundary", "locking", "lockfail",
             "failpause", "call", "persist", "reconcile", "pause", "finish"}

NoPermit  == [gen |-> 0, status |-> "none", drift |-> FALSE]
NoAttempt == [status |-> "none", gen |-> 0, marked |-> FALSE, op |-> FALSE, old |-> FALSE]
Started(g) == [status |-> "STARTED", gen |-> g, marked |-> FALSE, op |-> FALSE, old |-> FALSE]
Rows(s)   == [left |-> s, cur |-> None, marked |-> FALSE]
NoRow     == Rows({})
JobFor(p) == [pub |-> p, n |-> 0, gen |-> 0, res |-> "none"]
NoJob     == JobFor(None)
NoReq     == [kind |-> "none", pub |-> None, seen |-> "APPROVED"]

PermitType  == [gen : 0..MaxPermits, drift : BOOLEAN,
                status : {"none", "ACTIVE", "CONSUMED", "REVOKED"}]
AttemptType == [status : {"none", "STARTED", "FAILED", "UNKNOWN", "SUCCEEDED"},
                gen : 0..MaxPermits, marked : BOOLEAN, op : BOOLEAN, old : BOOLEAN]
RunType     == [holder : Workers \cup {None}, stale : BOOLEAN]
RowType     == [left : SUBSET Attempts, cur : Attempts \cup {None}, marked : BOOLEAN]
JobType     == [pub : Pubs \cup {None}, n : 0..MaxAttempts, gen : 0..MaxPermits,
                res : Results \cup {"none"}]
ReqType     == [kind : {"none", "schedule", "cancel"}, pub : Pubs \cup {None},
                seen : Statuses]

TypeOK ==
  /\ status \in [Pubs -> Statuses]
  /\ slot \in [Pubs -> {"none", "future", "due"}]
  /\ pinId \in [Pubs -> BOOLEAN]
  /\ permit \in [Pubs -> PermitType]
  /\ nAtt \in [Pubs -> 0..MaxAttempts]
  /\ att \in [Attempts -> AttemptType]
  /\ control \in {"PAUSED", "DRY_RUN", "LIVE"}
  /\ lock \in Workers \cup {None}
  /\ run \in RunType
  /\ remote \in [Attempts -> {"none", "pending", "sent", "error"}]
  /\ pc \in [Workers -> Labels]
  /\ mode \in [Workers -> {"DRY_RUN", "LIVE"}]
  /\ todo \in [Workers -> SUBSET Pubs]
  /\ rec \in [Workers -> RowType]
  /\ job \in [Workers -> JobType]
  /\ req \in [Operators -> ReqType]
  /\ crashes \in 0..MaxCrashes
  /\ unpaused \in SUBSET Attempts

Init ==
  /\ status = [p \in Pubs |-> "APPROVED"]
  /\ slot = [p \in Pubs |-> "none"]
  /\ pinId = [p \in Pubs |-> FALSE]
  /\ permit = [p \in Pubs |-> NoPermit]
  /\ nAtt = [p \in Pubs |-> 0]
  /\ att = [a \in Attempts |-> NoAttempt]
  /\ control = "PAUSED"
  /\ lock = None
  /\ run = [holder |-> None, stale |-> FALSE]
  /\ remote = [a \in Attempts |-> "none"]
  /\ pc = [w \in Workers |-> "idle"]
  /\ mode = [w \in Workers |-> "LIVE"]
  /\ todo = [w \in Workers |-> {}]
  /\ rec = [w \in Workers |-> NoRow]
  /\ job = [w \in Workers |-> NoJob]
  /\ req = [o \in Operators |-> NoReq]
  /\ crashes = 0
  /\ unpaused = {}

-----------------------------------------------------------------------------
(* Helpers on rows.                                                            *)

Mine(w) == <<job[w].pub, job[w].n>>      \* the attempt worker w is dispatching

Goto(w, l) == pc' = [pc EXCEPT ![w] = l]

(* The attempt a and its publication leave PUBLISHING / STARTED together.      *)
Resolve(a, s, t) ==
  /\ status' = [status EXCEPT ![a[1]] = s]
  /\ att' = [att EXCEPT ![a] = [@ EXCEPT !.status = t, !.old = FALSE]]

(* The two-row compare-and-set every outcome of a dispatch is written under.   *)
StillClaimed(a) == status[a[1]] = "PUBLISHING" /\ att[a].status = "STARTED"

Drifted(p) == [permit EXCEPT ![p].drift = permit[p].gen > 0]

(* validate_permit on current rows: state of the permit, schedule drift, the   *)
(* ALREADY_PUBLISHED duplicate and the readiness state.  The remaining gates   *)
(* (expiry, quality, fingerprints, destination) may refuse at any time, so the *)
(* callers may always take the refusal.                                        *)
PermitValid(p, gen, expected, allowed) ==
  /\ permit[p].gen = gen
  /\ permit[p].status = allowed
  /\ ~permit[p].drift
  /\ ~pinId[p]
  /\ status[p] = expected
  /\ slot[p] = "due"

(* Mutant: only submissions Buffer acknowledged are counted.                   *)
AcknowledgedOnly == Cardinality({a \in Attempts : att[a].op})

daily_provider_write_count == Cardinality({a \in Attempts : att[a].marked})

heartbeat_run(w) ==
  run' = IF run.holder = w THEN [run EXCEPT !.stale = FALSE] ELSE run

SkipJob(w) == Goto(w, "select") /\ job' = [job EXCEPT ![w] = NoJob]

-----------------------------------------------------------------------------
(* Mutant: a RUNNING row is never taken over, however old its heartbeat.       *)
StartRunNoTakeover(w) ==
  /\ pc[w] = "idle" /\ control # "PAUSED" /\ run.holder = None
  /\ run' = [holder |-> w, stale |-> FALSE]
  /\ mode' = [mode EXCEPT ![w] = control]
  /\ rec' = [rec EXCEPT ![w] = Rows({a \in Attempts : att[a].old})]
  /\ Goto(w, "scan")
  /\ UNCHANGED <<db, control, lock, todo, job, env, unpaused>>

(* run_once: opening the run, recovering stale claims, listing what is due.    *)

StartRun(w) ==
  /\ pc[w] = "idle"
  /\ control # "PAUSED"
  /\ run.holder = None \/ run.stale
  /\ run' = [holder |-> w, stale |-> FALSE]
  /\ mode' = [mode EXCEPT ![w] = control]
  \* started_at <= cutoff is judged by the clock read when the run begins
  /\ rec' = [rec EXCEPT ![w] = Rows({a \in Attempts : att[a].old})]
  /\ Goto(w, "scan")
  /\ UNCHANGED <<db, control, lock, todo, job, env, unpaused>>

TakeRow(w, rows) ==
  \/ /\ rows = {}
     /\ rec' = [rec EXCEPT ![w] = NoRow]
     /\ Goto(w, "due")
  \/ \E a \in rows :
     /\ rec' = [rec EXCEPT ![w] = [left |-> rows \ {a}, cur |-> a, marked |-> att[a].marked]]
     /\ Goto(w, "rewrite")

(* The one SELECT of recover_stale_routine_claims.                             *)
RecoverScan(w) ==
  /\ pc[w] = "scan"
  /\ TakeRow(w, {a \in rec[w].left : StillClaimed(a)})
  /\ UNCHANGED <<db, ctl, mode, todo, job, env, unpaused>>

(* Each row's commit expires the rest: the next boundary is read again, but    *)
(* not whether the row is still a stale claim.                                 *)
RecoverReread(w) ==
  /\ pc[w] = "reread"
  /\ TakeRow(w, rec[w].left)
  /\ UNCHANGED <<db, ctl, mode, todo, job, env, unpaused>>

(* Mutants: the two statuses swapped, and every stale claim taken for one that *)
(* never reached the provider.                                                 *)
RecoverUnmarkedSwapped(w) ==
  /\ pc[w] = "rewrite" /\ ~rec[w].marked
  /\ Resolve(rec[w].cur, "FAILED", "PUBLISH_FAILED")
  /\ Goto(w, "reread")
  /\ UNCHANGED <<slot, pinId, permit, nAtt, ctl, mode, todo, rec, job, env, unpaused>>

RecoverIgnoringBoundary(w) ==
  /\ pc[w] = "rewrite"
  /\ Resolve(rec[w].cur, "PUBLISH_FAILED", "FAILED")
  /\ Goto(w, "reread")
  /\ UNCHANGED <<slot, pinId, permit, nAtt, ctl, mode, todo, rec, job, env, unpaused>>

(* Before the boundary nothing can have been posted: failed, and retryable.    *)
(* The write names the rows by id only and takes no control lock.              *)
RecoverUnmarked(w) ==
  /\ pc[w] = "rewrite"
  /\ ~rec[w].marked
  /\ Resolve(rec[w].cur, "PUBLISH_FAILED", "FAILED")
  /\ Goto(w, "reread")
  /\ UNCHANGED <<slot, pinId, permit, nAtt, ctl, mode, todo, rec, job, env, unpaused>>

(* Past the boundary anything may have happened: UNKNOWN, and pause. The same  *)
(* transaction updates the control row, so it waits for a call in flight.      *)
RecoverMarked(w) ==
  /\ pc[w] = "rewrite"
  /\ rec[w].marked
  /\ lock = None
  /\ Resolve(rec[w].cur, "PUBLISH_UNKNOWN", "UNKNOWN")
  /\ control' = "PAUSED"
  /\ unpaused' = {}
  /\ Goto(w, "reread")
  /\ UNCHANGED <<slot, pinId, permit, nAtt, lock, run, mode, todo, rec, job, env>>

(* If the flush reaches the publication row first, recovery holds it while     *)
(* waiting for the control row and the caller holds the control row while      *)
(* waiting for the publication: PostgreSQL aborts one of the two.              *)
RecoverDeadlock(w) ==
  /\ pc[w] = "rewrite"
  /\ rec[w].marked
  /\ \E v \in Workers \ {w} :
     /\ lock = v
     /\ pc[v] = "persist"
     /\ job[v].pub = rec[w].cur[1]
     /\ \/ /\ pc' = [pc EXCEPT ![w] = "finish"]
           /\ rec' = [rec EXCEPT ![w] = NoRow]
           /\ UNCHANGED <<lock, job, todo>>
        \/ /\ pc' = [pc EXCEPT ![v] = "finish"]
           /\ lock' = None
           /\ job' = [job EXCEPT ![v] = NoJob]
           /\ todo' = [todo EXCEPT ![v] = {}]
           /\ UNCHANGED rec
  /\ UNCHANGED <<db, control, run, mode, env, unpaused>>

due_publications == {p \in Pubs : status[p] = "SCHEDULED" /\ slot[p] = "due"}

DueScan(w) ==
  /\ pc[w] = "due"
  /\ IF mode[w] = "DRY_RUN"   \* validates and reports, claims nothing
     THEN Goto(w, "finish") /\ UNCHANGED todo
     ELSE /\ Goto(w, "select")
          /\ \E S \in SUBSET due_publications :
             /\ Cardinality(S) <= BatchSize
             /\ S = due_publications \/ Cardinality(S) = BatchSize
             /\ todo' = [todo EXCEPT ![w] = S]
  /\ heartbeat_run(w)
  /\ UNCHANGED <<db, control, lock, mode, rec, job, env, unpaused>>

-----------------------------------------------------------------------------
(* The loop of run_once and dispatch_routine_buffer.                           *)

Select(w) ==
  /\ pc[w] = "select"
  /\ \/ /\ todo[w] = {}
        /\ Goto(w, "finish")
        /\ UNCHANGED <<todo, job, run>>
     \/ \E p \in todo[w] :
        /\ todo' = [todo EXCEPT ![w] = @ \ {p}]
        /\ heartbeat_run(w)
        /\ \/ /\ PermitValid(p, permit[p].gen, "SCHEDULED", "ACTIVE")
              /\ Goto(w, "admit")
              /\ job' = [job EXCEPT ![w] = JobFor(p)]
           \/ UNCHANGED <<pc, job>>
  /\ UNCHANGED <<db, control, lock, mode, rec, env, unpaused>>

(* After the awaited media and destination preflight: the daily limit, then    *)
(* the control row and the active permit, read again.  The publication is not. *)
Admit(w) ==
  /\ pc[w] = "admit"
  /\ \/ SkipJob(w) /\ UNCHANGED todo
     \/ /\ daily_provider_write_count >= DailyLimit
        /\ Goto(w, "finish")
        /\ job' = [job EXCEPT ![w] = NoJob]
        /\ todo' = [todo EXCEPT ![w] = {}]
     \/ /\ daily_provider_write_count < DailyLimit
        /\ control = "LIVE"
        /\ permit[job[w].pub].status = "ACTIVE"
        /\ job' = [job EXCEPT ![w].gen = permit[job[w].pub].gen]
        /\ Goto(w, "claim")
        /\ UNCHANGED todo
  /\ UNCHANGED <<db, ctl, mode, rec, env, unpaused>>

(* Mutant: the claim trusts the permit it validated.                           *)
ClaimableWithoutPermit(p, gen) ==
  status[p] = "SCHEDULED" /\ slot[p] = "due" /\ nAtt[p] < MaxAttempts

Claimable(p, gen) ==
  /\ status[p] = "SCHEDULED" /\ slot[p] = "due"
  /\ permit[p].status = "ACTIVE" /\ permit[p].gen = gen
  /\ nAtt[p] < MaxAttempts

(* claim_for_routine: both compare-and-sets, the STARTED attempt and its       *)
(* boundary row in one transaction; a lost race rolls all of it back.          *)
Claim(w) ==
  /\ pc[w] = "claim"
  /\ LET p == job[w].pub
         n == nAtt[p] + 1
     IN \/ /\ Claimable(p, job[w].gen)
           /\ status' = [status EXCEPT ![p] = "PUBLISHING"]
           /\ permit' = [permit EXCEPT ![p].status = "CONSUMED"]
           /\ nAtt' = [nAtt EXCEPT ![p] = n]
           /\ att' = [att EXCEPT ![<<p, n>>] = Started(job[w].gen)]
           /\ job' = [job EXCEPT ![w].n = n]
           /\ Goto(w, "post")
        \/ /\ ~Claimable(p, job[w].gen)
           /\ SkipJob(w)
           /\ UNCHANGED <<status, permit, nAtt, att>>
  /\ UNCHANGED <<slot, pinId, ctl, mode, todo, rec, env, unpaused>>

ClaimStillValid(w) == PermitValid(job[w].pub, job[w].gen, "PUBLISHING", "CONSUMED")

(* Re-validation on rows refreshed after the claim.                            *)
PostClaim(w) ==
  /\ pc[w] = "post"
  /\ \/ ClaimStillValid(w) /\ control = "LIVE" /\ Goto(w, "verify")
     \/ Goto(w, "prefail")
  /\ UNCHANGED <<db, ctl, mode, todo, rec, job, env, unpaused>>

(* After awaiting verify_destination the rows are refreshed once more; the     *)
(* control row is not, so a pause during the await goes unnoticed here.        *)
Verify(w) ==
  /\ pc[w] = "verify"
  /\ \/ ClaimStillValid(w) /\ Goto(w, "boundary")
     \/ Goto(w, "prefail")
  /\ UNCHANGED <<db, ctl, mode, todo, rec, job, env, unpaused>>

(* Mutant: the publication fails, its attempt stays open.                      *)
PreFailPublicationOnly(w) ==
  /\ pc[w] = "prefail"
  /\ status[job[w].pub] = "PUBLISHING"
  /\ status' = [status EXCEPT ![job[w].pub] = "PUBLISH_FAILED"]
  /\ SkipJob(w)
  /\ UNCHANGED <<slot, pinId, permit, nAtt, att, ctl, mode, todo, rec, env, unpaused>>

(* _persist_pre_provider_failure; a conflict is an exception and ends the run. *)
PreFail(w) ==
  /\ pc[w] = "prefail"
  /\ \/ /\ StillClaimed(Mine(w))
        /\ Resolve(Mine(w), "PUBLISH_FAILED", "FAILED")
        /\ SkipJob(w)
     \/ /\ ~StillClaimed(Mine(w))
        /\ Goto(w, "finish")
        /\ UNCHANGED <<status, att, job>>
  /\ UNCHANGED <<slot, pinId, permit, nAtt, ctl, mode, todo, rec, env, unpaused>>

(* mark_provider_mutation_boundary: control is locked but the LIVE it tests is *)
(* the one read in PostClaim, and so is the attempt's STARTED.                 *)
Boundary(w) ==
  /\ pc[w] = "boundary"
  /\ lock = None
  /\ \/ /\ status[job[w].pub] = "PUBLISHING"
        /\ ~att[Mine(w)].marked
        /\ att' = [att EXCEPT ![Mine(w)].marked = TRUE]
        /\ Goto(w, "locking")
        /\ UNCHANGED job
     \/ /\ status[job[w].pub] # "PUBLISHING" \/ att[Mine(w)].marked
        /\ SkipJob(w)
        /\ UNCHANGED att
  /\ UNCHANGED <<row, permit, nAtt, ctl, mode, todo, rec, env, unpaused>>

(* Mutant: the control row is locked but its cached LIVE is believed.          *)
LockCallCachedControl(w) ==
  /\ pc[w] = "locking" /\ lock = None /\ StillClaimed(Mine(w))
  /\ lock' = w /\ Goto(w, "call")
  /\ UNCHANGED <<db, control, run, mode, todo, rec, job, env, unpaused>>

(* _lock_provider_call: every row is read again under the control lock.        *)
LockCall(w) ==
  /\ pc[w] = "locking"
  /\ lock = None
  /\ LET ok == control = "LIVE" /\ StillClaimed(Mine(w)) /\ att[Mine(w)].marked
     IN \/ ok /\ lock' = w /\ Goto(w, "call")
        \/ ~ok /\ UNCHANGED lock /\ Goto(w, "lockfail")
  /\ UNCHANGED <<db, control, run, mode, todo, rec, job, env, unpaused>>

(* No call was made, but the boundary is committed: UNKNOWN, conservatively.   *)
LockFail(w) ==
  /\ pc[w] = "lockfail"
  /\ \/ /\ StillClaimed(Mine(w))
        /\ Resolve(Mine(w), "PUBLISH_UNKNOWN", "UNKNOWN")
        /\ unpaused' = unpaused \cup {Mine(w)}
        /\ Goto(w, "failpause")
     \/ /\ status[job[w].pub] # "PUBLISHING"
        /\ Goto(w, "failpause")
        /\ UNCHANGED <<status, att, unpaused>>
     \/ /\ status[job[w].pub] = "PUBLISHING" /\ ~StillClaimed(Mine(w))
        /\ Goto(w, "finish")
        /\ UNCHANGED <<status, att, unpaused>>
  /\ UNCHANGED <<slot, pinId, permit, nAtt, ctl, mode, todo, rec, job, env>>

FailPause(w) ==
  /\ pc[w] = "failpause"
  /\ lock = None
  /\ control' = "PAUSED"
  /\ unpaused' = {}
  /\ SkipJob(w)
  /\ UNCHANGED <<db, lock, run, mode, todo, rec, env>>

(* What each answer of create_pinterest_post leaves behind at Buffer.          *)
Effects(r) == CASE r = "rejected"  -> {"none"}
                [] r = "ambiguous" -> {"none", "pending"}
                [] OTHER           -> {r}

Call(w) ==
  /\ pc[w] = "call"
  /\ \E r \in Results : \E e \in Effects(r) :
     /\ remote' = [remote EXCEPT ![Mine(w)] = e]
     /\ job' = [job EXCEPT ![w].res = r]
  /\ Goto(w, "persist")
  /\ UNCHANGED <<db, ctl, mode, todo, rec, req, crashes, unpaused>>

(* Mutant: a call without an answer counts as a failure.                       *)
NoAnswerIsFailure(r) == r \in {"rejected", "error", "ambiguous"}

DefinitiveFailure(r) == r \in {"rejected", "error"}

(* _persist_provider_outcome, which also ends the transaction holding the      *)
(* control row.                                                                *)
Persist(w) ==
  /\ pc[w] = "persist"
  /\ lock' = None
  /\ LET r == job[w].res
         a == Mine(w)
     IN \/ /\ StillClaimed(a)
           /\ status' = [status EXCEPT ![a[1]] = IF DefinitiveFailure(r) THEN "PUBLISH_FAILED"
                                                                         ELSE "PUBLISH_UNKNOWN"]
           /\ att' = [att EXCEPT ![a] = [@ EXCEPT
                        !.status = IF DefinitiveFailure(r) THEN "FAILED" ELSE "UNKNOWN",
                        !.op = r \in {"error", "sent", "pending"},
                        !.old = FALSE]]
           /\ \/ DefinitiveFailure(r) /\ SkipJob(w) /\ UNCHANGED unpaused
              \/ /\ ~DefinitiveFailure(r)
                 /\ unpaused' = unpaused \cup {a}
                 /\ Goto(w, IF r = "sent" THEN "reconcile" ELSE "pause")
                 /\ UNCHANGED job
        \/ /\ ~StillClaimed(a)
           /\ Goto(w, "finish")
           /\ UNCHANGED <<status, att, job, unpaused>>
  /\ UNCHANGED <<slot, pinId, permit, nAtt, control, run, mode, todo, rec, env>>

(* _entry of reconcile_buffer: exactly one buffer attempt, UNKNOWN, with an    *)
(* operation id.                                                               *)
Reconcilable(p) ==
  /\ status[p] = "PUBLISH_UNKNOWN"
  /\ nAtt[p] = 1
  /\ att[<<p, 1>>].status = "UNKNOWN"
  /\ att[<<p, 1>>].op

ConfirmPin(p) ==
  /\ Resolve(<<p, 1>>, "PUBLISHED", "SUCCEEDED")
  /\ pinId' = [pinId EXCEPT ![p] = TRUE]
  /\ unpaused' = unpaused \ {<<p, 1>>}

(* The worker verifies a post Buffer already reports as sent.                  *)
Reconcile(w) ==
  /\ pc[w] = "reconcile"
  /\ \/ Reconcilable(job[w].pub) /\ ConfirmPin(job[w].pub) /\ SkipJob(w)
     \/ Goto(w, "pause") /\ UNCHANGED <<status, att, pinId, unpaused, job>>
  /\ UNCHANGED <<slot, permit, nAtt, ctl, mode, todo, rec, env>>

(* Mutant: the loop goes on to the next publication without pausing.           *)
PauseForgotten(w) ==
  /\ pc[w] = "pause" /\ SkipJob(w)
  /\ UNCHANGED <<db, ctl, mode, todo, rec, env, unpaused>>

(* pause_on_unknown, then the loop breaks if the outcome is still UNKNOWN.     *)
Pause(w) ==
  /\ pc[w] = "pause"
  /\ lock = None
  /\ control' = "PAUSED"
  /\ unpaused' = {}
  /\ IF status[job[w].pub] = "PUBLISH_UNKNOWN"
     THEN Goto(w, "finish") /\ UNCHANGED job
     ELSE SkipJob(w)
  /\ UNCHANGED <<db, lock, run, mode, todo, rec, env>>

CloseRun(w) == run' = IF run.holder = w THEN [holder |-> None, stale |-> FALSE] ELSE run

Finish(w) ==
  /\ pc[w] = "finish"
  /\ CloseRun(w)
  /\ Goto(w, "idle")
  /\ todo' = [todo EXCEPT ![w] = {}]
  /\ job' = [job EXCEPT ![w] = NoJob]
  /\ mode' = [mode EXCEPT ![w] = "LIVE"]
  /\ UNCHANGED <<db, control, lock, rec, env, unpaused>>

(* The process dies, or an unexpected exception is caught by run_once, which   *)
(* rolls back and closes the run.  Either way the open transaction is gone.    *)
Crash(w) ==
  /\ pc[w] # "idle"
  /\ crashes < MaxCrashes
  /\ crashes' = crashes + 1
  /\ lock' = IF lock = w THEN None ELSE lock
  /\ CloseRun(w) \/ UNCHANGED run
  /\ Goto(w, "idle")
  /\ todo' = [todo EXCEPT ![w] = {}]
  /\ job' = [job EXCEPT ![w] = NoJob]
  /\ rec' = [rec EXCEPT ![w] = NoRow]
  /\ mode' = [mode EXCEPT ![w] = "LIVE"]
  /\ UNCHANGED <<db, control, remote, req, unpaused>>

-----------------------------------------------------------------------------
(* Time and Buffer.                                                            *)

(* routine_claim_stale_seconds go by: for the run row if its worker sent no    *)
(* heartbeat, for the STARTED attempts nobody is working on - or, when live    *)
(* workers may be that slow, for all of them.                                  *)
Silent(w) == SlowWorkers \/ pc[w] = "idle"

Tick ==
  /\ run' = [run EXCEPT !.stale = run.holder # None /\ Silent(run.holder)]
  /\ att' = [a \in Attempts |-> [att[a] EXCEPT
                !.old = att[a].status = "STARTED"
                        /\ \A w \in Workers : Mine(w) = a => Silent(w)]]
  /\ <<run', att'>> # <<run, att>>
  /\ UNCHANGED <<row, permit, nAtt, control, lock, wrk, env, unpaused>>

BecomesDue(p) ==
  /\ slot[p] = "future"
  /\ slot' = [slot EXCEPT ![p] = "due"]
  /\ UNCHANGED <<status, pinId, permit, nAtt, att, ctl, wrk, env, unpaused>>

BufferProgress(a) ==
  /\ remote[a] = "pending"
  /\ \E r \in {"sent", "error"} : remote' = [remote EXCEPT ![a] = r]
  /\ UNCHANGED <<db, ctl, wrk, req, crashes, unpaused>>

-----------------------------------------------------------------------------
(* Operators.                                                                  *)

(* What schedule() and the cancel route accept, judged by the row they loaded. *)
Accepts(kind, seen) ==
  CASE kind = "schedule" -> seen \in {"SCHEDULED", "APPROVED", "PUBLISH_FAILED"}
    [] kind = "cancel"   -> seen \in {"APPROVED", "SCHEDULED", "PUBLISH_FAILED"}

(* What they write.  The ORM writes the columns that differ from the loaded    *)
(* row and names the row by id only, whatever it has become since.             *)
Write(kind, p, seen) ==
  /\ permit' = Drifted(p)
  /\ \/ /\ kind = "schedule"
        /\ \E s \in {"future", "due"} : slot' = [slot EXCEPT ![p] = s]
        /\ status' = [status EXCEPT ![p] = IF seen = "SCHEDULED" THEN @ ELSE "SCHEDULED"]
     \/ /\ kind = "cancel"
        /\ slot' = [slot EXCEPT ![p] = "none"]
        /\ status' = [status EXCEPT ![p] = "CANCELLED"]
  /\ UNCHANGED <<pinId, nAtt, att, ctl, wrk, remote, crashes, unpaused>>

LoadRequest(o) ==
  /\ RequestRaces
  /\ req[o] = NoReq
  /\ \E p \in Pubs, kind \in {"schedule", "cancel"} :
     /\ Accepts(kind, status[p])
     /\ req' = [req EXCEPT ![o] = [kind |-> kind, pub |-> p, seen |-> status[p]]]
  /\ UNCHANGED <<db, ctl, wrk, remote, crashes, unpaused>>

CommitRequest(o) ==
  /\ req[o] # NoReq
  /\ Write(req[o].kind, req[o].pub, req[o].seen)
  /\ req' = [req EXCEPT ![o] = NoReq]

(* The same request when nothing falls between its read and its write.         *)
DirectRequest(p) ==
  /\ ~RequestRaces
  /\ \E kind \in {"schedule", "cancel"} :
     Accepts(kind, status[p]) /\ Write(kind, p, status[p])
  /\ UNCHANGED req

(* create_permit.  An ACTIVE permit is first expired if its time is up, which  *)
(* may be any time: it is then replaced.                                       *)
CreatePermit(p) ==
  /\ status[p] = "SCHEDULED"
  /\ slot[p] # "none"
  /\ ~pinId[p]
  /\ permit[p].gen < MaxPermits
  /\ permit' = [permit EXCEPT ![p] =
       [gen |-> permit[p].gen + 1, status |-> "ACTIVE", drift |-> FALSE]]
  /\ UNCHANGED <<row, nAtt, att, ctl, wrk, env, unpaused>>

RevokePermit(p) ==
  /\ permit[p].status = "ACTIVE"
  /\ permit' = [permit EXCEPT ![p].status = "REVOKED"]
  /\ UNCHANGED <<row, nAtt, att, ctl, wrk, env, unpaused>>

(* set_control updates the control row, so it waits for a call in flight.      *)
SetControl ==
  /\ lock = None
  /\ \E s \in {"PAUSED", "DRY_RUN", "LIVE"} \ {control} : control' = s
  /\ unpaused' = {}
  /\ UNCHANGED <<db, lock, run, wrk, env>>

OpKnown(p) == \E n \in 1..MaxAttempts : att[<<p, n>>].op

(* reconcile_buffer on an operator's or the reconciler's behalf.               *)
ReconcileBuffer(p) ==
  /\ Reconcilable(p)
  /\ \/ /\ remote[<<p, 1>>] = "sent"
        /\ ConfirmPin(p)
     \/ /\ remote[<<p, 1>>] = "error"
        /\ ~pinId[p]
        /\ Resolve(<<p, 1>>, "PUBLISH_FAILED", "FAILED")
        /\ unpaused' = unpaused \ {<<p, 1>>}
        /\ UNCHANGED pinId
  /\ UNCHANGED <<slot, permit, nAtt, ctl, wrk, env>>

(* reconcile(PROVIDER_PIN_CONFIRMED): the operator found the pin.              *)
PinConfirmed(p) ==
  /\ status[p] = "PUBLISH_UNKNOWN"
  /\ ~OpKnown(p)
  /\ status' = [status EXCEPT ![p] = "PUBLISHED"]
  /\ pinId' = [pinId EXCEPT ![p] = TRUE]
  /\ UNCHANGED <<slot, permit, nAtt, att, ctl, wrk, env, unpaused>>

(* reconcile(CANCELLED_UNKNOWN): the operator gives the publication up.        *)
CancelUnknown(p) ==
  /\ status[p] = "PUBLISH_UNKNOWN"
  /\ ~OpKnown(p)
  /\ ~pinId[p]
  /\ status' = [status EXCEPT ![p] = "CANCELLED"]
  /\ slot' = [slot EXCEPT ![p] = "none"]
  /\ permit' = Drifted(p)
  /\ UNCHANGED <<pinId, nAtt, att, ctl, wrk, env, unpaused>>

-----------------------------------------------------------------------------
WorkerStep(w) ==
  \/ RecoverScan(w) \/ RecoverReread(w) \/ RecoverUnmarked(w) \/ RecoverMarked(w)
  \/ RecoverDeadlock(w) \/ DueScan(w) \/ Select(w) \/ Admit(w) \/ Claim(w)
  \/ PostClaim(w) \/ Verify(w) \/ PreFail(w) \/ Boundary(w) \/ LockCall(w)
  \/ LockFail(w) \/ FailPause(w) \/ Call(w) \/ Persist(w) \/ Reconcile(w)
  \/ Pause(w) \/ Finish(w)

OperatorStep ==
  \/ \E o \in Operators : LoadRequest(o) \/ CommitRequest(o)
  \/ \E p \in Pubs : \/ DirectRequest(p) \/ CreatePermit(p) \/ RevokePermit(p)
                     \/ ReconcileBuffer(p) \/ PinConfirmed(p) \/ CancelUnknown(p)
  \/ SetControl

Next ==
  \/ \E w \in Workers : StartRun(w) \/ WorkerStep(w) \/ Crash(w)
  \/ OperatorStep
  \/ Tick
  \/ \E p \in Pubs : BecomesDue(p)
  \/ \E a \in Attempts : BufferProgress(a)

Spec == Init /\ [][Next]_vars

-----------------------------------------------------------------------------
(* Fairness: the scheduler loop keeps starting runs, a living worker takes its *)
(* next step, and the clock moves.  Nothing is asked of operators or Buffer.   *)
Fairness ==
  /\ \A w \in Workers : WF_vars(StartRun(w)) /\ WF_vars(WorkerStep(w))
  /\ WF_vars(Tick)

FairSpec == Spec /\ Fairness

-----------------------------------------------------------------------------
(* Safety.                                                                     *)

(* A publication is claimed exactly by its latest attempt: every earlier one   *)
(* is closed, however claims, failures before the boundary, recoveries and an  *)
(* operator's requests interleave (claim_for_routine's single transaction      *)
(* against every later pair of compare-and-sets).                              *)
ClaimBacked == \A p \in Pubs : status[p] = "PUBLISHING" =>
  /\ nAtt[p] > 0
  /\ att[<<p, nAtt[p]>>].status = "STARTED"
  /\ \A n \in 1..(nAtt[p] - 1) : att[<<p, n>>].status # "STARTED"

(* One authorisation, one attempt: no two attempts of a publication were       *)
(* claimed with the same permit, and an ACTIVE permit has backed none, even    *)
(* when a superseded worker is still dispatching next to its successor.        *)
PermitSpentOnce == \A p \in Pubs : \A m, n \in 1..nAtt[p] :
  /\ m # n => att[<<p, m>>].gen # att[<<p, n>>].gen
  /\ permit[p].status \in {"ACTIVE", "REVOKED"} => att[<<p, n>>].gen # permit[p].gen

(* The provider call is made holding the control row, hence never by two       *)
(* workers at once and never while an operator or a recovery has the control   *)
(* PAUSED; the boundary it needs is already committed (_lock_provider_call).   *)
InCall(w) == pc[w] \in {"call", "persist"}

CallUnderLock == \A w \in Workers : InCall(w) =>
  /\ lock = w
  /\ control = "LIVE"
  /\ att[Mine(w)].marked

(* A publication an operator may still (re)schedule has no submission that is  *)
(* or may become a pin, and neither has an attempt recorded as FAILED: a retry *)
(* can never post a second pin.                                                *)
Live(a) == remote[a] \in {"pending", "sent"}

RetryIsSafe == \A a \in Attempts : Live(a) =>
  /\ status[a[1]] \notin {"APPROVED", "SCHEDULED", "PUBLISH_FAILED"}
  /\ att[a].status # "FAILED"

(* No more provider mutations are begun in a day than the limit, over all      *)
(* publications, attempts, crashes and restarts (daily_provider_write_count is *)
(* read before the claim, the boundary is committed several awaits later).     *)
DailyLimitRespected == Cardinality({a \in Attempts : att[a].marked}) <= DailyLimit

(* The circuit breaker: no provider call is made while an UNKNOWN outcome has  *)
(* been neither answered by pausing the control row nor overruled by an        *)
(* operator - unless a worker died between recording the outcome and pausing.  *)
Breaker == crashes = 0 /\ (\E w \in Workers : InCall(w)) => unpaused = {}

(* What _lock_provider_call's docstring says: recovery cannot interleave with  *)
(* the network submission, i.e. during it the claim is still held.             *)
SubmissionCovered == \A w \in Workers : InCall(w) => StillClaimed(Mine(w))

(* SECURITY.md: reconciliation may resolve PUBLISH_UNKNOWN.  Some              *)
(* reconciliation of the code accepts every UNKNOWN publication once Buffer's  *)
(* answer is final.                                                            *)
UnknownResolvable == \A p \in Pubs : status[p] = "PUBLISH_UNKNOWN" =>
  Reconcilable(p) \/ ~OpKnown(p)

(* ARCHITECTURE.md: PUBLISHED terminal, CANCELLED terminal.                    *)
TerminalStays == [][\A p \in Pubs :
  status[p] \in {"PUBLISHED", "CANCELLED"} => status'[p] = status[p]]_vars

-----------------------------------------------------------------------------
(* The protocol implements the publication lifecycle when no request races     *)
(* with a worker and no live worker outsleeps the stale cut-off.               *)
Lifecycle == INSTANCE PublicationLifecycle
  WITH status <- status,
       live   <- [p \in Pubs |-> \E n \in 1..MaxAttempts : Live(<<p, n>>)]

ImplementsLifecycle == Lifecycle!Spec

(* Liveness: a claim does not stay PUBLISHING for ever, whatever its worker    *)
(* died of, provided the control row is eventually left unpaused: a PAUSED     *)
(* worker returns before it would recover anything.                            *)
ClaimsResolve == <>[](control # "PAUSED") =>
  \A p \in Pubs : status[p] = "PUBLISHING" ~> status[p] # "PUBLISHING"
=============================================================================
