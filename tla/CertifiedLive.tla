---------------------------- MODULE CertifiedLive ----------------------------
(* The certified live run: an operator posts one publication with the routine  *)
(* worker, which is otherwise off. A preflight signs the state it has seen; the*)
(* request revalidates it under locks and, in one commit, sets control LIVE and *)
(* reserves the run it hands to run_once; whatever happens, it tries to leave  *)
(* control PAUSED, and recovery by an operator answers for what is left over.  *)
(*                                                                             *)
(* One publication: a preflight wants it to be the only one due, the only one  *)
(* with a permit, and never attempted. Requests may be silent for longer than  *)
(* the stale cut-off, be cancelled at any await, or die.                       *)
EXTENDS Naturals

CONSTANTS
  Requests,   \* POST /publications/{id}/run-once-live
  MaxRuns     \* bound on rows of routine_publishing_runs

VARIABLES
  control,    \* state of the control row
  lock,       \* who holds it FOR UPDATE between two of the steps below
  run,        \* the latest run: [no, certified, status, stale]
  pub,        \* status of the publication
  permit,
  try,        \* its attempt and boundary: [status, marked]
  receipt,    \* a preflight's receipt is out and has not expired
  req,        \* actor -> [pc, run, unknown]: where it is, the run it reserved, and
              \*   what recovery has read: "none" when there is nothing to resolve
  calls,      \* submissions made
  pin         \* a post exists at Buffer, or may

clVars == <<control, lock, run, pub, permit, try, receipt, req, calls, pin>>

Operator == "operator"   \* POST /certified-live-recover
Free     == "free"
world    == <<receipt, calls, pin>>

CLInit ==
  /\ control = "PAUSED" /\ lock = Free
  /\ run = [no |-> 0, certified |-> FALSE, status |-> "none", stale |-> FALSE]
  /\ pub = "SCHEDULED" /\ permit = "ACTIVE"
  /\ try = [status |-> "none", marked |-> FALSE]
  /\ receipt = FALSE /\ calls = 0 /\ pin = FALSE
  /\ req = [a \in Requests \cup {Operator} |-> [pc |-> "idle", run |-> 0, unknown |-> "none"]]

At(a, pc) == req[a].pc = pc
GoTo(a, pc) == req' = [req EXCEPT ![a].pc = pc]
Unlocked(a) == lock' = IF lock = a THEN Free ELSE lock

_live_safety == control = "PAUSED" /\ run.status # "RUNNING"
_live_state  == try.status = "none"

(* The target is the only one due, and permitted.                              *)
_evaluate == _live_safety /\ _live_state /\ pub = "SCHEDULED" /\ permit = "ACTIVE"

preflight_certified_live ==
  /\ _evaluate /\ ~receipt
  /\ receipt' = TRUE
  /\ UNCHANGED <<control, lock, run, pub, permit, try, req, calls, pin>>

ReceiptExpires ==
  /\ receipt /\ receipt' = FALSE
  /\ UNCHANGED <<control, lock, run, pub, permit, try, req, calls, pin>>

(* The route's own checks; nothing is held when they are done.                 *)
run_once_live(r) ==
  /\ At(r, "idle") /\ receipt
  /\ _live_safety /\ pub = "SCHEDULED" /\ permit = "ACTIVE" /\ ~try.marked
  /\ GoTo(r, "checked")
  /\ UNCHANGED <<control, lock, run, pub, permit, try, world>>

(* The control row FOR UPDATE and every table the checks read IN SHARE MODE:   *)
(* receipt and state are compared, control and run written, in one transaction.*)
reserve_certified_live(r) ==
  /\ At(r, "checked") /\ lock = Free /\ receipt /\ run.no < MaxRuns
  /\ _evaluate
  /\ control' = "LIVE"
  /\ run' = [no |-> run.no + 1, certified |-> TRUE, status |-> "RUNNING", stale |-> FALSE]
  /\ req' = [req EXCEPT ![r].pc = "reserved", ![r].run = run.no + 1]
  /\ UNCHANGED <<lock, pub, permit, try, world>>

Refuse(r) ==
  /\ At(r, "checked") /\ GoTo(r, "done")
  /\ UNCHANGED <<control, lock, run, pub, permit, try, world>>

-----------------------------------------------------------------------------
(* run_once with the reserved run: it wants control LIVE and the run RUNNING,  *)
(* or returns at once and leaves the run as it is.                             *)
BeginRun(r) ==
  /\ At(r, "reserved")
  /\ IF control = "LIVE" /\ run.no = req[r].run /\ run.status = "RUNNING"
     THEN run' = [run EXCEPT !.stale = FALSE] /\ GoTo(r, "running")
     ELSE GoTo(r, "disarm") /\ UNCHANGED run
  /\ UNCHANGED <<control, lock, pub, permit, try, world>>

(* The evidence is awaited; then the day's limit and the gates of the dispatch,*)
(* before the transaction of the claim.                                        *)
Admit(r) ==
  /\ At(r, "running")
  /\ control = "LIVE" /\ permit = "ACTIVE" /\ ~try.marked
  /\ GoTo(r, "admitted")
  /\ UNCHANGED <<control, lock, run, pub, permit, try, world>>

Skip(r) ==
  /\ At(r, "running") \/ At(r, "admitted")
  /\ GoTo(r, "finish")
  /\ UNCHANGED <<control, lock, run, pub, permit, try, world>>

(* Mutant: the claim writes by primary key.                                    *)
ClaimById(r) ==
  /\ At(r, "admitted")
  /\ pub' = "PUBLISHING" /\ permit' = "CONSUMED"
  /\ try' = [status |-> "STARTED", marked |-> FALSE]
  /\ GoTo(r, "claimed")
  /\ UNCHANGED <<control, lock, run, world>>

Claim(r) ==
  /\ At(r, "admitted")
  /\ pub = "SCHEDULED" /\ permit = "ACTIVE"
  /\ pub' = "PUBLISHING" /\ permit' = "CONSUMED"
  /\ try' = [status |-> "STARTED", marked |-> FALSE]
  /\ GoTo(r, "claimed")
  /\ UNCHANGED <<control, lock, run, world>>

(* Permit, control and destination; the last is awaited, and may refuse.       *)
PostClaim(r) ==
  /\ At(r, "claimed")
  /\ GoTo(r, IF control = "LIVE" /\ pub = "PUBLISHING" THEN "verifying" ELSE "prefail")
  /\ UNCHANGED <<control, lock, run, pub, permit, try, world>>

Verify(r) ==
  /\ At(r, "verifying")
  /\ \/ pub = "PUBLISHING" /\ GoTo(r, "verified")
     \/ GoTo(r, "prefail")
  /\ UNCHANGED <<control, lock, run, pub, permit, try, world>>

Claimed == pub = "PUBLISHING" /\ try.status = "STARTED"

Resolved(status, attempt) == pub' = status /\ try' = [try EXCEPT !.status = attempt]

PreFail(r) ==
  /\ At(r, "prefail")
  /\ IF Claimed
     THEN Resolved("PUBLISH_FAILED", "FAILED") /\ GoTo(r, "finish")
     ELSE GoTo(r, "raised") /\ UNCHANGED <<pub, try>>
  /\ UNCHANGED <<control, lock, run, permit, world>>

(* The publication is read afresh, control and attempt are those of PostClaim. *)
Boundary(r) ==
  /\ At(r, "verified") /\ lock = Free
  /\ IF pub = "PUBLISHING" /\ ~try.marked
     THEN try' = [try EXCEPT !.marked = TRUE] /\ GoTo(r, "marked")
     ELSE GoTo(r, "finish") /\ UNCHANGED try
  /\ UNCHANGED <<control, lock, run, pub, permit, world>>

LockCall(r) ==
  /\ At(r, "marked") /\ lock = Free
  /\ control = "LIVE" /\ Claimed /\ try.marked
  /\ lock' = r /\ GoTo(r, "locked")
  /\ UNCHANGED <<control, run, pub, permit, try, world>>

LockRefused(r) ==
  /\ At(r, "marked") /\ lock = Free
  /\ ~(control = "LIVE" /\ Claimed /\ try.marked)
  /\ CASE Claimed -> Resolved("PUBLISH_UNKNOWN", "UNKNOWN") /\ GoTo(r, "pausing")
       [] pub # "PUBLISHING" -> GoTo(r, "pausing") /\ UNCHANGED <<pub, try>>
       [] OTHER -> GoTo(r, "raised") /\ UNCHANGED <<pub, try>>
  /\ UNCHANGED <<control, lock, run, permit, world>>

Call(r) ==
  /\ At(r, "locked")
  /\ calls' = calls + 1
  /\ \/ GoTo(r, "refused") /\ UNCHANGED pin
     \/ GoTo(r, "sent") /\ pin' = TRUE
     \/ GoTo(r, "pending") /\ pin' \in {pin, TRUE}
  /\ UNCHANGED <<control, lock, run, pub, permit, try, receipt>>

Answered(r) == At(r, "refused") \/ At(r, "sent") \/ At(r, "pending")

Persist(r) ==
  /\ Answered(r) /\ Claimed
  /\ CASE At(r, "refused") -> Resolved("PUBLISH_FAILED", "FAILED") /\ GoTo(r, "finish")
       [] At(r, "pending") -> Resolved("PUBLISH_UNKNOWN", "UNKNOWN") /\ GoTo(r, "pausing")
       [] At(r, "sent") -> Resolved("PUBLISH_UNKNOWN", "UNKNOWN") /\ GoTo(r, "reconciling")
  /\ Unlocked(r)
  /\ UNCHANGED <<control, run, permit, world>>

Reconcile(r) ==
  /\ At(r, "reconciling")
  /\ \/ pub = "PUBLISH_UNKNOWN" /\ pub' = "PUBLISHED" /\ GoTo(r, "finish")
     \/ GoTo(r, "pausing") /\ UNCHANGED pub
  /\ UNCHANGED <<control, lock, run, permit, try, world>>

Pause(r) ==
  /\ At(r, "pausing") /\ lock = Free
  /\ control' = "PAUSED" /\ GoTo(r, "finish")
  /\ UNCHANGED <<lock, run, pub, permit, try, world>>

(* The run row by primary key, unless a recovery holds it.                     *)
FinishRun(r, status) ==
  /\ \A a \in DOMAIN req : ~At(a, "writing")
  /\ run' = IF run.no = req[r].run THEN [run EXCEPT !.status = status, !.stale = FALSE]
                                   ELSE run

Finish(r) ==
  /\ At(r, "finish")
  /\ FinishRun(r, "SUCCEEDED")
  /\ GoTo(r, "disarm")
  /\ UNCHANGED <<control, lock, pub, permit, try, world>>

-----------------------------------------------------------------------------
(* An exception nobody handles, the loss of the answer's commit among them.    *)
Exception(r) ==
  /\ req[r].pc \in {"running", "admitted", "prefail", "verified", "marked", "refused",
                    "sent", "pending", "reconciling", "pausing", "finish"}
  /\ Unlocked(r) /\ GoTo(r, "raised")
  /\ UNCHANGED <<control, run, pub, permit, try, world>>

(* run_once marks its run FAILED if it can, the route then tries to recover.   *)
RunFailed(r) ==
  /\ At(r, "raised")
  /\ FinishRun(r, "FAILED") \/ UNCHANGED run
  /\ GoTo(r, "recover")
  /\ UNCHANGED <<control, lock, pub, permit, try, world>>

(* A cancellation at an await skips the except clauses.                        *)
Cancelled(r) ==
  /\ req[r].pc \in {"running", "verifying", "reconciling"} \/ Answered(r)
  /\ Unlocked(r) /\ GoTo(r, "disarm")
  /\ UNCHANGED <<control, run, pub, permit, try, world>>

Die(r) ==
  /\ req[r].pc \notin {"idle", "checked", "done"}
  /\ Unlocked(r) /\ GoTo(r, "done")
  /\ UNCHANGED <<control, run, pub, permit, try, world>>

Disarm(r) ==
  /\ At(r, "disarm") /\ lock = Free
  /\ control' = "PAUSED" /\ GoTo(r, "done")
  /\ UNCHANGED <<lock, run, pub, permit, try, world>>

-----------------------------------------------------------------------------
Recovering(a) == At(a, IF a = Operator THEN "idle" ELSE "recover")

MayRecover ==
  /\ control \in {"LIVE", "PAUSED"}
  /\ run.certified /\ ~(run.status = "RUNNING" /\ ~run.stale)
  /\ control = "PAUSED" => pub = "PUBLISHING"

Found == CASE pub # "PUBLISHING" -> "none"
           [] try.marked -> "unknown"
           [] OTHER -> "failed"

(* Mutant: recovery reads without the control row.                             *)
RecoverUnlocked(a) ==
  /\ Recovering(a) /\ MayRecover
  /\ req' = [req EXCEPT ![a].pc = "writing", ![a].unknown = Found]
  /\ UNCHANGED <<control, lock, run, pub, permit, try, world>>

(* The control row, then the latest run, FOR UPDATE; the others are only read. *)
RecoverRead(a) ==
  /\ Recovering(a) /\ lock = Free /\ MayRecover
  /\ lock' = a
  /\ req' = [req EXCEPT ![a].pc = "writing", ![a].unknown = Found]
  /\ UNCHANGED <<control, run, pub, permit, try, world>>

Recovered(a) == GoTo(a, IF a = Operator THEN "idle" ELSE "disarm")

(* Publication and attempt are written by primary key.                         *)
RecoverWrite(a) ==
  /\ At(a, "writing")
  /\ CASE req[a].unknown = "none" -> UNCHANGED <<pub, try>>
       [] req[a].unknown = "unknown" -> Resolved("PUBLISH_UNKNOWN", "UNKNOWN")
       [] req[a].unknown = "failed" -> Resolved("PUBLISH_FAILED", "FAILED")
  /\ run' = IF run.status = "RUNNING" THEN [run EXCEPT !.status = "FAILED", !.stale = FALSE]
                                      ELSE run
  /\ control' = "PAUSED"
  /\ Unlocked(a) /\ Recovered(a)
  /\ UNCHANGED <<permit, world>>

(* Refused, or the database is not available: the operator may ask again.      *)
RecoverFails(a) ==
  /\ At(a, "recover") \/ At(a, "writing")
  /\ Unlocked(a) /\ Recovered(a)
  /\ UNCHANGED <<control, run, pub, permit, try, world>>

-----------------------------------------------------------------------------
(* A one-shot dry run takes a stale RUNNING row over and leaves its own.       *)
DryRun ==
  /\ control = "DRY_RUN" /\ run.no < MaxRuns
  /\ run.status = "RUNNING" => run.stale
  /\ \A a \in DOMAIN req : ~At(a, "writing")
  /\ run' = [no |-> run.no + 1, certified |-> FALSE, status |-> "SUCCEEDED", stale |-> FALSE]
  /\ UNCHANGED <<control, lock, pub, permit, try, req, world>>

RunAges ==
  /\ run.status = "RUNNING" /\ ~run.stale
  /\ run' = [run EXCEPT !.stale = TRUE]
  /\ UNCHANGED <<control, lock, pub, permit, try, req, world>>

set_control(state) ==
  /\ lock = Free /\ control # state
  /\ control' = state
  /\ UNCHANGED <<lock, run, pub, permit, try, req, world>>

(* An operator cancels the publication or revokes its permit.                  *)
Withdraw ==
  /\ \/ pub = "SCHEDULED" /\ pub' = "CANCELLED" /\ UNCHANGED permit
     \/ permit = "ACTIVE" /\ permit' = "REVOKED" /\ UNCHANGED pub
  /\ UNCHANGED <<control, lock, run, try, req, world>>

CLNext ==
  \/ \E r \in Requests :
       \/ run_once_live(r) \/ reserve_certified_live(r) \/ Refuse(r)
       \/ BeginRun(r) \/ Admit(r) \/ Skip(r) \/ Claim(r) \/ PostClaim(r) \/ Verify(r)
       \/ PreFail(r) \/ Boundary(r) \/ LockCall(r) \/ LockRefused(r) \/ Call(r)
       \/ Persist(r) \/ Reconcile(r) \/ Pause(r) \/ Finish(r) \/ Exception(r)
       \/ RunFailed(r) \/ Cancelled(r) \/ Die(r) \/ Disarm(r)
  \/ \E a \in DOMAIN req : RecoverRead(a) \/ RecoverWrite(a) \/ RecoverFails(a)
  \/ \E state \in {"PAUSED", "DRY_RUN", "LIVE"} : set_control(state)
  \/ preflight_certified_live \/ ReceiptExpires \/ DryRun \/ RunAges \/ Withdraw

CLSpec == CLInit /\ [][CLNext]_clVars

-----------------------------------------------------------------------------
CertifiedTypeOK ==
  /\ control \in {"PAUSED", "DRY_RUN", "LIVE"}
  /\ lock \in DOMAIN req \cup {Free}
  /\ pub \in {"SCHEDULED", "CANCELLED", "PUBLISHING", "PUBLISHED", "PUBLISH_UNKNOWN",
              "PUBLISH_FAILED"}
  /\ permit \in {"ACTIVE", "CONSUMED", "REVOKED"}
  /\ try.status \in {"none", "STARTED", "UNKNOWN", "FAILED"}
  /\ run.no \in 0..MaxRuns

(* However many requests reserve, stall, die or are recovered: Buffer is asked *)
(* at most once, a publication and its attempt are resolved together, and what *)
(* is called FAILED has not been posted and may be scheduled again.            *)
CertifiedPostOnce ==
  /\ calls <= 1
  /\ pub = "PUBLISHING" <=> try.status = "STARTED"
  /\ pub = "PUBLISH_FAILED" => ~pin

-----------------------------------------------------------------------------
(* The inductive invariant of CertifiedPostOnce.                               *)
Uncalled   == {"claimed", "verifying", "prefail", "verified", "marked", "locked"}
Dispatches == Uncalled \cup {"refused", "sent", "pending", "reconciling"}
Places     == Dispatches \cup {"idle", "checked", "reserved", "running", "admitted",
                               "pausing", "finish", "raised", "recover", "writing",
                               "disarm", "done"}

RunRows == [no : Nat, certified : BOOLEAN,
            status : {"none", "RUNNING", "SUCCEEDED", "FAILED"}, stale : BOOLEAN]
TryRows == [status : {"none", "STARTED", "UNKNOWN", "FAILED"}, marked : BOOLEAN]
Rows    == [Requests \cup {Operator} ->
              [pc : Places, run : Nat, unknown : {"none", "unknown", "failed"}]]

Shapes ==
  /\ run \in RunRows
  /\ try \in TryRows
  /\ req \in Rows
  /\ calls \in Nat
  /\ pin \in BOOLEAN

(* Only a publication nobody has dispatched can be claimed, which it is once.  *)
Unclaimed == pub \in {"SCHEDULED", "CANCELLED"} =>
  ~try.marked /\ calls = 0 /\ \A r \in Requests : req[r].pc \notin Dispatches

DispatchesAlone == \A r, s \in Requests :
  req[r].pc \in Dispatches /\ req[s].pc \in Dispatches => r = s

NotYetCalled == \A r \in Requests :
  /\ req[r].pc \in Uncalled => calls = 0
  /\ req[r].pc \in Uncalled \cup {"refused"} => ~pin

(* The caller and whoever recovers hold the control row, one or the other.     *)
CallerLocks   == \A r \in Requests : At(r, "locked") => lock = r /\ Claimed /\ try.marked
RecovererLocks == \A a \in Requests \cup {Operator} : At(a, "writing") =>
  lock = a /\ (req[a].unknown = "failed" => ~try.marked)

PinIsMarked == pin => try.marked /\ calls > 0

CertifiedInv ==
  /\ Shapes /\ Unclaimed /\ DispatchesAlone /\ NotYetCalled
  /\ CallerLocks /\ RecovererLocks /\ PinIsMarked /\ CertifiedPostOnce
=============================================================================
