# A verification of SM_Poster

SM_Poster turns shop products into Pinterest pins. A publication is proposed,
approved, scheduled and then posted - by an unattended worker through Buffer, or
by an operator. Posting cannot be undone and cannot be repeated safely: the code
spends most of its effort on never posting a pin twice, never losing track of a
post whose answer was lost, and stopping when it does not know. These modules
model that effort, and the services a pin passes through before and after it -
from the catalogue it is proposed from to the reconciliation of a lost answer -,
check them with TLC on small instances and prove the core and most of the services
with TLAPS for all instances.

## The system

Paths are below `backend/app/`.

| Component | State it keeps | Operations | Properties that make it correct |
|---|---|---|---|
| Publication lifecycle (`services/publication_state.py`) | `PinPublication.status` | the transition table | terminal statuses stay; FAILED means nothing was posted |
| Scheduling (`services/publication_scheduler.py`, `api/routes/publications.py`) | status, `scheduled_for` | schedule, cancel, due scan | a request never undoes what happened since it read the row |
| Dispatch permit (`services/routine_dispatch_authorization.py`) | one ACTIVE permit per publication | create, expire, revoke, validate, consume | one permit, one attempt |
| Control and runs (`services/routine_publishing_control.py`) | control row PAUSED / DRY_RUN / LIVE; one RUNNING run row with a heartbeat | set, pause, start, take over, heartbeat, finish | the breaker trips before the next post |
| Routine worker (`services/routine_pinterest_worker.py`) | locals of `run_once` | recover, scan, select, admit, dispatch, finish | daily limit; claims are eventually resolved |
| Dispatch protocol (`services/routine_buffer_dispatch.py`) | attempt and its boundary row | claim, re-validate, verify, mark boundary, lock, call, persist, recover | a claim and its attempt move together; calls are exclusive; a retry is safe |
| Reconciliation (`services/publication_reconciliation.py`, `buffer_publication_reconciliation.py`, `routine_buffer_reconciliation.py`, `buffer_unknown_reconciliation_discovery.py`) | receipts, events, discovery reports | confirm pin, give up, ask Buffer, search Buffer | every UNKNOWN can be resolved, once, and by what Buffer really has |
| Scheduler and lease (`services/routine_pinterest_scheduler.py`, `services/routine_scheduler_lease.py`) | PostgreSQL advisory lock | acquire, validate, tick, release | one process ticks; a lost lease stops it |
| Scheduled quotas (`services/routine_scheduled_quotas.py`, `_commitments.py`, `_admission.py`) | reservations | assess, reserve, admit | no horizon over its limit under concurrent admission |
| Bounded batch (`services/routine_bounded_batch.py`) | manifest, owner, entry states | open, reserve, bind, observe, close | a batch stops at its first failure |
| Manual dispatch (`services/manual_publication_dispatch.py`, `publication_dispatch_authorization.py`, `buffer_manual_publication_dispatch.py`, `pinterest_publisher.py`, `buffer_pilot_activation.py`) | single-use authorizations and activations | authorize, revoke, consume, publish | an authorization is spent once |
| Certified live (`services/routine_certified_live.py`, `api/routes/routine_publishing.py`), canaries (`routine_*_canary*.py`) | reserved run rows, receipts | preflight, reserve, run, recover | one submission, whatever is recovered |
| Readiness execution (`services/readiness_execution*.py`, `scripts/object_storage_readiness.py`) | admissions, outcomes, one object | authorize, consume, probe, record | a release is probed once and leaves nothing behind |
| Autonomous execution (`services/pinterest_autonomous_*.py`, `pinterest_board_*.py`) | destination, generation and execution runs; provisioning attempts | route, provision, generate, authorize, publish, reconcile | one board, one publication, no retry before a reconciliation |
| Planning (`services/pinterest_portfolio_planner.py`, `pinterest_adaptive_optimizer.py`, `pinterest_optimizer_apply.py`) | the month's plan and its items | plan, recommend, apply | an active plan keeps its caps |
| Proposals and review (`services/pin_proposals.py`, `creative_rendering.py`, `ai_*.py`, `publication_identity.py`) | concepts, drafts, versions, creatives, approvals | propose, render, regenerate, select, decide, snapshot | what was approved is what is published; paid calls stay in budget |
| Shopify sync (`services/shopify_sync.py`, `product_intelligence.py`, `product_source_*.py`) | jobs, products, image rows, source objects | queue, import, normalize, hydrate | every record is accounted for; a digest names its own bytes |
| Schema migration (`db/migration_adoption.py`, `exact_revision.py`, `migration_lock.py`) | the recorded revision, the tables' renderings | inspect, lock, adopt, rebuild, record | no row is lost, no table adopted that is not canonical |
| State transfer, analytics, OAuth, frontend | - | - | see the end |

The components interact through PostgreSQL rows only. Workers, the HTTP routes
and the scripts open sessions at READ COMMITTED; a step takes rows by
compare-and-set (`UPDATE ... WHERE status = ...`), by `FOR UPDATE` on the control
row, or - in older routes and in recovery - by loading a row and writing it back by
primary key. Between two steps of one actor any step of another may fall, and a
process may die.

The hard behaviours, each an entry of `PROJECT.json` "hazards": a claim racing
with a cancel or a recovery; a stale answer of Buffer; a worker that is superseded
but still alive; a crash on either side of the mutation boundary; the two-row
compare-and-set half matching; a permit consumed, revoked or replaced under the
worker's feet; the breaker tripping late; PUBLISH_UNKNOWN nobody can resolve; a leader that
lost its connection and does not know; a batch closed, or its owner's lease gone,
between any two awaits of the executor; a board that two items ask Pinterest to
create; an executor that dies between a publication and the stage that names it; two
observers of one post; a post that moves while it is searched for; a decision on a
version nobody has active any more; a table published by the hosting platform between
its inspection and its lock.

## Modules

### `PublicationLifecycle`

What publishing a pin promises: a publication moves along `ALLOWED_TRANSITIONS`,
is submitted only while PUBLISHING and only if no earlier submission may still
become a pin, and becomes PUBLISH_FAILED only when none may. Its state is the
status of each publication and one fact about the world, `live[p]`.

### `RoutinePublishing`

The routine worker with everything it shares a row with. One step is one database
transaction, or one await. The variables are the columns the protocol reads:

| Variable | Code |
|---|---|
| `status`, `slot`, `pinId` | `PinPublication.status`, `scheduled_for` (none / future / due), `pinterest_pin_id` |
| `permit` | the latest `RoutineDispatchPermit`; `gen` counts them, `drift` says the schedule changed since its snapshot |
| `nAtt`, `att` | `PublicationAttempt` joined with `RoutineAttemptBoundary`: `marked` is `provider_mutation_started_at`, `op` is `provider_operation_id`, `old` is `started_at <= cutoff` |
| `control`, `lock`, `run` | the control row, who holds it `FOR UPDATE` across the provider call, the RUNNING run row |
| `pc`, `mode`, `todo`, `rec`, `job` | the locals of `run_once`, `recover_stale_routine_claims` and `dispatch_routine_buffer` |
| `req` | a schedule or cancel request between its read and its write |
| `remote` | what Buffer did, which the database does not know |
| `crashes`, `unpaused` | a bound, and a ghost: UNKNOWN outcomes control has not answered |

| Actions | Code |
|---|---|
| `StartRun`, `Finish`, `Crash` | `run_once` opening and closing its run; takeover of a RUNNING row with a stale heartbeat; its `except` clause, or the process dying |
| `RecoverScan`, `RecoverReread`, `RecoverUnmarked`, `RecoverMarked`, `RecoverDeadlock` | the SELECT of `recover_stale_routine_claims`, then each row's write and commit |
| `DueScan`, `Select`, `Admit` | `due_publications`, the loop's permit validation, the daily limit and the gates of `dispatch_routine_buffer` |
| `Claim` | `claim_for_routine`: both compare-and-sets, attempt and boundary row |
| `PostClaim`, `Verify`, `PreFail` | re-validation, the awaited destination check, `_persist_pre_provider_failure` |
| `Boundary`, `LockCall`, `LockFail`, `FailPause` | `mark_provider_mutation_boundary`, `_lock_provider_call` and its refusal |
| `Call`, `Persist` | `create_pinterest_post` and `_persist_provider_outcome`, control row held throughout |
| `Reconcile`, `Pause` | reconciliation of a post already sent, `pause_on_unknown` |
| `LoadRequest`, `CommitRequest`, `DirectRequest` | the schedule and cancel routes, in two steps or one |
| `CreatePermit`, `RevokePermit`, `SetControl` | the permit and control routes |
| `ReconcileBuffer`, `PinConfirmed`, `CancelUnknown` | `reconcile_buffer` by an operator or the reconciler, and `reconcile` |
| `Tick`, `BecomesDue`, `BufferProgress` | time: stale cut-offs and due slots; Buffer working off its queue |

Two details of the ORM matter and are modelled. A loaded row keeps its values until
a commit expires it or the code refreshes it, so `Boundary` tests a control state
read in `PostClaim`, and recovery re-reads the next row's boundary but not whether
it is still a stale claim. And a flush writes the changed columns by primary key,
so `CommitRequest` and `RecoverUnmarked` have no guard on what the row has become.

What is abstracted: fingerprints, quality and readiness checks may refuse at any
time (`Admit`, `PostClaim` and `Verify` may always take the refusal); times are
reduced to due / not due and stale / fresh; one day is modelled, so the daily count
only grows; DRY_RUN claims nothing and is one step; the scan takes at most
`BatchSize` of the due publications, in any order.

### `RoutineScheduler`

Who may run the worker. Every process with the scheduler enabled has one loop
(`Loops`); a canary request (`Canaries`) borrows the same lease for one DRY_RUN
tick. The lease is a session advisory lock of PostgreSQL, so it lives on a
connection: `conn` is the connection as it really is, `lock` whom the server
believes to hold the lock (`Zombie` when that session's client is gone and the
server has not noticed).

| Actions | Code |
|---|---|
| `Wake`, `Tick` | the loop after its sleep: `acquire` unless it believes it is leader; `scheduler_tick` with `validate` |
| `StartRun`, `EndRun` | `run_once` opening and finishing its run row |
| `TickError`, `start_scheduler`, `stop_scheduler` | an exception ends the loop, its `finally` releases; cancellation leaves the run row RUNNING |
| `CanaryAcquire`, `CanaryPreflight`, `CanaryTick`, `CanaryStart`, `CanaryFinish`, `CanaryPass`, `CanaryRefuse` | `run_routine_scheduler_canary`, the worker's canary branch, and every refusal |
| `Break`, `Reap`, `Die`, `Age`, `set_control_state` | the network, the server, the process, time, the operator |

### `BoundedBatch`

A manifest of `Target` publications (five in the code), and the executors that own
it one after another. Every operation of `routine_bounded_batch` locks the control
row and then the batch row, so one action is one such transaction; what happens
between two of them (an operator's pause, a withdrawal, a recovery, an expiring
lease, another executor) is anyone's step. The dispatch protocol appears with the
transactions the batch can tell apart; the attempt rows, covered by
`RoutinePublishing`, are reduced to `marked`.

| Variable | Code |
|---|---|
| `batch` | the row of `routine_autonomous_batches`: `state`, `open` (not `admission_closed`), `used` (`attempts_reserved`), `owner`, `lease` (`lease_until` in the future or not) |
| `bound`, `reserved`, `outcome` | per entry: `publication_id` and `permit_id` set, `reserved_at` set, `outcome` |
| `pub`, `permit`, `marked` | the item's publication, its permit, its attempt's boundary |
| `control`, `run`, `lock` | control row, RUNNING run row, who holds control and batch rows across the provider call |
| `prep` | where the preparer is, and at which slot |
| `pc`, `cur`, `todo` | the locals of each executor |

| Actions | Code |
|---|---|
| `Freeze`, `Check`, `Execute`, `Bind`, `Seal`, `PrepareFailed` | `prepare_batch` up to `seal_batch`, and its except clause |
| `acquire_batch`, `StartRun`, `manifest_candidates`, `Loop` | `run_bounded_batch_once` and `run_once` up to the first dispatch |
| `Claim` | `claim_for_routine` with `reserve_entry` and `bind_attempt` in its transaction |
| `Verify`, `Failing`, `Boundary`, `LockCall`, `Conflict`, `Call`, `ObserveOutcome`, `Reconcile`, `Pause`, `Settle` | `dispatch_routine_buffer` with its hooks `check_provider_boundary` and `observe_batch` |
| `Denied`, `After`, `Finish`, `Release`, `LetGo`, `Wrap`, `Incomplete`, `Raise` | the ways out of `run_once` and `run_bounded_batch_once` |
| `Exception`, `Die`, `PreparerDies`, `LeaseExpires`, `RunAges`, `close_batch`, `set_control_state`, `Withdraw`, `ReconcileUnknown`, `Recover` | failures, time, operators, an ordinary worker's recovery |

`validate_identity` compares some thirty columns. Which of them drifted makes no
difference, so it is the permit's status plus a refusal that is always possible.

The manifest's claims are not put through the quotas here, so the model
over-approximates: it reaches COMPLETED, which finding 4 keeps the code from.

### `ScheduledQuota`

Admission of a scheduled publication, statement by statement, and everyone else
who writes publications as a single step in between. An admission holds the control
row, so there is one at a time, but READ COMMITTED shows each of its statements what
others have committed by then; its own reservation and claim are visible to itself
alone (`Status`, `Reserved`, `ReservedDay`) until `Commit`, and lock its
publication's row (`RowFree`).

| Variable | Code |
|---|---|
| `status`, `when` | `PinPublication.status`, the day of `scheduled_for` |
| `drifted` | publications whose draft, concept, item, plan, product and board rows disagree in any way `_canonical_identity` refuses |
| `reserved`, `resDay` | the rows of `RoutineScheduledQuotaReservation`, their `scheduled_for` |
| `lock`, `tx` | who holds the control row; each admission's place, publication, day and first usage |

| Actions | Code |
|---|---|
| `Lock`, `ReadRow`, `AssessBefore`, `ReserveAndClaim`, `AssessAfter` | `admit_scheduled_publication` |
| `Commit`, `Rollback` | the rest of `claim_for_routine`; every refusal, a DRY_RUN's rollback, a lost connection |
| `Execute`, `schedule`, `cancel`, `Outcome`, `reconcile_buffer`, `reconcile` | those who write the publication without the control row |
| `Drift`, `NextDay` | an edit of its lineage, time |

One month is modelled, every publication has a plan item of it, a publication's
product, vendor and board are constants (`Lineage`), and limits belong to the
admitter: two processes may run with different settings. The requests are atomic;
what happens between their read and their write is in `RoutinePublishing`.

### `CertifiedLive`

One publication posted on request while the worker is otherwise off.
`reserve_certified_live` sets control LIVE and inserts the RUNNING run row in one
commit, under the control row and SHARE locks of every table it has read, so it is
one action; from there the request walks through `run_once` and
`dispatch_routine_buffer` with the reserved run, and every exit of the route's `try`
is an action: a result, an exception (`Exception`, `RunFailed`, then recovery by the
request itself), a cancellation that skips the `except` clauses (`Cancelled`), death.
`RecoverRead` holds the control row until `RecoverWrite`, but nothing keeps the rows
it has read from moving. Requests may be silent beyond the stale cut-off, so one may
wake up under another's reservation.

| Variable | Code |
|---|---|
| `control`, `lock`, `run` | the control row, who holds it, the latest run row |
| `pub`, `permit`, `try` | publication, permit, attempt with its boundary |
| `receipt`, `req` | a preflight's receipt; each actor's place, its run, what its recovery has read |
| `calls`, `pin` | what Buffer was asked, and whether a post may exist |

### `ManualDispatch`

`POST /publish` and `POST /publish-buffer`. A request has a session of its own:
`Validate`, `BuildEvidence`, `Gate`, `atomic_authorized_claim`, `PostClaim`, `Post`,
`Record` are the stretches between its commits and awaits, and `req` holds what it has
read. `ReadRevocation` / `revoke_authorization` / `RevokeActivation` and `ReadEdit` /
`WriteEdit` read in one step and write by primary key in another.
`finalize_post_claim_unknown` is the late writer of an outcome nobody recorded.
`Drift` makes a later check fail; `reconcile` and `ReconcileOperation` resolve an
UNKNOWN one, `PostFizzles` is a post that never becomes a pin.

### `BufferReconciliation`, `UnknownDiscovery`

`reconcile_buffer` phase by phase: `_begin_reconciliation_receipt`, `StartRead`,
`ReadPost`, `Revalidate`, `PreCas` and `Cas` are its transactions and awaits, the
receipts a bounded history in the attempt's JSON column that each writes back whole.
`RoutinePublishing` has it as one step, `ReconcileBuffer`; here observers overlap.
`UnknownDiscovery` lists Buffer's posts status by status (`ListStatus`), a page each,
and reads each listed post (`ReadListed`), while posts progress; what an operator may
do with the report is `ActOnReport`.

### `AutonomousDestination`, `AutonomousExecution`

Portfolio items on their way to a permitted publication. In the first, the
coordinators of several items meet at one provisioning attempt, found by the
fingerprint of its request: `ensure_autonomous_destination`, `Route`,
`start_board_provisioning`, `BindAttempt`, `ClaimMutation` (the boundary, committed
before the call), `create_board`, `sync_boards`, `reconcile_provisioned_board`,
against operators who synchronize and configure boards. `Execute` is the second
module's answer. That one follows a single item: `dests`, `execs` and `gens` are its
runs of each kind by attempt number, one action per committed stage (`StageSeo` ...
`StagePermitted`) and one per piece of work between two of them. Coordinators
serialize on the item's advisory lock, the preparer of a bounded batch does not take
it: they meet at unique constraints and at rows written by primary key.

### `PortfolioPlanning`, `ProposalBatch`

The planner and the batch generator as operators on sequences - candidate pool,
rounds of selection with each relaxation, reserve, pacing, the optimizer's exchange
of dated and reserve items; segments, selection, penalties, ranking - with the
transactions that call them as actions, and what they read moving in between
(`PinCommitted`, `DayPasses`, `Learns`; `Renormalize`, the other worker). A score is
a small number, a product's facts one of a few profiles. A loop of the code is a
recursive function over one named step (`SelectNext`, `ReserveNext`, `Merge`,
`TakeNext`, `RankNext`), which the proofs are about; the `while` of `_select_products`
becomes as many looks as it can have.

### `ContentReview`, `CreativeRendering`, `PaidGeneration`

A draft under review (versions, selection, approvals, snapshots; operators who read
in one step and write in another), the render batch (a row flushed, an object
written, a commit at the end; concurrent renderers of one fingerprint wait for each
other), and the paid calls between the budget's advisory lock and the commit of their
record.

### `StorageReadiness`

The management request (`verify_authorization`, `consume`, `launch_probe`,
`ReadChild`, `_stop_process`, `CompareBaseline`, `finish`) and its child process
(`Preflight`, `Write`, `ReadBack`, `Delete`, `fresh_absence`, `Finally`), with an
upload that may still commit after its client has given up (`LateUpload`).

### `CatalogSync`

Jobs with the partial unique index that admits one, the import with a savepoint per
product and a commit per batch, and the hydrator whose image row an import may have
replaced.

### `SchemaAdoption`

A database whose tables the hosting platform has published before their migrations
ran. A session inspects without locks, locks, inspects again, rebuilds empty tables
or adopts canonical ones and records the revision; applications insert and the
platform publishes whenever no lock forbids it. A catalogue fingerprint is the
rendering it stands for, a table group the revision that owns it.

### `Services`

Holds an instance of each of the fourteen modules above and extends `ScheduledQuota`.
They share no row, so a product of them would only multiply states: a behaviour is
one of a single service, `focus`, whose variables are `v1`, `v2`, ... in the order its
module declares them. The properties are those of the service in focus.

### `MCRoutinePublishing`, `MCScheduledQuota`, `MCServices`

The symmetry of workers, publications and operators for TLC; the calendar, lineage
and limits of an instance; the profiles and vendors of an instance of `Services`.
There `k1` and `k2` are interchangeable in every service, the quotas use neither.

## Runs

All bounds are constants of the module: `MaxAttempts`, `MaxPermits`, `MaxCrashes`
and the sets. `SlowWorkers` lets a living worker be silent for the whole stale
cut-off (900 s by default), `RequestRaces` lets other steps fall between a
request's read and its write.

| Run | Instance | Shows |
|---|---|---|
| `routine_race` | 1 publication, 1 worker, 1 operator, 2 attempts and permits, 1 crash, races | `ClaimBacked`: a PUBLISHING publication is backed by exactly its latest attempt; `RetryIsSafe`: whatever may be scheduled again has no live submission |
| `routine_lifecycle` | the same without races, fair | `ImplementsLifecycle`: refinement of `PublicationLifecycle`; `ClaimsResolve` |
| `routine_failures` | 2 publications, batch of 2, 2 attempts, permits and writes a day, 1 crash | `DailyLimitRespected`: a write of unknown outcome uses up the day's limit too; `Breaker`: nothing more is posted in a batch after an UNKNOWN outcome until control was paused |
| `routine_slow` | 2 workers, slow, 2 attempts | `PermitSpentOnce`, `CallUnderLock` with a superseded worker still at work |
| `scheduler` | 2 loops, 2 canaries, 3 faults, fair | `LeaderIsAlone`, `NoOrphanLock`, `OnePass`, and `Failover`: leadership moves on whatever ends the leader |
| `bounded_batch` | batch of 2, 2 executors, 1 fault | `OneInFlight`: at most one reserved entry is not known to be published; `CallIsAdmitted`; `PermitsDieWithBatch`; `NobodyLeavesOwning`; `GuardAccepts`: the service asks for nothing the database trigger forbids |
| `services` | `ScheduledQuota` and fourteen services, one in focus per behaviour; see below | one or two properties of each |
| `routine_recovery_race` | 2 workers, slow | finding: recovery fails a claim during its provider call |
| `routine_cancel_race` | 1 worker, 1 racing operator | finding: a late cancel overwrites PUBLISHED |
| `routine_unresolvable` | 2 attempts | finding: a second UNKNOWN with an operation id is resolved by nothing |
| `quota_room` | the quotas of `services` | finding: the first PUBLISHED publication closes its month |
| `approval_exact` | 2 operators, a copy and a background version | finding: an approval of the original binds another version's artwork |

What `services` checks, instance by instance:

| Service | Instance | Property |
|---|---|---|
| `ScheduledQuota` | 3 publications in a month of 2 days, limits of one for one admitter and of two for the other | `ClaimWithinLimits`: no claim leaves a horizon above its admission's limit; `ClaimReserved`: it is reserved for the very day it is scheduled for |
| `AutonomousDestination` | 2 items on one board, 2 deaths or lost listings | `BoardCreatedOnce`: over all items, deaths and lost answers Pinterest is asked once; `ExecutedOnOwnBoard`: an item that had its board created is executed on that board |
| `AutonomousExecution` | a coordinator and a preparer, 2 attempts, 1 death | `OnePublication`; `RetryReconciled`: no attempt before the last failure was reconciled |
| `ManualDispatch` | 1 publication, 2 requests, 2 authorizations, 1 activation, 1 death | `AtMostOnePost` while none was proved not to be one; `FailedMeansNoPin`; `ActivationSpent` |
| `BufferReconciliation` | 2 observers, 2 receipts in a history of one, 1 failure | `OneVerdict`: one event, and both rows say what it says |
| `UnknownDiscovery` | 2 posts, pages of one | `ScanSeesPost`: a scan misses a post only with a full page or an error behind it |
| `ContentReview` | 2 operators, 1 copy, 1 background | `ReviewUndecided`: a draft offered for decision has never been approved |
| `PaidGeneration` | 4 requests, budget of two | `PathWithinBudget` |
| `StorageReadiness` | 2 requests of one release, 1 business change | `ProbedOnce`; `PassLeavesNothing`, not even an upload that may still arrive |
| `PortfolioPlanning` | 3 products, 2 boards, 2 pins and a reserve, 2 days, 1 change | `ActivePlanKeepsCaps`: the caps survive the optimizer, and each day is given away as often |
| `ProposalBatch` | 2 products of 2 profiles, 2 workers, 2 proposals each | `BatchIsSpread`: unused products first, segments covered, angles of different intent |
| `CreativeRendering` | 2 drafts, 2 renderers, 2 faults | `RenderedHasObject`: a rendered creative has its PNG, an exact product's proposal its creative |
| `SchemaAdoption` | 2 sessions, 1 row, 1 publish | `AdoptionIsSafe`: no row disappears, and a revision is recorded only over its frozen tables |
| `CatalogSync` | 2 jobs, processes and products, batches of two, 1 hydration | `SyncAccounted`; `DigestOfItsImage`: also when an import recreates the row meanwhile |
| `CertifiedLive` | 2 requests and the operator, 2 runs | `CertifiedPostOnce`: at most one submission, claim and attempt resolved together, FAILED only when nothing was posted |
| all | | `ServicesTypeOK` |

The bounds are where the interesting cases begin: two attempts make a retry and a
wrong "latest attempt" possible, two permits a reuse, two workers a takeover, one
crash a recovery, two publications with a limit of one an overrun. The database
never relates three publications or three attempts to each other, so a larger
instance adds length, not kinds of step. Deadlock is checked in every run but
`services`, whose requests end for good: of the others some
request or tick can always be made. The types of `RoutinePublishing` are no run's
question, as `TypeCorrect` proves them.

A batch of two has a first and a last entry, which is all `reserve_entry` and
`_observe_locked` distinguish; a second executor makes a lost and a stolen
ownership possible; one fault reaches every interrupted step, and a second would
only interrupt a recovery that is itself one transaction. In `scheduler`, three
faults break the leader's connection, its successor's and the next one's.

In `services` every instance has two of whatever meets at a row, and the fewest
faults that reach every interrupted step: two items for one board, two executors for
one item, two requests for one authorization, two sessions for one table. Four paid
requests overrun a budget of two on either path; a history of one receipt is full
after the first; pages of one make a listing short; two days make today and a day
left. A second publication in `ManualDispatch` or `CertifiedLive` would share no row
with the first but the control row, which the latter's preflight refuses to share.

In the quotas two publications share a product, two a board and all a vendor,
so a claim meets some horizons full and others not; the day after the month is one
more value of `when`.

Two switches keep each finding to the run that shows it. `routine_race` has no
slow workers: with one, recovery resolves a claim during its provider call (the
finding of `routine_recovery_race`) and a retry may then post a second pin, so
`RetryIsSafe` fails. It has one operator, whose next request follows the answer to the
last: with two, a `schedule` that read an APPROVED row writes SCHEDULED over the
PUBLISHING of a claim made meanwhile, and neither property holds (see the list after
the findings). `routine_lifecycle` has no request races either: the late
cancel of `routine_cancel_race` is a step no lifecycle allows.

Every property is broken by at least one mutant of the code, listed in
`PROJECT.json` and defined in the module just before the definition it mutates: a
missing boundary test, a call without an answer taken for a failure, a cached
control row believed, a pause forgotten, and so on.

### Fairness

`ClaimsResolve` assumes that the scheduler keeps starting runs, that a worker that
has begun takes its next step, and that time passes: weak fairness of `StartRun`
and `WorkerStep` per worker and of `Tick`. The loop of
`routine_pinterest_scheduler` and asyncio justify the first two. Nothing is assumed
of operators or Buffer. The property is conditional on control being eventually
left unpaused, because a PAUSED worker returns before it would recover anything.

`Failover` assumes weak fairness of a loop's own steps, of a canary's answer and
of the server reaping a dead session, and strong fairness of `Wake`: standing by
leaves no trace, so a loop that keeps asking gets the lock if it is free again and
again. Nobody is assumed to restart a process, so the property allows all loops to
be over in the end - an exception in a tick does end a loop for good.

## Findings

1. **A cancel overwrites a terminal status** (`publication_scheduler.py:59-64`).
   `docs/ARCHITECTURE.md:41-42` calls PUBLISHED and CANCELLED terminal. The route
   tests the row it loaded and writes by id.
2. **Recovery interleaves with a submission**
   (`routine_buffer_dispatch.py:369-376`). The docstring of `_lock_provider_call`
   says it cannot; the unmarked branch takes no lock.
3. **A second UNKNOWN is unresolvable**
   (`buffer_publication_reconciliation.py:340`). Buffer's reconciliation wants
   exactly one Buffer attempt, the operator's two want no operation id.

4. **A PUBLISHED publication closes its month**
   (`routine_scheduled_commitments.py:150`). Its plan item would have to be PUBLISHED
   as well, and nothing makes it so outside a test. Every later admission of the month
   is refused with SCHEDULED_QUOTA_COMMITMENT_CONFLICT, so a batch of five whose
   comments and tests expect five claims in a row stops after its first.

5. **An approval of the original binds another version's artwork**
   (`publication_identity.py:203`). `docs/DECISIONS.md:9` and `docs/CHANGELOG.md:6`
   say it binds the exact version and creative. The version is read when the decision
   is made, the creative comes with the request, and with no revision selected any
   creative of the draft is accepted.

Met while modelling and checked by no run, because no line of the repository promises
otherwise or because the promise spans what the models keep apart:

* Two requests of one publication at once: the second of two `schedule` calls that both
  read APPROVED writes SCHEDULED by id (`publication_scheduler.py:41-57`) after a worker
  has claimed on the strength of the first, and the row of a call in flight may be
  claimed again. `docs/SECURITY.md` knows one administrator, whose requests follow each
  other; with `Operators` of two and `RequestRaces`, `ClaimBacked` and `RetryIsSafe`
  of `routine_race` fail, which is why the theorems about them assume `OneRequest`.
* A revocation that read an authorization before its claim writes REVOKED over
  CONSUMED (`publication_dispatch_authorization.py:124`).
* `Cas` writes back the receipts it read; a phase another observer committed in
  between is lost, the verdict is not.
* Copy and artwork are held to the daily budget separately, so both together may
  spend it twice.
* The optimizer may move a reserve item, picked without the board limit, into a dated
  slot; `apply_optimizer` then refuses and the DRAFT plan stays.
* A job whose process died stays QUEUED or RUNNING and bars every later one.
* `renormalize_existing_products` changes facts under a batch that has read them, and
  the concepts made from them stay.
* The managed adoption refuses every recorded revision but 0031 and 0033, the
  canonicality guard that startup runs next every one but 0035.
* A certified live request cancelled, or refused by a pause, before its claim leaves
  its run RUNNING, which recovery answers with NOT_ARMED; after a later dry run it
  answers RUN_REQUIRED although a claim may still be PUBLISHING. A request that wakes
  up late may claim under another's reservation; it still posts once.

## Proofs

Unless said otherwise a proof holds for every set of publications, workers, operators
and so on, and every bound, with `SlowWorkers` and `RequestRaces` either way. The
assumptions are those of the modules' constants, which the runs evaluate. Each
proof has the same shape: a lemma that the invariant holds initially, one lemma per
action or group of like actions, a step lemma that puts them together, and the
theorem, which says that the property follows.

### The routine

* `RoutinePublishing_proofs`, `TypeCorrect`: `Spec => []TypeOK`. `TypeOK` alone is
  not inductive: a step of the dispatch writes to the attempt `Mine(w)`, which must
  exist. `TypeInv` adds that a worker past its claim names an existing attempt
  (`JobOK`), that recovery's current row is one (`RowOK`), and that a pending
  request names a publication (`ReqOK`). One lemma per action.
* There too, `SubmissionsAreExclusive`: `Spec => []CallUnderLock`.
  `CallUnderLock` is inductive relative to `TypeInv`. The lemma `History` says that
  only a claim appends an attempt and that no step changes the permit of an attempt
  or takes back its boundary; `CallBystander` says that a step that takes no lock
  but its own, and touches control only when nobody holds it, leaves every call in
  flight as it was. What remains are the claim (its attempt is new, hence nobody's),
  taking the lock, the call, and the deadlock.
* There too, `PermitsAreSpentOnce`: `Spec => []PermitSpentOnce`. The
  strengthening is `Bounded`: no attempt carries a permit younger than the latest.
  Without it a new permit could collide with an old attempt.
* `PublicationLifecycle_proofs`, `RetriesAreSafe`: in the lifecycle a publication
  that may be scheduled again has nothing out there.
* The second half of `RoutinePublishing_proofs` assumes `~SlowWorkers`: a live worker
  renews its heartbeat within the stale cut-off, which its 900 s intend. Then no recovery
  runs next to a worker it recovers from (`OneActive`: a worker at work holds the run, and
  the run is not stale), and everything rests on that.
  - `ClaimsAreBacked` and `RetriesPostNothingTwice` prove `ClaimBacked` and
    `RetryIsSafe` from `RetryInv`: an open attempt is its publication's latest
    (`Backed`, `Latest`), Buffer hears of an attempt only past its boundary
    (`CallMarks`), what may be a pin is the latest attempt of a publication nobody
    calls retryable (`LiveLatest`), a worker between its claim and its outcome
    still has its attempt open and uncalled (`WorkerOK`), and a pending request that
    will write SCHEDULED has read a row that still allows it (`SeenStands`). The last
    is where `OneRequest` is needed: races, or several operators, but not both.
  - `DailyLimitHolds`: the room a worker has counted cannot shrink, as it is alone.
  - `BreakerHolds`: whoever has recorded an UNKNOWN outcome pauses next or dies.
  - `ProtocolImplementsLifecycle`, the refinement itself, for every value of the
    constants: each action of the protocol maps to a step of `PublicationLifecycle` or
    to a stutter (`Follows`). Request races are excluded: the late cancel of
    `routine_cancel_race` is a step no lifecycle allows.
* `RoutineScheduler_proofs`, for any loops, requests and number of faults.
  `OneLeader` and `LockIsReleased` rest on `LeaseFacts`: an open connection is the
  holder of the lock, and an actor that is over has none. `OneCanaryPasses` adds
  `CanaryFacts`: while a canary past its preflight keeps its connection, nobody has
  passed - passing takes the lock, and an earlier marker would have been seen.

### The bounded batch

`BoundedBatch_proofs`, for any `Target`, executors and faults.

* `BatchTypes`: the strengthening `Placed` keeps a dispatching executor's slot within
  the manifest and the preparer's slot within it until it seals.
* `CallsAreAdmitted`, `PermitsAreRevoked` and `OwnershipEnds` from one invariant,
  `Inv`. `CallHoldsLock` ties the lock to the label of the call, and `Mine` says that
  no two executors work on one entry between claim and answer; so nothing that
  `CallIsAdmitted` speaks of moves under a call. `PermitsDieWithBatch` needs that
  executors work only when the preparer is done (`OpenIsReady`, `Prepared`), that it
  binds in order (`BoundBefore`), and that a reserved entry's permit is not ACTIVE
  (`Spent`), which is why `_close` may skip it. `Unowned` serves `NobodyLeavesOwning`.
  The lemma `HarmlessStep` disposes of the steps that at most close the batch.
* `OneEntryInFlight` and `GuardNeverRefuses` from `Course`, which relates the batch to
  the outcomes of its entries: an outcome says what became of a reserved publication
  (`Told`), of the reserved ones at most one is not published (`OneOut`), and none when
  an executor takes over (`Clean`), the counter is the number of reservations
  (`Counted`, by cardinality), there is none before the batch runs (`Unstarted`), and a
  batch that is COMPLETED or FAILED has the outcomes that say so (`CompletedFor`,
  `FailedFor`). The trigger's transitions follow action by action.

### The services

`Services_proofs` (what prepares and accounts for publications),
`DispatchServices_proofs` (what talks to another system: posts, finds out what became
of a post, imports) and `PlanningServices_proofs` (what is planned ahead: quotas, the
portfolio, proposals). The inductive invariant of a service stands at the end of its
own module, where it reads in the service's own names. Assumed are `NamesAssumption`
(the marks of a free lock and of the operator's session name no request),
`BoundsAssumption` and `AttemptsAssumption` (the bounds are natural numbers),
`PlanningAssumption` (products and boards are numbered, the month has a day) and
`ProposalsAssumption` (there are finitely many listings, numbered as the catalogue
orders them). The numbers stand for ids and titles: the code compares them to break
ties, and nothing else is assumed of them.

| Invariant | Theorems | Why it is inductive |
|---|---|---|
| `DestinationInv` | `BoardsAreCreatedOnce`, `ItemsUseTheirOwnBoard` | one coordinator is past the boundary (`CreatesAlone`), the boundary is passed at most once (`CreatesOnce`), before it nothing was asked (`Unasked`) |
| `ExecInv` | `ItemsArePublishedOnce`, `RetriesAreReconciled` | lineages and records of reconciliation only grow, so what a caller has read, however long ago, is an attempt whose predecessors are all reconciled (`AttemptsRead`) |
| `ReviewInv` | `ReviewsAreUndecided` | a decision takes the draft out of REVIEW (`Deciding`), what brings it back finds no approval on record, and a snapshot is taken only where there is one (`Snapshotting`) |
| `PaidInv` | `PathsKeepTheirBudget` | the request under way holds its path's lock (`CallerHolds`) and every call but its own is on record (`CallsRecorded`) |
| `ReadyInv` | `StorageIsProbedOnce`, `APassLeavesNothing` | one request consumes (`OneConsumes`), only it launches (`LaunchedOnce`); a probe that goes on to read knows its upload arrived (`Acknowledged`), and a PASS goes back to its receipt (`PassTraced`) |
| `ManualInv` | `ManualPostsOnce`, `FailuresHaveNoPin`, `ActivationsAreSpent` | an attempt has one owner (`OwnAttempts`), only a first attempt reaches the provider and it is alone while it is owned (`FirstAlone`, `BeforeFirst`), and a pin shuts the row against later claims (`PinShutsTheRow`) |
| `CertifiedInv` | `CertifiedPostsOnce` | a boundary is marked, and a claim recovered, under one lock |
| `VerdictInv` | `OutcomesAreSettledOnce` | verdict, publication and attempt are written by the compare-and-set alone |
| `DiscoveryInv` | `AScanSeesThePost` | what the scan has not listed is in a status it has yet to list (`NoneOvertakesTheScan`) |
| `CatalogInv` | `ImportsAreAccounted`, `DigestsAreOfTheirImages` | only an active job works and there is one (`OneActive`); what it has committed is what bears its number (`Committing`), what its open transaction adds is neither committed nor left in the export (`Streaming`); a hydration updates the row it read (`Written`) |
| `RenderInv` | `RenderedAreStored` | a row rendered in an open transaction has its object in the store or puts it with the commit (`Stored`), a new row is inserted by one transaction (`InsertedOnce`), and nobody else knows a proposal that is not committed (`Making`) |
| `IInv` of `ScheduledQuota` | `ClaimsAreWithinLimits`, `ClaimsAreReserved` | only the holder of the control row has a transaction open (`LockFacts`), a claimed row stays scheduled and due (`ClaimFacts`), a transaction past its postcondition knows a ledger within its limits (`AfterFacts`) that nobody can change meanwhile (`SameLedger`), and the commit turns it into the one the property counts (`BucketIsLedger`) |
| `PlanInv` | `ActivePlansKeepCaps` | a DRAFT plan is its preview, with every item in its own slot, so that applying advice only hands the dates round |
| `SchemaInv` | `AdoptionsAreSafe` | two sessions hold no lock in common (`LocksExclude`); what a migration drops is empty under its lock (`UnderLock`), it takes the locks its path needs (`Taking`), and what it has migrated stands in its frozen form until it records the revision (`Migrated`) |

`AdoptionsAreSafe` is an action property. Its proof uses `SchemaClaims`, which says of
one session at a time what `SchemaInv` says of all and, as `SchemaFrom` shows, implies it.

`ServicesSpec` is one of these per `focus`; a lemma per service (`...Focus`) says that
a step of the composition is a step of the service in focus or leaves it alone.

`ServicesTypes_proofs`, `ServicesTypes`: `ServicesSpec => []ServicesTypeOK`. The
invariants above contain the types of most services. What they leave out is proved here:
that every attempt, and whatever refers to one, stays within the bound
(`ExecutionTried`), that a reconciliation's history is never longer than its limit
(`HistoryBounded`, by `HistoryKept`), that a certified claim names a run and an attempt
that exist (`CertifiedTypes`), and that whatever is proposed is proposed of a listing
(`ProposalsKept`).

### What greedy choices and sorts compute

The plan and the batch are computed by recursion: a product is selected, or an angle
taken, and the rest is computed from what that left. Their theorems hold for any
catalogue and any limits, so they need induction. The library's induction theorems are
about operators, which the provers cannot instantiate; the same argument goes through
for sets. `LeastNumber` (a set of naturals has a least member, from the well-foundedness
of `<`) gives `SetInduction`, and that gives `Iteration`: a step that leads from each
set of a family `I[0], I[1], ...` to the next can be iterated, and the result of the
`n`-th step is in `I[n]`. The recursive functions of `PortfolioPlanning` and
`ProposalBatch` are iterations of one named step each, so a proof says what the n-th
set is and that the step leads there:

* `SelectNext` and `ReserveNext` of the planner append at most one candidate, whichever
  relaxation they take (`SelectingTakesOne`), so the preview has every item in a slot of
  its own and within the month (`PreviewIsPlan`). Then every sort key of the optimizer is
  different, and its sorts are bijections (`SortedIsBijection`, for which `Ranking`
  counts predecessors); `Merge` takes the next item of either list (`MergeTakesOne`), so
  the recommendations are a permutation of the items (`RecommendationsPermute`) and the
  dates only go round (`DatesGoRound`): a plan is ACTIVE with as many pins on each day
  as its preview had. That its caps hold is what `apply_optimizer` has tested of the
  very items it writes.
* `SelectNext` of `ProposalBatch` looks at one segment after the other: `LookedNext`
  keeps the invariant that the segments passed so far are met as far as there is room,
  `LookedLast` that nothing is left out when there is room. `TakenNext` is the step for
  angles: those taken have different intents, and no intent is left when fewer than the
  limit were taken (`SomeAngleIsBest`: the order of the scores has a best element, by
  `LeastNumber`).
  `BatchSpread` puts them together; `BatchIsSpread` is a fact about the selection, not
  about history, so `BatchesAreSpread` follows in every state.

### Only model-checked

* Liveness (`ClaimsResolve`, `Failover`), which needs ENABLED and is out of the prover's
  reach. Every other property of a passing run is a theorem.
* With slow workers only `CallUnderLock`, `PermitSpentOnce` and the types are claimed of
  the routine: `RetryIsSafe` fails there (see the findings), and `DailyLimitRespected` and
  `Breaker` count on a worker being alone.

## Plan

Done: the core (`RoutinePublishing` with `PublicationLifecycle`), `RoutineScheduler`,
`BoundedBatch`, `ScheduledQuota`, the services, and the theorems above. Next:

1. `BufferReconciliation` shown to implement `ReconcileBuffer` of the core;
   `AutonomousExecution` to implement the step `Execute` of `BoundedBatch`.
2. The one-shot migration ledger with its reservation.

## Not modelled

Analytics, learning, SEO and copy compute numbers and texts from stored data: planning
and proposals see them as scores and facts that may change. Prompts, the validation of
generated text and the composition of images have no state. The HTTP and S3 clients and
OAuth are pure I/O: what a protocol sees of them - a refusal, a lost or a late answer -
is in the actions that call them. `state_transfer/` and the one-shot migration run once,
offline, between two databases; their ledger is in the plan. Readiness reports
(`scheduled_autonomous_readiness.py`, `ready_bounded_batch_receipt.py` and the like)
read what other modules have and write nothing. The certified canary rolls back
everything it does and the local fixture only prepares data; the scheduler's canary is
in `RoutineScheduler`. The frontend presents the routes.
