------------------------- MODULE AutonomousExecution -------------------------
(* One portfolio item on its way to a permitted publication: the execution run *)
(* (services/pinterest_autonomous_execution.py), the generation run below it   *)
(* (pinterest_autonomous_generation.py), the autonomous approval and permit    *)
(* (routine_autonomous_authorization.py), the destination run above it, and    *)
(* the operator who reconciles a failed chain so that it may be tried again    *)
(* (pinterest_autonomous_reconciliation.py, pinterest_autonomous_run_lineage). *)
(*                                                                             *)
(* Only the coordinator takes the item's advisory lock: the preparation of a   *)
(* bounded batch calls execute_autonomous_item without it, so two executors    *)
(* meet at unique constraints and at rows written by primary key.              *)
EXTENDS Naturals, Sequences

CONSTANTS
  Coordinators,  \* callers of ensure_autonomous_destination for the item
  Preparers,     \* callers of execute_autonomous_item
  MaxAttempts,   \* bound: attempts of each kind of run
  MaxCrashes     \* bound: executors that die

VARIABLES
  dests, execs, gens,  \* the item's runs of each kind, by attempt number
  recon,    \* attempts with a RECONCILED record
  item,     \* PinterestPortfolioPlanItem.status
  draft,    \* the generation attempt that owns the item's concept, 0 if there is none
  approved, \* is the draft approved by the autonomous actor?
  pubs,     \* PinPublication rows of the approval
  pub,      \* the status of the publication
  permit,   \* its RoutineDispatchPermit
  ex,       \* executor -> where it is and the attempts it works on
  crashes

runVars  == <<dests, execs, gens>>
pubVars  == <<pubs, pub, permit>>
execVars == <<dests, execs, gens, recon, item, draft, approved, pubs, pub, permit, ex, crashes>>

Executors == Coordinators \cup Preparers

(* STAGES; a run's stage is its index.                                         *)
STAGES == <<"STARTED", "SEO_READY", "GENERATED", "AUTHORIZED",
            "PUBLICATION_CREATED", "PERMITTED">>

NewExec == [status |-> "STARTED", stage |-> 1, gen |-> 0]
Idle    == [pc |-> "idle", d |-> 0, x |-> 0, g |-> 0]

Labels == {"idle", "read", "insert", "seo", "gen", "ginsert", "render", "stageG", "auth",
           "stageA", "recover", "snapshot", "stageP", "permit", "stageQ", "fail", "dfail",
           "finish"}

TypeOK ==
  /\ dests \in Seq({"STARTED", "SUCCEEDED", "FAILED"})
  /\ execs \in Seq([status : {"STARTED", "SUCCEEDED", "FAILED"}, stage : 1..6,
                    gen : 0..MaxAttempts])
  /\ gens \in Seq({"STARTED", "SUCCEEDED", "FAILED"})
  /\ recon \in SUBSET (1..MaxAttempts)
  /\ item \in {"PLANNED", "GENERATED", "SCHEDULED"}
  /\ draft \in 0..MaxAttempts
  /\ approved \in BOOLEAN
  /\ pubs \in Nat
  /\ pub \in {"NONE", "SCHEDULED", "LEFT"}
  /\ permit \in {"NONE", "ACTIVE", "SPENT"}
  /\ ex \in [Executors -> [pc : Labels, d : 0..MaxAttempts, x : 0..MaxAttempts,
                           g : 0..MaxAttempts]]
  /\ crashes \in 0..MaxCrashes

Init ==
  /\ dests = <<>> /\ execs = <<>> /\ gens = <<>>
  /\ recon = {}
  /\ item = "PLANNED"
  /\ draft = 0
  /\ approved = FALSE
  /\ pubs = 0 /\ pub = "NONE" /\ permit = "NONE"
  /\ ex = [e \in Executors |-> Idle]
  /\ crashes = 0

At(e, l)       == ex[e].pc = l
Goto(e, l)     == ex' = [ex EXCEPT ![e].pc = l]
Last(s)        == s[Len(s)]
LastIs(s, v)   == s # <<>> /\ Last(s) = v
ExecStatus     == [n \in DOMAIN execs |-> execs[n].status]

(* Mutant: a failed run is followed by a fresh attempt, reconciled or not.     *)
OpenUnreconciled(statuses) ==
  statuses = <<>> \/ LastIs(statuses, "STARTED") \/ LastIs(statuses, "FAILED")

(* latest_run and next_attempt_context: the attempt a caller works on, which   *)
(* is a fresh one only after a reconciled failure of the latest.               *)
Open(statuses) ==
  \/ statuses = <<>>
  \/ LastIs(statuses, "STARTED")
  \/ LastIs(statuses, "FAILED") /\ Len(statuses) \in recon

next_attempt(statuses) ==
  IF statuses = <<>> THEN 1
  ELSE IF LastIs(statuses, "FAILED") THEN Len(statuses) + 1 ELSE Len(statuses)

-----------------------------------------------------------------------------
(* The coordinator's destination run.  Its readiness holds the blockers of the *)
(* execution's; the advisory lock is held for as long as the call lasts.       *)
StartDestination(c) ==
  /\ At(c, "idle")
  /\ \A o \in Coordinators : At(o, "idle")
  /\ Open(dests)
  /\ Open(ExecStatus) \/ LastIs(ExecStatus, "SUCCEEDED")
  /\ LET n == next_attempt(dests)
     IN  /\ n <= MaxAttempts
         /\ dests' = IF n > Len(dests) THEN Append(dests, "STARTED") ELSE dests
         /\ ex' = [ex EXCEPT ![c].pc = "read", ![c].d = n]
  /\ UNCHANGED <<execs, gens, recon, item, draft, approved, pubVars, crashes>>

StartPreparation(b) ==
  /\ At(b, "idle")
  /\ Goto(b, "read")
  /\ UNCHANGED <<runVars, recon, item, draft, approved, pubVars, crashes>>

(* The call is over: the coordinator records the outcome, CAS on STARTED.      *)
Ended(e, ok) == ex' = [ex EXCEPT ![e] =
  IF e \in Coordinators THEN [@ EXCEPT !.pc = IF ok THEN "finish" ELSE "dfail"] ELSE Idle]

FinishDestination(c) ==
  /\ At(c, "finish") \/ At(c, "dfail")
  /\ dests' = [dests EXCEPT ![ex[c].d] =
                 IF @ # "STARTED" THEN @
                 ELSE IF At(c, "finish") THEN "SUCCEEDED" ELSE "FAILED"]
  /\ ex' = [ex EXCEPT ![c] = Idle]
  /\ UNCHANGED <<execs, gens, recon, item, draft, approved, pubVars, crashes>>

-----------------------------------------------------------------------------
(* execute_autonomous_item: readiness, then the run row.                       *)
ReadExecution(e) ==
  /\ At(e, "read")
  /\ \/ /\ LastIs(ExecStatus, "SUCCEEDED")
        /\ Ended(e, Last(execs).stage = 6)
     \/ /\ Open(ExecStatus)
        /\ next_attempt(ExecStatus) <= MaxAttempts
        /\ ex' = [ex EXCEPT ![e].pc = "insert", ![e].x = next_attempt(ExecStatus)]
     \/ /\ ~Open(ExecStatus) /\ LastIs(ExecStatus, "FAILED")
        /\ Ended(e, FALSE)
  /\ UNCHANGED <<runVars, recon, item, draft, approved, pubVars, crashes>>

Resume(stage) == <<"seo", "gen", "auth", "recover", "permit", "permit">>[stage]

(* The insert, or on the unique constraint the STARTED run of the other caller.*)
InsertExecution(e) ==
  /\ At(e, "insert")
  /\ LET x == ex[e].x
     IN  \/ /\ x > Len(execs)
            /\ execs' = Append(execs, NewExec)
            /\ Goto(e, "seo")
         \/ /\ x = Len(execs) /\ execs[x].status = "STARTED"
            /\ ex' = [ex EXCEPT ![e].pc = Resume(execs[x].stage), ![e].g = execs[x].gen]
            /\ UNCHANGED execs
         \/ /\ x < Len(execs) \/ (x = Len(execs) /\ execs[x].status # "STARTED")
            /\ Ended(e, FALSE)
            /\ UNCHANGED execs
  /\ UNCHANGED <<dests, gens, recon, item, draft, approved, pubVars, crashes>>

(* A stage is written by primary key, whatever the run has become meanwhile.   *)
Stage(e, l, run, next) ==
  /\ At(e, l)
  /\ execs' = [execs EXCEPT ![ex[e].x] = run]
  /\ Goto(e, next)
  /\ UNCHANGED <<dests, gens, recon, draft, approved, pubVars, crashes>>

Run(e) == execs[ex[e].x]

(* persist_seo_brief is idempotent on unchanged inputs.                        *)
StageSeo(e) == Stage(e, "seo", [Run(e) EXCEPT !.stage = 2], "gen") /\ UNCHANGED item
StageGenerated(e) ==
  /\ Stage(e, "stageG", [Run(e) EXCEPT !.stage = 3, !.gen = ex[e].g], "auth")
  /\ UNCHANGED item
StageAuthorized(e) ==
  Stage(e, "stageA", [Run(e) EXCEPT !.stage = 4], "recover") /\ UNCHANGED item
StagePublication(e) ==
  Stage(e, "stageP", [Run(e) EXCEPT !.stage = 5], "permit") /\ item' = "SCHEDULED"

StagePermitted(e) ==
  /\ At(e, "stageQ")
  /\ execs' = [execs EXCEPT ![ex[e].x].stage = 6, ![ex[e].x].status = "SUCCEEDED"]
  /\ Ended(e, TRUE)
  /\ UNCHANGED <<dests, gens, recon, item, draft, approved, pubVars, crashes>>

(* _fail_run: only a run that is still STARTED becomes FAILED.                 *)
_fail_run(e) ==
  /\ At(e, "fail")
  /\ execs' = [execs EXCEPT ![ex[e].x].status = IF @ = "STARTED" THEN "FAILED" ELSE @]
  /\ Ended(e, FALSE)
  /\ UNCHANGED <<dests, gens, recon, item, draft, approved, pubVars, crashes>>

-----------------------------------------------------------------------------
(* execute_autonomous_generation.                                              *)
ReadGeneration(e) ==
  /\ At(e, "gen")
  /\ \/ /\ LastIs(gens, "SUCCEEDED") /\ item = "GENERATED"
        /\ ex' = [ex EXCEPT ![e].pc = "stageG", ![e].g = Len(gens)]
     \/ /\ item # "SCHEDULED" /\ draft = 0
        /\ gens = <<>> \/ (LastIs(gens, "FAILED") /\ Len(gens) \in recon)
        /\ next_attempt(gens) <= MaxAttempts
        /\ ex' = [ex EXCEPT ![e].pc = "ginsert", ![e].g = next_attempt(gens)]
     \/ /\ \/ item = "SCHEDULED"
           \/ LastIs(gens, "STARTED")
           \/ LastIs(gens, "FAILED") /\ (Len(gens) \notin recon \/ draft # 0)
        /\ Goto(e, "fail")
  /\ UNCHANGED <<runVars, recon, item, draft, approved, pubVars, crashes>>

InsertGeneration(e) ==
  /\ At(e, "ginsert")
  /\ LET g == ex[e].g
     IN  \/ /\ g > Len(gens)
            /\ gens' = Append(gens, "STARTED")
            /\ Goto(e, "render")
         \/ /\ g = Len(gens) /\ gens[g] # "FAILED"
            /\ Goto(e, IF gens[g] = "STARTED" THEN "render" ELSE "stageG")
            /\ UNCHANGED gens
         \/ /\ g < Len(gens) \/ (g = Len(gens) /\ gens[g] = "FAILED")
            /\ Goto(e, "fail")
            /\ UNCHANGED gens
  /\ UNCHANGED <<dests, execs, recon, item, draft, approved, pubVars, crashes>>

(* Concept, draft and creative in one transaction with the run's success; the  *)
(* concept's unique fingerprint lets one of two renderers commit.              *)
Render(e) ==
  /\ At(e, "render")
  /\ draft = 0
  /\ draft' = ex[e].g
  /\ gens' = [gens EXCEPT ![ex[e].g] = "SUCCEEDED"]
  /\ item' = "GENERATED"
  /\ Goto(e, "stageG")
  /\ UNCHANGED <<dests, execs, recon, approved, pubVars, crashes>>

RenderFails(e) ==
  /\ At(e, "render")
  /\ gens' = [gens EXCEPT ![ex[e].g] = IF @ = "STARTED" THEN "FAILED" ELSE @]
  /\ Goto(e, "fail")
  /\ UNCHANGED <<dests, execs, recon, item, draft, approved, pubVars, crashes>>

-----------------------------------------------------------------------------
(* authorize_draft_autonomously: under the draft's row lock, once.             *)
Authorize(e) ==
  /\ At(e, "auth")
  /\ approved' = TRUE
  /\ Goto(e, "stageA")
  /\ UNCHANGED <<runVars, recon, item, draft, pubVars, crashes>>

(* autonomous_content_policy refuses: the run fails.                           *)
PolicyRefuses(e) ==
  /\ At(e, "auth")
  /\ Goto(e, "fail")
  /\ UNCHANGED <<runVars, recon, item, draft, approved, pubVars, crashes>>

(* _recover_publication: the row of an earlier executor, if it is still as it  *)
(* was scheduled; more than one is ambiguous.                                  *)
RecoverPublication(e) ==
  /\ At(e, "recover")
  /\ Goto(e, IF pubs = 0 THEN "snapshot"
             ELSE IF pubs = 1 /\ pub = "SCHEDULED" THEN "stageP" ELSE "fail")
  /\ UNCHANGED <<runVars, recon, item, draft, approved, pubVars, crashes>>

(* Mutant: the fingerprint of the snapshot is not unique.                      *)
SnapshotTwice(e) ==
  /\ At(e, "snapshot")
  /\ pubs' = pubs + 1 /\ pub' = "SCHEDULED"
  /\ Goto(e, "stageP")
  /\ UNCHANGED <<runVars, recon, item, draft, approved, permit, crashes>>

(* create_snapshot, in a session of its own; when it finds the publication     *)
(* already there the caller recovers that one.                                 *)
create_snapshot(e) ==
  /\ At(e, "snapshot")
  /\ \/ /\ pubs = 0
        /\ pubs' = 1 /\ pub' = "SCHEDULED"
        /\ Goto(e, "stageP")
     \/ /\ pubs = 0  \* the candidate preflight refuses
        /\ Goto(e, "fail")
        /\ UNCHANGED <<pubs, pub>>
     \/ /\ pubs # 0
        /\ Goto(e, "recover")
        /\ UNCHANGED <<pubs, pub>>
  /\ UNCHANGED <<runVars, recon, item, draft, approved, permit, crashes>>

(* auto_permit_publication, and the validation of the permit it returns.       *)
auto_permit_publication(e) ==
  /\ At(e, "permit")
  /\ \/ /\ pub = "SCHEDULED"
        /\ permit' = "ACTIVE"
        /\ Goto(e, "stageQ")
     \/ /\ pub # "SCHEDULED"
        /\ Goto(e, "fail")
        /\ UNCHANGED permit
  /\ UNCHANGED <<runVars, recon, item, draft, approved, pubs, pub, crashes>>

(* The routine worker claims the publication, or the operator cancels it.      *)
PublicationLeaves ==
  /\ pub = "SCHEDULED"
  /\ pub' = "LEFT"
  /\ permit' = IF permit = "ACTIVE" THEN "SPENT" ELSE permit
  /\ UNCHANGED <<runVars, recon, item, draft, approved, pubs, ex, crashes>>

-----------------------------------------------------------------------------
(* reconciliation_readiness: the latest runs of all three kinds failed at the  *)
(* same attempt and left nothing behind.                                       *)
SameFailedAttempt ==
  /\ LastIs(dests, "FAILED") /\ LastIs(ExecStatus, "FAILED") /\ LastIs(gens, "FAILED")
  /\ Len(dests) = Len(execs) /\ Len(execs) = Len(gens)

NothingLeftBehind ==
  /\ Last(execs).gen = 0 /\ Last(execs).stage < 3
  /\ draft # Len(gens)
  /\ item = "PLANNED"

reconcile_failed_run_chain ==
  /\ SameFailedAttempt /\ NothingLeftBehind
  /\ Len(gens) \notin recon
  /\ recon' = recon \cup {Len(gens)}
  /\ UNCHANGED <<runVars, item, draft, approved, pubVars, ex, crashes>>

(* An executor dies between two commits.                                       *)
ExecutorDies(e) ==
  /\ ~At(e, "idle")
  /\ crashes < MaxCrashes
  /\ crashes' = crashes + 1
  /\ ex' = [ex EXCEPT ![e] = Idle]
  /\ UNCHANGED <<runVars, recon, item, draft, approved, pubVars>>

Next ==
  \/ \E c \in Coordinators : StartDestination(c) \/ FinishDestination(c)
  \/ \E b \in Preparers : StartPreparation(b)
  \/ \E e \in Executors :
       \/ ReadExecution(e) \/ InsertExecution(e) \/ _fail_run(e)
       \/ StageSeo(e) \/ StageGenerated(e) \/ StageAuthorized(e)
       \/ StagePublication(e) \/ StagePermitted(e)
       \/ ReadGeneration(e) \/ InsertGeneration(e) \/ Render(e) \/ RenderFails(e)
       \/ Authorize(e) \/ PolicyRefuses(e) \/ RecoverPublication(e) \/ create_snapshot(e)
       \/ auto_permit_publication(e) \/ ExecutorDies(e)
  \/ PublicationLeaves
  \/ reconcile_failed_run_chain

Spec == Init /\ [][Next]_execVars

-----------------------------------------------------------------------------
(* However two executors, deaths and reconciled retries interleave, the item   *)
(* has at most one publication.                                                *)
OnePublication == pubs <= 1

(* No kind of run is attempted afresh until an operator has reconciled the     *)
(* failed chain of the attempt before, whoever reads the lineage and however   *)
(* late its insert comes.                                                      *)
RetryReconciled ==
  \A runs \in {dests, ExecStatus, gens} : \A n \in 1..(Len(runs) - 1) : n \in recon

-----------------------------------------------------------------------------
(* Why both hold. What a caller has read of a lineage, however long ago, is an *)
(* attempt whose predecessors are all reconciled: lineages and records of      *)
(* reconciliation only grow, so it is no less true when its insert comes.      *)
RunStatus == {"STARTED", "SUCCEEDED", "FAILED"}
ExecRuns  == [status : RunStatus, stage : 1..6, gen : Nat]
Seats     == [pc : Labels, d : Nat, x : Nat, g : Nat]

RunShapes ==
  /\ dests \in Seq(RunStatus) /\ execs \in Seq(ExecRuns) /\ gens \in Seq(RunStatus)
  /\ ex \in [Executors -> Seats]
  /\ pubs \in {0, 1}

ReconciledBefore(n) == \A k \in 1..(n - 1) : k \in recon

LineagesReconciled ==
  ReconciledBefore(Len(dests)) /\ ReconciledBefore(Len(execs)) /\ ReconciledBefore(Len(gens))

AttemptsRead ==
  \A e \in Executors :
    /\ At(e, "insert") => ex[e].x \in 1..(Len(execs) + 1) /\ ReconciledBefore(ex[e].x)
    /\ At(e, "ginsert") => ex[e].g \in 1..(Len(gens) + 1) /\ ReconciledBefore(ex[e].g)

ExecInv == RunShapes /\ LineagesReconciled /\ AttemptsRead
=============================================================================
