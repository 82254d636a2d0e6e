------------------------------- MODULE Services ------------------------------
(* The services around the routine: destinations, execution, dispatch by hand, *)
(* reconciliation, discovery, review, paid generation, readiness, planning,    *)
(* proposals, rendering, the schema, the catalogue, the certified live run and *)
(* the scheduled quotas.  They share no variable, so that interleaving them    *)
(* would multiply their states and show nothing more: a behaviour is one of a  *)
(* single service, the focus, whose variables are v1, v2, ... in the order its *)
(* module declares them.                                                       *)
EXTENDS ScheduledQuota, Sequences

CONSTANTS  \* as the services' modules describe them, in this order
  Items, MaxDeaths,
  Coordinators, Preparers, MaxAttempts, MaxCrashes,
  Pubs, Requests, MaxAuths, MaxActs, MaxLostRequests,
  Observers, HistoryLimit, MaxReceipts, MaxReadFaults,
  Posts, PageSize,
  Operators, Copies, Backgrounds,
  Jobs, Budget,
  MaxBusiness,
  PlanProducts, Boards, Vendor, Target, ReserveTarget, ProductCap, VendorLimit,
  BoardLimit, Share, Callers, MaxChanges,
  Listings, Profiles, Workers, ProductLimit, PerProduct,
  Drafts, Renderers, MaxMediaFaults,
  Sessions, MaxRows, MaxPushes,
  SyncJobs, Processes, Products, Batch, Contents, MaxHydrations, NoJob, NoBytes,
  MaxRuns

(* The values that mark a free lock and the operator's own session.            *)
ASSUME NamesAssumption == {"free", "operator"} \cap (Requests \cup Jobs) = {}
ASSUME BoundsAssumption ==
  /\ Budget \in Nat /\ MaxDeaths \in Nat
  /\ MaxMediaFaults \in Nat /\ MaxPushes \in Nat /\ MaxChanges \in Nat
(* The other bounds, and the receipts an attempt's metadata keeps.             *)
ASSUME AttemptsAssumption ==
  /\ MaxAttempts \in Nat /\ MaxCrashes \in Nat /\ MaxLostRequests \in Nat
  /\ MaxRuns \in Nat /\ HistoryLimit \in Nat
(* Identifiers that can be compared, and a month with days in it.              *)
ASSUME PlanningAssumption ==
  /\ PlanProducts \subseteq Nat /\ Boards \subseteq Nat /\ LastDay # 0
  /\ Target \in Nat /\ ReserveTarget \in Nat /\ Share \in Nat
(* The listings, numbered as the catalogue orders them.                        *)
ASSUME ProposalsAssumption ==
  /\ Listings \subseteq Nat /\ IsFiniteSet(Listings)
  /\ ProductLimit \in Nat /\ PerProduct \in Nat

VARIABLES
  focus,           \* the service this behaviour is one of
  v1, v2, v3, v4, v5, v6, v7, v8, v9, v10, v11, v12

Destination == INSTANCE AutonomousDestination
  WITH droute <- v1, dpc <- v2, attempt <- v3, board <- v4, created <- v5, deaths <- v6

Execution == INSTANCE AutonomousExecution
  WITH dests <- v1, execs <- v2, gens <- v3, recon <- v4, item <- v5, draft <- v6,
       approved <- v7, pubs <- v8, pub <- v9, permit <- v10, ex <- v11, crashes <- v12

Manual == INSTANCE ManualDispatch
  WITH MaxDeaths <- MaxLostRequests, mpub <- v1, mtry <- v2, auth <- v3, act <- v4,
       req <- v5, revoke <- v6, edit <- v7, posts <- v8, live <- v9, mdeaths <- v10

Reconciling == INSTANCE BufferReconciliation
  WITH rpub <- v1, rtry <- v2, receipts <- v3, local <- v4, bpost <- v5, obs <- v6,
       verdicts <- v7, rfaults <- v8

Discovery == INSTANCE UnknownDiscovery
  WITH upub <- v1, uroute <- v2, upost <- v3, scan <- v4, report <- v5

Review == INSTANCE ContentReview
  WITH cdraft <- v1, selection <- v2, revision <- v3, approvals <- v4,
       snapshots <- v5, desk <- v6

Paid == INSTANCE PaidGeneration
  WITH job <- v1, holder <- v2, ledger <- v3, called <- v4, lost <- v5

Readiness == INSTANCE StorageReadiness
  WITH admitted <- v1, outcome <- v2, post <- v3, expired <- v4, business <- v5,
       probe <- v6, object <- v7, launches <- v8

Planning == INSTANCE PortfolioPlanning
  WITH Products <- PlanProducts, pool <- v1, score <- v2, history <- v3, today <- v4,
       learned <- v5, plan <- v6, caller <- v7, changes <- v8

Proposing == INSTANCE ProposalBatch
  WITH Items <- Listings, facts <- v1, concepts <- v2, work <- v3, changes <- v4

Rendering == INSTANCE CreativeRendering
  WITH drafts <- v1, exact <- v2, creative <- v3, failrow <- v4, objects <- v5,
       lost <- v6, job <- v7, faults <- v8

Schema == INSTANCE SchemaAdoption
  WITH version <- v1, catalog <- v2, rows <- v3, paused <- v4, sess <- v5, pushes <- v6

Catalogue == INSTANCE CatalogSync
  WITH Jobs <- SyncJobs, job <- v1, work <- v2, catalog <- v3, ask <- v4,
       stored <- v5, hydration <- v6

Certified == INSTANCE CertifiedLive
  WITH control <- v1, lock <- v2, run <- v3, pub <- v4, permit <- v5, try <- v6,
       receipt <- v7, req <- v8, calls <- v9, pin <- v10

-----------------------------------------------------------------------------
slots == <<v1, v2, v3, v4, v5, v6, v7, v8, v9, v10, v11, v12>>
allVars == <<focus, slots, vars>>

Off == "off"

(* The service in focus starts as it does; what it has no use for stays off,   *)
(* and the quotas, unless they are in focus, stay as they start.               *)
OffFrom(k) ==
  /\ k <= 1 => v1 = Off
  /\ k <= 2 => v2 = Off
  /\ k <= 3 => v3 = Off
  /\ k <= 4 => v4 = Off
  /\ k <= 5 => v5 = Off
  /\ k <= 6 => v6 = Off
  /\ k <= 7 => v7 = Off
  /\ k <= 8 => v8 = Off
  /\ k <= 9 => v9 = Off
  /\ k <= 10 => v10 = Off
  /\ k <= 11 => v11 = Off
  /\ k <= 12 => v12 = Off

ServicesInit ==
  /\ Init
  /\ \/ focus = "quota" /\ OffFrom(1)
     \/ focus = "destination" /\ Destination!Init /\ OffFrom(7)
     \/ focus = "execution" /\ Execution!Init /\ OffFrom(13)
     \/ focus = "manual" /\ Manual!MDInit /\ OffFrom(11)
     \/ focus = "reconciliation" /\ Reconciling!BRInit /\ OffFrom(9)
     \/ focus = "discovery" /\ Discovery!UDInit /\ OffFrom(6)
     \/ focus = "review" /\ Review!CRInit /\ OffFrom(7)
     \/ focus = "paid" /\ Paid!PGInit /\ OffFrom(6)
     \/ focus = "readiness" /\ Readiness!SRInit /\ OffFrom(9)
     \/ focus = "planning" /\ Planning!Init /\ OffFrom(9)
     \/ focus = "proposals" /\ Proposing!Init /\ OffFrom(5)
     \/ focus = "rendering" /\ Rendering!Init /\ OffFrom(9)
     \/ focus = "schema" /\ Schema!Init /\ OffFrom(7)
     \/ focus = "catalogue" /\ Catalogue!Init /\ OffFrom(7)
     \/ focus = "certified" /\ Certified!CLInit /\ OffFrom(11)

(* A step of the one in focus.                                                 *)
Only(name, off) == focus = name /\ UNCHANGED <<focus, off>>

ServicesNext ==
  \/ Only("quota", slots) /\ Next
  \/ Only("destination", <<vars, v7, v8, v9, v10, v11, v12>>) /\ Destination!Next
  \/ Only("execution", vars) /\ Execution!Next
  \/ Only("manual", <<vars, v11, v12>>) /\ Manual!MDNext
  \/ Only("reconciliation", <<vars, v9, v10, v11, v12>>) /\ Reconciling!BRNext
  \/ Only("discovery", <<vars, v6, v7, v8, v9, v10, v11, v12>>) /\ Discovery!UDNext
  \/ Only("review", <<vars, v7, v8, v9, v10, v11, v12>>) /\ Review!CRNext
  \/ Only("paid", <<vars, v6, v7, v8, v9, v10, v11, v12>>) /\ Paid!PGNext
  \/ Only("readiness", <<vars, v9, v10, v11, v12>>) /\ Readiness!SRNext
  \/ Only("planning", <<vars, v9, v10, v11, v12>>) /\ Planning!Next
  \/ Only("proposals", <<vars, v5, v6, v7, v8, v9, v10, v11, v12>>) /\ Proposing!Next
  \/ Only("rendering", <<vars, v9, v10, v11, v12>>) /\ Rendering!Next
  \/ Only("schema", <<vars, v7, v8, v9, v10, v11, v12>>) /\ Schema!Next
  \/ Only("catalogue", <<vars, v7, v8, v9, v10, v11, v12>>) /\ Catalogue!Next
  \/ Only("certified", <<vars, v11, v12>>) /\ Certified!CLNext

ServicesSpec == ServicesInit /\ [][ServicesNext]_allVars

-----------------------------------------------------------------------------
BoardCreatedOnce    == focus = "destination" => Destination!BoardCreatedOnce
ExecutedOnOwnBoard  == focus = "destination" => Destination!ExecutedOnOwnBoard
OnePublication      == focus = "execution" => Execution!OnePublication
RetryReconciled     == focus = "execution" => Execution!RetryReconciled
AtMostOnePost       == focus = "manual" => Manual!AtMostOnePost
FailedMeansNoPin    == focus = "manual" => Manual!FailedMeansNoPin
ActivationSpent     == focus = "manual" => Manual!ActivationSpent
OneVerdict          == focus = "reconciliation" => Reconciling!OneVerdict
ScanSeesPost        == focus = "discovery" => Discovery!ScanSeesPost
ReviewUndecided     == focus = "review" => Review!ReviewUndecided
PathWithinBudget    == focus = "paid" => Paid!PathWithinBudget
ProbedOnce          == focus = "readiness" => Readiness!ProbedOnce
PassLeavesNothing   == focus = "readiness" => Readiness!PassLeavesNothing
ActivePlanKeepsCaps == focus = "planning" => Planning!ActivePlanKeepsCaps
BatchIsSpread       == focus = "proposals" => Proposing!BatchIsSpread
RenderedHasObject   == focus = "rendering" => Rendering!RenderedHasObject
SyncAccounted       == focus = "catalogue" => Catalogue!SyncAccounted
DigestOfItsImage    == focus = "catalogue" => Catalogue!DigestOfItsImage
CertifiedPostOnce   == focus = "certified" => Certified!CertifiedPostOnce
AdoptionIsSafe      == [][focus = "schema" => Schema!StepIsSafe]_allVars

ServicesTypeOK ==
  /\ TypeOK
  /\ focus = "destination" => Destination!TypeOK
  /\ focus = "execution" => Execution!TypeOK
  /\ focus = "manual" => Manual!ManualTypeOK
  /\ focus = "reconciliation" => Reconciling!ReconciliationTypeOK
  /\ focus = "discovery" => Discovery!DiscoveryTypeOK
  /\ focus = "review" => Review!ReviewTypeOK
  /\ focus = "paid" => Paid!PaidTypeOK
  /\ focus = "readiness" => Readiness!ReadinessTypeOK
  /\ focus = "planning" => Planning!PlanTypeOK
  /\ focus = "proposals" => Proposing!TypeOK
  /\ focus = "rendering" => Rendering!TypeOK
  /\ focus = "schema" => Schema!TypeOK
  /\ focus = "catalogue" => Catalogue!TypeOK
  /\ focus = "certified" => Certified!CertifiedTypeOK
=============================================================================
