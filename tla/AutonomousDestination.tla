------------------------ MODULE AutonomousDestination ------------------------
(* The destination coordinator of the autonomous Pinterest path                *)
(* (services/pinterest_autonomous_destination.py) and the board it may have to *)
(* create first (pinterest_board_provisioning.py, pinterest_board_strategy.py, *)
(* pinterest_boards.py).  Several portfolio items want the same board, so their*)
(* coordinators meet at one provisioning attempt: it is found by the           *)
(* fingerprint of the request.  What happens to an item once its board is      *)
(* ready is AutonomousExecution; here its answer is chosen.                     *)
EXTENDS Naturals

CONSTANTS
  Items,       \* portfolio items planned for one board key
  MaxDeaths    \* bound: coordinators that die, provider listings that omit the board

VARIABLES
  droute,  \* Item -> its PinterestAutonomousDestinationRun
  dpc,     \* Item -> where the coordinator that holds the item's advisory lock is
  attempt, \* the PinterestBoardProvisioningAttempt of the request
  board,   \* the PinterestBoard row and its eligibility
  created, \* boards the provider has made for the request
  deaths

destVars == <<droute, dpc, attempt, board, created, deaths>>

NoRun     == [status |-> "NONE", kind |-> "NONE", bound |-> FALSE, row |-> FALSE]
NoAttempt == [status |-> "NONE", boundary |-> FALSE]

TypeOK ==
  /\ droute \in [Items -> [status : {"NONE", "STARTED", "SUCCEEDED", "FAILED", "UNKNOWN"},
                           kind : {"NONE", "EXISTING", "PROVISION"},
                           bound : BOOLEAN, row : BOOLEAN]]
  /\ dpc \in [Items -> {"idle", "route", "attempt", "claim", "create", "sync",
                        "reconcile", "execute"}]
  /\ attempt \in [status : {"NONE", "STARTED", "SUCCEEDED", "FAILED", "UNKNOWN"},
                  boundary : BOOLEAN]
  /\ board \in {"ABSENT", "INELIGIBLE", "ROUTABLE"}
  /\ created \in Nat
  /\ deaths \in 0..MaxDeaths

Init ==
  /\ droute = [i \in Items |-> NoRun]
  /\ dpc = [i \in Items |-> "idle"]
  /\ attempt = NoAttempt
  /\ board = "ABSENT"
  /\ created = 0
  /\ deaths = 0

At(i, l)   == dpc[i] = l
Goto(i, l) == dpc' = [dpc EXCEPT ![i] = l]
Leave(i)   == Goto(i, "idle")
DestSame   == UNCHANGED droute
RestSame   == UNCHANGED <<attempt, board, created, deaths>>

-----------------------------------------------------------------------------
(* Every write of the run is a compare-and-set on STARTED, which the item's     *)
(* advisory lock keeps from losing.                                            *)
_advance_started(i, run, next) ==
  /\ droute[i].status = "STARTED"
  /\ droute' = [droute EXCEPT ![i] = run]
  /\ Goto(i, next)

_set_terminal(i, status) ==
  _advance_started(i, [droute[i] EXCEPT !.status = status], "idle")

(* board_strategy: an eligible board routes; a board the sync brought in and   *)
(* nobody made eligible blocks; no board asks for one to be provisioned.       *)
RoutesExisting == board = "ROUTABLE"
MayProvision   == board = "ABSENT"

(* Mutant: any routed board will do.                                           *)
StrategyUnbound(i) == TRUE

(* A run that planned to provision accepts a routed board only when it is the  *)
(* one its own attempt was confirmed to have created.                          *)
StrategyBound(i) ==
  \/ droute[i].kind = "EXISTING" /\ RoutesExisting
  \/ /\ droute[i].kind = "PROVISION"
     /\ RoutesExisting => droute[i].bound /\ attempt.status = "SUCCEEDED"

(* destination_readiness and the run row: a new one, or the STARTED one of a   *)
(* coordinator that died.  Nothing but the lock and the row is written.        *)
ensure_autonomous_destination(i) ==
  /\ At(i, "idle")
  /\ RoutesExisting \/ MayProvision
  /\ \/ /\ droute[i].status = "NONE"
        /\ droute' = [droute EXCEPT ![i] = [NoRun EXCEPT
             !.status = "STARTED",
             !.kind = IF RoutesExisting THEN "EXISTING" ELSE "PROVISION"]]
     \/ droute[i].status = "STARTED" /\ DestSame
  /\ Goto(i, "route")
  /\ RestSame

(* The strategy is read again, outside the transaction of readiness.           *)
Route(i) ==
  /\ At(i, "route")
  /\ \/ /\ StrategyBound(i) /\ RoutesExisting
        /\ _advance_started(i, [droute[i] EXCEPT !.row = TRUE], "execute")
     \/ /\ StrategyBound(i) /\ MayProvision
        /\ Goto(i, IF droute[i].bound THEN "claim" ELSE "attempt")
        /\ DestSame
     \/ /\ ~StrategyBound(i) \/ board = "INELIGIBLE"
        /\ Leave(i)
        /\ DestSame
  /\ RestSame

(* The attempt is inserted and committed, or found; then the run is bound.     *)
start_board_provisioning(i) ==
  /\ At(i, "attempt")
  /\ attempt.status = "NONE"
  /\ attempt' = [status |-> "STARTED", boundary |-> FALSE]
  /\ UNCHANGED <<droute, dpc, board, created, deaths>>

BindAttempt(i) ==
  /\ At(i, "attempt")
  /\ attempt.status # "NONE"
  /\ _advance_started(i, [droute[i] EXCEPT !.bound = TRUE], "claim")
  /\ RestSame

-----------------------------------------------------------------------------
(* execute_board_provisioning_attempt.                                         *)

(* Mutant: the boundary is written without looking whether it is there.        *)
ClaimAlways(i) ==
  /\ At(i, "claim")
  /\ attempt.status = "STARTED"
  /\ attempt' = [attempt EXCEPT !.boundary = TRUE]
  /\ Goto(i, "create")
  /\ UNCHANGED <<droute, board, created, deaths>>

(* The compare-and-set that persists the one-shot mutation boundary before the *)
(* request: whoever finds it set never calls.                                  *)
ClaimMutation(i) ==
  /\ At(i, "claim")
  /\ attempt.status = "STARTED"
  /\ ~attempt.boundary
  /\ attempt' = [attempt EXCEPT !.boundary = TRUE]
  /\ Goto(i, "create")
  /\ UNCHANGED <<droute, board, created, deaths>>

(* The token cannot be decrypted: FAILED before the boundary.                  *)
DecryptFails(i) ==
  /\ At(i, "claim")
  /\ attempt.status = "STARTED" /\ ~attempt.boundary
  /\ attempt' = [attempt EXCEPT !.status = "FAILED"]
  /\ UNCHANGED <<droute, dpc, board, created, deaths>>

(* What the coordinator does with an attempt that is not there to be executed. *)
AttemptSettled(i) ==
  /\ At(i, "claim")
  /\ \/ /\ \/ attempt.status = "STARTED" /\ attempt.boundary
           \/ attempt.status = "UNKNOWN"
        /\ _set_terminal(i, "UNKNOWN")
     \/ attempt.status = "FAILED" /\ _set_terminal(i, "FAILED")
     \/ attempt.status = "SUCCEEDED" /\ _advance_started(i, droute[i], "sync")
  /\ RestSame

(* POST /boards and the commit of what it answered: a 2xx with an id, a 4xx,   *)
(* or nothing that can be told from either, whatever the provider did.         *)
Answered(i, status) ==
  /\ attempt' = [attempt EXCEPT !.status = status]
  /\ Goto(i, "claim")

create_board(i) ==
  /\ At(i, "create")
  /\ \/ created' = created + 1 /\ Answered(i, "SUCCEEDED")
     \/ created' = created /\ Answered(i, "FAILED")
     \/ created' \in {created, created + 1} /\ Answered(i, "UNKNOWN")
  /\ UNCHANGED <<droute, board, deaths>>

-----------------------------------------------------------------------------
(* sync_boards replaces the local view by the provider's listing: a board not  *)
(* in it is deactivated, and a new one is not eligible.                        *)
Listed(found) ==
  board' = IF ~found THEN "ABSENT" ELSE IF board = "ABSENT" THEN "INELIGIBLE" ELSE board

sync_boards(i) ==
  /\ At(i, "sync")
  /\ \/ /\ created > 0
        /\ Listed(TRUE)
        /\ Goto(i, "reconcile")
        /\ UNCHANGED deaths
     \/ /\ deaths < MaxDeaths  \* the request fails: the run stays STARTED
        /\ deaths' = deaths + 1
        /\ Leave(i)
        /\ UNCHANGED board
  /\ UNCHANGED <<droute, attempt, created>>

(* The confirmed board gets the routing label and becomes eligible, and the    *)
(* run its row; a board the listing lost again leaves the run pending.         *)
reconcile_provisioned_board(i) ==
  /\ At(i, "reconcile")
  /\ attempt.status = "SUCCEEDED"
  /\ \/ /\ board # "ABSENT"
        /\ board' = "ROUTABLE"
        /\ _advance_started(i, [droute[i] EXCEPT !.row = TRUE], "execute")
     \/ /\ board = "ABSENT"
        /\ Leave(i)
        /\ UNCHANGED <<droute, board>>
  /\ UNCHANGED <<attempt, created, deaths>>

(* The strategy is read once more and execute_autonomous_item is called: it    *)
(* permits the item, or fails it.                                              *)
Execute(i) ==
  /\ At(i, "execute")
  /\ \/ /\ StrategyBound(i) /\ RoutesExisting /\ droute[i].row
        /\ \/ _advance_started(i, [droute[i] EXCEPT !.status = "SUCCEEDED"], "idle")
           \/ _set_terminal(i, "FAILED")
     \/ /\ ~StrategyBound(i) \/ ~RoutesExisting
        /\ Leave(i)
        /\ DestSame
  /\ RestSame

(* The operator syncs boards (the listing may come late), or marks one.        *)
OperatorSync ==
  /\ \/ created > 0 /\ Listed(TRUE) /\ UNCHANGED deaths
     \/ /\ board # "ABSENT" /\ deaths < MaxDeaths
        /\ Listed(FALSE) /\ deaths' = deaths + 1
  /\ UNCHANGED <<droute, dpc, attempt, created>>

pinterest_board_config ==
  /\ board # "ABSENT"
  /\ board' \in {"INELIGIBLE", "ROUTABLE"}
  /\ UNCHANGED <<droute, dpc, attempt, created, deaths>>

(* The process dies; PostgreSQL drops the advisory lock with the connection.   *)
CoordinatorDies(i) ==
  /\ ~At(i, "idle")
  /\ deaths < MaxDeaths
  /\ deaths' = deaths + 1
  /\ created' \in IF At(i, "create") THEN {created, created + 1} ELSE {created}
  /\ Leave(i)
  /\ UNCHANGED <<droute, attempt, board>>

Next ==
  \/ \E i \in Items :
       \/ ensure_autonomous_destination(i) \/ Route(i)
       \/ start_board_provisioning(i) \/ BindAttempt(i)
       \/ ClaimMutation(i) \/ DecryptFails(i) \/ AttemptSettled(i) \/ create_board(i)
       \/ sync_boards(i) \/ reconcile_provisioned_board(i) \/ Execute(i)
       \/ CoordinatorDies(i)
  \/ OperatorSync
  \/ pinterest_board_config

Spec == Init /\ [][Next]_destVars

-----------------------------------------------------------------------------
(* The comment at the boundary promises that a request is never replayed: over *)
(* every item that wants the board, every death and every lost answer, the     *)
(* provider is asked to create it at most once.                                *)
BoardCreatedOnce == created <= 1

(* An item that set out to have its board created is only ever executed on the *)
(* board its own attempt was confirmed to have created, never on one that      *)
(* another coordinator or an operator made routable in the meantime.           *)
ExecutedOnOwnBoard ==
  \A i \in Items :
    droute[i].status = "SUCCEEDED" /\ droute[i].kind = "PROVISION" =>
      droute[i].bound /\ attempt.status = "SUCCEEDED"

-----------------------------------------------------------------------------
(* The inductive invariant of the two: the boundary of an attempt is passed by *)
(* one coordinator, and what it finds is final.                                *)
CreatesAlone == \A i, j \in Items : At(i, "create") /\ At(j, "create") => i = j

CreatesOnce == \A i \in Items : At(i, "create") =>
  attempt.status = "STARTED" /\ attempt.boundary /\ created = 0

Unasked == attempt.status = "NONE" \/ ~attempt.boundary => ~attempt.boundary /\ created = 0

DestinationInv ==
  /\ TypeOK /\ CreatesAlone /\ CreatesOnce /\ Unasked
  /\ BoardCreatedOnce /\ ExecutedOnOwnBoard
=============================================================================
