--------------------------- MODULE ScheduledQuota ----------------------------
(* Admission of scheduled publications under quotas                            *)
(* (services/routine_scheduled_admission.py, routine_scheduled_commitments.py, *)
(* routine_scheduled_quotas.py): a claim must find room in five horizons at    *)
(* once, and room is judged from the reservations of the month together with   *)
(* what its publications are committed to.                                     *)
(*                                                                             *)
(* An admission is one transaction of several statements.  It holds the        *)
(* control row, so admissions are serial, but READ COMMITTED lets every other  *)
(* writer commit between two of its statements.  One month is modelled: every  *)
(* publication has a plan item of it.                                          *)
EXTENDS Naturals, FiniteSets

CONSTANTS
  Publications,
  Admitters,  \* workers, and the settings each runs with
  None,
  LastDay,    \* days of the month are 1..LastDay, and one more is the next month
  Planned,    \* planned_date of the plan item, by publication
  Lineage,    \* its product, vendor and board, by publication and horizon
  Limits      \* scheduled_quota_limits, by admitter and horizon

Days     == 1..LastDay
AnyDay   == 0..(LastDay + 1)  \* 0: scheduled_for is None
Shared   == {"product", "vendor", "board"}
Horizons == {"daily", "monthly"} \cup Shared

ASSUME AdmittersAssumption == None \notin Admitters
ASSUME PublicationsAssumption == IsFiniteSet(Publications)
ASSUME CalendarAssumption == LastDay \in Nat /\ Planned \in [Publications -> Days]
ASSUME LimitsAssumption == Limits \in [Admitters -> [Horizons -> Nat \ {0}]]

VARIABLES
  status,    \* PinPublication.status, "none" before there is one
  when,      \* its scheduled_for
  drifted,   \* publications whose lineage no longer agrees with their plan item
  reserved,  \* publications with a RoutineScheduledQuotaReservation
  resDay,    \* scheduled_for of that reservation
  today,
  lock,      \* the admission that holds the control row
  tx         \* each admission in flight: where it is, and what it has read

rows == <<status, when, drifted>>
vars == <<rows, reserved, resDay, today, lock, tx>>

Statuses == {"none", "SCHEDULED", "PUBLISHING", "PUBLISHED", "PUBLISH_FAILED",
             "PUBLISH_UNKNOWN", "CANCELLED"}
COUNTED_STATUSES == {"SCHEDULED", "PUBLISHING", "PUBLISHED"}
Steps == {"idle", "locked", "read", "before", "claimed", "after"}

Transactions == [at : Steps, pub : Publications \cup {None}, day : AnyDay, used : [Horizons -> Nat]]
Idle == [at |-> "idle", pub |-> None, day |-> 0, used |-> [h \in Horizons |-> 0]]

TypeOK ==
  /\ status \in [Publications -> Statuses]
  /\ when \in [Publications -> AnyDay]
  /\ drifted \in SUBSET Publications
  /\ reserved \in SUBSET Publications
  /\ resDay \in [Publications -> AnyDay]
  /\ today \in 0..LastDay
  /\ lock \in Admitters \cup {None}
  /\ tx \in [Admitters -> Transactions]

Init ==
  /\ status = [p \in Publications |-> "none"]
  /\ when = [p \in Publications |-> 0]
  /\ drifted = {}
  /\ reserved = {}
  /\ resDay = [p \in Publications |-> 0]
  /\ today = 0
  /\ lock = None
  /\ tx = [a \in Admitters |-> Idle]

-----------------------------------------------------------------------------
(* The world as a transaction sees it: what is committed, and from its claim   *)
(* on its own publication as PUBLISHING and reserved.                          *)

Claimed(a) == tx[a].at \in {"claimed", "after"}
Status(a, p) == IF Claimed(a) /\ tx[a].pub = p THEN "PUBLISHING" ELSE status[p]
Reserved(a) == reserved \cup (IF Claimed(a) THEN {tx[a].pub} ELSE {})
ReservedDay(a, p) ==
  IF Claimed(a) /\ tx[a].pub = p /\ p \notin reserved THEN tx[a].day ELSE resDay[p]

(* Does q, for its day, draw on the quota that p asks of in horizon h?          *)
Draws(a, h, p, q, day) ==
  CASE h = "monthly" -> TRUE
    [] h = "daily"   -> day = tx[a].day
    [] OTHER         -> Lineage[q][h] = Lineage[p][h]

(* Mutant: every quota counts the reservations of one day.                     *)
LedgerCountToday(a, h, p) ==
  Cardinality({q \in Reserved(a) :
    ReservedDay(a, q) = tx[a].day /\ Draws(a, h, p, q, ReservedDay(a, q))})

(* _quota_usage.                                                               *)
LedgerCount(a, h, p) ==
  Cardinality({q \in Reserved(a) : Draws(a, h, p, q, ReservedDay(a, q))})

(* A cancelled publication that never reserved is left out of the month.       *)
Commitments(a) ==
  {q \in Publications : status[q] # "none" /\ ~(Status(a, q) = "CANCELLED" /\ q \notin Reserved(a))}

(* The status autonomous execution gave the plan item when it scheduled its    *)
(* publication.  Nothing sets it later.                                        *)
ItemStatus == "SCHEDULED"

(* _canonical_identity: a commitment that cannot be counted blocks the month.  *)
Canonical(a, q) ==
  /\ when[q] \in Days
  /\ Status(a, q) \in COUNTED_STATUSES
  /\ q \notin drifted
  /\ Planned[q] = when[q]
  /\ Status(a, q) = "PUBLISHED" <=> ItemStatus = "PUBLISHED"

Consistent(a) ==
  \A q \in Commitments(a) :
    Canonical(a, q) /\ (q \in Reserved(a) => ReservedDay(a, q) = when[q])

(* Reservations, and commitments without one, on top.                          *)
Used(a, h, p) ==
  LedgerCount(a, h, p) +
  Cardinality({q \in Commitments(a) \ Reserved(a) : Draws(a, h, p, q, when[q])})

(* assess_scheduled_quota_with_commitments does not refuse p, which is itself  *)
(* one of the commitments.                                                     *)
Assessable(a, p) ==
  /\ Consistent(a)
  /\ p \in Reserved(a) => ReservedDay(a, p) = tx[a].day
  /\ p \in Commitments(a) /\ when[p] = tx[a].day
  /\ \A h \in Horizons : Used(a, h, p) <= Limits[a][h]

-----------------------------------------------------------------------------
(* admit_scheduled_publication, statement by statement.                        *)

Goto(a, l) == tx' = [tx EXCEPT ![a].at = l]

(* Whatever refuses, the caller rolls the transaction back; so does a DRY_RUN  *)
(* once it has seen that it would admit, and PostgreSQL for a lost connection. *)
Rollback(a) ==
  /\ tx[a].at # "idle"
  /\ tx' = [tx EXCEPT ![a] = Idle]
  /\ lock' = None
  /\ UNCHANGED <<rows, reserved, resDay, today>>

(* A worker that has found p due and its permit valid takes the control row.   *)
Lock(a, p) ==
  /\ tx[a].at = "idle" /\ lock = None
  /\ status[p] = "SCHEDULED" /\ when[p] \in 1..today
  /\ lock' = a
  /\ tx' = [tx EXCEPT ![a].at = "locked", ![a].pub = p]
  /\ UNCHANGED <<rows, reserved, resDay, today>>

(* It is looked at again: scheduled and due still, and for which day.          *)
ReadRow(a) ==
  LET p == tx[a].pub IN
  /\ tx[a].at = "locked"
  /\ status[p] = "SCHEDULED" /\ when[p] \in 1..today
  /\ tx' = [tx EXCEPT ![a].at = "read", ![a].day = when[p]]
  /\ UNCHANGED <<rows, reserved, resDay, today, lock>>

AssessBefore(a) ==
  LET p == tx[a].pub IN
  /\ tx[a].at = "read"
  /\ Assessable(a, p)
  /\ tx' = [tx EXCEPT ![a].at = "before", ![a].used = [h \in Horizons |-> Used(a, h, p)]]
  /\ UNCHANGED <<rows, reserved, resDay, today, lock>>

(* reserve_scheduled_quota, which finds the reservation of an earlier attempt  *)
(* or adds one, and the compare-and-set.  Both are visible to a alone until it *)
(* commits, and lock the publication's row.                                    *)
ReserveAndClaim(a) ==
  LET p == tx[a].pub IN
  /\ tx[a].at = "before"
  /\ IF p \in reserved
     THEN resDay[p] = tx[a].day /\ \A h \in Horizons : LedgerCount(a, h, p) <= Limits[a][h]
     ELSE \A h \in Horizons : LedgerCount(a, h, p) < Limits[a][h]
  /\ status[p] = "SCHEDULED" /\ when[p] \in 1..today
  /\ Goto(a, "claimed")
  /\ UNCHANGED <<rows, reserved, resDay, today, lock>>

(* Mutant: the postcondition is not looked at.                                 *)
AssessAfterBlind(a) ==
  /\ tx[a].at = "claimed"
  /\ Goto(a, "after")
  /\ UNCHANGED <<rows, reserved, resDay, today, lock>>

(* The claim must not have changed what is used, nor anybody else meanwhile.   *)
AssessAfter(a) ==
  LET p == tx[a].pub IN
  /\ tx[a].at = "claimed"
  /\ Assessable(a, p)
  /\ \A h \in Horizons : Used(a, h, p) = tx[a].used[h]
  /\ Goto(a, "after")
  /\ UNCHANGED <<rows, reserved, resDay, today, lock>>

(* claim_for_routine consumes the permit, adds the attempt and commits.        *)
Commit(a) ==
  LET p == tx[a].pub IN
  /\ tx[a].at = "after"
  /\ status' = [status EXCEPT ![p] = "PUBLISHING"]
  /\ reserved' = reserved \cup {p}
  /\ resDay' = [resDay EXCEPT ![p] = ReservedDay(a, p)]
  /\ lock' = None
  /\ tx' = [tx EXCEPT ![a] = Idle]
  /\ UNCHANGED <<when, drifted, today>>

-----------------------------------------------------------------------------
(* Everyone who writes publications without the control row.                   *)

others == <<reserved, resDay, lock, tx>>
RowFree(p) == \A a \in Admitters : ~(Claimed(a) /\ tx[a].pub = p)

(* Autonomous execution creates the publication for its planned day.           *)
Execute(p) ==
  /\ status[p] = "none"
  /\ status' = [status EXCEPT ![p] = "SCHEDULED"]
  /\ when' = [when EXCEPT ![p] = Planned[p]]
  /\ UNCHANGED <<drifted, today, others>>

(* The schedule and cancel routes.                                             *)
schedule(p) ==
  /\ status[p] \in {"SCHEDULED", "PUBLISH_FAILED"} /\ RowFree(p)
  /\ status' = [status EXCEPT ![p] = "SCHEDULED"]
  /\ \E d \in AnyDay \ {0} : when' = [when EXCEPT ![p] = d]
  /\ UNCHANGED <<drifted, today, others>>

cancel(p) ==
  /\ status[p] \in {"SCHEDULED", "PUBLISH_FAILED"} /\ RowFree(p)
  /\ status' = [status EXCEPT ![p] = "CANCELLED"]
  /\ when' = [when EXCEPT ![p] = 0]
  /\ UNCHANGED <<drifted, today, others>>

(* Dispatch and recovery: PublicationLifecycle tells when.                     *)
Outcome(p) ==
  /\ status[p] = "PUBLISHING"
  /\ \E o \in {"PUBLISH_FAILED", "PUBLISH_UNKNOWN"} : status' = [status EXCEPT ![p] = o]
  /\ UNCHANGED <<when, drifted, today, others>>

(* What Buffer answers, once it is terminal.                                   *)
reconcile_buffer(p) ==
  /\ status[p] = "PUBLISH_UNKNOWN"
  /\ \E o \in {"PUBLISHED", "PUBLISH_FAILED"} : status' = [status EXCEPT ![p] = o]
  /\ UNCHANGED <<when, drifted, today, others>>

(* An operator confirms the pin, or gives up, which takes the date as well.    *)
reconcile(p) ==
  /\ status[p] = "PUBLISH_UNKNOWN"
  /\ \/ /\ status' = [status EXCEPT ![p] = "PUBLISHED"]
        /\ UNCHANGED when
     \/ /\ status' = [status EXCEPT ![p] = "CANCELLED"]
        /\ when' = [when EXCEPT ![p] = 0]
  /\ UNCHANGED <<drifted, today, others>>

(* A board is deactivated, a concept re-routed, an item edited, or put right.  *)
Drift(p) ==
  /\ status[p] # "none"
  /\ drifted' \in {drifted \cup {p}, drifted \ {p}}
  /\ UNCHANGED <<status, when, today, others>>

NextDay ==
  /\ today < LastDay
  /\ today' = today + 1
  /\ UNCHANGED <<rows, others>>

Next ==
  \/ \E a \in Admitters :
       \/ \E p \in Publications : Lock(a, p)
       \/ ReadRow(a) \/ AssessBefore(a) \/ ReserveAndClaim(a) \/ AssessAfter(a)
       \/ Commit(a) \/ Rollback(a)
  \/ \E p \in Publications :
       \/ Execute(p) \/ schedule(p) \/ cancel(p) \/ Outcome(p) \/ reconcile_buffer(p)
       \/ reconcile(p) \/ Drift(p)
  \/ NextDay

Spec == Init /\ [][Next]_vars

-----------------------------------------------------------------------------
(* Properties.                                                                 *)

(* The reservations that draw on the same quota as the one of p.               *)
Bucket(h, p) ==
  {q \in reserved :
    CASE h = "monthly" -> TRUE
      [] h = "daily"   -> resDay[q] = resDay[p]
      [] OTHER         -> Lineage[q][h] = Lineage[p][h]}

(* Every committed claim leaves all five horizons within the limits its        *)
(* admission worked with, a retry of an earlier reservation included, whatever *)
(* others committed between its statements.                                    *)
ClaimWithinLimits ==
  [][\A p \in Publications : status[p] # "PUBLISHING" /\ status'[p] = "PUBLISHING" =>
       \E a \in Admitters : \A h \in Horizons :
         lock = a /\ Cardinality(Bucket(h, p)') <= Limits[a][h]]_vars

(* It also holds a reservation of the very day it is then scheduled for, even  *)
(* if a request moved the publication between two statements of the admission. *)
ClaimReserved ==
  [][\A p \in Publications : status[p] # "PUBLISHING" /\ status'[p] = "PUBLISHING" =>
       p \in reserved' /\ resDay'[p] = when'[p] /\ when'[p] \in 1..today]_vars

(* A month that goes as planned: nobody drifted or was moved or cancelled,     *)
(* nothing failed or is unknown, and reservations are for the planned days.    *)
AsPlanned ==
  \A p \in Publications :
    /\ status[p] # "none" => status[p] \in COUNTED_STATUSES /\ when[p] = Planned[p]
    /\ p \notin drifted
    /\ p \in reserved => resDay[p] = Planned[p]

(* Such a month has room for what is due, as long as everything it is          *)
(* committed to is within the limits: earlier publications of the month that   *)
(* went out do not stop the later ones (routine_bounded_batch.py, the comment  *)
(* on a reconciled tick that waits for the other frozen schedule times).       *)
RoomAdmits ==
  \A a \in Admitters :
    LET p == tx[a].pub IN
    tx[a].at = "read" /\ status[p] = "SCHEDULED" /\ when[p] = tx[a].day /\ AsPlanned
    /\ (\A h \in Horizons : Used(a, h, p) <= Limits[a][h])
    => Assessable(a, p)
=============================================================================
