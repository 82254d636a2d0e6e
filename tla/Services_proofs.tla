-------------------------- MODULE Services_proofs ---------------------------
(* What the services that prepare and account for publications promise, for    *)
(* every value of the constants.  The inductive invariant of a service stands  *)
(* in its own module; here, service by service, it holds at the start, its     *)
(* steps keep it, the other services do not touch it, and the properties       *)
(* follow from it.                                                             *)
EXTENDS Services, SequenceTheorems, TLAPS

-----------------------------------------------------------------------------
(* AutonomousDestination.                                                      *)

(* In Destination: droute is v1, dpc v2, attempt v3, board v4, created v5.     *)
LEMMA DestinationStart ==
  ASSUME Destination!Init
  PROVE  Destination!DestinationInv
BY BoundsAssumption DEF Destination!Init, Destination!DestinationInv, Destination!TypeOK, Destination!NoRun,
   Destination!NoAttempt, Destination!CreatesAlone, Destination!CreatesOnce, Destination!Unasked,
   Destination!BoardCreatedOnce, Destination!ExecutedOnOwnBoard, Destination!At

DestinationRuns == [status : {"NONE", "STARTED", "SUCCEEDED", "FAILED", "UNKNOWN"},
                    kind : {"NONE", "EXISTING", "PROVISION"}, bound : BOOLEAN, row : BOOLEAN]

(* A step of a coordinator that does not touch the attempt or ask the provider *)
(* is harmless if it leaves a run finished only as the property wants it.      *)
LEMMA DestinationQuiet ==
  ASSUME Destination!DestinationInv, NEW i \in Items, NEW p \in {"idle", "route", "attempt",
           "claim", "sync", "reconcile", "execute"}, v2[i] # "create",
         Destination!Goto(i, p), UNCHANGED <<v3, v5>>,
         v4' \in {"ABSENT", "INELIGIBLE", "ROUTABLE"}, v6' \in 0..MaxDeaths,
         NEW run \in DestinationRuns, v1' = [v1 EXCEPT ![i] = run],
         run.status = "SUCCEEDED" /\ run.kind = "PROVISION" => run.bound /\ v3.status = "SUCCEEDED"
  PROVE  Destination!DestinationInv'
<1> USE DEF Destination!DestinationInv
<1>1. Destination!TypeOK'
  BY DEF Destination!TypeOK, Destination!Goto, DestinationRuns
<1>2. Destination!CreatesAlone' /\ Destination!CreatesOnce'
  BY DEF Destination!TypeOK, Destination!CreatesAlone, Destination!CreatesOnce, Destination!At,
         Destination!Goto
<1>3. Destination!Unasked' /\ Destination!BoardCreatedOnce'
  BY DEF Destination!Unasked, Destination!BoardCreatedOnce
<1>4. Destination!ExecutedOnOwnBoard'
  BY DEF Destination!ExecutedOnOwnBoard, Destination!TypeOK
<1> QED BY <1>1, <1>2, <1>3, <1>4

LEMMA DestinationQuietSteps ==
  ASSUME Destination!DestinationInv, NEW i \in Items,
         \/ Destination!ensure_autonomous_destination(i) \/ Destination!Route(i)
         \/ Destination!BindAttempt(i) \/ Destination!AttemptSettled(i)
         \/ Destination!sync_boards(i) \/ Destination!reconcile_provisioned_board(i)
         \/ Destination!Execute(i)
  PROVE  Destination!DestinationInv'
<1> DEFINE Calm == {"idle", "route", "attempt", "claim", "sync", "reconcile", "execute"}
           Sets(run) == v1' = [v1 EXCEPT ![i] = run]
<1> USE DEF Destination!At, Destination!Goto, Destination!Leave, Destination!DestSame,
        Destination!RestSame, Destination!_advance_started, Destination!_set_terminal
<1>0. v1[i] \in DestinationRuns /\ v1 = [v1 EXCEPT ![i] = v1[i]]
      /\ v4 \in {"ABSENT", "INELIGIBLE", "ROUTABLE"} /\ v6 \in 0..MaxDeaths
      /\ v2[i] \in Calm \cup {"create"}
  BY DEF Destination!DestinationInv, Destination!TypeOK, DestinationRuns
<1>1. v1[i].status = "SUCCEEDED" /\ v1[i].kind = "PROVISION" => v1[i].bound /\ v3.status = "SUCCEEDED"
  BY DEF Destination!DestinationInv, Destination!ExecutedOnOwnBoard
<1>rows. /\ [v1[i] EXCEPT !.row = TRUE] \in DestinationRuns
         /\ [v1[i] EXCEPT !.row = TRUE].status = v1[i].status
         /\ [v1[i] EXCEPT !.bound = TRUE] \in DestinationRuns
         /\ [v1[i] EXCEPT !.bound = TRUE].status = v1[i].status
  BY <1>0 DEF DestinationRuns
<1>ends. \A s \in {"SUCCEEDED", "FAILED", "UNKNOWN"} :
           /\ [v1[i] EXCEPT !.status = s] \in DestinationRuns
           /\ [v1[i] EXCEPT !.status = s].status = s
           /\ [v1[i] EXCEPT !.status = s].kind = v1[i].kind
           /\ [v1[i] EXCEPT !.status = s].bound = v1[i].bound
  BY <1>0 DEF DestinationRuns
<1>2. CASE Destination!ensure_autonomous_destination(i)
  <2>1. \E run \in DestinationRuns : Sets(run) /\ run.status # "SUCCEEDED"
    <3>1. CASE v1[i].status = "STARTED" /\ UNCHANGED v1
      BY <1>0, <3>1
    <3>2. ASSUME NEW kind \in {"EXISTING", "PROVISION"},
                 Sets([Destination!NoRun EXCEPT !.status = "STARTED", !.kind = kind])
          PROVE  <2>1
      <4>1. Destination!NoRun \in DestinationRuns
        BY DEF Destination!NoRun, DestinationRuns
      <4>2. /\ [Destination!NoRun EXCEPT !.status = "STARTED", !.kind = kind] \in DestinationRuns
            /\ [Destination!NoRun EXCEPT !.status = "STARTED", !.kind = kind].status = "STARTED"
        BY <4>1 DEF DestinationRuns
      <4> QED BY <3>2, <4>2
    <3> QED BY <1>2, <3>1, <3>2 DEF Destination!ensure_autonomous_destination
  <2> QED BY <1>0, <1>2, <2>1, DestinationQuiet DEF Destination!ensure_autonomous_destination
<1>3. CASE Destination!Route(i)
  <2>1. \E run \in DestinationRuns : Sets(run) /\ (run.status # "SUCCEEDED" \/ run = v1[i])
    BY <1>0, <1>rows, <1>3 DEF Destination!Route
  <2>2. \E p \in {"idle", "claim", "attempt", "execute"} : Destination!Goto(i, p)
    BY <1>3 DEF Destination!Route
  <2>3. v2[i] # "create" /\ UNCHANGED <<v3, v4, v5, v6>> BY <1>3 DEF Destination!Route
  <2>4. PICK run \in DestinationRuns : Sets(run) /\ (run.status # "SUCCEEDED" \/ run = v1[i])
    BY <2>1
  <2> QED BY <1>0, <1>1, <2>2, <2>3, <2>4, DestinationQuiet
<1>4. CASE Destination!BindAttempt(i)
  <2>1. \E run \in DestinationRuns : Sets(run) /\ run.status # "SUCCEEDED"
    BY <1>rows, <1>4 DEF Destination!BindAttempt
  <2> QED BY <1>0, <1>4, <2>1, DestinationQuiet DEF Destination!BindAttempt
<1>5. CASE Destination!AttemptSettled(i)
  <2>1. \E run \in DestinationRuns : Sets(run) /\ run.status # "SUCCEEDED"
    BY <1>0, <1>ends, <1>5 DEF Destination!AttemptSettled
  <2>2. \E p \in {"idle", "sync"} : Destination!Goto(i, p)
    BY <1>5 DEF Destination!AttemptSettled
  <2>3. v2[i] # "create" /\ UNCHANGED <<v3, v4, v5, v6>> BY <1>5 DEF Destination!AttemptSettled
  <2> QED BY <1>0, <2>1, <2>2, <2>3, DestinationQuiet
<1>6. CASE Destination!sync_boards(i)
  <2>1. \E p \in {"idle", "reconcile"} : Destination!Goto(i, p)
    BY <1>6 DEF Destination!sync_boards
  <2>2. v2[i] # "create" /\ UNCHANGED <<v1, v3, v5>> BY <1>6 DEF Destination!sync_boards
  <2>3. v4' \in {"ABSENT", "INELIGIBLE", "ROUTABLE"} /\ v6' \in 0..MaxDeaths
    BY <1>0, <1>6, BoundsAssumption DEF Destination!sync_boards, Destination!Listed
  <2> QED BY <1>0, <1>1, <2>1, <2>2, <2>3, DestinationQuiet
<1>7. CASE Destination!reconcile_provisioned_board(i)
  <2>1. \E run \in DestinationRuns : Sets(run) /\ (run.status # "SUCCEEDED" \/ run = v1[i])
    BY <1>0, <1>rows, <1>7 DEF Destination!reconcile_provisioned_board
  <2>2. \E p \in {"idle", "execute"} : Destination!Goto(i, p)
    BY <1>7 DEF Destination!reconcile_provisioned_board
  <2>3. v2[i] # "create" /\ UNCHANGED <<v3, v5, v6>> /\ v4' \in {"ABSENT", "INELIGIBLE", "ROUTABLE"}
    BY <1>0, <1>7 DEF Destination!reconcile_provisioned_board
  <2>4. PICK run \in DestinationRuns : Sets(run) /\ (run.status # "SUCCEEDED" \/ run = v1[i])
    BY <2>1
  <2> QED BY <1>0, <1>1, <2>2, <2>3, <2>4, DestinationQuiet
<1>8. CASE Destination!Execute(i)
  <2>1. v2[i] # "create" /\ UNCHANGED <<v3, v4, v5, v6>> /\ Destination!Goto(i, "idle")
    BY <1>8 DEF Destination!Execute
  <2>2. \E run \in DestinationRuns : Sets(run) /\
          (run.status = "SUCCEEDED" /\ run.kind = "PROVISION" => run.bound /\ v3.status = "SUCCEEDED")
    <3>1. CASE Destination!DestSame
      BY <1>0, <1>1, <3>1
    <3>2. CASE Sets([v1[i] EXCEPT !.status = "FAILED"])
      BY <1>ends, <3>2
    <3>3. CASE Sets([v1[i] EXCEPT !.status = "SUCCEEDED"]) /\ Destination!StrategyBound(i)
               /\ Destination!RoutesExisting
      BY <1>ends, <3>3 DEF Destination!StrategyBound
    <3> QED BY <1>8, <3>1, <3>2, <3>3 DEF Destination!Execute
  <2> QED BY <1>0, <2>1, <2>2, DestinationQuiet
<1> QED BY <1>2, <1>3, <1>4, <1>5, <1>6, <1>7, <1>8

LEMMA DestinationStep ==
  ASSUME Destination!DestinationInv, Destination!Next \/ UNCHANGED Destination!destVars
  PROVE  Destination!DestinationInv'
<1> USE BoundsAssumption DEF Destination!DestinationInv, Destination!At, Destination!Goto,
        Destination!Leave
<1>1. CASE UNCHANGED Destination!destVars \/ Destination!OperatorSync
           \/ Destination!pinterest_board_config
  <2>1. UNCHANGED <<v1, v2, v3, v5>> /\ v4' \in {"ABSENT", "INELIGIBLE", "ROUTABLE"}
        /\ v6' \in 0..MaxDeaths
    BY <1>1 DEF Destination!OperatorSync, Destination!pinterest_board_config, Destination!Listed,
                Destination!destVars, Destination!TypeOK
  <2> QED BY <2>1 DEF Destination!TypeOK, Destination!CreatesAlone, Destination!CreatesOnce,
             Destination!Unasked, Destination!BoardCreatedOnce, Destination!ExecutedOnOwnBoard
<1>2. ASSUME NEW i \in Items, Destination!start_board_provisioning(i)
      PROVE  Destination!DestinationInv'
  <2>1. UNCHANGED <<v1, v2, v4, v5, v6>> /\ v3.status = "NONE"
        /\ v3' = [status |-> "STARTED", boundary |-> FALSE]
    BY <1>2 DEF Destination!start_board_provisioning
  <2>2. v5 = 0 /\ \A j \in Items : v2[j] # "create"
    BY <2>1 DEF Destination!Unasked, Destination!CreatesOnce
  <2> QED BY <2>1, <2>2 DEF Destination!TypeOK, Destination!CreatesAlone, Destination!CreatesOnce,
             Destination!Unasked, Destination!BoardCreatedOnce, Destination!ExecutedOnOwnBoard
<1>3. ASSUME NEW i \in Items, Destination!DecryptFails(i)
      PROVE  Destination!DestinationInv'
  <2>1. UNCHANGED <<v1, v2, v4, v5, v6>> /\ v3.status = "STARTED" /\ ~v3.boundary
        /\ v3' = [v3 EXCEPT !.status = "FAILED"]
    BY <1>3 DEF Destination!DecryptFails
  <2>2. v5 = 0 /\ \A j \in Items : v2[j] # "create"
    BY <2>1 DEF Destination!Unasked, Destination!CreatesOnce
  <2> QED BY <2>1, <2>2 DEF Destination!TypeOK, Destination!CreatesAlone, Destination!CreatesOnce,
             Destination!Unasked, Destination!BoardCreatedOnce, Destination!ExecutedOnOwnBoard
<1>4. ASSUME NEW i \in Items, Destination!ClaimMutation(i)
      PROVE  Destination!DestinationInv'
  <2>1. UNCHANGED <<v1, v4, v5, v6>> /\ v3.status = "STARTED" /\ ~v3.boundary
        /\ v3' = [v3 EXCEPT !.boundary = TRUE] /\ v2' = [v2 EXCEPT ![i] = "create"]
    BY <1>4 DEF Destination!ClaimMutation
  <2>2. v5 = 0 /\ \A j \in Items : v2[j] # "create"
    BY <2>1 DEF Destination!Unasked, Destination!CreatesOnce
  <2>3. Destination!TypeOK' /\ Destination!Unasked' /\ Destination!BoardCreatedOnce'
    BY <2>1, <2>2 DEF Destination!TypeOK, Destination!Unasked, Destination!BoardCreatedOnce
  <2>4. Destination!CreatesAlone' /\ Destination!CreatesOnce' /\ Destination!ExecutedOnOwnBoard'
    BY <2>1, <2>2 DEF Destination!TypeOK, Destination!CreatesAlone, Destination!CreatesOnce,
                      Destination!ExecutedOnOwnBoard
  <2> QED BY <2>3, <2>4
<1>5. ASSUME NEW i \in Items, v2[i] = "create",
             Destination!create_board(i) \/ Destination!CoordinatorDies(i)
      PROVE  Destination!DestinationInv'
  <2>1. UNCHANGED <<v1, v4>> /\ v5' \in {v5, v5 + 1} /\ v6' \in 0..MaxDeaths
        /\ \E p \in {"idle", "claim"} : v2' = [v2 EXCEPT ![i] = p]
    BY <1>5 DEF Destination!create_board, Destination!CoordinatorDies, Destination!Answered,
                Destination!TypeOK
  <2>2. \/ UNCHANGED v3
        \/ \E s \in {"SUCCEEDED", "FAILED", "UNKNOWN"} : v3' = [v3 EXCEPT !.status = s]
    BY <1>5 DEF Destination!create_board, Destination!CoordinatorDies, Destination!Answered
  <2>3. v5 = 0 /\ v3.status = "STARTED" /\ v3.boundary
    BY <1>5 DEF Destination!CreatesOnce
  <2>4. \A j \in Items : v2'[j] # "create"
    BY <1>5, <2>1 DEF Destination!TypeOK, Destination!CreatesAlone
  <2>5. v3' \in [status : {"NONE", "STARTED", "SUCCEEDED", "FAILED", "UNKNOWN"},
                 boundary : BOOLEAN] /\ v3'.boundary /\ v3'.status # "NONE"
    BY <2>2, <2>3 DEF Destination!TypeOK
  <2>6. Destination!TypeOK' /\ Destination!Unasked' /\ Destination!BoardCreatedOnce'
    BY <2>1, <2>3, <2>5 DEF Destination!TypeOK, Destination!Unasked, Destination!BoardCreatedOnce
  <2>7. Destination!CreatesAlone' /\ Destination!CreatesOnce' /\ Destination!ExecutedOnOwnBoard'
    BY <2>1, <2>3, <2>4 DEF Destination!CreatesAlone, Destination!CreatesOnce,
                            Destination!ExecutedOnOwnBoard
  <2> QED BY <2>6, <2>7
<1>6. ASSUME NEW i \in Items, v2[i] # "create", Destination!CoordinatorDies(i)
      PROVE  Destination!DestinationInv'
  <2>1. v1[i] \in DestinationRuns /\ v1 = [v1 EXCEPT ![i] = v1[i]]
        /\ v4 \in {"ABSENT", "INELIGIBLE", "ROUTABLE"}
    BY DEF Destination!TypeOK, DestinationRuns
  <2>2. v1[i].status = "SUCCEEDED" /\ v1[i].kind = "PROVISION" => v1[i].bound /\ v3.status = "SUCCEEDED"
    BY DEF Destination!ExecutedOnOwnBoard
  <2>3. UNCHANGED <<v1, v3, v4, v5>> /\ v6' \in 0..MaxDeaths /\ v2' = [v2 EXCEPT ![i] = "idle"]
    BY <1>6 DEF Destination!CoordinatorDies, Destination!TypeOK
  <2> QED BY <1>6, <2>1, <2>2, <2>3, DestinationQuiet
<1>7. ASSUME NEW i \in Items, Destination!create_board(i)
      PROVE  v2[i] = "create"
  BY <1>7 DEF Destination!create_board
<1> QED BY <1>1, <1>2, <1>3, <1>4, <1>5, <1>6, <1>7, DestinationQuietSteps DEF Destination!Next

LEMMA DestinationFocus ==
  ASSUME [ServicesNext]_allVars, focus' = "destination"
  PROVE  focus = "destination" /\ (Destination!Next \/ UNCHANGED Destination!destVars)
BY DEF ServicesNext, allVars, slots, Only, Destination!destVars

LEMMA DestinationHolds ==
  ServicesSpec => [](focus = "destination" => Destination!DestinationInv)
<1> DEFINE I == focus = "destination" => Destination!DestinationInv
<1>1. ServicesInit => I
  BY DestinationStart DEF ServicesInit
<1>2. I /\ [ServicesNext]_allVars => I'
  BY DestinationStep, DestinationFocus
<1> QED BY <1>1, <1>2, PTL DEF ServicesSpec

(* Over every item that wants the board, every death and every lost answer,    *)
(* Pinterest is asked to create it at most once: the boundary of a creation    *)
(* is committed before the call, and one coordinator passes it.                *)
THEOREM BoardsAreCreatedOnce == ServicesSpec => []BoardCreatedOnce
<1>1. (focus = "destination" => Destination!DestinationInv) => BoardCreatedOnce
  BY DEF BoardCreatedOnce, Destination!DestinationInv
<1> QED BY <1>1, DestinationHolds, PTL

(* An item that set out to have its board created succeeds only on the board   *)
(* its own attempt was confirmed to have created, never on one made routable   *)
(* meanwhile.                                                                  *)
THEOREM ItemsUseTheirOwnBoard == ServicesSpec => []ExecutedOnOwnBoard
<1>1. (focus = "destination" => Destination!DestinationInv) => ExecutedOnOwnBoard
  BY DEF ExecutedOnOwnBoard, Destination!DestinationInv
<1> QED BY <1>1, DestinationHolds, PTL

-----------------------------------------------------------------------------
(* AutonomousExecution.                                                        *)

(* In Execution: dests is v1, execs v2, gens v3, recon v4, item v5, draft v6,  *)
(* approved v7, pubs v8, pub v9, permit v10, ex v11, crashes v12.              *)
LEMMA ExecutionStart ==
  ASSUME Execution!Init
  PROVE  Execution!ExecInv
BY DEF Execution!Init, Execution!ExecInv, Execution!RunShapes, Execution!LineagesReconciled,
       Execution!AttemptsRead, Execution!ReconciledBefore, Execution!Idle, Execution!Seats,
       Execution!Labels, Execution!At

(* A run written by its key, wherever that points.                             *)
LEMMA RunWritten ==
  ASSUME NEW S, NEW s \in Seq(S), NEW i, NEW e, i \in 1..Len(s) => e \in S
  PROVE  [s EXCEPT ![i] = e] \in Seq(S) /\ Len([s EXCEPT ![i] = e]) = Len(s)
<1>1. CASE i \in 1..Len(s)
  BY <1>1, ExceptSeq
<1>2. CASE i \notin 1..Len(s)
  <2>1. DOMAIN s = 1..Len(s) BY LenProperties
  <2>2. [s EXCEPT ![i] = e] = s BY <1>2, <2>1
  <2> QED BY <2>2
<1> QED BY <1>1, <1>2

(* The attempt an open lineage offers has reconciled predecessors only.        *)
LEMMA OpenLineage ==
  ASSUME NEW S, NEW s \in Seq(S), Execution!Open(s), Execution!ReconciledBefore(Len(s))
  PROVE  /\ Execution!next_attempt(s) \in 1..(Len(s) + 1)
         /\ Execution!ReconciledBefore(Execution!next_attempt(s))
<1>1. Len(s) \in Nat /\ (s # <<>> => Len(s) # 0)
  BY LenProperties, EmptySeq
<1>2. CASE s = <<>>
  BY <1>1, <1>2 DEF Execution!next_attempt, Execution!ReconciledBefore
<1>3. CASE s # <<>> /\ Execution!LastIs(s, "FAILED") /\ Len(s) \in v4
  <2>1. Execution!next_attempt(s) = Len(s) + 1 BY <1>3 DEF Execution!next_attempt
  <2>2. \A k \in 1..((Len(s) + 1) - 1) : k \in 1..(Len(s) - 1) \/ k = Len(s) BY <1>1
  <2> QED BY <1>1, <1>3, <2>1, <2>2 DEF Execution!ReconciledBefore
<1>4. CASE s # <<>> /\ ~Execution!LastIs(s, "FAILED")
  <2>1. Execution!next_attempt(s) = Len(s) BY <1>4 DEF Execution!next_attempt
  <2> QED BY <1>1, <1>4, <2>1
<1> QED BY <1>2, <1>3, <1>4 DEF Execution!Open, Execution!LastIs, Execution!Last

LEMMA StatusLineage ==
  ASSUME v2 \in Seq(Execution!ExecRuns)
  PROVE  /\ Execution!ExecStatus \in Seq(Execution!RunStatus)
         /\ Len(Execution!ExecStatus) = Len(v2)
<1>1. /\ DOMAIN v2 = 1..Len(v2) /\ Len(v2) \in Nat
      /\ \A n \in 1..Len(v2) : v2[n].status \in Execution!RunStatus
  <2>1. /\ DOMAIN v2 = 1..Len(v2) /\ Len(v2) \in Nat
        /\ \A n \in 1..Len(v2) : v2[n] \in Execution!ExecRuns
    BY LenProperties, ElementOfSeq
  <2>2. \A r \in Execution!ExecRuns : r.status \in Execution!RunStatus
    BY DEF Execution!ExecRuns
  <2> QED BY <2>1, <2>2
<1>2. Execution!ExecStatus \in [1..Len(v2) -> Execution!RunStatus]
  BY <1>1 DEF Execution!ExecStatus
<1> QED BY <1>1, <1>2

(* A step that keeps the lineages reconciled, and leaves nobody about to       *)
(* insert who was not, keeps the invariant.                                    *)
LEMMA ExecutionMoves ==
  ASSUME Execution!ExecInv, Execution!RunShapes', v4 \subseteq v4',
         Len(v2)' \in Nat, Len(v2) \in Nat, Len(v2) <= Len(v2)',
         Len(v3)' \in Nat, Len(v3) \in Nat, Len(v3) <= Len(v3)',
         Execution!LineagesReconciled',
         \A e \in Execution!Executors :
           /\ v11'[e].pc = "insert" => v11[e].pc = "insert" /\ v11'[e].x = v11[e].x
           /\ v11'[e].pc = "ginsert" => v11[e].pc = "ginsert" /\ v11'[e].g = v11[e].g
  PROVE  Execution!ExecInv'
<1> SUFFICES ASSUME NEW e \in Execution!Executors
             PROVE  /\ v11'[e].pc = "insert" => v11'[e].x \in 1..(Len(v2)' + 1)
                                             /\ \A k \in 1..(v11'[e].x - 1) : k \in v4'
                    /\ v11'[e].pc = "ginsert" => v11'[e].g \in 1..(Len(v3)' + 1)
                                              /\ \A k \in 1..(v11'[e].g - 1) : k \in v4'
  BY DEF Execution!ExecInv, Execution!AttemptsRead, Execution!At, Execution!ReconciledBefore
<1>1. /\ v11[e].pc = "insert" => v11[e].x \in 1..(Len(v2) + 1)
                              /\ \A k \in 1..(v11[e].x - 1) : k \in v4
      /\ v11[e].pc = "ginsert" => v11[e].g \in 1..(Len(v3) + 1)
                               /\ \A k \in 1..(v11[e].g - 1) : k \in v4
  BY DEF Execution!ExecInv, Execution!AttemptsRead, Execution!At, Execution!ReconciledBefore
<1> QED BY SMTT(30), <1>1

LEMMA LineageLengths ==
  ASSUME Execution!RunShapes
  PROVE  Len(v1) \in Nat /\ Len(v2) \in Nat /\ Len(v3) \in Nat
BY LenProperties DEF Execution!RunShapes

(* The executor goes on, to no insert; no lineage grows.                       *)
LEMMA ExecutionGoes ==
  ASSUME Execution!ExecInv, NEW e \in Execution!Executors, NEW j \in Execution!Seats,
         j.pc \notin {"insert", "ginsert"}, v11' = [v11 EXCEPT ![e] = j],
         v1' \in Seq(Execution!RunStatus), Len(v1)' = Len(v1),
         v2' \in Seq(Execution!ExecRuns), Len(v2)' = Len(v2),
         v3' \in Seq(Execution!RunStatus), Len(v3)' = Len(v3),
         v4' = v4, v8' \in {0, 1}
  PROVE  Execution!ExecInv'
<1>1. v11 \in [Execution!Executors -> Execution!Seats]
  BY DEF Execution!ExecInv, Execution!RunShapes
<1>2. /\ v11' \in [Execution!Executors -> Execution!Seats] /\ v11'[e] = j
      /\ \A f \in Execution!Executors \ {e} : v11'[f] = v11[f]
  BY <1>1
<1>3. Execution!RunShapes' BY <1>2 DEF Execution!RunShapes
<1>4. Execution!LineagesReconciled'
  BY DEF Execution!ExecInv, Execution!LineagesReconciled, Execution!ReconciledBefore
<1>5. /\ Len(v2)' \in Nat /\ Len(v2) \in Nat /\ Len(v2) <= Len(v2)'
      /\ Len(v3)' \in Nat /\ Len(v3) \in Nat /\ Len(v3) <= Len(v3)'
  <2>1. Len(v2) \in Nat /\ Len(v3) \in Nat BY LineageLengths DEF Execution!ExecInv
  <2> QED BY <2>1
<1> QED BY <1>2, <1>3, <1>4, <1>5, ExecutionMoves

LEMMA ExecutionEnds ==
  ASSUME Execution!ExecInv, NEW e \in Execution!Executors, NEW ok \in BOOLEAN,
         Execution!Ended(e, ok)
  PROVE  \E j \in Execution!Seats : j.pc \notin {"insert", "ginsert"} /\ v11' = [v11 EXCEPT ![e] = j]
<1> DEFINE j1 == [v11[e] EXCEPT !.pc = "finish"]
           j2 == [v11[e] EXCEPT !.pc = "dfail"]
<1>1. v11[e] \in Execution!Seats
  BY DEF Execution!ExecInv, Execution!RunShapes
<1>2. j1 \in Execution!Seats /\ j1.pc = "finish" /\ j2 \in Execution!Seats /\ j2.pc = "dfail"
  BY <1>1 DEF Execution!Seats, Execution!Labels
<1>3. Execution!Idle \in Execution!Seats /\ Execution!Idle.pc = "idle"
  BY DEF Execution!Idle, Execution!Seats, Execution!Labels
<1>4. v11' = [v11 EXCEPT ![e] = j1] \/ v11' = [v11 EXCEPT ![e] = j2]
      \/ v11' = [v11 EXCEPT ![e] = Execution!Idle]
  BY DEF Execution!Ended
<1> QED BY <1>2, <1>3, <1>4

LEMMA ExecutionGoto ==
  ASSUME Execution!ExecInv, NEW e \in Execution!Executors,
         NEW l \in Execution!Labels \ {"insert", "ginsert"}, NEW g \in Nat,
         v11' = [v11 EXCEPT ![e].pc = l] \/ v11' = [v11 EXCEPT ![e].pc = l, ![e].g = g]
  PROVE  \E j \in Execution!Seats : j.pc \notin {"insert", "ginsert"} /\ v11' = [v11 EXCEPT ![e] = j]
<1> DEFINE j1 == [v11[e] EXCEPT !.pc = l]
           j2 == [v11[e] EXCEPT !.pc = l, !.g = g]
<1>1. v11[e] \in Execution!Seats
  BY DEF Execution!ExecInv, Execution!RunShapes
<1>2. j1 \in Execution!Seats /\ j1.pc = l /\ j2 \in Execution!Seats /\ j2.pc = l
  BY <1>1 DEF Execution!Seats
<1>3. v11' = [v11 EXCEPT ![e] = j1] \/ v11' = [v11 EXCEPT ![e] = j2]
  OBVIOUS
<1> QED BY <1>2, <1>3

(* The steps after which the executor is about to insert nothing, and that     *)
(* append to no lineage.                                                       *)
LEMMA ExecutionWorks ==
  ASSUME Execution!ExecInv, NEW e \in Execution!Executors,
         \/ Execution!_fail_run(e) \/ Execution!StageSeo(e) \/ Execution!StageGenerated(e)
         \/ Execution!StageAuthorized(e) \/ Execution!StagePublication(e)
         \/ Execution!StagePermitted(e) \/ Execution!Render(e) \/ Execution!RenderFails(e)
         \/ Execution!Authorize(e) \/ Execution!PolicyRefuses(e)
         \/ Execution!RecoverPublication(e) \/ Execution!create_snapshot(e)
         \/ Execution!auto_permit_publication(e) \/ Execution!ExecutorDies(e)
  PROVE  Execution!ExecInv'
<1> USE DEF Execution!ExecInv
<1> DEFINE Goes == \E j \in Execution!Seats :
                     j.pc \notin {"insert", "ginsert"} /\ v11' = [v11 EXCEPT ![e] = j]
<1>0. /\ v1 \in Seq(Execution!RunStatus) /\ v2 \in Seq(Execution!ExecRuns)
      /\ v3 \in Seq(Execution!RunStatus) /\ v11[e] \in Execution!Seats /\ v8 \in {0, 1}
  BY DEF Execution!RunShapes
<1>1. v11[e].x \in Nat /\ v11[e].g \in Nat
  BY <1>0 DEF Execution!Seats
<1>2. \A n \in 1..Len(v2) : v2[n] \in Execution!ExecRuns
  BY <1>0, ElementOfSeq
<1>3. ASSUME Goes, UNCHANGED <<v1, v3, v4>>, v8' \in {0, 1}, NEW r,
             v2' = v2 \/ v2' = [v2 EXCEPT ![v11[e].x] = r],
             v11[e].x \in 1..Len(v2) => r \in Execution!ExecRuns
      PROVE  Execution!ExecInv'
  <2>1. v2' \in Seq(Execution!ExecRuns) /\ Len(v2') = Len(v2)
    BY SMTT(30), <1>0, <1>3, RunWritten
  <2> QED BY <1>0, <1>3, <2>1, ExecutionGoes
<1>4. ASSUME Goes, UNCHANGED <<v1, v2, v4>>, v8' = v8, NEW r \in Execution!RunStatus,
             v3' = [v3 EXCEPT ![v11[e].g] = r]
      PROVE  Execution!ExecInv'
  <2>1. v3' \in Seq(Execution!RunStatus) /\ Len(v3') = Len(v3)
    BY <1>0, <1>4, RunWritten
  <2> QED BY <1>0, <1>4, <2>1, ExecutionGoes
<1>5. ASSUME NEW l \in Execution!Labels \ {"insert", "ginsert"}, Execution!Goto(e, l) PROVE Goes
  BY <1>1, <1>5, ExecutionGoto DEF Execution!Goto
<1>6. {"gen", "auth", "recover", "permit", "stageG", "fail", "stageA", "stageP", "snapshot", "stageQ"}
        \subseteq Execution!Labels \ {"insert", "ginsert"}
  BY DEF Execution!Labels
<1>7. CASE \/ Execution!StageSeo(e) \/ Execution!StageGenerated(e)
           \/ Execution!StageAuthorized(e) \/ Execution!StagePublication(e)
  <2> DEFINE r == v2[v11[e].x]
             r1 == [r EXCEPT !.stage = 2]
             r2 == [r EXCEPT !.stage = 3, !.gen = v11[e].g]
             r3 == [r EXCEPT !.stage = 4]
             r4 == [r EXCEPT !.stage = 5]
  <2>1. v11[e].x \in 1..Len(v2) => r1 \in Execution!ExecRuns /\ r2 \in Execution!ExecRuns
                               /\ r3 \in Execution!ExecRuns /\ r4 \in Execution!ExecRuns
    <3>1. ASSUME NEW q \in Execution!ExecRuns
          PROVE  /\ [q EXCEPT !.stage = 2] \in Execution!ExecRuns
                 /\ [q EXCEPT !.stage = 4] \in Execution!ExecRuns
                 /\ [q EXCEPT !.stage = 5] \in Execution!ExecRuns
      BY DEF Execution!ExecRuns
    <3>2. ASSUME NEW q \in Execution!ExecRuns, NEW n \in Nat
          PROVE  [q EXCEPT !.stage = 3, !.gen = n] \in Execution!ExecRuns
      <4>1. [q EXCEPT !.stage = 3] \in Execution!ExecRuns
        BY DEF Execution!ExecRuns
      <4>2. \A w \in Execution!ExecRuns : [w EXCEPT !.gen = n] \in Execution!ExecRuns
        BY DEF Execution!ExecRuns
      <4> QED BY <4>1, <4>2
    <3> QED BY <1>1, <1>2, <3>1, <3>2
  <2>2. \/ v2' = [v2 EXCEPT ![v11[e].x] = r1] \/ v2' = [v2 EXCEPT ![v11[e].x] = r2]
        \/ v2' = [v2 EXCEPT ![v11[e].x] = r3] \/ v2' = [v2 EXCEPT ![v11[e].x] = r4]
    BY <1>7 DEF Execution!StageSeo, Execution!StageGenerated, Execution!StageAuthorized,
       Execution!StagePublication, Execution!Stage, Execution!Run
  <2>3. UNCHANGED <<v1, v3, v4, v8>>
    BY <1>7 DEF Execution!StageSeo, Execution!StageGenerated, Execution!StageAuthorized,
       Execution!StagePublication, Execution!Stage, Execution!pubVars
  <2>4. \/ Execution!Goto(e, "gen") \/ Execution!Goto(e, "auth") \/ Execution!Goto(e, "recover")
        \/ Execution!Goto(e, "permit")
    BY <1>7 DEF Execution!StageSeo, Execution!StageGenerated, Execution!StageAuthorized,
       Execution!StagePublication, Execution!Stage
  <2>5. Goes BY <1>5, <1>6, <2>4
  <2> HIDE DEF r1, r2, r3, r4, Goes
  <2> QED BY <1>0, <1>3, <2>1, <2>2, <2>3, <2>5
<1>8. CASE Execution!StagePermitted(e) \/ Execution!_fail_run(e)
  <2> DEFINE r == v2[v11[e].x]
             r1 == [r EXCEPT !.stage = 6, !.status = "SUCCEEDED"]
             r2 == [r EXCEPT !.status = IF r.status = "STARTED" THEN "FAILED" ELSE r.status]
  <2>1. v11[e].x \in 1..Len(v2) => r1 \in Execution!ExecRuns /\ r2 \in Execution!ExecRuns
    <3>1. ASSUME NEW q \in Execution!ExecRuns
          PROVE  [q EXCEPT !.stage = 6, !.status = "SUCCEEDED"] \in Execution!ExecRuns
      <4>1. [q EXCEPT !.stage = 6] \in Execution!ExecRuns
        BY DEF Execution!ExecRuns
      <4>2. \A w \in Execution!ExecRuns : [w EXCEPT !.status = "SUCCEEDED"] \in Execution!ExecRuns
        BY DEF Execution!ExecRuns, Execution!RunStatus
      <4> QED BY <4>1, <4>2
    <3>2. ASSUME NEW q \in Execution!ExecRuns
          PROVE  [q EXCEPT !.status = IF q.status = "STARTED" THEN "FAILED" ELSE q.status]
                 \in Execution!ExecRuns
      <4>1. (IF q.status = "STARTED" THEN "FAILED" ELSE q.status) \in Execution!RunStatus
        BY DEF Execution!ExecRuns, Execution!RunStatus
      <4>2. \A w \in Execution!ExecRuns, t \in Execution!RunStatus :
              [w EXCEPT !.status = t] \in Execution!ExecRuns
        BY DEF Execution!ExecRuns
      <4> QED BY <4>1, <4>2
    <3> QED BY <1>2, <3>1, <3>2
  <2>2. v2' = [v2 EXCEPT ![v11[e].x] = r1] \/ v2' = [v2 EXCEPT ![v11[e].x] = r2]
    BY <1>8 DEF Execution!StagePermitted, Execution!_fail_run
  <2>3. UNCHANGED <<v1, v3, v4, v8>>
    BY <1>8 DEF Execution!StagePermitted, Execution!_fail_run, Execution!pubVars
  <2>4. Goes BY <1>8, ExecutionEnds DEF Execution!StagePermitted, Execution!_fail_run
  <2> HIDE DEF r1, r2, Goes
  <2> QED BY <1>0, <1>3, <2>1, <2>2, <2>3, <2>4
<1>9. CASE Execution!Render(e) \/ Execution!RenderFails(e)
  <2>1. Goes BY <1>5, <1>6, <1>9 DEF Execution!Render, Execution!RenderFails
  <2>2. UNCHANGED <<v1, v2, v4, v8>>
    BY <1>9 DEF Execution!Render, Execution!RenderFails, Execution!pubVars
  <2> DEFINE g == v11[e].g
             r == IF v3[g] = "STARTED" THEN "FAILED" ELSE v3[g]
  <2>3. v3' = [v3 EXCEPT ![g] = "SUCCEEDED"] \/ v3' = [v3 EXCEPT ![g] = r]
    BY <1>9 DEF Execution!Render, Execution!RenderFails
  <2>4. v3' \in Seq(Execution!RunStatus) /\ Len(v3') = Len(v3)
    <3>1. g \in 1..Len(v3) => v3[g] \in Execution!RunStatus BY <1>0, ElementOfSeq
    <3>2. g \in 1..Len(v3) => r \in Execution!RunStatus BY <3>1 DEF Execution!RunStatus
    <3>3. "SUCCEEDED" \in Execution!RunStatus BY DEF Execution!RunStatus
    <3> HIDE DEF r, g
    <3>4. CASE v3' = [v3 EXCEPT ![g] = "SUCCEEDED"] BY <1>0, <3>3, <3>4, RunWritten
    <3>5. CASE v3' = [v3 EXCEPT ![g] = r] BY <1>0, <3>2, <3>5, RunWritten
    <3> QED BY <2>3, <3>4, <3>5
  <2> QED BY <1>0, <2>1, <2>2, <2>4, ExecutionGoes
<1>10. CASE \/ Execution!Authorize(e) \/ Execution!PolicyRefuses(e)
            \/ Execution!RecoverPublication(e) \/ Execution!create_snapshot(e)
            \/ Execution!auto_permit_publication(e)
  <2>1. \E l \in {"stageA", "fail", "snapshot", "stageP", "recover", "stageQ"} : Execution!Goto(e, l)
    BY <1>10 DEF Execution!Authorize, Execution!PolicyRefuses, Execution!RecoverPublication,
       Execution!create_snapshot, Execution!auto_permit_publication
  <2>2. UNCHANGED <<v1, v2, v3, v4>> /\ v8' \in {v8, 1}
    BY <1>10 DEF Execution!Authorize, Execution!PolicyRefuses, Execution!RecoverPublication,
       Execution!create_snapshot, Execution!auto_permit_publication, Execution!runVars,
       Execution!pubVars
  <2>3. Goes BY <1>5, <1>6, <2>1
  <2> QED BY <1>0, <2>2, <2>3, ExecutionGoes
<1>11. CASE Execution!ExecutorDies(e)
  <2>1. Execution!Idle \in Execution!Seats /\ Execution!Idle.pc = "idle"
    BY DEF Execution!Idle, Execution!Seats, Execution!Labels
  <2>2. v11' = [v11 EXCEPT ![e] = Execution!Idle] /\ UNCHANGED <<v1, v2, v3, v4, v8>>
    BY <1>11 DEF Execution!ExecutorDies, Execution!runVars, Execution!pubVars
  <2> QED BY <1>0, <2>1, <2>2, ExecutionGoes
<1> QED BY <1>7, <1>8, <1>9, <1>10, <1>11

(* The executor goes on, to no insert, and a lineage may have grown by an      *)
(* attempt whose predecessors are reconciled.                                  *)
LEMMA ExecutionGrows ==
  ASSUME Execution!ExecInv, NEW e \in Execution!Executors, NEW j \in Execution!Seats,
         j.pc \notin {"insert", "ginsert"}, v11' = [v11 EXCEPT ![e] = j],
         v1' \in Seq(Execution!RunStatus), v2' \in Seq(Execution!ExecRuns),
         v3' \in Seq(Execution!RunStatus), v4' = v4, v8' = v8,
         \/ Len(v1)' = Len(v1)
         \/ Len(v1)' = Len(v1) + 1 /\ Execution!ReconciledBefore(Len(v1) + 1),
         \/ Len(v2)' = Len(v2)
         \/ Len(v2)' = Len(v2) + 1 /\ Execution!ReconciledBefore(Len(v2) + 1),
         \/ Len(v3)' = Len(v3)
         \/ Len(v3)' = Len(v3) + 1 /\ Execution!ReconciledBefore(Len(v3) + 1)
  PROVE  Execution!ExecInv'
<1>1. v11 \in [Execution!Executors -> Execution!Seats]
  BY DEF Execution!ExecInv, Execution!RunShapes
<1>2. /\ v11' \in [Execution!Executors -> Execution!Seats] /\ v11'[e] = j
      /\ \A f \in Execution!Executors \ {e} : v11'[f] = v11[f]
  BY <1>1
<1>3. Execution!RunShapes' BY <1>2 DEF Execution!RunShapes, Execution!ExecInv
<1>4. Execution!LineagesReconciled'
  BY DEF Execution!ExecInv, Execution!LineagesReconciled, Execution!ReconciledBefore
<1>5. /\ Len(v2)' \in Nat /\ Len(v2) \in Nat /\ Len(v2) <= Len(v2)'
      /\ Len(v3)' \in Nat /\ Len(v3) \in Nat /\ Len(v3) <= Len(v3)'
  <2>1. Len(v2) \in Nat /\ Len(v3) \in Nat BY LineageLengths DEF Execution!ExecInv
  <2> QED BY <2>1
<1> QED BY <1>2, <1>3, <1>4, <1>5, ExecutionMoves

(* The executor has read an attempt it may insert.                             *)
LEMMA ExecutionReads ==
  ASSUME Execution!ExecInv, NEW e \in Execution!Executors, NEW j \in Execution!Seats,
         v11' = [v11 EXCEPT ![e] = j], UNCHANGED <<v1, v2, v3, v4, v8>>,
         j.pc = "insert" => j.x \in 1..(Len(v2) + 1) /\ Execution!ReconciledBefore(j.x),
         j.pc = "ginsert" => j.g \in 1..(Len(v3) + 1) /\ Execution!ReconciledBefore(j.g)
  PROVE  Execution!ExecInv'
<1> USE DEF Execution!ExecInv
<1>1. v11 \in [Execution!Executors -> Execution!Seats]
  BY DEF Execution!RunShapes
<1>2. /\ v11' \in [Execution!Executors -> Execution!Seats] /\ v11'[e] = j
      /\ \A f \in Execution!Executors \ {e} : v11'[f] = v11[f]
  BY <1>1
<1>3. Execution!RunShapes' BY <1>2 DEF Execution!RunShapes
<1>4. Execution!LineagesReconciled'
  BY DEF Execution!LineagesReconciled, Execution!ReconciledBefore
<1>5. Execution!AttemptsRead'
  <2> SUFFICES ASSUME NEW f \in Execution!Executors
               PROVE  /\ v11'[f].pc = "insert" => v11'[f].x \in 1..(Len(v2)' + 1)
                                               /\ \A k \in 1..(v11'[f].x - 1) : k \in v4'
                      /\ v11'[f].pc = "ginsert" => v11'[f].g \in 1..(Len(v3)' + 1)
                                                /\ \A k \in 1..(v11'[f].g - 1) : k \in v4'
    BY DEF Execution!AttemptsRead, Execution!At, Execution!ReconciledBefore
  <2>1. CASE f = e BY <1>2, <2>1 DEF Execution!ReconciledBefore
  <2>2. CASE f # e
    BY <1>2, <2>2 DEF Execution!AttemptsRead, Execution!At, Execution!ReconciledBefore
  <2> QED BY <2>1, <2>2
<1> QED BY <1>3, <1>4, <1>5

LEMMA ExecutionDestination ==
  ASSUME Execution!ExecInv, NEW c \in Coordinators,
         Execution!StartDestination(c) \/ Execution!FinishDestination(c)
  PROVE  Execution!ExecInv'
<1> USE DEF Execution!ExecInv
<1>1. c \in Execution!Executors BY DEF Execution!Executors
<1>2. /\ v1 \in Seq(Execution!RunStatus) /\ v2 \in Seq(Execution!ExecRuns)
      /\ v3 \in Seq(Execution!RunStatus) /\ v11[c] \in Execution!Seats
      /\ Execution!ReconciledBefore(Len(v1)) /\ Len(v1) \in Nat
  BY <1>1, LineageLengths DEF Execution!RunShapes, Execution!LineagesReconciled
<1>3. CASE Execution!StartDestination(c)
  <2> DEFINE n == Execution!next_attempt(v1)
             j == [v11[c] EXCEPT !.pc = "read", !.d = n]
  <2>1. n \in 1..(Len(v1) + 1) /\ Execution!ReconciledBefore(n)
    BY <1>2, <1>3, OpenLineage DEF Execution!StartDestination
  <2>2. j \in Execution!Seats /\ j.pc = "read"
    <3>1. [v11[c] EXCEPT !.pc = "read"] \in Execution!Seats
      BY <1>2 DEF Execution!Seats, Execution!Labels
    <3>2. n \in Nat BY <1>2, <2>1
    <3> HIDE DEF n
    <3>3. \A w \in Execution!Seats : [w EXCEPT !.d = n] \in Execution!Seats
      BY <3>2 DEF Execution!Seats
    <3>4. j \in Execution!Seats BY <3>1, <3>3
    <3> QED BY <1>2, <3>4 DEF Execution!Seats
  <2>3. v11' = [v11 EXCEPT ![c] = j] /\ UNCHANGED <<v2, v3, v4, v8>>
    BY <1>3 DEF Execution!StartDestination, Execution!pubVars
  <2>4. v1' = IF n > Len(v1) THEN Append(v1, "STARTED") ELSE v1
    BY <1>3 DEF Execution!StartDestination
  <2> HIDE DEF n, j
  <2>5. /\ v1' \in Seq(Execution!RunStatus)
        /\ \/ Len(v1)' = Len(v1)
           \/ Len(v1)' = Len(v1) + 1 /\ Execution!ReconciledBefore(Len(v1) + 1)
    <3>1. "STARTED" \in Execution!RunStatus BY DEF Execution!RunStatus
    <3>2. CASE n > Len(v1)
      <4>1. v1' = Append(v1, "STARTED") /\ n = Len(v1) + 1 BY <1>2, <2>1, <2>4, <3>2
      <4>2. v1' \in Seq(Execution!RunStatus) /\ Len(v1') = Len(v1) + 1
        BY <1>2, <3>1, <4>1, AppendProperties
      <4> QED BY <2>1, <4>1, <4>2
    <3>3. CASE ~(n > Len(v1)) BY <1>2, <2>4, <3>3
    <3> QED BY <3>2, <3>3
  <2> QED BY <1>1, <1>2, <2>2, <2>3, <2>5, ExecutionGrows
<1>4. CASE Execution!FinishDestination(c)
  <2> DEFINE d == v11[c].d
             r == IF v1[d] # "STARTED" THEN v1[d]
                  ELSE IF Execution!At(c, "finish") THEN "SUCCEEDED" ELSE "FAILED"
  <2>1. v1' = [v1 EXCEPT ![d] = r] /\ v11' = [v11 EXCEPT ![c] = Execution!Idle]
        /\ UNCHANGED <<v2, v3, v4, v8>>
    BY <1>4 DEF Execution!FinishDestination, Execution!pubVars
  <2>2. Execution!Idle \in Execution!Seats /\ Execution!Idle.pc = "idle"
    BY DEF Execution!Idle, Execution!Seats, Execution!Labels
  <2>3. d \in 1..Len(v1) => v1[d] \in Execution!RunStatus BY <1>2, ElementOfSeq
  <2>4. d \in 1..Len(v1) => r \in Execution!RunStatus BY <2>3 DEF Execution!RunStatus
  <2> HIDE DEF d, r
  <2>5. v1' \in Seq(Execution!RunStatus) /\ Len(v1') = Len(v1)
    BY <1>2, <2>1, <2>4, RunWritten
  <2> QED BY <1>1, <1>2, <2>1, <2>2, <2>5, ExecutionGrows
<1> QED BY <1>3, <1>4

LEMMA ExecutionRuns ==
  ASSUME Execution!ExecInv, NEW e \in Execution!Executors,
         \/ e \in Preparers /\ Execution!StartPreparation(e)
         \/ Execution!ReadExecution(e) \/ Execution!InsertExecution(e)
  PROVE  Execution!ExecInv'
<1> USE DEF Execution!ExecInv
<1> DEFINE Goes == \E j \in Execution!Seats :
                     j.pc \notin {"insert", "ginsert"} /\ v11' = [v11 EXCEPT ![e] = j]
<1>1. /\ v1 \in Seq(Execution!RunStatus) /\ v2 \in Seq(Execution!ExecRuns)
      /\ v3 \in Seq(Execution!RunStatus) /\ v11[e] \in Execution!Seats
      /\ Execution!ReconciledBefore(Len(v2)) /\ Len(v2) \in Nat /\ v8 \in {0, 1}
  BY LineageLengths DEF Execution!RunShapes, Execution!LineagesReconciled
<1>2. ASSUME Goes, UNCHANGED <<v1, v2, v3, v4, v8>> PROVE Execution!ExecInv'
  BY <1>1, <1>2, ExecutionGoes
<1>3. {"read", "seo", "gen", "auth", "recover", "permit"}
        \subseteq Execution!Labels \ {"insert", "ginsert"}
  BY DEF Execution!Labels
<1>4. ASSUME NEW l \in Execution!Labels \ {"insert", "ginsert"}, Execution!Goto(e, l) PROVE Goes
  <2>1. 0 \in Nat OBVIOUS
  <2> QED BY <1>4, <2>1, ExecutionGoto DEF Execution!Goto
<1>5. CASE Execution!StartPreparation(e)
  <2>1. Goes BY <1>3, <1>4, <1>5 DEF Execution!StartPreparation
  <2>2. UNCHANGED <<v1, v2, v3, v4, v8>>
    BY <1>5 DEF Execution!StartPreparation, Execution!runVars, Execution!pubVars
  <2> QED BY <1>2, <2>1, <2>2
<1>6. CASE Execution!ReadExecution(e)
  <2> DEFINE n == Execution!next_attempt(Execution!ExecStatus)
             j == [v11[e] EXCEPT !.pc = "insert", !.x = n]
  <2>1. UNCHANGED <<v1, v2, v3, v4, v8>>
    BY <1>6 DEF Execution!ReadExecution, Execution!runVars, Execution!pubVars
  <2>2. CASE \E ok \in BOOLEAN : Execution!Ended(e, ok)
    <3>1. Goes BY <2>2, ExecutionEnds
    <3> QED BY <1>2, <2>1, <3>1
  <2>3. CASE Execution!Open(Execution!ExecStatus) /\ v11' = [v11 EXCEPT ![e] = j]
    <3>1. /\ Execution!ExecStatus \in Seq(Execution!RunStatus)
          /\ Len(Execution!ExecStatus) = Len(v2)
      BY <1>1, StatusLineage
    <3>2. n \in 1..(Len(v2) + 1) /\ Execution!ReconciledBefore(n)
      BY <1>1, <2>3, <3>1, OpenLineage
    <3>3. [v11[e] EXCEPT !.pc = "insert"] \in Execution!Seats
      BY <1>1 DEF Execution!Seats, Execution!Labels
    <3>4. n \in Nat BY <1>1, <3>2
    <3>5. j.pc = "insert" /\ j.x = n BY <1>1 DEF Execution!Seats
    <3> HIDE DEF n
    <3>6. \A w \in Execution!Seats : [w EXCEPT !.x = n] \in Execution!Seats
      BY <3>4 DEF Execution!Seats
    <3>7. j \in Execution!Seats BY <3>3, <3>6
    <3> HIDE DEF j
    <3> QED BY <2>1, <2>3, <3>2, <3>5, <3>7, ExecutionReads
  <2> QED BY <1>6, <2>2, <2>3 DEF Execution!ReadExecution
<1>7. CASE Execution!InsertExecution(e)
  <2> DEFINE x == v11[e].x
  <2>1. UNCHANGED <<v1, v3, v4, v8>>
    BY <1>7 DEF Execution!InsertExecution, Execution!pubVars
  <2>2. x \in 1..(Len(v2) + 1) /\ Execution!ReconciledBefore(x)
    BY <1>7 DEF Execution!InsertExecution, Execution!AttemptsRead
  <2>3. CASE x > Len(v2) /\ v2' = Append(v2, Execution!NewExec) /\ Execution!Goto(e, "seo")
    <3>1. x = Len(v2) + 1 BY <1>1, <2>2, <2>3
    <3>2. Execution!NewExec \in Execution!ExecRuns
      BY DEF Execution!NewExec, Execution!ExecRuns, Execution!RunStatus
    <3>3. v2' \in Seq(Execution!ExecRuns) /\ Len(v2') = Len(v2) + 1
      BY <1>1, <2>3, <3>2, AppendProperties
    <3>4. Goes BY <1>3, <1>4, <2>3
    <3> QED BY <1>1, <2>1, <2>2, <3>1, <3>3, <3>4, ExecutionGrows
  <2>4. CASE /\ x = Len(v2) /\ v2' = v2
             /\ v11' = [v11 EXCEPT ![e].pc = Execution!Resume(v2[x].stage), ![e].g = v2[x].gen]
    <3>1. v2[x] \in Execution!ExecRuns BY <1>1, <2>2, <2>4, ElementOfSeq
    <3>2. v2[x].stage \in 1..6 /\ v2[x].gen \in Nat BY <3>1 DEF Execution!ExecRuns
    <3>3. Execution!Resume(v2[x].stage) \in {"seo", "gen", "auth", "recover", "permit"}
      BY <3>2 DEF Execution!Resume
    <3>4. Execution!Resume(v2[x].stage) \in Execution!Labels \ {"insert", "ginsert"}
      BY <1>3, <3>3
    <3>5. Goes BY <2>4, <3>2, <3>4, ExecutionGoto
    <3> QED BY <1>2, <2>1, <2>4, <3>5
  <2>5. CASE v2' = v2 /\ Execution!Ended(e, FALSE)
    <3>1. Goes BY <2>5, ExecutionEnds
    <3> QED BY <1>2, <2>1, <2>5, <3>1
  <2> QED BY <1>7, <2>3, <2>4, <2>5 DEF Execution!InsertExecution
<1> QED BY <1>5, <1>6, <1>7

LEMMA ExecutionGenerates ==
  ASSUME Execution!ExecInv, NEW e \in Execution!Executors,
         Execution!ReadGeneration(e) \/ Execution!InsertGeneration(e)
  PROVE  Execution!ExecInv'
<1> USE DEF Execution!ExecInv
<1> DEFINE Goes == \E j \in Execution!Seats :
                     j.pc \notin {"insert", "ginsert"} /\ v11' = [v11 EXCEPT ![e] = j]
<1>1. /\ v1 \in Seq(Execution!RunStatus) /\ v2 \in Seq(Execution!ExecRuns)
      /\ v3 \in Seq(Execution!RunStatus) /\ v11[e] \in Execution!Seats
      /\ Execution!ReconciledBefore(Len(v3)) /\ Len(v3) \in Nat /\ v8 \in {0, 1}
  BY LineageLengths DEF Execution!RunShapes, Execution!LineagesReconciled
<1>2. ASSUME Goes, UNCHANGED <<v1, v2, v3, v4, v8>> PROVE Execution!ExecInv'
  BY <1>1, <1>2, ExecutionGoes
<1>3. {"stageG", "fail", "render"} \subseteq Execution!Labels \ {"insert", "ginsert"}
  BY DEF Execution!Labels
<1>4. ASSUME NEW l \in Execution!Labels \ {"insert", "ginsert"}, Execution!Goto(e, l) PROVE Goes
  <2>1. 0 \in Nat OBVIOUS
  <2> QED BY <1>4, <2>1, ExecutionGoto DEF Execution!Goto
<1>5. CASE Execution!ReadGeneration(e)
  <2> DEFINE n == Execution!next_attempt(v3)
             j == [v11[e] EXCEPT !.pc = "ginsert", !.g = n]
  <2>1. UNCHANGED <<v1, v2, v3, v4, v8>>
    BY <1>5 DEF Execution!ReadGeneration, Execution!runVars, Execution!pubVars
  <2>2. CASE v11' = [v11 EXCEPT ![e].pc = "stageG", ![e].g = Len(v3)]
    <3>1. Goes BY <1>1, <1>3, <2>2, ExecutionGoto
    <3> QED BY <1>2, <2>1, <3>1
  <2>3. CASE Execution!Open(v3) /\ v11' = [v11 EXCEPT ![e] = j]
    <3>2. n \in 1..(Len(v3) + 1) /\ Execution!ReconciledBefore(n)
      BY <1>1, <2>3, OpenLineage
    <3>3. [v11[e] EXCEPT !.pc = "ginsert"] \in Execution!Seats
      BY <1>1 DEF Execution!Seats, Execution!Labels
    <3>4. n \in Nat BY <1>1, <3>2
    <3>5. j.pc = "ginsert" /\ j.g = n BY <1>1 DEF Execution!Seats
    <3> HIDE DEF n
    <3>6. \A w \in Execution!Seats : [w EXCEPT !.g = n] \in Execution!Seats
      BY <3>4 DEF Execution!Seats
    <3>7. j \in Execution!Seats BY <3>3, <3>6
    <3> HIDE DEF j
    <3> QED BY <2>1, <2>3, <3>2, <3>5, <3>7, ExecutionReads
  <2>4. CASE Execution!Goto(e, "fail")
    <3>1. Goes BY <1>3, <1>4, <2>4
    <3> QED BY <1>2, <2>1, <3>1
  <2> QED BY <1>5, <2>2, <2>3, <2>4 DEF Execution!ReadGeneration, Execution!Open
<1>6. CASE Execution!InsertGeneration(e)
  <2> DEFINE g == v11[e].g
  <2>1. UNCHANGED <<v1, v2, v4, v8>>
    BY <1>6 DEF Execution!InsertGeneration, Execution!pubVars
  <2>2. g \in 1..(Len(v3) + 1) /\ Execution!ReconciledBefore(g)
    BY <1>6 DEF Execution!InsertGeneration, Execution!AttemptsRead
  <2>3. CASE g > Len(v3) /\ v3' = Append(v3, "STARTED") /\ Execution!Goto(e, "render")
    <3>1. g = Len(v3) + 1 BY <1>1, <2>2, <2>3
    <3>2. "STARTED" \in Execution!RunStatus BY DEF Execution!RunStatus
    <3>3. v3' \in Seq(Execution!RunStatus) /\ Len(v3') = Len(v3) + 1
      BY <1>1, <2>3, <3>2, AppendProperties
    <3>4. Goes BY <1>3, <1>4, <2>3
    <3> QED BY <1>1, <2>1, <2>2, <3>1, <3>3, <3>4, ExecutionGrows
  <2>4. CASE v3' = v3 /\ \E l \in {"stageG", "fail", "render"} : Execution!Goto(e, l)
    <3>1. Goes BY <1>3, <1>4, <2>4
    <3> QED BY <1>2, <2>1, <2>4, <3>1
  <2> QED BY <1>6, <2>3, <2>4 DEF Execution!InsertGeneration
<1> QED BY <1>5, <1>6

LEMMA ExecutionStep ==
  ASSUME Execution!ExecInv, Execution!Next \/ UNCHANGED Execution!execVars
  PROVE  Execution!ExecInv'
<1>1. CASE \E c \in Coordinators :
             Execution!StartDestination(c) \/ Execution!FinishDestination(c)
  BY <1>1, ExecutionDestination
<1>2. CASE \E b \in Preparers : Execution!StartPreparation(b)
  BY <1>2, ExecutionRuns DEF Execution!Executors
<1>3. CASE \E e \in Execution!Executors :
             Execution!ReadExecution(e) \/ Execution!InsertExecution(e)
  BY <1>3, ExecutionRuns
<1>4. CASE \E e \in Execution!Executors :
             Execution!ReadGeneration(e) \/ Execution!InsertGeneration(e)
  BY <1>4, ExecutionGenerates
<1>5. CASE \E e \in Execution!Executors :
             \/ Execution!_fail_run(e) \/ Execution!StageSeo(e) \/ Execution!StageGenerated(e)
             \/ Execution!StageAuthorized(e) \/ Execution!StagePublication(e)
             \/ Execution!StagePermitted(e) \/ Execution!Render(e) \/ Execution!RenderFails(e)
             \/ Execution!Authorize(e) \/ Execution!PolicyRefuses(e)
             \/ Execution!RecoverPublication(e) \/ Execution!create_snapshot(e)
             \/ Execution!auto_permit_publication(e) \/ Execution!ExecutorDies(e)
  BY <1>5, ExecutionWorks
<1>6. CASE \/ Execution!PublicationLeaves \/ Execution!reconcile_failed_run_chain
           \/ UNCHANGED Execution!execVars
  <2>1. UNCHANGED <<v1, v2, v3, v8, v11>> /\ v4 \subseteq v4'
    BY <1>6 DEF Execution!PublicationLeaves, Execution!reconcile_failed_run_chain,
       Execution!execVars, Execution!runVars, Execution!pubVars
  <2>2. Execution!RunShapes'
    BY <2>1 DEF Execution!ExecInv, Execution!RunShapes
  <2>3. Execution!LineagesReconciled'
    BY <2>1 DEF Execution!ExecInv, Execution!LineagesReconciled, Execution!ReconciledBefore
  <2>4. Len(v2) \in Nat /\ Len(v3) \in Nat BY LineageLengths DEF Execution!ExecInv
  <2> QED BY <2>1, <2>2, <2>3, <2>4, ExecutionMoves
<1> QED BY <1>1, <1>2, <1>3, <1>4, <1>5, <1>6 DEF Execution!Next

LEMMA ExecutionFocus ==
  ASSUME [ServicesNext]_allVars
  PROVE  focus' = focus /\ (focus = "execution" => Execution!Next \/ UNCHANGED Execution!execVars)
BY DEF ServicesNext, allVars, slots, Only, Execution!execVars

LEMMA ExecutionHolds == ServicesSpec => [](focus = "execution" => Execution!ExecInv)
<1>1. ServicesInit => (focus = "execution" => Execution!ExecInv)
  BY ExecutionStart DEF ServicesInit
<1>2. (focus = "execution" => Execution!ExecInv) /\ [ServicesNext]_allVars
        => (focus = "execution" => Execution!ExecInv)'
  BY ExecutionFocus, ExecutionStep
<1> QED BY <1>1, <1>2, PTL DEF ServicesSpec

(* However two executors, deaths and reconciled retries interleave, the        *)
(* approval of a plan item has at most one PinPublication: create_snapshot     *)
(* finds an earlier executor's row by its fingerprint and recovers that one.   *)
THEOREM ItemsArePublishedOnce == ServicesSpec => []OnePublication
<1>1. Execution!ExecInv => Execution!OnePublication
  BY DEF Execution!ExecInv, Execution!RunShapes, Execution!OnePublication
<1> QED BY <1>1, ExecutionHolds, PTL DEF OnePublication

(* No run of any kind is attempted afresh until an operator has reconciled the *)
(* failed chain of the attempt before it, whoever read the lineage and however *)
(* late the insert: latest_run and next_attempt_context.                       *)
THEOREM RetriesAreReconciled == ServicesSpec => []RetryReconciled
<1>1. Execution!ExecInv => Execution!RetryReconciled
  <2> SUFFICES ASSUME Execution!ExecInv PROVE Execution!RetryReconciled
    OBVIOUS
  <2>1. Len(Execution!ExecStatus) = Len(v2)
    BY StatusLineage DEF Execution!ExecInv, Execution!RunShapes
  <2> QED BY <2>1 DEF Execution!ExecInv, Execution!LineagesReconciled,
             Execution!ReconciledBefore, Execution!RetryReconciled
<1> QED BY <1>1, ExecutionHolds, PTL DEF RetryReconciled

-----------------------------------------------------------------------------
(* ContentReview.                                                              *)

(* In Review: cdraft is v1, approvals v4, snapshots v5, desk v6.               *)
LEMMA ReviewStart ==
  ASSUME Review!CRInit
  PROVE  Review!ReviewInv
<1>1. Review!NoDesk \in Review!Desks
  BY DEF Review!NoDesk, Review!Desks, Review!Versions
<1>2. v6 = [o \in Operators |-> Review!NoDesk] /\ v4 = {} /\ v5 = {}
  BY DEF Review!CRInit
<1>3. Review!DeskShapes /\ Review!Snapshotting /\ Review!Deciding
  BY <1>1, <1>2 DEF Review!DeskShapes, Review!Snapshotting, Review!Deciding, Review!NoDesk
<1>4. Review!ReviewTypeOK /\ Review!ReviewUndecided
  BY <1>2 DEF Review!ReviewTypeOK, Review!ReviewUndecided, Review!CRInit, Review!Versions,
              Review!Approved
<1> QED BY <1>3, <1>4 DEF Review!ReviewInv

(* A step at a desk that decides nothing: selecting, rejecting, leaving.       *)
LEMMA ReviewQuiet ==
  ASSUME Review!ReviewInv, NEW o \in Operators, NEW d \in Review!Desks,
         v6' = [v6 EXCEPT ![o] = d], UNCHANGED <<v1, v4, v5>>, Review!ReviewTypeOK',
         d.pc = "deciding" => d.decision \in {"APPROVED", "REJECTED"},
         d.pc = "snapshot" => Review!Approved # {}
  PROVE  Review!ReviewInv'
BY DEF Review!ReviewInv, Review!DeskShapes, Review!Deciding, Review!Snapshotting,
       Review!ReviewUndecided, Review!Approved

LEMMA ReviewQuietSteps ==
  ASSUME Review!ReviewInv, NEW o \in Operators,
         \/ Review!list_proposals(o) \/ Review!LeaveDesk(o) \/ Review!select_version(o)
         \/ Review!reject_image_background_revision(o)
         \/ \E d \in {"APPROVED", "REJECTED"} : Review!ReadDecision(o, d)
         \/ \E v \in Review!Versions : Review!ReadSelection(o, v)
         \/ \E v \in Backgrounds : Review!ReadRejection(o, v)
         \/ \E a \in Review!Approved : Review!ReadSnapshot(o, a)
  PROVE  Review!ReviewInv'
<1> USE DEF Review!ReviewInv
<1> DEFINE Sets(d) == v6' = [v6 EXCEPT ![o] = d]
<1>0. /\ v6[o] \in Review!Desks /\ Review!NoDesk \in Review!Desks /\ Review!NoDesk.pc = "idle"
      /\ v2 \in Review!Versions /\ Review!Artwork(v2) \in Review!Versions
  BY DEF Review!DeskShapes, Review!ReviewTypeOK, Review!NoDesk, Review!Desks, Review!Versions,
         Review!Revisions, Review!Artwork
<1>1. CASE Review!LeaveDesk(o) \/ Review!select_version(o)
           \/ Review!reject_image_background_revision(o)
  <2>1. Sets(Review!NoDesk) /\ UNCHANGED <<v1, v4, v5>>
    BY <1>1 DEF Review!LeaveDesk, Review!select_version, Review!reject_image_background_revision,
                Review!Close
  <2>2. v2' \in Review!Versions
    BY <1>0, <1>1 DEF Review!LeaveDesk, Review!select_version, Review!Desks, Review!Versions,
                Review!reject_image_background_revision
  <2>3. v3' \in [Review!Revisions -> {"NONE", "REVIEW", "REJECTED"}]
    BY <1>1 DEF Review!LeaveDesk, Review!select_version, Review!ReviewTypeOK,
                Review!reject_image_background_revision
  <2>4. Review!ReviewTypeOK' BY <2>1, <2>2, <2>3 DEF Review!ReviewTypeOK
  <2> QED BY <1>0, <2>1, <2>4, ReviewQuiet
<1>2. ASSUME NEW d \in Review!Desks, Sets(d), UNCHANGED <<v1, v2, v3, v4, v5>>,
             d.pc = "deciding" => d.decision \in {"APPROVED", "REJECTED"},
             d.pc = "snapshot" => Review!Approved # {}
      PROVE  Review!ReviewInv'
  <2>1. Review!ReviewTypeOK' BY <1>2 DEF Review!ReviewTypeOK
  <2> QED BY <1>2, <2>1, ReviewQuiet
<1>3. CASE Review!list_proposals(o)
  <2> DEFINE d == [Review!NoDesk EXCEPT !.pc = "looking", !.shown = Review!Artwork(v2)]
  <2>1. d \in Review!Desks /\ d.pc = "looking" BY <1>0 DEF Review!Desks
  <2> QED BY <1>2, <1>3, <2>1 DEF Review!list_proposals
<1>4. ASSUME NEW c \in {"APPROVED", "REJECTED"}, Review!ReadDecision(o, c)
      PROVE  Review!ReviewInv'
  <2> DEFINE d == [v6[o] EXCEPT !.pc = "deciding", !.decision = c, !.version = v2]
  <2>1. d \in Review!Desks /\ d.pc = "deciding" /\ d.decision = c BY <1>0 DEF Review!Desks
  <2>2. Sets(d) /\ UNCHANGED <<v1, v2, v3, v4, v5>>
    BY <1>4 DEF Review!ReadDecision, Review!DeskShapes
  <2> QED BY <1>2, <2>1, <2>2
<1>5. ASSUME NEW v \in Review!Versions, Review!ReadSelection(o, v)
      PROVE  Review!ReviewInv'
  <2> DEFINE d == [Review!NoDesk EXCEPT !.pc = "selecting", !.version = v, !.seen = v2]
  <2>1. d \in Review!Desks /\ d.pc = "selecting" BY <1>0 DEF Review!Desks
  <2> QED BY <1>2, <1>5, <2>1 DEF Review!ReadSelection
<1>6. ASSUME NEW v \in Backgrounds, Review!ReadRejection(o, v)
      PROVE  Review!ReviewInv'
  <2> DEFINE d == [Review!NoDesk EXCEPT !.pc = "rejecting", !.version = v, !.seen = v2]
  <2>1. d \in Review!Desks /\ d.pc = "rejecting"
    BY ZenonT(30), <1>0 DEF Review!Desks, Review!Versions, Review!Revisions
  <2> QED BY <1>2, <1>6, <2>1 DEF Review!ReadRejection
<1>7. ASSUME NEW a \in Review!Approved, Review!ReadSnapshot(o, a)
      PROVE  Review!ReviewInv'
  <2> DEFINE d == [Review!NoDesk EXCEPT !.pc = "snapshot", !.version = a.version,
                                        !.shown = a.creative]
  <2>1. a.version \in Review!Versions /\ a.creative \in Review!Versions
    BY <1>7 DEF Review!Approved, Review!DeskShapes
  <2>2. d \in Review!Desks /\ d.pc = "snapshot" BY <1>0, <2>1 DEF Review!Desks
  <2>3. Sets(d) /\ UNCHANGED <<v1, v2, v3, v4, v5>>
    BY <1>7 DEF Review!ReadSnapshot
  <2> QED BY <1>2, <1>7, <2>2, <2>3
<1> QED BY <1>1, <1>3, <1>4, <1>5, <1>6, <1>7

LEMMA ReviewStep ==
  ASSUME Review!ReviewInv, Review!CRNext \/ UNCHANGED Review!reviewVars
  PROVE  Review!ReviewInv'
<1> USE DEF Review!ReviewInv
<1>1. CASE UNCHANGED Review!reviewVars
  BY <1>1 DEF Review!reviewVars, Review!ReviewTypeOK, Review!DeskShapes, Review!Deciding,
     Review!Snapshotting, Review!ReviewUndecided, Review!Approved
<1>2. ASSUME NEW v \in Review!Revisions, Review!Regenerate(v)
      PROVE  Review!ReviewInv'
  BY <1>2 DEF Review!Regenerate, Review!ReviewTypeOK, Review!DeskShapes, Review!Deciding,
     Review!Snapshotting, Review!ReviewUndecided, Review!Approved
<1>3. CASE Review!return_to_review
  BY <1>3 DEF Review!return_to_review, Review!ReviewTypeOK, Review!DeskShapes,
     Review!Deciding, Review!Snapshotting, Review!ReviewUndecided, Review!Approved
<1>4. ASSUME NEW o \in Operators, Review!decide(o)
      PROVE  Review!ReviewInv'
  <2>1. /\ UNCHANGED <<v2, v3, v5>> /\ v1' \in {"APPROVED", "REJECTED"}
        /\ v6' = [v6 EXCEPT ![o] = Review!NoDesk]
    BY <1>4 DEF Review!decide, Review!Deciding, Review!Close
  <2>2. PICK a : /\ v4' = v4 \cup {a}
                 /\ \/ a = [decision |-> "REJECTED", version |-> "original", creative |-> "none"]
                    \/ a = [decision |-> "APPROVED", version |-> v6[o].version,
                            creative |-> v6[o].shown]
    BY <1>4 DEF Review!decide
  <2>3. Review!NoDesk \in Review!Desks /\ Review!NoDesk.pc = "idle"
    BY DEF Review!NoDesk, Review!Desks, Review!Versions
  <2>4. v6[o].version \in Review!Versions /\ v6[o].shown \in Review!Versions
    BY DEF Review!DeskShapes, Review!Desks
  <2>5. Review!DeskShapes'
    BY <2>1, <2>2, <2>3, <2>4 DEF Review!DeskShapes
  <2>6. Review!Deciding' /\ Review!Snapshotting'
    BY <2>1, <2>2, <2>3 DEF Review!Deciding, Review!Snapshotting, Review!Approved, Review!DeskShapes
  <2>7. Review!ReviewTypeOK' /\ Review!ReviewUndecided'
    BY <2>1 DEF Review!ReviewTypeOK, Review!ReviewUndecided
  <2> QED BY <2>5, <2>6, <2>7
<1>5. ASSUME NEW o \in Operators, Review!create_snapshot(o)
      PROVE  Review!ReviewInv'
  <2>1. /\ UNCHANGED <<v1, v2, v3, v4>> /\ v6[o].pc = "snapshot"
        /\ v6' = [v6 EXCEPT ![o] = Review!NoDesk]
        /\ v5' = v5 \cup {[version |-> v6[o].version, creative |-> v6[o].shown]}
    BY <1>5 DEF Review!create_snapshot, Review!Close
  <2>2. Review!Approved # {} /\ v1 # "REVIEW"
    BY <2>1 DEF Review!Snapshotting, Review!ReviewUndecided
  <2>3. Review!NoDesk \in Review!Desks /\ Review!NoDesk.pc = "idle"
    BY DEF Review!NoDesk, Review!Desks, Review!Versions
  <2>4. v6[o].version \in Review!Versions /\ v6[o].shown \in Review!Versions
    BY DEF Review!DeskShapes, Review!Desks
  <2>5. Review!DeskShapes' /\ Review!Deciding' /\ Review!Snapshotting'
    BY <2>1, <2>2, <2>3 DEF Review!DeskShapes, Review!Deciding, Review!Snapshotting, Review!Approved
  <2>6. Review!ReviewTypeOK' /\ Review!ReviewUndecided'
    BY <2>1, <2>2, <2>4 DEF Review!ReviewTypeOK, Review!ReviewUndecided
  <2> QED BY <2>5, <2>6
<1> QED BY <1>1, <1>2, <1>3, <1>4, <1>5, ReviewQuietSteps DEF Review!CRNext

LEMMA ReviewFocus ==
  ASSUME [ServicesNext]_allVars, focus' = "review"
  PROVE  focus = "review" /\ (Review!CRNext \/ UNCHANGED Review!reviewVars)
BY DEF ServicesNext, allVars, slots, Only, Review!reviewVars

(* A draft offered for decision has never been approved and has no             *)
(* publication, whatever other operators write between a desk's read and its   *)
(* write: reopening checks the approvals on record.                            *)
THEOREM ReviewsAreUndecided == ServicesSpec => []ReviewUndecided
<1> DEFINE I == focus = "review" => Review!ReviewInv
<1>1. ServicesInit => I
  BY ReviewStart DEF ServicesInit
<1>2. I /\ [ServicesNext]_allVars => I'
  BY ReviewStep, ReviewFocus
<1>3. I => ReviewUndecided
  BY DEF ReviewUndecided, Review!ReviewInv
<1> QED BY <1>1, <1>2, <1>3, PTL DEF ServicesSpec

-----------------------------------------------------------------------------
(* PaidGeneration.                                                             *)

(* In Paid: job is v1, holder v2, ledger v3, called v4, lost v5.               *)
LEMMA PaidStart ==
  ASSUME Paid!PGInit
  PROVE  Paid!PaidInv
BY BoundsAssumption DEF Paid!PGInit, Paid!PaidInv, Paid!PaidShapes, Paid!CallerHolds, Paid!CallsRecorded,
   Paid!PathWithinBudget, Paid!Recorded, Paid!Paths

LEMMA PaidMoves ==
  ASSUME Paid!PaidShapes, NEW j \in Jobs,
         NEW p \in {"new", "ready", "calling", "called", "done"},
         v1' = [v1 EXCEPT ![j].pc = p]
  PROVE  /\ v1' \in [Jobs -> [pc : {"new", "ready", "calling", "called", "done"},
                              path : Paid!Paths]]
         /\ v1'[j].pc = p /\ Paid!Path(j)' = Paid!Path(j)
         /\ \A i \in Jobs \ {j} : v1'[i] = v1[i]
BY DEF Paid!PaidShapes, Paid!Path

LEMMA PaidStep ==
  ASSUME Paid!PaidInv, Paid!PGNext \/ UNCHANGED Paid!paidVars
  PROVE  Paid!PaidInv'
<1> USE BoundsAssumption DEF Paid!PaidInv
<1>0. \A j \in Jobs : Paid!Path(j) \in Paid!Paths
  BY DEF Paid!Path, Paid!PaidShapes
<1>1. CASE UNCHANGED Paid!paidVars
  BY <1>1 DEF Paid!paidVars, Paid!PaidShapes, Paid!CallerHolds, Paid!CallsRecorded,
              Paid!PathWithinBudget, Paid!Recorded, Paid!Path
<1>2. ASSUME NEW j \in Jobs, NEW path \in Paid!Paths, Paid!RequestGeneration(j, path)
      PROVE  Paid!PaidInv'
  <2>1. Paid!PaidShapes'
    BY <1>2 DEF Paid!RequestGeneration, Paid!PaidShapes
  <2>2. \A i \in Jobs : v1[i].pc \in {"calling", "called"} \/ v1'[i].pc \in {"calling", "called"}
                          => v1'[i] = v1[i]
    BY <1>2 DEF Paid!RequestGeneration, Paid!PaidShapes
  <2>3. Paid!CallerHolds' /\ Paid!CallsRecorded' /\ Paid!PathWithinBudget'
    BY <1>2, <2>2 DEF Paid!RequestGeneration, Paid!CallerHolds, Paid!CallsRecorded,
                      Paid!PathWithinBudget, Paid!Recorded, Paid!Path
  <2> QED BY <2>1, <2>3
<1>3. ASSUME NEW j \in Jobs, Paid!GenerateUnpaid(j) \/ Paid!Preflight(j)
      PROVE  Paid!PaidInv'
  <2>1. PICK p \in {"done", "calling"} : v1' = [v1 EXCEPT ![j].pc = p]
    BY <1>3 DEF Paid!GenerateUnpaid, Paid!Preflight, Paid!Done
  <2>2. /\ v1' \in [Jobs -> [pc : {"new", "ready", "calling", "called", "done"},
                             path : Paid!Paths]]
        /\ v1'[j].pc = p /\ Paid!Path(j)' = Paid!Path(j)
        /\ \A i \in Jobs \ {j} : v1'[i] = v1[i]
    BY <2>1, PaidMoves
  <2>3. /\ v1[j].pc = "ready" /\ UNCHANGED <<v3, v4, v5>>
        /\ \/ p = "done" /\ UNCHANGED v2
           \/ /\ v2[Paid!Path(j)] = "free" /\ v2' = [v2 EXCEPT ![Paid!Path(j)] = j]
              /\ Paid!Recorded(Paid!Path(j)) + 1 <= Budget
    BY <1>0, <1>3, <2>1 DEF Paid!GenerateUnpaid, Paid!Preflight, Paid!Done, Paid!_spend, Paid!Recorded,
       Paid!Free, Paid!PaidShapes
  <2>4. Paid!PaidShapes'
    BY <1>0, <2>2, <2>3 DEF Paid!PaidShapes
  <2>5. Paid!CallerHolds'
    BY <1>0, <2>2, <2>3, NamesAssumption DEF Paid!CallerHolds, Paid!PaidShapes, Paid!Path, Paid!Recorded
  <2>6. Paid!CallsRecorded' /\ Paid!PathWithinBudget'
    BY <2>2, <2>3 DEF Paid!CallsRecorded, Paid!PathWithinBudget, Paid!Recorded, Paid!Path
  <2> QED BY <2>4, <2>5, <2>6
<1>4. ASSUME NEW j \in Jobs, Paid!Block(j)
      PROVE  Paid!PaidInv'
  <2>1. v1[j].pc = "ready" /\ v2[Paid!Path(j)] = "free" /\ UNCHANGED <<v2, v4, v5>>
        /\ v1' = [v1 EXCEPT ![j].pc = "done"]
    BY <1>4 DEF Paid!Block, Paid!Done, Paid!Free
  <2>2. /\ v1' \in [Jobs -> [pc : {"new", "ready", "calling", "called", "done"},
                             path : Paid!Paths]]
        /\ v1'[j].pc = "done" /\ Paid!Path(j)' = Paid!Path(j)
        /\ \A i \in Jobs \ {j} : v1'[i] = v1[i]
    BY <2>1, PaidMoves
  <2>3. /\ v3' \in [copy : Nat, attempt : Nat, blocked : Nat]
        /\ \A p \in Paid!Paths : Paid!Recorded(p)' >= Paid!Recorded(p)
        /\ \A p \in Paid!Paths \ {Paid!Path(j)} : Paid!Recorded(p)' = Paid!Recorded(p)
    BY <1>4 DEF Paid!Block, Paid!Recorded, Paid!PaidShapes, Paid!Paths
  <2>4. Paid!PaidShapes'
    BY <1>0, <2>1, <2>2, <2>3 DEF Paid!PaidShapes
  <2>5. Paid!CallerHolds'
    BY <1>0, <2>1, <2>2, <2>3, NamesAssumption DEF Paid!CallerHolds, Paid!Path
  <2>6. Paid!CallsRecorded' /\ Paid!PathWithinBudget'
    <3>1. \A p \in Paid!Paths : Paid!Recorded(p) \in Nat /\ Paid!Recorded(p)' \in Nat
                                /\ v4[p] \in Nat /\ v5[p] \in Nat
      BY <2>3 DEF Paid!Recorded, Paid!PaidShapes
    <3> QED BY <2>1, <2>2, <2>3, <3>1 DEF Paid!CallsRecorded, Paid!PathWithinBudget, Paid!Path
  <2> QED BY <2>4, <2>5, <2>6
<1>5. ASSUME NEW j \in Jobs, Paid!CallProvider(j)
      PROVE  Paid!PaidInv'
  <2>1. v1[j].pc = "calling" /\ UNCHANGED <<v2, v3, v5>>
        /\ v1' = [v1 EXCEPT ![j].pc = "called"]
        /\ v4' = [v4 EXCEPT ![Paid!Path(j)] = @ + 1]
    BY <1>5 DEF Paid!CallProvider
  <2>2. /\ v1' \in [Jobs -> [pc : {"new", "ready", "calling", "called", "done"},
                             path : Paid!Paths]]
        /\ v1'[j].pc = "called" /\ Paid!Path(j)' = Paid!Path(j)
        /\ \A i \in Jobs \ {j} : v1'[i] = v1[i]
    BY <2>1, PaidMoves
  <2>3. \A i \in Jobs : v1[i].pc = "called" => Paid!Path(i) # Paid!Path(j)
    BY <2>1 DEF Paid!CallerHolds
  <2>4. Paid!PaidShapes'
    BY <1>0, <2>1, <2>2 DEF Paid!PaidShapes
  <2>5. Paid!CallerHolds'
    BY <1>0, <2>1, <2>2 DEF Paid!CallerHolds, Paid!Path, Paid!Recorded
  <2>6. ASSUME NEW p \in Paid!Paths
        PROVE  /\ v4'[p] - v5'[p] <= Budget
               /\ \/ v4'[p] - v5'[p] <= Paid!Recorded(p)'
                  \/ /\ v4'[p] - v5'[p] <= Paid!Recorded(p)' + 1
                     /\ \E i \in Jobs : v1'[i].pc = "called" /\ Paid!Path(i)' = p
    <3>1. Paid!Recorded(p) \in Nat /\ v4[p] \in Nat /\ v5[p] \in Nat
          /\ Paid!Recorded(p)' = Paid!Recorded(p)
      BY <2>1 DEF Paid!Recorded, Paid!PaidShapes
    <3>2. CASE p = Paid!Path(j)
      <4>1. v4[p] - v5[p] <= Paid!Recorded(p) /\ Paid!Recorded(p) + 1 <= Budget
        BY <2>1, <2>3, <3>2 DEF Paid!CallsRecorded, Paid!CallerHolds
      <4>2. v4'[p] = v4[p] + 1 /\ v5'[p] = v5[p]
        BY <2>1, <3>2 DEF Paid!PaidShapes
      <4> QED BY <2>2, <3>1, <3>2, <4>1, <4>2
    <3>3. CASE p # Paid!Path(j)
      <4>1. v4'[p] = v4[p] /\ v5'[p] = v5[p]
        BY <2>1, <3>3 DEF Paid!PaidShapes
      <4>2. \A i \in Jobs : v1[i].pc = "called" /\ Paid!Path(i) = p
                              => v1'[i].pc = "called" /\ Paid!Path(i)' = p
        BY <2>2, <3>3 DEF Paid!Path
      <4> QED BY <3>1, <4>1, <4>2 DEF Paid!CallsRecorded, Paid!PathWithinBudget
    <3> QED BY <3>2, <3>3
  <2> QED BY <2>4, <2>5, <2>6 DEF Paid!CallsRecorded, Paid!PathWithinBudget
<1>6. ASSUME NEW j \in Jobs, Paid!Commit(j) \/ Paid!Rollback(j)
      PROVE  Paid!PaidInv'
  <2>1. v1[j].pc \in {"calling", "called"}
        /\ v1' = [v1 EXCEPT ![j].pc = "done"]
        /\ v2' = [v2 EXCEPT ![Paid!Path(j)] = "free"] /\ UNCHANGED v4
    BY <1>6 DEF Paid!Commit, Paid!Rollback, Paid!Done, Paid!Unlock, Paid!Free
  <2>2. /\ v1' \in [Jobs -> [pc : {"new", "ready", "calling", "called", "done"},
                             path : Paid!Paths]]
        /\ v1'[j].pc = "done" /\ Paid!Path(j)' = Paid!Path(j)
        /\ \A i \in Jobs \ {j} : v1'[i] = v1[i]
    BY <2>1, PaidMoves
  <2>3. \A i \in Jobs \ {j} : v1[i].pc \in {"calling", "called"} => Paid!Path(i) # Paid!Path(j)
    BY <2>1 DEF Paid!CallerHolds
  <2>4. /\ v3' \in [copy : Nat, attempt : Nat, blocked : Nat]
        /\ \A p \in Paid!Paths : Paid!Recorded(p)' \in Nat
        /\ \A p \in Paid!Paths \ {Paid!Path(j)} : Paid!Recorded(p)' = Paid!Recorded(p)
    <3>1. CASE Paid!Commit(j)
      BY <1>0, <3>1 DEF Paid!Commit, Paid!Recorded, Paid!PaidShapes, Paid!Paths
    <3>2. CASE Paid!Rollback(j)
      BY <3>2 DEF Paid!Rollback, Paid!Recorded, Paid!PaidShapes
    <3> QED BY <1>6, <3>1, <3>2
  <2>5. v5' \in [Paid!Paths -> Nat] /\ (\A p \in Paid!Paths \ {Paid!Path(j)} : v5'[p] = v5[p])
        /\ v5'[Paid!Path(j)] >= v5[Paid!Path(j)]
    BY <1>0, <1>6 DEF Paid!Commit, Paid!Rollback, Paid!PaidShapes
  <2>6. ASSUME NEW p \in Paid!Paths, p = Paid!Path(j), v1[j].pc = "called"
        PROVE  \/ Paid!Recorded(p)' = Paid!Recorded(p) + 1 /\ v5'[p] = v5[p]
               \/ Paid!Recorded(p)' = Paid!Recorded(p) /\ v5'[p] = v5[p] + 1
    <3>1. CASE Paid!Commit(j)
      BY <2>6, <3>1 DEF Paid!Commit, Paid!Recorded, Paid!PaidShapes, Paid!Paths
    <3>2. CASE Paid!Rollback(j)
      BY <2>6, <3>2 DEF Paid!Rollback, Paid!Recorded, Paid!PaidShapes
    <3> QED BY <1>6, <3>1, <3>2
  <2>7. v1[j].pc = "calling" => UNCHANGED <<v3, v5>>
    BY <1>6 DEF Paid!Commit, Paid!Rollback
  <2>8. Paid!PaidShapes'
    BY <1>0, <2>1, <2>2, <2>4, <2>5 DEF Paid!PaidShapes, Paid!Free
  <2>9. Paid!CallerHolds'
    BY <1>0, <2>1, <2>2, <2>3, <2>4 DEF Paid!CallerHolds, Paid!Path, Paid!PaidShapes
  <2>10. ASSUME NEW p \in Paid!Paths
         PROVE  /\ v4'[p] - v5'[p] <= Budget
                /\ \/ v4'[p] - v5'[p] <= Paid!Recorded(p)'
                   \/ /\ v4'[p] - v5'[p] <= Paid!Recorded(p)' + 1
                      /\ \E i \in Jobs : v1'[i].pc = "called" /\ Paid!Path(i)' = p
    <3>1. Paid!Recorded(p) \in Nat /\ Paid!Recorded(p)' \in Nat
          /\ v4'[p] = v4[p] /\ v4[p] \in Nat /\ v5[p] \in Nat /\ v5'[p] \in Nat
      BY <2>1, <2>4, <2>5 DEF Paid!Recorded, Paid!PaidShapes
    <3>2. v4[p] - v5[p] <= Budget /\ v4[p] - v5[p] <= Paid!Recorded(p) + 1
      BY <3>1 DEF Paid!CallsRecorded, Paid!PathWithinBudget
    <3>3. CASE p = Paid!Path(j) /\ v1[j].pc = "called"
      BY <2>6, <3>1, <3>2, <3>3
    <3>4. CASE p = Paid!Path(j) /\ v1[j].pc = "calling"
      <4>1. v4[p] - v5[p] <= Paid!Recorded(p)
        BY <2>3, <3>4 DEF Paid!CallsRecorded
      <4>2. v5'[p] = v5[p] /\ Paid!Recorded(p)' = Paid!Recorded(p)
        BY <2>7, <3>4 DEF Paid!Recorded
      <4> QED BY <3>1, <3>2, <4>1, <4>2
    <3>5. CASE p # Paid!Path(j)
      <4>1. v5'[p] = v5[p] /\ Paid!Recorded(p)' = Paid!Recorded(p)
        BY <2>4, <2>5, <3>5
      <4>2. \A i \in Jobs : v1[i].pc = "called" /\ Paid!Path(i) = p
                              => v1'[i].pc = "called" /\ Paid!Path(i)' = p
        BY <2>2, <3>5 DEF Paid!Path
      <4> QED BY <3>1, <3>2, <4>1, <4>2 DEF Paid!CallsRecorded
    <3> QED BY <2>1, <3>3, <3>4, <3>5
  <2> QED BY <2>8, <2>9, <2>10 DEF Paid!CallsRecorded, Paid!PathWithinBudget
<1> QED BY <1>1, <1>2, <1>3, <1>4, <1>5, <1>6 DEF Paid!PGNext

LEMMA PaidFocus ==
  ASSUME [ServicesNext]_allVars, focus' = "paid"
  PROVE  focus = "paid" /\ (Paid!PGNext \/ UNCHANGED Paid!paidVars)
BY DEF ServicesNext, allVars, slots, Only, Paid!paidVars

(* However requests overlap, each path keeps its own paid calls within the     *)
(* day's budget, apart from those whose record was rolled back: the advisory   *)
(* lock is held from the count to the commit of the record.                    *)
THEOREM PathsKeepTheirBudget == ServicesSpec => []PathWithinBudget
<1> DEFINE I == focus = "paid" => Paid!PaidInv
<1>1. ServicesInit => I
  BY PaidStart DEF ServicesInit
<1>2. I /\ [ServicesNext]_allVars => I'
  BY PaidStep, PaidFocus
<1>3. I => PathWithinBudget
  BY DEF PathWithinBudget, Paid!PaidInv
<1> QED BY <1>1, <1>2, <1>3, PTL DEF ServicesSpec

-----------------------------------------------------------------------------
(* StorageReadiness.                                                           *)

(* In Readiness: admitted is v1, outcome v2, post v3, expired v4, business v5, *)
(* probe v6, object v7, launches v8.                                           *)
LEMMA ReadyStart ==
  ASSUME Readiness!SRInit
  PROVE  Readiness!ReadyInv
BY DEF Readiness!SRInit, Readiness!ReadyInv, Readiness!ReadinessTypeOK, Readiness!ReadyShapes,
       Readiness!OneConsumes, Readiness!LaunchedOnce, Readiness!Acknowledged,
       Readiness!PassTraced, Readiness!Consumed, Readiness!IdlePost, Readiness!NoProbe,
       Readiness!Stages

(* The probe's own steps: none of them starts one, and only the absence, seen  *)
(* after an acknowledged upload, makes a PASS.                                 *)
LEMMA ReadyProbes ==
  ASSUME Readiness!ReadyInv,
         \/ Readiness!Preflight \/ Readiness!Write \/ Readiness!ReadBack \/ Readiness!Delete
         \/ Readiness!fresh_absence \/ Readiness!Finally \/ Readiness!LateUpload
  PROVE  Readiness!ReadyInv'
<1> USE DEF Readiness!ReadyInv
<1>1. /\ UNCHANGED <<v1, v2, v3, v4, v5, v8>>
      /\ v6' = v6 \/ (v6.at \notin {"none", "exited"} /\ v6.receipt # "PASS")
  BY DEF Readiness!Preflight, Readiness!Write, Readiness!ReadBack, Readiness!Delete,
     Readiness!fresh_absence, Readiness!Finally, Readiness!LateUpload, Readiness!ParentSame,
     Readiness!Acknowledged
<1>2. v6' \in [at : Readiness!Stages, ack : BOOLEAN, receipt : {"none", "PASS", "FAILED", "BLOCKED"}]
  BY DEF Readiness!Preflight, Readiness!Write, Readiness!ReadBack, Readiness!Delete,
     Readiness!fresh_absence, Readiness!Finally, Readiness!LateUpload, Readiness!ProbeStep,
     Readiness!ProbeSays, Readiness!ReadyShapes, Readiness!Stages
<1>3. v7' \in {"absent", "pending", "present"}
  BY DEF Readiness!Preflight, Readiness!Write, Readiness!ReadBack, Readiness!Delete,
     Readiness!fresh_absence, Readiness!Finally, Readiness!LateUpload, Readiness!Deleted,
     Readiness!ReadinessTypeOK
<1>4. Readiness!Acknowledged'
  BY DEF Readiness!Preflight, Readiness!Write, Readiness!ReadBack, Readiness!Delete,
     Readiness!fresh_absence, Readiness!Finally, Readiness!LateUpload, Readiness!ProbeStep,
     Readiness!ProbeSays, Readiness!Deleted, Readiness!Acknowledged, Readiness!ReadyShapes,
     Readiness!ReadinessTypeOK, Readiness!Stages
<1>5. Readiness!ReadinessTypeOK' /\ Readiness!ReadyShapes'
  BY <1>1, <1>2, <1>3 DEF Readiness!ReadinessTypeOK, Readiness!ReadyShapes
<1>6. Readiness!OneConsumes'
  BY <1>1 DEF Readiness!OneConsumes, Readiness!Consumed
<1>7. Readiness!LaunchedOnce'
  BY <1>1 DEF Readiness!LaunchedOnce, Readiness!NoProbe
<1>8. Readiness!PassTraced'
  BY <1>1 DEF Readiness!PassTraced
<1> QED BY <1>4, <1>5, <1>6, <1>7, <1>8

(* A step of a request that leaves the probe alone, keeps what it has consumed *)
(* or gives it up, and traces its result to the receipt.                       *)
LEMMA ReadyWaits ==
  ASSUME Readiness!ReadyInv, NEW p \in Posts,
         NEW c \in {"idle", "consume", "recheck", "compare", "finish"},
         NEW b \in Nat, NEW r \in {"none", "PASS", "FAILED", "UNKNOWN"},
         v3' = [v3 EXCEPT ![p] = [pc |-> c, base |-> b, result |-> r]],
         v2' \in {v2, v3[p].result}, v2' \in {"none", "PASS", "FAILED", "UNKNOWN"},
         UNCHANGED <<v5, v6, v7, v8>>,
         c \in {"compare", "finish"} => Readiness!Consumed(p),
         c = "recheck" => ~v1 /\ v1',
         v1 => v1', c \in {"idle", "consume"} \/ v1',
         r = "PASS" => v6.receipt = "PASS"
  PROVE  Readiness!ReadyInv'
<1> USE DEF Readiness!ReadyInv
<1>1. Readiness!ReadinessTypeOK' /\ Readiness!ReadyShapes'
  BY DEF Readiness!ReadinessTypeOK, Readiness!ReadyShapes
<1>2. Readiness!OneConsumes'
  BY DEF Readiness!ReadyShapes, Readiness!OneConsumes, Readiness!Consumed
<1>3. Readiness!LaunchedOnce'
  BY DEF Readiness!ReadyShapes, Readiness!OneConsumes, Readiness!LaunchedOnce, Readiness!NoProbe
<1>4. Readiness!Acknowledged' /\ Readiness!PassTraced'
  BY DEF Readiness!ReadyShapes, Readiness!Acknowledged, Readiness!PassTraced
<1> QED BY <1>1, <1>2, <1>3, <1>4

LEMMA ReadyRequests ==
  ASSUME Readiness!ReadyInv, NEW p \in Posts,
         \/ Readiness!verify_authorization(p) \/ Readiness!consume(p) \/ Readiness!ReadChild(p)
         \/ Readiness!CompareBaseline(p) \/ Readiness!finish(p) \/ Readiness!PostDies(p)
         \/ Readiness!launch_probe(p) /\ UNCHANGED v8
  PROVE  Readiness!ReadyInv'
<1> USE DEF Readiness!ReadyInv
<1>0. /\ v3[p] \in [pc : {"idle", "consume", "recheck", "running", "compare", "finish"},
                     base : Nat, result : {"none", "PASS", "FAILED", "UNKNOWN"}]
      /\ v5 \in Nat /\ v2 \in {"none", "PASS", "FAILED", "UNKNOWN"}
      /\ v3[p].result = "PASS" => v6.receipt = "PASS"
      /\ Readiness!Consumed(p) => v1
  BY DEF Readiness!ReadyShapes, Readiness!ReadinessTypeOK, Readiness!PassTraced,
     Readiness!OneConsumes
<1> DEFINE Now(c, b, r) == v3' = [v3 EXCEPT ![p] = [pc |-> c, base |-> b, result |-> r]]
<1>1. CASE \/ Readiness!PostDies(p) \/ Readiness!finish(p)
           \/ Readiness!consume(p) /\ v3' = [v3 EXCEPT ![p] = Readiness!IdlePost]
  <2>1. Now("idle", 0, "none") /\ UNCHANGED <<v5, v6, v7, v8>> /\ (v1 => v1')
    BY <1>1 DEF Readiness!PostDies, Readiness!finish, Readiness!consume, Readiness!Refuse,
       Readiness!ProbeSame, Readiness!IdlePost
  <2>2. v2' \in {v2, v3[p].result}
    BY <1>1 DEF Readiness!PostDies, Readiness!finish, Readiness!consume
  <2> QED BY <1>0, <2>1, <2>2, ReadyWaits
<1>2. CASE Readiness!verify_authorization(p)
  <2>1. Now("consume", v5, "none") /\ UNCHANGED <<v1, v2, v5, v6, v7, v8>>
    <3>0. v5 \in Nat BY <1>0
    <3>1. ASSUME NEW j, j = [Readiness!IdlePost EXCEPT !.pc = "consume", !.base = v5]
          PROVE  j = [pc |-> "consume", base |-> v5, result |-> "none"]
      BY <3>0, <3>1 DEF Readiness!IdlePost
    <3> QED BY <1>2, <3>1 DEF Readiness!verify_authorization, Readiness!ProbeSame
  <2> QED BY <1>0, <2>1, ReadyWaits
<1>3. CASE Readiness!consume(p) /\ v3' = [v3 EXCEPT ![p].pc = "recheck"]
  <2>1. v3[p].pc = "consume" BY <1>3 DEF Readiness!consume
  <2>2. v3' # [v3 EXCEPT ![p] = Readiness!IdlePost]
    BY <1>3 DEF Readiness!ReadyShapes, Readiness!IdlePost
  <2>3. ~v1 /\ v1' /\ UNCHANGED <<v2, v5, v6, v7, v8>>
    BY <1>3, <2>2 DEF Readiness!consume, Readiness!Refuse, Readiness!ProbeSame
  <2>4. Now("recheck", v3[p].base, v3[p].result)
    <3>1. [v3[p] EXCEPT !.pc = "recheck"]
          = [pc |-> "recheck", base |-> v3[p].base, result |-> v3[p].result]
      BY <1>0
    <3> QED BY <1>3, <3>1
  <2> QED BY <1>0, <2>3, <2>4, ReadyWaits
<1>4. CASE Readiness!ReadChild(p)
  <2>1. PICK r \in {Readiness!validate_receipt(v6.receipt), "UNKNOWN"} :
            v3' = [v3 EXCEPT ![p].pc = "compare", ![p].result = r]
    BY <1>4 DEF Readiness!ReadChild
  <2>2. r \in {"PASS", "FAILED", "UNKNOWN"} /\ (r = "PASS" => v6.receipt = "PASS")
    BY <2>1 DEF Readiness!validate_receipt
  <2>3. Now("compare", v3[p].base, r) /\ Readiness!Consumed(p)
    <3>1. ASSUME NEW j, j = [v3[p] EXCEPT !.pc = "compare", !.result = r]
          PROVE  j = [pc |-> "compare", base |-> v3[p].base, result |-> r]
      BY <1>0, <3>1
    <3>2. v3' = [v3 EXCEPT ![p] = [v3[p] EXCEPT !.pc = "compare", !.result = r]]
      BY <2>1
    <3> QED BY <1>4, <3>1, <3>2 DEF Readiness!ReadChild, Readiness!Consumed
  <2>4. UNCHANGED <<v1, v2, v5, v6, v7, v8>>
    BY <1>4 DEF Readiness!ReadChild, Readiness!ProbeSame
  <2> QED BY <1>0, <2>2, <2>3, <2>4, ReadyWaits
<1>5. CASE Readiness!CompareBaseline(p)
  <2> DEFINE r == IF v5 = v3[p].base THEN v3[p].result ELSE "UNKNOWN"
  <2>1. Now("finish", v3[p].base, r) /\ Readiness!Consumed(p)
    <3>1. ASSUME NEW j, j = [v3[p] EXCEPT !.pc = "finish", !.result = r]
          PROVE  j = [pc |-> "finish", base |-> v3[p].base, result |-> r]
      BY <1>0, <3>1
    <3>2. v3' = [v3 EXCEPT ![p] = [v3[p] EXCEPT !.pc = "finish", !.result = r]]
      BY <1>5 DEF Readiness!CompareBaseline
    <3> QED BY <1>5, <3>1, <3>2 DEF Readiness!CompareBaseline, Readiness!Consumed
  <2>2. UNCHANGED <<v1, v2, v5, v6, v7, v8>>
    BY <1>5 DEF Readiness!CompareBaseline, Readiness!ProbeSame
  <2> QED BY ZenonT(30), <1>0, <2>1, <2>2, ReadyWaits
<1>6. CASE Readiness!launch_probe(p) /\ UNCHANGED v8
  <2>1. Now("compare", v3[p].base, "UNKNOWN") /\ Readiness!Consumed(p)
        /\ UNCHANGED <<v1, v2, v5, v6, v7>>
    BY <1>0, <1>6 DEF Readiness!launch_probe, Readiness!ReadyShapes, Readiness!Consumed
  <2> QED BY <1>0, <1>6, <2>1, ReadyWaits
<1>7. Readiness!consume(p) => \/ v3' = [v3 EXCEPT ![p] = Readiness!IdlePost]
                             \/ v3' = [v3 EXCEPT ![p].pc = "recheck"]
  BY DEF Readiness!consume, Readiness!Refuse
<1> QED BY <1>1, <1>2, <1>3, <1>4, <1>5, <1>6, <1>7

LEMMA ReadyStep ==
  ASSUME Readiness!ReadyInv, Readiness!SRNext \/ UNCHANGED Readiness!readyVars
  PROVE  Readiness!ReadyInv'
<1> USE DEF Readiness!ReadyInv
<1>1. ASSUME NEW p \in Posts, Readiness!launch_probe(p), v8' # v8
      PROVE  Readiness!ReadyInv'
  <2>1. /\ v3[p].pc = "recheck" /\ v8 = 0 /\ v8' = 1 /\ UNCHANGED <<v1, v2, v4, v5, v7>>
        /\ v3' = [v3 EXCEPT ![p].pc = "running"]
        /\ v6' = [Readiness!NoProbe EXCEPT !.at = "preflight"]
    BY <1>1 DEF Readiness!launch_probe, Readiness!LaunchedOnce
  <2>2. v6 = Readiness!NoProbe BY <2>1 DEF Readiness!LaunchedOnce
  <2>3. Readiness!ReadinessTypeOK' /\ Readiness!ReadyShapes'
    BY <2>1 DEF Readiness!ReadinessTypeOK, Readiness!ReadyShapes, Readiness!NoProbe,
       Readiness!Stages
  <2>4. Readiness!OneConsumes' /\ Readiness!LaunchedOnce'
    BY <2>1 DEF Readiness!ReadyShapes, Readiness!OneConsumes, Readiness!LaunchedOnce,
       Readiness!Consumed
  <2>5. Readiness!Acknowledged' /\ Readiness!PassTraced'
    BY <2>1, <2>2 DEF Readiness!ReadyShapes, Readiness!Acknowledged, Readiness!PassTraced,
       Readiness!NoProbe
  <2> QED BY <2>3, <2>4, <2>5
<1>2. ASSUME NEW p \in Posts, Readiness!_stop_process(p)
      PROVE  Readiness!ReadyInv'
  <2>1. /\ v3[p].pc = "running" /\ v6.at # "exited" /\ UNCHANGED <<v1, v2, v4, v5, v7, v8>>
        /\ \/ v3' = v3 \/ v3' = [v3 EXCEPT ![p].pc = "compare", ![p].result = "UNKNOWN"]
    BY <1>2 DEF Readiness!_stop_process
  <2>2. /\ v6'.at \in {"exited", "finally"} /\ v6'.receipt \in {"none", "FAILED"}
        /\ v6' \in [at : Readiness!Stages, ack : BOOLEAN,
                    receipt : {"none", "PASS", "FAILED", "BLOCKED"}]
    BY <1>2 DEF Readiness!_stop_process, Readiness!ReadyShapes, Readiness!Stages
  <2>3. v6.receipt # "PASS" BY <2>1 DEF Readiness!Acknowledged
  <2>4. v8 # 0
    BY <2>1 DEF Readiness!LaunchedOnce
  <2>5. Readiness!ReadinessTypeOK' /\ Readiness!ReadyShapes'
    BY <2>1, <2>2 DEF Readiness!ReadinessTypeOK, Readiness!ReadyShapes
  <2>6. Readiness!OneConsumes' /\ Readiness!LaunchedOnce'
    BY <2>1, <2>4 DEF Readiness!ReadyShapes, Readiness!OneConsumes, Readiness!LaunchedOnce,
       Readiness!Consumed
  <2>7. Readiness!Acknowledged' /\ Readiness!PassTraced'
    BY <2>1, <2>2, <2>3 DEF Readiness!ReadyShapes, Readiness!Acknowledged, Readiness!PassTraced
  <2> QED BY <2>5, <2>6, <2>7
<1>3. ASSUME UNCHANGED <<v1, v2, v3, v6, v7, v8>>, v5' \in Nat
      PROVE  Readiness!ReadyInv'
  BY <1>3 DEF Readiness!ReadinessTypeOK, Readiness!ReadyShapes, Readiness!OneConsumes,
     Readiness!LaunchedOnce, Readiness!Acknowledged, Readiness!PassTraced, Readiness!Consumed
<1>4. ASSUME \/ \E p \in Posts : Readiness!GrantExpires(p)
             \/ Readiness!BusinessMoves \/ UNCHANGED Readiness!readyVars
      PROVE  Readiness!ReadyInv'
  BY <1>3, <1>4 DEF Readiness!GrantExpires, Readiness!BusinessMoves, Readiness!readyVars,
     Readiness!ProbeSame, Readiness!ReadyShapes
<1> QED
  BY <1>1, <1>2, <1>4, ReadyProbes, ReadyRequests DEF Readiness!SRNext

LEMMA ReadyFocus ==
  ASSUME [ServicesNext]_allVars, focus' = "readiness"
  PROVE  focus = "readiness" /\ (Readiness!SRNext \/ UNCHANGED Readiness!readyVars)
BY DEF ServicesNext, allVars, slots, Only, Readiness!readyVars

LEMMA ReadinessHolds == ServicesSpec => [](focus = "readiness" => Readiness!ReadyInv)
<1> DEFINE I == focus = "readiness" => Readiness!ReadyInv
<1>1. ServicesInit => I
  BY ReadyStart DEF ServicesInit
<1>2. I /\ [ServicesNext]_allVars => I'
  BY ReadyStep, ReadyFocus
<1> QED BY <1>1, <1>2, PTL DEF ServicesSpec

(* Whatever becomes of the request that consumed a release's admission, its    *)
(* storage is probed at most once: the admission is consumed before the        *)
(* probe is launched, and nothing rearms it.                                   *)
THEOREM StorageIsProbedOnce == ServicesSpec => []ProbedOnce
<1>1. (focus = "readiness" => Readiness!ReadyInv) => ProbedOnce
  BY DEF ProbedOnce, Readiness!ProbedOnce, Readiness!ReadyInv, Readiness!ReadyShapes
<1> QED BY <1>1, ReadinessHolds, PTL

(* A release that passed left nothing in the bucket, not even an upload that   *)
(* may still arrive: PASS takes an acknowledged upload, its deletion and a     *)
(* fresh look.                                                                 *)
THEOREM APassLeavesNothing == ServicesSpec => []PassLeavesNothing
<1>1. (focus = "readiness" => Readiness!ReadyInv) => PassLeavesNothing
  BY DEF PassLeavesNothing, Readiness!PassLeavesNothing, Readiness!ReadyInv,
     Readiness!PassTraced, Readiness!Acknowledged
<1> QED BY <1>1, ReadinessHolds, PTL

-----------------------------------------------------------------------------
(* CreativeRendering.                                                          *)

(* The function with nothing in its domain is the empty sequence.             *)
LEMMA EmptyFunction == ASSUME NEW S PROVE << >> \in [{} -> S] /\ DOMAIN << >> = {}
OBVIOUS

(* In Rendering: drafts is v1, exact v2, creative v3, failrow v4, objects v5,  *)
(* lost v6, job v7, faults v8.                                                 *)
RenderJob == [pc : {"idle", "open", "waiting"}, todo : SUBSET Drafts, made : SUBSET Drafts,
              rows : UNION {[F -> Rendering!Statuses] : F \in SUBSET Drafts},
              put : SUBSET Drafts, fails : SUBSET Drafts, on : SUBSET Rendering!Keyed]

(* What a transaction says of itself, whatever the others do.                  *)
RenderSound(j) ==
  /\ j.put \subseteq DOMAIN j.rows \ DOMAIN v3
  /\ j.made \subseteq Drafts \ v1 /\ j.todo \cup DOMAIN j.rows \subseteq v1 \cup j.made
  /\ j.fails \subseteq v1 /\ j.todo \cap DOMAIN j.rows = {} /\ j.made \subseteq j.todo \cup DOMAIN j.rows
  /\ \A f \in DOMAIN j.rows \cap (j.made \cup v2) : j.rows[f] = "RENDERED"

LEMMA RenderFacts ==
  ASSUME Rendering!RenderInv
  PROVE  /\ v7 \in [Renderers -> RenderJob] /\ v3 \in [DOMAIN v3 -> Rendering!Statuses]
         /\ v2 \subseteq v1 /\ v1 \subseteq Drafts /\ DOMAIN v3 \subseteq v1 /\ v4 \subseteq v1
         /\ v5 \cup v6 \subseteq DOMAIN v3 /\ v5 \cap v6 = {} /\ v8 \in 0..MaxMediaFaults
         /\ \A w \in Renderers : RenderSound(v7[w])
         /\ \A w \in Renderers, f \in Drafts : f \in DOMAIN v7[w].rows /\ v7[w].rows[f] = "RENDERED" =>
              f \in v7[w].put \cup v5 \cup v6
         /\ \A v, w \in Renderers, f \in Drafts : f \in DOMAIN v7[v].rows /\ f \in DOMAIN v7[w].rows
              => f \in DOMAIN v3 \/ v = w
         /\ \A v, w \in Renderers : v # w => v7[v].made \cap v7[w].made = {}
         /\ \A f \in DOMAIN v3 : v3[f] = "RENDERED" => f \in v5 \cup v6
         /\ \A f \in v2 : f \in DOMAIN v3 /\ v3[f] = "RENDERED"
<1> USE DEF Rendering!RenderInv
<1>1. /\ v7 \in [Renderers -> RenderJob] /\ v3 \in [DOMAIN v3 -> Rendering!Statuses]
      /\ v2 \subseteq v1 /\ v1 \subseteq Drafts /\ DOMAIN v3 \subseteq v1 /\ v4 \subseteq v1
      /\ v5 \cup v6 \subseteq DOMAIN v3 /\ v5 \cap v6 = {} /\ v8 \in 0..MaxMediaFaults
  BY DEF Rendering!RenderShapes, Rendering!TypeOK, Rendering!Stored, RenderJob
<1>2. \A w \in Renderers : RenderSound(v7[w])
  BY DEF Rendering!Stored, Rendering!Making, RenderSound
<1>3. \A v, w \in Renderers : v # w => v7[v].made \cap v7[w].made = {}
  BY DEF Rendering!Making
<1>4. \A w \in Renderers, f \in Drafts : f \in DOMAIN v7[w].rows /\ v7[w].rows[f] = "RENDERED" =>
        f \in v7[w].put \cup v5 \cup v6
  BY DEF Rendering!Stored
<1>5. \A v, w \in Renderers, f \in Drafts : f \in DOMAIN v7[v].rows /\ f \in DOMAIN v7[w].rows
        => f \in DOMAIN v3 \/ v = w
  BY DEF Rendering!InsertedOnce
<1>6. /\ \A f \in DOMAIN v3 : v3[f] = "RENDERED" => f \in v5 \cup v6
      /\ \A f \in v2 : f \in DOMAIN v3 /\ v3[f] = "RENDERED"
  BY DEF Rendering!RenderedHasObject
<1> QED BY <1>1, <1>2, <1>3, <1>4, <1>5, <1>6

LEMMA RenderIdle ==
  /\ Rendering!IdleJob \in RenderJob /\ DOMAIN Rendering!IdleJob.rows = {}
  /\ Rendering!IdleJob = [pc |-> "idle", todo |-> {}, made |-> {}, rows |-> << >>, put |-> {},
                          fails |-> {}, on |-> {}]
<1>1. << >> \in [{} -> Rendering!Statuses] /\ DOMAIN << >> = {} BY EmptyFunction
<1>2. << >> \in UNION {[F -> Rendering!Statuses] : F \in SUBSET Drafts} BY <1>1
<1> QED BY <1>1, <1>2 DEF Rendering!IdleJob, Rendering!NoRow, RenderJob

LEMMA RenderStart ==
  ASSUME Rendering!Init
  PROVE  Rendering!RenderInv
<1>1. /\ v1 = {} /\ v2 = {} /\ v3 = << >> /\ v4 = {} /\ v5 = {} /\ v6 = {}
      /\ v7 = [w \in Renderers |-> Rendering!IdleJob] /\ v8 = 0
  BY DEF Rendering!Init, Rendering!NoRow
<1>2. << >> \in [{} -> Rendering!Statuses] /\ DOMAIN << >> = {} BY EmptyFunction
<1>3. \A w \in Renderers : /\ v7[w] = Rendering!IdleJob /\ v7[w].todo = {} /\ v7[w].made = {}
                           /\ v7[w].put = {} /\ v7[w].fails = {} /\ DOMAIN v7[w].rows = {}
                           /\ v7[w].pc = "idle"
  BY <1>1, RenderIdle
<1>4. Rendering!TypeOK /\ Rendering!RenderedHasObject
  BY <1>1, <1>2, <1>3, BoundsAssumption DEF Rendering!TypeOK, Rendering!RenderedHasObject
<1>5. Rendering!RenderShapes
  BY <1>1, <1>2, RenderIdle DEF Rendering!RenderShapes, RenderJob
<1>6. Rendering!Stored /\ Rendering!InsertedOnce
  BY <1>1, <1>3 DEF Rendering!Stored, Rendering!InsertedOnce
<1>7. Rendering!Making
  BY <1>3 DEF Rendering!Making
<1> QED BY <1>4, <1>5, <1>6, <1>7 DEF Rendering!RenderInv

(* A renderer's transaction goes on, and may repair objects of committed rows. *)
LEMMA RenderGoes ==
  ASSUME Rendering!RenderInv, NEW w \in Renderers, NEW j \in RenderJob,
         v7' = [v7 EXCEPT ![w] = j], UNCHANGED <<v1, v2, v3, v4>>, v8' \in 0..MaxMediaFaults,
         v5' \cup v6' \subseteq DOMAIN v3, v5 \cup v6 \subseteq v5' \cup v6', v5' \cap v6' = {},
         RenderSound(j),
         \A f \in DOMAIN j.rows : j.rows[f] = "RENDERED" => f \in j.put \cup v5' \cup v6',
         \A v \in Renderers \ {w} : /\ v7[v].made \cap j.made = {}
                                    /\ DOMAIN v7[v].rows \cap DOMAIN j.rows \subseteq DOMAIN v3
  PROVE  Rendering!RenderInv'
<1>1. /\ v7 \in [Renderers -> RenderJob] /\ v3 \in [DOMAIN v3 -> Rendering!Statuses]
      /\ v2 \subseteq v1 /\ v1 \subseteq Drafts /\ DOMAIN v3 \subseteq v1 /\ v4 \subseteq v1
  BY RenderFacts
<1>2. /\ v7' \in [Renderers -> RenderJob] /\ v7'[w] = j
      /\ \A v \in Renderers \ {w} : v7'[v] = v7[v]
  BY <1>1
<1>3. \A v \in Renderers : v7'[v].pc \in {"idle", "open", "waiting"}
  BY <1>2 DEF RenderJob
<1>4. Rendering!TypeOK'
  BY <1>1, <1>3 DEF Rendering!RenderInv, Rendering!TypeOK
<1>5. Rendering!RenderShapes'
  BY <1>1, <1>2 DEF Rendering!RenderShapes, RenderJob
<1>6. \A v \in Renderers : DOMAIN v7'[v].rows \subseteq Drafts
  BY <1>2 DEF RenderJob
<1>7. \A v \in Renderers : RenderSound(v7[v]) BY RenderFacts
<1>8. Rendering!Stored'
  <2>1. \A v \in Renderers : v7'[v].put \subseteq DOMAIN v7'[v].rows \ DOMAIN v3
    BY <1>2, <1>7 DEF RenderSound
  <2>2. \A v \in Renderers : \A f \in DOMAIN v7'[v].rows :
          v7'[v].rows[f] = "RENDERED" => f \in v7'[v].put \cup v5' \cup v6'
    BY <1>2, <1>6, RenderFacts
  <2> QED BY <2>1, <2>2 DEF Rendering!Stored
<1>9. Rendering!InsertedOnce'
  BY <1>2, <1>6, RenderFacts DEF Rendering!InsertedOnce
<1>10. Rendering!Making'
  <2>1. \A u, v \in Renderers : u # v => v7'[u].made \cap v7'[v].made = {}
    BY <1>2, RenderFacts
  <2>2. \A v \in Renderers : RenderSound(v7'[v]) BY <1>2, <1>7
  <2> QED BY <2>1, <2>2 DEF Rendering!Making, RenderSound
<1>11. Rendering!RenderedHasObject'
  BY RenderFacts DEF Rendering!RenderedHasObject
<1> QED BY <1>4, <1>5, <1>8, <1>9, <1>10, <1>11 DEF Rendering!RenderInv

(* A transaction that ends without a commit, or one that only forgets a draft  *)
(* or records a failure, asks nothing of the store.                            *)
LEMMA RenderDrops ==
  ASSUME Rendering!RenderInv, NEW w \in Renderers, NEW j \in RenderJob,
         v7' = [v7 EXCEPT ![w] = j], UNCHANGED <<v1, v2, v3, v4, v5, v6>>,
         v8' \in 0..MaxMediaFaults, RenderSound(j),
         \/ DOMAIN j.rows = {}
         \/ j.rows = v7[w].rows /\ j.put = v7[w].put,
         \A v \in Renderers \ {w} : v7[v].made \cap j.made = {}
  PROVE  Rendering!RenderInv'
<1>1. v5 \cup v6 \subseteq DOMAIN v3 /\ v5 \cap v6 = {}
  BY RenderFacts
<1>2. DOMAIN v7[w].rows \subseteq Drafts
  BY RenderFacts DEF RenderJob
<1>3. \A f \in DOMAIN j.rows : j.rows[f] = "RENDERED" => f \in j.put \cup v5' \cup v6'
  <2>1. CASE DOMAIN j.rows = {} BY <2>1
  <2>2. CASE j.rows = v7[w].rows /\ j.put = v7[w].put
    <3>1. \A f \in DOMAIN v7[w].rows : v7[w].rows[f] = "RENDERED" => f \in v7[w].put \cup v5 \cup v6
      BY <1>2, RenderFacts
    <3> QED BY <2>2, <3>1
  <2> QED BY <2>1, <2>2
<1>4. \A v \in Renderers \ {w} : DOMAIN v7[v].rows \cap DOMAIN j.rows \subseteq DOMAIN v3
  BY <1>2, RenderFacts
<1> QED BY <1>1, <1>3, <1>4, RenderGoes

LEMMA RenderBegins ==
  ASSUME Rendering!RenderInv, NEW w \in Renderers,
         Rendering!ProposeExact(w) \/ Rendering!render_review_batch(w) \/ Rendering!RendererDies(w)
  PROVE  Rendering!RenderInv'
<1>0. UNCHANGED <<v1, v2, v3, v4, v5, v6>> /\ v8' \in 0..MaxMediaFaults
  <2>1. v8 \in 0..MaxMediaFaults BY RenderFacts
  <2>2. CASE Rendering!ProposeExact(w)
    BY <2>1, <2>2 DEF Rendering!ProposeExact, Rendering!Goes, Rendering!Kept
  <2>3. CASE Rendering!render_review_batch(w)
    BY <2>1, <2>3 DEF Rendering!render_review_batch, Rendering!Goes, Rendering!Kept
  <2>4. CASE Rendering!RendererDies(w)
    BY <2>1, <2>4, BoundsAssumption DEF Rendering!RendererDies, Rendering!Goes, Rendering!Fault
  <2> QED BY <2>2, <2>3, <2>4
<1>1. ASSUME NEW j \in RenderJob, v7' = [v7 EXCEPT ![w] = j], DOMAIN j.rows = {}, j.put = {},
             j.fails = {}, j.made \subseteq Drafts \ v1, j.todo \subseteq v1 \cup j.made,
             j.made \subseteq j.todo, \A v \in Renderers : v7[v].made \cap j.made = {}
      PROVE  Rendering!RenderInv'
  <2>1. RenderSound(j) BY <1>1 DEF RenderSound
  <2> QED BY <1>0, <1>1, <2>1, RenderDrops
<1>2. ASSUME NEW chosen \in SUBSET Drafts, NEW made \in SUBSET Drafts
      PROVE  LET j == [Rendering!IdleJob EXCEPT !.pc = "open", !.todo = chosen, !.made = made]
             IN  /\ j \in RenderJob /\ DOMAIN j.rows = {} /\ j.put = {} /\ j.fails = {}
                 /\ j.made = made /\ j.todo = chosen
  BY RenderIdle DEF RenderJob
<1>3. ASSUME NEW f \in Drafts \ v1, \A v \in Renderers : f \notin v7[v].made,
             Rendering!Goes(w, [Rendering!IdleJob EXCEPT !.pc = "open", !.todo = {f}, !.made = {f}])
      PROVE  Rendering!RenderInv'
  <2> DEFINE j == [Rendering!IdleJob EXCEPT !.pc = "open", !.todo = {f}, !.made = {f}]
  <2>1. /\ j \in RenderJob /\ DOMAIN j.rows = {} /\ j.put = {} /\ j.fails = {}
        /\ j.made = {f} /\ j.todo = {f}
    BY <1>2, {f} \in SUBSET Drafts
  <2>2. v7' = [v7 EXCEPT ![w] = j] BY <1>3 DEF Rendering!Goes
  <2>3. \A v \in Renderers : v7[v].made \cap {f} = {} BY <1>3
  <2> HIDE DEF j
  <2> QED BY <1>1, <2>1, <2>2, <2>3
<1>4. ASSUME NEW chosen \in SUBSET v1,
             Rendering!Goes(w, [Rendering!IdleJob EXCEPT !.pc = "open", !.todo = chosen])
      PROVE  Rendering!RenderInv'
  <2> DEFINE j == [Rendering!IdleJob EXCEPT !.pc = "open", !.todo = chosen]
  <2>1. chosen \in SUBSET Drafts BY RenderFacts
  <2>2. /\ j \in RenderJob /\ DOMAIN j.rows = {} /\ j.put = {} /\ j.fails = {}
        /\ j.made = {} /\ j.todo = chosen
    BY <2>1, RenderIdle DEF RenderJob
  <2>3. v7' = [v7 EXCEPT ![w] = j] BY <1>4 DEF Rendering!Goes
  <2> HIDE DEF j
  <2> QED BY <1>1, <2>2, <2>3
<1>5. CASE Rendering!ProposeExact(w)
  BY <1>3, <1>5 DEF Rendering!ProposeExact
<1>6. CASE Rendering!render_review_batch(w)
  BY <1>4, <1>6 DEF Rendering!render_review_batch
<1>7. CASE Rendering!RendererDies(w)
  BY <1>1, <1>7, RenderIdle DEF Rendering!RendererDies, Rendering!Goes
<1> QED BY <1>5, <1>6, <1>7

(* Waiting changes nothing but who is waited for.                              *)
LEMMA RenderWaits ==
  ASSUME Rendering!RenderInv, NEW w \in Renderers,
         v7[w].pc = "open" \/ v7[w].pc = "waiting",
         UNCHANGED <<v1, v2, v3, v4, v5, v6>>, v8' \in 0..MaxMediaFaults,
         \/ \E key \in Rendering!Keyed :
              v7' = [v7 EXCEPT ![w] = [v7[w] EXCEPT !.pc = "waiting", !.on = {key}]]
         \/ v7' = [v7 EXCEPT ![w] = [v7[w] EXCEPT !.pc = "open", !.on = {}]]
         \/ v7' = [v7 EXCEPT ![w] = Rendering!IdleJob]
         \/ UNCHANGED v7
  PROVE  Rendering!RenderInv'
<1>1. v7 \in [Renderers -> RenderJob] /\ v7[w] \in RenderJob BY RenderFacts
<1>2. RenderSound(v7[w]) /\ \A v \in Renderers \ {w} : v7[v].made \cap v7[w].made = {}
  BY RenderFacts
<1>3. ASSUME NEW j \in RenderJob, v7' = [v7 EXCEPT ![w] = j], j.todo = v7[w].todo,
             j.made = v7[w].made, j.rows = v7[w].rows, j.put = v7[w].put, j.fails = v7[w].fails
      PROVE  Rendering!RenderInv'
  <2>1. RenderSound(j) BY <1>2, <1>3 DEF RenderSound
  <2> QED BY <1>2, <1>3, <2>1, RenderDrops
<1>4. ASSUME NEW pc \in {"open", "waiting"}, NEW on \in SUBSET Rendering!Keyed,
             v7' = [v7 EXCEPT ![w] = [v7[w] EXCEPT !.pc = pc, !.on = on]]
      PROVE  Rendering!RenderInv'
  <2> DEFINE j == [v7[w] EXCEPT !.pc = pc, !.on = on]
  <2>1. /\ j \in RenderJob /\ j.todo = v7[w].todo /\ j.fails = v7[w].fails
        /\ j.made = v7[w].made /\ j.rows = v7[w].rows /\ j.put = v7[w].put
    BY <1>1 DEF RenderJob
  <2>2. v7' = [v7 EXCEPT ![w] = j] BY <1>4
  <2> HIDE DEF j
  <2> QED BY <1>3, <2>1, <2>2
<1>5. CASE UNCHANGED v7
  <2>1. v7' = [v7 EXCEPT ![w] = v7[w]] BY <1>1, <1>5
  <2> QED BY <1>1, <1>3, <2>1
<1>6. CASE v7' = [v7 EXCEPT ![w] = Rendering!IdleJob]
  <2>1. RenderSound(Rendering!IdleJob) /\ Rendering!IdleJob.made = {}
    BY RenderIdle DEF RenderSound
  <2> QED BY <1>6, <2>1, RenderIdle, RenderDrops
<1>7. CASE \E key \in Rendering!Keyed :
             v7' = [v7 EXCEPT ![w] = [v7[w] EXCEPT !.pc = "waiting", !.on = {key}]]
  <2>1. PICK key \in Rendering!Keyed :
          v7' = [v7 EXCEPT ![w] = [v7[w] EXCEPT !.pc = "waiting", !.on = {key}]]
    BY <1>7
  <2>2. {key} \in SUBSET Rendering!Keyed OBVIOUS
  <2> QED BY <1>4, <2>1, <2>2
<1>8. CASE v7' = [v7 EXCEPT ![w] = [v7[w] EXCEPT !.pc = "open", !.on = {}]]
  <2>1. {} \in SUBSET Rendering!Keyed OBVIOUS
  <2> QED BY <1>4, <1>8, <2>1
<1> QED BY <1>5, <1>6, <1>7, <1>8

(* A row that another transaction has not inserted is its own to write.        *)
LEMMA RenderFree ==
  ASSUME Rendering!RenderInv, NEW w \in Renderers, NEW f,
         f \in DOMAIN v3 \/ <<f, "row">> \notin Rendering!Taken(w)
  PROVE  \A v \in Renderers \ {w} : f \in DOMAIN v7[v].rows => f \in DOMAIN v3
<1> SUFFICES ASSUME NEW v \in Renderers \ {w}, f \in DOMAIN v7[v].rows,
                    <<f, "row">> \notin Rendering!Taken(w)
             PROVE  f \in DOMAIN v3
  OBVIOUS
<1>1. <<f, "row">> \in Rendering!Keys(v7[v])
  <2>1. <<f, "row">> \in (DOMAIN v7[v].rows) \X {"row"} OBVIOUS
  <2> QED BY <2>1 DEF Rendering!Keys
<1>2. <<f, "row">> \in Rendering!Committed
  BY <1>1 DEF Rendering!Taken
<1> QED BY <1>2 DEF Rendering!Committed

LEMMA RenderMarked ==
  ASSUME NEW j \in RenderJob, NEW f \in Drafts, NEW s \in Rendering!Statuses
  PROVE  LET k == Rendering!Marked(j, f, s)
         IN  /\ k \in RenderJob /\ k.todo = j.todo \ {f} /\ k.made = j.made /\ k.put = j.put
             /\ k.fails = j.fails /\ DOMAIN k.rows = DOMAIN j.rows \cup {f} /\ k.rows[f] = s
             /\ \A g \in DOMAIN j.rows \ {f} : k.rows[g] = j.rows[g]
<1> DEFINE r == [g \in DOMAIN j.rows \cup {f} |-> IF g = f THEN s ELSE j.rows[g]]
<1>1. r \in [DOMAIN j.rows \cup {f} -> Rendering!Statuses] /\ DOMAIN j.rows \cup {f} \subseteq Drafts
  BY DEF RenderJob
<1>2. r \in UNION {[F -> Rendering!Statuses] : F \in SUBSET Drafts} BY <1>1
<1>3. Rendering!Marked(j, f, s) = [j EXCEPT !.todo = j.todo \ {f}, !.rows = r]
  BY DEF Rendering!Marked, Rendering!Without, RenderJob
<1>4. /\ DOMAIN r = DOMAIN j.rows \cup {f} /\ r[f] = s
      /\ \A g \in DOMAIN j.rows \ {f} : r[g] = j.rows[g]
  OBVIOUS
<1> HIDE DEF r
<1> QED BY <1>2, <1>3, <1>4 DEF RenderJob

LEMMA RenderMarks ==
  ASSUME Rendering!RenderInv, NEW w \in Renderers, NEW f \in v7[w].todo,
         NEW s \in Rendering!Statuses, NEW j \in RenderJob, NEW added \in SUBSET {f},
         v7' = [v7 EXCEPT ![w] = j], UNCHANGED <<v1, v2, v3, v4>>, v8' \in 0..MaxMediaFaults,
         v5' \cup v6' \subseteq DOMAIN v3, v5 \cup v6 \subseteq v5' \cup v6', v5' \cap v6' = {},
         f \in DOMAIN v3 \/ <<f, "row">> \notin Rendering!Taken(w),
         s # "RENDERED" => f \notin v7[w].made \cup v2,
         s = "RENDERED" => f \in added \cup v5' \cup v6',
         added # {} => f \notin DOMAIN v3,
         j.todo = v7[w].todo \ {f}, j.made = v7[w].made, j.put = v7[w].put \cup added,
         j.fails = v7[w].fails, DOMAIN j.rows = DOMAIN v7[w].rows \cup {f}, j.rows[f] = s,
         \A g \in DOMAIN v7[w].rows \ {f} : j.rows[g] = v7[w].rows[g]
  PROVE  Rendering!RenderInv'
<1>1. v7[w] \in RenderJob /\ RenderSound(v7[w]) /\ DOMAIN v7[w].rows \subseteq Drafts /\ f \in Drafts
  BY RenderFacts DEF RenderJob
<1>2. RenderSound(j)
  <2>1. f \notin DOMAIN v7[w].rows BY <1>1 DEF RenderSound
  <2> QED BY <1>1, <2>1 DEF RenderSound
<1>3. \A g \in DOMAIN j.rows : j.rows[g] = "RENDERED" => g \in j.put \cup v5' \cup v6'
  <2>1. \A g \in DOMAIN v7[w].rows : v7[w].rows[g] = "RENDERED" => g \in v7[w].put \cup v5 \cup v6
    BY <1>1, RenderFacts
  <2> QED BY <2>1
<1>4. \A v \in Renderers \ {w} : v7[v].made \cap j.made = {}
  BY RenderFacts
<1>5. \A v \in Renderers \ {w} : DOMAIN v7[v].rows \cap DOMAIN j.rows \subseteq DOMAIN v3
  <2>1. \A v \in Renderers \ {w} : f \in DOMAIN v7[v].rows => f \in DOMAIN v3
    BY RenderFree
  <2>2. \A v \in Renderers \ {w} : DOMAIN v7[v].rows \cap DOMAIN v7[w].rows \subseteq DOMAIN v3
    BY <1>1, RenderFacts
  <2> QED BY <2>1, <2>2
<1>6. \A v \in Renderers \ {w} : /\ v7[v].made \cap j.made = {}
                                 /\ DOMAIN v7[v].rows \cap DOMAIN j.rows \subseteq DOMAIN v3
  BY <1>4, <1>5
<1>7. v5' \cup v6' \subseteq DOMAIN v3 /\ v5 \cup v6 \subseteq v5' \cup v6' /\ v5' \cap v6' = {}
  OBVIOUS
<1> HIDE DEF RenderJob
<1> QED BY ONLY Rendering!RenderInv, v7' = [v7 EXCEPT ![w] = j], UNCHANGED <<v1, v2, v3, v4>>,
     v8' \in 0..MaxMediaFaults, <1>2, <1>3, <1>6, <1>7, RenderGoes

(* A draft is done with: nothing is left of it, or a failure on record.        *)
LEMMA RenderForgets ==
  ASSUME Rendering!RenderInv, NEW w \in Renderers, NEW f \in v7[w].todo, NEW j \in RenderJob,
         v7' = [v7 EXCEPT ![w] = j], UNCHANGED <<v1, v2, v3, v4, v5, v6>>,
         v8' \in 0..MaxMediaFaults, j.todo = v7[w].todo \ {f}, j.made = v7[w].made,
         f \notin v7[w].made, j.put = v7[w].put, j.rows = v7[w].rows,
         j.fails \subseteq v7[w].fails \cup {f}
  PROVE  Rendering!RenderInv'
<1>1. RenderSound(v7[w]) BY RenderFacts
<1>2. RenderSound(j)
  BY <1>1 DEF RenderSound
<1>3. \A v \in Renderers \ {w} : v7[v].made \cap j.made = {} BY RenderFacts
<1> QED BY <1>2, <1>3, RenderDrops

LEMMA RenderUses ==
  ASSUME Rendering!RenderInv, NEW w \in Renderers, NEW f \in v7[w].todo,
         Rendering!InsertWaits(w, f) \/ Rendering!ReuseCreative(w, f) \/ Rendering!_render_one(w, f)
  PROVE  Rendering!RenderInv'
<1>1. /\ v7 \in [Renderers -> RenderJob] /\ v7[w] \in RenderJob /\ RenderSound(v7[w])
      /\ f \in Drafts /\ v8 \in 0..MaxMediaFaults
      /\ v5 \cup v6 \subseteq DOMAIN v3 /\ v5 \cap v6 = {} /\ DOMAIN v3 \subseteq v1
  BY RenderFacts DEF RenderJob
<1>2. CASE Rendering!InsertWaits(w, f)
  <2>1. <<f, "row">> \in Rendering!Keyed BY <1>1 DEF Rendering!Keyed
  <2>2. /\ v7[w].pc = "open" /\ UNCHANGED <<v1, v2, v3, v4, v5, v6, v8>>
        /\ v7' = [v7 EXCEPT ![w] = [v7[w] EXCEPT !.pc = "waiting", !.on = {<<f, "row">>}]]
    BY <1>2 DEF Rendering!InsertWaits, Rendering!Rendering, Rendering!WaitsOn, Rendering!Goes,
       Rendering!Kept
  <2> QED BY <1>1, <2>1, <2>2, RenderWaits
<1>3. CASE Rendering!ReuseCreative(w, f)
  <2> DEFINE j == Rendering!Without(v7[w], f)
  <2>1. /\ j \in RenderJob /\ j.todo = v7[w].todo \ {f} /\ j.made = v7[w].made
        /\ j.put = v7[w].put /\ j.rows = v7[w].rows /\ j.fails = v7[w].fails
    BY <1>1 DEF Rendering!Without, RenderJob
  <2>2. v7' = [v7 EXCEPT ![w] = j] /\ UNCHANGED <<v1, v2, v3, v4, v5, v6, v8>> /\ f \in v5
    BY <1>3 DEF Rendering!ReuseCreative, Rendering!Goes, Rendering!Kept, Rendering!Readable
  <2>3. f \notin v7[w].made BY <1>1, <2>2 DEF RenderSound
  <2> HIDE DEF j
  <2> QED BY <1>1, <2>1, <2>2, <2>3, RenderForgets
<1>4. CASE Rendering!_render_one(w, f)
  <2> DEFINE k == Rendering!Marked(v7[w], f, "RENDERED")
  <2>0. "RENDERED" \in Rendering!Statuses BY DEF Rendering!Statuses
  <2>1. /\ k \in RenderJob /\ k.todo = v7[w].todo \ {f} /\ k.made = v7[w].made
        /\ k.put = v7[w].put /\ k.fails = v7[w].fails
        /\ DOMAIN k.rows = DOMAIN v7[w].rows \cup {f} /\ k.rows[f] = "RENDERED"
        /\ \A g \in DOMAIN v7[w].rows \ {f} : k.rows[g] = v7[w].rows[g]
    BY <1>1, <2>0, RenderMarked
  <2>2. <<f, "row">> \notin Rendering!Taken(w)
    BY <1>4 DEF Rendering!_render_one
  <2> HIDE DEF k
  <2>3. CASE f \in DOMAIN v3
    <3>1. /\ v7' = [v7 EXCEPT ![w] = k] /\ UNCHANGED <<v1, v2, v3, v4, v8>>
          /\ v5' = v5 \cup {f} /\ v6' = v6 \ {f}
      BY <1>4, <2>3 DEF Rendering!_render_one, Rendering!Goes, k
    <3>2. {} \in SUBSET {f} /\ v7[w].put = v7[w].put \cup {} OBVIOUS
    <3>3. v5' \cup v6' \subseteq DOMAIN v3 /\ v5 \cup v6 \subseteq v5' \cup v6' /\ v5' \cap v6' = {}
      BY <1>1, <2>3, <3>1
    <3>4. f \in {} \cup v5' \cup v6' BY <3>1
    <3> QED BY <1>1, <2>0, <2>1, <2>2, <3>1, <3>2, <3>3, <3>4, RenderMarks
  <2>4. CASE f \notin DOMAIN v3
    <3> DEFINE j == [k EXCEPT !.put = k.put \cup {f}]
    <3>1. /\ v7' = [v7 EXCEPT ![w] = j] /\ UNCHANGED <<v1, v2, v3, v4, v5, v6, v8>>
      BY <1>4, <2>4 DEF Rendering!_render_one, Rendering!Goes, Rendering!Kept, k
    <3>2. /\ j \in RenderJob /\ j.todo = k.todo /\ j.made = k.made /\ j.put = k.put \cup {f}
          /\ j.fails = k.fails /\ j.rows = k.rows
      BY <1>1, <2>1 DEF RenderJob
    <3>3. v5' \cup v6' \subseteq DOMAIN v3 /\ v5 \cup v6 \subseteq v5' \cup v6' /\ v5' \cap v6' = {}
      BY <1>1, <3>1
    <3>4. {f} \in SUBSET {f} OBVIOUS
    <3> HIDE DEF j
    <3>5. /\ j \in RenderJob /\ j.todo = v7[w].todo \ {f} /\ j.made = v7[w].made
          /\ j.put = v7[w].put \cup {f} /\ j.fails = v7[w].fails
          /\ DOMAIN j.rows = DOMAIN v7[w].rows \cup {f} /\ j.rows[f] = "RENDERED"
          /\ \A g \in DOMAIN v7[w].rows \ {f} : j.rows[g] = v7[w].rows[g]
      BY <2>1, <3>2
    <3>6. v8' \in 0..MaxMediaFaults /\ UNCHANGED <<v1, v2, v3, v4>> /\ f \in {f} \cup v5' \cup v6'
      BY <1>1, <3>1
    <3>7. v7' = [v7 EXCEPT ![w] = j] BY <3>1
    <3> QED BY ONLY Rendering!RenderInv, f \in v7[w].todo, w \in Renderers,
         <2>0, <2>2, <2>4, <3>3, <3>4, <3>5, <3>6, <3>7, RenderMarks
  <2> QED BY <2>3, <2>4
<1> QED BY <1>2, <1>3, <1>4

(* A failure is recorded where the draft already has a row, or on its own.     *)
LEMMA RenderFails ==
  ASSUME Rendering!RenderInv, NEW w \in Renderers, NEW f \in v7[w].todo, NEW s,
         s \in {"PENDING", "FAILED"} =>
           f \notin v2 /\ (f \in DOMAIN v3 \/ <<f, "row">> \notin Rendering!Taken(w)),
         Rendering!Fails(w, f, s), UNCHANGED <<v5, v6>>
  PROVE  Rendering!RenderInv'
<1>1. /\ v7 \in [Renderers -> RenderJob] /\ v7[w] \in RenderJob /\ RenderSound(v7[w])
      /\ f \in Drafts /\ v8 \in 0..MaxMediaFaults
      /\ v5 \cup v6 \subseteq DOMAIN v3 /\ v5 \cap v6 = {} /\ DOMAIN v3 \subseteq v1
  BY RenderFacts DEF RenderJob
<1>2. UNCHANGED <<v1, v2, v3, v4, v5, v6>> /\ v8' \in 0..MaxMediaFaults
  BY <1>1, BoundsAssumption DEF Rendering!Fails, Rendering!Goes, Rendering!Fault
<1>3. PICK j \in Rendering!_failure(v7[w], f, s) : v7' = [v7 EXCEPT ![w] = j]
  BY DEF Rendering!Fails, Rendering!Goes
<1> DEFINE k == Rendering!Without(v7[w], f)
           l == [k EXCEPT !.fails = k.fails \cup {f}]
<1>4. /\ k \in RenderJob /\ k.todo = v7[w].todo \ {f} /\ k.made = v7[w].made
      /\ k.put = v7[w].put /\ k.rows = v7[w].rows /\ k.fails = v7[w].fails
  BY <1>1 DEF Rendering!Without, RenderJob
<1>5. /\ l \in RenderJob /\ l.todo = k.todo /\ l.made = k.made /\ l.put = k.put
      /\ l.rows = k.rows /\ l.fails = k.fails \cup {f}
  BY <1>1, <1>4 DEF RenderJob
<1>6. \/ v7[w].made # {} /\ j = Rendering!IdleJob
      \/ v7[w].made = {} /\ (j = k \/ j = l)
      \/ /\ v7[w].made = {} /\ s \in {"PENDING", "FAILED"}
         /\ \E t \in {"PENDING", "FAILED"} : j = Rendering!Marked(v7[w], f, t)
  BY <1>3, <1>4 DEF Rendering!_failure
<1> HIDE DEF k, l
<1>7. CASE j = Rendering!IdleJob
  <2>1. RenderSound(j) /\ j.made = {} /\ j \in RenderJob /\ DOMAIN j.rows = {}
    BY <1>7, RenderIdle DEF RenderSound
  <2> QED BY <1>2, <1>3, <2>1, RenderDrops
<1>8. CASE v7[w].made = {} /\ (j = k \/ j = l)
  <2>1. f \notin v7[w].made BY <1>8
  <2>2. /\ j \in RenderJob /\ j.todo = v7[w].todo \ {f} /\ j.made = v7[w].made
        /\ j.put = v7[w].put /\ j.rows = v7[w].rows /\ j.fails \subseteq v7[w].fails \cup {f}
    BY <1>4, <1>5, <1>8
  <2> QED BY <1>2, <1>3, <2>1, <2>2, RenderForgets
<1>9. CASE v7[w].made = {} /\ s \in {"PENDING", "FAILED"}
           /\ \E t \in {"PENDING", "FAILED"} : j = Rendering!Marked(v7[w], f, t)
  <2>1. PICK t \in {"PENDING", "FAILED"} : j = Rendering!Marked(v7[w], f, t) BY <1>9
  <2>2. t \in Rendering!Statuses /\ t # "RENDERED" BY DEF Rendering!Statuses
  <2>3. /\ j \in RenderJob /\ j.todo = v7[w].todo \ {f} /\ j.made = v7[w].made
        /\ j.put = v7[w].put /\ j.fails = v7[w].fails
        /\ DOMAIN j.rows = DOMAIN v7[w].rows \cup {f} /\ j.rows[f] = t
        /\ \A g \in DOMAIN v7[w].rows \ {f} : j.rows[g] = v7[w].rows[g]
    BY <1>1, <2>1, <2>2, RenderMarked
  <2> DEFINE none == {}
  <2>5. /\ UNCHANGED <<v1, v2, v3, v4>> /\ v8' \in 0..MaxMediaFaults
        /\ v5' \cup v6' \subseteq DOMAIN v3 /\ v5 \cup v6 \subseteq v5' \cup v6' /\ v5' \cap v6' = {}
    BY <1>1, <1>2
  <2>6. f \in DOMAIN v3 \/ <<f, "row">> \notin Rendering!Taken(w)
    BY <1>9
  <2>7. t # "RENDERED" => f \notin v7[w].made \cup v2
    BY <1>9
  <2>8. v7' = [v7 EXCEPT ![w] = j] BY <1>3
  <2>9. /\ j.put = v7[w].put \cup none /\ none \in SUBSET {f} /\ none = {}
        /\ (t = "RENDERED" => f \in none \cup v5' \cup v6') /\ (none # {} => f \notin DOMAIN v3)
    BY <2>2, <2>3
  <2> HIDE DEF none
  <2> QED BY ONLY Rendering!RenderInv, f \in v7[w].todo, w \in Renderers,
       <2>2, <2>3, <2>5, <2>6, <2>7, <2>8, <2>9, RenderMarks
<1> QED BY <1>6, <1>7, <1>8, <1>9

LEMMA RenderFailures ==
  ASSUME Rendering!RenderInv, NEW w \in Renderers, NEW f \in v7[w].todo,
         \/ Rendering!DownloadFails(w, f) \/ Rendering!WriteFails(w, f)
         \/ Rendering!StorageUnavailable(w, f)
  PROVE  Rendering!RenderInv'
<1>1. RenderSound(v7[w]) /\ f \in Drafts /\ v8 \in 0..MaxMediaFaults
  BY RenderFacts DEF RenderJob
<1>2. /\ UNCHANGED <<v5, v6>>
      /\ Rendering!Fault => v8' \in 0..MaxMediaFaults
  BY <1>1, BoundsAssumption DEF Rendering!DownloadFails, Rendering!WriteFails,
     Rendering!StorageUnavailable, Rendering!Fails, Rendering!Fault
<1>3. Rendering!Status(w, f) \in {"PENDING", "FAILED"} => f \notin v2 /\ f \in DOMAIN v3
  BY <1>1, RenderFacts DEF Rendering!Status, RenderSound
<1>4. Rendering!Status(w, f) = "NONE" => f \notin v2
  BY <1>1, RenderFacts DEF Rendering!Status, RenderSound
<1>5. CASE <<f, "failure">> \notin Rendering!Taken(w) /\ Rendering!Fails(w, f, Rendering!Status(w, f))
  BY <1>2, <1>3, <1>5, RenderFails
<1>6. CASE /\ Rendering!Rendering(w, f) /\ Rendering!WaitsOn(w, <<f, "failure">>)
           /\ Rendering!Fault /\ UNCHANGED <<v5, v6>>
  <2>1. <<f, "failure">> \in Rendering!Keyed BY <1>1 DEF Rendering!Keyed
  <2>2. /\ v7[w].pc = "open" /\ UNCHANGED <<v1, v2, v3, v4, v5, v6>>
        /\ v7' = [v7 EXCEPT ![w] = [v7[w] EXCEPT !.pc = "waiting", !.on = {<<f, "failure">>}]]
    BY <1>6 DEF Rendering!Rendering, Rendering!WaitsOn, Rendering!Goes
  <2> QED BY <1>2, <1>6, <2>1, <2>2, RenderWaits
<1>7. CASE Rendering!WriteFails(w, f)
  <2> DEFINE s == IF Rendering!Status(w, f) = "NONE" THEN "PENDING" ELSE Rendering!Status(w, f)
  <2>1. Rendering!Fails(w, f, s) /\ <<f, "row">> \notin Rendering!Taken(w)
    BY <1>7 DEF Rendering!WriteFails
  <2>2. s \in {"PENDING", "FAILED"} => f \notin v2
    BY <1>3, <1>4
  <2> HIDE DEF s
  <2> QED BY <1>2, <2>1, <2>2, RenderFails
<1>8. CASE Rendering!StorageUnavailable(w, f)
  <2>1. Rendering!Fails(w, f, "RENDERED") /\ "RENDERED" \notin {"PENDING", "FAILED"}
    BY <1>8 DEF Rendering!StorageUnavailable
  <2> QED BY <1>2, <2>1, RenderFails
<1> QED BY <1>5, <1>6, <1>7, <1>8 DEF Rendering!DownloadFails

LEMMA RenderResumes ==
  ASSUME Rendering!RenderInv, NEW w \in Renderers, Rendering!WaitEnds(w)
  PROVE  Rendering!RenderInv'
<1>1. v8 \in 0..MaxMediaFaults BY RenderFacts
<1>2. /\ v7[w].pc = "waiting" /\ UNCHANGED <<v1, v2, v3, v4, v5, v6, v8>>
      /\ \/ v7' = [v7 EXCEPT ![w] = Rendering!IdleJob]
         \/ v7' = [v7 EXCEPT ![w] = [v7[w] EXCEPT !.pc = "open", !.on = {}]]
  BY DEF Rendering!WaitEnds, Rendering!Goes, Rendering!Kept
<1> QED BY <1>1, <1>2, RenderWaits

(* Proposals made elsewhere, and the store's own losses.                       *)
LEMMA RenderAround ==
  ASSUME Rendering!RenderInv, Rendering!Propose \/ Rendering!ObjectLost
  PROVE  Rendering!RenderInv'
<1>1. /\ UNCHANGED <<v2, v3, v4, v7>> /\ v8' \in 0..MaxMediaFaults
      /\ v1 \subseteq v1' /\ v1' \subseteq Drafts
      /\ v5' \cup v6' = v5 \cup v6 /\ v5' \cap v6' = {}
      /\ \A w \in Renderers : v7[w].made \cap (v1' \ v1) = {}
  <2>1. v1 \subseteq Drafts /\ v8 \in 0..MaxMediaFaults /\ v5 \cap v6 = {} BY RenderFacts
  <2>2. CASE Rendering!Propose BY <2>1, <2>2 DEF Rendering!Propose
  <2>3. CASE Rendering!ObjectLost
    BY <2>1, <2>3, BoundsAssumption DEF Rendering!ObjectLost, Rendering!Fault
  <2> QED BY <2>2, <2>3
<1>2. Rendering!TypeOK'
  BY <1>1, RenderFacts DEF Rendering!RenderInv, Rendering!TypeOK
<1>3. Rendering!RenderShapes'
  BY <1>1 DEF Rendering!RenderInv, Rendering!RenderShapes
<1>4. Rendering!Stored' /\ Rendering!InsertedOnce'
  <2>1. \A w \in Renderers : \A f \in DOMAIN v7[w].rows :
          v7[w].rows[f] = "RENDERED" => f \in v7[w].put \cup v5' \cup v6'
    BY <1>1 DEF Rendering!RenderInv, Rendering!Stored
  <2> QED BY <1>1, <2>1 DEF Rendering!RenderInv, Rendering!Stored, Rendering!InsertedOnce
<1>5. Rendering!Making'
  <2>1. \A w \in Renderers : RenderSound(v7[w])' BY <1>1, RenderFacts DEF RenderSound
  <2>2. \A v, w \in Renderers : v # w => v7'[v].made \cap v7'[w].made = {}
    BY <1>1, RenderFacts
  <2> QED BY <2>1, <2>2 DEF RenderSound, Rendering!Making
<1>6. Rendering!RenderedHasObject'
  BY <1>1, RenderFacts DEF Rendering!RenderedHasObject
<1> QED BY <1>2, <1>3, <1>4, <1>5, <1>6 DEF Rendering!RenderInv

(* A commit publishes the transaction's proposals, rows and objects at once.   *)
LEMMA RenderCommits ==
  ASSUME Rendering!RenderInv, NEW w \in Renderers, Rendering!Commit(w)
  PROVE  Rendering!RenderInv'
<1> DEFINE j == v7[w]
<1>1. /\ v7 \in [Renderers -> RenderJob] /\ v3 \in [DOMAIN v3 -> Rendering!Statuses]
      /\ v2 \subseteq v1 /\ v1 \subseteq Drafts /\ DOMAIN v3 \subseteq v1 /\ v4 \subseteq v1
      /\ v5 \cup v6 \subseteq DOMAIN v3 /\ v5 \cap v6 = {} /\ v8 \in 0..MaxMediaFaults
      /\ \A v \in Renderers : RenderSound(v7[v])
  BY RenderFacts
<1>2. /\ j \in RenderJob /\ RenderSound(j) /\ j.todo = {}
      /\ j.made \subseteq DOMAIN j.rows /\ DOMAIN j.rows \subseteq v1 \cup j.made
      /\ j.made \subseteq Drafts /\ j.put \subseteq DOMAIN j.rows \ DOMAIN v3 /\ j.fails \subseteq v1
      /\ j.rows \in [DOMAIN j.rows -> Rendering!Statuses]
  BY <1>1 DEF Rendering!Commit, RenderSound, RenderJob
<1>3. /\ v1' = v1 \cup j.made /\ v2' = v2 \cup j.made /\ v4' = v4 \cup j.fails
      /\ v5' = v5 \cup j.put /\ UNCHANGED <<v6, v8>>
      /\ DOMAIN v3' = DOMAIN v3 \cup DOMAIN j.rows
      /\ \A f \in DOMAIN j.rows : v3'[f] = j.rows[f]
      /\ \A f \in DOMAIN v3 \ DOMAIN j.rows : v3'[f] = v3[f]
  BY DEF Rendering!Commit
<1>4. v3' \in [DOMAIN v3' -> Rendering!Statuses]
  <2>1. v3' = [f \in DOMAIN v3 \cup DOMAIN j.rows |-> IF f \in DOMAIN j.rows THEN j.rows[f] ELSE v3[f]]
    BY DEF Rendering!Commit
  <2> QED BY <1>1, <1>2, <2>1
<1>5. /\ v7' \in [Renderers -> RenderJob] /\ v7'[w] = Rendering!IdleJob
      /\ \A v \in Renderers \ {w} : v7'[v] = v7[v]
  BY <1>1, RenderIdle DEF Rendering!Commit
<1>6. \A v \in Renderers \ {w} : v7[v].made \cap j.made = {}
  BY RenderFacts
<1>7. \A v \in Renderers \ {w} : DOMAIN v7[v].rows \cap DOMAIN j.rows \subseteq DOMAIN v3
  <2>1. DOMAIN j.rows \subseteq Drafts BY <1>2 DEF RenderJob
  <2> QED BY <2>1, RenderFacts
<1>8. \A f \in DOMAIN j.rows : j.rows[f] = "RENDERED" => f \in j.put \cup v5 \cup v6
  <2>1. DOMAIN j.rows \subseteq Drafts BY <1>2 DEF RenderJob
  <2> QED BY <2>1, RenderFacts
<1> HIDE DEF j
<1>9. Rendering!TypeOK'
  <2>1. v1' \subseteq Drafts /\ v2' \subseteq v1' /\ DOMAIN v3' \subseteq v1' /\ v4' \subseteq v1'
    BY <1>1, <1>2, <1>3
  <2>2. v6' \cap v5' = {} /\ v8' \in 0..MaxMediaFaults
    BY <1>1, <1>2, <1>3
  <2>3. \A v \in Renderers : v7'[v].pc \in {"idle", "open", "waiting"}
    BY <1>5 DEF RenderJob
  <2>4. \A f \in DOMAIN v3' : v3'[f] \in {"PENDING", "RENDERED", "FAILED"}
    BY <1>4 DEF Rendering!Statuses
  <2> QED BY <2>1, <2>2, <2>3, <2>4 DEF Rendering!TypeOK
<1>10. Rendering!RenderShapes'
  BY <1>4, <1>5 DEF Rendering!RenderShapes, RenderJob
<1>11. Rendering!Stored'
  <2>1. v5' \cup v6' \subseteq DOMAIN v3' BY <1>1, <1>2, <1>3
  <2>2. ASSUME NEW v \in Renderers
        PROVE  /\ v7'[v].put \subseteq DOMAIN v7'[v].rows \ DOMAIN v3'
               /\ \A f \in DOMAIN v7'[v].rows :
                    v7'[v].rows[f] = "RENDERED" => f \in v7'[v].put \cup v5' \cup v6'
    <3>1. CASE v = w BY <1>5, <3>1, RenderIdle
    <3>2. CASE v # w
      <4>1. v7[v].put \subseteq DOMAIN v7[v].rows \ DOMAIN v3 BY <1>1 DEF RenderSound
      <4>2. \A f \in DOMAIN v7[v].rows : v7[v].rows[f] = "RENDERED" => f \in v7[v].put \cup v5 \cup v6
        <5>1. DOMAIN v7[v].rows \subseteq Drafts BY <1>1 DEF RenderJob
        <5> QED BY <5>1, RenderFacts
      <4> QED BY <1>3, <1>5, <1>7, <3>2, <4>1, <4>2
    <3> QED BY <3>1, <3>2
  <2> QED BY <2>1, <2>2 DEF Rendering!Stored
<1>12. Rendering!InsertedOnce'
  <2>1. ASSUME NEW u \in Renderers, NEW v \in Renderers,
               NEW f \in DOMAIN v7'[u].rows \cap DOMAIN v7'[v].rows, u # v
        PROVE  f \in DOMAIN v3'
    <3>1. u # w /\ v # w BY <1>5, RenderIdle
    <3>2. f \in DOMAIN v7[u].rows \cap DOMAIN v7[v].rows BY <1>5, <3>1
    <3>3. f \in DOMAIN v3 BY <2>1, <3>2 DEF Rendering!RenderInv, Rendering!InsertedOnce
    <3> QED BY <1>3, <3>3
  <2> QED BY <2>1 DEF Rendering!InsertedOnce
<1>13. Rendering!Making'
  <2>1. \A u, v \in Renderers : u # v => v7'[u].made \cap v7'[v].made = {}
    <3>1. \A u, v \in Renderers : u # v => v7[u].made \cap v7[v].made = {} BY RenderFacts
    <3> QED BY <1>5, <3>1, RenderIdle
  <2>2. ASSUME NEW v \in Renderers PROVE RenderSound(v7[v])'
    <3>1. CASE v = w BY <1>5, <3>1, RenderIdle DEF RenderSound
    <3>2. CASE v # w
      <4>1. v7'[v] = v7[v] /\ RenderSound(v7[v]) BY <1>1, <1>5, <3>2
      <4>2. /\ v7[v].put \subseteq DOMAIN v7[v].rows \ DOMAIN v3'
            /\ v7[v].made \subseteq Drafts \ v1'
            /\ v7[v].todo \cup DOMAIN v7[v].rows \subseteq v1' \cup v7[v].made
            /\ v7[v].fails \subseteq v1'
        BY <1>3, <1>6, <1>7, <3>2, <4>1 DEF RenderSound
      <4>3. \A f \in DOMAIN v7[v].rows \cap (v7[v].made \cup v2') : v7[v].rows[f] = "RENDERED"
        BY <1>2, <1>3, <1>6, <3>2, <4>1 DEF RenderSound
      <4> QED BY <4>1, <4>2, <4>3 DEF RenderSound
    <3> QED BY <3>1, <3>2
  <2> QED BY <2>1, <2>2 DEF RenderSound, Rendering!Making
<1>14. Rendering!RenderedHasObject'
  <2>1. \A f \in DOMAIN v3 : v3[f] = "RENDERED" => f \in v5 \cup v6 BY RenderFacts
  <2>2. \A f \in v2 : f \in DOMAIN v3 /\ v3[f] = "RENDERED" BY RenderFacts
  <2>3. \A f \in DOMAIN v3' : v3'[f] = "RENDERED" => f \in v5' \cup v6'
    BY <1>3, <1>8, <2>1
  <2>4. \A f \in v2' : f \in DOMAIN v3' /\ v3'[f] = "RENDERED"
    BY <1>2, <1>3, <2>2 DEF RenderSound
  <2> QED BY <2>3, <2>4 DEF Rendering!RenderedHasObject
<1> QED BY <1>9, <1>10, <1>11, <1>12, <1>13, <1>14 DEF Rendering!RenderInv

LEMMA RenderStep ==
  ASSUME Rendering!RenderInv, Rendering!Next \/ UNCHANGED Rendering!renderVars
  PROVE  Rendering!RenderInv'
<1>1. CASE UNCHANGED Rendering!renderVars
  BY <1>1 DEF Rendering!renderVars, Rendering!RenderInv, Rendering!TypeOK, Rendering!RenderShapes,
     Rendering!Stored, Rendering!InsertedOnce, Rendering!Making, Rendering!RenderedHasObject
<1>2. CASE Rendering!Next
  BY <1>2, RenderAround, RenderBegins, RenderUses, RenderFailures, RenderResumes, RenderCommits
     DEF Rendering!Next
<1> QED BY <1>1, <1>2

LEMMA RenderFocus ==
  ASSUME [ServicesNext]_allVars, focus' = "rendering"
  PROVE  focus = "rendering" /\ (Rendering!Next \/ UNCHANGED Rendering!renderVars)
BY DEF ServicesNext, allVars, slots, Only, Rendering!renderVars

LEMMA RenderHolds == ServicesSpec => [](focus = "rendering" => Rendering!RenderInv)
<1> DEFINE I == focus = "rendering" => Rendering!RenderInv
<1>1. ServicesInit => I
  BY RenderStart DEF ServicesInit
<1>2. I /\ [ServicesNext]_allVars => I'
  BY RenderStep, RenderFocus
<1> QED BY <1>1, <1>2, PTL DEF ServicesSpec

(* A creative committed as rendered has its PNG in the media store unless the  *)
(* store itself has lost it, and the proposal of an exact product is never     *)
(* there without its rendered creative: for any drafts and renderers, and for  *)
(* any number of failures.                                                     *)
THEOREM RenderedAreStored == ServicesSpec => []RenderedHasObject
<1>1. (focus = "rendering" => Rendering!RenderInv) => RenderedHasObject
  BY DEF RenderedHasObject, Rendering!RenderInv
<1> QED BY <1>1, RenderHolds, PTL

-----------------------------------------------------------------------------
(* SchemaAdoption.                                                             *)

(* In Schema: version is v1, catalog v2, rows v3, paused v4, sess v5, pushes   *)
(* v6.                                                                         *)
SchemaViews   == UNION {[O -> Schema!Forms] : O \in SUBSET Schema!Owners}
SchemaSession ==
  [kind : {"idle", "alembic", "exact", "adopt31", "adopt33"}, at : 0..35, from : 0..35,
   target : 0..35, pc : {"idle", "inspect", "lock", "rebuild", "certify"}, path : Schema!Routes,
   locked : SUBSET (Schema!Owners \cup {0}), view : SchemaViews,
   dropped : SUBSET Schema!Owners, owed : {"none", "bundle", "development"}]

(* What a session knows of the tables, and the part of the invariant that is   *)
(* its own.                                                                    *)
SchemaSeen(j, o) == IF o \in DOMAIN j.view THEN j.view[o] ELSE v2[o]

SchemaKept(j) ==
  /\ DOMAIN j.view \subseteq j.locked \cap Schema!Owners /\ j.dropped \subseteq j.locked
  /\ j.dropped \cap v3 = {}
  /\ j.pc \in {"idle", "certify"} => j.view = << >>
  /\ j.pc = "idle" => j.locked = {}
  /\ j.pc = "certify" => j.locked = Schema!Examined

SchemaTakes(j) ==
  /\ j.pc \in {"lock", "rebuild"} => j.path \in Schema!Paths(j.at + 1) /\ j.at < j.target
  /\ j.pc = "rebuild" => Schema!Locks(j.path, j.at + 1) \subseteq j.locked

SchemaMoved(j) ==
  j.pc \in {"inspect", "lock", "rebuild"} =>
    /\ j.from \in 19..35 /\ j.at \in j.from..j.target /\ j.target \in 20..35 /\ j.from < j.target
    /\ j.at > j.from => 0 \in j.locked /\ v1 = j.from
    /\ \A o \in Schema!Owners : j.from < o /\ o <= j.at =>
         o \in j.locked /\ SchemaSeen(j, o) = Schema!Form(o, j.at)

SchemaSound(j) == SchemaKept(j) /\ SchemaTakes(j) /\ SchemaMoved(j)

SchemaClaims ==
  /\ v1 \in 19..35 /\ v2 \in [Schema!Owners -> Schema!Forms] /\ v3 \subseteq Schema!Owners
  /\ v4 \in BOOLEAN /\ v6 \in 0..MaxPushes /\ v5 \in [Sessions -> SchemaSession]
  /\ \A s, q \in Sessions : s # q => v5[s].locked \cap v5[q].locked = {}
  /\ \A s \in Sessions : SchemaSound(v5[s])

LEMMA SchemaFrom == SchemaClaims => Schema!SchemaInv
<1> SUFFICES ASSUME SchemaClaims PROVE Schema!SchemaInv OBVIOUS
<1> USE DEF SchemaClaims
<1>1. \A s \in Sessions : v5[s] \in SchemaSession OBVIOUS
<1>2. Schema!TypeOK
  BY <1>1 DEF Schema!TypeOK, SchemaSession, Schema!Head
<1>3. Schema!SessionShapes
  <2>1. \A s \in Sessions : v5[s].view \in [DOMAIN v5[s].view -> Schema!Forms]
    BY <1>1 DEF SchemaSession, SchemaViews
  <2>2. \A s \in Sessions : v5[s].view \in {v5[q].view : q \in Sessions}
    OBVIOUS
  <2>3. ASSUME NEW V, \A s \in Sessions : v5[s].view \in V
        PROVE  v5 \in [Sessions ->
                 [kind : {"idle", "alembic", "exact", "adopt31", "adopt33"}, at : 0..35, from : 0..35,
                  target : 0..35, pc : {"idle", "inspect", "lock", "rebuild", "certify"},
                  path : Schema!Routes, locked : SUBSET (Schema!Owners \cup {0}), view : V,
                  dropped : SUBSET Schema!Owners, owed : {"none", "bundle", "development"}]]
    BY <1>1, <2>3 DEF SchemaSession
  <2> DEFINE views == {v5[q].view : q \in Sessions}
  <2>4. \A s \in Sessions : v5[s].view \in views BY <2>2
  <2> HIDE DEF views
  <2>5. v5 \in [Sessions ->
                 [kind : {"idle", "alembic", "exact", "adopt31", "adopt33"}, at : 0..35, from : 0..35,
                  target : 0..35, pc : {"idle", "inspect", "lock", "rebuild", "certify"},
                  path : Schema!Routes, locked : SUBSET (Schema!Owners \cup {0}), view : views,
                  dropped : SUBSET Schema!Owners, owed : {"none", "bundle", "development"}]]
    BY <2>3, <2>4
  <2> QED BY <2>1, <2>5 DEF Schema!SessionShapes, views, Schema!Head
<1>4. Schema!LocksExclude BY DEF Schema!LocksExclude
<1>5. Schema!UnderLock BY DEF Schema!UnderLock, SchemaSound, SchemaKept
<1>6. Schema!Taking BY DEF Schema!Taking, SchemaSound, SchemaTakes
<1>7. Schema!Migrated
  BY DEF Schema!Migrated, SchemaSound, SchemaMoved, SchemaSeen, Schema!View, Schema!Head
<1> QED BY <1>2, <1>3, <1>4, <1>5, <1>6, <1>7 DEF Schema!SchemaInv

LEMMA SchemaIdle ==
  /\ Schema!Idle \in SchemaSession /\ Schema!Idle.pc = "idle" /\ Schema!Idle.locked = {}
  /\ Schema!Idle.dropped = {} /\ Schema!Idle.view = << >> /\ SchemaSound(Schema!Idle)
<1>1. << >> \in [{} -> Schema!Forms] /\ DOMAIN << >> = {} BY EmptyFunction
<1>2. << >> \in SchemaViews BY <1>1 DEF SchemaViews
<1>3. "none" \in Schema!Routes BY DEF Schema!Routes
<1>4. /\ Schema!Idle.pc = "idle" /\ Schema!Idle.locked = {}
      /\ Schema!Idle.dropped = {} /\ Schema!Idle.view = << >>
  BY DEF Schema!Idle
<1>5. Schema!Idle \in SchemaSession
  BY <1>2, <1>3 DEF Schema!Idle, SchemaSession
<1>6. SchemaSound(Schema!Idle)
  BY <1>1, <1>4 DEF SchemaSound, SchemaKept, SchemaTakes, SchemaMoved
<1> QED BY <1>4, <1>5, <1>6

LEMMA SchemaStart ==
  ASSUME Schema!Init
  PROVE  SchemaClaims
<1>1. /\ v3 = {} /\ v4 = TRUE /\ v6 = 0 /\ v5 = [s \in Sessions |-> Schema!Idle]
  BY DEF Schema!Init
<1>2. ASSUME NEW v \in 19..35, NEW T, NEW form \in Schema!Forms
      PROVE  Schema!At(v, T, form) \in [Schema!Owners -> Schema!Forms]
  BY DEF Schema!At, Schema!Canonical, Schema!Form, Schema!Forms
<1>3. v1 \in 19..35 /\ v2 \in [Schema!Owners -> Schema!Forms]
  <2>1. PICK d \in Schema!Deployed : v1 = d[1] /\ v2 = d[2] BY DEF Schema!Init
  <2>2. \E v \in 19..35, T \in SUBSET (20..35), form \in Schema!Forms : d = <<v, Schema!At(v, T, form)>>
    <3>1. {"absent", "legacy", "canonical", "dev", "drift", "rendering"} \subseteq Schema!Forms
      BY DEF Schema!Forms
    <3>2. CASE d \in {<<v, Schema!At(v, {}, "absent")>> : v \in {19, 23, 28, 31, Schema!Head}}
      BY <3>1, <3>2 DEF Schema!Head
    <3>3. CASE d \in {<<19, Schema!At(19, {20}, f)>> : f \in {"legacy", "canonical"}}
      BY <3>1, <3>3
    <3>4. CASE d \in {<<19, Schema!At(19, Schema!Bundle, f)>> : f \in {"legacy", "canonical"}}
      BY <3>1, <3>4 DEF Schema!Bundle
    <3>5. CASE d \in {<<19, Schema!At(19, {20, 23}, "legacy")>>}
      BY <3>1, <3>5
    <3>6. CASE d \in {<<23, Schema!At(23, Schema!Drift, "dev")>>, <<27, Schema!At(27, Schema!Drift, "drift")>>,
                      <<28, Schema!At(28, {26}, "rendering")>>}
      BY <3>1, <3>6 DEF Schema!Drift
    <3>7. CASE d \in {<<30, Schema!At(30, {31}, "canonical")>>, <<31, Schema!At(31, {32, 33}, "canonical")>>}
      BY <3>1, <3>7
    <3> QED BY <3>2, <3>3, <3>4, <3>5, <3>6, <3>7 DEF Schema!Deployed
  <2> QED BY <1>2, <2>1, <2>2
<1>4. \A s \in Sessions : v5[s] = Schema!Idle BY <1>1
<1> QED BY <1>1, <1>3, <1>4, SchemaIdle, BoundsAssumption DEF SchemaClaims

(* A session goes on.                                                          *)
LEMMA SchemaGoes ==
  ASSUME SchemaClaims, NEW s \in Sessions, NEW j \in SchemaSession, SchemaSound(j),
         v5' = [v5 EXCEPT ![s] = j], UNCHANGED <<v1, v2, v3, v4, v6>>,
         \A q \in Sessions \ {s} : v5[q].locked \cap j.locked = {}
  PROVE  SchemaClaims'
<1>1. /\ v1 \in 19..35 /\ v2 \in [Schema!Owners -> Schema!Forms] /\ v3 \subseteq Schema!Owners
      /\ v4 \in BOOLEAN /\ v6 \in 0..MaxPushes
      /\ v5 \in [Sessions -> SchemaSession]
  BY DEF SchemaClaims
<1>2. \A p, q \in Sessions : p # q => v5[p].locked \cap v5[q].locked = {}
  BY DEF SchemaClaims
<1>3. \A q \in Sessions : SchemaSound(v5[q])
  BY DEF SchemaClaims
<1>4. /\ v5' \in [Sessions -> SchemaSession] /\ v5'[s] = j
      /\ \A q \in Sessions \ {s} : v5'[q] = v5[q]
  BY <1>1
<1>5. \A p, q \in Sessions : p # q => v5'[p].locked \cap v5'[q].locked = {}
  BY <1>2, <1>4
<1>6. \A q \in Sessions : SchemaSound(v5[q])'
  <2> SUFFICES ASSUME NEW q \in Sessions PROVE SchemaSound(v5[q])' OBVIOUS
  <2>1. SchemaSound(v5'[q]) BY <1>3, <1>4
  <2> QED BY <2>1 DEF SchemaSound, SchemaKept, SchemaTakes, SchemaMoved, SchemaSeen
<1>7. /\ v1' \in 19..35 /\ v2' \in [Schema!Owners -> Schema!Forms] /\ v3' \subseteq Schema!Owners
      /\ v4' \in BOOLEAN /\ v6' \in 0..MaxPushes
  BY <1>1
<1>8. v5' \in [Sessions -> SchemaSession] BY <1>4
<1> QED BY <1>5, <1>6, <1>7, <1>8 DEF SchemaClaims

LEMMA SchemaUndone ==
  ASSUME SchemaClaims, NEW s \in Sessions, Schema!Undone(s)
  PROVE  SchemaClaims'
<1>1. v5' = [v5 EXCEPT ![s] = Schema!Idle] /\ UNCHANGED <<v1, v2, v3, v4, v6>>
  BY DEF Schema!Undone, Schema!Become
<1>2. \A q \in Sessions \ {s} : v5[q].locked \cap Schema!Idle.locked = {}
  BY SchemaIdle
<1> QED BY <1>1, <1>2, SchemaIdle, SchemaGoes

(* The route of a revision, whatever the first inspection finds.               *)
LEMMA SchemaRoutes ==
  ASSUME NEW s \in Sessions, NEW r \in 20..35, Schema!Diagnosis(s, r) # "refuse"
  PROVE  Schema!Diagnosis(s, r) \in Schema!Paths(r) /\ Schema!Diagnosis(s, r) \in Schema!Routes
BY DEF Schema!Diagnosis, Schema!Paths, Schema!Routes, Schema!Adoption, Schema!PlansFound,
   Schema!DevelopmentFound, Schema!PublishedFound, Schema!RenderingFound, Schema!Fresh

LEMMA SchemaPaths ==
  ASSUME NEW r \in 20..35, NEW path \in Schema!Paths(r)
  PROVE  \/ path = "create" /\ r \in Schema!Owners \ {30, 32, 33}
         \/ path = "adopt" /\ r \in 21..27
         \/ path \in {"pair", "bundle"} /\ r = 20
         \/ path = "development" /\ r = 24
         \/ path = "published" /\ r = 28
         \/ path = "checks" /\ r = 29
         \/ path = "skip" /\ r \in {28, 29}
         \/ path = "lineage" /\ r = 30
         \/ path = "guarded" /\ r = 32
         \/ path = "append" /\ r = 33
BY DEF Schema!Paths, Schema!Owners

LEMMA SchemaOver ==
  ASSUME NEW f, NEW g, NEW h, h = Schema!Over(f, g)
  PROVE  /\ \A o : o \in DOMAIN h <=> o \in DOMAIN f \/ o \in DOMAIN g
         /\ \A o \in DOMAIN f : h[o] = f[o]
         /\ \A o \in DOMAIN g : o \notin DOMAIN f => h[o] = g[o]
BY DEF Schema!Over

LEMMA SchemaMade ==
  ASSUME NEW O, NEW form
  PROVE  /\ DOMAIN Schema!Made(O, form) = O
         /\ \A o \in O : Schema!Made(O, form)[o] = form
BY DEF Schema!Made

(* A frozen contract changes at 0030, for the reshaped tables, and at 0033, for*)
(* the admissions.                                                             *)
LEMMA SchemaForms ==
  /\ \A o \in Schema!Owners, v \in 19..35 : Schema!Form(o, v) \in {"canonical", "lineage", "guarded"}
  /\ \A o \in Schema!Reshaped, v \in 19..29 : Schema!Form(o, v) = "canonical"
  /\ \A o \in Schema!Reshaped, v \in 30..35 : Schema!Form(o, v) = "lineage"
  /\ \A o \in Schema!Owners \ (Schema!Reshaped \cup {32}), v \in 19..35 :
       Schema!Form(o, v) = "canonical"
  /\ Schema!Form(32, 32) = "guarded" /\ \A v \in 33..35 : Schema!Form(32, v) = "canonical"
BY DEF Schema!Form, Schema!Owners, Schema!Reshaped

(* What a confirmed path leaves behind: tables of its own, each in the form the*)
(* revision freezes, and the revision's own among them or adopted under a lock.*)
SchemaLeaves(s, path, r) ==
  LET R == Schema!Rebuilt(s, path, r)
  IN  /\ DOMAIN R \subseteq Schema!Owners /\ \A o \in DOMAIN R : R[o] \in Schema!Forms
      /\ r \in Schema!Owners =>
           \/ r \in DOMAIN R /\ R[r] = Schema!Form(r, r)
           \/ r \notin DOMAIN R /\ r \in Schema!Locks(path, r) /\ Schema!View(s, r) = Schema!Form(r, r)
      /\ \A o \in Schema!Owners : o < r /\ Schema!View(s, o) = Schema!Form(o, r - 1) =>
           IF o \in DOMAIN R THEN R[o] = Schema!Form(o, r)
                             ELSE Schema!Form(o, r - 1) = Schema!Form(o, r)

LEMMA SchemaLeft ==
  ASSUME NEW s \in Sessions, NEW r \in 20..35, NEW path \in Schema!Paths(r),
         Schema!Confirmed(s, path, r), \A o \in Schema!Owners : Schema!View(s, o) \in Schema!Forms
  PROVE  SchemaLeaves(s, path, r)
<1> DEFINE R == Schema!Rebuilt(s, path, r)
<1>0. {"canonical", "absent", "lineage", "guarded"} \subseteq Schema!Forms
      /\ Schema!Reshaped \subseteq Schema!Owners
  BY DEF Schema!Forms, Schema!Reshaped, Schema!Owners
<1>1. ASSUME r \notin {30, 33}
      PROVE  \A o \in Schema!Owners : o < r => Schema!Form(o, r - 1) = Schema!Form(o, r)
  BY <1>1 DEF Schema!Form, Schema!Owners, Schema!Reshaped
<1>2. ASSUME r \notin {30, 33}, DOMAIN R \subseteq Schema!Owners, \A o \in DOMAIN R : R[o] \in Schema!Forms,
             \A o \in DOMAIN R : o <= r => R[o] = Schema!Form(o, r),
             r \in Schema!Owners => \/ r \in DOMAIN R
                                    \/ r \in Schema!Locks(path, r) /\ Schema!View(s, r) = Schema!Form(r, r)
      PROVE  SchemaLeaves(s, path, r)
  <2>1. \A o \in Schema!Owners : o \in Int BY DEF Schema!Owners
  <2> HIDE DEF R
  <2> QED BY <1>1, <1>2, <2>1 DEF SchemaLeaves, R
<1>3. CASE path = "create" /\ r \in Schema!Owners \ {30, 32, 33}
  <2>1. R = Schema!Made({r}, "canonical") BY <1>3 DEF Schema!Rebuilt
  <2>2. DOMAIN R = {r} /\ R[r] = "canonical" BY <2>1, SchemaMade
  <2>3. Schema!Form(r, r) = "canonical" \/ r \notin 20..29 BY <1>3, SchemaForms
  <2>4. Schema!Form(r, r) = "canonical" BY <1>3 DEF Schema!Form, Schema!Owners, Schema!Reshaped
  <2> HIDE DEF R
  <2> QED BY <1>0, <1>2, <1>3, <2>2, <2>4
<1>4. CASE path = "adopt" /\ r \in 21..27
  <2>1. R = << >> /\ DOMAIN R = {} BY <1>4, EmptyFunction DEF Schema!Rebuilt
  <2>2. Schema!View(s, r) = "canonical" BY <1>4 DEF Schema!Confirmed
  <2>3. Schema!Form(r, r) = "canonical" BY <1>4 DEF Schema!Form
  <2>4. r \in Schema!Locks(path, r) BY <1>4 DEF Schema!Locks
  <2> HIDE DEF R
  <2> QED BY <1>2, <1>4, <2>1, <2>2, <2>3, <2>4
<1>5. CASE path = "pair" /\ r = 20
  <2>1. R = Schema!Made({20}, "canonical") BY <1>5 DEF Schema!Rebuilt
  <2>2. DOMAIN R = {20} /\ R[20] = "canonical" BY <2>1, SchemaMade
  <2>3. Schema!Form(20, 20) = "canonical" /\ 20 \in Schema!Owners BY DEF Schema!Form, Schema!Owners
  <2> HIDE DEF R
  <2> QED BY <1>0, <1>2, <1>5, <2>2, <2>3
<1>6. CASE path = "bundle" /\ r = 20
  <2> DEFINE gone == Schema!Dropped(s, "bundle")
             own  == Schema!Made({20}, "canonical")
             left == Schema!Made(gone, "absent")
  <2>1. R = Schema!Over(own, left)
    BY <1>6 DEF Schema!Rebuilt, Schema!BundleRebuilt
  <2>2. /\ \A o : o \in DOMAIN own <=> o = 20
        /\ own[20] = "canonical" /\ DOMAIN left = gone /\ \A o \in gone : left[o] = "absent"
    BY SchemaMade
  <2>3. \A o \in gone : o \in 20..27 BY DEF Schema!Dropped, Schema!Bundle
  <2> HIDE DEF gone, own, left, R
  <2>4. /\ \A o : o \in DOMAIN R <=> o = 20 \/ o \in gone
        /\ R[20] = "canonical" /\ \A o \in gone : o # 20 => R[o] = "absent"
    BY <2>1, <2>2, SchemaOver
  <2>5. Schema!Form(20, 20) = "canonical" /\ \A o \in 20..27 : o \in Schema!Owners
    BY DEF Schema!Form, Schema!Owners
  <2>6. \A o \in DOMAIN R : o <= r => R[o] = Schema!Form(o, r)
    BY <1>6, <2>3, <2>4, <2>5
  <2>7. DOMAIN R \subseteq Schema!Owners /\ \A o \in DOMAIN R : R[o] \in Schema!Forms
    BY <1>0, <2>3, <2>4, <2>5
  <2>8. r \in DOMAIN R BY <1>6, <2>4
  <2> QED BY <1>2, <1>6, <2>6, <2>7, <2>8 DEF R
<1>7. CASE path = "development" /\ r = 24
  <2>1. R = [o \in 23..27 |-> IF o <= 24 THEN "canonical" ELSE "absent"]
    BY <1>7 DEF Schema!Rebuilt, Schema!DevelopmentRebuilt, Schema!Drift
  <2>2. /\ DOMAIN R = 23..27 /\ \A o \in 23..27 : R[o] \in {"canonical", "absent"}
        /\ R[23] = "canonical" /\ R[24] = "canonical"
    BY <2>1
  <2>3. /\ Schema!Form(23, 24) = "canonical" /\ Schema!Form(24, 24) = "canonical"
        /\ 23..27 \subseteq Schema!Owners
    BY DEF Schema!Form, Schema!Owners
  <2> HIDE DEF R
  <2>4. \A o \in DOMAIN R : o <= r => R[o] = Schema!Form(o, r) BY <1>7, <2>2, <2>3
  <2> QED BY <1>0, <1>2, <1>7, <2>2, <2>3, <2>4
<1>8. CASE path = "published" /\ r = 28
  <2> DEFINE analytics == Schema!Made({23, 24, 25}, "canonical")
             runs      == Schema!Made({26, 27}, "canonical")
  <2>1. R = Schema!Over(analytics, runs)
    BY <1>8 DEF Schema!Rebuilt, Schema!PublishedRebuilt, Schema!AnalyticsRebuilt, Schema!RunsRebuilt
  <2>2. /\ \A o : o \in DOMAIN analytics <=> o \in {23, 24, 25}
        /\ \A o : o \in DOMAIN runs <=> o \in {26, 27}
        /\ \A o \in {23, 24, 25} : analytics[o] = "canonical"
        /\ \A o \in {26, 27} : runs[o] = "canonical"
    BY SchemaMade
  <2> HIDE DEF R, analytics, runs
  <2>3. \A o \in DOMAIN R : o \in {23, 24, 25, 26, 27} /\ R[o] = "canonical"
    BY <2>1, <2>2, SchemaOver
  <2>4. \A o \in {23, 24, 25, 26, 27} : Schema!Form(o, 28) = "canonical" /\ o \in Schema!Owners
    BY DEF Schema!Form, Schema!Owners
  <2>5. 28 \notin Schema!Owners BY DEF Schema!Owners
  <2>6. \A o \in DOMAIN R : /\ o \in Schema!Owners /\ R[o] \in Schema!Forms
                          /\ R[o] = Schema!Form(o, r)
    <3> SUFFICES ASSUME NEW o \in DOMAIN R
                 PROVE  /\ o \in Schema!Owners /\ R[o] \in Schema!Forms
                        /\ R[o] = Schema!Form(o, r)
      OBVIOUS
    <3>1. o \in {23, 24, 25, 26, 27} /\ R[o] = "canonical" BY <2>3
    <3>2. Schema!Form(o, r) = "canonical" /\ o \in Schema!Owners BY <1>8, <2>4, <3>1
    <3> QED BY <1>0, <3>1, <3>2
  <2>7. r \notin {30, 33} /\ r \notin Schema!Owners BY <1>8, <2>5
  <2> QED BY <1>2, <2>6, <2>7 DEF R
<1>9. CASE path = "checks" /\ r = 29
  <2>1. R = Schema!Made({26}, "canonical") BY <1>9 DEF Schema!Rebuilt, Schema!ChecksRewritten
  <2>2. DOMAIN R = {26} /\ R[26] = "canonical" BY <2>1, SchemaMade
  <2>3. Schema!Form(26, 29) = "canonical" /\ 26 \in Schema!Owners /\ 29 \notin Schema!Owners
    BY DEF Schema!Form, Schema!Owners
  <2> HIDE DEF R
  <2> QED BY <1>0, <1>2, <1>9, <2>2, <2>3
<1>10. CASE path = "skip" /\ r \in {28, 29}
  <2>1. R = << >> /\ DOMAIN R = {} BY <1>10, EmptyFunction DEF Schema!Rebuilt
  <2>2. r \notin Schema!Owners BY <1>10 DEF Schema!Owners
  <2> HIDE DEF R
  <2> QED BY <1>2, <1>10, <2>1, <2>2
<1>11. CASE path = "lineage" /\ r = 30
  <2> DEFINE altered == [o \in Schema!Reshaped |->
                           IF Schema!View(s, o) = "canonical" THEN "lineage" ELSE Schema!View(s, o)]
  <2> DEFINE own == Schema!Made({30}, "canonical")
  <2>1. R = Schema!Over(own, altered)
    BY <1>11 DEF Schema!Rebuilt, Schema!LineageAltered
  <2>2. /\ DOMAIN altered = Schema!Reshaped
        /\ \A o \in Schema!Reshaped : /\ altered[o] \in Schema!Forms
                                      /\ Schema!View(s, o) = "canonical" => altered[o] = "lineage"
        /\ \A o : o \in DOMAIN own <=> o = 30
        /\ own[30] = "canonical"
    BY <1>0, SchemaMade
  <2>3. 30 \notin Schema!Reshaped BY DEF Schema!Reshaped
  <2> HIDE DEF R, altered, own
  <2>4. /\ \A o : o \in DOMAIN R <=> o = 30 \/ o \in Schema!Reshaped
        /\ R[30] = "canonical" /\ \A o \in Schema!Reshaped : R[o] = altered[o]
    BY <2>1, <2>2, <2>3, SchemaOver
  <2>5. /\ Schema!Form(30, 30) = "canonical" /\ 30 \in Schema!Owners
        /\ \A o \in Schema!Reshaped : Schema!Form(o, 29) = "canonical" /\ Schema!Form(o, 30) = "lineage"
        /\ \A o \in Schema!Owners \ Schema!Reshaped : o < 30 => Schema!Form(o, 29) = Schema!Form(o, 30)
    BY DEF Schema!Form, Schema!Owners, Schema!Reshaped
  <2>6. DOMAIN R \subseteq Schema!Owners /\ \A o \in DOMAIN R : R[o] \in Schema!Forms
    BY <1>0, <2>2, <2>4, <2>5
  <2>7. \A o \in Schema!Owners : o < 30 /\ Schema!View(s, o) = Schema!Form(o, 29) =>
          IF o \in DOMAIN R THEN R[o] = Schema!Form(o, 30) ELSE Schema!Form(o, 29) = Schema!Form(o, 30)
    BY <2>2, <2>4, <2>5
  <2>8. 30 - 1 = 29 OBVIOUS
  <2> QED BY <1>11, <2>4, <2>5, <2>6, <2>7, <2>8 DEF SchemaLeaves, R
<1>12. CASE path = "guarded" /\ r = 32
  <2>1. R = Schema!Made({32}, "guarded") BY <1>12 DEF Schema!Rebuilt, Schema!AdmissionsGuarded
  <2>2. DOMAIN R = {32} /\ R[32] = "guarded" BY <2>1, SchemaMade
  <2>3. Schema!Form(32, 32) = "guarded" /\ 32 \in Schema!Owners BY DEF Schema!Form, Schema!Owners, Schema!Reshaped
  <2> HIDE DEF R
  <2> QED BY <1>0, <1>2, <1>12, <2>2, <2>3
<1>13. CASE path = "append" /\ r = 33
  <2>1. R = Schema!Made({32, 33}, "canonical") BY <1>13 DEF Schema!Rebuilt, Schema!ReadinessAppended
  <2>2. DOMAIN R = {32, 33} /\ R[32] = "canonical" /\ R[33] = "canonical" BY <2>1, SchemaMade
  <2>3. /\ Schema!Form(32, 33) = "canonical" /\ Schema!Form(33, 33) = "canonical"
        /\ {32, 33} \subseteq Schema!Owners
        /\ \A o \in Schema!Owners \ {32} : o < 33 => Schema!Form(o, 32) = Schema!Form(o, 33)
    BY DEF Schema!Form, Schema!Owners, Schema!Reshaped
  <2>4. 33 - 1 = 32 OBVIOUS
  <2> HIDE DEF R
  <2> QED BY <1>0, <1>13, <2>2, <2>3, <2>4 DEF SchemaLeaves, R
<1> QED BY <1>3, <1>4, <1>5, <1>6, <1>7, <1>8, <1>9, <1>10, <1>11, <1>12, <1>13, SchemaPaths

(* What a confirmed path drops is empty and under its locks.                   *)
LEMMA SchemaDrops ==
  ASSUME NEW s \in Sessions, NEW r \in 20..35, NEW path \in Schema!Paths(r),
         Schema!Confirmed(s, path, r), v5[s].dropped \cap v3 = {}
  PROVE  /\ Schema!Dropped(s, path) \subseteq Schema!Locks(path, r) \cap Schema!Owners
         /\ Schema!Dropped(s, path) \cap v3 = {}
<1>1. /\ 20..27 \subseteq Schema!Owners /\ Schema!Bundle = 20..27 /\ Schema!Drift = 23..27
  BY DEF Schema!Owners, Schema!Bundle, Schema!Drift
<1>2. \A O : Schema!Empty(s, O) => O \cap v3 = {}
  BY DEF Schema!Empty
<1>3. CASE path = "pair"
  <2>1. Schema!Dropped(s, path) \subseteq {20} /\ Schema!Locks(path, r) = {20}
    BY <1>3 DEF Schema!Dropped, Schema!Locks
  <2>2. {20} \cap v3 = {} BY <1>2, <1>3 DEF Schema!Confirmed
  <2> QED BY <1>1, <2>1, <2>2
<1>4. CASE path = "bundle"
  <2>1. Schema!Dropped(s, path) \subseteq Schema!Bundle /\ Schema!Locks(path, r) = Schema!Bundle
    BY <1>4 DEF Schema!Dropped, Schema!Locks
  <2>2. CASE Schema!All(s, Schema!Bundle, "legacy")
    <3>1. Schema!View(s, 20) = "legacy" BY <1>1, <2>2 DEF Schema!All
    <3>2. ~Schema!All(s, Schema!Bundle, "canonical") BY <1>1, <3>1 DEF Schema!All
    <3>3. Schema!Bundle \cap v3 = {} BY <1>2, <1>4, <3>2 DEF Schema!Confirmed
    <3> QED BY <1>1, <2>1, <3>3
  <2>3. CASE ~Schema!All(s, Schema!Bundle, "legacy")
    <3>1. Schema!Dropped(s, path) = {} BY <1>4, <2>3 DEF Schema!Dropped
    <3> QED BY <3>1
  <2> QED BY <2>2, <2>3
<1>5. CASE path \in {"development", "published"}
  <2>1. /\ Schema!Dropped(s, path) = Schema!Drift
        /\ Schema!Locks(path, r) \in {Schema!Bundle, Schema!Drift}
    BY <1>5 DEF Schema!Dropped, Schema!Locks
  <2>2. Schema!Bundle \cap v3 = {} BY <1>2, <1>5 DEF Schema!Confirmed
  <2> QED BY <1>1, <2>1, <2>2
<1>6. CASE path \notin {"pair", "bundle", "development", "published"}
  <2>1. Schema!Dropped(s, path) = {} BY <1>6 DEF Schema!Dropped
  <2> QED BY <2>1
<1> QED BY <1>3, <1>4, <1>5, <1>6

LEMMA SchemaBegins ==
  ASSUME SchemaClaims, NEW s \in Sessions,
         \/ \E target \in {26, Schema!Head} : Schema!StartRunner(s, target)
         \/ \E kind \in {"adopt31", "adopt33", "exact"} : Schema!StartBookkeeping(s, kind)
  PROVE  SchemaClaims'
<1>1. /\ Schema!Idle \in SchemaSession /\ Schema!Idle.locked = {}
      /\ Schema!Idle.dropped = {} /\ Schema!Idle.view = << >> /\ v1 \in 19..35
  BY SchemaIdle DEF SchemaClaims
<1>2. DOMAIN << >> = {} BY EmptyFunction
<1>5. << >> \in SchemaViews /\ "none" \in Schema!Routes
  <2>1. << >> \in [{} -> Schema!Forms] BY EmptyFunction
  <2> QED BY <1>2, <2>1 DEF SchemaViews, Schema!Routes
<1>3. ASSUME NEW target \in {26, Schema!Head}, Schema!StartRunner(s, target)
      PROVE  SchemaClaims'
  <2> DEFINE j == [Schema!Idle EXCEPT !.kind = "alembic", !.at = v1, !.from = v1,
                                      !.target = target, !.pc = "inspect"]
  <2>1. target \in 20..35 /\ target > v1 BY <1>3 DEF Schema!Head, Schema!StartRunner
  <2>2. /\ j \in SchemaSession /\ j.locked = {} /\ j.dropped = {} /\ j.view = << >>
        /\ j.at = v1 /\ j.from = v1 /\ j.target = target /\ j.pc = "inspect"
    <3>1. j \in [kind : {"alembic"}, at : {v1}, from : {v1}, target : {target}, pc : {"inspect"},
                 path : {"none"}, locked : {{}}, view : {<< >>}, dropped : {{}}, owed : {"none"}]
      BY DEF Schema!Idle
    <3>2. v1 \in 0..35 /\ target \in 0..35 BY <1>1, <2>1
    <3>3. {} \in SUBSET (Schema!Owners \cup {0}) OBVIOUS
    <3> HIDE DEF j
    <3> QED BY <1>5, <3>1, <3>2, <3>3 DEF SchemaSession
  <2>3. v5' = [v5 EXCEPT ![s] = j] /\ UNCHANGED <<v1, v2, v3, v4, v6>>
    BY <1>3 DEF Schema!StartRunner, Schema!Become
  <2> HIDE DEF j
  <2>4. SchemaMoved(j)
    <3>1. \A o \in Schema!Owners : ~(j.from < o /\ o <= j.at)
      BY <1>1, <2>2 DEF Schema!Owners
    <3> QED BY <1>1, <2>1, <2>2, <3>1 DEF SchemaMoved
  <2>5. SchemaSound(j)
    BY <1>2, <2>2, <2>4 DEF SchemaSound, SchemaKept, SchemaTakes
  <2>6. \A q \in Sessions \ {s} : v5[q].locked \cap j.locked = {} BY <2>2
  <2> QED BY <2>2, <2>3, <2>5, <2>6, SchemaGoes
<1>4. ASSUME NEW kind \in {"adopt31", "adopt33", "exact"}, Schema!StartBookkeeping(s, kind)
      PROVE  SchemaClaims'
  <2> DEFINE j == [Schema!Idle EXCEPT !.kind = kind, !.from = v1, !.pc = "certify",
                                      !.locked = Schema!Examined]
  <2>1. Schema!Examined = Schema!Owners \cup {0} BY DEF Schema!Examined
  <2>2. /\ j \in SchemaSession /\ j.locked = Schema!Examined /\ j.dropped = {} /\ j.view = << >>
        /\ j.pc = "certify"
    <3>1. j \in [kind : {kind}, at : {0}, from : {v1}, target : {0}, pc : {"certify"},
                 path : {"none"}, locked : {Schema!Examined}, view : {<< >>}, dropped : {{}},
                 owed : {"none"}]
      BY DEF Schema!Idle
    <3>2. v1 \in 0..35 /\ 0 \in 0..35 BY <1>1
    <3>3. Schema!Examined \in SUBSET (Schema!Owners \cup {0}) BY <2>1
    <3> HIDE DEF j
    <3> QED BY <1>5, <3>1, <3>2, <3>3 DEF SchemaSession
  <2>3. v5' = [v5 EXCEPT ![s] = j] /\ UNCHANGED <<v1, v2, v3, v4, v6>>
    BY <1>4 DEF Schema!StartBookkeeping, Schema!Become
  <2>4. \A q \in Sessions \ {s} : v5[q].locked \cap j.locked = {}
    BY <1>4, <2>2 DEF Schema!StartBookkeeping, Schema!Free
  <2> HIDE DEF j
  <2>5. SchemaSound(j)
    BY <1>2, <2>2 DEF SchemaSound, SchemaKept, SchemaTakes, SchemaMoved
  <2> QED BY <2>2, <2>3, <2>4, <2>5, SchemaGoes
<1> QED BY <1>3, <1>4

LEMMA SchemaInspects ==
  ASSUME SchemaClaims, NEW s \in Sessions, Schema!Inspect(s) \/ Schema!LockTables(s)
  PROVE  SchemaClaims'
<1>1. v5[s] \in SchemaSession /\ SchemaSound(v5[s]) /\ DOMAIN v5 = Sessions
  BY DEF SchemaClaims
<1>2. v5[s].pc \in {"inspect", "lock"} /\ UNCHANGED <<v1, v2, v3, v4, v6>>
  BY DEF Schema!Inspect, Schema!LockTables
<1>3. SchemaMoved(v5[s]) /\ v5[s].at \in 19..35 /\ v5[s].target \in 20..35
  BY <1>1, <1>2 DEF SchemaSound, SchemaMoved
<1>4. CASE Schema!Inspect(s)
  <2> DEFINE path == Schema!Diagnosis(s, v5[s].at + 1)
             j    == [v5[s] EXCEPT !.path = path, !.pc = "lock"]
  <2>1. /\ v5[s].pc = "inspect" /\ v5[s].at < v5[s].target /\ path # "refuse"
        /\ v5' = [v5 EXCEPT ![s] = j]
    BY <1>4 DEF Schema!Inspect, Schema!Become
  <2>2. v5[s].at + 1 \in 20..35 BY <1>3, <2>1
  <2>3. path \in Schema!Paths(v5[s].at + 1) /\ path \in Schema!Routes
    BY <2>1, <2>2, SchemaRoutes
  <2> HIDE DEF path
  <2>4. /\ j \in SchemaSession /\ j.path = path /\ j.pc = "lock" /\ j.at = v5[s].at
        /\ j.from = v5[s].from /\ j.target = v5[s].target /\ j.locked = v5[s].locked
        /\ j.view = v5[s].view /\ j.dropped = v5[s].dropped
    BY <1>1, <2>3 DEF SchemaSession
  <2> HIDE DEF j
  <2>5. SchemaKept(j) /\ SchemaTakes(j)
    BY <1>1, <2>1, <2>3, <2>4 DEF SchemaSound, SchemaKept, SchemaTakes
  <2>6. SchemaMoved(j)
    BY <1>2, <1>3, <2>4 DEF SchemaMoved, SchemaSeen
  <2>7. \A q \in Sessions \ {s} : v5[q].locked \cap j.locked = {}
    BY <2>4 DEF SchemaClaims
  <2> QED BY <1>2, <2>1, <2>4, <2>5, <2>6, <2>7, SchemaGoes DEF SchemaSound
<1>5. CASE Schema!LockTables(s)
  <2> DEFINE wanted == Schema!Locks(v5[s].path, v5[s].at + 1)
             j      == [v5[s] EXCEPT !.locked = v5[s].locked \cup wanted, !.pc = "rebuild"]
  <2>1. /\ v5[s].pc = "lock" /\ \A o \in wanted : Schema!Free(s, o)
        /\ v5' = [v5 EXCEPT ![s] = j]
    BY <1>5 DEF Schema!LockTables, Schema!Become
  <2>2. /\ v5[s].path \in Schema!Paths(v5[s].at + 1) /\ v5[s].at < v5[s].target
        /\ v5[s].at + 1 \in 20..35
    BY <1>1, <1>3, <2>1 DEF SchemaSound, SchemaTakes
  <2>3. wanted \subseteq Schema!Owners \cup {0}
    BY <2>2, SchemaPaths DEF Schema!Locks, Schema!Owners, Schema!Bundle, Schema!Drift, Schema!Reshaped
  <2> HIDE DEF wanted
  <2>4. /\ j \in SchemaSession /\ j.path = v5[s].path /\ j.pc = "rebuild" /\ j.at = v5[s].at
        /\ j.from = v5[s].from /\ j.target = v5[s].target /\ j.locked = v5[s].locked \cup wanted
        /\ j.view = v5[s].view /\ j.dropped = v5[s].dropped
    BY <1>1, <2>3 DEF SchemaSession
  <2> HIDE DEF j
  <2>5. SchemaKept(j) /\ SchemaTakes(j)
    BY <1>1, <2>1, <2>2, <2>4 DEF SchemaSound, SchemaKept, SchemaTakes, wanted
  <2>6. SchemaMoved(j)
    BY <1>2, <1>3, <2>4 DEF SchemaMoved, SchemaSeen
  <2>7. \A q \in Sessions \ {s} : v5[q].locked \cap j.locked = {}
    BY <2>1, <2>4 DEF SchemaClaims, Schema!Free
  <2> QED BY <1>2, <2>1, <2>4, <2>5, <2>6, <2>7, SchemaGoes DEF SchemaSound
<1> QED BY <1>4, <1>5

(* A revision is applied: the tables it has rebuilt, adopted or passed over    *)
(* stand under its locks in the forms it freezes.                              *)
LEMMA SchemaRebuilds ==
  ASSUME SchemaClaims, NEW s \in Sessions, Schema!Rebuild(s)
  PROVE  SchemaClaims'
<1> DEFINE k    == v5[s]
           r    == k.at + 1
           R    == Schema!Rebuilt(s, k.path, r)
           new  == Schema!Over(R, k.view)
           gone == {o \in Schema!Dropped(s, k.path) : o \notin DOMAIN k.view}
           owed == CASE k.path = "bundle" /\ Schema!Dropped(s, k.path) # {} -> "bundle"
                     [] k.path = "development" -> "development"
                     [] r = 27 -> "none"
                     [] OTHER  -> k.owed
           lost == k.dropped \cup gone
           held == k.locked \cup {0} \cup DOMAIN new
           j    == [k EXCEPT !.at = r, !.pc = "inspect", !.view = new, !.dropped = lost,
                             !.locked = held, !.owed = owed]
<1>1. /\ k.pc = "rebuild" /\ Schema!Confirmed(s, k.path, r)
      /\ \A o \in DOMAIN new : o \in DOMAIN k.view \/ Schema!Free(s, o)
      /\ Schema!Free(s, 0) /\ v1 = k.from /\ UNCHANGED <<v1, v2, v3, v4, v6>>
  BY DEF Schema!Rebuild
<1>2. v5' = [v5 EXCEPT ![s] = j]
  BY DEF Schema!Rebuild, Schema!Become
<1>3. k \in SchemaSession /\ SchemaKept(k) /\ SchemaTakes(k) /\ SchemaMoved(k)
  BY DEF SchemaClaims, SchemaSound
<1>4. /\ k.at \in 19..35 /\ k.target \in 20..35 /\ k.at < k.target /\ k.path \in Schema!Paths(r)
      /\ k.from \in 19..35 /\ k.from <= k.at
      /\ Schema!Locks(k.path, r) \subseteq k.locked
      /\ \A o \in Schema!Owners : k.from < o /\ o <= k.at =>
           o \in k.locked /\ SchemaSeen(k, o) = Schema!Form(o, k.at)
  BY <1>1, <1>3 DEF SchemaTakes, SchemaMoved
<1>5. r \in 20..35 /\ r - 1 = k.at /\ r <= k.target BY <1>4
<1>6. /\ DOMAIN k.view \subseteq Schema!Owners /\ \A o \in DOMAIN k.view : k.view[o] \in Schema!Forms
      /\ DOMAIN k.view \subseteq k.locked
  BY <1>3 DEF SchemaSession, SchemaViews, SchemaKept
<1>7. \A o : Schema!View(s, o) = SchemaSeen(k, o)
  BY DEF Schema!View, SchemaSeen
<1>8. \A o \in Schema!Owners : Schema!View(s, o) \in Schema!Forms
  BY <1>6 DEF Schema!View, SchemaClaims
<1>9. SchemaLeaves(s, k.path, r)
  BY <1>1, <1>4, <1>5, <1>8, SchemaLeft
<1>10. /\ DOMAIN R \subseteq Schema!Owners /\ \A o \in DOMAIN R : R[o] \in Schema!Forms
       /\ r \in Schema!Owners =>
            \/ r \in DOMAIN R /\ R[r] = Schema!Form(r, r)
            \/ r \notin DOMAIN R /\ r \in Schema!Locks(k.path, r) /\ SchemaSeen(k, r) = Schema!Form(r, r)
       /\ \A o \in Schema!Owners : o < r /\ SchemaSeen(k, o) = Schema!Form(o, k.at) =>
            IF o \in DOMAIN R THEN R[o] = Schema!Form(o, r)
                              ELSE Schema!Form(o, k.at) = Schema!Form(o, r)
  BY <1>5, <1>7, <1>9 DEF SchemaLeaves
<1>11. /\ Schema!Dropped(s, k.path) \subseteq k.locked \cap Schema!Owners
       /\ Schema!Dropped(s, k.path) \cap v3 = {} /\ k.dropped \cap v3 = {}
  <2>1. k.dropped \cap v3 = {} BY <1>3 DEF SchemaKept
  <2> QED BY <1>1, <1>4, <1>5, <2>1, SchemaDrops
<1> HIDE DEF R
<1>12. /\ \A o : o \in DOMAIN new <=> o \in DOMAIN R \/ o \in DOMAIN k.view
       /\ \A o \in DOMAIN R : new[o] = R[o]
       /\ \A o \in DOMAIN k.view : o \notin DOMAIN R => new[o] = k.view[o]
  BY SchemaOver
<1>13. new \in SchemaViews
  <2>1. DOMAIN new \in SUBSET Schema!Owners /\ \A o \in DOMAIN new : new[o] \in Schema!Forms
    BY <1>6, <1>10, <1>12
  <2>2. new = [o \in DOMAIN new |-> new[o]] BY DEF Schema!Over
  <2> HIDE DEF new
  <2>3. new \in [DOMAIN new -> Schema!Forms] BY <2>1, <2>2
  <2> QED BY <2>1, <2>3 DEF SchemaViews
<1>14. /\ gone \in SUBSET Schema!Owners /\ gone \subseteq k.locked /\ gone \cap v3 = {}
  BY <1>11
<1>15. owed \in {"none", "bundle", "development"}
  BY <1>3 DEF SchemaSession
<1> HIDE DEF new, gone, owed
<1>16. /\ j \in SchemaSession /\ j.at = r /\ j.pc = "inspect" /\ j.view = new
       /\ j.dropped = k.dropped \cup gone /\ j.locked = k.locked \cup {0} \cup DOMAIN new
       /\ j.from = k.from /\ j.target = k.target
  <2>1. lost \in SUBSET Schema!Owners /\ held \in SUBSET (Schema!Owners \cup {0})
    BY <1>3, <1>6, <1>10, <1>12, <1>14 DEF SchemaSession
  <2>2. r \in 0..35 BY <1>5
  <2> HIDE DEF k, r, lost, held
  <2>3. /\ j \in SchemaSession /\ j.at = r /\ j.pc = "inspect" /\ j.view = new
        /\ j.dropped = lost /\ j.locked = held /\ j.from = k.from /\ j.target = k.target
    BY <1>3, <1>13, <1>15, <2>1, <2>2 DEF SchemaSession
  <2> QED BY <2>3 DEF lost, held
<1> HIDE DEF j
<1>17. SchemaKept(j) /\ SchemaTakes(j)
  <2>1. DOMAIN new \subseteq Schema!Owners BY <1>6, <1>10, <1>12
  <2>2. k.dropped \subseteq k.locked BY <1>3 DEF SchemaKept
  <2> QED BY <1>11, <1>14, <1>16, <2>1, <2>2 DEF SchemaKept, SchemaTakes
<1>18. SchemaMoved(j)
  <2>1. ASSUME NEW o \in Schema!Owners, k.from < o, o <= r
        PROVE  o \in j.locked /\ SchemaSeen(j, o) = Schema!Form(o, r)
    <3>0. o \in Int BY DEF Schema!Owners
    <3>1. SchemaSeen(j, o) = IF o \in DOMAIN R THEN R[o] ELSE SchemaSeen(k, o)
      BY <1>12, <1>16 DEF SchemaSeen
    <3>2. CASE o = r
      BY <1>4, <1>10, <1>12, <1>16, <3>1, <3>2
    <3>3. CASE o # r
      <4>1. o < r /\ o <= k.at BY <1>4, <2>1, <3>0, <3>3
      <4>2. o \in k.locked /\ SchemaSeen(k, o) = Schema!Form(o, k.at) BY <1>4, <2>1, <4>1
      <4>3. IF o \in DOMAIN R THEN R[o] = Schema!Form(o, r)
                              ELSE Schema!Form(o, k.at) = Schema!Form(o, r)
        BY <1>10, <4>1, <4>2
      <4> QED BY <1>16, <3>1, <4>2, <4>3
    <3> QED BY <3>2, <3>3
  <2>2. j.from \in 19..35 /\ j.at \in j.from..j.target /\ j.target \in 20..35 /\ j.from < j.target
    BY <1>4, <1>5, <1>16
  <2>3. 0 \in j.locked /\ v1 = j.from BY <1>1, <1>16
  <2> HIDE DEF k, r
  <2>4. \A o \in Schema!Owners : j.from < o /\ o <= j.at =>
          o \in j.locked /\ SchemaSeen(j, o) = Schema!Form(o, j.at)
    BY <1>16, <2>1
  <2> QED BY <2>2, <2>3, <2>4 DEF SchemaMoved
<1>19. \A q \in Sessions \ {s} : v5[q].locked \cap j.locked = {}
  <2> SUFFICES ASSUME NEW q \in Sessions \ {s}, NEW o \in v5[q].locked, o \in j.locked
               PROVE  FALSE
    OBVIOUS
  <2>1. v5[q].locked \cap k.locked = {} BY DEF SchemaClaims
  <2>2. o \notin k.locked /\ (o = 0 \/ o \in DOMAIN new) BY <1>16, <2>1
  <2>3. Schema!Free(s, o) BY <1>1, <1>6, <2>2
  <2> QED BY <2>3 DEF Schema!Free
<1> QED BY <1>1, <1>2, <1>16, <1>17, <1>18, <1>19, SchemaGoes DEF SchemaSound

(* The session that holds alembic_version ends, and records a revision: the    *)
(* others have not moved yet.                                                  *)
LEMMA SchemaEnds ==
  ASSUME SchemaClaims, NEW s \in Sessions, 0 \in v5[s].locked,
         v5' = [v5 EXCEPT ![s] = Schema!Idle], UNCHANGED <<v3, v4, v6>>,
         v1' \in 19..35, v2' \in [Schema!Owners -> Schema!Forms]
  PROVE  SchemaClaims'
<1>1. /\ v5' \in [Sessions -> SchemaSession] /\ v5'[s] = Schema!Idle
      /\ \A q \in Sessions \ {s} : v5'[q] = v5[q]
  BY SchemaIdle DEF SchemaClaims
<1>2. \A p, q \in Sessions : p # q => v5'[p].locked \cap v5'[q].locked = {}
  BY <1>1, SchemaIdle DEF SchemaClaims
<1>3. ASSUME NEW q \in Sessions PROVE SchemaSound(v5[q])'
  <2>1. CASE q = s
    <3>1. DOMAIN << >> = {} BY EmptyFunction
    <3>2. /\ v5'[q].pc = "idle" /\ v5'[q].locked = {} /\ v5'[q].dropped = {}
          /\ v5'[q].view = << >>
      BY <1>1, <2>1, SchemaIdle
    <3> QED BY <3>1, <3>2 DEF SchemaSound, SchemaKept, SchemaTakes, SchemaMoved
  <2>2. CASE q # s
    <3>1. v5'[q] = v5[q] /\ SchemaKept(v5[q]) /\ SchemaTakes(v5[q]) /\ SchemaMoved(v5[q])
          /\ 0 \notin v5[q].locked
      BY <1>1, <2>2 DEF SchemaClaims, SchemaSound
    <3>2. SchemaKept(v5[q])' /\ SchemaTakes(v5[q])'
      BY <3>1 DEF SchemaKept, SchemaTakes
    <3>3. SchemaMoved(v5[q])'
      <4>1. v5[q].pc \in {"inspect", "lock", "rebuild"} =>
              /\ v5[q].from \in 19..35 /\ v5[q].at \in v5[q].from..v5[q].target
              /\ v5[q].target \in 20..35 /\ v5[q].from < v5[q].target /\ ~(v5[q].at > v5[q].from)
        BY <3>1 DEF SchemaMoved
      <4>2. \A o \in Schema!Owners : o \in Int BY DEF Schema!Owners
      <4> QED BY <3>1, <4>1, <4>2 DEF SchemaMoved
    <3> QED BY <3>2, <3>3 DEF SchemaSound
  <2> QED BY <2>1, <2>2
<1>4. v3' \subseteq Schema!Owners /\ v4' \in BOOLEAN /\ v6' \in 0..MaxPushes
  BY DEF SchemaClaims
<1> QED BY <1>1, <1>2, <1>3, <1>4 DEF SchemaClaims

LEMMA SchemaCommits ==
  ASSUME SchemaClaims, NEW s \in Sessions, Schema!Commit(s)
  PROVE  SchemaClaims' /\ Schema!StepIsSafe
<1> DEFINE k == v5[s]
<1>1. k \in SchemaSession /\ SchemaKept(k) /\ SchemaMoved(k)
  BY DEF SchemaClaims, SchemaSound
<1>2. /\ k.pc = "inspect" /\ k.at = k.target /\ v1' = k.at /\ v3' = v3 \ k.dropped
      /\ v2' = [o \in Schema!Owners |-> Schema!View(s, o)]
      /\ v5' = [v5 EXCEPT ![s] = Schema!Idle] /\ UNCHANGED <<v4, v6>>
  BY DEF Schema!Commit, Schema!Become
<1>3. /\ k.at \in 19..35 /\ 0 \in k.locked /\ v1 = k.from
      /\ \A o \in Schema!Owners : k.from < o /\ o <= k.at => SchemaSeen(k, o) = Schema!Form(o, k.at)
  BY <1>1, <1>2 DEF SchemaMoved
<1>4. v3' = v3 BY <1>1, <1>2 DEF SchemaKept
<1>5. /\ \A o \in Schema!Owners : v2'[o] = SchemaSeen(k, o)
      /\ v2' \in [Schema!Owners -> Schema!Forms]
  <2>1. \A o \in DOMAIN k.view : k.view[o] \in Schema!Forms
    BY <1>1 DEF SchemaSession, SchemaViews
  <2>2. \A o \in Schema!Owners : Schema!View(s, o) = SchemaSeen(k, o) /\ Schema!View(s, o) \in Schema!Forms
    BY <2>1 DEF Schema!View, SchemaSeen, SchemaClaims
  <2> QED BY <1>2, <2>2
<1>6. Schema!StepIsSafe
  BY <1>2, <1>3, <1>4, <1>5 DEF Schema!StepIsSafe
<1> QED BY <1>2, <1>3, <1>4, <1>5, <1>6, SchemaEnds

(* A bookkeeping runner holds every relation while it certifies.               *)
LEMMA SchemaRecords ==
  ASSUME SchemaClaims, NEW s \in Sessions, Schema!Record(s)
  PROVE  SchemaClaims' /\ Schema!StepIsSafe
<1> DEFINE move == Schema!Advance(s, v5[s].kind)
<1>1. /\ v5[s].pc = "certify" /\ move.ok /\ v1' = move.to /\ UNCHANGED <<v3, v4, v6>>
      /\ v2' = IF v5[s].kind = "exact" THEN [v2 EXCEPT ![32] = "guarded"] ELSE v2
      /\ v5' = [v5 EXCEPT ![s] = Schema!Idle]
  BY DEF Schema!Record, Schema!Become
<1>2. /\ 0 \in v5[s].locked /\ v5[s].view = << >> /\ DOMAIN << >> = {}
      /\ v2 \in [Schema!Owners -> Schema!Forms] /\ v1 \in 19..35
  BY <1>1, EmptyFunction DEF SchemaClaims, SchemaSound, SchemaKept, Schema!Examined
<1>3. \A o \in Schema!Owners : Schema!View(s, o) = v2[o]
  BY <1>2 DEF Schema!View
<1>4. /\ {31, 32, 33} \subseteq Schema!Owners /\ "guarded" \in Schema!Forms
      /\ Schema!Form(31, 31) = "canonical" /\ Schema!Form(32, 33) = "canonical"
      /\ Schema!Form(33, 33) = "canonical" /\ Schema!Form(32, 32) = "guarded"
      /\ \A o \in Schema!Owners : o \in Int
  BY DEF Schema!Owners, Schema!Forms, Schema!Form, Schema!Reshaped
<1>5. \/ v5[s].kind = "adopt31" /\ v1 = 30 /\ v1' = 31 /\ v2' = v2 /\ v2[31] = "canonical"
      \/ /\ v5[s].kind = "adopt33" /\ v1 = 31 /\ v1' = 33 /\ v2' = v2
         /\ v2[32] = "canonical" /\ v2[33] = "canonical"
      \/ v5[s].kind = "exact" /\ v1 = 31 /\ v1' = 32 /\ v2' = [v2 EXCEPT ![32] = "guarded"]
  <2>1. CASE v5[s].kind = "adopt31" /\ v1 = 30
    BY <1>1, <1>3, <1>4, <2>1 DEF Schema!Advance
  <2>2. CASE v5[s].kind = "adopt33" /\ v1 = 31
    BY <1>1, <1>3, <1>4, <2>2 DEF Schema!Advance, Schema!All
  <2>3. CASE v5[s].kind = "exact" /\ v1 = 31
    BY <1>1, <2>3 DEF Schema!Advance
  <2>4. CASE ~(\/ v5[s].kind = "adopt31" /\ v1 = 30
               \/ v5[s].kind = "adopt33" /\ v1 = 31
               \/ v5[s].kind = "exact" /\ v1 = 31)
    BY <1>1, <2>4 DEF Schema!Advance
  <2> QED BY <2>1, <2>2, <2>3, <2>4
<1>6. v1' \in 19..35 /\ v2' \in [Schema!Owners -> Schema!Forms]
  BY <1>2, <1>4, <1>5
<1>7. Schema!StepIsSafe
  <2>1. ASSUME NEW o \in Schema!Owners, v1 < o, o <= v1'
        PROVE  v2'[o] = Schema!Form(o, v1')
    BY <1>2, <1>4, <1>5, <2>1
  <2> QED BY <1>1, <2>1 DEF Schema!StepIsSafe
<1> QED BY <1>1, <1>2, <1>6, <1>7, SchemaEnds

(* Applications, the operator and the platform stay off what is locked.        *)
LEMMA SchemaAround ==
  ASSUME SchemaClaims,
         \/ \E o \in Schema!Owners : Schema!Insert(o)
         \/ \E p \in Schema!Pushed : Schema!Push(p[1], p[2])
         \/ Schema!Operate
  PROVE  SchemaClaims'
<1>1. /\ UNCHANGED <<v1, v5>> /\ v4' \in BOOLEAN /\ v6' \in 0..MaxPushes
      /\ v3' \subseteq Schema!Owners /\ v2' \in [Schema!Owners -> Schema!Forms]
      /\ \A s \in Sessions : v5[s].locked \cap (v3' \ v3) = {}
      /\ \A s \in Sessions : \A o \in v5[s].locked \cap Schema!Owners : v2'[o] = v2[o]
  <2>1. CASE \E o \in Schema!Owners : Schema!Insert(o)
    BY <2>1 DEF Schema!Insert, Schema!Unlocked, SchemaClaims
  <2>2. CASE \E p \in Schema!Pushed : Schema!Push(p[1], p[2])
    <3>1. PICK p \in Schema!Pushed : Schema!Push(p[1], p[2]) BY <2>2
    <3>2. p[2] \in Schema!Forms BY DEF Schema!Pushed, Schema!Forms
    <3>3. v2' = [o \in Schema!Owners |-> IF o \in p[1] THEN p[2] ELSE v2[o]]
      BY <3>1 DEF Schema!Push
    <3>4. \A o \in p[1], s \in Sessions : o \notin v5[s].locked
      BY <3>1 DEF Schema!Push, Schema!Unlocked
    <3>5. UNCHANGED <<v1, v3, v4, v5>> /\ v6 < MaxPushes /\ v6' = v6 + 1
      BY <3>1 DEF Schema!Push
    <3>6. v6' \in 0..MaxPushes BY <3>5, BoundsAssumption DEF SchemaClaims
    <3> QED BY <3>2, <3>3, <3>4, <3>5, <3>6 DEF SchemaClaims
  <2>3. CASE Schema!Operate
    BY <2>3 DEF Schema!Operate, SchemaClaims
  <2> QED BY <2>1, <2>2, <2>3
<1>2. ASSUME NEW s \in Sessions PROVE SchemaSound(v5[s])'
  <2>1. v5'[s] = v5[s] /\ SchemaKept(v5[s]) /\ SchemaTakes(v5[s]) /\ SchemaMoved(v5[s])
    BY <1>1 DEF SchemaClaims, SchemaSound
  <2>2. SchemaKept(v5[s])' BY <1>1, <2>1 DEF SchemaKept
  <2>3. SchemaTakes(v5[s])' BY <2>1 DEF SchemaTakes
  <2>4. \A o \in v5[s].locked \cap Schema!Owners : SchemaSeen(v5[s], o)' = SchemaSeen(v5[s], o)
    BY <1>1 DEF SchemaSeen
  <2>5. SchemaMoved(v5[s])' BY <1>1, <2>1, <2>4 DEF SchemaMoved
  <2> QED BY <2>2, <2>3, <2>5 DEF SchemaSound
<1>3. v5' \in [Sessions -> SchemaSession] /\ v1' \in 19..35
      /\ \A s, q \in Sessions : s # q => v5'[s].locked \cap v5'[q].locked = {}
  BY <1>1 DEF SchemaClaims
<1> QED BY <1>1, <1>2, <1>3 DEF SchemaClaims

LEMMA SchemaStep ==
  ASSUME SchemaClaims, Schema!Next \/ UNCHANGED Schema!vars
  PROVE  SchemaClaims' /\ Schema!StepIsSafe
<1>1. ASSUME UNCHANGED v1, v3 \subseteq v3' PROVE Schema!StepIsSafe
  <2>1. \A o \in Schema!Owners : ~(v1 < o /\ o <= v1')
    BY <1>1 DEF SchemaClaims, Schema!Owners
  <2> QED BY <1>1, <2>1 DEF Schema!StepIsSafe
<1>2. CASE UNCHANGED Schema!vars
  <2>1. UNCHANGED <<v1, v2, v3, v4, v5, v6>> BY <1>2 DEF Schema!vars
  <2>2. SchemaClaims'
    BY <2>1 DEF SchemaClaims, SchemaSound, SchemaKept, SchemaTakes, SchemaMoved, SchemaSeen
  <2> QED BY <1>1, <2>1, <2>2
<1>3. ASSUME NEW s \in Sessions,
             \/ \E target \in {26, Schema!Head} : Schema!StartRunner(s, target)
             \/ \E kind \in {"adopt31", "adopt33", "exact"} : Schema!StartBookkeeping(s, kind)
             \/ Schema!Inspect(s) \/ Schema!LockTables(s) \/ Schema!Rebuild(s) \/ Schema!Rollback(s)
             \/ Schema!_external_bundle_dependencies(s)
             \/ Schema!_external_dependencies_for_tables(s)
      PROVE  SchemaClaims' /\ Schema!StepIsSafe
  <2>1. UNCHANGED <<v1, v3>>
    BY <1>3 DEF Schema!StartRunner, Schema!StartBookkeeping, Schema!Inspect, Schema!LockTables,
       Schema!Rebuild, Schema!Rollback, Schema!_external_bundle_dependencies,
       Schema!_external_dependencies_for_tables, Schema!Undone
  <2>2. SchemaClaims'
    BY <1>3, SchemaBegins, SchemaInspects, SchemaRebuilds, SchemaUndone
       DEF Schema!Rollback, Schema!_external_bundle_dependencies,
           Schema!_external_dependencies_for_tables
  <2> QED BY <1>1, <2>1, <2>2
<1>4. ASSUME \/ \E o \in Schema!Owners : Schema!Insert(o)
             \/ \E p \in Schema!Pushed : Schema!Push(p[1], p[2])
             \/ Schema!Operate
      PROVE  SchemaClaims' /\ Schema!StepIsSafe
  <2>1. UNCHANGED v1 /\ v3 \subseteq v3'
    BY <1>4 DEF Schema!Insert, Schema!Push, Schema!Operate
  <2> QED BY <1>1, <1>4, <2>1, SchemaAround
<1> QED BY <1>2, <1>3, <1>4, SchemaCommits, SchemaRecords DEF Schema!Next

LEMMA SchemaFocus ==
  ASSUME [ServicesNext]_allVars, focus' = "schema"
  PROVE  focus = "schema" /\ (Schema!Next \/ UNCHANGED Schema!vars)
BY DEF ServicesNext, allVars, slots, Only, Schema!vars

LEMMA SchemaHolds == ServicesSpec => [](focus = "schema" => SchemaClaims)
<1> DEFINE I == focus = "schema" => SchemaClaims
<1>1. ServicesInit => I
  BY SchemaStart DEF ServicesInit
<1>2. I /\ [ServicesNext]_allVars => I'
  BY SchemaStep, SchemaFocus
<1> QED BY <1>1, <1>2, PTL DEF ServicesSpec

(* The module's invariant, as the one proved here.                             *)
LEMMA SchemaInvHolds == ServicesSpec => [](focus = "schema" => Schema!SchemaInv)
<1>1. (focus = "schema" => SchemaClaims) => (focus = "schema" => Schema!SchemaInv)
  BY SchemaFrom
<1> QED BY <1>1, SchemaHolds, PTL

(* No committed row disappears, whatever the platform publishes and whichever  *)
(* writer slips in between the first inspection and the locks, and a revision  *)
(* is recorded only in a step that leaves the tables it owns in their frozen   *)
(* form: for any number of sessions, rows and publishes.                       *)
THEOREM AdoptionsAreSafe == ServicesSpec => AdoptionIsSafe
<1> DEFINE I == focus = "schema" => SchemaClaims
           A == focus = "schema" => Schema!StepIsSafe
<1>1. I /\ [ServicesNext]_allVars => [A]_allVars
  <2> SUFFICES ASSUME I, ServicesNext, focus = "schema" PROVE Schema!StepIsSafe
    OBVIOUS
  <2>1. SchemaClaims /\ Schema!Next
    BY DEF ServicesNext, Only
  <2> QED BY <2>1, SchemaStep
<1> HIDE DEF A
<1>2. ServicesSpec => [][A]_allVars
  BY <1>1, SchemaHolds, PTL DEF ServicesSpec
<1> QED BY <1>2 DEF AdoptionIsSafe, A
=============================================================================
