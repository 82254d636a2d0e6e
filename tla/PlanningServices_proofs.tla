---------------------- MODULE PlanningServices_proofs ------------------------
(* Proofs about what is planned ahead: the scheduled quotas, the portfolio's   *)
(* plan and the batches of proposals, for every calendar, catalogue, portfolio *)
(* and limits.                                                                 *)
EXTENDS Services, SequenceTheorems, FiniteSetTheorems, WellFoundedInduction, TLAPS

-----------------------------------------------------------------------------
(* ScheduledQuota.                                                             *)

(* Only the holder of the control row has a transaction open.                  *)
LockFacts ==
  \A a \in Admitters : tx[a].at # "idle" => lock = a /\ tx[a].pub \in Publications

(* The row of a claimed publication is locked: it stays scheduled and due.     *)
ClaimFacts ==
  \A a \in Admitters : Claimed(a) =>
    status[tx[a].pub] = "SCHEDULED" /\ when[tx[a].pub] \in 1..today

(* Past its postcondition, a transaction knows a ledger within the limits, and *)
(* nobody can change that ledger until it commits.                             *)
Assessed(a) ==
  LET p == tx[a].pub IN
  /\ when[p] = tx[a].day /\ ReservedDay(a, p) = tx[a].day
  /\ \A h \in Horizons : LedgerCount(a, h, p) <= Limits[a][h]
AfterFacts == \A a \in Admitters : tx[a].at = "after" => Assessed(a)

IInv == TypeOK /\ LockFacts /\ ClaimFacts /\ AfterFacts

-----------------------------------------------------------------------------
(* What the updates of a transaction's record do.                              *)

LEMMA AtUpdate ==
  ASSUME NEW t \in Transactions, NEW l \in Steps
  PROVE  /\ [t EXCEPT !.at = l] \in Transactions
         /\ [t EXCEPT !.at = l].at = l
         /\ [t EXCEPT !.at = l].pub = t.pub
         /\ [t EXCEPT !.at = l].day = t.day
  BY DEF Transactions

LEMMA LockUpdate ==
  ASSUME NEW t \in Transactions, NEW p \in Publications
  PROVE  /\ [t EXCEPT !.at = "locked", !.pub = p] \in Transactions
         /\ [t EXCEPT !.at = "locked", !.pub = p].at = "locked"
         /\ [t EXCEPT !.at = "locked", !.pub = p].pub = p
  BY DEF Transactions, Steps

LEMMA ReadUpdate ==
  ASSUME NEW t \in Transactions, NEW d \in AnyDay
  PROVE  /\ [t EXCEPT !.at = "read", !.day = d] \in Transactions
         /\ [t EXCEPT !.at = "read", !.day = d].at = "read"
         /\ [t EXCEPT !.at = "read", !.day = d].pub = t.pub
  BY DEF Transactions, Steps

LEMMA BeforeUpdate ==
  ASSUME NEW t \in Transactions, NEW u \in [Horizons -> Nat]
  PROVE  /\ [t EXCEPT !.at = "before", !.used = u] \in Transactions
         /\ [t EXCEPT !.at = "before", !.used = u].at = "before"
         /\ [t EXCEPT !.at = "before", !.used = u].pub = t.pub
  BY DEF Transactions, Steps

LEMMA IdleType == Idle \in Transactions /\ Idle.at = "idle"
<1>1. 0 \in AnyDay BY CalendarAssumption DEF AnyDay
<1> QED BY <1>1 DEF Idle, Transactions, Steps

(* Usage is a number.                                                          *)
LEMMA UsedType ==
  ASSUME TypeOK, NEW a \in Admitters, NEW h \in Horizons, NEW p \in Publications,
         tx[a].pub \in Publications
  PROVE  LedgerCount(a, h, p) \in Nat /\ Used(a, h, p) \in Nat
         /\ LedgerCount(a, h, p) <= Used(a, h, p)
<1> DEFINE L == {q \in Reserved(a) : Draws(a, h, p, q, ReservedDay(a, q))}
           C == {q \in Commitments(a) \ Reserved(a) : Draws(a, h, p, q, when[q])}
<1>1. L \subseteq Publications /\ C \subseteq Publications BY DEF TypeOK, Reserved, Commitments
<1>2. IsFiniteSet(L) /\ IsFiniteSet(C) BY <1>1, FS_Subset, PublicationsAssumption
<1>3. Cardinality(L) \in Nat /\ Cardinality(C) \in Nat BY <1>2, FS_CardinalityType
<1>4. LedgerCount(a, h, p) = Cardinality(L) BY DEF LedgerCount
<1>5. Used(a, h, p) = LedgerCount(a, h, p) + Cardinality(C) BY DEF Used
<1> HIDE DEF L, C
<1> QED BY <1>3, <1>4, <1>5

-----------------------------------------------------------------------------
LEMMA InitIInv == Init => IInv
<1> SUFFICES ASSUME Init PROVE IInv OBVIOUS
<1> USE DEF Init
<1>1. \A a \in Admitters : tx[a] = Idle OBVIOUS
<1>2. TypeOK
  <2>1. tx \in [Admitters -> Transactions] BY IdleType
  <2> QED BY <2>1, CalendarAssumption DEF TypeOK, AnyDay, Statuses
<1>3. LockFacts BY <1>1, IdleType DEF LockFacts
<1>4. ClaimFacts BY <1>1, IdleType DEF ClaimFacts, Claimed
<1>5. AfterFacts BY <1>1, IdleType DEF AfterFacts
<1> QED BY <1>2, <1>3, <1>4, <1>5 DEF IInv

-----------------------------------------------------------------------------
(* The steps of a transaction.                                                 *)

(* While a may move, every other transaction is idle.                          *)
LEMMA OthersIdle ==
  ASSUME IInv, NEW a \in Admitters, tx[a].at # "idle" \/ lock = None
  PROVE  \A b \in Admitters \ {a} : tx[b].at = "idle"
<1> USE AdmittersAssumption DEF IInv, LockFacts
<1>1. CASE tx[a].at # "idle" BY <1>1
<1>2. CASE lock = None BY <1>2
<1> QED BY <1>1, <1>2

(* A step of a before its claim, or that ends it without one.                  *)
LEMMA OpenStep ==
  ASSUME IInv, NEW a \in Admitters, tx[a].at # "idle" \/ lock = None,
         NEW t \in Transactions, tx' = [tx EXCEPT ![a] = t],
         t.at \in {"idle", "locked", "read", "before"},
         t.at # "idle" => lock' = a /\ t.pub \in Publications,
         lock' \in Admitters \cup {None},
         UNCHANGED <<rows, reserved, resDay, today>>
  PROVE  IInv'
<1>1. TypeOK' BY DEF IInv, TypeOK, rows
<1>2. \A b \in Admitters \ {a} : tx'[b].at = "idle" BY OthersIdle DEF IInv, TypeOK
<1>3. tx'[a] = t BY DEF IInv, TypeOK
<1>4. LockFacts' BY <1>2, <1>3 DEF LockFacts
<1>5. ClaimFacts' BY <1>2, <1>3 DEF ClaimFacts, Claimed
<1>6. AfterFacts' BY <1>2, <1>3 DEF AfterFacts
<1> QED BY <1>1, <1>4, <1>5, <1>6 DEF IInv

LEMMA ClaimStep ==
  ASSUME IInv, NEW a \in Admitters, ReserveAndClaim(a)
  PROVE  IInv'
<1> USE DEF ReserveAndClaim, Goto, rows
<1> DEFINE t == [tx[a] EXCEPT !.at = "claimed"]
<1>1. /\ t \in Transactions /\ t.at = "claimed" /\ t.pub = tx[a].pub
  BY AtUpdate DEF IInv, TypeOK, Steps
<1>2. tx' = [tx EXCEPT ![a] = t] /\ tx'[a] = t BY DEF IInv, TypeOK
<1> HIDE DEF t
<1>3. TypeOK' BY <1>1, <1>2 DEF IInv, TypeOK
<1>4. \A b \in Admitters \ {a} : tx'[b].at = "idle" BY <1>2, OthersIdle DEF IInv, TypeOK
<1>5. LockFacts' BY <1>1, <1>2, <1>4 DEF IInv, LockFacts
<1>6. ClaimFacts' BY <1>1, <1>2, <1>4 DEF ClaimFacts, Claimed
<1>7. AfterFacts' BY <1>1, <1>2, <1>4 DEF AfterFacts
<1> QED BY <1>3, <1>5, <1>6, <1>7 DEF IInv

(* The ledger a transaction sees depends on its publication and on the table.  *)
LEMMA SameLedger ==
  ASSUME NEW a \in Admitters, UNCHANGED <<reserved, resDay>>, Claimed(a), Claimed(a)',
         tx'[a].pub = tx[a].pub, tx'[a].day = tx[a].day
  PROVE  /\ \A p \in Publications : ReservedDay(a, p)' = ReservedDay(a, p)
         /\ \A h \in Horizons, p \in Publications : LedgerCount(a, h, p)' = LedgerCount(a, h, p)
<1>1. Reserved(a)' = Reserved(a) BY DEF Reserved
<1>2. \A p : ReservedDay(a, p)' = ReservedDay(a, p) BY DEF ReservedDay
<1>3. \A h, p, q, d : Draws(a, h, p, q, d)' = Draws(a, h, p, q, d) BY DEF Draws
<1> QED BY <1>1, <1>2, <1>3 DEF LedgerCount

LEMMA AfterStep ==
  ASSUME IInv, NEW a \in Admitters, AssessAfter(a)
  PROVE  IInv'
<1> DEFINE t == [tx[a] EXCEPT !.at = "after"]
           p == tx[a].pub
<1>1. /\ t \in Transactions /\ t.at = "after" /\ t.pub = tx[a].pub /\ t.day = tx[a].day
  BY AtUpdate DEF IInv, TypeOK, Steps
<1>2. tx' = [tx EXCEPT ![a] = t] /\ tx'[a] = t BY DEF IInv, TypeOK, AssessAfter, Goto
<1>3. p \in Publications /\ lock = a BY DEF IInv, LockFacts, AssessAfter
<1>a. UNCHANGED <<status, when, drifted, reserved, resDay, today, lock>> BY DEF AssessAfter, rows
<1>b. Assessable(a, p) /\ tx[a].at = "claimed" BY DEF AssessAfter
<1> HIDE DEF t
<1>4. TypeOK' BY <1>a, <1>b, <1>1, <1>2 DEF IInv, TypeOK
<1>5. \A b \in Admitters \ {a} : tx'[b].at = "idle" BY <1>a, <1>b, <1>2, OthersIdle DEF IInv, TypeOK
<1>6. LockFacts' BY <1>a, <1>b, <1>1, <1>2, <1>5 DEF IInv, LockFacts
<1>7. ClaimFacts' BY <1>a, <1>b, <1>1, <1>2, <1>5 DEF IInv, ClaimFacts, Claimed
<1>8. Claimed(a) /\ Claimed(a)' BY <1>a, <1>b, <1>1, <1>2 DEF Claimed
<1>9. Assessed(a)'
  <2> USE <1>1, <1>2, <1>3, <1>8, <1>a, <1>b
  <2>1. when[p] = tx[a].day /\ ReservedDay(a, p) = tx[a].day BY DEF Assessable, Reserved
  <2>2. \A h \in Horizons : LedgerCount(a, h, p) <= Limits[a][h]
    <3>1. TAKE h \in Horizons
    <3>2. Used(a, h, p) <= Limits[a][h] BY DEF Assessable
    <3>3. LedgerCount(a, h, p) \in Nat /\ Used(a, h, p) \in Nat
          /\ LedgerCount(a, h, p) <= Used(a, h, p)
      BY UsedType DEF IInv
    <3>4. Limits[a][h] \in Nat BY LimitsAssumption
    <3> QED BY <3>2, <3>3, <3>4
  <2>3. tx'[a].pub = tx[a].pub /\ tx'[a].day = tx[a].day OBVIOUS
  <2>4. /\ \A q \in Publications : ReservedDay(a, q)' = ReservedDay(a, q)
        /\ \A h \in Horizons, q \in Publications : LedgerCount(a, h, q)' = LedgerCount(a, h, q)
    BY <2>3, SameLedger
  <2> QED BY <2>1, <2>2, <2>3, <2>4 DEF Assessed
<1>10. AfterFacts' BY <1>5, <1>9 DEF AfterFacts
<1> QED BY <1>4, <1>6, <1>7, <1>10 DEF IInv

LEMMA CommitStep ==
  ASSUME IInv, NEW a \in Admitters, Commit(a)
  PROVE  IInv'
<1> USE DEF Commit
<1> DEFINE p == tx[a].pub
<1>1. p \in Publications BY DEF IInv, LockFacts
<1>2. ReservedDay(a, p) \in AnyDay BY <1>1 DEF IInv, TypeOK, ReservedDay, Transactions
<1>3. \A b \in Admitters : tx'[b].at = "idle"
  <2>1. \A b \in Admitters \ {a} : tx[b].at = "idle" BY OthersIdle
  <2>2. tx'[a] = Idle BY DEF IInv, TypeOK
  <2> QED BY <2>1, <2>2, IdleType DEF IInv, TypeOK
<1>4. TypeOK'
  <2>1. tx' \in [Admitters -> Transactions] BY IdleType DEF IInv, TypeOK
  <2>2. resDay' \in [Publications -> AnyDay] BY <1>2 DEF IInv, TypeOK
  <2>3. status' \in [Publications -> Statuses] BY DEF IInv, TypeOK, Statuses
  <2> QED BY <1>1, <2>1, <2>2, <2>3 DEF IInv, TypeOK
<1>5. LockFacts' BY <1>3 DEF LockFacts
<1>6. ClaimFacts' BY <1>3 DEF ClaimFacts, Claimed
<1>7. AfterFacts' BY <1>3 DEF AfterFacts
<1> QED BY <1>4, <1>5, <1>6, <1>7 DEF IInv

-----------------------------------------------------------------------------
(* The steps of everyone else leave the rows of claimed publications alone.    *)
LEMMA OtherStep ==
  ASSUME IInv, UNCHANGED others,
         status' \in [Publications -> Statuses], when' \in [Publications -> AnyDay],
         drifted' \in SUBSET Publications, today' \in 0..LastDay, today <= today',
         \A a \in Admitters : Claimed(a) =>
           status'[tx[a].pub] = status[tx[a].pub] /\ when'[tx[a].pub] = when[tx[a].pub]
  PROVE  IInv'
<1> USE DEF others
<1>1. TypeOK' BY DEF IInv, TypeOK
<1>2. LockFacts' BY DEF IInv, LockFacts
<1>3. \A a \in Admitters : Claimed(a)' <=> Claimed(a) BY DEF Claimed
<1>4. ClaimFacts'
  <2>1. when \in [Publications -> AnyDay] /\ LastDay \in Nat /\ today \in Nat
    BY CalendarAssumption DEF IInv, TypeOK
  <2> QED BY <1>3, <2>1 DEF IInv, ClaimFacts, LockFacts, AnyDay, Claimed
<1>5. AfterFacts'
  <2>1. SUFFICES ASSUME NEW a \in Admitters, tx[a].at = "after" PROVE Assessed(a)'
    BY DEF AfterFacts
  <2>2. Assessed(a) BY <2>1 DEF IInv, AfterFacts
  <2>3. tx[a].pub \in Publications BY <2>1 DEF IInv, LockFacts
  <2>4. Claimed(a) /\ Claimed(a)' BY <2>1 DEF Claimed
  <2>5. /\ ReservedDay(a, tx[a].pub)' = ReservedDay(a, tx[a].pub)
        /\ \A h \in Horizons : LedgerCount(a, h, tx[a].pub)' = LedgerCount(a, h, tx[a].pub)
    BY <2>3, <2>4, SameLedger
  <2>6. when'[tx[a].pub] = when[tx[a].pub] BY <2>4
  <2> QED BY <2>2, <2>5, <2>6 DEF Assessed
<1> QED BY <1>1, <1>2, <1>4, <1>5 DEF IInv

LEMMA NextIInv == IInv /\ [Next]_vars => IInv'
<1> SUFFICES ASSUME IInv, [Next]_vars PROVE IInv' OBVIOUS
<1>t. TypeOK BY DEF IInv
<1>1. ASSUME NEW a \in Admitters, NEW p \in Publications, Lock(a, p) PROVE IInv'
  <2>1. tx[a] \in Transactions BY <1>t DEF TypeOK
  <2>2. tx' = [tx EXCEPT ![a] = [tx[a] EXCEPT !.at = "locked", !.pub = p]]
    BY <1>1, <1>t DEF Lock, TypeOK
  <2>3. /\ lock = None /\ lock' = a
        /\ UNCHANGED <<rows, reserved, resDay, today>>
    BY <1>1 DEF Lock
  <2> DEFINE t == [tx[a] EXCEPT !.at = "locked", !.pub = p]
  <2>4. t \in Transactions /\ t.at = "locked" /\ t.pub = p BY <2>1, LockUpdate
  <2>5. tx' = [tx EXCEPT ![a] = t] BY <2>2
  <2> HIDE DEF t
  <2> QED BY <2>3, <2>4, <2>5, OpenStep
<1>2. ASSUME NEW a \in Admitters, ReadRow(a) PROVE IInv'
  <2>1. tx[a] \in Transactions /\ tx[a].pub \in Publications /\ lock = a
    BY <1>2, <1>t DEF TypeOK, ReadRow, IInv, LockFacts
  <2>2. when[tx[a].pub] \in AnyDay BY <2>1, <1>t DEF TypeOK
  <2>3. tx' = [tx EXCEPT ![a] = [tx[a] EXCEPT !.at = "read", !.day = when[tx[a].pub]]]
    BY <1>2, <1>t DEF ReadRow, TypeOK
  <2> QED BY ZenonT(30), <1>2, <2>1, <2>2, <2>3, ReadUpdate, OpenStep DEF ReadRow
<1>3. ASSUME NEW a \in Admitters, AssessBefore(a) PROVE IInv'
  <2> DEFINE u == [h \in Horizons |-> Used(a, h, tx[a].pub)]
  <2>1. tx[a] \in Transactions /\ tx[a].pub \in Publications /\ lock = a
    BY <1>3, <1>t DEF TypeOK, AssessBefore, IInv, LockFacts
  <2>2. u \in [Horizons -> Nat] BY <2>1, <1>t, UsedType
  <2>3. tx' = [tx EXCEPT ![a] = [tx[a] EXCEPT !.at = "before", !.used = u]]
    BY <1>3, <1>t DEF AssessBefore, TypeOK
  <2>4. tx[a].at = "read" /\ lock' = lock /\ UNCHANGED <<rows, reserved, resDay, today>>
    BY <1>3 DEF AssessBefore
  <2> HIDE DEF u
  <2> QED BY <2>1, <2>2, <2>3, <2>4, BeforeUpdate, OpenStep
<1>4. ASSUME NEW a \in Admitters, Rollback(a) PROVE IInv'
  BY <1>4, IdleType, OpenStep DEF Rollback
<1>5. ASSUME NEW a \in Admitters, ReserveAndClaim(a) PROVE IInv' BY <1>5, ClaimStep
<1>6. ASSUME NEW a \in Admitters, AssessAfter(a) PROVE IInv' BY <1>6, AfterStep
<1>7. ASSUME NEW a \in Admitters, Commit(a) PROVE IInv' BY <1>7, CommitStep
<1>s. \A a \in Admitters : Claimed(a) =>
        tx[a].pub \in Publications /\ status[tx[a].pub] = "SCHEDULED"
  BY DEF IInv, ClaimFacts, LockFacts, Claimed
<1>d. today \in 0..LastDay /\ today \in Nat /\ LastDay \in Nat
  BY <1>t, CalendarAssumption DEF TypeOK
<1>8. ASSUME NEW p \in Publications, Execute(p) PROVE IInv'
  <2>1. Planned[p] \in AnyDay BY CalendarAssumption DEF Days, AnyDay
  <2>2. status' \in [Publications -> Statuses] BY <1>8, <1>t DEF Execute, TypeOK, Statuses
  <2>3. when' \in [Publications -> AnyDay] BY <1>8, <1>t, <2>1 DEF Execute, TypeOK
  <2>4. \A a \in Admitters : Claimed(a) => tx[a].pub # p BY <1>8, <1>s DEF Execute
  <2> QED BY <1>8, <1>s, <1>d, <1>t, <2>2, <2>3, <2>4, OtherStep DEF Execute, TypeOK
<1>9. ASSUME NEW p \in Publications, schedule(p) PROVE IInv'
  <2>2. status' \in [Publications -> Statuses] BY <1>9, <1>t DEF schedule, TypeOK, Statuses
  <2>3. when' \in [Publications -> AnyDay] BY <1>9, <1>t DEF schedule, TypeOK
  <2>4. \A a \in Admitters : Claimed(a) => tx[a].pub # p BY <1>9 DEF schedule, RowFree
  <2> QED BY <1>9, <1>s, <1>d, <1>t, <2>2, <2>3, <2>4, OtherStep DEF schedule, TypeOK
<1>10. ASSUME NEW p \in Publications, cancel(p) PROVE IInv'
  <2>2. status' \in [Publications -> Statuses] BY <1>10, <1>t DEF cancel, TypeOK, Statuses
  <2>3. when' \in [Publications -> AnyDay] BY <1>10, <1>t, <1>d DEF cancel, TypeOK, AnyDay
  <2>4. \A a \in Admitters : Claimed(a) => tx[a].pub # p BY <1>10 DEF cancel, RowFree
  <2> QED BY <1>10, <1>s, <1>d, <1>t, <2>2, <2>3, <2>4, OtherStep DEF cancel, TypeOK
<1>11. ASSUME NEW p \in Publications, Outcome(p) PROVE IInv'
  <2>2. status' \in [Publications -> Statuses] BY <1>11, <1>t DEF Outcome, TypeOK, Statuses
  <2>4. \A a \in Admitters : Claimed(a) => tx[a].pub # p BY <1>11, <1>s DEF Outcome
  <2> QED BY <1>11, <1>s, <1>d, <1>t, <2>2, <2>4, OtherStep DEF Outcome, TypeOK
<1>16. ASSUME NEW p \in Publications, reconcile_buffer(p) PROVE IInv'
  <2>2. status' \in [Publications -> Statuses] BY <1>16, <1>t DEF reconcile_buffer, TypeOK, Statuses
  <2>4. \A a \in Admitters : Claimed(a) => tx[a].pub # p BY <1>16, <1>s DEF reconcile_buffer
  <2> QED BY <1>16, <1>s, <1>d, <1>t, <2>2, <2>4, OtherStep DEF reconcile_buffer, TypeOK
<1>12. ASSUME NEW p \in Publications, reconcile(p) PROVE IInv'
  <2>2. status' \in [Publications -> Statuses] BY <1>12, <1>t DEF reconcile, TypeOK, Statuses
  <2>3. when' \in [Publications -> AnyDay] BY <1>12, <1>t, <1>d DEF reconcile, TypeOK, AnyDay
  <2>4. \A a \in Admitters : Claimed(a) => tx[a].pub # p BY <1>12, <1>s DEF reconcile
  <2>5. \A q \in Publications \ {p} : status'[q] = status[q] /\ when'[q] = when[q]
    BY <1>12, <1>t DEF reconcile, TypeOK
  <2>6. UNCHANGED <<drifted, today, others>> BY <1>12 DEF reconcile
  <2> QED BY <1>s, <1>d, <1>t, <2>2, <2>3, <2>4, <2>5, <2>6, OtherStep DEF TypeOK
<1>13. ASSUME NEW p \in Publications, Drift(p) PROVE IInv'
  BY <1>13, <1>d, <1>t, OtherStep DEF Drift, TypeOK
<1>14. CASE NextDay
  <2>1. today' \in 0..LastDay /\ today <= today' BY <1>14, <1>d DEF NextDay
  <2> QED BY <1>14, <2>1, <1>t, OtherStep DEF NextDay, TypeOK, rows
<1>15. CASE UNCHANGED vars
  BY <1>15, <1>d, <1>t, OtherStep DEF vars, rows, others, TypeOK
<1> QED BY <1>1, <1>2, <1>3, <1>4, <1>5, <1>6, <1>7, <1>8, <1>9, <1>10, <1>11, <1>12,
           <1>13, <1>14, <1>15, <1>16 DEF Next

-----------------------------------------------------------------------------
(* Every reachable state satisfies the invariant.                              *)
THEOREM Invariance == Spec => []IInv
BY InitIInv, NextIInv, PTL DEF Spec

(* The variables keep their types.                                             *)
THEOREM TypeCorrect == Spec => []TypeOK
<1>1. IInv => TypeOK BY DEF IInv
<1> QED BY <1>1, Invariance, PTL

-----------------------------------------------------------------------------
(* A publication starts to be published by a commit alone.                     *)
LEMMA OnlyCommitClaims ==
  ASSUME IInv, [Next]_vars, NEW p \in Publications,
         status[p] # "PUBLISHING", status'[p] = "PUBLISHING"
  PROVE  \E a \in Admitters : Commit(a) /\ tx[a].pub = p
<1> USE DEF IInv, TypeOK
<1>1. ASSUME NEW a \in Admitters, Commit(a) PROVE tx[a].pub = p BY <1>1 DEF Commit
<1>2. ASSUME NEW a \in Admitters,
             \/ \E q \in Publications : Lock(a, q)
             \/ ReadRow(a) \/ AssessBefore(a) \/ ReserveAndClaim(a) \/ AssessAfter(a) \/ Rollback(a)
      PROVE FALSE
  BY <1>2 DEF Lock, ReadRow, AssessBefore, ReserveAndClaim, AssessAfter, Rollback, rows
<1>3. ASSUME NEW q \in Publications,
             \/ Execute(q) \/ schedule(q) \/ cancel(q) \/ Outcome(q) \/ reconcile_buffer(q)
             \/ reconcile(q) \/ Drift(q)
      PROVE FALSE
  <2>1. ASSUME Execute(q) PROVE FALSE BY <2>1 DEF Execute
  <2>2. ASSUME schedule(q) PROVE FALSE BY <2>2 DEF schedule
  <2>3. ASSUME cancel(q) PROVE FALSE BY <2>3 DEF cancel
  <2>4. ASSUME Outcome(q) PROVE FALSE BY <2>4 DEF Outcome
  <2>5. ASSUME reconcile(q) PROVE FALSE BY <2>5 DEF reconcile
  <2>7. ASSUME reconcile_buffer(q) PROVE FALSE BY <2>7 DEF reconcile_buffer
  <2>6. ASSUME Drift(q) PROVE FALSE BY <2>6 DEF Drift
  <2> QED BY <1>3, <2>1, <2>2, <2>3, <2>4, <2>5, <2>6, <2>7
<1>4. ASSUME NextDay \/ UNCHANGED vars PROVE FALSE BY <1>4 DEF NextDay, vars, rows
<1> QED BY <1>1, <1>2, <1>3, <1>4 DEF Next

(* After a commit, the bucket of the claim is the ledger it was assessed on.   *)
LEMMA BucketIsLedger ==
  ASSUME IInv, NEW a \in Admitters, Commit(a), NEW h \in Horizons,
         NEW p \in Publications, tx[a].pub = p
  PROVE  Cardinality(Bucket(h, p)') = LedgerCount(a, h, p)
<1>1. Claimed(a) /\ Assessed(a)
  BY DEF IInv, AfterFacts, Claimed, Commit
<1>2. reserved' = Reserved(a) BY <1>1 DEF Commit, Reserved
<1>3. \A q \in Publications : resDay'[q] = ReservedDay(a, q)
  BY <1>1 DEF Commit, ReservedDay, IInv, TypeOK
<1>4. reserved' \subseteq Publications BY <1>1, <1>2 DEF IInv, TypeOK, Reserved
<1>5. resDay'[p] = tx[a].day BY <1>1, <1>3 DEF Assessed
<1>6. Bucket(h, p)' = {q \in Reserved(a) : Draws(a, h, p, q, ReservedDay(a, q))}
  BY <1>2, <1>3, <1>4, <1>5 DEF Bucket, Draws
<1> QED BY <1>6 DEF LedgerCount

(* admit_scheduled_publication: no claim, first or repeated, leaves a horizon  *)
(* above the limit of its admission, whatever was written meanwhile.           *)
THEOREM ClaimsAreWithinLimits == Spec => ClaimWithinLimits
<1>1. ASSUME IInv, [Next]_vars, NEW p \in Publications,
             status[p] # "PUBLISHING", status'[p] = "PUBLISHING"
      PROVE \E a \in Admitters : \A h \in Horizons :
              lock = a /\ Cardinality(Bucket(h, p)') <= Limits[a][h]
  <2>1. PICK a \in Admitters : Commit(a) /\ tx[a].pub = p BY <1>1, OnlyCommitClaims
  <2>2. lock = a /\ Assessed(a) BY <1>1, <2>1 DEF IInv, LockFacts, AfterFacts, Commit
  <2>3. \A h \in Horizons : Cardinality(Bucket(h, p)') = LedgerCount(a, h, p)
    BY <1>1, <2>1, BucketIsLedger
  <2>4. \A h \in Horizons : LedgerCount(a, h, p) <= Limits[a][h] BY <2>1, <2>2 DEF Assessed
  <2> QED BY <2>2, <2>3, <2>4
<1>2. IInv /\ [Next]_vars =>
        [\A p \in Publications : status[p] # "PUBLISHING" /\ status'[p] = "PUBLISHING" =>
           \E a \in Admitters : \A h \in Horizons :
             lock = a /\ Cardinality(Bucket(h, p)') <= Limits[a][h]]_vars
  BY <1>1
<1> QED BY <1>2, Invariance, PTL DEF Spec, ClaimWithinLimits

(* admit_scheduled_publication: what is claimed is due, and reserved for the   *)
(* day it is scheduled for.                                                    *)
THEOREM ClaimsAreReserved == Spec => ClaimReserved
<1>1. ASSUME IInv, [Next]_vars, NEW p \in Publications,
             status[p] # "PUBLISHING", status'[p] = "PUBLISHING"
      PROVE p \in reserved' /\ resDay'[p] = when'[p] /\ when'[p] \in 1..today
  <2>1. PICK a \in Admitters : Commit(a) /\ tx[a].pub = p BY <1>1, OnlyCommitClaims
  <2>2. Claimed(a) /\ Assessed(a) BY <1>1, <2>1 DEF IInv, AfterFacts, Commit, Claimed
  <2>3. when[p] \in 1..today BY <1>1, <2>1, <2>2 DEF IInv, ClaimFacts
  <2>4. resDay'[p] = when[p] BY <1>1, <2>1, <2>2 DEF Commit, Assessed, IInv, TypeOK
  <2> QED BY <2>1, <2>3, <2>4 DEF Commit
<1>2. IInv /\ [Next]_vars =>
        [\A p \in Publications : status[p] # "PUBLISHING" /\ status'[p] = "PUBLISHING" =>
           p \in reserved' /\ resDay'[p] = when'[p] /\ when'[p] \in 1..today]_vars
  BY <1>1
<1> QED BY <1>2, Invariance, PTL DEF Spec, ClaimReserved

-----------------------------------------------------------------------------
(* Induction over the natural numbers, in sets.                                *)

LEMMA LeastNumber ==
  ASSUME NEW T \in SUBSET Nat, T # {}
  PROVE  \E m \in T : \A k \in T : m <= k
<1> DEFINE R == OpToRel(<, Nat)
<1>1. IsWellFoundedOn(R, Nat) BY NatLessThanWellFounded
<1>2. \A x, y \in Nat : <<y, x>> \in R <=> y < x BY DEF OpToRel
<1> HIDE DEF R
<1>3. \E x \in T : \A y \in T : ~ (<<y, x>> \in R) BY <1>1, WFMin
<1>4. PICK x \in T : \A y \in T : ~ (<<y, x>> \in R) BY <1>3
<1>5. \A k \in T : x <= k
  <2> SUFFICES ASSUME NEW k \in T PROVE x <= k OBVIOUS
  <2>1. x \in Nat /\ k \in Nat BY <1>4
  <2>2. ~(k < x) BY <1>2, <1>4, <2>1
  <2> QED BY <2>1, <2>2
<1> QED BY <1>4, <1>5

LEMMA SetInduction ==
  ASSUME NEW S, 0 \in S, \A n \in Nat : n \in S => n + 1 \in S
  PROVE  \A n \in Nat : n \in S
<1> SUFFICES ASSUME Nat \ S # {} PROVE FALSE OBVIOUS
<1>1. PICK m \in Nat \ S : \A k \in Nat \ S : m <= k BY LeastNumber
<1>2. m # 0 BY <1>1
<1>3. m - 1 \in Nat /\ ~(m <= m - 1) BY <1>1, <1>2
<1>4. m - 1 \in S BY <1>1, <1>3
<1>5. (m - 1) + 1 \in S BY <1>3, <1>4
<1> QED BY <1>1, <1>3, <1>5

(* A step function that leads from each set of I to the next one can be        *)
(* iterated: the recursive definition has a value.                             *)
Leads(G, I, L) == \A k \in 1..L : \A s \in I[k - 1] : G[k][s] \in I[k]

Iterates(f, G, I, L, s0) ==
  /\ f = [k \in 0..L |-> IF k = 0 THEN s0 ELSE G[k][f[k - 1]]]
  /\ \A k \in 0..L : f[k] \in I[k]

LEMMA Iteration ==
  ASSUME NEW L \in Nat, NEW I, NEW G, NEW s0, s0 \in I[0], Leads(G, I, L)
  PROVE  \E f : Iterates(f, G, I, L, s0)
<1> USE DEF Leads
<1> DEFINE P(n, f) == /\ f = [k \in 0..n |-> IF k = 0 THEN s0 ELSE G[k][f[k - 1]]]
                      /\ \A k \in 0..n : f[k] \in I[k]
           S == {n \in Nat : n <= L => \E f : P(n, f)}
<1>1. 0 \in S
  <2> DEFINE f0 == [k \in 0..0 |-> s0]
  <2>1. \A k \in 0..0 : k = 0 OBVIOUS
  <2>2. f0 = [k \in 0..0 |-> IF k = 0 THEN s0 ELSE G[k][f0[k - 1]]] BY <2>1
  <2>3. P(0, f0) BY <2>1, <2>2
  <2> QED BY <2>3
<1>2. ASSUME NEW n \in Nat, n \in S PROVE n + 1 \in S
  <2>0. n + 1 \in Nat OBVIOUS
  <2> SUFFICES ASSUME n + 1 <= L PROVE \E f : P(n + 1, f)
    <3> HIDE DEF P
    <3> QED BY <2>0
  <2>1. PICK f : P(n, f) BY <1>2
  <2> DEFINE g == [k \in 0..(n + 1) |-> IF k <= n THEN f[k] ELSE G[n + 1][f[n]]]
  <2>2. \A k \in 0..n : g[k] = f[k] /\ f[k] = IF k = 0 THEN s0 ELSE G[k][f[k - 1]]
    BY <2>1
  <2>3. g[n + 1] = G[n + 1][g[n]]
    BY <2>2
  <2>4. \A k \in 0..(n + 1) : k \in 0..n \/ k = n + 1 OBVIOUS
  <2>5. \A k \in 0..(n + 1) : g[k] = IF k = 0 THEN s0 ELSE G[k][g[k - 1]]
    <3> HIDE DEF g
    <3>1. ASSUME NEW k \in 0..n PROVE g[k] = IF k = 0 THEN s0 ELSE G[k][g[k - 1]]
      <4>1. CASE k = 0 BY <2>2, <4>1
      <4>2. CASE k # 0
        <5>1. k - 1 \in 0..n BY <4>2
        <5> QED BY <2>2, <4>2, <5>1
      <4> QED BY <4>1, <4>2
    <3>2. n + 1 # 0 /\ (n + 1) - 1 = n OBVIOUS
    <3> QED BY <2>3, <2>4, <3>1, <3>2
  <2>6. g = [k \in 0..(n + 1) |-> IF k = 0 THEN s0 ELSE G[k][g[k - 1]]]
    BY <2>5
  <2>7. \A k \in 0..(n + 1) : g[k] \in I[k]
    <3>1. g[n] \in I[n] /\ n + 1 \in 1..L /\ (n + 1) - 1 = n BY <2>1, <2>2
    <3> HIDE DEF g
    <3>2. g[n + 1] \in I[n + 1] BY <2>3, <3>1
    <3> QED BY <2>1, <2>2, <2>4, <3>2
  <2> QED BY <2>6, <2>7
<1> HIDE DEF S
<1>3. L \in S BY <1>1, <1>2, SetInduction
<1>4. PICK f : P(L, f) BY <1>3 DEF S
<1>5. Iterates(f, G, I, L, s0) BY <1>4 DEF Iterates
<1> QED BY <1>5

(* A strict total order numbers a finite set: an element has as many below it  *)
(* as its number says.                                                         *)
Orders(R, S) ==
  /\ \A m \in S : <<m, m>> \notin R
  /\ \A l, m, n \in S : <<l, m>> \in R /\ <<m, n>> \in R => <<l, n>> \in R
  /\ \A m, n \in S : m = n \/ <<m, n>> \in R \/ <<n, m>> \in R

Numbers(rk, S) ==
  /\ \A n \in S : rk[n] \in 0..(Cardinality(S) - 1)
  /\ \A m, n \in S : rk[m] = rk[n] => m = n
  /\ \A k \in 0..(Cardinality(S) - 1) : \E n \in S : rk[n] = k

LEMMA Ranking ==
  ASSUME NEW S, IsFiniteSet(S), NEW R, Orders(R, S), NEW rk,
         \A n \in S : rk[n] = Cardinality({m \in S : <<m, n>> \in R})
  PROVE  Cardinality(S) \in Nat /\ Numbers(rk, S)
<1> USE DEF Orders
<1> DEFINE Below(n) == {m \in S : <<m, n>> \in R}
           c == Cardinality(S)
<1>1. c \in Nat BY FS_CardinalityType
<1>2. ASSUME NEW n \in S PROVE IsFiniteSet(Below(n)) /\ rk[n] \in 0..(c - 1)
  <2>1. Below(n) \in SUBSET S /\ n \notin Below(n) BY <1>2
  <2> HIDE DEF Below
  <2>2. IsFiniteSet(Below(n)) /\ Cardinality(Below(n)) <= c
        /\ (c = Cardinality(Below(n)) => S = Below(n)) /\ Cardinality(Below(n)) \in Nat
    BY <2>1, FS_Subset, FS_CardinalityType
  <2>3. rk[n] = Cardinality(Below(n)) BY DEF Below
  <2> QED BY <1>1, <2>1, <2>2, <2>3
<1>3. ASSUME NEW m \in S, NEW n \in S, <<m, n>> \in R PROVE rk[m] < rk[n]
  <2>1. Below(m) \in SUBSET Below(n) /\ m \in Below(n) /\ m \notin Below(m) BY <1>3
  <2>2. IsFiniteSet(Below(n)) /\ IsFiniteSet(Below(m)) BY <1>2
  <2>3. rk[n] = Cardinality(Below(n)) /\ rk[m] = Cardinality(Below(m)) OBVIOUS
  <2> HIDE DEF Below
  <2>4. Cardinality(Below(m)) <= Cardinality(Below(n))
        /\ (Cardinality(Below(n)) = Cardinality(Below(m)) => Below(n) = Below(m))
    BY <2>1, <2>2, FS_Subset
  <2>5. Cardinality(Below(m)) \in Nat /\ Cardinality(Below(n)) \in Nat
    BY <2>2, FS_CardinalityType
  <2> QED BY <2>1, <2>3, <2>4, <2>5
<1>4. \A m, n \in S : rk[m] = rk[n] => m = n
  <2> SUFFICES ASSUME NEW m \in S, NEW n \in S, rk[m] = rk[n], m # n PROVE FALSE OBVIOUS
  <2>1. rk[m] < rk[n] \/ rk[n] < rk[m] BY <1>3
  <2>2. rk[m] \in 0..(c - 1) /\ rk[n] \in 0..(c - 1) BY <1>2
  <2> HIDE DEF c
  <2> QED BY <1>1, <2>1, <2>2
<1> DEFINE f == [n \in S |-> rk[n]]
           T == 0..(c - 1)
<1>5. f \in Injection(S, T)
  BY <1>2, <1>4 DEF Injection, IsInjective
<1>6. IsFiniteSet(T) /\ Cardinality(T) = c
  <2>1. (c - 1) - 0 + 1 = c /\ (0 > c - 1 => c = 0) BY <1>1
  <2> HIDE DEF c
  <2> QED BY <1>1, <2>1, FS_Interval
<1>7. f \in Surjection(S, T)
  <2> HIDE DEF f, T
  <2> QED BY <1>5, <1>6, FS_Injection
<1> QED BY <1>1, <1>2, <1>4, <1>7 DEF Surjection, Numbers

-----------------------------------------------------------------------------
(* PortfolioPlanning: the sorts and the merge.                                 *)

LEMMA PlanningCounts ==
  ASSUME NEW S
  PROVE  /\ Planning!IsFiniteSet(S) <=> IsFiniteSet(S)
         /\ Planning!Cardinality(S) = Cardinality(S)
<1>1. Planning!IsFiniteSet(S) <=> IsFiniteSet(S)
  BY DEF Planning!IsFiniteSet, IsFiniteSet
<1>2. Planning!Cardinality(S) = Cardinality(S)
  BY DEF Planning!Cardinality, Cardinality
<1> QED BY <1>1, <1>2

Keys == Int \X Int \X Int

LEMMA KeysCompared ==
  ASSUME NEW a \in Keys, NEW b \in Keys
  PROVE  Planning!KeyLess(a, b) <=>
           \/ a[1] < b[1]
           \/ a[1] = b[1] /\ a[2] < b[2]
           \/ a[1] = b[1] /\ a[2] = b[2] /\ a[3] < b[3]
<1>1. DOMAIN a = {1, 2, 3} BY DEF Keys
<1>2. 1..(1 - 1) = {} /\ 1..(2 - 1) = {1} /\ 1..(3 - 1) = {1, 2} OBVIOUS
<1> HIDE DEF Keys
<1> QED BY <1>1, <1>2 DEF Planning!KeyLess

LEMMA SortedIsBijection ==
  ASSUME NEW S, IsFiniteSet(S), NEW key \in [S -> Keys],
         \A m, n \in S : key[m][3] = key[n][3] => m = n
  PROVE  /\ Cardinality(S) \in Nat
         /\ Planning!SortedBy(key) \in Bijection(1..Cardinality(S), S)
<1> DEFINE Less(m, n) == Planning!KeyLess(key[m], key[n])
           R == {p \in S \X S : Less(p[1], p[2])}
           Rank(n) == Planning!Cardinality({m \in S : Less(m, n)})
           rk == [n \in S |-> Rank(n)]
           c == Cardinality(S)
           f == [k \in 1..c |-> CHOOSE n \in S : Rank(n) = k - 1]
<1>1. \A m, n \in S : <<m, n>> \in R <=> Less(m, n)
  OBVIOUS
<1>2. \A m, n \in S : Less(m, n) <=>
        \/ key[m][1] < key[n][1]
        \/ key[m][1] = key[n][1] /\ key[m][2] < key[n][2]
        \/ key[m][1] = key[n][1] /\ key[m][2] = key[n][2] /\ key[m][3] < key[n][3]
  BY KeysCompared
<1>3. \A n \in S : key[n][1] \in Int /\ key[n][2] \in Int /\ key[n][3] \in Int
  BY DEF Keys
<1>4. \A n \in S : rk[n] = Cardinality({m \in S : <<m, n>> \in R})
  <2> SUFFICES ASSUME NEW n \in S PROVE rk[n] = Cardinality({m \in S : <<m, n>> \in R}) OBVIOUS
  <2>1. {m \in S : <<m, n>> \in R} = {m \in S : Less(m, n)} BY <1>1
  <2> HIDE DEF R, Less
  <2> QED BY <2>1, PlanningCounts
<1> HIDE DEF R, Less
<1>5. Orders(R, S)
  <2>1. \A m \in S : <<m, m>> \notin R
    BY <1>1, <1>2, <1>3
  <2>2. \A l, m, n \in S : <<l, m>> \in R /\ <<m, n>> \in R => <<l, n>> \in R
    BY <1>1, <1>2, <1>3
  <2>3. \A m, n \in S : m = n \/ <<m, n>> \in R \/ <<n, m>> \in R
    <3> SUFFICES ASSUME NEW m \in S, NEW n \in S, ~Less(m, n), ~Less(n, m) PROVE m = n
      BY <1>1
    <3>1. key[m][3] = key[n][3] BY <1>2, <1>3
    <3> QED BY <3>1
  <2> QED BY <2>1, <2>2, <2>3 DEF Orders
<1> HIDE DEF rk, c
<1>8. c \in Nat /\ Numbers(rk, S)
  <2> HIDE DEF Rank
  <2> QED BY <1>4, <1>5, Ranking DEF c
<1>9. \A n \in S : rk[n] = Rank(n) BY DEF rk
<1> HIDE DEF Rank
<1>10. ASSUME NEW k \in 1..c PROVE f[k] \in S /\ rk[f[k]] = k - 1
  <2>1. k - 1 \in 0..(c - 1) BY <1>8
  <2>2. PICK n \in S : Rank(n) = k - 1 BY <1>8, <1>9, <2>1 DEF Numbers, c
  <2>3. f[k] = CHOOSE x \in S : Rank(x) = k - 1 OBVIOUS
  <2>4. f[k] \in S /\ Rank(f[k]) = k - 1 BY <2>2, <2>3
  <2> QED BY <1>9, <2>4
<1>11. f \in [1..c -> S]
  <2>1. DOMAIN f = 1..c OBVIOUS
  <2> QED BY <1>10, <2>1
<1>12. ASSUME NEW j \in 1..c, NEW k \in 1..c, f[j] = f[k] PROVE j = k
  <2>1. j - 1 = k - 1 BY <1>10, <1>12
  <2> QED BY <1>8, <2>1
<1>13. ASSUME NEW n \in S PROVE \E k \in 1..c : f[k] = n
  <2>1. rk[n] \in 0..(c - 1) BY <1>8 DEF Numbers, c
  <2>2. rk[n] + 1 \in 1..c /\ (rk[n] + 1) - 1 = rk[n] BY <1>8, <2>1
  <2>3. f[rk[n] + 1] = n BY <1>8, <1>10, <2>2 DEF Numbers
  <2> QED BY <2>2, <2>3
<1>14. Planning!SortedBy(key) = f
  <2>1. DOMAIN key = S /\ Planning!Cardinality(S) = c BY PlanningCounts DEF c
  <2> QED BY <2>1 DEF Planning!SortedBy, Rank, Less
<1> HIDE DEF f
<1> QED BY <1>8, <1>11, <1>12, <1>13, <1>14 DEF Bijection, Injection, IsInjective, Surjection, c

(* The merge: as many positions filled as it has taken items, each item once.  *)
Merging(exploit, explore, D, k) ==
  {s \in [x : 0..Len(exploit), order : Seq(D)] :
     /\ k - s.x \in 0..Len(explore) /\ Len(s.order) = k
     /\ \A i \in 1..k : \/ \E j \in 1..s.x : s.order[i] = exploit[j]
                       \/ \E j \in 1..(k - s.x) : s.order[i] = explore[j]
     /\ \A i, j \in 1..k : s.order[i] = s.order[j] => i = j}

LEMMA MergeTakesOne ==
  ASSUME NEW D, NEW exploit \in Seq(D), NEW explore \in Seq(D),
         \A i, j \in 1..Len(exploit) : exploit[i] = exploit[j] => i = j,
         \A i, j \in 1..Len(explore) : explore[i] = explore[j] => i = j,
         \A i \in 1..Len(exploit), j \in 1..Len(explore) : exploit[i] # explore[j],
         NEW k \in 1..(Len(exploit) + Len(explore)),
         NEW s \in Merging(exploit, explore, D, k - 1)
  PROVE  Planning!Merge(exploit, explore, s, k) \in Merging(exploit, explore, D, k)
<1> DEFINE m == Len(exploit)
           r == Len(explore)
           e == k - 1 - s.x
           take == (s.x < m /\ Planning!Floor(k) > s.x) \/ e >= r
           t == IF take THEN s.x + 1 ELSE s.x
           v == IF take THEN exploit[s.x + 1] ELSE explore[e + 1]
           o == Append(s.order, v)
<1>1. m \in Nat /\ r \in Nat /\ k \in Nat /\ k - 1 \in Nat /\ k <= m + r BY LenProperties
<1>2. /\ s.x \in 0..m /\ s.order \in Seq(D) /\ e \in 0..r /\ Len(s.order) = k - 1
      /\ \A i \in 1..(k - 1) : \/ \E j \in 1..s.x : s.order[i] = exploit[j]
                             \/ \E j \in 1..e : s.order[i] = explore[j]
      /\ \A i, j \in 1..(k - 1) : s.order[i] = s.order[j] => i = j
  BY DEF Merging
<1>3. take => s.x < m BY <1>1, <1>2
<1>4. ~take => e < r BY <1>1, <1>2
<1>5. v \in D /\ (take => s.x + 1 \in 1..m) /\ (~take => e + 1 \in 1..r)
  <2>1. CASE take
    <3>1. s.x + 1 \in 1..m BY <1>1, <1>2, <1>3, <2>1
    <3> HIDE DEF take
    <3> QED BY <2>1, <3>1, ElementOfSeq
  <2>2. CASE ~take
    <3>1. e + 1 \in 1..r BY <1>1, <1>2, <1>4, <2>2
    <3> HIDE DEF take
    <3> QED BY <2>2, <3>1, ElementOfSeq
  <2> QED BY <2>1, <2>2
<1>6. t \in 0..m /\ k - t \in 0..r /\ (take => k - t = e) /\ (~take => k - t = e + 1)
  <2>1. CASE take
    <3>1. t = s.x + 1 /\ k - t = e BY <1>1, <1>2, <2>1
    <3>2. t \in 0..m BY <1>1, <1>2, <1>5, <2>1, <3>1
    <3> HIDE DEF take, t, e
    <3> QED BY <1>2, <2>1, <3>1, <3>2
  <2>2. CASE ~take
    <3>1. t = s.x /\ k - t = e + 1 BY <1>1, <1>2, <2>2
    <3>2. e + 1 \in 0..r BY <1>1, <1>2, <1>5, <2>2
    <3> HIDE DEF take, t, e
    <3> QED BY <1>2, <2>2, <3>1, <3>2
  <2> QED BY <2>1, <2>2
<1>7. /\ o \in Seq(D) /\ Len(o) = k /\ o[k] = v
      /\ \A i \in 1..(k - 1) : o[i] = s.order[i]
  <2> HIDE DEF v
  <2>1. (k - 1) + 1 = k BY <1>1
  <2> QED BY <1>1, <1>2, <1>5, <2>1, AppendProperties
<1> HIDE DEF o
<1>8. \A i \in 1..(k - 1) : o[i] # v
  <2> SUFFICES ASSUME NEW i \in 1..(k - 1), s.order[i] = v PROVE FALSE
    BY <1>7
  <2>1. CASE take
    <3>1. v = exploit[s.x + 1] BY <2>1
    <3> HIDE DEF take, v
    <3>2. \A j \in 1..s.x : j \in 1..m /\ j # s.x + 1 BY <1>1, <1>2
    <3>3. \A j \in 1..e : j \in 1..r BY <1>1, <1>2
    <3>4. s.x + 1 \in 1..m BY <1>5, <2>1
    <3>5. ASSUME NEW j \in 1..s.x, s.order[i] = exploit[j] PROVE FALSE
      BY <3>1, <3>2, <3>4, <3>5
    <3> HIDE DEF e
    <3>6. ASSUME NEW j \in 1..e, s.order[i] = explore[j] PROVE FALSE
      BY <3>1, <3>3, <3>4, <3>6
    <3> QED BY <1>2, <3>5, <3>6
  <2>2. CASE ~take
    <3>1. v = explore[e + 1] BY <2>2
    <3> HIDE DEF take, v
    <3>2. \A j \in 1..s.x : j \in 1..m BY <1>1, <1>2
    <3>3. \A j \in 1..e : j \in 1..r /\ j # e + 1 BY <1>1, <1>2
    <3>4. e + 1 \in 1..r BY <1>5, <2>2
    <3> HIDE DEF e
    <3>5. ASSUME NEW j \in 1..s.x, s.order[i] = exploit[j] PROVE FALSE
      BY <3>1, <3>2, <3>4, <3>5
    <3>6. ASSUME NEW j \in 1..e, s.order[i] = explore[j] PROVE FALSE
      BY <3>1, <3>3, <3>4, <3>6
    <3> QED BY <1>2, <3>5, <3>6
  <2> QED BY <2>1, <2>2
<1>9. \A i \in 1..k : i \in 1..(k - 1) \/ i = k BY <1>1
<1>10. \A i \in 1..k : \/ \E j \in 1..t : o[i] = exploit[j]
                      \/ \E j \in 1..(k - t) : o[i] = explore[j]
  <2>1. 1..s.x \subseteq 1..t /\ 1..e \subseteq 1..(k - t)
    <3> HIDE DEF take
    <3> QED BY <1>1, <1>2, <1>6
  <2>2. ASSUME NEW i \in 1..(k - 1)
        PROVE  \/ \E j \in 1..t : o[i] = exploit[j]
               \/ \E j \in 1..(k - t) : o[i] = explore[j]
    <3> HIDE DEF t, e
    <3>1. o[i] = s.order[i] BY <1>7
    <3>2. \/ \E j \in 1..s.x : s.order[i] = exploit[j]
          \/ \E j \in 1..e : s.order[i] = explore[j]
      BY <1>2
    <3> QED BY <2>1, <3>1, <3>2
  <2>3. \/ \E j \in 1..t : v = exploit[j]
        \/ \E j \in 1..(k - t) : v = explore[j]
    <3>1. CASE take
      <4>1. t = s.x + 1 /\ v = exploit[t] BY <3>1
      <4>2. t \in 1..t BY <1>1, <1>2, <4>1
      <4> QED BY <4>1, <4>2
    <3>2. CASE ~take
      <4>1. k - t = e + 1 /\ v = explore[k - t] BY <1>6, <3>2
      <4>2. e + 1 \in 1..(e + 1) BY <1>1, <1>2
      <4> QED BY <4>1, <4>2
    <3> QED BY <3>1, <3>2
  <2> HIDE DEF t, v
  <2> QED BY <1>7, <1>9, <2>2, <2>3
<1>11. \A i, j \in 1..k : o[i] = o[j] => i = j
  <2> HIDE DEF v
  <2> QED BY <1>2, <1>7, <1>8, <1>9
<1>12. Planning!Merge(exploit, explore, s, k) = [x |-> t, order |-> o]
  BY DEF Planning!Merge, o
<1> HIDE DEF t, take
<1> DEFINE w == [x |-> t, order |-> o]
<1>13. w \in [x : 0..Len(exploit), order : Seq(D)] /\ w.x = t /\ w.order = o
  BY <1>6, <1>7
<1> HIDE DEF w
<1>14. w \in Merging(exploit, explore, D, k)
  <2>1. /\ k - w.x \in 0..Len(explore) /\ Len(w.order) = k
        /\ \A i \in 1..k : \/ \E j \in 1..w.x : w.order[i] = exploit[j]
                          \/ \E j \in 1..(k - w.x) : w.order[i] = explore[j]
        /\ \A i, j \in 1..k : w.order[i] = w.order[j] => i = j
    BY <1>6, <1>7, <1>10, <1>11, <1>13
  <2> QED BY <1>13, <2>1 DEF Merging
<1> QED BY <1>12, <1>14 DEF w

(* The items of a plan, as the planner has put them in their slots.            *)
PlanShape(items) == items \in Seq(Planning!PlanItems) /\ Planning!Slotted(items)

LEMMA PlanPlaces ==
  ASSUME NEW items, PlanShape(items)
  PROVE  /\ Len(items) \in Nat /\ DOMAIN items = 1..Len(items)
         /\ IsFiniteSet(DOMAIN items) /\ Cardinality(DOMAIN items) = Len(items)
         /\ \A n \in DOMAIN items :
              /\ items[n] \in Planning!PlanItems /\ items[n].slot = n /\ items[n].score \in Nat
              /\ items[n].date \in Nat /\ items[n].date \in 0..LastDay
              /\ items[n].reserve \in BOOLEAN
<1>1. Len(items) \in Nat /\ DOMAIN items = 1..Len(items)
  BY LenProperties DEF PlanShape
<1>2. IsFiniteSet(DOMAIN items) /\ Cardinality(DOMAIN items) = Len(items)
  <2>1. /\ IsFiniteSet(1..Len(items))
        /\ Cardinality(1..Len(items)) = IF 1 > Len(items) THEN 0 ELSE Len(items) - 1 + 1
    BY <1>1, FS_Interval
  <2>2. (IF 1 > Len(items) THEN 0 ELSE Len(items) - 1 + 1) = Len(items) BY <1>1
  <2> QED BY <1>1, <2>1, <2>2
<1>3. \A n \in DOMAIN items : items[n] \in Planning!PlanItems
  BY <1>1, ElementOfSeq DEF PlanShape
<1>4. ASSUME NEW n \in DOMAIN items
      PROVE  /\ items[n].slot = n /\ items[n].score \in Nat /\ items[n].date \in 0..LastDay
             /\ items[n].reserve \in BOOLEAN
  BY <1>3 DEF PlanShape, Planning!Slotted, Planning!PlanItems
<1>5. 0..LastDay \subseteq Nat BY CalendarAssumption
<1> QED BY <1>1, <1>2, <1>3, <1>4, <1>5

LEMMA SlotsPermute ==
  ASSUME NEW items, PlanShape(items)
  PROVE  Planning!Slots(items) \in Bijection(1..Len(items), DOMAIN items)
<1> DEFINE S == DOMAIN items
           key == [n \in S |-> <<IF items[n].reserve THEN 1 ELSE 0, items[n].date, items[n].slot>>]
<1>1. key \in [S -> Keys]
  BY PlanPlaces DEF Keys
<1>2. \A m, n \in S : key[m][3] = key[n][3] => m = n
  BY PlanPlaces
<1> HIDE DEF key
<1>3. Planning!SortedBy(key) \in Bijection(1..Cardinality(S), S)
  BY <1>1, <1>2, PlanPlaces, SortedIsBijection
<1> QED BY <1>3, PlanPlaces DEF Planning!Slots, key

LEMMA ExploitedTaken ==
  ASSUME NEW items, PlanShape(items)
  PROVE  LET exploit == Planning!Exploited(items)
             rest    == DOMAIN items \ Planning!Range(exploit)
         IN  /\ exploit \in Seq(DOMAIN items) /\ Len(exploit) <= Len(items)
             /\ \A i, j \in 1..Len(exploit) : exploit[i] = exploit[j] => i = j
             /\ IsFiniteSet(rest) /\ Cardinality(rest) = Len(items) - Len(exploit)
             /\ \A i \in 1..Len(exploit) : exploit[i] \notin rest
<1> DEFINE S == DOMAIN items
           N == Len(items)
           key == [n \in S |-> <<1 - Planning!Known(items[n]), Planning!Known(items[n]), items[n].slot>>]
           all == Planning!SortedBy(key)
           floor == Planning!Floor(N)
           m == IF floor < N THEN floor ELSE N
           exploit == SubSeq(all, 1, m)
           rest == S \ Planning!Range(exploit)
<1>1. key \in [S -> Keys]
  BY PlanPlaces DEF Keys, Planning!Known
<1>2. \A i, j \in S : key[i][3] = key[j][3] => i = j
  BY PlanPlaces
<1> HIDE DEF key
<1>3. all \in Bijection(1..N, S)
  BY <1>1, <1>2, PlanPlaces, SortedIsBijection
<1>4. N \in Nat BY PlanPlaces
<1>5. floor \in Nat
  <2>1. N * Share \in Nat BY <1>4, PlanningAssumption
  <2> QED BY <2>1 DEF Planning!Floor
<1> HIDE DEF all, floor, N
<1>6. m \in 0..N BY <1>4, <1>5
<1>7. /\ all \in Seq(S) /\ Len(all) = N
      /\ \A i, j \in 1..N : all[i] = all[j] => i = j
      /\ \A n \in S : \E i \in 1..N : all[i] = n
      /\ \A i \in 1..N : all[i] \in S
  BY <1>3, <1>4 DEF Bijection, Injection, IsInjective, Surjection
<1> HIDE DEF m
<1>8. /\ exploit \in Seq(S) /\ Len(exploit) = m
      /\ \A i \in 1..m : exploit[i] = all[i]
  BY <1>4, <1>6, <1>7, SubSeqProperties
<1> HIDE DEF exploit
<1>9. \A i, j \in 1..m : exploit[i] = exploit[j] => i = j
  <2>1. 1..m \subseteq 1..N BY <1>4, <1>6
  <2> QED BY <1>7, <1>8, <2>1
<1>10. DOMAIN exploit = 1..m BY <1>8, LenProperties
<1>11. \A i \in 1..m : exploit[i] \notin rest
  BY <1>10 DEF Planning!Range
<1> DEFINE back == [i \in (m + 1)..N |-> all[i]]
<1>12. back \in Bijection((m + 1)..N, rest)
  <2>1. (m + 1)..N \subseteq 1..N /\ \A i \in 1..N : i \in 1..m \/ i \in (m + 1)..N
    BY <1>4, <1>6
  <2>2. \A i \in (m + 1)..N, j \in 1..m : i # j /\ j \in 1..N BY <1>4, <1>6
  <2>3. \A n \in rest : n \in S /\ \A j \in 1..m : n # all[j]
    BY <1>8, <1>10 DEF Planning!Range
  <2>4. \A i \in (m + 1)..N : all[i] \in rest
    <3> SUFFICES ASSUME NEW i \in (m + 1)..N, NEW j \in 1..m, all[i] = exploit[j] PROVE FALSE
      BY <1>7, <1>10, <2>1 DEF Planning!Range
    <3> QED BY <1>7, <1>8, <2>1, <2>2
  <2>5. back \in [(m + 1)..N -> rest] BY <2>4
  <2>6. \A n \in rest : \E i \in (m + 1)..N : back[i] = n
    BY <1>7, <2>1, <2>3
  <2>7. \A i, j \in (m + 1)..N : back[i] = back[j] => i = j
    BY <1>7, <2>1
  <2> HIDE DEF back, rest
  <2> QED BY <2>5, <2>6, <2>7 DEF Bijection, Injection, IsInjective, Surjection
<1>13. IsFiniteSet(rest) /\ Cardinality(rest) = N - m
  <2>1. IsFiniteSet((m + 1)..N) /\ Cardinality((m + 1)..N) = N - m
    <3>1. m + 1 \in Int /\ N \in Int BY <1>4, <1>6
    <3>2. Cardinality((m + 1)..N) = IF m + 1 > N THEN 0 ELSE N - (m + 1) + 1
      BY <3>1, FS_Interval
    <3>3. IsFiniteSet((m + 1)..N) BY <3>1, FS_Interval
    <3>4. (IF m + 1 > N THEN 0 ELSE N - (m + 1) + 1) = N - m BY <1>4, <1>6
    <3> QED BY <3>2, <3>3, <3>4
  <2>2. ExistsBijection((m + 1)..N, rest) BY <1>12 DEF ExistsBijection
  <2> HIDE DEF rest
  <2> QED BY <2>1, <2>2, FS_Bijection
<1>14. Planning!Exploited(items) = exploit
  BY DEF Planning!Exploited, exploit, all, key, floor, m, N
<1>15. /\ exploit \in Seq(S) /\ Len(exploit) <= N
       /\ \A i, j \in 1..Len(exploit) : exploit[i] = exploit[j] => i = j
       /\ IsFiniteSet(rest) /\ Cardinality(rest) = N - Len(exploit)
       /\ \A i \in 1..Len(exploit) : exploit[i] \notin rest
  BY <1>4, <1>6, <1>8, <1>9, <1>11, <1>13
<1> QED BY ONLY <1>14, <1>15 DEF N

LEMMA ExploredTaken ==
  ASSUME NEW items, PlanShape(items), NEW S, S \in SUBSET DOMAIN items, IsFiniteSet(S),
         S = DOMAIN items \ Planning!Range(Planning!Exploited(items))
  PROVE  Planning!Explored(items) \in Bijection(1..Cardinality(S), S)
<1> DEFINE key == [n \in S |-> <<Planning!Known(items[n]), Planning!MaxScore - items[n].score,
                                items[n].slot>>]
<1>1. key \in [S -> Keys]
  BY PlanPlaces DEF Keys, Planning!Known, Planning!MaxScore
<1>2. \A m, n \in S : key[m][3] = key[n][3] => m = n
  BY PlanPlaces
<1> HIDE DEF key
<1>3. Planning!SortedBy(key) \in Bijection(1..Cardinality(S), S)
  BY <1>1, <1>2, SortedIsBijection
<1>4. Planning!Explored(items) = Planning!SortedBy(key)
  BY DEF Planning!Explored, key
<1> QED BY <1>3, <1>4

LEMMA RecommendationsPermute ==
  ASSUME NEW items, PlanShape(items)
  PROVE  Planning!recommendations(items) \in Bijection(1..Len(items), DOMAIN items)
<1> DEFINE D == DOMAIN items
           N == Len(items)
           exploit == Planning!Exploited(items)
           rest == D \ Planning!Range(exploit)
           explore == Planning!Explored(items)
<1>1. /\ N \in Nat /\ D = 1..N /\ IsFiniteSet(D) /\ Cardinality(D) = N BY PlanPlaces
<1>2. /\ exploit \in Seq(D) /\ Len(exploit) <= N
      /\ \A i, j \in 1..Len(exploit) : exploit[i] = exploit[j] => i = j
      /\ IsFiniteSet(rest) /\ Cardinality(rest) = N - Len(exploit)
      /\ \A i \in 1..Len(exploit) : exploit[i] \notin rest
  BY ExploitedTaken
<1>3. explore \in Bijection(1..(N - Len(exploit)), rest)
  BY <1>2, ExploredTaken
<1> HIDE DEF exploit, explore, D, N
<1>4. Len(exploit) \in Nat /\ N - Len(exploit) \in Nat BY <1>1, <1>2, LenProperties
<1>5. /\ explore \in [1..(N - Len(exploit)) -> rest]
      /\ \A i, j \in 1..(N - Len(exploit)) : explore[i] = explore[j] => i = j
  BY <1>3 DEF Bijection, Injection, IsInjective
<1>6. explore \in Seq(D) /\ Len(explore) = N - Len(exploit)
  BY <1>4, <1>5
<1>7. /\ \A i, j \in 1..Len(explore) : explore[i] = explore[j] => i = j
      /\ \A i \in 1..Len(exploit), j \in 1..Len(explore) : exploit[i] # explore[j]
  BY <1>2, <1>5, <1>6
<1> HIDE DEF rest
<1>8. Len(exploit) + Len(explore) = N BY <1>1, <1>4, <1>6
<1> DEFINE I == [k \in 0..N |-> Merging(exploit, explore, D, k)]
           s0 == [x |-> 0, order |-> <<>>]
           Step(k, s) == Planning!Merge(exploit, explore, s, k)
           G == [k \in 1..N |-> [s \in I[k - 1] |-> Step(k, s)]]
           Eq(f) == f = [k \in 0..N |-> IF k = 0 THEN s0 ELSE Step(k, f[k - 1])]
<1>9. s0 \in I[0]
  <2>1. <<>> \in Seq(D) /\ Len(<<>>) = 0 BY EmptySeq
  <2>2. s0 \in [x : 0..Len(exploit), order : Seq(D)] BY <1>4, <2>1
  <2>3. 0 \in 0..N /\ 1..0 = {} BY <1>1
  <2>4. s0.x = 0 /\ s0.order = <<>> /\ 0 - s0.x \in 0..Len(explore) BY <1>4, <1>6
  <2> HIDE DEF s0
  <2> QED BY <2>1, <2>2, <2>3, <2>4 DEF Merging
<1>10. ASSUME NEW k \in 1..N, NEW s \in I[k - 1] PROVE Step(k, s) \in I[k] /\ G[k][s] = Step(k, s)
  <2>1. k \in 0..N /\ k - 1 \in 0..N /\ k \in 1..(Len(exploit) + Len(explore)) BY <1>1, <1>8
  <2>2. s \in Merging(exploit, explore, D, k - 1) BY <2>1
  <2>3. Step(k, s) \in Merging(exploit, explore, D, k)
    BY <1>2, <1>6, <1>7, <2>1, <2>2, MergeTakesOne
  <2> QED BY <2>1, <2>3
<1> HIDE DEF s0, Step, G, I
<1>11. PICK f : Iterates(f, G, I, N, s0)
  <2>1. Leads(G, I, N) BY <1>10 DEF Leads
  <2> QED BY <1>1, <1>9, <2>1, Iteration
<1>12. Eq(f)
  <2>1. \A k \in 0..N : f[k] = IF k = 0 THEN s0 ELSE Step(k, f[k - 1])
    <3> SUFFICES ASSUME NEW k \in 0..N, k # 0 PROVE f[k] = Step(k, f[k - 1])
      BY <1>11 DEF Iterates
    <3>1. k \in 1..N /\ k - 1 \in 0..N BY <1>1
    <3>2. f[k] = G[k][f[k - 1]] /\ f[k - 1] \in I[k - 1] BY <1>11, <3>1 DEF Iterates
    <3> QED BY <1>10, <3>1, <3>2
  <2>2. f = [k \in 0..N |-> f[k]] BY <1>11 DEF Iterates
  <2> QED BY <2>1, <2>2
<1> DEFINE merge == CHOOSE g : Eq(g)
<1>13. Eq(merge) BY <1>12
<1>14. Planning!recommendations(items) = merge[N].order
  BY DEF Planning!recommendations, exploit, explore, N, s0, Step
<1> HIDE DEF merge
<1>15. \A k \in 0..N : merge[k] \in I[k]
  <2> DEFINE T == {k \in Nat : k <= N => merge[k] \in I[k]}
  <2>1. 0 \in T
    <3>1. merge[0] = s0 BY <1>1, <1>13
    <3> QED BY <1>9, <3>1
  <2>2. ASSUME NEW k \in Nat, k \in T PROVE k + 1 \in T
    <3> SUFFICES ASSUME k + 1 <= N PROVE merge[k + 1] \in I[k + 1] OBVIOUS
    <3>1. k + 1 \in 1..N /\ (k + 1) - 1 = k /\ k <= N BY <1>1
    <3>2. merge[k] \in I[k] BY <2>2, <3>1
    <3>3. merge[k + 1] = Step(k + 1, merge[k]) BY <1>13, <3>1
    <3> QED BY <1>10, <3>1, <3>2, <3>3
  <2> HIDE DEF T
  <2>3. \A k \in Nat : k \in T BY <2>1, <2>2, SetInduction
  <2> QED BY <2>3 DEF T
<1> DEFINE o == Planning!recommendations(items)
<1>16. /\ o \in Seq(D) /\ Len(o) = N
       /\ \A i, j \in 1..N : o[i] = o[j] => i = j
  <2>1. N \in 0..N BY <1>1
  <2>2. merge[N] \in Merging(exploit, explore, D, N) BY <1>15, <2>1 DEF I
  <2>3. o = merge[N].order BY <1>14
  <2> HIDE DEF o
  <2> QED BY <2>2, <2>3 DEF Merging
<1> HIDE DEF o
<1>17. o \in Injection(1..N, D)
  BY <1>16, LenProperties DEF Injection, IsInjective
<1>18. o \in Surjection(1..N, D)
  <2>1. Cardinality(1..N) = N BY <1>1
  <2> QED BY <1>1, <1>17, <2>1, FS_Injection
<1> QED BY <1>17, <1>18 DEF Bijection, o, N, D

(* The optimizer gives each item the date of the slot it recommends it for:    *)
(* the dates go round.                                                         *)
LEMMA DatesGoRound ==
  ASSUME NEW items, PlanShape(items)
  PROVE  LET to == Planning!Rearranged(items, Planning!recommendations(items))
         IN  /\ to \in Seq(Planning!PlanItems) /\ DOMAIN to = DOMAIN items
             /\ \A d : Cardinality({n \in DOMAIN to : to[n].date = d}) =
                      Cardinality({n \in DOMAIN items : items[n].date = d})
<1> DEFINE D == DOMAIN items
           N == Len(items)
           order == Planning!recommendations(items)
           slot == Planning!Slots(items)
           Place(n) == CHOOSE k \in DOMAIN order : order[k] = n
           h == [n \in D |-> slot[Place(n)]]
           to == Planning!Rearranged(items, order)
<1>1. /\ N \in Nat /\ D = 1..N /\ IsFiniteSet(D) /\ \A n \in D : items[n] \in Planning!PlanItems
  BY PlanPlaces
<1>2. /\ order \in [1..N -> D]
      /\ \A i, j \in 1..N : order[i] = order[j] => i = j
      /\ \A n \in D : \E i \in 1..N : order[i] = n
  BY RecommendationsPermute DEF Bijection, Injection, IsInjective, Surjection
<1>3. /\ slot \in [1..N -> D]
      /\ \A i, j \in 1..N : slot[i] = slot[j] => i = j
      /\ \A n \in D : \E i \in 1..N : slot[i] = n
  BY SlotsPermute DEF Bijection, Injection, IsInjective, Surjection
<1>4. to = [n \in D |-> [items[n] EXCEPT !.date = items[h[n]].date, !.reserve = items[h[n]].reserve]]
  BY DEF Planning!Rearranged
<1> HIDE DEF N, order, slot, to
<1>5. DOMAIN order = 1..N BY <1>2
<1>6. \A n \in D : Place(n) \in 1..N /\ order[Place(n)] = n
  <2> SUFFICES ASSUME NEW n \in D PROVE Place(n) \in 1..N /\ order[Place(n)] = n OBVIOUS
  <2>1. \E k \in DOMAIN order : order[k] = n BY <1>2, <1>5
  <2> QED BY <1>5, <2>1
<1>7. \A n \in D : h[n] = slot[Place(n)] /\ h[n] \in D BY <1>3, <1>6
<1> HIDE DEF Place
<1>8. \A m, n \in D : h[m] = h[n] => m = n BY <1>3, <1>6, <1>7
<1>9. h \in [D -> D] BY <1>7
<1> HIDE DEF h
<1>10. \A n \in D : \E m \in D : h[m] = n
  <2>1. h \in Injection(D, D) BY <1>8, <1>9 DEF Injection, IsInjective
  <2>2. h \in Surjection(D, D) BY <1>1, <2>1, FS_Injection
  <2> QED BY <2>2 DEF Surjection
<1>11. \A n \in D : to[n] \in Planning!PlanItems /\ to[n].date = items[h[n]].date
  BY <1>1, <1>4, <1>7 DEF Planning!PlanItems
<1>12. DOMAIN to = D /\ to \in Seq(Planning!PlanItems)
  <2>1. to \in [1..N -> Planning!PlanItems] BY <1>1, <1>4, <1>11
  <2> QED BY <1>1, <2>1
<1>13. ASSUME NEW d
       PROVE  Cardinality({n \in D : to[n].date = d}) = Cardinality({n \in D : items[n].date = d})
  <2> DEFINE A == {n \in D : to[n].date = d}
             B == {n \in D : items[n].date = d}
             g == [n \in A |-> h[n]]
  <2>1. g \in [A -> B] BY <1>7, <1>11
  <2>2. \A m, n \in A : g[m] = g[n] => m = n BY <1>8
  <2>3. \A n \in B : \E m \in A : g[m] = n BY <1>10, <1>11
  <2>4. IsFiniteSet(A) BY <1>1, FS_Subset
  <2> HIDE DEF A, B, g
  <2>5. g \in Bijection(A, B) BY <2>1, <2>2, <2>3 DEF Bijection, Injection, IsInjective, Surjection
  <2>6. Cardinality(B) = Cardinality(A) BY <2>4, <2>5, FS_Bijection DEF ExistsBijection
  <2> QED BY <2>6 DEF A, B
<1> QED BY <1>12, <1>13 DEF to, order

-----------------------------------------------------------------------------
(* PortfolioPlanning: the greedy choice.  In Planning: pool is v1, score v2,   *)
(* history v3, today v4, learned v5, plan v6, caller v7, changes v8.           *)

(* Some element has the least key, compared position by position.              *)
Precedes(a, b, L) ==
  \/ \A i \in 1..L : a[i] = b[i]
  \/ \E i \in 1..L : a[i] < b[i] /\ \A j \in 1..(i - 1) : a[j] = b[j]

LEMMA LeastKey ==
  ASSUME NEW S, S # {}, NEW L \in Nat, NEW r, \A c \in S : \A i \in 1..L : r[c][i] \in Nat
  PROVE  \E c \in S : \A d \in S : Precedes(r[c], r[d], L)
<1> DEFINE Before(c, d, m) ==
             \E i \in 1..m : r[c][i] < r[d][i] /\ \A j \in 1..(i - 1) : r[c][j] = r[d][j]
           Same(c, d, m) == \A i \in 1..m : r[c][i] = r[d][i]
           Ahead(T, m) == /\ T \subseteq S /\ T # {}
                          /\ \A c, d \in T : Same(c, d, m)
                          /\ \A c \in T : \A d \in S : d \in T \/ Before(c, d, m)
           K == {m \in Nat : m <= L => \E T : Ahead(T, m)}
<1>1. 0 \in K
  <2>1. Ahead(S, 0) OBVIOUS
  <2> QED BY <2>1
<1>2. ASSUME NEW m \in Nat, m \in K PROVE m + 1 \in K
  <2>0. m + 1 \in Nat OBVIOUS
  <2> HIDE DEF Ahead
  <2> SUFFICES ASSUME m + 1 <= L PROVE \E T : Ahead(T, m + 1)
    BY <2>0
  <2>1. m <= L /\ m + 1 \in 1..L BY <2>0
  <2>2. PICK T : Ahead(T, m) BY <1>2, <2>1
  <2>3. T \subseteq S /\ T # {} BY <2>2 DEF Ahead
  <2> DEFINE V == {r[c][m + 1] : c \in T}
  <2>4. V \in SUBSET Nat /\ V # {} BY <2>1, <2>3
  <2>5. PICK v \in V : \A w \in V : v <= w BY <2>4, LeastNumber
  <2> DEFINE U == {c \in T : r[c][m + 1] = v}
  <2>6. U \subseteq S /\ U # {} BY <2>3, <2>5
  <2>7. \A i \in 1..(m + 1) : i \in 1..m \/ i = m + 1 OBVIOUS
  <2>8. ASSUME NEW c \in U, NEW d \in U PROVE Same(c, d, m + 1)
    <3>1. Same(c, d, m) BY <2>2 DEF Ahead
    <3> QED BY <2>7, <3>1
  <2>9. ASSUME NEW c \in U, NEW d \in S, d \notin U PROVE Before(c, d, m + 1)
    <3>1. CASE d \in T
      <4>1. Same(c, d, m) BY <2>2, <3>1 DEF Ahead
      <4>2. r[c][m + 1] = v /\ r[d][m + 1] # v /\ v <= r[d][m + 1] BY <2>5, <2>9, <3>1
      <4>3. r[c][m + 1] < r[d][m + 1] BY <2>1, <2>4, <2>5, <4>2
      <4>4. m + 1 \in 1..(m + 1) /\ (m + 1) - 1 = m OBVIOUS
      <4> QED BY <4>1, <4>3, <4>4
    <3>2. CASE d \notin T
      <4>1. Before(c, d, m) BY <2>2, <3>2 DEF Ahead
      <4>2. 1..m \subseteq 1..(m + 1) OBVIOUS
      <4> QED BY <4>1, <4>2
    <3> QED BY <3>1, <3>2
  <2> HIDE DEF U, Same, Before
  <2>10. Ahead(U, m + 1) BY <2>6, <2>8, <2>9 DEF Ahead
  <2> QED BY <2>10
<1> HIDE DEF K
<1>3. L \in K BY <1>1, <1>2, SetInduction
<1>4. PICK T : Ahead(T, L)
  <2> HIDE DEF Ahead
  <2> QED BY <1>3 DEF K
<1>5. PICK c \in T : TRUE BY <1>4
<1>6. c \in S /\ \A d \in S : Same(c, d, L) \/ Before(c, d, L) BY <1>4, <1>5
<1> QED BY <1>6 DEF Precedes

PlanChoices == [cand : Planning!Candidates, stage : {"STRICT", "RELAXED", "RESERVE"},
                score : Nat, vendor : BOOLEAN, board : BOOLEAN]

(* What the planner works on.                                                  *)
PlanningFacts ==
  /\ v1 \subseteq Planning!Candidates /\ v3 \subseteq Planning!Candidates /\ IsFiniteSet(v3)
  /\ v2 \in [PlanProducts -> 0..Planning!MaxScore] /\ v4 \in 1..LastDay

LEMMA UsesAreCounted ==
  ASSUME PlanningFacts, NEW chosen \in Seq(PlanChoices), NEW like
  PROVE  Planning!Uses(chosen, like) \in Nat
<1> DEFINE A == v3 \cap like
           B == {n \in DOMAIN chosen : chosen[n].cand \in like}
<1>1. IsFiniteSet(A) BY FS_Subset DEF PlanningFacts
<1>2. IsFiniteSet(B)
  <2>1. DOMAIN chosen = 1..Len(chosen) /\ Len(chosen) \in Nat BY LenProperties
  <2>2. IsFiniteSet(1..Len(chosen)) BY <2>1, FS_Interval
  <2>3. B \in SUBSET (1..Len(chosen)) BY <2>1
  <2> HIDE DEF B
  <2> QED BY <2>2, <2>3, FS_Subset
<1> HIDE DEF A, B
<1>3. Cardinality(A) \in Nat /\ Cardinality(B) \in Nat BY <1>1, <1>2, FS_CardinalityType
<1>4. Planning!Cardinality(A) = Cardinality(A) /\ Planning!Cardinality(B) = Cardinality(B)
  BY PlanningCounts
<1>5. Planning!Uses(chosen, like) = Planning!Cardinality(A) + Planning!Cardinality(B)
  BY DEF Planning!Uses, A, B
<1> QED BY <1>3, <1>4, <1>5

LEMMA BestIsOffered ==
  ASSUME PlanningFacts, NEW chosen \in Seq(PlanChoices), NEW S \in SUBSET Planning!Candidates, S # {}
  PROVE  Planning!BestOf(chosen, S) \in S
<1> DEFINE r == [c \in S |-> Planning!_candidate_rank(chosen, c)]
<1>1. ASSUME NEW c \in S
      PROVE  /\ DOMAIN r[c] = 1..6 /\ r[c][5] = c[1] /\ r[c][6] = c[2]
             /\ \A i \in 1..6 : r[c][i] \in Nat
  <2>1. c \in PlanProducts \X Boards BY DEF Planning!Candidates
  <2>2. c[1] \in Nat /\ c[2] \in Nat BY <2>1, PlanningAssumption
  <2>3. /\ Planning!ProductUses(chosen, c) \in Nat /\ Planning!VendorUses(chosen, c) \in Nat
        /\ Planning!BoardUses(chosen, c) \in Nat
    BY UsesAreCounted DEF Planning!ProductUses, Planning!VendorUses, Planning!BoardUses
  <2>4. Planning!MaxScore - v2[c[1]] \in Nat
    <3>1. v2[c[1]] \in 0..Planning!MaxScore BY <2>1 DEF PlanningFacts
    <3> QED BY <3>1 DEF Planning!MaxScore
  <2>5. r[c] = <<Planning!ProductUses(chosen, c), Planning!VendorUses(chosen, c),
                 Planning!BoardUses(chosen, c), Planning!MaxScore - v2[c[1]], c[1], c[2]>>
    BY DEF Planning!_candidate_rank
  <2> HIDE DEF r
  <2> QED BY <2>2, <2>3, <2>4, <2>5
<1>2. \A c \in S : r[c] = Planning!_candidate_rank(chosen, c) OBVIOUS
<1> HIDE DEF r
<1>3. PICK c \in S : \A d \in S : Precedes(r[c], r[d], 6)
  BY <1>1, LeastKey
<1>4. ASSUME NEW d \in S \ {c} PROVE Planning!KeyLess(r[c], r[d])
  <2>1. c[1] # d[1] \/ c[2] # d[2]
    BY DEF Planning!Candidates
  <2>2. r[c][5] # r[d][5] \/ r[c][6] # r[d][6] BY <1>1, <2>1
  <2>3. 5 \in 1..6 /\ 6 \in 1..6 OBVIOUS
  <2>4. PICK i \in 1..6 : r[c][i] < r[d][i] /\ \A j \in 1..(i - 1) : r[c][j] = r[d][j]
    BY <1>3, <2>2, <2>3 DEF Precedes
  <2> QED BY <1>1, <2>4 DEF Planning!KeyLess
<1> DEFINE Best(x) == \A d \in S \ {x} : Planning!KeyLess(Planning!_candidate_rank(chosen, x),
                                                       Planning!_candidate_rank(chosen, d))
<1>5. Best(c) BY <1>2, <1>4
<1>6. Planning!BestOf(chosen, S) = CHOOSE x \in S : Best(x) BY DEF Planning!BestOf
<1> HIDE DEF Best
<1> QED BY <1>5, <1>6

LEMMA OneIsSelected ==
  ASSUME PlanningFacts, NEW chosen \in Seq(PlanChoices), NEW S \in SUBSET Planning!Candidates, S # {},
         NEW stage \in {"STRICT", "RELAXED", "RESERVE"}
  PROVE  /\ Planning!Select(chosen, S, stage) \in Seq(PlanChoices)
         /\ Len(Planning!Select(chosen, S, stage)) = Len(chosen) + 1
<1> DEFINE c == Planning!BestOf(chosen, S)
           w == [cand |-> c, stage |-> stage, score |-> v2[c[1]],
                 vendor |-> stage = "RELAXED" /\ Planning!VendorOver(chosen, c),
                 board |-> stage = "RELAXED" /\ Planning!BoardOver(chosen, c)]
<1>1. c \in Planning!Candidates BY BestIsOffered
<1> HIDE DEF c
<1>2. v2[c[1]] \in Nat
  <2>1. c[1] \in PlanProducts BY <1>1 DEF Planning!Candidates
  <2> QED BY <2>1 DEF PlanningFacts, Planning!MaxScore
<1>3. w \in PlanChoices
  <2>1. (stage = "RELAXED" /\ Planning!VendorOver(chosen, c)) \in BOOLEAN
        /\ (stage = "RELAXED" /\ Planning!BoardOver(chosen, c)) \in BOOLEAN
    BY Zenon
  <2> QED BY <1>1, <1>2, <2>1 DEF PlanChoices
<1>4. Planning!Select(chosen, S, stage) = Append(chosen, w)
  BY DEF Planning!Select, c
<1> HIDE DEF w
<1> QED BY <1>3, <1>4, AppendProperties

Chosen(k) == {s \in Seq(PlanChoices) : Len(s) <= k}

LEMMA SelectingTakesOne ==
  ASSUME PlanningFacts, NEW k \in Nat, NEW s \in Chosen(k)
  PROVE  Planning!SelectNext(s) \in Chosen(k + 1) /\ Planning!ReserveNext(s) \in Chosen(k + 1)
<1>1. s \in Seq(PlanChoices) /\ Len(s) \in Nat /\ Len(s) <= k BY LenProperties DEF Chosen
<1>2. Planning!Available(s) \in SUBSET Planning!Candidates
      /\ Planning!WithinShares(s) \in SUBSET Planning!Candidates
  BY DEF Planning!Available, Planning!WithinShares, PlanningFacts
<1>3. s \in Chosen(k + 1) BY <1>1 DEF Chosen
<1>4. ASSUME NEW S \in SUBSET Planning!Candidates, S # {}, NEW stage \in {"STRICT", "RELAXED", "RESERVE"}
      PROVE  Planning!Select(s, S, stage) \in Chosen(k + 1)
  <2>1. Planning!Select(s, S, stage) \in Seq(PlanChoices)
        /\ Len(Planning!Select(s, S, stage)) = Len(s) + 1
    BY <1>1, <1>4, OneIsSelected
  <2> QED BY <1>1, <2>1 DEF Chosen
<1> QED BY <1>2, <1>3, <1>4 DEF Planning!SelectNext, Planning!ReserveNext

LEMMA ActiveSelected ==
  ASSUME PlanningFacts, NEW needed \in Nat
  PROVE  Planning!_select_active(needed) \in Chosen(needed)
<1> DEFINE I == [k \in 0..needed |-> Chosen(k)]
           Step(s) == Planning!SelectNext(s)
           G == [k \in 1..needed |-> [s \in I[k - 1] |-> Step(s)]]
           Eq(f) == f = [k \in 0..needed |-> IF k = 0 THEN <<>> ELSE Step(f[k - 1])]
<1>1. <<>> \in I[0]
  <2>1. <<>> \in Seq(PlanChoices) /\ Len(<<>>) = 0 BY EmptySeq
  <2> QED BY <2>1 DEF Chosen
<1>2. ASSUME NEW k \in 1..needed, NEW s \in I[k - 1] PROVE Step(s) \in I[k] /\ G[k][s] = Step(s)
  <2>1. k \in 0..needed /\ k - 1 \in 0..needed /\ k - 1 \in Nat /\ (k - 1) + 1 = k OBVIOUS
  <2>2. s \in Chosen(k - 1) BY <2>1
  <2>3. Step(s) \in Chosen(k) BY <2>1, <2>2, SelectingTakesOne
  <2> QED BY <2>1, <2>3
<1> HIDE DEF Step, G, I
<1>3. PICK f : Iterates(f, G, I, needed, <<>>)
  <2>1. Leads(G, I, needed) BY <1>2 DEF Leads
  <2> QED BY <1>1, <2>1, Iteration
<1>4. Eq(f)
  <2>1. \A k \in 0..needed : f[k] = IF k = 0 THEN <<>> ELSE Step(f[k - 1])
    <3> SUFFICES ASSUME NEW k \in 0..needed, k # 0 PROVE f[k] = Step(f[k - 1])
      BY <1>3 DEF Iterates
    <3>1. k \in 1..needed /\ k - 1 \in 0..needed OBVIOUS
    <3>2. f[k] = G[k][f[k - 1]] /\ f[k - 1] \in I[k - 1] BY <1>3, <3>1 DEF Iterates
    <3> QED BY <1>2, <3>1, <3>2
  <2>2. f = [k \in 0..needed |-> f[k]] BY <1>3 DEF Iterates
  <2> QED BY <2>1, <2>2
<1> DEFINE grow == CHOOSE g : Eq(g)
<1>5. Eq(grow) BY <1>4
<1>6. Planning!_select_active(needed) = grow[needed]
  BY DEF Planning!_select_active, Step
<1> HIDE DEF grow
<1> DEFINE T == {k \in Nat : k <= needed => grow[k] \in I[k]}
<1>7. 0 \in T
  <2>1. grow[0] = <<>> BY <1>5
  <2> QED BY <1>1, <2>1
<1>8. ASSUME NEW k \in Nat, k \in T PROVE k + 1 \in T
  <2> SUFFICES ASSUME k + 1 <= needed PROVE grow[k + 1] \in I[k + 1] OBVIOUS
  <2>1. k + 1 \in 1..needed /\ (k + 1) - 1 = k /\ k <= needed OBVIOUS
  <2>2. grow[k] \in I[k] BY <1>8, <2>1
  <2>3. grow[k + 1] = Step(grow[k]) BY <1>5, <2>1
  <2> QED BY <1>2, <2>1, <2>2, <2>3
<1> HIDE DEF T
<1>9. needed \in T BY <1>7, <1>8, SetInduction
<1>10. needed \in 0..needed OBVIOUS
<1> QED BY <1>6, <1>9, <1>10 DEF T, I

LEMMA ReserveSelected ==
  ASSUME PlanningFacts, NEW needed \in Nat, NEW active \in Seq(PlanChoices)
  PROVE  Planning!_select_reserve(active, needed) \in Seq(PlanChoices)
<1> DEFINE n0 == Len(active)
           I == [k \in 0..needed |-> Chosen(n0 + k)]
           Step(s) == Planning!ReserveNext(s)
           G == [k \in 1..needed |-> [s \in I[k - 1] |-> Step(s)]]
           Eq(f) == f = [k \in 0..needed |-> IF k = 0 THEN active ELSE Step(f[k - 1])]
<1>0. n0 \in Nat BY LenProperties
<1>1. active \in I[0]
  <2>1. n0 <= n0 + 0 BY <1>0
  <2> QED BY <2>1 DEF Chosen
<1>2. ASSUME NEW k \in 1..needed, NEW s \in I[k - 1] PROVE Step(s) \in I[k] /\ G[k][s] = Step(s)
  <2> HIDE DEF n0
  <2>1. /\ k \in 0..needed /\ k - 1 \in 0..needed /\ n0 + (k - 1) \in Nat
        /\ (n0 + (k - 1)) + 1 = n0 + k
    BY <1>0
  <2>2. s \in Chosen(n0 + (k - 1)) BY <2>1
  <2>3. Step(s) \in Chosen((n0 + (k - 1)) + 1) BY <2>1, <2>2, SelectingTakesOne
  <2> QED BY <2>1, <2>3
<1> HIDE DEF Step, G, I
<1>3. PICK f : Iterates(f, G, I, needed, active)
  <2>1. Leads(G, I, needed) BY <1>2 DEF Leads
  <2> QED BY <1>1, <2>1, Iteration
<1>4. Eq(f)
  <2>1. \A k \in 0..needed : f[k] = IF k = 0 THEN active ELSE Step(f[k - 1])
    <3> SUFFICES ASSUME NEW k \in 0..needed, k # 0 PROVE f[k] = Step(f[k - 1])
      BY <1>3 DEF Iterates
    <3>1. k \in 1..needed /\ k - 1 \in 0..needed OBVIOUS
    <3>2. f[k] = G[k][f[k - 1]] /\ f[k - 1] \in I[k - 1] BY <1>3, <3>1 DEF Iterates
    <3> QED BY <1>2, <3>1, <3>2
  <2>2. f = [k \in 0..needed |-> f[k]] BY <1>3 DEF Iterates
  <2> QED BY <2>1, <2>2
<1> DEFINE grow == CHOOSE g : Eq(g)
<1>5. Eq(grow) BY <1>4
<1>6. Planning!_select_reserve(active, needed) = grow[needed]
  BY DEF Planning!_select_reserve, Step
<1> HIDE DEF grow
<1> DEFINE T == {k \in Nat : k <= needed => grow[k] \in I[k]}
<1>7. 0 \in T
  <2>1. grow[0] = active BY <1>5
  <2> QED BY <1>1, <2>1
<1>8. ASSUME NEW k \in Nat, k \in T PROVE k + 1 \in T
  <2> SUFFICES ASSUME k + 1 <= needed PROVE grow[k + 1] \in I[k + 1] OBVIOUS
  <2>1. k + 1 \in 1..needed /\ (k + 1) - 1 = k /\ k <= needed OBVIOUS
  <2>2. grow[k] \in I[k] BY <1>8, <2>1
  <2>3. grow[k + 1] = Step(grow[k]) BY <1>5, <2>1
  <2> QED BY <1>2, <2>1, <2>2, <2>3
<1> HIDE DEF T
<1>9. needed \in T BY <1>7, <1>8, SetInduction
<1>10. needed \in 0..needed OBVIOUS
<1> QED BY <1>6, <1>9, <1>10 DEF T, I, Chosen

LEMMA EvenlyDivided ==
  ASSUME NEW n \in Nat, n > 0, NEW total \in Nat
  PROVE  /\ (n * total) \div n = total /\ (0 * total) \div n = 0
         /\ \A j \in Nat : (j * total) \div n \in Nat
<1>1. (n * total) \div n = total OBVIOUS
<1>2. (0 * total) \div n = 0 OBVIOUS
<1>3. ASSUME NEW j \in Nat PROVE (j * total) \div n \in Nat OBVIOUS
<1> QED BY <1>1, <1>2, <1>3

(* There is a day for every pin: the first by whose end it is due.             *)
LEMMA PacedWithinMonth ==
  ASSUME PlanningFacts, NEW total \in Nat, NEW k \in 1..total
  PROVE  Planning!_daily_pacing(total, k) \in v4..LastDay
<1> DEFINE n == LastDay - v4 + 1
           Due(j) == (j * total) \div n
           T == {j \in Nat : k <= Due(j + 1)}
<1>1. LastDay \in Nat /\ v4 \in Nat /\ v4 >= 1 /\ n \in Nat /\ n > 0
  BY CalendarAssumption DEF PlanningFacts
<1>2. Due(n) = total /\ Due(0) = 0 /\ \A j \in Nat : Due(j) \in Nat
  <2> HIDE DEF n
  <2> QED BY <1>1, EvenlyDivided
<1> HIDE DEF Due
<1>3. n - 1 \in T
  <2>1. n - 1 \in Nat /\ (n - 1) + 1 = n BY <1>1
  <2> HIDE DEF n
  <2> QED BY <1>2, <2>1
<1>4. PICK m \in T : \A j \in T : m <= j
  <2>1. T \in SUBSET Nat /\ T # {} BY <1>3
  <2> HIDE DEF T
  <2> QED BY <2>1, LeastNumber
<1>5. m \in Nat /\ k <= Due(m + 1) /\ m <= n - 1 BY <1>3, <1>4
<1>6. Due(m) < k
  <2>1. CASE m = 0 BY <1>2, <2>1
  <2>2. CASE m # 0
    <3>1. m - 1 \in Nat /\ (m - 1) + 1 = m /\ ~(m <= m - 1) BY <1>5, <2>2
    <3>2. m - 1 \notin T BY <1>4, <3>1
    <3>3. ~(k <= Due(m)) BY <3>1, <3>2
    <3>4. Due(m) \in Nat BY <1>2, <1>5
    <3> QED BY <3>3, <3>4
  <2> QED BY <2>1, <2>2
<1> DEFINE Fits(d) == Due(d - v4) < k /\ k <= Due(d - v4 + 1)
<1>7. v4 + m \in v4..LastDay /\ (v4 + m) - v4 = m BY <1>1, <1>5
<1>8. Fits(v4 + m) BY <1>5, <1>6, <1>7
<1>9. Planning!_daily_pacing(total, k) = CHOOSE d \in v4..LastDay : Fits(d)
  BY DEF Planning!_daily_pacing, Due
<1> HIDE DEF Fits
<1> QED BY <1>7, <1>8, <1>9

LEMMA PreviewIsPlan ==
  ASSUME PlanningFacts
  PROVE  PlanShape(Planning!portfolio_preview)
<1> DEFINE needed == Planning!Needed
           active == Planning!_select_active(needed)
           reserve == IF needed > 0 THEN ReserveTarget ELSE 0
           all == Planning!_select_reserve(active, reserve)
           Item(k) == [slot |-> k, reserve |-> k > Len(active),
                       date |-> IF k > Len(active) THEN 0 ELSE Planning!_daily_pacing(needed, k),
                       cand |-> all[k].cand, stage |-> all[k].stage, score |-> all[k].score,
                       vendor |-> all[k].vendor, board |-> all[k].board]
<1>1. needed \in Nat
  <2>1. Cardinality(v3) \in Nat /\ Planning!Cardinality(v3) = Cardinality(v3)
    BY FS_CardinalityType, PlanningCounts DEF PlanningFacts
  <2> QED BY <2>1, PlanningAssumption DEF Planning!Needed
<1> HIDE DEF needed
<1>2. active \in Chosen(needed) BY <1>1, ActiveSelected
<1>3. active \in Seq(PlanChoices) /\ Len(active) \in Nat /\ Len(active) <= needed
  BY <1>2, LenProperties DEF Chosen
<1>4. reserve \in Nat BY PlanningAssumption
<1> HIDE DEF active, reserve
<1>5. all \in Seq(PlanChoices) BY <1>3, <1>4, ReserveSelected
<1> HIDE DEF all
<1>6. Len(all) \in Nat /\ DOMAIN all = 1..Len(all) BY <1>5, LenProperties
<1>7. ASSUME NEW k \in 1..Len(all) PROVE Item(k) \in Planning!PlanItems
  <2>1. all[k] \in PlanChoices BY <1>5, ElementOfSeq
  <2>2. k \in Nat BY <1>6
  <2>3. (k > Len(active)) \in BOOLEAN OBVIOUS
  <2>4. (IF k > Len(active) THEN 0 ELSE Planning!_daily_pacing(needed, k)) \in 0..LastDay
    <3>1. CASE k > Len(active)
      <4>1. 0 \in 0..LastDay BY CalendarAssumption
      <4> QED BY <3>1, <4>1
    <3>2. CASE ~(k > Len(active))
      <4>1. k \in 1..needed BY <1>1, <1>3, <2>2, <3>2
      <4>2. Planning!_daily_pacing(needed, k) \in v4..LastDay BY <1>1, <4>1, PacedWithinMonth
      <4>3. v4..LastDay \subseteq 0..LastDay BY CalendarAssumption DEF PlanningFacts
      <4> QED BY <3>2, <4>2, <4>3
    <3> QED BY <3>1, <3>2
  <2> QED BY <2>1, <2>2, <2>3, <2>4 DEF PlanChoices, Planning!PlanItems
<1>8. Planning!portfolio_preview = [k \in DOMAIN all |-> Item(k)]
  BY DEF Planning!portfolio_preview, needed, active, reserve, all
<1> DEFINE items == Planning!portfolio_preview
<1>9. \A k \in DOMAIN all : items[k] = Item(k) /\ items[k].slot = k BY <1>8
<1>10. DOMAIN items = DOMAIN all BY <1>8
<1> HIDE DEF items, Item
<1>11. items \in [1..Len(all) -> Planning!PlanItems]
  <2>1. items = [k \in DOMAIN items |-> items[k]] BY <1>8 DEF items
  <2> QED BY <1>6, <1>7, <1>9, <1>10, <2>1
<1>12. items \in Seq(Planning!PlanItems) BY <1>6, <1>11
<1> QED BY <1>9, <1>10, <1>12 DEF PlanShape, Planning!Slotted, items

(* In Planning: pool is v1, score v2, history v3, today v4, learned v5, plan   *)
(* v6, caller v7 and changes v8.                                               *)
PlanRequests ==
  [pc : {"idle", "create", "advise", "apply"}, preview : Seq(Planning!PlanItems), advice : Seq(Nat)]
PlanRecords ==
  [status : {"NONE", "DRAFT", "ACTIVE"}, preview : Seq(Planning!PlanItems),
   items : Seq(Planning!PlanItems)]

LEMMA PlanningStart ==
  ASSUME Planning!Init
  PROVE  Planning!PlanInv
<1>1. <<>> \in Seq(Planning!PlanItems) /\ <<>> \in Seq(Nat) BY EmptySeq
<1>2. v6 \in PlanRecords /\ v6.status = "NONE"
  BY <1>1 DEF Planning!Init, Planning!NoPlan, PlanRecords
<1>3. v7 \in [Callers -> PlanRequests] /\ \A c \in Callers : v7[c].pc = "idle"
  BY <1>1 DEF Planning!Init, Planning!Away, PlanRequests
<1>4. 1 \in 1..LastDay BY CalendarAssumption, PlanningAssumption
<1>5. v8 \in 0..MaxChanges BY BoundsAssumption DEF Planning!Init
<1>6. v2 \in [PlanProducts -> 0..Planning!MaxScore] BY DEF Planning!Init, Planning!MaxScore
<1>7. v3 = {} /\ Planning!IsFiniteSet(v3) BY FS_EmptySet, PlanningCounts DEF Planning!Init
<1>8. Planning!PlanTypeOK
  BY <1>2, <1>3, <1>4, <1>5, <1>7 DEF Planning!PlanTypeOK, Planning!Init
<1>9. Planning!PlanShapes
  BY <1>2, <1>3, <1>6, <1>7 DEF Planning!PlanShapes, PlanRecords, PlanRequests
<1> QED BY <1>2, <1>8, <1>9 DEF Planning!PlanInv, Planning!ActivePlanKeepsCaps

(* A step of an operator's request leaves what is read alone.                  *)
PlanningSame == v1' = v1 /\ v2' = v2 /\ v3' = v3 /\ v4' = v4 /\ v5' = v5 /\ v8' = v8

(* The plan in the database, whatever the state is otherwise.                  *)
SameDays(items, preview) ==
  \A d \in 0..LastDay : Planning!Cardinality({n \in DOMAIN items : items[n].date = d}) =
                       Planning!Cardinality({n \in DOMAIN preview : preview[n].date = d})
PlanOK(p) ==
  /\ p \in PlanRecords
  /\ p.status = "DRAFT" => p.items = p.preview /\ Planning!Slotted(p.preview)
  /\ p.status = "ACTIVE" => Planning!cap_blockers(p.items) = {} /\ SameDays(p.items, p.preview)

PlanningParts ==
  /\ v1 \subseteq Planning!Candidates /\ v3 \subseteq Planning!Candidates
  /\ IsFiniteSet(v3) /\ v4 \in 1..LastDay /\ v8 \in 0..MaxChanges
  /\ v2 \in [PlanProducts -> 0..Planning!MaxScore]
  /\ v7 \in [Callers -> PlanRequests] /\ PlanOK(v6)

LEMMA PlanningInParts == Planning!PlanInv <=> PlanningParts
<1>1. Planning!IsFiniteSet(v3) <=> IsFiniteSet(v3) BY PlanningCounts
<1>2. v6 \in PlanRecords => v6.status \in {"NONE", "DRAFT", "ACTIVE"} BY DEF PlanRecords
<1>3. v7 \in [Callers -> PlanRequests] =>
        \A c \in Callers : v7[c].pc \in {"idle", "create", "advise", "apply"}
  BY DEF PlanRequests
<1>4. ASSUME Planning!PlanInv PROVE PlanningParts
  <2>1. PlanOK(v6)
    BY <1>4 DEF Planning!PlanInv, Planning!PlanShapes, Planning!ActivePlanKeepsCaps, PlanOK,
              PlanRecords, SameDays
  <2> QED BY <1>1, <1>4, <2>1
        DEF PlanningParts, Planning!PlanInv, Planning!PlanTypeOK, Planning!PlanShapes, PlanRequests
<1>5. ASSUME PlanningParts PROVE Planning!PlanInv
  <2>1. Planning!PlanTypeOK
    BY <1>1, <1>2, <1>3, <1>5 DEF PlanningParts, PlanOK, Planning!PlanTypeOK
  <2>2. Planning!PlanShapes
    BY <1>1, <1>5 DEF PlanningParts, PlanOK, PlanRecords, PlanRequests, Planning!PlanShapes
  <2>3. Planning!ActivePlanKeepsCaps
    BY <1>5 DEF PlanningParts, PlanOK, Planning!ActivePlanKeepsCaps, SameDays
  <2> QED BY <1>5, <2>1, <2>2, <2>3 DEF PlanningParts, PlanOK, Planning!PlanInv
<1> QED BY <1>4, <1>5

LEMMA ReadinessShows ==
  ASSUME PlanningParts, NEW c \in Callers, Planning!phase_b1_readiness(c)
  PROVE  PlanningSame /\ v7' \in [Callers -> PlanRequests] /\ PlanOK(v6')
<1> DEFINE preview == Planning!portfolio_preview
           w == [[pc |-> "idle", preview |-> <<>>, advice |-> <<>>]
                   EXCEPT !.pc = "create", !.preview = preview]
<1>1. preview \in Seq(Planning!PlanItems) BY PreviewIsPlan DEF PlanningParts, PlanningFacts, PlanShape
<1>2. v7' = [v7 EXCEPT ![c] = w]
  BY DEF Planning!phase_b1_readiness, Planning!Away
<1> HIDE DEF preview
<1>3. w \in PlanRequests
  <2>1. <<>> \in Seq(Nat) BY EmptySeq
  <2> QED BY <1>1, <2>1 DEF PlanRequests
<1> HIDE DEF w
<1>4. v7' \in [Callers -> PlanRequests] BY <1>2, <1>3 DEF PlanningParts
<1>5. PlanningSame /\ v6' = v6 BY DEF Planning!phase_b1_readiness, Planning!InputSame, PlanningSame
<1> QED BY <1>4, <1>5 DEF PlanningParts

(* A request that moves on, one that is over.                                  *)
LEMMA RequestMoves ==
  ASSUME PlanningParts, NEW c \in Callers, NEW l \in {"idle", "create", "advise", "apply"}
  PROVE  /\ [v7 EXCEPT ![c].pc = l] \in [Callers -> PlanRequests]
         /\ [v7 EXCEPT ![c] = Planning!Away] \in [Callers -> PlanRequests]
<1>1. <<>> \in Seq(Nat) /\ <<>> \in Seq(Planning!PlanItems) BY EmptySeq
<1>2. Planning!Away \in PlanRequests BY <1>1 DEF Planning!Away, PlanRequests
<1>3. [v7 EXCEPT ![c] = Planning!Away] \in [Callers -> PlanRequests] BY <1>2 DEF PlanningParts
<1>4. [v7 EXCEPT ![c].pc = l] \in [Callers -> PlanRequests] BY DEF PlanningParts, PlanRequests
<1> QED BY <1>3, <1>4

LEMMA DraftIsCreated ==
  ASSUME PlanningParts, NEW c \in Callers, Planning!create_draft_portfolio_plan(c)
  PROVE  PlanningSame /\ v7' \in [Callers -> PlanRequests] /\ PlanOK(v6')
<1> DEFINE preview == Planning!portfolio_preview
           p == [status |-> "DRAFT", preview |-> preview, items |-> preview]
<1>1. PlanShape(preview) BY PreviewIsPlan DEF PlanningParts, PlanningFacts
<1>2. PlanningSame BY DEF Planning!create_draft_portfolio_plan, Planning!InputSame, PlanningSame
<1>3. v6' = v6 \/ v6' = p
  BY DEF Planning!create_draft_portfolio_plan
<1>4. v7' = [v7 EXCEPT ![c].pc = "advise"] \/ v7' = [v7 EXCEPT ![c] = Planning!Away]
  BY DEF Planning!create_draft_portfolio_plan, Planning!Refused
<1>5. v7' \in [Callers -> PlanRequests] BY <1>4, RequestMoves
<1> HIDE DEF preview
<1>6. PlanOK(p) BY <1>1 DEF PlanOK, PlanRecords, PlanShape
<1> HIDE DEF p
<1>7. PlanOK(v6') BY <1>3, <1>6 DEF PlanningParts
<1> QED BY <1>2, <1>5, <1>7

LEMMA DraftIsPlan ==
  ASSUME PlanningParts, v6.status = "DRAFT"
  PROVE  PlanShape(v6.items) /\ v6.items = v6.preview
BY DEF PlanningParts, PlanOK, PlanRecords, PlanShape

LEMMA AdviceIsGiven ==
  ASSUME PlanningParts, NEW c \in Callers, Planning!optimizer_apply_readiness(c)
  PROVE  PlanningSame /\ v7' \in [Callers -> PlanRequests] /\ PlanOK(v6')
<1> DEFINE advice == Planning!recommendations(v6.items)
<1>1. PlanningSame /\ v6' = v6
  BY DEF Planning!optimizer_apply_readiness, Planning!InputSame, PlanningSame
<1>2. v7' \in [Callers -> PlanRequests]
  <2>1. CASE v7' = [v7 EXCEPT ![c] = Planning!Away] BY <2>1, RequestMoves
  <2>2. CASE /\ v6.status = "DRAFT"
             /\ v7' = [v7 EXCEPT ![c].pc = "apply", ![c].advice = advice]
    <3>1. /\ advice \in [1..Len(v6.items) -> DOMAIN v6.items]
          /\ Len(v6.items) \in Nat /\ DOMAIN v6.items = 1..Len(v6.items)
      BY <2>2, DraftIsPlan, PlanPlaces, RecommendationsPermute DEF Bijection, Injection
    <3>2. advice \in Seq(Nat)
      <4> HIDE DEF advice
      <4>1. advice \in [1..Len(v6.items) -> Nat] BY <3>1
      <4> QED BY <3>1, <4>1
    <3> HIDE DEF advice
    <3> QED BY <2>2, <3>2 DEF PlanningParts, PlanRequests
  <2> QED BY <2>1, <2>2 DEF Planning!optimizer_apply_readiness, Planning!Refused
<1> QED BY <1>1, <1>2 DEF PlanningParts

LEMMA AdviceIsApplied ==
  ASSUME PlanningParts, NEW c \in Callers, Planning!apply_optimizer(c)
  PROVE  PlanningSame /\ v7' \in [Callers -> PlanRequests] /\ PlanOK(v6')
<1> DEFINE to == Planning!Rearranged(v6.items, Planning!recommendations(v6.items))
           p == [v6 EXCEPT !.status = "ACTIVE", !.items = to]
<1>1. PlanningSame BY DEF Planning!apply_optimizer, Planning!InputSame, PlanningSame
<1>2. v7' \in [Callers -> PlanRequests]
  BY RequestMoves DEF Planning!apply_optimizer, Planning!Refused
<1>3. CASE v6' = v6 BY <1>1, <1>2, <1>3 DEF PlanningParts
<1>4. CASE v6.status = "DRAFT" /\ Planning!cap_blockers(to) = {} /\ v6' = p
  <2>1. v6 \in PlanRecords /\ PlanShape(v6.items) /\ v6.items = v6.preview
    BY <1>4, DraftIsPlan DEF PlanningParts, PlanOK
  <2>2. /\ to \in Seq(Planning!PlanItems)
        /\ \A d : Cardinality({n \in DOMAIN to : to[n].date = d}) =
                 Cardinality({n \in DOMAIN v6.items : v6.items[n].date = d})
    BY <2>1, DatesGoRound
  <2> HIDE DEF to
  <2>3. p \in PlanRecords BY <2>1, <2>2 DEF PlanRecords
  <2>4. p.status = "ACTIVE" /\ p.items = to /\ p.preview = v6.items BY <2>1 DEF PlanRecords
  <2>5. ASSUME NEW d
        PROVE  Planning!Cardinality({n \in DOMAIN to : to[n].date = d}) =
               Planning!Cardinality({n \in DOMAIN v6.items : v6.items[n].date = d})
    BY <2>2, PlanningCounts
  <2> HIDE DEF p
  <2>6. PlanOK(p)
    <3>1. SameDays(to, v6.items) BY <2>5 DEF SameDays
    <3> QED BY <1>4, <2>3, <2>4, <3>1 DEF PlanOK
  <2> QED BY <1>1, <1>2, <1>4, <2>6
<1> QED BY <1>3, <1>4 DEF Planning!apply_optimizer

LEMMA PlanningStep ==
  ASSUME PlanningParts, Planning!Next \/ UNCHANGED Planning!planVars
  PROVE  PlanningParts'
<1>1. PlanningParts OBVIOUS
<1>2. ASSUME PlanningSame, v7' \in [Callers -> PlanRequests], PlanOK(v6')
      PROVE  PlanningParts'
  BY <1>1, <1>2 DEF PlanningSame, PlanningParts
<1>3. ASSUME NEW c \in Callers,
             \/ Planning!phase_b1_readiness(c) \/ Planning!create_draft_portfolio_plan(c)
             \/ Planning!optimizer_apply_readiness(c) \/ Planning!apply_optimizer(c)
      PROVE  PlanningParts'
  BY <1>1, <1>2, <1>3, ReadinessShows, DraftIsCreated, AdviceIsGiven, AdviceIsApplied
<1>4. ASSUME Planning!Changed PROVE v1' = v1 /\ v2' = v2 /\ v6' = v6 /\ v7' = v7 /\ v8' \in 0..MaxChanges
  <2>1. v8 \in Nat /\ v8 < MaxChanges /\ v8' = v8 + 1 /\ MaxChanges \in Nat
    BY <1>1, <1>4, BoundsAssumption DEF PlanningParts, Planning!Changed
  <2> QED BY <1>4, <2>1 DEF Planning!Changed
<1>5. ASSUME Planning!PinCommitted PROVE PlanningParts'
  <2>1. PICK c \in v1 : v3' = v3 \cup {c} BY <1>5 DEF Planning!PinCommitted
  <2>2. v3' \subseteq Planning!Candidates /\ IsFiniteSet(v3')
    BY <1>1, <2>1, FS_AddElement DEF PlanningParts
  <2>3. v4' = v4 /\ Planning!Changed BY <1>5 DEF Planning!PinCommitted
  <2> QED BY <1>1, <1>4, <2>2, <2>3 DEF PlanningParts
<1>6. ASSUME Planning!DayPasses PROVE PlanningParts'
  <2>1. v4' \in 1..LastDay
    BY <1>1, <1>6, CalendarAssumption DEF PlanningParts, Planning!DayPasses
  <2>2. v3' = v3 /\ Planning!Changed BY <1>6 DEF Planning!DayPasses
  <2> QED BY <1>1, <1>4, <2>1, <2>2 DEF PlanningParts
<1>7. ASSUME Planning!Learns PROVE PlanningParts'
  <2>1. v3' = v3 /\ v4' = v4 /\ Planning!Changed BY <1>7 DEF Planning!Learns
  <2> QED BY <1>1, <1>4, <2>1 DEF PlanningParts
<1>8. ASSUME UNCHANGED Planning!planVars PROVE PlanningParts'
  BY <1>1, <1>8 DEF PlanningParts, Planning!planVars
<1> QED BY <1>3, <1>5, <1>6, <1>7, <1>8 DEF Planning!Next

LEMMA PlanningFocus ==
  ASSUME [ServicesNext]_allVars, focus' = "planning"
  PROVE  focus = "planning" /\ (Planning!Next \/ UNCHANGED Planning!planVars)
BY DEF ServicesNext, allVars, slots, Only, Planning!planVars

LEMMA PlanningHolds == ServicesSpec => [](focus = "planning" => Planning!PlanInv)
<1> DEFINE I == focus = "planning" => PlanningParts
<1>1. ServicesInit => I
  BY PlanningStart, PlanningInParts DEF ServicesInit
<1>2. I /\ [ServicesNext]_allVars => I'
  BY PlanningStep, PlanningFocus
<1>3. I => (focus = "planning" => Planning!PlanInv)
  BY PlanningInParts
<1> QED BY <1>1, <1>2, <1>3, PTL DEF ServicesSpec

(* Whatever was learned meanwhile and whoever applies the advice, the plan     *)
(* that becomes ACTIVE keeps to its caps and gives away each day as often as   *)
(* the preview did: the optimizer only exchanges the dates of the items, for   *)
(* any catalogue, any caps and any number of pins in the month.                *)
THEOREM ActivePlansKeepCaps == ServicesSpec => []ActivePlanKeepsCaps
<1>1. (focus = "planning" => Planning!PlanInv) => ActivePlanKeepsCaps
  BY DEF ActivePlanKeepsCaps, Planning!PlanInv
<1> QED BY <1>1, PlanningHolds, PTL

-----------------------------------------------------------------------------
(* ProposalBatch: selecting and ranking.                                       *)

LEMMA ProposingCounts ==
  ASSUME NEW S
  PROVE  Proposing!Cardinality(S) = Cardinality(S)
BY DEF Proposing!Cardinality, Cardinality

LEMMA SegmentKeys ==
  Len(Proposing!ordered_keys) = 13 /\ DOMAIN Proposing!ordered_keys = 1..13
BY DEF Proposing!ordered_keys

LEMMA LeastIsIn ==
  ASSUME NEW S \in SUBSET Nat, S # {}
  PROVE  Proposing!Min(S) \in S
<1>1. \E x \in S : \A y \in S : x <= y BY LeastNumber
<1> QED BY <1>1 DEF Proposing!Min

Segment(cat, C, j) ==
  {p \in C : Proposing!ordered_keys[j] \in Proposing!_segment_keys(cat[p])}

(* How many of the first segments have a product.                              *)
Present(cat, C, j) == Cardinality({i \in 1..j : Segment(cat, C, i) # {}})

LEMMA PresentGrows ==
  ASSUME NEW cat, NEW C, NEW n \in Nat \ {0}
  PROVE  /\ Present(cat, C, n) \in Nat /\ Present(cat, C, n - 1) \in Nat
         /\ Present(cat, C, n) = Present(cat, C, n - 1) + IF Segment(cat, C, n) # {} THEN 1 ELSE 0
<1> DEFINE P(k) == {i \in 1..k : Segment(cat, C, i) # {}}
<1>1. n - 1 \in Nat /\ n \in 1..n /\ n \notin 1..(n - 1) /\ \A i \in 1..n : i = n \/ i \in 1..(n - 1)
  OBVIOUS
<1>2. IsFiniteSet(P(n - 1))
  <2>1. IsFiniteSet(1..(n - 1)) BY <1>1, FS_Interval
  <2>2. P(n - 1) \in SUBSET (1..(n - 1)) OBVIOUS
  <2> QED BY <2>1, <2>2, FS_Subset
<1>3. P(n) = IF Segment(cat, C, n) # {} THEN P(n - 1) \cup {n} ELSE P(n - 1)
  <2>1. 1..(n - 1) \subseteq 1..n OBVIOUS
  <2> QED BY <1>1, <2>1
<1>4. n \notin P(n - 1) BY <1>1
<1>5. Present(cat, C, n) = Cardinality(P(n)) /\ Present(cat, C, n - 1) = Cardinality(P(n - 1))
  BY DEF Present
<1> HIDE DEF P
<1>6. Cardinality(P(n - 1)) \in Nat BY <1>2, FS_CardinalityType
<1>7. Cardinality(P(n - 1) \cup {n}) = Cardinality(P(n - 1)) + 1 BY <1>2, <1>4, FS_AddElement
<1> QED BY <1>3, <1>5, <1>6, <1>7

(* What has been selected when it was looked for a product n times.            *)
Distinct(s) == \A i, j \in 1..Len(s) : s[i] = s[j] => i = j
Meets(s, S)  == \E i \in 1..Len(s) : s[i] \in S
Holds(s, S)  == \A p \in S : \E i \in 1..Len(s) : s[i] = p

Looked(cat, C, limit, n) ==
  {s \in Seq(C) :
     /\ Len(s) <= limit /\ Distinct(s)
     /\ n > 13 * Cardinality(C) =>
          Len(s) = limit \/ Holds(s, C) \/ Len(s) >= n - 13 * Cardinality(C)
     /\ n <= 13 => Len(s) <= Present(cat, C, n)
     /\ \A j \in 1..13 :
          j <= n /\ Segment(cat, C, j) # {} /\ Present(cat, C, j) <= limit => Meets(s, Segment(cat, C, j))}

LEMMA OfferedProducts ==
  ASSUME NEW cat, NEW C, IsFiniteSet(C), NEW s, NEW n \in Nat \ {0}
  PROVE  LET offered == Proposing!Offered(cat, C, s, n)
         IN  /\ offered \in SUBSET C
             /\ \A p \in offered : ~ \E i \in DOMAIN s : s[i] = p
             /\ \A p \in C : p \in offered \/ (\E i \in DOMAIN s : s[i] = p)
                             \/ n <= 13 * Cardinality(C)
             /\ n <= 13 /\ n <= 13 * Cardinality(C) =>
                  /\ offered \in SUBSET Segment(cat, C, n)
                  /\ \A p \in Segment(cat, C, n) : p \in offered \/ \E i \in DOMAIN s : s[i] = p
<1> DEFINE offered == Proposing!Offered(cat, C, s, n)
           R == Proposing!Range(s)
           c == Cardinality(C)
<1>1. \A p : p \in R <=> \E i \in DOMAIN s : s[i] = p BY DEF Proposing!Range
<1>0. c \in Nat BY FS_CardinalityType
<1>2. Proposing!SegmentLooks(C) = 13 * c
  BY SegmentKeys, ProposingCounts DEF Proposing!SegmentLooks
<1> HIDE DEF R, c
<1>3. offered = {p \in C \ R : n <= 13 * c =>
                   Proposing!ordered_keys[((n - 1) % 13) + 1] \in Proposing!_segment_keys(cat[p])}
  BY <1>2, SegmentKeys DEF Proposing!Offered, R
<1>4. n <= 13 => ((n - 1) % 13) + 1 = n OBVIOUS
<1> HIDE DEF offered
<1>5. offered \in SUBSET C /\ \A p \in offered : p \notin R BY <1>3
<1>6. n <= 13 /\ n <= 13 * c => 
        /\ offered \in SUBSET Segment(cat, C, n)
        /\ \A p \in Segment(cat, C, n) : p \in offered \/ p \in R
  BY <1>3, <1>4 DEF Segment
<1>7. ~(n <= 13 * c) => \A p \in C : p \in offered \/ p \in R BY <1>3
<1>8. \A p \in C : p \in offered \/ p \in R \/ n <= 13 * c BY <1>7
<1> QED BY <1>1, <1>5, <1>6, <1>8 DEF offered, c

LEMMA LookedNext ==
  ASSUME NEW cat, NEW C \in SUBSET Nat, IsFiniteSet(C), NEW limit \in Nat, NEW m \in Nat,
         NEW s \in Looked(cat, C, limit, m)
  PROVE  Proposing!SelectNext(cat, C, limit, s, m + 1) \in Looked(cat, C, limit, m + 1)
<1> DEFINE n == m + 1
           l == Len(s)
           b == 13 * Cardinality(C)
           offered == Proposing!Offered(cat, C, s, n)
           p == Proposing!Min(offered)
           t == Append(s, p)
           Pr(j) == Present(cat, C, j)
           Seg(j) == Segment(cat, C, j)
<1>1. b \in Nat /\ (C # {} => b >= 13)
  <2>1. Cardinality(C) \in Nat /\ (C # {} => Cardinality(C) # 0)
    BY FS_CardinalityType, FS_EmptySet
  <2> QED BY <2>1
<1>2. s \in Seq(C) /\ l \in Nat /\ l <= limit /\ Distinct(s) /\ DOMAIN s = 1..l
  BY LenProperties DEF Looked
<1>3. m > b => l = limit \/ Holds(s, C) \/ l >= m - b BY DEF Looked
<1>4. m <= 13 => l <= Pr(m) BY DEF Looked
<1>5. \A j \in 1..13 : j <= m /\ Seg(j) # {} /\ Pr(j) <= limit => Meets(s, Seg(j)) BY DEF Looked
<1>6. n \in Nat \ {0} /\ n - 1 = m /\ n > m OBVIOUS
<1> HIDE DEF n
<1>7. offered \in SUBSET C /\ \A q \in offered : ~ \E i \in 1..l : s[i] = q
  BY <1>2, <1>6, OfferedProducts
<1>8. n > b => \A q \in C : q \in offered \/ \E i \in 1..l : s[i] = q
  <2>1. \A q \in C : q \in offered \/ (\E i \in DOMAIN s : s[i] = q) \/ n <= b
    BY <1>6, OfferedProducts
  <2>2. n > b => ~(n <= b) BY <1>1, <1>6
  <2> HIDE DEF offered, b, l
  <2> QED BY <1>2, <2>1, <2>2
<1>9. n <= 13 /\ n <= b =>
        /\ offered \in SUBSET Seg(n)
        /\ \A q \in Seg(n) : q \in offered \/ \E i \in 1..l : s[i] = q
  <2>1. n <= 13 /\ n <= 13 * Cardinality(C) =>
          /\ offered \in SUBSET Segment(cat, C, n)
          /\ \A q \in Segment(cat, C, n) : q \in offered \/ \E i \in DOMAIN s : s[i] = q
    <3> SUFFICES ASSUME n <= 13, n <= 13 * Cardinality(C)
                 PROVE  /\ offered \in SUBSET Segment(cat, C, n)
                        /\ \A q \in Segment(cat, C, n) : q \in offered \/ \E i \in DOMAIN s : s[i] = q
      OBVIOUS
    <3>1. n \in Nat \ {0} BY <1>6
    <3> QED BY <3>1, OfferedProducts
  <2> HIDE DEF offered, l
  <2> QED BY <1>2, <2>1
<1>10. Pr(n) \in Nat /\ Pr(m) \in Nat BY <1>6, PresentGrows
<1>11. Seg(n) # {} => Pr(n) = Pr(m) + 1 BY <1>6, PresentGrows
<1>12. Seg(n) = {} => Pr(n) = Pr(m) + 0 BY <1>6, PresentGrows
<1>13. Seg(n) # {} /\ n <= 13 => n <= b
  <2>1. Seg(n) # {} => C # {} BY DEF Segment
  <2> HIDE DEF b, Seg
  <2> QED BY <1>1, <1>6, <2>1
<1>14. offered # {} => p \in offered
  <2>1. offered \in SUBSET Nat BY <1>7
  <2> HIDE DEF offered
  <2> QED BY <2>1, LeastIsIn
<1>15. \A j \in 1..13 : j <= n => j <= m \/ j = n BY <1>6
<1>16. Proposing!SelectNext(cat, C, limit, s, n) = IF offered = {} \/ l >= limit THEN s ELSE t
  BY DEF Proposing!SelectNext
<1> HIDE DEF l, b, offered, p, Pr, Seg
<1>17. CASE offered = {} \/ l >= limit
  <2>1. n > b => l = limit \/ Holds(s, C)
    <3>1. l >= limit => l = limit BY <1>2
    <3>2. n > b /\ offered = {} => Holds(s, C) BY <1>8 DEF Holds, l
    <3> QED BY <1>17, <3>1, <3>2
  <2>2. n <= 13 => l <= Pr(n)
    <3>1. n <= 13 => l <= Pr(m) BY <1>4, <1>6
    <3>2. Pr(m) <= Pr(n) BY <1>10, <1>11, <1>12
    <3> QED BY <1>2, <1>10, <3>1, <3>2
  <2>3. ASSUME NEW j \in 1..13, j <= n, Seg(j) # {}, Pr(j) <= limit PROVE Meets(s, Seg(j))
    <3>1. CASE j <= m BY <1>5, <2>3, <3>1
    <3>2. CASE j = n
      <4>1. n <= 13 /\ m <= 13 BY <1>6, <3>2
      <4>2. n <= b BY <1>13, <2>3, <3>2, <4>1
      <4>3. ~(l >= limit) BY <1>2, <1>4, <1>10, <1>11, <2>3, <3>2, <4>1
      <4>4. offered = {} BY <1>17, <4>3
      <4>5. PICK q \in Seg(n) : TRUE BY <2>3, <3>2
      <4>6. \E i \in 1..l : s[i] = q BY <1>9, <4>1, <4>2, <4>4
      <4> QED BY <3>2, <4>6 DEF Meets, l
    <3> QED BY <1>15, <2>3, <3>1, <3>2
  <2>4. s \in Looked(cat, C, limit, n)
    <3>1. n > b => l = limit \/ Holds(s, C) \/ l >= n - b BY <2>1
    <3> QED BY <1>2, <2>2, <2>3, <3>1 DEF Looked, b, l, Pr, Seg
  <2> QED BY <1>16, <1>17, <2>4 DEF n
<1>18. CASE offered # {} /\ ~(l >= limit)
  <2>1. p \in offered /\ p \in C BY <1>7, <1>14, <1>18
  <2>2. t \in Seq(C) /\ Len(t) = l + 1 /\ t[l + 1] = p /\ \A i \in 1..l : t[i] = s[i]
    BY <1>2, <2>1, AppendProperties DEF l
  <2> HIDE DEF t
  <2>3. l + 1 \in Nat /\ l + 1 <= limit /\ 1..l \subseteq 1..(l + 1) /\ l + 1 \in 1..(l + 1)
    BY <1>2, <1>18
  <2>4. \A i \in 1..(l + 1) : i \in 1..l \/ i = l + 1 BY <1>2
  <2>5. Distinct(t)
    <3>1. \A i \in 1..l : s[i] # p BY <1>7, <2>1
    <3>2. \A i, j \in 1..l : s[i] = s[j] => i = j BY <1>2 DEF Distinct, l
    <3>3. \A i, j \in 1..(l + 1) : t[i] = t[j] => i = j BY <2>2, <2>4, <3>1, <3>2
    <3> QED BY <2>2, <3>3 DEF Distinct
  <2>6. n > b => l + 1 >= n - b
    <3>1. ~Holds(s, C) BY <1>7, <2>1 DEF Holds, l
    <3>2. l # limit BY <1>2, <1>18
    <3>3. m > b => l >= m - b BY <1>3, <3>1, <3>2
    <3> QED BY <1>1, <1>2, <1>6, <3>3
  <2>7. n <= 13 => l + 1 <= Pr(n)
    <3> SUFFICES ASSUME n <= 13 PROVE l + 1 <= Pr(n) OBVIOUS
    <3>1. n <= b BY <1>1, <1>6, <2>1
    <3>2. Seg(n) # {} BY <1>9, <2>1, <3>1
    <3>3. l <= Pr(m) BY <1>4, <1>6
    <3> QED BY <1>2, <1>10, <1>11, <3>2, <3>3
  <2>8. ASSUME NEW S, Meets(s, S) PROVE Meets(t, S)
    <3>1. PICK i \in 1..l : s[i] \in S BY <2>8 DEF Meets, l
    <3>2. i \in 1..(l + 1) /\ t[i] \in S BY <2>2, <2>3, <3>1
    <3> QED BY <2>2, <3>2 DEF Meets
  <2>9. ASSUME NEW j \in 1..13, j <= n, Seg(j) # {}, Pr(j) <= limit PROVE Meets(t, Seg(j))
    <3>1. CASE j <= m BY <1>5, <2>8, <2>9, <3>1
    <3>2. CASE j = n
      <4>1. n <= 13 /\ n <= b BY <1>6, <1>13, <2>9, <3>2
      <4>2. p \in Seg(n) BY <1>9, <2>1, <4>1
      <4> QED BY <2>2, <2>3, <3>2, <4>2 DEF Meets
    <3> QED BY <1>15, <2>9, <3>1, <3>2
  <2>10. t \in Looked(cat, C, limit, n)
    BY <2>2, <2>3, <2>5, <2>6, <2>7, <2>9 DEF Looked, b, Pr, Seg
  <2> QED BY <1>16, <1>18, <2>10 DEF n
<1> QED BY <1>17, <1>18

LEMMA LookedFirst ==
  ASSUME NEW cat, NEW C, IsFiniteSet(C), NEW limit \in Nat
  PROVE  <<>> \in Looked(cat, C, limit, 0)
<1>1. <<>> \in Seq(C) /\ Len(<<>>) = 0 BY EmptySeq
<1>2. Cardinality(C) \in Nat BY FS_CardinalityType
<1>3. ~(0 > 13 * Cardinality(C)) BY <1>2
<1>4. Present(cat, C, 0) \in Nat
  <2>1. 1 \in Nat \ {0} /\ 1 - 1 = 0 OBVIOUS
  <2> QED BY <2>1, PresentGrows
<1>5. \A j \in 1..13 : ~(j <= 0) OBVIOUS
<1>6. Distinct(<<>>) BY <1>1 DEF Distinct
<1> QED BY <1>1, <1>3, <1>4, <1>5, <1>6 DEF Looked

(* A selection is full or has every candidate, and it has one of each of the   *)
(* first segments that have any.                                               *)
Selection(cat, C, limit, s) ==
  /\ s \in Seq(C) /\ Len(s) <= limit
  /\ Len(s) = limit \/ Holds(s, C)
  /\ \A j \in 1..13 :
       Segment(cat, C, j) # {} /\ Present(cat, C, j) <= limit => Meets(s, Segment(cat, C, j))

LEMMA LookedLast ==
  ASSUME NEW cat, NEW C, IsFiniteSet(C), NEW limit \in Nat,
         NEW s \in Looked(cat, C, limit, 13 * Cardinality(C) + Cardinality(C))
  PROVE  Selection(cat, C, limit, s)
<1> DEFINE c == Cardinality(C)
           k == 13 * c + c
           l == Len(s)
<1>1. c \in Nat /\ (c = 0 => C = {}) BY FS_CardinalityType, FS_EmptySet
<1>2. s \in Seq(C) /\ l \in Nat /\ l <= limit /\ Distinct(s) /\ s \in [1..l -> C]
  BY LenProperties DEF Looked
<1>3. k > 13 * c => l = limit \/ Holds(s, C) \/ l >= k - 13 * c BY DEF Looked
<1>4. \A j \in 1..13 :
        j <= k /\ Segment(cat, C, j) # {} /\ Present(cat, C, j) <= limit => Meets(s, Segment(cat, C, j))
  BY DEF Looked
<1>5. C # {} => k >= 13 /\ k > 13 * c /\ k - 13 * c = c
  <2>1. C # {} => c >= 1 BY <1>1
  <2> HIDE DEF c
  <2>2. c >= 1 => k >= 13 /\ k > 13 * c /\ k - 13 * c = c BY <1>1
  <2> QED BY <2>1, <2>2
<1> HIDE DEF c, k, l
<1>6. l = limit \/ Holds(s, C)
  <2>1. CASE C = {} BY <2>1 DEF Holds
  <2>2. CASE C # {} /\ l >= c
    <3>1. s \in Injection(1..l, C) BY <1>2 DEF Injection, IsInjective, Distinct, l
    <3>2. IsFiniteSet(1..l) /\ Cardinality(1..l) = l
      <4>1. (1 > l => l = 0) /\ l - 1 + 1 = l BY <1>2
      <4> HIDE DEF l
      <4> QED BY <1>2, <4>1, FS_Interval
    <3>3. l <= c BY <3>1, <3>2, FS_Injection DEF c
    <3>4. l = c
      <4>1. l \in Nat /\ c \in Nat BY <1>1, <1>2
      <4> QED BY <2>2, <3>3, <4>1
    <3>5. s \in Surjection(1..l, C) BY <3>1, <3>2, <3>4, FS_Injection DEF c
    <3> QED BY <3>5 DEF Surjection, Holds, l
  <2> QED BY <1>3, <1>5, <2>1, <2>2
<1>7. \A j \in 1..13 : Segment(cat, C, j) # {} => j <= k
  <2>1. \A j : Segment(cat, C, j) # {} => C # {} BY DEF Segment
  <2>2. C # {} => \A j \in 1..13 : j <= k
    <3>1. k \in Nat BY <1>1 DEF k
    <3> QED BY <1>5, <3>1
  <2> QED BY <2>1, <2>2
<1> QED BY <1>2, <1>4, <1>6, <1>7 DEF Selection, l

LEMMA ProductsAreSelected ==
  ASSUME NEW cat, NEW C \in SUBSET Listings, NEW limit \in Nat
  PROVE  Selection(cat, C, limit, Proposing!_select_products(cat, C, limit))
<1> DEFINE c == Cardinality(C)
           K == 13 * c + c
           I == [n \in 0..K |-> Looked(cat, C, limit, n)]
           Step(n, s) == Proposing!SelectNext(cat, C, limit, s, n)
           G == [n \in 1..K |-> [s \in I[n - 1] |-> Step(n, s)]]
           Eq(f) == f = [n \in 0..K |-> IF n = 0 THEN <<>> ELSE Step(n, f[n - 1])]
<1>0. C \in SUBSET Nat /\ IsFiniteSet(C)
  BY ProposalsAssumption, FS_Subset
<1>1. K \in Nat
  <2>1. c \in Nat BY <1>0, FS_CardinalityType
  <2> QED BY <2>1
<1>2. Proposing!Looks(C) = K
  BY SegmentKeys, ProposingCounts DEF Proposing!Looks, Proposing!SegmentLooks
<1> HIDE DEF K
<1>3. <<>> \in I[0]
  <2>1. 0 \in 0..K BY <1>1
  <2>2. <<>> \in Looked(cat, C, limit, 0) BY <1>0, LookedFirst
  <2> QED BY <2>1, <2>2
<1>4. ASSUME NEW n \in 1..K, NEW s \in I[n - 1] PROVE Step(n, s) \in I[n] /\ G[n][s] = Step(n, s)
  <2>1. n \in 0..K /\ n - 1 \in 0..K /\ n - 1 \in Nat /\ (n - 1) + 1 = n BY <1>1
  <2>2. s \in Looked(cat, C, limit, n - 1) BY <2>1
  <2>3. Step((n - 1) + 1, s) \in Looked(cat, C, limit, (n - 1) + 1) BY <1>0, <2>1, <2>2, LookedNext
  <2>4. Step(n, s) \in Looked(cat, C, limit, n) BY <2>1, <2>3
  <2> QED BY <2>1, <2>4
<1> HIDE DEF Step, G, I
<1>5. PICK f : Iterates(f, G, I, K, <<>>)
  <2>1. Leads(G, I, K) BY <1>4 DEF Leads
  <2> QED BY <1>1, <1>3, <2>1, Iteration
<1>6. Eq(f)
  <2>1. \A n \in 0..K : f[n] = IF n = 0 THEN <<>> ELSE Step(n, f[n - 1])
    <3> SUFFICES ASSUME NEW n \in 0..K, n # 0 PROVE f[n] = Step(n, f[n - 1])
      BY <1>5 DEF Iterates
    <3>1. n \in 1..K /\ n - 1 \in 0..K BY <1>1
    <3>2. f[n] = G[n][f[n - 1]] /\ f[n - 1] \in I[n - 1] BY <1>5, <3>1 DEF Iterates
    <3> QED BY <1>4, <3>1, <3>2
  <2>2. f = [n \in 0..K |-> f[n]] BY <1>5 DEF Iterates
  <2> QED BY <2>1, <2>2
<1> DEFINE picked == CHOOSE g : Eq(g)
<1>7. Eq(picked) BY <1>6
<1>8. Proposing!_select_products(cat, C, limit) = picked[K]
  BY <1>2 DEF Proposing!_select_products, Step
<1> HIDE DEF picked
<1> DEFINE T == {n \in Nat : n <= K => picked[n] \in I[n]}
<1>9. 0 \in T
  <2>1. picked[0] = <<>> BY <1>1, <1>7
  <2> QED BY <1>3, <2>1
<1>10. ASSUME NEW n \in Nat, n \in T PROVE n + 1 \in T
  <2> SUFFICES ASSUME n + 1 <= K PROVE picked[n + 1] \in I[n + 1] OBVIOUS
  <2>1. n + 1 \in 1..K /\ (n + 1) - 1 = n /\ n <= K BY <1>1
  <2>2. picked[n] \in I[n] BY <1>10, <2>1
  <2>3. picked[n + 1] = Step(n + 1, picked[n]) BY <1>7, <2>1
  <2> QED BY <1>4, <2>1, <2>2, <2>3
<1> HIDE DEF T
<1>11. K \in T BY <1>1, <1>9, <1>10, SetInduction
<1>12. picked[K] \in Looked(cat, C, limit, K)
  <2>1. K \in 0..K BY <1>1
  <2> QED BY <1>1, <1>11, <2>1 DEF T, I
<1> QED BY <1>0, <1>8, <1>12, LookedLast DEF K

(* Ranking: an angle none is better than can always be taken.                  *)
LEMMA AnglesAreFew ==
  ASSUME NEW f
  PROVE  IsFiniteSet(Proposing!_angle_candidates(f))
<1> DEFINE A == {"editorial-product-pick"}
           B == IF "luxury" \in f.labels THEN {"luxury-product-spotlight"} ELSE {}
           C == IF "new" \in f.labels THEN {"new-arrival"} ELSE {}
           D == IF f.category = "fragrance" THEN {f.audience, f.class} \ {"none"} ELSE {}
           E == IF "gift" \in f.labels THEN {"gift-set"} ELSE {}
           F == IF f.category \in {"home_fragrance", "beauty"} THEN {f.category} ELSE {}
           G == IF f.price = "low" THEN {"price-focused"} ELSE {}
<1>1. \A x : IsFiniteSet({x}) BY FS_Singleton
<1>2. IsFiniteSet({}) BY FS_EmptySet
<1>3. \A S, T : IsFiniteSet(S) /\ IsFiniteSet(T) => IsFiniteSet(S \cup T) BY FS_Union
<1>4. IsFiniteSet(A) /\ IsFiniteSet(B) /\ IsFiniteSet(C) /\ IsFiniteSet(E) /\ IsFiniteSet(F) /\ IsFiniteSet(G)
  BY <1>1, <1>2
<1>5. IsFiniteSet(D)
  <2>1. {f.audience, f.class} = {f.audience} \cup {f.class} OBVIOUS
  <2>2. IsFiniteSet({f.audience, f.class})
    <3>1. IsFiniteSet({f.audience}) /\ IsFiniteSet({f.class}) BY <1>1
    <3>2. IsFiniteSet({f.audience} \cup {f.class}) BY <3>1, FS_Union
    <3> QED BY <2>1, <3>2
  <2>3. D \in SUBSET {f.audience, f.class} OBVIOUS
  <2> HIDE DEF D
  <2> QED BY <2>2, <2>3, FS_Subset
<1>6. Proposing!_angle_candidates(f) = A \cup B \cup C \cup D \cup E \cup F \cup G
  BY DEF Proposing!_angle_candidates
<1> HIDE DEF A, B, C, D, E, F, G
<1>7. IsFiniteSet(A \cup B \cup C \cup D) BY <1>3, <1>4, <1>5
<1> QED BY <1>3, <1>4, <1>6, <1>7

LEMMA ScoresAreNumbers ==
  ASSUME NEW a
  PROVE  Proposing!BaseScore(a) \in 15..99
BY DEF Proposing!BaseScore

LEMMA SomeAngleIsBest ==
  ASSUME NEW X, NEW ranked \in Seq(X), NEW S, S # {}
  PROVE  \E a \in S : \A b \in S : ~Proposing!Better(ranked, b, a)
<1> DEFINE base(a) == Proposing!BaseScore(a)
           less(a) == Proposing!Penalty(Proposing!Usage(ranked, a))
           cost(a) == 200 * (99 - base(a) + less(a)) + (99 - base(a))
           T == {cost(a) : a \in S}
<1>1. \A a : base(a) \in 15..99 BY ScoresAreNumbers
<1>2. \A a : less(a) \in 0..30
  <2> SUFFICES ASSUME NEW a PROVE less(a) \in 0..30 OBVIOUS
  <2> DEFINE U == {p \in DOMAIN ranked : a \in ranked[p]}
  <2>1. DOMAIN ranked = 1..Len(ranked) /\ Len(ranked) \in Nat BY LenProperties
  <2>2. IsFiniteSet(1..Len(ranked)) BY <2>1, FS_Interval
  <2>3. U \in SUBSET (1..Len(ranked)) BY <2>1
  <2> HIDE DEF U
  <2>4. Cardinality(U) \in Nat BY <2>2, <2>3, FS_Subset, FS_CardinalityType
  <2>5. Proposing!Usage(ranked, a) = Cardinality(U) BY ProposingCounts DEF Proposing!Usage, U
  <2> DEFINE u == Proposing!Usage(ranked, a)
  <2>6. u \in Nat BY <2>4, <2>5
  <2>7. less(a) = IF u * 6 > 30 THEN 30 ELSE u * 6 BY DEF Proposing!Penalty
  <2> HIDE DEF u, less
  <2> QED BY <2>6, <2>7
<1>3. \A a, b : Proposing!Better(ranked, b, a) <=>
        \/ base(b) - less(b) > base(a) - less(a)
        \/ base(b) - less(b) = base(a) - less(a) /\ base(b) > base(a)
  BY DEF Proposing!Better
<1> HIDE DEF base, less
<1>4. ASSUME NEW a PROVE cost(a) \in Nat
  <2> DEFINE x == base(a)
             y == less(a)
  <2>1. x \in 15..99 /\ y \in 0..30 BY <1>1, <1>2
  <2>2. cost(a) = 200 * (99 - x + y) + (99 - x) OBVIOUS
  <2> HIDE DEF x, y, cost
  <2> QED BY <2>1, <2>2
<1>5. PICK c \in T : \A d \in T : c <= d
  <2>1. T \in SUBSET Nat /\ T # {} BY <1>4
  <2> HIDE DEF T
  <2> QED BY <2>1, LeastNumber
<1>6. PICK a \in S : c = cost(a) OBVIOUS
<1>7. ASSUME NEW b \in S PROVE ~Proposing!Better(ranked, b, a)
  <2>1. cost(a) <= cost(b) BY <1>5, <1>6
  <2>2. base(a) \in 15..99 /\ base(b) \in 15..99 /\ less(a) \in 0..30 /\ less(b) \in 0..30
    BY <1>1, <1>2
  <2>3. ~(\/ base(b) - less(b) > base(a) - less(a)
          \/ base(b) - less(b) = base(a) - less(a) /\ base(b) > base(a))
    <3> DEFINE x == base(a)
               y == less(a)
               z == base(b)
               u == less(b)
    <3>1. 200 * (99 - x + y) + (99 - x) <= 200 * (99 - z + u) + (99 - z) BY <2>1
    <3>2. x \in 15..99 /\ z \in 15..99 /\ y \in 0..30 /\ u \in 0..30 BY <2>2
    <3> HIDE DEF x, y, z, u
    <3>3. 200 * (99 - x + y) + (99 - x) = 19899 - 201 * x + 200 * y
          /\ 200 * (99 - z + u) + (99 - z) = 19899 - 201 * z + 200 * u
      BY <3>2
    <3>4. 201 * z - 200 * u <= 201 * x - 200 * y BY <3>1, <3>2, <3>3
    <3>5. ~(z - u > x - y) BY <3>2, <3>4
    <3>6. z - u = x - y => ~(z > x) BY <3>2, <3>4
    <3>7. ~(z - u > x - y \/ (z - u = x - y /\ z > x)) BY <3>5, <3>6
    <3> QED BY <3>7 DEF x, y, z, u
  <2> QED BY <1>3, <2>3
<1> QED BY <1>7

Intents(S) == {Proposing!_angle_intent_group(a) : a \in S}
Supported(f) == Cardinality(Intents(Proposing!_angle_candidates(f)))

LEMMA IntentsAreFew ==
  ASSUME NEW S, IsFiniteSet(S)
  PROVE  IsFiniteSet(Intents(S))
<1> DEFINE f == [a \in S |-> Proposing!_angle_intent_group(a)]
<1>1. f \in [S -> Intents(S)] BY DEF Intents
<1>2. \A t \in Intents(S) : \E a \in S : f[a] = t BY DEF Intents
<1> HIDE DEF f
<1>3. f \in Surjection(S, Intents(S)) BY <1>1, <1>2 DEF Surjection
<1> QED BY <1>3, FS_Surjection

(* What has been taken for a product after n times.                            *)
Taken(f, n) ==
  {S \in SUBSET Proposing!_angle_candidates(f) :
     /\ Cardinality(Intents(S)) = Cardinality(S)
     /\ Cardinality(S) = IF Supported(f) < n THEN Supported(f) ELSE n}

LEMMA TakenNext ==
  ASSUME NEW f, NEW X, NEW ranked \in Seq(X), NEW n \in Nat, NEW S \in Taken(f, n)
  PROVE  Proposing!TakeNext(f, ranked, S) \in Taken(f, n + 1)
<1> DEFINE A == Proposing!_angle_candidates(f)
           group(a) == Proposing!_angle_intent_group(a)
           open == {a \in A : \A t \in S : group(t) # group(a)}
           best == CHOOSE a \in open : \A b \in open : ~Proposing!Better(ranked, b, a)
           k == Cardinality(S)
           g == Supported(f)
<1>1. IsFiniteSet(A) /\ S \in SUBSET A BY AnglesAreFew DEF Taken
<1> HIDE DEF A
<1>2. /\ IsFiniteSet(S) /\ IsFiniteSet(Intents(S)) /\ IsFiniteSet(Intents(A)) /\ k \in Nat /\ g \in Nat
  <2>1. IsFiniteSet(S) BY <1>1, FS_Subset
  <2>2. IsFiniteSet(Intents(S)) /\ IsFiniteSet(Intents(A)) BY <1>1, <2>1, IntentsAreFew
  <2>3. k \in Nat BY <2>1, FS_CardinalityType
  <2>4. g \in Nat BY <2>2, FS_CardinalityType DEF Supported, A
  <2> QED BY <2>1, <2>2, <2>3, <2>4
<1>3. Cardinality(Intents(S)) = k /\ k = IF g < n THEN g ELSE n BY DEF Taken
<1>4. Intents(S) \in SUBSET Intents(A) BY <1>1 DEF Intents
<1>5. Proposing!TakeNext(f, ranked, S) = IF open = {} THEN S ELSE S \cup {best}
  BY DEF Proposing!TakeNext, Proposing!TakeBest, A
<1>6. CASE open = {}
  <2>1. Intents(A) \in SUBSET Intents(S) BY <1>6 DEF Intents
  <2>2. Intents(A) = Intents(S) BY <1>4, <2>1
  <2>3. g = k BY <1>3, <2>2 DEF Supported, A
  <2>4. k = IF g < n + 1 THEN g ELSE n + 1 BY <1>2, <1>3, <2>3
  <2> QED BY <1>1, <1>3, <1>5, <1>6, <2>4 DEF Taken, A
<1>7. CASE open # {}
  <2> DEFINE T == S \cup {best}
  <2>1. best \in open
    <3> HIDE DEF open
    <3>1. \E a \in open : \A b \in open : ~Proposing!Better(ranked, b, a) BY <1>7, SomeAngleIsBest
    <3> QED BY <3>1
  <2> HIDE DEF best
  <2>2. best \in A /\ best \notin S /\ group(best) \notin Intents(S)
    BY <2>1 DEF Intents
  <2>3. Cardinality(T) = k + 1 BY <1>2, <2>2, FS_AddElement
  <2>4. Intents(T) = Intents(S) \cup {group(best)} BY DEF Intents
  <2>5. Cardinality(Intents(T)) = k + 1 BY <1>2, <1>3, <2>2, <2>4, FS_AddElement
  <2>6. T \in SUBSET A BY <1>1, <2>2
  <2>7. Intents(T) \in SUBSET Intents(A) BY <2>6 DEF Intents
  <2>8. k + 1 <= g
    <3> HIDE DEF T, g, k
    <3>1. Cardinality(Intents(T)) <= Cardinality(Intents(A)) BY <1>2, <2>7, FS_Subset
    <3> QED BY <2>5, <3>1 DEF g, Supported, A
  <2>9. k + 1 = IF g < n + 1 THEN g ELSE n + 1
    <3> HIDE DEF k, g
    <3> QED BY <1>2, <1>3, <2>8
  <2>10. T \in Taken(f, n + 1)
    <3> HIDE DEF T, k, g
    <3> QED BY <2>3, <2>5, <2>6, <2>9 DEF Taken, A, g
  <2> QED BY <1>5, <1>7, <2>10
<1> QED BY <1>6, <1>7

LEMMA AnglesAreTaken ==
  ASSUME NEW f, NEW X, NEW ranked \in Seq(X)
  PROVE  Proposing!_rank_angles(f, ranked) \in Taken(f, PerProduct)
<1> DEFINE N == PerProduct
           I == [n \in 0..N |-> Taken(f, n)]
           Step(t) == Proposing!TakeNext(f, ranked, t)
           G == [n \in 1..N |-> [t \in I[n - 1] |-> Step(t)]]
           Eq(g) == g = [n \in 0..N |-> IF n = 0 THEN {} ELSE Step(g[n - 1])]
<1>0. N \in Nat BY ProposalsAssumption
<1>1. {} \in Taken(f, 0)
  <2>1. Cardinality({}) = 0 BY FS_EmptySet
  <2>2. Intents({}) = {} BY DEF Intents
  <2>3. Supported(f) \in Nat BY AnglesAreFew, IntentsAreFew, FS_CardinalityType DEF Supported
  <2>4. 0 = IF Supported(f) < 0 THEN Supported(f) ELSE 0 BY <2>3
  <2> QED BY <2>1, <2>2, <2>4 DEF Taken
<1> HIDE DEF N
<1>2. {} \in I[0]
  <2>1. 0 \in 0..N BY <1>0
  <2> QED BY <1>1, <2>1
<1>3. ASSUME NEW n \in 1..N, NEW t \in I[n - 1] PROVE Step(t) \in I[n] /\ G[n][t] = Step(t)
  <2>1. n \in 0..N /\ n - 1 \in 0..N /\ n - 1 \in Nat /\ (n - 1) + 1 = n BY <1>0
  <2>2. t \in Taken(f, n - 1) BY <2>1
  <2>3. Step(t) \in Taken(f, (n - 1) + 1) BY <2>1, <2>2, TakenNext
  <2>4. Step(t) \in Taken(f, n) BY <2>1, <2>3
  <2> QED BY <2>1, <2>4
<1> HIDE DEF Step, G, I
<1>4. PICK g : Iterates(g, G, I, N, {})
  <2>1. Leads(G, I, N) BY <1>3 DEF Leads
  <2> QED BY <1>0, <1>2, <2>1, Iteration
<1>5. Eq(g)
  <2>1. \A n \in 0..N : g[n] = IF n = 0 THEN {} ELSE Step(g[n - 1])
    <3> SUFFICES ASSUME NEW n \in 0..N, n # 0 PROVE g[n] = Step(g[n - 1])
      BY <1>4 DEF Iterates
    <3>1. n \in 1..N /\ n - 1 \in 0..N BY <1>0
    <3>2. g[n] = G[n][g[n - 1]] /\ g[n - 1] \in I[n - 1] BY <1>4, <3>1 DEF Iterates
    <3> QED BY <1>3, <3>1, <3>2
  <2>2. g = [n \in 0..N |-> g[n]] BY <1>4 DEF Iterates
  <2> QED BY <2>1, <2>2
<1> DEFINE take == CHOOSE h : Eq(h)
<1>6. Eq(take) BY <1>5
<1>7. Proposing!_rank_angles(f, ranked) = take[N]
  BY DEF Proposing!_rank_angles, Step, N
<1> HIDE DEF take
<1> DEFINE T == {n \in Nat : n <= N => take[n] \in I[n]}
<1>8. 0 \in T
  <2>1. take[0] = {} BY <1>0, <1>6
  <2> QED BY <1>2, <2>1
<1>9. ASSUME NEW n \in Nat, n \in T PROVE n + 1 \in T
  <2> SUFFICES ASSUME n + 1 <= N PROVE take[n + 1] \in I[n + 1] OBVIOUS
  <2>1. n + 1 \in 1..N /\ (n + 1) - 1 = n /\ n <= N BY <1>0
  <2>2. take[n] \in I[n] BY <1>9, <2>1
  <2>3. \A i \in 0..N : take[i] = IF i = 0 THEN {} ELSE Step(take[i - 1]) BY <1>6
  <2>4. n + 1 \in 0..N /\ n + 1 # 0 BY <2>1
  <2>5. take[n + 1] = Step(take[(n + 1) - 1]) BY <2>3, <2>4
  <2>6. take[n + 1] = Step(take[n]) BY <2>1, <2>5
  <2> QED BY <1>3, <2>1, <2>2, <2>6
<1> HIDE DEF T
<1>10. N \in T BY <1>0, <1>8, <1>9, SetInduction
<1>11. take[N] \in Taken(f, N)
  <2>1. N \in 0..N /\ N <= N BY <1>0
  <2> QED BY <1>10, <2>1 DEF T, I
<1> QED BY <1>7, <1>11 DEF N

(* The sets of angles of the first n products.                                 *)
AnySets(cat, selected) ==
  UNION {SUBSET Proposing!_angle_candidates(cat[selected[i]]) : i \in 1..Len(selected)}
Ranked(cat, selected, n) ==
  {r \in Seq(AnySets(cat, selected)) :
     Len(r) = n /\ \A i \in 1..n : r[i] \in Taken(cat[selected[i]], PerProduct)}

LEMMA ProductsAreRanked ==
  ASSUME NEW cat, NEW C, NEW selected \in Seq(C)
  PROVE  Proposing!_rank_batch(cat, selected) \in Ranked(cat, selected, Len(selected))
<1> DEFINE N == Len(selected)
           I == [n \in 0..N |-> Ranked(cat, selected, n)]
           Step(n, r) == Proposing!RankNext(r, cat[selected[n]])
           G == [n \in 1..N |-> [r \in I[n - 1] |-> Step(n, r)]]
           Eq(g) == g = [n \in 0..N |-> IF n = 0 THEN <<>> ELSE Step(n, g[n - 1])]
<1>0. N \in Nat BY LenProperties
<1>1. <<>> \in Ranked(cat, selected, 0)
  <2>1. <<>> \in Seq(AnySets(cat, selected)) /\ Len(<<>>) = 0 BY EmptySeq
  <2>2. 1..0 = {} OBVIOUS
  <2> QED BY <2>1, <2>2 DEF Ranked
<1> HIDE DEF N
<1>2. <<>> \in I[0]
  <2>1. 0 \in 0..N BY <1>0
  <2> QED BY <1>1, <2>1
<1>3. ASSUME NEW n \in 1..N, NEW r \in I[n - 1] PROVE Step(n, r) \in I[n] /\ G[n][r] = Step(n, r)
  <2> DEFINE f == cat[selected[n]]
             a == Proposing!_rank_angles(f, r)
  <2>1. n \in 0..N /\ n - 1 \in 0..N /\ n - 1 \in Nat /\ (n - 1) + 1 = n BY <1>0
  <2>2. r \in Ranked(cat, selected, n - 1) BY <2>1
  <2>3. r \in Seq(AnySets(cat, selected)) /\ Len(r) = n - 1 BY <2>2 DEF Ranked
  <2>4. \A i \in 1..(n - 1) : r[i] \in Taken(cat[selected[i]], PerProduct) BY <2>2 DEF Ranked
  <2> DEFINE Y == AnySets(cat, selected)
  <2>5. a \in Taken(f, PerProduct)
    <3> HIDE DEF Y, f
    <3>1. r \in Seq(Y) BY <2>3 DEF Y
    <3> QED BY <3>1, AnglesAreTaken
  <2>6. a \in Y
    <3> HIDE DEF a
    <3>1. a \in SUBSET Proposing!_angle_candidates(cat[selected[n]]) BY <2>5 DEF Taken
    <3>2. n \in 1..Len(selected) BY DEF N
    <3> QED BY <3>1, <3>2 DEF AnySets
  <2>7. Step(n, r) = Append(r, a) BY DEF Proposing!RankNext
  <2> HIDE DEF a, f, Step
  <2>8. /\ Step(n, r) \in Seq(AnySets(cat, selected)) /\ Len(Step(n, r)) = n /\ Step(n, r)[n] = a
        /\ \A i \in 1..(n - 1) : Step(n, r)[i] = r[i]
    BY <2>1, <2>3, <2>6, <2>7, AppendProperties
  <2>9. \A i \in 1..n : i \in 1..(n - 1) \/ i = n BY <1>0
  <2>10. \A i \in 1..n : Step(n, r)[i] \in Taken(cat[selected[i]], PerProduct)
    <3> SUFFICES ASSUME NEW i \in 1..n PROVE Step(n, r)[i] \in Taken(cat[selected[i]], PerProduct)
      OBVIOUS
    <3>1. CASE i \in 1..(n - 1) BY <2>4, <2>8, <3>1
    <3>2. CASE i = n BY <2>5, <2>8, <3>2 DEF f
    <3> QED BY <2>9, <3>1, <3>2
  <2>11. Step(n, r) \in Ranked(cat, selected, n) BY <2>8, <2>10 DEF Ranked
  <2> QED BY <2>1, <2>11
<1> HIDE DEF Step, G, I
<1>4. PICK g : Iterates(g, G, I, N, <<>>)
  <2>1. Leads(G, I, N) BY <1>3 DEF Leads
  <2> QED BY <1>0, <1>2, <2>1, Iteration
<1>5. Eq(g)
  <2>1. \A n \in 0..N : g[n] = IF n = 0 THEN <<>> ELSE Step(n, g[n - 1])
    <3> SUFFICES ASSUME NEW n \in 0..N, n # 0 PROVE g[n] = Step(n, g[n - 1])
      BY <1>4 DEF Iterates
    <3>1. n \in 1..N /\ n - 1 \in 0..N BY <1>0
    <3>2. g[n] = G[n][g[n - 1]] /\ g[n - 1] \in I[n - 1] BY <1>4, <3>1 DEF Iterates
    <3> QED BY <1>3, <3>1, <3>2
  <2>2. g = [n \in 0..N |-> g[n]] BY <1>4 DEF Iterates
  <2> QED BY <2>1, <2>2
<1> DEFINE rank == CHOOSE h : Eq(h)
<1>6. Eq(rank) BY <1>5
<1>7. Proposing!_rank_batch(cat, selected) = rank[N]
  BY DEF Proposing!_rank_batch, Step, N
<1> HIDE DEF rank
<1> DEFINE T == {n \in Nat : n <= N => rank[n] \in I[n]}
<1>8. 0 \in T
  <2>1. rank[0] = <<>> BY <1>0, <1>6
  <2> QED BY <1>2, <2>1
<1>9. ASSUME NEW n \in Nat, n \in T PROVE n + 1 \in T
  <2> SUFFICES ASSUME n + 1 <= N PROVE rank[n + 1] \in I[n + 1] OBVIOUS
  <2>1. n + 1 \in 1..N /\ (n + 1) - 1 = n /\ n <= N BY <1>0
  <2>2. rank[n] \in I[n] BY <1>9, <2>1
  <2>3. \A i \in 0..N : rank[i] = IF i = 0 THEN <<>> ELSE Step(i, rank[i - 1]) BY <1>6
  <2>4. n + 1 \in 0..N /\ n + 1 # 0 BY <2>1
  <2>5. rank[n + 1] = Step(n + 1, rank[(n + 1) - 1]) BY <2>3, <2>4
  <2>6. rank[n + 1] = Step(n + 1, rank[n]) BY <2>1, <2>5
  <2> QED BY <1>3, <2>1, <2>2, <2>6
<1> HIDE DEF T
<1>10. N \in T BY <1>0, <1>8, <1>9, SetInduction
<1>11. N \in 0..N BY <1>0
<1> QED BY <1>0, <1>7, <1>10, <1>11 DEF T, I, N

(* What a batch selects: first of what was never proposed, then of the rest.   *)
LEMMA BatchSelected ==
  LET fresh == Proposing!_select_products(v1, Proposing!Unused, ProductLimit)
      used  == Listings \ Proposing!Unused
      rest  == Proposing!_select_products(v1, used, ProductLimit - Len(fresh))
  IN  /\ Proposing!Selected = fresh \o rest
      /\ Selection(v1, Proposing!Unused, ProductLimit, fresh)
      /\ Selection(v1, used, ProductLimit - Len(fresh), rest)
      /\ Len(fresh) = ProductLimit => Len(rest) = 0
<1> DEFINE fresh == Proposing!_select_products(v1, Proposing!Unused, ProductLimit)
           used  == Listings \ Proposing!Unused
           room  == ProductLimit - Len(fresh)
           rest  == Proposing!_select_products(v1, used, room)
<1>1. ProductLimit \in Nat BY ProposalsAssumption
<1>2. Proposing!Unused \in SUBSET Listings BY DEF Proposing!Unused
<1>3. Selection(v1, Proposing!Unused, ProductLimit, fresh)
  BY <1>1, <1>2, ProductsAreSelected
<1>4. Proposing!Selected = fresh \o rest BY DEF Proposing!Selected
<1> HIDE DEF fresh
<1>5. room \in Nat
  <2>1. Len(fresh) \in Nat /\ Len(fresh) <= ProductLimit BY <1>3, LenProperties DEF Selection
  <2> QED BY <1>1, <2>1
<1>6. Selection(v1, used, room, rest)
  <2> HIDE DEF room
  <2>1. used \in SUBSET Listings OBVIOUS
  <2> HIDE DEF used
  <2> QED BY <1>5, <2>1, ProductsAreSelected
<1> HIDE DEF rest
<1>7. Len(fresh) = ProductLimit => Len(rest) = 0
  <2>1. Len(rest) \in Nat /\ Len(rest) <= room BY <1>6, LenProperties DEF Selection
  <2>2. Len(fresh) = ProductLimit => room = 0 BY <1>1
  <2> HIDE DEF room
  <2> QED BY <1>5, <2>1, <2>2
<1> QED BY <1>3, <1>4, <1>6, <1>7 DEF fresh, rest

LEMMA BatchOfListings == Proposing!Selected \in Seq(Listings)
<1> DEFINE fresh == Proposing!_select_products(v1, Proposing!Unused, ProductLimit)
           used  == Listings \ Proposing!Unused
           rest  == Proposing!_select_products(v1, used, ProductLimit - Len(fresh))
<1>1. /\ Proposing!Selected = fresh \o rest
      /\ fresh \in Seq(Proposing!Unused) /\ rest \in Seq(used)
  BY BatchSelected DEF Selection
<1>2. Proposing!Unused \subseteq Listings /\ used \subseteq Listings BY DEF Proposing!Unused
<1> HIDE DEF fresh, rest, used
<1>3. fresh \in Seq(Listings) /\ rest \in Seq(Listings) BY <1>1, <1>2
<1> QED BY <1>1, <1>3, ConcatProperties

LEMMA BatchTakesFresh ==
  LET chosen == Proposing!Range(Proposing!Selected)
  IN  /\ Proposing!Unused \subseteq chosen \/ chosen \subseteq Proposing!Unused
      /\ \A j \in 1..13 :
           /\ Segment(v1, Proposing!Unused, j) # {}
           /\ Present(v1, Proposing!Unused, j) <= ProductLimit
           => Segment(v1, Proposing!Unused, j) \cap chosen # {}
<1> DEFINE U == Proposing!Unused
           fresh == Proposing!_select_products(v1, U, ProductLimit)
           used  == Listings \ U
           rest  == Proposing!_select_products(v1, used, ProductLimit - Len(fresh))
           all == Proposing!Selected
           chosen == Proposing!Range(all)
           k == Len(fresh)
           l == Len(rest)
<1>1. /\ all = fresh \o rest /\ fresh \in Seq(U) /\ rest \in Seq(used)
      /\ k = ProductLimit => l = 0
      /\ k = ProductLimit \/ Holds(fresh, U)
  BY BatchSelected DEF Selection
<1>2. \A j \in 1..13 :
        Segment(v1, U, j) # {} /\ Present(v1, U, j) <= ProductLimit => Meets(fresh, Segment(v1, U, j))
  BY BatchSelected DEF Selection
<1> HIDE DEF U, fresh, rest, used, all
<1>3. chosen = {all[i] : i \in DOMAIN all} BY DEF Proposing!Range
<1> HIDE DEF chosen
<1>4. k \in Nat /\ l \in Nat BY <1>1, LenProperties
<1>5. /\ Len(all) = k + l /\ DOMAIN all = 1..(k + l)
      /\ \A i \in 1..k : all[i] = fresh[i]
  <2>1. fresh \in Seq(U \cup used) /\ rest \in Seq(U \cup used) BY <1>1
  <2> QED BY <1>1, <2>1, ConcatProperties, LenProperties
<1>6. \A i \in 1..k : fresh[i] \in chosen
  <2>1. 1..k \subseteq 1..(k + l) BY <1>4
  <2> QED BY <1>3, <1>5, <2>1
<1>7. U \subseteq chosen \/ chosen \subseteq U
  <2>1. CASE Holds(fresh, U) BY <1>6, <2>1 DEF Holds, k
  <2>2. CASE l = 0
    <3>1. DOMAIN all = 1..k
      <4> HIDE DEF k, l
      <4> QED BY <1>4, <1>5, <2>2
    <3>2. \A i \in 1..k : fresh[i] \in U BY <1>1 DEF k
    <3> QED BY <1>3, <1>5, <3>1, <3>2
  <2> QED BY <1>1, <2>1, <2>2
<1>8. ASSUME NEW S, Meets(fresh, S) PROVE S \cap chosen # {}
  <2>1. PICK i \in 1..k : fresh[i] \in S BY <1>8 DEF Meets, k
  <2> QED BY <1>6, <2>1
<1> QED BY <1>2, <1>7, <1>8 DEF chosen, all, U

(* A batch is spread, whatever the catalogue and the concepts are.             *)
LEMMA BatchSpread == Proposing!BatchIsSpread
<1> DEFINE all == Proposing!Selected
           ranked == Proposing!_rank_batch(v1, all)
           chosen == Proposing!Range(all)
           U == Proposing!Unused
           Fresh(j) == {p \in U : Proposing!ordered_keys[j] \in Proposing!_segment_keys(v1[p])}
           A(n) == Proposing!_angle_candidates(v1[all[n]])
<1>1. U \subseteq chosen \/ chosen \subseteq U BY BatchTakesFresh
<1>2. ASSUME NEW j \in DOMAIN Proposing!ordered_keys, Fresh(j) # {},
             Proposing!Cardinality({i \in 1..j : Fresh(i) # {}}) <= ProductLimit
      PROVE  Fresh(j) \cap chosen # {}
  <2>1. \A i : Fresh(i) = Segment(v1, U, i) BY DEF Segment
  <2>2. {i \in 1..j : Fresh(i) # {}} = {i \in 1..j : Segment(v1, U, i) # {}} BY <2>1
  <2>3. Present(v1, U, j) <= ProductLimit BY <1>2, <2>2, ProposingCounts DEF Present
  <2> HIDE DEF Fresh, U, chosen
  <2>4. j \in 1..13 /\ Segment(v1, U, j) # {} BY <1>2, <2>1, SegmentKeys
  <2>5. Segment(v1, U, j) \cap chosen # {} BY <2>3, <2>4, BatchTakesFresh DEF U, chosen
  <2> QED BY <2>1, <2>5
<1>3. ASSUME NEW n \in DOMAIN all
      PROVE  LET supported == Proposing!Cardinality({Proposing!_angle_intent_group(a) : a \in A(n)})
             IN  /\ Proposing!Cardinality({Proposing!_angle_intent_group(a) : a \in ranked[n]}) =
                      Proposing!Cardinality(ranked[n])
                 /\ Proposing!Cardinality(ranked[n]) =
                      IF supported < PerProduct THEN supported ELSE PerProduct
  <2> DEFINE supported == Proposing!Cardinality({Proposing!_angle_intent_group(a) : a \in A(n)})
             r == ranked[n]
  <2>1. r \in Taken(v1[all[n]], PerProduct)
    <3> HIDE DEF all
    <3>1. all \in Seq(Listings) BY BatchOfListings DEF all
    <3>2. n \in 1..Len(all) BY <3>1
    <3>3. ranked \in Ranked(v1, all, Len(all)) BY <3>1, ProductsAreRanked
    <3> HIDE DEF ranked
    <3> QED BY <3>2, <3>3 DEF Ranked
  <2>2. supported = Supported(v1[all[n]])
    BY ProposingCounts DEF Supported, Intents
  <2> HIDE DEF supported, r
  <2>3. Cardinality(Intents(r)) = Cardinality(r) /\
        Cardinality(r) = IF supported < PerProduct THEN supported ELSE PerProduct
    BY <2>1, <2>2 DEF Taken
  <2>4. Proposing!Cardinality({Proposing!_angle_intent_group(a) : a \in r}) = Cardinality(Intents(r))
    BY ProposingCounts DEF Intents
  <2>5. Proposing!Cardinality(r) = Cardinality(r) BY ProposingCounts
  <2> QED BY <2>3, <2>4, <2>5 DEF supported, r
<1> QED BY <1>1, <1>2, <1>3 DEF Proposing!BatchIsSpread

(* Whatever the catalogue holds and was proposed before, a batch takes products*)
(* never proposed first, one of each of the first segments that have any, and  *)
(* gives each of them as many angles of different intent as it can             *)
(* (_select_products, _rank_batch): for any catalogue and any limits.          *)
THEOREM BatchesAreSpread == ServicesSpec => []BatchIsSpread
<1>1. BatchIsSpread BY BatchSpread DEF BatchIsSpread
<1> QED BY <1>1, PTL
=============================================================================
