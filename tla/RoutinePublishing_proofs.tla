---------------------- MODULE RoutinePublishing_proofs ----------------------
(* Theorems about RoutinePublishing for any publications, workers, operators   *)
(* and bounds: first with live workers as slow and requests as racy as they    *)
(* like, then what the protocol promises of retries when no live worker        *)
(* outsleeps the stale cut-off.                                                *)
EXTENDS RoutinePublishing, FiniteSetTheorems, TLAPS

Claimed == {"post", "verify", "prefail", "boundary", "locking", "lockfail",
            "failpause", "call", "persist", "reconcile", "pause"}

(* The locals of a worker make sense for the step it is at.                    *)
JobOK == \A w \in Workers :
  /\ pc[w] \in {"admit", "claim"} \cup Claimed => job[w].pub \in Pubs
  /\ pc[w] \in Claimed => job[w].n \in 1..nAtt[job[w].pub]

RowOK == \A w \in Workers : pc[w] = "rewrite" => rec[w].cur \in Attempts

ReqOK == \A o \in Operators : req[o] # NoReq =>
  req[o].kind \in {"schedule", "cancel"} /\ req[o].pub \in Pubs

TypeInv == TypeOK /\ JobOK /\ RowOK /\ ReqOK

USE BoundAssumption

-----------------------------------------------------------------------------
(* What the rows and locals the steps build belong to.                         *)

LEMMA NoJobType == NoJob \in JobType /\ \A p \in Pubs : JobFor(p) \in JobType
  BY DEF JobFor, NoJob, JobType

LEMMA JobUpdate ==
  \A j \in JobType :
     /\ j.gen \in 0..MaxPermits
     /\ \A g \in 0..MaxPermits   : [j EXCEPT !.gen = g] \in JobType
     /\ \A n \in 0..MaxAttempts : [j EXCEPT !.n = n] \in JobType
     /\ \A r \in Results         : [j EXCEPT !.res = r] \in JobType
  BY DEF JobType

LEMMA RowFacts ==
  /\ \A s \in SUBSET Attempts : Rows(s) \in RowType
  /\ NoRow \in RowType
  /\ \A s \in SUBSET Attempts, a \in Attempts, b \in BOOLEAN :
     /\ [left |-> s, cur |-> a, marked |-> b] \in RowType
     /\ [left |-> s, cur |-> a, marked |-> b].cur = a
  /\ \A r \in RowType : r.left \in SUBSET Attempts
  BY DEF Rows, NoRow, RowType

LEMMA AttemptFacts ==
  /\ NoAttempt \in AttemptType
  /\ \A g \in 0..MaxPermits : Started(g) \in AttemptType
  /\ \A r \in AttemptType : r.marked \in BOOLEAN
  BY DEF NoAttempt, Started, AttemptType

LEMMA PermitFacts ==
  \A r \in PermitType :
     /\ r.gen \in 0..MaxPermits
     /\ [r EXCEPT !.status = "CONSUMED"] \in PermitType
     /\ [r EXCEPT !.status = "REVOKED"] \in PermitType
     /\ \A b \in BOOLEAN : [r EXCEPT !.drift = b] \in PermitType
  BY DEF PermitType

LEMMA MineType ==
  ASSUME TypeInv, NEW w \in Workers, pc[w] \in Claimed
  PROVE  /\ job[w].pub \in Pubs
         /\ Mine(w) \in Attempts
         /\ Mine(w)[1] = job[w].pub
  BY DEF TypeInv, TypeOK, JobOK, Mine, Attempts

LEMMA ResolveType ==
  ASSUME TypeOK, NEW a \in Attempts, NEW s \in Statuses,
         NEW t \in {"FAILED", "UNKNOWN", "SUCCEEDED"}, Resolve(a, s, t)
  PROVE  status' \in [Pubs -> Statuses] /\ att' \in [Attempts -> AttemptType]
<1>1. \A r \in AttemptType : [r EXCEPT !.status = t, !.old = FALSE] \in AttemptType
  BY DEF AttemptType
<1> QED BY <1>1 DEF TypeOK, Resolve

LEMMA TakeRowType ==
  ASSUME TypeInv, NEW w \in Workers, NEW rows \in SUBSET Attempts, TakeRow(w, rows)
  PROVE  /\ pc' \in [Workers -> Labels]
         /\ rec' \in [Workers -> RowType]
         /\ RowOK'
<1>1. pc' \in [Workers -> Labels]
  BY DEF TypeInv, TypeOK, TakeRow, Goto, Labels
<1>2. rec' \in [Workers -> RowType]
  <2>1. CASE rec' = [rec EXCEPT ![w] = NoRow]
    BY <2>1, RowFacts DEF TypeInv, TypeOK
  <2>2. CASE \E a \in rows :
          rec' = [rec EXCEPT ![w] = [left |-> rows \ {a}, cur |-> a, marked |-> att[a].marked]]
    <3>1. PICK a \in rows :
            rec' = [rec EXCEPT ![w] = [left |-> rows \ {a}, cur |-> a, marked |-> att[a].marked]]
      BY <2>2
    <3>2. a \in Attempts /\ rows \ {a} \in SUBSET Attempts
      OBVIOUS
    <3>3. att[a].marked \in BOOLEAN
      BY <3>2, AttemptFacts DEF TypeInv, TypeOK
    <3>4. [left |-> rows \ {a}, cur |-> a, marked |-> att[a].marked] \in RowType
      BY <3>2, <3>3, RowFacts
    <3> QED BY <3>1, <3>4 DEF TypeInv, TypeOK
  <2> QED BY <2>1, <2>2 DEF TakeRow
<1>3. RowOK'
  BY RowFacts, AttemptFacts DEF TypeInv, TypeOK, RowOK, TakeRow, Goto
<1> QED BY <1>1, <1>2, <1>3

LEMMA InitType == Init => TypeInv
  BY NoJobType, RowFacts, AttemptFacts
  DEF Init, TypeInv, TypeOK, JobOK, RowOK, ReqOK, Statuses, Labels, Claimed,
      PermitType, RunType, ReqType, NoPermit, NoReq

-----------------------------------------------------------------------------
(* Every step keeps the types.                                                 *)

LEMMA StartRunType ==
  ASSUME TypeInv, NEW w \in Workers, StartRun(w)
  PROVE  TypeInv'
<1>1. pc' \in [Workers -> Labels]
  BY DEF TypeInv, TypeOK, StartRun, Goto, Labels
<1>2. run' \in RunType
  BY DEF StartRun, RunType
<1>3. mode' \in [Workers -> {"DRY_RUN", "LIVE"}]
  BY DEF TypeInv, TypeOK, StartRun
<1>4. rec' \in [Workers -> RowType]
  BY RowFacts DEF TypeInv, TypeOK, StartRun
<1>5. TypeOK'
  BY <1>1, <1>2, <1>3, <1>4 DEF TypeInv, TypeOK, StartRun, db, row, ctl, wrk, env
<1>6. JobOK'
  BY DEF TypeInv, TypeOK, JobOK, Claimed, StartRun, Goto, SkipJob, TakeRow, db
<1>7. RowOK' /\ ReqOK'
  BY DEF TypeInv, TypeOK, RowOK, ReqOK, StartRun, Goto, SkipJob, env
<1> QED BY <1>5, <1>6, <1>7 DEF TypeInv

LEMMA RecoverScanType ==
  ASSUME TypeInv, NEW w \in Workers, RecoverScan(w)
  PROVE  TypeInv'
<1>1. /\ pc' \in [Workers -> Labels]
     /\ rec' \in [Workers -> RowType]
     /\ RowOK'
  <2>1. {a \in rec[w].left : StillClaimed(a)} \in SUBSET Attempts
    BY RowFacts DEF TypeInv, TypeOK
  <2> QED BY <2>1, TakeRowType DEF RecoverScan
<1>2. TypeOK'
  BY <1>1 DEF TypeInv, TypeOK, RecoverScan, db, row, ctl, wrk, env
<1>3. JobOK'
  BY DEF TypeInv, TypeOK, JobOK, Claimed, RecoverScan, Goto, SkipJob, TakeRow, db
<1>4. ReqOK'
  BY DEF TypeInv, ReqOK, RecoverScan, env
<1> QED BY <1>1, <1>2, <1>3, <1>4 DEF TypeInv

LEMMA RecoverRereadType ==
  ASSUME TypeInv, NEW w \in Workers, RecoverReread(w)
  PROVE  TypeInv'
<1>1. /\ pc' \in [Workers -> Labels]
     /\ rec' \in [Workers -> RowType]
     /\ RowOK'
  <2>1. rec[w].left \in SUBSET Attempts
    BY RowFacts DEF TypeInv, TypeOK
  <2> QED BY <2>1, TakeRowType DEF RecoverReread
<1>2. TypeOK'
  BY <1>1 DEF TypeInv, TypeOK, RecoverReread, db, row, ctl, wrk, env
<1>3. JobOK'
  BY DEF TypeInv, TypeOK, JobOK, Claimed, RecoverReread, Goto, SkipJob, TakeRow, db
<1>4. ReqOK'
  BY DEF TypeInv, ReqOK, RecoverReread, env
<1> QED BY <1>1, <1>2, <1>3, <1>4 DEF TypeInv

LEMMA RecoverUnmarkedType ==
  ASSUME TypeInv, NEW w \in Workers, RecoverUnmarked(w)
  PROVE  TypeInv'
<1>1. /\ status' \in [Pubs -> Statuses]
     /\ att' \in [Attempts -> AttemptType]
  <2>1. rec[w].cur \in Attempts
    BY DEF TypeInv, RowOK, RecoverUnmarked
  <2> QED BY <2>1, ResolveType DEF TypeInv, RecoverUnmarked, Statuses
<1>2. pc' \in [Workers -> Labels]
  BY DEF TypeInv, TypeOK, RecoverUnmarked, Goto, Labels
<1>3. TypeOK'
  BY <1>1, <1>2 DEF TypeInv, TypeOK, RecoverUnmarked, db, row, ctl, wrk, env
<1>4. JobOK'
  BY DEF TypeInv, TypeOK, JobOK, Claimed, RecoverUnmarked, Goto, SkipJob, TakeRow, db
<1>5. RowOK' /\ ReqOK'
  BY DEF TypeInv, TypeOK, RowOK, ReqOK, RecoverUnmarked, Goto, SkipJob, env
<1> QED BY <1>3, <1>4, <1>5 DEF TypeInv

LEMMA RecoverMarkedType ==
  ASSUME TypeInv, NEW w \in Workers, RecoverMarked(w)
  PROVE  TypeInv'
<1>1. /\ status' \in [Pubs -> Statuses]
     /\ att' \in [Attempts -> AttemptType]
  <2>1. rec[w].cur \in Attempts
    BY DEF TypeInv, RowOK, RecoverMarked
  <2> QED BY <2>1, ResolveType DEF TypeInv, RecoverMarked, Statuses
<1>2. pc' \in [Workers -> Labels]
  BY DEF TypeInv, TypeOK, RecoverMarked, Goto, Labels
<1>3. /\ control' \in {"PAUSED", "DRY_RUN", "LIVE"}
     /\ unpaused' \in SUBSET Attempts
  BY DEF RecoverMarked
<1>4. TypeOK'
  BY <1>1, <1>2, <1>3 DEF TypeInv, TypeOK, RecoverMarked, db, row, ctl, wrk, env
<1>5. JobOK'
  BY DEF TypeInv, TypeOK, JobOK, Claimed, RecoverMarked, Goto, SkipJob, TakeRow, db
<1>6. RowOK' /\ ReqOK'
  BY DEF TypeInv, TypeOK, RowOK, ReqOK, RecoverMarked, Goto, SkipJob, env
<1> QED BY <1>4, <1>5, <1>6 DEF TypeInv

LEMMA RecoverDeadlockType ==
  ASSUME TypeInv, NEW w \in Workers, RecoverDeadlock(w)
  PROVE  TypeInv'
<1>1. pc' \in [Workers -> Labels]
  BY DEF TypeInv, TypeOK, RecoverDeadlock, Labels
<1>2. rec' \in [Workers -> RowType]
  BY RowFacts DEF TypeInv, TypeOK, RecoverDeadlock
<1>3. job' \in [Workers -> JobType]
  BY NoJobType DEF TypeInv, TypeOK, RecoverDeadlock
<1>4. /\ lock' \in Workers \cup {None}
     /\ todo' \in [Workers -> SUBSET Pubs]
  BY DEF TypeInv, TypeOK, RecoverDeadlock
<1>5. TypeOK'
  BY <1>1, <1>2, <1>3, <1>4 DEF TypeInv, TypeOK, RecoverDeadlock, db, row, ctl, wrk, env
<1>6. JobOK'
  BY DEF TypeInv, TypeOK, JobOK, Claimed, RecoverDeadlock, Goto, SkipJob, TakeRow, db
<1>7. RowOK' /\ ReqOK'
  BY DEF TypeInv, TypeOK, RowOK, ReqOK, RecoverDeadlock, Goto, SkipJob, env
<1> QED BY <1>5, <1>6, <1>7 DEF TypeInv

LEMMA DueScanType ==
  ASSUME TypeInv, NEW w \in Workers, DueScan(w)
  PROVE  TypeInv'
<1>1. pc' \in [Workers -> Labels]
  BY DEF TypeInv, TypeOK, DueScan, Goto, Labels
<1>2. todo' \in [Workers -> SUBSET Pubs]
  BY DEF TypeInv, TypeOK, DueScan, due_publications
<1>3. run' \in RunType
  BY DEF TypeInv, TypeOK, DueScan, heartbeat_run, RunType
<1>4. TypeOK'
  BY <1>1, <1>2, <1>3 DEF TypeInv, TypeOK, DueScan, db, row, ctl, wrk, env
<1>5. JobOK'
  BY DEF TypeInv, TypeOK, JobOK, Claimed, DueScan, Goto, SkipJob, TakeRow, db
<1>6. RowOK' /\ ReqOK'
  BY DEF TypeInv, TypeOK, RowOK, ReqOK, DueScan, Goto, SkipJob, env
<1> QED BY <1>4, <1>5, <1>6 DEF TypeInv

LEMMA SelectType ==
  ASSUME TypeInv, NEW w \in Workers, Select(w)
  PROVE  TypeInv'
<1>1. pc' \in [Workers -> Labels]
  BY DEF TypeInv, TypeOK, Select, Goto, Labels
<1>2. todo' \in [Workers -> SUBSET Pubs]
  BY DEF TypeInv, TypeOK, Select
<1>3. job' \in [Workers -> JobType]
  BY NoJobType DEF TypeInv, TypeOK, Select
<1>4. run' \in RunType
  BY ZenonT(30) DEF TypeInv, TypeOK, Select, heartbeat_run, RunType
<1>5. TypeOK'
  BY <1>1, <1>2, <1>3, <1>4 DEF TypeInv, TypeOK, Select, db, row, ctl, wrk, env
<1>6. JobOK'
  BY NoJobType DEF TypeInv, TypeOK, JobOK, JobFor, Claimed, Select, Goto, db
<1>7. RowOK' /\ ReqOK'
  BY DEF TypeInv, TypeOK, RowOK, ReqOK, Select, Goto, SkipJob, env
<1> QED BY <1>5, <1>6, <1>7 DEF TypeInv

LEMMA AdmitType ==
  ASSUME TypeInv, NEW w \in Workers, Admit(w)
  PROVE  TypeInv'
<1>1. pc' \in [Workers -> Labels]
  BY DEF TypeInv, TypeOK, Admit, Goto, SkipJob, Labels
<1>2. todo' \in [Workers -> SUBSET Pubs]
  BY DEF TypeInv, TypeOK, Admit
<1>3. job' \in [Workers -> JobType]
  <2>1. permit[job[w].pub].gen \in 0..MaxPermits
    BY PermitFacts DEF TypeInv, TypeOK, JobOK, Admit
  <2>2. job \in [Workers -> JobType] BY DEF TypeInv, TypeOK
  <2>3. CASE job' = [job EXCEPT ![w] = NoJob]
    BY <2>2, <2>3, NoJobType
  <2>4. CASE job' = [job EXCEPT ![w].gen = permit[job[w].pub].gen]
    BY <2>1, <2>2, <2>4, JobUpdate
  <2> QED BY <2>3, <2>4 DEF Admit, SkipJob
<1>4. TypeOK'
  BY <1>1, <1>2, <1>3 DEF TypeInv, TypeOK, Admit, db, row, ctl, wrk, env
<1>5. JobOK'
  <2>1. \A v \in Workers : pc'[v] \in {"admit", "claim"} \cup Claimed =>
         /\ pc'[v] = "claim" \/ pc'[v] = pc[v]
         /\ pc[v] \in {"admit", "claim"} \cup Claimed
         /\ job'[v].pub = job[v].pub /\ job'[v].n = job[v].n
    BY SMTT(30) DEF TypeInv, TypeOK, JobType, Admit, Goto, SkipJob, Claimed
  <2> QED BY <2>1 DEF TypeInv, JobOK, Claimed, Admit, db
<1>6. RowOK' /\ ReqOK'
  BY DEF TypeInv, TypeOK, RowOK, ReqOK, Admit, Goto, SkipJob, env
<1> QED BY <1>4, <1>5, <1>6 DEF TypeInv

LEMMA ClaimType ==
  ASSUME TypeInv, NEW w \in Workers, Claim(w)
  PROVE  TypeInv'
<1> DEFINE p == job[w].pub
           n == nAtt[p] + 1
<1>0. p \in Pubs /\ job[w].gen \in 0..MaxPermits
  BY JobUpdate DEF TypeInv, TypeOK, JobOK, Claim
<1>1. CASE Claimable(p, job[w].gen)
  <2> SUFFICES ASSUME status' = [status EXCEPT ![p] = "PUBLISHING"],
                      permit' = [permit EXCEPT ![p].status = "CONSUMED"],
                      nAtt' = [nAtt EXCEPT ![p] = n],
                      att' = [att EXCEPT ![<<p, n>>] = Started(job[w].gen)],
                      job' = [job EXCEPT ![w].n = n],
                      pc' = [pc EXCEPT ![w] = "post"]
               PROVE  TypeInv'
    BY <1>1 DEF Claim, Goto
  <2>1. nAtt[p] \in Nat /\ n \in 1..MaxAttempts
    BY <1>0, <1>1 DEF TypeInv, TypeOK, Claimable
  <2>2. /\ status' \in [Pubs -> Statuses]
        /\ nAtt' \in [Pubs -> 0..MaxAttempts]
        /\ pc' \in [Workers -> Labels]
    BY <1>0, <2>1 DEF TypeInv, TypeOK, Statuses, Labels
  <2>3. permit' \in [Pubs -> PermitType]
    BY <1>0, PermitFacts DEF TypeInv, TypeOK
  <2>4. att' \in [Attempts -> AttemptType]
    BY <1>0, AttemptFacts DEF TypeInv, TypeOK
  <2>5. job' \in [Workers -> JobType]
    BY <2>1, JobUpdate DEF TypeInv, TypeOK
  <2>6. TypeOK'
    BY <2>2, <2>3, <2>4, <2>5 DEF TypeInv, TypeOK, Claim, ctl, env
  <2>7. JobOK'
    <3>1. job'[w].pub = p /\ job'[w].n = n
      BY DEF TypeInv, TypeOK, JobType
    <3>2. \A v \in Workers \ {w} : pc'[v] = pc[v] /\ job'[v] = job[v]
      BY DEF TypeInv, TypeOK
    <3>3. \A q \in Pubs : nAtt[q] \in Nat /\ nAtt'[q] \in Nat /\ nAtt[q] <= nAtt'[q]
      BY <1>0, <2>1, <2>2 DEF TypeInv, TypeOK
    <3>4. nAtt'[p] = n
      BY <1>0 DEF TypeInv, TypeOK
    <3> QED BY <1>0, <2>1, <3>1, <3>2, <3>3, <3>4 DEF TypeInv, JobOK
  <2>8. RowOK' /\ ReqOK'
    BY DEF TypeInv, TypeOK, RowOK, ReqOK, Claim, env
  <2> QED BY <2>6, <2>7, <2>8 DEF TypeInv
<1>2. CASE ~Claimable(p, job[w].gen)
  <2>1. pc' \in [Workers -> Labels] /\ job' \in [Workers -> JobType]
    BY <1>2, NoJobType DEF TypeInv, TypeOK, Claim, SkipJob, Goto, Labels
  <2>2. TypeOK'
    BY <1>2, <2>1 DEF TypeInv, TypeOK, Claim, ctl, env
  <2>3. JobOK' /\ RowOK' /\ ReqOK'
    BY <1>2 DEF TypeInv, TypeOK, JobOK, RowOK, ReqOK, Claimed, Claim, SkipJob, Goto, env
  <2> QED BY <2>2, <2>3 DEF TypeInv
<1> QED BY <1>1, <1>2

LEMMA PostClaimType ==
  ASSUME TypeInv, NEW w \in Workers, PostClaim(w)
  PROVE  TypeInv'
<1>1. pc' \in [Workers -> Labels]
  BY DEF TypeInv, TypeOK, PostClaim, Goto, Labels
<1>2. TypeOK'
  BY <1>1 DEF TypeInv, TypeOK, PostClaim, db, row, ctl, wrk, env
<1>3. JobOK'
  BY DEF TypeInv, TypeOK, JobOK, Claimed, PostClaim, Goto, SkipJob, TakeRow, db
<1>4. RowOK' /\ ReqOK'
  BY DEF TypeInv, TypeOK, RowOK, ReqOK, PostClaim, Goto, SkipJob, env
<1> QED BY <1>2, <1>3, <1>4 DEF TypeInv

LEMMA VerifyType ==
  ASSUME TypeInv, NEW w \in Workers, Verify(w)
  PROVE  TypeInv'
<1>1. pc' \in [Workers -> Labels]
  BY DEF TypeInv, TypeOK, Verify, Goto, Labels
<1>2. TypeOK'
  BY <1>1 DEF TypeInv, TypeOK, Verify, db, row, ctl, wrk, env
<1>3. JobOK'
  BY DEF TypeInv, TypeOK, JobOK, Claimed, Verify, Goto, SkipJob, TakeRow, db
<1>4. RowOK' /\ ReqOK'
  BY DEF TypeInv, TypeOK, RowOK, ReqOK, Verify, Goto, SkipJob, env
<1> QED BY <1>2, <1>3, <1>4 DEF TypeInv

LEMMA PreFailType ==
  ASSUME TypeInv, NEW w \in Workers, PreFail(w)
  PROVE  TypeInv'
<1>1. /\ status' \in [Pubs -> Statuses]
     /\ att' \in [Attempts -> AttemptType]
  <2>1. Mine(w) \in Attempts
    BY MineType DEF PreFail, Claimed
  <2> QED BY <2>1, ResolveType DEF TypeInv, TypeOK, PreFail, Statuses
<1>2. pc' \in [Workers -> Labels]
  BY DEF TypeInv, TypeOK, PreFail, Goto, SkipJob, Labels
<1>3. job' \in [Workers -> JobType]
  BY NoJobType DEF TypeInv, TypeOK, PreFail, SkipJob
<1>4. TypeOK'
  BY <1>1, <1>2, <1>3 DEF TypeInv, TypeOK, PreFail, db, row, ctl, wrk, env
<1>5. JobOK'
  BY DEF TypeInv, TypeOK, JobOK, Claimed, PreFail, Goto, SkipJob, TakeRow, db
<1>6. RowOK' /\ ReqOK'
  BY DEF TypeInv, TypeOK, RowOK, ReqOK, PreFail, Goto, SkipJob, env
<1> QED BY <1>4, <1>5, <1>6 DEF TypeInv

LEMMA BoundaryType ==
  ASSUME TypeInv, NEW w \in Workers, Boundary(w)
  PROVE  TypeInv'
<1>1. att' \in [Attempts -> AttemptType]
  <2>1. \A r \in AttemptType : [r EXCEPT !.marked = TRUE] \in AttemptType
    BY DEF AttemptType
  <2> QED BY <2>1 DEF TypeInv, TypeOK, Boundary
<1>2. pc' \in [Workers -> Labels]
  BY DEF TypeInv, TypeOK, Boundary, Goto, SkipJob, Labels
<1>3. job' \in [Workers -> JobType]
  BY NoJobType DEF TypeInv, TypeOK, Boundary, SkipJob
<1>4. TypeOK'
  BY <1>1, <1>2, <1>3 DEF TypeInv, TypeOK, Boundary, db, row, ctl, wrk, env
<1>5. JobOK'
  BY DEF TypeInv, TypeOK, JobOK, Claimed, Boundary, Goto, SkipJob, TakeRow, db
<1>6. RowOK' /\ ReqOK'
  BY DEF TypeInv, TypeOK, RowOK, ReqOK, Boundary, Goto, SkipJob, env
<1> QED BY <1>4, <1>5, <1>6 DEF TypeInv

LEMMA LockCallType ==
  ASSUME TypeInv, NEW w \in Workers, LockCall(w)
  PROVE  TypeInv'
<1>1. lock' \in Workers \cup {None}
  BY DEF TypeInv, TypeOK, LockCall
<1>2. pc' \in [Workers -> Labels]
  BY DEF TypeInv, TypeOK, LockCall, Goto, Labels
<1>3. TypeOK'
  BY <1>1, <1>2 DEF TypeInv, TypeOK, LockCall, db, row, ctl, wrk, env
<1>4. JobOK'
  BY DEF TypeInv, TypeOK, JobOK, Claimed, LockCall, Goto, SkipJob, TakeRow, db
<1>5. RowOK' /\ ReqOK'
  BY DEF TypeInv, TypeOK, RowOK, ReqOK, LockCall, Goto, SkipJob, env
<1> QED BY <1>3, <1>4, <1>5 DEF TypeInv

LEMMA LockFailType ==
  ASSUME TypeInv, NEW w \in Workers, LockFail(w)
  PROVE  TypeInv'
<1>1. /\ status' \in [Pubs -> Statuses]
     /\ att' \in [Attempts -> AttemptType]
     /\ unpaused' \in SUBSET Attempts
  <2>1. Mine(w) \in Attempts
    BY MineType DEF LockFail, Claimed
  <2>2. CASE Resolve(Mine(w), "PUBLISH_UNKNOWN", "UNKNOWN") /\ unpaused' = unpaused \cup {Mine(w)}
    BY <2>1, <2>2, ResolveType DEF TypeInv, TypeOK, Statuses
  <2>3. CASE UNCHANGED <<status, att, unpaused>>
    BY <2>3 DEF TypeInv, TypeOK
  <2> QED BY <2>2, <2>3 DEF LockFail
<1>2. pc' \in [Workers -> Labels]
  BY DEF TypeInv, TypeOK, LockFail, Goto, Labels
<1>3. TypeOK'
  BY <1>1, <1>2 DEF TypeInv, TypeOK, LockFail, db, row, ctl, wrk, env
<1>4. JobOK'
  BY DEF TypeInv, TypeOK, JobOK, Claimed, LockFail, Goto, SkipJob, TakeRow, db
<1>5. RowOK' /\ ReqOK'
  BY DEF TypeInv, TypeOK, RowOK, ReqOK, LockFail, Goto, SkipJob, env
<1> QED BY <1>3, <1>4, <1>5 DEF TypeInv

LEMMA FailPauseType ==
  ASSUME TypeInv, NEW w \in Workers, FailPause(w)
  PROVE  TypeInv'
<1>1. /\ control' \in {"PAUSED", "DRY_RUN", "LIVE"}
     /\ unpaused' \in SUBSET Attempts
  BY DEF FailPause
<1>2. pc' \in [Workers -> Labels]
  BY DEF TypeInv, TypeOK, FailPause, Goto, SkipJob, Labels
<1>3. job' \in [Workers -> JobType]
  BY NoJobType DEF TypeInv, TypeOK, FailPause, SkipJob
<1>4. TypeOK'
  BY <1>1, <1>2, <1>3 DEF TypeInv, TypeOK, FailPause, db, row, ctl, wrk, env
<1>5. JobOK'
  BY DEF TypeInv, TypeOK, JobOK, Claimed, FailPause, Goto, SkipJob, TakeRow, db
<1>6. RowOK' /\ ReqOK'
  BY DEF TypeInv, TypeOK, RowOK, ReqOK, FailPause, Goto, SkipJob, env
<1> QED BY <1>4, <1>5, <1>6 DEF TypeInv

LEMMA CallType ==
  ASSUME TypeInv, NEW w \in Workers, Call(w)
  PROVE  TypeInv'
<1>1. remote' \in [Attempts -> {"none", "pending", "sent", "error"}]
  BY DEF TypeInv, TypeOK, Call, Effects, Results
<1>2. job' \in [Workers -> JobType]
  BY JobUpdate DEF TypeInv, TypeOK, Call
<1>3. pc' \in [Workers -> Labels]
  BY DEF TypeInv, TypeOK, Call, Goto, Labels
<1>4. TypeOK'
  BY <1>1, <1>2, <1>3 DEF TypeInv, TypeOK, Call, db, row, ctl, wrk, env
<1>5. JobOK'
  <2>1. \A v \in Workers : pc'[v] \in {"admit", "claim"} \cup Claimed =>
         /\ pc'[v] \in Claimed <=> pc[v] \in Claimed
         /\ pc[v] \in {"admit", "claim"} \cup Claimed
         /\ job'[v].pub = job[v].pub /\ job'[v].n = job[v].n
    BY DEF TypeInv, TypeOK, JobType, Call, Goto, Claimed
  <2> QED BY <2>1 DEF TypeInv, JobOK, Call, db
<1>6. RowOK' /\ ReqOK'
  BY DEF TypeInv, TypeOK, RowOK, ReqOK, Call, Goto, SkipJob, env
<1> QED BY <1>4, <1>5, <1>6 DEF TypeInv

LEMMA PersistType ==
  ASSUME TypeInv, NEW w \in Workers, Persist(w)
  PROVE  TypeInv'
<1> DEFINE a == Mine(w)
           r == job[w].res
<1>0. a \in Attempts
  BY MineType DEF Persist, Claimed
<1>1. CASE StillClaimed(a)
  <2>1. status' \in [Pubs -> Statuses]
    BY <1>1 DEF TypeInv, TypeOK, Persist, Statuses
  <2>2. att' \in [Attempts -> AttemptType]
    <3> DEFINE t == IF DefinitiveFailure(r) THEN "FAILED" ELSE "UNKNOWN"
               b == r \in {"error", "sent", "pending"}
    <3>1. att' = [att EXCEPT ![a] = [@ EXCEPT !.status = t, !.op = b, !.old = FALSE]]
      BY <1>1 DEF Persist
    <3>2. t \in {"FAILED", "UNKNOWN"} /\ b \in BOOLEAN
      OBVIOUS
    <3> HIDE DEF t, b
    <3>3. \A x \in AttemptType :
            [x EXCEPT !.status = t, !.op = b, !.old = FALSE] \in AttemptType
      BY <3>2 DEF AttemptType
    <3>4. att[a] \in AttemptType
      BY <1>0 DEF TypeInv, TypeOK
    <3> QED BY <3>1, <3>3, <3>4 DEF TypeInv, TypeOK
  <2>3. unpaused' \in SUBSET Attempts
    BY <1>0, <1>1 DEF TypeInv, TypeOK, Persist
  <2>4. pc' \in [Workers -> Labels] /\ job' \in [Workers -> JobType]
    BY <1>1, NoJobType DEF TypeInv, TypeOK, Persist, SkipJob, Goto, Labels
  <2>5. TypeOK'
    BY <2>1, <2>2, <2>3, <2>4 DEF TypeInv, TypeOK, Persist, env
  <2>6. JobOK' /\ RowOK' /\ ReqOK'
    BY <1>1 DEF TypeInv, TypeOK, JobOK, RowOK, ReqOK, Claimed, Persist, SkipJob, Goto, env
  <2> QED BY <2>5, <2>6 DEF TypeInv
<1>2. CASE ~StillClaimed(a)
  <2>1. pc' \in [Workers -> Labels]
    BY <1>2 DEF TypeInv, TypeOK, Persist, Goto, Labels
  <2>2. TypeOK'
    BY <1>2, <2>1 DEF TypeInv, TypeOK, Persist, env
  <2>3. JobOK' /\ RowOK' /\ ReqOK'
    BY <1>2 DEF TypeInv, TypeOK, JobOK, RowOK, ReqOK, Claimed, Persist, Goto, env
  <2> QED BY <2>2, <2>3 DEF TypeInv
<1> QED BY <1>1, <1>2

LEMMA ReconcileType ==
  ASSUME TypeInv, NEW w \in Workers, Reconcile(w)
  PROVE  TypeInv'
<1>1. /\ status' \in [Pubs -> Statuses]
     /\ att' \in [Attempts -> AttemptType]
     /\ pinId' \in [Pubs -> BOOLEAN]
     /\ unpaused' \in SUBSET Attempts
  <2>0. job[w].pub \in Pubs
    BY MineType DEF Reconcile, Claimed
  <2>1. CASE Reconcilable(job[w].pub) /\ ConfirmPin(job[w].pub)
    <3>1. <<job[w].pub, 1>> \in Attempts
      BY <2>0, <2>1 DEF TypeInv, TypeOK, Reconcilable, Attempts
    <3>2. status' \in [Pubs -> Statuses] /\ att' \in [Attempts -> AttemptType]
      BY <2>1, <3>1, ResolveType DEF TypeInv, ConfirmPin, Statuses
    <3> QED BY <2>0, <2>1, <3>2 DEF TypeInv, TypeOK, ConfirmPin
  <2>2. CASE UNCHANGED <<status, att, pinId, unpaused>>
    BY <2>2 DEF TypeInv, TypeOK
  <2> QED BY <2>1, <2>2 DEF Reconcile
<1>2. pc' \in [Workers -> Labels]
  BY DEF TypeInv, TypeOK, Reconcile, Goto, SkipJob, Labels
<1>3. job' \in [Workers -> JobType]
  BY NoJobType DEF TypeInv, TypeOK, Reconcile, SkipJob
<1>4. TypeOK'
  BY <1>1, <1>2, <1>3 DEF TypeInv, TypeOK, Reconcile, db, row, ctl, wrk, env
<1>5. JobOK'
  BY DEF TypeInv, TypeOK, JobOK, Claimed, Reconcile, Goto, SkipJob, TakeRow, db
<1>6. RowOK' /\ ReqOK'
  BY DEF TypeInv, TypeOK, RowOK, ReqOK, Reconcile, Goto, SkipJob, env
<1> QED BY <1>4, <1>5, <1>6 DEF TypeInv

LEMMA PauseType ==
  ASSUME TypeInv, NEW w \in Workers, Pause(w)
  PROVE  TypeInv'
<1>1. /\ control' \in {"PAUSED", "DRY_RUN", "LIVE"}
     /\ unpaused' \in SUBSET Attempts
  BY DEF Pause
<1>2. pc' \in [Workers -> Labels]
  BY DEF TypeInv, TypeOK, Pause, Goto, SkipJob, Labels
<1>3. job' \in [Workers -> JobType]
  BY NoJobType DEF TypeInv, TypeOK, Pause, SkipJob
<1>4. TypeOK'
  BY <1>1, <1>2, <1>3 DEF TypeInv, TypeOK, Pause, db, row, ctl, wrk, env
<1>5. JobOK'
  BY DEF TypeInv, TypeOK, JobOK, Claimed, Pause, Goto, SkipJob, TakeRow, db
<1>6. RowOK' /\ ReqOK'
  BY DEF TypeInv, TypeOK, RowOK, ReqOK, Pause, Goto, SkipJob, env
<1> QED BY <1>4, <1>5, <1>6 DEF TypeInv

LEMMA FinishType ==
  ASSUME TypeInv, NEW w \in Workers, Finish(w)
  PROVE  TypeInv'
<1>1. run' \in RunType
  BY DEF TypeInv, TypeOK, Finish, CloseRun, RunType
<1>2. pc' \in [Workers -> Labels]
  BY DEF TypeInv, TypeOK, Finish, Goto, Labels
<1>3. job' \in [Workers -> JobType]
  BY NoJobType DEF TypeInv, TypeOK, Finish
<1>4. /\ todo' \in [Workers -> SUBSET Pubs]
     /\ mode' \in [Workers -> {"DRY_RUN", "LIVE"}]
  BY DEF TypeInv, TypeOK, Finish
<1>5. TypeOK'
  BY <1>1, <1>2, <1>3, <1>4 DEF TypeInv, TypeOK, Finish, db, row, ctl, wrk, env
<1>6. JobOK'
  BY DEF TypeInv, TypeOK, JobOK, Claimed, Finish, Goto, SkipJob, TakeRow, db
<1>7. RowOK' /\ ReqOK'
  BY DEF TypeInv, TypeOK, RowOK, ReqOK, Finish, Goto, SkipJob, env
<1> QED BY <1>5, <1>6, <1>7 DEF TypeInv

LEMMA CrashType ==
  ASSUME TypeInv, NEW w \in Workers, Crash(w)
  PROVE  TypeInv'
<1>1. crashes' \in 0..MaxCrashes
  BY DEF TypeInv, TypeOK, Crash
<1>2. lock' \in Workers \cup {None}
  BY DEF TypeInv, TypeOK, Crash
<1>3. run' \in RunType
  <2>1. CASE UNCHANGED run BY <2>1 DEF TypeInv, TypeOK
  <2>2. CASE CloseRun(w) BY <2>2 DEF TypeInv, TypeOK, CloseRun, RunType
  <2> QED BY <2>1, <2>2 DEF Crash
<1>4. pc' \in [Workers -> Labels]
  BY DEF TypeInv, TypeOK, Crash, Goto, Labels
<1>5. job' \in [Workers -> JobType]
  BY NoJobType DEF TypeInv, TypeOK, Crash
<1>6. rec' \in [Workers -> RowType]
  BY RowFacts DEF TypeInv, TypeOK, Crash
<1>7. /\ todo' \in [Workers -> SUBSET Pubs]
     /\ mode' \in [Workers -> {"DRY_RUN", "LIVE"}]
  BY DEF TypeInv, TypeOK, Crash
<1>8. TypeOK'
  BY <1>1, <1>2, <1>3, <1>4, <1>5, <1>6, <1>7 DEF TypeInv, TypeOK, Crash, db, row, ctl, wrk, env
<1>9. JobOK'
  BY DEF TypeInv, TypeOK, JobOK, Claimed, Crash, Goto, SkipJob, TakeRow, db
<1>10. RowOK' /\ ReqOK'
  BY DEF TypeInv, TypeOK, RowOK, ReqOK, Crash, Goto, SkipJob, env
<1> QED BY <1>8, <1>9, <1>10 DEF TypeInv

-----------------------------------------------------------------------------
(* So do the steps of the clock, Buffer and the operators: none of them moves  *)
(* a worker.                                                                   *)

LEMMA Undisturbed ==
  ASSUME TypeInv, UNCHANGED <<wrk, nAtt>>
  PROVE  JobOK' /\ RowOK'
BY DEF TypeInv, JobOK, RowOK, wrk

LEMMA TickType ==
  ASSUME TypeInv, Tick
  PROVE  TypeInv'
<1>1. run' \in RunType
  BY DEF TypeInv, TypeOK, Tick, RunType, Silent
<1>2. att' \in [Attempts -> AttemptType]
  <2>1. \A x \in AttemptType, b \in BOOLEAN : [x EXCEPT !.old = b] \in AttemptType
    BY DEF AttemptType
  <2> QED BY <2>1 DEF TypeInv, TypeOK, Tick
<1>3. TypeOK'
  BY <1>1, <1>2 DEF TypeInv, TypeOK, Tick, row, wrk, env
<1>4. ReqOK'
  BY DEF TypeInv, ReqOK, Tick, env
<1> QED BY <1>3, <1>4, Undisturbed DEF TypeInv, Tick

LEMMA BecomesDueType ==
  ASSUME TypeInv, NEW p \in Pubs, BecomesDue(p)
  PROVE  TypeInv'
<1>1. TypeOK'
  BY DEF TypeInv, TypeOK, BecomesDue, ctl, wrk, env
<1>2. ReqOK'
  BY DEF TypeInv, ReqOK, BecomesDue, env
<1> QED BY <1>1, <1>2, Undisturbed DEF TypeInv, BecomesDue

LEMMA BufferProgressType ==
  ASSUME TypeInv, NEW a \in Attempts, BufferProgress(a)
  PROVE  TypeInv'
<1>1. TypeOK'
  BY DEF TypeInv, TypeOK, BufferProgress, db, row, ctl, wrk
<1>2. ReqOK'
  BY DEF TypeInv, ReqOK, BufferProgress
<1> QED BY <1>1, <1>2, Undisturbed DEF TypeInv, BufferProgress, db

LEMMA DriftedType ==
  ASSUME TypeOK, NEW p \in Pubs
  PROVE  Drifted(p) \in [Pubs -> PermitType]
<1>1. permit[p] \in PermitType
  BY DEF TypeOK
<1> DEFINE b == permit[p].gen > 0
<1>2. Drifted(p) = [permit EXCEPT ![p] = [@ EXCEPT !.drift = b]] /\ b \in BOOLEAN
  BY DEF Drifted
<1> HIDE DEF b
<1>3. [permit[p] EXCEPT !.drift = b] \in PermitType
  BY <1>1, <1>2, PermitFacts
<1> QED BY <1>2, <1>3 DEF TypeOK

(* What a request writes has the right types.                                  *)
LEMMA WriteType ==
  ASSUME TypeInv, NEW p \in Pubs, NEW kind, NEW seen, Write(kind, p, seen)
  PROVE  req' \in [Operators -> ReqType] => TypeOK'
<1>1. permit' \in [Pubs -> PermitType]
  BY DriftedType DEF TypeInv, Write
<1>2. /\ status' \in [Pubs -> Statuses]
      /\ slot' \in [Pubs -> {"none", "future", "due"}]
  BY DEF TypeInv, TypeOK, Write, Statuses
<1> QED BY <1>1, <1>2 DEF TypeInv, TypeOK, Write, ctl, wrk

LEMMA LoadRequestType ==
  ASSUME TypeInv, NEW o \in Operators, LoadRequest(o)
  PROVE  TypeInv'
<1>1. PICK p \in Pubs, kind \in {"schedule", "cancel"} :
        req' = [req EXCEPT ![o] = [kind |-> kind, pub |-> p, seen |-> status[p]]]
  BY DEF LoadRequest
<1>2. [kind |-> kind, pub |-> p, seen |-> status[p]] \in ReqType
  BY DEF TypeInv, TypeOK, ReqType
<1>3. TypeOK'
  BY <1>1, <1>2 DEF TypeInv, TypeOK, LoadRequest, db, row, ctl, wrk
<1>4. ReqOK'
  BY <1>1 DEF TypeInv, TypeOK, ReqOK
<1> QED BY <1>3, <1>4, Undisturbed DEF TypeInv, LoadRequest, db

LEMMA CommitRequestType ==
  ASSUME TypeInv, NEW o \in Operators, CommitRequest(o)
  PROVE  TypeInv'
<1>1. req[o].pub \in Pubs
  BY DEF TypeInv, ReqOK, CommitRequest
<1>2. req' \in [Operators -> ReqType] /\ ReqOK'
  <2>1. NoReq \in [kind : {"none", "schedule", "cancel"}, pub : {None}, seen : Statuses]
    BY DEF NoReq, Statuses
  <2>2. NoReq \in ReqType
    BY <2>1 DEF ReqType
  <2>3. req' = [req EXCEPT ![o] = NoReq]
    BY DEF CommitRequest
  <2> QED BY <2>2, <2>3 DEF TypeInv, TypeOK, ReqOK
<1>3. TypeOK'
  BY <1>1, <1>2, WriteType DEF CommitRequest
<1> QED BY <1>2, <1>3, Undisturbed DEF TypeInv, CommitRequest, Write

LEMMA DirectRequestType ==
  ASSUME TypeInv, NEW p \in Pubs, DirectRequest(p)
  PROVE  TypeInv'
<1>1. req' \in [Operators -> ReqType] /\ ReqOK'
  BY DEF TypeInv, TypeOK, ReqOK, DirectRequest
<1>2. TypeOK'
  BY <1>1, WriteType DEF DirectRequest
<1> QED BY <1>1, <1>2, Undisturbed DEF TypeInv, DirectRequest, Write

LEMMA CreatePermitType ==
  ASSUME TypeInv, NEW p \in Pubs, CreatePermit(p)
  PROVE  TypeInv'
<1>1. permit[p].gen + 1 \in 0..MaxPermits
  <2>1. permit[p].gen \in 0..MaxPermits
    BY PermitFacts DEF TypeInv, TypeOK
  <2> QED BY <2>1 DEF CreatePermit
<1>2. [gen |-> permit[p].gen + 1, status |-> "ACTIVE", drift |-> FALSE] \in PermitType
  BY <1>1 DEF PermitType
<1>3. TypeOK'
  BY <1>2 DEF TypeInv, TypeOK, CreatePermit, row, ctl, wrk, env
<1>4. ReqOK'
  BY DEF TypeInv, ReqOK, CreatePermit, env
<1> QED BY <1>3, <1>4, Undisturbed DEF TypeInv, CreatePermit

LEMMA RevokePermitType ==
  ASSUME TypeInv, NEW p \in Pubs, RevokePermit(p)
  PROVE  TypeInv'
<1>1. permit' \in [Pubs -> PermitType]
  BY PermitFacts DEF TypeInv, TypeOK, RevokePermit
<1>2. TypeOK'
  BY <1>1 DEF TypeInv, TypeOK, RevokePermit, row, ctl, wrk, env
<1>3. ReqOK'
  BY DEF TypeInv, ReqOK, RevokePermit, env
<1> QED BY <1>2, <1>3, Undisturbed DEF TypeInv, RevokePermit

LEMMA SetControlType ==
  ASSUME TypeInv, SetControl
  PROVE  TypeInv'
<1>1. TypeOK'
  BY DEF TypeInv, TypeOK, SetControl, db, row, wrk, env
<1>2. ReqOK'
  BY DEF TypeInv, ReqOK, SetControl, env
<1> QED BY <1>1, <1>2, Undisturbed DEF TypeInv, SetControl, db

LEMMA ReconcileBufferType ==
  ASSUME TypeInv, NEW p \in Pubs, ReconcileBuffer(p)
  PROVE  TypeInv'
<1>1. <<p, 1>> \in Attempts /\ <<p, 1>>[1] = p
  BY DEF TypeInv, TypeOK, ReconcileBuffer, Reconcilable, Attempts
<1>2. status' \in [Pubs -> Statuses] /\ att' \in [Attempts -> AttemptType]
  BY <1>1, ResolveType DEF TypeInv, ReconcileBuffer, ConfirmPin, Statuses
<1>3. pinId' \in [Pubs -> BOOLEAN] /\ unpaused' \in SUBSET Attempts
  BY DEF TypeInv, TypeOK, ReconcileBuffer, ConfirmPin
<1>4. TypeOK'
  BY <1>2, <1>3 DEF TypeInv, TypeOK, ReconcileBuffer, ctl, wrk, env
<1>5. ReqOK'
  BY DEF TypeInv, ReqOK, ReconcileBuffer, env
<1> QED BY <1>4, <1>5, Undisturbed DEF TypeInv, ReconcileBuffer

LEMMA PinConfirmedType ==
  ASSUME TypeInv, NEW p \in Pubs, PinConfirmed(p)
  PROVE  TypeInv'
<1>1. TypeOK'
  BY DEF TypeInv, TypeOK, PinConfirmed, Statuses, ctl, wrk, env
<1>2. ReqOK'
  BY DEF TypeInv, ReqOK, PinConfirmed, env
<1> QED BY <1>1, <1>2, Undisturbed DEF TypeInv, PinConfirmed

LEMMA CancelUnknownType ==
  ASSUME TypeInv, NEW p \in Pubs, CancelUnknown(p)
  PROVE  TypeInv'
<1>1. permit' \in [Pubs -> PermitType]
  BY DriftedType DEF TypeInv, CancelUnknown
<1>2. TypeOK'
  BY <1>1 DEF TypeInv, TypeOK, CancelUnknown, Statuses, ctl, wrk, env
<1>3. ReqOK'
  BY DEF TypeInv, ReqOK, CancelUnknown, env
<1> QED BY <1>2, <1>3, Undisturbed DEF TypeInv, CancelUnknown

LEMMA NextType == TypeInv /\ [Next]_vars => TypeInv'
<1> SUFFICES ASSUME TypeInv, [Next]_vars PROVE TypeInv'
  OBVIOUS
<1>1. ASSUME NEW w \in Workers, StartRun(w) \/ WorkerStep(w) \/ Crash(w)
      PROVE  TypeInv'
  BY <1>1, StartRunType, RecoverScanType, RecoverRereadType, RecoverUnmarkedType,
     RecoverMarkedType, RecoverDeadlockType, DueScanType, SelectType, AdmitType,
     ClaimType, PostClaimType, VerifyType, PreFailType, BoundaryType, LockCallType,
     LockFailType, FailPauseType, CallType, PersistType, ReconcileType, PauseType,
     FinishType, CrashType DEF WorkerStep
<1>2. ASSUME OperatorStep PROVE TypeInv'
  BY <1>2, LoadRequestType, CommitRequestType, DirectRequestType, CreatePermitType,
     RevokePermitType, ReconcileBufferType, PinConfirmedType, CancelUnknownType,
     SetControlType DEF OperatorStep
<1>3. CASE UNCHANGED vars
  BY <1>3 DEF TypeInv, TypeOK, JobOK, RowOK, ReqOK, vars, db, row, ctl, wrk, env
<1> QED BY <1>1, <1>2, <1>3, TickType, BecomesDueType, BufferProgressType DEF Next

(* Every row and every local always has its type, and a worker that has        *)
(* claimed a publication names one of its existing attempts.                   *)
THEOREM TypeCorrect == Spec => []TypeOK
<1>1. TypeInv => TypeOK
  BY DEF TypeInv
<1> QED BY InitType, NextType, <1>1, PTL DEF Spec

THEOREM TypeInvariant == Spec => []TypeInv
BY InitType, NextType, PTL DEF Spec

-----------------------------------------------------------------------------
(* The provider is called under the control lock, and a permit backs one       *)
(* attempt.  Both rest on attempts being a history: a claim appends one, and   *)
(* no other step changes its permit or takes back its boundary.                *)

Kept == \A a \in Attempts :
  /\ att'[a].gen = att[a].gen
  /\ att[a].marked => att'[a].marked

LEMMA SameKept == UNCHANGED att => Kept
BY DEF Kept

LEMMA ResolveKept ==
  ASSUME TypeOK, NEW a \in Attempts, NEW s, NEW t, Resolve(a, s, t)
  PROVE  Kept
<1>1. att[a] \in AttemptType
  BY DEF TypeOK
<1>2. \A x \in AttemptType : /\ [x EXCEPT !.status = t, !.old = FALSE].gen = x.gen
                             /\ [x EXCEPT !.status = t, !.old = FALSE].marked = x.marked
  BY DEF AttemptType
<1> QED BY <1>1, <1>2 DEF Kept, Resolve, TypeOK

LEMMA RecoverKept ==
  ASSUME TypeInv, NEW w \in Workers, RecoverUnmarked(w) \/ RecoverMarked(w)
  PROVE  Kept
<1>1. rec[w].cur \in Attempts
  BY DEF TypeInv, RowOK, RecoverUnmarked, RecoverMarked
<1> QED BY <1>1, ResolveKept DEF TypeInv, RecoverUnmarked, RecoverMarked

LEMMA PreFailKept ==
  ASSUME TypeInv, NEW w \in Workers, PreFail(w)
  PROVE  Kept
BY MineType, ResolveKept, SameKept DEF TypeInv, PreFail, Claimed

LEMMA BoundaryKept ==
  ASSUME TypeInv, NEW w \in Workers, Boundary(w)
  PROVE  Kept
<1>1. Mine(w) \in Attempts
  BY MineType DEF Boundary, Claimed
<1>2. \A x \in AttemptType : /\ [x EXCEPT !.marked = TRUE].gen = x.gen
                             /\ [x EXCEPT !.marked = TRUE].marked
  BY DEF AttemptType
<1>3. CASE att' = [att EXCEPT ![Mine(w)].marked = TRUE]
  BY <1>1, <1>2, <1>3 DEF TypeInv, TypeOK, Kept
<1> QED BY <1>3, SameKept DEF Boundary

LEMMA LockFailKept ==
  ASSUME TypeInv, NEW w \in Workers, LockFail(w)
  PROVE  Kept
BY MineType, ResolveKept, SameKept DEF TypeInv, LockFail, Claimed

LEMMA PersistKept ==
  ASSUME TypeInv, NEW w \in Workers, Persist(w)
  PROVE  Kept
<1> DEFINE a == Mine(w)
           t == IF DefinitiveFailure(job[w].res) THEN "FAILED" ELSE "UNKNOWN"
           b == job[w].res \in {"error", "sent", "pending"}
<1>1. a \in Attempts /\ att[a] \in AttemptType
  BY MineType DEF TypeInv, TypeOK, Persist, Claimed
<1>2. \/ att' = [att EXCEPT ![a] = [@ EXCEPT !.status = t, !.op = b, !.old = FALSE]]
      \/ UNCHANGED att
  BY DEF Persist
<1> HIDE DEF t, b
<1>3. \A x \in AttemptType :
        /\ [x EXCEPT !.status = t, !.op = b, !.old = FALSE].gen = x.gen
        /\ [x EXCEPT !.status = t, !.op = b, !.old = FALSE].marked = x.marked
  BY DEF AttemptType
<1>4. CASE att' = [att EXCEPT ![a] = [@ EXCEPT !.status = t, !.op = b, !.old = FALSE]]
  <2>1. /\ att'[a] = [att[a] EXCEPT !.status = t, !.op = b, !.old = FALSE]
        /\ \A x \in Attempts \ {a} : att'[x] = att[x]
    BY <1>1, <1>4 DEF TypeInv, TypeOK
  <2>2. att'[a].gen = att[a].gen /\ att'[a].marked = att[a].marked
    BY <1>1, <1>3, <2>1
  <2> QED BY <2>1, <2>2 DEF Kept
<1> QED BY <1>2, <1>4, SameKept

LEMMA ConfirmKept ==
  ASSUME TypeInv, NEW p \in Pubs, Reconcilable(p), ConfirmPin(p)
  PROVE  Kept
<1>1. <<p, 1>> \in Attempts
  BY DEF TypeInv, TypeOK, Reconcilable, Attempts
<1> QED BY <1>1, ResolveKept DEF TypeInv, ConfirmPin

LEMMA ReconcileKept ==
  ASSUME TypeInv, NEW w \in Workers, Reconcile(w)
  PROVE  Kept
BY MineType, ConfirmKept, SameKept DEF Reconcile, Claimed

LEMMA ReconcileBufferKept ==
  ASSUME TypeInv, NEW p \in Pubs, ReconcileBuffer(p)
  PROVE  Kept
<1>1. <<p, 1>> \in Attempts
  BY DEF TypeInv, TypeOK, ReconcileBuffer, Reconcilable, Attempts
<1> QED BY <1>1, ConfirmKept, ResolveKept DEF TypeInv, ReconcileBuffer

LEMMA TickKept ==
  ASSUME TypeInv, Tick
  PROVE  Kept
<1> SUFFICES ASSUME NEW a \in Attempts
             PROVE  att'[a].gen = att[a].gen /\ (att[a].marked => att'[a].marked)
  BY DEF Kept
<1> DEFINE b == att[a].status = "STARTED" /\ \A w \in Workers : Mine(w) = a => Silent(w)
<1>1. att'[a] = [att[a] EXCEPT !.old = b]
  BY DEF Tick
<1>2. att[a] \in AttemptType
  BY DEF TypeInv, TypeOK
<1> HIDE DEF b
<1> QED BY <1>1, <1>2 DEF AttemptType

(* Only a claim appends an attempt; every other step keeps the history.        *)
LEMMA History ==
  ASSUME TypeInv, [Next]_vars, \A w \in Workers : ~Claim(w)
  PROVE  Kept /\ UNCHANGED nAtt
<1>1. ASSUME NEW w \in Workers, StartRun(w) \/ WorkerStep(w) \/ Crash(w)
      PROVE  Kept /\ UNCHANGED nAtt
  <2>1. CASE \/ StartRun(w) \/ RecoverScan(w) \/ RecoverReread(w) \/ RecoverDeadlock(w)
             \/ DueScan(w) \/ Select(w) \/ Admit(w) \/ PostClaim(w) \/ Verify(w)
             \/ LockCall(w) \/ FailPause(w) \/ Call(w) \/ Pause(w) \/ Finish(w) \/ Crash(w)
    BY <2>1, SameKept
    DEF StartRun, RecoverScan, RecoverReread, RecoverDeadlock, DueScan, Select, Admit,
        PostClaim, Verify, LockCall, FailPause, Call, Pause, Finish, Crash, db
  <2>2. CASE RecoverUnmarked(w) \/ RecoverMarked(w)
    BY <2>2, RecoverKept DEF RecoverUnmarked, RecoverMarked
  <2>3. CASE PreFail(w) \/ Boundary(w) \/ LockFail(w) \/ Persist(w) \/ Reconcile(w)
    BY <2>3, PreFailKept, BoundaryKept, LockFailKept, PersistKept, ReconcileKept
    DEF PreFail, Boundary, LockFail, Persist, Reconcile
  <2> QED BY <1>1, <2>1, <2>2, <2>3 DEF WorkerStep
<1>2. ASSUME OperatorStep PROVE Kept /\ UNCHANGED nAtt
  BY <1>2, SameKept, ReconcileBufferKept
  DEF OperatorStep, LoadRequest, CommitRequest, DirectRequest, Write, CreatePermit,
      RevokePermit, SetControl, ReconcileBuffer, PinConfirmed, CancelUnknown, db
<1>3. CASE Tick
  BY <1>3, TickKept DEF Tick
<1>4. CASE (\E p \in Pubs : BecomesDue(p)) \/ (\E a \in Attempts : BufferProgress(a))
  BY <1>4, SameKept DEF BecomesDue, BufferProgress, db
<1>5. CASE UNCHANGED vars
  BY <1>5, SameKept DEF vars, db
<1> QED BY <1>1, <1>2, <1>3, <1>4, <1>5 DEF Next

-----------------------------------------------------------------------------
(* The call under the lock.                                                    *)

LEMMA InCallMine ==
  ASSUME TypeInv, NEW w \in Workers, InCall(w)
  PROVE  Mine(w) \in Attempts /\ Mine(w) = <<job[w].pub, job[w].n>>
BY MineType DEF InCall, Mine, Claimed

(* A step of w that does not enter the call leaves the other calls alone if it *)
(* takes no lock but its own and touches control only when nobody holds it.    *)
LEMMA CallBystander ==
  ASSUME TypeInv, CallUnderLock, NEW w \in Workers,
         \A v \in Workers \ {w} : pc'[v] = pc[v] /\ job'[v] = job[v],
         pc'[w] \notin {"call", "persist"},
         UNCHANGED control \/ lock = None,
         UNCHANGED lock \/ lock = w,
         \A v \in Workers \ {w} : InCall(v) => att'[Mine(v)].marked
  PROVE  CallUnderLock'
<1> SUFFICES ASSUME NEW v \in Workers, InCall(v)'
             PROVE  lock' = v /\ control' = "LIVE" /\ att'[Mine(v)'].marked
  BY DEF CallUnderLock
<1>1. v # w /\ InCall(v) /\ Mine(v)' = Mine(v)
  BY DEF InCall, Mine
<1>2. lock = v /\ control = "LIVE"
  BY <1>1 DEF CallUnderLock
<1> QED BY <1>1, <1>2, NoneAssumption

LEMMA CallUndisturbed ==
  ASSUME TypeInv, CallUnderLock, UNCHANGED <<wrk, lock>>,
         UNCHANGED control \/ lock = None, Kept
  PROVE  CallUnderLock'
<1> SUFFICES ASSUME NEW v \in Workers, InCall(v)'
             PROVE  lock' = v /\ control' = "LIVE" /\ att'[Mine(v)'].marked
  BY DEF CallUnderLock
<1>1. InCall(v) /\ Mine(v)' = Mine(v)
  BY DEF InCall, Mine, wrk
<1>2. lock = v /\ control = "LIVE" /\ att[Mine(v)].marked
  BY <1>1 DEF CallUnderLock
<1>3. Mine(v) \in Attempts
  BY <1>1, InCallMine
<1> QED BY <1>1, <1>2, <1>3, NoneAssumption DEF Kept

LEMMA CallKeptBystander ==
  ASSUME TypeInv, CallUnderLock, NEW w \in Workers,
         \A v \in Workers \ {w} : pc'[v] = pc[v] /\ job'[v] = job[v],
         pc'[w] \notin {"call", "persist"},
         UNCHANGED control \/ lock = None,
         UNCHANGED lock \/ lock = w,
         Kept
  PROVE  CallUnderLock'
<1>1. \A v \in Workers : InCall(v) => att'[Mine(v)].marked
  BY InCallMine DEF CallUnderLock, Kept
<1> QED BY <1>1, CallBystander

LEMMA CallClaim ==
  ASSUME TypeInv, CallUnderLock, NEW w \in Workers, Claim(w)
  PROVE  CallUnderLock'
<1> DEFINE p == job[w].pub
           n == nAtt[p] + 1
<1>1. /\ \A v \in Workers \ {w} : pc'[v] = pc[v] /\ job'[v] = job[v]
      /\ pc'[w] \notin {"call", "persist"}
      /\ UNCHANGED <<control, lock>>
  BY DEF TypeInv, TypeOK, Claim, SkipJob, Goto, ctl
<1>2. att' = [att EXCEPT ![<<p, n>>] = Started(job[w].gen)] \/ att' = att
  BY DEF Claim
<1>3. \A v \in Workers : InCall(v) => att'[Mine(v)].marked
  <2> SUFFICES ASSUME NEW v \in Workers, InCall(v)
               PROVE  Mine(v) # <<p, n>> /\ Mine(v) \in Attempts
    BY <1>2 DEF CallUnderLock, TypeInv, TypeOK
  <2>1. job[v].pub \in Pubs /\ job[v].n \in 1..nAtt[job[v].pub] /\ p \in Pubs
    BY DEF TypeInv, JobOK, InCall, Claimed, Claim
  <2>2. nAtt[p] \in Nat
    BY <2>1 DEF TypeInv, TypeOK
  <2>3. job[v].pub = p => job[v].n # n
    BY <2>1, <2>2
  <2> QED BY <2>3, InCallMine
<1> QED BY <1>1, <1>3, CallBystander

LEMMA CallLock ==
  ASSUME TypeInv, CallUnderLock, NEW w \in Workers, LockCall(w)
  PROVE  CallUnderLock'
<1>1. lock = None /\ Kept
  BY SameKept DEF LockCall, db
<1>2. CASE pc' = [pc EXCEPT ![w] = "call"]
  <2>1. lock' = w /\ control' = "LIVE" /\ att'[Mine(w)'].marked
    BY <1>2 DEF LockCall, Goto, TypeInv, TypeOK, Mine, db
  <2>2. \A v \in Workers \ {w} : ~InCall(v)'
    <3>1. \A v \in Workers : ~InCall(v)
      BY <1>1, NoneAssumption DEF CallUnderLock
    <3> QED BY <1>2, <3>1 DEF InCall, TypeInv, TypeOK
  <2> QED BY <2>1, <2>2 DEF CallUnderLock
<1>3. CASE pc' = [pc EXCEPT ![w] = "lockfail"] /\ UNCHANGED lock
  <2>1. \A v \in Workers \ {w} : pc'[v] = pc[v] /\ job'[v] = job[v]
    BY <1>3 DEF TypeInv, TypeOK, LockCall
  <2> QED BY <1>1, <1>3, <2>1, CallKeptBystander DEF TypeInv, TypeOK, LockCall
<1> QED BY <1>2, <1>3 DEF LockCall, Goto

LEMMA CallCall ==
  ASSUME TypeInv, CallUnderLock, NEW w \in Workers, Call(w)
  PROVE  CallUnderLock'
<1> SUFFICES ASSUME NEW v \in Workers, InCall(v)'
             PROVE  lock' = v /\ control' = "LIVE" /\ att'[Mine(v)'].marked
  BY DEF CallUnderLock
<1>1. job'[v].pub = job[v].pub /\ job'[v].n = job[v].n
  <2>1. PICK r : job' = [job EXCEPT ![w].res = r]
    BY DEF Call
  <2> QED BY <2>1 DEF TypeInv, TypeOK, JobType
<1>2. InCall(v) /\ Mine(v)' = Mine(v)
  BY <1>1 DEF TypeInv, TypeOK, Call, Goto, InCall, Mine
<1> QED BY <1>2 DEF CallUnderLock, Call, ctl, db

LEMMA CallDeadlock ==
  ASSUME TypeInv, CallUnderLock, NEW w \in Workers, RecoverDeadlock(w)
  PROVE  CallUnderLock'
<1>1. Kept /\ UNCHANGED control
  BY SameKept DEF RecoverDeadlock, db
<1>2. CASE pc' = [pc EXCEPT ![w] = "finish"] /\ UNCHANGED <<lock, job>>
  <2>1. \A v \in Workers \ {w} : pc'[v] = pc[v] /\ job'[v] = job[v]
    BY <1>2 DEF TypeInv, TypeOK
  <2> QED BY <1>1, <1>2, <2>1, CallKeptBystander DEF TypeInv, TypeOK
<1>3. ASSUME NEW v \in Workers, lock = v, pc' = [pc EXCEPT ![v] = "finish"],
             job' = [job EXCEPT ![v] = NoJob]
      PROVE  CallUnderLock'
  <2>1. \A u \in Workers \ {v} : pc'[u] = pc[u] /\ job'[u] = job[u]
    BY <1>3 DEF TypeInv, TypeOK
  <2> QED BY <1>1, <1>3, <2>1, CallKeptBystander DEF TypeInv, TypeOK
<1> QED BY <1>2, <1>3 DEF RecoverDeadlock

LEMMA CallPersist ==
  ASSUME TypeInv, CallUnderLock, NEW w \in Workers, Persist(w)
  PROVE  CallUnderLock'
<1>1. lock = w
  BY DEF CallUnderLock, InCall, Persist
<1>2. /\ \A v \in Workers \ {w} : pc'[v] = pc[v] /\ job'[v] = job[v]
      /\ pc'[w] \notin {"call", "persist"}
      /\ UNCHANGED control
  BY DEF TypeInv, TypeOK, Persist, SkipJob, Goto
<1> QED BY <1>1, <1>2, PersistKept, CallKeptBystander

(* The steps of a worker that neither take nor give back the control lock.     *)
LEMMA CallOther ==
  ASSUME TypeInv, CallUnderLock, NEW w \in Workers, Kept,
         \/ StartRun(w) \/ RecoverScan(w) \/ RecoverReread(w) \/ RecoverUnmarked(w)
         \/ RecoverMarked(w) \/ DueScan(w) \/ Select(w) \/ Admit(w) \/ PostClaim(w)
         \/ Verify(w) \/ PreFail(w) \/ Boundary(w) \/ LockFail(w) \/ FailPause(w)
         \/ Reconcile(w) \/ Pause(w) \/ Finish(w) \/ Crash(w)
  PROVE  CallUnderLock'
<1> DEFINE Facts == /\ \A v \in Workers \ {w} : pc'[v] = pc[v] /\ job'[v] = job[v]
                    /\ pc'[w] \notin {"call", "persist"}
                    /\ UNCHANGED control \/ lock = None
                    /\ UNCHANGED lock \/ lock = w
<1>1. (StartRun(w) \/ RecoverScan(w) \/ RecoverReread(w)) => Facts
  BY DEF TypeInv, TypeOK, StartRun, RecoverScan, RecoverReread, TakeRow, Goto, ctl
<1>2. (RecoverUnmarked(w) \/ RecoverMarked(w)) => Facts
  BY DEF TypeInv, TypeOK, RecoverUnmarked, RecoverMarked, Goto, ctl
<1>3. (DueScan(w) \/ Select(w) \/ Admit(w)) => Facts
  BY DEF TypeInv, TypeOK, DueScan, Select, Admit, SkipJob, Goto, ctl
<1>4. (PostClaim(w) \/ Verify(w) \/ PreFail(w)) => Facts
  BY DEF TypeInv, TypeOK, PostClaim, Verify, PreFail, SkipJob, Goto, ctl
<1>5. (Boundary(w) \/ LockFail(w) \/ FailPause(w)) => Facts
  BY DEF TypeInv, TypeOK, Boundary, LockFail, FailPause, SkipJob, Goto, ctl
<1>6. (Reconcile(w) \/ Pause(w)) => Facts
  BY DEF TypeInv, TypeOK, Reconcile, Pause, SkipJob, Goto, ctl
<1>7. (Finish(w) \/ Crash(w)) => Facts
  BY DEF TypeInv, TypeOK, Finish, Crash, Goto
<1>8. Facts
  BY <1>1, <1>2, <1>3, <1>4, <1>5, <1>6, <1>7
<1> QED BY <1>8, CallKeptBystander

LEMMA CallNext == TypeInv /\ CallUnderLock /\ [Next]_vars => CallUnderLock'
<1> SUFFICES ASSUME TypeInv, CallUnderLock, [Next]_vars PROVE CallUnderLock'
  OBVIOUS
<1>1. CASE \E w \in Workers : Claim(w)
  BY <1>1, CallClaim
<1>2. CASE \A w \in Workers : ~Claim(w)
  <2>0. Kept
    BY <1>2, History
  <2>1. ASSUME NEW w \in Workers, StartRun(w) \/ WorkerStep(w) \/ Crash(w)
        PROVE  CallUnderLock'
    BY <1>2, <2>0, <2>1, CallLock, CallCall, CallDeadlock, CallPersist, CallOther
    DEF WorkerStep
  <2>2. CASE OperatorStep
    <3>1. UNCHANGED <<wrk, lock>> /\ (UNCHANGED control \/ lock = None)
      BY <2>2
      DEF OperatorStep, LoadRequest, CommitRequest, DirectRequest, Write, CreatePermit,
          RevokePermit, SetControl, ReconcileBuffer, PinConfirmed, CancelUnknown, ctl
    <3> QED BY <2>0, <3>1, CallUndisturbed
  <2>3. CASE \/ Tick \/ (\E p \in Pubs : BecomesDue(p))
             \/ (\E a \in Attempts : BufferProgress(a)) \/ UNCHANGED vars
    BY <2>0, <2>3, CallUndisturbed DEF Tick, BecomesDue, BufferProgress, vars, ctl
  <2> QED BY <2>1, <2>2, <2>3 DEF Next
<1> QED BY <1>1, <1>2

(* No two workers are ever inside a Buffer submission at once, none is while   *)
(* the control row is not LIVE, and its boundary is committed.                 *)
THEOREM SubmissionsAreExclusive == Spec => []CallUnderLock
<1>1. Init => CallUnderLock
  BY DEF Init, CallUnderLock, InCall
<1> QED BY <1>1, CallNext, TypeInvariant, PTL DEF Spec

-----------------------------------------------------------------------------
(* One permit, one attempt.  The strengthening: no attempt is younger than the *)
(* latest permit.                                                              *)

Bounded == \A p \in Pubs : \A n \in 1..nAtt[p] : att[<<p, n>>].gen <= permit[p].gen

SpentInv == PermitSpentOnce /\ Bounded

LEMMA GenTypes ==
  ASSUME TypeOK, NEW p \in Pubs, NEW n \in 1..nAtt[p]
  PROVE  /\ <<p, n>> \in Attempts
         /\ att[<<p, n>>].gen \in Nat
         /\ permit[p].gen \in Nat
         /\ nAtt[p] \in Nat
<1>1. nAtt[p] \in 0..MaxAttempts
  BY DEF TypeOK
<1>2. n \in 1..MaxAttempts
  BY <1>1
<1>3. <<p, n>> \in Attempts
  BY <1>2 DEF Attempts
<1>4. att[<<p, n>>] \in AttemptType /\ permit[p] \in PermitType
  BY <1>3 DEF TypeOK
<1> QED BY <1>1, <1>3, <1>4 DEF AttemptType, PermitType

(* No permit becomes ACTIVE, or REVOKED unless it was ACTIVE.                  *)
SamePermits == \A p \in Pubs :
  /\ permit'[p].gen = permit[p].gen
  /\ permit'[p].status = permit[p].status \/ permit[p].status = "ACTIVE"

LEMMA SpentKept ==
  ASSUME TypeInv, SpentInv, Kept, UNCHANGED nAtt,
         SamePermits
  PROVE  SpentInv'
BY GenTypes DEF TypeInv, SpentInv, PermitSpentOnce, Bounded, Kept, SamePermits

LEMMA SpentClaim ==
  ASSUME TypeInv, SpentInv, NEW w \in Workers, Claim(w)
  PROVE  SpentInv'
<1> DEFINE p == job[w].pub
           k == nAtt[p] + 1
<1>0. p \in Pubs /\ nAtt[p] \in Nat
  BY DEF TypeInv, TypeOK, JobOK, Claim
<1>1. CASE Claimable(p, job[w].gen)
  <2>0. k \in 1..MaxAttempts
    BY <1>0, <1>1 DEF Claimable
  <2>1. /\ permit[p].status = "ACTIVE" /\ job[w].gen = permit[p].gen
        /\ permit' = [permit EXCEPT ![p].status = "CONSUMED"]
        /\ nAtt' = [nAtt EXCEPT ![p] = k]
        /\ att' = [att EXCEPT ![<<p, k>>] = Started(permit[p].gen)]
    BY <1>1 DEF Claim, Claimable
  <2>2. att'[<<p, k>>].gen = permit[p].gen
    <3>1. <<p, k>> \in Attempts
      BY <1>0, <2>0 DEF Attempts
    <3> QED BY <2>1, <3>1 DEF Started, TypeInv, TypeOK
  <2>3. \A q \in Pubs : \A n \in 1..nAtt[q] : att'[<<q, n>>] = att[<<q, n>>]
    <3> SUFFICES ASSUME NEW q \in Pubs, NEW n \in 1..nAtt[q]
                 PROVE  <<q, n>> \in Attempts /\ <<q, n>> # <<p, k>>
      BY <2>1 DEF TypeInv, TypeOK
    <3>1. q = p => n # k
      BY <1>0
    <3> QED BY <3>1, GenTypes DEF TypeInv
  <2>4. nAtt'[p] = k /\ \A q \in Pubs \ {p} : nAtt'[q] = nAtt[q]
    BY <1>0, <2>1 DEF TypeInv, TypeOK
  <2>5. /\ permit'[p].gen = permit[p].gen /\ permit'[p].status = "CONSUMED"
        /\ \A q \in Pubs \ {p} : permit'[q] = permit[q]
    BY <1>0, <2>1 DEF TypeInv, TypeOK, PermitType
  <2>6. \A n \in 1..nAtt[p] : att[<<p, n>>].gen # permit[p].gen
    BY <1>0, <2>1 DEF SpentInv, PermitSpentOnce
  <2>7. \A n \in 1..k : n \in 1..nAtt[p] \/ n = k
    BY <1>0
  <2>8. permit[p].gen \in Nat
    BY <1>0 DEF TypeInv, TypeOK, PermitType
  <2>9. Bounded'
    <3>1. ASSUME NEW q \in Pubs, NEW n \in 1..nAtt'[q]
          PROVE  att'[<<q, n>>].gen <= permit'[q].gen
      BY <1>0, <2>2, <2>3, <2>4, <2>5, <2>7, <2>8 DEF SpentInv, Bounded
    <3> QED BY <3>1 DEF Bounded
  <2>10. PermitSpentOnce'
    <3>1. ASSUME NEW m \in 1..nAtt'[p], NEW n \in 1..nAtt'[p], m # n
          PROVE  att'[<<p, m>>].gen # att'[<<p, n>>].gen
      BY <1>0, <2>2, <2>3, <2>4, <2>6, <2>7, <3>1 DEF SpentInv, PermitSpentOnce
    <3>2. ASSUME NEW q \in Pubs \ {p}, NEW m \in 1..nAtt'[q], NEW n \in 1..nAtt'[q]
          PROVE  /\ m # n => att'[<<q, m>>].gen # att'[<<q, n>>].gen
                 /\ permit'[q].status \in {"ACTIVE", "REVOKED"} =>
                      att'[<<q, n>>].gen # permit'[q].gen
      BY <2>3, <2>4, <2>5 DEF SpentInv, PermitSpentOnce
    <3>3. permit'[p].status \notin {"ACTIVE", "REVOKED"}
      BY <2>5
    <3>4. ASSUME NEW q \in Pubs, NEW m \in 1..nAtt'[q], NEW n \in 1..nAtt'[q]
          PROVE  /\ m # n => att'[<<q, m>>].gen # att'[<<q, n>>].gen
                 /\ permit'[q].status \in {"ACTIVE", "REVOKED"} =>
                      att'[<<q, n>>].gen # permit'[q].gen
      <4>1. CASE q = p
        BY <3>1, <3>3, <4>1
      <4>2. CASE q \in Pubs \ {p}
        BY <3>2, <4>2
      <4> QED BY <4>1, <4>2
    <3> QED BY <3>4 DEF PermitSpentOnce
  <2> QED BY <2>9, <2>10 DEF SpentInv
<1>2. CASE ~Claimable(p, job[w].gen)
  BY <1>2 DEF Claim, SpentInv, PermitSpentOnce, Bounded
<1> QED BY <1>1, <1>2

LEMMA SpentCreate ==
  ASSUME TypeInv, SpentInv, NEW p \in Pubs, CreatePermit(p)
  PROVE  SpentInv'
<1>1. UNCHANGED <<att, nAtt>>
  BY DEF CreatePermit
<1>2. /\ permit'[p].gen = permit[p].gen + 1
      /\ \A q \in Pubs \ {p} : permit'[q] = permit[q]
  BY DEF TypeInv, TypeOK, CreatePermit
<1>3. \A q \in Pubs : \A n \in 1..nAtt[q] :
        att[<<q, n>>].gen \in Nat /\ permit[q].gen \in Nat
  BY GenTypes DEF TypeInv
<1> QED BY <1>1, <1>2, <1>3 DEF SpentInv, PermitSpentOnce, Bounded

LEMMA SpentNext == TypeInv /\ SpentInv /\ [Next]_vars => SpentInv'
<1> SUFFICES ASSUME TypeInv, SpentInv, [Next]_vars PROVE SpentInv'
  OBVIOUS
<1>1. CASE \E w \in Workers : Claim(w)
  BY <1>1, SpentClaim
<1>2. CASE \E p \in Pubs : CreatePermit(p)
  BY <1>2, SpentCreate
<1>3. CASE (\A w \in Workers : ~Claim(w)) /\ (\A p \in Pubs : ~CreatePermit(p))
  <2>1. Kept /\ UNCHANGED nAtt
    BY <1>3, History
  <2> SUFFICES SamePermits
    BY <2>1, SpentKept
  <2>2. UNCHANGED permit => SamePermits
    BY DEF SamePermits
  <2>3. ASSUME NEW p \in Pubs, permit' = Drifted(p) PROVE SamePermits
    BY <2>3 DEF SamePermits, Drifted, TypeInv, TypeOK, PermitType
  <2>4. ASSUME NEW p \in Pubs, RevokePermit(p) PROVE SamePermits
    BY <2>4 DEF SamePermits, RevokePermit, TypeInv, TypeOK, PermitType
  <2>5. ASSUME NEW w \in Workers, StartRun(w) \/ WorkerStep(w) \/ Crash(w)
        PROVE  UNCHANGED permit
    BY <1>3, <2>5
    DEF WorkerStep, StartRun, RecoverScan, RecoverReread, RecoverUnmarked, RecoverMarked,
        RecoverDeadlock, DueScan, Select, Admit, PostClaim, Verify, PreFail, Boundary,
        LockCall, LockFail, FailPause, Call, Persist, Reconcile, Pause, Finish, Crash, db
  <2>6. CASE OperatorStep
    <3>1. ASSUME NEW o \in Operators, CommitRequest(o) PROVE SamePermits
      BY <2>3, <3>1 DEF CommitRequest, Write, TypeInv, ReqOK
    <3>2. ASSUME NEW p \in Pubs, DirectRequest(p) \/ CancelUnknown(p) PROVE SamePermits
      BY <2>3, <3>2 DEF DirectRequest, Write, CancelUnknown
    <3>3. ASSUME NEW p \in Pubs, ReconcileBuffer(p) \/ PinConfirmed(p) PROVE SamePermits
      BY <2>2, <3>3 DEF ReconcileBuffer, PinConfirmed
    <3>4. CASE SetControl \/ \E o \in Operators : LoadRequest(o)
      BY <2>2, <3>4 DEF SetControl, LoadRequest, db
    <3> QED BY <1>3, <2>4, <2>6, <3>1, <3>2, <3>3, <3>4 DEF OperatorStep
  <2>7. CASE \/ Tick \/ (\E p \in Pubs : BecomesDue(p))
             \/ (\E a \in Attempts : BufferProgress(a)) \/ UNCHANGED vars
    BY <2>2, <2>7 DEF Tick, BecomesDue, BufferProgress, vars, db
  <2> QED BY <2>2, <2>5, <2>6, <2>7 DEF Next
<1> QED BY <1>1, <1>2, <1>3

(* One authorisation pays for one attempt, whatever workers, operators and     *)
(* crashes do.                                                                 *)
THEOREM PermitsAreSpentOnce == Spec => []PermitSpentOnce
<1>1. Init => SpentInv
  BY DEF Init, SpentInv, PermitSpentOnce, Bounded
<1>2. SpentInv => PermitSpentOnce
  BY DEF SpentInv
<1> QED BY <1>1, <1>2, SpentNext, TypeInvariant, PTL DEF Spec

-----------------------------------------------------------------------------
(* When no live worker outsleeps the stale cut-off, a claim is its latest      *)
(* attempt, a publication that may be scheduled again has no pin, the daily    *)
(* limit and the circuit breaker hold, and the protocol implements             *)
(* PublicationLifecycle. Recovery then never runs next to the worker it        *)
(* recovers from; this is where everything rests on.                           *)
USE BoundAssumption

(* An operator sends a request when the one before is answered.  Two that race *)
(* with a worker and with each other do break ClaimBacked and RetryIsSafe: the *)
(* write of a stale schedule() makes a PUBLISHING row SCHEDULED.               *)
OneRequest == RequestRaces => \A o, q \in Operators : o = q

-----------------------------------------------------------------------------
(* One worker at a time.                                                       *)

OneActive == \A w \in Workers : pc[w] # "idle" => run.holder = w /\ ~run.stale

Alone(w) == \A v \in Workers \ {w} : pc[v] = "idle"

LEMMA ActiveAlone ==
  ASSUME OneActive, NEW w \in Workers, pc[w] # "idle"
  PROVE  Alone(w)
BY DEF OneActive, Alone

LEMMA StartAlone ==
  ASSUME OneActive, NEW w \in Workers, StartRun(w)
  PROVE  \A v \in Workers : pc[v] = "idle"
BY NoneAssumption DEF OneActive, StartRun

LEMMA NoDeadlock ==
  ASSUME OneActive, NEW w \in Workers
  PROVE  ~RecoverDeadlock(w)
BY ActiveAlone DEF Alone, RecoverDeadlock

(* A worker's step is its own: no other label moves.                           *)
LEMMA OwnLabel ==
  ASSUME TypeInv, OneActive, NEW w \in Workers, StartRun(w) \/ WorkerStep(w) \/ Crash(w)
  PROVE  /\ \A v \in Workers \ {w} : pc'[v] = "idle"
         /\ \A v \in Workers \ {w} : pc[v] = "idle"
<1>1. Alone(w)
  <2>1. CASE StartRun(w)
    BY <2>1, StartAlone DEF Alone
  <2>2. CASE WorkerStep(w) \/ Crash(w)
    <3>1. pc[w] # "idle"
      BY <2>2
      DEF WorkerStep, RecoverScan, RecoverReread, RecoverUnmarked, RecoverMarked,
          RecoverDeadlock, DueScan, Select, Admit, Claim, PostClaim, Verify, PreFail,
          Boundary, LockCall, LockFail, FailPause, Call, Persist, Reconcile, Pause, Finish,
          Crash
    <3> QED BY <3>1, ActiveAlone
  <2> QED BY <2>1, <2>2
<1>2. \A v \in Workers \ {w} : pc'[v] = pc[v]
  <2>1. CASE \/ StartRun(w) \/ RecoverScan(w) \/ RecoverReread(w) \/ RecoverUnmarked(w)
             \/ RecoverMarked(w) \/ DueScan(w) \/ Select(w) \/ Admit(w)
    BY <2>1
    DEF TypeInv, TypeOK, StartRun, RecoverScan, RecoverReread, TakeRow, RecoverUnmarked,
        RecoverMarked, DueScan, Select, Admit, SkipJob, Goto
  <2>2. CASE Claim(w) \/ PostClaim(w) \/ Verify(w) \/ PreFail(w) \/ Boundary(w)
    BY <2>2
    DEF TypeInv, TypeOK, Claim, PostClaim, Verify, PreFail, Boundary, SkipJob, Goto
  <2>3. CASE \/ LockCall(w) \/ LockFail(w) \/ FailPause(w) \/ Call(w) \/ Persist(w)
    BY <2>3 DEF TypeInv, TypeOK, LockCall, LockFail, FailPause, Call, Persist, SkipJob, Goto
  <2>4. CASE Reconcile(w) \/ Pause(w) \/ Finish(w) \/ Crash(w)
    BY <2>4 DEF TypeInv, TypeOK, Reconcile, Pause, Finish, Crash, SkipJob, Goto
  <2> QED BY <2>1, <2>2, <2>3, <2>4, NoDeadlock DEF WorkerStep
<1> QED BY <1>1, <1>2 DEF Alone

LEMMA OneActiveNext ==
  ASSUME ~SlowWorkers, TypeInv, OneActive, [Next]_vars
  PROVE  OneActive'
<1>1. ASSUME NEW w \in Workers, StartRun(w) \/ WorkerStep(w) \/ Crash(w)
      PROVE  OneActive'
  <2>1. \A v \in Workers \ {w} : pc'[v] = "idle"
    BY <1>1, OwnLabel
  <2>2. pc'[w] = "idle" \/ (run'.holder = w /\ ~run'.stale)
    <3>1. CASE StartRun(w)
      BY <3>1 DEF StartRun
    <3>2. CASE Finish(w) \/ Crash(w)
      BY <3>2 DEF Finish, Crash, Goto, TypeInv, TypeOK
    <3>3. CASE DueScan(w) \/ Select(w)
      <4>1. run.holder = w
        BY <3>3 DEF OneActive, DueScan, Select
      <4>2. \A r \in RunType : [r EXCEPT !.stale = FALSE].holder = r.holder
                               /\ ~[r EXCEPT !.stale = FALSE].stale
        BY DEF RunType
      <4>3. run.holder = w /\ ~run.stale
        BY <3>3 DEF OneActive, DueScan, Select
      <4> QED BY <3>3, <4>1, <4>2, <4>3 DEF DueScan, Select, heartbeat_run, TypeInv, TypeOK
    <3>4. CASE \/ RecoverScan(w) \/ RecoverReread(w) \/ RecoverUnmarked(w)
               \/ RecoverMarked(w) \/ Admit(w) \/ Claim(w) \/ PostClaim(w) \/ Verify(w)
               \/ PreFail(w) \/ Boundary(w) \/ LockCall(w) \/ LockFail(w) \/ FailPause(w)
               \/ Call(w) \/ Persist(w) \/ Reconcile(w) \/ Pause(w)
      <4>1. UNCHANGED run /\ pc[w] # "idle"
        BY <3>4
        DEF RecoverScan, RecoverReread, RecoverUnmarked, RecoverMarked, Admit, Claim,
            PostClaim, Verify, PreFail, Boundary, LockCall, LockFail, FailPause, Call,
            Persist, Reconcile, Pause, ctl
      <4> QED BY <4>1 DEF OneActive
    <3> QED BY <1>1, <3>1, <3>2, <3>3, <3>4, NoDeadlock DEF WorkerStep
  <2> QED BY <2>1, <2>2 DEF OneActive
<1>2. CASE OperatorStep
  BY <1>2
  DEF OneActive, OperatorStep, LoadRequest, CommitRequest, DirectRequest, Write,
      CreatePermit, RevokePermit, SetControl, ReconcileBuffer, PinConfirmed,
      CancelUnknown, ctl, wrk
<1>3. CASE Tick
  <2>1. \A r \in RunType, b \in BOOLEAN : /\ [r EXCEPT !.stale = b].holder = r.holder
                                          /\ [r EXCEPT !.stale = b].stale = b
    BY DEF RunType
  <2>2. run' = [run EXCEPT !.stale = run.holder # None /\ Silent(run.holder)]
        /\ UNCHANGED pc
    BY <1>3 DEF Tick, wrk
  <2>3. ASSUME NEW w \in Workers, pc[w] # "idle" PROVE run'.holder = w /\ ~run'.stale
    <3>1. run.holder = w /\ ~Silent(w)
      BY <2>3 DEF OneActive, Silent
    <3>2. run' = [run EXCEPT !.stale = FALSE]
      BY <2>2, <3>1
    <3> QED BY <2>1, <3>1, <3>2 DEF TypeInv, TypeOK
  <2> QED BY <2>2, <2>3 DEF OneActive
<1>4. CASE \/ (\E p \in Pubs : BecomesDue(p)) \/ (\E a \in Attempts : BufferProgress(a))
           \/ UNCHANGED vars
  BY <1>4 DEF OneActive, BecomesDue, BufferProgress, vars, ctl, wrk
<1> QED BY <1>1, <1>2, <1>3, <1>4 DEF Next

-----------------------------------------------------------------------------
(* The invariant.                                                              *)

(* Attempts are a history whose latest one alone may be open, and it is open   *)
(* while its publication is PUBLISHING (or was cancelled under it).            *)
Fresh  == \A a \in Attempts : a[2] > nAtt[a[1]] => att[a].status = "none" /\ ~att[a].marked
Backed == \A a \in Attempts : att[a].status = "STARTED" =>
  a[2] = nAtt[a[1]] /\ status[a[1]] \in {"PUBLISHING", "CANCELLED"}
Latest == \A p \in Pubs : status[p] = "PUBLISHING" =>
  nAtt[p] > 0 /\ att[<<p, nAtt[p]>>].status = "STARTED"

(* Only past a boundary does Buffer hear of an attempt, and what it may have   *)
(* made a pin is the latest attempt of a publication nobody calls retryable.   *)
CallMarks  == \A a \in Attempts : remote[a] # "none" => att[a].marked
LiveLatest == \A a \in Attempts : Live(a) =>
  /\ a[2] = nAtt[a[1]]
  /\ att[a].status \in {"STARTED", "UNKNOWN", "SUCCEEDED"}
  /\ status[a[1]] \in {"PUBLISHING", "PUBLISH_UNKNOWN", "PUBLISHED", "CANCELLED"}

RowInv == Fresh /\ Backed /\ Latest /\ CallMarks /\ LiveLatest

(* Between its claim and its outcome a worker's attempt is open, and unknown   *)
(* to Buffer until the call; the claims in a recovery's hands are open too,    *)
(* and past their boundary if the recovery has read so.                        *)
Holding == {"post", "verify", "prefail", "boundary", "locking", "lockfail", "call", "persist"}

WorkerOK(w) ==
  /\ pc[w] \in Holding => att[Mine(w)].status = "STARTED"
  /\ pc[w] \in Holding \ {"persist"} => remote[Mine(w)] = "none"
  /\ pc[w] = "persist" /\ DefinitiveFailure(job[w].res) => ~Live(Mine(w))
  /\ pc[w] \in {"rewrite", "reread"} => \A a \in rec[w].left : att[a].status = "STARTED"
  /\ pc[w] = "rewrite" => /\ rec[w].cur \notin rec[w].left
                          /\ att[rec[w].cur].status = "STARTED"
                          /\ rec[w].marked = att[rec[w].cur].marked

(* What a pending request has read of a publication it may schedule again      *)
(* still stands.                                                               *)
SeenStands == \A o \in Operators : req[o] # NoReq =>
  /\ RequestRaces
  /\ Accepts(req[o].kind, req[o].seen)
  /\ req[o].seen \in {"APPROVED", "PUBLISH_FAILED"} => status[req[o].pub] = req[o].seen

RetryInv == RowInv /\ (\A w \in Workers : WorkerOK(w)) /\ SeenStands

LEMMA RetryInit == Init => OneActive /\ RetryInv
<1> SUFFICES ASSUME Init PROVE OneActive /\ RetryInv
  OBVIOUS
<1>1. OneActive /\ \A w \in Workers : WorkerOK(w)
  BY DEF Init, OneActive, WorkerOK, Holding
<1>2. RowInv
  BY DEF Init, RowInv, Fresh, Backed, Latest, CallMarks, LiveLatest, Live, NoAttempt
<1>3. SeenStands
  BY DEF Init, SeenStands
<1> QED BY <1>1, <1>2, <1>3 DEF RetryInv

-----------------------------------------------------------------------------
(* How the rows may change: not at all, or one attempt resolved with its       *)
(* publication.                                                                *)

SameAttempts == \A a \in Attempts :
  att'[a].status = att[a].status /\ att'[a].marked = att[a].marked

LEMMA SameRows ==
  ASSUME TypeInv, RowInv, SameAttempts, UNCHANGED <<status, nAtt, remote>>
  PROVE  RowInv'
<1>1. \A p \in Pubs : status[p] = "PUBLISHING" => <<p, nAtt[p]>> \in Attempts
  BY DEF RowInv, Latest, Attempts, TypeInv, TypeOK
<1> QED BY <1>1 DEF RowInv, Fresh, Backed, Latest, CallMarks, LiveLatest, Live, SameAttempts

Resolved(a, s, t) ==
  /\ \A p \in Pubs : status'[p] = IF p = a[1] THEN s ELSE status[p]
  /\ \A b \in Attempts : att'[b].status = IF b = a THEN t ELSE att[b].status
  /\ \A b \in Attempts : att'[b].marked = att[b].marked

LEMMA ResolveFacts ==
  ASSUME TypeInv, NEW a \in Attempts, NEW s, NEW t, Resolve(a, s, t)
  PROVE  Resolved(a, s, t)
<1>1. \A x \in AttemptType : /\ [x EXCEPT !.status = t, !.old = FALSE].status = t
                             /\ [x EXCEPT !.status = t, !.old = FALSE].marked = x.marked
  BY DEF AttemptType
<1>2. a[1] \in Pubs
  BY DEF Attempts
<1> QED BY <1>1, <1>2 DEF Resolve, Resolved, TypeInv, TypeOK

LEMMA AttemptTypes ==
  ASSUME TypeInv, NEW a \in Attempts
  PROVE  /\ a[1] \in Pubs /\ a[2] \in 1..MaxAttempts /\ a = <<a[1], a[2]>>
         /\ nAtt[a[1]] \in Nat
BY DEF Attempts, TypeInv, TypeOK

LEMMA ResolvedRows ==
  ASSUME TypeInv, RowInv, NEW a \in Attempts, a[2] = nAtt[a[1]],
         NEW s \in {"PUBLISH_FAILED", "PUBLISH_UNKNOWN", "PUBLISHED"},
         NEW t \in {"FAILED", "UNKNOWN", "SUCCEEDED"},
         s = "PUBLISH_FAILED" \/ t = "FAILED" => ~Live(a),
         Resolved(a, s, t), UNCHANGED <<nAtt, remote>>
  PROVE  RowInv'
<1>1. \A b \in Attempts : b[1] = a[1] /\ b[2] = nAtt[b[1]] => b = a
  BY AttemptTypes
<1>2. \A b \in Attempts : b[1] \in Pubs
  BY AttemptTypes
<1>3. Fresh' /\ CallMarks'
  <2>1. ~(a[2] > nAtt[a[1]])
    BY AttemptTypes
  <2> QED BY <1>2, <2>1 DEF RowInv, Fresh, CallMarks, Resolved
<1>4. Backed'
  BY <1>1, <1>2 DEF RowInv, Backed, Resolved
<1>5. Latest'
  <2> SUFFICES ASSUME NEW p \in Pubs, status'[p] = "PUBLISHING"
               PROVE  nAtt[p] > 0 /\ att'[<<p, nAtt[p]>>].status = "STARTED"
    BY DEF Latest
  <2>1. p # a[1] /\ status[p] = "PUBLISHING"
    BY DEF Resolved
  <2>2. nAtt[p] > 0 /\ att[<<p, nAtt[p]>>].status = "STARTED"
    BY <2>1 DEF RowInv, Latest
  <2>3. <<p, nAtt[p]>> \in Attempts /\ <<p, nAtt[p]>> # a
    BY <2>1, <2>2 DEF TypeInv, TypeOK, Attempts
  <2> QED BY <2>2, <2>3 DEF Resolved
<1>6. LiveLatest'
  <2> SUFFICES ASSUME NEW b \in Attempts, Live(b)
               PROVE  /\ b[2] = nAtt[b[1]]
                      /\ att'[b].status \in {"STARTED", "UNKNOWN", "SUCCEEDED"}
                      /\ status'[b[1]] \in {"PUBLISHING", "PUBLISH_UNKNOWN", "PUBLISHED",
                                            "CANCELLED"}
    BY DEF LiveLatest, Live
  <2>1. CASE b = a
    BY <1>2, <2>1 DEF RowInv, LiveLatest, Resolved
  <2>2. CASE b # a
    <3>1. b[1] # a[1]
      BY <1>1, <2>2 DEF RowInv, LiveLatest
    <3> QED BY <1>2, <2>2, <3>1 DEF RowInv, LiveLatest, Resolved
  <2> QED BY <2>1, <2>2
<1> QED BY <1>3, <1>4, <1>5, <1>6 DEF RowInv

LEMMA MarkedRows ==
  ASSUME TypeInv, RowInv, NEW a \in Attempts, a[2] <= nAtt[a[1]],
         \A b \in Attempts : /\ att'[b].status = att[b].status
                             /\ att'[b].marked = (att[b].marked \/ b = a),
         UNCHANGED <<status, nAtt, remote>>
  PROVE  RowInv'
<1>1. \A p \in Pubs : status[p] = "PUBLISHING" => <<p, nAtt[p]>> \in Attempts
  BY DEF RowInv, Latest, Attempts, TypeInv, TypeOK
<1>2. ~(a[2] > nAtt[a[1]])
  BY AttemptTypes
<1>3. Fresh'
  BY <1>2 DEF RowInv, Fresh
<1>4. Backed' /\ Latest' /\ CallMarks'
  BY <1>1 DEF RowInv, Backed, Latest, CallMarks
<1>5. LiveLatest'
  BY DEF RowInv, LiveLatest, Live
<1> QED BY <1>3, <1>4, <1>5 DEF RowInv

(* Buffer hears of an open attempt, or answers for one it had queued.          *)
LEMMA CalledRows ==
  ASSUME TypeInv, RowInv, NEW a \in Attempts, NEW e \in {"none", "pending", "sent", "error"},
         att[a].status = "STARTED" \/ Live(a), att[a].marked,
         remote' = [remote EXCEPT ![a] = e], UNCHANGED <<status, nAtt, att>>
  PROVE  RowInv'
<1>1. \A b \in Attempts : remote'[b] = IF b = a THEN e ELSE remote[b]
  BY DEF TypeInv, TypeOK
<1>2. Fresh' /\ Backed' /\ Latest'
  BY DEF RowInv, Fresh, Backed, Latest
<1>3. CallMarks'
  BY <1>1 DEF RowInv, CallMarks
<1>4. LiveLatest'
  BY <1>1 DEF RowInv, Backed, LiveLatest, Live
<1> QED BY <1>2, <1>3, <1>4 DEF RowInv

(* A request or a reconciliation writes a publication that has no open claim;  *)
(* what has a pin is not made retryable.                                       *)
LEMMA WrittenRows ==
  ASSUME TypeInv, RowInv, NEW p \in Pubs, NEW s \in Statuses \ {"PUBLISHING"},
         status' = [status EXCEPT ![p] = s],
         \/ s = "CANCELLED"
         \/ s = "SCHEDULED" /\ status[p] \in {"APPROVED", "PUBLISH_FAILED", "SCHEDULED"}
         \/ s = "PUBLISHED" /\ status[p] = "PUBLISH_UNKNOWN",
         UNCHANGED <<nAtt, att, remote>>
  PROVE  RowInv'
<1>1. \A q \in Pubs : status'[q] = IF q = p THEN s ELSE status[q]
  BY DEF TypeInv, TypeOK
<1>2. \A b \in Attempts : b[1] \in Pubs
  BY AttemptTypes
<1>3. Fresh' /\ CallMarks'
  BY DEF RowInv, Fresh, CallMarks
<1>4. Latest'
  BY <1>1 DEF RowInv, Latest
<1>5. Backed' /\ LiveLatest'
  BY <1>1, <1>2 DEF RowInv, Backed, LiveLatest, Live
<1> QED BY <1>3, <1>4, <1>5 DEF RowInv

LEMMA ClaimedRows ==
  ASSUME TypeInv, RowInv, NEW w \in Workers, Claim(w), Claimable(job[w].pub, job[w].gen)
  PROVE  /\ RowInv'
         /\ Mine(w)' \in Attempts
         /\ att'[Mine(w)'].status = "STARTED" /\ remote'[Mine(w)'] = "none"
         /\ \A q \in Pubs : status[q] \in {"APPROVED", "PUBLISH_FAILED"} => status'[q] = status[q]
<1> DEFINE p == job[w].pub
           n == nAtt[p] + 1
           a == <<p, n>>
<1>0. p \in Pubs /\ nAtt[p] \in Nat /\ n \in 1..MaxAttempts /\ a \in Attempts
  BY DEF TypeInv, TypeOK, JobOK, Claim, Claimable, Attempts
<1>1. /\ status[p] = "SCHEDULED"
      /\ status' = [status EXCEPT ![p] = "PUBLISHING"]
      /\ nAtt' = [nAtt EXCEPT ![p] = n]
      /\ att' = [att EXCEPT ![a] = Started(job[w].gen)]
      /\ job' = [job EXCEPT ![w].n = n]
      /\ remote' = remote
  BY DEF Claim, Claimable, env
<1>2. /\ \A q \in Pubs : status'[q] = IF q = p THEN "PUBLISHING" ELSE status[q]
      /\ \A q \in Pubs : nAtt'[q] = IF q = p THEN n ELSE nAtt[q]
  BY <1>0, <1>1 DEF TypeInv, TypeOK
<1>3. /\ \A b \in Attempts \ {a} : att'[b] = att[b]
      /\ att'[a].status = "STARTED" /\ att'[a].marked = FALSE
  BY <1>0, <1>1 DEF TypeInv, TypeOK, Started
<1>4. remote[a] = "none"
  BY <1>0 DEF RowInv, Fresh, CallMarks
<1>5. \A b \in Attempts : /\ b[1] \in Pubs /\ b[2] \in Nat
                          /\ b[1] = p /\ b[2] = n => b = a
  BY AttemptTypes
<1>6. \A b \in Attempts : b[1] = p => att[b].status # "STARTED" /\ ~Live(b)
  BY <1>1 DEF RowInv, Backed, LiveLatest
<1>7. Fresh'
  BY <1>0, <1>2, <1>3, <1>5 DEF RowInv, Fresh
<1>8. Backed'
  BY <1>0, <1>2, <1>3, <1>5, <1>6 DEF RowInv, Backed
<1>9. Latest'
  <2> SUFFICES ASSUME NEW q \in Pubs, status'[q] = "PUBLISHING"
               PROVE  nAtt'[q] > 0 /\ att'[<<q, nAtt'[q]>>].status = "STARTED"
    BY DEF Latest
  <2>1. CASE q = p
    BY <1>0, <1>2, <1>3, <2>1
  <2>2. CASE q # p
    <3>1. nAtt[q] > 0 /\ att[<<q, nAtt[q]>>].status = "STARTED" /\ nAtt'[q] = nAtt[q]
      BY <1>2, <2>2 DEF RowInv, Latest
    <3>2. <<q, nAtt[q]>> \in Attempts \ {a}
      BY <2>2, <3>1 DEF TypeInv, TypeOK, Attempts
    <3> QED BY <1>3, <3>1, <3>2
  <2> QED BY <2>1, <2>2
<1>10. CallMarks'
  BY <1>1, <1>3, <1>4 DEF RowInv, CallMarks
<1>11. LiveLatest'
  <2> SUFFICES ASSUME NEW b \in Attempts, Live(b)
               PROVE  /\ b[2] = nAtt'[b[1]]
                      /\ att'[b].status \in {"STARTED", "UNKNOWN", "SUCCEEDED"}
                      /\ status'[b[1]] \in {"PUBLISHING", "PUBLISH_UNKNOWN", "PUBLISHED",
                                            "CANCELLED"}
    BY <1>1 DEF LiveLatest, Live
  <2>1. b[1] # p /\ b # a
    BY <1>4, <1>6 DEF Live
  <2> QED BY <1>2, <1>3, <1>5, <2>1 DEF RowInv, LiveLatest
<1>12. Mine(w)' = a
  <2>1. job'[w].pub = p /\ job'[w].n = n
    BY <1>1 DEF TypeInv, TypeOK, JobType
  <2> QED BY <2>1 DEF Mine
<1>13. \A q \in Pubs : status[q] \in {"APPROVED", "PUBLISH_FAILED"} => status'[q] = status[q]
  BY <1>1, <1>2
<1> HIDE DEF p, n, a
<1> QED BY <1>0, <1>1, <1>3, <1>4, <1>7, <1>8, <1>9, <1>10, <1>11, <1>12, <1>13 DEF RowInv

-----------------------------------------------------------------------------
(* The steps of a worker.                                                      *)

RetryableStays == \A p \in Pubs :
  status[p] \in {"APPROVED", "PUBLISH_FAILED"} => status'[p] = status[p]

Keeps(w) == RowInv' /\ WorkerOK(w)' /\ RetryableStays

(* The labels at which a worker holds nothing that WorkerOK speaks of.         *)
Bare == {"idle", "scan", "due", "select", "admit", "claim", "failpause", "reconcile",
         "pause", "finish"}

LEMMA BareOK ==
  ASSUME NEW w \in Workers, pc'[w] \in Bare
  PROVE  WorkerOK(w)'
BY DEF WorkerOK, Bare, Holding

LEMMA QuietRows ==
  ASSUME TypeInv, RowInv, UNCHANGED <<status, nAtt, att, remote>>
  PROVE  RowInv' /\ RetryableStays
BY SameRows DEF SameAttempts, RetryableStays

LEMMA QuietKeeps ==
  ASSUME TypeInv, RetryInv, NEW w \in Workers,
         \/ StartRun(w) \/ DueScan(w) \/ Select(w) \/ Admit(w) \/ FailPause(w)
         \/ Pause(w) \/ Finish(w) \/ Crash(w)
  PROVE  Keeps(w)
<1>1. UNCHANGED <<status, nAtt, att, remote>>
  BY DEF StartRun, DueScan, Select, Admit, FailPause, Pause, Finish, Crash, db, row, env
<1>2. pc'[w] \in Bare
  <2>1. CASE StartRun(w) \/ DueScan(w) \/ Select(w) \/ Admit(w)
    BY <2>1 DEF TypeInv, TypeOK, StartRun, DueScan, Select, Admit, SkipJob, Goto, Bare
  <2>2. CASE FailPause(w) \/ Pause(w) \/ Finish(w) \/ Crash(w)
    BY <2>2 DEF TypeInv, TypeOK, FailPause, Pause, Finish, Crash, SkipJob, Goto, Bare
  <2> QED BY <2>1, <2>2
<1> QED BY <1>1, <1>2, BareOK, QuietRows DEF Keeps, RetryInv

LEMMA TakeRowKeeps ==
  ASSUME TypeInv, NEW w \in Workers, NEW rows \in SUBSET Attempts, TakeRow(w, rows),
         \A a \in rows : att[a].status = "STARTED", UNCHANGED att
  PROVE  WorkerOK(w)'
<1>1. CASE pc' = [pc EXCEPT ![w] = "due"]
  BY <1>1, BareOK DEF Bare, TypeInv, TypeOK
<1>2. ASSUME NEW a \in rows, pc' = [pc EXCEPT ![w] = "rewrite"],
             rec' = [rec EXCEPT ![w] = [left |-> rows \ {a}, cur |-> a, marked |-> att[a].marked]]
      PROVE  WorkerOK(w)'
  <2>1. pc'[w] = "rewrite" /\ rec'[w] = [left |-> rows \ {a}, cur |-> a, marked |-> att[a].marked]
    BY <1>2 DEF TypeInv, TypeOK
  <2> QED BY <2>1 DEF WorkerOK, Holding
<1> QED BY <1>1, <1>2 DEF TakeRow, Goto

LEMMA RecoverReadKeeps ==
  ASSUME TypeInv, RetryInv, NEW w \in Workers, RecoverScan(w) \/ RecoverReread(w)
  PROVE  Keeps(w)
<1>1. UNCHANGED <<status, nAtt, att, remote>>
  BY DEF RecoverScan, RecoverReread, db, row, env
<1>2. rec[w].left \in SUBSET Attempts
  BY RowFacts DEF TypeInv, TypeOK
<1>3. ASSUME RecoverScan(w) PROVE WorkerOK(w)'
  <2> DEFINE rows == {a \in rec[w].left : StillClaimed(a)}
  <2>1. rows \in SUBSET Attempts /\ \A a \in rows : att[a].status = "STARTED"
    BY <1>2 DEF StillClaimed
  <2>2. TakeRow(w, rows)
    BY <1>3 DEF RecoverScan
  <2> HIDE DEF rows
  <2> QED BY <1>1, <2>1, <2>2, TakeRowKeeps
<1>4. ASSUME RecoverReread(w) PROVE WorkerOK(w)'
  <2>1. \A a \in rec[w].left : att[a].status = "STARTED"
    BY <1>4 DEF RecoverReread, RetryInv, WorkerOK
  <2>2. TakeRow(w, rec[w].left)
    BY <1>4 DEF RecoverReread
  <2> QED BY <1>1, <1>2, <2>1, <2>2, TakeRowKeeps
<1> QED BY <1>1, <1>3, <1>4, QuietRows DEF Keeps, RetryInv

(* The claim in hand is open: it is the latest, and nothing is out there for   *)
(* it if its boundary was not passed.                                          *)
LEMMA RecoverWriteKeeps ==
  ASSUME TypeInv, RetryInv, NEW w \in Workers, RecoverUnmarked(w) \/ RecoverMarked(w)
  PROVE  Keeps(w)
<1> DEFINE a == rec[w].cur
<1>1. /\ a \in Attempts /\ a \notin rec[w].left
      /\ att[a].status = "STARTED" /\ rec[w].marked = att[a].marked
      /\ \A b \in rec[w].left : att[b].status = "STARTED"
      /\ rec[w].left \in SUBSET Attempts
  BY RowFacts
  DEF TypeInv, TypeOK, RowOK, RetryInv, WorkerOK, RecoverUnmarked, RecoverMarked
<1>2. a[2] = nAtt[a[1]] /\ status[a[1]] \in {"PUBLISHING", "CANCELLED"} /\ a[1] \in Pubs
  BY <1>1, AttemptTypes DEF RetryInv, RowInv, Backed
<1>3. UNCHANGED <<nAtt, remote, rec>> /\ pc'[w] = "reread"
  BY DEF RecoverUnmarked, RecoverMarked, env, Goto, TypeInv, TypeOK
<1>4. \/ Resolved(a, "PUBLISH_FAILED", "FAILED") /\ ~Live(a)
      \/ Resolved(a, "PUBLISH_UNKNOWN", "UNKNOWN")
  <2>1. CASE RecoverUnmarked(w)
    BY <1>1, <2>1, ResolveFacts DEF RecoverUnmarked, RetryInv, RowInv, CallMarks, Live
  <2>2. CASE RecoverMarked(w)
    BY <1>1, <2>2, ResolveFacts DEF RecoverMarked
  <2> QED BY <2>1, <2>2
<1> HIDE DEF a
<1>5. RowInv'
  BY <1>1, <1>2, <1>3, <1>4, ResolvedRows DEF RetryInv
<1>6. \A b \in rec[w].left : att'[b].status = "STARTED"
  BY <1>1, <1>4 DEF Resolved
<1>7. WorkerOK(w)'
  BY <1>3, <1>6 DEF WorkerOK, Holding
<1>8. RetryableStays
  BY <1>2, <1>4 DEF RetryableStays, Resolved
<1> QED BY <1>5, <1>7, <1>8 DEF Keeps

LEMMA ClaimKeeps ==
  ASSUME TypeInv, RetryInv, NEW w \in Workers, Claim(w)
  PROVE  Keeps(w)
<1>1. CASE Claimable(job[w].pub, job[w].gen)
  <2>1. pc'[w] = "post"
    BY <1>1 DEF Claim, Goto, TypeInv, TypeOK
  <2> QED BY <1>1, <2>1, ClaimedRows DEF Keeps, RetryInv, WorkerOK, Holding, RetryableStays
<1>2. CASE ~Claimable(job[w].pub, job[w].gen)
  <2>1. pc'[w] = "select" /\ UNCHANGED <<status, nAtt, att, remote>>
    BY <1>2 DEF Claim, SkipJob, Goto, TypeInv, TypeOK, env
  <2> QED BY <2>1, BareOK, QuietRows DEF Keeps, RetryInv, Bare
<1> QED BY <1>1, <1>2

(* Nothing changes but the label, from one before the call to another.         *)
LEMMA PassKeeps ==
  ASSUME TypeInv, RetryInv, NEW w \in Workers, PostClaim(w) \/ Verify(w) \/ LockCall(w)
  PROVE  Keeps(w)
<1>1. UNCHANGED <<status, nAtt, att, remote, job>>
  BY DEF PostClaim, Verify, LockCall, db, row, env
<1>2. /\ pc[w] \in {"post", "verify", "locking"}
      /\ pc'[w] \in {"verify", "boundary", "prefail", "call", "lockfail"}
  BY DEF PostClaim, Verify, LockCall, Goto, TypeInv, TypeOK
<1>3. WorkerOK(w)'
  BY <1>1, <1>2 DEF RetryInv, WorkerOK, Holding, Mine
<1> QED BY <1>1, <1>3, QuietRows DEF Keeps, RetryInv

(* The attempt of a worker between its claim and its outcome.                  *)
LEMMA HeldAttempt ==
  ASSUME TypeInv, RetryInv, NEW w \in Workers, pc[w] \in Holding
  PROVE  /\ Mine(w) \in Attempts /\ Mine(w)[1] = job[w].pub /\ job[w].pub \in Pubs
         /\ att[Mine(w)].status = "STARTED"
         /\ Mine(w)[2] = nAtt[Mine(w)[1]]
         /\ status[job[w].pub] \in {"PUBLISHING", "CANCELLED"}
         /\ pc[w] # "persist" => ~Live(Mine(w))
<1>1. Mine(w) \in Attempts /\ Mine(w)[1] = job[w].pub /\ job[w].pub \in Pubs
  BY MineType DEF Holding, Claimed
<1>2. att[Mine(w)].status = "STARTED" /\ (pc[w] # "persist" => remote[Mine(w)] = "none")
  BY DEF RetryInv, WorkerOK
<1> QED BY <1>1, <1>2 DEF RetryInv, RowInv, Backed, Live

LEMMA PreFailKeeps ==
  ASSUME TypeInv, RetryInv, NEW w \in Workers, PreFail(w)
  PROVE  Keeps(w)
<1>1. pc'[w] \in {"select", "finish"} /\ UNCHANGED <<nAtt, remote>>
  BY DEF PreFail, SkipJob, Goto, TypeInv, TypeOK, env
<1>2. pc[w] \in Holding /\ pc[w] # "persist"
  BY DEF PreFail, Holding
<1>3. CASE Resolve(Mine(w), "PUBLISH_FAILED", "FAILED")
  <2>1. Resolved(Mine(w), "PUBLISH_FAILED", "FAILED")
    BY <1>2, <1>3, HeldAttempt, ResolveFacts
  <2>2. RowInv'
    BY <1>1, <1>2, <2>1, HeldAttempt, ResolvedRows DEF RetryInv
  <2>3. RetryableStays
    BY <1>2, <2>1, HeldAttempt DEF RetryableStays, Resolved
  <2> QED BY <1>1, <2>2, <2>3, BareOK DEF Keeps, Bare
<1>4. CASE UNCHANGED <<status, att>>
  BY <1>1, <1>4, BareOK, QuietRows DEF Keeps, Bare, RetryInv
<1> QED BY <1>3, <1>4 DEF PreFail

LEMMA LockFailKeeps ==
  ASSUME TypeInv, RetryInv, NEW w \in Workers, LockFail(w)
  PROVE  Keeps(w)
<1>1. pc'[w] \in {"failpause", "finish"} /\ UNCHANGED <<nAtt, remote>>
  BY DEF LockFail, Goto, TypeInv, TypeOK, env
<1>2. pc[w] \in Holding /\ pc[w] # "persist"
  BY DEF LockFail, Holding
<1>3. CASE Resolve(Mine(w), "PUBLISH_UNKNOWN", "UNKNOWN")
  <2>1. Resolved(Mine(w), "PUBLISH_UNKNOWN", "UNKNOWN")
    BY <1>2, <1>3, HeldAttempt, ResolveFacts
  <2>2. RowInv'
    BY <1>1, <1>2, <2>1, HeldAttempt, ResolvedRows DEF RetryInv
  <2>3. RetryableStays
    BY <1>2, <2>1, HeldAttempt DEF RetryableStays, Resolved
  <2> QED BY <1>1, <2>2, <2>3, BareOK DEF Keeps, Bare
<1>4. CASE UNCHANGED <<status, att>>
  BY <1>1, <1>4, BareOK, QuietRows DEF Keeps, Bare, RetryInv
<1> QED BY <1>3, <1>4 DEF LockFail

LEMMA BoundaryKeeps ==
  ASSUME TypeInv, RetryInv, NEW w \in Workers, Boundary(w)
  PROVE  Keeps(w)
<1> DEFINE a == Mine(w)
<1>1. /\ pc[w] \in Holding /\ pc[w] # "persist"
      /\ UNCHANGED <<status, nAtt, remote>>
  BY DEF Boundary, Holding, row, env
<1>2. CASE UNCHANGED att
  <2>1. pc'[w] \in {"select", "locking"} /\ (pc'[w] = "locking" => UNCHANGED job)
    BY DEF Boundary, SkipJob, Goto, TypeInv, TypeOK
  <2>2. WorkerOK(w)'
    BY <1>1, <1>2, <2>1, BareOK DEF RetryInv, WorkerOK, Holding, Mine, Bare
  <2> QED BY <1>1, <1>2, <2>2, QuietRows DEF Keeps, RetryInv
<1>3. CASE /\ att' = [att EXCEPT ![a].marked = TRUE]
           /\ Goto(w, "locking") /\ UNCHANGED job
  <2>1. \A x \in AttemptType : /\ [x EXCEPT !.marked = TRUE].status = x.status
                               /\ [x EXCEPT !.marked = TRUE].marked = TRUE
                               /\ x.marked \in BOOLEAN
    BY DEF AttemptType
  <2>2. \A b \in Attempts : att'[b] = IF b = a THEN [att[a] EXCEPT !.marked = TRUE] ELSE att[b]
    BY <1>3 DEF TypeInv, TypeOK
  <2>3. \A b \in Attempts : /\ att'[b].status = att[b].status
                            /\ att'[b].marked = (att[b].marked \/ b = a)
    <3>1. \A b \in Attempts : att[b] \in AttemptType
      BY DEF TypeInv, TypeOK
    <3> HIDE DEF a
    <3>2. ASSUME NEW b \in Attempts, b = a
          PROVE  att'[b].status = att[b].status /\ att'[b].marked = TRUE
      BY ZenonT(30), <2>1, <2>2, <3>1, <3>2
    <3>3. ASSUME NEW b \in Attempts, b # a
          PROVE  att'[b] = att[b] /\ att[b].marked \in BOOLEAN
      BY <2>1, <2>2, <3>1, <3>3
    <3>4. \A b \in Attempts : att'[b].status = att[b].status
      BY <3>2, <3>3
    <3>5. \A b \in Attempts : att'[b].marked = (att[b].marked \/ b = a)
      BY <3>2, <3>3, Zenon
    <3> QED BY <3>4, <3>5
  <2>4. a[2] <= nAtt[a[1]]
    BY <1>1, HeldAttempt, AttemptTypes
  <2>5. RowInv'
    BY <1>1, <2>3, <2>4, HeldAttempt, MarkedRows DEF RetryInv
  <2>6. Mine(w)' = a /\ pc'[w] = "locking"
    BY <1>3 DEF Mine, Goto, TypeInv, TypeOK
  <2>7. att'[a].status = "STARTED" /\ remote'[a] = "none"
    BY <1>1, <2>3, HeldAttempt DEF RetryInv, WorkerOK
  <2>8. WorkerOK(w)'
    BY <2>6, <2>7 DEF WorkerOK, Holding
  <2> QED BY <1>1, <2>5, <2>8 DEF Keeps, RetryableStays
<1> QED BY <1>2, <1>3 DEF Boundary

(* The provider answers that it made no post, or the post is in its hands.     *)
LEMMA CallKeeps ==
  ASSUME TypeInv, RetryInv, CallUnderLock, NEW w \in Workers, Call(w)
  PROVE  Keeps(w)
<1>0. PICK r \in Results : \E e \in Effects(r) :
        remote' = [remote EXCEPT ![Mine(w)] = e] /\ job' = [job EXCEPT ![w].res = r]
  BY DEF Call
<1>1. PICK e \in Effects(r) :
        remote' = [remote EXCEPT ![Mine(w)] = e] /\ job' = [job EXCEPT ![w].res = r]
  BY <1>0
<1>2. pc[w] \in Holding /\ pc'[w] = "persist" /\ UNCHANGED <<status, nAtt, att>>
  BY DEF Call, Holding, Goto, TypeInv, TypeOK, db, row
<1>3. Mine(w) \in Attempts /\ att[Mine(w)].status = "STARTED" /\ att[Mine(w)].marked
  BY <1>2, HeldAttempt DEF CallUnderLock, InCall, Call
<1>4. /\ e \in {"none", "pending", "sent", "error"}
      /\ DefinitiveFailure(r) => e \notin {"pending", "sent"}
  BY DEF Results, Effects, DefinitiveFailure
<1>5. RowInv'
  BY <1>1, <1>2, <1>3, <1>4, CalledRows DEF RetryInv
<1>6. Mine(w)' = Mine(w) /\ job'[w].res = r
  BY <1>1 DEF Mine, TypeInv, TypeOK, JobType
<1>7. remote'[Mine(w)] = e
  BY <1>1, <1>3 DEF TypeInv, TypeOK
<1>8. WorkerOK(w)'
  BY <1>2, <1>3, <1>4, <1>6, <1>7 DEF WorkerOK, Holding, Live
<1> QED BY <1>2, <1>5, <1>8 DEF Keeps, RetryableStays

(* What Buffer refused for certain is a failure; anything else stays unknown.  *)
LEMMA PersistKeeps ==
  ASSUME TypeInv, RetryInv, NEW w \in Workers, Persist(w)
  PROVE  Keeps(w)
<1> DEFINE a == Mine(w)
           r == job[w].res
           s == IF DefinitiveFailure(r) THEN "PUBLISH_FAILED" ELSE "PUBLISH_UNKNOWN"
           t == IF DefinitiveFailure(r) THEN "FAILED" ELSE "UNKNOWN"
           b == r \in {"error", "sent", "pending"}
<1>1. /\ pc'[w] \in {"select", "reconcile", "pause", "finish"}
      /\ UNCHANGED <<nAtt, remote>>
  BY DEF Persist, SkipJob, Goto, TypeInv, TypeOK, env
<1>2. /\ pc[w] = "persist" /\ pc[w] \in Holding
      /\ a \in Attempts /\ a[2] = nAtt[a[1]] /\ a[1] \in Pubs
  BY HeldAttempt DEF Persist, Holding
<1>3. CASE /\ StillClaimed(a)
           /\ status' = [status EXCEPT ![a[1]] = s]
           /\ att' = [att EXCEPT ![a] = [@ EXCEPT !.status = t, !.op = b, !.old = FALSE]]
  <2>1. \A x \in AttemptType :
          /\ [x EXCEPT !.status = t, !.op = b, !.old = FALSE].status = t
          /\ [x EXCEPT !.status = t, !.op = b, !.old = FALSE].marked = x.marked
    BY DEF AttemptType
  <2>2. DefinitiveFailure(r) => ~Live(a)
    BY <1>2 DEF RetryInv, WorkerOK
  <2>3. /\ s \in {"PUBLISH_FAILED", "PUBLISH_UNKNOWN", "PUBLISHED"}
        /\ t \in {"FAILED", "UNKNOWN", "SUCCEEDED"}
        /\ s = "PUBLISH_FAILED" \/ t = "FAILED" => ~Live(a)
    BY <2>2
  <2> HIDE DEF s, t, b, a, r
  <2>4. Resolved(a, s, t)
    BY <1>2, <1>3, <2>1 DEF Resolved, TypeInv, TypeOK
  <2>5. RowInv'
    BY <1>1, <1>2, <2>3, <2>4, ResolvedRows DEF RetryInv
  <2>6. RetryableStays
    BY <1>2, <1>3, <2>4 DEF RetryableStays, Resolved, StillClaimed
  <2> QED BY <1>1, <2>5, <2>6, BareOK DEF Keeps, Bare
<1>4. CASE UNCHANGED <<status, att>>
  BY <1>1, <1>4, BareOK, QuietRows DEF Keeps, Bare, RetryInv
<1> QED BY <1>3, <1>4 DEF Persist

LEMMA ConfirmedRows ==
  ASSUME TypeInv, RetryInv, NEW p \in Pubs, Reconcilable(p), ConfirmPin(p),
         UNCHANGED <<nAtt, remote>>
  PROVE  RowInv' /\ RetryableStays
<1> DEFINE a == <<p, 1>>
<1>1. a \in Attempts /\ a[1] = p /\ a[2] = nAtt[a[1]]
  BY DEF Reconcilable, Attempts, TypeInv, TypeOK
<1> HIDE DEF a
<1>2. Resolved(a, "PUBLISHED", "SUCCEEDED")
  BY <1>1, ResolveFacts DEF ConfirmPin, a
<1>3. RowInv'
  BY <1>1, <1>2, ResolvedRows DEF RetryInv
<1> QED BY <1>1, <1>2, <1>3 DEF RetryableStays, Resolved, Reconcilable

LEMMA ReconcileKeeps ==
  ASSUME TypeInv, RetryInv, NEW w \in Workers, Reconcile(w)
  PROVE  Keeps(w)
<1>1. pc'[w] \in {"select", "pause"} /\ UNCHANGED <<nAtt, remote>>
  BY DEF Reconcile, SkipJob, Goto, TypeInv, TypeOK, env
<1>2. CASE Reconcilable(job[w].pub) /\ ConfirmPin(job[w].pub)
  <2>1. job[w].pub \in Pubs
    BY MineType DEF Reconcile, Claimed
  <2> QED BY <1>1, <1>2, <2>1, ConfirmedRows, BareOK DEF Keeps, Bare
<1>3. CASE UNCHANGED <<status, att>>
  BY <1>1, <1>3, BareOK, QuietRows DEF Keeps, Bare, RetryInv
<1> QED BY <1>2, <1>3 DEF Reconcile

LEMMA WorkerKeeps ==
  ASSUME TypeInv, CallUnderLock, OneActive, RetryInv, NEW w \in Workers,
         StartRun(w) \/ WorkerStep(w) \/ Crash(w)
  PROVE  Keeps(w)
BY NoDeadlock, QuietKeeps, RecoverReadKeeps, RecoverWriteKeeps, ClaimKeeps, PassKeeps,
   PreFailKeeps, BoundaryKeeps, LockFailKeeps, CallKeeps, PersistKeeps, ReconcileKeeps
DEF WorkerStep

-----------------------------------------------------------------------------
(* The steps of everybody else.                                                *)

LEMMA WorkerUndisturbed ==
  ASSUME TypeInv, RetryInv, NEW w \in Workers, UNCHANGED wrk,
         \A a \in Attempts : att[a].status = "STARTED" => att'[a].status = "STARTED",
         \A a \in Attempts : att'[a].marked = att[a].marked,
         \A a \in Attempts : remote[a] = "none" => remote'[a] = "none",
         \A a \in Attempts : Live(a)' => Live(a)
  PROVE  WorkerOK(w)'
<1>1. UNCHANGED <<pc, rec, job>> /\ Mine(w)' = Mine(w)
  BY DEF wrk, Mine
<1>2. pc[w] \in Holding => Mine(w) \in Attempts
  BY MineType DEF Holding, Claimed
<1>3. rec[w].left \in SUBSET Attempts /\ (pc[w] = "rewrite" => rec[w].cur \in Attempts)
  BY RowFacts DEF TypeInv, TypeOK, RowOK
<1>4. WorkerOK(w)
  BY DEF RetryInv
<1>5. pc[w] \in Holding => att'[Mine(w)].status = "STARTED"
  BY <1>2, <1>4 DEF WorkerOK
<1>6. pc[w] \in Holding \ {"persist"} => remote'[Mine(w)] = "none"
  BY <1>2, <1>4 DEF WorkerOK
<1>7. pc[w] = "persist" /\ DefinitiveFailure(job[w].res) => ~Live(Mine(w))'
  BY <1>1, <1>2, <1>4 DEF WorkerOK, Holding, Live
<1>8. pc[w] \in {"rewrite", "reread"} => \A a \in rec[w].left : att'[a].status = "STARTED"
  BY <1>3, <1>4 DEF WorkerOK
<1>9. pc[w] = "rewrite" => /\ rec[w].cur \notin rec[w].left
                           /\ att'[rec[w].cur].status = "STARTED"
                           /\ rec[w].marked = att'[rec[w].cur].marked
  BY <1>3, <1>4 DEF WorkerOK
<1> QED BY <1>1, <1>5, <1>6, <1>7, <1>8, <1>9 DEF WorkerOK

(* No operator has a request under way but the one whose request this is.      *)
LEMMA SeenKept ==
  ASSUME TypeInv, RetryInv, RetryableStays, UNCHANGED req
  PROVE  SeenStands'
<1>1. \A o \in Operators : req[o] # NoReq => req[o].pub \in Pubs
  BY DEF TypeInv, ReqOK
<1> QED BY <1>1 DEF RetryInv, SeenStands, RetryableStays

LEMMA QuietRetry ==
  ASSUME TypeInv, RetryInv, UNCHANGED <<status, nAtt, att, remote, wrk, req>>
  PROVE  RetryInv'
<1>1. \A w \in Workers : WorkerOK(w)'
  BY WorkerUndisturbed DEF Live
<1> QED BY <1>1, QuietRows, SeenKept DEF RetryInv

LEMMA LoadRetry ==
  ASSUME TypeInv, RetryInv, NEW o \in Operators, LoadRequest(o)
  PROVE  RetryInv'
<1>1. UNCHANGED <<status, nAtt, att, remote, wrk>>
  BY DEF LoadRequest, db, row
<1>2. PICK p \in Pubs, kind \in {"schedule", "cancel"} :
        /\ Accepts(kind, status[p])
        /\ req' = [req EXCEPT ![o] = [kind |-> kind, pub |-> p, seen |-> status[p]]]
  BY DEF LoadRequest
<1>3. \A q \in Operators : req'[q] =
        IF q = o THEN [kind |-> kind, pub |-> p, seen |-> status[p]] ELSE req[q]
  BY <1>2 DEF TypeInv, TypeOK
<1>4. SeenStands'
  BY <1>1, <1>2, <1>3 DEF LoadRequest, RetryInv, SeenStands
<1>5. \A w \in Workers : WorkerOK(w)'
  BY <1>1, WorkerUndisturbed DEF Live
<1> QED BY <1>1, <1>4, <1>5, QuietRows DEF RetryInv

(* Write on a row that is still what the request has read of it, or was never  *)
(* one that the request makes retryable.                                       *)
LEMMA WriteRows ==
  ASSUME TypeInv, RowInv, NEW p \in Pubs, NEW kind, NEW seen,
         Accepts(kind, seen), Write(kind, p, seen),
         seen \in {"APPROVED", "PUBLISH_FAILED"} => status[p] = seen
  PROVE  RowInv' /\ UNCHANGED <<nAtt, att, remote, wrk>>
<1>1. UNCHANGED <<nAtt, att, remote, wrk>>
  BY DEF Write
<1>2. CASE kind = "schedule" /\ seen = "SCHEDULED"
  <2>1. status' = status
    BY <1>2 DEF Write, TypeInv, TypeOK
  <2> QED BY <1>1, <2>1, QuietRows
<1>3. CASE kind = "schedule" /\ seen # "SCHEDULED"
  <2>1. status' = [status EXCEPT ![p] = "SCHEDULED"] /\ status[p] \in {"APPROVED", "PUBLISH_FAILED"}
    BY <1>3 DEF Write, Accepts
  <2> QED BY <1>1, <2>1, WrittenRows DEF Statuses
<1>4. CASE kind = "cancel"
  <2>1. status' = [status EXCEPT ![p] = "CANCELLED"]
    BY <1>4 DEF Write
  <2> QED BY <1>1, <2>1, WrittenRows DEF Statuses
<1> QED BY <1>1, <1>2, <1>3, <1>4 DEF Write

LEMMA CommitRetry ==
  ASSUME OneRequest, TypeInv, RetryInv, NEW o \in Operators, CommitRequest(o)
  PROVE  RetryInv'
<1>1. /\ RequestRaces /\ req[o].pub \in Pubs
      /\ Accepts(req[o].kind, req[o].seen)
      /\ req[o].seen \in {"APPROVED", "PUBLISH_FAILED"} => status[req[o].pub] = req[o].seen
  BY DEF CommitRequest, RetryInv, SeenStands, TypeInv, ReqOK
<1>2. RowInv' /\ UNCHANGED <<nAtt, att, remote, wrk>>
  BY <1>1, WriteRows DEF CommitRequest, RetryInv
<1>3. \A q \in Operators : req'[q] = NoReq
  BY <1>1 DEF OneRequest, CommitRequest, TypeInv, TypeOK
<1>4. \A w \in Workers : WorkerOK(w)'
  BY <1>2, WorkerUndisturbed DEF Live
<1> QED BY <1>2, <1>3, <1>4 DEF RetryInv, SeenStands

LEMMA DirectRetry ==
  ASSUME TypeInv, RetryInv, NEW p \in Pubs, DirectRequest(p)
  PROVE  RetryInv'
<1>1. PICK kind \in {"schedule", "cancel"} :
        Accepts(kind, status[p]) /\ Write(kind, p, status[p])
  BY DEF DirectRequest
<1>2. RowInv' /\ UNCHANGED <<nAtt, att, remote, wrk>>
  BY <1>1, WriteRows DEF RetryInv
<1>3. \A q \in Operators : req'[q] = NoReq
  BY DEF DirectRequest, RetryInv, SeenStands
<1>4. \A w \in Workers : WorkerOK(w)'
  BY <1>2, WorkerUndisturbed DEF Live
<1> QED BY <1>2, <1>3, <1>4 DEF RetryInv, SeenStands

LEMMA ReconcileRetry ==
  ASSUME TypeInv, RetryInv, NEW p \in Pubs, ReconcileBuffer(p)
  PROVE  RetryInv'
<1> DEFINE a == <<p, 1>>
<1>1. UNCHANGED <<nAtt, remote, wrk, req>>
  BY DEF ReconcileBuffer, env
<1>2. /\ a \in Attempts /\ a[1] = p /\ a[2] = nAtt[a[1]]
      /\ att[a].status = "UNKNOWN" /\ status[p] = "PUBLISH_UNKNOWN"
  BY DEF ReconcileBuffer, Reconcilable, Attempts, TypeInv, TypeOK
<1>3. \/ Resolved(a, "PUBLISHED", "SUCCEEDED")
      \/ Resolved(a, "PUBLISH_FAILED", "FAILED") /\ ~Live(a)
  <2>1. CASE remote[a] = "sent" /\ ConfirmPin(p)
    BY <1>2, <2>1, ResolveFacts DEF ConfirmPin
  <2>2. CASE remote[a] = "error" /\ Resolve(a, "PUBLISH_FAILED", "FAILED")
    BY <1>2, <2>2, ResolveFacts DEF Live
  <2> QED BY <2>1, <2>2 DEF ReconcileBuffer
<1> HIDE DEF a
<1>4. RowInv'
  BY <1>1, <1>2, <1>3, ResolvedRows DEF RetryInv
<1>5. RetryableStays
  BY <1>2, <1>3 DEF RetryableStays, Resolved
<1>6. \A w \in Workers : WorkerOK(w)'
  <2>1. /\ \A b \in Attempts : att[b].status = "STARTED" => att'[b].status = "STARTED"
        /\ \A b \in Attempts : att'[b].marked = att[b].marked
    BY <1>2, <1>3 DEF Resolved
  <2> QED BY <1>1, <2>1, WorkerUndisturbed DEF Live
<1> QED BY <1>1, <1>4, <1>5, <1>6, SeenKept DEF RetryInv

LEMMA ManualRetry ==
  ASSUME TypeInv, RetryInv, NEW p \in Pubs, PinConfirmed(p) \/ CancelUnknown(p)
  PROVE  RetryInv'
<1>1. /\ UNCHANGED <<nAtt, att, remote, wrk, req>> /\ status[p] = "PUBLISH_UNKNOWN"
      /\ \E s \in {"PUBLISHED", "CANCELLED"} : status' = [status EXCEPT ![p] = s]
  BY DEF PinConfirmed, CancelUnknown, env
<1>2. RowInv'
  BY <1>1, WrittenRows DEF RetryInv, Statuses
<1>3. RetryableStays
  BY <1>1 DEF RetryableStays, TypeInv, TypeOK
<1>4. \A w \in Workers : WorkerOK(w)'
  BY <1>1, WorkerUndisturbed DEF Live
<1> QED BY <1>1, <1>2, <1>3, <1>4, SeenKept DEF RetryInv

LEMMA TickRetry ==
  ASSUME TypeInv, RetryInv, Tick
  PROVE  RetryInv'
<1>1. UNCHANGED <<status, nAtt, remote, wrk, req>>
  BY DEF Tick, row, env
<1>2. \A b \in BOOLEAN, x \in AttemptType : /\ [x EXCEPT !.old = b].status = x.status
                                            /\ [x EXCEPT !.old = b].marked = x.marked
  BY DEF AttemptType
<1>3. SameAttempts
  <2> SUFFICES ASSUME NEW a \in Attempts
               PROVE  att'[a].status = att[a].status /\ att'[a].marked = att[a].marked
    BY DEF SameAttempts
  <2> DEFINE b == att[a].status = "STARTED" /\ \A w \in Workers : Mine(w) = a => Silent(w)
  <2>1. att'[a] = [att[a] EXCEPT !.old = b] /\ att[a] \in AttemptType /\ b \in BOOLEAN
    BY DEF Tick, TypeInv, TypeOK
  <2> HIDE DEF b
  <2> QED BY <1>2, <2>1
<1>4. RowInv'
  BY <1>1, <1>3, SameRows DEF RetryInv
<1>5. \A w \in Workers : WorkerOK(w)'
  BY <1>1, <1>3, WorkerUndisturbed DEF Live, SameAttempts
<1> QED BY <1>1, <1>4, <1>5, SeenKept DEF RetryInv, RetryableStays

LEMMA ProgressRetry ==
  ASSUME TypeInv, RetryInv, NEW a \in Attempts, BufferProgress(a)
  PROVE  RetryInv'
<1>1. UNCHANGED <<status, nAtt, att, wrk, req>> /\ Live(a) /\ att[a].marked
  BY DEF BufferProgress, db, row, Live, RetryInv, RowInv, CallMarks
<1>2. PICK r \in {"sent", "error"} : remote' = [remote EXCEPT ![a] = r]
  BY DEF BufferProgress
<1>3. RowInv'
  BY <1>1, <1>2, CalledRows DEF RetryInv
<1>4. \A b \in Attempts : remote'[b] = IF b = a THEN r ELSE remote[b]
  BY <1>2 DEF TypeInv, TypeOK
<1>5. \A w \in Workers : WorkerOK(w)'
  BY <1>1, <1>4, WorkerUndisturbed DEF Live
<1> QED BY <1>1, <1>3, <1>5, SeenKept DEF RetryInv, RetryableStays

LEMMA WorkerRetry ==
  ASSUME TypeInv, CallUnderLock, OneActive, RetryInv, NEW w \in Workers,
         StartRun(w) \/ WorkerStep(w) \/ Crash(w)
  PROVE  RetryInv'
<1>1. Keeps(w)
  BY WorkerKeeps
<1>2. \A v \in Workers \ {w} : WorkerOK(v)'
  BY OwnLabel, BareOK DEF Bare
<1>3. UNCHANGED req
  BY DEF StartRun, WorkerStep, RecoverScan, RecoverReread, RecoverUnmarked, RecoverMarked,
         RecoverDeadlock, DueScan, Select, Admit, Claim, PostClaim, Verify, PreFail,
         Boundary, LockCall, LockFail, FailPause, Call, Persist, Reconcile, Pause, Finish,
         Crash, env
<1> QED BY <1>1, <1>2, <1>3, SeenKept DEF Keeps, RetryInv

LEMMA RetryNext ==
  ASSUME ~SlowWorkers, OneRequest, TypeInv, CallUnderLock, OneActive, RetryInv, [Next]_vars
  PROVE  RetryInv'
<1>1. CASE OperatorStep
  <2>1. CASE SetControl \/ \E p \in Pubs : CreatePermit(p) \/ RevokePermit(p)
    BY <2>1, QuietRetry DEF SetControl, CreatePermit, RevokePermit, db, row, env
  <2>2. CASE \E o \in Operators : LoadRequest(o) \/ CommitRequest(o)
    BY <2>2, LoadRetry, CommitRetry
  <2>3. CASE \E p \in Pubs : DirectRequest(p) \/ ReconcileBuffer(p) \/ PinConfirmed(p)
                            \/ CancelUnknown(p)
    BY <2>3, DirectRetry, ReconcileRetry, ManualRetry
  <2> QED BY <1>1, <2>1, <2>2, <2>3 DEF OperatorStep
<1>2. CASE UNCHANGED vars \/ \E p \in Pubs : BecomesDue(p)
  BY <1>2, QuietRetry DEF vars, BecomesDue, db, row, env
<1> QED BY <1>1, <1>2, WorkerRetry, TickRetry, ProgressRetry DEF Next

LEMMA RetryFollows ==
  ASSUME TypeInv, RetryInv
  PROVE  ClaimBacked /\ RetryIsSafe
<1>1. RetryIsSafe
  BY DEF RetryIsSafe, RetryInv, RowInv, LiveLatest
<1>2. ASSUME NEW p \in Pubs, NEW n \in 1..(nAtt[p] - 1)
      PROVE  att[<<p, n>>].status # "STARTED"
  <2>1. <<p, n>> \in Attempts /\ n # nAtt[p]
    BY DEF Attempts, TypeInv, TypeOK
  <2> QED BY <2>1 DEF RetryInv, RowInv, Backed
<1> QED BY <1>1, <1>2 DEF ClaimBacked, RetryInv, RowInv, Latest

LEMMA RetryInvariant ==
  ASSUME ~SlowWorkers, OneRequest
  PROVE  Spec => [](OneActive /\ RetryInv)
<1>1. Init => OneActive /\ RetryInv
  BY RetryInit
<1>2. /\ TypeInv /\ CallUnderLock /\ (OneActive /\ RetryInv) /\ [Next]_vars
      => (OneActive /\ RetryInv)'
  BY OneActiveNext, RetryNext
<1> QED BY <1>1, <1>2, TypeInvariant, SubmissionsAreExclusive, PTL DEF Spec

(* A PUBLISHING publication is claimed by its latest attempt and by no other,  *)
(* in any number of crashes, recoveries and attempts, if live workers renew    *)
(* their heartbeats in time and requests come one at a time.                   *)
THEOREM ClaimsAreBacked ==
  ASSUME ~SlowWorkers, OneRequest
  PROVE  Spec => []ClaimBacked
BY TypeInvariant, RetryInvariant, RetryFollows, PTL

(* Under the same conditions what an operator may schedule again, and what is  *)
(* recorded as FAILED, has no submission that is or may become a pin.          *)
THEOREM RetriesPostNothingTwice ==
  ASSUME ~SlowWorkers, OneRequest
  PROVE  Spec => []RetryIsSafe
BY TypeInvariant, RetryInvariant, RetryFollows, PTL

-----------------------------------------------------------------------------
(* The daily limit.  A worker that has passed the limit's test and not yet the *)
(* boundary still has room below it: nobody else can have used it up.          *)

Begun == {a \in Attempts : att[a].marked}

Room ==
  /\ IsFiniteSet(Begun) /\ Cardinality(Begun) <= DailyLimit
  /\ \A w \in Workers : pc[w] \in {"claim", "post", "verify", "boundary"} =>
       Cardinality(Begun) < DailyLimit

LEMMA RoomInit == Init => Room
<1> SUFFICES ASSUME Init PROVE Room
  OBVIOUS
<1>1. Begun = {}
  BY DEF Init, Begun, NoAttempt
<1>2. \A w \in Workers : pc[w] = "idle"
  BY DEF Init
<1> QED BY <1>1, <1>2, FS_EmptySet DEF Room

LEMMA PersistMarks ==
  ASSUME TypeInv, NEW w \in Workers, Persist(w), NEW a \in Attempts
  PROVE  att'[a].marked = att[a].marked
<1> DEFINE t == IF DefinitiveFailure(job[w].res) THEN "FAILED" ELSE "UNKNOWN"
           b == job[w].res \in {"error", "sent", "pending"}
<1>1. \/ att' = [att EXCEPT ![Mine(w)] = [@ EXCEPT !.status = t, !.op = b, !.old = FALSE]]
      \/ UNCHANGED att
  BY DEF Persist
<1>2. \A x \in AttemptType : [x EXCEPT !.status = t, !.op = b, !.old = FALSE].marked = x.marked
  BY DEF AttemptType
<1>3. att[a] \in AttemptType /\ att \in [Attempts -> AttemptType]
  BY DEF TypeInv, TypeOK
<1> HIDE DEF t, b
<1>4. CASE att' = [att EXCEPT ![Mine(w)] = [@ EXCEPT !.status = t, !.op = b, !.old = FALSE]]
  <2>1. att'[a] = IF a = Mine(w) THEN [att[a] EXCEPT !.status = t, !.op = b, !.old = FALSE]
                                 ELSE att[a]
    BY <1>3, <1>4
  <2> QED BY <1>2, <1>3, <2>1
<1> QED BY <1>1, <1>4

LEMMA OnlyBoundaryMarks ==
  ASSUME TypeInv, [Next]_vars, \A w \in Workers : ~Boundary(w), NEW a \in Attempts,
         att'[a].marked
  PROVE  att[a].marked
<1> SUFFICES ASSUME ~UNCHANGED att PROVE att'[a].marked = att[a].marked \/ ~att'[a].marked
  OBVIOUS
<1>1. ASSUME NEW b \in Attempts, NEW s, NEW t, Resolve(b, s, t)
      PROVE  att'[a].marked = att[a].marked
  BY <1>1, ResolveFacts DEF Resolved
<1>2. CASE \E w \in Workers : RecoverUnmarked(w) \/ RecoverMarked(w)
  BY <1>1, <1>2 DEF RecoverUnmarked, RecoverMarked, TypeInv, RowOK
<1>3. CASE \E w \in Workers : PreFail(w) \/ LockFail(w)
  BY <1>1, <1>3, MineType DEF PreFail, LockFail, Claimed
<1>4. CASE \E w \in Workers : Persist(w)
  BY <1>4, PersistMarks
<1>5. CASE \/ \E w \in Workers : Reconcile(w)
           \/ \E p \in Pubs : ReconcileBuffer(p)
  <2>1. \A p \in Pubs : Reconcilable(p) => <<p, 1>> \in Attempts
    BY DEF Reconcilable, Attempts, TypeInv, TypeOK
  <2> QED BY <1>1, <1>5, <2>1, MineType DEF Reconcile, ReconcileBuffer, ConfirmPin, Claimed
<1>6. ASSUME NEW w \in Workers, Claim(w) PROVE att'[a].marked = att[a].marked \/ ~att'[a].marked
  <2> DEFINE c == <<job[w].pub, nAtt[job[w].pub] + 1>>
  <2>1. \/ att' = [att EXCEPT ![c] = Started(job[w].gen)]
        \/ UNCHANGED att
    BY <1>6 DEF Claim
  <2> HIDE DEF c
  <2>2. att'[a] = Started(job[w].gen) \/ att'[a] = att[a]
    BY <2>1 DEF TypeInv, TypeOK
  <2>3. ~Started(job[w].gen).marked
    BY DEF Started
  <2> QED BY <2>2, <2>3
<1>7. CASE Tick
  <2>1. \A b \in BOOLEAN, x \in AttemptType : [x EXCEPT !.old = b].marked = x.marked
    BY DEF AttemptType
  <2> DEFINE b == att[a].status = "STARTED" /\ \A w \in Workers : Mine(w) = a => Silent(w)
  <2>2. att'[a] = [att[a] EXCEPT !.old = b] /\ att[a] \in AttemptType /\ b \in BOOLEAN
    BY <1>7 DEF Tick, TypeInv, TypeOK
  <2> HIDE DEF b
  <2> QED BY <2>1, <2>2
<1>8. CASE OperatorStep
  BY <1>5, <1>8
  DEF OperatorStep, LoadRequest, CommitRequest, DirectRequest, Write, CreatePermit,
      RevokePermit, SetControl, PinConfirmed, CancelUnknown, db
<1>9. CASE UNCHANGED vars \/ (\E p \in Pubs : BecomesDue(p)) \/ \E b \in Attempts : BufferProgress(b)
  BY <1>9 DEF vars, BecomesDue, BufferProgress, db
<1>10. CASE \E w \in Workers : StartRun(w) \/ WorkerStep(w) \/ Crash(w)
  BY ZenonT(30), <1>2, <1>3, <1>4, <1>5, <1>6, <1>10
  DEF StartRun, WorkerStep, RecoverScan, RecoverReread, RecoverDeadlock, DueScan, Select,
      Admit, PostClaim, Verify, LockCall, FailPause, Call, Pause, Finish, Crash, db
<1> QED BY <1>7, <1>8, <1>9, <1>10 DEF Next

LEMMA RoomNext ==
  ASSUME ~SlowWorkers, TypeInv, OneActive, Room, [Next]_vars
  PROVE  Room'
<1> DEFINE Early == {"claim", "post", "verify", "boundary"}
<1>0. IsFiniteSet(Begun) /\ Cardinality(Begun) \in Nat
  BY FS_CardinalityType DEF Room
<1>1. ASSUME NEW w \in Workers, Boundary(w) PROVE Room'
  <2>1. Mine(w) \in Attempts /\ Cardinality(Begun) < DailyLimit
    BY <1>1, MineType DEF Boundary, Claimed, Room
  <2>2. \A v \in Workers : pc'[v] \notin Early
    <3>1. pc'[w] \notin Early
      BY <1>1 DEF Boundary, SkipJob, Goto, TypeInv, TypeOK
    <3> QED BY <1>1, <3>1, OwnLabel DEF WorkerStep
  <2>3. Begun' \subseteq Begun \cup {Mine(w)}
    BY <1>1, <2>1 DEF Boundary, Begun, TypeInv, TypeOK
  <2>4. /\ IsFiniteSet(Begun \cup {Mine(w)})
        /\ Cardinality(Begun \cup {Mine(w)}) <= DailyLimit
    BY <1>0, <2>1, FS_AddElement, SMTT(30)
  <2>5. IsFiniteSet(Begun') /\ Cardinality(Begun') <= DailyLimit
    BY <1>0, <2>3, <2>4, FS_Subset, FS_CardinalityType
  <2> QED BY <2>2, <2>5 DEF Room
<1>2. ASSUME \A w \in Workers : ~Boundary(w) PROVE Room'
  <2>1. Begun' \subseteq Begun
    BY <1>2, OnlyBoundaryMarks DEF Begun
  <2>2. IsFiniteSet(Begun') /\ Cardinality(Begun') <= Cardinality(Begun) /\ Cardinality(Begun') \in Nat
    BY <1>0, <2>1, FS_Subset, FS_CardinalityType
  <2>3. ASSUME NEW v \in Workers, pc'[v] \in Early PROVE Cardinality(Begun) < DailyLimit
    <3>1. CASE pc[v] \in Early
      BY <3>1 DEF Room
    <3>2. CASE pc[v] \notin Early
      <4>1. Admit(v)
        <5>1. pc'[v] # pc[v]
          BY <2>3, <3>2
        <5>2. ASSUME NEW w \in Workers, StartRun(w) \/ WorkerStep(w) \/ Crash(w)
              PROVE  Admit(v)
          <6>1. w = v
            BY <2>3, <5>2, OwnLabel
          <6>2. CASE \/ StartRun(v) \/ RecoverScan(v) \/ RecoverReread(v) \/ RecoverUnmarked(v)
                     \/ RecoverMarked(v) \/ DueScan(v) \/ Select(v)
            BY <2>3, <3>2, <6>2
            DEF TypeInv, TypeOK, StartRun, RecoverScan, RecoverReread, TakeRow,
                RecoverUnmarked, RecoverMarked, DueScan, Select, Goto
          <6>3. CASE \/ LockCall(v) \/ LockFail(v) \/ FailPause(v) \/ Call(v) \/ Persist(v)
                     \/ PreFail(v)
            BY <2>3, <3>2, <6>3
            DEF TypeInv, TypeOK, LockCall, LockFail, FailPause, Call, Persist, PreFail,
                SkipJob, Goto
          <6>4. CASE Reconcile(v) \/ Pause(v) \/ Finish(v) \/ Crash(v)
            BY <2>3, <3>2, <6>4
            DEF TypeInv, TypeOK, Reconcile, Pause, Finish, Crash, SkipJob, Goto
          <6>5. CASE Claim(v) \/ PostClaim(v) \/ Verify(v) \/ Boundary(v)
            BY <3>2, <6>5 DEF Claim, PostClaim, Verify, Boundary
          <6> QED BY <5>2, <6>1, <6>2, <6>3, <6>4, <6>5, NoDeadlock DEF WorkerStep
        <5>3. CASE \/ OperatorStep \/ Tick \/ (\E p \in Pubs : BecomesDue(p))
                   \/ (\E a \in Attempts : BufferProgress(a)) \/ UNCHANGED vars
          BY <5>1, <5>3
          DEF OperatorStep, LoadRequest, CommitRequest, DirectRequest, Write, CreatePermit,
              RevokePermit, SetControl, ReconcileBuffer, PinConfirmed, CancelUnknown, Tick,
              BecomesDue, BufferProgress, vars, wrk
        <5> QED BY <5>2, <5>3 DEF Next
      <4>2. Goto(v, "claim")
        BY <2>3, <4>1 DEF Admit, SkipJob, Goto, TypeInv, TypeOK
      <4> QED BY <1>0, <2>3, <4>1, <4>2
          DEF Admit, SkipJob, Goto, daily_provider_write_count, Begun, TypeInv, TypeOK
    <3> QED BY <3>1, <3>2
  <2>4. Cardinality(Begun') <= DailyLimit
    BY <1>0, <2>2 DEF Room
  <2>5. \A v \in Workers : pc'[v] \in Early => Cardinality(Begun') < DailyLimit
    BY <1>0, <2>2, <2>3
  <2> QED BY <2>2, <2>4, <2>5 DEF Room
<1> QED BY <1>1, <1>2

LEMMA OneActiveInvariant ==
  ASSUME ~SlowWorkers
  PROVE  Spec => []OneActive
<1>1. TypeInv /\ OneActive /\ [Next]_vars => OneActive'
  BY OneActiveNext
<1> QED BY <1>1, RetryInit, TypeInvariant, PTL DEF Spec

(* No more provider mutations are begun in the day than its limit, although a  *)
(* worker counts them several awaits before it begins its own.                 *)
THEOREM DailyLimitHolds ==
  ASSUME ~SlowWorkers
  PROVE  Spec => []DailyLimitRespected
<1>1. TypeInv /\ OneActive /\ Room /\ [Next]_vars => Room'
  BY RoomNext
<1>2. Room => DailyLimitRespected
  BY DEF Room, DailyLimitRespected, Begun
<1> QED BY <1>1, <1>2, RoomInit, OneActiveInvariant, TypeInvariant, PTL DEF Spec

-----------------------------------------------------------------------------
(* The circuit breaker.  Until somebody died, who recorded an UNKNOWN outcome  *)
(* that nobody has answered is on the way to pausing for it.                   *)

Answering == crashes = 0 => \A a \in unpaused : \E w \in Workers :
  pc[w] \in {"failpause", "reconcile", "pause"} /\ Mine(w) = a

LEMMA AnsweringNext ==
  ASSUME ~SlowWorkers, TypeInv, OneActive, Answering, [Next]_vars
  PROVE  Answering'
<1> DEFINE Closing == {"failpause", "reconcile", "pause"}
<1> SUFFICES ASSUME crashes' = 0, NEW a \in unpaused'
             PROVE  \E w \in Workers : pc'[w] \in Closing /\ Mine(w)' = a
  BY DEF Answering
<1>1. ASSUME NEW w \in Workers, StartRun(w) \/ WorkerStep(w) \/ Crash(w)
      PROVE  pc'[w] \in Closing /\ Mine(w)' = a
  <2>1. crashes = 0 /\ ~Crash(w)
    BY SMTT(30), <1>1
    DEF StartRun, WorkerStep, RecoverScan, RecoverReread, RecoverUnmarked, RecoverMarked,
        RecoverDeadlock, DueScan, Select, Admit, Claim, PostClaim, Verify, PreFail,
        Boundary, LockCall, LockFail, FailPause, Call, Persist, Reconcile, Pause, Finish,
        Crash, env, TypeInv, TypeOK
  <2>2. a \in unpaused => pc[w] \in Closing /\ Mine(w) = a
    BY <1>1, <2>1, OwnLabel DEF Answering
  <2>3. CASE LockFail(w)
    BY <2>2, <2>3 DEF LockFail, Goto, Mine, TypeInv, TypeOK
  <2>4. CASE Persist(w)
    BY <2>2, <2>4 DEF Persist, Goto, Mine, TypeInv, TypeOK
  <2>5. CASE Reconcile(w)
    <3>1. CASE Reconcilable(job[w].pub) /\ ConfirmPin(job[w].pub)
      <4>1. Mine(w) = <<job[w].pub, 1>>
        BY <2>5, <3>1, MineType DEF Mine, Reconcile, Reconcilable, TypeInv, JobOK, Claimed
      <4> QED BY <2>2, <3>1, <4>1 DEF ConfirmPin
    <3>2. CASE Goto(w, "pause") /\ UNCHANGED <<unpaused, job>>
      BY <2>2, <3>2 DEF Goto, Mine, TypeInv, TypeOK
    <3> QED BY <2>5, <3>1, <3>2 DEF Reconcile
  <2>6. CASE FailPause(w) \/ Pause(w) \/ RecoverMarked(w)
    BY <2>6 DEF FailPause, Pause, RecoverMarked
  <2>7. CASE \/ StartRun(w) \/ RecoverScan(w) \/ RecoverReread(w) \/ RecoverUnmarked(w)
             \/ DueScan(w) \/ Select(w) \/ Admit(w) \/ Claim(w) \/ PostClaim(w)
             \/ Verify(w) \/ PreFail(w) \/ Boundary(w) \/ LockCall(w) \/ Call(w) \/ Finish(w)
    <3>1. UNCHANGED unpaused /\ pc[w] \notin Closing
      BY <2>7
      DEF StartRun, RecoverScan, RecoverReread, RecoverUnmarked, DueScan, Select, Admit,
          Claim, PostClaim, Verify, PreFail, Boundary, LockCall, Call, Finish
    <3> QED BY <2>2, <3>1
  <2> QED BY <1>1, <2>1, <2>3, <2>4, <2>5, <2>6, <2>7, NoDeadlock DEF WorkerStep
<1>2. CASE \/ OperatorStep \/ Tick \/ (\E p \in Pubs : BecomesDue(p))
           \/ (\E b \in Attempts : BufferProgress(b)) \/ UNCHANGED vars
  <2>1. UNCHANGED <<pc, job, crashes>> /\ a \in unpaused
    BY <1>2
    DEF OperatorStep, LoadRequest, CommitRequest, DirectRequest, Write, CreatePermit,
        RevokePermit, SetControl, ReconcileBuffer, ConfirmPin, PinConfirmed, CancelUnknown,
        Tick, BecomesDue, BufferProgress, vars, wrk, env
  <2> QED BY <2>1 DEF Answering, Mine
<1> QED BY <1>1, <1>2 DEF Next

(* No provider call is made while an UNKNOWN outcome stands unanswered, unless *)
(* a worker died between recording it and pausing.                             *)
THEOREM BreakerHolds ==
  ASSUME ~SlowWorkers
  PROVE  Spec => []Breaker
<1>1. Init => Answering
  BY DEF Init, Answering
<1>2. TypeInv /\ OneActive /\ Answering /\ [Next]_vars => Answering'
  BY AnsweringNext
<1>3. OneActive /\ Answering => Breaker
  BY ActiveAlone DEF Alone, Answering, Breaker, InCall
<1> QED BY <1>1, <1>2, <1>3, OneActiveInvariant, TypeInvariant, PTL DEF Spec

-----------------------------------------------------------------------------
(* The protocol implements the publication lifecycle.  Without racing requests *)
(* an open claim keeps its publication PUBLISHING, which no request may leave. *)

Open == \A a \in Attempts : att[a].status = "STARTED" => status[a[1]] = "PUBLISHING"

(* A step of the lifecycle or none, that opens no claim but by publishing.     *)
Follows ==
  /\ Lifecycle!Next \/ UNCHANGED Lifecycle!vars
  /\ \A a \in Attempts : att'[a].status = "STARTED" =>
       att[a].status = "STARTED" \/ status'[a[1]] = "PUBLISHING"

LEMMA Stutters ==
  ASSUME UNCHANGED <<status, remote>>,
         \A a \in Attempts : att'[a].status = "STARTED" => att[a].status = "STARTED"
  PROVE  Follows
<1>1. UNCHANGED Lifecycle!vars
  BY DEF Lifecycle!vars, Live
<1> QED BY <1>1 DEF Follows

LEMMA Moves ==
  ASSUME TypeInv, NEW p \in Pubs, NEW s \in Statuses, status' = [status EXCEPT ![p] = s],
         s \in Lifecycle!ALLOWED_TRANSITIONS[status[p]],
         s = "PUBLISH_FAILED" => \A n \in 1..MaxAttempts : ~Live(<<p, n>>),
         UNCHANGED remote,
         \A a \in Attempts : att'[a].status = "STARTED" =>
           att[a].status = "STARTED" \/ status'[a[1]] = "PUBLISHING"
  PROVE  Follows
<1>1. Lifecycle!Move(p)
  BY DEF Lifecycle!Move, Lifecycle!can_transition, Lifecycle!Statuses, Statuses, Live
<1> QED BY <1>1 DEF Follows, Lifecycle!Next

(* Only the latest attempt may be live.                                        *)
LEMMA NoOtherLive ==
  ASSUME TypeInv, RetryInv, NEW a \in Attempts, a[2] = nAtt[a[1]],
         NEW n \in 1..MaxAttempts, n # a[2]
  PROVE  ~Live(<<a[1], n>>)
<1>1. <<a[1], n>> \in Attempts
  BY AttemptTypes DEF Attempts
<1> QED BY <1>1 DEF RetryInv, RowInv, LiveLatest

LEMMA OutcomeFollows ==
  ASSUME TypeInv, RetryInv, NEW a \in Attempts, a[2] = nAtt[a[1]],
         NEW s \in {"PUBLISH_FAILED", "PUBLISH_UNKNOWN", "PUBLISHED"},
         NEW t \in {"FAILED", "UNKNOWN", "SUCCEEDED"},
         status[a[1]] = "PUBLISHING" \/ (status[a[1]] = "PUBLISH_UNKNOWN" /\ s # "PUBLISH_UNKNOWN"),
         s = "PUBLISH_FAILED" => ~Live(a),
         status' = [status EXCEPT ![a[1]] = s],
         \A b \in Attempts : att'[b].status = IF b = a THEN t ELSE att[b].status,
         UNCHANGED remote
  PROVE  Follows
<1>1. a[1] \in Pubs /\ a = <<a[1], a[2]>>
  BY AttemptTypes
<1>2. s = "PUBLISH_FAILED" => \A n \in 1..MaxAttempts : ~Live(<<a[1], n>>)
  BY <1>1, NoOtherLive
<1>3. s \in Lifecycle!ALLOWED_TRANSITIONS[status[a[1]]] /\ s \in Statuses
  BY DEF Lifecycle!ALLOWED_TRANSITIONS, Statuses
<1>4. \A b \in Attempts : att'[b].status = "STARTED" => att[b].status = "STARTED"
  OBVIOUS
<1> QED BY <1>1, <1>2, <1>3, <1>4, Moves

LEMMA ResolveFollows ==
  ASSUME TypeInv, RetryInv, NEW a \in Attempts, a[2] = nAtt[a[1]],
         NEW s \in {"PUBLISH_FAILED", "PUBLISH_UNKNOWN", "PUBLISHED"},
         NEW t \in {"FAILED", "UNKNOWN", "SUCCEEDED"},
         status[a[1]] = "PUBLISHING" \/ (status[a[1]] = "PUBLISH_UNKNOWN" /\ s # "PUBLISH_UNKNOWN"),
         s = "PUBLISH_FAILED" => ~Live(a),
         Resolve(a, s, t), UNCHANGED remote
  PROVE  Follows
<1>1. status' = [status EXCEPT ![a[1]] = s]
  BY DEF Resolve
<1>2. \A b \in Attempts : att'[b].status = IF b = a THEN t ELSE att[b].status
  BY ResolveFacts DEF Resolved
<1> QED BY ZenonT(30), <1>1, <1>2, OutcomeFollows

LEMMA OwnResolveFollows ==
  ASSUME TypeInv, RetryInv, NEW w \in Workers, PreFail(w) \/ LockFail(w) \/ Persist(w)
  PROVE  Follows
<1> DEFINE a == Mine(w)
<1>1. UNCHANGED remote /\ pc[w] \in Holding
  BY DEF PreFail, LockFail, Persist, env, Holding
<1>2. a \in Attempts /\ a[2] = nAtt[a[1]]
  BY <1>1, HeldAttempt
<1>3. CASE UNCHANGED <<status, att>>
  BY <1>1, <1>3, Stutters
<1>4. CASE PreFail(w) /\ StillClaimed(a) /\ Resolve(a, "PUBLISH_FAILED", "FAILED")
  <2>1. ~Live(a)
    BY <1>1, <1>4, HeldAttempt DEF PreFail
  <2> QED BY <1>1, <1>2, <1>4, <2>1, ResolveFollows DEF StillClaimed
<1>5. CASE LockFail(w) /\ StillClaimed(a) /\ Resolve(a, "PUBLISH_UNKNOWN", "UNKNOWN")
  BY <1>1, <1>2, <1>5, ResolveFollows DEF StillClaimed
<1>6. CASE Persist(w) /\ StillClaimed(a) /\ ~UNCHANGED <<status, att>>
  <2> DEFINE r == job[w].res
             s == IF DefinitiveFailure(r) THEN "PUBLISH_FAILED" ELSE "PUBLISH_UNKNOWN"
             t == IF DefinitiveFailure(r) THEN "FAILED" ELSE "UNKNOWN"
             b == r \in {"error", "sent", "pending"}
  <2>1. /\ status' = [status EXCEPT ![a[1]] = s]
        /\ att' = [att EXCEPT ![a] = [@ EXCEPT !.status = t, !.op = b, !.old = FALSE]]
    BY <1>6 DEF Persist
  <2>2. \A x \in AttemptType : [x EXCEPT !.status = t, !.op = b, !.old = FALSE].status = t
    BY DEF AttemptType
  <2>3. DefinitiveFailure(r) => ~Live(a)
    BY <1>6 DEF Persist, RetryInv, WorkerOK
  <2>4. /\ s \in {"PUBLISH_FAILED", "PUBLISH_UNKNOWN", "PUBLISHED"}
        /\ t \in {"FAILED", "UNKNOWN", "SUCCEEDED"}
        /\ s = "PUBLISH_FAILED" => ~Live(a)
    BY <2>3
  <2> HIDE DEF s, t, b, a, r
  <2>5. \A c \in Attempts : att'[c].status = IF c = a THEN t ELSE att[c].status
    BY <1>2, <2>1, <2>2 DEF TypeInv, TypeOK
  <2> QED BY <1>1, <1>2, <1>6, <2>1, <2>4, <2>5, OutcomeFollows DEF StillClaimed
<1> QED BY <1>3, <1>4, <1>5, <1>6 DEF PreFail, LockFail, Persist

LEMMA RecoverFollows ==
  ASSUME TypeInv, RetryInv, Open, NEW w \in Workers, RecoverUnmarked(w) \/ RecoverMarked(w)
  PROVE  Follows
<1> DEFINE a == rec[w].cur
<1>1. UNCHANGED remote
  BY DEF RecoverUnmarked, RecoverMarked, env
<1>2. /\ a \in Attempts /\ att[a].status = "STARTED" /\ rec[w].marked = att[a].marked
  BY DEF RecoverUnmarked, RecoverMarked, TypeInv, RowOK, RetryInv, WorkerOK
<1>3. a[2] = nAtt[a[1]] /\ status[a[1]] = "PUBLISHING"
  BY <1>2 DEF RetryInv, RowInv, Backed, Open
<1>4. CASE RecoverUnmarked(w)
  <2>1. ~Live(a)
    BY <1>2, <1>4 DEF RecoverUnmarked, RetryInv, RowInv, CallMarks, Live
  <2> QED BY <1>1, <1>2, <1>3, <1>4, <2>1, ResolveFollows DEF RecoverUnmarked
<1>5. CASE RecoverMarked(w)
  BY <1>1, <1>2, <1>3, <1>5, ResolveFollows DEF RecoverMarked
<1> QED BY <1>4, <1>5

LEMMA ReconcileFollows ==
  ASSUME TypeInv, RetryInv,
         \/ \E w \in Workers : Reconcile(w)
         \/ \E p \in Pubs : ReconcileBuffer(p)
  PROVE  Follows
<1>1. UNCHANGED remote
  BY DEF Reconcile, ReconcileBuffer, env
<1>2. CASE UNCHANGED <<status, att>>
  BY <1>1, <1>2, Stutters
<1>3. ASSUME NEW p \in Pubs, Reconcilable(p),
             \/ ConfirmPin(p)
             \/ remote[<<p, 1>>] = "error" /\ Resolve(<<p, 1>>, "PUBLISH_FAILED", "FAILED")
      PROVE  Follows
  <2> DEFINE a == <<p, 1>>
  <2>1. /\ a \in Attempts /\ a[1] = p /\ a[2] = nAtt[a[1]]
        /\ status[a[1]] = "PUBLISH_UNKNOWN"
    BY <1>3 DEF Reconcilable, Attempts, TypeInv, TypeOK
  <2>2. \/ Resolve(a, "PUBLISHED", "SUCCEEDED")
        \/ Resolve(a, "PUBLISH_FAILED", "FAILED") /\ ~Live(a)
    BY <1>3 DEF ConfirmPin, Live
  <2> HIDE DEF a
  <2> QED BY <1>1, <2>1, <2>2, ResolveFollows
<1>4. \A w \in Workers : Reconcile(w) => job[w].pub \in Pubs
  BY MineType DEF Reconcile, Claimed
<1> QED BY <1>2, <1>3, <1>4 DEF Reconcile, ReconcileBuffer

LEMMA ClaimFollows ==
  ASSUME TypeInv, NEW w \in Workers, Claim(w)
  PROVE  Follows
<1> DEFINE p == job[w].pub
           a == <<p, nAtt[p] + 1>>
<1>1. UNCHANGED remote /\ p \in Pubs
  BY DEF Claim, env, TypeInv, JobOK
<1>2. CASE UNCHANGED <<status, att>>
  BY <1>1, <1>2, Stutters
<1>3. CASE /\ status[p] = "SCHEDULED"
           /\ status' = [status EXCEPT ![p] = "PUBLISHING"]
           /\ att' = [att EXCEPT ![a] = Started(job[w].gen)]
  <2>1. \A b \in Attempts : b # a => att'[b] = att[b]
    BY <1>3 DEF TypeInv, TypeOK
  <2>2. status'[a[1]] = "PUBLISHING"
    BY <1>1, <1>3 DEF TypeInv, TypeOK
  <2>3. "PUBLISHING" \in Lifecycle!ALLOWED_TRANSITIONS[status[p]] /\ "PUBLISHING" \in Statuses
    BY <1>3 DEF Lifecycle!ALLOWED_TRANSITIONS, Statuses
  <2> HIDE DEF p, a
  <2> QED BY <1>1, <1>3, <2>1, <2>2, <2>3, Moves
<1> QED BY <1>2, <1>3 DEF Claim, Claimable

(* Buffer hears of a claimed publication nothing of which is out there, or     *)
(* gives up on all that was.                                                   *)
LEMMA RemoteFollows ==
  ASSUME TypeInv, RetryInv, NEW a \in Attempts, a[2] = nAtt[a[1]],
         NEW e, remote' = [remote EXCEPT ![a] = e], UNCHANGED <<status, att>>,
         e \in {"pending", "sent"} => Live(a) \/ status[a[1]] = "PUBLISHING"
  PROVE  Follows
<1> DEFINE p == a[1]
           Out(q) == \E n \in 1..MaxAttempts : Live(<<q, n>>)
<1>1. p \in Pubs /\ a = <<p, a[2]>> /\ a[2] \in 1..MaxAttempts
  BY AttemptTypes
<1>2. \A b \in Attempts : remote'[b] = IF b = a THEN e ELSE remote[b]
  BY DEF TypeInv, TypeOK
<1>3. \A q \in Pubs, n \in 1..MaxAttempts : <<q, n>> \in Attempts
  BY DEF Attempts
<1>4. \A b \in Attempts : Live(b)' <=> IF b = a THEN e \in {"pending", "sent"} ELSE Live(b)
  BY <1>2 DEF Live
<1>5. \A n \in 1..MaxAttempts : n # a[2] => ~Live(<<p, n>>)
  BY NoOtherLive
<1>6. \A q \in Pubs : q # p => (Out(q)' <=> Out(q))
  BY <1>3, <1>4
<1>7. (Out(p) <=> Live(a)) /\ (Out(p)' <=> e \in {"pending", "sent"})
  BY <1>1, <1>3, <1>4, <1>5
<1>8. CASE e \in {"pending", "sent"} /\ ~Live(a)
  <2>1. Lifecycle!Submit(p)
    BY <1>1, <1>6, <1>7, <1>8 DEF Lifecycle!Submit
  <2> QED BY <1>1, <2>1 DEF Follows, Lifecycle!Next
<1>9. CASE e \notin {"pending", "sent"} /\ Live(a)
  <2>1. Lifecycle!Fizzle(p)
    BY <1>1, <1>6, <1>7, <1>9 DEF Lifecycle!Fizzle
  <2> QED BY <1>1, <2>1 DEF Follows, Lifecycle!Next
<1>10. CASE e \in {"pending", "sent"} <=> Live(a)
  <2>1. UNCHANGED Lifecycle!vars
    BY <1>6, <1>7, <1>10 DEF Lifecycle!vars
  <2> QED BY <2>1 DEF Follows
<1> QED BY <1>8, <1>9, <1>10

LEMMA CallFollows ==
  ASSUME TypeInv, RetryInv, Open, NEW w \in Workers, Call(w)
  PROVE  Follows
<1>1. /\ pc[w] \in Holding /\ UNCHANGED <<status, att>>
  BY DEF Call, Holding, db, row
<1>2. PICK a \in Attempts : a = Mine(w) /\ a[2] = nAtt[a[1]] /\ att[a].status = "STARTED"
  BY <1>1, HeldAttempt
<1>3. PICK e : remote' = [remote EXCEPT ![a] = e]
  BY <1>2 DEF Call
<1> QED BY <1>1, <1>2, <1>3, RemoteFollows DEF Open

LEMMA ProgressFollows ==
  ASSUME TypeInv, RetryInv, NEW a \in Attempts, BufferProgress(a)
  PROVE  Follows
<1>1. Live(a) /\ UNCHANGED <<status, att>> /\ \E e : remote' = [remote EXCEPT ![a] = e]
  BY DEF BufferProgress, Live, db, row
<1>2. a[2] = nAtt[a[1]]
  BY <1>1 DEF RetryInv, RowInv, LiveLatest
<1> QED BY <1>1, <1>2, RemoteFollows

(* A request that nothing falls into moves its publication as the table says.  *)
LEMMA RequestFollows ==
  ASSUME TypeInv, RetryInv, NEW p \in Pubs,
         DirectRequest(p) \/ PinConfirmed(p) \/ CancelUnknown(p)
  PROVE  Follows
<1>1. UNCHANGED <<att, remote>>
  BY DEF DirectRequest, Write, PinConfirmed, CancelUnknown, env
<1>2. CASE UNCHANGED status
  BY <1>1, <1>2, Stutters
<1>3. CASE \E s \in {"SCHEDULED", "PUBLISHED", "CANCELLED"} :
             /\ status' = [status EXCEPT ![p] = s]
             /\ s \in Lifecycle!ALLOWED_TRANSITIONS[status[p]]
  BY <1>1, <1>3, Moves DEF Statuses
<1>4. CASE DirectRequest(p)
  <2>1. PICK kind \in {"schedule", "cancel"} :
          Accepts(kind, status[p]) /\ Write(kind, p, status[p])
    BY <1>4 DEF DirectRequest
  <2>2. CASE kind = "schedule" /\ status[p] = "SCHEDULED"
    <3>1. UNCHANGED status
      BY <2>1, <2>2 DEF Write, TypeInv, TypeOK
    <3> QED BY <1>2, <3>1
  <2>3. CASE kind = "schedule" /\ status[p] \in {"APPROVED", "PUBLISH_FAILED"}
    BY <1>3, <2>1, <2>3 DEF Write, Lifecycle!ALLOWED_TRANSITIONS
  <2>4. CASE kind = "cancel" /\ status[p] \in {"APPROVED", "SCHEDULED", "PUBLISH_FAILED"}
    BY <1>3, <2>1, <2>4 DEF Write, Lifecycle!ALLOWED_TRANSITIONS
  <2> QED BY <2>1, <2>2, <2>3, <2>4 DEF Accepts
<1>5. CASE PinConfirmed(p) \/ CancelUnknown(p)
  BY <1>3, <1>5 DEF PinConfirmed, CancelUnknown, Lifecycle!ALLOWED_TRANSITIONS
<1> QED BY <1>4, <1>5

LEMMA NextFollows ==
  ASSUME ~RequestRaces, TypeInv, OneActive, RetryInv, Open, [Next]_vars
  PROVE  Follows
<1>1. CASE UNCHANGED <<status, att, remote>>
  BY <1>1, Stutters
<1>2. ASSUME NEW w \in Workers, StartRun(w) \/ WorkerStep(w) \/ Crash(w)
      PROVE  Follows
  <2>1. CASE \/ StartRun(w) \/ RecoverScan(w) \/ RecoverReread(w) \/ DueScan(w)
             \/ Select(w) \/ Admit(w) \/ PostClaim(w) \/ Verify(w) \/ LockCall(w)
             \/ FailPause(w) \/ Pause(w) \/ Finish(w) \/ Crash(w)
    BY <1>1, <2>1
    DEF StartRun, RecoverScan, RecoverReread, DueScan, Select, Admit, PostClaim, Verify,
        LockCall, FailPause, Pause, Finish, Crash, db, row, env
  <2>2. CASE Boundary(w)
    <3>1. Mine(w) \in Attempts
      BY <2>2, MineType DEF Boundary, Claimed
    <3>2. \A x \in AttemptType : [x EXCEPT !.marked = TRUE].status = x.status
      BY DEF AttemptType
    <3>3. ASSUME NEW a \in Attempts PROVE att'[a].status = att[a].status
      <4>1. att' = [att EXCEPT ![Mine(w)].marked = TRUE] \/ UNCHANGED att
        BY <2>2 DEF Boundary
      <4>2. att[a] \in AttemptType
        BY DEF TypeInv, TypeOK
      <4>3. att'[a] = [att[a] EXCEPT !.marked = TRUE] \/ att'[a] = att[a]
        BY <3>1, <4>1 DEF TypeInv, TypeOK
      <4>4. [att[a] EXCEPT !.marked = TRUE].status = att[a].status
        BY <3>2, <4>2
      <4> QED BY <4>3, <4>4
    <3> QED BY <2>2, <3>3, Stutters DEF Boundary, row, env
  <2> QED BY <1>2, <2>1, <2>2, NoDeadlock, OwnResolveFollows, RecoverFollows,
             ReconcileFollows, ClaimFollows, CallFollows DEF WorkerStep
<1>3. CASE OperatorStep
  <2>1. \A o \in Operators : ~LoadRequest(o) /\ ~CommitRequest(o)
    BY DEF LoadRequest, CommitRequest, RetryInv, SeenStands
  <2>2. CASE SetControl \/ \E p \in Pubs : CreatePermit(p) \/ RevokePermit(p)
    BY <1>1, <2>2 DEF SetControl, CreatePermit, RevokePermit, db, row, env
  <2> QED BY <1>3, <2>1, <2>2, RequestFollows, ReconcileFollows DEF OperatorStep
<1>4. CASE Tick
  <2>1. \A b \in BOOLEAN, x \in AttemptType : [x EXCEPT !.old = b].status = x.status
    BY DEF AttemptType
  <2>2. ASSUME NEW a \in Attempts PROVE att'[a].status = att[a].status
    <3> DEFINE b == att[a].status = "STARTED" /\ \A w \in Workers : Mine(w) = a => Silent(w)
    <3>1. att'[a] = [att[a] EXCEPT !.old = b] /\ att[a] \in AttemptType /\ b \in BOOLEAN
      BY <1>4 DEF Tick, TypeInv, TypeOK
    <3> HIDE DEF b
    <3> QED BY <2>1, <3>1
  <2> QED BY <1>4, <2>2, Stutters DEF Tick, row, env
<1>5. CASE UNCHANGED vars \/ \E p \in Pubs : BecomesDue(p)
  BY <1>1, <1>5 DEF vars, BecomesDue, db, row, env
<1> QED BY <1>2, <1>3, <1>4, <1>5, ProgressFollows DEF Next

(* No move of the lifecycle cancels a publication that is PUBLISHING.          *)
LEMMA OpenNext ==
  ASSUME TypeInv, Open, RetryInv', Follows
  PROVE  Open'
<1>1. ASSUME NEW p \in Pubs, status[p] = "PUBLISHING" PROVE status'[p] # "CANCELLED"
  <2>1. CASE UNCHANGED status
    BY <1>1, <2>1
  <2>2. ASSUME NEW q \in Pubs, Lifecycle!Move(q) PROVE status'[p] # "CANCELLED"
    BY <1>1, <2>2
    DEF Lifecycle!Move, Lifecycle!can_transition, Lifecycle!ALLOWED_TRANSITIONS, TypeInv, TypeOK
  <2> QED BY <2>1, <2>2
      DEF Follows, Lifecycle!Next, Lifecycle!vars, Lifecycle!Submit, Lifecycle!Fizzle
<1> QED BY <1>1, AttemptTypes DEF Open, Follows, RetryInv, RowInv, Backed

(* Whatever the workers, their deaths and the operators do, what is visible of *)
(* a publication and of its submissions is a behaviour of PublicationLifecycle *)
(* - if live workers renew their heartbeats in time and no request races.      *)
THEOREM ProtocolImplementsLifecycle ==
  ASSUME ~SlowWorkers, ~RequestRaces
  PROVE  Spec => ImplementsLifecycle
<1>1. Init => Open /\ Lifecycle!Init
  <2> SUFFICES ASSUME Init PROVE Open /\ Lifecycle!Init
    OBVIOUS
  <2>1. \A p \in Pubs, n \in 1..MaxAttempts : ~Live(<<p, n>>)
    BY DEF Init, Live, Attempts
  <2>2. Lifecycle!Init
    BY <2>1 DEF Init, Lifecycle!Init
  <2> QED BY <2>2 DEF Init, Open, NoAttempt
<1>2. OneRequest
  BY DEF OneRequest
<1>3. /\ TypeInv /\ OneActive /\ RetryInv /\ RetryInv' /\ Open /\ [Next]_vars
      => Open' /\ [Lifecycle!Next]_Lifecycle!vars
  BY NextFollows, OpenNext DEF Follows
<1> QED BY <1>1, <1>2, <1>3, RetryInvariant, TypeInvariant, PTL
    DEF Spec, ImplementsLifecycle, Lifecycle!Spec
=============================================================================
