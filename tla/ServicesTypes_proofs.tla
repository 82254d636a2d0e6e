------------------------- MODULE ServicesTypes_proofs -------------------------
(* The services of Services keep the types of their state, for every value of  *)
(* the constants: what the lineages, batches, receipts and claims hold, and    *)
(* that no counter passes its bound. The inductive invariants of the other     *)
(* modules give most of it; what they leave out is proved here.                *)
EXTENDS Services_proofs, DispatchServices_proofs, PlanningServices_proofs, FiniteSetTheorems, TLAPS

-----------------------------------------------------------------------------
LEMMA QuotaFocus == ServicesSpec => Spec
<1>1. ServicesInit => Init BY DEF ServicesInit
<1>2. [ServicesNext]_allVars => [Next]_vars BY DEF ServicesNext, allVars, Only
<1> QED BY <1>1, <1>2, PTL DEF ServicesSpec, Spec

(* ManualDispatch: the lost requests are counted.                              *)
LEMMA LostCounted ==
  ASSUME v10 \in 0..MaxLostRequests, Manual!MDNext \/ UNCHANGED Manual!mvars
  PROVE  v10' \in 0..MaxLostRequests
<1>1. ASSUME NEW r \in Requests, Manual!RequestDies(r) PROVE v10' \in 0..MaxLostRequests
  <2>1. v10 < MaxLostRequests /\ v10' = v10 + 1 BY <1>1 DEF Manual!RequestDies
  <2> QED BY <2>1, AttemptsAssumption
<1>2. ASSUME NEW r \in Requests,
             \/ Manual!Gate(r) \/ Manual!atomic_authorized_claim(r) \/ Manual!PostClaim(r)
             \/ Manual!finalize_post_claim_unknown(r) \/ Manual!Post(r) \/ Manual!Record(r)
      PROVE  v10' = v10
  BY <1>2 DEF Manual!Gate, Manual!atomic_authorized_claim, Manual!PostClaim,
     Manual!finalize_post_claim_unknown, Manual!Post, Manual!Record
<1>3. ASSUME NEW p \in Pubs,
             \/ \E prov \in Manual!Providers : Manual!create_authorization(p, prov)
             \/ Manual!activate(p) \/ Manual!Drift(p) \/ Manual!PostFizzles(p)
             \/ Manual!ReconcileOperation(p) \/ Manual!reconcile(p)
             \/ \E op \in {"schedule", "cancel"} : Manual!ReadEdit(p, op)
             \/ \E r \in Requests : Manual!Validate(r, p) \/ Manual!BuildEvidence(r, p)
      PROVE  v10' = v10
  BY <1>3 DEF Manual!create_authorization, Manual!activate, Manual!Drift, Manual!PostFizzles,
     Manual!ReconcileOperation, Manual!reconcile, Manual!ReadEdit, Manual!Validate,
     Manual!BuildEvidence
<1>4. CASE \/ \E a \in DOMAIN v3 : Manual!AuthorizationLate(a)
           \/ \E n \in 1..MaxAuths : Manual!ReadRevocation("authorization", n)
           \/ \E n \in 1..MaxActs : Manual!ReadRevocation("activation", n)
           \/ Manual!revoke_authorization \/ Manual!RevokeActivation \/ Manual!WriteEdit
           \/ UNCHANGED Manual!mvars
  BY <1>4 DEF Manual!AuthorizationLate, Manual!ReadRevocation, Manual!revoke_authorization,
     Manual!RevokeActivation, Manual!WriteEdit, Manual!mvars
<1> QED BY <1>1, <1>2, <1>3, <1>4 DEF Manual!MDNext

LEMMA ManualTypes == ServicesSpec => [](focus = "manual" => Manual!ManualTypeOK)
<1> DEFINE C == focus = "manual" => v10 \in 0..MaxLostRequests
           T == focus = "manual" => Manual!ManualTypeOK
<1>1. ServicesInit => C BY AttemptsAssumption DEF ServicesInit, Manual!MDInit
<1>2. C /\ [ServicesNext]_allVars => C' BY LostCounted, ManualFocus
<1>3. C /\ (focus = "manual" => Manual!ManualInv) => T
  <2> SUFFICES ASSUME v10 \in 0..MaxLostRequests, Manual!ManualShapes PROVE Manual!ManualTypeOK
    BY DEF Manual!ManualInv
  <2> DEFINE A == [pub : Pubs, prov : Manual!Providers, late : BOOLEAN,
                   status : {"ACTIVE", "CONSUMED", "REVOKED", "EXPIRED"}]
             B == [pub : Pubs, status : {"ACTIVE", "CONSUMED", "REVOKED"}]
  <2>0. v3 \in Seq(A) /\ v4 \in Seq(B) BY DEF Manual!ManualShapes
  <2>1. \A a \in DOMAIN v3 : v3[a].status \in {"ACTIVE", "CONSUMED", "REVOKED", "EXPIRED"}
    <3>1. \A r \in A : r.status \in {"ACTIVE", "CONSUMED", "REVOKED", "EXPIRED"} OBVIOUS
    <3> HIDE DEF A
    <3>2. \A a \in DOMAIN v3 : v3[a] \in A BY <2>0
    <3> QED BY <3>1, <3>2
  <2>2. \A n \in DOMAIN v4 : v4[n].status \in {"ACTIVE", "CONSUMED", "REVOKED"}
    <3>1. \A r \in B : r.status \in {"ACTIVE", "CONSUMED", "REVOKED"} OBVIOUS
    <3> HIDE DEF B
    <3>2. \A n \in DOMAIN v4 : v4[n] \in B BY <2>0
    <3> QED BY <3>1, <3>2
  <2>3. v8 \in [Pubs -> Nat]
    <3>1. v8 \in [Pubs -> {0, 1}] BY DEF Manual!ManualShapes
    <3> QED BY <3>1
  <2> QED BY <2>1, <2>2, <2>3 DEF Manual!ManualShapes, Manual!ManualTypeOK, Manual!PubStatuses
<1> QED BY <1>1, <1>2, <1>3, ManualHolds, PTL DEF ServicesSpec

-----------------------------------------------------------------------------
(* UnknownDiscovery.                                                           *)
LEMMA DiscoveryReports ==
  ASSUME v1 \in {"PUBLISH_UNKNOWN", "PUBLISHED"},
         v5 \in {"none", "ZERO_MATCH", "UNIQUE_MATCH", "MULTIPLE_MATCHES"},
         Discovery!UDNext \/ UNCHANGED Discovery!uvars
  PROVE  /\ v1' \in {"PUBLISH_UNKNOWN", "PUBLISHED"}
         /\ v5' \in {"none", "ZERO_MATCH", "UNIQUE_MATCH", "MULTIPLE_MATCHES"}
<1>1. CASE Discovery!ReadListed BY <1>1 DEF Discovery!ReadListed
<1>2. CASE Discovery!ActOnReport BY <1>2 DEF Discovery!ActOnReport
<1>3. CASE \/ Discovery!StartScan \/ Discovery!ListStatus \/ Discovery!ScanFails
           \/ Discovery!PostProgresses \/ Discovery!RouteDrifts \/ UNCHANGED Discovery!uvars
  BY <1>3 DEF Discovery!StartScan, Discovery!ListStatus, Discovery!ScanFails,
     Discovery!PostProgresses, Discovery!RouteDrifts, Discovery!uvars
<1> QED BY <1>1, <1>2, <1>3 DEF Discovery!UDNext

LEMMA DiscoveryTypes == ServicesSpec => [](focus = "discovery" => Discovery!DiscoveryTypeOK)
<1> DEFINE I == focus = "discovery" =>
                  /\ Discovery!DiscoveryInv
                  /\ v1 \in {"PUBLISH_UNKNOWN", "PUBLISHED"}
                  /\ v5 \in {"none", "ZERO_MATCH", "UNIQUE_MATCH", "MULTIPLE_MATCHES"}
           T == focus = "discovery" => Discovery!DiscoveryTypeOK
<1>1. ServicesInit => I BY DiscoveryStart DEF ServicesInit, Discovery!UDInit
<1>2. I /\ [ServicesNext]_allVars => I' BY DiscoveryStep, DiscoveryReports, DiscoveryFocus
<1>3. I => T
  BY SixStatuses DEF Discovery!DiscoveryInv, Discovery!DiscoveryShapes, Discovery!DiscoveryTypeOK
<1> QED BY <1>1, <1>2, <1>3, PTL DEF ServicesSpec

-----------------------------------------------------------------------------
(* ContentReview and PaidGeneration.                                           *)
LEMMA ReviewTypes == ServicesSpec => [](focus = "review" => Review!ReviewTypeOK)
<1> DEFINE I == focus = "review" => Review!ReviewInv
           T == focus = "review" => Review!ReviewTypeOK
<1>1. ServicesInit => I BY ReviewStart DEF ServicesInit
<1>2. I /\ [ServicesNext]_allVars => I' BY ReviewStep, ReviewFocus
<1>3. I => T BY DEF Review!ReviewInv
<1> QED BY <1>1, <1>2, <1>3, PTL DEF ServicesSpec

LEMMA PaidTypes == ServicesSpec => [](focus = "paid" => Paid!PaidTypeOK)
<1> DEFINE I == focus = "paid" => Paid!PaidInv
           T == focus = "paid" => Paid!PaidTypeOK
<1>1. ServicesInit => I BY PaidStart DEF ServicesInit
<1>2. I /\ [ServicesNext]_allVars => I' BY PaidStep, PaidFocus
<1>3. I => T
  <2> SUFFICES ASSUME Paid!PaidShapes PROVE Paid!PaidTypeOK BY DEF Paid!PaidInv
  <2>1. \A j \in Jobs : v1[j].pc \in {"new", "ready", "calling", "called", "done"}
    BY DEF Paid!PaidShapes
  <2>2. v3 \in [copy : Nat, attempt : Nat, blocked : Nat] BY DEF Paid!PaidShapes
  <2>3. v3 \in [{"copy", "attempt", "blocked"} -> Nat]
    <3>1. DOMAIN v3 = {"copy", "attempt", "blocked"} BY <2>2
    <3>2. v3["copy"] \in Nat /\ v3["attempt"] \in Nat /\ v3["blocked"] \in Nat BY <2>2
    <3>3. v3 = [k \in {"copy", "attempt", "blocked"} |-> v3[k]] BY <2>2, <3>1
    <3> QED BY <3>1, <3>2, <3>3
  <2> QED BY <2>1, <2>3 DEF Paid!PaidShapes, Paid!PaidTypeOK
<1> QED BY <1>1, <1>2, <1>3, PTL DEF ServicesSpec

-----------------------------------------------------------------------------
(* BufferReconciliation: an attempt's metadata keeps a bounded history.        *)

(* In Reconciling: receipts is v3, bpost v5, obs v6.                           *)
Phases   == {"INVOCATION_RECEIVED", "PRE_PROVIDER_REJECTED", "PROVIDER_READ_STARTED",
             "PROVIDER_READ_COMPLETED", "PROVIDER_READ_FAILED", "POST_PROVIDER_REJECTED",
             "CAS_STARTED", "CAS_SUCCEEDED", "CAS_FAILED"}
Receipts == [seq : Nat, phase : Phases, read : BOOLEAN]
Metadata == [history : {h \in Seq(Receipts) : Len(h) <= HistoryLimit}, total : Nat]
PostStatuses == {"scheduled", "sending", "sent", "error"}
Observed == [pc : {"idle", "begun", "reading", "read", "settling", "armed"}, seq : Nat,
             snap : PostStatuses \cup {"none"}, view : Metadata]

HistoryBounded ==
  /\ v3 \in Metadata
  /\ v5 \in [status : PostStatuses, linked : BOOLEAN]
  /\ v6 \in [Observers -> Observed]

LEMMA ReceiptMarked ==
  ASSUME NEW meta \in Metadata, NEW seq, NEW phase \in Phases
  PROVE  Reconciling!_receipt_metadata(meta, seq, phase) \in Metadata
<1> DEFINE h == meta.history
           mark(r) == [r EXCEPT !.phase = phase, !.read = @ \/ phase = "PROVIDER_READ_STARTED"]
           m(i) == IF h[i].seq = seq THEN mark(h[i]) ELSE h[i]
           g == [i \in DOMAIN h |-> m(i)]
<1>1. h \in Seq(Receipts) /\ Len(h) <= HistoryLimit /\ Len(h) \in Nat /\ DOMAIN h = 1..Len(h)
  BY LenProperties DEF Metadata
<1>2. ASSUME NEW r \in Receipts PROVE mark(r) \in Receipts
  <2>1. [r EXCEPT !.phase = phase] \in Receipts BY DEF Receipts
  <2>2. \A x \in Receipts, b \in BOOLEAN : [x EXCEPT !.read = b] \in Receipts BY DEF Receipts
  <2>3. (r.read \/ phase = "PROVIDER_READ_STARTED") \in BOOLEAN OBVIOUS
  <2> QED BY <2>1, <2>2, <2>3
<1>3. Reconciling!_receipt_metadata(meta, seq, phase) = [meta EXCEPT !.history = g]
  BY DEF Reconciling!_receipt_metadata
<1> HIDE DEF mark, h
<1>4. g \in [1..Len(h) -> Receipts]
  <2>1. \A i \in 1..Len(h) : h[i] \in Receipts BY <1>1, ElementOfSeq
  <2>2. \A i \in 1..Len(h) : m(i) \in Receipts BY <1>2, <2>1
  <2> HIDE DEF m
  <2> QED BY <1>1, <2>2
<1> HIDE DEF g
<1>5. g \in Seq(Receipts) /\ Len(g) = Len(h) BY <1>1, <1>4, LenProperties
<1>6. g \in {x \in Seq(Receipts) : Len(x) <= HistoryLimit} BY <1>1, <1>5
<1>7. [meta EXCEPT !.history = g] \in Metadata BY <1>6 DEF Metadata
<1> QED BY <1>3, <1>7

LEMMA HistoryKept ==
  ASSUME NEW h \in Seq(Receipts)
  PROVE  Reconciling!Kept(h) \in {x \in Seq(Receipts) : Len(x) <= HistoryLimit}
<1> DEFINE n == Len(h)
           k == IF n < HistoryLimit THEN n ELSE HistoryLimit
           a == n + 1 - k
           t == SubSeq(h, a, n)
<1>1. n \in Nat BY LenProperties
<1>2. Reconciling!Kept(h) = t BY DEF Reconciling!Kept
<1> HIDE DEF n
<1>3. k \in Nat /\ k <= HistoryLimit /\ k <= n BY <1>1, AttemptsAssumption
<1> HIDE DEF k
<1>4. a \in 1..(n + 1) /\ (a <= n => n - a + 1 = k) /\ (~(a <= n) => k = 0) BY <1>1, <1>3
<1> HIDE DEF a
<1>5. t \in Seq(Receipts) /\ Len(t) = IF a <= n THEN n - a + 1 ELSE 0
  <2>1. \A i \in a..n : h[i] \in Receipts
    <3>1. \A i \in a..n : i \in 1..n BY <1>1, <1>4
    <3> QED BY <3>1 DEF n
  <2>2. a \in Int /\ n \in Int BY <1>1, <1>4
  <2> QED BY <1>1, <1>4, <2>1, <2>2, SubSeqProperties DEF n
<1>6. Len(t) <= HistoryLimit BY <1>1, <1>3, <1>4, <1>5, AttemptsAssumption
<1> QED BY <1>2, <1>5, <1>6

LEMMA IdleObserved == Reconciling!Idle \in Observed
<1>1. <<>> \in Seq(Receipts) /\ Len(<<>>) = 0 BY EmptySeq
<1>2. <<>> \in {h \in Seq(Receipts) : Len(h) <= HistoryLimit} BY <1>1, AttemptsAssumption
<1>3. [history |-> <<>>, total |-> 0] \in Metadata BY <1>2 DEF Metadata
<1> QED BY <1>3 DEF Reconciling!Idle, Observed

LEMMA ReceiptPersisted ==
  ASSUME HistoryBounded, NEW o \in Observers, NEW phase \in Phases, NEW next \in Observed,
         Reconciling!_persist_receipt_phase(o, phase, next)
  PROVE  v3' \in Metadata /\ v6' \in [Observers -> Observed]
<1>1. v3' = v3 \/ v3' = Reconciling!_receipt_metadata(v3, v6[o].seq, phase)
  BY DEF Reconciling!_persist_receipt_phase
<1>2. v6' = [v6 EXCEPT ![o] = next] \/ v6' = [v6 EXCEPT ![o] = Reconciling!Idle]
  BY DEF Reconciling!_persist_receipt_phase
<1>3. v3' \in Metadata BY <1>1, ReceiptMarked DEF HistoryBounded
<1>4. v6' \in [Observers -> Observed] BY <1>2, IdleObserved DEF HistoryBounded
<1> QED BY <1>3, <1>4

LEMMA HistoryStart ==
  ASSUME Reconciling!BRInit
  PROVE  HistoryBounded
<1>1. <<>> \in Seq(Receipts) /\ Len(<<>>) = 0 BY EmptySeq
<1>2. <<>> \in {h \in Seq(Receipts) : Len(h) <= HistoryLimit} BY <1>1, AttemptsAssumption
<1>3. v3 \in Metadata BY <1>2 DEF Metadata, Reconciling!BRInit
<1>4. v6 \in [Observers -> Observed] BY IdleObserved DEF Reconciling!BRInit
<1>5. v5 \in [status : PostStatuses, linked : BOOLEAN] BY DEF Reconciling!BRInit, PostStatuses
<1> QED BY <1>3, <1>4, <1>5 DEF HistoryBounded

LEMMA HistoryStep ==
  ASSUME HistoryBounded, Reconciling!BRNext \/ UNCHANGED Reconciling!rvars
  PROVE  HistoryBounded'
<1> DEFINE Goes == v3' \in Metadata /\ v6' \in [Observers -> Observed]
<1>0. /\ v3 \in Metadata /\ v6 \in [Observers -> Observed]
      /\ v5 \in [status : PostStatuses, linked : BOOLEAN]
  BY DEF HistoryBounded
<1>1. ASSUME NEW w \in Observed
      PROVE  /\ \A l \in {"reading", "settling"} : [w EXCEPT !.pc = l] \in Observed
             /\ \A s \in PostStatuses : [w EXCEPT !.pc = "read", !.snap = s] \in Observed
             /\ \A x \in Metadata : [w EXCEPT !.pc = "armed", !.view = x] \in Observed
             /\ \A n \in Nat : [w EXCEPT !.pc = "begun", !.seq = n] \in Observed
  BY DEF Observed
<1>2. ASSUME NEW o \in Observers, Reconciling!_begin_reconciliation_receipt(o) PROVE Goes
  <2> DEFINE n == v3.total + 1
             r == [seq |-> n, phase |-> "INVOCATION_RECEIVED", read |-> FALSE]
             h == Append(v3.history, r)
             k == Reconciling!Kept(h)
             j == [Reconciling!Idle EXCEPT !.pc = "begun", !.seq = n]
  <2>1. n \in Nat /\ v3.history \in Seq(Receipts) BY <1>0 DEF Metadata
  <2>2. v3' = [total |-> n, history |-> k] /\ v6' = [v6 EXCEPT ![o] = j]
    BY <1>2 DEF Reconciling!_begin_reconciliation_receipt
  <2>3. j \in Observed
    <3> HIDE DEF n
    <3> QED BY <1>1, <2>1, IdleObserved
  <2>4. r \in Receipts BY <2>1 DEF Receipts, Phases
  <2> HIDE DEF n, r, j
  <2>5. h \in Seq(Receipts) BY <2>1, <2>4, AppendProperties
  <2> HIDE DEF h
  <2>6. k \in {x \in Seq(Receipts) : Len(x) <= HistoryLimit} BY <2>5, HistoryKept
  <2> HIDE DEF k
  <2>7. v3' \in Metadata BY <2>1, <2>2, <2>6 DEF Metadata
  <2> QED BY <1>0, <2>2, <2>3, <2>7
<1>3. ASSUME NEW o \in Observers, Reconciling!StartRead(o) \/ Reconciling!Revalidate(o) PROVE Goes
  <2> DEFINE P(phase, next) == Reconciling!_persist_receipt_phase(o, phase, next)
             j(l) == [v6[o] EXCEPT !.pc = l]
  <2>1. \/ P("PROVIDER_READ_STARTED", j("reading")) \/ P("PRE_PROVIDER_REJECTED", Reconciling!Idle)
        \/ P("CAS_STARTED", j("settling")) \/ P("POST_PROVIDER_REJECTED", Reconciling!Idle)
    BY <1>3 DEF Reconciling!StartRead, Reconciling!Revalidate
  <2>2. v6[o] \in Observed BY <1>0
  <2>3. j("reading") \in Observed /\ j("settling") \in Observed BY <1>1, <2>2
  <2>4. {"PROVIDER_READ_STARTED", "PRE_PROVIDER_REJECTED", "CAS_STARTED", "POST_PROVIDER_REJECTED"}
          \subseteq Phases
    BY DEF Phases
  <2> HIDE DEF j
  <2> QED BY <2>1, <2>3, <2>4, IdleObserved, ReceiptPersisted
<1>4. ASSUME NEW o \in Observers, Reconciling!ReadPost(o) PROVE Goes
  <2> DEFINE j == [v6[o] EXCEPT !.pc = "read", !.snap = v5.status]
  <2>1. \/ Reconciling!_persist_receipt_phase(o, "PROVIDER_READ_COMPLETED", j)
        \/ Reconciling!_persist_receipt_phase(o, "PROVIDER_READ_FAILED", Reconciling!Idle)
    BY <1>4 DEF Reconciling!ReadPost
  <2>2. v6[o] \in Observed /\ v5.status \in PostStatuses BY <1>0
  <2>3. j \in Observed BY <1>1, <2>2
  <2>4. {"PROVIDER_READ_COMPLETED", "PROVIDER_READ_FAILED"} \subseteq Phases BY DEF Phases
  <2> HIDE DEF j
  <2> QED BY <2>1, <2>3, <2>4, IdleObserved, ReceiptPersisted
<1>5. ASSUME NEW o \in Observers, Reconciling!PreCas(o) PROVE Goes
  <2> DEFINE j == [v6[o] EXCEPT !.pc = "armed", !.view = v3]
  <2>1. \/ v6' = [v6 EXCEPT ![o] = j] /\ v3' = v3
        \/ Reconciling!_persist_receipt_phase(o, "POST_PROVIDER_REJECTED", Reconciling!Idle)
    BY <1>5 DEF Reconciling!PreCas
  <2>2. v6[o] \in Observed BY <1>0
  <2>3. j \in Observed BY <1>0, <1>1, <2>2
  <2>4. "POST_PROVIDER_REJECTED" \in Phases BY DEF Phases
  <2> HIDE DEF j
  <2>5. CASE v6' = [v6 EXCEPT ![o] = j] /\ v3' = v3 BY <1>0, <2>3, <2>5
  <2> QED BY <2>1, <2>4, <2>5, IdleObserved, ReceiptPersisted
<1>6. ASSUME NEW o \in Observers, Reconciling!Cas(o) PROVE Goes
  <2>1. \/ /\ v3' = Reconciling!_receipt_metadata(v6[o].view, v6[o].seq, "CAS_SUCCEEDED")
           /\ v6' = [v6 EXCEPT ![o] = Reconciling!Idle]
        \/ Reconciling!_persist_receipt_phase(o, "CAS_FAILED", Reconciling!Idle)
    BY <1>6 DEF Reconciling!Cas, Reconciling!Settle
  <2>2. {"CAS_SUCCEEDED", "CAS_FAILED"} \subseteq Phases BY DEF Phases
  <2>3. v6[o].view \in Metadata
    <3>1. v6[o] \in Observed BY <1>0
    <3> QED BY <3>1 DEF Observed
  <2>4. Reconciling!_receipt_metadata(v6[o].view, v6[o].seq, "CAS_SUCCEEDED") \in Metadata
    BY <2>2, <2>3, ReceiptMarked
  <2>5. [v6 EXCEPT ![o] = Reconciling!Idle] \in [Observers -> Observed] BY <1>0, IdleObserved
  <2> QED BY <2>1, <2>2, <2>4, <2>5, IdleObserved, ReceiptPersisted
<1>7. ASSUME NEW o \in Observers, Reconciling!ObserverDies(o) PROVE Goes
  <2>1. v3' = v3 /\ v6' = [v6 EXCEPT ![o] = Reconciling!Idle]
    BY <1>7 DEF Reconciling!ObserverDies
  <2> QED BY <1>0, <2>1, IdleObserved
<1>8. ASSUME NEW o \in Observers,
             \/ Reconciling!_begin_reconciliation_receipt(o) \/ Reconciling!StartRead(o)
             \/ Reconciling!ReadPost(o) \/ Reconciling!Revalidate(o) \/ Reconciling!PreCas(o)
             \/ Reconciling!Cas(o) \/ Reconciling!ObserverDies(o)
      PROVE  HistoryBounded'
  <2>1. v5' = v5
    BY <1>8 DEF Reconciling!_begin_reconciliation_receipt, Reconciling!StartRead,
       Reconciling!ReadPost, Reconciling!Revalidate, Reconciling!PreCas, Reconciling!Cas,
       Reconciling!ObserverDies
  <2>2. Goes BY <1>2, <1>3, <1>4, <1>5, <1>6, <1>7, <1>8
  <2> QED BY <1>0, <2>1, <2>2 DEF HistoryBounded
<1>9. CASE Reconciling!PostProgresses
  <2>1. PICK s \in Reconciling!Progress[v5.status] :
          v5' = [v5 EXCEPT !.status = s] /\ UNCHANGED <<v3, v6>>
    BY <1>9 DEF Reconciling!PostProgresses
  <2>2. s \in PostStatuses BY <1>0, <2>1 DEF Reconciling!Progress, PostStatuses
  <2> QED BY <1>0, <2>1, <2>2 DEF HistoryBounded
<1>10. CASE Reconciling!LocalDrifts \/ UNCHANGED Reconciling!rvars
  BY <1>0, <1>10 DEF Reconciling!LocalDrifts, Reconciling!rvars, HistoryBounded
<1> QED BY <1>8, <1>9, <1>10 DEF Reconciling!BRNext

LEMMA ReconciliationTypes ==
  ServicesSpec => [](focus = "reconciliation" => Reconciling!ReconciliationTypeOK)
<1> DEFINE I == focus = "reconciliation" => Reconciling!VerdictInv /\ HistoryBounded
           T == focus = "reconciliation" => Reconciling!ReconciliationTypeOK
<1>1. ServicesInit => I BY ReconcilingStart, HistoryStart DEF ServicesInit
<1>2. I /\ [ServicesNext]_allVars => I' BY ReconcilingStep, HistoryStep, ReconcilingFocus
<1>3. I => T
  <2> SUFFICES ASSUME Reconciling!VerdictInv, HistoryBounded PROVE Reconciling!ReconciliationTypeOK
    OBVIOUS
  <2>1. v1 \in {"PUBLISH_UNKNOWN", "PUBLISHED", "PUBLISH_FAILED"}
    <3>1. v7 \in Seq({"PUBLISHED", "PUBLISH_FAILED"})
          /\ v1 = (IF v7 = <<>> THEN "PUBLISH_UNKNOWN" ELSE v7[1])
      BY DEF Reconciling!VerdictInv, Reconciling!OneVerdict
    <3>2. v7 # <<>> => 1 \in 1..Len(v7) BY <3>1
    <3>3. v7 # <<>> => v7[1] \in {"PUBLISHED", "PUBLISH_FAILED"} BY <3>1, <3>2, ElementOfSeq
    <3> QED BY <3>1, <3>3
  <2>2. v2 \in {"UNKNOWN", "SUCCEEDED", "FAILED"}
    BY <2>1 DEF Reconciling!VerdictInv, Reconciling!OneVerdict
  <2>3. Len(v3.history) <= HistoryLimit BY DEF HistoryBounded, Metadata
  <2>4. v5.status \in DOMAIN Reconciling!Progress
    BY DEF HistoryBounded, PostStatuses, Reconciling!Progress
  <2>5. \A o \in Observers : v6[o].pc \in {"idle", "begun", "reading", "read", "settling", "armed"}
    BY DEF HistoryBounded, Observed
  <2> QED BY <2>1, <2>2, <2>3, <2>4, <2>5 DEF Reconciling!ReconciliationTypeOK
<1> QED BY <1>1, <1>2, <1>3, PTL DEF ServicesSpec

-----------------------------------------------------------------------------
(* AutonomousExecution: attempts and what refers to them stay within the       *)
(* bound. In Execution: dests is v1, execs v2, gens v3, recon v4, item v5,     *)
(* draft v6, approved v7, pubs v8, pub v9, permit v10, ex v11, crashes v12.    *)
TriedRuns  == [status : Execution!RunStatus, stage : 1..6, gen : 0..MaxAttempts]
TriedSeats == [pc : Execution!Labels, d : 0..MaxAttempts, x : 0..MaxAttempts, g : 0..MaxAttempts]

SeatsTried == v11 \in [Execution!Executors -> TriedSeats]
RunsTried  == v2 \in Seq(TriedRuns) /\ Len(v2) <= MaxAttempts
OthersTried == Len(v1) <= MaxAttempts /\ Len(v3) <= MaxAttempts
PartsTried ==
  /\ v4 \subseteq 1..MaxAttempts
  /\ v5 \in {"PLANNED", "GENERATED", "SCHEDULED"}
  /\ v6 \in 0..MaxAttempts
  /\ v7 \in BOOLEAN
  /\ v9 \in {"NONE", "SCHEDULED", "LEFT"}
  /\ v10 \in {"NONE", "ACTIVE", "SPENT"}
  /\ v12 \in 0..MaxCrashes

ExecutionTried == Execution!ExecInv /\ SeatsTried /\ RunsTried /\ OthersTried /\ PartsTried

LEMMA SeatMoves ==
  ASSUME SeatsTried, NEW e \in Execution!Executors, NEW l \in Execution!Labels,
         NEW n \in 0..MaxAttempts,
         \/ v11' = [v11 EXCEPT ![e].pc = l]
         \/ v11' = [v11 EXCEPT ![e].pc = l, ![e].d = n]
         \/ v11' = [v11 EXCEPT ![e].pc = l, ![e].x = n]
         \/ v11' = [v11 EXCEPT ![e].pc = l, ![e].g = n]
         \/ v11' = [v11 EXCEPT ![e] = Execution!Idle]
         \/ v11' = v11
  PROVE  SeatsTried'
<1> DEFINE j1 == [v11[e] EXCEPT !.pc = l]
           j2 == [j1 EXCEPT !.d = n]
           j3 == [j1 EXCEPT !.x = n]
           j4 == [j1 EXCEPT !.g = n]
           k2 == [v11[e] EXCEPT !.pc = l, !.d = n]
           k3 == [v11[e] EXCEPT !.pc = l, !.x = n]
           k4 == [v11[e] EXCEPT !.pc = l, !.g = n]
<1>1. v11[e] \in TriedSeats /\ v11 \in [Execution!Executors -> TriedSeats] BY DEF SeatsTried
<1>2. j1 \in TriedSeats BY <1>1 DEF TriedSeats
<1>3. \A q \in TriedSeats : /\ [q EXCEPT !.d = n] \in TriedSeats
                            /\ [q EXCEPT !.x = n] \in TriedSeats
                            /\ [q EXCEPT !.g = n] \in TriedSeats
  BY DEF TriedSeats
<1>4. j2 \in TriedSeats /\ j3 \in TriedSeats /\ j4 \in TriedSeats BY <1>2, <1>3
<1>5. k2 \in TriedSeats /\ k3 \in TriedSeats /\ k4 \in TriedSeats BY <1>4
<1>6. Execution!Idle \in TriedSeats
  BY AttemptsAssumption DEF Execution!Idle, TriedSeats, Execution!Labels
<1>7. \/ v11' = v11
      \/ \E j \in {j1, k2, k3, k4, Execution!Idle} : v11' = [v11 EXCEPT ![e] = j]
  OBVIOUS
<1> HIDE DEF j1, j2, j3, j4, k2, k3, k4
<1>8. \A j \in TriedSeats : [v11 EXCEPT ![e] = j] \in [Execution!Executors -> TriedSeats]
  BY <1>1
<1>9. v11' \in [Execution!Executors -> TriedSeats] BY <1>1, <1>2, <1>5, <1>6, <1>7, <1>8
<1> QED BY <1>9 DEF SeatsTried

LEMMA SeatEnds ==
  ASSUME SeatsTried, NEW e \in Execution!Executors, NEW ok \in BOOLEAN, Execution!Ended(e, ok)
  PROVE  SeatsTried'
<1>1. \E l \in {"finish", "dfail"} :
        \/ v11' = [v11 EXCEPT ![e].pc = l] \/ v11' = [v11 EXCEPT ![e] = Execution!Idle]
  BY DEF Execution!Ended
<1>2. {"finish", "dfail"} \subseteq Execution!Labels /\ 0 \in 0..MaxAttempts
  BY AttemptsAssumption DEF Execution!Labels
<1> QED BY <1>1, <1>2, SeatMoves

LEMMA SeatsStep ==
  ASSUME ExecutionTried, Execution!Next \/ UNCHANGED Execution!execVars
  PROVE  SeatsTried'
<1>1. SeatsTried /\ Execution!ExecInv /\ Execution!RunShapes /\ 0 \in 0..MaxAttempts
  BY AttemptsAssumption DEF ExecutionTried, Execution!ExecInv
<1>2. /\ Len(v1) \in 0..MaxAttempts /\ Len(v2) \in 0..MaxAttempts /\ Len(v3) \in 0..MaxAttempts
      /\ \A n \in 1..Len(v2) : v2[n] \in TriedRuns
  <2>1. \A n \in 1..Len(v2) : v2[n] \in TriedRuns
    BY ElementOfSeq DEF ExecutionTried, RunsTried
  <2> QED BY <1>1, <2>1, LineageLengths, AttemptsAssumption DEF ExecutionTried, RunsTried, OthersTried
<1>3. {"read", "insert", "seo", "gen", "ginsert", "render", "stageG", "auth", "stageA", "recover",
       "snapshot", "stageP", "permit", "stageQ", "fail"} \subseteq Execution!Labels
  BY DEF Execution!Labels
<1>4. ASSUME NEW e \in Execution!Executors, NEW l \in Execution!Labels, Execution!Goto(e, l)
      PROVE  SeatsTried'
  BY <1>1, <1>4, SeatMoves DEF Execution!Goto
<1>5. \A e \in Execution!Executors : v11[e] \in TriedSeats BY <1>1 DEF SeatsTried
<1>6. v1 \in Seq(Execution!RunStatus) /\ v2 \in Seq(Execution!ExecRuns) /\ v3 \in Seq(Execution!RunStatus)
      /\ Execution!ReconciledBefore(Len(v1)) /\ Execution!ReconciledBefore(Len(v2))
      /\ Execution!ReconciledBefore(Len(v3))
  BY <1>1 DEF Execution!ExecInv, Execution!RunShapes, Execution!LineagesReconciled
<1>7. ASSUME NEW c \in Coordinators, Execution!StartDestination(c) PROVE SeatsTried'
  <2> DEFINE n == Execution!next_attempt(v1)
  <2>1. n \in 1..(Len(v1) + 1) /\ n <= MaxAttempts
    BY <1>6, <1>7, OpenLineage DEF Execution!StartDestination
  <2>2. v11' = [v11 EXCEPT ![c].pc = "read", ![c].d = n] BY <1>7 DEF Execution!StartDestination
  <2> HIDE DEF n
  <2>3. n \in 0..MaxAttempts BY <1>2, <2>1, AttemptsAssumption
  <2>4. c \in Execution!Executors /\ "read" \in Execution!Labels BY <1>3 DEF Execution!Executors
  <2> QED BY <1>1, <2>2, <2>3, <2>4, SeatMoves
<1>8. ASSUME NEW c \in Coordinators, Execution!FinishDestination(c) PROVE SeatsTried'
  <2>1. v11' = [v11 EXCEPT ![c] = Execution!Idle] BY <1>8 DEF Execution!FinishDestination
  <2>2. c \in Execution!Executors /\ "read" \in Execution!Labels BY <1>3 DEF Execution!Executors
  <2> QED BY <1>1, <2>1, <2>2, SeatMoves
<1>9. ASSUME NEW b \in Preparers, Execution!StartPreparation(b) PROVE SeatsTried'
  <2>1. b \in Execution!Executors /\ "read" \in Execution!Labels BY <1>3 DEF Execution!Executors
  <2> QED BY <1>4, <1>9, <2>1 DEF Execution!StartPreparation
<1>10. ASSUME NEW e \in Execution!Executors, Execution!ReadExecution(e) PROVE SeatsTried'
  <2> DEFINE n == Execution!next_attempt(Execution!ExecStatus)
  <2>1. CASE \E ok \in BOOLEAN : Execution!Ended(e, ok) BY <1>1, <2>1, SeatEnds
  <2>2. CASE /\ Execution!Open(Execution!ExecStatus) /\ n <= MaxAttempts
             /\ v11' = [v11 EXCEPT ![e].pc = "insert", ![e].x = n]
    <3>1. Execution!ExecStatus \in Seq(Execution!RunStatus) /\ Len(Execution!ExecStatus) = Len(v2)
      BY <1>6, StatusLineage
    <3>2. n \in 1..(Len(v2) + 1) BY <1>6, <2>2, <3>1, OpenLineage
    <3> HIDE DEF n
    <3>3. n \in 0..MaxAttempts BY <1>2, <2>2, <3>2, AttemptsAssumption
    <3>4. "insert" \in Execution!Labels BY <1>3
    <3> QED BY <1>1, <2>2, <3>3, <3>4, SeatMoves
  <2> QED BY <1>10, <2>1, <2>2 DEF Execution!ReadExecution
<1>11. ASSUME NEW e \in Execution!Executors, Execution!InsertExecution(e) PROVE SeatsTried'
  <2> DEFINE x == v11[e].x
  <2>1. CASE Execution!Ended(e, FALSE) BY <1>1, <2>1, SeatEnds
  <2>2. CASE Execution!Goto(e, "seo") BY <1>3, <1>4, <2>2
  <2>3. CASE /\ x = Len(v2)
             /\ v11' = [v11 EXCEPT ![e].pc = Execution!Resume(v2[x].stage), ![e].g = v2[x].gen]
    <3>1. x \in 1..(Len(v2) + 1)
      BY <1>1, <1>11 DEF Execution!ExecInv, Execution!AttemptsRead, Execution!InsertExecution
    <3> DEFINE r == v2[x]
    <3>2. r \in TriedRuns
      <4>1. x \in 1..Len(v2) BY <1>2, <2>3, <3>1
      <4> QED BY <1>2, <4>1
    <3>3. v11' = [v11 EXCEPT ![e].pc = Execution!Resume(r.stage), ![e].g = r.gen] BY <2>3
    <3> HIDE DEF r
    <3>4. r.stage \in 1..6 /\ r.gen \in 0..MaxAttempts BY <3>2 DEF TriedRuns
    <3>5. Execution!Resume(r.stage) \in Execution!Labels
      <4>1. Execution!Resume(r.stage) \in {"seo", "gen", "auth", "recover", "permit"}
        BY <3>4 DEF Execution!Resume
      <4> QED BY <1>3, <4>1
    <3> QED BY <1>1, <3>3, <3>4, <3>5, SeatMoves
  <2> QED BY <1>11, <2>1, <2>2, <2>3 DEF Execution!InsertExecution
<1>12. ASSUME NEW e \in Execution!Executors, Execution!ReadGeneration(e) PROVE SeatsTried'
  <2> DEFINE n == Execution!next_attempt(v3)
  <2>1. CASE v11' = [v11 EXCEPT ![e].pc = "stageG", ![e].g = Len(v3)]
    <3>1. "stageG" \in Execution!Labels BY <1>3
    <3> QED BY <1>1, <1>2, <2>1, <3>1, SeatMoves
  <2>2. CASE /\ Execution!Open(v3) /\ n <= MaxAttempts
             /\ v11' = [v11 EXCEPT ![e].pc = "ginsert", ![e].g = n]
    <3>1. n \in 1..(Len(v3) + 1) BY <1>6, <2>2, OpenLineage
    <3> HIDE DEF n
    <3>2. n \in 0..MaxAttempts BY <1>2, <2>2, <3>1, AttemptsAssumption
    <3>3. "ginsert" \in Execution!Labels BY <1>3
    <3> QED BY <1>1, <2>2, <3>2, <3>3, SeatMoves
  <2>3. CASE Execution!Goto(e, "fail") BY <1>3, <1>4, <2>3
  <2> QED BY <1>12, <2>1, <2>2, <2>3 DEF Execution!ReadGeneration, Execution!Open
<1>13. ASSUME NEW e \in Execution!Executors,
              \/ Execution!StagePermitted(e) \/ Execution!_fail_run(e)
       PROVE  SeatsTried'
  <2>1. \E ok \in BOOLEAN : Execution!Ended(e, ok)
    BY <1>13 DEF Execution!StagePermitted, Execution!_fail_run
  <2> QED BY <1>1, <2>1, SeatEnds
<1>14. ASSUME NEW e \in Execution!Executors, Execution!ExecutorDies(e) PROVE SeatsTried'
  <2>1. v11' = [v11 EXCEPT ![e] = Execution!Idle] BY <1>14 DEF Execution!ExecutorDies
  <2>2. "read" \in Execution!Labels BY <1>3
  <2> QED BY <1>1, <2>1, <2>2, SeatMoves

<1>15. ASSUME NEW e \in Execution!Executors,
              \/ Execution!StageSeo(e) \/ Execution!StageGenerated(e) \/ Execution!StageAuthorized(e)
              \/ Execution!StagePublication(e) \/ Execution!Render(e) \/ Execution!RenderFails(e)
              \/ Execution!Authorize(e) \/ Execution!PolicyRefuses(e)
       PROVE  SeatsTried'
  <2>1. \E l \in {"gen", "auth", "recover", "permit", "stageG", "fail", "stageA"} : Execution!Goto(e, l)
    BY <1>15, Zenon DEF Execution!StageSeo, Execution!StageGenerated, Execution!StageAuthorized,
       Execution!StagePublication, Execution!Stage, Execution!Render, Execution!RenderFails,
       Execution!Authorize, Execution!PolicyRefuses
  <2> QED BY <1>3, <1>4, <2>1
<1>16. ASSUME NEW e \in Execution!Executors,
              \/ Execution!InsertGeneration(e) \/ Execution!RecoverPublication(e)
              \/ Execution!create_snapshot(e) \/ Execution!auto_permit_publication(e)
       PROVE  SeatsTried'
  <2>1. \E l \in {"render", "stageG", "fail", "snapshot", "stageP", "recover", "stageQ"} : Execution!Goto(e, l)
    BY <1>16 DEF Execution!InsertGeneration, Execution!RecoverPublication,
       Execution!create_snapshot, Execution!auto_permit_publication
  <2> QED BY <1>3, <1>4, <2>1
<1>17. CASE \/ Execution!PublicationLeaves \/ Execution!reconcile_failed_run_chain
            \/ UNCHANGED Execution!execVars
  <2>1. v11' = v11
    BY <1>17 DEF Execution!PublicationLeaves, Execution!reconcile_failed_run_chain, Execution!execVars
  <2> QED BY <1>1, <2>1 DEF SeatsTried
<1> QED
  BY <1>7, <1>8, <1>9, <1>10, <1>11, <1>12, <1>13, <1>14, <1>15, <1>16, <1>17 DEF Execution!Next

LEMMA RunsStep ==
  ASSUME ExecutionTried, Execution!Next \/ UNCHANGED Execution!execVars
  PROVE  RunsTried'
<1>1. /\ v2 \in Seq(TriedRuns) /\ Len(v2) <= MaxAttempts /\ Execution!ExecInv
      /\ v11 \in [Execution!Executors -> TriedSeats] /\ Len(v2) \in Nat
  BY LineageLengths DEF ExecutionTried, RunsTried, SeatsTried, Execution!ExecInv
<1>2. \A n \in 1..Len(v2) : v2[n] \in TriedRuns BY <1>1, ElementOfSeq
<1>3. ASSUME UNCHANGED v2 PROVE RunsTried' BY <1>1, <1>3 DEF RunsTried
<1>4. ASSUME NEW x, NEW r, v2' = [v2 EXCEPT ![x] = r], x \in 1..Len(v2) => r \in TriedRuns
      PROVE  RunsTried'
  <2>1. v2' \in Seq(TriedRuns) /\ Len(v2') = Len(v2) BY <1>1, <1>4, RunWritten
  <2> QED BY <1>1, <2>1 DEF RunsTried
<1>5. \A q \in TriedRuns : /\ [q EXCEPT !.stage = 2] \in TriedRuns
                           /\ [q EXCEPT !.stage = 3] \in TriedRuns
                           /\ [q EXCEPT !.stage = 4] \in TriedRuns
                           /\ [q EXCEPT !.stage = 5] \in TriedRuns
                           /\ [q EXCEPT !.stage = 6] \in TriedRuns
  BY DEF TriedRuns
<1>6. \A q \in TriedRuns, n \in 0..MaxAttempts : [q EXCEPT !.gen = n] \in TriedRuns
  BY DEF TriedRuns
<1>7. \A q \in TriedRuns, t \in Execution!RunStatus : [q EXCEPT !.status = t] \in TriedRuns
  BY DEF TriedRuns
<1>8. ASSUME NEW e \in Execution!Executors, Execution!InsertExecution(e) PROVE RunsTried'
  <2> DEFINE x == v11[e].x
  <2>1. CASE v2' = v2 BY <1>3, <2>1
  <2>2. CASE x > Len(v2) /\ v2' = Append(v2, Execution!NewExec)
    <3>1. x \in 1..(Len(v2) + 1)
      BY <1>1, <1>8 DEF Execution!ExecInv, Execution!AttemptsRead, Execution!InsertExecution
    <3>2. x \in 0..MaxAttempts BY <1>1 DEF TriedSeats
    <3> HIDE DEF x
    <3>3. Execution!NewExec \in TriedRuns
      BY AttemptsAssumption DEF Execution!NewExec, TriedRuns, Execution!RunStatus
    <3>4. v2' \in Seq(TriedRuns) /\ Len(v2') = Len(v2) + 1
      BY <1>1, <2>2, <3>3, AppendProperties
    <3>5. Len(v2') <= MaxAttempts BY <1>1, <2>2, <3>1, <3>2, <3>4, AttemptsAssumption
    <3> QED BY <3>4, <3>5 DEF RunsTried
  <2> QED BY <1>8, <2>1, <2>2 DEF Execution!InsertExecution
<1>9. ASSUME NEW e \in Execution!Executors,
             \/ Execution!StageSeo(e) \/ Execution!StageGenerated(e)
             \/ Execution!StageAuthorized(e) \/ Execution!StagePublication(e)
      PROVE  RunsTried'
  <2> DEFINE x == v11[e].x
             g == v11[e].g
             r1 == [v2[x] EXCEPT !.stage = 2]
             r2 == [v2[x] EXCEPT !.stage = 3, !.gen = g]
             r3 == [v2[x] EXCEPT !.stage = 4]
             r4 == [v2[x] EXCEPT !.stage = 5]
  <2>1. \/ v2' = [v2 EXCEPT ![x] = r1] \/ v2' = [v2 EXCEPT ![x] = r2]
        \/ v2' = [v2 EXCEPT ![x] = r3] \/ v2' = [v2 EXCEPT ![x] = r4]
    BY <1>9 DEF Execution!StageSeo, Execution!StageGenerated, Execution!StageAuthorized,
       Execution!StagePublication, Execution!Stage, Execution!Run
  <2>2. x \in 1..Len(v2) => /\ r1 \in TriedRuns /\ r2 \in TriedRuns
                            /\ r3 \in TriedRuns /\ r4 \in TriedRuns
    <3>1. g \in 0..MaxAttempts BY <1>1 DEF TriedSeats
    <3> DEFINE q == v2[x]
               u == [q EXCEPT !.stage = 3]
    <3>2. ASSUME x \in 1..Len(v2) PROVE q \in TriedRuns BY <1>2, <3>2
    <3>3. ASSUME q \in TriedRuns PROVE [u EXCEPT !.gen = g] \in TriedRuns
      <4>1. u \in TriedRuns BY <1>5, <3>3
      <4> HIDE DEF u, g
      <4> QED BY <1>6, <3>1, <4>1
    <3>4. r2 = [u EXCEPT !.gen = g] OBVIOUS
    <3>5. ASSUME q \in TriedRuns PROVE r1 \in TriedRuns /\ r3 \in TriedRuns /\ r4 \in TriedRuns
      BY <1>5, <3>5
    <3> HIDE DEF q, r1, r2, r3, r4
    <3> QED BY <3>2, <3>3, <3>4, <3>5
  <2> HIDE DEF x, r1, r2, r3, r4
  <2> QED BY <1>4, <2>1, <2>2
<1>10. ASSUME NEW e \in Execution!Executors, Execution!StagePermitted(e) \/ Execution!_fail_run(e)
       PROVE  RunsTried'
  <2> DEFINE x == v11[e].x
             q == v2[x]
             t == IF q.status = "STARTED" THEN "FAILED" ELSE q.status
             u == [q EXCEPT !.stage = 6]
             r1 == [q EXCEPT !.stage = 6, !.status = "SUCCEEDED"]
             r2 == [q EXCEPT !.status = t]
  <2>1. v2' = [v2 EXCEPT ![x] = r1] \/ v2' = [v2 EXCEPT ![x] = r2]
    BY <1>10 DEF Execution!StagePermitted, Execution!_fail_run
  <2>2. ASSUME q \in TriedRuns PROVE r1 \in TriedRuns /\ r2 \in TriedRuns
    <3>1. q.status \in Execution!RunStatus BY <2>2 DEF TriedRuns
    <3>2. t \in Execution!RunStatus /\ "SUCCEEDED" \in Execution!RunStatus
      BY <3>1 DEF Execution!RunStatus
    <3>3. u \in TriedRuns BY <1>5, <2>2
    <3>4. r1 = [u EXCEPT !.status = "SUCCEEDED"] OBVIOUS
    <3> HIDE DEF q, t, u, r1
    <3> QED BY <1>7, <2>2, <3>2, <3>3, <3>4
  <2>3. x \in 1..Len(v2) => q \in TriedRuns BY <1>2
  <2> HIDE DEF x, q, r1, r2
  <2> QED BY <1>4, <2>1, <2>2, <2>3

<1>11. ASSUME NEW e,
              \/ Execution!StartDestination(e) \/ Execution!FinishDestination(e)
              \/ Execution!StartPreparation(e) \/ Execution!ReadExecution(e)
              \/ Execution!ReadGeneration(e) \/ Execution!InsertGeneration(e)
       PROVE  RunsTried'
  BY <1>3, <1>11, Zenon DEF Execution!StartDestination, Execution!FinishDestination, Execution!StartPreparation,
     Execution!ReadExecution, Execution!ReadGeneration, Execution!InsertGeneration, Execution!runVars
<1>12. ASSUME NEW e,
              \/ Execution!Render(e) \/ Execution!RenderFails(e) \/ Execution!Authorize(e)
              \/ Execution!PolicyRefuses(e) \/ Execution!RecoverPublication(e)
              \/ Execution!create_snapshot(e) \/ Execution!auto_permit_publication(e)
              \/ Execution!ExecutorDies(e)
       PROVE  RunsTried'
  BY <1>3, <1>12, Zenon DEF Execution!Render, Execution!RenderFails, Execution!Authorize, Execution!PolicyRefuses,
     Execution!RecoverPublication, Execution!create_snapshot, Execution!auto_permit_publication,
     Execution!ExecutorDies, Execution!runVars
<1>13. CASE \/ Execution!PublicationLeaves \/ Execution!reconcile_failed_run_chain
            \/ UNCHANGED Execution!execVars
  BY <1>3, <1>13, Zenon DEF Execution!PublicationLeaves, Execution!reconcile_failed_run_chain,
     Execution!execVars, Execution!runVars
<1> QED BY <1>8, <1>9, <1>10, <1>11, <1>12, <1>13 DEF Execution!Next

LEMMA OthersStep ==
  ASSUME ExecutionTried, Execution!Next \/ UNCHANGED Execution!execVars
  PROVE  OthersTried'
<1>1. /\ v1 \in Seq(Execution!RunStatus) /\ Len(v1) <= MaxAttempts /\ Len(v1) \in Nat
      /\ v3 \in Seq(Execution!RunStatus) /\ Len(v3) <= MaxAttempts /\ Len(v3) \in Nat
      /\ v11 \in [Execution!Executors -> TriedSeats] /\ Execution!ExecInv
      /\ Execution!ReconciledBefore(Len(v1))
  BY LineageLengths DEF ExecutionTried, OthersTried, SeatsTried, Execution!ExecInv, Execution!RunShapes,
     Execution!LineagesReconciled
<1>2. ASSUME UNCHANGED <<v1, v3>> PROVE OthersTried' BY <1>1, <1>2 DEF OthersTried
<1>4. ASSUME NEW s \in Seq(Execution!RunStatus), NEW i, NEW t,
             i \in 1..Len(s) => t \in Execution!RunStatus
      PROVE  Len([s EXCEPT ![i] = t]) = Len(s)
  BY <1>4, RunWritten
<1>5. ASSUME NEW c \in Coordinators, Execution!StartDestination(c) PROVE OthersTried'
  <2> DEFINE n == Execution!next_attempt(v1)
  <2>1. n \in 1..(Len(v1) + 1) /\ n <= MaxAttempts
    BY <1>1, <1>5, OpenLineage DEF Execution!StartDestination
  <2>2. v3' = v3 /\ v1' = IF n > Len(v1) THEN Append(v1, "STARTED") ELSE v1
    BY <1>5 DEF Execution!StartDestination
  <2> HIDE DEF n
  <2>3. Len(Append(v1, "STARTED")) = Len(v1) + 1
    <3>1. "STARTED" \in Execution!RunStatus BY DEF Execution!RunStatus
    <3> QED BY <1>1, <3>1, AppendProperties
  <2>4. Len(v1') <= MaxAttempts BY <1>1, <2>1, <2>2, <2>3, AttemptsAssumption
  <2> QED BY <1>1, <2>2, <2>4 DEF OthersTried
<1>6. ASSUME NEW c \in Coordinators, Execution!FinishDestination(c) PROVE OthersTried'
  <2> DEFINE d == v11[c].d
             r == IF v1[d] # "STARTED" THEN v1[d]
                  ELSE IF Execution!At(c, "finish") THEN "SUCCEEDED" ELSE "FAILED"
  <2>1. v1' = [v1 EXCEPT ![d] = r] /\ v3' = v3 BY <1>6 DEF Execution!FinishDestination
  <2>2. d \in 1..Len(v1) => v1[d] \in Execution!RunStatus BY <1>1, ElementOfSeq
  <2>3. d \in 1..Len(v1) => r \in Execution!RunStatus BY <2>2 DEF Execution!RunStatus
  <2> HIDE DEF d, r
  <2>4. Len(v1') = Len(v1) BY <1>1, <1>4, <2>1, <2>3
  <2> QED BY <1>1, <2>1, <2>4 DEF OthersTried
<1>7. ASSUME NEW e \in Execution!Executors, Execution!InsertGeneration(e) PROVE OthersTried'
  <2> DEFINE g == v11[e].g
  <2>1. v1' = v1 BY <1>7 DEF Execution!InsertGeneration
  <2>2. CASE v3' = v3 BY <1>2, <2>1, <2>2
  <2>3. CASE g > Len(v3) /\ v3' = Append(v3, "STARTED")
    <3>1. g \in 1..(Len(v3) + 1)
      BY <1>1, <1>7 DEF Execution!ExecInv, Execution!AttemptsRead, Execution!InsertGeneration
    <3>2. g \in 0..MaxAttempts BY <1>1 DEF TriedSeats
    <3> HIDE DEF g
    <3>3. "STARTED" \in Execution!RunStatus BY DEF Execution!RunStatus
    <3>4. Len(v3') = Len(v3) + 1 BY <1>1, <2>3, <3>3, AppendProperties
    <3>5. Len(v3') <= MaxAttempts BY <1>1, <2>3, <3>1, <3>2, <3>4, AttemptsAssumption
    <3> QED BY <1>1, <2>1, <3>5 DEF OthersTried
  <2> QED BY <1>7, <2>2, <2>3 DEF Execution!InsertGeneration
<1>8. ASSUME NEW e \in Execution!Executors, Execution!Render(e) \/ Execution!RenderFails(e)
      PROVE  OthersTried'
  <2> DEFINE g == v11[e].g
             r == IF v3[g] = "STARTED" THEN "FAILED" ELSE v3[g]
  <2>1. v1' = v1 /\ (v3' = [v3 EXCEPT ![g] = "SUCCEEDED"] \/ v3' = [v3 EXCEPT ![g] = r])
    BY <1>8 DEF Execution!Render, Execution!RenderFails
  <2>2. g \in 1..Len(v3) => v3[g] \in Execution!RunStatus BY <1>1, ElementOfSeq
  <2>3. "SUCCEEDED" \in Execution!RunStatus /\ (g \in 1..Len(v3) => r \in Execution!RunStatus)
    BY <2>2 DEF Execution!RunStatus
  <2> HIDE DEF g, r
  <2>4. Len(v3') = Len(v3) BY <1>1, <1>4, <2>1, <2>3
  <2> QED BY <1>1, <2>1, <2>4 DEF OthersTried
<1>9. ASSUME NEW e,
             \/ Execution!StartPreparation(e) \/ Execution!ReadExecution(e) \/ Execution!InsertExecution(e)
             \/ Execution!StageSeo(e) \/ Execution!StageGenerated(e) \/ Execution!StageAuthorized(e)
             \/ Execution!StagePublication(e) \/ Execution!StagePermitted(e) \/ Execution!_fail_run(e)
      PROVE  OthersTried'
  <2>1. UNCHANGED <<v1, v3>>
    BY <1>9, Zenon DEF Execution!StartPreparation, Execution!ReadExecution, Execution!InsertExecution,
       Execution!StageSeo, Execution!StageGenerated, Execution!StageAuthorized, Execution!StagePublication,
       Execution!Stage, Execution!StagePermitted, Execution!_fail_run, Execution!runVars
  <2> QED BY <1>2, <2>1
<1>10. ASSUME NEW e,
             \/ Execution!ReadGeneration(e) \/ Execution!Authorize(e) \/ Execution!PolicyRefuses(e)
             \/ Execution!RecoverPublication(e) \/ Execution!create_snapshot(e)
             \/ Execution!auto_permit_publication(e) \/ Execution!ExecutorDies(e)
      PROVE  OthersTried'
  <2>1. UNCHANGED <<v1, v3>>
    BY <1>10, Zenon DEF Execution!ReadGeneration, Execution!Authorize, Execution!PolicyRefuses,
       Execution!RecoverPublication, Execution!create_snapshot, Execution!auto_permit_publication,
       Execution!ExecutorDies, Execution!runVars
  <2> QED BY <1>2, <2>1
<1>11. CASE \/ Execution!PublicationLeaves \/ Execution!reconcile_failed_run_chain
            \/ UNCHANGED Execution!execVars
  <2>1. UNCHANGED <<v1, v3>>
    BY <1>11, Zenon DEF Execution!PublicationLeaves, Execution!reconcile_failed_run_chain,
       Execution!execVars, Execution!runVars
  <2> QED BY <1>2, <2>1
<1> QED BY <1>5, <1>6, <1>7, <1>8, <1>9, <1>10, <1>11 DEF Execution!Next

LEMMA PartsStep ==
  ASSUME ExecutionTried, Execution!Next \/ UNCHANGED Execution!execVars
  PROVE  PartsTried'
<1>1. PartsTried /\ v11 \in [Execution!Executors -> TriedSeats] BY DEF ExecutionTried, SeatsTried
<1>2. ASSUME UNCHANGED <<v4, v5, v6, v7, v9, v10, v12>> PROVE PartsTried' BY <1>1, <1>2 DEF PartsTried
<1>3. ASSUME NEW e,
             \/ Execution!StartDestination(e) \/ Execution!FinishDestination(e)
             \/ Execution!StartPreparation(e) \/ Execution!ReadExecution(e) \/ Execution!InsertExecution(e)
      PROVE  PartsTried'
  <2>1. UNCHANGED <<v4, v5, v6, v7, v9, v10, v12>>
    BY <1>3, Zenon DEF Execution!StartDestination, Execution!FinishDestination, Execution!StartPreparation,
       Execution!ReadExecution, Execution!InsertExecution, Execution!pubVars
  <2> QED BY <1>2, <2>1
<1>4. ASSUME NEW e,
             \/ Execution!StageSeo(e) \/ Execution!StageGenerated(e) \/ Execution!StageAuthorized(e)
             \/ Execution!StagePermitted(e) \/ Execution!_fail_run(e) \/ Execution!ReadGeneration(e)
             \/ Execution!InsertGeneration(e)
      PROVE  PartsTried'
  <2>1. UNCHANGED <<v4, v5, v6, v7, v9, v10, v12>>
    BY <1>4, Zenon DEF Execution!StageSeo, Execution!StageGenerated, Execution!StageAuthorized, Execution!Stage,
       Execution!StagePermitted, Execution!_fail_run, Execution!ReadGeneration,
       Execution!InsertGeneration, Execution!pubVars
  <2> QED BY <1>2, <2>1
<1>5. ASSUME NEW e,
             Execution!RenderFails(e) \/ Execution!PolicyRefuses(e) \/ Execution!RecoverPublication(e)
      PROVE  PartsTried'
  <2>1. UNCHANGED <<v4, v5, v6, v7, v9, v10, v12>>
    BY <1>5, Zenon DEF Execution!RenderFails, Execution!PolicyRefuses, Execution!RecoverPublication,
       Execution!pubVars
  <2> QED BY <1>2, <2>1
<1>6. ASSUME NEW e \in Execution!Executors, Execution!StagePublication(e) PROVE PartsTried'
  <2>1. v5' = "SCHEDULED" /\ UNCHANGED <<v4, v6, v7, v9, v10, v12>>
    BY <1>6, Zenon DEF Execution!StagePublication, Execution!Stage, Execution!pubVars
  <2> QED BY <1>1, <2>1 DEF PartsTried
<1>7. ASSUME NEW e \in Execution!Executors, Execution!Render(e) PROVE PartsTried'
  <2>1. v5' = "GENERATED" /\ v6' = v11[e].g /\ UNCHANGED <<v4, v7, v9, v10, v12>>
    BY <1>7, Zenon DEF Execution!Render, Execution!pubVars
  <2>2. v11[e].g \in 0..MaxAttempts BY <1>1 DEF TriedSeats
  <2> QED BY <1>1, <2>1, <2>2 DEF PartsTried
<1>8. ASSUME NEW e \in Execution!Executors,
             Execution!Authorize(e) \/ Execution!create_snapshot(e) \/ Execution!auto_permit_publication(e)
      PROVE  PartsTried'
  <2>1. /\ v7' \in {v7, TRUE} /\ v9' \in {v9, "SCHEDULED"} /\ v10' \in {v10, "ACTIVE"}
        /\ UNCHANGED <<v4, v5, v6, v12>>
    BY <1>8 DEF Execution!Authorize, Execution!create_snapshot, Execution!auto_permit_publication,
       Execution!pubVars
  <2>2. v7' \in BOOLEAN BY <1>1, <2>1, Zenon DEF PartsTried
  <2>3. v9' \in {"NONE", "SCHEDULED", "LEFT"} /\ v10' \in {"NONE", "ACTIVE", "SPENT"}
    BY <1>1, <2>1 DEF PartsTried
  <2> QED BY <1>1, <2>1, <2>2, <2>3 DEF PartsTried
<1>9. ASSUME NEW e \in Execution!Executors, Execution!ExecutorDies(e) PROVE PartsTried'
  <2>1. v12 < MaxCrashes /\ v12' = v12 + 1 /\ UNCHANGED <<v4, v5, v6, v7, v9, v10>>
    BY <1>9 DEF Execution!ExecutorDies, Execution!pubVars
  <2>2. v12' \in 0..MaxCrashes BY <1>1, <2>1, AttemptsAssumption DEF PartsTried
  <2> QED BY <1>1, <2>1, <2>2 DEF PartsTried
<1>10. CASE Execution!PublicationLeaves
  <2>1. v9' = "LEFT" /\ v10' \in {v10, "SPENT"} /\ UNCHANGED <<v4, v5, v6, v7, v12>>
    BY <1>10 DEF Execution!PublicationLeaves
  <2> QED BY <1>1, <2>1 DEF PartsTried
<1>11. CASE Execution!reconcile_failed_run_chain
  <2>1. v4' = v4 \cup {Len(v3)} /\ v3 # <<>> /\ UNCHANGED <<v5, v6, v7, v9, v10, v12>>
    BY <1>11, Zenon DEF Execution!reconcile_failed_run_chain, Execution!SameFailedAttempt, Execution!LastIs,
       Execution!pubVars
  <2>2. Len(v3) \in 1..MaxAttempts
    <3>1. v3 \in Seq(Execution!RunStatus) /\ Len(v3) <= MaxAttempts
      BY DEF ExecutionTried, OthersTried, Execution!ExecInv, Execution!RunShapes
    <3>2. Len(v3) \in Nat /\ Len(v3) # 0 BY <2>1, <3>1, LenProperties, EmptySeq
    <3> QED BY <3>1, <3>2, AttemptsAssumption
  <2>3. v4' \subseteq 1..MaxAttempts BY <1>1, <2>1, <2>2 DEF PartsTried
  <2> QED BY <1>1, <2>1, <2>3 DEF PartsTried
<1>12. CASE UNCHANGED Execution!execVars
  <2>1. UNCHANGED <<v4, v5, v6, v7, v9, v10, v12>> BY <1>12 DEF Execution!execVars, Execution!pubVars
  <2> QED BY <1>2, <2>1
<1> QED
  BY <1>3, <1>4, <1>5, <1>6, <1>7, <1>8, <1>9, <1>10, <1>11, <1>12 DEF Execution!Next

LEMMA TriedStart ==
  ASSUME Execution!Init
  PROVE  ExecutionTried
<1>1. Execution!ExecInv BY ExecutionStart
<1>2. SeatsTried
  <2>1. Execution!Idle \in TriedSeats
    BY AttemptsAssumption DEF Execution!Idle, TriedSeats, Execution!Labels
  <2> QED BY <2>1 DEF SeatsTried, Execution!Init
<1>3. RunsTried /\ OthersTried
  <2>1. v1 = <<>> /\ v2 = <<>> /\ v3 = <<>> BY DEF Execution!Init
  <2>2. <<>> \in Seq(TriedRuns) /\ Len(<<>>) = 0 BY EmptySeq
  <2> QED BY <2>1, <2>2, AttemptsAssumption DEF RunsTried, OthersTried
<1>4. PartsTried
  <2>1. v6 = 0 /\ v12 = 0 BY DEF Execution!Init
  <2>2. v6 \in 0..MaxAttempts /\ v12 \in 0..MaxCrashes BY <2>1, AttemptsAssumption
  <2>3. v7 \in BOOLEAN BY Zenon DEF Execution!Init
  <2>4. v4 \subseteq 1..MaxAttempts BY DEF Execution!Init
  <2>5. /\ v5 \in {"PLANNED", "GENERATED", "SCHEDULED"} /\ v9 \in {"NONE", "SCHEDULED", "LEFT"}
        /\ v10 \in {"NONE", "ACTIVE", "SPENT"}
    BY DEF Execution!Init
  <2> QED BY <2>2, <2>3, <2>4, <2>5 DEF PartsTried
<1> QED BY <1>1, <1>2, <1>3, <1>4 DEF ExecutionTried

LEMMA ExecutionTypes == ServicesSpec => [](focus = "execution" => Execution!TypeOK)
<1> DEFINE I == focus = "execution" => ExecutionTried
<1>1. ServicesInit => I
  <2> SUFFICES ASSUME ServicesInit, focus = "execution" PROVE ExecutionTried OBVIOUS
  <2>1. Execution!Init BY DEF ServicesInit
  <2> QED BY <2>1, TriedStart
<1>2. I /\ [ServicesNext]_allVars => I'
  <2> SUFFICES ASSUME I, [ServicesNext]_allVars, focus' = "execution" PROVE ExecutionTried' OBVIOUS
  <2>1. /\ focus = "execution" /\ (Execution!Next \/ UNCHANGED Execution!execVars)
        /\ ExecutionTried
    BY ExecutionFocus
  <2>2. Execution!ExecInv' BY <2>1, ExecutionStep DEF ExecutionTried
  <2>3. SeatsTried' BY <2>1, SeatsStep
  <2>4. RunsTried' BY <2>1, RunsStep
  <2>5. OthersTried' BY <2>1, OthersStep
  <2>6. PartsTried' BY <2>1, PartsStep
  <2> QED BY <2>2, <2>3, <2>4, <2>5, <2>6 DEF ExecutionTried
<1>3. I => (focus = "execution" => Execution!TypeOK)
  <2> SUFFICES ASSUME ExecutionTried PROVE Execution!TypeOK OBVIOUS
  <2>1. v1 \in Seq(Execution!RunStatus) /\ v3 \in Seq(Execution!RunStatus) /\ v8 \in Nat
    BY DEF ExecutionTried, Execution!ExecInv, Execution!RunShapes
  <2>2. v2 \in Seq(TriedRuns) /\ v11 \in [Execution!Executors -> TriedSeats]
    BY DEF ExecutionTried, RunsTried, SeatsTried
  <2>3. v4 \in SUBSET (1..MaxAttempts) BY DEF ExecutionTried, PartsTried
  <2>4. PartsTried BY DEF ExecutionTried
  <2> QED BY <2>1, <2>2, <2>3, <2>4, Zenon
    DEF Execution!TypeOK, TriedRuns, TriedSeats, Execution!RunStatus, PartsTried
<1> QED BY <1>1, <1>2, <1>3, PTL DEF ServicesSpec

-----------------------------------------------------------------------------
(* CertifiedLive.                                                              *)
CertifiedNamed ==
  /\ v1 \in {"PAUSED", "DRY_RUN", "LIVE"}
  /\ v2 \in Requests \cup {Certified!Operator, Certified!Free}
  /\ v3.no \in 0..MaxRuns
  /\ v4 \in {"SCHEDULED", "CANCELLED", "PUBLISHING", "PUBLISHED", "PUBLISH_UNKNOWN",
             "PUBLISH_FAILED"}
  /\ v5 \in {"ACTIVE", "CONSUMED", "REVOKED"}

(* Every step but two leaves the number of the latest run alone.               *)
LEMMA CertifiedNumbers ==
  ASSUME CertifiedNamed, v3 \in Certified!RunRows, Certified!CLNext \/ UNCHANGED Certified!clVars
  PROVE  v3'.no \in 0..MaxRuns
<1>1. ASSUME NEW s, NEW f PROVE /\ [v3 EXCEPT !.status = s, !.stale = f].no = v3.no
                                /\ [v3 EXCEPT !.stale = f].no = v3.no
  BY DEF Certified!RunRows
<1>2. ASSUME NEW n, n = v3.no + 1, v3.no < MaxRuns PROVE n \in 0..MaxRuns
  BY <1>2, AttemptsAssumption DEF CertifiedNamed
<1>3. ASSUME NEW r \in Requests,
             \/ Certified!run_once_live(r) \/ Certified!Refuse(r) \/ Certified!Admit(r)
             \/ Certified!Skip(r) \/ Certified!Claim(r) \/ Certified!PostClaim(r)
             \/ Certified!Verify(r) \/ Certified!PreFail(r) \/ Certified!Boundary(r)
             \/ Certified!LockCall(r) \/ Certified!LockRefused(r) \/ Certified!Call(r)
             \/ Certified!Persist(r) \/ Certified!Reconcile(r) \/ Certified!Pause(r)
             \/ Certified!Exception(r) \/ Certified!Cancelled(r) \/ Certified!Die(r)
             \/ Certified!Disarm(r)
      PROVE  v3' = v3
  BY <1>3 DEF Certified!run_once_live, Certified!Refuse, Certified!Admit, Certified!Skip,
     Certified!Claim, Certified!PostClaim, Certified!Verify, Certified!PreFail,
     Certified!Boundary, Certified!LockCall, Certified!LockRefused, Certified!Call,
     Certified!Persist, Certified!Reconcile, Certified!Pause, Certified!Exception,
     Certified!Cancelled, Certified!Die, Certified!Disarm
<1>4. ASSUME NEW r \in Requests, Certified!BeginRun(r) \/ Certified!Finish(r) \/ Certified!RunFailed(r)
      PROVE  v3'.no = v3.no
  <2> DEFINE w(s) == [v3 EXCEPT !.status = s, !.stale = FALSE]
             u == [v3 EXCEPT !.stale = FALSE]
  <2>1. w("SUCCEEDED").no = v3.no /\ w("FAILED").no = v3.no /\ u.no = v3.no BY <1>1
  <2>2. v3' = v3 \/ v3' = u \/ v3' = w("SUCCEEDED") \/ v3' = w("FAILED")
    BY <1>4 DEF Certified!BeginRun, Certified!Finish, Certified!RunFailed, Certified!FinishRun
  <2> HIDE DEF w, u
  <2> QED BY <2>1, <2>2
<1>5. ASSUME NEW r \in Requests, Certified!reserve_certified_live(r) PROVE v3'.no \in 0..MaxRuns
  <2>1. v3.no < MaxRuns /\ v3'.no = v3.no + 1 BY <1>5 DEF Certified!reserve_certified_live
  <2> QED BY <1>2, <2>1
<1>6. ASSUME NEW a, Certified!RecoverRead(a) \/ Certified!RecoverWrite(a) \/ Certified!RecoverFails(a)
      PROVE  v3'.no = v3.no
  <2> DEFINE w == [v3 EXCEPT !.status = "FAILED", !.stale = FALSE]
  <2>1. w.no = v3.no BY <1>1
  <2>2. v3' = v3 \/ v3' = w
    BY <1>6 DEF Certified!RecoverRead, Certified!RecoverWrite, Certified!RecoverFails
  <2> HIDE DEF w
  <2> QED BY <2>1, <2>2
<1>7. CASE Certified!DryRun
  <2>1. v3.no < MaxRuns /\ v3'.no = v3.no + 1 BY <1>7 DEF Certified!DryRun
  <2> QED BY <1>2, <2>1
<1>8. CASE Certified!RunAges
  <2>1. v3'.no = v3.no BY <1>1, <1>8 DEF Certified!RunAges
  <2> QED BY <2>1 DEF CertifiedNamed
<1>9. CASE \/ \E state \in {"PAUSED", "DRY_RUN", "LIVE"} : Certified!set_control(state)
           \/ Certified!preflight_certified_live \/ Certified!ReceiptExpires \/ Certified!Withdraw
           \/ UNCHANGED Certified!clVars
  <2>1. v3' = v3
    BY <1>9 DEF Certified!set_control, Certified!preflight_certified_live,
       Certified!ReceiptExpires, Certified!Withdraw, Certified!clVars
  <2> QED BY <2>1 DEF CertifiedNamed
<1>10. v3.no \in 0..MaxRuns BY DEF CertifiedNamed
<1> QED BY <1>3, <1>4, <1>5, <1>6, <1>7, <1>8, <1>9, <1>10 DEF Certified!CLNext

LEMMA CertifiedNames ==
  ASSUME CertifiedNamed, v8 \in Certified!Rows, Certified!CLNext \/ UNCHANGED Certified!clVars
  PROVE  /\ v1' \in {"PAUSED", "DRY_RUN", "LIVE"}
         /\ v2' \in Requests \cup {Certified!Operator, Certified!Free}
         /\ v4' \in {"SCHEDULED", "CANCELLED", "PUBLISHING", "PUBLISHED", "PUBLISH_UNKNOWN",
                     "PUBLISH_FAILED"}
         /\ v5' \in {"ACTIVE", "CONSUMED", "REVOKED"}
<1> USE DEF CertifiedNamed
<1>0. DOMAIN v8 = Requests \cup {Certified!Operator} BY DEF Certified!Rows
<1>1. ASSUME NEW r \in Requests,
             \/ Certified!run_once_live(r) \/ Certified!Refuse(r) \/ Certified!Admit(r)
             \/ Certified!Skip(r) \/ Certified!PostClaim(r) \/ Certified!Verify(r)
             \/ Certified!Boundary(r) \/ Certified!Call(r) \/ Certified!BeginRun(r)
             \/ Certified!Finish(r) \/ Certified!RunFailed(r)
      PROVE  UNCHANGED <<v1, v2, v4, v5>>
  BY <1>1 DEF Certified!run_once_live, Certified!Refuse, Certified!Admit, Certified!Skip,
     Certified!PostClaim, Certified!Verify, Certified!Boundary, Certified!Call,
     Certified!BeginRun, Certified!Finish, Certified!RunFailed
<1>2. ASSUME NEW r \in Requests, Certified!reserve_certified_live(r) \/ Certified!Pause(r) \/ Certified!Disarm(r)
      PROVE  UNCHANGED <<v2, v4, v5>> /\ v1' \in {"LIVE", "PAUSED"}
  BY <1>2 DEF Certified!reserve_certified_live, Certified!Pause, Certified!Disarm
<1>3. ASSUME NEW r \in Requests, Certified!Exception(r) \/ Certified!Cancelled(r) \/ Certified!Die(r)
      PROVE  UNCHANGED <<v1, v4, v5>> /\ v2' \in {v2, Certified!Free}
  BY <1>3 DEF Certified!Exception, Certified!Cancelled, Certified!Die, Certified!Unlocked
<1>4. ASSUME NEW r \in Requests, Certified!Claim(r)
      PROVE  UNCHANGED <<v1, v2>> /\ v4' = "PUBLISHING" /\ v5' = "CONSUMED"
  BY <1>4 DEF Certified!Claim
<1>5. ASSUME NEW r \in Requests, Certified!PreFail(r) \/ Certified!LockRefused(r) \/ Certified!Reconcile(r)
      PROVE  UNCHANGED <<v1, v2, v5>> /\ v4' \in {v4, "PUBLISH_FAILED", "PUBLISH_UNKNOWN", "PUBLISHED"}
  BY <1>5 DEF Certified!PreFail, Certified!LockRefused, Certified!Reconcile, Certified!Resolved
<1>6. ASSUME NEW r \in Requests, Certified!LockCall(r)
      PROVE  UNCHANGED <<v1, v4, v5>> /\ v2' = r
  BY <1>6 DEF Certified!LockCall
<1>7. ASSUME NEW r \in Requests, Certified!Persist(r)
      PROVE  /\ UNCHANGED <<v1, v5>> /\ v2' \in {v2, Certified!Free}
             /\ v4' \in {"PUBLISH_FAILED", "PUBLISH_UNKNOWN"}
  <2>1. UNCHANGED <<v1, v5>> /\ v2' \in {v2, Certified!Free}
    BY <1>7 DEF Certified!Persist, Certified!Unlocked
  <2>2. Certified!At(r, "refused") \/ Certified!At(r, "sent") \/ Certified!At(r, "pending")
    BY <1>7 DEF Certified!Persist, Certified!Answered
  <2>3. \/ Certified!Resolved("PUBLISH_FAILED", "FAILED")
        \/ Certified!Resolved("PUBLISH_UNKNOWN", "UNKNOWN")
    BY <1>7, <2>2 DEF Certified!Persist
  <2> QED BY <2>1, <2>3 DEF Certified!Resolved
<1>8. ASSUME NEW a \in DOMAIN v8, Certified!RecoverRead(a) \/ Certified!RecoverFails(a)
      PROVE  UNCHANGED <<v1, v4, v5>> /\ v2' \in {a, v2, Certified!Free}
  BY <1>8 DEF Certified!RecoverRead, Certified!RecoverFails, Certified!Unlocked
<1>9. ASSUME NEW a \in DOMAIN v8, Certified!RecoverWrite(a)
      PROVE  /\ v1' = "PAUSED" /\ v5' = v5 /\ v2' \in {v2, Certified!Free}
             /\ v4' \in {v4, "PUBLISH_FAILED", "PUBLISH_UNKNOWN"}
  <2>1. v1' = "PAUSED" /\ v5' = v5 /\ v2' \in {v2, Certified!Free}
    BY <1>9 DEF Certified!RecoverWrite, Certified!Unlocked
  <2>2. v8[a].unknown \in {"none", "unknown", "failed"} BY <1>0 DEF Certified!Rows
  <2>3. v4' \in {v4, "PUBLISH_FAILED", "PUBLISH_UNKNOWN"}
    BY <1>9, <2>2 DEF Certified!RecoverWrite, Certified!Resolved
  <2> QED BY <2>1, <2>3
<1>10. CASE \E state \in {"PAUSED", "DRY_RUN", "LIVE"} : Certified!set_control(state)
  BY <1>10 DEF Certified!set_control
<1>11. CASE Certified!Withdraw BY <1>11 DEF Certified!Withdraw
<1>12. CASE \/ Certified!preflight_certified_live \/ Certified!ReceiptExpires \/ Certified!DryRun
            \/ Certified!RunAges \/ UNCHANGED Certified!clVars
  BY <1>12 DEF Certified!preflight_certified_live, Certified!ReceiptExpires, Certified!DryRun,
     Certified!RunAges, Certified!clVars
<1>13. ASSUME NEW r \in Requests,
              \/ Certified!run_once_live(r) \/ Certified!reserve_certified_live(r) \/ Certified!Refuse(r)
              \/ Certified!BeginRun(r) \/ Certified!Admit(r) \/ Certified!Skip(r) \/ Certified!Claim(r)
              \/ Certified!PostClaim(r) \/ Certified!Verify(r) \/ Certified!PreFail(r)
              \/ Certified!Boundary(r) \/ Certified!LockCall(r) \/ Certified!LockRefused(r)
              \/ Certified!Call(r) \/ Certified!Persist(r) \/ Certified!Reconcile(r)
              \/ Certified!Pause(r) \/ Certified!Finish(r) \/ Certified!Exception(r)
              \/ Certified!RunFailed(r) \/ Certified!Cancelled(r) \/ Certified!Die(r)
              \/ Certified!Disarm(r)
       PROVE  /\ v1' \in {v1, "LIVE", "PAUSED"} /\ v2' \in {v2, r, Certified!Free}
              /\ v4' \in {v4, "PUBLISHING", "PUBLISH_FAILED", "PUBLISH_UNKNOWN", "PUBLISHED"}
              /\ v5' \in {v5, "CONSUMED"}
  BY <1>1, <1>2, <1>3, <1>4, <1>5, <1>6, <1>7, <1>13
<1>14. ASSUME NEW a \in DOMAIN v8,
              Certified!RecoverRead(a) \/ Certified!RecoverWrite(a) \/ Certified!RecoverFails(a)
       PROVE  /\ v1' \in {v1, "PAUSED"} /\ v2' \in {v2, a, Certified!Free}
              /\ v4' \in {v4, "PUBLISH_FAILED", "PUBLISH_UNKNOWN"} /\ v5' = v5
  BY <1>8, <1>9, <1>14
<1> QED BY <1>0, <1>10, <1>11, <1>12, <1>13, <1>14 DEF Certified!CLNext

LEMMA CertifiedTypes == ServicesSpec => [](focus = "certified" => Certified!CertifiedTypeOK)
<1> DEFINE I == focus = "certified" => Certified!CertifiedInv /\ CertifiedNamed
           T == focus = "certified" => Certified!CertifiedTypeOK
<1>1. ServicesInit => I
  <2>1. Certified!CLInit => CertifiedNamed BY AttemptsAssumption DEF Certified!CLInit, CertifiedNamed
  <2> QED BY <2>1, CertifiedStart DEF ServicesInit
<1>2. I /\ [ServicesNext]_allVars => I'
  <2> SUFFICES ASSUME Certified!CertifiedInv, CertifiedNamed,
                      Certified!CLNext \/ UNCHANGED Certified!clVars
               PROVE  Certified!CertifiedInv' /\ CertifiedNamed'
    BY CertifiedFocus
  <2>1. v3 \in Certified!RunRows /\ v8 \in Certified!Rows
    BY DEF Certified!CertifiedInv, Certified!Shapes
  <2>2. CertifiedNamed' BY <2>1, CertifiedNumbers, CertifiedNames DEF CertifiedNamed
  <2> QED BY <2>2, CertifiedStep
<1>3. I => T
  <2> SUFFICES ASSUME Certified!CertifiedInv, CertifiedNamed PROVE Certified!CertifiedTypeOK
    OBVIOUS
  <2>1. DOMAIN v8 = Requests \cup {Certified!Operator}
    BY DEF Certified!CertifiedInv, Certified!Shapes, Certified!Rows
  <2>2. v6.status \in {"none", "STARTED", "UNKNOWN", "FAILED"}
    BY DEF Certified!CertifiedInv, Certified!Shapes, Certified!TryRows
  <2> QED BY <2>1, <2>2 DEF CertifiedNamed, Certified!CertifiedTypeOK
<1> QED BY <1>1, <1>2, <1>3, PTL DEF ServicesSpec

-----------------------------------------------------------------------------
(* ProposalBatch: what is proposed is proposed of a listing. In Proposing:     *)
(* facts is v1, concepts v2, work v3, changes v4.                              *)
WorkPlaces  == {"idle", "insert", "blocked", "open"}
OfListings(S) == \A c \in S : c.product \in Listings

ProposalsKept ==
  /\ v1 \in [Listings -> Profiles]
  /\ OfListings(v2)
  /\ DOMAIN v3 = Workers
  /\ \A w \in Workers : v3[w].pc \in WorkPlaces /\ OfListings(v3[w].batch)
  /\ v4 \in 0..MaxChanges

LEMMA ProposalsOfListings ==
  ASSUME NEW s \in Seq(Listings)
  PROVE  OfListings(Proposing!Proposals(s))
<1> DEFINE ranked == Proposing!_rank_batch(v1, s)
           F(n, a) == Proposing!Fingerprint(s[n], v1[s[n]], a)
           B(n) == {F(n, a) : a \in ranked[n]}
<1>1. Proposing!Proposals(s) = UNION {B(n) : n \in DOMAIN s} BY DEF Proposing!Proposals
<1>2. \A n \in DOMAIN s : s[n] \in Listings BY ElementOfSeq, LenProperties
<1>3. \A n, a : F(n, a).product = s[n] BY DEF Proposing!Fingerprint
<1> HIDE DEF F, ranked
<1>4. \A c \in UNION {B(n) : n \in DOMAIN s} : c.product \in Listings BY <1>2, <1>3
<1> QED BY <1>1, <1>4 DEF OfListings

LEMMA WorkGoes ==
  ASSUME ProposalsKept, NEW w \in Workers, NEW pc \in WorkPlaces, NEW batch, OfListings(batch),
         Proposing!Goes(w, pc, batch)
  PROVE  ProposalsKept'
<1> DEFINE j == [pc |-> pc, batch |-> batch]
<1>1. v3' = [v3 EXCEPT ![w] = j] /\ UNCHANGED <<v1, v2, v4>> BY DEF Proposing!Goes
<1>2. j.pc \in WorkPlaces /\ OfListings(j.batch) OBVIOUS
<1> HIDE DEF j
<1>3. DOMAIN v3' = Workers BY <1>1 DEF ProposalsKept
<1>4. \A u \in Workers : v3'[u] = IF u = w THEN j ELSE v3[u] BY <1>1 DEF ProposalsKept
<1>5. \A u \in Workers : v3'[u].pc \in WorkPlaces /\ OfListings(v3'[u].batch)
  BY <1>2, <1>4 DEF ProposalsKept
<1> QED BY <1>1, <1>3, <1>5 DEF ProposalsKept, OfListings

LEMMA ProposalsStep ==
  ASSUME ProposalsKept, Proposing!Next \/ UNCHANGED Proposing!proposalVars
  PROVE  ProposalsKept'
<1>0. /\ \A w \in Workers : OfListings(v3[w].batch) /\ OfListings({})
      /\ "idle" \in WorkPlaces /\ "insert" \in WorkPlaces /\ "blocked" \in WorkPlaces
      /\ "open" \in WorkPlaces
  BY DEF ProposalsKept, OfListings, WorkPlaces
<1>1. ASSUME NEW w \in Workers, NEW s \in {Proposing!Selected} \cup {<<p>> : p \in Listings},
             Proposing!generate_controlled_batch(w, s)
      PROVE  ProposalsKept'
  <2>1. s \in Seq(Listings)
    <3>1. CASE s = Proposing!Selected BY <3>1, BatchOfListings
    <3>2. CASE \E p \in Listings : s = <<p>> BY <3>2
    <3> QED BY <3>1, <3>2
  <2>2. OfListings(Proposing!Proposals(s)) BY <2>1, ProposalsOfListings
  <2>3. Proposing!Goes(w, "insert", Proposing!Proposals(s))
    BY <1>1 DEF Proposing!generate_controlled_batch
  <2> QED BY <1>0, <2>2, <2>3, WorkGoes
<1>2. ASSUME NEW w \in Workers, Proposing!InsertProposals(w) PROVE ProposalsKept'
  <2> DEFINE new == v3[w].batch \ v2
  <2>1. OfListings(new) BY <1>0 DEF OfListings
  <2>2. Proposing!Goes(w, "blocked", new) \/ Proposing!Goes(w, "open", new)
    BY <1>2 DEF Proposing!InsertProposals
  <2> HIDE DEF new
  <2> QED BY <1>0, <2>1, <2>2, WorkGoes
<1>3. ASSUME NEW w \in Workers, Proposing!UniqueConflict(w) \/ Proposing!BatchFails(w)
      PROVE  ProposalsKept'
  <2>1. Proposing!Goes(w, "idle", {}) \/ Proposing!Goes(w, "insert", v3[w].batch)
    BY <1>3 DEF Proposing!UniqueConflict, Proposing!BatchFails, Proposing!Rollback
  <2> QED BY <1>0, <2>1, WorkGoes
<1>4. ASSUME NEW w \in Workers, Proposing!Commit(w) PROVE ProposalsKept'
  <2>1. v2' = v2 \cup v3[w].batch /\ v3' = [v3 EXCEPT ![w] = Proposing!NoWork] /\ UNCHANGED <<v1, v4>>
    BY <1>4 DEF Proposing!Commit
  <2>2. OfListings(v2') BY <1>0, <2>1 DEF ProposalsKept, OfListings
  <2>3. Proposing!NoWork.pc \in WorkPlaces /\ OfListings(Proposing!NoWork.batch)
    BY <1>0 DEF Proposing!NoWork
  <2>4. DOMAIN v3' = Workers /\ \A u \in Workers : v3'[u] = IF u = w THEN Proposing!NoWork ELSE v3[u]
    BY <2>1 DEF ProposalsKept
  <2>5. \A u \in Workers : v3'[u].pc \in WorkPlaces /\ OfListings(v3'[u].batch)
    BY <2>3, <2>4 DEF ProposalsKept
  <2> QED BY <2>1, <2>2, <2>4, <2>5 DEF ProposalsKept, OfListings
<1>5. CASE Proposing!Renormalize
  <2>1. /\ v4 < MaxChanges /\ v4' = v4 + 1 /\ UNCHANGED <<v2, v3>>
        /\ \E p \in Listings, f \in Profiles : v1' = [v1 EXCEPT ![p] = f]
    BY <1>5 DEF Proposing!Renormalize
  <2>2. v4' \in 0..MaxChanges BY <2>1, BoundsAssumption DEF ProposalsKept
  <2>3. v1' \in [Listings -> Profiles] BY <2>1 DEF ProposalsKept
  <2> QED BY <2>1, <2>2, <2>3 DEF ProposalsKept, OfListings
<1>6. CASE UNCHANGED Proposing!proposalVars
  BY <1>6 DEF Proposing!proposalVars, ProposalsKept, OfListings
<1> QED BY <1>1, <1>2, <1>3, <1>4, <1>5, <1>6 DEF Proposing!Next

LEMMA ProposalTypes == ServicesSpec => [](focus = "proposals" => Proposing!TypeOK)
<1> DEFINE I == focus = "proposals" => ProposalsKept
           T == focus = "proposals" => Proposing!TypeOK
<1>1. ServicesInit => I
  <2> SUFFICES ASSUME Proposing!Init PROVE ProposalsKept BY DEF ServicesInit
  <2>1. DOMAIN v3 = Workers /\ \A w \in Workers : v3[w] = Proposing!NoWork BY DEF Proposing!Init
  <2>2. Proposing!NoWork.pc \in WorkPlaces /\ OfListings(Proposing!NoWork.batch)
    BY DEF Proposing!NoWork, WorkPlaces, OfListings
  <2>3. v4 \in 0..MaxChanges BY BoundsAssumption DEF Proposing!Init
  <2> QED BY <2>1, <2>2, <2>3 DEF Proposing!Init, ProposalsKept, OfListings
<1>2. I /\ [ServicesNext]_allVars => I'
  <2> SUFFICES ASSUME I, [ServicesNext]_allVars, focus' = "proposals" PROVE ProposalsKept' OBVIOUS
  <2>1. focus = "proposals" /\ (Proposing!Next \/ UNCHANGED Proposing!proposalVars)
    BY DEF ServicesNext, allVars, slots, Only, Proposing!proposalVars
  <2> QED BY <2>1, ProposalsStep
<1>3. I => T BY DEF ProposalsKept, OfListings, WorkPlaces, Proposing!TypeOK
<1> QED BY <1>1, <1>2, <1>3, PTL DEF ServicesSpec

(* Each of the services keeps the types of its state, whatever the instance:   *)
(* the lineages, batches and histories hold what the code writes into them, and*)
(* no counter passes its bound.                                                *)
THEOREM ServicesTypes == ServicesSpec => []ServicesTypeOK
<1>1. ServicesSpec => []TypeOK BY QuotaFocus, TypeCorrect, PTL
<1>2. Destination!DestinationInv => Destination!TypeOK BY DEF Destination!DestinationInv
<1>3. Readiness!ReadyInv => Readiness!ReadinessTypeOK BY DEF Readiness!ReadyInv
<1>4. Planning!PlanInv => Planning!PlanTypeOK BY DEF Planning!PlanInv
<1>5. Rendering!RenderInv => Rendering!TypeOK BY DEF Rendering!RenderInv
<1>6. Schema!SchemaInv => Schema!TypeOK BY DEF Schema!SchemaInv
<1>7. Catalogue!CatalogInv => Catalogue!TypeOK BY DEF Catalogue!CatalogInv
<1> DEFINE First  == /\ TypeOK
                     /\ focus = "destination" => Destination!TypeOK
                     /\ focus = "execution" => Execution!TypeOK
                     /\ focus = "manual" => Manual!ManualTypeOK
                     /\ focus = "reconciliation" => Reconciling!ReconciliationTypeOK
           Second == /\ focus = "discovery" => Discovery!DiscoveryTypeOK
                     /\ focus = "review" => Review!ReviewTypeOK
                     /\ focus = "paid" => Paid!PaidTypeOK
                     /\ focus = "readiness" => Readiness!ReadinessTypeOK
                     /\ focus = "planning" => Planning!PlanTypeOK
           Third  == /\ focus = "proposals" => Proposing!TypeOK
                     /\ focus = "rendering" => Rendering!TypeOK
                     /\ focus = "schema" => Schema!TypeOK
                     /\ focus = "catalogue" => Catalogue!TypeOK
                     /\ focus = "certified" => Certified!CertifiedTypeOK
<1>8. ServicesSpec => []First
  BY <1>1, <1>2, DestinationHolds, ExecutionTypes, ManualTypes, ReconciliationTypes, PTL
<1>9. ServicesSpec => []Second
  BY <1>3, <1>4, DiscoveryTypes, ReviewTypes, PaidTypes, ReadinessHolds, PlanningHolds, PTL
<1>10. ServicesSpec => []Third
  BY <1>5, <1>6, <1>7, ProposalTypes, RenderHolds, SchemaInvHolds, CatalogueHolds,
     CertifiedTypes, PTL
<1>11. First /\ Second /\ Third => ServicesTypeOK BY DEF ServicesTypeOK
<1> HIDE DEF First, Second, Third
<1> QED BY <1>8, <1>9, <1>10, <1>11, PTL
=============================================================================
