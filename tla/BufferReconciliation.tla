------------------------ MODULE BufferReconciliation ------------------------
(* How an attempt whose outcome is unknown is settled by looking at Buffer:    *)
(* reconcile_buffer (services/buffer_publication_reconciliation.py), which     *)
(* reads the one operation the attempt names. Several may run at once: the     *)
(* routine worker, its reconciler (routine_buffer_reconciliation.py), a manual *)
(* dispatch and an operator.                                                   *)
(*                                                                             *)
(* Each reconciliation keeps a receipt in the attempt's metadata, a bounded    *)
(* history in one JSON column, written in transactions of their own around the *)
(* one that settles the publication.                                           *)
EXTENDS Naturals, Sequences, SequencesExt

CONSTANTS Observers,
          HistoryLimit,    \* RECONCILIATION_RECEIPT_HISTORY_LIMIT
          MaxReceipts,     \* reconciliations begun
          MaxReadFaults    \* reads that fail, observers that die, drifts

VARIABLES rpub,      \* status of the publication
          rtry,      \* status of its attempt and, in the same row,
          receipts,  \* [history, total]: the receipts in its metadata
          local,     \* the local rows the guards compare still match
          bpost,     \* the post at Buffer
          obs,       \* observer -> where it is and what it holds
          verdicts,  \* the reconciliation events
          rfaults

rvars == <<rpub, rtry, receipts, local, bpost, obs, verdicts, rfaults>>

(* Where Buffer takes a post from each status of it.                           *)
Progress == [scheduled |-> {"sending", "error"}, sending |-> {"sent", "error"},
             sent |-> {}, error |-> {}]

Idle == [pc |-> "idle", seq |-> 0, snap |-> "none", view |-> [history |-> <<>>, total |-> 0]]

(* linked: Buffer says the link of the pin it made. historical: the destination*)
(* identity is of the mixed shape, whose persisted link may stand in for it.   *)
BRInit ==
  /\ rpub = "PUBLISH_UNKNOWN"
  /\ rtry = "UNKNOWN"
  /\ receipts = [history |-> <<>>, total |-> 0]
  /\ \E h \in BOOLEAN : local = [match |-> TRUE, historical |-> h]
  /\ \E l \in BOOLEAN : bpost = [status |-> "scheduled", linked |-> l]
  /\ obs = [o \in Observers |-> Idle]
  /\ verdicts = <<>>
  /\ rfaults = 0

(* ---------------------------------------------------------------- receipts *)

(* The receipt of that sequence takes the phase; without it nothing is written.*)
_receipt_metadata(meta, seq, phase) ==
  LET h       == meta.history
      mark(r) == [r EXCEPT !.phase = phase, !.read = @ \/ phase = "PROVIDER_READ_STARTED"]
  IN  [meta EXCEPT !.history = [i \in DOMAIN h |-> IF h[i].seq = seq THEN mark(h[i]) ELSE h[i]]]

HasReceipt(meta, seq) == \E i \in DOMAIN meta.history : meta.history[i].seq = seq

(* Mutant: the history is never cut.                                           *)
KeptWhole(history) == history

Kept(history) == SubSeq(history, Len(history) + 1 - (IF Len(history) < HistoryLimit
                                                     THEN Len(history) ELSE HistoryLimit), Len(history))

_begin_reconciliation_receipt(o) ==
  /\ obs[o].pc = "idle"
  /\ rpub = "PUBLISH_UNKNOWN"
  /\ receipts.total < MaxReceipts
  /\ LET seq == receipts.total + 1 IN
       /\ receipts' = [total |-> seq,
                       history |-> Kept(Append(receipts.history,
                          [seq |-> seq, phase |-> "INVOCATION_RECEIVED", read |-> FALSE]))]
       /\ obs' = [obs EXCEPT ![o] = [Idle EXCEPT !.pc = "begun", !.seq = seq]]
  /\ UNCHANGED <<rpub, rtry, local, bpost, verdicts, rfaults>>

(* The row is locked, read and written; a receipt that has been pushed out of  *)
(* the history, or overwritten, ends the reconciliation with an error.         *)
_persist_receipt_phase(o, phase, next) ==
  IF HasReceipt(receipts, obs[o].seq)
  THEN /\ receipts' = _receipt_metadata(receipts, obs[o].seq, phase)
       /\ obs' = [obs EXCEPT ![o] = next]
  ELSE /\ obs' = [obs EXCEPT ![o] = Idle]
       /\ UNCHANGED receipts

(* ---------------------------------------------------------- reconciliation *)

(* The attempt is unknown and names one operation, and the local rows still    *)
(* say what the publication's snapshots say.                                   *)
_entry == /\ rpub = "PUBLISH_UNKNOWN" /\ rtry = "UNKNOWN"
          /\ local.match

StartRead(o) ==
  /\ obs[o].pc = "begun"
  /\ IF _entry
     THEN _persist_receipt_phase(o, "PROVIDER_READ_STARTED", [obs[o] EXCEPT !.pc = "reading"])
     ELSE _persist_receipt_phase(o, "PRE_PROVIDER_REJECTED", Idle)
  /\ UNCHANGED <<rpub, rtry, local, bpost, verdicts, rfaults>>

ReadPost(o) ==
  /\ obs[o].pc = "reading"
  /\ \/ /\ _persist_receipt_phase(o, "PROVIDER_READ_COMPLETED",
                                  [obs[o] EXCEPT !.pc = "read", !.snap = bpost.status])
        /\ UNCHANGED rfaults
     \/ /\ rfaults < MaxReadFaults
        /\ rfaults' = rfaults + 1
        /\ _persist_receipt_phase(o, "PROVIDER_READ_FAILED", Idle)
  /\ UNCHANGED <<rpub, rtry, local, bpost, verdicts>>

(* The rows are read again after the read of Buffer. A sent post must show its *)
(* pin, or the historical shape must keep the link of it.                      *)
Pinned == bpost.linked \/ local.historical

Revalidate(o) ==
  /\ obs[o].pc = "read"
  /\ IF _entry /\ (obs[o].snap = "sent" => Pinned)
     THEN _persist_receipt_phase(o, "CAS_STARTED", [obs[o] EXCEPT !.pc = "settling"])
     ELSE _persist_receipt_phase(o, "POST_PROVIDER_REJECTED", Idle)
  /\ UNCHANGED <<rpub, rtry, local, bpost, verdicts, rfaults>>

(* The receipt's commit ended the transaction, so the rows are read once more; *)
(* this read of the attempt is the one whose metadata is written back.         *)
PreCas(o) ==
  /\ obs[o].pc = "settling"
  /\ \/ /\ _entry
        /\ obs' = [obs EXCEPT ![o].pc = "armed", ![o].view = receipts]
        /\ UNCHANGED receipts
     \/ /\ ~_entry
        /\ _persist_receipt_phase(o, "POST_PROVIDER_REJECTED", Idle)
  /\ UNCHANGED <<rpub, rtry, local, bpost, verdicts, rfaults>>

Verdict(snap) == CASE snap = "sent"  -> "PUBLISHED"
                   [] snap = "error" -> "PUBLISH_FAILED"
                   [] OTHER          -> "PUBLISH_UNKNOWN"

(* One transaction settles the publication, the attempt and the event, and     *)
(* writes the metadata read before it.                                         *)
Settle(o) ==
  LET v == Verdict(obs[o].snap) IN
  /\ rpub' = v
  /\ rtry' = (CASE v = "PUBLISHED" -> "SUCCEEDED"
               [] v = "PUBLISH_FAILED" -> "FAILED"
               [] OTHER -> rtry)
  /\ verdicts' = IF v = "PUBLISH_UNKNOWN" THEN verdicts ELSE Append(verdicts, v)
  /\ receipts' = _receipt_metadata(obs[o].view, obs[o].seq, "CAS_SUCCEEDED")
  /\ obs' = [obs EXCEPT ![o] = Idle]

(* Mutant: neither row is compared.                                            *)
SettleUncompared(o) ==
  /\ obs[o].pc = "armed"
  /\ Settle(o)
  /\ UNCHANGED <<local, bpost, rfaults>>

Cas(o) ==
  /\ obs[o].pc = "armed"
  /\ \/ /\ rpub = "PUBLISH_UNKNOWN" /\ rtry = "UNKNOWN"
        /\ HasReceipt(obs[o].view, obs[o].seq)
        /\ Settle(o)
     \/ /\ ~(rpub = "PUBLISH_UNKNOWN" /\ rtry = "UNKNOWN" /\ HasReceipt(obs[o].view, obs[o].seq))
        /\ _persist_receipt_phase(o, "CAS_FAILED", Idle)
        /\ UNCHANGED <<rpub, rtry, verdicts>>
  /\ UNCHANGED <<local, bpost, rfaults>>

ObserverDies(o) ==
  /\ obs[o].pc # "idle"
  /\ rfaults < MaxReadFaults
  /\ rfaults' = rfaults + 1
  /\ obs' = [obs EXCEPT ![o] = Idle]
  /\ UNCHANGED <<rpub, rtry, receipts, local, bpost, verdicts>>

(* ------------------------------------------------------------- environment *)

PostProgresses ==
  \E s \in Progress[bpost.status] :
    /\ bpost' = [bpost EXCEPT !.status = s]
    /\ UNCHANGED <<rpub, rtry, receipts, local, obs, verdicts, rfaults>>

(* A board is synced, a setting changed: the guards' comparisons turn.         *)
LocalDrifts ==
  /\ rfaults < MaxReadFaults
  /\ rfaults' = rfaults + 1
  /\ local' = [local EXCEPT !.match = ~@]
  /\ UNCHANGED <<rpub, rtry, receipts, bpost, obs, verdicts>>

BRNext ==
  \/ \E o \in Observers :
       \/ _begin_reconciliation_receipt(o) \/ StartRead(o) \/ ReadPost(o)
       \/ Revalidate(o) \/ PreCas(o) \/ Cas(o) \/ ObserverDies(o)
  \/ PostProgresses \/ LocalDrifts

BRSpec == BRInit /\ [][BRNext]_rvars

(* -------------------------------------------------------------- properties *)

ReconciliationTypeOK ==
  /\ rpub \in {"PUBLISH_UNKNOWN", "PUBLISHED", "PUBLISH_FAILED"}
  /\ rtry \in {"UNKNOWN", "SUCCEEDED", "FAILED"}
  /\ Len(receipts.history) <= HistoryLimit
  /\ bpost.status \in DOMAIN Progress
  /\ \A o \in Observers : obs[o].pc \in {"idle", "begun", "reading", "read", "settling", "armed"}

(* However many observers find the outcome, it is settled once: one event, and *)
(* the publication and its attempt say what that event says.                   *)
OneVerdict ==
  /\ Len(verdicts) <= 1
  /\ rpub = (IF verdicts = <<>> THEN "PUBLISH_UNKNOWN" ELSE verdicts[1])
  /\ rtry = (CASE rpub = "PUBLISHED"      -> "SUCCEEDED"
               [] rpub = "PUBLISH_FAILED" -> "FAILED"
               [] OTHER                   -> "UNKNOWN")

(* The inductive invariant of OneVerdict.                                      *)
VerdictInv == verdicts \in Seq({"PUBLISHED", "PUBLISH_FAILED"}) /\ OneVerdict
=============================================================================
