--------------------------- MODULE StorageReadiness ---------------------------
(* The one-shot readiness probe of the object storage: the management request  *)
(* that admits it (services/readiness_execution.py, _admission.py, core/       *)
(* readiness_execution_auth.py), the runner that bounds it (_runner.py) and the*)
(* probe itself, a child process that writes, reads and deletes one object     *)
(* (scripts/object_storage_readiness.py).                                      *)
(*                                                                             *)
(* One release is modelled: the admission's primary key. A request carries a   *)
(* signed grant that expires, and may be repeated with it.                     *)
EXTENDS Naturals

CONSTANTS Posts,         \* management requests, each with a grant of its own
          MaxBusiness    \* bound: changes of the business baseline

VARIABLES
  admitted,  \* the release has a row in management_readiness_admissions
  outcome,   \* its row in management_readiness_outcomes
  post,      \* request -> [pc, base, result]
  expired,   \* requests whose grant has expired
  business,  \* what the business baseline counts
  probe,     \* the child: its stage, whether the upload was acknowledged, its receipt
  object,    \* the probe's object: "pending" is an upload that may still commit
  launches   \* probes launched for the release

readyVars == <<admitted, outcome, post, expired, business, probe, object, launches>>

IdlePost == [pc |-> "idle", base |-> 0, result |-> "none"]
NoProbe  == [at |-> "none", ack |-> FALSE, receipt |-> "none"]

SRInit ==
  /\ admitted = FALSE
  /\ outcome = "none"
  /\ post = [p \in Posts |-> IdlePost]
  /\ expired = {}
  /\ business = 0
  /\ probe = NoProbe
  /\ object = "absent"
  /\ launches = 0

ProbeSame == UNCHANGED <<probe, object, launches>>
Refuse(p) == post' = [post EXCEPT ![p] = IdlePost]

-----------------------------------------------------------------------------
(* verify_authorization, the closed gates and the release's pins; then the     *)
(* first snapshot of the business baseline.                                    *)
verify_authorization(p) ==
  /\ post[p].pc = "idle"
  /\ p \notin expired
  /\ post' = [post EXCEPT ![p] = [IdlePost EXCEPT !.pc = "consume", !.base = business]]
  /\ UNCHANGED <<admitted, outcome, expired, business>> /\ ProbeSame

(* Mutant: only the grant's own replay is refused.                             *)
ConsumePerGrant(p) ==
  /\ post[p].pc = "consume"
  /\ p \notin expired
  /\ admitted' = TRUE
  /\ post' = [post EXCEPT ![p].pc = "recheck"]
  /\ UNCHANGED <<outcome, expired, business>> /\ ProbeSame

(* The insert that does nothing on a conflict, its expiry judged by the        *)
(* database's clock. A commit whose answer is lost is not tried again.         *)
consume(p) ==
  /\ post[p].pc = "consume"
  /\ \/ /\ p \notin expired /\ ~admitted
        /\ admitted' = TRUE
        /\ \/ post' = [post EXCEPT ![p].pc = "recheck"]
           \/ Refuse(p)
     \/ /\ p \in expired \/ admitted
        /\ Refuse(p)
        /\ UNCHANGED admitted
  /\ UNCHANGED <<outcome, expired, business>> /\ ProbeSame

(* Everything is checked again after the durable commit; what no longer holds, *)
(* and a child that cannot be started, end as UNKNOWN.                         *)
launch_probe(p) ==
  /\ post[p].pc = "recheck"
  /\ \/ /\ p \notin expired /\ business = post[p].base
        /\ post' = [post EXCEPT ![p].pc = "running"]
        /\ probe' = [NoProbe EXCEPT !.at = "preflight"]
        /\ launches' = launches + 1
     \/ /\ post' = [post EXCEPT ![p].pc = "compare", ![p].result = "UNKNOWN"]
        /\ UNCHANGED <<probe, launches>>
  /\ UNCHANGED <<admitted, outcome, expired, business, object>>

(* A receipt that is valid for its exit code, and only that, is an outcome.    *)
validate_receipt(receipt) == IF receipt = "PASS" THEN "PASS" ELSE "FAILED"

ReadChild(p) ==
  /\ post[p].pc = "running" /\ probe.at = "exited"
  /\ \E result \in {validate_receipt(probe.receipt), "UNKNOWN"} :
       post' = [post EXCEPT ![p].pc = "compare", ![p].result = result]
  /\ UNCHANGED <<admitted, outcome, expired, business>> /\ ProbeSame

(* The deadline, or too much output: TERM now, KILL after the grace period.    *)
_stop_process(p) ==
  /\ post[p].pc = "running" /\ probe.at # "exited"
  /\ \/ /\ probe.at \notin {"finally", "none"}
        /\ probe' = [probe EXCEPT !.at = IF @ = "preflight" THEN "exited" ELSE "finally",
                                  !.receipt = "FAILED"]
        /\ UNCHANGED post
     \/ /\ probe' = [probe EXCEPT !.at = "exited", !.receipt = "none"]
        /\ post' = [post EXCEPT ![p].pc = "compare", ![p].result = "UNKNOWN"]
  /\ UNCHANGED <<admitted, outcome, expired, business, object, launches>>

(* A baseline that moved while the probe ran makes its outcome unknown.        *)
CompareBaseline(p) ==
  /\ post[p].pc = "compare"
  /\ post' = [post EXCEPT ![p].pc = "finish",
                          ![p].result = IF business = post[p].base THEN @ ELSE "UNKNOWN"]
  /\ UNCHANGED <<admitted, outcome, expired, business>> /\ ProbeSame

(* One terminal row per release, written once.                                 *)
finish(p) ==
  /\ post[p].pc = "finish"
  /\ outcome' = IF outcome = "none" THEN post[p].result ELSE outcome
  /\ Refuse(p)
  /\ UNCHANGED <<admitted, expired, business>> /\ ProbeSame

-----------------------------------------------------------------------------
(* The probe. Gate, key, payload, client and the preflight that finds the key  *)
(* unused come before anything is written: a failure there is BLOCKED.         *)
ProbeSays(at, receipt) == probe' = [probe EXCEPT !.at = at, !.receipt = receipt]
ProbeStep(at) == probe' = [probe EXCEPT !.at = at]
ParentSame == UNCHANGED <<admitted, outcome, post, expired, business, launches>>

Preflight ==
  /\ probe.at = "preflight"
  /\ ProbeStep("write") \/ ProbeSays("exited", "BLOCKED")
  /\ UNCHANGED object /\ ParentSame

(* An exception does not mean that the server refused the write.               *)
Write ==
  /\ probe.at = "write"
  /\ \/ object' = "present" /\ probe' = [probe EXCEPT !.at = "read", !.ack = TRUE]
     \/ object' \in {"absent", "pending", "present"} /\ ProbeSays("finally", "FAILED")
  /\ ParentSame

(* Read and verified by the writer and by a fresh client.                      *)
ReadBack ==
  /\ probe.at = "read"
  /\ ProbeStep("delete") \/ ProbeSays("finally", "FAILED")
  /\ UNCHANGED object /\ ParentSame

(* A delete that is acknowledged, or fails, may or may not have been done.     *)
Deleted == object' \in {object, "absent"}

Delete ==
  /\ probe.at = "delete"
  /\ Deleted
  /\ ProbeStep("absence") \/ ProbeSays("finally", "FAILED")
  /\ ParentSame

(* Mutant: the acknowledged delete is taken for absence.                       *)
AbsenceAssumed ==
  /\ probe.at = "absence"
  /\ ProbeSays("exited", "PASS")
  /\ UNCHANGED object /\ ParentSame

(* A fresh client and the writer both find nothing.                            *)
fresh_absence ==
  /\ probe.at = "absence"
  /\ \/ object # "present" /\ ProbeSays("exited", "PASS")
     \/ ProbeSays("finally", "FAILED")
  /\ UNCHANGED object /\ ParentSame

(* Cleanup deletes again; whatever it finds, the receipt says FAILED.          *)
Finally ==
  /\ probe.at = "finally"
  /\ Deleted
  /\ ProbeSays("exited", "FAILED")
  /\ ParentSame

-----------------------------------------------------------------------------
LateUpload ==
  /\ object = "pending"
  /\ object' \in {"present", "absent"}
  /\ UNCHANGED probe /\ ParentSame

GrantExpires(p) ==
  /\ p \notin expired
  /\ expired' = expired \cup {p}
  /\ UNCHANGED <<admitted, outcome, post, business>> /\ ProbeSame

BusinessMoves ==
  /\ business < MaxBusiness
  /\ business' = business + 1
  /\ UNCHANGED <<admitted, outcome, post, expired>> /\ ProbeSame

(* The server dies, its child with it or without; or a write of the outcome    *)
(* fails. What was consumed stays consumed.                                    *)
PostDies(p) ==
  /\ post[p].pc # "idle"
  /\ Refuse(p)
  /\ UNCHANGED <<admitted, outcome, expired, business>> /\ ProbeSame

SRNext ==
  \/ \E p \in Posts :
       \/ verify_authorization(p) \/ consume(p) \/ launch_probe(p) \/ ReadChild(p)
       \/ _stop_process(p) \/ CompareBaseline(p) \/ finish(p)
       \/ GrantExpires(p) \/ PostDies(p)
  \/ Preflight \/ Write \/ ReadBack \/ Delete \/ fresh_absence \/ Finally
  \/ LateUpload \/ BusinessMoves

SRSpec == SRInit /\ [][SRNext]_readyVars

-----------------------------------------------------------------------------
ReadinessTypeOK ==
  /\ outcome \in {"none", "PASS", "FAILED", "UNKNOWN"}
  /\ \A p \in Posts : post[p].pc \in {"idle", "consume", "recheck", "running", "compare", "finish"}
  /\ object \in {"absent", "pending", "present"}

(* docs/task61-22b-readiness-management.md: no nonce, process, restart or retry*)
(* can rearm the same release. Whatever becomes of the request that consumed   *)
(* it, the release's storage is probed at most once.                           *)
ProbedOnce == launches <= 1

(* A release that passed left nothing in the bucket, not even an upload that   *)
(* may still arrive.                                                           *)
PassLeavesNothing == outcome = "PASS" => object = "absent"
-----------------------------------------------------------------------------
(* Why both hold. The admission's row is the release's one token: a request    *)
(* past consume holds it, and the probe was launched, at most once, by the one *)
(* that does.                                                                  *)
Stages == {"none", "preflight", "write", "read", "delete", "absence", "finally", "exited"}

ReadyShapes ==
  /\ post \in [Posts -> [pc : {"idle", "consume", "recheck", "running", "compare", "finish"},
                        base : Nat, result : {"none", "PASS", "FAILED", "UNKNOWN"}]]
  /\ probe \in [at : Stages, ack : BOOLEAN, receipt : {"none", "PASS", "FAILED", "BLOCKED"}]
  /\ business \in Nat /\ launches \in {0, 1}

Consumed(p) == post[p].pc \in {"recheck", "running", "compare", "finish"}

OneConsumes ==
  /\ \A p, q \in Posts : Consumed(p) /\ Consumed(q) => p = q
  /\ ~admitted => launches = 0 /\ \A p \in Posts : ~Consumed(p)

LaunchedOnce ==
  /\ launches = 0 => probe = NoProbe
  /\ \A p \in Posts : /\ post[p].pc = "recheck" => launches = 0
                      /\ post[p].pc = "running" => launches = 1

(* An upload that was acknowledged is not on its way any more, and nothing     *)
(* touches the object once its absence was seen.                               *)
Acknowledged ==
  /\ probe.at \in {"read", "delete", "absence"} => object # "pending"
  /\ probe.receipt = "PASS" => probe.at = "exited" /\ object = "absent"

PassTraced ==
  /\ outcome = "PASS" => probe.receipt = "PASS"
  /\ \A p \in Posts : post[p].result = "PASS" => probe.receipt = "PASS"

ReadyInv == /\ ReadinessTypeOK /\ ReadyShapes /\ OneConsumes /\ LaunchedOnce
            /\ Acknowledged /\ PassTraced
=============================================================================
