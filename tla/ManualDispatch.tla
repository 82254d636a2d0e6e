--------------------------- MODULE ManualDispatch ---------------------------
(* Dispatch of one publication at an operator's request, outside the routine   *)
(* worker: POST /publish (manual_publication_dispatch.dispatch_publication,    *)
(* straight to Pinterest) and POST /publish-buffer                             *)
(* (buffer_manual_publication_dispatch.dispatch_buffer, through Buffer). Both  *)
(* spend a PublicationDispatchAuthorization, the second a BufferPilotActivation*)
(* too, claim the publication in one transaction, check everything again and   *)
(* call the provider once.                                                     *)
(*                                                                             *)
(* Each request has a database session of its own: what it read before an      *)
(* await or a commit may be stale when it writes. Revoking, rescheduling and   *)
(* cancelling read a row in one step and write it by primary key in another.   *)
EXTENDS Naturals, Sequences, FiniteSets

CONSTANTS Pubs, Requests,
          MaxAuths,     \* authorizations an operator creates
          MaxActs,      \* Buffer pilot activations created
          MaxDeaths     \* requests that die between two steps

VARIABLES mpub,    \* publication -> [status, drift]: the row, and which check fails
          mtry,    \* publication -> its attempts, oldest first
          auth,    \* the authorizations, oldest first
          act,     \* the Buffer pilot activations, oldest first
          req,     \* dispatch request -> where it is and what it holds
          revoke,  \* the revocation under way
          edit,    \* the reschedule or cancellation under way
          posts,   \* publication -> calls made to a provider's write
          live,    \* publication -> the provider has, or will have, its pin
          mdeaths

mvars == <<mpub, mtry, auth, act, req, revoke, edit, posts, live, mdeaths>>

Providers == {"pinterest_direct", "buffer"}
Nil == "none"
IdleReq == [pc |-> "idle", pub |-> Nil, prov |-> Nil, auth |-> 0, act |-> 0, try |-> 0, answer |-> Nil]
IdleRevoke == [pc |-> "idle", on |-> Nil, n |-> 0]
IdleEdit == [pc |-> "idle", op |-> Nil, pub |-> Nil]

MDInit ==
  /\ mpub = [p \in Pubs |-> [status |-> "SCHEDULED", drift |-> {}]]
  /\ mtry = [p \in Pubs |-> <<>>]
  /\ auth = <<>>
  /\ act = <<>>
  /\ req = [r \in Requests |-> IdleReq]
  /\ revoke = IdleRevoke
  /\ edit = IdleEdit
  /\ posts = [p \in Pubs |-> 0]
  /\ live = [p \in Pubs |-> FALSE]
  /\ mdeaths = 0

(* -------------------------------------------------------------- readiness  *)

(* Destination, approval, creative and media, none of which has drifted.       *)
manual_structural_readiness(p, expected) ==
  mpub[p].status = expected /\ "structure" \notin mpub[p].drift

validate_publication_quality(p) == "quality" \notin mpub[p].drift

(* The publication itself is not out there or in doubt, and no other with its  *)
(* operational identity is.                                                    *)
evaluate_publication_duplicates(p) ==
  /\ mpub[p].status \notin {"PUBLISHED", "PUBLISH_UNKNOWN"}
  /\ "duplicate" \notin mpub[p].drift

Bound(p, prov, a, expected) ==
  /\ auth[a].prov = prov
  /\ validate_publication_quality(p)
  /\ evaluate_publication_duplicates(p)
  /\ manual_structural_readiness(p, expected)

(* The one ACTIVE authorization of the publication, 0 when there is none.      *)
active_authorization(p) ==
  LET active == {a \in DOMAIN auth : auth[a].pub = p /\ auth[a].status = "ACTIVE"}
  IN  IF active = {} THEN 0 ELSE CHOOSE a \in active : TRUE

validate_authorization(p, prov, a) ==
  a # 0 /\ auth[a].status = "ACTIVE" /\ ~auth[a].late /\ Bound(p, prov, a, "SCHEDULED")

active_activation ==
  LET active == {n \in DOMAIN act : act[n].status = "ACTIVE"}
  IN  IF active = {} THEN 0 ELSE CHOOSE n \in active : TRUE

validate_activation(p, n) ==
  n # 0 /\ act[n].status = "ACTIVE" /\ act[n].pub = p
  /\ "structure" \notin mpub[p].drift /\ mtry[p] = <<>>

(* The same guard without its count of attempts.                               *)
PilotIgnoresAttempts(p, try) ==
  try # 0 => mtry[p][try].status = "STARTED" /\ mpub[p].status = "PUBLISHING"

(* The single-pin pilot: no attempt before the claim, and after it no other    *)
(* than the one the claim made (validate_pilot_candidate and                   *)
(* validate_post_claim_pilot; for Buffer the two branches of validate_pilot).  *)
validate_pilot(p, try) ==
  IF try = 0 THEN mtry[p] = <<>>
  ELSE Len(mtry[p]) = 1 /\ mtry[p][try].status = "STARTED" /\ mpub[p].status = "PUBLISHING"

validate_post_claim(p, r) ==
  /\ auth[req[r].auth].status = "CONSUMED"
  /\ mtry[p][req[r].try].status = "STARTED"
  /\ req[r].prov = "buffer" => act[req[r].act].status = "CONSUMED"
  /\ Bound(p, req[r].prov, req[r].auth, "PUBLISHING")

(* --------------------------------------------- authorizations, activations *)

(* Stale ACTIVE rows expire first; the index admits one ACTIVE row.            *)
create_authorization(p, prov) ==
  LET swept == [a \in DOMAIN auth |->
                  IF auth[a].pub = p /\ auth[a].status = "ACTIVE" /\ auth[a].late
                  THEN [auth[a] EXCEPT !.status = "EXPIRED"] ELSE auth[a]]
  IN  /\ Len(auth) < MaxAuths
      /\ validate_publication_quality(p)
      /\ evaluate_publication_duplicates(p)
      /\ manual_structural_readiness(p, "SCHEDULED")
      /\ ~\E a \in DOMAIN swept : swept[a].pub = p /\ swept[a].status = "ACTIVE"
      /\ auth' = Append(swept, [pub |-> p, prov |-> prov, status |-> "ACTIVE", late |-> FALSE])
      /\ UNCHANGED <<mpub, mtry, act, req, revoke, edit, posts, live, mdeaths>>

(* The fifteen minutes of an authorization run out.                            *)
AuthorizationLate(a) ==
  /\ auth[a].status = "ACTIVE" /\ ~auth[a].late
  /\ auth' = [auth EXCEPT ![a].late = TRUE]
  /\ UNCHANGED <<mpub, mtry, act, req, revoke, edit, posts, live, mdeaths>>

activate(p) ==
  /\ Len(act) < MaxActs
  /\ active_activation = 0
  /\ mpub[p].status = "SCHEDULED" /\ "structure" \notin mpub[p].drift
  /\ mtry[p] = <<>>
  /\ act' = Append(act, [pub |-> p, status |-> "ACTIVE"])
  /\ UNCHANGED <<mpub, mtry, auth, req, revoke, edit, posts, live, mdeaths>>

(* Either revocation starts by finding the row ACTIVE.                         *)
ReadRevocation(on, n) ==
  /\ revoke = IdleRevoke
  /\ IF on = "authorization" THEN n \in DOMAIN auth /\ auth[n].status = "ACTIVE"
                             ELSE n \in DOMAIN act /\ act[n].status = "ACTIVE"
  /\ revoke' = [pc |-> "read", on |-> on, n |-> n]
  /\ UNCHANGED <<mpub, mtry, auth, act, req, edit, posts, live, mdeaths>>

(* The authorization is written by primary key, whatever it has become.        *)
revoke_authorization ==
  /\ revoke.pc = "read" /\ revoke.on = "authorization"
  /\ auth' = [auth EXCEPT ![revoke.n].status = "REVOKED"]
  /\ revoke' = IdleRevoke
  /\ UNCHANGED <<mpub, mtry, act, req, edit, posts, live, mdeaths>>

RevokeUncompared ==
  /\ revoke.pc = "read" /\ revoke.on = "activation"
  /\ act' = [act EXCEPT ![revoke.n].status = "REVOKED"]
  /\ revoke' = IdleRevoke
  /\ UNCHANGED <<mpub, mtry, auth, req, edit, posts, live, mdeaths>>

(* The activation is compared and set.                                         *)
RevokeActivation ==
  /\ revoke.pc = "read" /\ revoke.on = "activation"
  /\ act' = [act EXCEPT ![revoke.n].status = IF @ = "ACTIVE" THEN "REVOKED" ELSE @]
  /\ revoke' = IdleRevoke
  /\ UNCHANGED <<mpub, mtry, auth, req, edit, posts, live, mdeaths>>

(* ------------------------------------------------------ the publication row *)

(* A check that passed stops passing, or passes again: boards sync, policies   *)
(* and other publications change.                                              *)
Drift(p) ==
  \E d \in {{}, {"structure"}, {"quality"}, {"duplicate"}} :
    /\ d # mpub[p].drift
    /\ mpub' = [mpub EXCEPT ![p].drift = d]
    /\ UNCHANGED <<mtry, auth, act, req, revoke, edit, posts, live, mdeaths>>

(* A reschedule of a SCHEDULED row changes its date only.                      *)
ReadEdit(p, op) ==
  /\ edit = IdleEdit
  /\ \/ op = "schedule" /\ mpub[p].status = "PUBLISH_FAILED"
     \/ op = "cancel" /\ mpub[p].status \in {"SCHEDULED", "PUBLISH_FAILED"}
  /\ edit' = [pc |-> "read", op |-> op, pub |-> p]
  /\ UNCHANGED <<mpub, mtry, auth, act, req, revoke, posts, live, mdeaths>>

WriteEdit ==
  /\ edit.pc = "read"
  /\ mpub' = [mpub EXCEPT ![edit.pub].status =
                IF edit.op = "schedule" THEN "SCHEDULED" ELSE "CANCELLED"]
  /\ edit' = IdleEdit
  /\ UNCHANGED <<mtry, auth, act, req, revoke, posts, live, mdeaths>>
(* --------------------------------------------------------------- requests  *)

Go(r, pc) == req' = [req EXCEPT ![r].pc = pc]
Leave(r) == req' = [req EXCEPT ![r] = IdleReq]

(* dispatch_publication up to its claim: authorization, pilot, provider scope, *)
(* token.                                                                      *)
Validate(r, p) ==
  LET a == active_authorization(p) IN
  /\ req[r].pc = "idle"
  /\ validate_authorization(p, "pinterest_direct", a)
  /\ validate_pilot(p, 0)
  /\ req' = [req EXCEPT ![r] = [IdleReq EXCEPT !.pc = "validated", !.pub = p,
                                  !.prov = "pinterest_direct", !.auth = a]]
  /\ UNCHANGED <<mpub, mtry, auth, act, revoke, edit, posts, live, mdeaths>>

(* build_buffer_execution_evidence: everything Buffer's dispatch will ask, then*)
(* the destination and the image read over the network.                        *)
BuildEvidence(r, p) ==
  /\ req[r].pc = "idle"
  /\ validate_authorization(p, "buffer", active_authorization(p))
  /\ validate_pilot(p, 0)
  /\ validate_activation(p, active_activation)
  /\ req' = [req EXCEPT ![r] = [IdleReq EXCEPT !.pc = "evidence", !.pub = p, !.prov = "buffer"]]
  /\ UNCHANGED <<mpub, mtry, auth, act, revoke, edit, posts, live, mdeaths>>

(* dispatch_buffer asks it all again, with the evidence, and reads the         *)
(* destination once more before its claim.                                     *)
Gate(r) ==
  LET p == req[r].pub
      a == active_authorization(p)
      n == active_activation
      open == /\ validate_authorization(p, "buffer", a)
              /\ validate_pilot(p, 0)
              /\ validate_activation(p, n)
  IN  /\ req[r].pc = "evidence"
      /\ req' = [req EXCEPT ![r] = IF open
                   THEN [@ EXCEPT !.pc = "validated", !.auth = a, !.act = n] ELSE IdleReq]
      /\ UNCHANGED <<mpub, mtry, auth, act, revoke, edit, posts, live, mdeaths>>

Attempt(r) == [status |-> "STARTED", prov |-> req[r].prov, known |-> "none",
               auth |-> req[r].auth, act |-> req[r].act]

(* The same claim written by primary key, as the revocation is.                *)
ClaimUncompared(r) ==
  LET p == req[r].pub IN
  /\ req[r].pc = "validated"
  /\ mpub' = [mpub EXCEPT ![p].status = "PUBLISHING"]
  /\ auth' = [auth EXCEPT ![req[r].auth].status = "CONSUMED"]
  /\ act' = [m \in DOMAIN act |-> IF m = req[r].act THEN [act[m] EXCEPT !.status = "CONSUMED"] ELSE act[m]]
  /\ mtry' = [mtry EXCEPT ![p] = Append(@, Attempt(r))]
  /\ req' = [req EXCEPT ![r].pc = "claimed", ![r].try = Len(mtry[p]) + 1]
  /\ UNCHANGED <<revoke, edit, posts, live, mdeaths>>

(* One transaction: the publication, the authorization and the activation are  *)
(* each compared and set, and the attempt inserted; or nothing is.             *)
atomic_authorized_claim(r) ==
  LET p == req[r].pub
      a == req[r].auth
      n == req[r].act
      won == /\ mpub[p].status = "SCHEDULED"
             /\ auth[a].status = "ACTIVE" /\ ~auth[a].late
             /\ req[r].prov = "buffer" => act[n].status = "ACTIVE"
  IN  /\ req[r].pc = "validated"
      /\ \/ /\ won
            /\ mpub' = [mpub EXCEPT ![p].status = "PUBLISHING"]
            /\ auth' = [auth EXCEPT ![a].status = "CONSUMED"]
            /\ act' = [m \in DOMAIN act |-> IF m = n THEN [act[m] EXCEPT !.status = "CONSUMED"] ELSE act[m]]
            /\ mtry' = [mtry EXCEPT ![p] = Append(@, Attempt(r))]
            /\ req' = [req EXCEPT ![r].pc = "claimed", ![r].try = Len(mtry[p]) + 1]
         \/ /\ ~won
            /\ Leave(r)
            /\ UNCHANGED <<mpub, auth, act, mtry>>
      /\ UNCHANGED <<revoke, edit, posts, live, mdeaths>>

(* The outcome of an attempt. The direct dispatch writes both rows by primary  *)
(* key; Buffer's (_persist) compares both and writes nothing when either has   *)
(* moved.                                                                      *)
Outcome(r, pubStatus, tryStatus, known) ==
  LET p == req[r].pub
      k == req[r].try
      writes == \/ req[r].prov = "pinterest_direct"
                \/ mpub[p].status = "PUBLISHING" /\ mtry[p][k].status = "STARTED"
  IN  IF writes
      THEN /\ mpub' = [mpub EXCEPT ![p].status = pubStatus]
           /\ mtry' = [mtry EXCEPT ![p][k].status = tryStatus, ![p][k].known = known]
      ELSE UNCHANGED <<mpub, mtry>>

(* After the claim everything is read again and checked. Buffer then reads its *)
(* destination and checks a second time.                                       *)
PostClaim(r) ==
  LET p == req[r].pub IN
  /\ req[r].pc \in {"claimed", "verifying"}
  /\ \/ /\ validate_post_claim(p, r)
        /\ validate_pilot(p, req[r].try)
        /\ Go(r, IF req[r].prov = "buffer" /\ req[r].pc = "claimed" THEN "verifying" ELSE "posting")
        /\ UNCHANGED <<mpub, mtry>>
     \/ /\ \/ ~validate_post_claim(p, r)
           \/ ~validate_pilot(p, req[r].try)
           \/ req[r].pc = "verifying"     \* the destination read failed
        /\ Outcome(r, "PUBLISH_FAILED", "FAILED", "none")
        /\ Leave(r)
  /\ UNCHANGED <<auth, act, revoke, edit, posts, live, mdeaths>>

(* publish_once asks execution_publish_readiness first: the write scope or the *)
(* switch is gone, and an attempt that called nobody is recorded as unknown.   *)
finalize_post_claim_unknown(r) ==
  /\ req[r].pc = "posting" /\ req[r].prov = "pinterest_direct"
  /\ Outcome(r, "PUBLISH_UNKNOWN", "UNKNOWN", "none")
  /\ Leave(r)
  /\ UNCHANGED <<auth, act, revoke, edit, posts, live, mdeaths>>

(* The one call. The provider may have taken it whether or not it says so; a   *)
(* definitive rejection, and Buffer's error status, say it has not.            *)
Post(r) ==
  \E answer \in {"pin", "rejected", "lost"} \cup IF req[r].prov = "buffer" THEN {"error"} ELSE {},
     taken \in BOOLEAN :
    /\ req[r].pc = "posting"
    /\ answer = "pin" => taken
    /\ answer \in {"rejected", "error"} => ~taken
    /\ posts' = [posts EXCEPT ![req[r].pub] = @ + 1]
    /\ live' = [live EXCEPT ![req[r].pub] = @ \/ taken]
    /\ req' = [req EXCEPT ![r].pc = "answered", ![r].answer = answer]
    /\ UNCHANGED <<mpub, mtry, auth, act, revoke, edit, mdeaths>>

(* The answer is recorded. Pinterest's pin id publishes at once; Buffer's post *)
(* is an operation whose outcome is still to come. A write that fails is tried *)
(* once more as unknown, keeping the id it learned.                            *)
Record(r) ==
  LET direct == req[r].prov = "pinterest_direct"
      id == IF direct THEN "pin" ELSE "op"
  IN  /\ req[r].pc = "answered"
      /\ CASE req[r].answer = "pin" ->
                \/ /\ direct
                   /\ Outcome(r, "PUBLISHED", "SUCCEEDED", id)
                \/ Outcome(r, "PUBLISH_UNKNOWN", "UNKNOWN", id)
           [] req[r].answer = "lost" -> Outcome(r, "PUBLISH_UNKNOWN", "UNKNOWN", "none")
           [] req[r].answer = "rejected" -> Outcome(r, "PUBLISH_FAILED", "FAILED", "none")
           [] req[r].answer = "error" ->
                \/ Outcome(r, "PUBLISH_FAILED", "FAILED", "op")
                \/ Outcome(r, "PUBLISH_UNKNOWN", "UNKNOWN", "op")
      /\ Leave(r)
      /\ UNCHANGED <<auth, act, revoke, edit, posts, live, mdeaths>>

(* The process dies, or the database refuses both writes.                      *)
RequestDies(r) ==
  /\ req[r].pc # "idle"
  /\ mdeaths < MaxDeaths
  /\ mdeaths' = mdeaths + 1
  /\ Leave(r)
  /\ UNCHANGED <<mpub, mtry, auth, act, revoke, edit, posts, live>>

(* ----------------------------------------------------------- after unknown *)

(* Buffer gives up on a post it had taken.                                     *)
PostFizzles(p) ==
  /\ live[p]
  /\ mtry[p] # <<>> /\ mtry[p][Len(mtry[p])].prov = "buffer"
  /\ mpub[p].status \in {"PUBLISHING", "PUBLISH_UNKNOWN"}
  /\ live' = [live EXCEPT ![p] = FALSE]
  /\ UNCHANGED <<mpub, mtry, auth, act, req, revoke, edit, posts, mdeaths>>

(* reconcile_buffer reads the operation the one unknown attempt names.         *)
ReconcileOperation(p) ==
  \E k \in DOMAIN mtry[p] :
    /\ mpub[p].status = "PUBLISH_UNKNOWN"
    /\ mtry[p][k].status = "UNKNOWN" /\ mtry[p][k].known = "op"
    /\ mpub' = [mpub EXCEPT ![p].status = IF live[p] THEN "PUBLISHED" ELSE "PUBLISH_FAILED"]
    /\ mtry' = [mtry EXCEPT ![p][k].status = IF live[p] THEN "SUCCEEDED" ELSE "FAILED"]
    /\ UNCHANGED <<auth, act, req, revoke, edit, posts, live, mdeaths>>

(* An operator settles an attempt that names no Buffer operation: the pin is   *)
(* confirmed, or, when no pin is known, given up.                              *)
reconcile(p) ==
  /\ mpub[p].status = "PUBLISH_UNKNOWN"
  /\ \A k \in DOMAIN mtry[p] : mtry[p][k].known # "op"
  /\ \/ /\ live[p]
        /\ mpub' = [mpub EXCEPT ![p].status = "PUBLISHED"]
     \/ /\ \A k \in DOMAIN mtry[p] : mtry[p][k].known = "none"
        /\ mpub' = [mpub EXCEPT ![p].status = "CANCELLED"]
  /\ UNCHANGED <<mtry, auth, act, req, revoke, edit, posts, live, mdeaths>>

MDNext ==
  \/ \E p \in Pubs :
       \/ \E prov \in Providers : create_authorization(p, prov)
       \/ activate(p) \/ Drift(p) \/ PostFizzles(p)
       \/ ReconcileOperation(p) \/ reconcile(p)
       \/ \E op \in {"schedule", "cancel"} : ReadEdit(p, op)
       \/ \E r \in Requests : Validate(r, p) \/ BuildEvidence(r, p)
  \/ \E a \in DOMAIN auth : AuthorizationLate(a)
  \/ \E n \in 1..MaxAuths : ReadRevocation("authorization", n)
  \/ \E n \in 1..MaxActs : ReadRevocation("activation", n)
  \/ revoke_authorization \/ RevokeActivation \/ WriteEdit
  \/ \E r \in Requests : \/ Gate(r) \/ atomic_authorized_claim(r) \/ PostClaim(r)
                          \/ finalize_post_claim_unknown(r) \/ Post(r) \/ Record(r)
                          \/ RequestDies(r)

MDSpec == MDInit /\ [][MDNext]_mvars

(* ------------------------------------------------------------- properties  *)

ManualTypeOK ==
  /\ mpub \in [Pubs -> [status : {"SCHEDULED", "PUBLISHING", "PUBLISHED", "PUBLISH_FAILED",
                                  "PUBLISH_UNKNOWN", "CANCELLED"},
                        drift : SUBSET {"structure", "quality", "duplicate"}]]
  /\ \A a \in DOMAIN auth : auth[a].status \in {"ACTIVE", "CONSUMED", "REVOKED", "EXPIRED"}
  /\ \A n \in DOMAIN act : act[n].status \in {"ACTIVE", "CONSUMED", "REVOKED"}
  /\ posts \in [Pubs -> Nat] /\ live \in [Pubs -> BOOLEAN] /\ mdeaths \in 0..MaxDeaths

(* However requests interleave, die, are rescheduled and authorized again, a   *)
(* publication is handed to a provider at most once by these two routes        *)
(* (TASK40_CONTROLLED_WRITE_DESIGN.md, "One-write and concurrency").           *)
AtMostOnePost == \A p \in Pubs : posts[p] <= 1

(* PUBLISH_FAILED is the status an operator may reschedule from, so no provider*)
(* has, or will have, a pin of a publication in it.                            *)
FailedMeansNoPin == \A p \in Pubs : mpub[p].status = "PUBLISH_FAILED" => ~live[p]

(* Consuming an activation and revoking it have one winner: the activation an  *)
(* attempt was made under stays CONSUMED.                                      *)
ActivationSpent ==
  \A p \in Pubs : \A k \in DOMAIN mtry[p] :
    mtry[p][k].act # 0 => act[mtry[p][k].act].status = "CONSUMED"

(* ------------------------------------------------- the inductive invariant *)
(* The three properties rest on the order of a publication's attempts: the     *)
(* pilot lets only the first one call, the request that made it owns the row   *)
(* until it leaves, and a pin keeps every later request out of its publication.*)
PubStatuses == {"SCHEDULED", "PUBLISHING", "PUBLISHED", "PUBLISH_FAILED", "PUBLISH_UNKNOWN",
                "CANCELLED"}
Tries == [status : {"STARTED", "SUCCEEDED", "FAILED", "UNKNOWN"}, prov : Providers,
          known : {"none", "pin", "op"}, auth : Nat, act : Nat]
RequestStages == {"idle", "evidence", "validated", "claimed", "verifying", "posting", "answered"}

ManualShapes ==
  /\ mpub \in [Pubs -> [status : PubStatuses, drift : SUBSET {"structure", "quality", "duplicate"}]]
  /\ mtry \in [Pubs -> Seq(Tries)]
  /\ auth \in Seq([pub : Pubs, prov : Providers, late : BOOLEAN,
                  status : {"ACTIVE", "CONSUMED", "REVOKED", "EXPIRED"}])
  /\ act \in Seq([pub : Pubs, status : {"ACTIVE", "CONSUMED", "REVOKED"}])
  /\ req \in [Requests -> [pc : RequestStages, pub : Pubs \cup {Nil}, prov : Providers \cup {Nil},
                           auth : Nat, act : Nat, try : Nat,
                           answer : {Nil, "pin", "rejected", "lost", "error"}]]
  /\ \A r \in Requests : req[r].pc # "idle" => req[r].pub \in Pubs /\ req[r].prov \in Providers
  /\ posts \in [Pubs -> {0, 1}] /\ live \in [Pubs -> BOOLEAN]

Owns(r, p) == req[r].pub = p /\ req[r].pc \in {"claimed", "verifying", "posting", "answered"}
ToBeScheduled(p) == edit.pc = "read" /\ edit.op = "schedule" /\ edit.pub = p

(* Each request has an attempt of its own, and only the first one gets to call.*)
OwnAttempts ==
  /\ \A r \in Requests, p \in Pubs : Owns(r, p) =>
       /\ req[r].try \in 1..Len(mtry[p])
       /\ req[r].pc \in {"posting", "answered"} => req[r].try = 1
  /\ \A r, s \in Requests, p \in Pubs :
       Owns(r, p) /\ Owns(s, p) /\ req[r].try = req[s].try => r = s

BeforeFirst ==
  \A p \in Pubs : Len(mtry[p]) = 0 =>
    mpub[p].status \in {"SCHEDULED", "CANCELLED"} /\ ~ToBeScheduled(p)

(* While the first attempt's request is alive nobody else makes one.           *)
FirstAlone ==
  \A r \in Requests, p \in Pubs : Owns(r, p) /\ req[r].try = 1 =>
    /\ Len(mtry[p]) = 1
    /\ mpub[p].status \in {"PUBLISHING", "CANCELLED"} /\ ~ToBeScheduled(p)
    /\ posts[p] = 1 => req[r].pc = "answered"

PinShutsTheRow ==
  \A p \in Pubs : live[p] =>
    /\ Len(mtry[p]) = 1 /\ posts[p] = 1
    /\ mpub[p].status \notin {"SCHEDULED", "PUBLISH_FAILED"} /\ ~ToBeScheduled(p)

CallsCounted ==
  /\ \A p \in Pubs : posts[p] = 1 => Len(mtry[p]) # 0
  /\ \A r \in Requests, p \in Pubs :
       Owns(r, p) => /\ req[r].pc = "answered" => req[r].answer # Nil
                     /\ req[r].answer \in {"rejected", "error"} => ~live[p]

Activations ==
  /\ \A r \in Requests : req[r].act \in 0..Len(act)
  /\ \A p \in Pubs : \A k \in DOMAIN mtry[p] : mtry[p][k].act \in 0..Len(act)

ManualInv == /\ ManualShapes /\ OwnAttempts /\ BeforeFirst /\ FirstAlone /\ PinShutsTheRow
             /\ CallsCounted /\ Activations /\ ActivationSpent

=============================================================================
