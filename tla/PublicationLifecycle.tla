------------------------ MODULE PublicationLifecycle ------------------------
(* What publishing a pin promises, with no worker, permit, lock or request in  *)
(* sight: a publication moves only along ALLOWED_TRANSITIONS                   *)
(* (services/publication_state.py), Buffer is asked to post it only while it   *)
(* is PUBLISHING and only if no earlier submission may still become a pin, and *)
(* it is declared failed only when no submission of it may.                    *)
(*                                                                             *)
(* live[p] is a fact about the world and not about the database: some          *)
(* submission of p is queued at Buffer or already a pin.                       *)
EXTENDS Naturals

CONSTANT Pubs

VARIABLES status, live

vars == <<status, live>>

Statuses == {"APPROVED", "SCHEDULED", "PUBLISHING", "PUBLISHED",
             "PUBLISH_FAILED", "PUBLISH_UNKNOWN", "CANCELLED"}

ALLOWED_TRANSITIONS ==
  [APPROVED        |-> {"SCHEDULED", "CANCELLED"},
   SCHEDULED       |-> {"PUBLISHING", "CANCELLED"},
   PUBLISHING      |-> {"PUBLISHED", "PUBLISH_FAILED", "PUBLISH_UNKNOWN"},
   PUBLISH_FAILED  |-> {"SCHEDULED", "CANCELLED"},
   PUBLISH_UNKNOWN |-> {"PUBLISHED", "PUBLISH_FAILED", "CANCELLED"},
   PUBLISHED       |-> {},
   CANCELLED       |-> {}]

can_transition(current, target) == target \in ALLOWED_TRANSITIONS[current]

Init == /\ status = [p \in Pubs |-> "APPROVED"]
        /\ live = [p \in Pubs |-> FALSE]

Move(p) == \E s \in Statuses :
  /\ can_transition(status[p], s)
  /\ s = "PUBLISH_FAILED" => ~live[p]
  /\ status' = [status EXCEPT ![p] = s]
  /\ UNCHANGED live

Submit(p) ==
  /\ status[p] = "PUBLISHING"
  /\ ~live[p]
  /\ live' = [live EXCEPT ![p] = TRUE]
  /\ UNCHANGED status

(* Buffer gives up on a post it had queued.                                    *)
Fizzle(p) ==
  /\ live[p]
  /\ live' = [live EXCEPT ![p] = FALSE]
  /\ UNCHANGED status

Next == \E p \in Pubs : Move(p) \/ Submit(p) \/ Fizzle(p)

Spec == Init /\ [][Next]_vars

(* A publication whose status says nothing is out there - not yet tried, or    *)
(* tried and failed, the two from which an operator may schedule it again -    *)
(* has no submission that may become a pin.                                    *)
NothingOutThere == \A p \in Pubs :
  status[p] \in {"APPROVED", "SCHEDULED", "PUBLISH_FAILED"} => ~live[p]
=============================================================================
