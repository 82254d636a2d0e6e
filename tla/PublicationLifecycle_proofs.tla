--------------------- MODULE PublicationLifecycle_proofs --------------------
(* What the lifecycle gives, for any set of publications.                      *)
EXTENDS PublicationLifecycle, TLAPS

TypeInv == /\ status \in [Pubs -> Statuses]
           /\ live \in [Pubs -> BOOLEAN]

IInv == TypeInv /\ NothingOutThere

LEMMA MoveKeeps ==
  ASSUME IInv, NEW p \in Pubs, Move(p)
  PROVE  IInv'
<1>1. PICK s \in Statuses : /\ can_transition(status[p], s)
                            /\ s = "PUBLISH_FAILED" => ~live[p]
                            /\ status' = [status EXCEPT ![p] = s]
                            /\ live' = live
  BY DEF Move
<1>2. TypeInv'
  BY <1>1 DEF IInv, TypeInv
<1>3. s = "SCHEDULED" => status[p] \in {"APPROVED", "PUBLISH_FAILED"}
  BY <1>1 DEF can_transition, ALLOWED_TRANSITIONS, IInv, TypeInv, Statuses
<1>4. s # "APPROVED"
  BY <1>1 DEF can_transition, ALLOWED_TRANSITIONS, IInv, TypeInv, Statuses
<1>5. NothingOutThere'
  BY <1>1, <1>3, <1>4 DEF IInv, TypeInv, NothingOutThere
<1> QED BY <1>2, <1>5 DEF IInv

(* A publication that may be scheduled again has nothing queued or published   *)
(* at Buffer: whatever implements the lifecycle never posts a second pin.      *)
THEOREM RetriesAreSafe == Spec => []NothingOutThere
<1>1. Init => IInv
  BY DEF Init, IInv, TypeInv, NothingOutThere, Statuses
<1>2. IInv /\ [Next]_vars => IInv'
  <2> SUFFICES ASSUME IInv, [Next]_vars PROVE IInv'
    OBVIOUS
  <2>1. ASSUME NEW p \in Pubs, Submit(p) \/ Fizzle(p) PROVE IInv'
    BY <2>1 DEF Submit, Fizzle, IInv, TypeInv, NothingOutThere
  <2>2. CASE UNCHANGED vars
    BY <2>2 DEF vars, IInv, TypeInv, NothingOutThere
  <2> QED BY <2>1, <2>2, MoveKeeps DEF Next
<1>3. IInv => NothingOutThere
  BY DEF IInv
<1> QED BY <1>1, <1>2, <1>3, PTL DEF Spec
=============================================================================
