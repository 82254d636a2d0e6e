---------------------- MODULE DispatchServices_proofs -----------------------
(* What the services that talk to another system promise for every value of    *)
(* the constants: those that post to Buffer, that find out what became of a    *)
(* post, and that import from Shopify; laid out as in Services_proofs.         *)
EXTENDS Services, SequenceTheorems, FiniteSetTheorems, TLAPS

-----------------------------------------------------------------------------
(* ManualDispatch.                                                             *)

(* In Manual: mpub is v1, mtry v2, auth v3, act v4, req v5, revoke v6, edit v7,*)
(* posts v8, live v9, mdeaths v10.                                             *)
LEMMA ManualStart ==
  ASSUME Manual!MDInit
  PROVE  Manual!ManualInv
<1> USE DEF Manual!MDInit, Manual!Owns, Manual!IdleReq, Manual!Nil
<1>1. Manual!ManualShapes
  BY DEF Manual!ManualShapes, Manual!PubStatuses, Manual!RequestStages, Manual!Providers
<1>2. Manual!OwnAttempts /\ Manual!FirstAlone
  BY DEF Manual!OwnAttempts, Manual!FirstAlone
<1>3. Manual!BeforeFirst /\ Manual!PinShutsTheRow
  BY DEF Manual!BeforeFirst, Manual!PinShutsTheRow, Manual!ToBeScheduled, Manual!IdleEdit
<1>4. Manual!CallsCounted /\ Manual!Activations /\ Manual!ActivationSpent
  BY DEF Manual!CallsCounted, Manual!Activations, Manual!ActivationSpent
<1> QED BY <1>1, <1>2, <1>3, <1>4 DEF Manual!ManualInv

(* A step that claims nothing and calls nobody: the requests that own a        *)
(* publication still do or have left, nobody else owns one, and what a status  *)
(* becomes suits the attempts there are.                                       *)
LEMMA ManualQuiet ==
  ASSUME Manual!ManualInv, Manual!ManualShapes', Manual!Activations', Manual!ActivationSpent',
         \A p \in Pubs : Len(v2[p])' = Len(v2[p]),
         \A r \in Requests, p \in Pubs : Manual!Owns(r, p)' =>
           /\ Manual!Owns(r, p) /\ v5'[r].try = v5[r].try /\ v5'[r].answer = v5[r].answer
           /\ \/ v5'[r].pc = v5[r].pc
              \/ /\ v5[r].pc \in {"claimed", "verifying"} /\ v5'[r].pc \in {"verifying", "posting"}
                 /\ v5'[r].pc = "posting" => v5[r].try = 1,
         v8' = v8, \A p \in Pubs : v9'[p] => v9[p],
         \A p \in Pubs : Manual!ToBeScheduled(p)' =>
           Manual!ToBeScheduled(p) \/ v1[p].status = "PUBLISH_FAILED",
         \A p \in Pubs : v1'[p].status # v1[p].status =>
           /\ Len(v2[p]) = 0 => v1'[p].status \in {"SCHEDULED", "CANCELLED"}
           /\ v9'[p] => v1'[p].status \notin {"SCHEDULED", "PUBLISH_FAILED"}
           /\ \A r \in Requests : Manual!Owns(r, p)' /\ v5[r].try = 1 =>
                v1'[p].status \in {"PUBLISHING", "CANCELLED"}
  PROVE  Manual!ManualInv'
<1> USE DEF Manual!ManualInv
<1>1. Manual!OwnAttempts'
  BY DEF Manual!OwnAttempts, Manual!Owns
<1>2. Manual!BeforeFirst'
  BY DEF Manual!BeforeFirst
<1>3. Manual!FirstAlone'
  <2> SUFFICES ASSUME NEW r \in Requests, NEW p \in Pubs, Manual!Owns(r, p)', v5'[r].try = 1
               PROVE  /\ Len(v2[p])' = 1
                      /\ v1'[p].status \in {"PUBLISHING", "CANCELLED"} /\ ~Manual!ToBeScheduled(p)'
                      /\ v8'[p] = 1 => v5'[r].pc = "answered"
    BY DEF Manual!FirstAlone
  <2>1. Manual!Owns(r, p) /\ v5[r].try = 1 OBVIOUS
  <2>2. /\ Len(v2[p]) = 1 /\ v1[p].status \in {"PUBLISHING", "CANCELLED"}
        /\ ~Manual!ToBeScheduled(p) /\ (v8[p] = 1 => v5[r].pc = "answered")
    BY <2>1 DEF Manual!FirstAlone
  <2> QED BY <2>1, <2>2
<1>4. Manual!PinShutsTheRow'
  BY DEF Manual!PinShutsTheRow
<1>5. Manual!CallsCounted'
  BY DEF Manual!CallsCounted
<1> QED BY <1>1, <1>2, <1>3, <1>4, <1>5

(* The claim: a new attempt of the publication, which was SCHEDULED.           *)
LEMMA ManualClaims ==
  ASSUME Manual!ManualInv, Manual!ManualShapes', Manual!Activations', Manual!ActivationSpent',
         NEW o \in Requests, NEW c \in Pubs, v5[o].pc = "validated", v5[o].pub = c,
         v1[c].status = "SCHEDULED",
         v1' = [v1 EXCEPT ![c].status = "PUBLISHING"],
         \A p \in Pubs : Len(v2[p])' = IF p = c THEN Len(v2[p]) + 1 ELSE Len(v2[p]),
         \A p \in Pubs : Len(v2[p]) \in Nat,
         v5' = [v5 EXCEPT ![o].pc = "claimed", ![o].try = Len(v2[c]) + 1],
         UNCHANGED <<v7, v8, v9>>
  PROVE  Manual!ManualInv'
<1> USE DEF Manual!ManualInv
<1>1. /\ v5'[o].pc = "claimed" /\ v5'[o].try = Len(v2[c]) + 1 /\ v5'[o].pub = c
      /\ \A r \in Requests \ {o} : v5'[r] = v5[r]
      /\ v1'[c].status = "PUBLISHING" /\ \A p \in Pubs \ {c} : v1'[p] = v1[p]
  BY DEF Manual!ManualShapes
<1>0. /\ Len(v2'[c]) = Len(v2[c]) + 1 /\ Len(v2[c]) \in Nat
      /\ \A p \in Pubs \ {c} : Len(v2'[p]) = Len(v2[p])
  OBVIOUS
<1>2. ASSUME NEW r \in Requests \ {o}, NEW p \in Pubs
      PROVE  Manual!Owns(r, p)' <=> Manual!Owns(r, p)
  BY <1>1, <1>2 DEF Manual!Owns
<1>3. \A p \in Pubs : Manual!Owns(o, p)' => p = c
  BY <1>1 DEF Manual!Owns
<1>4. \A r \in Requests : Manual!Owns(r, c) => v5[r].try \in 1..Len(v2[c]) /\ v5[r].try # 1
  BY DEF Manual!OwnAttempts, Manual!FirstAlone
<1>5. Manual!OwnAttempts'
  <2>1. ASSUME NEW r \in Requests, NEW p \in Pubs, Manual!Owns(r, p)'
        PROVE  /\ v5'[r].try \in 1..Len(v2[p])'
               /\ v5'[r].pc \in {"posting", "answered"} => v5'[r].try = 1
    <3>1. CASE r = o BY <1>1, <1>3, <2>1, <3>1
    <3>2. CASE r # o
      <4>1. v5'[r] = v5[r] /\ Manual!Owns(r, p) BY <1>1, <1>2, <2>1, <3>2
      <4>2. /\ v5[r].try \in 1..Len(v2[p])
            /\ v5[r].pc \in {"posting", "answered"} => v5[r].try = 1
        BY <4>1 DEF Manual!OwnAttempts
      <4>3. v5[r].try \in 1..Len(v2'[p])
        BY <1>0, <4>2
      <4> QED BY <4>1, <4>2, <4>3
    <3> QED BY <3>1, <3>2
  <2>2. ASSUME NEW r \in Requests, NEW s \in Requests, NEW p \in Pubs,
               Manual!Owns(r, p)', Manual!Owns(s, p)', v5'[r].try = v5'[s].try
        PROVE  r = s
    <3>1. CASE r # o /\ s # o BY <1>1, <1>2, <2>2, <3>1 DEF Manual!OwnAttempts
    <3>2. CASE r = o /\ s # o BY <1>1, <1>2, <1>3, <1>4, <2>2, <3>2
    <3>3. CASE s = o /\ r # o BY <1>1, <1>2, <1>3, <1>4, <2>2, <3>3
    <3> QED BY <3>1, <3>2, <3>3
  <2> QED BY <2>1, <2>2 DEF Manual!OwnAttempts
<1>6. Manual!BeforeFirst'
  BY <1>1 DEF Manual!BeforeFirst, Manual!ToBeScheduled
<1>7. v9[c] = FALSE
  BY DEF Manual!PinShutsTheRow, Manual!ManualShapes
<1>8. Manual!FirstAlone'
  <2> SUFFICES ASSUME NEW r \in Requests, NEW p \in Pubs, Manual!Owns(r, p)', v5'[r].try = 1
               PROVE  /\ Len(v2[p])' = 1
                      /\ v1'[p].status \in {"PUBLISHING", "CANCELLED"} /\ ~Manual!ToBeScheduled(p)'
                      /\ v8'[p] = 1 => v5'[r].pc = "answered"
    BY DEF Manual!FirstAlone
  <2>1. CASE r = o
    <3>1. p = c /\ Len(v2[c]) = 0 BY <1>1, <1>3, <2>1
    <3>2. ~Manual!ToBeScheduled(c) /\ v8[c] # 1
      BY <3>1 DEF Manual!BeforeFirst, Manual!CallsCounted
    <3>3. ~Manual!ToBeScheduled(c)' /\ v8'[c] # 1 BY <3>2 DEF Manual!ToBeScheduled
    <3>4. Len(v2'[c]) = 1 BY <1>0, <3>1
    <3> QED BY <1>1, <3>1, <3>3, <3>4
  <2>2. CASE r # o
    <3>1. Manual!Owns(r, p) /\ v5[r].try = 1 /\ v5'[r] = v5[r] BY <1>1, <1>2, <2>2
    <3>2. p # c BY <1>4, <3>1
    <3> QED BY <1>1, <3>1, <3>2 DEF Manual!FirstAlone, Manual!ToBeScheduled
  <2> QED BY <2>1, <2>2
<1>9. Manual!PinShutsTheRow'
  BY <1>1, <1>7 DEF Manual!PinShutsTheRow, Manual!ToBeScheduled
<1>10. Manual!CallsCounted'
  <2>1. \A p \in Pubs : v8[p] = 1 => Len(v2[p])' # 0 BY DEF Manual!CallsCounted
  <2>2. ASSUME NEW r \in Requests, NEW p \in Pubs, Manual!Owns(r, p)'
        PROVE  /\ v5'[r].pc = "answered" => v5'[r].answer # Manual!Nil
               /\ v5'[r].answer \in {"rejected", "error"} => ~v9'[p]
    <3>1. CASE r = o BY <1>1, <1>3, <1>7, <2>2, <3>1
    <3>2. CASE r # o
      <4>1. Manual!Owns(r, p) /\ v5'[r] = v5[r] /\ v9' = v9 BY <1>1, <1>2, <2>2, <3>2
      <4>2. /\ v5[r].pc = "answered" => v5[r].answer # Manual!Nil
            /\ v5[r].answer \in {"rejected", "error"} => ~v9[p]
        BY <4>1 DEF Manual!CallsCounted
      <4> QED BY <4>1, <4>2
    <3> QED BY <3>1, <3>2
  <2> QED BY <2>1, <2>2 DEF Manual!CallsCounted
<1> QED BY <1>5, <1>6, <1>8, <1>9, <1>10

(* The one call.                                                               *)
LEMMA ManualCalls ==
  ASSUME Manual!ManualInv, NEW o \in Requests, Manual!Post(o)
  PROVE  Manual!ManualInv'
<1> USE DEF Manual!ManualInv
<1> DEFINE c == v5[o].pub
<1>1. /\ v5[o].pc = "posting" /\ c \in Pubs /\ Manual!Owns(o, c)
      /\ UNCHANGED <<v1, v2, v3, v4, v6, v7, v10>>
      /\ v8' = [v8 EXCEPT ![c] = @ + 1]
  BY DEF Manual!Post, Manual!ManualShapes, Manual!Owns
<1>2. v5[o].try = 1 /\ Len(v2[c]) = 1 /\ v8[c] = 0 /\ ~v9[c]
  BY <1>1 DEF Manual!OwnAttempts, Manual!FirstAlone, Manual!PinShutsTheRow, Manual!ManualShapes
<1>3. PICK answer \in {"pin", "rejected", "lost", "error"}, taken \in BOOLEAN :
        /\ answer \in {"rejected", "error"} => ~taken
        /\ v9' = [v9 EXCEPT ![c] = @ \/ taken]
        /\ v5' = [v5 EXCEPT ![o].pc = "answered", ![o].answer = answer]
  BY DEF Manual!Post
<1>4. /\ v5'[o].pc = "answered" /\ v5'[o].answer = answer /\ v5'[o].try = 1 /\ v5'[o].pub = c
      /\ \A r \in Requests \ {o} : v5'[r] = v5[r]
      /\ v8'[c] = 1 /\ \A p \in Pubs \ {c} : v8'[p] = v8[p] /\ v9'[p] = v9[p]
      /\ v9'[c] = taken
  BY <1>1, <1>2, <1>3 DEF Manual!ManualShapes
<1>5. \A r \in Requests, p \in Pubs : Manual!Owns(r, p)' <=> Manual!Owns(r, p)
  BY <1>1, <1>4 DEF Manual!Owns
<1>6. Manual!ManualShapes'
  <2>1. v8' \in [Pubs -> {0, 1}] /\ v9' \in [Pubs -> BOOLEAN]
    BY <1>1, <1>2, <1>3 DEF Manual!ManualShapes
  <2>2. v5' \in [Requests -> [pc : Manual!RequestStages, pub : Pubs \cup {Manual!Nil},
                              prov : Manual!Providers \cup {Manual!Nil}, auth : Nat, act : Nat,
                              try : Nat, answer : {Manual!Nil, "pin", "rejected", "lost", "error"}]]
    <3> DEFINE R == [pc : Manual!RequestStages, pub : Pubs \cup {Manual!Nil},
                     prov : Manual!Providers \cup {Manual!Nil}, auth : Nat, act : Nat,
                     try : Nat, answer : {Manual!Nil, "pin", "rejected", "lost", "error"}]
    <3>1. v5 \in [Requests -> R] BY DEF Manual!ManualShapes
    <3>2. ASSUME NEW j, j = [v5[o] EXCEPT !.pc = "answered", !.answer = answer] PROVE j \in R
      BY <3>1, <3>2 DEF Manual!RequestStages
    <3>3. v5' = [v5 EXCEPT ![o] = [v5[o] EXCEPT !.pc = "answered", !.answer = answer]]
      BY <1>3
    <3> HIDE DEF R
    <3>4. v5' \in [Requests -> R] BY <3>1, <3>2, <3>3
    <3> QED BY <3>4 DEF R
  <2>3. \A r \in Requests : v5'[r].pc # "idle" => v5'[r].pub \in Pubs /\ v5'[r].prov \in Manual!Providers
    BY <1>1, <1>3 DEF Manual!ManualShapes
  <2> QED BY <1>1, <2>1, <2>2, <2>3 DEF Manual!ManualShapes
<1>7. Manual!OwnAttempts'
  BY <1>1, <1>2, <1>4, <1>5 DEF Manual!OwnAttempts
<1>8. Manual!BeforeFirst'
  BY <1>1 DEF Manual!BeforeFirst, Manual!ToBeScheduled
<1>9. \A r \in Requests : Manual!Owns(r, c) => r = o
  <2>1. ASSUME NEW r \in Requests, Manual!Owns(r, c) PROVE v5[r].try = 1
    <3>1. v5[r].try \in 1..Len(v2[c]) BY <1>1, <2>1 DEF Manual!OwnAttempts
    <3> QED BY <1>2, <3>1
  <2> QED BY <1>1, <1>2, <2>1 DEF Manual!OwnAttempts
<1>10. Manual!FirstAlone'
  BY <1>1, <1>2, <1>4, <1>5, <1>9 DEF Manual!FirstAlone, Manual!ToBeScheduled
<1>11. Manual!PinShutsTheRow'
  <2>1. v1[c].status \in {"PUBLISHING", "CANCELLED"} /\ ~Manual!ToBeScheduled(c)
    BY <1>1, <1>2 DEF Manual!FirstAlone
  <2> QED BY <1>1, <1>2, <1>4, <2>1 DEF Manual!PinShutsTheRow, Manual!ToBeScheduled
<1>12. Manual!CallsCounted'
  <2>1. ASSUME NEW p \in Pubs, v8'[p] = 1 PROVE Len(v2[p])' # 0
    <3>1. v2' = v2 BY <1>1
    <3>2. CASE p = c
      <4>1. Len(v2'[c]) = 1 BY <1>2, <3>1
      <4> QED BY <3>2, <4>1
    <3>3. CASE p # c
      <4>1. v8[p] = 1 BY <1>4, <2>1, <3>3
      <4> QED BY <3>1, <4>1 DEF Manual!CallsCounted
    <3> QED BY <3>2, <3>3
  <2>2. ASSUME NEW r \in Requests, NEW p \in Pubs, Manual!Owns(r, p)',
               v5'[r].answer \in {"rejected", "error"}
        PROVE  ~v9'[p]
    <3>1. CASE p = c
      <4>1. r = o BY <1>5, <1>9, <2>2, <3>1
      <4> QED BY <1>3, <1>4, <2>2, <3>1, <4>1
    <3>2. CASE p # c
      <4>1. r # o BY <1>1, <1>4, <2>2, <3>2 DEF Manual!Owns
      <4> QED BY <1>4, <1>5, <2>2, <3>2, <4>1 DEF Manual!CallsCounted
    <3> QED BY <3>1, <3>2
  <2>3. ASSUME NEW r \in Requests, NEW p \in Pubs, Manual!Owns(r, p)'
        PROVE  v5'[r].pc = "answered" => v5'[r].answer # Manual!Nil
    <3>1. CASE r = o BY <1>4, <3>1 DEF Manual!Nil
    <3>2. CASE r # o BY <1>4, <1>5, <2>3, <3>2 DEF Manual!CallsCounted
    <3> QED BY <3>1, <3>2
  <2> QED BY <2>1, <2>2, <2>3 DEF Manual!CallsCounted
<1>13. Manual!Activations' /\ Manual!ActivationSpent'
  <2>1. \A r \in Requests : v5'[r].act = v5[r].act
    BY <1>3 DEF Manual!ManualShapes
  <2> QED BY <1>1, <2>1 DEF Manual!Activations, Manual!ActivationSpent
<1> QED BY <1>6, <1>7, <1>8, <1>10, <1>11, <1>12, <1>13

(* What a step may do to the activations and authorizations alone.             *)
LEMMA ManualPapers ==
  ASSUME Manual!ManualInv, Manual!ManualShapes', Len(v4) \in Nat,
         Len(v4)' \in Nat, Len(v4) <= Len(v4)',
         \A n \in 1..Len(v4) : v4[n].status = "CONSUMED" => v4'[n].status = "CONSUMED",
         UNCHANGED <<v2, v5, v7, v8, v9>>, \A p \in Pubs : v1'[p].status = v1[p].status
  PROVE  Manual!ManualInv'
<1> USE DEF Manual!ManualInv
<1>1. Manual!Activations'
  BY DEF Manual!Activations
<1>2. Manual!ActivationSpent'
  <2> SUFFICES ASSUME NEW p \in Pubs, NEW k \in DOMAIN v2[p], v2[p][k].act # 0
               PROVE  v4'[v2[p][k].act].status = "CONSUMED"
    BY DEF Manual!ActivationSpent
  <2>1. v2[p][k].act \in 1..Len(v4)
    BY DEF Manual!Activations
  <2> QED BY <2>1 DEF Manual!ActivationSpent
<1>3. \A r \in Requests, p \in Pubs : Manual!Owns(r, p)' <=> Manual!Owns(r, p)
  BY DEF Manual!Owns
<1>4. \A p \in Pubs : Manual!ToBeScheduled(p)' <=> Manual!ToBeScheduled(p)
  BY DEF Manual!ToBeScheduled
<1> QED BY <1>1, <1>2, <1>3, <1>4, ManualQuiet

(* A request moves on, or leaves, without owning a publication.                *)
LEMMA ManualVisits ==
  ASSUME Manual!ManualInv, NEW o \in Requests, NEW j, v5' = [v5 EXCEPT ![o] = j],
         j \in [pc : {"idle", "evidence", "validated"}, pub : Pubs \cup {Manual!Nil},
                prov : Manual!Providers \cup {Manual!Nil}, auth : Nat, act : 0..Len(v4), try : Nat,
                answer : {Manual!Nil, "pin", "rejected", "lost", "error"}],
         j.pc # "idle" => j.pub \in Pubs /\ j.prov \in Manual!Providers,
         UNCHANGED <<v1, v2, v3, v4, v7, v8, v9>>
  PROVE  Manual!ManualInv'
<1> USE DEF Manual!ManualInv
<1> DEFINE R == [pc : Manual!RequestStages, pub : Pubs \cup {Manual!Nil},
                 prov : Manual!Providers \cup {Manual!Nil}, auth : Nat, act : Nat,
                 try : Nat, answer : {Manual!Nil, "pin", "rejected", "lost", "error"}]
<1>1. v5 \in [Requests -> R] /\ Len(v4) \in Nat
  BY LenProperties DEF Manual!ManualShapes
<1>2. j \in R
  BY <1>1 DEF Manual!RequestStages
<1>3. v5' \in [Requests -> R]
  <2> HIDE DEF R
  <2> QED BY <1>1, <1>2
<1>4. v5'[o] = j /\ \A r \in Requests \ {o} : v5'[r] = v5[r]
  BY <1>1
<1>5. Manual!ManualShapes'
  BY <1>3, <1>4 DEF Manual!ManualShapes
<1>6. Manual!Activations' /\ Manual!ActivationSpent'
  BY <1>4 DEF Manual!Activations, Manual!ActivationSpent
<1>7. \A r \in Requests, p \in Pubs : Manual!Owns(r, p)' => Manual!Owns(r, p) /\ v5'[r] = v5[r]
  BY <1>4 DEF Manual!Owns
<1>8. \A p \in Pubs : Manual!ToBeScheduled(p)' <=> Manual!ToBeScheduled(p)
  BY DEF Manual!ToBeScheduled
<1> QED BY <1>5, <1>6, <1>7, <1>8, ManualQuiet

(* What the outcome of a request's attempt does to the attempts.               *)
LEMMA ManualTryWritten ==
  ASSUME v2 \in [Pubs -> Seq(Manual!Tries)], NEW c \in Pubs, NEW k \in 1..Len(v2[c]),
         NEW st \in {"STARTED", "SUCCEEDED", "FAILED", "UNKNOWN"}, NEW kn \in {"none", "pin", "op"},
         \/ v2' = [v2 EXCEPT ![c][k].status = st, ![c][k].known = kn]
         \/ v2' = [v2 EXCEPT ![c][k].status = st]
  PROVE  /\ v2' \in [Pubs -> Seq(Manual!Tries)]
         /\ \A p \in Pubs : Len(v2[p])' = Len(v2[p])
         /\ \A p \in Pubs : \A i \in 1..Len(v2[p]) : v2'[p][i].act = v2[p][i].act
<1>1. v2[c] \in Seq(Manual!Tries) /\ v2[c][k] \in Manual!Tries
  BY ElementOfSeq
<1>2. PICK e \in Manual!Tries : e.act = v2[c][k].act /\ v2' = [v2 EXCEPT ![c] = [@ EXCEPT ![k] = e]]
  <2>1. CASE v2' = [v2 EXCEPT ![c][k].status = st]
    <3> DEFINE e == [v2[c][k] EXCEPT !.status = st]
    <3>1. e \in Manual!Tries /\ e.act = v2[c][k].act BY <1>1 DEF Manual!Tries
    <3> QED BY <2>1, <3>1
  <2>2. CASE v2' = [v2 EXCEPT ![c][k].status = st, ![c][k].known = kn]
    <3>1. ASSUME NEW m, m = [v2 EXCEPT ![c][k].status = st]
          PROVE  [m EXCEPT ![c][k].known = kn]
                 = [v2 EXCEPT ![c] = [@ EXCEPT ![k] = [v2[c][k] EXCEPT !.status = st, !.known = kn]]]
      <4>1. m[c] = [v2[c] EXCEPT ![k] = [v2[c][k] EXCEPT !.status = st]] /\ c \in DOMAIN m
        BY <3>1
      <4>2. k \in DOMAIN v2[c] BY <1>1
      <4>3. m[c][k] = [v2[c][k] EXCEPT !.status = st] /\ k \in DOMAIN m[c]
        BY <4>1, <4>2
      <4> QED BY <1>1, <3>1, <4>1, <4>3
    <3> DEFINE e == [v2[c][k] EXCEPT !.status = st, !.known = kn]
    <3>2. e \in Manual!Tries /\ e.act = v2[c][k].act BY <1>1 DEF Manual!Tries
    <3>3. v2' = [v2 EXCEPT ![c] = [@ EXCEPT ![k] = e]]
      BY <2>2, <3>1
    <3> QED BY <3>2, <3>3
  <2> QED BY <2>1, <2>2
<1>3. /\ [v2[c] EXCEPT ![k] = e] \in Seq(Manual!Tries)
      /\ Len([v2[c] EXCEPT ![k] = e]) = Len(v2[c])
      /\ \A i \in 1..Len(v2[c]) : [v2[c] EXCEPT ![k] = e][i] = IF i = k THEN e ELSE v2[c][i]
  BY <1>1, ExceptSeq
<1>4. v2'[c] = [v2[c] EXCEPT ![k] = e] /\ \A p \in Pubs \ {c} : v2'[p] = v2[p]
  BY <1>2
<1>5. v2' \in [Pubs -> Seq(Manual!Tries)]
  BY <1>2, <1>3
<1> QED BY <1>2, <1>3, <1>4, <1>5

(* The row and the attempt are settled by their request, which leaves.         *)
LEMMA ManualSettles ==
  ASSUME Manual!ManualInv, NEW o \in Requests, NEW c \in Pubs, Manual!Owns(o, c),
         NEW ps \in {"PUBLISHED", "PUBLISH_FAILED", "PUBLISH_UNKNOWN"},
         NEW st \in {"SUCCEEDED", "FAILED", "UNKNOWN"}, NEW kn \in {"none", "pin", "op"},
         Manual!Outcome(o, ps, st, kn), Manual!Leave(o), UNCHANGED <<v3, v4, v7, v8, v9>>,
         ps = "PUBLISH_FAILED" => ~v9[c]
  PROVE  Manual!ManualInv'
<1> USE DEF Manual!ManualInv
<1>1. CASE UNCHANGED <<v1, v2>>
  <2>1. Manual!IdleReq \in [pc : {"idle", "evidence", "validated"}, pub : Pubs \cup {Manual!Nil},
                prov : Manual!Providers \cup {Manual!Nil}, auth : Nat, act : 0..Len(v4), try : Nat,
                answer : {Manual!Nil, "pin", "rejected", "lost", "error"}]
        /\ Manual!IdleReq.pc = "idle"
    <3>1. Len(v4) \in Nat BY LenProperties DEF Manual!ManualShapes
    <3> QED BY <3>1 DEF Manual!IdleReq
  <2> QED BY <1>1, <2>1, ManualVisits DEF Manual!Leave
<1>2. CASE /\ v1' = [v1 EXCEPT ![c].status = ps]
           /\ v2' = [v2 EXCEPT ![c][v5[o].try].status = st, ![c][v5[o].try].known = kn]
  <2>1. v5[o].try \in 1..Len(v2[c]) /\ v2 \in [Pubs -> Seq(Manual!Tries)]
    BY DEF Manual!OwnAttempts, Manual!ManualShapes
  <2>2. /\ v2' \in [Pubs -> Seq(Manual!Tries)]
        /\ \A p \in Pubs : Len(v2[p])' = Len(v2[p])
        /\ \A p \in Pubs : \A i \in 1..Len(v2[p]) : v2'[p][i].act = v2[p][i].act
    BY <1>2, <2>1, ManualTryWritten
  <2>3. /\ v5'[o] = Manual!IdleReq /\ \A r \in Requests \ {o} : v5'[r] = v5[r]
        /\ Manual!IdleReq.pc = "idle"
    BY DEF Manual!Leave, Manual!ManualShapes, Manual!IdleReq
  <2>4. Manual!ManualShapes'
    <3>1. v5' \in [Requests -> [pc : Manual!RequestStages, pub : Pubs \cup {Manual!Nil},
                 prov : Manual!Providers \cup {Manual!Nil}, auth : Nat, act : Nat,
                 try : Nat, answer : {Manual!Nil, "pin", "rejected", "lost", "error"}]]
      BY DEF Manual!Leave, Manual!ManualShapes, Manual!IdleReq, Manual!RequestStages
    <3>2. v1' \in [Pubs -> [status : Manual!PubStatuses,
                           drift : SUBSET {"structure", "quality", "duplicate"}]]
      <4>1. v1[c] \in [status : Manual!PubStatuses,
                        drift : SUBSET {"structure", "quality", "duplicate"}]
        BY DEF Manual!ManualShapes
      <4>2. ps \in Manual!PubStatuses BY DEF Manual!PubStatuses
      <4>3. [v1[c] EXCEPT !.status = ps] \in [status : Manual!PubStatuses,
                        drift : SUBSET {"structure", "quality", "duplicate"}]
        BY <4>1, <4>2
      <4> QED BY <1>2, <4>3 DEF Manual!ManualShapes
    <3>3. \A r \in Requests : v5'[r].pc # "idle" => v5'[r].pub \in Pubs /\ v5'[r].prov \in Manual!Providers
      BY <2>3 DEF Manual!ManualShapes
    <3> QED BY <2>2, <3>1, <3>2, <3>3 DEF Manual!ManualShapes
  <2>5. \A p \in Pubs : DOMAIN v2[p] = 1..Len(v2[p]) /\ DOMAIN v2'[p] = 1..Len(v2[p])
    BY <2>1, <2>2, LenProperties
  <2>6. Manual!Activations' /\ Manual!ActivationSpent'
    <3>1. Len(v4) \in Nat BY LenProperties DEF Manual!ManualShapes
    <3>2. \A r \in Requests : v5'[r].act \in 0..Len(v4)
      BY <2>3, <3>1 DEF Manual!Activations, Manual!IdleReq
    <3>3. Manual!Activations'
      BY <2>2, <2>5, <3>2 DEF Manual!Activations
    <3>4. Manual!ActivationSpent'
      BY <2>2, <2>5 DEF Manual!ActivationSpent
    <3> QED BY <3>3, <3>4
  <2>7. \A r \in Requests, p \in Pubs : Manual!Owns(r, p)' => Manual!Owns(r, p) /\ v5'[r] = v5[r] /\ r # o
    BY <2>3 DEF Manual!Owns
  <2>8. \A p \in Pubs : Manual!ToBeScheduled(p)' <=> Manual!ToBeScheduled(p)
    BY DEF Manual!ToBeScheduled
  <2>9. Len(v2[c]) # 0 BY <2>1
  <2>10. v1'[c].status = ps /\ \A p \in Pubs \ {c} : v1'[p] = v1[p]
    BY <1>2 DEF Manual!ManualShapes
  <2>11. ASSUME NEW r \in Requests, Manual!Owns(r, c)', v5[r].try = 1 PROVE FALSE
    <3>1. Manual!Owns(r, c) /\ r # o BY <2>7, <2>11
    <3>2. Len(v2[c]) = 1 BY <2>11, <3>1 DEF Manual!FirstAlone
    <3>3. v5[o].try = 1 BY <2>1, <3>2
    <3> QED BY <2>11, <3>1, <3>3 DEF Manual!OwnAttempts
  <2> QED BY <2>2, <2>4, <2>6, <2>7, <2>8, <2>9, <2>10, <2>11, ManualQuiet
<1> QED BY <1>1, <1>2 DEF Manual!Outcome, Manual!Owns

LEMMA ManualRecords ==
  ASSUME Manual!ManualInv, NEW o \in Requests,
         \/ Manual!finalize_post_claim_unknown(o) \/ Manual!Record(o)
         \/ Manual!PostClaim(o) /\ Manual!Leave(o)
  PROVE  Manual!ManualInv'
<1> USE DEF Manual!ManualInv
<1> DEFINE c == v5[o].pub
<1>0. c \in Pubs /\ Manual!Owns(o, c)
  BY DEF Manual!finalize_post_claim_unknown, Manual!Record, Manual!PostClaim, Manual!ManualShapes,
     Manual!Owns
<1>1. CASE Manual!finalize_post_claim_unknown(o)
  BY <1>0, <1>1, ManualSettles DEF Manual!finalize_post_claim_unknown
<1>2. CASE Manual!Record(o)
  <2>1. Manual!Leave(o) /\ UNCHANGED <<v3, v4, v7, v8, v9>>
    BY <1>2 DEF Manual!Record
  <2>2. v5[o].answer \in {"rejected", "error"} => ~v9[c]
    BY <1>0 DEF Manual!CallsCounted
  <2>3. \E ps \in {"PUBLISHED", "PUBLISH_FAILED", "PUBLISH_UNKNOWN"},
          st \in {"SUCCEEDED", "FAILED", "UNKNOWN"}, kn \in {"none", "pin", "op"} :
          Manual!Outcome(o, ps, st, kn)
          /\ (ps = "PUBLISH_FAILED" => v5[o].answer \in {"rejected", "error"})
    <3> DEFINE O(ps, st, kn) == Manual!Outcome(o, ps, st, kn)
    <3>1. \/ v5[o].answer = "pin" /\ \E kn \in {"pin", "op"} :
               O("PUBLISHED", "SUCCEEDED", kn) \/ O("PUBLISH_UNKNOWN", "UNKNOWN", kn)
          \/ v5[o].answer = "lost" /\ O("PUBLISH_UNKNOWN", "UNKNOWN", "none")
          \/ v5[o].answer = "rejected" /\ O("PUBLISH_FAILED", "FAILED", "none")
          \/ v5[o].answer = "error"
             /\ (O("PUBLISH_FAILED", "FAILED", "op") \/ O("PUBLISH_UNKNOWN", "UNKNOWN", "op"))
      <4>1. v5[o].answer \in {"pin", "rejected", "lost", "error"}
        BY <1>0, <1>2 DEF Manual!Record, Manual!ManualShapes, Manual!Nil, Manual!CallsCounted
      <4> QED BY <1>2, <4>1 DEF Manual!Record
    <3> HIDE DEF O
    <3> SUFFICES \E ps \in {"PUBLISHED", "PUBLISH_FAILED", "PUBLISH_UNKNOWN"},
                   st \in {"SUCCEEDED", "FAILED", "UNKNOWN"}, kn \in {"none", "pin", "op"} :
                   O(ps, st, kn) /\ (ps = "PUBLISH_FAILED" => v5[o].answer \in {"rejected", "error"})
      BY DEF O
    <3> QED BY <3>1
  <2> QED BY <1>0, <2>1, <2>2, <2>3, ManualSettles
<1>3. CASE Manual!PostClaim(o) /\ Manual!Leave(o)
  <2>1. /\ v5[o].pc \in {"claimed", "verifying"} /\ UNCHANGED <<v3, v4, v7, v8, v9>>
        /\ Manual!Outcome(o, "PUBLISH_FAILED", "FAILED", "none")
    <3>1. v5'[o].pc = "idle" BY <1>3 DEF Manual!Leave, Manual!ManualShapes, Manual!IdleReq
    <3>2. ~Manual!Go(o, "verifying") /\ ~Manual!Go(o, "posting")
      BY <3>1 DEF Manual!Go, Manual!ManualShapes
    <3> QED BY <1>3, <3>2 DEF Manual!PostClaim
  <2>2. ASSUME v9[c] PROVE FALSE
    <3>1. Len(v2[c]) = 1 /\ v8[c] = 1 BY <1>0, <2>2 DEF Manual!PinShutsTheRow
    <3>2. v5[o].try \in 1..Len(v2[c]) BY <1>0 DEF Manual!OwnAttempts
    <3>3. v5[o].try = 1 BY <3>1, <3>2
    <3> QED BY <1>0, <2>1, <3>1, <3>3 DEF Manual!FirstAlone
  <2> QED BY <1>0, <1>3, <2>1, <2>2, ManualSettles
<1> QED BY <1>1, <1>2, <1>3

(* The one transaction that wins its compare-and-sets.                         *)
LEMMA ManualWins ==
  ASSUME Manual!ManualInv, NEW o \in Requests, Manual!atomic_authorized_claim(o), ~Manual!Leave(o)
  PROVE  Manual!ManualInv'
<1> USE DEF Manual!ManualInv
<1> DEFINE c == v5[o].pub
<1> DEFINE e == [status |-> "STARTED", prov |-> v5[o].prov, known |-> "none",
                 auth |-> v5[o].auth, act |-> v5[o].act]
<1>1. /\ v5[o].pc = "validated" /\ v1[c].status = "SCHEDULED"
      /\ v1' = [v1 EXCEPT ![c].status = "PUBLISHING"]
      /\ v3' = [v3 EXCEPT ![v5[o].auth].status = "CONSUMED"]
      /\ v4' = [m \in DOMAIN v4 |-> IF m = v5[o].act THEN [v4[m] EXCEPT !.status = "CONSUMED"] ELSE v4[m]]
      /\ v2' = [v2 EXCEPT ![c] = Append(@, e)]
      /\ v5' = [v5 EXCEPT ![o].pc = "claimed", ![o].try = Len(v2[c]) + 1]
      /\ UNCHANGED <<v7, v8, v9>>
  BY DEF Manual!atomic_authorized_claim, Manual!Attempt
<1>2. /\ c \in Pubs /\ e \in Manual!Tries
      /\ v2 \in [Pubs -> Seq(Manual!Tries)] /\ v2[c] \in Seq(Manual!Tries)
  BY <1>1 DEF Manual!ManualShapes, Manual!Tries
<1> HIDE DEF e
<1>3. /\ Append(v2[c], e) \in Seq(Manual!Tries) /\ Len(Append(v2[c], e)) = Len(v2[c]) + 1
      /\ \A i \in 1..Len(v2[c]) : Append(v2[c], e)[i] = v2[c][i]
      /\ Append(v2[c], e)[Len(v2[c]) + 1] = e
  BY <1>2, AppendProperties
<1>4. /\ v2' \in [Pubs -> Seq(Manual!Tries)] /\ v2'[c] = Append(v2[c], e)
      /\ \A p \in Pubs \ {c} : v2'[p] = v2[p]
      /\ \A p \in Pubs : Len(v2[p])' = IF p = c THEN Len(v2[p]) + 1 ELSE Len(v2[p])
  BY <1>1, <1>2, <1>3
<1>5. \A p \in Pubs : Len(v2[p]) \in Nat /\ DOMAIN v2[p] = 1..Len(v2[p])
                      /\ DOMAIN v2'[p] = 1..Len(v2[p])'
  BY <1>2, <1>4, LenProperties
<1> DEFINE A == [pub : Pubs, status : {"ACTIVE", "CONSUMED", "REVOKED"}]
<1>6. /\ v4' \in Seq(A) /\ Len(v4') = Len(v4) /\ Len(v4) \in Nat
      /\ \A n \in 1..Len(v4) : /\ v4[n].status = "CONSUMED" => v4'[n].status = "CONSUMED"
                               /\ n = v5[o].act => v4'[n].status = "CONSUMED"
  <2>1. v4 \in Seq(A) /\ DOMAIN v4 = 1..Len(v4) /\ Len(v4) \in Nat /\ \A n \in 1..Len(v4) : v4[n] \in A
    <3>1. v4 \in Seq(A) BY DEF Manual!ManualShapes
    <3> HIDE DEF A
    <3> QED BY <3>1, LenProperties, ElementOfSeq
  <2>2. \A a \in A : [a EXCEPT !.status = "CONSUMED"] \in A /\ [a EXCEPT !.status = "CONSUMED"].status = "CONSUMED"
    OBVIOUS
  <2>3. v4' \in [DOMAIN v4 -> A]
    <3> HIDE DEF A
    <3> QED BY <1>1, <2>1, <2>2
  <2>4. v4' \in Seq(A) /\ Len(v4') = Len(v4)
    <3> HIDE DEF A
    <3> QED BY <2>1, <2>3
  <2>5. \A n \in 1..Len(v4) : /\ v4[n].status = "CONSUMED" => v4'[n].status = "CONSUMED"
                              /\ n = v5[o].act => v4'[n].status = "CONSUMED"
    BY <1>1, <2>1, <2>2
  <2> QED BY <2>1, <2>4, <2>5
<1>7. Manual!ManualShapes'
  <2>1. v1' \in [Pubs -> [status : Manual!PubStatuses,
                         drift : SUBSET {"structure", "quality", "duplicate"}]]
    <3>1. [v1[c] EXCEPT !.status = "PUBLISHING"] \in [status : Manual!PubStatuses,
                         drift : SUBSET {"structure", "quality", "duplicate"}]
      <4>1. v1[c] \in [status : Manual!PubStatuses, drift : SUBSET {"structure", "quality", "duplicate"}]
        BY <1>2 DEF Manual!ManualShapes
      <4>2. "PUBLISHING" \in Manual!PubStatuses BY DEF Manual!PubStatuses
      <4> QED BY <4>1, <4>2
    <3> QED BY <1>1, <3>1 DEF Manual!ManualShapes
  <2> DEFINE B == [pub : Pubs, prov : Manual!Providers, late : BOOLEAN,
                   status : {"ACTIVE", "CONSUMED", "REVOKED", "EXPIRED"}]
  <2>2. v3' \in Seq(B)
    <3>1. v3 \in Seq(B) BY DEF Manual!ManualShapes
    <3>2. \A a \in B : [a EXCEPT !.status = "CONSUMED"] \in B OBVIOUS
    <3> DEFINE i == v5[o].auth
    <3>3. v3' = [v3 EXCEPT ![i] = [v3[i] EXCEPT !.status = "CONSUMED"]] BY <1>1
    <3> HIDE DEF B, i
    <3>4. DOMAIN v3 = 1..Len(v3) BY <3>1, LenProperties
    <3>5. CASE i \in 1..Len(v3)
      <4>1. v3[i] \in B BY <3>1, <3>5, ElementOfSeq
      <4> QED BY <3>1, <3>2, <3>3, <3>5, <4>1, ExceptSeq
    <3>6. CASE i \notin 1..Len(v3)
      <4>1. v3' = v3 BY <3>1, <3>3, <3>4, <3>6
      <4> QED BY <3>1, <4>1
    <3> QED BY <3>5, <3>6
  <2> DEFINE R == [pc : Manual!RequestStages, pub : Pubs \cup {Manual!Nil},
                   prov : Manual!Providers \cup {Manual!Nil}, auth : Nat, act : Nat,
                   try : Nat, answer : {Manual!Nil, "pin", "rejected", "lost", "error"}]
  <2>3. v5' \in [Requests -> R] /\ v5'[o].pub = c /\ v5'[o].prov = v5[o].prov
        /\ \A r \in Requests \ {o} : v5'[r] = v5[r]
    <3>1. v5 \in [Requests -> R] BY DEF Manual!ManualShapes
    <3>2. ASSUME NEW j, j = [v5[o] EXCEPT !.pc = "claimed", !.try = Len(v2[c]) + 1]
          PROVE  j \in R /\ j.pub = c /\ j.prov = v5[o].prov
      <4>1. v5[o] \in R BY <3>1
      <4>2. "claimed" \in Manual!RequestStages BY DEF Manual!RequestStages
      <4>3. PICK n \in Nat : n = Len(v2[c]) + 1 BY <1>2, <1>5
      <4> QED BY <3>2, <4>1, <4>2, <4>3
    <3>3. v5' = [v5 EXCEPT ![o] = [v5[o] EXCEPT !.pc = "claimed", !.try = Len(v2[c]) + 1]]
      BY <1>1
    <3> HIDE DEF R
    <3> QED BY <3>1, <3>2, <3>3
  <2>4. \A r \in Requests : v5'[r].pc # "idle" => v5'[r].pub \in Pubs /\ v5'[r].prov \in Manual!Providers
    BY <1>1, <2>3 DEF Manual!ManualShapes
  <2> QED BY <1>1, <1>4, <1>6, <2>1, <2>2, <2>3, <2>4 DEF Manual!ManualShapes
<1>8. Manual!Activations'
  <2>1. \A r \in Requests : v5'[r].act = v5[r].act
    BY <1>1 DEF Manual!ManualShapes
  <2>2. e.act \in 0..Len(v4) BY DEF Manual!Activations, e
  <2>3. ASSUME NEW p \in Pubs, NEW k \in DOMAIN v2'[p] PROVE v2'[p][k].act \in 0..Len(v4)
    <3>1. CASE p = c /\ k = Len(v2[c]) + 1 BY <1>3, <1>4, <2>2, <3>1
    <3>2. CASE p = c /\ k # Len(v2[c]) + 1
      <4>1. k \in 1..(Len(v2[c]) + 1) BY <1>2, <1>3, <1>4, <1>5, <3>2
      <4>2. k \in 1..Len(v2[c]) BY <1>2, <1>5, <3>2, <4>1
      <4> QED BY <1>3, <1>4, <1>5, <3>2, <4>2 DEF Manual!Activations
    <3>3. CASE p # c BY <1>4, <3>3 DEF Manual!Activations
    <3> QED BY <3>1, <3>2, <3>3
  <2> QED BY <1>6, <2>1, <2>3 DEF Manual!Activations
<1>9. Manual!ActivationSpent'
  <2> SUFFICES ASSUME NEW p \in Pubs, NEW k \in DOMAIN v2'[p], v2'[p][k].act # 0
               PROVE  v4'[v2'[p][k].act].status = "CONSUMED"
    BY DEF Manual!ActivationSpent
  <2>1. CASE p = c /\ k = Len(v2[c]) + 1
    <3>1. v2'[p][k] = e BY <1>3, <1>4, <2>1
    <3>2. e.act = v5[o].act BY DEF e
    <3>3. v5[o].act \in 0..Len(v4) BY DEF Manual!Activations
    <3>4. v5[o].act \in 1..Len(v4) BY <1>6, <3>1, <3>2, <3>3
    <3> QED BY <1>6, <3>1, <3>2, <3>4
  <2>2. CASE ~(p = c /\ k = Len(v2[c]) + 1)
    <3>1. k \in DOMAIN v2[p] /\ v2'[p][k] = v2[p][k]
      <4>1. CASE p = c
        <5>1. k \in 1..Len(v2[c]) BY <1>2, <1>4, <1>5, <2>2, <4>1
        <5> QED BY <1>3, <1>4, <1>5, <4>1, <5>1
      <4>2. CASE p # c BY <1>4, <4>2
      <4> QED BY <4>1, <4>2
    <3>2. v2[p][k].act \in 1..Len(v4) /\ v4[v2[p][k].act].status = "CONSUMED"
      BY <1>6, <3>1 DEF Manual!Activations, Manual!ActivationSpent
    <3> QED BY <1>6, <3>1, <3>2
  <2> QED BY <2>1, <2>2
<1> QED BY <1>1, <1>2, <1>4, <1>5, <1>7, <1>8, <1>9, ManualClaims

(* The steps on authorizations and activations, and on no more than the checks *)
(* a publication passes.                                                       *)
LEMMA ManualPaperwork ==
  ASSUME Manual!ManualInv,
         \/ \E p \in Pubs, prov \in Manual!Providers : Manual!create_authorization(p, prov)
         \/ \E p \in Pubs : Manual!activate(p) \/ Manual!Drift(p)
         \/ \E a \in DOMAIN v3 : Manual!AuthorizationLate(a)
         \/ \E n \in 1..MaxAuths : Manual!ReadRevocation("authorization", n)
         \/ \E n \in 1..MaxActs : Manual!ReadRevocation("activation", n)
         \/ Manual!revoke_authorization \/ Manual!RevokeActivation
         \/ UNCHANGED Manual!mvars
  PROVE  Manual!ManualInv'
<1> USE DEF Manual!ManualInv
<1> DEFINE A == [pub : Pubs, status : {"ACTIVE", "CONSUMED", "REVOKED"}]
           B == [pub : Pubs, prov : Manual!Providers, late : BOOLEAN,
                 status : {"ACTIVE", "CONSUMED", "REVOKED", "EXPIRED"}]
           P == [status : Manual!PubStatuses, drift : SUBSET {"structure", "quality", "duplicate"}]
<1>0. v1 \in [Pubs -> P] /\ v3 \in Seq(B) /\ v4 \in Seq(A)
  BY DEF Manual!ManualShapes
<1>1. /\ DOMAIN v3 = 1..Len(v3) /\ DOMAIN v4 = 1..Len(v4) /\ Len(v4) \in Nat
      /\ \A a \in 1..Len(v3) : v3[a] \in B
      /\ \A n \in 1..Len(v4) : v4[n] \in A
  <2> HIDE DEF A, B
  <2> QED BY <1>0, LenProperties, ElementOfSeq
<1>2. ASSUME v3' \in Seq(B), UNCHANGED <<v1, v2, v4, v5, v7, v8, v9>>
      PROVE  Manual!ManualInv'
  <2>1. Manual!ManualShapes' BY <1>2 DEF Manual!ManualShapes
  <2> QED BY <1>1, <1>2, <2>1, ManualPapers
<1>3. ASSUME v4' \in Seq(A), Len(v4') \in Nat, Len(v4) <= Len(v4'),
             \A n \in 1..Len(v4) : v4[n].status = "CONSUMED" => v4'[n].status = "CONSUMED",
             UNCHANGED <<v1, v2, v3, v5, v7, v8, v9>>
      PROVE  Manual!ManualInv'
  <2>1. Manual!ManualShapes' BY <1>3 DEF Manual!ManualShapes
  <2> QED BY <1>1, <1>3, <2>1, ManualPapers
<1>4. ASSUME NEW p \in Pubs, NEW prov \in Manual!Providers, Manual!create_authorization(p, prov)
      PROVE  Manual!ManualInv'
  <2> DEFINE e == [pub |-> p, prov |-> prov, status |-> "ACTIVE", late |-> FALSE]
             swept == [a \in DOMAIN v3 |->
                         IF v3[a].pub = p /\ v3[a].status = "ACTIVE" /\ v3[a].late
                         THEN [v3[a] EXCEPT !.status = "EXPIRED"] ELSE v3[a]]
  <2>1. v3' = Append(swept, e) /\ UNCHANGED <<v1, v2, v4, v5, v7, v8, v9>>
    BY <1>4 DEF Manual!create_authorization
  <2>2. e \in B OBVIOUS
  <2>3. \A a \in B : [a EXCEPT !.status = "EXPIRED"] \in B OBVIOUS
  <2> HIDE DEF B, e
  <2>4. swept \in [DOMAIN v3 -> B] BY <1>1, <2>3
  <2> HIDE DEF swept
  <2>5. swept \in Seq(B) BY <1>0, <2>4, LenProperties
  <2> QED BY <1>2, <2>1, <2>2, <2>5, AppendProperties
<1>5. ASSUME NEW p \in Pubs, Manual!activate(p)
      PROVE  Manual!ManualInv'
  <2> DEFINE e == [pub |-> p, status |-> "ACTIVE"]
  <2>1. v4' = Append(v4, e) /\ UNCHANGED <<v1, v2, v3, v5, v7, v8, v9>>
    BY <1>5 DEF Manual!activate
  <2>2. e \in A OBVIOUS
  <2>3. /\ Append(v4, e) \in Seq(A) /\ Len(Append(v4, e)) = Len(v4) + 1
        /\ \A n \in 1..Len(v4) : Append(v4, e)[n] = v4[n]
    <3> HIDE DEF A, e
    <3> QED BY <1>0, <2>2, AppendProperties
  <2> HIDE DEF A, e
  <2> QED BY <1>1, <1>3, <2>1, <2>3
<1>6. ASSUME NEW p \in Pubs, Manual!Drift(p)
      PROVE  Manual!ManualInv'
  <2>1. PICK d \in {{}, {"structure"}, {"quality"}, {"duplicate"}} :
          v1' = [v1 EXCEPT ![p].drift = d] /\ UNCHANGED <<v2, v3, v4, v5, v7, v8, v9>>
    BY <1>6 DEF Manual!Drift
  <2>2. v1' \in [Pubs -> P] /\ \A q \in Pubs : v1'[q].status = v1[q].status
    <3>1. v1[p] \in P BY <1>0
    <3>2. [v1[p] EXCEPT !.drift = d] \in P /\ [v1[p] EXCEPT !.drift = d].status = v1[p].status
      BY <3>1
    <3>3. v1' = [v1 EXCEPT ![p] = [v1[p] EXCEPT !.drift = d]] BY <2>1
    <3> HIDE DEF P
    <3> QED BY <1>0, <3>2, <3>3
  <2>3. Manual!ManualShapes' BY <2>1, <2>2 DEF Manual!ManualShapes
  <2> QED BY <1>1, <2>1, <2>2, <2>3, ManualPapers
<1>7. ASSUME NEW a \in 1..Len(v3), NEW e \in B, v3' = [v3 EXCEPT ![a] = e],
             UNCHANGED <<v1, v2, v4, v5, v7, v8, v9>>
      PROVE  Manual!ManualInv'
  <2>1. v3' \in Seq(B)
    <3> HIDE DEF B
    <3> QED BY <1>0, <1>7, ExceptSeq
  <2> QED BY <1>2, <1>7, <2>1
<1>8. ASSUME NEW a \in DOMAIN v3, Manual!AuthorizationLate(a)
      PROVE  Manual!ManualInv'
  <2>1. v3[a] \in B /\ a \in 1..Len(v3) BY <1>1
  <2>2. [v3[a] EXCEPT !.late = TRUE] \in B BY <2>1
  <2>3. v3' = [v3 EXCEPT ![a] = [v3[a] EXCEPT !.late = TRUE]]
        /\ UNCHANGED <<v1, v2, v4, v5, v7, v8, v9>>
    BY <1>8 DEF Manual!AuthorizationLate
  <2> HIDE DEF B
  <2> QED BY <1>7, <2>1, <2>2, <2>3
<1>9. CASE Manual!revoke_authorization
  <2> DEFINE a == v6.n
  <2>1. v3' = [v3 EXCEPT ![a] = [v3[a] EXCEPT !.status = "REVOKED"]]
        /\ UNCHANGED <<v1, v2, v4, v5, v7, v8, v9>>
    BY <1>9 DEF Manual!revoke_authorization
  <2>2. CASE a \in 1..Len(v3)
    <3>1. v3[a] \in B BY <1>1, <2>2
    <3>2. [v3[a] EXCEPT !.status = "REVOKED"] \in B BY <3>1
    <3> HIDE DEF B, a
    <3> QED BY <1>7, <2>1, <2>2, <3>2
  <2>3. CASE a \notin 1..Len(v3)
    <3>1. v3' = v3 BY <1>0, <1>1, <2>1, <2>3
    <3> QED BY <1>0, <1>2, <2>1, <3>1
  <2> QED BY <2>2, <2>3
<1>10. CASE Manual!RevokeActivation
  <2> DEFINE n == v6.n
             e == [v4[n] EXCEPT !.status = IF v4[n].status = "ACTIVE" THEN "REVOKED" ELSE v4[n].status]
  <2>1. v4' = [v4 EXCEPT ![n] = e] /\ UNCHANGED <<v1, v2, v3, v5, v7, v8, v9>>
    BY <1>10 DEF Manual!RevokeActivation
  <2>2. CASE n \in 1..Len(v4)
    <3>1. v4[n] \in A BY <1>1, <2>2
    <3>2. e \in A /\ (v4[n].status = "CONSUMED" => e.status = "CONSUMED") BY <3>1
    <3> HIDE DEF A, e, n
    <3>3. /\ v4' \in Seq(A) /\ Len(v4') = Len(v4)
          /\ \A m \in 1..Len(v4) : v4'[m] = IF m = n THEN e ELSE v4[m]
      BY <1>0, <2>1, <2>2, <3>2, ExceptSeq
    <3> QED BY <1>1, <1>3, <2>1, <3>2, <3>3
  <2>3. CASE n \notin 1..Len(v4)
    <3>1. v4' = v4 BY <1>0, <1>1, <2>1, <2>3
    <3>2. UNCHANGED <<v1, v2, v3, v4, v5, v7, v8, v9>> BY <2>1, <3>1
    <3> QED BY <1>0, <1>2, <3>2
  <2> QED BY <2>2, <2>3
<1>11. ASSUME UNCHANGED <<v1, v2, v3, v4, v5, v7, v8, v9>>
       PROVE  Manual!ManualInv'
  BY <1>0, <1>2, <1>11
<1> QED BY <1>4, <1>5, <1>6, <1>8, <1>9, <1>10, <1>11 DEF Manual!ReadRevocation, Manual!mvars

(* The publication's row, outside its requests: a reschedule or a cancellation,*)
(* and what becomes of an attempt left unknown.                                *)
LEMMA ManualRows ==
  ASSUME Manual!ManualInv,
         \/ \E p \in Pubs, op \in {"schedule", "cancel"} : Manual!ReadEdit(p, op)
         \/ Manual!WriteEdit
         \/ \E p \in Pubs : \/ Manual!PostFizzles(p) \/ Manual!ReconcileOperation(p)
                            \/ Manual!reconcile(p)
  PROVE  Manual!ManualInv'
<1> USE DEF Manual!ManualInv
<1> DEFINE P == [status : Manual!PubStatuses, drift : SUBSET {"structure", "quality", "duplicate"}]
<1>0. /\ v1 \in [Pubs -> P] /\ v2 \in [Pubs -> Seq(Manual!Tries)] /\ v9 \in [Pubs -> BOOLEAN]
      /\ \A st \in {"SCHEDULED", "CANCELLED", "PUBLISHED", "PUBLISH_FAILED"} : st \in Manual!PubStatuses
  BY DEF Manual!ManualShapes, Manual!PubStatuses
<1>1. \A p \in Pubs : Len(v2[p]) \in Nat /\ DOMAIN v2[p] = 1..Len(v2[p])
  BY <1>0, LenProperties
<1>2. ASSUME NEW c \in Pubs, NEW st \in {"SCHEDULED", "CANCELLED", "PUBLISHED", "PUBLISH_FAILED"},
             v1' = [v1 EXCEPT ![c].status = st], v2' \in [Pubs -> Seq(Manual!Tries)],
             \A p \in Pubs : Len(v2[p])' = Len(v2[p]),
             \A p \in Pubs : \A i \in 1..Len(v2[p]) : v2'[p][i].act = v2[p][i].act,
             UNCHANGED <<v3, v4, v5, v8, v9>>,
             \A p \in Pubs : Manual!ToBeScheduled(p)' => Manual!ToBeScheduled(p),
             Len(v2[c]) = 0 => st \in {"SCHEDULED", "CANCELLED"},
             v9[c] => st \notin {"SCHEDULED", "PUBLISH_FAILED"},
             \A r \in Requests : Manual!Owns(r, c) /\ v5[r].try = 1 => st = "CANCELLED"
      PROVE  Manual!ManualInv'
  <2>1. v1' \in [Pubs -> P] /\ v1'[c].status = st /\ \A p \in Pubs \ {c} : v1'[p] = v1[p]
    <3>1. v1[c] \in P BY <1>0
    <3>2. st \in Manual!PubStatuses BY <1>0
    <3>3. [v1[c] EXCEPT !.status = st] \in P /\ [v1[c] EXCEPT !.status = st].status = st
      BY <3>1, <3>2
    <3>4. v1' = [v1 EXCEPT ![c] = [v1[c] EXCEPT !.status = st]] BY <1>2
    <3> HIDE DEF P
    <3> QED BY <1>0, <3>3, <3>4
  <2>2. Manual!ManualShapes' BY <1>2, <2>1 DEF Manual!ManualShapes
  <2>3. \A p \in Pubs : DOMAIN v2'[p] = 1..Len(v2[p])
    BY <1>2, LenProperties
  <2>4. Manual!Activations' /\ Manual!ActivationSpent'
    <3>1. \A p \in Pubs : \A i \in DOMAIN v2'[p] :
            i \in DOMAIN v2[p] /\ v2'[p][i].act = v2[p][i].act
      BY <1>1, <1>2, <2>3
    <3>2. Manual!Activations' BY <1>2, <3>1 DEF Manual!Activations
    <3>3. Manual!ActivationSpent' BY SMTT(30), <1>2, <3>1 DEF Manual!ActivationSpent
    <3> QED BY <3>2, <3>3
  <2>5. \A r \in Requests, p \in Pubs : Manual!Owns(r, p)' <=> Manual!Owns(r, p)
    BY <1>2 DEF Manual!Owns
  <2> QED BY <1>2, <2>1, <2>2, <2>4, <2>5, ManualQuiet
<1>3. ASSUME NEW p \in Pubs, NEW op \in {"schedule", "cancel"}, Manual!ReadEdit(p, op)
      PROVE  Manual!ManualInv'
  <2>1. /\ op = "schedule" => v1[p].status = "PUBLISH_FAILED"
        /\ v7' = [pc |-> "read", op |-> op, pub |-> p] /\ UNCHANGED <<v1, v2, v3, v4, v5, v8, v9>>
    BY <1>3 DEF Manual!ReadEdit
  <2>2. \A q \in Pubs : Manual!ToBeScheduled(q)' => v1[q].status = "PUBLISH_FAILED"
    BY <2>1 DEF Manual!ToBeScheduled
  <2>3. Manual!ManualShapes' BY <2>1 DEF Manual!ManualShapes
  <2>4. Manual!Activations' /\ Manual!ActivationSpent'
    BY <2>1 DEF Manual!Activations, Manual!ActivationSpent
  <2>5. \A r \in Requests, q \in Pubs : Manual!Owns(r, q)' <=> Manual!Owns(r, q)
    BY <2>1 DEF Manual!Owns
  <2> QED BY <2>1, <2>2, <2>3, <2>4, <2>5, ManualQuiet
<1>4. CASE Manual!WriteEdit
  <2> DEFINE c == v7.pub
             st == IF v7.op = "schedule" THEN "SCHEDULED" ELSE "CANCELLED"
  <2>1. /\ v7.pc = "read" /\ v1' = [v1 EXCEPT ![c].status = st] /\ v7' = Manual!IdleEdit
        /\ UNCHANGED <<v2, v3, v4, v5, v8, v9>>
    BY <1>4 DEF Manual!WriteEdit
  <2>2. \A p \in Pubs : ~Manual!ToBeScheduled(p)'
    BY <2>1 DEF Manual!ToBeScheduled, Manual!IdleEdit
  <2>3. st = "SCHEDULED" /\ c \in Pubs => Manual!ToBeScheduled(c)
    BY <2>1 DEF Manual!ToBeScheduled
  <2>4. st \in {"SCHEDULED", "CANCELLED"} OBVIOUS
  <2> HIDE DEF st
  <2>5. CASE c \in Pubs
    <3>1. v9[c] => st = "CANCELLED" BY <2>3, <2>4, <2>5 DEF Manual!PinShutsTheRow
    <3>2. \A r \in Requests : Manual!Owns(r, c) /\ v5[r].try = 1 => st = "CANCELLED"
      BY <2>3, <2>4, <2>5 DEF Manual!FirstAlone
    <3>3. \A p \in Pubs : \A i \in 1..Len(v2[p]) : v2'[p][i].act = v2[p][i].act BY <2>1
    <3>4. v2' \in [Pubs -> Seq(Manual!Tries)] BY <1>0, <2>1
    <3>5. \A p \in Pubs : Len(v2[p])' = Len(v2[p]) BY <2>1
    <3> HIDE DEF c
    <3> QED BY <1>2, <2>1, <2>2, <2>4, <2>5, <3>1, <3>2, <3>3, <3>4, <3>5
  <2>6. CASE c \notin Pubs
    <3>1. v1' = v1 BY <1>0, <2>1, <2>6
    <3>2. Manual!ManualShapes' BY <2>1, <3>1 DEF Manual!ManualShapes
    <3>3. Manual!Activations' /\ Manual!ActivationSpent'
      BY <2>1 DEF Manual!Activations, Manual!ActivationSpent
    <3>4. \A r \in Requests, p \in Pubs : Manual!Owns(r, p)' <=> Manual!Owns(r, p)
      BY <2>1 DEF Manual!Owns
    <3> QED BY <2>1, <2>2, <3>1, <3>2, <3>3, <3>4, ManualQuiet
  <2> QED BY <2>5, <2>6
<1>5. ASSUME NEW p \in Pubs, Manual!PostFizzles(p)
      PROVE  Manual!ManualInv'
  <2>1. v9' = [v9 EXCEPT ![p] = FALSE] /\ UNCHANGED <<v1, v2, v3, v4, v5, v7, v8>>
    BY <1>5 DEF Manual!PostFizzles
  <2>2. v9' \in [Pubs -> BOOLEAN] /\ \A q \in Pubs : v9'[q] => v9[q]
    BY <1>0, <2>1
  <2>3. Manual!ManualShapes' BY <2>1, <2>2 DEF Manual!ManualShapes
  <2>4. Manual!Activations' /\ Manual!ActivationSpent'
    BY <2>1 DEF Manual!Activations, Manual!ActivationSpent
  <2>5. \A r \in Requests, q \in Pubs : Manual!Owns(r, q)' <=> Manual!Owns(r, q)
    BY <2>1 DEF Manual!Owns
  <2>6. \A q \in Pubs : Manual!ToBeScheduled(q)' <=> Manual!ToBeScheduled(q)
    BY <2>1 DEF Manual!ToBeScheduled
  <2> QED BY <2>1, <2>2, <2>3, <2>4, <2>5, <2>6, ManualQuiet
<1>6. ASSUME NEW c \in Pubs, v1[c].status = "PUBLISH_UNKNOWN"
      PROVE  /\ Len(v2[c]) # 0
             /\ \A r \in Requests : ~(Manual!Owns(r, c) /\ v5[r].try = 1)
  BY <1>6 DEF Manual!BeforeFirst, Manual!FirstAlone
<1>7. ASSUME UNCHANGED v7
      PROVE  \A q \in Pubs : Manual!ToBeScheduled(q)' <=> Manual!ToBeScheduled(q)
  BY <1>7 DEF Manual!ToBeScheduled
<1>8. ASSUME NEW p \in Pubs, Manual!ReconcileOperation(p)
      PROVE  Manual!ManualInv'
  <2> DEFINE st == IF v9[p] THEN "PUBLISHED" ELSE "PUBLISH_FAILED"
             ts == IF v9[p] THEN "SUCCEEDED" ELSE "FAILED"
  <2>1. PICK k \in DOMAIN v2[p] :
          /\ v1[p].status = "PUBLISH_UNKNOWN" /\ v1' = [v1 EXCEPT ![p].status = st]
          /\ v2' = [v2 EXCEPT ![p][k].status = ts] /\ UNCHANGED <<v3, v4, v5, v7, v8, v9>>
    BY <1>8 DEF Manual!ReconcileOperation
  <2>2. /\ st \in {"PUBLISHED", "PUBLISH_FAILED"} /\ ts \in {"SUCCEEDED", "FAILED"}
        /\ v9[p] => st # "PUBLISH_FAILED" /\ k \in 1..Len(v2[p])
    BY <1>1
  <2>3. k \in 1..Len(v2[p]) BY <1>1
  <2> HIDE DEF st, ts
  <2>4. /\ v2' \in [Pubs -> Seq(Manual!Tries)]
        /\ \A q \in Pubs : Len(v2[q])' = Len(v2[q])
        /\ \A q \in Pubs : \A i \in 1..Len(v2[q]) : v2'[q][i].act = v2[q][i].act
    BY <1>0, <2>1, <2>2, <2>3, ManualTryWritten
  <2> QED BY <1>2, <1>6, <1>7, <2>1, <2>2, <2>4
<1>9. ASSUME NEW p \in Pubs, Manual!reconcile(p)
      PROVE  Manual!ManualInv'
  <2>1. /\ v1[p].status = "PUBLISH_UNKNOWN" /\ UNCHANGED <<v2, v3, v4, v5, v7, v8, v9>>
        /\ \E st \in {"PUBLISHED", "CANCELLED"} : v1' = [v1 EXCEPT ![p].status = st]
    BY <1>9 DEF Manual!reconcile
  <2>2. PICK st \in {"PUBLISHED", "CANCELLED"} : v1' = [v1 EXCEPT ![p].status = st]
    BY <2>1
  <2>3. v2' \in [Pubs -> Seq(Manual!Tries)] BY <1>0, <2>1
  <2>4. \A q \in Pubs : Len(v2[q])' = Len(v2[q]) BY <2>1
  <2>5. \A q \in Pubs : \A i \in 1..Len(v2[q]) : v2'[q][i].act = v2[q][i].act BY <2>1
  <2> QED BY <1>2, <1>6, <1>7, <2>1, <2>2, <2>3, <2>4, <2>5
<1> QED BY <1>3, <1>4, <1>5, <1>8, <1>9

(* The requests: towards a claim, past its checks, or gone.                    *)
LEMMA ManualRequests ==
  ASSUME Manual!ManualInv, NEW o \in Requests,
         \/ \E p \in Pubs : Manual!Validate(o, p) \/ Manual!BuildEvidence(o, p)
         \/ Manual!Gate(o) \/ Manual!RequestDies(o) \/ Manual!PostClaim(o)
         \/ Manual!atomic_authorized_claim(o)
  PROVE  Manual!ManualInv'
<1> USE DEF Manual!ManualInv
<1> DEFINE J == [pc : {"idle", "evidence", "validated"}, pub : Pubs \cup {Manual!Nil},
                 prov : Manual!Providers \cup {Manual!Nil}, auth : Nat, act : 0..Len(v4), try : Nat,
                 answer : {Manual!Nil, "pin", "rejected", "lost", "error"}]
           R == [pc : Manual!RequestStages, pub : Pubs \cup {Manual!Nil},
                 prov : Manual!Providers \cup {Manual!Nil}, auth : Nat, act : Nat,
                 try : Nat, answer : {Manual!Nil, "pin", "rejected", "lost", "error"}]
           B == [pub : Pubs, prov : Manual!Providers, late : BOOLEAN,
                 status : {"ACTIVE", "CONSUMED", "REVOKED", "EXPIRED"}]
           A == [pub : Pubs, status : {"ACTIVE", "CONSUMED", "REVOKED"}]
<1>0. /\ v5 \in [Requests -> R] /\ v5[o] \in R
      /\ \A r \in Requests : v5[r].pc # "idle" => v5[r].pub \in Pubs /\ v5[r].prov \in Manual!Providers
      /\ v3 \in Seq(B) /\ v4 \in Seq(A)
  BY DEF Manual!ManualShapes
<1> HIDE DEF A, B
<1>1. DOMAIN v3 = 1..Len(v3) /\ DOMAIN v4 = 1..Len(v4) /\ Len(v4) \in Nat /\ Len(v3) \in Nat
  BY <1>0, LenProperties
<1>2. /\ \A p \in Pubs : Manual!active_authorization(p) \in Nat
      /\ Manual!active_activation \in 0..Len(v4)
  BY <1>1 DEF Manual!active_authorization, Manual!active_activation
<1>3. Manual!IdleReq \in J /\ Manual!IdleReq.pc = "idle"
  BY <1>1 DEF Manual!IdleReq
<1>4. Manual!Nil = "none" /\ "buffer" \in Manual!Providers /\ "pinterest_direct" \in Manual!Providers
  BY DEF Manual!Nil, Manual!Providers
<1>5. ASSUME Manual!Leave(o), UNCHANGED <<v1, v2, v3, v4, v7, v8, v9>>
      PROVE  Manual!ManualInv'
  BY <1>3, <1>5, ManualVisits DEF Manual!Leave
<1>6. ASSUME NEW p \in Pubs, Manual!Validate(o, p)
      PROVE  Manual!ManualInv'
  <2> DEFINE a == Manual!active_authorization(p)
             j == [Manual!IdleReq EXCEPT !.pc = "validated", !.pub = p,
                                         !.prov = "pinterest_direct", !.auth = a]
  <2>1. v5' = [v5 EXCEPT ![o] = j] /\ UNCHANGED <<v1, v2, v3, v4, v7, v8, v9>>
    BY <1>6 DEF Manual!Validate
  <2>2. a \in Nat BY <1>2
  <2> HIDE DEF a
  <2>3. j \in J /\ j.pub = p /\ j.prov = "pinterest_direct"
    BY <1>3, <1>4, <2>2 DEF Manual!IdleReq
  <2> QED BY <1>4, <2>1, <2>3, ManualVisits
<1>7. ASSUME NEW p \in Pubs, Manual!BuildEvidence(o, p)
      PROVE  Manual!ManualInv'
  <2> DEFINE j == [Manual!IdleReq EXCEPT !.pc = "evidence", !.pub = p, !.prov = "buffer"]
  <2>1. v5' = [v5 EXCEPT ![o] = j] /\ UNCHANGED <<v1, v2, v3, v4, v7, v8, v9>>
    BY <1>7 DEF Manual!BuildEvidence
  <2>2. j \in J /\ j.pub = p /\ j.prov = "buffer"
    BY <1>3, <1>4 DEF Manual!IdleReq
  <2> QED BY <1>4, <2>1, <2>2, ManualVisits
<1>8. CASE Manual!Gate(o)
  <2> DEFINE a == Manual!active_authorization(v5[o].pub)
             n == Manual!active_activation
             j == [v5[o] EXCEPT !.pc = "validated", !.auth = a, !.act = n]
  <2>1. /\ v5[o].pc = "evidence" /\ UNCHANGED <<v1, v2, v3, v4, v7, v8, v9>>
        /\ v5' = [v5 EXCEPT ![o] = j] \/ Manual!Leave(o)
    BY <1>8 DEF Manual!Gate, Manual!Leave
  <2>2. v5[o].pub \in Pubs /\ v5[o].prov \in Manual!Providers BY <1>0, <2>1
  <2>3. a \in Nat /\ n \in 0..Len(v4) BY <1>2, <2>2
  <2> HIDE DEF a, n
  <2>4. j \in J /\ j.pub = v5[o].pub /\ j.prov = v5[o].prov
    BY <1>0, <2>3
  <2> QED BY <1>5, <2>1, <2>2, <2>4, ManualVisits
<1>9. CASE Manual!RequestDies(o)
  BY <1>5, <1>9 DEF Manual!RequestDies
<1>10. CASE Manual!atomic_authorized_claim(o)
  <2>1. CASE Manual!Leave(o)
    <3>1. v5'[o].pc = "idle" BY <1>0, <1>3, <2>1 DEF Manual!Leave
    <3>2. v5' # [v5 EXCEPT ![o].pc = "claimed", ![o].try = Len(v2[v5[o].pub]) + 1]
      BY <1>0, <3>1
    <3>3. UNCHANGED <<v1, v2, v3, v4, v7, v8, v9>>
      BY <1>10, <3>2 DEF Manual!atomic_authorized_claim
    <3> QED BY <1>5, <2>1, <3>3
  <2> QED BY <1>10, <2>1, ManualWins
<1>11. CASE Manual!PostClaim(o) /\ ~Manual!Leave(o)
  <2> DEFINE c == v5[o].pub
  <2>1. PICK stage \in {"verifying", "posting"} :
          /\ v5[o].pc \in {"claimed", "verifying"} /\ Manual!validate_pilot(c, v5[o].try)
          /\ v5' = [v5 EXCEPT ![o].pc = stage] /\ UNCHANGED <<v1, v2, v3, v4, v7, v8, v9>>
    BY <1>11 DEF Manual!PostClaim, Manual!Go
  <2>2. v5[o].try \in 1..Len(v2[c])
    BY <1>0, <2>1 DEF Manual!OwnAttempts, Manual!Owns
  <2>3. v5[o].try = 1 BY <2>1, <2>2 DEF Manual!validate_pilot
  <2>4. v5' \in [Requests -> R] /\ v5'[o].pc = stage /\ v5'[o].pub = c /\ v5'[o].try = 1
        /\ v5'[o].prov = v5[o].prov /\ v5'[o].act = v5[o].act /\ v5'[o].answer = v5[o].answer
        /\ \A r \in Requests \ {o} : v5'[r] = v5[r]
    <3>1. ASSUME NEW j, j = [v5[o] EXCEPT !.pc = stage]
          PROVE  /\ j \in R /\ j.pc = stage /\ j.pub = c /\ j.try = 1
                 /\ j.prov = v5[o].prov /\ j.act = v5[o].act /\ j.answer = v5[o].answer
      BY <1>0, <2>3, <3>1 DEF Manual!RequestStages
    <3>2. v5' = [v5 EXCEPT ![o] = [v5[o] EXCEPT !.pc = stage]] BY <2>1
    <3> HIDE DEF R, c
    <3> QED BY <1>0, <3>1, <3>2
  <2>5. Manual!ManualShapes'
    <3>1. \A r \in Requests : v5'[r].pc # "idle" => v5'[r].pub \in Pubs /\ v5'[r].prov \in Manual!Providers
      BY <1>0, <2>1, <2>4
    <3> QED BY <2>1, <2>4, <3>1 DEF Manual!ManualShapes
  <2>6. Manual!Activations' /\ Manual!ActivationSpent'
    BY <2>1, <2>4 DEF Manual!Activations, Manual!ActivationSpent
  <2>7. \A r \in Requests, p \in Pubs : Manual!Owns(r, p)' <=> Manual!Owns(r, p)
    BY <2>1, <2>4 DEF Manual!Owns
  <2>8. \A p \in Pubs : Manual!ToBeScheduled(p)' <=> Manual!ToBeScheduled(p)
    BY <2>1 DEF Manual!ToBeScheduled
  <2> QED BY <2>1, <2>3, <2>4, <2>5, <2>6, <2>7, <2>8, ManualQuiet
<1> QED BY <1>6, <1>7, <1>8, <1>9, <1>10, <1>11, ManualRecords

LEMMA ManualStep ==
  ASSUME Manual!ManualInv, Manual!MDNext \/ UNCHANGED Manual!mvars
  PROVE  Manual!ManualInv'
BY ManualPaperwork, ManualRows, ManualRequests, ManualRecords, ManualCalls DEF Manual!MDNext

LEMMA ManualFocus ==
  ASSUME [ServicesNext]_allVars, focus' = "manual"
  PROVE  focus = "manual" /\ (Manual!MDNext \/ UNCHANGED Manual!mvars)
BY DEF ServicesNext, allVars, slots, Only, Manual!mvars

LEMMA ManualHolds == ServicesSpec => [](focus = "manual" => Manual!ManualInv)
<1> DEFINE I == focus = "manual" => Manual!ManualInv
<1>1. ServicesInit => I
  BY ManualStart DEF ServicesInit
<1>2. I /\ [ServicesNext]_allVars => I'
  BY ManualStep, ManualFocus
<1> QED BY <1>1, <1>2, PTL DEF ServicesSpec

(* However requests interleave, die, are rescheduled and authorized again,     *)
(* the two manual routes hand a publication to a provider at most once: the    *)
(* pilot lets only a first attempt past its checks.                            *)
THEOREM ManualPostsOnce == ServicesSpec => []AtMostOnePost
<1>1. (focus = "manual" => Manual!ManualInv) => AtMostOnePost
  <2>1. ASSUME Manual!ManualInv, NEW p \in Pubs PROVE v8[p] <= 1
    <3>1. v8[p] \in {0, 1} BY <2>1 DEF Manual!ManualInv, Manual!ManualShapes
    <3> QED BY <3>1
  <2> QED BY <2>1 DEF AtMostOnePost, Manual!AtMostOnePost
<1> QED BY <1>1, ManualHolds, PTL

(* A publication in PUBLISH_FAILED, from where an operator may reschedule      *)
(* it, has no pin and will have none: only an attempt that was never sent, was *)
(* refused or is found to have left no pin is recorded as a failure.           *)
THEOREM FailuresHaveNoPin == ServicesSpec => []FailedMeansNoPin
<1>1. (focus = "manual" => Manual!ManualInv) => FailedMeansNoPin
  BY DEF FailedMeansNoPin, Manual!FailedMeansNoPin, Manual!ManualInv, Manual!PinShutsTheRow
<1> QED BY <1>1, ManualHolds, PTL

(* Consuming an activation and revoking it have one winner: the activation     *)
(* an attempt was made under stays CONSUMED.                                   *)
THEOREM ActivationsAreSpent == ServicesSpec => []ActivationSpent
<1>1. (focus = "manual" => Manual!ManualInv) => ActivationSpent
  BY DEF ActivationSpent, Manual!ManualInv
<1> QED BY <1>1, ManualHolds, PTL

-----------------------------------------------------------------------------
(* CertifiedLive.                                                              *)

(* In Certified: lock is v2, run v3, pub v4, try v6, req v8, calls v9, pin v10. *)
CertifiedActors == Requests \cup {Certified!Operator}

LEMMA CMoved ==
  ASSUME Certified!Shapes, NEW a \in CertifiedActors, NEW p \in Certified!Places, Certified!GoTo(a, p)
  PROVE  /\ v8' \in Certified!Rows
         /\ \A b \in CertifiedActors :
              /\ v8'[b].pc = IF b = a THEN p ELSE v8[b].pc
              /\ v8'[b].unknown = v8[b].unknown
  BY DEF Certified!Shapes, Certified!GoTo, CertifiedActors, Certified!Rows

(* A step of an actor that is not about to call after it: it may resolve the    *)
(* publication when nobody else holds the row for a call.                      *)
LEMMA CSettles ==
  ASSUME Certified!CertifiedInv, NEW a \in CertifiedActors, v8' \in Certified!Rows,
         \A b \in CertifiedActors \ {a} : v8'[b].pc = v8[b].pc /\ v8'[b].unknown = v8[b].unknown,
         v8'[a].pc \notin (Certified!Dispatches \ {"reconciling"}) \cup {"writing"},
         v8'[a].pc = "reconciling" => v8[a].pc \in Certified!Dispatches,
         v2' = v2 \/ v2 = a, v3' \in Certified!RunRows, v6' \in Certified!TryRows,
         UNCHANGED <<v4, v6>> \/ \A b \in Requests \ {a} : v8[b].pc # "locked",
         v4' = v4 \/ v4' \notin {"SCHEDULED", "CANCELLED"}, v6'.marked = v6.marked,
         v4' = "PUBLISHING" <=> v6'.status = "STARTED", v4' = "PUBLISH_FAILED" => ~v10,
         UNCHANGED <<v9, v10>>
  PROVE  Certified!CertifiedInv'
<1> USE DEF CertifiedActors, Certified!CertifiedInv, Certified!Rows
<1>1. Certified!Shapes' /\ Certified!PinIsMarked' /\ Certified!CertifiedPostOnce'
  BY DEF Certified!Shapes, Certified!PinIsMarked, Certified!CertifiedPostOnce
<1>2. Certified!Unclaimed' /\ Certified!DispatchesAlone' /\ Certified!NotYetCalled'
  BY DEF Certified!Unclaimed, Certified!DispatchesAlone, Certified!NotYetCalled,
         Certified!Dispatches, Certified!Uncalled
<1>3. Certified!CallerLocks' /\ Certified!RecovererLocks'
  BY DEF Certified!CallerLocks, Certified!RecovererLocks, Certified!Claimed, Certified!At,
         Certified!Dispatches, Certified!Uncalled
<1> QED BY <1>1, <1>2, <1>3

LEMMA CQuietSteps ==
  ASSUME Certified!CertifiedInv, NEW r \in Requests,
         \/ Certified!run_once_live(r) \/ Certified!Refuse(r) \/ Certified!BeginRun(r)
         \/ Certified!Admit(r) \/ Certified!Skip(r) \/ Certified!Pause(r) \/ Certified!Finish(r)
         \/ Certified!Exception(r) \/ Certified!RunFailed(r) \/ Certified!Cancelled(r)
         \/ Certified!Die(r) \/ Certified!Disarm(r)
  PROVE  Certified!CertifiedInv'
<1> r \in CertifiedActors BY DEF CertifiedActors
<1>0. Certified!Shapes BY DEF Certified!CertifiedInv
<1>1. PICK p \in {"checked", "done", "running", "disarm", "admitted", "finish", "raised",
                  "recover"} : Certified!GoTo(r, p)
  BY DEF Certified!run_once_live, Certified!Refuse, Certified!BeginRun, Certified!Admit,
         Certified!Skip, Certified!Pause, Certified!Finish, Certified!Exception,
         Certified!RunFailed, Certified!Cancelled, Certified!Die, Certified!Disarm
<1>2. UNCHANGED <<v4, v6, v9, v10>> /\ (v2' = v2 \/ v2 = r)
  BY DEF Certified!run_once_live, Certified!Refuse, Certified!BeginRun, Certified!Admit,
         Certified!Skip, Certified!Pause, Certified!Finish, Certified!Exception,
         Certified!RunFailed, Certified!Cancelled, Certified!Die, Certified!Disarm,
         Certified!Unlocked, Certified!world
<1>3. \/ UNCHANGED v3 \/ v3' = [v3 EXCEPT !.stale = FALSE]
      \/ Certified!FinishRun(r, "SUCCEEDED") \/ Certified!FinishRun(r, "FAILED")
  BY DEF Certified!run_once_live, Certified!Refuse, Certified!BeginRun, Certified!Admit,
         Certified!Skip, Certified!Pause, Certified!Finish, Certified!Exception,
         Certified!RunFailed, Certified!Cancelled, Certified!Die, Certified!Disarm
<1>4. v3' \in Certified!RunRows
  BY <1>0, <1>3 DEF Certified!FinishRun, Certified!Shapes, Certified!RunRows
<1>5. p \in Certified!Places /\ p \notin Certified!Dispatches \cup {"writing"}
  BY <1>1 DEF Certified!Places, Certified!Dispatches, Certified!Uncalled
<1>6. /\ v8' \in Certified!Rows
      /\ v8'[r].pc = p
      /\ \A b \in CertifiedActors \ {r} : v8'[b].pc = v8[b].pc /\ v8'[b].unknown = v8[b].unknown
  BY <1>0, <1>1, <1>5, CMoved
<1>7. v6 \in Certified!TryRows /\ (v4 = "PUBLISHING" <=> v6.status = "STARTED")
      /\ (v4 = "PUBLISH_FAILED" => ~v10) /\ p # "reconciling"
  BY <1>5 DEF Certified!CertifiedInv, Certified!Shapes, Certified!CertifiedPostOnce,
              Certified!Dispatches
<1> QED BY <1>2, <1>4, <1>5, <1>6, <1>7, CSettles

(* The steps that leave the dispatch with an outcome, or without one.          *)
LEMMA CResolves ==
  ASSUME Certified!CertifiedInv, NEW r \in Requests,
         \/ Certified!PreFail(r) \/ Certified!LockRefused(r) \/ Certified!Persist(r)
         \/ Certified!Reconcile(r)
  PROVE  Certified!CertifiedInv'
<1> r \in CertifiedActors BY DEF CertifiedActors
<1>0. Certified!Shapes /\ Certified!CertifiedPostOnce BY DEF Certified!CertifiedInv
<1>1. v8[r].pc \in Certified!Dispatches
  BY DEF Certified!PreFail, Certified!LockRefused, Certified!Persist, Certified!Reconcile,
         Certified!At, Certified!Answered, Certified!Dispatches, Certified!Uncalled
<1>2. \A b \in Requests \ {r} : v8[b].pc # "locked"
  BY <1>1 DEF Certified!CertifiedInv, Certified!DispatchesAlone, Certified!Dispatches,
              Certified!Uncalled
<1>3. PICK p \in {"finish", "raised", "pausing", "reconciling"} : Certified!GoTo(r, p)
  BY DEF Certified!PreFail, Certified!LockRefused, Certified!Persist, Certified!Reconcile,
         Certified!Claimed, Certified!Answered
<1>4. p \in Certified!Places /\ p \notin (Certified!Dispatches \ {"reconciling"}) \cup {"writing"}
  BY <1>3 DEF Certified!Places, Certified!Dispatches, Certified!Uncalled
<1>5. /\ v8' \in Certified!Rows /\ v8'[r].pc = p
      /\ \A b \in CertifiedActors \ {r} : v8'[b].pc = v8[b].pc /\ v8'[b].unknown = v8[b].unknown
  BY <1>0, <1>3, <1>4, CMoved
<1>6. /\ UNCHANGED <<v3, v9, v10>> /\ (v2' = v2 \/ v2 = r)
      /\ v3' \in Certified!RunRows
  BY <1>0 DEF Certified!PreFail, Certified!LockRefused, Certified!Persist, Certified!Reconcile,
              Certified!Unlocked, Certified!world, Certified!Shapes
<1>7. v8[r].pc = "prefail" \/ v8[r].pc = "refused" => ~v10
  BY DEF Certified!CertifiedInv, Certified!NotYetCalled, Certified!Uncalled
<1>8. /\ v6' \in Certified!TryRows /\ v6'.marked = v6.marked
      /\ v4' = v4 \/ v4' \notin {"SCHEDULED", "CANCELLED"}
      /\ v4' = "PUBLISHING" <=> v6'.status = "STARTED"
      /\ v4' = "PUBLISH_FAILED" => ~v10
  <2>1. CASE UNCHANGED <<v4, v6>>
    BY <1>0, <2>1 DEF Certified!Shapes, Certified!CertifiedPostOnce
  <2>2. CASE Certified!PreFail(r) /\ ~UNCHANGED <<v4, v6>>
    BY <1>0, <1>7, <2>2 DEF Certified!PreFail, Certified!Resolved, Certified!At, Certified!Shapes,
                       Certified!TryRows
  <2>3. CASE Certified!LockRefused(r) /\ ~UNCHANGED <<v4, v6>>
    BY <1>0, <2>3 DEF Certified!LockRefused, Certified!Resolved, Certified!Claimed,
                      Certified!Shapes, Certified!TryRows, Certified!CertifiedPostOnce
  <2>4. CASE Certified!Persist(r)
    BY <1>0, <1>7, <2>4 DEF Certified!Persist, Certified!Resolved, Certified!At, Certified!Answered,
                       Certified!Shapes, Certified!TryRows
  <2>5. CASE Certified!Reconcile(r)
    BY <1>0, <2>5 DEF Certified!Reconcile, Certified!Shapes, Certified!TryRows, Certified!CertifiedPostOnce
  <2> QED BY <2>1, <2>2, <2>3, <2>4, <2>5
<1> QED BY <1>1, <1>2, <1>4, <1>5, <1>6, <1>8, CSettles

(* The steps of the dispatch before the call that change no row but the mark.  *)
LEMMA CAdvances ==
  ASSUME Certified!CertifiedInv, NEW r \in Requests,
         \/ Certified!PostClaim(r) \/ Certified!Verify(r) \/ Certified!Boundary(r)
         \/ Certified!LockCall(r)
  PROVE  Certified!CertifiedInv'
<1> r \in CertifiedActors BY DEF CertifiedActors
<1>0. Certified!Shapes BY DEF Certified!CertifiedInv
<1>1. v8[r].pc \in {"claimed", "verifying", "verified", "marked"} /\ v8[r].pc \in Certified!Uncalled
  BY DEF Certified!PostClaim, Certified!Verify, Certified!Boundary, Certified!LockCall,
         Certified!At, Certified!Uncalled
<1>2. PICK p \in {"verifying", "prefail", "verified", "marked", "finish", "locked"} :
        Certified!GoTo(r, p)
  BY DEF Certified!PostClaim, Certified!Verify, Certified!Boundary, Certified!LockCall
<1>3. p \in Certified!Places /\ (p \in Certified!Uncalled \/ p = "finish")
  BY <1>2 DEF Certified!Places, Certified!Dispatches, Certified!Uncalled
<1>4. /\ v8' \in Certified!Rows /\ v8'[r].pc = p
      /\ \A b \in CertifiedActors \ {r} : v8'[b].pc = v8[b].pc /\ v8'[b].unknown = v8[b].unknown
  BY <1>0, <1>2, <1>3, CMoved
<1>5. UNCHANGED <<v3, v4, v9, v10>>
  BY DEF Certified!PostClaim, Certified!Verify, Certified!Boundary, Certified!LockCall,
         Certified!world
<1>6. \/ UNCHANGED <<v2, v6>> /\ p # "locked"
      \/ UNCHANGED v2 /\ p # "locked" /\ v2 = "free" /\ v6' = [v6 EXCEPT !.marked = TRUE]
      \/ UNCHANGED v6 /\ v2 = "free" /\ v2' = r /\ Certified!Claimed /\ v6.marked
  BY <1>0, <1>2 DEF Certified!PostClaim, Certified!Verify, Certified!Boundary, Certified!LockCall,
         Certified!Free, Certified!GoTo, Certified!Shapes, Certified!Rows
<1> USE DEF CertifiedActors, Certified!CertifiedInv
<1>7. Certified!Shapes' /\ Certified!PinIsMarked' /\ Certified!CertifiedPostOnce'
  BY <1>4, <1>5, <1>6 DEF Certified!Shapes, Certified!TryRows, Certified!PinIsMarked,
                          Certified!CertifiedPostOnce
<1>8. Certified!Unclaimed' /\ Certified!DispatchesAlone' /\ Certified!NotYetCalled'
  BY <1>1, <1>3, <1>4, <1>5, <1>6
  DEF Certified!Unclaimed, Certified!DispatchesAlone, Certified!NotYetCalled, Certified!Dispatches,
      Certified!Uncalled, Certified!Shapes, Certified!TryRows
<1>9. Certified!CallerLocks' /\ Certified!RecovererLocks'
  BY <1>3, <1>4, <1>5, <1>6, NamesAssumption
  DEF Certified!CallerLocks, Certified!RecovererLocks, Certified!Claimed, Certified!At,
      Certified!Operator, Certified!Uncalled, Certified!Shapes, Certified!TryRows
<1> QED BY <1>7, <1>8, <1>9

LEMMA CClaims ==
  ASSUME Certified!CertifiedInv, NEW r \in Requests, Certified!Claim(r)
  PROVE  Certified!CertifiedInv'
<1> r \in CertifiedActors BY DEF CertifiedActors
<1>0. Certified!Shapes BY DEF Certified!CertifiedInv
<1>1. Certified!GoTo(r, "claimed") /\ "claimed" \in Certified!Places /\ v4 = "SCHEDULED"
  BY DEF Certified!Claim, Certified!Places, Certified!Dispatches, Certified!Uncalled
<1>2. /\ v8' \in Certified!Rows /\ v8'[r].pc = "claimed"
      /\ \A b \in CertifiedActors \ {r} : v8'[b].pc = v8[b].pc /\ v8'[b].unknown = v8[b].unknown
  BY <1>0, <1>1, CMoved
<1>3. v4' = "PUBLISHING" /\ v6' = [status |-> "STARTED", marked |-> FALSE]
      /\ UNCHANGED <<v2, v3, v9, v10>>
  BY DEF Certified!Claim, Certified!world
<1>4. v9 = 0 /\ ~v10 /\ \A b \in Requests : v8[b].pc \notin Certified!Dispatches
  BY <1>1 DEF Certified!CertifiedInv, Certified!Unclaimed, Certified!PinIsMarked
<1> USE DEF CertifiedActors, Certified!CertifiedInv
<1>5. Certified!Shapes' /\ Certified!PinIsMarked' /\ Certified!CertifiedPostOnce'
  BY <1>2, <1>3, <1>4 DEF Certified!Shapes, Certified!TryRows, Certified!PinIsMarked,
                          Certified!CertifiedPostOnce
<1>6. Certified!Unclaimed' /\ Certified!DispatchesAlone' /\ Certified!NotYetCalled'
  BY <1>2, <1>3, <1>4
  DEF Certified!Unclaimed, Certified!DispatchesAlone, Certified!NotYetCalled, Certified!Dispatches
<1>7. Certified!CallerLocks' /\ Certified!RecovererLocks'
  BY <1>2, <1>3, <1>4 DEF Certified!CallerLocks, Certified!RecovererLocks, Certified!At,
                          Certified!Dispatches, Certified!Uncalled
<1> QED BY <1>5, <1>6, <1>7

LEMMA CCalls ==
  ASSUME Certified!CertifiedInv, NEW r \in Requests, Certified!Call(r)
  PROVE  Certified!CertifiedInv'
<1> r \in CertifiedActors BY DEF CertifiedActors
<1>0. Certified!Shapes BY DEF Certified!CertifiedInv
<1>1. v8[r].pc = "locked" /\ v9 = 0 /\ ~v10 /\ v4 = "PUBLISHING" /\ v6.marked
  BY DEF Certified!Call, Certified!At, Certified!CertifiedInv, Certified!NotYetCalled,
         Certified!CallerLocks, Certified!Claimed, Certified!Uncalled
<1>2. PICK p \in {"refused", "sent", "pending"} :
        Certified!GoTo(r, p) /\ (p = "refused" => UNCHANGED v10)
  BY DEF Certified!Call
<1>3. p \in Certified!Places /\ p \in Certified!Dispatches /\ p \notin Certified!Uncalled
  BY <1>2 DEF Certified!Places, Certified!Dispatches, Certified!Uncalled
<1>4. /\ v8' \in Certified!Rows /\ v8'[r].pc = p
      /\ \A b \in CertifiedActors \ {r} : v8'[b].pc = v8[b].pc /\ v8'[b].unknown = v8[b].unknown
  BY <1>0, <1>2, <1>3, CMoved
<1>5. UNCHANGED <<v2, v3, v4, v6>> /\ v9' = v9 + 1 /\ v10' \in BOOLEAN
  BY <1>0 DEF Certified!Call, Certified!Shapes
<1>6. \A b \in Requests \ {r} : v8[b].pc \notin Certified!Dispatches
  BY <1>1 DEF Certified!CertifiedInv, Certified!DispatchesAlone, Certified!Dispatches,
              Certified!Uncalled
<1> USE DEF CertifiedActors, Certified!CertifiedInv
<1>7. Certified!Shapes' /\ Certified!PinIsMarked' /\ Certified!CertifiedPostOnce'
  BY <1>1, <1>4, <1>5 DEF Certified!Shapes, Certified!PinIsMarked, Certified!CertifiedPostOnce
<1>8. Certified!Unclaimed' /\ Certified!DispatchesAlone' /\ Certified!NotYetCalled'
  BY <1>1, <1>2, <1>3, <1>4, <1>5, <1>6
  DEF Certified!Unclaimed, Certified!DispatchesAlone, Certified!NotYetCalled, Certified!Dispatches
<1>9. Certified!CallerLocks' /\ Certified!RecovererLocks'
  BY <1>2, <1>4, <1>5 DEF Certified!CallerLocks, Certified!RecovererLocks, Certified!Claimed,
                          Certified!At
<1> QED BY <1>7, <1>8, <1>9

(* Recovery reads under the lock, writes under it and lets it go.              *)
LEMMA CRecovers ==
  ASSUME Certified!CertifiedInv, NEW a \in CertifiedActors,
         Certified!RecoverRead(a) \/ Certified!RecoverWrite(a) \/ Certified!RecoverFails(a)
  PROVE  Certified!CertifiedInv'
<1>0. Certified!Shapes BY DEF Certified!CertifiedInv
<1>1. CASE Certified!RecoverRead(a)
  <2>1. /\ v2 = "free" /\ v2' = a /\ UNCHANGED <<v3, v4, v6, v9, v10>>
        /\ v8[a].pc = "idle" \/ v8[a].pc = "recover"
        /\ v8' = [v8 EXCEPT ![a].pc = "writing", ![a].unknown = Certified!Found]
    BY <1>1 DEF Certified!RecoverRead, Certified!Free, Certified!world, Certified!Recovering,
                Certified!At
  <2>2. Certified!Found \in {"none", "unknown", "failed"}
        /\ (Certified!Found = "failed" => ~v6.marked)
    BY DEF Certified!Found
  <2>3. /\ v8' \in Certified!Rows /\ v8'[a].pc = "writing" /\ v8'[a].unknown = Certified!Found
        /\ \A b \in CertifiedActors \ {a} : v8'[b].pc = v8[b].pc /\ v8'[b].unknown = v8[b].unknown
    BY <1>0, <2>1, <2>2 DEF Certified!Shapes, Certified!Rows, Certified!Places, CertifiedActors
  <2> HIDE DEF Certified!Found
  <2> USE DEF CertifiedActors, Certified!CertifiedInv
  <2>4. Certified!Shapes' /\ Certified!PinIsMarked' /\ Certified!CertifiedPostOnce'
    BY <2>1, <2>3 DEF Certified!Shapes, Certified!PinIsMarked, Certified!CertifiedPostOnce
  <2>5. Certified!Unclaimed' /\ Certified!DispatchesAlone' /\ Certified!NotYetCalled'
    BY ZenonT(30), <2>1, <2>3 DEF Certified!Unclaimed, Certified!DispatchesAlone, Certified!NotYetCalled,
                      Certified!Dispatches, Certified!Uncalled
  <2>6. Certified!CallerLocks' /\ Certified!RecovererLocks'
    BY ZenonT(30), <2>1, <2>2, <2>3, NamesAssumption DEF Certified!CallerLocks, Certified!RecovererLocks,
       Certified!Claimed, Certified!At, Certified!Operator
  <2> QED BY <2>4, <2>5, <2>6
<1>2. CASE Certified!RecoverWrite(a) \/ Certified!RecoverFails(a)
  <2>1. PICK p \in {"idle", "disarm"} : Certified!GoTo(a, p)
    BY <1>2 DEF Certified!RecoverWrite, Certified!RecoverFails, Certified!Recovered
  <2>2. /\ p \in Certified!Places
        /\ p \notin (Certified!Dispatches \ {"reconciling"}) \cup {"writing", "reconciling"}
    BY <2>1 DEF Certified!Places, Certified!Dispatches, Certified!Uncalled
  <2>3. /\ v8' \in Certified!Rows /\ v8'[a].pc = p
        /\ \A b \in CertifiedActors \ {a} : v8'[b].pc = v8[b].pc /\ v8'[b].unknown = v8[b].unknown
    BY <1>0, <2>1, <2>2, CMoved
  <2>4. UNCHANGED <<v9, v10>> /\ (v2' = v2 \/ v2 = a)
        /\ (UNCHANGED v3 \/ v3' = [v3 EXCEPT !.status = "FAILED", !.stale = FALSE])
    BY <1>2 DEF Certified!RecoverWrite, Certified!RecoverFails, Certified!Unlocked, Certified!world
  <2>5. v3' \in Certified!RunRows
    BY <1>0, <2>4 DEF Certified!Shapes, Certified!RunRows
  <2>6. /\ v6' \in Certified!TryRows /\ v6'.marked = v6.marked
        /\ v4' = v4 \/ v4' \notin {"SCHEDULED", "CANCELLED"}
        /\ v4' = "PUBLISHING" <=> v6'.status = "STARTED"
        /\ v4' = "PUBLISH_FAILED" => ~v10
        /\ UNCHANGED <<v4, v6>> \/ \A b \in Requests \ {a} : v8[b].pc # "locked"
    <3>1. CASE UNCHANGED <<v4, v6>>
      BY <1>0, <3>1 DEF Certified!Shapes, Certified!CertifiedInv, Certified!CertifiedPostOnce
    <3>2. CASE Certified!RecoverWrite(a) /\ v8[a].unknown = "unknown"
      <4>1. v2 = a BY <3>2 DEF Certified!RecoverWrite, Certified!CertifiedInv, CertifiedActors,
                               Certified!RecovererLocks
      <4> QED BY <1>0, <3>2, <4>1 DEF Certified!RecoverWrite, Certified!Resolved, Certified!At,
              Certified!CertifiedInv, Certified!CallerLocks, Certified!Shapes, Certified!TryRows
    <3>3. CASE Certified!RecoverWrite(a) /\ v8[a].unknown = "failed"
      <4>1. v2 = a /\ ~v6.marked
        BY <3>3 DEF Certified!RecoverWrite, Certified!CertifiedInv, CertifiedActors,
                    Certified!RecovererLocks
      <4>2. ~v10 BY <4>1 DEF Certified!CertifiedInv, Certified!PinIsMarked
      <4> QED BY <1>0, <3>3, <4>1, <4>2 DEF Certified!RecoverWrite, Certified!Resolved,
              Certified!At, Certified!CertifiedInv, Certified!CallerLocks, Certified!Shapes,
              Certified!TryRows
    <3>4. CASE Certified!RecoverWrite(a) /\ v8[a].unknown = "none"
      BY <3>1, <3>4 DEF Certified!RecoverWrite
    <3>5. CASE Certified!RecoverFails(a)
      BY <3>1, <3>5 DEF Certified!RecoverFails
    <3>6. v8[a].unknown \in {"none", "unknown", "failed"}
      BY <1>0 DEF Certified!Shapes, Certified!Rows, CertifiedActors
    <3> QED BY <1>2, <3>2, <3>3, <3>4, <3>5, <3>6
  <2> QED BY <2>2, <2>3, <2>4, <2>5, <2>6, CSettles
<1> QED BY <1>1, <1>2

LEMMA CReserves ==
  ASSUME Certified!CertifiedInv, NEW r \in Requests, Certified!reserve_certified_live(r)
  PROVE  Certified!CertifiedInv'
<1> r \in CertifiedActors BY DEF CertifiedActors
<1>0. Certified!Shapes /\ Certified!CertifiedPostOnce BY DEF Certified!CertifiedInv
<1>1. /\ UNCHANGED <<v2, v4, v6, v9, v10>>
      /\ v3' = [no |-> v3.no + 1, certified |-> TRUE, status |-> "RUNNING", stale |-> FALSE]
      /\ v8' = [v8 EXCEPT ![r].pc = "reserved", ![r].run = v3.no + 1]
  BY DEF Certified!reserve_certified_live, Certified!world
<1>2. v3' \in Certified!RunRows
  BY <1>0, <1>1 DEF Certified!Shapes, Certified!RunRows
<1>3. /\ v8' \in Certified!Rows /\ v8'[r].pc = "reserved"
      /\ \A b \in CertifiedActors \ {r} : v8'[b].pc = v8[b].pc /\ v8'[b].unknown = v8[b].unknown
  <2>1. v3.no + 1 \in Nat /\ "reserved" \in Certified!Places
    BY <1>0 DEF Certified!Shapes, Certified!RunRows, Certified!Places
  <2> QED BY <1>0, <1>1, <2>1 DEF Certified!Shapes, Certified!Rows, CertifiedActors
<1>4. "reserved" \notin Certified!Dispatches
  BY DEF Certified!Dispatches, Certified!Uncalled
<1>5. v6 \in Certified!TryRows /\ (v4 = "PUBLISHING" <=> v6.status = "STARTED")
      /\ (v4 = "PUBLISH_FAILED" => ~v10)
  BY <1>0 DEF Certified!Shapes, Certified!CertifiedPostOnce
<1> QED BY <1>1, <1>2, <1>3, <1>4, <1>5, CSettles

(* What nobody in req does: receipts, the clock, other runs and the operator.  *)
LEMMA CSurroundings ==
  ASSUME Certified!CertifiedInv, UNCHANGED <<v2, v6, v8, v9, v10>>,
         v3' \in Certified!RunRows, v4' = v4 \/ (v4 = "SCHEDULED" /\ v4' = "CANCELLED")
  PROVE  Certified!CertifiedInv'
<1> USE DEF Certified!CertifiedInv
<1>1. Certified!Shapes' /\ Certified!PinIsMarked' /\ Certified!CertifiedPostOnce'
  BY DEF Certified!Shapes, Certified!PinIsMarked, Certified!CertifiedPostOnce
<1>2. Certified!Unclaimed' /\ Certified!DispatchesAlone' /\ Certified!NotYetCalled'
  BY DEF Certified!Unclaimed, Certified!DispatchesAlone, Certified!NotYetCalled
<1>3. Certified!CallerLocks' /\ Certified!RecovererLocks'
  BY DEF Certified!CallerLocks, Certified!RecovererLocks, Certified!Claimed, Certified!At
<1> QED BY <1>1, <1>2, <1>3

LEMMA CertifiedStep ==
  ASSUME Certified!CertifiedInv, Certified!CLNext \/ UNCHANGED Certified!clVars
  PROVE  Certified!CertifiedInv'
<1>0. Certified!Shapes BY DEF Certified!CertifiedInv
<1>1. ASSUME NEW r \in Requests,
        \/ Certified!PreFail(r) \/ Certified!LockRefused(r) \/ Certified!Persist(r)
        \/ Certified!Reconcile(r) \/ Certified!PostClaim(r) \/ Certified!Verify(r)
        \/ Certified!Boundary(r) \/ Certified!LockCall(r) \/ Certified!Claim(r)
        \/ Certified!Call(r) \/ Certified!reserve_certified_live(r)
      PROVE  Certified!CertifiedInv'
  BY <1>1, CResolves, CAdvances, CClaims, CCalls, CReserves
<1>2. CASE Certified!DryRun \/ Certified!RunAges \/ Certified!Withdraw
           \/ Certified!preflight_certified_live \/ Certified!ReceiptExpires
           \/ (\E state \in {"PAUSED", "DRY_RUN", "LIVE"} : Certified!set_control(state))
           \/ UNCHANGED Certified!clVars
  <2>1. UNCHANGED <<v2, v6, v8, v9, v10>> /\ (v4' = v4 \/ (v4 = "SCHEDULED" /\ v4' = "CANCELLED"))
    <3>1. CASE Certified!DryRun \/ Certified!RunAges \/ Certified!Withdraw
      BY <3>1 DEF Certified!DryRun, Certified!RunAges, Certified!Withdraw, Certified!world
    <3>2. CASE Certified!preflight_certified_live \/ Certified!ReceiptExpires
      BY <3>2 DEF Certified!preflight_certified_live, Certified!ReceiptExpires
    <3>3. CASE UNCHANGED Certified!clVars
      BY <3>3 DEF Certified!clVars
    <3>4. ASSUME NEW state, Certified!set_control(state) PROVE <2>1
      BY <3>4 DEF Certified!set_control, Certified!world
    <3> QED BY <1>2, <3>1, <3>2, <3>3, <3>4
  <2>2. v3' \in Certified!RunRows
    <3>1. CASE UNCHANGED v3
      BY <1>0, <3>1 DEF Certified!Shapes
    <3>2. CASE Certified!RunAges
      BY <1>0, <3>2 DEF Certified!RunAges, Certified!Shapes, Certified!RunRows
    <3>3. CASE Certified!DryRun
      BY <1>0, <3>3 DEF Certified!DryRun, Certified!Shapes, Certified!RunRows
    <3> QED BY <1>2, <3>1, <3>2, <3>3 DEF Certified!Withdraw, Certified!clVars,
            Certified!preflight_certified_live, Certified!ReceiptExpires, Certified!set_control
  <2> QED BY <2>1, <2>2, CSurroundings
<1>3. CASE \E a \in DOMAIN v8 :
             Certified!RecoverRead(a) \/ Certified!RecoverWrite(a) \/ Certified!RecoverFails(a)
  <2>1. DOMAIN v8 = CertifiedActors BY <1>0 DEF Certified!Shapes, Certified!Rows, CertifiedActors
  <2> QED BY <1>3, <2>1, CRecovers
<1> QED BY <1>1, <1>2, <1>3, CQuietSteps DEF Certified!CLNext

LEMMA CertifiedStart ==
  ASSUME Certified!CLInit
  PROVE  Certified!CertifiedInv
<1>1. v8 \in Certified!Rows /\ \A a \in CertifiedActors : v8[a].pc = "idle"
  BY DEF Certified!CLInit, Certified!Rows, Certified!Places, CertifiedActors
<1>2. v3 \in Certified!RunRows /\ v6 \in Certified!TryRows
  BY DEF Certified!CLInit, Certified!RunRows, Certified!TryRows
<1>3. v4 = "SCHEDULED" /\ v6.status = "none" /\ ~v6.marked /\ v9 = 0 /\ v10 = FALSE
  BY DEF Certified!CLInit
<1>4. Certified!Shapes /\ Certified!PinIsMarked
  BY <1>1, <1>2, <1>3 DEF Certified!Shapes, Certified!PinIsMarked
<1>5. Certified!CertifiedPostOnce
  BY <1>3 DEF Certified!CertifiedPostOnce
<1>6. /\ Certified!Unclaimed /\ Certified!DispatchesAlone /\ Certified!NotYetCalled
      /\ Certified!CallerLocks /\ Certified!RecovererLocks
  BY <1>1, <1>3 DEF Certified!Unclaimed, Certified!DispatchesAlone, Certified!NotYetCalled,
     Certified!CallerLocks, Certified!RecovererLocks, Certified!At, Certified!Dispatches,
     Certified!Uncalled, CertifiedActors
<1> QED BY <1>4, <1>5, <1>6 DEF Certified!CertifiedInv

LEMMA CertifiedFocus ==
  ASSUME [ServicesNext]_allVars, focus' = "certified"
  PROVE  focus = "certified" /\ (Certified!CLNext \/ UNCHANGED Certified!clVars)
BY DEF ServicesNext, allVars, slots, Only, Certified!clVars

(* However many requests reserve, stall, die or are recovered, Buffer is       *)
(* asked at most once, a publication and its attempt are resolved together,    *)
(* and what is called PUBLISH_FAILED has not been posted.                      *)
THEOREM CertifiedPostsOnce == ServicesSpec => []CertifiedPostOnce
<1> DEFINE I == focus = "certified" => Certified!CertifiedInv
<1>1. ServicesInit => I
  BY CertifiedStart DEF ServicesInit
<1>2. I /\ [ServicesNext]_allVars => I'
  BY CertifiedStep, CertifiedFocus
<1>3. I => CertifiedPostOnce
  BY DEF CertifiedPostOnce, Certified!CertifiedInv
<1> QED BY <1>1, <1>2, <1>3, PTL DEF ServicesSpec

-----------------------------------------------------------------------------
(* BufferReconciliation.                                                       *)

(* In Reconciling: rpub is v1, rtry v2, verdicts v7.                           *)
LEMMA ReconcilingStart ==
  ASSUME Reconciling!BRInit
  PROVE  Reconciling!VerdictInv
BY DEF Reconciling!BRInit, Reconciling!VerdictInv, Reconciling!OneVerdict

(* Only the compare-and-set writes what a verdict is about, and it finds none. *)
LEMMA VerdictsOnlyByCas ==
  ASSUME Reconciling!BRNext \/ UNCHANGED Reconciling!rvars
  PROVE  \/ UNCHANGED <<v1, v2, v7>>
         \/ \E o \in Observers : v1 = "PUBLISH_UNKNOWN" /\ v2 = "UNKNOWN" /\ Reconciling!Settle(o)
<1>1. ASSUME NEW o \in Observers, Reconciling!Cas(o)
      PROVE  \/ UNCHANGED <<v1, v2, v7>>
             \/ v1 = "PUBLISH_UNKNOWN" /\ v2 = "UNKNOWN" /\ Reconciling!Settle(o)
  BY <1>1 DEF Reconciling!Cas
<1>2. ASSUME NEW o \in Observers,
             \/ Reconciling!_begin_reconciliation_receipt(o) \/ Reconciling!StartRead(o)
             \/ Reconciling!ReadPost(o) \/ Reconciling!Revalidate(o) \/ Reconciling!PreCas(o)
             \/ Reconciling!ObserverDies(o)
      PROVE  UNCHANGED <<v1, v2, v7>>
  BY <1>2 DEF Reconciling!_begin_reconciliation_receipt, Reconciling!StartRead,
     Reconciling!ReadPost, Reconciling!Revalidate, Reconciling!PreCas, Reconciling!ObserverDies
<1>3. CASE Reconciling!PostProgresses \/ Reconciling!LocalDrifts \/ UNCHANGED Reconciling!rvars
  BY <1>3 DEF Reconciling!PostProgresses, Reconciling!LocalDrifts, Reconciling!rvars
<1> QED BY <1>1, <1>2, <1>3 DEF Reconciling!BRNext

LEMMA ReconcilingStep ==
  ASSUME Reconciling!VerdictInv, Reconciling!BRNext \/ UNCHANGED Reconciling!rvars
  PROVE  Reconciling!VerdictInv'
<1>1. CASE UNCHANGED <<v1, v2, v7>>
  BY <1>1 DEF Reconciling!VerdictInv, Reconciling!OneVerdict
<1>2. ASSUME NEW o \in Observers, v1 = "PUBLISH_UNKNOWN", v2 = "UNKNOWN", Reconciling!Settle(o)
      PROVE  Reconciling!VerdictInv'
  <2>1. v7 = <<>>
    BY <1>2 DEF Reconciling!VerdictInv, Reconciling!OneVerdict
  <2> DEFINE v == Reconciling!Verdict(v6[o].snap)
  <2>2. v \in {"PUBLISHED", "PUBLISH_FAILED", "PUBLISH_UNKNOWN"}
    BY DEF Reconciling!Verdict
  <2>3. /\ v1' = v
        /\ v2' = CASE v = "PUBLISHED" -> "SUCCEEDED" [] v = "PUBLISH_FAILED" -> "FAILED"
                   [] OTHER -> v2
        /\ v7' = IF v = "PUBLISH_UNKNOWN" THEN v7 ELSE Append(v7, v)
    BY <1>2 DEF Reconciling!Settle
  <2> HIDE DEF v
  <2>4. CASE v = "PUBLISH_UNKNOWN"
    BY <1>2, <2>1, <2>3, <2>4 DEF Reconciling!VerdictInv, Reconciling!OneVerdict
  <2>5. CASE v \in {"PUBLISHED", "PUBLISH_FAILED"}
    <3>1. v7' = <<v>> BY <2>1, <2>3, <2>5
    <3> QED BY <2>3, <2>5, <3>1 DEF Reconciling!VerdictInv, Reconciling!OneVerdict
  <2> QED BY <2>2, <2>4, <2>5
<1> QED BY <1>1, <1>2, VerdictsOnlyByCas

LEMMA ReconcilingFocus ==
  ASSUME [ServicesNext]_allVars, focus' = "reconciliation"
  PROVE  focus = "reconciliation" /\ (Reconciling!BRNext \/ UNCHANGED Reconciling!rvars)
BY DEF ServicesNext, allVars, slots, Only, Reconciling!rvars

(* However many observers find the UNKNOWN outcome, the compare-and-set        *)
(* settles it once: one event, and the publication and its attempt say what    *)
(* it says.                                                                    *)
THEOREM OutcomesAreSettledOnce == ServicesSpec => []OneVerdict
<1> DEFINE I == focus = "reconciliation" => Reconciling!VerdictInv
<1>1. ServicesInit => I
  BY ReconcilingStart DEF ServicesInit
<1>2. I /\ [ServicesNext]_allVars => I'
  BY ReconcilingStep, ReconcilingFocus
<1>3. I => OneVerdict
  BY DEF OneVerdict, Reconciling!VerdictInv
<1> QED BY <1>1, <1>2, <1>3, PTL DEF ServicesSpec

-----------------------------------------------------------------------------
(* UnknownDiscovery.                                                           *)

(* In Discovery: upub is v1, uroute v2, upost v3, scan v4, report v5.          *)
LEMMA SixStatuses ==
  /\ Len(Discovery!DISCOVERY_STATUSES) = 6
  /\ Discovery!StatusListed(1) = "draft" /\ Discovery!StatusListed(2) = "error"
  /\ Discovery!StatusListed(3) = "needs_approval" /\ Discovery!StatusListed(4) = "scheduled"
  /\ Discovery!StatusListed(5) = "sending" /\ Discovery!StatusListed(6) = "sent"
BY DEF Discovery!DISCOVERY_STATUSES, Discovery!StatusListed

LEMMA SixProgress ==
  /\ DOMAIN Discovery!Progress = {"draft", "needs_approval", "scheduled", "sending", "sent", "error"}
  /\ Discovery!Progress["draft"] = {"needs_approval", "scheduled"}
  /\ Discovery!Progress["needs_approval"] = {"scheduled", "error"}
  /\ Discovery!Progress["scheduled"] = {"sending", "error"}
  /\ Discovery!Progress["sending"] = {"sent", "error"}
  /\ Discovery!Progress["sent"] = {} /\ Discovery!Progress["error"] = {}
BY DEF Discovery!Progress

(* A post goes on to a status listed later, or into error.                     *)
LEMMA PostsGoForward ==
  ASSUME NEW i \in 1..6, NEW s \in Discovery!Progress[Discovery!StatusListed(i)]
  PROVE  s = "error" \/ \E j \in (i+1)..6 : s = Discovery!StatusListed(j)
<1>1. i = 1 \/ i = 2 \/ i = 3 \/ i = 4 \/ i = 5 \/ i = 6 OBVIOUS
<1>2. CASE i = 1
  <2>1. 3 \in (i+1)..6 /\ 4 \in (i+1)..6 BY <1>2
  <2>2. s = "needs_approval" \/ s = "scheduled" BY <1>2, SixStatuses, SixProgress
  <2> QED BY <2>1, <2>2, SixStatuses
<1>3. CASE i = 3
  <2>1. 4 \in (i+1)..6 BY <1>3
  <2>2. s = "scheduled" \/ s = "error" BY <1>3, SixStatuses, SixProgress
  <2> QED BY <2>1, <2>2, SixStatuses
<1>4. CASE i = 4
  <2>1. 5 \in (i+1)..6 BY <1>4
  <2>2. s = "sending" \/ s = "error" BY <1>4, SixStatuses, SixProgress
  <2> QED BY <2>1, <2>2, SixStatuses
<1>5. CASE i = 5
  <2>1. 6 \in (i+1)..6 BY <1>5
  <2>2. s = "sent" \/ s = "error" BY <1>5, SixStatuses, SixProgress
  <2> QED BY <2>1, <2>2, SixStatuses
<1>6. CASE i = 2 \/ i = 6
  BY <1>6, SixStatuses, SixProgress
<1> QED BY <1>1, <1>2, <1>3, <1>4, <1>5, <1>6

LEMMA StatusKnown ==
  ASSUME NEW s \in DOMAIN Discovery!Progress
  PROVE  \E i \in 1..6 : s = Discovery!StatusListed(i)
<1>1. {1, 2, 3, 4, 5, 6} \subseteq 1..6 OBVIOUS
<1> QED BY <1>1, SixStatuses, SixProgress

LEMMA NewScan ==
  ASSUME Discovery!DiscoveryShapes, v4'.at = 1, v3' = v3
  PROVE  Discovery!NoneOvertakesTheScan'
<1> SUFFICES ASSUME NEW x \in Posts PROVE \E i \in v4'.at..6 : v3'[x].status = Discovery!StatusListed(i)
  BY DEF Discovery!NoneOvertakesTheScan, Discovery!StillToList
<1>1. v3[x].status \in DOMAIN Discovery!Progress BY DEF Discovery!DiscoveryShapes
<1> QED BY <1>1, StatusKnown

LEMMA DiscoveryStart ==
  ASSUME Discovery!UDInit
  PROVE  Discovery!DiscoveryInv
<1>1. Discovery!DiscoveryShapes
  BY SixProgress DEF Discovery!UDInit, Discovery!DiscoveryShapes, Discovery!NoScan
<1>2. Discovery!NoneOvertakesTheScan
  <2> SUFFICES ASSUME NEW x \in Posts
               PROVE  \E i \in v4.at..6 : v3[x].status = Discovery!StatusListed(i)
    BY DEF Discovery!NoneOvertakesTheScan, Discovery!StillToList
  <2>1. v3[x].status \in DOMAIN Discovery!Progress /\ v4.at = 1
    BY <1>1 DEF Discovery!DiscoveryShapes, Discovery!UDInit, Discovery!NoScan
  <2> QED BY <2>1, StatusKnown
<1> QED BY <1>1, <1>2 DEF Discovery!DiscoveryInv

LEMMA DiscoveryStep ==
  ASSUME Discovery!DiscoveryInv, Discovery!UDNext \/ UNCHANGED Discovery!uvars
  PROVE  Discovery!DiscoveryInv'
<1> USE DEF Discovery!DiscoveryInv
<1> DEFINE ScanType == [pc : {"idle", "listing", "reported"}, at : 1..7, listed : SUBSET Posts,
                        short : BOOLEAN]
<1>0. v4 \in ScanType /\ v3 \in [Posts -> [status : DOMAIN Discovery!Progress, exact : BOOLEAN]]
  BY DEF Discovery!DiscoveryShapes
<1>1. CASE Discovery!StartScan \/ Discovery!ScanFails \/ Discovery!ActOnReport
  <2>1. v3' = v3 /\ v4' \in ScanType /\ v4'.at = 1
    <3>1. Discovery!NoScan \in ScanType /\ Discovery!NoScan.at = 1
      BY DEF Discovery!NoScan
    <3>2. v3' = v3 /\ (v4' = Discovery!NoScan \/ v4' = [Discovery!NoScan EXCEPT !.pc = "listing"])
      BY <1>1 DEF Discovery!StartScan, Discovery!ScanFails, Discovery!ActOnReport
    <3> QED BY <3>1, <3>2
  <2>2. Discovery!DiscoveryShapes'
    BY <1>0, <2>1 DEF Discovery!DiscoveryShapes
  <2> QED BY <2>1, <2>2, NewScan
<1>2. CASE Discovery!ListStatus
  <2> DEFINE there == {x \in Posts : v3[x].status = Discovery!StatusListed(v4.at)}
  <2>1. v4.at \in 1..6 /\ v3' = v3
    BY <1>0, <1>2, SixStatuses DEF Discovery!ListStatus
  <2>2. PICK page \in SUBSET there :
          v4' = [v4 EXCEPT !.at = @ + 1, !.listed = @ \cup page, !.short = @ \/ page # there]
    BY <1>2 DEF Discovery!ListStatus
  <2>3. v4'.at = v4.at + 1 /\ v4'.listed = v4.listed \cup page
        /\ v4'.short = (v4.short \/ page # there)
    BY <1>0, <2>2
  <2>4. v4' \in ScanType
    <3>1. v4.at + 1 \in 1..7 /\ v4.listed \cup page \in SUBSET Posts BY <1>0, <2>1
    <3>2. PICK short \in BOOLEAN : short = (v4.short \/ page # there) OBVIOUS
    <3>3. v4' = [v4 EXCEPT !.at = v4.at + 1, !.listed = v4.listed \cup page, !.short = short]
      BY <2>2, <3>2
    <3> QED BY <1>0, <3>1, <3>3
  <2>5. Discovery!DiscoveryShapes'
    BY <1>0, <2>1, <2>4 DEF Discovery!DiscoveryShapes
  <2>6. ASSUME NEW x \in Posts
        PROVE  x \in v4'.listed \/ v4'.short \/ v3'[x].status = "error"
               \/ \E i \in v4'.at..6 : v3'[x].status = Discovery!StatusListed(i)
    <3>1. CASE x \in v4.listed \/ v4.short \/ v3[x].status = "error"
      BY <2>1, <2>3, <3>1
    <3>2. ASSUME NEW i \in v4.at..6, v3[x].status = Discovery!StatusListed(i)
          PROVE  x \in v4'.listed \/ v4'.short
                 \/ \E k \in v4'.at..6 : v3'[x].status = Discovery!StatusListed(k)
      <4>1. CASE i = v4.at
        <5>1. x \in there BY <3>2, <4>1
        <5> QED BY <2>3, <5>1
      <4>2. CASE i # v4.at
        <5>1. i \in v4'.at..6 BY <2>1, <2>3, <4>2
        <5> QED BY <2>1, <3>2, <5>1
      <4> QED BY <4>1, <4>2
    <3> QED BY <3>1, <3>2 DEF Discovery!NoneOvertakesTheScan, Discovery!StillToList
  <2> QED BY <2>5, <2>6 DEF Discovery!NoneOvertakesTheScan, Discovery!StillToList
<1>3. CASE Discovery!ReadListed
  <2>1. v3' = v3 /\ v4' = [v4 EXCEPT !.pc = "reported"]
    BY <1>3 DEF Discovery!ReadListed
  <2>2. v4'.at = v4.at /\ v4'.listed = v4.listed /\ v4'.short = v4.short /\ v4' \in ScanType
    BY <1>0, <2>1
  <2> QED BY <2>1, <2>2 DEF Discovery!DiscoveryShapes, Discovery!NoneOvertakesTheScan,
       Discovery!StillToList
<1>4. CASE Discovery!PostProgresses
  <2>0. PICK y \in Posts : \E s \in Discovery!Progress[v3[y].status] :
          v3' = [v3 EXCEPT ![y].status = s] /\ v4' = v4
    BY <1>4 DEF Discovery!PostProgresses
  <2>1. PICK s \in Discovery!Progress[v3[y].status] :
          v3' = [v3 EXCEPT ![y].status = s] /\ v4' = v4
    BY <2>0
  <2>2. PICK k \in 1..6 : v3[y].status = Discovery!StatusListed(k)
    BY <1>0, StatusKnown
  <2>3. s = "error" \/ \E j \in (k+1)..6 : s = Discovery!StatusListed(j)
    BY <2>1, <2>2, PostsGoForward
  <2>4. s \in DOMAIN Discovery!Progress
    BY <1>0, <2>1, SixProgress
  <2>5. Discovery!DiscoveryShapes'
    BY <1>0, <2>1, <2>4 DEF Discovery!DiscoveryShapes
  <2>6. ASSUME NEW x \in Posts
        PROVE  x \in v4.listed \/ v4.short \/ v3'[x].status = "error"
               \/ \E i \in v4.at..6 : v3'[x].status = Discovery!StatusListed(i)
    <3>1. CASE x # y \/ v3[y].status = "error"
      <4>1. v3[y].status = "error" => FALSE BY <2>1, SixProgress
      <4>2. v3'[x] = v3[x] BY <1>0, <2>1, <3>1, <4>1
      <4> QED BY <4>2 DEF Discovery!NoneOvertakesTheScan, Discovery!StillToList
    <3>2. CASE x = y /\ v3[y].status # "error"
      <4>1. v3'[x].status = s BY <1>0, <2>1, <3>2
      <4>2. ASSUME NEW i \in v4.at..6, v3[y].status = Discovery!StatusListed(i),
                   NEW j \in (i+1)..6, s = Discovery!StatusListed(j)
            PROVE  \E m \in v4.at..6 : v3'[x].status = Discovery!StatusListed(m)
        <5>1. j \in v4.at..6 BY <1>0, <4>2
        <5> QED BY <4>1, <4>2, <5>1
      <4>3. ASSUME NEW i \in v4.at..6, v3[y].status = Discovery!StatusListed(i)
            PROVE  s = "error" \/ \E j \in (i+1)..6 : s = Discovery!StatusListed(j)
        <5>1. i \in 1..6 BY <1>0, <4>3
        <5> QED BY <2>1, <4>3, <5>1, PostsGoForward
      <4> QED BY <3>2, <4>1, <4>2, <4>3 DEF Discovery!NoneOvertakesTheScan, Discovery!StillToList
    <3> QED BY <3>1, <3>2
  <2> QED BY <2>1, <2>5, <2>6 DEF Discovery!NoneOvertakesTheScan, Discovery!StillToList
<1>5. CASE Discovery!RouteDrifts \/ UNCHANGED Discovery!uvars
  <2>1. UNCHANGED <<v3, v4>> BY <1>5 DEF Discovery!RouteDrifts, Discovery!uvars
  <2> QED BY <2>1 DEF Discovery!DiscoveryShapes, Discovery!NoneOvertakesTheScan,
       Discovery!StillToList
<1> QED BY <1>1, <1>2, <1>3, <1>4, <1>5 DEF Discovery!UDNext

LEMMA DiscoveryFocus ==
  ASSUME [ServicesNext]_allVars, focus' = "discovery"
  PROVE  focus = "discovery" /\ (Discovery!UDNext \/ UNCHANGED Discovery!uvars)
BY DEF ServicesNext, allVars, slots, Only, Discovery!uvars

(* A discovery scan that missed our post met a full page, or the post fell     *)
(* into error behind it: the statuses are listed in the order in which a       *)
(* post goes through them.                                                     *)
THEOREM AScanSeesThePost == ServicesSpec => []ScanSeesPost
<1> DEFINE I == focus = "discovery" => Discovery!DiscoveryInv
<1>1. ServicesInit => I
  BY DiscoveryStart DEF ServicesInit
<1>2. I /\ [ServicesNext]_allVars => I'
  BY DiscoveryStep, DiscoveryFocus
<1>3. I => ScanSeesPost
  <2> SUFFICES ASSUME focus = "discovery", Discovery!DiscoveryInv, v4.at > 6, NEW x \in Posts
               PROVE  x \in v4.listed \/ v4.short \/ v3[x].status = "error"
    BY SixStatuses DEF ScanSeesPost, Discovery!ScanSeesPost
  <2>1. v4.at \in 1..7 BY DEF Discovery!DiscoveryInv, Discovery!DiscoveryShapes
  <2>2. v4.at..6 = {} BY <2>1
  <2> QED BY <2>2 DEF Discovery!DiscoveryInv, Discovery!NoneOvertakesTheScan, Discovery!StillToList
<1> QED BY <1>1, <1>2, <1>3, PTL DEF ServicesSpec

-----------------------------------------------------------------------------
(* CatalogSync.                                                                *)

(* The function with nothing in its domain is the empty sequence.              *)
LEMMA NoFacts == << >> \in [{} -> BOOLEAN] /\ DOMAIN << >> = {}
OBVIOUS

LEMMA CatalogueCounts ==
  ASSUME NEW S
  PROVE  /\ Catalogue!IsFiniteSet(S) <=> IsFiniteSet(S)
         /\ Catalogue!Cardinality(S) = Cardinality(S)
<1>1. Catalogue!IsFiniteSet(S) <=> IsFiniteSet(S)
  BY DEF Catalogue!IsFiniteSet, IsFiniteSet
<1>2. Catalogue!Cardinality(S) = Cardinality(S)
  BY DEF Catalogue!Cardinality, Cardinality
<1> QED BY <1>1, <1>2

(* In Catalogue: job is v1, work v2, catalog v3, ask v4, stored v5, hydration  *)
(* v6.                                                                         *)
LEMMA CatalogueIdle ==
  Catalogue!NoRow \in Catalogue!Counters /\ \A p \in Processes \cup {"none"} :
    [pc |-> "off", proc |-> p, left |-> {}, facts |-> << >>, row |-> Catalogue!NoRow] \in
      [pc : {"off", "queued", "export", "wait", "stream"}, proc : Processes \cup {"none"},
       left : SUBSET Products, facts : UNION {[F -> BOOLEAN] : F \in SUBSET Products},
       row : Catalogue!Counters]
<1>1. Catalogue!NoRow \in Catalogue!Counters
  BY DEF Catalogue!NoRow, Catalogue!Counters
<1>2. << >> \in UNION {[F -> BOOLEAN] : F \in SUBSET Products}
  BY NoFacts
<1> QED BY <1>1, <1>2

LEMMA CatalogueStart ==
  ASSUME Catalogue!Init
  PROVE  Catalogue!CatalogInv
<1>1. /\ v1 = [k \in SyncJobs |-> Catalogue!NoRow] /\ v2 = [k \in SyncJobs |-> Catalogue!NoWork]
      /\ v3 = [p \in Products |-> [by |-> {}, image |-> NoJob, digest |-> NoBytes, eligible |-> FALSE]]
      /\ v4 = [c \in Processes |-> FALSE] /\ v5 = {} /\ v6 = Catalogue!NoCall
  BY DEF Catalogue!Init
<1>2. Catalogue!NoWork.pc = "off" /\ DOMAIN Catalogue!NoWork.facts = {}
  BY NoFacts DEF Catalogue!NoWork
<1>3. Catalogue!NoRow = [status |-> "NONE", seen |-> 0, done |-> 0, failed |-> 0]
  BY DEF Catalogue!NoRow
<1>4. Catalogue!IsFiniteSet({}) /\ Catalogue!Cardinality({}) = 0
  BY CatalogueCounts, FS_EmptySet
<1>5. \A k \in SyncJobs : Catalogue!Of(k) = {} BY <1>1 DEF Catalogue!Of
<1>6. Catalogue!TypeOK /\ Catalogue!DigestOfItsImage /\ Catalogue!Written
  BY <1>1, <1>2, <1>3 DEF Catalogue!TypeOK, Catalogue!DigestOfItsImage, Catalogue!Written, Catalogue!NoCall
<1>7. Catalogue!SyncShapes
  BY <1>1, CatalogueIdle DEF Catalogue!SyncShapes, Catalogue!NoWork, Catalogue!NoCall
<1>8. Catalogue!OneActive
  BY <1>1, <1>2, <1>3 DEF Catalogue!OneActive, Catalogue!ActiveJobs, Catalogue!Active
<1>9. Catalogue!Committing
  <2>1. \A k \in SyncJobs : v1[k].seen = 0 /\ v1[k].done = 0 /\ v1[k].failed = 0
    BY <1>1, <1>3
  <2>2. \A k \in SyncJobs : /\ Catalogue!IsFiniteSet(Catalogue!Of(k))
                           /\ Catalogue!Cardinality(Catalogue!Of(k)) = 0
    BY <1>4, <1>5
  <2> QED BY <2>1, <2>2 DEF Catalogue!Committing
<1>10. Catalogue!Streaming BY <1>1, <1>2, <1>4, <1>5 DEF Catalogue!Streaming
<1> QED BY <1>6, <1>7, <1>8, <1>9, <1>10 DEF Catalogue!CatalogInv

(* A hydration disturbs digests only.                                          *)
LEMMA CatalogueHydrates ==
  ASSUME Catalogue!CatalogInv,
         \/ \E p \in Products : Catalogue!BeginHydration(p)
         \/ Catalogue!write_verified \/ Catalogue!hydrate_product_source
         \/ Catalogue!HydrationFails \/ UNCHANGED Catalogue!vars
  PROVE  Catalogue!CatalogInv'
<1> USE DEF Catalogue!CatalogInv
<1>1. UNCHANGED <<v1, v2, v4>> /\ v5 \subseteq v5'
      /\ v5' \subseteq Products \X SyncJobs \X Contents
  <2>1. v6.pc = "fetched" => v6.product \in Products /\ v6.image \in SyncJobs /\ v6.bytes \in Contents
    BY DEF Catalogue!Written
  <2> QED
  BY <2>1 DEF Catalogue!BeginHydration, Catalogue!write_verified, Catalogue!hydrate_product_source,
         Catalogue!HydrationFails, Catalogue!vars, Catalogue!TypeOK
<1>2. \/ UNCHANGED v3
      \/ /\ Catalogue!hydrate_product_source /\ v3[v6.product].image = v6.image
         /\ v3' = [v3 EXCEPT ![v6.product].digest = v6.bytes]
  BY DEF Catalogue!BeginHydration, Catalogue!write_verified, Catalogue!hydrate_product_source,
         Catalogue!HydrationFails, Catalogue!vars, Catalogue!RowIs
<1> DEFINE Rows == [by : SUBSET SyncJobs, image : SyncJobs \cup {NoJob},
                    digest : Contents \cup {NoBytes}, eligible : BOOLEAN]
<1>3. /\ v3' \in [Products -> Rows]
      /\ \A p \in Products :
           /\ v3'[p].by = v3[p].by /\ v3'[p].image = v3[p].image
           /\ v3'[p].digest # NoBytes => <<p, v3[p].image, v3'[p].digest>> \in v5'
  <2>1. CASE UNCHANGED v3
    BY <1>1, <2>1 DEF Catalogue!SyncShapes, Catalogue!DigestOfItsImage
  <2>2. CASE /\ Catalogue!hydrate_product_source /\ v3[v6.product].image = v6.image
             /\ v3' = [v3 EXCEPT ![v6.product].digest = v6.bytes]
    <3>1. v6.product \in Products /\ v6.bytes \in Contents
          /\ <<v6.product, v6.image, v6.bytes>> \in v5'
      BY <1>1, <2>2 DEF Catalogue!hydrate_product_source, Catalogue!Written
    <3>2. v3 \in [Products -> Rows] BY DEF Catalogue!SyncShapes
    <3>3. v3' \in [Products -> Rows] BY <2>2, <3>1, <3>2
    <3>4. \A p \in Products : v3'[p].by = v3[p].by /\ v3'[p].image = v3[p].image
            /\ v3'[p].digest = IF p = v6.product THEN v6.bytes ELSE v3[p].digest
      BY <2>2, <3>1, <3>2
    <3> QED BY <1>1, <2>2, <3>1, <3>3, <3>4 DEF Catalogue!DigestOfItsImage
  <2> QED BY <1>2, <2>1, <2>2
<1>4. \A k \in SyncJobs : Catalogue!Of(k)' = Catalogue!Of(k)
  BY <1>3 DEF Catalogue!Of
<1>5. Catalogue!Written' /\ v6' \in [pc : {"off", "fetched", "written"}, product : Products \cup {"none"},
        image : SyncJobs \cup {NoJob}, bytes : Contents \cup {NoBytes}, calls : Nat]
  <2> USE DEF Catalogue!SyncShapes, Catalogue!Written
  <2>1. ASSUME NEW p \in Products, Catalogue!BeginHydration(p) PROVE <1>5
    BY <2>1 DEF Catalogue!BeginHydration
  <2>2. CASE Catalogue!write_verified
    BY <2>2 DEF Catalogue!write_verified
  <2>3. CASE Catalogue!hydrate_product_source \/ Catalogue!HydrationFails
    BY <2>3 DEF Catalogue!hydrate_product_source, Catalogue!HydrationFails, Catalogue!NoCall
  <2>4. CASE UNCHANGED Catalogue!vars
    BY <2>4 DEF Catalogue!vars
  <2> QED BY <2>1, <2>2, <2>3, <2>4
<1>6. Catalogue!TypeOK' /\ Catalogue!SyncShapes' /\ Catalogue!DigestOfItsImage'
  <2>1. Catalogue!SyncShapes' BY <1>1, <1>3, <1>5 DEF Catalogue!SyncShapes
  <2> QED BY <1>1, <1>3, <2>1 DEF Catalogue!TypeOK, Catalogue!DigestOfItsImage
<1>7. Catalogue!OneActive' /\ Catalogue!Committing' /\ Catalogue!Streaming'
  BY <1>1, <1>4 DEF Catalogue!OneActive, Catalogue!ActiveJobs, Catalogue!Committing, Catalogue!Streaming
<1> QED BY <1>5, <1>6, <1>7

SyncRow  == [by : SUBSET SyncJobs, image : SyncJobs \cup {NoJob},
             digest : Contents \cup {NoBytes}, eligible : BOOLEAN]
SyncWork == [pc : {"off", "queued", "export", "wait", "stream"}, proc : Processes \cup {"none"},
             left : SUBSET Products, facts : UNION {[F -> BOOLEAN] : F \in SUBSET Products},
             row : Catalogue!Counters]

(* A job goes on, committing the products A: what its new row and the rest of  *)
(* its transaction must say for the invariant to hold again.                   *)
LEMMA CatalogueAdvances ==
  ASSUME Catalogue!CatalogInv, NEW k \in SyncJobs, NEW row \in Catalogue!Counters,
         NEW next \in SyncWork, NEW A \in SUBSET Products,
         v1' = [v1 EXCEPT ![k] = row], v2' = [v2 EXCEPT ![k] = next],
         v3' \in [Products -> SyncRow],
         \A p \in A : v3'[p].by = v3[p].by \cup {k} /\ v3'[p].digest = NoBytes,
         \A p \in Products \ A : v3'[p] = v3[p],
         v4' \in [Processes -> BOOLEAN], UNCHANGED <<v5, v6>>,
         IsFiniteSet(A), A \cap Catalogue!Of(k) = {},
         row.status \in Catalogue!Active => \A j \in SyncJobs :
           v1[j].status \in Catalogue!Active => j = k,
         next.pc = "queued" => row.status = "QUEUED",
         next.pc \in {"export", "wait", "stream"} =>
           row.status = "RUNNING" /\ next.row.status = "RUNNING",
         row.seen = row.done + row.failed, row.done = v1[k].done + Cardinality(A),
         row.status \in {"NONE", "QUEUED"} => row.seen = 0,
         IsFiniteSet(DOMAIN next.facts), next.pc # "stream" => DOMAIN next.facts = {},
         next.pc \in {"export", "wait"} => next.row = row /\ Catalogue!Of(k) = {} /\ A = {},
         next.pc = "stream" =>
           /\ next.row.seen = next.row.done + next.row.failed
           /\ next.row.done = row.done + Cardinality(DOMAIN next.facts)
           /\ (Catalogue!Of(k) \cup A) \cap DOMAIN next.facts = {}
           /\ next.left \cap (Catalogue!Of(k) \cup A \cup DOMAIN next.facts) = {}
  PROVE  Catalogue!CatalogInv'
<1> USE DEF Catalogue!CatalogInv
<1>1. /\ v1 \in [SyncJobs -> Catalogue!Counters] /\ v2 \in [SyncJobs -> SyncWork]
      /\ v3 \in [Products -> SyncRow]
  BY DEF Catalogue!SyncShapes, SyncWork, SyncRow
<1>2. /\ v1' \in [SyncJobs -> Catalogue!Counters] /\ v1'[k] = row
      /\ v2' \in [SyncJobs -> SyncWork] /\ v2'[k] = next
      /\ \A j \in SyncJobs \ {k} : v1'[j] = v1[j] /\ v2'[j] = v2[j]
  BY <1>1
<1>3. Catalogue!Of(k)' = Catalogue!Of(k) \cup A
  BY <1>1 DEF Catalogue!Of, SyncRow
<1>4. \A j \in SyncJobs \ {k} : Catalogue!Of(j)' = Catalogue!Of(j)
  BY <1>1 DEF Catalogue!Of, SyncRow
<1>5. Catalogue!SyncShapes'
  BY <1>2 DEF Catalogue!SyncShapes, SyncWork, SyncRow
<1>6. Catalogue!TypeOK'
  <2>1. \A j \in SyncJobs : DOMAIN v2'[j].facts \subseteq Products
    BY <1>2 DEF SyncWork
  <2>2. v5' \subseteq Products \X SyncJobs \X Contents
    BY DEF Catalogue!TypeOK
  <2>3. /\ \A j \in SyncJobs : /\ v1'[j].status \in {"NONE", "QUEUED", "RUNNING", "SUCCEEDED", "FAILED"}
                               /\ v2'[j].pc \in {"off", "queued", "export", "wait", "stream"}
        /\ \A p \in Products : /\ v3'[p].by \subseteq SyncJobs /\ v3'[p].eligible \in BOOLEAN
                               /\ v3'[p].digest \in Contents \cup {NoBytes}
    BY <1>2 DEF Catalogue!Counters, SyncWork, SyncRow
  <2> QED BY <2>1, <2>2, <2>3 DEF Catalogue!TypeOK
<1>7. Catalogue!OneActive'
  <2>1. \A i, j \in SyncJobs : v1'[i].status \in Catalogue!Active /\ v1'[j].status \in Catalogue!Active
          => i = j
    <3>1. \A i, j \in SyncJobs : v1[i].status \in Catalogue!Active /\ v1[j].status \in Catalogue!Active
            => i = j
      BY DEF Catalogue!OneActive, Catalogue!ActiveJobs
    <3> QED BY <1>2, <3>1
  <2> QED BY <1>2, <2>1 DEF Catalogue!OneActive, Catalogue!ActiveJobs
<1>8. Catalogue!Committing'
  <2>1. \A j \in SyncJobs \ {k} :
          /\ v1'[j].seen = v1'[j].done + v1'[j].failed
          /\ Catalogue!IsFiniteSet(Catalogue!Of(j)') /\ v1'[j].done = Catalogue!Cardinality(Catalogue!Of(j)')
          /\ v1'[j].status \in {"NONE", "QUEUED"} => v1'[j].seen = 0
    BY <1>2, <1>4 DEF Catalogue!Committing
  <2>2. IsFiniteSet(Catalogue!Of(k)) /\ v1[k].done = Cardinality(Catalogue!Of(k))
    BY CatalogueCounts DEF Catalogue!Committing
  <2>3. /\ IsFiniteSet(Catalogue!Of(k) \cup A)
        /\ Cardinality(Catalogue!Of(k) \cup A) = Cardinality(Catalogue!Of(k)) + Cardinality(A)
    <3>1. Cardinality(Catalogue!Of(k) \cap A) = 0
      BY FS_EmptySet
    <3>2. Cardinality(Catalogue!Of(k)) \in Nat /\ Cardinality(A) \in Nat
      BY <2>2, FS_CardinalityType
    <3>3. /\ IsFiniteSet(Catalogue!Of(k) \cup A)
          /\ Cardinality(Catalogue!Of(k) \cup A) = Cardinality(Catalogue!Of(k)) + Cardinality(A)
                                                  - Cardinality(Catalogue!Of(k) \cap A)
      BY <2>2, FS_Union
    <3> QED BY <3>1, <3>2, <3>3
  <2>4. Catalogue!IsFiniteSet(Catalogue!Of(k)') /\ v1'[k].done = Catalogue!Cardinality(Catalogue!Of(k)')
    BY <1>2, <1>3, <2>2, <2>3, CatalogueCounts
  <2> QED BY <1>2, <2>1, <2>4 DEF Catalogue!Committing
<1>9. Catalogue!Streaming'
  <2>1. Catalogue!IsFiniteSet(DOMAIN next.facts)
        /\ Catalogue!Cardinality(DOMAIN next.facts) = Cardinality(DOMAIN next.facts)
    BY CatalogueCounts
  <2> QED BY <1>2, <1>3, <1>4, <2>1 DEF Catalogue!Streaming
<1>10. Catalogue!Written' BY DEF Catalogue!Written
<1>11. Catalogue!DigestOfItsImage'
  BY DEF Catalogue!DigestOfItsImage
<1> QED BY <1>5, <1>6, <1>7, <1>8, <1>9, <1>10, <1>11

LEMMA CatalogueFacts ==
  ASSUME Catalogue!CatalogInv
  PROVE  /\ v1 \in [SyncJobs -> Catalogue!Counters] /\ v2 \in [SyncJobs -> SyncWork]
         /\ v3 \in [Products -> SyncRow] /\ v4 \in [Processes -> BOOLEAN]
         /\ \A i, j \in SyncJobs :
              v1[i].status \in Catalogue!Active /\ v1[j].status \in Catalogue!Active => i = j
         /\ \A k \in SyncJobs : /\ IsFiniteSet(DOMAIN v2[k].facts)
                                /\ Cardinality(DOMAIN v2[k].facts) \in Nat
                                /\ v2[k].pc # "stream" => DOMAIN v2[k].facts = {}
                                /\ DOMAIN v2[k].facts \in SUBSET Products
         /\ IsFiniteSet({}) /\ Cardinality({}) = 0
<1> USE DEF Catalogue!CatalogInv
<1>1. /\ v1 \in [SyncJobs -> Catalogue!Counters] /\ v2 \in [SyncJobs -> SyncWork]
      /\ v3 \in [Products -> SyncRow] /\ v4 \in [Processes -> BOOLEAN]
  BY DEF Catalogue!SyncShapes, SyncWork, SyncRow, Catalogue!TypeOK
<1>2. \A i, j \in SyncJobs :
        v1[i].status \in Catalogue!Active /\ v1[j].status \in Catalogue!Active => i = j
  BY DEF Catalogue!OneActive, Catalogue!ActiveJobs
<1>3. \A k \in SyncJobs : /\ IsFiniteSet(DOMAIN v2[k].facts)
                          /\ v2[k].pc # "stream" => DOMAIN v2[k].facts = {}
  BY CatalogueCounts DEF Catalogue!Streaming
<1>4. \A k \in SyncJobs : DOMAIN v2[k].facts \in SUBSET Products
  BY <1>1 DEF SyncWork
<1> QED BY <1>1, <1>2, <1>3, <1>4, FS_CardinalityType, FS_EmptySet

(* A record of the export, imported or failed, with or without a commit.       *)
LEMMA CatalogueRecords ==
  ASSUME Catalogue!CatalogInv, NEW k \in SyncJobs, NEW p \in Products,
         v2[k].pc = "stream", p \in v2[k].left,
         NEW facts \in UNION {[F -> BOOLEAN] : F \in SUBSET Products},
         NEW row \in Catalogue!Counters, Catalogue!Step(k, facts, row, p),
         UNCHANGED <<v4, v5, v6>>, row.status = v2[k].row.status,
         row.seen = v2[k].row.seen + 1,
         \/ /\ DOMAIN facts = DOMAIN v2[k].facts \cup {p}
            /\ row.done = v2[k].row.done + 1 /\ row.failed = v2[k].row.failed
         \/ /\ facts = v2[k].facts
            /\ row.done = v2[k].row.done /\ row.failed = v2[k].row.failed + 1
  PROVE  Catalogue!CatalogInv'
<1> DEFINE D == DOMAIN facts
           Rest == [v2[k] EXCEPT !.left = @ \ {p}, !.row = row, !.facts = << >>]
           Open == [v2[k] EXCEPT !.left = @ \ {p}, !.row = row, !.facts = facts]
<1>1. /\ v1 \in [SyncJobs -> Catalogue!Counters] /\ v2[k] \in SyncWork
      /\ v3 \in [Products -> SyncRow] /\ v4' \in [Processes -> BOOLEAN]
      /\ v2 \in [SyncJobs -> SyncWork]
  BY CatalogueFacts
<1>2. /\ v1[k].status = "RUNNING" /\ v2[k].row.status = "RUNNING"
  BY DEF Catalogue!CatalogInv, Catalogue!OneActive
<1>3. /\ v2[k].row.seen = v2[k].row.done + v2[k].row.failed
      /\ v2[k].row.done = v1[k].done + Cardinality(DOMAIN v2[k].facts)
      /\ Catalogue!Of(k) \cap DOMAIN v2[k].facts = {}
      /\ v2[k].left \cap (Catalogue!Of(k) \cup DOMAIN v2[k].facts) = {}
  BY CatalogueCounts DEF Catalogue!CatalogInv, Catalogue!Streaming
<1>4. /\ v1[k].done \in Nat /\ v1[k].failed \in Nat /\ v1[k].seen \in Nat
      /\ v1[k].seen = v1[k].done + v1[k].failed
      /\ v2[k].row.done \in Nat /\ v2[k].row.failed \in Nat /\ v2[k].row.seen \in Nat
  BY <1>1 DEF Catalogue!CatalogInv, Catalogue!Committing, Catalogue!Counters, SyncWork
<1>5. /\ IsFiniteSet(D) /\ D \in SUBSET Products /\ row.done = v1[k].done + Cardinality(D)
      /\ Catalogue!Of(k) \cap D = {} /\ (v2[k].left \ {p}) \cap (Catalogue!Of(k) \cup D) = {}
      /\ Cardinality(D) \in Nat
  <2>1. /\ IsFiniteSet(DOMAIN v2[k].facts) /\ Cardinality(DOMAIN v2[k].facts) \in Nat
        /\ DOMAIN v2[k].facts \in SUBSET Products
    BY CatalogueFacts
  <2>2. CASE D = DOMAIN v2[k].facts \cup {p} /\ row.done = v2[k].row.done + 1
    <3>1. p \notin DOMAIN v2[k].facts /\ p \notin Catalogue!Of(k) BY <1>3
    <3>2. IsFiniteSet(D) /\ Cardinality(D) = Cardinality(DOMAIN v2[k].facts) + 1
      BY <2>1, <2>2, <3>1, FS_AddElement
    <3>3. row.done = v1[k].done + Cardinality(D) /\ Cardinality(D) \in Nat
      BY <1>3, <1>4, <2>1, <2>2, <3>2
    <3>4. Catalogue!Of(k) \cap D = {} /\ (v2[k].left \ {p}) \cap (Catalogue!Of(k) \cup D) = {}
      BY <1>3, <2>2, <3>1
    <3> QED BY <2>1, <2>2, <3>2, <3>3, <3>4
  <2>3. CASE D = DOMAIN v2[k].facts /\ row.done = v2[k].row.done
    BY <1>3, <2>1, <2>3
  <2> QED BY <2>2, <2>3
<1>6. row.seen = row.done + row.failed
  BY <1>3, <1>4
<1>7. /\ Rest \in SyncWork /\ Open \in SyncWork
      /\ Rest.facts = << >> /\ Rest.pc = "stream" /\ Rest.row = row /\ Rest.left = v2[k].left \ {p}
      /\ Open.facts = facts /\ Open.pc = "stream" /\ Open.row = row /\ Open.left = v2[k].left \ {p}
  <2>1. << >> \in UNION {[F -> BOOLEAN] : F \in SUBSET Products} BY NoFacts
  <2> QED BY <1>1, <2>1 DEF SyncWork
<1>8. \A j \in SyncJobs : v1[j].status \in Catalogue!Active => j = k
  BY <1>2, CatalogueFacts DEF Catalogue!Active
<1>9. IsFiniteSet({}) /\ Cardinality({}) = 0 /\ DOMAIN << >> = {}
  BY FS_EmptySet, NoFacts
<1>10. CASE row.seen % Batch = 0
  <2>1. /\ v2' = [v2 EXCEPT ![k] = Rest] /\ v1' = [v1 EXCEPT ![k] = row]
        /\ v3' = [q \in Products |->
                    IF q \in D THEN [by |-> v3[q].by \cup {k}, image |-> k, digest |-> NoBytes,
                                     eligible |-> facts[q]]
                    ELSE v3[q]]
    BY <1>1, <1>10 DEF Catalogue!Step, Catalogue!Save
  <2>2. \A q \in D : facts[q] \in BOOLEAN OBVIOUS
  <2>3. v3' \in [Products -> SyncRow]
    BY <1>1, <2>1, <2>2 DEF SyncRow
  <2>4. /\ \A q \in D : v3'[q].by = v3[q].by \cup {k} /\ v3'[q].digest = NoBytes
        /\ \A q \in Products \ D : v3'[q] = v3[q]
    BY <1>5, <2>1
  <2>5. DOMAIN Rest.facts = {} /\ Rest.row.done = row.done + Cardinality(DOMAIN Rest.facts)
    BY <1>7, <1>9 DEF Catalogue!Counters
  <2>6. /\ IsFiniteSet(D) /\ D \in SUBSET Products /\ D \cap Catalogue!Of(k) = {}
        /\ row.status = "RUNNING"
    BY <1>2, <1>5
  <2>7. /\ (Catalogue!Of(k) \cup D) \cap DOMAIN Rest.facts = {}
        /\ Rest.left \cap (Catalogue!Of(k) \cup D \cup DOMAIN Rest.facts) = {}
    BY <1>5, <1>7, <2>5
  <2>8. IsFiniteSet(DOMAIN Rest.facts) BY <1>9, <2>5
  <2> HIDE DEF D, Rest
  <2> QED
    BY <1>1, <1>5, <1>6, <1>7, <1>8, <2>1, <2>3, <2>4, <2>5, <2>6, <2>7, <2>8, CatalogueAdvances
<1>11. CASE row.seen % Batch # 0
  <2>1. /\ v2' = [v2 EXCEPT ![k] = Open] /\ UNCHANGED <<v1, v3>>
    BY <1>1, <1>11 DEF Catalogue!Step
  <2>2. v1' = [v1 EXCEPT ![k] = v1[k]] /\ v1[k] \in Catalogue!Counters
    BY <1>1, <2>1
  <2>3. v1[k].done = v1[k].done + Cardinality({}) BY <1>4, <1>9
  <2>4. /\ v3' \in [Products -> SyncRow] /\ \A q \in Products \ {} : v3'[q] = v3[q]
    BY <1>1, <2>1
  <2>5. /\ DOMAIN Open.facts = D /\ Open.row = row /\ Open.pc = "stream" /\ Open \in SyncWork
        /\ v1[k].status = "RUNNING" /\ Open.row.status = "RUNNING"
    BY <1>2, <1>7
  <2>6. /\ Open.row.seen = Open.row.done + Open.row.failed
        /\ Open.row.done = v1[k].done + Cardinality(DOMAIN Open.facts)
        /\ (Catalogue!Of(k) \cup {}) \cap DOMAIN Open.facts = {}
        /\ Open.left \cap (Catalogue!Of(k) \cup {} \cup DOMAIN Open.facts) = {}
        /\ IsFiniteSet(DOMAIN Open.facts)
    BY <1>5, <1>6, <1>7, <2>5
  <2>7. {} \cap Catalogue!Of(k) = {} /\ {} \in SUBSET Products
    OBVIOUS
  <2>8. v1[k].status \notin {"NONE", "QUEUED"} /\ Open.pc \notin {"queued", "export", "wait"}
    BY <2>5
  <2> HIDE DEF D, Open
  <2> QED
    BY <1>1, <1>4, <1>8, <1>9, <2>1, <2>2, <2>3, <2>4, <2>5, <2>6, <2>7, <2>8, CatalogueAdvances
<1> QED BY <1>10, <1>11

(* A step of a job that commits no product.                                    *)
LEMMA CatalogueMoves ==
  ASSUME Catalogue!CatalogInv, NEW k \in SyncJobs, NEW row \in Catalogue!Counters,
         NEW next \in SyncWork,
         v1' = [v1 EXCEPT ![k] = row], v2' = [v2 EXCEPT ![k] = next], UNCHANGED <<v3, v5, v6>>,
         v4' \in [Processes -> BOOLEAN],
         row.status \in Catalogue!Active => \A j \in SyncJobs :
           v1[j].status \in Catalogue!Active => j = k,
         next.pc = "queued" => row.status = "QUEUED",
         next.pc \in {"export", "wait", "stream"} =>
           row.status = "RUNNING" /\ next.row.status = "RUNNING",
         row.seen = v1[k].seen, row.done = v1[k].done, row.failed = v1[k].failed,
         row.status \in {"NONE", "QUEUED"} => row.seen = 0, DOMAIN next.facts = {},
         next.pc \in {"export", "wait", "stream"} => next.row = row /\ Catalogue!Of(k) = {}
  PROVE  Catalogue!CatalogInv'
<1>1. /\ v1[k] \in Catalogue!Counters /\ v1[k].seen = v1[k].done + v1[k].failed
      /\ v1[k].done = Cardinality(Catalogue!Of(k)) /\ IsFiniteSet(Catalogue!Of(k))
  BY CatalogueFacts, CatalogueCounts DEF Catalogue!CatalogInv, Catalogue!Committing
<1>2. row.seen = row.done + row.failed /\ row.done = v1[k].done + Cardinality({})
  BY <1>1, CatalogueFacts DEF Catalogue!Counters
<1>4. /\ v3' \in [Products -> SyncRow] /\ \A q \in Products \ {} : v3'[q] = v3[q]
      /\ IsFiniteSet({}) /\ {} \cap Catalogue!Of(k) = {} /\ {} \in SUBSET Products
  BY CatalogueFacts
<1>5. IsFiniteSet(DOMAIN next.facts) BY <1>4
<1>6. next.pc = "stream" =>
        /\ next.row.seen = next.row.done + next.row.failed
        /\ next.row.done = row.done + Cardinality(DOMAIN next.facts)
        /\ (Catalogue!Of(k) \cup {}) \cap DOMAIN next.facts = {}
        /\ next.left \cap (Catalogue!Of(k) \cup {} \cup DOMAIN next.facts) = {}
  BY <1>2, CatalogueFacts DEF Catalogue!Counters
<1>7. next.pc \in {"export", "wait"} => next.row = row /\ Catalogue!Of(k) = {} /\ {} = {}
  OBVIOUS
<1> QED BY <1>2, <1>4, <1>5, <1>6, <1>7, CatalogueAdvances

LEMMA CatalogueRequests ==
  ASSUME Catalogue!CatalogInv, NEW c \in Processes,
         Catalogue!AskForJob(c) \/ Catalogue!Die(c) \/ \E k \in SyncJobs : Catalogue!create_job(c, k)
  PROVE  Catalogue!CatalogInv'
<1> USE DEF Catalogue!CatalogInv
<1>0. v4' \in [Processes -> BOOLEAN]
  BY CatalogueFacts DEF Catalogue!AskForJob, Catalogue!Die, Catalogue!create_job
<1>1. ASSUME UNCHANGED <<v1, v3, v5, v6>>, v2' \in [SyncJobs -> SyncWork],
             \A k \in SyncJobs : v2'[k] = v2[k] \/ v2'[k] = Catalogue!NoWork
      PROVE  Catalogue!CatalogInv'
  <2>1. \A k \in SyncJobs : Catalogue!Of(k)' = Catalogue!Of(k) BY <1>1 DEF Catalogue!Of
  <2>2. /\ DOMAIN Catalogue!NoWork.facts = {} /\ Catalogue!NoWork.pc = "off"
        /\ Catalogue!IsFiniteSet({})
    BY NoFacts, FS_EmptySet, CatalogueCounts DEF Catalogue!NoWork
  <2>3. Catalogue!SyncShapes' BY <1>1 DEF Catalogue!SyncShapes, SyncWork
  <2>4. Catalogue!TypeOK' BY <1>0, <1>1, <2>2 DEF Catalogue!TypeOK
  <2>5. Catalogue!OneActive' BY <1>1, <2>2 DEF Catalogue!OneActive, Catalogue!ActiveJobs
  <2>6. Catalogue!Committing' BY <1>1, <2>1 DEF Catalogue!Committing
  <2>7. Catalogue!Streaming' BY <1>1, <2>1, <2>2 DEF Catalogue!Streaming
  <2>8. Catalogue!Written' /\ Catalogue!DigestOfItsImage'
    BY <1>1 DEF Catalogue!Written, Catalogue!DigestOfItsImage
  <2> QED BY <2>3, <2>4, <2>5, <2>6, <2>7, <2>8
<1>2. Catalogue!NoWork \in SyncWork
  BY CatalogueIdle DEF Catalogue!NoWork, SyncWork
<1>3. CASE Catalogue!AskForJob(c)
  BY <1>1, <1>3, CatalogueFacts DEF Catalogue!AskForJob
<1>4. CASE Catalogue!Die(c)
  BY <1>1, <1>2, <1>4, CatalogueFacts DEF Catalogue!Die
<1>5. ASSUME NEW k \in SyncJobs, Catalogue!create_job(c, k)
      PROVE  Catalogue!CatalogInv'
  <2>1. UNCHANGED <<v3, v5, v6>> /\ v1[k] = Catalogue!NoRow
    BY <1>5 DEF Catalogue!create_job
  <2>2. CASE UNCHANGED <<v1, v2>>
    BY <1>1, <2>1, <2>2, CatalogueFacts
  <2>3. CASE Catalogue!IndexAdmits
    <3> DEFINE row  == [v1[k] EXCEPT !.status = "QUEUED"]
               next == [Catalogue!NoWork EXCEPT !.pc = "queued", !.proc = c]
    <3>1. v1' = [v1 EXCEPT ![k] = row] /\ v2' = [v2 EXCEPT ![k] = next]
      BY <1>5, <2>3, CatalogueFacts DEF Catalogue!create_job
    <3>2. /\ row \in Catalogue!Counters /\ row.status = "QUEUED" /\ row.seen = 0
          /\ row.seen = v1[k].seen /\ row.done = v1[k].done /\ row.failed = v1[k].failed
      BY <2>1, CatalogueFacts DEF Catalogue!NoRow, Catalogue!Counters
    <3>3. next \in SyncWork /\ next.pc = "queued" /\ DOMAIN next.facts = {}
      BY <1>2, NoFacts DEF Catalogue!NoWork, SyncWork
    <3>4. \A j \in SyncJobs : v1[j].status \notin Catalogue!Active
      BY <2>3 DEF Catalogue!IndexAdmits, Catalogue!ActiveJobs
    <3> HIDE DEF row, next
    <3> QED BY <1>0, <2>1, <3>1, <3>2, <3>3, <3>4, CatalogueMoves
  <2> QED BY <1>5, <2>2, <2>3 DEF Catalogue!create_job
<1> QED BY <1>3, <1>4, <1>5

LEMMA CatalogueExports ==
  ASSUME Catalogue!CatalogInv, NEW k \in SyncJobs,
         \/ Catalogue!run(k) \/ Catalogue!start_catalog_bulk_export(k)
         \/ Catalogue!wait_for_operation(k) \/ Catalogue!Fail(k)
  PROVE  Catalogue!CatalogInv'
<1>1. /\ v1 \in [SyncJobs -> Catalogue!Counters] /\ v2 \in [SyncJobs -> SyncWork]
      /\ v4 \in [Processes -> BOOLEAN]
      /\ v1[k].status \in Catalogue!Active =>
           \A j \in SyncJobs : v1[j].status \in Catalogue!Active => j = k
      /\ v2[k].pc # "stream" => DOMAIN v2[k].facts = {}
  BY CatalogueFacts
<1>2. /\ v2[k].pc = "queued" => v1[k].status = "QUEUED"
      /\ v2[k].pc \in {"export", "wait", "stream"} => v1[k].status = "RUNNING"
      /\ v1[k].status \in {"NONE", "QUEUED"} => v1[k].seen = 0
  BY DEF Catalogue!CatalogInv, Catalogue!OneActive, Catalogue!Committing
<1>3. /\ v2[k].pc \in {"export", "wait"} => v2[k].row = v1[k] /\ Catalogue!Of(k) = {}
      /\ v1[k].seen = v1[k].done + v1[k].failed /\ v1[k].done = Cardinality(Catalogue!Of(k))
      /\ IsFiniteSet(Catalogue!Of(k))
  BY CatalogueCounts DEF Catalogue!CatalogInv, Catalogue!Streaming, Catalogue!Committing
<1>4. UNCHANGED <<v3, v4, v5, v6>>
  BY DEF Catalogue!run, Catalogue!start_catalog_bulk_export, Catalogue!wait_for_operation, Catalogue!Fail
<1>5. CASE Catalogue!run(k)
  <2> DEFINE row  == [v1[k] EXCEPT !.status = "RUNNING"]
             next == [v2[k] EXCEPT !.pc = "export", !.row = row]
  <2>1. v1' = [v1 EXCEPT ![k] = row] /\ v2' = [v2 EXCEPT ![k] = next] /\ v2[k].pc = "queued"
    BY <1>1, <1>5 DEF Catalogue!run, Catalogue!Save
  <2>2. /\ row \in Catalogue!Counters /\ row.status = "RUNNING" /\ row.seen = 0
        /\ row.seen = v1[k].seen /\ row.done = v1[k].done /\ row.failed = v1[k].failed
    BY <1>1, <1>2, <2>1 DEF Catalogue!Counters
  <2>5. Catalogue!Of(k) = {}
    <3>1. v1[k].done = 0 BY <1>1, <1>2, <1>3, <2>1 DEF Catalogue!Counters
    <3> QED BY <1>3, <3>1, FS_EmptySet
  <2>3. next \in SyncWork /\ next.pc = "export" /\ DOMAIN next.facts = {} /\ next.row = row
    BY <1>1, <2>1, <2>2 DEF SyncWork
  <2>4. v1[k].status \in Catalogue!Active BY <1>2, <2>1 DEF Catalogue!Active
  <2> HIDE DEF row, next
  <2> QED BY <1>1, <1>4, <2>1, <2>2, <2>3, <2>4, <2>5, CatalogueMoves
<1>6. CASE Catalogue!start_catalog_bulk_export(k) \/ Catalogue!wait_for_operation(k)
  <2>1. PICK next \in SyncWork : /\ v2' = [v2 EXCEPT ![k] = next] /\ next.pc \in {"wait", "stream"}
                                 /\ next.row = v2[k].row /\ next.facts = v2[k].facts
    <3>1. [v2[k] EXCEPT !.pc = "wait"] \in SyncWork
          /\ [v2[k] EXCEPT !.pc = "stream", !.left = Products] \in SyncWork
      BY <1>1 DEF SyncWork
    <3>2. \/ v2' = [v2 EXCEPT ![k] = [v2[k] EXCEPT !.pc = "wait"]]
          \/ v2' = [v2 EXCEPT ![k] = [v2[k] EXCEPT !.pc = "stream", !.left = Products]]
      BY <1>1, <1>6 DEF Catalogue!start_catalog_bulk_export, Catalogue!wait_for_operation
    <3>3. /\ v2[k] \in SyncWork
          /\ [v2[k] EXCEPT !.pc = "wait"].pc = "wait"
          /\ [v2[k] EXCEPT !.pc = "wait"].row = v2[k].row
          /\ [v2[k] EXCEPT !.pc = "wait"].facts = v2[k].facts
          /\ [v2[k] EXCEPT !.pc = "stream", !.left = Products].pc = "stream"
          /\ [v2[k] EXCEPT !.pc = "stream", !.left = Products].row = v2[k].row
          /\ [v2[k] EXCEPT !.pc = "stream", !.left = Products].facts = v2[k].facts
      BY <1>1 DEF SyncWork
    <3> QED BY <3>1, <3>2, <3>3
  <2>2. v2[k].pc \in {"export", "wait"} /\ v1' = [v1 EXCEPT ![k] = v1[k]] /\ v1[k] \in Catalogue!Counters
    BY <1>1, <1>6 DEF Catalogue!start_catalog_bulk_export, Catalogue!wait_for_operation
  <2>3. /\ next.row = v1[k] /\ v1[k].status = "RUNNING" /\ DOMAIN next.facts = {}
        /\ v1[k].status \in Catalogue!Active
    BY <1>1, <1>2, <1>3, <2>1, <2>2 DEF Catalogue!Active
  <2>4. Catalogue!Of(k) = {} BY <1>3, <2>2
  <2> QED BY <1>1, <1>4, <2>1, <2>2, <2>3, <2>4, CatalogueMoves
<1>7. CASE Catalogue!Fail(k)
  <2> DEFINE row == [v1[k] EXCEPT !.status = "FAILED"]
  <2>1. v1' = [v1 EXCEPT ![k] = row] /\ v2' = [v2 EXCEPT ![k] = Catalogue!NoWork]
    BY <1>1, <1>7 DEF Catalogue!Fail, Catalogue!Save
  <2>2. /\ row \in Catalogue!Counters /\ row.status = "FAILED"
        /\ row.seen = v1[k].seen /\ row.done = v1[k].done /\ row.failed = v1[k].failed
    BY <1>1 DEF Catalogue!Counters
  <2>3. Catalogue!NoWork \in SyncWork /\ Catalogue!NoWork.pc = "off" /\ DOMAIN Catalogue!NoWork.facts = {}
    BY CatalogueIdle, NoFacts DEF Catalogue!NoWork, SyncWork
  <2>4. row.status \notin Catalogue!Active BY <2>2 DEF Catalogue!Active
  <2> HIDE DEF row
  <2> QED BY <1>1, <1>4, <2>1, <2>2, <2>3, <2>4, CatalogueMoves
<1> QED BY <1>5, <1>6, <1>7

LEMMA CatalogueSucceeds ==
  ASSUME Catalogue!CatalogInv, NEW k \in SyncJobs, Catalogue!Succeed(k)
  PROVE  Catalogue!CatalogInv'
<1> DEFINE D   == DOMAIN v2[k].facts
           row == [v2[k].row EXCEPT !.status = "SUCCEEDED"]
<1>1. /\ v1 \in [SyncJobs -> Catalogue!Counters] /\ v2 \in [SyncJobs -> SyncWork]
      /\ v3 \in [Products -> SyncRow] /\ v4' \in [Processes -> BOOLEAN] /\ v2[k].pc = "stream"
      /\ IsFiniteSet(D) /\ D \in SUBSET Products
  BY CatalogueFacts DEF Catalogue!Succeed
<1>2. /\ v1' = [v1 EXCEPT ![k] = row] /\ v2' = [v2 EXCEPT ![k] = Catalogue!NoWork]
      /\ v3' = Catalogue!Committed(k, v3) /\ UNCHANGED <<v5, v6>>
  BY DEF Catalogue!Succeed, Catalogue!Save
<1>3. /\ v2[k].row.seen = v2[k].row.done + v2[k].row.failed
      /\ v2[k].row.done = v1[k].done + Cardinality(D) /\ D \cap Catalogue!Of(k) = {}
  BY <1>1, CatalogueCounts DEF Catalogue!CatalogInv, Catalogue!Streaming
<1>4. /\ row \in Catalogue!Counters /\ row.status = "SUCCEEDED"
      /\ row.seen = row.done + row.failed /\ row.done = v1[k].done + Cardinality(D)
      /\ row.status \notin Catalogue!Active
  BY <1>1, <1>3 DEF Catalogue!Counters, SyncWork, Catalogue!Active
<1>5. /\ v3' \in [Products -> SyncRow]
      /\ \A p \in D : v3'[p].by = v3[p].by \cup {k} /\ v3'[p].digest = NoBytes
      /\ \A p \in Products \ D : v3'[p] = v3[p]
  <2>1. \A p \in D : v2[k].facts[p] \in BOOLEAN BY <1>1 DEF SyncWork
  <2> QED BY <1>1, <1>2, <2>1 DEF Catalogue!Committed, Catalogue!Imported, SyncRow
<1>6. Catalogue!NoWork \in SyncWork /\ Catalogue!NoWork.pc = "off"
      /\ DOMAIN Catalogue!NoWork.facts = {} /\ IsFiniteSet({})
  BY CatalogueIdle, NoFacts, FS_EmptySet DEF Catalogue!NoWork, SyncWork
<1>7. IsFiniteSet(DOMAIN Catalogue!NoWork.facts) BY <1>6
<1> HIDE DEF D, row
<1> QED BY <1>1, <1>2, <1>3, <1>4, <1>5, <1>6, <1>7, CatalogueAdvances

LEMMA CatalogueCounting ==
  ASSUME NEW r \in Catalogue!Counters
  PROVE  LET done   == [r EXCEPT !.seen = @ + 1, !.done = @ + 1]
             failed == [r EXCEPT !.seen = @ + 1, !.failed = @ + 1]
         IN  /\ done \in Catalogue!Counters /\ done.status = r.status
             /\ done.seen = r.seen + 1 /\ done.done = r.done + 1 /\ done.failed = r.failed
             /\ failed \in Catalogue!Counters /\ failed.status = r.status
             /\ failed.seen = r.seen + 1 /\ failed.done = r.done /\ failed.failed = r.failed + 1
<1>1. r.seen + 1 \in Nat /\ r.done + 1 \in Nat /\ r.failed + 1 \in Nat
  BY DEF Catalogue!Counters
<1>2. \A a, b \in Nat : /\ [r EXCEPT !.seen = a, !.done = b] \in Catalogue!Counters
                        /\ [r EXCEPT !.seen = a, !.failed = b] \in Catalogue!Counters
  BY DEF Catalogue!Counters
<1>3. /\ [r EXCEPT !.seen = @ + 1, !.done = @ + 1] \in Catalogue!Counters
      /\ [r EXCEPT !.seen = @ + 1, !.failed = @ + 1] \in Catalogue!Counters
  BY <1>1, <1>2
<1> QED BY <1>3 DEF Catalogue!Counters

LEMMA CatalogueStep ==
  ASSUME Catalogue!CatalogInv, Catalogue!Next \/ UNCHANGED Catalogue!vars
  PROVE  Catalogue!CatalogInv'
<1>1. ASSUME NEW k \in SyncJobs, NEW p \in Products, NEW record \in Catalogue!Exported,
             Catalogue!upsert_product(k, p, record)
      PROVE  Catalogue!CatalogInv'
  <2> DEFINE row   == [v2[k].row EXCEPT !.seen = @ + 1, !.done = @ + 1]
             facts == [q \in DOMAIN v2[k].facts \cup {p} |->
                         IF q = p THEN Catalogue!Eligible(record) ELSE v2[k].facts[q]]
  <2>1. /\ v2[k].pc = "stream" /\ p \in v2[k].left /\ Catalogue!Step(k, facts, row, p)
        /\ UNCHANGED <<v4, v5, v6>>
    BY <1>1 DEF Catalogue!upsert_product
  <2>2. v2[k] \in SyncWork BY CatalogueFacts
  <2>3. Catalogue!Eligible(record) \in BOOLEAN
    BY DEF Catalogue!Eligible, Catalogue!Exported
  <2>4. /\ facts \in UNION {[F -> BOOLEAN] : F \in SUBSET Products}
        /\ DOMAIN facts = DOMAIN v2[k].facts \cup {p}
    <3>1. DOMAIN v2[k].facts \cup {p} \in SUBSET Products
          /\ \A q \in DOMAIN v2[k].facts : v2[k].facts[q] \in BOOLEAN
      BY <2>2 DEF SyncWork
    <3>2. facts \in [DOMAIN v2[k].facts \cup {p} -> BOOLEAN]
      BY <2>3, <3>1
    <3> QED BY <3>1, <3>2
  <2>5. /\ row \in Catalogue!Counters /\ row.status = v2[k].row.status
        /\ row.seen = v2[k].row.seen + 1 /\ row.done = v2[k].row.done + 1
        /\ row.failed = v2[k].row.failed
    <3>1. v2[k].row \in Catalogue!Counters BY <2>2 DEF SyncWork
    <3> QED BY <3>1, CatalogueCounting
  <2> HIDE DEF row, facts
  <2> QED BY <2>1, <2>4, <2>5, CatalogueRecords
<1>2. ASSUME NEW k \in SyncJobs, NEW p \in Products, Catalogue!UpsertFails(k, p)
      PROVE  Catalogue!CatalogInv'
  <2> DEFINE row == [v2[k].row EXCEPT !.seen = @ + 1, !.failed = @ + 1]
  <2>1. /\ v2[k].pc = "stream" /\ p \in v2[k].left /\ Catalogue!Step(k, v2[k].facts, row, p)
        /\ UNCHANGED <<v4, v5, v6>>
    BY <1>2 DEF Catalogue!UpsertFails
  <2>2. v2[k] \in SyncWork BY CatalogueFacts
  <2>3. v2[k].facts \in UNION {[F -> BOOLEAN] : F \in SUBSET Products} BY <2>2 DEF SyncWork
  <2>4. /\ row \in Catalogue!Counters /\ row.status = v2[k].row.status
        /\ row.seen = v2[k].row.seen + 1 /\ row.done = v2[k].row.done
        /\ row.failed = v2[k].row.failed + 1
    <3>1. v2[k].row \in Catalogue!Counters BY <2>2 DEF SyncWork
    <3> QED BY <3>1, CatalogueCounting
  <2> HIDE DEF row
  <2> QED BY <2>1, <2>3, <2>4, CatalogueRecords
<1> QED
  BY <1>1, <1>2, CatalogueHydrates, CatalogueRequests, CatalogueExports, CatalogueSucceeds
  DEF Catalogue!Next

LEMMA CatalogueFocus ==
  ASSUME [ServicesNext]_allVars, focus' = "catalogue"
  PROVE  focus = "catalogue" /\ (Catalogue!Next \/ UNCHANGED Catalogue!vars)
BY DEF ServicesNext, allVars, slots, Only, Catalogue!vars

LEMMA CatalogueHolds == ServicesSpec => [](focus = "catalogue" => Catalogue!CatalogInv)
<1> DEFINE I == focus = "catalogue" => Catalogue!CatalogInv
<1>1. ServicesInit => I
  BY CatalogueStart DEF ServicesInit
<1>2. I /\ [ServicesNext]_allVars => I'
  BY CatalogueStep, CatalogueFocus
<1> QED BY <1>1, <1>2, PTL DEF ServicesSpec

(* At most one import of the store is active, and what a job has committed of  *)
(* its counters accounts for every record it has seen and for exactly the      *)
(* products the catalogue committed with it: whatever failed, died or raced.   *)
THEOREM ImportsAreAccounted == ServicesSpec => []SyncAccounted
<1>1. ASSUME focus = "catalogue" => Catalogue!CatalogInv
      PROVE  SyncAccounted
  <2> SUFFICES ASSUME Catalogue!CatalogInv PROVE Catalogue!SyncAccounted
    BY <1>1 DEF SyncAccounted
  <2> DEFINE Busy == {k \in SyncJobs : v2[k].pc # "off" \/ v1[k].status \in Catalogue!Active}
  <2>1. \A i, j \in Busy : i = j
    <3>1. \A k \in Busy : v1[k].status \in Catalogue!Active
      BY CatalogueFacts DEF Catalogue!CatalogInv, Catalogue!OneActive, SyncWork, Catalogue!Active
    <3> QED BY <3>1, CatalogueFacts
  <2>2. Catalogue!Cardinality(Busy) <= 1
    <3>1. Busy = {} \/ \E k : Busy = {k} BY <2>1
    <3> HIDE DEF Busy
    <3>2. Cardinality(Busy) <= 1
      <4>1. CASE Busy = {} BY <4>1, FS_EmptySet
      <4>2. ASSUME NEW k, Busy = {k} PROVE Cardinality(Busy) <= 1
        BY <4>2, FS_Singleton
      <4> QED BY <3>1, <4>1, <4>2
    <3> QED BY <3>2, CatalogueCounts
  <2>3. \A k \in SyncJobs : v1[k].seen = v1[k].done + v1[k].failed
                            /\ v1[k].done = Catalogue!Cardinality(Catalogue!Of(k))
    BY DEF Catalogue!CatalogInv, Catalogue!Committing
  <2> QED BY <2>2, <2>3 DEF Catalogue!SyncAccounted, Catalogue!Of
<1> QED BY <1>1, CatalogueHolds, PTL

(* A digest on an image row names bytes stored under that row's key, also when *)
(* an import recreated the row while its hydration was in flight: the update   *)
(* names the row the hydration has read.                                       *)
THEOREM DigestsAreOfTheirImages == ServicesSpec => []DigestOfItsImage
<1>1. (focus = "catalogue" => Catalogue!CatalogInv) => DigestOfItsImage
  BY DEF DigestOfItsImage, Catalogue!CatalogInv
<1> QED BY <1>1, CatalogueHolds, PTL
=============================================================================
