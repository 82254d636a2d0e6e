-------------------------- MODULE PortfolioPlanning --------------------------
(* The monthly portfolio plan: how the planner chooses it under the product,   *)
(* vendor and board caps (services/pinterest_portfolio_planner.py), how the    *)
(* optimizer reorders it by what was learned (pinterest_adaptive_optimizer.py),*)
(* how that is applied once under the frozen cap contract                      *)
(* (pinterest_optimizer_apply.py, pinterest_portfolio_cap_contract.py), and the*)
(* operator's call that chains the three (pinterest_phase_b1_operator.py).     *)
(* The plan is committed before the optimizer is asked, and what it was chosen *)
(* from goes on changing meanwhile.                                            *)
EXTENDS Naturals, Sequences, FiniteSets, Functions

CONSTANTS
  Products, Boards,  \* sets of numbers: the order breaks ties
  Vendor,            \* Product -> its vendor
  Target,            \* pins wanted in the month
  ReserveTarget,     \* reserve items wanted
  ProductCap, VendorLimit, BoardLimit,
  Share,             \* the share of exploited positions, in tenths
  Callers,           \* requests of the operator
  LastDay,           \* last day of the month
  MaxChanges         \* bound: changes of what the planner and the optimizer read

VARIABLES
  pool,     \* the candidates the catalogue offers: <<product, board>>
  score,    \* Product -> its selection score
  history,  \* identities of the month that are committed already
  today,
  learned,  \* products with a history, and whether the learning is ready to be used
  plan,     \* the PinterestPortfolioPlan of the month with its items
  caller,   \* request -> where it is, the plan it expects, the optimizer's answer
  changes

planVars == <<pool, score, history, today, learned, plan, caller, changes>>

Candidates == Products \X Boards
NoPlan     == [status |-> "NONE", preview |-> <<>>, items |-> <<>>]
Away       == [pc |-> "idle", preview |-> <<>>, advice |-> <<>>]

-----------------------------------------------------------------------------
(* The planner.  chosen is what has been selected so far, in order.            *)
Uses(chosen, like) ==
  Cardinality(history \cap like) + Cardinality({n \in DOMAIN chosen : chosen[n].cand \in like})

ProductUses(chosen, c) == Uses(chosen, {d \in Candidates : d[1] = c[1]})
VendorUses(chosen, c)  == Uses(chosen, {d \in Candidates : Vendor[d[1]] = Vendor[c[1]]})
BoardUses(chosen, c)   == Uses(chosen, {d \in Candidates : d[2] = c[2]})

(* Less in the order of the sort keys.                                         *)
KeyLess(a, b) ==
  \E n \in DOMAIN a : a[n] < b[n] /\ \A m \in 1..(n - 1) : a[m] = b[m]

MaxScore == 9
_candidate_rank(chosen, c) ==
  <<ProductUses(chosen, c), VendorUses(chosen, c), BoardUses(chosen, c),
    MaxScore - score[c[1]], c[1], c[2]>>

VendorOver(chosen, c) == VendorUses(chosen, c) >= VendorLimit
BoardOver(chosen, c)  == BoardUses(chosen, c) >= BoardLimit

(* Identities of the month are not offered again; the product cap is hard.     *)
Available(chosen) ==
  {c \in pool \ history : /\ \A n \in DOMAIN chosen : chosen[n].cand # c
                          /\ ProductUses(chosen, c) < ProductCap}
WithinShares(chosen) ==
  {c \in Available(chosen) : ~VendorOver(chosen, c) /\ ~BoardOver(chosen, c)}

BestOf(chosen, S) ==
  CHOOSE c \in S : \A d \in S \ {c} :
    KeyLess(_candidate_rank(chosen, c), _candidate_rank(chosen, d))

Select(chosen, S, stage) ==
  LET c == BestOf(chosen, S)
  IN  Append(chosen, [cand |-> c, stage |-> stage, score |-> score[c[1]],
                      vendor |-> stage = "RELAXED" /\ VendorOver(chosen, c),
                      board  |-> stage = "RELAXED" /\ BoardOver(chosen, c)])

(* Strict while that offers anything, then over the vendor and board shares.   *)
SelectNext(chosen) ==
  IF WithinShares(chosen) # {} THEN Select(chosen, WithinShares(chosen), "STRICT")
  ELSE IF Available(chosen) # {} THEN Select(chosen, Available(chosen), "RELAXED")
  ELSE chosen

_select_active(needed) ==
  LET grow[n \in 0..needed] == IF n = 0 THEN <<>> ELSE SelectNext(grow[n - 1])
  IN  grow[needed]

(* The reserve keeps only to the product cap.                                  *)
ReserveNext(chosen) ==
  IF Available(chosen) = {} THEN chosen ELSE Select(chosen, Available(chosen), "RESERVE")

_select_reserve(active, needed) ==
  LET grow[n \in 0..needed] == IF n = 0 THEN active ELSE ReserveNext(grow[n - 1])
  IN  grow[needed]

(* The k-th pin of total over the days that are left, evenly.                  *)
_daily_pacing(total, k) ==
  LET n == LastDay - today + 1
  IN  CHOOSE d \in today..LastDay :
        /\ ((d - today) * total) \div n < k
        /\ k <= ((d - today + 1) * total) \div n

Needed == IF Target > Cardinality(history) THEN Target - Cardinality(history) ELSE 0

(* The items of the preview; a date of 0 is none.  Equal previews are what the *)
(* code compares as equal fingerprints.                                        *)
portfolio_preview ==
  LET active == _select_active(Needed)
      all    == _select_reserve(active, IF Needed > 0 THEN ReserveTarget ELSE 0)
  IN  [k \in DOMAIN all |->
        [slot |-> k, reserve |-> k > Len(active),
         date |-> IF k > Len(active) THEN 0 ELSE _daily_pacing(Needed, k),
         cand |-> all[k].cand, stage |-> all[k].stage, score |-> all[k].score,
         vendor |-> all[k].vendor, board |-> all[k].board]]

Dated(items)    == {n \in DOMAIN items : ~items[n].reserve}
Reserves(items) == {n \in DOMAIN items : items[n].reserve}

PreviewReady(items) ==
  /\ items # <<>>
  /\ Cardinality(Dated(items)) = Needed
  /\ Cardinality(Reserves(items)) = IF Needed > 0 THEN ReserveTarget ELSE 0

-----------------------------------------------------------------------------
(* The frozen cap contract.                                                    *)
BoardRelaxed(items) == \E n \in DOMAIN items : items[n].board

cap_blockers(items) ==
  {b \in {"PRODUCT_CAP_EXCEEDED", "DUPLICATE_PLAN_ITEM_IDENTITY", "BOARD_SHARE_CAP_EXCEEDED"} :
     \/ /\ b = "PRODUCT_CAP_EXCEEDED"
        /\ \E p \in Products :
             Cardinality({n \in DOMAIN items : items[n].cand[1] = p}) > ProductCap
     \/ /\ b = "DUPLICATE_PLAN_ITEM_IDENTITY"
        /\ \E m, n \in DOMAIN items : m # n /\ items[m].cand = items[n].cand
     \/ /\ b = "BOARD_SHARE_CAP_EXCEEDED"
        /\ ~BoardRelaxed(items)
        /\ \E q \in Boards :
             Cardinality({n \in Dated(items) : items[n].cand[2] = q}) > BoardLimit}

(* The optimizer.  A product that was learned about has evidence and exposure. *)
Known(item) == IF item.cand[1] \in learned.products THEN 1 ELSE 0

(* The domain of key in the order of its values: each after those before it.   *)
SortedBy(key) ==
  LET Rank(n) == Cardinality({m \in DOMAIN key : KeyLess(key[m], key[n])})
  IN  [k \in 1..Cardinality(DOMAIN key) |-> CHOOSE n \in DOMAIN key : Rank(n) = k - 1]

Floor(n) == IF learned.ready THEN (n * Share) \div 10 ELSE 0

(* The queue of exploited items, the rest, and the merge of the two that takes *)
(* an exploited one whenever the share of the positions so far calls for it.   *)
Exploited(items) ==
  LET all == SortedBy([n \in DOMAIN items |->
                         <<1 - Known(items[n]), Known(items[n]), items[n].slot>>])
      n   == Floor(Len(items))
  IN  SubSeq(all, 1, IF n < Len(items) THEN n ELSE Len(items))

Explored(items) ==
  SortedBy([n \in DOMAIN items \ Range(Exploited(items)) |->
              <<Known(items[n]), MaxScore - items[n].score, items[n].slot>>])

(* The k-th position, after s.x exploited ones.                                *)
Merge(exploit, explore, s, k) ==
  LET e    == k - 1 - s.x
      take == (s.x < Len(exploit) /\ Floor(k) > s.x) \/ e >= Len(explore)
  IN  [x |-> IF take THEN s.x + 1 ELSE s.x,
       order |-> Append(s.order, IF take THEN exploit[s.x + 1] ELSE explore[e + 1])]

recommendations(items) ==
  LET merge[k \in 0..Len(items)] ==
        IF k = 0 THEN [x |-> 0, order |-> <<>>]
        ELSE Merge(Exploited(items), Explored(items), merge[k - 1], k)
  IN  merge[Len(items)].order

(* The slots in the order they are given away: dated ones first.               *)
Slots(items) ==
  SortedBy([n \in DOMAIN items |->
              <<IF items[n].reserve THEN 1 ELSE 0, items[n].date, items[n].slot>>])

Rearranged(items, order) ==
  [n \in DOMAIN items |->
     LET to == items[Slots(items)[CHOOSE k \in DOMAIN order : order[k] = n]]
     IN  [items[n] EXCEPT !.date = to.date, !.reserve = to.reserve]]

-----------------------------------------------------------------------------
Init ==
  /\ pool \in SUBSET Candidates
  /\ Cardinality(pool) = Target + ReserveTarget
  /\ score \in [Products -> {1, 2}]
  /\ history = {}
  /\ today = 1
  /\ learned = [products |-> {}, ready |-> FALSE]
  /\ plan = NoPlan
  /\ caller = [c \in Callers |-> Away]
  /\ changes = 0

InputSame == UNCHANGED <<pool, score, history, today, learned, changes>>
At(c, l)  == caller[c].pc = l
Refused(c) == caller' = [caller EXCEPT ![c] = Away]

(* phase_b1_readiness: what the operator is shown and sends back as expected.  *)
phase_b1_readiness(c) ==
  /\ At(c, "idle")
  /\ LET preview == portfolio_preview
     IN  /\ PreviewReady(preview)
         /\ plan.status = "NONE" \/ plan.preview = preview
         /\ caller' = [caller EXCEPT ![c] = [Away EXCEPT !.pc = "create", !.preview = preview]]
  /\ UNCHANGED plan /\ InputSame

(* execute_phase_b1 recomputes the preview and creates the DRAFT plan, or finds*)
(* the one with its fingerprint; one plan of the month may be DRAFT or ACTIVE. *)
create_draft_portfolio_plan(c) ==
  /\ At(c, "create")
  /\ LET preview == portfolio_preview
         same    == preview = caller[c].preview
     IN  \/ /\ same /\ plan.status = "NONE"
            /\ plan' = [status |-> "DRAFT", preview |-> preview, items |-> preview]
            /\ caller' = [caller EXCEPT ![c].pc = "advise"]
         \/ /\ same /\ plan.status # "NONE" /\ plan.preview = preview
            /\ caller' = [caller EXCEPT ![c].pc = "advise"]
            /\ UNCHANGED plan
         \/ /\ ~same \/ (plan.status # "NONE" /\ plan.preview # preview)
            /\ Refused(c)
            /\ UNCHANGED plan
  /\ InputSame

(* The caps are looked at as the items stand, not as they are recommended.     *)
optimizer_apply_readiness(c) ==
  /\ At(c, "advise")
  /\ \/ /\ plan.status = "ACTIVE"
        /\ Refused(c)  \* applied already: the same application is returned
     \/ /\ plan.status = "DRAFT" /\ cap_blockers(plan.items) = {}
        /\ caller' = [caller EXCEPT ![c].pc = "apply",
                                    ![c].advice = recommendations(plan.items)]
     \/ /\ plan.status = "DRAFT" /\ cap_blockers(plan.items) # {}
        /\ Refused(c)
  /\ UNCHANGED plan /\ InputSame

(* Mutant: the readiness is taken for the check of the result.                 *)
apply_unchecked(c) ==
  /\ At(c, "apply")
  /\ \/ /\ plan.status = "DRAFT"
        /\ recommendations(plan.items) = caller[c].advice
        /\ plan' = [plan EXCEPT !.status = "ACTIVE",
                                !.items = Rearranged(@, caller[c].advice)]
     \/ /\ plan.status = "ACTIVE" \/ recommendations(plan.items) # caller[c].advice
        /\ UNCHANGED plan
  /\ Refused(c)
  /\ InputSame

(* apply_optimizer: the advice must be what would be advised now; the result   *)
(* is checked against the contract and rolled back if it breaks a cap.  The    *)
(* application's unique plan_id lets one of two callers commit.                *)
apply_optimizer(c) ==
  /\ At(c, "apply")
  /\ \/ /\ plan.status = "DRAFT"
        /\ recommendations(plan.items) = caller[c].advice
        /\ cap_blockers(Rearranged(plan.items, caller[c].advice)) = {}
        /\ plan' = [plan EXCEPT !.status = "ACTIVE",
                                !.items = Rearranged(@, caller[c].advice)]
     \/ /\ \/ plan.status = "ACTIVE"
           \/ recommendations(plan.items) # caller[c].advice
           \/ cap_blockers(Rearranged(plan.items, caller[c].advice)) # {}
        /\ UNCHANGED plan
  /\ Refused(c)
  /\ InputSame

(* What the planner and the optimizer read changes between two steps: a pin of *)
(* the month is scheduled, a day passes, analytics are learned from.           *)
Changed ==
  /\ changes < MaxChanges
  /\ changes' = changes + 1
  /\ UNCHANGED <<pool, score, plan, caller>>

PinCommitted ==
  /\ \E c \in pool : history' = history \cup {c}
  /\ Changed /\ UNCHANGED <<today, learned>>

DayPasses ==
  /\ today < LastDay
  /\ today' = today + 1
  /\ Changed /\ UNCHANGED <<history, learned>>

Learns ==
  /\ learned' \in [products : SUBSET Products, ready : BOOLEAN]
  /\ Changed /\ UNCHANGED <<history, today>>

Next ==
  \/ \E c \in Callers :
       \/ phase_b1_readiness(c) \/ create_draft_portfolio_plan(c)
       \/ optimizer_apply_readiness(c) \/ apply_optimizer(c)
  \/ PinCommitted \/ DayPasses \/ Learns

Spec == Init /\ [][Next]_planVars

PlanTypeOK ==
  /\ pool \in SUBSET Candidates /\ history \in SUBSET Candidates
  /\ today \in 1..LastDay
  /\ plan.status \in {"NONE", "DRAFT", "ACTIVE"}
  /\ \A c \in Callers : caller[c].pc \in {"idle", "create", "advise", "apply"}
  /\ changes \in 0..MaxChanges

(* Whatever the optimizer exchanged between the dated and the reserve slots,   *)
(* and whoever asked with whatever advice, the plan that becomes ACTIVE keeps  *)
(* to the product cap and, unless the planner had to relax it, to the board    *)
(* share; and it gives away each day exactly as often as the plan did.         *)
ActivePlanKeepsCaps ==
  plan.status = "ACTIVE" =>
    /\ cap_blockers(plan.items) = {}
    /\ \A d \in 0..LastDay :
         Cardinality({n \in DOMAIN plan.items : plan.items[n].date = d}) =
         Cardinality({n \in DOMAIN plan.preview : plan.preview[n].date = d})

-----------------------------------------------------------------------------
(* Why it holds: an item is in the slot its place says, so every sort key is   *)
(* different, the sorts and the merge are permutations, and the optimizer only *)
(* hands the dates round.                                                      *)
PlanItems ==
  [slot : Nat, reserve : BOOLEAN, date : 0..LastDay, cand : Candidates,
   stage : {"STRICT", "RELAXED", "RESERVE"}, score : Nat, vendor : BOOLEAN, board : BOOLEAN]

Slotted(items) == \A n \in DOMAIN items : items[n].slot = n

PlanShapes ==
  /\ score \in [Products -> 0..MaxScore] /\ IsFiniteSet(history)
  /\ plan \in [status : {"NONE", "DRAFT", "ACTIVE"}, preview : Seq(PlanItems), items : Seq(PlanItems)]
  /\ caller \in [Callers -> [pc : {"idle", "create", "advise", "apply"},
                             preview : Seq(PlanItems), advice : Seq(Nat)]]

PlanInv == /\ PlanTypeOK /\ PlanShapes /\ ActivePlanKeepsCaps
           /\ plan.status = "DRAFT" => plan.items = plan.preview /\ Slotted(plan.preview)
=============================================================================
