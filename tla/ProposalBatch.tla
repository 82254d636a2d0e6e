---------------------------- MODULE ProposalBatch ----------------------------
(* Pin proposals generated from the product catalogue                          *)
(* (services/pin_proposals.generate_controlled_batch).                         *)
(*                                                                             *)
(* A batch is one transaction: it reads the catalogue and the concepts, selects*)
(* and ranks, and inserts the concepts that are missing; a second batch or a   *)
(* renormalization of the catalogue may commit meanwhile. Rendering, which an  *)
(* exact product's batch includes, is module CreativeRendering.                *)
EXTENDS Integers, Sequences, FiniteSetsExt

CONSTANTS
  Items,        \* products with an eligible image, numbered in catalogue order
  Profiles,     \* the normalized facts a product may carry
  Workers,      \* concurrent requests
  ProductLimit, \* product_limit
  PerProduct,   \* max_proposals_per_product
  MaxChanges    \* bound: renormalizations that change a product's facts

VARIABLES
  facts,     \* Items -> the persisted product intelligence
  concepts,  \* PinConcept fingerprints, each with its one draft in review
  work,      \* worker -> its batch: the concepts to insert, or inserted
  changes    \* renormalizations so far

proposalVars == <<facts, concepts, work, changes>>

-----------------------------------------------------------------------------
(* Ranking. A profile has a category, a vendor class, an audience, a price     *)
(* band and the catalogue's labels.                                            *)

(* The angles a product's facts support.                                       *)
_angle_candidates(f) ==
  {"editorial-product-pick"}
  \cup (IF "luxury" \in f.labels THEN {"luxury-product-spotlight"} ELSE {})
  \cup (IF "new" \in f.labels THEN {"new-arrival"} ELSE {})
  \cup (IF f.category = "fragrance" THEN {f.audience, f.class} \ {"none"} ELSE {})
  \cup (IF "gift" \in f.labels THEN {"gift-set"} ELSE {})
  \cup (IF f.category \in {"home_fragrance", "beauty"} THEN {f.category} ELSE {})
  \cup (IF f.price = "low" THEN {"price-focused"} ELSE {})

Classes   == {"arabian", "designer", "niche"}
Audiences == {"men", "women", "unisex"}

_angle_intent_group(a) ==
  CASE a \in Classes                                    -> "classification"
    [] a \in Audiences                                  -> "audience"
    [] a = "new-arrival"                                -> "recency"
    [] a = "price-focused"                              -> "price"
    [] a \in {"gift-set", "home_fragrance", "beauty"}   -> "category"
    [] a = "luxury-product-spotlight"                   -> "premium"
    [] OTHER                                            -> "editorial"

(* Specificity, classification factor and editorial usefulness of an angle.    *)
BaseScore(a) ==
  CASE _angle_intent_group(a) = "classification" -> 99
    [] a = "gift-set"                            -> 63
    [] _angle_intent_group(a) = "premium"        -> 61
    [] _angle_intent_group(a) = "category"       -> 60
    [] _angle_intent_group(a) = "audience"       -> 55
    [] a = "new-arrival"                         -> 36
    [] a = "price-focused"                       -> 27
    [] OTHER                                     -> 15

Usage(ranked, a) == Cardinality({p \in DOMAIN ranked : a \in ranked[p]})
Penalty(n)       == IF n * 6 > 30 THEN 30 ELSE n * 6

(* Every use of an angle by an earlier product of the batch costs it six       *)
(* points, at most 30.                                                         *)
Better(ranked, a, b) ==
  LET score(c) == BaseScore(c) - Penalty(Usage(ranked, c))
  IN  \/ score(a) > score(b)
      \/ score(a) = score(b) /\ BaseScore(a) > BaseScore(b)

TakeBest(ranked, taken, open) ==
  IF open = {} THEN taken
  ELSE taken \cup {CHOOSE a \in open : \A b \in open : ~Better(ranked, b, a)}

(* Mutant: two angles of one intent may be taken for a product.                *)
TakeUngrouped(f, ranked, taken) == TakeBest(ranked, taken, _angle_candidates(f) \ taken)

(* The best angle of an intent that none taken has.                            *)
TakeNext(f, ranked, taken) ==
  TakeBest(ranked, taken,
           {a \in _angle_candidates(f) :
              \A t \in taken : _angle_intent_group(t) # _angle_intent_group(a)})

_rank_angles(f, ranked) ==
  LET take[n \in 0..PerProduct] ==
        IF n = 0 THEN {} ELSE TakeNext(f, ranked, take[n - 1])
  IN  take[PerProduct]

(* The angles of the selected products, in their order.                        *)
RankNext(ranked, f) == Append(ranked, _rank_angles(f, ranked))

_rank_batch(catalogue, selected) ==
  LET rank[n \in 0..Len(selected)] ==
        IF n = 0 THEN <<>> ELSE RankNext(rank[n - 1], catalogue[selected[n]])
  IN  rank[Len(selected)]

-----------------------------------------------------------------------------
(* Selection: one product per catalogue segment in turn, over and over.        *)
ordered_keys == <<"designer", "arabian", "niche", "men", "women", "unisex",
                  "gift_set", "home_fragrance", "beauty", "low", "high", "fragrance", "other">>

_segment_keys(f) == {f.class, f.audience, f.category, f.price} \ {"none"}

(* The n-th look for a product not selected yet, while there is room: over the *)
(* segments round after round, for as long as there can be one, then over what *)
(* is left.                                                                    *)
SegmentLooks(candidates) == Len(ordered_keys) * Cardinality(candidates)

Offered(catalogue, candidates, selected, n) ==
  {p \in candidates \ Range(selected) :
     n <= SegmentLooks(candidates) =>
       ordered_keys[((n - 1) % Len(ordered_keys)) + 1] \in _segment_keys(catalogue[p])}

SelectNext(catalogue, candidates, limit, selected, n) ==
  LET offered == Offered(catalogue, candidates, selected, n)
  IN  IF offered = {} \/ Len(selected) >= limit THEN selected
      ELSE Append(selected, Min(offered))

Looks(candidates) == SegmentLooks(candidates) + Cardinality(candidates)

_select_products(catalogue, candidates, limit) ==
  LET picked[n \in 0..Looks(candidates)] ==
        IF n = 0 THEN <<>> ELSE SelectNext(catalogue, candidates, limit, picked[n - 1], n)
  IN  picked[Looks(candidates)]

Unused == {p \in Items : \A c \in concepts : c.product # p}

(* Products without a concept first.                                           *)
Selected ==
  LET fresh == _select_products(facts, Unused, ProductLimit)
  IN  fresh \o _select_products(facts, Items \ Unused, ProductLimit - Len(fresh))

_board_key(f, a) ==
  CASE f.class # "none"                             -> f.class
    [] f.category \in {"gift_set", "home_fragrance", "beauty"} -> f.category
    [] a = "new-arrival"                            -> "new-arrivals"
    [] OTHER                                        -> f.audience

(* The concept of a product and an angle, under the facts it was made from.    *)
Fingerprint(p, f, a) ==
  [product |-> p, angle |-> a, board |-> _board_key(f, a),
   keywords |-> [f EXCEPT !.labels = @ \cap {"gift"}]]

Proposals(selected) ==
  LET ranked == _rank_batch(facts, selected)
  IN  UNION {{Fingerprint(selected[n], facts[selected[n]], a) : a \in ranked[n]} :
             n \in DOMAIN selected}

-----------------------------------------------------------------------------
NoWork == [pc |-> "idle", batch |-> {}]

Init ==
  /\ facts \in [Items -> Profiles]
  /\ concepts = {}
  /\ work = [w \in Workers |-> NoWork]
  /\ changes = 0

Goes(w, pc, batch) ==
  /\ work' = [work EXCEPT ![w] = [pc |-> pc, batch |-> batch]]
  /\ UNCHANGED <<facts, concepts, changes>>

Rollback(w) == Goes(w, "idle", {})

(* The catalogue is read, products are selected and their angles ranked; an    *)
(* exact product is its own selection.                                         *)
generate_controlled_batch(w, selected) ==
  /\ work[w].pc = "idle"
  /\ Goes(w, "insert", Proposals(selected))

(* What another open transaction has inserted: the same insert waits for it.   *)
Inserted(w) == UNION {work[v].batch : v \in {v \in Workers \ {w} : work[v].pc = "open"}}

(* A concept that exists by now is a duplicate attempt and is left out.        *)
InsertProposals(w) ==
  /\ work[w].pc = "insert"
  /\ LET new == work[w].batch \ concepts
     IN  Goes(w, IF new \cap Inserted(w) # {} THEN "blocked" ELSE "open", new)

(* The insert waited for has been committed, and the unique fingerprint fails  *)
(* the whole batch; or it was rolled back, and this one goes on.               *)
UniqueConflict(w) ==
  /\ work[w].pc = "blocked"
  /\ work[w].batch \cap Inserted(w) = {}
  /\ IF work[w].batch \cap concepts # {}
     THEN Rollback(w) ELSE Goes(w, "insert", work[w].batch)

(* A creative of an exact product cannot be rendered, or the worker dies.      *)
BatchFails(w) ==
  /\ work[w].pc # "idle"
  /\ Rollback(w)

Commit(w) ==
  /\ work[w].pc = "open"
  /\ concepts' = concepts \cup work[w].batch
  /\ work' = [work EXCEPT ![w] = NoWork]
  /\ UNCHANGED <<facts, changes>>

(* A synchronization normalizes a product anew (services/shopify_sync.py).     *)
Renormalize ==
  /\ changes < MaxChanges
  /\ changes' = changes + 1
  /\ \E p \in Items, f \in Profiles : f # facts[p] /\ facts' = [facts EXCEPT ![p] = f]
  /\ UNCHANGED <<concepts, work>>

Next ==
  \/ \E w \in Workers :
       \/ \E selected \in {Selected} \cup {<<p>> : p \in Items} :
            generate_controlled_batch(w, selected)
       \/ InsertProposals(w) \/ UniqueConflict(w)
       \/ BatchFails(w) \/ Commit(w)
  \/ Renormalize

Spec == Init /\ [][Next]_proposalVars

-----------------------------------------------------------------------------
TypeOK ==
  /\ facts \in [Items -> Profiles]
  /\ \A c \in concepts : c.product \in Items
  /\ \A w \in Workers : work[w].pc \in {"idle", "insert", "blocked", "open"}
  /\ changes \in 0..MaxChanges

(* Whatever the catalogue and the proposals made so far, a batch takes products*)
(* that have none before others, covers the first segments of the catalogue    *)
(* that still have such a product, one each, and gives every product angles of *)
(* different intent, as many as its facts support (_select_products,           *)
(* _rank_batch).                                                               *)
BatchIsSpread ==
  LET selected == Selected
      chosen   == Range(selected)
      ranked   == _rank_batch(facts, selected)
      Fresh(j) == {p \in Unused : ordered_keys[j] \in _segment_keys(facts[p])}
      Intents(S) == {_angle_intent_group(a) : a \in S}
  IN  /\ Unused \subseteq chosen \/ chosen \subseteq Unused
      /\ \A j \in DOMAIN ordered_keys :
           Fresh(j) # {} /\ Cardinality({i \in 1..j : Fresh(i) # {}}) <= ProductLimit
             => Fresh(j) \cap chosen # {}
      /\ \A n \in DOMAIN selected :
           LET supported == Cardinality(Intents(_angle_candidates(facts[selected[n]])))
           IN  /\ Cardinality(Intents(ranked[n])) = Cardinality(ranked[n])
               /\ Cardinality(ranked[n]) = IF supported < PerProduct THEN supported ELSE PerProduct

(* Why the proposals are of products: what a batch selected is what it read.   *)
ProposalInv ==
  /\ TypeOK
  /\ DOMAIN work = Workers
  /\ \A w \in Workers : \A c \in work[w].batch : c.product \in Items
=============================================================================
