-------------------------- MODULE MCScheduledQuota ---------------------------
(* Instances of ScheduledQuota for TLC: three publications of one vendor, two  *)
(* of one product and two on one board, planned for days 1, 2 and 2.           *)
EXTENDS ScheduledQuota, TLC

CONSTANTS p1, p2, p3, a1, a2

MCPlanned == p1 :> 1 @@ p2 :> 2 @@ p3 :> 2
MCLineage == p1 :> [product |-> "shirt", vendor |-> "acme", board |-> "summer"]
             @@ p2 :> [product |-> "shirt", vendor |-> "acme", board |-> "gifts"]
             @@ p3 :> [product |-> "mug", vendor |-> "acme", board |-> "gifts"]

OfOne == [h \in Horizons |-> 1]
OfTwo == [h \in Horizons |-> IF h \in {"daily", "board"} THEN 1 ELSE 2]

(* Two settings: room for one publication in every horizon, and for two in     *)
(* all but the daily one and the board's.                                      *)
MCLimits == a1 :> OfOne @@ a2 :> OfTwo
=============================================================================
