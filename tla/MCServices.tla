------------------------------ MODULE MCServices -----------------------------
(* An instance of Services for TLC.                                            *)
EXTENDS Services, MCScheduledQuota

CONSTANTS k1, k2   \* two requests, observers, products ...: interchangeable

(* A fragrance of a designer for men, and a gift for the home just arrived.    *)
Profile(category, class, audience, price, labels) ==
  [category |-> category, class |-> class, audience |-> audience, price |-> price,
   labels |-> labels]
MCProfiles == {Profile("fragrance", "designer", "men", "low", {}),
               Profile("home_fragrance", "none", "women", "high", {"gift", "new"})}

MCVendor == [p \in PlanProducts |-> p]

Symmetric == Permutations({k1, k2})
=============================================================================
