------------------------ MODULE MCRoutinePublishing -------------------------
(* RoutinePublishing for TLC: workers, operators and publications are          *)
(* interchangeable, so runs without liveness explore one of each permutation.  *)
EXTENDS RoutinePublishing, TLC

Symmetry == Permutations(Workers) \cup Permutations(Pubs) \cup Permutations(Operators)
=============================================================================
