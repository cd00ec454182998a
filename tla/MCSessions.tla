----------------------------- MODULE MCSessions -----------------------------
(* Sessions on small instances.                                             *)
EXTENDS Sessions, TLC

(* A token that may be in a legacy row is distinguishable from the others.  *)
Symmetry == Permutations(Legacy) \cup Permutations(Tokens \ Legacy) \cup Permutations(Reqs)
=============================================================================
