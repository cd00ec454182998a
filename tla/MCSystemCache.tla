--------------------------- MODULE MCSystemCache ----------------------------
(* SystemCache on small instances.                                          *)
EXTENDS SystemCache, TLC

Symmetry == Permutations(Nodes) \cup Permutations(Reqs)
=============================================================================
