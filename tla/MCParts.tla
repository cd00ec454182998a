------------------------------- MODULE MCParts -------------------------------
(* Parts on small instances.                                                 *)
EXTENDS Parts, TLC

CONSTANTS c1, c2, c3

(* "10" comes before "2" and "3".                                            *)
KeysAsText == (2 :> 2) @@ (3 :> 3) @@ (10 :> 1)

(* A collection may be in the one before it.                                 *)
Chain == (c1 :> {}) @@ (c2 :> {c1}) @@ (c3 :> {c2})

Symmetry == Permutations(Nodes) \cup Permutations(Values)

(* What EditsSaved excepts is followed until the answer that ends it, but    *)
(* without more edits of children; what readers do, beside mutations of one  *)
(* item each.                                                                *)
Followed ==
    /\ part = "edits" /\ (again \/ muddled) => saves > 0 /\ staged.update = <<>>
    /\ part = "items" /\ (cache.full \/ \E d \in Readers : reader[d].pc # "idle")
         => \A r \in Reqs : Cardinality(req[r].keys) <= 1
==============================================================================
