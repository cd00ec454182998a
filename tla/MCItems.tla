------------------------------ MODULE MCItems -------------------------------
(* Items on small instances.                                                *)
EXTENDS Items

(* The order of keys of one or two digits as strings.                       *)
KeysAsText == [k \in Keys |-> IF k < 10 THEN 20 * k ELSE 2 * k + 1]
=============================================================================
