------------------------------ MODULE Replicas ------------------------------
(***************************************************************************)
(* What a configuration that every node keeps in memory promises: the      *)
(* stored configuration moves through versions, and a node always works    *)
(* with a version that was stored at some time and never goes back to an   *)
(* older one.                                                              *)
(***************************************************************************)
EXTENDS Naturals

CONSTANTS Nodes

VARIABLES version,  (* of the stored configuration                            *)
          served    (* the version each node works with                       *)

vars == <<version, served>>

Init ==
    /\ version = 0
    /\ served = [n \in Nodes |-> 0]

Write == version' = version + 1 /\ UNCHANGED served

CatchUp(n) ==
    /\ \E v \in served[n]..version : served' = [served EXCEPT ![n] = v]
    /\ UNCHANGED version

Next == Write \/ \E n \in Nodes : CatchUp(n)

Spec == Init /\ [][Next]_vars
=============================================================================
