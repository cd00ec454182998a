------------------------------ MODULE MCFlows -------------------------------
(* Flows on small instances.                                                *)
EXTENDS Flows
=============================================================================
