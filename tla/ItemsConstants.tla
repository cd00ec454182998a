--------------------------- MODULE ItemsConstants ----------------------------
(***************************************************************************)
(* The items of a collection, and the requests that ItemsService           *)
(* (services/items.ts) serves in Items.                                    *)
(***************************************************************************)
EXTENDS Naturals, Sequences, FiniteSets

CONSTANTS Keys,       (* primary keys of the collection; their order is that of  *)
                      (* the database                                            *)
          AsText,     (* key -> its place when keys are sorted as strings, as    *)
                      (* JavaScript does: "10" comes before "2"                  *)
          Existing,   (* the keys that exist at first                            *)
          Reqs,       (* mutation requests, each made once                       *)
          Admins,     (* the requests of administrators                          *)
          Readers,    (* requests that read                                      *)
          Kinds,      (* the operations requests call                            *)
          Limit,      (* MAX_BATCH_MUTATION                                      *)
          MaxDeaths,  (* bound: how many requests die with their process         *)
          None        (* no item, no request, no cached response                 *)

Operations == {"createMany", "updateMany", "updateBatch", "deleteMany", "upsertOne",
               "upsertMany"}

ASSUME ItemsAssumption ==
    /\ Keys \subseteq Nat /\ IsFiniteSet(Keys) /\ Existing \subseteq Keys /\ Admins \subseteq Reqs
    /\ Kinds \subseteq Operations
    /\ AsText \in [Keys -> Nat] /\ \A j, k \in Keys : AsText[j] = AsText[k] => j = k
    /\ Limit \in Nat \ {0} /\ MaxDeaths \in Nat
    /\ None \notin Keys \cup Reqs
==============================================================================
