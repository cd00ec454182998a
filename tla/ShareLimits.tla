----------------------------- MODULE ShareLimits -----------------------------
(***************************************************************************)
(* The values of the column max_uses of directus_shares (services/shares.ts). *)
(***************************************************************************)
EXTENDS Naturals

CONSTANTS Limits,    (* bound: the numbers an editor gives max_uses             *)
          Unlimited  (* max_uses IS NULL                                        *)

ASSUME SharesAssumption == Limits \subseteq Nat /\ Unlimited \notin Nat

Max == Limits \cup {Unlimited}
==============================================================================
