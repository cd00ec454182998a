------------------------ MODULE RegistrationConstants ------------------------
(***************************************************************************)
(* The columns of directus_users that a registration reads and writes, and *)
(* REGISTER_MAIL_INTERVAL (auth/drivers/local.ts).                         *)
(***************************************************************************)
EXTENDS Integers

CONSTANTS Interval,  (* between two mails to an address                         *)
          Missing    (* no account                                              *)

Account(st, t) == [status |-> st, sentAt |-> t]
Columns == [status : {"draft", "active"}, sentAt : Nat]

ASSUME RegistrationAssumption == Interval \in Nat \ {0} /\ Missing \notin Columns
==============================================================================
