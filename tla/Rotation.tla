------------------------------ MODULE Rotation ------------------------------
(***************************************************************************)
(* What refresh-token rotation promises, whatever the database does: every *)
(* token gets at most one successor, the successor is a token nobody has   *)
(* seen before, and every request that presents a token and is answered is *)
(* answered with that token's one successor.  Sessions implements it.      *)
(***************************************************************************)

CONSTANTS Tokens,  (* the refresh tokens nanoid(64) can return               *)
          None     (* the SQL NULL                                           *)

VARIABLES drawn,   (* the tokens handed out by nanoid so far                 *)
          succ,    (* the successor a token was rotated to, None before      *)
          answers  (* the tokens that answered the refreshes of a token      *)

vars == <<drawn, succ, answers>>

(* Tokens, successors and answers keep their types.                         *)
TypeOK ==
    /\ drawn \in SUBSET Tokens
    /\ succ \in [Tokens -> Tokens \cup {None}]
    /\ answers \in [Tokens -> SUBSET Tokens]

Init ==
    /\ drawn \in SUBSET Tokens
    /\ succ = [t \in Tokens |-> None]
    /\ answers = [t \in Tokens |-> {}]

-----------------------------------------------------------------------------

(* A login hands out the first token of a session. *)
Open ==
    /\ \E t \in Tokens \ drawn : drawn' = drawn \cup {t}
    /\ UNCHANGED <<succ, answers>>

(* The one rotation of t. *)
Rotate(t) ==
    /\ t \in drawn
    /\ succ[t] = None
    /\ \E n \in Tokens \ drawn :
        /\ drawn' = drawn \cup {n}
        /\ succ' = [succ EXCEPT ![t] = n]
    /\ UNCHANGED answers

(* A refresh of t is answered. *)
Answer(t) ==
    /\ succ[t] # None
    /\ answers' = [answers EXCEPT ![t] = @ \cup {succ[t]}]
    /\ UNCHANGED <<drawn, succ>>

Next == Open \/ \E t \in Tokens : Rotate(t) \/ Answer(t)

Spec == Init /\ [][Next]_vars
=============================================================================
