------------------------------ MODULE MCAccounts ------------------------------
(* Accounts on a small instance.                                             *)
EXTENDS Accounts, TLC

Symmetry == Permutations(Users) \cup Permutations(Roles) \cup Permutations(Reqs \ Logins)

(* Bound: at the start every user has a role; requests take it away.         *)
RolesGiven == Init /\ \A u \in Present : user[u].role # None

Instance == RolesGiven /\ [][Next]_vars
=============================================================================
