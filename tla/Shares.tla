------------------------------- MODULE Shares -------------------------------
(***************************************************************************)
(* The uses of a share (services/shares.ts): a login reads times_used and  *)
(* max_uses in one statement, verifies the password, and writes the count  *)
(* it read plus one in a second statement.  An editor may change max_uses  *)
(* and set times_used back in between.  The session a login then opens is  *)
(* modelled in Sessions.                                                   *)
(***************************************************************************)
EXTENDS ShareLimits, Integers

CONSTANTS ShareIds,  (* of the shares                                           *)
          Logins     (* logins, each of one request                             *)

VARIABLES share,     (* id -> the columns times_used and max_uses               *)
          login,     (* login -> its statement and the columns as it read them  *)
          admitted,  (* history: logins counted since times_used was set back   *)
          most,      (* history: the largest max_uses the share had             *)
          lost       (* history: the counts written over since, by a login that *)
                     (* had read the columns before them (less the counts that  *)
                     (* a login read before times_used was set back)            *)

history == <<admitted, most, lost>>
vars == <<share, login, history>>

Row(uses, max) == [timesUsed |-> uses, maxUses |-> max]
At(pc, s, uses) == [pc |-> pc, share |-> s, timesUsed |-> uses]

TypeOK ==
    /\ share \in [ShareIds -> [timesUsed : Nat, maxUses : Max]]
    /\ login \in [Logins -> [pc : {"new", "count", "done"},
                             share : ShareIds, timesUsed : Nat]]
    /\ admitted \in [ShareIds -> Nat]
    /\ most \in [ShareIds -> Max]
    /\ lost \in [ShareIds -> Int]

Init ==
    /\ share \in [ShareIds -> {Row(0, m) : m \in Max}]
    /\ login \in [Logins -> {At("new", s, 0) : s \in ShareIds}]
    /\ admitted = [s \in ShareIds |-> 0]
    /\ most = [s \in ShareIds |-> share[s].maxUses]
    /\ lost = [s \in ShareIds |-> 0]

-----------------------------------------------------------------------------

(* Mutation: a use is free up to twice. *)
AvailableTwice(s) == share[s].maxUses # Unlimited => share[s].maxUses + 1 >= share[s].timesUsed

(* WHERE max_uses IS NULL OR max_uses >= times_used *)
Available(s) == share[s].maxUses # Unlimited => share[s].maxUses >= share[s].timesUsed

(* The columns are as they were before the password was verified.          *)
Select(l) ==
    LET s == login[l].share IN
    /\ login[l].pc = "new"
    /\ Available(s)
    /\ login' = [login EXCEPT ![l] = At("count", s, share[s].timesUsed)]
    /\ UNCHANGED <<share, history>>

(* no such share, no use left, the wrong password, or a failure *)
Refuse(l) ==
    /\ login[l].pc # "done"
    /\ login' = [login EXCEPT ![l] = At("done", login[l].share, login[l].timesUsed)]
    /\ UNCHANGED <<share, history>>

Count(l) ==
    LET s == login[l].share IN
    /\ login[l].pc = "count"
    /\ share' = [share EXCEPT ![s] = Row(login[l].timesUsed + 1, @.maxUses)]
    /\ login' = [login EXCEPT ![l] = At("done", s, login[l].timesUsed)]
    /\ admitted' = [admitted EXCEPT ![s] = @ + 1]
    /\ lost' = [lost EXCEPT ![s] = @ + share[s].timesUsed - login[l].timesUsed]
    /\ UNCHANGED most

(* SharesService.updateMany, inherited: max_uses changes ...                *)
SetMaxUses(s) ==
    /\ \E m \in Max :
        /\ share' = [share EXCEPT ![s] = Row(@.timesUsed, m)]
        /\ most' = [most EXCEPT ![s] =
                        IF @ = Unlimited \/ (m # Unlimited /\ m < @) THEN @ ELSE m]
    /\ UNCHANGED <<login, admitted, lost>>

(* ... or the uses start again *)
SetBack(s) ==
    /\ share' = [share EXCEPT ![s] = Row(0, @.maxUses)]
    /\ admitted' = [admitted EXCEPT ![s] = 0]
    /\ lost' = [lost EXCEPT ![s] = 0]
    /\ UNCHANGED <<login, most>>

Next ==
    \/ \E l \in Logins : Select(l) \/ Refuse(l) \/ Count(l)
    \/ \E s \in ShareIds : SetMaxUses(s) \/ SetBack(s)

Spec == Init /\ [][Next]_vars

-----------------------------------------------------------------------------

(* Since times_used was set back, a share admits one login more than the     *)
(* largest max_uses it had, and one for each count that was written over.    *)
UsesBounded ==
    \A s \in ShareIds :
        most[s] # Unlimited => admitted[s] <= most[s] + 1 + lost[s]

-----------------------------------------------------------------------------
(* What docs say and the code does not do.                                  *)

(* docs/reference/system/shares.md on max_uses: "The maximum number of times *)
(* the shared item can be viewed", by logins that count one after another.   *)
ViewedAtMost ==
    \A s \in ShareIds :
        most[s] # Unlimited /\ lost[s] = 0 => admitted[s] <= most[s]
=============================================================================
