---------------------------- MODULE ServicesProofs ---------------------------
(***************************************************************************)
(* Shares, Webhooks, Registration and Uploads, for any values of the       *)
(* constants of Parts: the inductive invariant of each, and the properties *)
(* that follow.                                                            *)
(***************************************************************************)
EXTENDS Parts, TLAPS

-----------------------------------------------------------------------------
(* Shares.  Of each login the count it carries did not exceed max_uses; of  *)
(* each share times_used counts every login but those whose count was lost. *)

Counted ==
    \A s \in ShareIds : admitted[s] = share[s].timesUsed + lost[s]

Within ==
    \A s \in ShareIds : most[s] # Unlimited =>
        /\ share[s].maxUses # Unlimited
        /\ share[s].maxUses <= most[s]
        /\ share[s].timesUsed <= most[s] + 1

Carried ==
    \A l \in Logins :
        (login[l].pc = "count" /\ most[login[l].share] # Unlimited)
            => login[l].timesUsed <= most[login[l].share]

SharesSafe == S!TypeOK /\ Counted /\ Within /\ Carried

(* A share that has a max_uses has a number there. *)
LEMMA MaxIsNumber == \A m \in S!Max : m # Unlimited => m \in Nat
  BY SharesAssumption DEF S!Max

(* The invariant holds initially. *)
LEMMA SharesInit == S!Init => SharesSafe
  <1> SUFFICES ASSUME S!Init PROVE SharesSafe
    OBVIOUS
  <1> USE SharesAssumption
  <1>1. S!TypeOK
    <2>1. share \in [ShareIds -> [timesUsed : Nat, maxUses : S!Max]]
      BY DEF S!Init, S!Row
    <2>2. \A s \in ShareIds : most[s] = share[s].maxUses /\ most \in [ShareIds -> S!Max]
      BY <2>1 DEF S!Init
    <2> QED BY <2>1, <2>2 DEF S!Init, S!TypeOK, S!At
  <1>2. Counted
    BY DEF S!Init, Counted, S!Row
  <1>3. Within
    BY DEF S!Init, Within, S!Row, S!Max
  <1>4. Carried
    BY DEF S!Init, Carried, S!At
  <1> QED BY <1>1, <1>2, <1>3, <1>4 DEF SharesSafe

(* A login reads the columns: what it carries is within max_uses. *)
LEMMA SelectStep == ASSUME SharesSafe, NEW l \in Logins, S!Select(l) PROVE SharesSafe'
  <1> USE SharesAssumption
  <1>1. S!TypeOK'
    BY DEF SharesSafe, S!TypeOK, S!Select, S!At, S!history
  <1>2. Counted'
    BY DEF SharesSafe, Counted, S!Select, S!history
  <1>3. Within'
    BY DEF SharesSafe, Within, S!Select, S!history
  <1>4. Carried'
    <2> SUFFICES ASSUME NEW k \in Logins, login'[k].pc = "count",
                        most'[login'[k].share] # Unlimited
                 PROVE login'[k].timesUsed <= most'[login'[k].share]
      BY DEF Carried
    <2>1. CASE k = l
      <3> DEFINE s == login[l].share
      <3>1. s \in ShareIds /\ login'[k] = S!At("count", s, share[s].timesUsed)
        BY <2>1 DEF SharesSafe, S!TypeOK, S!Select
      <3>2. share[s].maxUses # Unlimited /\ share[s].maxUses <= most[s]
        <4>1. most[s] # Unlimited
          BY <3>1 DEF S!Select, S!history, S!At
        <4> QED BY <3>1, <4>1 DEF SharesSafe, Within
      <3>3. share[s].timesUsed <= share[s].maxUses
        BY <3>1, <3>2 DEF S!Select, S!Available
      <3>4. /\ share[s].timesUsed \in Nat /\ share[s].maxUses \in Nat
            /\ most[s] \in Nat /\ most' = most
        BY <3>1, <3>2, MaxIsNumber DEF SharesSafe, S!TypeOK, S!Select, S!history, S!At
      <3> QED BY <3>1, <3>2, <3>3, <3>4 DEF S!At
    <2>2. CASE k # l
      BY <2>2 DEF SharesSafe, S!TypeOK, Carried, S!Select, S!history
    <2> QED BY <2>1, <2>2
  <1> QED BY <1>1, <1>2, <1>3, <1>4 DEF SharesSafe

(* A login that is refused carries nothing further. *)
LEMMA RefuseStep == ASSUME SharesSafe, NEW l \in Logins, S!Refuse(l) PROVE SharesSafe'
  <1>1. S!TypeOK'
    BY DEF SharesSafe, S!TypeOK, S!Refuse, S!At, S!history
  <1>2. Counted' /\ Within'
    BY DEF SharesSafe, Counted, Within, S!Refuse, S!history
  <1>3. Carried'
    BY DEF SharesSafe, S!TypeOK, Carried, S!Refuse, S!history, S!At
  <1> QED BY <1>1, <1>2, <1>3 DEF SharesSafe

(* A login writes its count: it is within max_uses plus one, and it counts  *)
(* every login but those that counted since it read the columns.            *)
LEMMA CountStep == ASSUME SharesSafe, NEW l \in Logins, S!Count(l) PROVE SharesSafe'
  <1> USE SharesAssumption
  <1> DEFINE s == login[l].share
  <1>1. s \in ShareIds /\ login[l].timesUsed \in Nat
    BY DEF SharesSafe, S!TypeOK
  <1>2. share'[s] = S!Row(login[l].timesUsed + 1, share[s].maxUses)
    BY <1>1 DEF SharesSafe, S!TypeOK, S!Count
  <1>3. \A t \in ShareIds \ {s} :
            share'[t] = share[t] /\ admitted'[t] = admitted[t] /\ lost'[t] = lost[t]
    BY <1>1 DEF SharesSafe, S!TypeOK, S!Count
  <1>4. S!TypeOK'
    BY <1>1 DEF SharesSafe, S!TypeOK, S!Count, S!Row, S!At
  <1>5. Counted'
    <2>1. admitted'[s] = admitted[s] + 1
      BY <1>1 DEF SharesSafe, S!TypeOK, S!Count
    <2>2. lost'[s] = lost[s] + share[s].timesUsed - login[l].timesUsed
      BY <1>1 DEF SharesSafe, S!TypeOK, S!Count
    <2>3. /\ admitted[s] = share[s].timesUsed + lost[s]
          /\ share[s].timesUsed \in Nat /\ lost[s] \in Int
      BY <1>1 DEF SharesSafe, S!TypeOK, Counted
    <2>4. admitted'[s] = share'[s].timesUsed + lost'[s]
      BY <2>1, <2>2, <2>3, <1>1, <1>2 DEF S!Row
    <2> QED BY <2>4, <1>3 DEF SharesSafe, Counted
  <1>6. Within'
    <2>1. most' = most
      BY DEF S!Count
    <2>2. most[s] # Unlimited => login[l].timesUsed <= most[s] /\ most[s] \in Nat
      BY <1>1, MaxIsNumber DEF SharesSafe, Carried, S!Count, S!TypeOK
    <2>3. most'[s] # Unlimited =>
            /\ share'[s].maxUses # Unlimited
            /\ share'[s].maxUses <= most'[s]
            /\ share'[s].timesUsed <= most'[s] + 1
      BY <2>1, <2>2, <1>1, <1>2 DEF SharesSafe, Within, S!Row
    <2> QED BY <2>1, <2>3, <1>3 DEF SharesSafe, Within
  <1>7. Carried'
    BY DEF SharesSafe, S!TypeOK, Carried, S!Count, S!At
  <1> QED BY <1>4, <1>5, <1>6, <1>7 DEF SharesSafe

(* The largest max_uses of a share never falls. *)
LEMMA SetMaxUsesStep == ASSUME SharesSafe, NEW s \in ShareIds, S!SetMaxUses(s) PROVE SharesSafe'
  <1> USE SharesAssumption
  <1>1. PICK m \in S!Max :
            /\ share' = [share EXCEPT ![s] = S!Row(share[s].timesUsed, m)]
            /\ most' = [most EXCEPT ![s] =
                            IF most[s] = Unlimited \/ (m # Unlimited /\ m < most[s])
                            THEN most[s] ELSE m]
    BY DEF S!SetMaxUses
  <1>2. login' = login /\ admitted' = admitted /\ lost' = lost
    BY DEF S!SetMaxUses
  <1>3. S!TypeOK'
    BY <1>1, <1>2 DEF SharesSafe, S!TypeOK, S!Row
  <1>4. Counted'
    BY <1>1, <1>2 DEF SharesSafe, S!TypeOK, Counted, S!Row
  <1>5. /\ share'[s] = S!Row(share[s].timesUsed, m)
        /\ \A t \in ShareIds \ {s} : share'[t] = share[t] /\ most'[t] = most[t]
        /\ share[s].timesUsed \in Nat /\ most[s] \in S!Max
    BY <1>1 DEF SharesSafe, S!TypeOK
  <1>6. most'[s] # Unlimited =>
            /\ most[s] # Unlimited /\ most[s] \in Nat /\ most'[s] \in Nat
            /\ most[s] <= most'[s] /\ m # Unlimited /\ m <= most'[s]
    BY <1>1, <1>5, MaxIsNumber DEF SharesSafe, S!TypeOK
  <1>7. Within'
    <2>1. most'[s] # Unlimited =>
            /\ share'[s].maxUses # Unlimited
            /\ share'[s].maxUses <= most'[s]
            /\ share'[s].timesUsed <= most'[s] + 1
      BY <1>5, <1>6 DEF SharesSafe, Within, S!Row
    <2> QED BY <2>1, <1>5 DEF SharesSafe, Within
  <1>8. Carried'
    <2> SUFFICES ASSUME NEW l \in Logins, login[l].pc = "count",
                        most'[login[l].share] # Unlimited
                 PROVE login[l].timesUsed <= most'[login[l].share]
      BY <1>2 DEF Carried
    <2>1. login[l].timesUsed \in Nat /\ login[l].share \in ShareIds
      BY DEF SharesSafe, S!TypeOK
    <2>2. CASE login[l].share = s
      BY <2>1, <2>2, <1>6 DEF SharesSafe, Carried
    <2>3. CASE login[l].share # s
      BY <2>1, <2>3, <1>5 DEF SharesSafe, Carried
    <2> QED BY <2>2, <2>3
  <1> QED BY <1>3, <1>4, <1>7, <1>8 DEF SharesSafe

(* A count set back to zero counts the logins from then on. *)
LEMMA SetBackStep == ASSUME SharesSafe, NEW s \in ShareIds, S!SetBack(s) PROVE SharesSafe'
  <1> USE SharesAssumption
  <1>1. S!TypeOK'
    BY DEF SharesSafe, S!TypeOK, S!SetBack, S!Row
  <1>2. Counted'
    BY DEF SharesSafe, S!TypeOK, Counted, S!SetBack, S!Row
  <1>3. Within'
    BY MaxIsNumber DEF SharesSafe, S!TypeOK, Within, S!SetBack, S!Row
  <1>4. Carried'
    BY DEF SharesSafe, S!TypeOK, Carried, S!SetBack
  <1> QED BY <1>1, <1>2, <1>3, <1>4 DEF SharesSafe

(* Every step preserves the invariant. *)
LEMMA SharesNext == SharesSafe /\ [S!Next]_(S!vars) => SharesSafe'
  <1> SUFFICES ASSUME SharesSafe, [S!Next]_(S!vars) PROVE SharesSafe'
    OBVIOUS
  <1>1. CASE UNCHANGED S!vars
    BY <1>1 DEF S!vars, S!history, SharesSafe, S!TypeOK, Counted, Within, Carried
  <1>2. ASSUME NEW l \in Logins, S!Select(l) \/ S!Refuse(l) \/ S!Count(l) PROVE SharesSafe'
    BY <1>2, SelectStep, RefuseStep, CountStep
  <1>3. ASSUME NEW s \in ShareIds, S!SetMaxUses(s) \/ S!SetBack(s) PROVE SharesSafe'
    BY <1>3, SetMaxUsesStep, SetBackStep
  <1> QED BY <1>1, <1>2, <1>3 DEF S!Next
(* Every step is one of the part itself, or leaves it as it is. *)
LEMMA SharesSteps ==
    [Next]_vars => /\ part' = part
                   /\ part = "shares" => [S!Next]_(S!vars)
  BY DEF Next, vars, ofShares, S!vars, S!history

SharesInv == part = "shares" => SharesSafe

(* The invariant holds of every behaviour of services/shares.ts. *)
THEOREM SharesInvariance == Spec => []SharesInv
  <1>1. Init => SharesInv
    BY SharesInit DEF Init, SharesInv
  <1>2. SharesInv /\ [Next]_vars => SharesInv'
    BY SharesSteps, SharesNext DEF SharesInv
  <1> QED BY <1>1, <1>2, PTL DEF Spec

(* However many logins of a share are under way, max_uses plus one are      *)
(* admitted at most, and one for each count that was written over.          *)
THEOREM UsesStayBounded == Spec => []UsesBounded
  <1>1. SharesSafe => S!UsesBounded
    <2> SUFFICES ASSUME SharesSafe, NEW s \in ShareIds, most[s] # Unlimited
                 PROVE admitted[s] <= most[s] + 1 + lost[s]
      BY DEF S!UsesBounded
    <2>1. /\ most[s] \in Nat /\ admitted[s] \in Nat /\ lost[s] \in Int
          /\ share[s].timesUsed \in Nat
      BY MaxIsNumber DEF SharesSafe, S!TypeOK
    <2> QED BY <2>1 DEF SharesSafe, Counted, Within
  <1>2. SharesInv => UsesBounded
    BY <1>1 DEF SharesInv, UsesBounded
  <1> QED BY <1>2, SharesInvariance, PTL

-----------------------------------------------------------------------------
(* Webhooks.  The news of a change is with the handlers of a node, in its   *)
(* queue, on its way, still to be published, or lost, which is recorded.    *)

(* A node has the handlers of its last read, or none while it reads.        *)
Registered ==
    \A n \in Nodes :
        /\ state[n] = "down" => reading[n] = "none" /\ handlers[n] = {}
        /\ state[n] = "registers" => reading[n] # "none"
        /\ state[n] = "subscribes" => reading[n] = "none"
        /\ reading[n] # "none" => handlers[n] = {}
        /\ (state[n] # "down" /\ reading[n] = "none") => handlers[n] = {read[n]}

(* Messages and reloads are those of nodes that have subscribed.            *)
Subscribed ==
    \A n \in Nodes : state[n] # "up" => mail[n] = 0 /\ jobs[n] = 0

(* What a node has read is the last version, or the news is on its way.     *)
Known(n) ==
    \/ state[n] = "down"
    \/ reading[n] = "table"
    \/ read[n] = version
    \/ unannounced[n]
    \/ mail[n] > 0
    \/ jobs[n] > 0
    \/ \E m \in Nodes : unpublished[m] > 0

WebhooksSafe ==
    /\ W!TypeOK
    /\ Registered
    /\ Subscribed
    /\ \A n \in Nodes : Known(n)

(* The invariant holds before any node starts. *)
LEMMA WebhooksInit == W!Init => WebhooksSafe
  BY DEF W!Init, WebhooksSafe, W!TypeOK, Registered, Subscribed, Known

(* A change is known to nobody, but its reload is to be published. *)
LEMMA ChangeStep == ASSUME WebhooksSafe, NEW n \in Nodes, W!Change(n) PROVE WebhooksSafe'
  <1>1. W!TypeOK'
    BY DEF WebhooksSafe, W!TypeOK, W!Change, W!process
  <1>2. Registered' /\ Subscribed'
    BY DEF WebhooksSafe, Registered, Subscribed, W!Change, W!process
  <1>3. unpublished'[n] > 0
    BY DEF WebhooksSafe, W!TypeOK, W!Change
  <1>4. \A k \in Nodes : Known(k)'
    BY <1>3 DEF Known
  <1> QED BY <1>1, <1>2, <1>4 DEF WebhooksSafe

(* A publication reaches who has subscribed; that the others miss it is     *)
(* recorded.                                                                *)
LEMMA PublishStep == ASSUME WebhooksSafe, NEW n \in Nodes, W!Publish(n) PROVE WebhooksSafe'
  <1>1. W!TypeOK'
    BY DEF WebhooksSafe, W!TypeOK, W!Publish, W!process
  <1>2. Registered'
    BY DEF WebhooksSafe, Registered, W!Publish, W!process
  <1>3. Subscribed'
    BY DEF WebhooksSafe, Subscribed, W!Publish, W!process
  <1>4. \A k \in Nodes : Known(k)'
    <2> SUFFICES ASSUME NEW k \in Nodes PROVE Known(k)'
      OBVIOUS
    <2>1. CASE state[k] = "up"
      <3>1. mail'[k] = mail[k] + 1 /\ mail[k] \in Nat
        BY <2>1 DEF WebhooksSafe, W!TypeOK, W!Publish
      <3> QED BY <3>1 DEF Known
    <2>2. CASE state[k] \in {"registers", "subscribes"}
      <3>1. unannounced'[k]
        BY <2>2 DEF WebhooksSafe, W!TypeOK, W!Publish
      <3> QED BY <3>1 DEF Known
    <2>3. CASE state[k] = "down"
      BY <2>3 DEF Known, W!Publish, W!process
    <2> QED BY <2>1, <2>2, <2>3 DEF WebhooksSafe, W!TypeOK
  <1> QED BY <1>1, <1>2, <1>3, <1>4 DEF WebhooksSafe

(* A lost message is recorded. *)
LEMMA LoseStep == ASSUME WebhooksSafe, NEW n \in Nodes, W!Lose(n) PROVE WebhooksSafe'
  <1>1. W!TypeOK'
    BY DEF WebhooksSafe, W!TypeOK, W!Lose, W!process
  <1>2. Registered'
    BY DEF WebhooksSafe, Registered, W!Lose, W!process
  <1>3. Subscribed'
    BY DEF WebhooksSafe, W!TypeOK, Subscribed, W!Lose, W!process
  <1>4. /\ unannounced'[n]
        /\ \A k \in Nodes \ {n} : unannounced'[k] = unannounced[k] /\ mail'[k] = mail[k]
    BY DEF WebhooksSafe, W!TypeOK, W!Lose
  <1>5. \A k \in Nodes : Known(k)'
    BY <1>4 DEF WebhooksSafe, Known, W!Lose, W!process
  <1> QED BY <1>1, <1>2, <1>3, <1>5 DEF WebhooksSafe

(* A starting node is about to read. *)
LEMMA StartStep == ASSUME WebhooksSafe, NEW n \in Nodes, W!Start(n) PROVE WebhooksSafe'
  <1>1. W!TypeOK'
    BY DEF WebhooksSafe, W!TypeOK, W!Start
  <1>2. state[n] = "down" /\ state'[n] = "registers" /\ reading'[n] = "table"
    BY DEF WebhooksSafe, W!TypeOK, W!Start
  <1>3. \A k \in Nodes \ {n} : state'[k] = state[k] /\ reading'[k] = reading[k]
    BY DEF WebhooksSafe, W!TypeOK, W!Start
  <1>4. Registered'
    BY <1>2, <1>3 DEF WebhooksSafe, Registered, W!Start
  <1>5. Subscribed'
    BY <1>2, <1>3 DEF WebhooksSafe, Subscribed, W!Start
  <1>6. \A k \in Nodes : Known(k)'
    BY <1>2, <1>3 DEF WebhooksSafe, Known, W!Start
  <1> QED BY <1>1, <1>4, <1>5, <1>6 DEF WebhooksSafe

(* A node that subscribes has the handlers of its first read. *)
LEMMA SubscribeStep == ASSUME WebhooksSafe, NEW n \in Nodes, W!Subscribe(n) PROVE WebhooksSafe'
  <1>1. W!TypeOK'
    BY DEF WebhooksSafe, W!TypeOK, W!Subscribe
  <1>2. state[n] = "subscribes" /\ state'[n] = "up"
    BY DEF WebhooksSafe, W!TypeOK, W!Subscribe
  <1>3. \A k \in Nodes \ {n} : state'[k] = state[k]
    BY DEF WebhooksSafe, W!TypeOK, W!Subscribe
  <1>4. Registered'
    BY <1>2, <1>3 DEF WebhooksSafe, Registered, W!Subscribe
  <1>5. Subscribed'
    BY <1>2, <1>3 DEF WebhooksSafe, Subscribed, W!Subscribe
  <1>6. \A k \in Nodes : Known(k)'
    BY <1>2, <1>3 DEF WebhooksSafe, Known, W!Subscribe
  <1> QED BY <1>1, <1>4, <1>5, <1>6 DEF WebhooksSafe

(* A message becomes a reload. *)
LEMMA DeliverStep == ASSUME WebhooksSafe, NEW n \in Nodes, W!Deliver(n) PROVE WebhooksSafe'
  <1>1. W!TypeOK'
    BY DEF WebhooksSafe, W!TypeOK, W!Deliver
  <1>2. state[n] = "up"
    BY DEF WebhooksSafe, W!TypeOK, Subscribed, W!Deliver
  <1>3. Registered'
    BY DEF WebhooksSafe, Registered, W!Deliver
  <1>4. Subscribed'
    BY <1>2 DEF WebhooksSafe, W!TypeOK, Subscribed, W!Deliver
  <1>5. jobs'[n] > 0 /\ \A k \in Nodes \ {n} : jobs'[k] = jobs[k] /\ mail'[k] = mail[k]
    BY DEF WebhooksSafe, W!TypeOK, W!Deliver
  <1>6. \A k \in Nodes : Known(k)'
    BY <1>5 DEF WebhooksSafe, Known, W!Deliver
  <1> QED BY <1>1, <1>3, <1>4, <1>6 DEF WebhooksSafe

(* A reload is about to read. *)
LEMMA UnregisterStep == ASSUME WebhooksSafe, NEW n \in Nodes, W!Unregister(n) PROVE WebhooksSafe'
  <1>1. W!TypeOK'
    BY DEF WebhooksSafe, W!TypeOK, W!Unregister
  <1>2. state[n] = "up" /\ reading'[n] = "table" /\ handlers'[n] = {}
    BY DEF WebhooksSafe, W!TypeOK, Subscribed, W!Unregister
  <1>3. \A k \in Nodes \ {n} :
            reading'[k] = reading[k] /\ handlers'[k] = handlers[k] /\ jobs'[k] = jobs[k]
    BY DEF WebhooksSafe, W!TypeOK, W!Unregister
  <1>4. Registered'
    BY <1>2, <1>3 DEF WebhooksSafe, Registered, W!Unregister
  <1>5. Subscribed'
    BY <1>2, <1>3 DEF WebhooksSafe, Subscribed, W!Unregister
  <1>6. \A k \in Nodes : Known(k)'
    BY <1>2, <1>3 DEF WebhooksSafe, Known, W!Unregister
  <1> QED BY <1>1, <1>4, <1>5, <1>6 DEF WebhooksSafe

(* A read is of the last version. *)
LEMMA ReadTableStep == ASSUME WebhooksSafe, NEW n \in Nodes, W!ReadTable(n) PROVE WebhooksSafe'
  <1>1. W!TypeOK'
    BY DEF WebhooksSafe, W!TypeOK, W!ReadTable
  <1>2. reading[n] = "table" /\ reading'[n] = "rows" /\ read'[n] = version
    BY DEF WebhooksSafe, W!TypeOK, W!ReadTable
  <1>3. \A k \in Nodes \ {n} :
            reading'[k] = reading[k] /\ read'[k] = read[k] /\ unannounced'[k] = unannounced[k]
    BY DEF WebhooksSafe, W!TypeOK, W!ReadTable
  <1>4. Registered'
    BY <1>2, <1>3 DEF WebhooksSafe, Registered, W!ReadTable
  <1>5. Subscribed'
    BY DEF WebhooksSafe, Subscribed, W!ReadTable
  <1>6. \A k \in Nodes : Known(k)'
    <2> SUFFICES ASSUME NEW k \in Nodes PROVE Known(k)'
      OBVIOUS
    <2>1. CASE k = n
      BY <2>1, <1>2 DEF Known, W!ReadTable
    <2>2. CASE k # n
      BY <2>2, <1>3 DEF WebhooksSafe, Known, W!ReadTable
    <2> QED BY <2>1, <2>2
  <1> QED BY <1>1, <1>4, <1>5, <1>6 DEF WebhooksSafe

(* What was read is registered, where there was no handler. *)
LEMMA RegisterStep == ASSUME WebhooksSafe, NEW n \in Nodes, W!Register(n) PROVE WebhooksSafe'
  <1>1. W!TypeOK'
    BY DEF WebhooksSafe, W!TypeOK, W!Register
  <1>2. /\ reading[n] = "rows" /\ reading'[n] = "none"
        /\ handlers[n] = {} /\ handlers'[n] = handlers[n] \cup {read[n]}
        /\ state'[n] = IF state[n] = "registers" THEN "subscribes" ELSE state[n]
    BY DEF WebhooksSafe, W!TypeOK, Registered, W!Register
  <1>3. handlers'[n] = {read[n]}
    BY <1>2
  <1>4. \A k \in Nodes \ {n} :
            reading'[k] = reading[k] /\ handlers'[k] = handlers[k] /\ state'[k] = state[k]
    BY DEF WebhooksSafe, W!TypeOK, W!Register
  <1>5. Registered'
    BY <1>2, <1>3, <1>4 DEF WebhooksSafe, Registered, W!Register
  <1>6. Subscribed'
    BY <1>2, <1>4 DEF WebhooksSafe, Subscribed, W!Register
  <1>7. \A k \in Nodes : Known(k)'
    BY <1>2, <1>4 DEF WebhooksSafe, Known, W!Register
  <1> QED BY <1>1, <1>5, <1>6, <1>7 DEF WebhooksSafe

(* A node that ends takes its messages along; that the reloads it had still *)
(* to publish are lost is recorded.                                         *)
LEMMA StopStep == ASSUME WebhooksSafe, NEW n \in Nodes, W!Stop(n) PROVE WebhooksSafe'
  <1>1. W!TypeOK'
    BY DEF WebhooksSafe, W!TypeOK, W!Stop
  <1>2. /\ state'[n] = "down" /\ reading'[n] = "none" /\ handlers'[n] = {}
        /\ mail'[n] = 0 /\ jobs'[n] = 0
    BY DEF WebhooksSafe, W!TypeOK, W!Stop
  <1>3. \A k \in Nodes \ {n} :
            /\ state'[k] = state[k] /\ reading'[k] = reading[k] /\ handlers'[k] = handlers[k]
            /\ mail'[k] = mail[k] /\ jobs'[k] = jobs[k] /\ read'[k] = read[k]
            /\ unpublished'[k] = unpublished[k]
    BY DEF WebhooksSafe, W!TypeOK, W!Stop
  <1>4. Registered'
    BY <1>2, <1>3 DEF WebhooksSafe, Registered
  <1>5. Subscribed'
    BY <1>2, <1>3 DEF WebhooksSafe, Subscribed
  <1>6. \A k \in Nodes : Known(k)'
    <2> SUFFICES ASSUME NEW k \in Nodes, k # n PROVE Known(k)'
      BY <1>2 DEF Known
    <2>1. unannounced'[k] = (unannounced[k] \/ unpublished[n] > 0) /\ version' = version
      BY DEF W!Stop
    <2>2. CASE unpublished[n] > 0
      BY <2>1, <2>2 DEF Known
    <2>3. CASE ~(unpublished[n] > 0)
      BY <2>1, <2>3, <1>3 DEF WebhooksSafe, Known
    <2> QED BY <2>2, <2>3
  <1> QED BY <1>1, <1>4, <1>5, <1>6 DEF WebhooksSafe

(* Every step preserves the invariant. *)
LEMMA WebhooksNext == WebhooksSafe /\ [W!Next]_(W!vars) => WebhooksSafe'
  <1> SUFFICES ASSUME WebhooksSafe, [W!Next]_(W!vars) PROVE WebhooksSafe'
    OBVIOUS
  <1>1. CASE UNCHANGED W!vars
    BY <1>1 DEF W!vars, W!process, WebhooksSafe, W!TypeOK, Registered, Subscribed, Known
  <1>2. ASSUME NEW n \in Nodes, W!Change(n) \/ W!Publish(n) \/ W!Lose(n) PROVE WebhooksSafe'
    BY <1>2, ChangeStep, PublishStep, LoseStep
  <1>3. ASSUME NEW n \in Nodes, W!Start(n) \/ W!Subscribe(n) \/ W!Stop(n) PROVE WebhooksSafe'
    BY <1>3, StartStep, SubscribeStep, StopStep
  <1>4. ASSUME NEW n \in Nodes, W!Deliver(n) \/ W!Unregister(n) \/ W!ReadTable(n) \/ W!Register(n)
        PROVE WebhooksSafe'
    BY <1>4, DeliverStep, UnregisterStep, ReadTableStep, RegisterStep
  <1> QED BY <1>1, <1>2, <1>3, <1>4 DEF W!Next
(* Every step is one of the part itself, or leaves it as it is. *)
LEMMA WebhooksSteps ==
    [Next]_vars => /\ part' = part
                   /\ part = "webhooks" => [W!Next]_(W!vars)
  BY DEF Next, vars, ofWebhooks, W!vars, W!process

WebhooksInv == part = "webhooks" => WebhooksSafe

(* The invariant holds of every behaviour of webhooks.ts. *)
THEOREM WebhooksInvariance == Spec => []WebhooksInv
  <1>1. Init => WebhooksInv
    BY WebhooksInit DEF Init, WebhooksInv
  <1>2. WebhooksInv /\ [Next]_vars => WebhooksInv'
    BY WebhooksSteps, WebhooksNext DEF WebhooksInv
  <1> QED BY <1>1, <1>2, PTL DEF Spec

(* A node at rest has the handlers of one read of directus_webhooks, and of *)
(* the last version of it unless a change was not announced to the node.    *)
THEOREM HandlersStayCurrent == Spec => []HandlersCurrent
  <1>1. WebhooksSafe => W!HandlersCurrent
    BY DEF WebhooksSafe, W!TypeOK, Registered, Subscribed, Known, W!HandlersCurrent, W!Quiet
  <1>2. WebhooksInv => HandlersCurrent
    BY <1>1 DEF WebhooksInv, HandlersCurrent
  <1> QED BY <1>2, WebhooksInvariance, PTL

-----------------------------------------------------------------------------
(* Registration.  A request about to insert found no account, the only      *)
(* account records the last mail unless that is not on record, and no mail  *)
(* was sent within the interval before a request that is not excused.       *)

FoundNone == \A r \in Registrants : registration[r].pc = "insert" => registration[r].alone

OnRecord ==
    (~raced /\ ~unrecorded /\ lastMail # 0) =>
        /\ R!Accounts # {}
        /\ \A s \in R!Accounts : account[s].sentAt >= lastMail

UpToSend == {"check", "insert", "reread", "send"}

Apart == lastMail = 0 \/ now - lastMail >= Interval

Due ==
    \A r \in Registrants :
        (registration[r].pc \in UpToSend /\ ~registration[r].excused /\ ~raced) => Apart

RegistrationSafe == R!TypeOK /\ FoundNone /\ R!OneAccount /\ OnRecord /\ Due

(* No account is not an account. *)
LEMMA MissingIsNone == Missing \notin R!Columns
  BY RegistrationAssumption DEF Columns, R!Columns

(* The invariant holds before the first request. *)
LEMMA RegistrationInit == R!Init => RegistrationSafe
  <1> SUFFICES ASSUME R!Init PROVE RegistrationSafe
    OBVIOUS
  <1>1. R!TypeOK
    <2>1. \A s \in Spellings : [pc |-> "new", email |-> s, account |-> s, date |-> 0,
                                excused |-> FALSE, alone |-> FALSE] \in R!Locals
      BY DEF R!Locals
    <2>2. registration \in [Registrants -> R!Locals]
      BY <2>1 DEF R!Init
    <2> QED BY <2>2, RegistrationAssumption DEF R!Init, R!TypeOK
  <1>2. FoundNone /\ Due
    BY DEF R!Init, FoundNone, Due, UpToSend
  <1>3. R!OneAccount /\ OnRecord
    BY DEF R!Init, R!OneAccount, OnRecord, R!Accounts
  <1> QED BY <1>1, <1>2, <1>3 DEF RegistrationSafe

(* What is known of an account, and of the local variables of a request.    *)
LEMMA Fields ==
    ASSUME R!TypeOK
    PROVE  /\ \A s \in R!Accounts : s \in Spellings /\ account[s] \in R!Columns
           /\ \A r \in Registrants : registration[r] \in R!Locals
  BY DEF R!TypeOK, R!Accounts

(* The other requests are as they were. *)
LEMMA OthersStep ==
    ASSUME R!TypeOK, NEW r \in Registrants, NEW x \in R!Locals,
           registration' = [registration EXCEPT ![r] = x]
    PROVE  /\ registration' \in [Registrants -> R!Locals]
           /\ registration'[r] = x
           /\ \A q \in Registrants \ {r} : registration'[q] = registration[q]
  BY DEF R!TypeOK

(* Looking the account up, a request that is not excused finds the last     *)
(* mail on record, and an interval ago.                                     *)
LEMMA LookupStep ==
    ASSUME RegistrationSafe, NEW r \in Registrants, R!Lookup(r)
    PROVE  RegistrationSafe'
  <1>1. UNCHANGED <<account, now, lastMail, unrecorded, raced>>
    BY DEF R!Lookup
  <1>2. R!TypeOK /\ registration[r] \in R!Locals /\ unrecorded \in BOOLEAN
    BY Fields DEF RegistrationSafe, R!TypeOK
  <1>3. PICK x \in R!Locals :
            /\ registration' = [registration EXCEPT ![r] = x]
            /\ x.pc # "insert"
            /\ x.pc \in UpToSend /\ ~x.excused /\ ~raced => Apart
    <2>1. CASE /\ R!Accounts = {}
               /\ registration' = [registration EXCEPT ![r].pc = "check", ![r].excused = unrecorded]
      <3> DEFINE x == [registration[r] EXCEPT !.pc = "check", !.excused = unrecorded]
      <3>1. x \in R!Locals
        BY <1>2 DEF R!Locals
      <3>0. registration' = [registration EXCEPT ![r] = x]
        BY <1>2, <2>1 DEF R!TypeOK
      <3>2. x.pc = "check" /\ x.excused = unrecorded
        BY <1>2 DEF R!Locals
      <3>3. ~unrecorded /\ ~raced => Apart
        BY <2>1 DEF RegistrationSafe, OnRecord, Apart
      <3> QED BY <3>0, <3>1, <3>2, <3>3
    <2>2. ASSUME NEW s \in R!Accounts, account[s].status = "draft", R!MailDue(s),
                 registration' = [registration EXCEPT ![r].pc = "send", ![r].account = s,
                                                      ![r].excused = unrecorded]
          PROVE \E x \in R!Locals :
                    /\ registration' = [registration EXCEPT ![r] = x]
                    /\ x.pc # "insert"
                    /\ x.pc \in UpToSend /\ ~x.excused /\ ~raced => Apart
      <3> DEFINE x == [registration[r] EXCEPT !.pc = "send", !.account = s, !.excused = unrecorded]
      <3>1. s \in Spellings /\ account[s] \in R!Columns
        BY <1>2, Fields
      <3>2. x \in R!Locals
        BY <1>2, <3>1 DEF R!Locals
      <3>0. registration' = [registration EXCEPT ![r] = x]
        BY <1>2, <2>2 DEF R!TypeOK
      <3>3. x.pc = "send" /\ x.excused = unrecorded
        BY <1>2 DEF R!Locals
      <3>4. account[s].sentAt \in Nat /\ now \in Nat /\ lastMail \in Nat
        BY <3>1 DEF RegistrationSafe, R!TypeOK, R!Columns
      <3>5. ~unrecorded /\ ~raced /\ lastMail # 0 => account[s].sentAt >= lastMail
        BY DEF RegistrationSafe, OnRecord
      <3>6. ~unrecorded /\ ~raced => Apart
        BY <2>2, <3>4, <3>5, RegistrationAssumption DEF R!MailDue, Apart
      <3> QED BY <3>0, <3>2, <3>3, <3>6
    <2>3. CASE registration' = [registration EXCEPT ![r].pc = "done"]
      <3> DEFINE x == [registration[r] EXCEPT !.pc = "done"]
      <3>1. x \in R!Locals
        BY <1>2 DEF R!Locals
      <3>0. registration' = [registration EXCEPT ![r] = x]
        BY <1>2, <2>3 DEF R!TypeOK
      <3>2. x.pc = "done"
        BY <1>2 DEF R!Locals
      <3> QED BY <3>0, <3>1, <3>2 DEF UpToSend
    <2> QED BY <2>1, <2>2, <2>3 DEF R!Lookup, R!Step
  <1>4. R!TypeOK'
    BY <1>1, <1>2, <1>3, OthersStep DEF R!TypeOK
  <1>5. FoundNone'
    BY <1>2, <1>3, OthersStep DEF RegistrationSafe, FoundNone
  <1>6. R!OneAccount' /\ OnRecord'
    BY <1>1 DEF RegistrationSafe, R!OneAccount, OnRecord, R!Accounts
  <1>7. Due'
    BY <1>1, <1>2, <1>3, OthersStep DEF RegistrationSafe, Due, Apart
  <1> QED BY <1>4, <1>5, <1>6, <1>7 DEF RegistrationSafe

(* A request that goes on to insert has found no account. *)
LEMMA CheckUniqueStep ==
    ASSUME RegistrationSafe, NEW r \in Registrants, R!CheckUnique(r)
    PROVE  RegistrationSafe'
  <1>1. UNCHANGED <<account, now, lastMail, unrecorded, raced>> /\ registration[r].pc = "check"
    BY DEF R!CheckUnique
  <1>2. R!TypeOK /\ registration[r] \in R!Locals
    BY Fields DEF RegistrationSafe
  <1>3. PICK x \in R!Locals :
            /\ registration' = [registration EXCEPT ![r] = x]
            /\ x.excused = registration[r].excused
            /\ x.pc = "insert" => x.alone
    <2> DEFINE y == [registration[r] EXCEPT !.pc = "insert", !.alone = TRUE]
               z == [registration[r] EXCEPT !.pc = "done"]
    <2>1. y \in R!Locals /\ z \in R!Locals
      BY <1>2 DEF R!Locals
    <2>2. /\ y.alone /\ z.pc = "done"
          /\ y.excused = registration[r].excused /\ z.excused = registration[r].excused
      BY <1>2 DEF R!Locals
    <2>3. \/ registration' = [registration EXCEPT ![r] = y]
          \/ registration' = [registration EXCEPT ![r] = z]
      BY <1>2 DEF R!CheckUnique, R!TypeOK
    <2> QED BY <2>1, <2>2, <2>3
  <1>4. R!TypeOK'
    BY <1>1, <1>2, <1>3, OthersStep DEF R!TypeOK
  <1>5. FoundNone'
    BY <1>2, <1>3, OthersStep DEF RegistrationSafe, FoundNone
  <1>6. R!OneAccount' /\ OnRecord'
    BY <1>1 DEF RegistrationSafe, R!OneAccount, OnRecord, R!Accounts
  <1>7. Due'
    BY <1>1, <1>2, <1>3, OthersStep DEF RegistrationSafe, Due, Apart, UpToSend
  <1> QED BY <1>4, <1>5, <1>6, <1>7 DEF RegistrationSafe

(* A second account is one that was created since its request looked. *)
LEMMA InsertStep ==
    ASSUME RegistrationSafe, NEW r \in Registrants, R!Insert(r)
    PROVE  RegistrationSafe'
  <1> DEFINE s == registration[r].email
  <1> USE DEF R!Step
  <1>1. /\ s \in Spellings \ R!Accounts
        /\ account' = [account EXCEPT ![s] = R!Account("draft", 0)]
        /\ registration' = [registration EXCEPT ![r].pc = "reread"]
        /\ UNCHANGED <<now, lastMail, unrecorded>>
    BY DEF RegistrationSafe, R!TypeOK, R!Locals, R!Insert
  <1>2. raced' = (raced \/ R!Accounts # {})
    BY DEF RegistrationSafe, FoundNone, R!Insert
  <1>3. R!Accounts' \subseteq R!Accounts \cup {s}
    BY <1>1 DEF RegistrationSafe, R!TypeOK, R!Accounts
  <1>4. R!TypeOK'
    BY <1>1, <1>2 DEF RegistrationSafe, R!TypeOK, R!Locals, R!Account, R!Columns
  <1>5. FoundNone'
    BY <1>1 DEF RegistrationSafe, R!TypeOK, FoundNone
  <1>6. R!OneAccount'
    BY <1>2, <1>3 DEF R!OneAccount
  <1>7. OnRecord'
    BY <1>1, <1>2 DEF RegistrationSafe, OnRecord
  <1>8. Due'
    <2>1. ~raced' => ~raced
      BY <1>2
    <2>2. \A q \in Registrants : registration'[q].excused = registration[q].excused
      BY <1>1 DEF RegistrationSafe, R!TypeOK, R!Locals
    <2>3. \A q \in Registrants : registration'[q].pc \in UpToSend => registration[q].pc \in UpToSend
      BY <1>1 DEF RegistrationSafe, R!TypeOK, UpToSend, R!Insert
    <2> QED BY <1>1, <2>1, <2>2, <2>3 DEF RegistrationSafe, Due, Apart
  <1> QED BY <1>4, <1>5, <1>6, <1>7, <1>8 DEF RegistrationSafe

(* The account is looked up again: a mail that is not on record excuses.    *)
LEMMA RereadStep ==
    ASSUME RegistrationSafe, NEW r \in Registrants, R!Reread(r)
    PROVE  RegistrationSafe'
  <1>1. UNCHANGED <<account, now, lastMail, unrecorded, raced>> /\ registration[r].pc = "reread"
    BY DEF R!Reread
  <1>2. R!TypeOK /\ registration[r] \in R!Locals /\ unrecorded \in BOOLEAN
    BY Fields DEF RegistrationSafe, R!TypeOK
  <1>3. PICK x \in R!Locals :
            /\ registration' = [registration EXCEPT ![r] = x]
            /\ x.pc # "insert"
            /\ ~x.excused => ~registration[r].excused
    <2>1. ASSUME NEW s \in R!Accounts,
                 registration' = [registration EXCEPT ![r].pc = "send", ![r].account = s,
                                    ![r].excused = @ \/ unrecorded]
          PROVE \E x \in R!Locals :
                    /\ registration' = [registration EXCEPT ![r] = x]
                    /\ x.pc # "insert"
                    /\ ~x.excused => ~registration[r].excused
      <3>1. PICK e \in BOOLEAN : e = (registration[r].excused \/ unrecorded)
        OBVIOUS
      <3> DEFINE x == [registration[r] EXCEPT !.pc = "send", !.account = s, !.excused = e]
      <3>2. s \in Spellings
        BY <1>2, Fields
      <3>3. x \in R!Locals
        BY <1>2, <3>2 DEF R!Locals
      <3>4. registration' = [registration EXCEPT ![r] = x]
        BY <1>2, <2>1, <3>1 DEF R!TypeOK
      <3>5. x.pc = "send" /\ x.excused = e
        BY <1>2 DEF R!Locals
      <3>6. ~e => ~registration[r].excused
        BY <3>1
      <3> QED BY <3>3, <3>4, <3>5, <3>6
    <2>2. CASE registration' = [registration EXCEPT ![r].pc = "done"]
      <3> DEFINE x == [registration[r] EXCEPT !.pc = "done"]
      <3>1. x \in R!Locals
        BY <1>2 DEF R!Locals
      <3>0. registration' = [registration EXCEPT ![r] = x]
        BY <1>2, <2>2 DEF R!TypeOK
      <3>2. x.pc = "done" /\ x.excused = registration[r].excused
        BY <1>2 DEF R!Locals
      <3> QED BY <3>0, <3>1, <3>2
    <2> QED BY <2>1, <2>2 DEF R!Reread, R!Step
  <1>4. R!TypeOK'
    BY <1>1, <1>2, <1>3, OthersStep DEF R!TypeOK
  <1>5. FoundNone'
    BY <1>2, <1>3, OthersStep DEF RegistrationSafe, FoundNone
  <1>6. R!OneAccount' /\ OnRecord'
    BY <1>1 DEF RegistrationSafe, R!OneAccount, OnRecord, R!Accounts
  <1>7. Due'
    BY <1>1, <1>2, <1>3, OthersStep DEF RegistrationSafe, Due, Apart, UpToSend
  <1> QED BY <1>4, <1>5, <1>6, <1>7 DEF RegistrationSafe

(* Every other request under way is excused by the mail that is sent. *)
LEMMA SendStep == ASSUME RegistrationSafe, NEW r \in Registrants, R!Send(r) PROVE RegistrationSafe'
  <1>1. R!TypeOK'
    BY DEF RegistrationSafe, R!TypeOK, R!Locals, R!Send
  <1>2. UNCHANGED <<account, now, raced>> /\ unrecorded' = TRUE
    BY DEF R!Send
  <1>3. FoundNone'
    BY DEF RegistrationSafe, R!TypeOK, R!Locals, FoundNone, R!Send
  <1>4. R!OneAccount' /\ OnRecord'
    BY <1>2 DEF RegistrationSafe, R!OneAccount, OnRecord, R!Accounts
  <1>5. Due'
    BY DEF RegistrationSafe, R!TypeOK, Due, R!Send, UpToSend
  <1> QED BY <1>1, <1>3, <1>4, <1>5 DEF RegistrationSafe

(* The time of the mail is taken. *)
LEMMA StampStep ==
    ASSUME RegistrationSafe, NEW r \in Registrants, R!Stamp(r)
    PROVE  RegistrationSafe'
  <1>2. UNCHANGED <<account, now, lastMail, unrecorded, raced>>
    BY DEF R!Stamp
  <1>1. R!TypeOK'
    <2>1. registration[r] \in R!Locals /\ now \in Nat
      BY DEF RegistrationSafe, R!TypeOK
    <2>2. PICK y : y = [registration[r] EXCEPT !.pc = "store", !.date = now]
      OBVIOUS
    <2>3. y \in R!Locals
      BY <2>1, <2>2 DEF R!Locals
    <2>4. registration' = [registration EXCEPT ![r] = y]
      BY <2>2 DEF RegistrationSafe, R!TypeOK, R!Stamp
    <2> QED BY <1>2, <2>3, <2>4 DEF RegistrationSafe, R!TypeOK
  <1>3. FoundNone'
    BY DEF RegistrationSafe, R!TypeOK, R!Locals, FoundNone, R!Stamp
  <1>4. R!OneAccount' /\ OnRecord'
    BY <1>2 DEF RegistrationSafe, R!OneAccount, OnRecord, R!Accounts
  <1>5. Due'
    BY <1>2 DEF RegistrationSafe, R!TypeOK, Due, Apart, R!Stamp, UpToSend
  <1> QED BY <1>1, <1>3, <1>4, <1>5 DEF RegistrationSafe

(* The only account records a time: the last mail is on record unless it is *)
(* later.                                                                   *)
LEMMA StoreDateStep ==
    ASSUME RegistrationSafe, NEW r \in Registrants, R!StoreDate(r)
    PROVE  RegistrationSafe'
  <1> DEFINE s == registration[r].account
  <1> USE DEF R!Step
  <1>1. /\ registration' = [registration EXCEPT ![r].pc = "done"]
        /\ UNCHANGED <<now, lastMail, raced>>
        /\ s \in Spellings /\ registration[r].date \in Nat
    BY DEF RegistrationSafe, R!TypeOK, R!Locals, R!StoreDate
  <1>2. FoundNone' /\ Due'
    BY <1>1 DEF RegistrationSafe, R!TypeOK, FoundNone, Due, Apart, UpToSend
  <1>3. CASE s \notin R!Accounts
    <2>1. UNCHANGED <<account, unrecorded>>
      BY <1>3 DEF R!StoreDate
    <2>2. R!TypeOK' /\ R!OneAccount' /\ OnRecord'
      BY <1>1, <2>1 DEF RegistrationSafe, R!TypeOK, R!Locals, R!OneAccount, OnRecord, R!Accounts
    <2> QED BY <1>2, <2>2 DEF RegistrationSafe
  <1>4. CASE s \in R!Accounts
    <2>1. /\ account' = [account EXCEPT ![s].sentAt = registration[r].date]
          /\ unrecorded' = (registration[r].date < lastMail)
      BY <1>4 DEF R!StoreDate
    <2>2. account[s] \in R!Columns
      BY <1>4, Fields DEF RegistrationSafe
    <2>3. [account[s] EXCEPT !.sentAt = registration[r].date] \in R!Columns
      BY <1>1, <2>2 DEF R!Columns
    <2>4. account'[s] \in R!Columns /\ account'[s].sentAt = registration[r].date
      BY <1>1, <2>1, <2>2, <2>3 DEF RegistrationSafe, R!TypeOK, R!Columns
    <2>5. \A t \in Spellings \ {s} : account'[t] = account[t]
      BY <2>1 DEF RegistrationSafe, R!TypeOK
    <2>6. R!Accounts' = R!Accounts
      BY <1>1, <1>4, <2>4, <2>5, MissingIsNone DEF R!Accounts
    <2>7. R!TypeOK'
      BY <1>1, <2>1, <2>3 DEF RegistrationSafe, R!TypeOK, R!Locals
    <2>8. R!OneAccount'
      BY <1>1, <2>6 DEF RegistrationSafe, R!OneAccount
    <2>9. OnRecord'
      <3> SUFFICES ASSUME ~raced, ~unrecorded'
          PROVE \A t \in R!Accounts : account'[t].sentAt >= lastMail
        BY <1>1, <1>4, <2>6 DEF OnRecord
      <3>1. R!Accounts = {s}
        BY <1>4 DEF RegistrationSafe, R!OneAccount
      <3>2. registration[r].date >= lastMail
        <4>1. ~(registration[r].date < lastMail)
          BY <2>1
        <4> QED BY <1>1, <4>1 DEF RegistrationSafe, R!TypeOK
      <3> QED BY <3>1, <3>2, <2>4
    <2> QED BY <1>2, <2>7, <2>8, <2>9 DEF RegistrationSafe
  <1> QED BY <1>3, <1>4

(* A request that fails is through. *)
LEMMA FailStep == ASSUME RegistrationSafe, NEW r \in Registrants, R!Fail(r) PROVE RegistrationSafe'
  <1> USE DEF R!Step
  <1>1. R!TypeOK' /\ FoundNone'
    BY DEF RegistrationSafe, R!TypeOK, R!Locals, FoundNone, R!Fail
  <1>2. R!OneAccount' /\ OnRecord'
    BY DEF RegistrationSafe, R!OneAccount, OnRecord, R!Accounts, R!Fail
  <1>3. Due'
    BY DEF RegistrationSafe, R!TypeOK, Due, Apart, R!Fail, UpToSend
  <1> QED BY <1>1, <1>2, <1>3 DEF RegistrationSafe

(* What is done to an account keeps its record of the mail, or excuses.     *)
LEMMA AccountStep ==
    ASSUME RegistrationSafe, NEW s \in Spellings,
           R!VerifyEmail(s) \/ R!Redraft(s) \/ R!DeleteAccount(s)
    PROVE  RegistrationSafe'
  <1>1. UNCHANGED <<registration, now, lastMail, raced>>
    BY DEF R!VerifyEmail, R!Redraft, R!DeleteAccount
  <1>2. FoundNone' /\ Due'
    BY <1>1 DEF RegistrationSafe, FoundNone, Due, Apart
  <1>3. s \in R!Accounts /\ account[s] \in R!Columns
    BY Fields DEF RegistrationSafe, R!VerifyEmail, R!Redraft, R!DeleteAccount
  <1>4. R!TypeOK'
    <2>1. /\ R!Account("active", 0) \in R!Columns
          /\ R!Account("draft", account[s].sentAt) \in R!Columns
      BY <1>3 DEF R!Account, R!Columns
    <2>2. account' \in [Spellings -> R!Columns \cup {Missing}]
      BY <2>1 DEF RegistrationSafe, R!TypeOK, R!VerifyEmail, R!Redraft, R!DeleteAccount
    <2>3. unrecorded' \in BOOLEAN
      BY DEF RegistrationSafe, R!TypeOK, R!VerifyEmail, R!Redraft, R!DeleteAccount
    <2> QED BY <1>1, <2>2, <2>3 DEF RegistrationSafe, R!TypeOK
  <1>5. R!Accounts' \subseteq R!Accounts
    BY <1>3 DEF RegistrationSafe, R!TypeOK, R!Accounts, R!VerifyEmail, R!Redraft, R!DeleteAccount
  <1>6. R!OneAccount'
    BY <1>1, <1>5 DEF RegistrationSafe, R!OneAccount
  <1>7. OnRecord'
    <2>1. CASE R!VerifyEmail(s) \/ R!DeleteAccount(s)
      BY <2>1 DEF OnRecord, R!VerifyEmail, R!DeleteAccount
    <2>2. CASE R!Redraft(s)
      <3>1. unrecorded' = unrecorded
        BY <2>2 DEF R!Redraft
      <3>2. account'[s] = R!Account("draft", account[s].sentAt)
        BY <2>2 DEF RegistrationSafe, R!TypeOK, R!Redraft
      <3>3. account'[s] \in R!Columns /\ account'[s].sentAt = account[s].sentAt
        BY <1>3, <3>2 DEF R!Columns, R!Account
      <3>4. \A t \in Spellings \ {s} : account'[t] = account[t]
        BY <2>2 DEF RegistrationSafe, R!TypeOK, R!Redraft
      <3>5. R!Accounts' = R!Accounts
        BY <1>3, <3>3, <3>4, MissingIsNone DEF R!Accounts
      <3>6. \A t \in R!Accounts : account'[t].sentAt = account[t].sentAt
        BY <3>3, <3>4 DEF R!Accounts
      <3> QED BY <1>1, <3>1, <3>5, <3>6 DEF RegistrationSafe, OnRecord
    <2> QED BY <2>1, <2>2
  <1> QED BY <1>2, <1>4, <1>6, <1>7 DEF RegistrationSafe

(* The clock is not moved back: what is apart stays apart. *)
LEMMA TickStep == ASSUME RegistrationSafe, R!Tick PROVE RegistrationSafe'
  <1>1. UNCHANGED <<account, registration, lastMail, unrecorded, raced>> /\ now' = now + 1
    BY DEF R!Tick
  <1>2. now \in Nat /\ lastMail \in Nat
    BY DEF RegistrationSafe, R!TypeOK
  <1>3. Apart => Apart'
    BY <1>1, <1>2, RegistrationAssumption DEF Apart
  <1>4. R!TypeOK' /\ FoundNone' /\ R!OneAccount' /\ OnRecord'
    BY <1>1, <1>2 DEF RegistrationSafe, R!TypeOK, FoundNone, R!OneAccount, OnRecord, R!Accounts
  <1>5. Due'
    BY <1>1, <1>3 DEF RegistrationSafe, Due
  <1> QED BY <1>4, <1>5 DEF RegistrationSafe

(* Every step preserves the invariant. *)
LEMMA RegistrationNext == RegistrationSafe /\ [R!Next]_(R!vars) => RegistrationSafe'
  <1> SUFFICES ASSUME RegistrationSafe, [R!Next]_(R!vars) PROVE RegistrationSafe'
    OBVIOUS
  <1>1. CASE UNCHANGED R!vars
    BY <1>1 DEF R!vars, RegistrationSafe, R!TypeOK, FoundNone, R!OneAccount, OnRecord, Due, Apart,
       R!Accounts
  <1>2. ASSUME NEW r \in Registrants, R!Lookup(r) \/ R!CheckUnique(r) \/ R!Insert(r) \/ R!Reread(r)
                               \/ R!Send(r) \/ R!Stamp(r) \/ R!StoreDate(r) \/ R!Fail(r)
        PROVE RegistrationSafe'
    BY <1>2, LookupStep, CheckUniqueStep, InsertStep, RereadStep, SendStep, StampStep,
       StoreDateStep, FailStep
  <1>3. ASSUME NEW s \in Spellings, R!VerifyEmail(s) \/ R!Redraft(s) \/ R!DeleteAccount(s)
        PROVE RegistrationSafe'
    BY <1>3, AccountStep
  <1> QED BY <1>1, <1>2, <1>3, TickStep DEF R!Next
(* Every step is one of the part itself, or leaves it as it is. *)
LEMMA RegistrationSteps ==
    [Next]_vars => /\ part' = part
                   /\ part = "registration" => [R!Next]_(R!vars)
  BY DEF Next, vars, ofRegistration, R!vars

RegistrationInv == part = "registration" => RegistrationSafe

(* The invariant holds of every behaviour of registerUser. *)
THEOREM RegistrationInvariance == Spec => []RegistrationInv
  <1>1. Init => RegistrationInv
    BY RegistrationInit DEF Init, RegistrationInv
  <1>2. RegistrationInv /\ [Next]_vars => RegistrationInv'
    BY RegistrationSteps, RegistrationNext DEF RegistrationInv
  <1> QED BY <1>1, <1>2, PTL DEF Spec

(* However an address is spelled and however many requests register it, a   *)
(* second account is created only by requests that looked before the first. *)
THEOREM AccountIsUnique == Spec => []OneAccount
  <1>1. RegistrationInv => OneAccount
    BY DEF RegistrationInv, RegistrationSafe, OneAccount
  <1> QED BY <1>1, RegistrationInvariance, PTL

(* However many requests register the address, two mails are the interval   *)
(* apart unless one of the reasons of MailsApart holds.                     *)
THEOREM MailsStayApart == Spec => MailsApart
  <1>1. RegistrationInv /\ [Next]_vars => [part = "registration" => R!SendsApart]_vars
    <2> SUFFICES ASSUME RegistrationSafe, NEW r \in Registrants, R!Send(r),
                        ~registration[r].excused, ~raced
                 PROVE Apart
      BY DEF RegistrationInv, R!SendsApart, Apart
    <2>1. registration[r].pc = "send"
      BY DEF R!Send
    <2> QED BY <2>1 DEF RegistrationSafe, Due, UpToSend
  <1> QED BY <1>1, RegistrationInvariance, PTL DEF Spec, MailsApart

-----------------------------------------------------------------------------
(* Uploads.  Of a file at rest the row describes its bytes, and the storage *)
(* holds nothing else; of a file that changes, the request that changes it  *)
(* is the only one, and it has written and deleted what its step says.      *)

Clean(f) == mishaps[f] \cap {"failed", "overlapped"} = {}
Untouched(f) == mishaps[f] = {}

(* The names of a file that the storage holds. *)
Held(f) == {n \in U!Names : n.file = f /\ stored[n] # "absent"}

(* A row has its bytes and describes them. *)
Whole(f) ==
    U!Exists(f) =>
        /\ row[f].ext # None
        /\ row[f].describes \in Transfers
        /\ stored[U!Name(f, row[f].location, row[f].ext, FALSE)] = row[f].describes

(* What the storage holds of a file are the bytes of its row, and images    *)
(* derived from them or being written.                                      *)
Owned(f) ==
    \A n \in Held(f) :
        /\ U!Exists(f)
        /\ row[f].location = n.location
        /\ row[f].ext = n.ext
        /\ \/ row[f].describes = stored[n]
           \/ n.derived /\ \E q \in Transfers : upload[q].pc = "store" /\ U!Asset(q) = n

AtRest(f) ==
    U!Changing(f) = {} => /\ Clean(f) => Whole(f)
                          /\ Untouched(f) => Owned(f)

(* A change under way is the only one, unless changes overlapped. *)
Alone(r) ==
    LET f == upload[r].file IN
    Clean(f) => \A q \in U!Changing(f) : q = r

(* How far the bytes of an upload are written, and when a deletion has left *)
(* the row alone.                                                           *)
Bytes(r) ==
    LET f == upload[r].file IN
    Clean(f) =>
        /\ upload[r].pc = "remove" => Whole(f)
        /\ upload[r].kind = "delete" /\ upload[r].pc # "remove" => ~U!Exists(f)
        /\ upload[r].pc = "write" => stored[U!Target(r)] = "partial"
        /\ upload[r].pc \in {"stat", "describe"} => stored[U!Target(r)] = r
        /\ upload[r].pc = "describe" => upload[r].contents = r

(* What the storage still holds of the file. *)
Leftovers(r) ==
    LET f == upload[r].file IN
    Untouched(f) =>
        /\ upload[r].kind = "upload" \/ upload[r].pc = "remove" => U!Exists(f)
        /\ upload[r].pc = "remove" => Owned(f) /\ row[f].location = upload[r].location
        /\ upload[r].pc = "list" => \A n \in Held(f) : n.location = upload[r].location
        /\ upload[r].pc = "delete" => Held(f) \subseteq upload[r].names
        /\ upload[r].pc = "open" => Held(f) = {}
        /\ upload[r].pc \in {"write", "stat", "describe"} => Held(f) \subseteq {U!Target(r)}

Midway(r) == row[upload[r].file] # New /\ Alone(r) /\ Bytes(r) /\ Leftovers(r)

(* What a request does, and to which names. *)
Placed(r) ==
    /\ upload[r].kind = "upload" =>
            upload[r].pc \in {"idle", "list", "delete", "open", "write", "stat", "describe", "done"}
    /\ upload[r].kind = "delete" => upload[r].pc \in {"idle", "remove", "list", "delete", "done"}
    /\ upload[r].kind = "asset" =>
            upload[r].pc \in {"idle", "original", "derived", "derive", "store", "done"}
    /\ \A n \in upload[r].names : n.file = upload[r].file
    /\ upload[r].pc = "store" => upload[r].contents \in Transfers

FileSafe(f) == AtRest(f) /\ \A r \in U!Changing(f) : Midway(r)

UploadsSafe ==
    /\ U!TypeOK
    /\ \A r \in Transfers : Placed(r)
    /\ \A f \in Files : FileSafe(f)

(* A request changes its own variables, and its own file. *)
Local(r) ==
    /\ upload'[r].file = upload[r].file
    /\ upload'[r].kind = upload[r].kind
    /\ \A q \in Transfers \ {r} : upload'[q] = upload[q]
    /\ \A g \in Files \ {upload[r].file} : row'[g] = row[g] /\ mishaps'[g] = mishaps[g]
    /\ \A n \in U!Names : n.file # upload[r].file => stored'[n] = stored[n]

(* The invariant holds before the first request. *)
LEMMA UploadsInit == U!Init => UploadsSafe
  <1> SUFFICES ASSUME U!Init PROVE UploadsSafe
    OBVIOUS
  <1>1. U!TypeOK
    <2>1. upload \in [Transfers -> U!Locals]
      BY DEF U!Init, U!Steps, U!Locals, U!Contents
    <2> QED BY <2>1 DEF U!Init, U!TypeOK, U!Contents
  <1>2. \A r \in Transfers : upload[r].pc = "idle" /\ upload[r].names = {}
    BY DEF U!Init
  <1>3. \A r \in Transfers : Placed(r)
    BY <1>2 DEF Placed
  <1>4. ASSUME NEW f \in Files PROVE FileSafe(f)
    <2>1. U!Changing(f) = {}
      BY <1>2 DEF U!Changing
    <2>2. ~U!Exists(f) /\ Held(f) = {}
      BY DEF U!Init, U!Exists, Held
    <2> QED BY <2>1, <2>2 DEF FileSafe, AtRest, Whole, Owned
  <1> QED BY <1>1, <1>3, <1>4 DEF UploadsSafe

(* What is known of the local variables of a request. *)
LEMMA RequestFields ==
    ASSUME U!TypeOK, NEW r \in Transfers
    PROVE  /\ upload[r] \in [pc : U!Steps, kind : {"upload", "delete", "asset"}, file : Files,
                             location : Locations, ext : Exts, names : SUBSET U!Names,
                             contents : U!Contents]
           /\ U!Target(r) \in U!Names /\ U!Target(r).file = upload[r].file
           /\ U!Target(r).derived = FALSE
           /\ U!Asset(r) \in U!Names /\ U!Asset(r).file = upload[r].file
           /\ U!Asset(r).derived = TRUE
  BY DEF U!TypeOK, U!Locals, U!Target, U!Asset, U!Name, U!Names

(* Most steps of a request move its pc, and leave the rest. *)
Moved(x, p) == [x EXCEPT !.pc = p]

LEMMA MovedFields ==
    ASSUME NEW x \in U!Locals, NEW p \in U!Steps
    PROVE  /\ Moved(x, p) \in U!Locals /\ Moved(x, p).pc = p
           /\ Moved(x, p).kind = x.kind /\ Moved(x, p).file = x.file
           /\ Moved(x, p).location = x.location /\ Moved(x, p).ext = x.ext
           /\ Moved(x, p).names = x.names /\ Moved(x, p).contents = x.contents
  BY DEF U!Locals, Moved

(* A row has its bytes while neither changes. *)
LEMMA WholeStays ==
    ASSUME U!TypeOK, NEW f \in Files, Whole(f), row'[f] = row[f],
           \A n \in U!Names : n.file = f /\ ~n.derived => stored'[n] = stored[n]
    PROVE  Whole(f)'
  <1> SUFFICES ASSUME U!Exists(f) PROVE Whole(f)'
    BY DEF Whole, U!Exists
  <1>1. row[f] \in U!Rows /\ row[f].ext # None
    BY DEF U!TypeOK, U!Exists, Whole
  <1>2. U!Name(f, row[f].location, row[f].ext, FALSE) \in U!Names
    BY <1>1 DEF U!Rows, U!Names, U!Name
  <1>3. /\ U!Name(f, row[f].location, row[f].ext, FALSE).file = f
        /\ ~U!Name(f, row[f].location, row[f].ext, FALSE).derived
    BY DEF U!Name
  <1> QED BY <1>2, <1>3 DEF Whole, U!Exists

(* What is stored belongs to the row while neither changes, and who writes  *)
(* goes on.                                                                 *)
LEMMA OwnedStays ==
    ASSUME U!TypeOK, NEW f \in Files, Owned(f), row'[f] = row[f],
           \A n \in U!Names : n.file = f => stored'[n] = stored[n],
           \A q \in Transfers :
                upload[q].file = f /\ upload[q].pc = "store" => upload'[q] = upload[q]
    PROVE  Owned(f)'
  <1>1. Held(f)' = Held(f) /\ \A n \in Held(f) : stored'[n] = stored[n]
    BY DEF Held
  <1>2. ASSUME NEW n \in Held(f), NEW q \in Transfers, upload[q].pc = "store", U!Asset(q) = n
        PROVE  upload'[q].pc = "store" /\ U!Asset(q)' = n
    <2>1. upload[q].file = f
      BY <1>2, RequestFields DEF Held
    <2> QED BY <1>2, <2>1 DEF U!Asset
  <1> QED BY <1>1, <1>2 DEF Owned, U!Exists

(* A file that a step does not touch is as safe as it was. *)
LEMMA Elsewhere ==
    ASSUME UploadsSafe, NEW r \in Transfers, Local(r),
           NEW g \in Files, g # upload[r].file
    PROVE  FileSafe(g)'
  <1>1. /\ row'[g] = row[g] /\ mishaps'[g] = mishaps[g]
        /\ \A n \in U!Names : n.file = g => stored'[n] = stored[n]
        /\ \A q \in Transfers : upload'[q].file = upload[q].file
        /\ \A q \in Transfers : upload[q].file = g => upload'[q] = upload[q]
    BY DEF Local
  <1>2. U!Changing(g)' = U!Changing(g)
    BY <1>1 DEF U!Changing
  <1>3. Held(g)' = Held(g) /\ \A n \in Held(g) : stored'[n] = stored[n]
    BY <1>1 DEF Held
  <1>4. Clean(g)' = Clean(g) /\ Untouched(g)' = Untouched(g) /\ U!Exists(g)' = U!Exists(g)
    BY <1>1 DEF Clean, Untouched, U!Exists
  <1>5. Whole(g) => Whole(g)'
    BY <1>1, WholeStays DEF UploadsSafe
  <1>6. Owned(g) => Owned(g)'
    BY <1>1, OwnedStays DEF UploadsSafe
  <1>7. AtRest(g)'
    BY <1>2, <1>4, <1>5, <1>6 DEF UploadsSafe, FileSafe, AtRest
  <1>8. ASSUME NEW q \in U!Changing(g) PROVE Midway(q)'
    <2>1. q \in Transfers /\ upload[q].file = g /\ upload'[q] = upload[q]
      BY <1>1 DEF U!Changing
    <2>2. Midway(q)
      BY <1>8 DEF UploadsSafe, FileSafe
    <2>3. U!Target(q)' = U!Target(q) /\ stored'[U!Target(q)] = stored[U!Target(q)]
      BY <1>1, <2>1, RequestFields DEF UploadsSafe, U!Target
    <2>4. Alone(q)'
      BY <1>2, <1>4, <2>1, <2>2 DEF Midway, Alone
    <2>5. Bytes(q)'
      BY <1>4, <1>5, <2>1, <2>2, <2>3 DEF Midway, Bytes
    <2>6. Leftovers(q)'
      BY <1>1, <1>3, <1>4, <1>6, <2>1, <2>2, <2>3 DEF Midway, Leftovers
    <2> QED BY <1>1, <2>1, <2>2, <2>4, <2>5, <2>6 DEF Midway
  <1> QED BY <1>2, <1>7, <1>8 DEF FileSafe

(* What is left to show of a step. *)
LEMMA UploadsStep ==
    ASSUME UploadsSafe, NEW r \in Transfers, NEW f \in Files, f = upload[r].file,
           U!TypeOK', Placed(r)', Local(r), FileSafe(f)'
    PROVE  UploadsSafe'
  <1>1. ASSUME NEW q \in Transfers PROVE Placed(q)'
    BY DEF UploadsSafe, Local, Placed
  <1>2. ASSUME NEW g \in Files PROVE FileSafe(g)'
    BY Elsewhere
  <1> QED BY <1>1, <1>2 DEF UploadsSafe

(* A step of the only change that is under way, of the first of several     *)
(* that overlap, or of one that overlaps others, which is recorded.         *)
LEMMA FileChangeStep ==
    ASSUME UploadsSafe, NEW r \in Transfers, Local(r), NEW f \in Files, f = upload[r].file,
           row'[f] # New, mishaps[f] \subseteq mishaps'[f],
           \A q \in U!Changing(f) : q # r => ~Clean(f)',
           r \in U!Changing(f)' => Bytes(r)' /\ Leftovers(r)',
           U!Changing(f)' = {} => /\ Clean(f)' => Whole(f)'
                                  /\ Untouched(f)' => Owned(f)'
    PROVE  FileSafe(f)'
  <1>1. AtRest(f)'
    BY DEF AtRest
  <1>2. ASSUME NEW q \in U!Changing(f)' PROVE Midway(q)'
    <2>1. q \in Transfers /\ upload'[q].file = f
      BY DEF U!Changing
    <2>2. CASE q = r
      <3>1. ASSUME Clean(f)', NEW p \in U!Changing(f)' PROVE p = r
        BY <3>1 DEF U!Changing, Local
      <3>2. Alone(r)'
        BY <2>1, <2>2, <3>1 DEF Alone
      <3> QED BY <1>2, <2>1, <2>2, <3>2 DEF Midway
    <2>3. CASE q # r
      <3>1. q \in U!Changing(f)
        BY <2>1, <2>3, <1>2 DEF U!Changing, Local
      <3>2. ~Clean(f)'
        BY <2>3, <3>1
      <3>3. ~Untouched(f)'
        BY <3>2 DEF Clean, Untouched
      <3> QED BY <2>1, <3>2, <3>3 DEF Midway, Alone, Bytes, Leftovers
    <2> QED BY <2>2, <2>3
  <1> QED BY <1>1, <1>2 DEF FileSafe

(* A change that has begun is the only one, unless changes overlapped. *)
LEMMA OnlyChange ==
    ASSUME UploadsSafe, NEW r \in Transfers, NEW f \in Files, f = upload[r].file,
           r \in U!Changing(f), mishaps[f] \subseteq mishaps'[f]
    PROVE  /\ Midway(r)
           /\ Clean(f)' => Clean(f)
           /\ Untouched(f)' => Untouched(f) /\ Clean(f)
           /\ \A q \in U!Changing(f) : q # r => ~Clean(f)'
  <1>1. Midway(r)
    BY DEF UploadsSafe, FileSafe
  <1>2. Clean(f)' => Clean(f)
    BY DEF Clean
  <1>3. Untouched(f)' => Untouched(f) /\ Clean(f)
    BY DEF Clean, Untouched
  <1> QED BY <1>1, <1>2, <1>3 DEF Midway, Alone

(* A step of a request for an asset leaves the rows and the bytes alone,    *)
(* and what it writes while the file changes is recorded.                   *)
LEMMA AssetStep ==
    ASSUME UploadsSafe, NEW r \in Transfers, Local(r), NEW f \in Files, f = upload[r].file,
           upload[r].kind = "asset", row' = row, mishaps[f] \subseteq mishaps'[f],
           \A n \in U!Names : ~n.derived => stored'[n] = stored[n],
           (Untouched(f)' /\ U!Changing(f) # {}) => stored' = stored /\ upload[r].pc # "store",
           (Untouched(f)' /\ U!Changing(f) = {}) => Owned(f)'
    PROVE  FileSafe(f)'
  <1>1. U!Changing(f)' = U!Changing(f) /\ r \notin U!Changing(f)
    BY DEF U!Changing, Local
  <1>2. /\ Clean(f)' => Clean(f)
        /\ Untouched(f)' => Untouched(f)
        /\ U!Exists(f)' = U!Exists(f)
    BY DEF Clean, Untouched, U!Exists
  <1>3. Whole(f) => Whole(f)'
    BY WholeStays DEF UploadsSafe
  <1>4. AtRest(f)'
    BY <1>1, <1>2, <1>3 DEF UploadsSafe, FileSafe, AtRest
  <1>5. ASSUME NEW q \in U!Changing(f) PROVE Midway(q)'
    <2>1. q \in Transfers /\ upload[q].file = f /\ upload'[q] = upload[q]
      BY <1>1 DEF U!Changing, Local
    <2>2. Midway(q)
      BY <1>5 DEF UploadsSafe, FileSafe
    <2>3. U!Target(q)' = U!Target(q) /\ stored'[U!Target(q)] = stored[U!Target(q)]
      BY <2>1, RequestFields DEF UploadsSafe, U!Target
    <2>4. Alone(q)'
      BY <1>1, <1>2, <2>1, <2>2 DEF Midway, Alone
    <2>5. Bytes(q)'
      BY <1>2, <1>3, <2>1, <2>2, <2>3 DEF Midway, Bytes
    <2>6. Untouched(f)' => Held(f)' = Held(f)
      BY <1>5 DEF Held
    <2>7. Untouched(f)' /\ Owned(f) => Owned(f)'
      BY <1>5, OwnedStays DEF UploadsSafe, Local
    <2>8. Leftovers(q)'
      BY <1>2, <2>1, <2>2, <2>3, <2>6, <2>7 DEF Midway, Leftovers
    <2> QED BY <2>1, <2>2, <2>4, <2>5, <2>8 DEF Midway
  <1> QED BY <1>1, <1>4, <1>5 DEF FileSafe

(* A row is created where there was none: nothing is stored of the file. *)
LEMMA CreateRowStep == ASSUME UploadsSafe, NEW r \in Transfers, U!CreateRow(r) PROVE UploadsSafe'
  <1>0. PICK f \in Files : f = upload[r].file
    BY RequestFields DEF UploadsSafe
  <1> USE DEF U!Step
  <1>1. /\ f \in Files /\ upload[r].pc = "idle" /\ upload[r].kind = "upload" /\ row[f] = New
        /\ upload[r].location \in Locations
    BY <1>0, RequestFields DEF UploadsSafe, U!CreateRow
  <1>2. /\ upload'[r] = [upload[r] EXCEPT !.pc = "open"]
        /\ \A q \in Transfers \ {r} : upload'[q] = upload[q]
        /\ UNCHANGED <<stored, mishaps>>
    BY DEF UploadsSafe, U!TypeOK, U!CreateRow
  <1>3. /\ row'[f] = U!Row(upload[r].location, None, None)
        /\ \A g \in Files \ {f} : row'[g] = row[g]
    BY <1>0, <1>1 DEF UploadsSafe, U!TypeOK, U!CreateRow
  <1>4. row'[f] \in U!Rows
    BY <1>0, <1>1, <1>3 DEF U!Rows, U!Row
  <1>5. U!TypeOK'
    <2>1. row' \in [Files -> U!Rows \cup {New, Gone}]
      BY <1>0, <1>1, <1>3, <1>4 DEF UploadsSafe, U!TypeOK, U!CreateRow
    <2> QED BY <2>1, <1>2 DEF UploadsSafe, U!TypeOK, U!CreateRow, U!Steps, U!Locals
  <1>6. Placed(r)' /\ Local(r)
    BY <1>0, <1>1, <1>2, <1>3, RequestFields DEF UploadsSafe, Placed, Local
  <1>7. U!Changing(f) = {}
    BY <1>0, <1>1 DEF UploadsSafe, FileSafe, Midway, U!Changing
  <1>8. Bytes(r)'
    BY <1>0, <1>1, <1>2, RequestFields DEF UploadsSafe, Bytes
  <1>9. Leftovers(r)'
    <2>1. Untouched(f)' => Held(f)' = {}
      BY <1>0, <1>1, <1>2, <1>7 DEF UploadsSafe, FileSafe, AtRest, Owned, U!Exists, Held, Untouched
    <2> QED BY <1>0, <1>1, <1>2, <1>4, <2>1, RequestFields, UploadsAssumption
            DEF UploadsSafe, Leftovers, U!Exists
  <1>10. r \in U!Changing(f)'
    BY <1>0, <1>1, <1>2, RequestFields DEF UploadsSafe, U!Changing
  <1>11. FileSafe(f)'
    BY <1>0, <1>1, <1>2, <1>4, <1>6, <1>7, <1>8, <1>9, <1>10, FileChangeStep, UploadsAssumption
  <1> QED BY <1>0, <1>1, <1>5, <1>6, <1>11, UploadsStep

(* A replacement that overlaps no change, and neither moves nor recreates   *)
(* the file, finds what is stored of it in its location.                    *)
LEMMA ReplaceRowStep == ASSUME UploadsSafe, NEW r \in Transfers, U!ReplaceRow(r) PROVE UploadsSafe'
  <1>0. PICK f \in Files : f = upload[r].file
    BY RequestFields DEF UploadsSafe
  <1> USE DEF U!Step
  <1>1. /\ upload[r].pc = "idle" /\ upload[r].kind = "upload" /\ row[f] # New
        /\ upload[r].location \in Locations
    BY <1>0, RequestFields DEF UploadsSafe, U!ReplaceRow
  <1>2. /\ upload'[r] = [upload[r] EXCEPT !.pc = "list"]
        /\ \A q \in Transfers \ {r} : upload'[q] = upload[q]
        /\ stored' = stored
    BY DEF UploadsSafe, U!TypeOK, U!ReplaceRow
  <1>3. /\ U!Exists(f) => /\ row[f] \in U!Rows
                          /\ row'[f] = [row[f] EXCEPT !.location = upload[r].location]
        /\ ~U!Exists(f) => row'[f] = row[f]
        /\ \A g \in Files \ {f} : row'[g] = row[g]
    BY <1>0, <1>1 DEF UploadsSafe, U!TypeOK, U!ReplaceRow, U!Exists
  <1>4. /\ U!Exists(f) => row'[f] \in U!Rows /\ row'[f].location = upload[r].location
        /\ row'[f] # New
    BY <1>1, <1>3, UploadsAssumption DEF U!Rows
  <1>5. /\ mishaps[f] \subseteq mishaps'[f]
        /\ \A g \in Files \ {f} : mishaps'[g] = mishaps[g]
        /\ U!Changing(f) # {} => "overlapped" \in mishaps'[f]
        /\ ~U!Exists(f) => "recreated" \in mishaps'[f]
        /\ U!Exists(f) /\ row[f].location # upload[r].location => "moved" \in mishaps'[f]
        /\ mishaps' \in [Files -> SUBSET U!Mishaps]
    BY <1>0 DEF UploadsSafe, U!TypeOK, U!ReplaceRow, U!Mishap, U!Mishaps, U!When
  <1>6. U!TypeOK'
    <2>1. row' \in [Files -> U!Rows \cup {New, Gone}]
      BY <1>0, <1>3, <1>4 DEF UploadsSafe, U!TypeOK, U!ReplaceRow
    <2>2. upload' \in [Transfers -> U!Locals]
      BY DEF UploadsSafe, U!TypeOK, U!ReplaceRow, U!Steps, U!Locals
    <2> QED BY <2>1, <2>2, <1>2, <1>5 DEF UploadsSafe, U!TypeOK
  <1>7. Placed(r)' /\ Local(r)
    BY <1>0, <1>1, <1>2, <1>3, <1>5, RequestFields DEF UploadsSafe, Placed, Local
  <1>8. Bytes(r)'
    BY <1>0, <1>1, <1>2, RequestFields DEF UploadsSafe, Bytes
  <1>9. Leftovers(r)'
    <2> SUFFICES ASSUME Untouched(f)'
                 PROVE U!Exists(f)' /\ \A n \in Held(f) : n.location = upload[r].location
      BY <1>0, <1>1, <1>2, RequestFields DEF UploadsSafe, Leftovers, Held
    <2>1. U!Changing(f) = {} /\ U!Exists(f) /\ row[f].location = upload[r].location /\ Untouched(f)
      BY <1>5 DEF Untouched
    <2>2. Owned(f)
      BY <2>1 DEF UploadsSafe, FileSafe, AtRest
    <2> QED BY <1>4, <2>1, <2>2, UploadsAssumption DEF Owned, U!Exists
  <1>10. r \in U!Changing(f)'
    BY <1>0, <1>1, <1>2, RequestFields DEF UploadsSafe, U!Changing
  <1>11. U!Changing(f) # {} => ~Clean(f)'
    BY <1>5 DEF Clean
  <1>12. FileSafe(f)'
    BY <1>0, <1>4, <1>5, <1>7, <1>8, <1>9, <1>10, <1>11, FileChangeStep
  <1> QED BY <1>0, <1>6, <1>7, <1>12, UploadsStep

(* All that is stored of the file is listed: it is in the location that the *)
(* list is of.                                                              *)
LEMMA ListStep == ASSUME UploadsSafe, NEW r \in Transfers, U!List(r) PROVE UploadsSafe'
  <1>0. PICK f \in Files : f = upload[r].file
    BY RequestFields DEF UploadsSafe
  <1> DEFINE listed == {n \in U!Names : /\ n.file = f /\ n.location = upload[r].location
                                        /\ stored[n] # "absent"}
  <1>1. upload[r].pc = "list" /\ upload[r].kind # "asset" /\ UNCHANGED <<row, stored, mishaps>>
    BY DEF U!List, UploadsSafe, Placed
  <1>2. /\ upload'[r] = [upload[r] EXCEPT !.pc = "delete", !.names = listed]
        /\ \A q \in Transfers \ {r} : upload'[q] = upload[q]
    BY <1>0 DEF UploadsSafe, U!TypeOK, U!List
  <1>3. U!TypeOK'
    <2>1. upload'[r] \in U!Locals
      <3>1. upload[r] \in U!Locals /\ listed \in SUBSET U!Names
        BY DEF UploadsSafe, U!TypeOK
      <3> HIDE DEF listed
      <3> QED BY <1>2, <3>1 DEF U!Steps, U!Locals
    <2>2. upload' = [upload EXCEPT ![r] = upload'[r]]
      BY <1>2 DEF UploadsSafe, U!TypeOK, U!List
    <2> QED BY <1>1, <2>1, <2>2 DEF UploadsSafe, U!TypeOK
  <1>4. /\ upload'[r].pc = "delete" /\ upload'[r].names = listed
        /\ upload'[r].kind = upload[r].kind /\ upload'[r].file = f
    BY <1>0, <1>2, RequestFields DEF UploadsSafe
  <1>5. Placed(r)' /\ Local(r)
    BY <1>0, <1>1, <1>2, <1>4 DEF UploadsSafe, Placed, Local
  <1>6. r \in U!Changing(f)
    BY <1>0, <1>1 DEF U!Changing
  <1>7. Midway(r) /\ \A q \in U!Changing(f) : q # r => ~Clean(f)'
    BY <1>0, <1>1, <1>6, OnlyChange
  <1>8. Bytes(r)'
    BY <1>0, <1>1, <1>4, <1>7 DEF Midway, Bytes, Clean, U!Exists
  <1>9. Leftovers(r)'
    BY <1>0, <1>1, <1>4, <1>7 DEF Midway, Leftovers, Untouched, U!Exists, Held
  <1>10. r \in U!Changing(f)'
    BY <1>4, <1>1 DEF U!Changing
  <1>11. FileSafe(f)'
    BY <1>0, <1>1, <1>5, <1>7, <1>8, <1>9, <1>10, FileChangeStep DEF Midway
  <1> QED BY <1>0, <1>3, <1>5, <1>11, UploadsStep

(* A name that is deleted is off the list. *)
LEMMA DeleteListedStep ==
    ASSUME UploadsSafe, NEW r \in Transfers, U!DeleteListed(r) PROVE UploadsSafe'
  <1>0. PICK f \in Files : f = upload[r].file
    BY RequestFields DEF UploadsSafe
  <1>1. /\ upload[r].pc = "delete" /\ upload[r].kind # "asset" /\ UNCHANGED <<row, mishaps>>
        /\ \A n \in upload[r].names : n \in U!Names /\ n.file = f
    BY <1>0, RequestFields DEF U!DeleteListed, UploadsSafe, Placed
  <1>2. PICK n \in upload[r].names :
            /\ stored' = [stored EXCEPT ![n] = "absent"]
            /\ upload' = [upload EXCEPT ![r].names = @ \ {n}]
    BY DEF U!DeleteListed
  <1>3. /\ upload'[r] = [upload[r] EXCEPT !.names = @ \ {n}]
        /\ \A q \in Transfers \ {r} : upload'[q] = upload[q]
    BY <1>2 DEF UploadsSafe, U!TypeOK
  <1>4. /\ stored'[n] = "absent"
        /\ \A m \in U!Names \ {n} : stored'[m] = stored[m]
    BY <1>1, <1>2 DEF UploadsSafe, U!TypeOK
  <1>5. /\ upload'[r] \in U!Locals
        /\ upload'[r].pc = "delete" /\ upload'[r].names = upload[r].names \ {n}
        /\ upload'[r].kind = upload[r].kind /\ upload'[r].file = f
    <2>1. upload[r] \in U!Locals
      BY DEF UploadsSafe, U!TypeOK
    <2> QED BY <1>0, <1>1, <1>3, <2>1 DEF U!Locals
  <1>6. U!TypeOK'
    <2>1. stored' \in [U!Names -> U!Contents]
      BY <1>2 DEF UploadsSafe, U!TypeOK, U!Contents
    <2>2. upload' = [upload EXCEPT ![r] = upload'[r]]
      BY <1>2, <1>3 DEF UploadsSafe, U!TypeOK
    <2> QED BY <1>1, <1>5, <2>1, <2>2 DEF UploadsSafe, U!TypeOK
  <1>7. Placed(r)' /\ Local(r)
    BY <1>0, <1>1, <1>3, <1>4, <1>5 DEF UploadsSafe, Placed, Local
  <1>8. r \in U!Changing(f)
    BY <1>0, <1>1 DEF U!Changing
  <1>9. Midway(r) /\ \A q \in U!Changing(f) : q # r => ~Clean(f)'
    BY <1>0, <1>1, <1>8, OnlyChange
  <1>10. Bytes(r)'
    BY <1>0, <1>1, <1>5, <1>9 DEF Midway, Bytes, Clean, U!Exists
  <1>11. Leftovers(r)'
    <2>1. Held(f)' = Held(f) \ {n}
      BY <1>1, <1>4 DEF Held
    <2> QED BY <1>0, <1>1, <1>5, <1>9, <2>1 DEF Midway, Leftovers, Untouched, U!Exists
  <1>12. r \in U!Changing(f)'
    BY <1>5, <1>1 DEF U!Changing
  <1>13. FileSafe(f)'
    BY <1>0, <1>1, <1>7, <1>9, <1>10, <1>11, <1>12, FileChangeStep DEF Midway
  <1> QED BY <1>0, <1>6, <1>7, <1>13, UploadsStep

(* When the list is empty, nothing is stored of the file. *)
LEMMA AllDeletedStep ==
    ASSUME UploadsSafe, NEW r \in Transfers, U!AllDeleted(r) PROVE UploadsSafe'
  <1>0. PICK f \in Files : f = upload[r].file
    BY RequestFields DEF UploadsSafe
  <1> DEFINE next == IF upload[r].kind = "upload" THEN "open" ELSE "done"
  <1>1. /\ upload[r].pc = "delete" /\ upload[r].kind # "asset"
        /\ upload[r].names = {} /\ UNCHANGED <<row, stored, mishaps>>
        /\ upload[r].kind \in {"upload", "delete", "asset"}
    BY RequestFields DEF U!AllDeleted, UploadsSafe, Placed
  <1>2. /\ upload'[r] = Moved(upload[r], next)
        /\ \A q \in Transfers \ {r} : upload'[q] = upload[q]
    BY DEF UploadsSafe, U!TypeOK, U!AllDeleted, U!Step, Moved
  <1>3. /\ upload'[r] \in U!Locals
        /\ upload'[r].pc = next /\ upload'[r].names = {}
        /\ upload'[r].kind = upload[r].kind /\ upload'[r].file = f
    BY <1>0, <1>1, <1>2, MovedFields DEF UploadsSafe, U!TypeOK, U!Steps
  <1>4. U!TypeOK'
    <2>1. upload' = [upload EXCEPT ![r] = upload'[r]]
      BY <1>2 DEF UploadsSafe, U!TypeOK, U!AllDeleted, U!Step
    <2> QED BY <1>1, <1>3, <2>1 DEF UploadsSafe, U!TypeOK
  <1>5. Placed(r)' /\ Local(r)
    BY <1>0, <1>1, <1>2, <1>3 DEF UploadsSafe, Placed, Local
  <1>6. r \in U!Changing(f)
    BY <1>0, <1>1 DEF U!Changing
  <1>7. Midway(r) /\ \A q \in U!Changing(f) : q # r => ~Clean(f)'
    BY <1>0, <1>1, <1>6, OnlyChange
  <1>8. Untouched(f) => Held(f)' = {}
    BY <1>0, <1>1, <1>7 DEF Midway, Leftovers, Held
  <1>9. CASE upload[r].kind = "upload"
    <2>1. Bytes(r)'
      BY <1>0, <1>1, <1>3, <1>9 DEF Bytes
    <2>2. Leftovers(r)'
      BY <1>0, <1>1, <1>3, <1>7, <1>8, <1>9 DEF Midway, Leftovers, Untouched, U!Exists
    <2>3. r \in U!Changing(f)'
      BY <1>3, <1>9 DEF U!Changing
    <2>4. FileSafe(f)'
      BY <1>0, <1>1, <1>5, <1>7, <2>1, <2>2, <2>3, FileChangeStep DEF Midway
    <2> QED BY <1>0, <1>4, <1>5, <2>4, UploadsStep
  <1>10. CASE upload[r].kind = "delete"
    <2>1. r \notin U!Changing(f)'
      BY <1>3, <1>10 DEF U!Changing
    <2>2. Clean(f)' => Whole(f)'
      BY <1>0, <1>1, <1>7, <1>10 DEF Midway, Bytes, Whole, Clean, U!Exists
    <2>3. Untouched(f)' => Owned(f)'
      BY <1>1, <1>8 DEF Owned, Untouched
    <2>4. FileSafe(f)'
      BY <1>0, <1>1, <1>5, <1>7, <2>1, <2>2, <2>3, FileChangeStep DEF Midway
    <2> QED BY <1>0, <1>4, <1>5, <2>4, UploadsStep
  <1> QED BY <1>1, <1>9, <1>10

(* The name that is written is the only one. *)
LEMMA OpenWriteStep ==
    ASSUME UploadsSafe, NEW r \in Transfers, U!OpenWrite(r) PROVE UploadsSafe'
  <1>0. PICK f \in Files : f = upload[r].file
    BY RequestFields DEF UploadsSafe
  <1>1. /\ upload[r].pc = "open" /\ upload[r].kind # "asset" /\ UNCHANGED <<row, mishaps>>
        /\ U!Target(r) \in U!Names /\ U!Target(r).file = f
    BY <1>0, RequestFields DEF U!OpenWrite, UploadsSafe, Placed
  <1>2. /\ upload'[r] = Moved(upload[r], "write")
        /\ \A q \in Transfers \ {r} : upload'[q] = upload[q]
    BY DEF UploadsSafe, U!TypeOK, U!OpenWrite, U!Step, Moved
  <1>3. /\ upload'[r] \in U!Locals
        /\ upload'[r].pc = "write" /\ upload'[r].names = upload[r].names
        /\ upload'[r].kind = upload[r].kind /\ upload'[r].file = f
        /\ U!Target(r)' = U!Target(r)
    <2>1. /\ upload'[r] \in U!Locals
          /\ upload'[r].pc = "write" /\ upload'[r].names = upload[r].names
          /\ upload'[r].kind = upload[r].kind /\ upload'[r].file = upload[r].file
          /\ upload'[r].location = upload[r].location /\ upload'[r].ext = upload[r].ext
      BY <1>2, MovedFields DEF UploadsSafe, U!TypeOK, U!Steps
    <2>2. U!Target(r)' = U!Target(r)
      BY <2>1 DEF U!Target
    <2> QED BY <1>0, <2>1, <2>2
  <1>4. /\ stored'[U!Target(r)] = "partial"
        /\ \A n \in U!Names \ {U!Target(r)} : stored'[n] = stored[n]
        /\ stored' \in [U!Names -> U!Contents]
    BY <1>1 DEF UploadsSafe, U!TypeOK, U!OpenWrite, U!Contents
  <1>5. U!TypeOK'
    <2>1. upload' = [upload EXCEPT ![r] = upload'[r]]
      BY <1>2 DEF UploadsSafe, U!TypeOK, U!OpenWrite, U!Step
    <2> QED BY <1>1, <1>3, <1>4, <2>1 DEF UploadsSafe, U!TypeOK
  <1>6. Placed(r)' /\ Local(r)
    BY <1>0, <1>1, <1>2, <1>3, <1>4 DEF UploadsSafe, Placed, Local
  <1>7. r \in U!Changing(f)
    BY <1>0, <1>1 DEF U!Changing
  <1>8. Midway(r) /\ \A q \in U!Changing(f) : q # r => ~Clean(f)'
    BY <1>0, <1>1, <1>7, OnlyChange
  <1>9. Bytes(r)'
    BY <1>0, <1>1, <1>3, <1>4, <1>8 DEF Midway, Bytes, Clean, U!Exists
  <1>10. Leftovers(r)'
    <2>1. Held(f)' \subseteq Held(f) \cup {U!Target(r)}
      BY <1>4 DEF Held
    <2> QED BY <1>0, <1>1, <1>3, <1>8, <2>1 DEF Midway, Leftovers, Untouched, U!Exists
  <1>11. r \in U!Changing(f)'
    BY <1>1, <1>3 DEF U!Changing
  <1>12. FileSafe(f)'
    BY <1>0, <1>1, <1>6, <1>8, <1>9, <1>10, <1>11, FileChangeStep DEF Midway
  <1> QED BY <1>0, <1>5, <1>6, <1>12, UploadsStep

(* What was opened is filled, unless another change deleted it. *)
LEMMA FinishWriteStep ==
    ASSUME UploadsSafe, NEW r \in Transfers, U!FinishWrite(r) PROVE UploadsSafe'
  <1>0. PICK f \in Files : f = upload[r].file
    BY RequestFields DEF UploadsSafe
  <1>1. /\ upload[r].pc = "write" /\ upload[r].kind # "asset" /\ UNCHANGED <<row, mishaps>>
        /\ U!Target(r) \in U!Names /\ U!Target(r).file = f
    BY <1>0, RequestFields DEF U!FinishWrite, UploadsSafe, Placed
  <1>2. /\ upload'[r] = Moved(upload[r], "stat")
        /\ \A q \in Transfers \ {r} : upload'[q] = upload[q]
    BY DEF UploadsSafe, U!TypeOK, U!FinishWrite, U!Step, Moved
  <1>3. /\ upload'[r] \in U!Locals
        /\ upload'[r].pc = "stat" /\ upload'[r].names = upload[r].names
        /\ upload'[r].kind = upload[r].kind /\ upload'[r].file = f
        /\ U!Target(r)' = U!Target(r)
    <2>1. /\ upload'[r] \in U!Locals
          /\ upload'[r].pc = "stat" /\ upload'[r].names = upload[r].names
          /\ upload'[r].kind = upload[r].kind /\ upload'[r].file = upload[r].file
          /\ upload'[r].location = upload[r].location /\ upload'[r].ext = upload[r].ext
      BY <1>2, MovedFields DEF UploadsSafe, U!TypeOK, U!Steps
    <2>2. U!Target(r)' = U!Target(r)
      BY <2>1 DEF U!Target
    <2> QED BY <1>0, <2>1, <2>2
  <1>4. /\ stored'[U!Target(r)] = r \/ stored[U!Target(r)] = "absent"
        /\ \A n \in U!Names \ {U!Target(r)} : stored'[n] = stored[n]
        /\ stored' \in [U!Names -> U!Contents]
    BY <1>1 DEF UploadsSafe, U!TypeOK, U!FinishWrite, U!Contents
  <1>5. U!TypeOK'
    <2>1. upload' = [upload EXCEPT ![r] = upload'[r]]
      BY <1>2 DEF UploadsSafe, U!TypeOK, U!FinishWrite, U!Step
    <2> QED BY <1>1, <1>3, <1>4, <2>1 DEF UploadsSafe, U!TypeOK
  <1>6. Placed(r)' /\ Local(r)
    BY <1>0, <1>1, <1>2, <1>3, <1>4 DEF UploadsSafe, Placed, Local
  <1>7. r \in U!Changing(f)
    BY <1>0, <1>1 DEF U!Changing
  <1>8. Midway(r) /\ \A q \in U!Changing(f) : q # r => ~Clean(f)'
    BY <1>0, <1>1, <1>7, OnlyChange
  <1>9. Bytes(r)'
    BY <1>0, <1>1, <1>3, <1>4, <1>8 DEF Midway, Bytes, Clean, U!Exists
  <1>10. Leftovers(r)'
    <2>1. Held(f)' \subseteq Held(f) \cup {U!Target(r)}
      BY <1>4 DEF Held
    <2> QED BY <1>0, <1>1, <1>3, <1>8, <2>1 DEF Midway, Leftovers, Untouched, U!Exists
  <1>11. r \in U!Changing(f)'
    BY <1>1, <1>3 DEF U!Changing
  <1>12. FileSafe(f)'
    BY <1>0, <1>1, <1>6, <1>8, <1>9, <1>10, <1>11, FileChangeStep DEF Midway
  <1> QED BY <1>0, <1>5, <1>6, <1>12, UploadsStep

(* What stat sees is what the request wrote. *)
LEMMA StatStep == ASSUME UploadsSafe, NEW r \in Transfers, U!Stat(r) PROVE UploadsSafe'
  <1>0. PICK f \in Files : f = upload[r].file
    BY RequestFields DEF UploadsSafe
  <1>1. /\ upload[r].pc = "stat" /\ upload[r].kind # "asset" /\ UNCHANGED <<row, stored, mishaps>>
        /\ U!Target(r) \in U!Names /\ stored[U!Target(r)] \in U!Contents
    BY RequestFields DEF U!Stat, UploadsSafe, Placed, U!TypeOK
  <1>2. /\ upload'[r] = [upload[r] EXCEPT !.pc = "describe", !.contents = stored[U!Target(r)]]
        /\ \A q \in Transfers \ {r} : upload'[q] = upload[q]
    BY DEF UploadsSafe, U!TypeOK, U!Stat
  <1>3. /\ upload'[r] \in U!Locals
        /\ upload'[r].pc = "describe" /\ upload'[r].names = upload[r].names
        /\ upload'[r].contents = stored[U!Target(r)]
        /\ upload'[r].kind = upload[r].kind /\ upload'[r].file = f
        /\ U!Target(r)' = U!Target(r)
    BY <1>0, <1>1, <1>2, RequestFields DEF UploadsSafe, U!Steps, U!Locals, U!Target
  <1>4. U!TypeOK'
    <2>1. upload' = [upload EXCEPT ![r] = upload'[r]]
      BY <1>2 DEF UploadsSafe, U!TypeOK, U!Stat
    <2> QED BY <1>1, <1>3, <2>1 DEF UploadsSafe, U!TypeOK
  <1>5. Placed(r)' /\ Local(r)
    BY <1>0, <1>1, <1>2, <1>3 DEF UploadsSafe, Placed, Local
  <1>6. r \in U!Changing(f)
    BY <1>0, <1>1 DEF U!Changing
  <1>7. Midway(r) /\ \A q \in U!Changing(f) : q # r => ~Clean(f)'
    BY <1>0, <1>1, <1>6, OnlyChange
  <1>8. Bytes(r)'
    BY <1>0, <1>1, <1>3, <1>7 DEF Midway, Bytes, Clean, U!Exists
  <1>9. Leftovers(r)'
    BY <1>0, <1>1, <1>3, <1>7 DEF Midway, Leftovers, Untouched, U!Exists, Held
  <1>10. r \in U!Changing(f)'
    BY <1>1, <1>3 DEF U!Changing
  <1>11. FileSafe(f)'
    BY <1>0, <1>1, <1>5, <1>7, <1>8, <1>9, <1>10, FileChangeStep DEF Midway
  <1> QED BY <1>0, <1>4, <1>5, <1>11, UploadsStep

(* The row describes what is stored, and it is all that is stored. *)
LEMMA DescribeStep == ASSUME UploadsSafe, NEW r \in Transfers, U!Describe(r) PROVE UploadsSafe'
  <1>0. PICK f \in Files : f = upload[r].file
    BY RequestFields DEF UploadsSafe
  <1> DEFINE described == U!Row(upload[r].location, upload[r].ext, upload[r].contents)
  <1>1. /\ upload[r].pc = "describe" /\ upload[r].kind = "upload"
        /\ UNCHANGED <<stored, mishaps>>
        /\ upload[r].ext \in Exts /\ described \in U!Rows
    BY RequestFields DEF U!Describe, UploadsSafe, Placed, U!Row, U!Rows
  <1>2. /\ upload'[r] = Moved(upload[r], "done")
        /\ \A q \in Transfers \ {r} : upload'[q] = upload[q]
    BY DEF UploadsSafe, U!TypeOK, U!Describe, U!Step, Moved
  <1>3. /\ upload'[r] \in U!Locals
        /\ upload'[r].pc = "done" /\ upload'[r].names = upload[r].names
        /\ upload'[r].kind = upload[r].kind /\ upload'[r].file = f
    BY <1>0, <1>2, MovedFields DEF UploadsSafe, U!TypeOK, U!Steps
  <1>4. /\ U!Exists(f) => row'[f] = described
        /\ ~U!Exists(f) => row'[f] = row[f]
        /\ \A g \in Files \ {f} : row'[g] = row[g]
        /\ row' \in [Files -> U!Rows \cup {New, Gone}]
    BY <1>0, <1>1 DEF UploadsSafe, U!TypeOK, U!Describe
  <1>5. U!TypeOK'
    <2>1. upload' = [upload EXCEPT ![r] = upload'[r]]
      BY <1>2 DEF UploadsSafe, U!TypeOK, U!Describe, U!Step
    <2> QED BY <1>1, <1>3, <1>4, <2>1 DEF UploadsSafe, U!TypeOK
  <1>6. Placed(r)' /\ Local(r)
    BY <1>0, <1>1, <1>2, <1>3, <1>4 DEF UploadsSafe, Placed, Local
  <1>7. r \in U!Changing(f)
    BY <1>0, <1>1 DEF U!Changing
  <1>8. Midway(r) /\ \A q \in U!Changing(f) : q # r => ~Clean(f)'
    BY <1>0, <1>1, <1>7, OnlyChange
  <1>9. r \notin U!Changing(f)'
    BY <1>3 DEF U!Changing
  <1>10. U!Exists(f)' <=> U!Exists(f)
    BY <1>1, <1>4, UploadsAssumption DEF U!Exists
  <1>11. U!Exists(f) => /\ row'[f].location = upload[r].location /\ row'[f].ext = upload[r].ext
                        /\ row'[f].describes = upload[r].contents
    BY <1>4 DEF U!Row
  <1>12. Clean(f)' => Whole(f)'
    <2> SUFFICES ASSUME Clean(f), U!Exists(f) PROVE Whole(f)'
      BY <1>1, <1>10 DEF Clean, Whole
    <2>1. upload[r].contents = r /\ stored[U!Target(r)] = r
      BY <1>0, <1>1, <1>8 DEF Midway, Bytes
    <2>2. U!Name(f, row'[f].location, row'[f].ext, FALSE) = U!Target(r)
      BY <1>0, <1>11 DEF U!Target
    <2> QED BY <1>1, <1>11, <2>1, <2>2, UploadsAssumption DEF Whole
  <1>13. Untouched(f)' => Owned(f)'
    <2> SUFFICES ASSUME Untouched(f) PROVE Owned(f)'
      BY <1>1 DEF Untouched
    <2>1. U!Exists(f) /\ Held(f)' \subseteq {U!Target(r)}
      BY <1>0, <1>1, <1>8 DEF Midway, Leftovers, Held
    <2>2. upload[r].contents = r /\ stored'[U!Target(r)] = r
      BY <1>0, <1>1, <1>8 DEF Midway, Bytes, Clean, Untouched
    <2>3. U!Target(r).location = upload[r].location /\ U!Target(r).ext = upload[r].ext
      BY DEF U!Target, U!Name
    <2> QED BY <1>10, <1>11, <2>1, <2>2, <2>3 DEF Owned
  <1>14. row'[f] # New
    BY <1>0, <1>1, <1>4, <1>8, UploadsAssumption DEF Midway
  <1>15. FileSafe(f)'
    BY <1>0, <1>1, <1>6, <1>8, <1>9, <1>12, <1>13, <1>14, FileChangeStep
  <1> QED BY <1>0, <1>5, <1>6, <1>15, UploadsStep

(* A deletion that overlaps no change finds the row and its location. *)
LEMMA FindRowStep == ASSUME UploadsSafe, NEW r \in Transfers, U!FindRow(r) PROVE UploadsSafe'
  <1>0. PICK f \in Files : f = upload[r].file
    BY RequestFields DEF UploadsSafe
  <1>1. /\ upload[r].pc = "idle" /\ upload[r].kind = "delete" /\ U!Exists(f)
        /\ UNCHANGED <<row, stored>>
        /\ row[f] \in U!Rows /\ row[f].location \in Locations
    BY <1>0 DEF UploadsSafe, U!FindRow, U!TypeOK, U!Exists, U!Rows
  <1>2. /\ upload'[r] = [upload[r] EXCEPT !.pc = "remove", !.location = row[f].location]
        /\ \A q \in Transfers \ {r} : upload'[q] = upload[q]
    BY <1>0 DEF UploadsSafe, U!TypeOK, U!FindRow
  <1>3. /\ upload'[r] \in U!Locals
        /\ upload'[r].pc = "remove" /\ upload'[r].names = upload[r].names
        /\ upload'[r].location = row[f].location
        /\ upload'[r].kind = upload[r].kind /\ upload'[r].file = f
    BY <1>0, <1>1, <1>2, RequestFields DEF UploadsSafe, U!Steps, U!Locals
  <1>4. /\ mishaps[f] \subseteq mishaps'[f]
        /\ \A g \in Files \ {f} : mishaps'[g] = mishaps[g]
        /\ U!Changing(f) # {} => "overlapped" \in mishaps'[f]
        /\ mishaps' \in [Files -> SUBSET U!Mishaps]
    BY <1>0 DEF UploadsSafe, U!TypeOK, U!FindRow, U!Mishap, U!Mishaps, U!When
  <1>5. U!TypeOK'
    <2>1. upload' = [upload EXCEPT ![r] = upload'[r]]
      BY <1>2 DEF UploadsSafe, U!TypeOK, U!FindRow
    <2> QED BY <1>1, <1>3, <1>4, <2>1 DEF UploadsSafe, U!TypeOK
  <1>6. Placed(r)' /\ Local(r)
    BY <1>0, <1>1, <1>2, <1>3, <1>4 DEF UploadsSafe, Placed, Local
  <1>7. U!Changing(f) # {} => ~Clean(f)'
    BY <1>4 DEF Clean
  <1>8. Bytes(r)'
    <2> SUFFICES ASSUME Clean(f)' PROVE Whole(f)'
      BY <1>0, <1>1, <1>3 DEF Bytes
    <2>1. U!Changing(f) = {} /\ Clean(f)
      BY <1>4, <1>7 DEF Clean
    <2>2. Whole(f)
      BY <2>1 DEF UploadsSafe, FileSafe, AtRest
    <2> QED BY <1>1, <2>2, WholeStays DEF UploadsSafe
  <1>9. Leftovers(r)'
    <2> SUFFICES ASSUME Untouched(f)' PROVE Owned(f)'
      BY <1>0, <1>1, <1>3 DEF Leftovers, U!Exists
    <2>1. U!Changing(f) = {} /\ Untouched(f)
      BY <1>4 DEF Untouched
    <2>2. Owned(f)
      BY <2>1 DEF UploadsSafe, FileSafe, AtRest
    <2> QED BY <1>1, <1>2, <2>2, OwnedStays DEF UploadsSafe
  <1>10. r \in U!Changing(f)'
    BY <1>1, <1>3 DEF U!Changing
  <1>11. row'[f] # New
    BY <1>1 DEF U!Exists
  <1>12. FileSafe(f)'
    BY <1>0, <1>1, <1>4, <1>6, <1>7, <1>8, <1>9, <1>10, <1>11, FileChangeStep
  <1> QED BY <1>0, <1>5, <1>6, <1>12, UploadsStep

(* The row goes first. *)
LEMMA RemoveRowStep == ASSUME UploadsSafe, NEW r \in Transfers, U!RemoveRow(r) PROVE UploadsSafe'
  <1>0. PICK f \in Files : f = upload[r].file
    BY RequestFields DEF UploadsSafe
  <1>1. /\ upload[r].pc = "remove" /\ upload[r].kind = "delete"
        /\ UNCHANGED <<stored, mishaps>>
    BY RequestFields DEF U!RemoveRow, UploadsSafe, Placed
  <1>2. /\ upload'[r] = Moved(upload[r], "list")
        /\ \A q \in Transfers \ {r} : upload'[q] = upload[q]
    BY DEF UploadsSafe, U!TypeOK, U!RemoveRow, U!Step, Moved
  <1>3. /\ upload'[r] \in U!Locals
        /\ upload'[r].pc = "list" /\ upload'[r].names = upload[r].names
        /\ upload'[r].location = upload[r].location
        /\ upload'[r].kind = upload[r].kind /\ upload'[r].file = f
    BY <1>0, <1>2, MovedFields DEF UploadsSafe, U!TypeOK, U!Steps
  <1>4. /\ row'[f] = Gone
        /\ \A g \in Files \ {f} : row'[g] = row[g]
        /\ row' \in [Files -> U!Rows \cup {New, Gone}]
    BY <1>0 DEF UploadsSafe, U!TypeOK, U!RemoveRow
  <1>5. U!TypeOK'
    <2>1. upload' = [upload EXCEPT ![r] = upload'[r]]
      BY <1>2 DEF UploadsSafe, U!TypeOK, U!RemoveRow, U!Step
    <2> QED BY <1>1, <1>3, <1>4, <2>1 DEF UploadsSafe, U!TypeOK
  <1>6. Placed(r)' /\ Local(r)
    BY <1>0, <1>1, <1>2, <1>3, <1>4 DEF UploadsSafe, Placed, Local
  <1>7. r \in U!Changing(f)
    BY <1>0, <1>1 DEF U!Changing
  <1>8. Midway(r) /\ \A q \in U!Changing(f) : q # r => ~Clean(f)'
    BY <1>0, <1>1, <1>7, OnlyChange
  <1>9. Bytes(r)'
    BY <1>0, <1>1, <1>3, <1>4 DEF Bytes, U!Exists
  <1>10. Leftovers(r)'
    BY <1>0, <1>1, <1>3, <1>8 DEF Midway, Leftovers, Untouched, Owned, Held
  <1>11. r \in U!Changing(f)'
    BY <1>1, <1>3 DEF U!Changing
  <1>12. FileSafe(f)'
    BY <1>0, <1>1, <1>4, <1>6, <1>8, <1>9, <1>10, <1>11, FileChangeStep, UploadsAssumption
  <1> QED BY <1>0, <1>5, <1>6, <1>12, UploadsStep

(* A request for an asset that reads, and one that finds its image, change  *)
(* nothing but what they know.                                              *)
LEMMA ReadAssetStep ==
    ASSUME UploadsSafe, NEW r \in Transfers,
           U!ReadRow(r) \/ U!OriginalExists(r) \/ U!DerivedExists(r)
    PROVE  UploadsSafe'
  <1>0. PICK f \in Files : f = upload[r].file
    BY RequestFields DEF UploadsSafe
  <1>1. /\ upload[r].pc \in {"idle", "original", "derived"} /\ upload[r].kind = "asset"
        /\ UNCHANGED <<row, stored, mishaps>>
    BY RequestFields DEF U!ReadRow, U!OriginalExists, U!DerivedExists, UploadsSafe, Placed
  <1>2. /\ upload'[r] \in U!Locals
        /\ upload'[r].pc \in {"original", "derived", "derive", "done"}
        /\ upload'[r].names = upload[r].names
        /\ upload'[r].kind = upload[r].kind /\ upload'[r].file = f
        /\ upload' = [upload EXCEPT ![r] = upload'[r]]
    <2>1. CASE U!ReadRow(r)
      <3>1. row[f] \in U!Rows /\ row[f].ext \in Exts /\ row[f].location \in Locations
        BY <1>0, <2>1 DEF U!ReadRow, U!Exists, UploadsSafe, U!TypeOK, U!Rows
      <3>2. upload'[r] = [upload[r] EXCEPT !.pc = "original", !.location = row[f].location,
                                           !.ext = row[f].ext]
        BY <1>0, <2>1 DEF U!ReadRow, UploadsSafe, U!TypeOK
      <3>3. upload' = [upload EXCEPT ![r] = upload'[r]]
        BY <2>1 DEF U!ReadRow, UploadsSafe, U!TypeOK
      <3> QED BY <1>0, <3>1, <3>2, <3>3, RequestFields DEF UploadsSafe, U!Steps, U!Locals
    <2>2. CASE U!OriginalExists(r) \/ U!DerivedExists(r)
      <3>1. PICK pc \in {"derived", "derive", "done"} : upload' = [upload EXCEPT ![r].pc = pc]
        BY <2>2 DEF U!OriginalExists, U!DerivedExists, U!Step
      <3>2. upload'[r] = Moved(upload[r], pc)
        BY <3>1 DEF UploadsSafe, U!TypeOK, Moved
      <3>3. upload' = [upload EXCEPT ![r] = upload'[r]]
        BY <3>1 DEF UploadsSafe, U!TypeOK
      <3> QED BY <1>0, <3>2, <3>3, MovedFields DEF UploadsSafe, U!TypeOK, U!Steps
    <2> QED BY <2>1, <2>2
  <1>3. \A q \in Transfers \ {r} : upload'[q] = upload[q]
    BY <1>2 DEF UploadsSafe, U!TypeOK
  <1>4. U!TypeOK'
    BY <1>1, <1>2 DEF UploadsSafe, U!TypeOK
  <1>5. Placed(r)' /\ Local(r)
    BY <1>0, <1>1, <1>2, <1>3 DEF UploadsSafe, Placed, Local
  <1>6. (Untouched(f)' /\ U!Changing(f) = {}) => Owned(f)'
    <2> SUFFICES ASSUME Untouched(f), U!Changing(f) = {} PROVE Owned(f)'
      BY <1>1 DEF Untouched
    <2>1. Owned(f)
      BY DEF UploadsSafe, FileSafe, AtRest
    <2> QED BY <1>1, <1>3, <2>1, OwnedStays DEF UploadsSafe
  <1>7. FileSafe(f)'
    BY <1>0, <1>1, <1>5, <1>6, AssetStep
  <1> QED BY <1>0, <1>4, <1>5, <1>7, UploadsStep

(* An image is derived from the bytes of the row, or that is recorded. *)
LEMMA DeriveStep == ASSUME UploadsSafe, NEW r \in Transfers, U!Derive(r) PROVE UploadsSafe'
  <1>0. PICK f \in Files : f = upload[r].file
    BY RequestFields DEF UploadsSafe
  <1> DEFINE whole == stored[U!Target(r)] \in Transfers
  <1>1. /\ upload[r].pc = "derive" /\ upload[r].kind = "asset" /\ row' = row
        /\ U!Target(r) \in U!Names /\ stored[U!Target(r)] \in U!Contents
        /\ U!Target(r).file = f
        /\ U!Asset(r) \in U!Names /\ U!Asset(r).file = f /\ U!Asset(r).derived
    BY <1>0, RequestFields DEF U!Derive, UploadsSafe, Placed, U!TypeOK
  <1>2. /\ upload'[r] = [upload[r] EXCEPT !.pc = IF whole THEN "store" ELSE "done",
                                          !.contents = stored[U!Target(r)]]
        /\ \A q \in Transfers \ {r} : upload'[q] = upload[q]
        /\ upload' = [upload EXCEPT ![r] = upload'[r]]
    BY DEF UploadsSafe, U!TypeOK, U!Derive
  <1>3. /\ upload'[r] \in U!Locals
        /\ upload'[r].pc = IF whole THEN "store" ELSE "done"
        /\ upload'[r].contents = stored[U!Target(r)]
        /\ upload'[r].names = upload[r].names
        /\ upload'[r].kind = upload[r].kind /\ upload'[r].file = f
        /\ U!Asset(r)' = U!Asset(r)
    BY <1>0, <1>1, <1>2, RequestFields DEF UploadsSafe, U!Steps, U!Locals, U!Asset
  <1>4. /\ \A n \in U!Names \ {U!Asset(r)} : stored'[n] = stored[n]
        /\ stored' \in [U!Names -> U!Contents]
    BY <1>1 DEF UploadsSafe, U!TypeOK, U!Derive, U!Contents
  <1>5. /\ mishaps[f] \subseteq mishaps'[f]
        /\ \A g \in Files \ {f} : mishaps'[g] = mishaps[g]
        /\ U!Changing(f) # {} => "crossed" \in mishaps'[f]
        /\ ~whole => "broken" \in mishaps'[f]
        /\ mishaps' \in [Files -> SUBSET U!Mishaps]
    <2> DEFINE s == U!When(U!Changing(f) # {}, "crossed") \cup U!When(~whole, "broken")
    <2>1. mishaps' = [mishaps EXCEPT ![f] = @ \cup s]
      BY <1>0 DEF U!Derive, U!Mishap
    <2>2. /\ s \subseteq {"crossed", "broken"}
          /\ U!Changing(f) # {} => "crossed" \in s
          /\ ~whole => "broken" \in s
      BY DEF U!When
    <2> HIDE DEF s
    <2> QED BY <2>1, <2>2 DEF UploadsSafe, U!TypeOK, U!Mishaps
  <1>6. U!TypeOK'
    <2>1. upload' \in [Transfers -> U!Locals]
      BY <1>2, <1>3 DEF UploadsSafe, U!TypeOK
    <2> QED BY <1>1, <1>4, <1>5, <2>1 DEF UploadsSafe, U!TypeOK
  <1>7. Placed(r)' /\ Local(r)
    BY <1>0, <1>1, <1>2, <1>3, <1>4, <1>5 DEF UploadsSafe, Placed, Local
  <1>8. (Untouched(f)' /\ U!Changing(f) = {}) => Owned(f)'
    <2> SUFFICES ASSUME Untouched(f)', U!Changing(f) = {} PROVE Owned(f)'
      OBVIOUS
    <2>1. Untouched(f) /\ whole
      BY <1>5 DEF Untouched
    <2>2. Owned(f)
      BY <2>1 DEF UploadsSafe, FileSafe, AtRest
    <2>3. U!Target(r) \in Held(f)
      BY <1>1, <2>1, UploadsAssumption DEF Held
    <2>4. /\ U!Exists(f)
          /\ row[f].location = upload[r].location /\ row[f].ext = upload[r].ext
      BY <2>2, <2>3 DEF Owned, U!Target, U!Name
    <2>5. U!Asset(r).location = upload[r].location /\ U!Asset(r).ext = upload[r].ext
      BY DEF U!Asset, U!Name
    <2>6. U!Exists(f)' /\ upload'[r].pc = "store"
      BY <1>1, <1>3, <2>1, <2>4 DEF U!Exists
    <2> SUFFICES ASSUME NEW n \in Held(f)', n # U!Asset(r)
                 PROVE  /\ row[f].location = n.location /\ row[f].ext = n.ext
                        /\ \/ row[f].describes = stored[n]
                           \/ /\ n.derived
                              /\ \E q \in Transfers : upload'[q].pc = "store" /\ U!Asset(q)' = n
      BY <1>1, <1>3, <1>4, <2>4, <2>5, <2>6 DEF Owned, Held
    <2>7. n \in Held(f)
      BY <1>4 DEF Held
    <2>8. ASSUME NEW q \in Transfers, upload[q].pc = "store", U!Asset(q) = n
          PROVE  upload'[q].pc = "store" /\ U!Asset(q)' = n
      BY <1>1, <1>2, <2>8 DEF U!Asset
    <2> QED BY <2>2, <2>7, <2>8 DEF Owned
  <1>9. (Untouched(f)' /\ U!Changing(f) # {}) => FALSE
    BY <1>5 DEF Untouched
  <1>10. \A n \in U!Names : ~n.derived => stored'[n] = stored[n]
    BY <1>1, <1>4
  <1>11. FileSafe(f)'
    BY <1>0, <1>1, <1>5, <1>7, <1>8, <1>9, <1>10, AssetStep
  <1> QED BY <1>0, <1>6, <1>7, <1>11, UploadsStep

(* An image is stored while its original is, or that is recorded. *)
LEMMA StoreStep == ASSUME UploadsSafe, NEW r \in Transfers, U!Store(r) PROVE UploadsSafe'
  <1>0. PICK f \in Files : f = upload[r].file
    BY RequestFields DEF UploadsSafe
  <1>1. /\ upload[r].pc = "store" /\ upload[r].kind = "asset" /\ row' = row
        /\ upload[r].contents \in Transfers
        /\ U!Target(r) \in U!Names /\ U!Target(r).file = f
        /\ U!Asset(r) \in U!Names /\ U!Asset(r).file = f /\ U!Asset(r).derived
    BY <1>0, RequestFields DEF U!Store, UploadsSafe, Placed
  <1>2. /\ upload'[r] = Moved(upload[r], "done")
        /\ \A q \in Transfers \ {r} : upload'[q] = upload[q]
        /\ upload' = [upload EXCEPT ![r] = upload'[r]]
    BY DEF UploadsSafe, U!TypeOK, U!Store, U!Step, Moved
  <1>3. /\ upload'[r] \in U!Locals
        /\ upload'[r].pc = "done" /\ upload'[r].names = upload[r].names
        /\ upload'[r].kind = upload[r].kind /\ upload'[r].file = f
    BY <1>0, <1>2, MovedFields DEF UploadsSafe, U!TypeOK, U!Steps
  <1>4. /\ stored'[U!Asset(r)] \in {upload[r].contents, "absent"}
        /\ \A n \in U!Names \ {U!Asset(r)} : stored'[n] = stored[n]
        /\ stored' \in [U!Names -> U!Contents]
    BY <1>1 DEF UploadsSafe, U!TypeOK, U!Store, U!Contents
  <1>5. /\ mishaps[f] \subseteq mishaps'[f]
        /\ \A g \in Files \ {f} : mishaps'[g] = mishaps[g]
        /\ (U!Changing(f) # {} \/ stored[U!Target(r)] # upload[r].contents)
                => "crossed" \in mishaps'[f]
        /\ mishaps' \in [Files -> SUBSET U!Mishaps]
    BY <1>0 DEF UploadsSafe, U!TypeOK, U!Store, U!Mishap, U!Mishaps, U!When
  <1>6. U!TypeOK'
    BY <1>1, <1>2, <1>3, <1>4, <1>5 DEF UploadsSafe, U!TypeOK
  <1>7. Placed(r)' /\ Local(r)
    BY <1>0, <1>1, <1>2, <1>3, <1>4, <1>5 DEF UploadsSafe, Placed, Local
  <1>8. (Untouched(f)' /\ U!Changing(f) = {}) => Owned(f)'
    <2> SUFFICES ASSUME Untouched(f)', U!Changing(f) = {} PROVE Owned(f)'
      OBVIOUS
    <2>1. Untouched(f) /\ stored[U!Target(r)] = upload[r].contents
      BY <1>5 DEF Untouched
    <2>2. Owned(f)
      BY <2>1 DEF UploadsSafe, FileSafe, AtRest
    <2>3. U!Target(r) \in Held(f) /\ ~U!Target(r).derived
      BY <1>1, <2>1, UploadsAssumption DEF Held, U!Target, U!Name
    <2>4. /\ U!Exists(f) /\ row[f].describes = upload[r].contents
          /\ row[f].location = upload[r].location /\ row[f].ext = upload[r].ext
      BY <2>1, <2>2, <2>3 DEF Owned, U!Target, U!Name
    <2>5. U!Asset(r).location = upload[r].location /\ U!Asset(r).ext = upload[r].ext
      BY DEF U!Asset, U!Name
    <2>6. U!Exists(f)'
      BY <1>1, <2>4 DEF U!Exists
    <2> SUFFICES ASSUME NEW n \in Held(f)', n # U!Asset(r)
                 PROVE  /\ row[f].location = n.location /\ row[f].ext = n.ext
                        /\ \/ row[f].describes = stored[n]
                           \/ /\ n.derived
                              /\ \E q \in Transfers : upload'[q].pc = "store" /\ U!Asset(q)' = n
      BY <1>1, <1>4, <2>4, <2>5, <2>6 DEF Owned, Held
    <2>7. n \in Held(f)
      BY <1>4 DEF Held
    <2>8. ASSUME NEW q \in Transfers, upload[q].pc = "store", U!Asset(q) = n
          PROVE  upload'[q].pc = "store" /\ U!Asset(q)' = n
      BY <1>2, <2>8 DEF U!Asset
    <2> QED BY <2>2, <2>7, <2>8 DEF Owned
  <1>9. (Untouched(f)' /\ U!Changing(f) # {}) => FALSE
    BY <1>5 DEF Untouched
  <1>10. \A n \in U!Names : ~n.derived => stored'[n] = stored[n]
    BY <1>1, <1>4
  <1>11. FileSafe(f)'
    BY <1>0, <1>1, <1>5, <1>7, <1>8, <1>9, <1>10, AssetStep
  <1> QED BY <1>0, <1>6, <1>7, <1>11, UploadsStep

(* A change that fails half-way and a writing that breaks off are recorded; *)
(* before its row goes, a deletion has done nothing.                        *)
LEMMA UploadFailStep == ASSUME UploadsSafe, NEW r \in Transfers, U!Fail(r) PROVE UploadsSafe'
  <1>0. PICK f \in Files : f = upload[r].file
    BY RequestFields DEF UploadsSafe
  <1>1. /\ upload[r].pc \notin {"idle", "done"} /\ UNCHANGED <<row, stored>>
    BY DEF U!Fail
  <1>2. /\ upload'[r] = Moved(upload[r], "done")
        /\ \A q \in Transfers \ {r} : upload'[q] = upload[q]
        /\ upload' = [upload EXCEPT ![r] = upload'[r]]
    BY DEF UploadsSafe, U!TypeOK, U!Fail, U!Step, Moved
  <1>3. /\ upload'[r] \in U!Locals
        /\ upload'[r].pc = "done" /\ upload'[r].names = upload[r].names
        /\ upload'[r].kind = upload[r].kind /\ upload'[r].file = f
    BY <1>0, <1>2, MovedFields DEF UploadsSafe, U!TypeOK, U!Steps
  <1>4. /\ mishaps[f] \subseteq mishaps'[f]
        /\ \A g \in Files \ {f} : mishaps'[g] = mishaps[g]
        /\ upload[r].kind # "asset" /\ upload[r].pc # "remove" => "failed" \in mishaps'[f]
        /\ upload[r].pc = "store" => "broken" \in mishaps'[f]
        /\ mishaps' \in [Files -> SUBSET U!Mishaps]
    BY <1>0 DEF UploadsSafe, U!TypeOK, U!Fail, U!Mishap, U!Mishaps, U!When
  <1>5. U!TypeOK'
    BY <1>1, <1>2, <1>3, <1>4 DEF UploadsSafe, U!TypeOK
  <1>6. Placed(r)' /\ Local(r)
    BY <1>0, <1>1, <1>2, <1>3, <1>4 DEF UploadsSafe, Placed, Local
  <1>7. upload[r].pc # "store" /\ Owned(f) => Owned(f)'
    BY <1>1, <1>2, OwnedStays DEF UploadsSafe
  <1>8. CASE upload[r].kind = "asset"
    <2>1. (Untouched(f)' /\ U!Changing(f) = {}) => Owned(f)'
      <3> SUFFICES ASSUME Untouched(f)', U!Changing(f) = {} PROVE Owned(f)'
        OBVIOUS
      <3>1. Untouched(f) /\ upload[r].pc # "store"
        BY <1>4 DEF Untouched
      <3>2. Owned(f)
        BY <3>1 DEF UploadsSafe, FileSafe, AtRest
      <3> QED BY <1>7, <3>1, <3>2
    <2>2. Untouched(f)' => upload[r].pc # "store"
      BY <1>4 DEF Untouched
    <2>3. FileSafe(f)'
      BY <1>0, <1>1, <1>4, <1>6, <1>8, <2>1, <2>2, AssetStep
    <2> QED BY <1>0, <1>5, <1>6, <2>3, UploadsStep
  <1>9. CASE upload[r].kind # "asset"
    <2>1. r \in U!Changing(f)
      BY <1>0, <1>1, <1>9 DEF U!Changing
    <2>2. Midway(r) /\ \A q \in U!Changing(f) : q # r => ~Clean(f)'
      BY <1>0, <1>4, <2>1, OnlyChange
    <2>3. r \notin U!Changing(f)'
      BY <1>3 DEF U!Changing
    <2>4. Clean(f)' => Whole(f)'
      <3> SUFFICES ASSUME Clean(f)' PROVE Whole(f)'
        OBVIOUS
      <3>1. upload[r].pc = "remove" /\ Clean(f)
        BY <1>4, <1>9 DEF Clean
      <3>2. Whole(f)
        BY <1>0, <2>2, <3>1 DEF Midway, Bytes
      <3> QED BY <1>1, <3>2, WholeStays DEF UploadsSafe
    <2>5. Untouched(f)' => Owned(f)'
      <3> SUFFICES ASSUME Untouched(f)' PROVE Owned(f)'
        OBVIOUS
      <3>1. upload[r].pc = "remove" /\ Untouched(f)
        BY <1>4, <1>9 DEF Untouched
      <3>2. Owned(f)
        BY <1>0, <2>2, <3>1 DEF Midway, Leftovers
      <3> QED BY <1>7, <3>1, <3>2
    <2>6. FileSafe(f)'
      BY <1>0, <1>1, <1>4, <1>6, <1>9, <2>2, <2>3, <2>4, <2>5, FileChangeStep DEF Midway
    <2> QED BY <1>0, <1>5, <1>6, <2>6, UploadsStep
  <1> QED BY <1>8, <1>9

(* Every step preserves the invariant. *)
LEMMA UploadsNext == UploadsSafe /\ [U!Next]_(U!vars) => UploadsSafe'
  <1> SUFFICES ASSUME UploadsSafe, [U!Next]_(U!vars) PROVE UploadsSafe'
    OBVIOUS
  <1>1. CASE UNCHANGED U!vars
    <2>1. UNCHANGED <<row, stored, upload, mishaps>>
      BY <1>1 DEF U!vars
    <2>2. \A f \in Files : FileSafe(f)' = FileSafe(f)
      BY <2>1 DEF FileSafe, AtRest, Midway, Alone, Bytes, Leftovers, Whole, Owned, Held, Clean,
                  Untouched, U!Changing, U!Exists, U!Target, U!Asset
    <2> QED BY <2>1, <2>2 DEF UploadsSafe, U!TypeOK, Placed
  <1>2. ASSUME NEW r \in Transfers,
               \/ U!CreateRow(r) \/ U!ReplaceRow(r) \/ U!List(r) \/ U!DeleteListed(r)
               \/ U!AllDeleted(r) \/ U!OpenWrite(r) \/ U!FinishWrite(r) \/ U!Stat(r)
               \/ U!Describe(r)
        PROVE  UploadsSafe'
    BY <1>2, CreateRowStep, ReplaceRowStep, ListStep, DeleteListedStep, AllDeletedStep,
       OpenWriteStep, FinishWriteStep, StatStep, DescribeStep
  <1>3. ASSUME NEW r \in Transfers,
               \/ U!FindRow(r) \/ U!RemoveRow(r) \/ U!ReadRow(r) \/ U!OriginalExists(r)
               \/ U!DerivedExists(r) \/ U!Derive(r) \/ U!Store(r) \/ U!Fail(r)
        PROVE  UploadsSafe'
    BY <1>3, FindRowStep, RemoveRowStep, ReadAssetStep, DeriveStep, StoreStep, UploadFailStep
  <1> QED BY <1>1, <1>2, <1>3 DEF U!Next

(* Every step is one of the part itself, or leaves it as it is. *)
LEMMA UploadsSteps ==
    [Next]_vars => /\ part' = part
                   /\ part = "uploads" => [U!Next]_(U!vars)
  BY DEF Next, vars, ofUploads, U!vars

UploadsInv == part = "uploads" => UploadsSafe

(* The invariant holds of every behaviour of services/files.ts and          *)
(* services/assets.ts.                                                      *)
THEOREM UploadsInvariance == Spec => []UploadsInv
  <1>1. Init => UploadsInv
    BY UploadsInit DEF Init, UploadsInv
  <1>2. UploadsInv /\ [Next]_vars => UploadsInv'
    BY UploadsSteps, UploadsNext DEF UploadsInv
  <1> QED BY <1>1, <1>2, PTL DEF Spec

(* However requests for a file interleave, its row describes the bytes that *)
(* are stored, unless a change failed half-way or overlapped another.       *)
THEOREM BytesStayDescribed == Spec => []BytesDescribed
  <1>1. UploadsSafe => U!BytesDescribed
    BY DEF UploadsSafe, FileSafe, AtRest, Clean, Whole, U!BytesDescribed
  <1>2. UploadsInv => BytesDescribed
    BY <1>1 DEF UploadsInv, BytesDescribed
  <1> QED BY <1>2, UploadsInvariance, PTL

(* Nothing is stored but the bytes of a row and the images derived from     *)
(* them, unless one of the mishaps that NothingLeftBehind names happened.   *)
THEOREM NothingStaysBehind == Spec => []NothingLeftBehind
  <1>1. ASSUME UploadsSafe, NEW n \in U!Names, U!Changing(n.file) \cup U!Deriving(n.file) = {},
               mishaps[n.file] = {}, stored[n] # "absent"
        PROVE  /\ U!Exists(n.file) /\ row[n.file].location = n.location
               /\ row[n.file].ext = n.ext /\ row[n.file].describes = stored[n]
    <2>1. PICK f \in Files : f = n.file
      BY DEF U!Names
    <2>2. Owned(f) /\ n \in Held(f)
      BY <1>1, <2>1 DEF UploadsSafe, FileSafe, AtRest, Untouched, Held
    <2>3. ASSUME NEW q \in Transfers, upload[q].pc = "store", U!Asset(q) = n PROVE FALSE
      <3>1. upload[q].file = f
        BY <1>1, <2>1, <2>3, RequestFields DEF UploadsSafe
      <3>2. upload[q].kind = "asset"
        BY <1>1, <2>3, RequestFields DEF UploadsSafe, Placed
      <3>3. q \in U!Deriving(f)
        BY <2>3, <3>1, <3>2 DEF U!Deriving
      <3> QED BY <1>1, <2>1, <3>3
    <2> QED BY <2>1, <2>2, <2>3 DEF Owned
  <1>2. UploadsInv => NothingLeftBehind
    BY <1>1 DEF UploadsInv, NothingLeftBehind, U!NothingLeftBehind
  <1> QED BY <1>2, UploadsInvariance, PTL
==============================================================================
