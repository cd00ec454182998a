---------------------------- MODULE ItemsProofs -----------------------------
(***************************************************************************)
(* Proofs about Items, for any number of items, requests and readers: the  *)
(* type invariant, which action events are emitted, that a request does    *)
(* not write more items than it may, when the cached response is stale,    *)
(* and that the newest revision of an item fits the item.                  *)
(***************************************************************************)
EXTENDS Items, FiniteSetTheorems, TLAPS

LEMMA FiniteKeys ==
    ASSUME NEW K \in SUBSET Keys
    PROVE  IsFiniteSet(K) /\ Cardinality(K) \in Nat /\ Cardinality(K) <= Cardinality(Keys)
BY ItemsAssumption, FS_Subset, FS_CardinalityType

(* The data of a revision is that of one of the items, or missing.          *)
LEMMA RevisionType ==
    ASSUME TypeOK, NEW r \in Reqs, NEW k \in Keys
    PROVE  RevisionOf(r, k) \in Revision
<1>1. Snapshot(r, k) \in Keys \cup {None}
  <2> DEFINE found == {j \in req[r].written : Rank(j, req[r].written) = TextRank(k, req[r].keys)}
  <2>1. found \subseteq Keys
    BY DEF TypeOK, Request
  <2>2. CASE found = {}
    BY <2>2 DEF Snapshot
  <2>3. CASE found # {}
    BY <2>1, <2>3 DEF Snapshot
  <2> QED BY <2>2, <2>3
<1> QED BY <1>1 DEF RevisionOf, Revision, Contents, TypeOK

(* What is left of a request after it wrote item k, or did not find it.     *)
LEMMA RequestWrites ==
    ASSUME NEW x \in Request, NEW k \in Keys
    PROVE  /\ [x EXCEPT !.left = x.left \ {k}, !.written = x.written \cup {k},
                        !.tracked = x.tracked + 1] \in Request
           /\ \A V \in {x.written, x.written \cup {k}} :
                [x EXCEPT !.left = x.left \ {k}, !.found = {}, !.written = V,
                          !.tracked = x.tracked + 1] \in Request
           /\ [x EXCEPT !.found = {k}] \in Request
<1> DEFINE L == x.left \ {k}
           W == x.written \cup {k}
           n == x.tracked + 1
<1>0. x.left \in SUBSET Keys /\ x.written \in SUBSET Keys /\ x.tracked \in Nat
  BY DEF Request
<1>1. L \in SUBSET Keys /\ W \in SUBSET Keys /\ n \in Nat
  BY <1>0
<1> HIDE DEF L, W, n
<1>2. \A V \in SUBSET Keys :
        [x EXCEPT !.left = L, !.written = V, !.tracked = n] \in Request
  BY <1>1 DEF Request
<1>3. [x EXCEPT !.left = L, !.written = W, !.tracked = n] \in Request
  BY <1>1, <1>2
<1>4. \A V \in SUBSET Keys :
        [x EXCEPT !.left = L, !.found = {}, !.written = V, !.tracked = n] \in Request
  BY <1>1 DEF Request
<1>5. \A V \in {x.written, W} :
        [x EXCEPT !.left = L, !.found = {}, !.written = V, !.tracked = n] \in Request
  BY <1>0, <1>1, <1>4
<1>6. [x EXCEPT !.found = {k}] \in Request
  BY DEF Request
<1> QED BY <1>3, <1>5, <1>6 DEF L, W, n

LEMMA TypeInit == Init => TypeOK
<1> SUFFICES ASSUME Init PROVE TypeOK
  OBVIOUS
<1> USE ItemsAssumption DEF Init
<1>1. items \in [Keys -> Item]
  BY DEF Item, Contents
<1>2. lock \in [Keys -> Reqs \cup {None}]
  OBVIOUS
<1>3. req \in [Reqs -> Request]
  BY DEF Request, Operations
<1>4. history \in [Keys -> Seq(Revision)]
  <2>1. \A k \in Keys : [by |-> "seed", data |-> k] \in Revision
    BY DEF Revision, Contents
  <2> QED BY <2>1
<1>5. NoResponse \in Response
  BY DEF NoResponse, Response, Item
<1>6. cache \in [full : BOOLEAN, response : Response]
  BY <1>5
<1>7. reader \in [Readers -> [pc : {"idle", "read"}, response : Response]]
  BY <1>5
<1> QED BY <1>1, <1>2, <1>3, <1>4, <1>6, <1>7 DEF TypeOK

LEMMA TypeNext == TypeOK /\ [Next]_vars => TypeOK'
<1> SUFFICES ASSUME TypeOK, [Next]_vars PROVE TypeOK'
  OBVIOUS
<1>0. \A r \in Reqs : req[r] \in Request
  BY DEF TypeOK
<1>1. CASE UNCHANGED vars
  BY <1>1 DEF vars, TypeOK
<1>2. ASSUME NEW r \in Reqs, Begin(r) PROVE TypeOK'
  <2>1. ASSUME NEW K \in SUBSET Keys \ {{}}, NEW kind \in Kinds, BeginMany(r, kind, K) PROVE TypeOK'
    BY <2>1, FiniteKeys, ItemsAssumption DEF BeginMany, Request, Operations, TypeOK
  <2>2. ASSUME NEW K \in SUBSET Keys \ {{}}, NEW kind \in Kinds, BeginBatch(r, kind, K) PROVE TypeOK'
    BY <2>2, ItemsAssumption DEF BeginBatch, Request, Operations, TypeOK
  <2>3. ASSUME NEW k \in Keys, BeginUpsert(r, k) PROVE TypeOK'
    BY <2>3 DEF BeginUpsert, Request, Operations, TypeOK
  <2> QED BY <1>2, <2>1, <2>2, <2>3 DEF Begin
<1>3. ASSUME NEW r \in Reqs, UpsertDecide(r) PROVE TypeOK'
  <2> DEFINE x(k) == [req[r] EXCEPT !.pc = IF Exists(k) THEN "check" ELSE "open",
                                    !.kind = IF Exists(k) THEN "updateMany" ELSE "createMany",
                                    !.tracked = IF Exists(k) THEN 1 ELSE 0]
  <2>1. \A k : x(k) \in Request
    BY <1>0 DEF Request, Operations
  <2>2. PICK k \in Keys : req' = [req EXCEPT ![r] = x(k)]
    BY <1>0, <1>3 DEF UpsertDecide, Request
  <2> QED BY <1>3, <2>1, <2>2 DEF UpsertDecide, TypeOK
<1>4. ASSUME NEW r \in Reqs, Check(r) PROVE TypeOK'
  <2>1. [req[r] EXCEPT !.pc = "open"] \in Request
    BY <1>0 DEF Request
  <2> QED BY <1>4, <2>1 DEF Check, TypeOK
<1>5. ASSUME NEW r \in Reqs, Write(r) PROVE TypeOK'
  <2>1. CASE WriteMany(r)
    <3> DEFINE K == {k \in req[r].left : Exists(k)}
    <3>1. K \in SUBSET Keys
      BY <1>0 DEF Request
    <3>2. [req[r] EXCEPT !.left = {}, !.written = K] \in Request
      BY <1>0, <3>1 DEF Request
    <3> QED BY <2>1, <3>2 DEF WriteMany, Lock, TypeOK
  <2>0. ASSUME NEW k \in Keys, Find(r, k) PROVE TypeOK'
    BY <1>0, <2>0, RequestWrites DEF Find, TypeOK
  <2>2. ASSUME NEW k \in Keys, CreateItem(r, k) PROVE TypeOK'
    <3>1. [req[r] EXCEPT !.left = req[r].left \ {k}, !.written = req[r].written \cup {k},
                         !.tracked = req[r].tracked + 1] \in Request
      BY <1>0, RequestWrites
    <3>2. events' \in SUBSET (Reqs \X Keys)
      BY <2>2 DEF CreateItem, TypeOK
    <3> QED BY <2>2, <3>1, <3>2 DEF CreateItem, Lock, TypeOK
  <2>3. ASSUME NEW k \in Keys, UpdateItem(r, k) PROVE TypeOK'
    <3> DEFINE W == IF Exists(k) THEN req[r].written \cup {k} ELSE req[r].written
               x == [req[r] EXCEPT !.left = req[r].left \ {k}, !.found = {}, !.written = W,
                                   !.tracked = req[r].tracked + 1]
    <3>1. x \in Request
      BY <1>0, RequestWrites
    <3>2. req' = [req EXCEPT ![r] = x]
      BY <2>3 DEF UpdateItem
    <3> HIDE DEF x
    <3> QED BY <2>3, <3>1, <3>2 DEF UpdateItem, Lock, TypeOK
  <2> QED BY <1>5, <2>0, <2>1, <2>2, <2>3 DEF Write
<1>6. ASSUME NEW r \in Reqs, Commit(r) PROVE TypeOK'
  <2>1. items' \in [Keys -> Item]
    BY <1>6 DEF Commit, Item, Contents, TypeOK
  <2>2. history' \in [Keys -> Seq(Revision)]
    BY <1>6, RevisionType DEF Commit, TypeOK
  <2>3. [req[r] EXCEPT !.pc = IF req[r].kind = "createMany" THEN "emit" ELSE "purge",
                       !.outcome = "committed"] \in Request
    BY <1>0 DEF Request
  <2> QED BY <1>6, <2>1, <2>2, <2>3 DEF Commit, Unlock, TypeOK
<1>7. ASSUME NEW r \in Reqs, Rollback(r) PROVE TypeOK'
  <2>1. [req[r] EXCEPT !.pc = IF req[r].kind = "updateBatch" THEN "purge" ELSE "done",
                       !.left = {}, !.found = {}, !.written = {},
                       !.outcome = "rolled back"] \in Request
    BY <1>0 DEF Request
  <2> QED BY <1>7, <2>1 DEF Rollback, Unlock, TypeOK
<1>8. ASSUME NEW r \in Reqs, Purge(r) PROVE TypeOK'
  <2>1. [req[r] EXCEPT !.pc = IF req[r].kind \in {"updateMany", "deleteMany"}
                              THEN "emit" ELSE "done"] \in Request
    BY <1>0 DEF Request
  <2>2. cache' \in [full : BOOLEAN, response : Response]
    BY <1>8 DEF Purge, NoResponse, Response, Item
  <2>3. \A d \in Readers : [data |-> reader[d].response.data, late |-> TRUE] \in Response
    BY DEF Response, TypeOK
  <2>4. reader' \in [Readers -> [pc : {"idle", "read"}, response : Response]]
    BY <1>8, <2>3 DEF Purge, TypeOK
  <2> QED BY <1>8, <2>1, <2>2, <2>4 DEF Purge, TypeOK
<1>9. ASSUME NEW r \in Reqs, Emit(r) PROVE TypeOK'
  <2>1. [req[r] EXCEPT !.pc = IF req[r].kind = "createMany" THEN "purge" ELSE "done"] \in Request
    BY <1>0 DEF Request
  <2>2. events' \in SUBSET (Reqs \X Keys)
    <3>1. req[r].keys \in SUBSET Keys
      BY <1>0 DEF Request
    <3> QED BY <1>9, <3>1 DEF Emit, TypeOK
  <2> QED BY <1>9, <2>1, <2>2 DEF Emit, TypeOK
<1>10. ASSUME NEW r \in Reqs, Die(r) PROVE TypeOK'
  <2>1. [req[r] EXCEPT !.pc = "dead", !.left = {},
                       !.outcome = IF req[r].outcome = "open" THEN "rolled back"
                                   ELSE req[r].outcome] \in Request
    BY <1>0 DEF Request
  <2> QED BY <1>10, <2>1 DEF Die, Unlock, TypeOK
<1>11. ASSUME NEW d \in Readers, Read(d) \/ Respond(d) PROVE TypeOK'
  <2>1. [data |-> items, late |-> FALSE] \in Response /\ NoResponse \in Response
    BY DEF NoResponse, Response, Item, TypeOK
  <2>2. CASE Read(d)
    BY <2>1, <2>2 DEF Read, TypeOK
  <2>3. CASE Respond(d)
    BY <2>1, <2>3 DEF Respond, TypeOK
  <2> QED BY <1>11, <2>2, <2>3
<1>12. CASE Expire
  BY <1>12 DEF Expire, NoResponse, Response, Item, TypeOK
<1> QED
  BY <1>1, <1>2, <1>3, <1>4, <1>5, <1>6, <1>7, <1>8, <1>9, <1>10, <1>11, <1>12 DEF Next

(* TypeOK is an invariant: in particular the data of every revision is that *)
(* of an item of the collection, or missing.                                *)
THEOREM TypeCorrect == Spec => []TypeOK
BY TypeInit, TypeNext, PTL DEF Spec

-----------------------------------------------------------------------------
(* What a request has told of at each of its points.                        *)

Quiet(r) == \A k \in Keys : <<r, k>> \notin events

Settled(r) ==
    \A k \in Keys : <<r, k>> \in events <=> req[r].outcome = "committed" /\ k \in req[r].keys

(* Who emits inside the transaction, has told of what is not left.          *)
Told(r) ==
    /\ req[r].kind \in EmitsInside /\ req[r].outcome # "rolled back" =>
        \A k \in Keys : k \in req[r].keys /\ k \notin req[r].left => <<r, k>> \in events
    /\ req[r].outcome = "committed" => req[r].left = {}

Phase(r) ==
    /\ req[r].pc \in {"idle", "exists", "check", "open"} => req[r].outcome = "open"
    /\ req[r].pc \in {"idle", "exists", "check"} => Quiet(r)
    /\ req[r].pc \in {"check", "open", "purge", "emit"} => req[r].kind # "upsertOne"
    /\ req[r].pc = "open" /\ req[r].kind \notin EmitsInside => Quiet(r)
    /\ req[r].pc = "emit" =>
        req[r].outcome = "committed" /\ req[r].kind \notin EmitsInside /\ Quiet(r)
    /\ req[r].pc = "purge" /\ req[r].kind \notin EmitsInside => req[r].outcome = "committed"
    /\ req[r].pc = "purge" /\ req[r].kind \in {"updateMany", "deleteMany"} => Quiet(r)
    /\ req[r].pc = "purge" /\ req[r].kind = "createMany" => Settled(r)
    /\ req[r].pc = "done" /\ req[r].kind \notin EmitsInside => Settled(r)
    /\ req[r].pc = "dead" /\ req[r].kind \notin EmitsInside /\ ~Quiet(r) =>
        req[r].outcome = "committed"
    /\ Told(r)

(* A request keeps its phase in a step that leaves it and its events alone. *)
LEMMA PhaseFrame ==
    ASSUME NEW q \in Reqs, Phase(q), req'[q] = req[q],
           \A k \in Keys : <<q, k>> \in events' <=> <<q, k>> \in events
    PROVE  Phase(q)'
BY DEF Phase, Told, Quiet, Settled

(* One request moves from x to y, and nothing is emitted.                   *)
LEMMA PhaseStep ==
    ASSUME NEW r \in Reqs, NEW y, TypeOK, req' = [req EXCEPT ![r] = y], events' = events,
           \A q \in Reqs : Phase(q),
           Phase(r)'
    PROVE  \A q \in Reqs : Phase(q)'
<1> SUFFICES ASSUME NEW q \in Reqs PROVE Phase(q)'
  OBVIOUS
<1>1. CASE q = r
  BY <1>1
<1>2. CASE q # r
  BY <1>2, PhaseFrame DEF TypeOK
<1> QED BY <1>1, <1>2

LEMMA PhaseNext ==
    TypeOK /\ (\A r \in Reqs : Phase(r)) /\ [Next]_vars => (\A r \in Reqs : Phase(r))'
<1> SUFFICES ASSUME TypeOK, \A r \in Reqs : Phase(r), [Next]_vars PROVE \A r \in Reqs : Phase(r)'
  OBVIOUS
<1>0. \A r \in Reqs : req[r] \in Request
  BY DEF TypeOK
<1>1. CASE UNCHANGED vars
  BY <1>1 DEF vars, Phase, Told, Quiet, Settled
<1>2. ASSUME NEW r \in Reqs, Begin(r) PROVE \A q \in Reqs : Phase(q)'
  <2>1. ASSUME NEW K \in SUBSET Keys \ {{}}, NEW kind \in Kinds, BeginMany(r, kind, K)
        PROVE \A q \in Reqs : Phase(q)'
    <3>1. Phase(r)'
      BY <2>1 DEF BeginMany, Phase, Told, EmitsInside, Quiet, TypeOK
    <3> QED BY <2>1, <3>1, PhaseStep DEF BeginMany
  <2>2. ASSUME NEW K \in SUBSET Keys \ {{}}, NEW kind \in Kinds, BeginBatch(r, kind, K)
        PROVE \A q \in Reqs : Phase(q)'
    <3>1. Phase(r)'
      BY <2>2 DEF BeginBatch, Phase, Told, EmitsInside, Quiet, TypeOK
    <3> QED BY <2>2, <3>1, PhaseStep DEF BeginBatch
  <2>3. ASSUME NEW k \in Keys, BeginUpsert(r, k) PROVE \A q \in Reqs : Phase(q)'
    <3>1. Phase(r)'
      BY <2>3 DEF BeginUpsert, Phase, Told, EmitsInside, Quiet, TypeOK
    <3> QED BY <2>3, <3>1, PhaseStep DEF BeginUpsert
  <2> QED BY <1>2, <2>1, <2>2, <2>3 DEF Begin
<1>3. ASSUME NEW r \in Reqs, UpsertDecide(r) PROVE \A q \in Reqs : Phase(q)'
  <2>1. Phase(r)'
    <3>1. req[r] \in Request /\ Quiet(r) /\ req[r].outcome = "open"
      BY <1>0, <1>3 DEF UpsertDecide, Phase
    <3>2. /\ req'[r].pc \in {"check", "open"} /\ req'[r].kind \in {"updateMany", "createMany"}
          /\ req'[r].outcome = "open" /\ events' = events
      <4>1. PICK k \in req[r].keys :
                req' = [req EXCEPT ![r] =
                        [req[r] EXCEPT !.pc = IF Exists(k) THEN "check" ELSE "open",
                                       !.kind = IF Exists(k) THEN "updateMany" ELSE "createMany",
                                       !.tracked = IF Exists(k) THEN 1 ELSE 0]]
        BY <1>3 DEF UpsertDecide
      <4>2. events' = events
        BY <1>3 DEF UpsertDecide
      <4>3. req'[r] = [req[r] EXCEPT !.pc = IF Exists(k) THEN "check" ELSE "open",
                                     !.kind = IF Exists(k) THEN "updateMany" ELSE "createMany",
                                     !.tracked = IF Exists(k) THEN 1 ELSE 0]
        BY <4>1 DEF TypeOK
      <4> QED BY <3>1, <4>2, <4>3 DEF Request
    <3> QED BY <3>1, <3>2 DEF Phase, Told, EmitsInside, Quiet
  <2> QED BY <1>3, <2>1, PhaseStep DEF UpsertDecide
<1>4. ASSUME NEW r \in Reqs, Check(r) PROVE \A q \in Reqs : Phase(q)'
  <2>1. Phase(r)'
    <3>1. /\ req'[r].pc = "open" /\ req'[r].kind = req[r].kind
          /\ req'[r].outcome = req[r].outcome
          /\ events' = events /\ req[r].pc = "check"
          /\ req'[r].keys = req[r].keys /\ req'[r].left = req[r].left
      BY <1>0, <1>4 DEF Check, TypeOK, Request
    <3> QED BY <3>1 DEF Phase, Told, Quiet
  <2> QED BY <1>4, <2>1, PhaseStep DEF Check
<1>5. ASSUME NEW r \in Reqs, Write(r) PROVE \A q \in Reqs : Phase(q)'
  <2>1. CASE WriteMany(r)
    <3>1. Phase(r)'
      <4>1. /\ req'[r].pc = "open" /\ req'[r].kind = req[r].kind
            /\ req'[r].outcome = req[r].outcome
            /\ events' = events /\ req[r].pc = "open"
            /\ req[r].kind \notin EmitsInside
        BY <1>0, <2>1 DEF WriteMany, TypeOK, Request, EmitsInside
      <4> QED BY <4>1 DEF Phase, Told, Quiet
    <3> QED BY <2>1, <3>1, PhaseStep DEF WriteMany
  <2>0. ASSUME NEW k \in Keys, Find(r, k) PROVE \A q \in Reqs : Phase(q)'
    <3>1. Phase(r)'
      <4>1. /\ req'[r].pc = req[r].pc /\ req'[r].kind = req[r].kind
            /\ req'[r].outcome = req[r].outcome /\ events' = events
            /\ req'[r].keys = req[r].keys /\ req'[r].left = req[r].left
        BY <1>0, <2>0 DEF Find, TypeOK, Request
      <4> QED BY <4>1 DEF Phase, Told, Quiet, Settled
    <3> QED BY <2>0, <3>1, PhaseStep DEF Find
  <2>2. ASSUME NEW k \in Keys, CreateItem(r, k) PROVE \A q \in Reqs : Phase(q)'
    <3>1. /\ req'[r].pc = "open" /\ req'[r].kind = req[r].kind
          /\ req'[r].outcome = "open" /\ req[r].pc = "open"
          /\ req'[r].keys = req[r].keys /\ req'[r].left = req[r].left \ {k}
          /\ req[r].kind \in {"createMany", "upsertMany"}
      BY <1>0, <2>2 DEF CreateItem, TypeOK, Request, Phase
    <3>2. events' = events \cup (IF req[r].kind \in EmitsInside THEN {<<r, k>>} ELSE {})
      BY <2>2 DEF CreateItem
    <3>3. Phase(r)'
      BY <3>1, <3>2 DEF Phase, Told, Quiet
    <3>4. ASSUME NEW q \in Reqs \ {r} PROVE Phase(q)'
      BY <2>2, <3>2, PhaseFrame DEF CreateItem, TypeOK
    <3> QED BY <3>3, <3>4
  <2>3. ASSUME NEW k \in Keys, UpdateItem(r, k) PROVE \A q \in Reqs : Phase(q)'
    <3>1. Phase(r)'
      <4>1. /\ req'[r].pc = "open" /\ req'[r].kind = req[r].kind /\ req[r].kind \in EmitsInside
            /\ req'[r].outcome = "open" /\ req[r].pc = "open"
            /\ req'[r].keys = req[r].keys /\ req'[r].left = req[r].left \ {k}
            /\ events' = events \cup {<<r, k>>}
        BY <1>0, <2>3 DEF UpdateItem, TypeOK, Request, Phase
      <4> QED BY <4>1 DEF Phase, Told, EmitsInside
    <3>2. ASSUME NEW q \in Reqs \ {r} PROVE Phase(q)'
      BY <2>3, PhaseFrame DEF UpdateItem, TypeOK
    <3> QED BY <3>1, <3>2
  <2> QED BY <1>5, <2>0, <2>1, <2>2, <2>3 DEF Write
<1>6. ASSUME NEW r \in Reqs, Commit(r) PROVE \A q \in Reqs : Phase(q)'
  <2>1. Phase(r)'
    <3>1. /\ req'[r].pc = (IF req[r].kind = "createMany" THEN "emit" ELSE "purge")
          /\ req'[r].kind = req[r].kind /\ req'[r].keys = req[r].keys
          /\ req'[r].outcome = "committed"
          /\ events' = events /\ req[r].pc = "open"
          /\ req'[r].left = req[r].left /\ req[r].left = {} /\ req[r].outcome = "open"
      BY <1>0, <1>6 DEF Commit, TypeOK, Request, Phase
    <3> QED BY <3>1 DEF Phase, Told, EmitsInside, Quiet
  <2> QED BY <1>6, <2>1, PhaseStep DEF Commit
<1>7. ASSUME NEW r \in Reqs, Rollback(r) PROVE \A q \in Reqs : Phase(q)'
  <2>1. Phase(r)'
    <3>1. /\ req'[r].pc = (IF req[r].kind = "updateBatch" THEN "purge" ELSE "done")
          /\ req'[r].kind = req[r].kind /\ req'[r].keys = req[r].keys
          /\ req'[r].outcome = "rolled back"
          /\ events' = events /\ req[r].pc \in {"exists", "check", "open"}
      BY <1>0, <1>7 DEF Rollback, TypeOK, Request
    <3>2. CASE req[r].kind \in EmitsInside
      BY <3>1, <3>2 DEF Phase, Told, EmitsInside
    <3>3. CASE req[r].kind \notin EmitsInside
      <4>1. Quiet(r)
        BY <3>1, <3>3 DEF Phase
      <4>2. Settled(r)'
        BY <3>1, <4>1 DEF Quiet, Settled
      <4> QED BY <3>1, <3>3, <4>2 DEF Phase, Told, EmitsInside
    <3> QED BY <3>2, <3>3
  <2> QED BY <1>7, <2>1, PhaseStep DEF Rollback
<1>8. ASSUME NEW r \in Reqs, Purge(r) PROVE \A q \in Reqs : Phase(q)'
  <2>1. Phase(r)'
    <3>1. /\ req'[r].pc = (IF req[r].kind \in {"updateMany", "deleteMany"} THEN "emit" ELSE "done")
          /\ req'[r].kind = req[r].kind /\ req'[r].keys = req[r].keys
          /\ req'[r].outcome = req[r].outcome
          /\ events' = events /\ req[r].pc = "purge" /\ req[r].kind \in Operations
          /\ req'[r].left = req[r].left
      BY <1>0, <1>8 DEF Purge, TypeOK, Request
    <3>2. CASE req[r].kind \in {"updateMany", "deleteMany"}
      BY <3>1, <3>2 DEF Phase, Told, EmitsInside, Quiet
    <3>3. CASE req[r].kind \in EmitsInside
      BY <3>1, <3>3 DEF Phase, Told, EmitsInside
    <3>4. CASE req[r].kind = "createMany"
      <4>1. Settled(r)'
        BY <3>1, <3>4 DEF Phase, Settled
      <4> QED BY <3>1, <3>4, <4>1 DEF Phase, Told, EmitsInside
    <3>5. req[r].kind # "upsertOne"
      BY <3>1 DEF Phase
    <3> QED BY <3>1, <3>2, <3>3, <3>4, <3>5 DEF Operations, EmitsInside
  <2> QED BY <1>8, <2>1, PhaseStep DEF Purge
<1>9. ASSUME NEW r \in Reqs, Emit(r) PROVE \A q \in Reqs : Phase(q)'
  <2>1. \A k \in Keys : <<r, k>> \in events' <=> k \in req[r].keys
    <3>1. Quiet(r) /\ events' = events \cup {<<r, k>> : k \in req[r].keys}
      BY <1>9 DEF Emit, Phase
    <3> QED BY <3>1 DEF Quiet
  <2>2. Phase(r)'
    <3>1. /\ req'[r].pc = (IF req[r].kind = "createMany" THEN "purge" ELSE "done")
          /\ req'[r].kind = req[r].kind /\ req'[r].keys = req[r].keys
          /\ req'[r].outcome = req[r].outcome /\ req[r].pc = "emit"
          /\ req'[r].left = req[r].left
      BY <1>0, <1>9 DEF Emit, TypeOK, Request
    <3>2. req[r].outcome = "committed" /\ req[r].kind \notin EmitsInside
      BY <3>1 DEF Phase
    <3>3. Settled(r)'
      BY <2>1, <3>1, <3>2 DEF Settled
    <3>4. CASE req[r].kind = "createMany"
      BY <3>1, <3>2, <3>3, <3>4 DEF Phase, Told, EmitsInside
    <3>5. CASE req[r].kind # "createMany"
      BY <3>1, <3>2, <3>3, <3>5 DEF Phase, Told, EmitsInside
    <3> QED BY <3>4, <3>5
  <2>3. ASSUME NEW q \in Reqs \ {r} PROVE Phase(q)'
    BY <1>9, PhaseFrame DEF Emit, TypeOK
  <2> QED BY <2>2, <2>3
<1>10. ASSUME NEW r \in Reqs, Die(r) PROVE \A q \in Reqs : Phase(q)'
  <2>1. Phase(r)'
    <3>1. /\ req'[r].pc = "dead"
          /\ req'[r].kind = req[r].kind /\ req'[r].keys = req[r].keys
          /\ req'[r].outcome = (IF req[r].outcome = "open" THEN "rolled back" ELSE req[r].outcome)
          /\ events' = events /\ req'[r].left = {}
          /\ req[r].pc \in {"exists", "check", "open", "purge", "emit"}
          /\ req[r].outcome \in {"open", "committed", "rolled back"}
      BY <1>0, <1>10 DEF Die, TypeOK, Request
    <3>2. CASE req[r].pc \in {"exists", "check", "open"}
      BY <3>1, <3>2 DEF Phase, Told, EmitsInside, Quiet
    <3>3. CASE req[r].pc \in {"purge", "emit"}
      <4>1. Told(r)'
        BY <3>1 DEF Phase, Told
      <4> QED BY <3>1, <3>3, <4>1 DEF Phase
    <3> QED BY <3>1, <3>2, <3>3
  <2> QED BY <1>10, <2>1, PhaseStep DEF Die
<1>11. ASSUME NEW d \in Readers, Read(d) \/ Respond(d) PROVE \A q \in Reqs : Phase(q)'
  BY <1>11 DEF Read, Respond, Phase, Told, Quiet, Settled
<1>12. CASE Expire
  BY <1>12 DEF Expire, Phase, Told, Quiet, Settled
<1> QED
  BY <1>1, <1>2, <1>3, <1>4, <1>5, <1>6, <1>7, <1>8, <1>9, <1>10, <1>11, <1>12 DEF Next

LEMMA PhaseInit == Init => \A r \in Reqs : Phase(r)
<1> SUFFICES ASSUME Init, NEW r \in Reqs PROVE Phase(r)
  OBVIOUS
<1>1. /\ req[r].pc = "idle" /\ req[r].kind = "createMany" /\ req[r].left = {}
      /\ req[r].outcome = "open" /\ events = {}
  BY DEF Init
<1> QED BY <1>1 DEF Phase, Told, EmitsInside, Quiet

LEMMA PhaseImplies ==
    ASSUME TypeOK, \A r \in Reqs : Phase(r)
    PROVE  ActionsFollowCommit /\ AllAnnounced
<1>1. ActionsFollowCommit
  <2> SUFFICES ASSUME NEW r \in Reqs, NEW k \in Keys, <<r, k>> \in events,
                      req[r].kind \notin EmitsInside
               PROVE  req[r].outcome = "committed"
    BY DEF ActionsFollowCommit
  <2>1. Phase(r) /\ ~Quiet(r) /\ req[r] \in Request
    BY DEF Quiet, TypeOK
  <2> QED BY <2>1 DEF Phase, Settled, Request
<1>2. AllAnnounced
  BY DEF AllAnnounced, Phase, Told, Settled
<1> QED BY <1>1, <1>2

(* No action event tells of a change that is not committed, those of        *)
(* updateBatch and upsertMany excepted: the phases of a request are         *)
(* inductive and imply it.                                                  *)
THEOREM EventsFollowCommits == Spec => []ActionsFollowCommit
BY TypeInit, TypeNext, PhaseInit, PhaseNext, PhaseImplies, PTL DEF Spec

(* A mutation that is done has told of its keys if it committed, and of     *)
(* none if not, again with that exception.                                  *)
THEOREM EventsComplete == Spec => []AllAnnounced
BY TypeInit, TypeNext, PhaseInit, PhaseNext, PhaseImplies, PTL DEF Spec

-----------------------------------------------------------------------------
(* How many items a request wrote.                                          *)

Counted(r) ==
    /\ req[r].written \subseteq req[r].keys /\ req[r].left \subseteq req[r].keys
    /\ Cardinality(req[r].written) <= req[r].tracked
    /\ req[r].tracked <= Limit
    /\ req[r].kind \in {"updateMany", "deleteMany"} =>
        Cardinality(req[r].left) <= req[r].tracked
    /\ req[r].pc = "exists" =>
        \E k \in Keys : req[r].keys = {k} /\ req[r].left = {k} /\ req[r].written = {}

LEMMA CountedStep ==
    ASSUME NEW r \in Reqs, NEW y, TypeOK, req' = [req EXCEPT ![r] = y],
           \A q \in Reqs : Counted(q), Counted(r)'
    PROVE  \A q \in Reqs : Counted(q)'
<1> SUFFICES ASSUME NEW q \in Reqs PROVE Counted(q)'
  OBVIOUS
<1>1. CASE q = r
  BY <1>1
<1>2. CASE q # r
  BY <1>2 DEF Counted, TypeOK
<1> QED BY <1>1, <1>2

(* A step that writes nothing more.                                         *)
LEMMA CountedKept ==
    ASSUME NEW r \in Reqs, NEW y, TypeOK, req' = [req EXCEPT ![r] = y],
           \A q \in Reqs : Counted(q),
           y.keys = req[r].keys, y.kind = req[r].kind, y.tracked = req[r].tracked,
           y.left \in {req[r].left, {}}, y.written \in {req[r].written, {}}, y.pc # "exists"
    PROVE  \A q \in Reqs : Counted(q)'
<1>1. req'[r] = y /\ Counted(r) /\ req[r].tracked \in Nat
  BY DEF TypeOK, Request
<1>2. Cardinality({}) = 0
  BY FS_EmptySet
<1>3. Cardinality(y.written) <= y.tracked
  <2>1. CASE y.written = {}
    BY <1>1, <1>2, <2>1
  <2>2. CASE y.written = req[r].written
    BY <1>1, <2>2 DEF Counted
  <2> QED BY <2>1, <2>2
<1>4. y.kind \in {"updateMany", "deleteMany"} => Cardinality(y.left) <= y.tracked
  <2>1. CASE y.left = {}
    BY <1>1, <1>2, <2>1
  <2>2. CASE y.left = req[r].left
    BY <1>1, <2>2 DEF Counted
  <2> QED BY <2>1, <2>2
<1>5. y.written \subseteq y.keys /\ y.left \subseteq y.keys /\ y.tracked <= Limit
  BY <1>1 DEF Counted
<1>6. Counted(r)'
  BY <1>1, <1>3, <1>4, <1>5 DEF Counted
<1> QED BY <1>6, CountedStep

(* A step that counts one more, and writes at most that one.                *)
LEMMA OneMore ==
    ASSUME NEW r \in Reqs, NEW k \in Keys, TypeOK, Counted(r),
           k \in req[r].left, req[r].tracked < Limit,
           req'[r].left = req[r].left \ {k},
           req'[r].written \in {req[r].written, req[r].written \cup {k}},
           req'[r].tracked = req[r].tracked + 1, req'[r].keys = req[r].keys,
           req'[r].pc = "open", req'[r].kind \notin {"updateMany", "deleteMany"}
    PROVE  Counted(r)'
<1> DEFINE W == req[r].written
           V == req[r].written \cup {k}
<1>1. W \in SUBSET Keys /\ V \in SUBSET Keys /\ req[r].tracked \in Nat
  <2>1. req[r] \in Request
    BY DEF TypeOK
  <2>2. req[r].written \in SUBSET Keys /\ req[r].tracked \in Nat
    BY <2>1 DEF Request
  <2> QED BY <2>2
<1>2. Cardinality(W) \in Nat /\ Cardinality(V) \in Nat /\ Cardinality(V) <= Cardinality(W) + 1
  <2>1. IsFiniteSet(W) /\ Cardinality(W) \in Nat /\ Cardinality(V) \in Nat
    BY <1>1, FiniteKeys
  <2>2. Cardinality(W \cup {k}) = IF k \in W THEN Cardinality(W) ELSE Cardinality(W) + 1
    BY <2>1, FS_AddElement
  <2> QED BY <2>1, <2>2
<1>3. W \subseteq req[r].keys /\ req[r].left \subseteq req[r].keys /\ Cardinality(W) <= req[r].tracked
  BY DEF Counted
<1>4. Limit \in Nat
  BY ItemsAssumption
<1>5. req'[r].written \subseteq req'[r].keys /\ req'[r].left \subseteq req'[r].keys
  BY <1>3
<1> HIDE DEF W, V
<1>6. Cardinality(req'[r].written) <= req'[r].tracked /\ req'[r].tracked <= Limit
  <2>1. CASE req'[r].written = W
    BY <1>1, <1>2, <1>3, <1>4, <2>1
  <2>2. CASE req'[r].written = V
    BY <1>1, <1>2, <1>3, <1>4, <2>2
  <2> QED BY <2>1, <2>2 DEF W, V
<1> QED BY <1>5, <1>6 DEF Counted

LEMMA CountedInit == Init => \A r \in Reqs : Counted(r)
<1> SUFFICES ASSUME Init, NEW r \in Reqs PROVE Counted(r)
  OBVIOUS
<1>1. /\ req[r].written = {} /\ req[r].left = {} /\ req[r].keys = {} /\ req[r].tracked = 0
      /\ req[r].pc = "idle"
  BY DEF Init
<1>2. Limit \in Nat
  BY ItemsAssumption
<1> QED BY <1>1, <1>2, FS_EmptySet DEF Counted

LEMMA CountedNext ==
    TypeOK /\ (\A r \in Reqs : Counted(r)) /\ [Next]_vars => (\A r \in Reqs : Counted(r))'
<1> SUFFICES ASSUME TypeOK, \A r \in Reqs : Counted(r), [Next]_vars
             PROVE \A r \in Reqs : Counted(r)'
  OBVIOUS
<1>0. \A r \in Reqs : req[r] \in Request
  BY DEF TypeOK
<1>1. CASE UNCHANGED vars
  BY <1>1 DEF vars, Counted
<1>2. ASSUME NEW r \in Reqs, Begin(r) PROVE \A q \in Reqs : Counted(q)'
  <2>1. ASSUME NEW K \in SUBSET Keys \ {{}}, NEW kind \in Kinds, BeginMany(r, kind, K)
        PROVE \A q \in Reqs : Counted(q)'
    <3>1. /\ req'[r].keys = K /\ req'[r].left = K /\ req'[r].written = {}
          /\ req'[r].tracked = Cardinality(K) /\ req'[r].pc = "check" /\ Cardinality(K) <= Limit
      BY <2>1 DEF BeginMany, TypeOK
    <3>2. Cardinality(K) \in Nat /\ Cardinality({}) = 0
      BY FiniteKeys, FS_EmptySet
    <3>3. Counted(r)'
      BY <3>1, <3>2 DEF Counted
    <3> QED BY <2>1, <3>3, CountedStep DEF BeginMany
  <2>2. ASSUME NEW K \in SUBSET Keys \ {{}}, NEW kind \in Kinds, BeginBatch(r, kind, K)
        PROVE \A q \in Reqs : Counted(q)'
    <3>1. /\ req'[r].keys = K /\ req'[r].left = K /\ req'[r].written = {}
          /\ req'[r].tracked = 0 /\ req'[r].pc = "open" /\ req'[r].kind \notin {"updateMany", "deleteMany"}
      BY <2>2 DEF BeginBatch, TypeOK
    <3>2. Limit \in Nat /\ Cardinality({}) = 0
      BY ItemsAssumption, FS_EmptySet
    <3>3. Counted(r)'
      BY <3>1, <3>2 DEF Counted
    <3> QED BY <2>2, <3>3, CountedStep DEF BeginBatch
  <2>3. ASSUME NEW k \in Keys, BeginUpsert(r, k) PROVE \A q \in Reqs : Counted(q)'
    <3>1. /\ req'[r].keys = {k} /\ req'[r].left = {k} /\ req'[r].written = {}
          /\ req'[r].tracked = 0 /\ req'[r].kind = "upsertOne"
      BY <2>3 DEF BeginUpsert, TypeOK
    <3>2. Limit \in Nat /\ Cardinality({}) = 0
      BY ItemsAssumption, FS_EmptySet
    <3>3. Counted(r)'
      BY <3>1, <3>2 DEF Counted
    <3> QED BY <2>3, <3>3, CountedStep DEF BeginUpsert
  <2> QED BY <1>2, <2>1, <2>2, <2>3 DEF Begin
<1>3. ASSUME NEW r \in Reqs, UpsertDecide(r) PROVE \A q \in Reqs : Counted(q)'
  <2>1. PICK k \in req[r].keys :
            req' = [req EXCEPT ![r] =
                    [req[r] EXCEPT !.pc = IF Exists(k) THEN "check" ELSE "open",
                                   !.kind = IF Exists(k) THEN "updateMany" ELSE "createMany",
                                   !.tracked = IF Exists(k) THEN 1 ELSE 0]]
    BY <1>3 DEF UpsertDecide
  <2>2. req'[r] = [req[r] EXCEPT !.pc = IF Exists(k) THEN "check" ELSE "open",
                                 !.kind = IF Exists(k) THEN "updateMany" ELSE "createMany",
                                 !.tracked = IF Exists(k) THEN 1 ELSE 0]
    BY <2>1 DEF TypeOK
  <2>3. /\ req'[r].keys = {k} /\ req'[r].left = {k} /\ req'[r].written = {}
        /\ req'[r].pc \in {"check", "open"}
        /\ req'[r].tracked = IF Exists(k) THEN 1 ELSE 0
        /\ req'[r].kind = IF Exists(k) THEN "updateMany" ELSE "createMany"
    <3>1. req[r].pc = "exists" /\ req[r] \in Request
      BY <1>0, <1>3 DEF UpsertDecide
    <3>2. req[r].keys = {k} /\ req[r].left = {k} /\ req[r].written = {}
      BY <3>1 DEF Counted
    <3> QED BY <2>2, <3>1, <3>2 DEF Request
  <2>4. Cardinality({k}) = 1 /\ Cardinality({}) = 0 /\ Limit \in Nat \ {0}
    BY ItemsAssumption, FS_Singleton, FS_EmptySet
  <2>5. Counted(r)'
    <3>1. CASE Exists(k)
      BY <2>3, <2>4, <3>1 DEF Counted
    <3>2. CASE ~Exists(k)
      BY <2>3, <2>4, <3>2 DEF Counted
    <3> QED BY <3>1, <3>2
  <2> QED BY <2>1, <2>5, CountedStep
<1>4. ASSUME NEW r \in Reqs, Check(r) PROVE \A q \in Reqs : Counted(q)'
  <2> DEFINE y == [req[r] EXCEPT !.pc = "open"]
  <2>1. /\ y.keys = req[r].keys /\ y.kind = req[r].kind /\ y.tracked = req[r].tracked
        /\ y.left \in {req[r].left, {}} /\ y.written \in {req[r].written, {}} /\ y.pc # "exists"
    BY <1>0 DEF Request
  <2>2. req' = [req EXCEPT ![r] = y]
    BY <1>4 DEF Check
  <2> HIDE DEF y
  <2> QED BY <2>1, <2>2, CountedKept
<1>5. ASSUME NEW r \in Reqs, Write(r) PROVE \A q \in Reqs : Counted(q)'
  <2>1. CASE WriteMany(r)
    <3> DEFINE K == {k \in req[r].left : Exists(k)}
    <3>1. Cardinality(K) <= Cardinality(req[r].left) /\ Cardinality(K) \in Nat
          /\ Cardinality(req[r].left) \in Nat
      <4>1. req[r].left \in SUBSET Keys
        BY <1>0 DEF Request
      <4>2. IsFiniteSet(req[r].left) /\ K \in SUBSET req[r].left
        BY <4>1, FiniteKeys
      <4> HIDE DEF K
      <4> QED BY <4>1, <4>2, FiniteKeys, FS_Subset, FS_CardinalityType
    <3>2. req'[r] = [req[r] EXCEPT !.left = {}, !.written = K]
      BY <2>1 DEF WriteMany, TypeOK
    <3> HIDE DEF K
    <3>3. req[r].kind \in {"updateMany", "deleteMany"} /\ req[r].pc = "open" /\ K \subseteq req[r].left
      BY <2>1 DEF WriteMany, K
    <3>4. /\ req'[r].left = {} /\ req'[r].written = K /\ req'[r].keys = req[r].keys
          /\ req'[r].tracked = req[r].tracked /\ req'[r].pc = "open"
      BY <1>0, <3>2, <3>3 DEF Request
    <3>5. /\ K \subseteq req[r].keys /\ Cardinality(K) <= req[r].tracked /\ req[r].tracked <= Limit
          /\ req[r].tracked \in Nat
      <4>1. req[r].tracked \in Nat
        BY <1>0 DEF Request
      <4>2. req[r].left \subseteq req[r].keys /\ req[r].tracked <= Limit
            /\ Cardinality(req[r].left) <= req[r].tracked
        BY <3>3 DEF Counted
      <4> QED BY <3>1, <3>3, <4>1, <4>2
    <3>6. Cardinality({}) = 0
      BY FS_EmptySet
    <3>7. Counted(r)'
      BY <3>4, <3>5, <3>6 DEF Counted
    <3> QED BY <2>1, <3>7, CountedStep DEF WriteMany, K
  <2>0. ASSUME NEW k \in Keys, Find(r, k) PROVE \A q \in Reqs : Counted(q)'
    <3> DEFINE y == [req[r] EXCEPT !.found = {k}]
    <3>1. /\ y.keys = req[r].keys /\ y.kind = req[r].kind /\ y.tracked = req[r].tracked
          /\ y.left \in {req[r].left, {}} /\ y.written \in {req[r].written, {}} /\ y.pc # "exists"
      BY <1>0, <2>0 DEF Request, Find
    <3>2. req' = [req EXCEPT ![r] = y]
      BY <2>0 DEF Find
    <3> HIDE DEF y
    <3> QED BY <3>1, <3>2, CountedKept
  <2>2. ASSUME NEW k \in Keys, CreateItem(r, k) PROVE \A q \in Reqs : Counted(q)'
    <3>1. /\ req'[r].left = req[r].left \ {k} /\ req'[r].written = req[r].written \cup {k}
          /\ req'[r].tracked = req[r].tracked + 1 /\ req'[r].keys = req[r].keys
          /\ req'[r].pc = "open" /\ req'[r].kind \notin {"updateMany", "deleteMany"}
      BY <1>0, <2>2 DEF CreateItem, TypeOK, Request
    <3>2. k \in req[r].left /\ req[r].tracked < Limit
      BY <2>2 DEF CreateItem
    <3>3. Counted(r)'
      BY <3>1, <3>2, OneMore
    <3> QED BY <2>2, <3>3, CountedStep DEF CreateItem
  <2>3. ASSUME NEW k \in Keys, UpdateItem(r, k) PROVE \A q \in Reqs : Counted(q)'
    <3>1. /\ req'[r].left = req[r].left \ {k}
          /\ req'[r].written \in {req[r].written, req[r].written \cup {k}}
          /\ req'[r].tracked = req[r].tracked + 1 /\ req'[r].keys = req[r].keys
          /\ req'[r].pc = "open" /\ req'[r].kind \notin {"updateMany", "deleteMany"}
      BY <1>0, <2>3 DEF UpdateItem, EmitsInside, TypeOK, Request
    <3>2. k \in req[r].left /\ req[r].tracked < Limit
      BY <2>3 DEF UpdateItem
    <3>3. Counted(r)'
      BY <3>1, <3>2, OneMore
    <3> QED BY <2>3, <3>3, CountedStep DEF UpdateItem
  <2> QED BY <1>5, <2>0, <2>1, <2>2, <2>3 DEF Write
<1>6. ASSUME NEW r \in Reqs, Commit(r) PROVE \A q \in Reqs : Counted(q)'
  <2> DEFINE y == [req[r] EXCEPT !.pc = IF req[r].kind = "createMany" THEN "emit" ELSE "purge",
                                 !.outcome = "committed"]
  <2>1. /\ y.keys = req[r].keys /\ y.kind = req[r].kind /\ y.tracked = req[r].tracked
        /\ y.left \in {req[r].left, {}} /\ y.written \in {req[r].written, {}} /\ y.pc # "exists"
    BY <1>0 DEF Request
  <2>2. req' = [req EXCEPT ![r] = y]
    BY <1>6 DEF Commit
  <2> HIDE DEF y
  <2> QED BY <2>1, <2>2, CountedKept
<1>7. ASSUME NEW r \in Reqs, Rollback(r) PROVE \A q \in Reqs : Counted(q)'
  <2> DEFINE y == [req[r] EXCEPT !.pc = IF req[r].kind = "updateBatch" THEN "purge" ELSE "done",
                                 !.left = {}, !.found = {}, !.written = {},
                                 !.outcome = "rolled back"]
  <2>1. /\ y.keys = req[r].keys /\ y.kind = req[r].kind /\ y.tracked = req[r].tracked
        /\ y.left \in {req[r].left, {}} /\ y.written \in {req[r].written, {}} /\ y.pc # "exists"
    BY <1>0 DEF Request
  <2>2. req' = [req EXCEPT ![r] = y]
    BY <1>7 DEF Rollback
  <2> HIDE DEF y
  <2> QED BY <2>1, <2>2, CountedKept
<1>8. ASSUME NEW r \in Reqs, Purge(r) PROVE \A q \in Reqs : Counted(q)'
  <2> DEFINE y == [req[r] EXCEPT !.pc = IF req[r].kind \in {"updateMany", "deleteMany"}
                                        THEN "emit" ELSE "done"]
  <2>1. /\ y.keys = req[r].keys /\ y.kind = req[r].kind /\ y.tracked = req[r].tracked
        /\ y.left \in {req[r].left, {}} /\ y.written \in {req[r].written, {}} /\ y.pc # "exists"
    BY <1>0 DEF Request
  <2>2. req' = [req EXCEPT ![r] = y]
    BY <1>8 DEF Purge
  <2> HIDE DEF y
  <2> QED BY <2>1, <2>2, CountedKept
<1>9. ASSUME NEW r \in Reqs, Emit(r) PROVE \A q \in Reqs : Counted(q)'
  <2> DEFINE y == [req[r] EXCEPT !.pc = IF req[r].kind = "createMany" THEN "purge" ELSE "done"]
  <2>1. /\ y.keys = req[r].keys /\ y.kind = req[r].kind /\ y.tracked = req[r].tracked
        /\ y.left \in {req[r].left, {}} /\ y.written \in {req[r].written, {}} /\ y.pc # "exists"
    BY <1>0 DEF Request
  <2>2. req' = [req EXCEPT ![r] = y]
    BY <1>9 DEF Emit
  <2> HIDE DEF y
  <2> QED BY <2>1, <2>2, CountedKept
<1>10. ASSUME NEW r \in Reqs, Die(r) PROVE \A q \in Reqs : Counted(q)'
  <2> DEFINE y == [req[r] EXCEPT !.pc = "dead", !.left = {},
                                 !.outcome = IF req[r].outcome = "open" THEN "rolled back"
                                             ELSE req[r].outcome]
  <2>1. /\ y.keys = req[r].keys /\ y.kind = req[r].kind /\ y.tracked = req[r].tracked
        /\ y.left \in {req[r].left, {}} /\ y.written \in {req[r].written, {}} /\ y.pc # "exists"
    BY <1>0 DEF Request
  <2>2. req' = [req EXCEPT ![r] = y]
    BY <1>10 DEF Die
  <2> HIDE DEF y
  <2> QED BY <2>1, <2>2, CountedKept
<1>11. ASSUME NEW d \in Readers, Read(d) \/ Respond(d) PROVE \A q \in Reqs : Counted(q)'
  BY <1>11 DEF Read, Respond, Counted
<1>12. CASE Expire
  BY <1>12 DEF Expire, Counted
<1> QED
  BY <1>1, <1>2, <1>3, <1>4, <1>5, <1>6, <1>7, <1>8, <1>9, <1>10, <1>11, <1>12 DEF Next

LEMMA CountedImplies ==
    ASSUME TypeOK, \A r \in Reqs : Counted(r)
    PROVE  BatchLimit
<1> SUFFICES ASSUME NEW r \in Reqs PROVE Cardinality(req[r].written) <= Limit
  BY DEF BatchLimit
<1>1. req[r].written \in SUBSET Keys /\ req[r].tracked \in Nat
  BY DEF TypeOK, Request
<1> QED BY <1>1, FiniteKeys, ItemsAssumption DEF Counted

(* No request writes more items than MAX_BATCH_MUTATION: the tracker is at  *)
(* all times at least the number of items written.                          *)
THEOREM BatchesBounded == Spec => []BatchLimit
BY TypeInit, TypeNext, CountedInit, CountedNext, CountedImplies, PTL DEF Spec

-----------------------------------------------------------------------------
(* The cached response.                                                     *)

Excused(late) == late \/ unpurged \/ \E r \in Reqs : PurgeDue(r)

(* A response on its way into the cache is stale for the same reasons.      *)
ReadersExcused ==
    \A d \in Readers :
        reader[d].pc = "read" /\ reader[d].response.data # items => Excused(reader[d].response.late)

CacheInv == StaleUntilPurge /\ ReadersExcused

LEMMA CacheInit == Init => CacheInv
BY DEF Init, CacheInv, StaleUntilPurge, ReadersExcused

(* A step of a request that neither commits nor purges.                     *)
LEMMA CacheKept ==
    ASSUME NEW r \in Reqs, NEW y, TypeOK, CacheInv, req' = [req EXCEPT ![r] = y],
           UNCHANGED <<items, cache, reader, unpurged>>, PurgeDue(r) => PurgeDue(r)'
    PROVE  CacheInv'
<1>1. ASSUME NEW q \in Reqs, PurgeDue(q) PROVE PurgeDue(q)'
  <2>1. CASE q = r
    BY <1>1, <2>1
  <2>2. CASE q # r
    BY <1>1, <2>2 DEF PurgeDue, TypeOK
  <2> QED BY <2>1, <2>2
<1>2. \A late : Excused(late) => Excused(late)'
  BY <1>1 DEF Excused
<1> QED BY <1>2 DEF CacheInv, StaleUntilPurge, ReadersExcused, Excused

LEMMA CacheNext == TypeOK /\ CacheInv /\ [Next]_vars => CacheInv'
<1> SUFFICES ASSUME TypeOK, CacheInv, [Next]_vars PROVE CacheInv'
  OBVIOUS
<1>0. \A r \in Reqs : req[r] \in Request
  BY DEF TypeOK
<1>1. CASE UNCHANGED vars
  BY <1>1 DEF vars, CacheInv, StaleUntilPurge, ReadersExcused, Excused, PurgeDue
<1>2. ASSUME NEW r \in Reqs, Begin(r) PROVE CacheInv'
  <2>1. ASSUME NEW K, NEW kind, BeginMany(r, kind, K) PROVE CacheInv'
    BY <2>1, CacheKept DEF BeginMany, PurgeDue
  <2>2. ASSUME NEW K, NEW kind, BeginBatch(r, kind, K) PROVE CacheInv'
    BY <2>2, CacheKept DEF BeginBatch, PurgeDue
  <2>3. ASSUME NEW k, BeginUpsert(r, k) PROVE CacheInv'
    BY <2>3, CacheKept DEF BeginUpsert, PurgeDue
  <2> QED BY <1>2, <2>1, <2>2, <2>3 DEF Begin
<1>3. ASSUME NEW r \in Reqs, UpsertDecide(r) PROVE CacheInv'
  BY <1>3, CacheKept DEF UpsertDecide, PurgeDue
<1>4. ASSUME NEW r \in Reqs, Check(r) PROVE CacheInv'
  BY <1>4, CacheKept DEF Check, PurgeDue
<1>5. ASSUME NEW r \in Reqs, Write(r) PROVE CacheInv'
  <2>1. CASE WriteMany(r)
    BY <2>1, CacheKept DEF WriteMany, PurgeDue
  <2>0. ASSUME NEW k \in Keys, Find(r, k) PROVE CacheInv'
    BY <2>0, CacheKept DEF Find, PurgeDue
  <2>2. ASSUME NEW k \in Keys, CreateItem(r, k) PROVE CacheInv'
    BY <2>2, CacheKept DEF CreateItem, PurgeDue
  <2>3. ASSUME NEW k \in Keys, UpdateItem(r, k) PROVE CacheInv'
    BY <2>3, CacheKept DEF UpdateItem, PurgeDue
  <2> QED BY <1>5, <2>0, <2>1, <2>2, <2>3 DEF Write
<1>6. ASSUME NEW r \in Reqs, Commit(r) PROVE CacheInv'
  <2>1. PurgeDue(r)'
    BY <1>0, <1>6 DEF Commit, PurgeDue, TypeOK, Request
  <2> QED BY <2>1 DEF CacheInv, StaleUntilPurge, ReadersExcused, Excused
<1>7. ASSUME NEW r \in Reqs, Rollback(r) PROVE CacheInv'
  BY <1>7, CacheKept DEF Rollback, PurgeDue
<1>8. ASSUME NEW r \in Reqs, Purge(r) PROVE CacheInv'
  <2>1. ~cache'.full
    BY <1>8 DEF Purge
  <2>2. \A d \in Readers : reader'[d].pc = "read" => reader'[d].response.late
    BY <1>8 DEF Purge, TypeOK
  <2> QED BY <2>1, <2>2 DEF CacheInv, StaleUntilPurge, ReadersExcused, Excused
<1>9. ASSUME NEW r \in Reqs, Emit(r) PROVE CacheInv'
  <2>1. PurgeDue(r) => PurgeDue(r)'
    BY <1>0, <1>9 DEF Emit, PurgeDue, TypeOK, Request
  <2> QED BY <1>9, <2>1, CacheKept DEF Emit
<1>10. ASSUME NEW r \in Reqs, Die(r) PROVE CacheInv'
  <2>1. \A q \in Reqs \ {r} : PurgeDue(q) => PurgeDue(q)'
    BY <1>10 DEF Die, PurgeDue, TypeOK
  <2>2. \A late : Excused(late) => Excused(late)'
    BY <1>10, <2>1 DEF Die, Excused
  <2> QED BY <1>10, <2>2 DEF Die, CacheInv, StaleUntilPurge, ReadersExcused, Excused
<1>11. ASSUME NEW d \in Readers, Read(d) \/ Respond(d) PROVE CacheInv'
  <2>0. \A late : Excused(late) => Excused(late)'
    BY <1>11 DEF Read, Respond, Excused, PurgeDue
  <2>1. CASE Read(d)
    <3>1. StaleUntilPurge'
      BY <2>0, <2>1 DEF Read, CacheInv, StaleUntilPurge, Excused
    <3>2. ASSUME NEW e \in Readers, (reader[e].pc = "read" /\ reader[e].response.data # items)'
          PROVE Excused(reader[e].response.late)'
      <4>1. e # d
        BY <2>1, <3>2 DEF Read, TypeOK
      <4>2. reader'[e] = reader[e] /\ items' = items
        BY <2>1, <4>1 DEF Read, TypeOK
      <4> QED BY <2>0, <3>2, <4>2 DEF CacheInv, ReadersExcused, Excused
    <3> QED BY <3>1, <3>2 DEF CacheInv, ReadersExcused, Excused
  <2>2. CASE Respond(d)
    <3>1. StaleUntilPurge'
      BY <2>0, <2>2 DEF Respond, CacheInv, StaleUntilPurge, ReadersExcused, Excused
    <3>2. ASSUME NEW e \in Readers, (reader[e].pc = "read" /\ reader[e].response.data # items)'
          PROVE Excused(reader[e].response.late)'
      <4>1. e # d
        BY <2>2, <3>2 DEF Respond, TypeOK
      <4>2. reader'[e] = reader[e] /\ items' = items
        BY <2>2, <4>1 DEF Respond, TypeOK
      <4> QED BY <2>0, <3>2, <4>2 DEF CacheInv, ReadersExcused, Excused
    <3> QED BY <3>1, <3>2 DEF CacheInv, ReadersExcused, Excused
  <2> QED BY <1>11, <2>1, <2>2
<1>12. CASE Expire
  BY <1>12 DEF Expire, CacheInv, StaleUntilPurge, ReadersExcused, Excused, PurgeDue
<1> QED
  BY <1>1, <1>2, <1>3, <1>4, <1>5, <1>6, <1>7, <1>8, <1>9, <1>10, <1>11, <1>12 DEF Next

(* The cache serves what is no longer in the database only until a purge    *)
(* that is on its way, or when the response was read before a purge and     *)
(* cached after it, or when a process died between its commit and its purge.*)
THEOREM CacheStaleness == Spec => []StaleUntilPurge
<1>1. CacheInv => StaleUntilPurge
  BY DEF CacheInv
<1> QED BY <1>1, TypeInit, TypeNext, CacheInit, CacheNext, PTL DEF Spec

-----------------------------------------------------------------------------
(* Revisions.                                                               *)

(* Keys that are in the same order as text have the same positions, and the *)
(* positions are all different.                                             *)
LEMMA RanksAgree ==
    ASSUME NEW K \in SUBSET Keys, NEW k \in K,
           \A i, j \in K : i < j => AsText[i] < AsText[j]
    PROVE  TextRank(k, K) = Rank(k, K)
<1>1. K \subseteq Nat /\ \A i \in K : AsText[i] \in Nat
  BY ItemsAssumption
<1>2. \A i \in K : AsText[i] <= AsText[k] <=> i <= k
  <2> SUFFICES ASSUME NEW i \in K PROVE AsText[i] <= AsText[k] <=> i <= k
    OBVIOUS
  <2>1. CASE i < k
    BY <1>1, <2>1
  <2>2. CASE i = k
    BY <1>1, <2>2
  <2>3. CASE k < i
    BY <1>1, <2>3
  <2> QED BY <1>1, <2>1, <2>2, <2>3
<1>3. {i \in K : AsText[i] <= AsText[k]} = {i \in K : i <= k}
  BY <1>2
<1> QED BY <1>3 DEF TextRank, Rank

LEMMA RankInjective ==
    ASSUME NEW K \in SUBSET Keys, NEW j \in K, NEW k \in K, j < k
    PROVE  Rank(j, K) # Rank(k, K)
<1> DEFINE S == {i \in K : i <= k}
           T == {i \in K : i <= j}
<1>1. K \subseteq Nat
  BY ItemsAssumption
<1>2. T \subseteq S /\ k \in S /\ k \notin T
  <2>1. (\A i \in K : i <= j => i <= k) /\ k <= k /\ ~(k <= j)
    BY <1>1
  <2> QED BY <2>1
<1>3. IsFiniteSet(S)
  <2>1. S \in SUBSET Keys
    OBVIOUS
  <2> HIDE DEF S
  <2> QED BY <2>1, FiniteKeys
<1>4. Cardinality(S) # Cardinality(T)
  <2> HIDE DEF S, T
  <2> QED BY <1>2, <1>3, FS_Subset
<1> QED BY <1>4 DEF Rank

LEMMA SnapshotsAreTheirs ==
    ASSUME TypeOK, NEW r \in Reqs, SnapshotsFit(r), NEW k \in req[r].keys
    PROVE  Snapshot(r, k) = k
<1> DEFINE K == req[r].keys
           found == {j \in K : Rank(j, K) = TextRank(k, K)}
<1>1. K \in SUBSET Keys /\ req[r].written = K /\ \A i, j \in K : i < j => AsText[i] < AsText[j]
  BY DEF TypeOK, Request, SnapshotsFit
<1>2. TextRank(k, K) = Rank(k, K)
  BY <1>1, RanksAgree
<1>3. ASSUME NEW j \in K, j # k PROVE Rank(j, K) # Rank(k, K)
  <2>1. j \in Nat /\ k \in Nat
    BY <1>1, ItemsAssumption
  <2>2. CASE j < k
    BY <1>1, <2>2, RankInjective
  <2>3. CASE k < j
    BY <1>1, <2>3, RankInjective
  <2> QED BY <1>3, <2>1, <2>2, <2>3
<1>4. found = {k}
  BY <1>2, <1>3
<1>5. Snapshot(r, k) = IF found = {} THEN None ELSE CHOOSE j \in found : TRUE
  BY <1>1 DEF Snapshot
<1> HIDE DEF found
<1> QED BY <1>4, <1>5

(* A step of a request that commits nothing and forgets no commit.          *)
LEMMA RevisionsKept ==
    ASSUME NEW r \in Reqs, NEW y, TypeOK, RevisionsFollowItems, req' = [req EXCEPT ![r] = y],
           UNCHANGED <<items, history>>,
           req[r].outcome = "committed" =>
            y.outcome = "committed" /\ y.keys = req[r].keys /\ y.written = req[r].written
    PROVE  RevisionsFollowItems'
<1> SUFFICES ASSUME NEW k \in Keys,
                    \A q \in Reqs : req'[q].outcome = "committed" /\ k \in req'[q].keys => SnapshotsFit(q)'
             PROVE  NewestRevisionFits(k)'
  BY DEF RevisionsFollowItems
<1>1. ASSUME NEW q \in Reqs, req[q].outcome = "committed", k \in req[q].keys
      PROVE SnapshotsFit(q)
  <2>1. /\ req'[q].outcome = "committed" /\ req'[q].keys = req[q].keys
        /\ req'[q].written = req[q].written
    <3>1. CASE q = r
      BY <1>1, <3>1 DEF TypeOK
    <3>2. CASE q # r
      BY <1>1, <3>2 DEF TypeOK
    <3> QED BY <3>1, <3>2
  <2> QED BY <1>1, <2>1 DEF SnapshotsFit
<1>2. NewestRevisionFits(k)
  BY <1>1 DEF RevisionsFollowItems
<1> QED BY <1>2 DEF NewestRevisionFits, Exists

LEMMA RevisionsCommit ==
    ASSUME TypeOK, RevisionsFollowItems, NEW r \in Reqs, Commit(r), Phase(r), Counted(r)
    PROVE  RevisionsFollowItems'
<1> SUFFICES ASSUME NEW k \in Keys,
                    \A q \in Reqs : req'[q].outcome = "committed" /\ k \in req'[q].keys => SnapshotsFit(q)'
             PROVE  NewestRevisionFits(k)'
  BY DEF RevisionsFollowItems
<1>0. req[r] \in Request /\ req[r].outcome = "open" /\ req[r].written \subseteq req[r].keys
  BY DEF TypeOK, Commit, Phase, Counted
<1>1. \A q \in Reqs \ {r} : req'[q] = req[q]
  BY DEF Commit, TypeOK
<1>2. /\ req'[r].outcome = "committed" /\ req'[r].keys = req[r].keys
      /\ req'[r].written = req[r].written
  BY <1>0 DEF Commit, TypeOK, Request
<1>3. \A q \in Reqs : req[q].outcome = "committed" /\ k \in req[q].keys => SnapshotsFit(q)
  BY <1>0, <1>1 DEF SnapshotsFit
<1>4. NewestRevisionFits(k)
  BY <1>3 DEF RevisionsFollowItems
<1>5. CASE k \notin req[r].keys
  <2>1. items'[k] = items[k] /\ history'[k] = history[k]
    BY <1>0, <1>5 DEF Commit
  <2> QED BY <1>4, <2>1 DEF NewestRevisionFits, Exists
<1>6. CASE k \in req[r].keys
  <2>1. SnapshotsFit(r)
    BY <1>2, <1>6 DEF SnapshotsFit
  <2>2. k \in req[r].written
    BY <1>6, <2>1 DEF SnapshotsFit
  <2>3. CASE req[r].kind = "deleteMany"
    BY <2>2, <2>3 DEF Commit, NewestRevisionFits, Exists
  <2>4. CASE req[r].kind # "deleteMany"
    <3>1. RevisionOf(r, k) = [by |-> r, data |-> k]
      BY <1>6, <2>1, <2>2, SnapshotsAreTheirs DEF RevisionOf
    <3>2. items'[k] = r /\ history'[k] = Append(history[k], [by |-> r, data |-> k])
      BY <1>6, <2>2, <2>4, <3>1 DEF Commit
    <3>3. history[k] \in Seq(Revision) /\ [by |-> r, data |-> k] \in Revision
      BY DEF TypeOK, Revision, Contents
    <3>4. history'[k] # <<>> /\ history'[k][Len(history'[k])] = [by |-> r, data |-> k]
      BY <3>2, <3>3
    <3> QED BY <3>2, <3>4 DEF NewestRevisionFits
  <2> QED BY <2>3, <2>4
<1> QED BY <1>5, <1>6

LEMMA RevisionsInit == Init => RevisionsFollowItems
<1> SUFFICES ASSUME Init, NEW k \in Keys, Exists(k) PROVE NewestRevisionFits(k)
  BY DEF RevisionsFollowItems, NewestRevisionFits
<1>1. items[k] = "seed" /\ history[k] = <<[by |-> "seed", data |-> k]>>
  BY DEF Init, Exists
<1> QED BY <1>1 DEF NewestRevisionFits

LEMMA RevisionsNext ==
    /\ TypeOK /\ RevisionsFollowItems /\ [Next]_vars
    /\ \A r \in Reqs : Phase(r)
    /\ \A r \in Reqs : Counted(r)
    => RevisionsFollowItems'
<1> SUFFICES ASSUME TypeOK, RevisionsFollowItems, [Next]_vars,
                    \A r \in Reqs : Phase(r), \A r \in Reqs : Counted(r)
             PROVE  RevisionsFollowItems'
  OBVIOUS
<1>0. \A r \in Reqs : /\ req[r] \in Request
                      /\ req[r].pc \in {"idle", "exists", "check", "open"} => req[r].outcome = "open"
  BY DEF TypeOK, Phase
<1>1. CASE UNCHANGED vars
  BY <1>1 DEF vars, RevisionsFollowItems, NewestRevisionFits, SnapshotsFit, Exists
<1>2. ASSUME NEW r \in Reqs, Begin(r) PROVE RevisionsFollowItems'
  <2>1. ASSUME NEW K, NEW kind, BeginMany(r, kind, K) PROVE RevisionsFollowItems'
    BY <1>0, <2>1, RevisionsKept DEF BeginMany
  <2>2. ASSUME NEW K, NEW kind, BeginBatch(r, kind, K) PROVE RevisionsFollowItems'
    BY <1>0, <2>2, RevisionsKept DEF BeginBatch
  <2>3. ASSUME NEW k, BeginUpsert(r, k) PROVE RevisionsFollowItems'
    BY <1>0, <2>3, RevisionsKept DEF BeginUpsert
  <2> QED BY <1>2, <2>1, <2>2, <2>3 DEF Begin
<1>3. ASSUME NEW r \in Reqs, UpsertDecide(r) PROVE RevisionsFollowItems'
  BY <1>0, <1>3, RevisionsKept DEF UpsertDecide
<1>4. ASSUME NEW r \in Reqs, Check(r) PROVE RevisionsFollowItems'
  BY <1>0, <1>4, RevisionsKept DEF Check
<1>5. ASSUME NEW r \in Reqs, Write(r) PROVE RevisionsFollowItems'
  <2>1. CASE WriteMany(r)
    BY <1>0, <2>1, RevisionsKept DEF WriteMany
  <2>0. ASSUME NEW k \in Keys, Find(r, k) PROVE RevisionsFollowItems'
    BY <1>0, <2>0, RevisionsKept DEF Find
  <2>2. ASSUME NEW k \in Keys, CreateItem(r, k) PROVE RevisionsFollowItems'
    BY <1>0, <2>2, RevisionsKept DEF CreateItem
  <2>3. ASSUME NEW k \in Keys, UpdateItem(r, k) PROVE RevisionsFollowItems'
    BY <1>0, <2>3, RevisionsKept DEF UpdateItem
  <2> QED BY <1>5, <2>0, <2>1, <2>2, <2>3 DEF Write
<1>6. ASSUME NEW r \in Reqs, Commit(r) PROVE RevisionsFollowItems'
  BY <1>6, RevisionsCommit
<1>7. ASSUME NEW r \in Reqs, Rollback(r) PROVE RevisionsFollowItems'
  BY <1>0, <1>7, RevisionsKept DEF Rollback
<1>8. ASSUME NEW r \in Reqs, Purge(r) PROVE RevisionsFollowItems'
  <2> DEFINE y == [req[r] EXCEPT !.pc = IF req[r].kind \in {"updateMany", "deleteMany"}
                                        THEN "emit" ELSE "done"]
  <2>1. y.outcome = req[r].outcome /\ y.keys = req[r].keys /\ y.written = req[r].written
    BY <1>0 DEF Request
  <2>2. req' = [req EXCEPT ![r] = y] /\ UNCHANGED <<items, history>>
    BY <1>8 DEF Purge
  <2> HIDE DEF y
  <2> QED BY <2>1, <2>2, RevisionsKept
<1>9. ASSUME NEW r \in Reqs, Emit(r) PROVE RevisionsFollowItems'
  <2> DEFINE y == [req[r] EXCEPT !.pc = IF req[r].kind = "createMany" THEN "purge" ELSE "done"]
  <2>1. y.outcome = req[r].outcome /\ y.keys = req[r].keys /\ y.written = req[r].written
    BY <1>0 DEF Request
  <2>2. req' = [req EXCEPT ![r] = y] /\ UNCHANGED <<items, history>>
    BY <1>9 DEF Emit
  <2> HIDE DEF y
  <2> QED BY <2>1, <2>2, RevisionsKept
<1>10. ASSUME NEW r \in Reqs, Die(r) PROVE RevisionsFollowItems'
  <2> DEFINE y == [req[r] EXCEPT !.pc = "dead", !.left = {},
                                 !.outcome = IF req[r].outcome = "open" THEN "rolled back"
                                             ELSE req[r].outcome]
  <2>1. /\ req[r].outcome = "committed" => y.outcome = "committed"
        /\ y.keys = req[r].keys /\ y.written = req[r].written
    BY <1>0 DEF Request
  <2>2. req' = [req EXCEPT ![r] = y] /\ UNCHANGED <<items, history>>
    BY <1>10 DEF Die
  <2> HIDE DEF y
  <2> QED BY <2>1, <2>2, RevisionsKept
<1>11. ASSUME NEW d \in Readers, Read(d) \/ Respond(d) PROVE RevisionsFollowItems'
  BY <1>11 DEF Read, Respond, RevisionsFollowItems, NewestRevisionFits, SnapshotsFit, Exists
<1>12. CASE Expire
  BY <1>12 DEF Expire, RevisionsFollowItems, NewestRevisionFits, SnapshotsFit, Exists
<1> QED
  BY <1>1, <1>2, <1>3, <1>4, <1>5, <1>6, <1>7, <1>8, <1>9, <1>10, <1>11, <1>12 DEF Next

(* The newest revision of an item was written by the mutation that wrote    *)
(* the item last and holds its data, whenever the committed mutations that  *)
(* named it found all their items in the order of their sorted keys.        *)
THEOREM RevisionsFit == Spec => []RevisionsFollowItems
BY TypeInit, TypeNext, PhaseInit, PhaseNext, CountedInit, CountedNext, RevisionsInit,
   RevisionsNext, PTL DEF Spec
=============================================================================
