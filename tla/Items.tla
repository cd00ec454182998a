------------------------------- MODULE Items --------------------------------
(***************************************************************************)
(* ItemsService (services/items.ts): mutations of one collection, each in  *)
(* a database transaction, with the checks before it, the activity and     *)
(* revision rows written in it, and the action events and the purge of the *)
(* response cache after it; and the requests that read the collection      *)
(* through that cache (middleware/cache.ts, middleware/respond.ts).        *)
(* A mutation writes a content of its own, so an item's content names the  *)
(* request that wrote it last.  The database is external: row locks, an    *)
(* atomic commit, and a deadlock resolved by aborting a transaction.       *)
(***************************************************************************)
EXTENDS ItemsConstants

VARIABLES items,    (* the committed items: key -> content                      *)
          lock,     (* key -> the transaction that holds the row                *)
          req,      (* request -> its local state                               *)
          history,  (* key -> its committed revisions, oldest first             *)
          events,   (* the action events emitted: <<request, key>>              *)
          cache,    (* the cached response to "all items"                       *)
          reader,   (* reader -> its local state                                *)
          unpurged, (* history: a process died between a commit and its purge   *)
          deaths    (* how many requests died                                   *)

vars == <<items, lock, req, history, events, cache, reader, unpurged, deaths>>

Contents == Reqs \cup {"seed"}
Item == Contents \cup {None}

(* keys are those of the call, left those still to be written, found the    *)
(* one that an upsert looked up and goes on to update, written those whose  *)
(* row the transaction wrote, tracked the mutation tracker.                 *)
Request == [pc : {"idle", "exists", "check", "open", "purge", "emit", "done", "dead"},
            kind : Operations, keys : SUBSET Keys, left : SUBSET Keys,
            found : SUBSET Keys, written : SUBSET Keys, tracked : Nat,
            outcome : {"open", "committed", "rolled back"}]

(* The request that wrote a revision, and the item whose data is in it.     *)
Revision == [by : Contents, data : Keys \cup {None}]

(* late: the cache was purged after the reader had read the items.          *)
Response == [data : [Keys -> Item], late : BOOLEAN]

NoResponse == [data |-> [k \in Keys |-> None], late |-> FALSE]

(* Items, requests and revisions keep their types: what a revision holds is *)
(* the data of an item of the collection, or nothing.                       *)
TypeOK ==
    /\ items \in [Keys -> Item]
    /\ lock \in [Keys -> Reqs \cup {None}]
    /\ req \in [Reqs -> Request]
    /\ history \in [Keys -> Seq(Revision)]
    /\ events \in SUBSET (Reqs \X Keys)
    /\ cache \in [full : BOOLEAN, response : Response]
    /\ reader \in [Readers -> [pc : {"idle", "read"}, response : Response]]
    /\ unpurged \in BOOLEAN
    /\ deaths \in Nat

Init ==
    /\ items = [k \in Keys |-> IF k \in Existing THEN "seed" ELSE None]
    /\ lock = [k \in Keys |-> None]
    /\ req = [r \in Reqs |-> [pc |-> "idle", kind |-> "createMany", keys |-> {},
                              left |-> {}, found |-> {}, written |-> {}, tracked |-> 0,
                              outcome |-> "open"]]
    /\ history = [k \in Keys |-> IF k \in Existing THEN <<[by |-> "seed", data |-> k]>> ELSE <<>>]
    /\ events = {}
    /\ cache = [full |-> FALSE, response |-> NoResponse]
    /\ reader = [d \in Readers |-> [pc |-> "idle", response |-> NoResponse]]
    /\ unpurged = FALSE
    /\ deaths = 0

-----------------------------------------------------------------------------
(* The database.                                                            *)

(* Transaction r may write row k now, or waits for another one.             *)
Free(r, k) == lock[k] \in {r, None}

Exists(k) == items[k] # None

Lock(r, K) == lock' = [k \in Keys |-> IF k \in K THEN r ELSE lock[k]]
Unlock(r) == lock' = [k \in Keys |-> IF lock[k] = r THEN None ELSE lock[k]]

-----------------------------------------------------------------------------
(* A mutation begins.                                                       *)

(* updateMany and deleteMany track all their keys and check them before the *)
(* transaction; createMany, updateBatch and upsertMany open it first and do *)
(* so item by item; upsertOne first looks whether the item exists.          *)
BeginMany(r, kind, K) ==
    /\ req[r].pc = "idle"
    /\ kind \in Kinds \cap {"updateMany", "deleteMany"}
    /\ Cardinality(K) <= Limit
    /\ req' = [req EXCEPT ![r] = [pc |-> "check", kind |-> kind, keys |-> K, left |-> K,
                                  found |-> {}, written |-> {}, tracked |-> Cardinality(K),
                                  outcome |-> "open"]]
    /\ UNCHANGED <<items, lock, history, events, cache, reader, unpurged, deaths>>

BeginBatch(r, kind, K) ==
    /\ req[r].pc = "idle"
    /\ kind \in Kinds \cap {"createMany", "updateBatch", "upsertMany"}
    /\ req' = [req EXCEPT ![r] = [pc |-> "open", kind |-> kind, keys |-> K, left |-> K,
                                  found |-> {}, written |-> {}, tracked |-> 0,
                                  outcome |-> "open"]]
    /\ UNCHANGED <<items, lock, history, events, cache, reader, unpurged, deaths>>

BeginUpsert(r, k) ==
    /\ req[r].pc = "idle"
    /\ "upsertOne" \in Kinds
    /\ req' = [req EXCEPT ![r] = [pc |-> "exists", kind |-> "upsertOne", keys |-> {k}, left |-> {k},
                                  found |-> {}, written |-> {}, tracked |-> 0,
                                  outcome |-> "open"]]
    /\ UNCHANGED <<items, lock, history, events, cache, reader, unpurged, deaths>>

(* The item an upsert goes on to update may be gone by then, the one it     *)
(* goes on to create may exist.                                             *)
UpsertDecide(r) ==
    /\ req[r].pc = "exists"
    /\ \E k \in req[r].keys :
        req' = [req EXCEPT ![r] =
                [req[r] EXCEPT !.pc = IF Exists(k) THEN "check" ELSE "open",
                               !.kind = IF Exists(k) THEN "updateMany" ELSE "createMany",
                               !.tracked = IF Exists(k) THEN 1 ELSE 0]]
    /\ UNCHANGED <<items, lock, history, events, cache, reader, unpurged, deaths>>

(* The filter hooks run and checkAccess reads the items, all of which must  *)
(* be there; administrators are not checked.                                *)
Check(r) ==
    /\ req[r].pc = "check"
    /\ r \in Admins \/ \A k \in req[r].keys : Exists(k)
    /\ req' = [req EXCEPT ![r] = [req[r] EXCEPT !.pc = "open"]]
    /\ UNCHANGED <<items, lock, history, events, cache, reader, unpurged, deaths>>

-----------------------------------------------------------------------------
(* The transaction.                                                         *)

(* updateMany and deleteMany write their rows in one statement; rows that   *)
(* are gone by now are not touched.                                         *)
WriteMany(r) ==
    /\ req[r].pc = "open" /\ req[r].kind \in {"updateMany", "deleteMany"}
    /\ req[r].left # {}
    /\ \A k \in req[r].left : Free(r, k)
    /\ LET K == {k \in req[r].left : Exists(k)} IN
        /\ Lock(r, K)
        /\ req' = [req EXCEPT ![r] = [req[r] EXCEPT !.left = {}, !.written = K]]
    /\ UNCHANGED <<items, history, events, cache, reader, unpurged, deaths>>

(* Mutation: createMany passes no bypassEmitAction either. *)
CreateItemEmits(r, k) ==
    /\ req[r].pc = "open" /\ req[r].kind \in {"createMany", "upsertMany"}
    /\ k \in req[r].left
    /\ req[r].found = {}
    /\ req[r].tracked < Limit
    /\ Free(r, k) /\ ~Exists(k)
    /\ Lock(r, {k})
    /\ req' = [req EXCEPT ![r] = [req[r] EXCEPT !.left = req[r].left \ {k},
                                                !.written = req[r].written \cup {k},
                                                !.tracked = req[r].tracked + 1]]
    /\ events' = events \cup {<<r, k>>}
    /\ UNCHANGED <<items, history, cache, reader, unpurged, deaths>>

(* Mutation: every nested call counts with a tracker of its own. *)
CreateItemUntracked(r, k) ==
    /\ req[r].pc = "open" /\ req[r].kind \in {"createMany", "upsertMany"}
    /\ k \in req[r].left
    /\ req[r].found = {}
    /\ Free(r, k) /\ ~Exists(k)
    /\ Lock(r, {k})
    /\ req' = [req EXCEPT ![r] = [req[r] EXCEPT !.left = req[r].left \ {k},
                                                !.written = req[r].written \cup {k}]]
    /\ UNCHANGED <<items, history, events, cache, reader, unpurged, deaths>>

(* upsertMany calls upsertOne inside the transaction for each item: it      *)
(* looks whether the item exists, and if so ...                             *)
Find(r, k) ==
    /\ req[r].pc = "open" /\ req[r].kind = "upsertMany"
    /\ k \in req[r].left /\ Exists(k)
    /\ req[r].found = {}
    /\ req' = [req EXCEPT ![r] = [req[r] EXCEPT !.found = {k}]]
    /\ UNCHANGED <<items, lock, history, events, cache, reader, unpurged, deaths>>

(* The operations that call another for each item inside the transaction,   *)
(* and without bypassEmitAction: it emits its action event there.           *)
EmitsInside == {"updateBatch", "upsertMany"}

(* createMany inserts item by item, each in a savepoint; upsertMany what it *)
(* did not find.                                                            *)
CreateItem(r, k) ==
    /\ req[r].pc = "open" /\ req[r].kind \in {"createMany", "upsertMany"}
    /\ k \in req[r].left
    /\ req[r].found = {}
    /\ req[r].tracked < Limit
    /\ Free(r, k) /\ ~Exists(k)
    /\ Lock(r, {k})
    /\ req' = [req EXCEPT ![r] = [req[r] EXCEPT !.left = req[r].left \ {k},
                                                !.written = req[r].written \cup {k},
                                                !.tracked = req[r].tracked + 1]]
    /\ events' = events \cup (IF req[r].kind \in EmitsInside THEN {<<r, k>>} ELSE {})
    /\ UNCHANGED <<items, history, cache, reader, unpurged, deaths>>

(* updateBatch calls updateOne for each item; upsertMany goes on to it for  *)
(* the item it found, which may be gone by then.                            *)
UpdateItem(r, k) ==
    /\ req[r].pc = "open" /\ req[r].kind \in EmitsInside
    /\ k \in req[r].left
    /\ req[r].kind = "upsertMany" => k \in req[r].found
    /\ req[r].tracked < Limit
    /\ Free(r, k)
    /\ r \in Admins \/ Exists(k)
    /\ Lock(r, IF Exists(k) THEN {k} ELSE {})
    /\ req' = [req EXCEPT ![r] = [req[r] EXCEPT !.left = req[r].left \ {k}, !.found = {},
                                                !.written = IF Exists(k)
                                                            THEN req[r].written \cup {k}
                                                            ELSE req[r].written,
                                                !.tracked = req[r].tracked + 1]]
    /\ events' = events \cup {<<r, k>>}
    /\ UNCHANGED <<items, history, cache, reader, unpurged, deaths>>

(* The position of k among K in the order of the database, and in that of   *)
(* keys.sort().                                                             *)
Rank(k, K) == Cardinality({j \in K : j <= k})
TextRank(k, K) == Cardinality({j \in K : AsText[j] <= AsText[k]})

(* Mutation: the rows of the snapshot are taken in descending order. *)
SnapshotReversed(r, k) ==
    LET found == {j \in req[r].written :
                    Cardinality({i \in req[r].written : i >= j}) = TextRank(k, req[r].keys)}
    IN  IF found = {} THEN None ELSE CHOOSE j \in found : TRUE

(* The item whose data the revision of k gets: updateMany reads its items   *)
(* with one query, in the order of the database, and takes the one at the   *)
(* position k has in the sorted list of the keys.  It need not be k when    *)
(* the orders differ or an item before it does not exist.                   *)
Snapshot(r, k) ==
    LET found == {j \in req[r].written : Rank(j, req[r].written) = TextRank(k, req[r].keys)}
    IN  IF found = {} THEN None ELSE CHOOSE j \in found : TRUE

(* The revision request r writes of item k.                                 *)
RevisionOf(r, k) ==
    [by |-> r, data |-> IF req[r].kind = "updateMany" THEN Snapshot(r, k)
                        ELSE IF k \in req[r].written THEN k ELSE None]

(* Mutation: the cache is purged in the transaction, when it commits. *)
CommitUnpurged(r) ==
    /\ req[r].pc = "open" /\ req[r].left = {}
    /\ items' = [k \in Keys |-> IF k \notin req[r].written THEN items[k]
                                ELSE IF req[r].kind = "deleteMany" THEN None ELSE r]
    /\ history' = [k \in Keys |-> IF k \in req[r].keys /\ req[r].kind # "deleteMany"
                                  THEN Append(history[k], RevisionOf(r, k)) ELSE history[k]]
    /\ Unlock(r)
    /\ req' = [req EXCEPT ![r] = [req[r] EXCEPT !.pc = "emit", !.outcome = "committed"]]
    /\ cache' = [full |-> FALSE, response |-> NoResponse]
    /\ UNCHANGED <<events, reader, unpurged, deaths>>

(* The revisions were written in the same transaction as the rows.          *)
Commit(r) ==
    /\ req[r].pc = "open" /\ req[r].left = {}
    /\ items' = [k \in Keys |-> IF k \notin req[r].written THEN items[k]
                                ELSE IF req[r].kind = "deleteMany" THEN None ELSE r]
    /\ history' = [k \in Keys |-> IF k \in req[r].keys /\ req[r].kind # "deleteMany"
                                  THEN Append(history[k], RevisionOf(r, k)) ELSE history[k]]
    /\ Unlock(r)
    /\ req' = [req EXCEPT ![r] =
                [req[r] EXCEPT !.pc = IF req[r].kind = "createMany" THEN "emit" ELSE "purge",
                               !.outcome = "committed"]]
    /\ UNCHANGED <<events, cache, reader, unpurged, deaths>>

(* A hook throws, the user has no access, a constraint or the batch limit   *)
(* is violated, the database gives up: everything is rolled back; the       *)
(* "finally" of updateBatch still purges the cache.                         *)
Rollback(r) ==
    /\ req[r].pc \in {"exists", "check", "open"}
    /\ Unlock(r)
    /\ req' = [req EXCEPT ![r] =
                [req[r] EXCEPT !.pc = IF req[r].kind = "updateBatch" THEN "purge" ELSE "done",
                               !.left = {}, !.found = {}, !.written = {},
                               !.outcome = "rolled back"]]
    /\ UNCHANGED <<items, history, events, cache, reader, unpurged, deaths>>

-----------------------------------------------------------------------------
(* After the transaction: createMany emits and purges, the others purge     *)
(* first.                                                                   *)

Purge(r) ==
    /\ req[r].pc = "purge"
    /\ cache' = [full |-> FALSE, response |-> NoResponse]
    /\ reader' = [d \in Readers |->
                    IF reader[d].pc = "idle" THEN reader[d]
                    ELSE [pc |-> "read", response |-> [data |-> reader[d].response.data, late |-> TRUE]]]
    /\ req' = [req EXCEPT ![r] =
                [req[r] EXCEPT !.pc = IF req[r].kind \in {"updateMany", "deleteMany"}
                                      THEN "emit" ELSE "done"]]
    /\ UNCHANGED <<items, lock, history, events, unpurged, deaths>>

(* Mutation: the event names the rows the statement changed only. *)
EmitWritten(r) ==
    /\ req[r].pc = "emit"
    /\ events' = events \cup {<<r, k>> : k \in req[r].written}
    /\ req' = [req EXCEPT ![r] =
                [req[r] EXCEPT !.pc = IF req[r].kind = "createMany" THEN "purge" ELSE "done"]]
    /\ UNCHANGED <<items, lock, history, cache, reader, unpurged, deaths>>

(* The event names every key of the call.                                   *)
Emit(r) ==
    /\ req[r].pc = "emit"
    /\ events' = events \cup {<<r, k>> : k \in req[r].keys}
    /\ req' = [req EXCEPT ![r] =
                [req[r] EXCEPT !.pc = IF req[r].kind = "createMany" THEN "purge" ELSE "done"]]
    /\ UNCHANGED <<items, lock, history, cache, reader, unpurged, deaths>>

(* A purge of committed changes is still to come.                           *)
PurgeDue(r) ==
    /\ req[r].outcome = "committed"
    /\ \/ req[r].pc = "purge"
       \/ req[r].pc = "emit" /\ req[r].kind = "createMany"

(* The process ends under the request.                                      *)
Die(r) ==
    /\ req[r].pc \notin {"idle", "done", "dead"}
    /\ deaths < MaxDeaths
    /\ deaths' = deaths + 1
    /\ unpurged' = (unpurged \/ PurgeDue(r))
    /\ Unlock(r)
    /\ req' = [req EXCEPT ![r] =
                [req[r] EXCEPT !.pc = "dead", !.left = {},
                               !.outcome = IF req[r].outcome = "open" THEN "rolled back"
                                           ELSE req[r].outcome]]
    /\ UNCHANGED <<items, history, events, cache, reader>>

-----------------------------------------------------------------------------
(* Reading through the cache.                                               *)

(* The cache was missed or skipped: the items are read ...                  *)
Read(d) ==
    /\ reader[d].pc = "idle"
    /\ reader' = [reader EXCEPT ![d] = [pc |-> "read", response |-> [data |-> items, late |-> FALSE]]]
    /\ UNCHANGED <<items, lock, req, history, events, cache, unpurged, deaths>>

(* ... and respond() caches the response.                                   *)
Respond(d) ==
    /\ reader[d].pc = "read"
    /\ cache' = [full |-> TRUE, response |-> reader[d].response]
    /\ reader' = [reader EXCEPT ![d] = [pc |-> "idle", response |-> NoResponse]]
    /\ UNCHANGED <<items, lock, req, history, events, unpurged, deaths>>

(* CACHE_TTL.                                                               *)
Expire ==
    /\ cache.full
    /\ cache' = [full |-> FALSE, response |-> NoResponse]
    /\ UNCHANGED <<items, lock, req, history, events, reader, unpurged, deaths>>

Begin(r) ==
    \/ \E K \in SUBSET Keys \ {{}}, kind \in Kinds : BeginMany(r, kind, K) \/ BeginBatch(r, kind, K)
    \/ \E k \in Keys : BeginUpsert(r, k)

Write(r) == WriteMany(r) \/ \E k \in Keys : Find(r, k) \/ CreateItem(r, k) \/ UpdateItem(r, k)

Next ==
    \/ \E r \in Reqs :
        \/ Begin(r) \/ UpsertDecide(r) \/ Check(r) \/ Write(r) \/ Commit(r) \/ Rollback(r)
        \/ Purge(r) \/ Emit(r) \/ Die(r)
    \/ \E d \in Readers : Read(d) \/ Respond(d)
    \/ Expire

Spec == Init /\ [][Next]_vars

-----------------------------------------------------------------------------
(* Properties.                                                              *)

(* No action event, that is no webhook, notification or action flow, tells  *)
(* of a change that is not committed; updateBatch and upsertMany, which     *)
(* emit inside the transaction, are the exceptions.                         *)
ActionsFollowCommit ==
    \A r \in Reqs, k \in Keys :
        <<r, k>> \in events /\ req[r].kind \notin EmitsInside => req[r].outcome = "committed"

(* A mutation that is done has told of every key it was called with when it *)
(* committed, and, with the same exceptions, of none when it was rolled     *)
(* back.                                                                    *)
AllAnnounced ==
    \A r \in Reqs, k \in Keys :
        req[r].pc = "done" =>
            IF req[r].kind \in EmitsInside
            THEN req[r].outcome = "committed" /\ k \in req[r].keys => <<r, k>> \in events
            ELSE <<r, k>> \in events <=> req[r].outcome = "committed" /\ k \in req[r].keys

(* The newest revision of an item was written by the mutation that wrote    *)
(* the item last, and holds its data: "revert" relies on it.                *)
NewestRevisionFits(k) ==
    Exists(k) => history[k] # <<>> /\ history[k][Len(history[k])] = [by |-> items[k], data |-> k]

(* The snapshots of r are those of its keys: it found all its items, and    *)
(* their order is the same as text.                                         *)
SnapshotsFit(r) ==
    /\ req[r].written = req[r].keys
    /\ \A j, k \in req[r].keys : j < k => AsText[j] < AsText[k]

(* However mutations of an item interleave and wherever they fail, its      *)
(* newest revision fits, as long as the snapshots of those that named it    *)
(* did.                                                                     *)
RevisionsFollowItems ==
    \A k \in Keys :
        (\A r \in Reqs : req[r].outcome = "committed" /\ k \in req[r].keys => SnapshotsFit(r))
            => NewestRevisionFits(k)

(* MAX_BATCH_MUTATION bounds what one request changes, counted over all the *)
(* nested calls it makes.                                                   *)
BatchLimit == \A r \in Reqs : Cardinality(req[r].written) <= Limit

(* The cached response is stale only until the purge of the mutation that   *)
(* made it so, unless it was read before a purge and cached after it, or    *)
(* the process died between the two.                                        *)
StaleUntilPurge ==
    cache.full /\ cache.response.data # items =>
        cache.response.late \/ unpurged \/ \E r \in Reqs : PurgeDue(r)

-----------------------------------------------------------------------------
(* What docs say and the code does not do.                                  *)

(* docs/extensions/hooks.md: "Use action hooks when you want the hook to    *)
(* fire after the event": no action event tells of an item of a batch whose *)
(* change is undone as another item, of which none was emitted yet, fails.  *)
NoActionUndone ==
    \A r \in Reqs : \A j, k \in req[r].keys :
        <<r, j>> \in events /\ <<r, k>> \notin events => req[r].outcome # "rolled back"

(* services/items.ts: "Sort keys to ensure that the order is maintained",   *)
(* that is, every revision that holds data holds that of its own item.      *)
RevisionsHoldTheirItem ==
    \A k \in Keys : \A i \in 1..Len(history[k]) : history[k][i].data \in {k, None}
=============================================================================
