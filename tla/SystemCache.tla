----------------------------- MODULE SystemCache -----------------------------
(***************************************************************************)
(* The caches of system data (cache.ts) on several nodes that share a cache *)
(* store: the permissions of a role, cached in the shared store and cleared *)
(* under the "system-cache-lock"; and the schema, cached in the memory of   *)
(* every node next to its hash, and valid while that is the hash in the     *)
(* shared store.  Every awaited call to the store or the database is a step *)
(* of its own.  CACHE_SYSTEM_TTL is not set, as by default.                 *)
(***************************************************************************)
EXTENDS Naturals

CONSTANTS Nodes,        (* processes of d9                                        *)
          Reqs,         (* requests, each made once                               *)
          Ops,          (* what the requests do                                   *)
          MaxVersion,   (* bound: changes of the permissions, and of the schema   *)
          MaxFailures,  (* bound: rejected calls to the store and crashes         *)
          None          (* nothing cached                                         *)

Data == {"permissions", "schema"}

Operations == {"getPermissions", "getSchema", "changePermissions", "changeSchema", "deleteRole", "flush"}

ASSUME SystemCacheAssumption ==
    /\ Nodes # {} /\ Ops \subseteq Operations
    /\ MaxVersion \in Nat /\ MaxFailures \in Nat
    /\ None \notin Nat \cup Nodes

VARIABLES version,   (* how often the permissions and the schema were changed   *)
          entry,     (* systemCache: the cached permissions                     *)
          lock,      (* lockCache: 'system-cache-lock'                          *)
          shared,    (* sharedSchemaCache: the hash, named by its version       *)
          local,     (* node -> localSchemaCache                                *)
          req,       (* the local state of every request                        *)
          missed,    (* history: the data changed without a clear of its cache  *)
          failures

vars == <<version, entry, lock, shared, local, req, missed, failures>>

(* late: the cache was cleared after the value was read from the database.  *)
Value == [version : Nat, late : BOOLEAN]
Cached == [full : BOOLEAN, value : Value]

Empty == [full |-> FALSE, value |-> [version |-> 0, late |-> FALSE]]
Current == [full |-> TRUE, value |-> Empty.value]
Full(r) == [full |-> TRUE, value |-> req[r].value]

Steps == {"idle", "done", "query", "check", "set", "share", "keep",
          "decide", "lock", "clear", "unlock", "local", "commit"}

Request == [op : Operations, node : Nodes \cup {None}, pc : Steps, value : Value]

Idle == [op |-> "getSchema", node |-> None, pc |-> "idle", value |-> Empty.value]
Over == [Idle EXCEPT !.pc = "done"]

(* The stores keep their types: they hold only what setSystemCache and      *)
(* setSchemaCache wrap, or nothing after a clear.                           *)
TypeOK ==
    /\ version \in [Data -> Nat]
    /\ entry \in Cached
    /\ lock \in BOOLEAN
    /\ shared \in Nat \cup {None}
    /\ local \in [Nodes -> Cached]
    /\ req \in [Reqs -> Request]
    /\ missed \in SUBSET Data
    /\ failures \in Nat

Init ==
    /\ version = [d \in Data |-> 0]
    /\ entry \in {Empty, Current}
    /\ lock = FALSE
    /\ shared \in {0, None}
    /\ local \in [Nodes -> {Empty, Current}]
    /\ req = [r \in Reqs |-> Idle]
    /\ missed = {}
    /\ failures = 0

-----------------------------------------------------------------------------

Done(r) == req' = [req EXCEPT ![r] = Over]
Goto(r, step) == req' = [req EXCEPT ![r] = [req[r] EXCEPT !.pc = step]]

Begin(r, op, n, step) ==
    /\ req[r].pc = "idle" /\ op \in Ops
    /\ req' = [req EXCEPT ![r] = [op |-> op, node |-> n, pc |-> step, value |-> Empty.value]]

(* History: a flush remembers the version of the schema when it began.      *)
BeginFlush(r, n) ==
    /\ req[r].pc = "idle" /\ "flush" \in Ops
    /\ req' = [req EXCEPT ![r] = [op |-> "flush", node |-> n, pc |-> "lock",
                                  value |-> [version |-> version["schema"], late |-> FALSE]]]

(* The values of the requests in R were read before a clear.                *)
Outdate(R) ==
    [q \in Reqs |-> IF q \in R
                    THEN [req[q] EXCEPT !.value = [version |-> req[q].value.version, late |-> TRUE]]
                    ELSE req[q]]

Commit(D) ==
    /\ \A d \in D : version[d] < MaxVersion
    /\ version' = [d \in Data |-> IF d \in D THEN version[d] + 1 ELSE version[d]]

-----------------------------------------------------------------------------
(* Reading the permissions of a role, after they were not found in the      *)
(* cache.  The answer that is cached is that of the query, whatever was     *)
(* cached meanwhile.                                                        *)

PermissionsMiss(r, n) ==
    /\ ~entry.full
    /\ Begin(r, "getPermissions", n, "query")
    /\ UNCHANGED <<version, entry, lock, shared, local, missed, failures>>

(* The database answers.  The schema is read with several statements; its   *)
(* version is that of the first.                                            *)
Query(r) ==
    /\ req[r].pc = "query"
    /\ LET d == IF req[r].op = "getPermissions" THEN "permissions" ELSE "schema" IN
        req' = [req EXCEPT ![r] =
                [req[r] EXCEPT !.pc = IF d = "permissions" THEN "check" ELSE "share",
                               !.value = [version |-> version[d], late |-> FALSE]]]
    /\ UNCHANGED <<version, entry, lock, shared, local, missed, failures>>

CheckLock(r) ==
    /\ req[r].pc = "check"
    /\ IF lock THEN Done(r) ELSE Goto(r, "set")
    /\ UNCHANGED <<version, entry, lock, shared, local, missed, failures>>

(* Mutation: the bare permissions are stored, without what getPermissions   *)
(* unwraps when it finds them.                                              *)
SetEntryBare(r) ==
    /\ req[r].pc = "set"
    /\ entry' = req[r].value
    /\ Done(r)
    /\ UNCHANGED <<version, lock, shared, local, missed, failures>>

SetEntry(r) ==
    /\ req[r].pc = "set"
    /\ entry' = Full(r)
    /\ Done(r)
    /\ UNCHANGED <<version, lock, shared, local, missed, failures>>

-----------------------------------------------------------------------------
(* Reading the schema.                                                      *)

Hit(n) == local[n].full /\ local[n].value.version = shared

SchemaMiss(r, n) ==
    /\ ~Hit(n)
    /\ Begin(r, "getSchema", n, "query")
    /\ UNCHANGED <<version, entry, lock, shared, local, missed, failures>>

ShareHash(r) ==
    /\ req[r].pc = "share"
    /\ shared' = req[r].value.version
    /\ Goto(r, "keep")
    /\ UNCHANGED <<version, entry, lock, local, missed, failures>>

KeepSchema(r) ==
    /\ req[r].pc = "keep"
    /\ local' = [local EXCEPT ![req[r].node] = Full(r)]
    /\ Done(r)
    /\ UNCHANGED <<version, entry, lock, shared, missed, failures>>

-----------------------------------------------------------------------------
(* Changes.  Those of the permissions and of the schema commit and then     *)
(* clear the caches; those of the schema clear them when they fail, too,    *)
(* and deleting a collection deletes its permissions.                       *)

ChangePermissions(r, n) ==
    /\ Begin(r, "changePermissions", n, "decide")
    /\ Commit({"permissions"})
    /\ UNCHANGED <<entry, lock, shared, local, missed, failures>>

ChangeSchema(r, n) ==
    /\ Begin(r, "changeSchema", n, "decide")
    /\ \E D \in {{}, {"schema"}, Data} : Commit(D)
    /\ UNCHANGED <<entry, lock, shared, local, missed, failures>>

(* RolesService.deleteMany deletes the permissions of the role, and so      *)
(* clears the caches, inside the transaction it commits at the end.         *)
DeleteRole(r, n) ==
    /\ Begin(r, "deleteRole", n, "decide")
    /\ UNCHANGED <<version, entry, lock, shared, local, missed, failures>>

CommitRole(r) ==
    /\ req[r].pc = "commit"
    /\ Commit({"permissions"})
    /\ missed' = missed \cup {"permissions"}
    /\ Done(r)
    /\ UNCHANGED <<entry, lock, shared, local, failures>>

(* POST /utils/cache/clear flushes whether or not the lock is set.          *)
Flush(r, n) ==
    /\ BeginFlush(r, n)
    /\ UNCHANGED <<version, entry, lock, shared, local, missed, failures>>

-----------------------------------------------------------------------------
(* clearSystemCache.                                                        *)

(* Mutation: the lock is set before it is looked at. *)
DecideLocking(r) ==
    /\ req[r].pc = "decide"
    /\ lock' = TRUE
    /\ Goto(r, "local")
    /\ UNCHANGED <<version, entry, shared, local, missed, failures>>

(* Mutation: a clear that finds the lock set does nothing at all. *)
DecideReturns(r) ==
    /\ req[r].pc = "decide"
    /\ IF lock THEN Done(r) ELSE Goto(r, "lock")
    /\ missed' = IF lock /\ \A q \in Reqs : req[q].pc # "clear"
                 THEN missed \cup {"permissions"} ELSE missed
    /\ UNCHANGED <<version, entry, lock, shared, local, failures>>

(* While the lock is set the permissions are not cleared: whoever set it    *)
(* does so, or has done so already, or is dead.                             *)
Decide(r) ==
    /\ req[r].pc = "decide"
    /\ Goto(r, IF lock THEN "local" ELSE "lock")
    /\ missed' = IF lock /\ \A q \in Reqs : req[q].pc # "clear"
                 THEN missed \cup {"permissions"} ELSE missed
    /\ UNCHANGED <<version, entry, lock, shared, local, failures>>

SetLock(r) ==
    /\ req[r].pc = "lock"
    /\ lock' = TRUE
    /\ Goto(r, "clear")
    /\ UNCHANGED <<version, entry, shared, local, missed, failures>>

ClearEntry(r) ==
    /\ req[r].pc = "clear"
    /\ entry' = Empty
    /\ req' = [Outdate({q \in Reqs : req[q].pc \in {"check", "set"}}) EXCEPT
                ![r] = [req[r] EXCEPT !.pc = "unlock"]]
    /\ missed' = missed \ {"permissions"}
    /\ UNCHANGED <<version, lock, shared, local, failures>>

(* The lock may be another request's by then.                               *)
Unlock(r) ==
    /\ req[r].pc = "unlock"
    /\ lock' = FALSE
    /\ Goto(r, "local")
    /\ UNCHANGED <<version, entry, shared, local, missed, failures>>

(* The shared hash stays.  A change of the schema that has action events to *)
(* emit goes on to read the schema again.                                   *)
ClearLocal(r) ==
    /\ req[r].pc = "local"
    /\ local' = [local EXCEPT ![req[r].node] = Empty]
    /\ \E next \in CASE req[r].op = "deleteRole" -> {[req[r] EXCEPT !.pc = "commit"]}
                     [] req[r].op = "changeSchema" -> {Over, [req[r] EXCEPT !.pc = "query", !.op = "getSchema"]}
                     [] OTHER -> {Over} :
        req' = [Outdate({q \in Reqs : req[q].node = req[r].node /\ req[q].pc \in {"share", "keep"}})
                EXCEPT ![r] = next]
    /\ missed' = missed \ {"schema"}
    /\ UNCHANGED <<version, entry, lock, shared, failures>>

-----------------------------------------------------------------------------
(* The surroundings.                                                        *)

(* The lock lives for ten seconds.                                          *)
LockExpires ==
    /\ lock
    /\ lock' = FALSE
    /\ UNCHANGED <<version, entry, shared, local, req, missed, failures>>

Clearing(r) == req[r].pc \in {"decide", "lock", "clear"}

(* A call to the store rejects, and so does clearSystemCache.               *)
Reject(r) ==
    /\ Clearing(r) \/ req[r].pc = "unlock"
    /\ failures < MaxFailures
    /\ failures' = failures + 1
    /\ missed' = missed \cup (IF Clearing(r) THEN {"permissions"} ELSE {})
                        \cup (IF req[r].op = "changeSchema" THEN {"schema"} ELSE {})
    /\ Done(r)
    /\ UNCHANGED <<version, entry, lock, shared, local>>

(* A node ends and starts again; what it had set in the store stays.        *)
Crash(n) ==
    /\ failures < MaxFailures
    /\ failures' = failures + 1
    /\ local' = [local EXCEPT ![n] = Empty]
    /\ missed' = IF \E r \in Reqs : req[r].node = n /\ Clearing(r)
                 THEN missed \cup {"permissions"} ELSE missed
    /\ req' = [r \in Reqs |-> IF req[r].node = n THEN Over ELSE req[r]]
    /\ UNCHANGED <<version, entry, lock, shared>>

Read(r) ==
    \/ \E n \in Nodes : PermissionsMiss(r, n) \/ SchemaMiss(r, n)
    \/ Query(r) \/ CheckLock(r) \/ SetEntry(r) \/ ShareHash(r) \/ KeepSchema(r)

Change(r) ==
    \/ \E n \in Nodes :
        ChangePermissions(r, n) \/ ChangeSchema(r, n) \/ DeleteRole(r, n) \/ Flush(r, n)
    \/ CommitRole(r)

Clear(r) == Decide(r) \/ SetLock(r) \/ ClearEntry(r) \/ Unlock(r) \/ ClearLocal(r)

Next ==
    \/ \E r \in Reqs : Read(r) \/ Change(r) \/ Clear(r) \/ Reject(r)
    \/ LockExpires
    \/ \E n \in Nodes : Crash(n)

Spec == Init /\ [][Next]_vars

-----------------------------------------------------------------------------
(* Properties.                                                              *)

(* However reads, clears and the lock interleave, the cached permissions    *)
(* are older than those of the database only while a clear is on its way,   *)
(* or when they were read before a clear and set after it, or when no clear *)
(* followed the change.                                                     *)
PermissionsFresh ==
    entry.full /\ entry.value.version < version["permissions"] =>
        entry.value.late \/ "permissions" \in missed \/ \E r \in Reqs : Clearing(r)

(* All nodes find their old schema valid, so that none ever reads the       *)
(* current one.                                                             *)
Stuck == \A n \in Nodes : Hit(n) /\ local[n].value.version < version["schema"]

(* A node that has changed the schema and still clears its copy.            *)
SchemaDue(r) ==
    req[r].op = "changeSchema" /\ (Clearing(r) \/ req[r].pc \in {"unlock", "local"})

(* The nodes are stuck only when one of them kept a schema it had read      *)
(* before its own clear, or when no clear followed the change.              *)
NotStuck ==
    Stuck => \/ \E n \in Nodes : local[n].value.late
             \/ "schema" \in missed
             \/ \E r \in Reqs : SchemaDue(r)

-----------------------------------------------------------------------------
(* What docs say and the code does not do.                                  *)

(* docs/reference/system/utilities.md: POST /utils/cache/clear "resets both *)
(* the data and schema cache of d9": once it is done, no node goes on with  *)
(* a schema older than the flush.                                           *)
FlushResetsSchema ==
    [][\A r \in Reqs : req[r].op = "flush" /\ ClearLocal(r) =>
        \A n \in Nodes : Hit(n)' => local'[n].value.version >= req[r].value.version]_vars
=============================================================================
