# A specification of d9

d9 (a fork of Directus) puts a REST and GraphQL interface, an app, and a system of flows, hooks and
webhooks on top of a SQL database. Its API (`src/api/src`) is a Node.js process of which several may
run on one database, one cache store and one message bus. This directory holds TLA+ modules of the
parts of the API, and of two parts of the app, whose correctness depends on the order of steps, the
TLC configurations that check them on small instances, and TLAPS proofs of invariants for all
instances.

Code is named relative to `src/api/src` unless it begins with `docs/` or `app/`.

## 1. The system

### Parts, their state, and how they interact

| part | state | operations | interacts with |
|---|---|---|---|
| sessions: `services/authentication.ts`, `services/shares.ts`, `middleware/authenticate.ts` | `directus_sessions` | login, refresh, logout, acceptance of access tokens | users, shares (foreign keys), the app |
| items: `services/items.ts` | the items, `directus_activity`, `directus_revisions` | create, update, delete, upsert, read | authorization, payloads, emitter, response cache |
| response cache: `cache.ts`, `middleware/cache.ts`, `middleware/respond.ts` | `cache` in the store | read-through, purge | every mutation, the `schemaChanged` message |
| system caches: `cache.ts`, `utils/get-permissions.ts`, `utils/get-schema.ts` | `systemCache`, `sharedSchemaCache`, `lockCache` in the store, `localSchemaCache` in each node | read-through, clear, flush | permissions, roles, collections, fields, relations |
| flows: `flows.ts`, `utils/job-queue.ts`, `services/flows.ts`, `services/operations.ts` | `directus_flows`, `directus_operations`; handlers and a queue in each node | change, publish, reload, run | messenger, emitter, items |
| webhooks: `webhooks.ts` | `directus_webhooks`; handlers in each node | reload, call | messenger, emitter |
| extensions: `extensions.ts` | files; hooks, endpoints, operations in each node | load, unload, reload | emitter, flows |
| messenger, emitter: `messenger.ts`, `emitter.ts` | subscribers, handlers | publish, emit | flows, webhooks, caches |
| users, roles: `services/users.ts`, `services/roles.ts` | `directus_users`, `directus_roles` | as items, and "an administrator remains"; invitations, password resets | items, sessions, system caches |
| registration: `auth/drivers/local.ts` | the account, and when a mail was sent for it | register, verify | users, mail |
| shares: `services/shares.ts` | `directus_shares.times_used`, `max_uses` | login | sessions |
| login attempts, rate limits: `rate-limiter.ts` | counters in a store | consume, reset | login |
| schema: `services/collections.ts`, `fields.ts`, `relations.ts` | tables and their metadata | DDL in a transaction | system caches |
| snapshots: `services/schema.ts`, `utils/get-snapshot-diff.ts`, `utils/apply-diff.ts` | none | diff, apply | the schema services |
| files: `services/files.ts`, `services/assets.ts`, storage drivers | `directus_files`, the bytes, derived images | upload, replace, delete, derive | items |
| queries: `utils/apply-query.ts`, `get-ast-from-query.ts`, `database/run-ast.ts` | none | translation to SQL | items |
| token refresh of the app: `app/src/auth.ts`, `app/src/idle.ts`, `app/src/api.ts` | a timer and flags in the browser | login, refresh, logout | sessions |
| relations in the app: `app/src/composables/use-relation-multiple.ts`, `use-item.ts`; `services/payload.ts` | staged creations, updates, removals | edit, save | items |

Everything else is listed in `PROJECT.json` with the reason why it is not modelled.

### What is hard

Node runs one continuation at a time, so every `await` is where another request of the same node, or
of another, can get in between. The parts share the database, the cache store and the bus, none of
which is in one transaction with another. Hence, for each part:

* Sessions run 3 to 5 SQL statements per request *outside* a transaction. A token must be rotated
  once only, all requests that present it at the same time must get one answer, and a session that
  was ended must stay ended although a request that read its row is still under way.
* Items run their checks before the transaction, and the purge of the cache and the events after it.
  Events must tell of what is committed, all of it and nothing else; revisions must belong to their
  item; the cache must not stay stale.
* The system caches are filled by readers while writers clear them under a lock that expires, that
  is not the owner's only to release, and that makes others skip their clear.
* Flows are changed by one node and have to reach all others, through messages that can be lost,
  loads that take two statements, and processes that stop. Webhooks are the same without the care
  that flows take when they start.
* Users, roles and shares are counted before they are changed, in another statement and outside the
  transaction of the change. Registration, and the links that are mailed, check a status that may be
  another when they act on it.
* Files are rows and bytes, written one after the other with nothing that undoes the first.
* The browser has one timer, one refresh and several calls whose answers overlap; what the user has
  staged is referred to by its index in lists that shift.
* A snapshot is compared with a schema that others may change before it is applied, and its parts
  are applied one by one although each cascades over others.

Each such place is in `PROJECT.json` under `hazards`, at its line, with the properties that cover
it.

## 2. The modules

An action is what a process does between two awaits: one statement, one call to the store. Its guard
is the code's condition, its primed variables the assignments. `PROJECT.json` (`map`) gives the
lines of every definition.

### Sessions, Rotation

`sessions` is `directus_sessions` (token to owner, expiry, `fallback_token`, `session_id`); `req`
holds the local variables of each request: `pc` is the statement it is about to run, `owner`,
`fallback` and `sid` are the columns *as its first SELECT returned them*, however old. `drawn` is
what `nanoid` has returned (it never repeats); `status` says whether a user is active or the window
of a share is open. `succ` and `answers` are history.

| action | code |
|---|---|
| `LoginStart`, `LoginInsert`, `LoginSweep` | `login` of users and of shares: the checks, the INSERT, the deletion of expired rows |
| `RefreshStart`, `RefreshPurge` | the SELECT of `refresh`, and the deletion of the row of a user who is no longer active |
| `RefreshCleanUp` | the deletion of the user's expired rows (of all shares' rows, for a share: the column is `NULL`) |
| `RefreshExtend` | the row already has a `fallback_token`: that row is extended and returned |
| `RefreshClaim`, `RefreshClaimLost`, `RefreshReread` | `UPDATE ... WHERE fallback_token IS NULL`, and the second SELECT of who lost |
| `RefreshInsert` | the INSERT of the new row |
| `LogoutStart`, `LogoutDelete` | `logout` |
| `Abort`, `ForeignKeyError`, `DeleteOwner`, `SetStatus`, `Tick` | failures, cascades, users and shares, time |

Rows written before the migration that added `session_id` have none (`Legacy`). The session id a
login draws is named by its first token. What a login checks first (password, one-time password,
attempts) is left out: it only decides whether `LoginStart` happens. A share's use count is not part
of a session.

`Rotation` is the promise: a token gets at most one successor, never seen before, and every answer
is that successor. `RotationSpec` says that `Sessions` implements it.

### Flows, Replicas

The stored flows and operations are a `version`. Each node has a life cycle (`up`), the `mail` of
reload messages on their way to it, the JobQueue (`queue`, `jobs`), the invocations of `load()`
under way (by `initialize()` and by the queue), `isLoaded`, and the number of `handlers` sets in
place. `load()` reads the flows and the operations in two statements, so `snapshot` has a version of
each. `Unlink`/`DeleteUnlinked` are the two halves of `FlowsService.deleteMany`. `missed` is
history: a reload meant for a node was lost because its publisher stopped, because the node refused
it while starting, or because a delete failed half-way. `Stop` also stands for a `load()` that
rejects, on which Node ends the process.

`Replicas` is the promise: every node works with some stored version and never goes back.
`ReplicaSpec` (with `served` the version of the flows) says that `Flows` implements it.

### Items, ItemsConstants

One collection. A mutation writes a content of its own, so an item's content names the request that
wrote it last. `lock` is the row locks of the database. `req` holds the operation, the keys it was
called with, those still to be written, the one an upsert has found, those whose row it wrote, and
the mutation tracker. Order in the code and in the model:

* `updateMany`, `deleteMany`: track, check (`Check`), transaction (`WriteMany`, `Commit`), `Purge`,
  `Emit`;
* `createMany`: transaction (`CreateItem` for each, `Commit`), `Emit`, `Purge`;
* `updateBatch`: transaction (`UpdateItem` for each, which emits, `Commit`), `Purge`, also when it
  failed;
* `upsertOne`: `UpsertDecide`, then as `updateMany` or `createMany` of one item;
* `upsertMany`: transaction (for each item, `Find` and then `UpdateItem` if it exists, `CreateItem`
  if not, both of which emit, `Commit`), `Purge`, only when it committed.

`EmitsInside` names the two that emit their events inside the transaction. What such an event tells
of may be rolled back; the properties on events except them and a violation run shows it.

`Rollback` is anything that throws before the commit: a hook, access, a constraint, the limit, a
deadlock the database resolves by aborting. `Die` is the end of the process. `Snapshot` models how a
revision gets its data: the items are read in the order of the database and taken by their position
in the *sorted* keys, and JavaScript sorts numbers as text (`AsText`). `Read`/`Respond` are a
request that misses the cache and one await later fills it.

Left out: nested relational payloads, `bypassLimits`, `emitEvents: false` and `autoPurgeCache:
false` of internal callers, singletons. The database itself is external.

### SystemCache

`version` counts the changes of the permissions and of the schema. `entry` is a cached set of
permissions, `lock` the `system-cache-lock`, `shared` the hash in `sharedSchemaCache` (named by its
version), `local` the copy of each node. Every awaited call is a step: `CheckLock`, `SetEntry` of
`setSystemCache`; `ShareHash`, `KeepSchema` of `setSchemaCache`; `Decide`, `SetLock`, `ClearEntry`,
`Unlock`, `ClearLocal` of `clearSystemCache`. `LockExpires` is the ten seconds. `Reject` is a call
to the store that fails, `Crash` a process that ends with whatever it had set. `late` marks a value
that was read before a clear and stored after it; `missed` records that no clear followed a change:
it was skipped while the lock was set by one who was already past clearing, rejected, or came before
the commit (`DeleteRole`, `CommitRole`).

Left out: other keys than one, the filter context, `CACHE_SYSTEM_TTL` (unset by default; an expiry
only removes values), stores that are not shared (the docs require a shared one for several nodes).
The reads of `getSchemaCache` and the two writes to the node's memory are one step each; the schema
is taken to be read at its first statement.

### Accounts

`user` and `role` are the two tables: status, role and password (named by how often it was set) of a
user; whether a role is there and has `admin_access`. A request is checked in one step and applied
in another, as the code counts administrators before the transaction: `UpdateUsers`, `DeleteUsers`,
`SetUsersOfRole`, `UpdateRoles`, `DeleteRoles`, `AcceptInvite`, `VerifyEmail`, `ResetPassword` check
and are followed by the `Commit...` action of the same name. `stale` marks a request that was
overtaken: users or roles changed since it was checked. The checks are not alike:
`checkRemainingAdminExistence` (`AdminUserBeside`) counts administrators of any status,
`checkRemainingActiveAdmin` (`ActiveAdminBeside`) the active ones, `checkForOtherAdminRoles`
(`AdminRoleBeside`) roles whether or not they have users. The properties name what each leaves out.

A link carries the password it was issued for, so following it twice in turn is refused; the update
it leads to makes the user active without looking at the status again.

A login is `Login` (the user is active), `Consume` or `ConsumeFails` (the limiter), `Suspend` and
`Forget` (the limit is met: the user is suspended, the counter reset, and the login *goes on*),
`Refuse` or `Accept`, `Succeed` (the counter is reset). `refused` counts the wrong passwords since
the last reset, `spent` the reset links that have set a password.

Left out: `updateBatch` of users, which is an `updateMany` per item in one transaction; the forms in
which a role names its users as alterations; the second factor, which `Refuse` covers; a process
that ends inside a login; password policies.

### Registration, RegistrationConstants

One address in several spellings. The code compares addresses without regard to case, the unique
column compares spellings. A request looks the account up (`Lookup`), checks that the address is
unique (`CheckUnique`) and inserts (`Insert`), or goes to send a mail (`Send`) and then draws the
date (`Stamp`) and stores it (`StoreDate`); `VerifyEmail`, `Redraft` and `DeleteAccount` are what
others do to the account. `lastMail` is when a mail was really sent, `unrecorded` that the account
does not say so, `excused` that a request could not know better, `raced` that two creations
overlapped.

### Shares, ShareLimits

`login` of a share selects `times_used` and `max_uses`, verifies the password and writes the count
it read plus one: `Select` and `Count`. Editors change `max_uses` (`SetMaxUses`) or set `times_used`
back (`SetBack`) in between. `admitted` counts logins since then, `lost` how many of them the column
does not count because one was written over another. The comparison `max_uses >= times_used` admits
one login more than `max_uses` says, with no interleaving at all: `ViewedAtMost`, which is what the
docs say, is violated; `UsesBounded` says that there is one more, and one for each lost count.

### Webhooks

The table is a `version`. A node runs `register()`, subscribes, and is `up`; a reload waits in
`jobs` and is `Unregister`, `ReadTable`, `Register`. `reading` is where a `register()` is, `read`
what it read. Unlike `flows.ts`, `init()` reads before it subscribes: `unannounced` records a change
that fell between the two, whose message was lost, or whose writer ended first.

### Uploads

`row` is the row of a file (its location, its extension, the bytes it describes), `stored` what each
name of the storage holds. `uploadOne` is `CreateRow` or `ReplaceRow`, `List`, `DeleteListed`,
`OpenWrite`, `FinishWrite`, `Stat`, `Describe`; `deleteMany` is `FindRow`, `RemoveRow`, `List`,
`DeleteListed`; an asset that is derived is `ReadRow`, `OriginalExists`, `DerivedExists`, `Derive`,
`Store`. `Fail` is anything that throws and the end of the process. `mishaps` is history: which
of the things the properties except has happened to the file. Cloud drivers, whose writes are put
together by the cloud, are not modelled, nor are rows that are created or moved as JSON, with their
storage and their name in it given.

### ClientRefresh

The page's token (`header`, whether it is `due`, whether it is `long`-lived), its `timer`, a `stray`
timer that the page no longer refers to, the idle and hidden page, one refresh and the calls of
login and logout under way. `Refresh(t)` is `refresh()` up to its first await, called by the timer,
by the router, by an error of a request and when the user returns. `out` says that the user signed
out and has not signed in since, `overtaken` that this happened during a refresh.

### RelationEdits

`staged` is the `create`, `update` and `delete` lists of `use-relation-multiple.ts`, `fetched` what
the page shows, `Displayed` what `displayItems` makes of both, with the *index* of each entry, which
every action then uses as the code does. `withItem` says that the children are shown with their
reference to the item: `remove()` then takes an edited child for one that was selected and forgets
its edits instead of removing it (`TakeBack`; `StageRemoval` is the removal that works).

`want` is what the user asked for each row, `sent` what it was when a request was sent. `Save` sends
the lists and `Processed` is `processO2M`, which the API runs in one transaction; `Answered` resets
what is staged, whatever it is by then. What was asked after the request was sent is in no list from
then on; `want` keeps it, and `dropped` has the rows it was asked for. `again` and `muddled` mark
what else the property excepts. The loops of `processO2M` are modelled by their result: the value of
a row is that of the last entry which has one (`LastValue`).

### Snapshots

A schema is collections in groups, a column and an alias field of some collections, and relations
(what the foreign key refers to, what the metadata refers to, and whether the alias shows the
column). `base` is the schema the difference was made from, `after` the snapshot, `known` the schema
`applyDiff` reads before its transaction. `Diff`, `Validate`, `ReadSchema`, `Apply` is the way
through the API, `Prompt`, `ReadSchema`, `Apply` that of the command line, which does not compare
the hash. `Applied` composes the five loops of `applyDiff` in their order (`Creations`, `Deletions`,
`Regroupings`, `FieldChanges`, `RelationChanges`), each with the cascades of the services
(`FieldsDeleted`, `CollectionsDeleted`) and with what makes it fail. Others change the schema by
eight further actions while an apply is under way.

The code calls itself for the collections inside a collection it creates or deletes. `Nested` is the
set that reaches: the least that has the first ones and whatever of the difference is in one of it.
A cascade over several fields or collections (`FieldsDeleted`, `CollectionsDeleted`) is one
operation on the set of them.

Left out: types and attributes of fields, any-to-one relations, tables without metadata, differences
edited by hand, and statements of others between those of the transaction, which is one step.

### Parts, MCParts

`Shares`, `Webhooks`, `Uploads`, `Registration`, `ClientRefresh`, `RelationEdits`, `Snapshots` and
`Items` share no state with one another. `Parts` instantiates all of them: a behaviour is one of one
part (`part`), and the variables of the others are `None`. That adds their states instead of
multiplying them and loses no behaviour, as an interleaving of parts that share nothing violates a
property of one only if a behaviour of that one does. `MCParts` gives `Parts` the values TLC checks
it with; the proofs are about `Parts` with any values.

## 3. The runs

| run | instance | what it shows |
|---|---|---|
| `sessions_rotation` | 3 tokens, 1 user, 2 requests, rows from before `session_id`, expiry, one abort | the session never forks (`SingleHead`), concurrent refreshes get one answer (`SameAnswer`), a dead session stays dead (`DeadSession`), a logout with the current token ends it (`LogoutEndsHead`), `RotationSpec` |
| `sessions_liveness` | 3 tokens, a user and a share, 2 requests, no expiry and no abort | every accepted request ends (`Terminates`) |
| `sessions_logout` (violation) | 2 tokens, 1 request | `LogoutDestroysSession` does not hold |
| `sessions_answer` (violation) | 2 tokens, 2 requests | `AnswerUsable` does not hold |
| `flows_reload` | 2 nodes, 2 changes, 1 stop | one set of handlers (`OneLoad`), no reload forgotten (`NoLostReload`), never older flows (`NeverOlder`, `ReplicaSpec`), a node that is behind catches up (`CatchesUp`), handlers come back (`LoadsAgain`) |
| `items_events` (violation) | 2 items, 1 request | `NoActionUndone` does not hold: a batch fails at its second item |
| `items_revisions` (violation) | keys 2 and 10, 1 request | `RevisionsHoldTheirItem` does not hold |
| `system_cache` | 2 nodes, 3 requests of all six kinds, one change of each, one failure | stale permissions only for the reasons named (`PermissionsFresh`), the nodes never all keep an old schema but for those (`NotStuck`) |
| `system_cache_flush` (violation) | 3 requests: read, change, flush | `FlushResetsSchema` does not hold |
| `accounts` | 2 users, 2 roles, 2 requests of any kind and a login; limit of 1 attempt | the last administrator is lost only in the ways named (`AdminUserKept`, `ActiveAdminKept`), a suspended user stays so (`SuspensionHolds`), a reset link works once (`ResetLinkOnce`), wrong passwords are limited (`AttemptsLimited`) |
| `parts`: shares | 1 share, 3 logins, `max_uses` 0, 1 or none | `UsesBounded` |
| `parts`: webhooks | 2 nodes, 2 changes, 3 starts | `HandlersCurrent` |
| `parts`: uploads | 1 file, 2 locations, 2 extensions, 3 requests | the row describes the bytes (`BytesDescribed`), nothing is left behind (`NothingLeftBehind`) |
| `parts`: registration | 2 spellings, 2 requests, an interval of 2, time up to 6 | `OneAccount`, `MailsApart` |
| `parts`: the app's token | one page | who is signed in stays so (`StaysSignedIn`), who signed out too (`SignedOutQuiet`) |
| `parts`: relation edits | 2 rows, 2 values, 2 saves at a time | `EditsSaved` |
| `parts`: snapshots | 3 collections that nest, a column, an alias, every pair of schemas, 1 change by others | `SnapshotReached` |
| `parts`: items | keys 2, 3, 10, two of which exist; 2 mutations, one by an administrator; 1 reader; limit 2; 1 death | events follow commits (`ActionsFollowCommit`) and are complete (`AllAnnounced`), revisions fit (`RevisionsFollowItems`), the limit holds (`BatchLimit`), the cache is stale only until the purge (`StaleUntilPurge`) |
| `share_limit` (violation) | 1 share, `max_uses` 1, 2 logins | `ViewedAtMost` does not hold |

Why the bounds are enough to be of use: three tokens are a session rotated twice, the least in which
a logout or refresh can present a token that is neither the head nor its predecessor; two requests
suffice for every pair of statements to meet. In `sessions_liveness` they let a session be rotated
twice to the end. Keys 2, 3, 10 are the least set on which the order of numbers and of text differ,
with one that does not exist; a limit of 2 lets a batch of 3 fail. Two changes of the flows are the
least for which an older load could win over a newer one; one stop reaches every point of a life
cycle. Three requests on two nodes are the least in which a reader, a writer and the one who holds
the lock are different. Two users and two roles are the last administrator and another, and a role
with and one without `admin_access`; two mutations are one check that is overtaken, and a login
beside them is what suspends. At the start every user has a role (`RolesGiven`); requests take it
away. With a limit of 1 the second attempt suspends while a third is between its steps. Three logins
of a share that admits two; three requests on one file are an upload, a replacement and a deletion
or derivation. Two rows are enough for the index of one entry to be taken for another's. Two things
are not followed further (`Followed`): the edits of a relation once they are `again` or `muddled`,
except to the answer that ends it, and readers beside mutations of several items (of one item each
they are). A chain of three collections is the least in which a collection that goes is inside one
that goes inside one that stays, and one change by others can fall between any two steps of an apply
(two collections with a column and an alias each, and relations to themselves, give the same answer,
but take too long for every run). The proofs remove these bounds for the safety properties they
cover. Deadlock is not checked: requests are made a bounded number of times and the system then
rests.

Symmetry is used in the safety runs, over values that the specification treats alike; not in the
runs with liveness. In `MCParts` it is over what stands for nodes, locations, spellings and rows,
and over values.

### Fairness

`Sessions!FairSpec`: the statement of a request that was accepted is answered, so `Step(r)` is
weakly fair; starting a request is not. `Terminates` excuses a request only while it is about to
draw a token (`login`, `claim`) and the bound leaves `nanoid` none; every other statement must be
followed by the next, whatever was drawn. `Flows!FairSpec`: `Publish`, `Deliver`, the queue,
`load()` and the second half of a delete are continuations of one process or a message in transit;
`Start` is the supervisor that restarts a stopped node. Writing, and stopping, are never assumed to
happen. `CatchesUp` is therefore conditional on no reload being lost, which the code does not
guarantee. `Accounts` and the parts of `MCParts` assume no fairness: what is asked of them is
safety, and every request may stop anywhere.

### What the violations say

* A logout with a token that has been rotated leaves its successor:
  `docs/reference/authentication.md:172` says that the session is destroyed.
* Between `UPDATE fallback_token` and the INSERT of the new row, a concurrent refresh is answered
  with a token that is in no row, and will never be if the first request dies there.
* `updateBatch` emits action events inside its transaction, and so does `upsertMany`: when the
  second item fails, the first, whose event is out, is rolled back. `docs/extensions/hooks.md:42`
  says after the event.
* `updateMany` gives the revision of 10 the data of 2, and conversely, when both are updated in one
  call.
* `POST /utils/cache/clear` leaves the schema of the other nodes valid.
* A share with `max_uses` 1 is viewed twice, one login after the other:
  `docs/reference/system/shares.md:49` calls it the maximum number of times.

Noticed while modelling, without a run of their own. Each is an exception that a property names, and
without which TLC finds it violated, unless nothing is said of it:

* extending a fallback that was itself rotated gives the old token its full lifetime back
  (`services/authentication.ts:347`, against the comment at 360); no property is about it;
* a node has no handlers while it reloads (`flows.ts:90`; `LoadsAgain` says that they come back);
* the permissions cache needs `CACHE_ENABLED` (`utils/get-permissions.ts:24`);
* two requests that each leave an administrator leave none together; `role: null` is not checked at
  all (`services/users.ts:239`), and an admin role that has no users counts as a remaining one;
* a link that was followed before a suspension makes the user active after it;
* a share admits one login more for each count that is written over another;
* a node that reads the webhooks as they change, before it has subscribed, keeps the old ones;
* a file that is replaced loses its bytes before the new ones are there, keeps those of another
  location, and a derived image may outlive the bytes it was made from;
* two spellings of an address registered at a time get two accounts;
* a refresh that is answered after the user signed out signs the user in again;
* an edit taken back from a row that is to be removed is spliced from the wrong list, by its index;
  a second save before the answer of the first creates the new rows twice; what is staged after a
  save was sent is dropped by its answer; a child that was edited, and is shown with its reference
  to the item, is not removed but loses its edits
  (`app/src/composables/use-relation-multiple.ts:250`);
* a snapshot (`docs/self-hosted/cli.md`: "to make it match the snapshot") leaves collections that
  are inside a group that stays, loses aliases whose column is deleted, does not change the target
  of a foreign key, and fails as a whole when a relation goes with the collection it refers to and
  its column stays.

## 4. The proofs

Each `*Proofs` module extends its component (the last three extend `Parts`) and proves, for every
value of the constants that satisfies the named assumptions of the component:

| module | theorems | argument |
|---|---|---|
| `SessionsProofs` | `TypeCorrect`, `NoFork`, `OneAnswer`, `NoResurrection`, `LogoutIsFinal`, `ImplementsRotation` | `IInv`, below |
| `FlowsProofs` | `TypeCorrect`, `SingleLoad`, `NoReloadForgotten`, `Monotonic`, `ImplementsReplicas` | `IInv`: the life cycle of a node decides what is under way in it, reads are ordered by version |
| `ItemsProofs` | of `Items` alone, what `AppProofs` states of `Parts` under the same names | one inductive invariant per theorem: the phases of a request; the tracker counts at least the written keys; readers are excused; locks protect the keys written |
| `SystemCacheProofs` | `TypeCorrect`, `PermissionsCoherent`, `SchemaRecovers` | with no clear under way and none missed, every value in the cache and in the hands of readers is current or late; some node is fresh |
| `AccountsProofs` | `TypeCorrect`, `LimitHolds`, `AdministratorStays`, `ActiveAdministratorStays`, `AdminRoleRemains`, `SuspensionStands`, `LinkSpent` | `IInv`: what a check found holds until the request is overtaken |
| `ServicesProofs` | `UsesStayBounded`, `HandlersStayCurrent`, `AccountIsUnique`, `MailsStayApart`, `BytesStayDescribed`, `NothingStaysBehind` | of `Shares`, `Webhooks`, `Registration` and `Uploads` an invariant each (`SharesInvariance`, ...): below |
| `SnapshotsProofs` | `SnapshotStaysReached`, `SchemaStaysSound` | `SnapshotsInvariance`: unless others changed the schema unseen, what is applied is a difference of that schema; the five steps of the application, one by one |
| `AppProofs` | `PageStaysSignedIn`, `PageStaysSignedOut`, `EditsStaySaved`, `PartsStayTyped`; `EventsFollowCommits`, `EventsComplete`, `BatchesBounded`, `CacheStaleness`, `RevisionsFit` | `ClientInvariance`, `EditsInvariance`: below; the last five from `ItemsProofs` |

*Sessions.* `SingleHead` is not inductive: a request may be about to insert a token, or act on a row
it read long ago. `IInv` adds that rows follow the history (`RowsFollowSucc`: `fallback_token` is
the token's one successor), that what a request read is still true of its row (`ReadsAgree`), and
that a drawn token is known to its request only until it is inserted (`PendingIsPrivate`). That the
`UPDATE` is conditional is used in one place, `RefreshClaim`. `DeadSession` and `LogoutEndsHead`
follow from one lemma about how a step changes the carriers of a session. The refinement needs
`IInv`: an answer is a successor.

*Flows.* `Lifecycle` says that a node which is starting has only the initial load under way, and one
that is up has loaded or has one job under way. `NoLostReload` is then kept by each action: whatever
raises `version` leaves something to publish, and a publication puts a message in the mail of every
node that is up.

*Items.* `EventsFollowCommits` needs the phase of a request to agree with its outcome and the events
told so far. `BatchesBounded` is about cardinalities of finite sets. `RevisionsFit` needs that the
positions of keys determine them, for orders that agree (`RanksAgree`), and that a row written in an
open transaction is locked. `AppProofs` carries the theorems over to `Parts`: while `part` is
`"items"`, and it never changes (`PartStays`), a behaviour of `Parts` is one of `Items`
(`ItemsImplemented`).

*SystemCache.* `PermissionsInv`: a permission was missed, or somebody is clearing, or everything
cached and everything read but not yet stored is current or marked late. `SchemaInv` is the like for
some node: the one that cleared last.

*Accounts.* `FoundInv` says of every request between its check and its commit, unless `stale`, that
the administrators it counted are still there; each `Commit...` then leaves one of them, and
`Overtake` makes every other checked request stale exactly when users or roles changed. `LinkInv`
says that no link is newer than its user's password and that a spent one is older. `AttemptsInv`
bounds the wrong passwords and the logins under way by the counter, and has somebody about to
suspend when the counter is over the limit; it sums over sets of requests, whose cardinalities
`FiniteSetTheorems` gives.

*Shares, Webhooks, Registration.* Each has one inductive invariant whose parts are named after what
they say. Of a share: `times_used` and the lost counts are together the number of admitted logins
(`Counted`), and neither it nor what a login carries exceeds the largest `max_uses` by more than the
comparison lets it (`Within`, `Carried`). Of a node: it has the handlers of its last read or is
reading (`Registered`), it has messages and reloads only once it subscribed (`Subscribed`), and what
it read is the last version, or a reload is in its queue, on its way or to be published, or it was
not told (`Known`). Of an address: who is about to insert found no account (`FoundNone`), the
account records the last mail unless that is marked (`OnRecord`), and no mail was sent within the
interval before a request that is not excused (`Due`).

*Uploads.* The two properties say nothing of a file while a request changes it, and that is where
the work is. `Midway` says of the one request that changes a file what its next statement relies on:
until it has deleted the row the row is whole, the names it listed are all that is left, after the
deletions nothing is, and what it has written is at its target (`Alone`, `Bytes`, `Leftovers`).
`AtRest` is what then remains. All of it depends on `mishaps`, the failures and overlaps on record
for the file; `BytesDescribed` is proved for a file whose derived images raced, too.

*ClientRefresh.* The two properties, together with `NotBegun` (nothing is under way before the first
refresh), are inductive. A refresh has six callers (the router, two timers, a refused request, the
return of the user by either event); `RefreshStep` is the one argument for all of them.

*RelationEdits.* `EditsSaved` is about one step, the save; the invariant is about everything the
user did before it. While no save is under way, and unless an edit was taken back by the wrong index
or a row selected that had an entry already (`muddled`), each list has one entry of a row at most
(`EntriesOnce`), and of each row (`AsAsked`) the three lists together say what the page is still
asked (`Asked`: what `want` says of rows that are not `dropped`): it is created, or edited, or
neither, and in the last two cases perhaps removed. `AsAskedStill` is the argument for every row
that an action is not about. That every action keeps this is a matter of indexes: `RemoveIndexes`
says which entry an index of a shortened list stands for, `AppendIndexes` and the lemmas on `Of` and
`OthersKept` that the entries of all other rows remain, and `DisplayedItem` that the index the page
shows is the entry it means. `SavedRow` then evaluates `Processed` in each of the three cases; rows
that others deleted after the user edited them are among them.

*Snapshots.* Unless `unseen`, the schema at `ReadSchema` and at `Apply` is `base` (`Fit`), so the
application starts from what the difference was made from. Each of its five steps is then computed
in closed form on `base` and `after` (`GroupsMade`, `GroupsLeft`, `GroupsSet` are the groups after
creations, deletions and regroupings, and likewise for fields and relations), and the last of them
is what `SnapshotReached` says; a step that fails does so for the reason `DeletedTwice` gives. It
holds for any collections and nests: `NestedWithin` gives from the definition of `Nested` that a
collection left out has its group left out. `SchemaStaysSound` is about every change, also of a
schema that others have changed: each service, on any schema without dangling references, leaves
one.

*Types.* `PartsStayTyped` puts the invariants of the eight parts together.

Assumptions: bounds are naturals, the interval between mails is not 0; `None` and its like are not
among the values they stand beside; the keys are a finite set of naturals with an injective order as
text; there is a node; the requests on accounts are finitely many; the groups a collection may be in
form no cycle (the data model page of the app, where collections are dragged into one another, makes
none). `SnapshotsAssumption` says the latter of sets (of any set of collections one is in none of
the others), so that no induction is needed to use it. TLC
evaluates the assumptions in every run.

Only model-checked: the liveness properties (`Terminates`, `CatchesUp`, `LoadsAgain`), as the prover
does not treat fairness and `ENABLED`. Only proved: `AdminRoleKept`, the like of `AdminUserKept` for
roles. The violated properties have runs only. Nothing is proved of the database, the store and the
bus beyond what the models say of them.

## 5. Not modelled

Most of the repository keeps no state between calls, and what it computes is text or data: queries
and their translation to SQL, GraphQL, the merging of permissions and filters, transformers of
values, import and export formats, migrations, dialects, the inspector of the database, and most of
the app. A model of it would be the code again. `PROJECT.json` gives the reason for each component.
Of what keeps state, this is left:

* `executeFlow` and `executeOperation` (`flows.ts`): the order of operations, on top of the handlers
  of `Flows`. What an operation does is a call to another part.
* Extensions: the same queue as `Webhooks`, over modules on disk.
* Relational payloads inside `Items`: nested mutations that share the transaction, the tracker and
  the list of events. Many-to-many and many-to-any forms in `RelationEdits`; paging, sorting, a
  drawer that stays open across an answer.
* `ClientRefresh` composed with `Sessions`, whose clients now send any token at any time; the
  requests of the page that wait for a refresh; several pages of one browser.
* Manual sorting (`services/utils.ts`), folders, cloud storage; rows of files that are created or
  moved as JSON (`FilesService.createOne`, `updateMany` with `storage` or `filename_disk`).
* Messages that are lost on their way to a node that is up: `Webhooks` has them, `Flows` loses a
  message only with the node that publishes or receives it.
* Locks that two batches take in opposite orders (`services/items.ts:527`): the database resolves
  it, and `Rollback` of `Items` is one of its outcomes.
* The statements inside a change of the schema, which `Snapshots` takes as one step.

Abstract specifications that would be worth stating beyond `Rotation` and `Replicas`: a counter that
exceeds its limit by a known amount (for `Shares`, the attempts of `Accounts` and `BatchLimit`), and
a cache that is a possibly old copy of its source (for `SystemCache` and the response cache).
