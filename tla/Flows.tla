------------------------------- MODULE Flows --------------------------------
(***************************************************************************)
(* How the flows stored in directus_flows and directus_operations get into *)
(* the memory of every node: FlowManager (flows.ts), the queue its reloads *)
(* go through (utils/job-queue.ts), the services that change the tables    *)
(* and publish the reloads (services/flows.ts, services/operations.ts) and *)
(* the messenger between the nodes.  The contents of the tables are        *)
(* abstracted to a version; a load reads the flows and the operations of   *)
(* these flows in two statements.                                          *)
(***************************************************************************)
EXTENDS Naturals

CONSTANTS Nodes,       (* the processes that share the database                 *)
          MaxVersion,  (* bound: how often the tables are changed               *)
          MaxCrashes   (* bound: how often a node stops                         *)

ASSUME FlowsAssumption == MaxVersion \in Nat /\ MaxCrashes \in Nat

VARIABLES version,      (* of the stored flows and operations                   *)
          unpublished,  (* node -> its changes whose reload is not published    *)
          unlinking,    (* node -> a delete of flows is between its statements  *)
          mail,         (* node -> reload messages on their way to it           *)
          up,           (* node -> life cycle of the process                    *)
          queue,        (* node -> the run() loop of its JobQueue               *)
          jobs,         (* node -> jobs waiting in its JobQueue                 *)
          load,         (* node -> its invocations of load() under way          *)
          isLoaded,     (* node -> FlowManager.isLoaded                         *)
          handlers,     (* node -> how many loads have their handlers in place  *)
          snapshot,     (* node -> the versions the newest handlers come from   *)
          missed,       (* history: a reload meant for the node was lost        *)
          crashes       (* how often a node stopped                             *)

tables == <<version, unpublished, unlinking>>
process == <<up, queue, jobs, load, isLoaded, handlers, snapshot>>
vars == <<tables, mail, process, missed, crashes>>

(* load() is called by initialize() and by the jobs of the queue.           *)
Callers == {"initialize", "job"}

(* A load is about to read the flows, to read their operations, or to       *)
(* register their handlers.                                                 *)
Load == [pc : {"none", "flows", "operations", "register"}, flows : Nat, operations : Nat]

NoLoad == [pc |-> "none", flows |-> 0, operations |-> 0]
NewLoad == [pc |-> "flows", flows |-> 0, operations |-> 0]

(* Messages, jobs and loads keep their types: their counters never go below *)
(* zero, whatever order enqueue(), run() and a stop come in.                *)
TypeOK ==
    /\ version \in Nat
    /\ unpublished \in [Nodes -> Nat]
    /\ unlinking \in [Nodes -> BOOLEAN]
    /\ mail \in [Nodes -> Nat]
    /\ up \in [Nodes -> {"down", "starting", "up"}]
    /\ queue \in [Nodes -> {"idle", "next", "busy"}]
    /\ jobs \in [Nodes -> Nat]
    /\ load \in [Nodes -> [Callers -> Load]]
    /\ isLoaded \in [Nodes -> BOOLEAN]
    /\ handlers \in [Nodes -> Nat]
    /\ snapshot \in [Nodes -> [flows : Nat, operations : Nat]]
    /\ missed \in [Nodes -> BOOLEAN]
    /\ crashes \in Nat

Init ==
    /\ version = 0
    /\ unpublished = [n \in Nodes |-> 0]
    /\ unlinking = [n \in Nodes |-> FALSE]
    /\ mail = [n \in Nodes |-> 0]
    /\ up = [n \in Nodes |-> "down"]
    /\ queue = [n \in Nodes |-> "idle"]
    /\ jobs = [n \in Nodes |-> 0]
    /\ load = [n \in Nodes |-> [c \in Callers |-> NoLoad]]
    /\ isLoaded = [n \in Nodes |-> FALSE]
    /\ handlers = [n \in Nodes |-> 0]
    /\ snapshot = [n \in Nodes |-> [flows |-> 0, operations |-> 0]]
    /\ missed = [n \in Nodes |-> FALSE]
    /\ crashes = 0

-----------------------------------------------------------------------------
(* Changing the tables.                                                     *)

(* FlowsService and OperationsService: the mutation of ItemsService commits *)
(* (a flow with its operations in one transaction); the reload follows it.  *)
Write(n) ==
    /\ up[n] = "up"
    /\ version < MaxVersion
    /\ version' = version + 1
    /\ unpublished' = [unpublished EXCEPT ![n] = unpublished[n] + 1]
    /\ UNCHANGED <<unlinking, mail, process, missed, crashes>>

(* FlowsService.deleteMany first clears resolve and reject of the flows'    *)
(* operations, outside the transaction of the delete ...                    *)
Unlink(n) ==
    /\ up[n] = "up"
    /\ ~unlinking[n]
    /\ version < MaxVersion
    /\ version' = version + 1
    /\ unlinking' = [unlinking EXCEPT ![n] = TRUE]
    /\ UNCHANGED <<unpublished, mail, process, missed, crashes>>

(* ... and then deletes, which may be refused (no access, a hook throws):   *)
(* the operations stay unlinked and no reload is published.                 *)
DeleteUnlinked(n) ==
    /\ unlinking[n]
    /\ unlinking' = [unlinking EXCEPT ![n] = FALSE]
    /\ \/ /\ version < MaxVersion
          /\ version' = version + 1
          /\ unpublished' = [unpublished EXCEPT ![n] = unpublished[n] + 1]
          /\ UNCHANGED missed
       \/ /\ missed' = [m \in Nodes |-> TRUE]
          /\ UNCHANGED <<version, unpublished>>
    /\ UNCHANGED <<mail, process, crashes>>

(* Mutation: the publisher reloads itself only. *)
PublishLocally(n) ==
    /\ unpublished[n] > 0
    /\ unpublished' = [unpublished EXCEPT ![n] = unpublished[n] - 1]
    /\ mail' = [mail EXCEPT ![n] = mail[n] + 1]
    /\ UNCHANGED <<version, unlinking, process, missed, crashes>>

(* FlowManager.reload: the message goes to every subscribed node, the       *)
(* publisher too.  A node that is starting may not have subscribed yet.     *)
Publish(n) ==
    /\ unpublished[n] > 0
    /\ unpublished' = [unpublished EXCEPT ![n] = unpublished[n] - 1]
    /\ \E early \in SUBSET {m \in Nodes : up[m] = "starting"} :
        /\ mail' = [m \in Nodes |->
                        IF up[m] = "down" \/ m \in early THEN mail[m] ELSE mail[m] + 1]
        /\ missed' = [m \in Nodes |-> missed[m] \/ m \in early]
    /\ UNCHANGED <<version, unlinking, process, crashes>>

-----------------------------------------------------------------------------
(* The queue of reloads.                                                    *)

(* Mutation: a reload that finds the queue busy is taken to be under way. *)
DeliverCoalesced(n) ==
    /\ mail[n] > 0
    /\ up[n] # "down"
    /\ mail' = [mail EXCEPT ![n] = mail[n] - 1]
    /\ IF queue[n] = "idle"
       THEN jobs' = [jobs EXCEPT ![n] = jobs[n] + 1] /\ queue' = [queue EXCEPT ![n] = "next"]
       ELSE UNCHANGED <<jobs, queue>>
    /\ UNCHANGED <<tables, up, load, isLoaded, handlers, snapshot, missed, crashes>>

(* Mutation: a message handled twice. *)
DeliverTwice(n) ==
    /\ mail[n] > 0
    /\ up[n] # "down"
    /\ mail' = [mail EXCEPT ![n] = mail[n] - 2]
    /\ jobs' = [jobs EXCEPT ![n] = jobs[n] + 2]
    /\ queue' = [queue EXCEPT ![n] = IF queue[n] = "idle" THEN "next" ELSE queue[n]]
    /\ UNCHANGED <<tables, up, load, isLoaded, handlers, snapshot, missed, crashes>>

(* A message arrives: enqueue.                                              *)
Deliver(n) ==
    /\ mail[n] > 0
    /\ up[n] # "down"
    /\ mail' = [mail EXCEPT ![n] = mail[n] - 1]
    /\ jobs' = [jobs EXCEPT ![n] = jobs[n] + 1]
    /\ queue' = [queue EXCEPT ![n] = IF queue[n] = "idle" THEN "next" ELSE queue[n]]
    /\ UNCHANGED <<tables, up, load, isLoaded, handlers, snapshot, missed, crashes>>

QueueDrained(n) ==
    /\ queue[n] = "next"
    /\ jobs[n] = 0
    /\ queue' = [queue EXCEPT ![n] = "idle"]
    /\ UNCHANGED <<tables, mail, up, jobs, load, isLoaded, handlers, snapshot, missed, crashes>>

(* Mutation: isLoaded is not consulted. *)
ReloadUnloaded(n) ==
    /\ queue[n] = "next"
    /\ jobs[n] > 0
    /\ jobs' = [jobs EXCEPT ![n] = jobs[n] - 1]
    /\ queue' = [queue EXCEPT ![n] = "busy"]
    /\ handlers' = [handlers EXCEPT ![n] = 0]
    /\ isLoaded' = [isLoaded EXCEPT ![n] = FALSE]
    /\ load' = [load EXCEPT ![n] = [load[n] EXCEPT !["job"] = NewLoad]]
    /\ UNCHANGED <<tables, mail, up, snapshot, missed, crashes>>

(* Mutation: unload() does not deregister the handlers. *)
ReloadKeepsHandlers(n) ==
    /\ queue[n] = "next"
    /\ jobs[n] > 0
    /\ isLoaded[n]
    /\ jobs' = [jobs EXCEPT ![n] = jobs[n] - 1]
    /\ queue' = [queue EXCEPT ![n] = "busy"]
    /\ isLoaded' = [isLoaded EXCEPT ![n] = FALSE]
    /\ load' = [load EXCEPT ![n] = [load[n] EXCEPT !["job"] = NewLoad]]
    /\ UNCHANGED <<tables, mail, up, handlers, snapshot, missed, crashes>>

(* A job of a loaded node: unload(), which never waits, and load().         *)
Reload(n) ==
    /\ queue[n] = "next"
    /\ jobs[n] > 0
    /\ isLoaded[n]
    /\ jobs' = [jobs EXCEPT ![n] = jobs[n] - 1]
    /\ queue' = [queue EXCEPT ![n] = "busy"]
    /\ handlers' = [handlers EXCEPT ![n] = 0]
    /\ isLoaded' = [isLoaded EXCEPT ![n] = FALSE]
    /\ load' = [load EXCEPT ![n] = [load[n] EXCEPT !["job"] = NewLoad]]
    /\ UNCHANGED <<tables, mail, up, snapshot, missed, crashes>>

(* "Flows have to be loaded before they can be reloaded"                    *)
RefuseReload(n) ==
    /\ queue[n] = "next"
    /\ jobs[n] > 0
    /\ ~isLoaded[n]
    /\ jobs' = [jobs EXCEPT ![n] = jobs[n] - 1]
    /\ missed' = [missed EXCEPT ![n] = TRUE]
    /\ UNCHANGED <<tables, mail, up, queue, load, isLoaded, handlers, snapshot, crashes>>

-----------------------------------------------------------------------------
(* load().                                                                  *)

ReadFlows(n, c) ==
    /\ load[n][c].pc = "flows"
    /\ load' = [load EXCEPT ![n] = [load[n] EXCEPT ![c] =
                    [pc |-> "operations", flows |-> version, operations |-> 0]]]
    /\ missed' = [missed EXCEPT ![n] = FALSE]
    /\ UNCHANGED <<tables, mail, up, queue, jobs, isLoaded, handlers, snapshot, crashes>>

ReadOperations(n, c) ==
    /\ load[n][c].pc = "operations"
    /\ load' = [load EXCEPT ![n] = [load[n] EXCEPT ![c] =
                    [pc |-> "register", flows |-> load[n][c].flows, operations |-> version]]]
    /\ UNCHANGED <<tables, mail, up, queue, jobs, isLoaded, handlers, snapshot, missed, crashes>>

(* Mutation: load() does not set isLoaded. *)
RegisterUnflagged(n, c) ==
    /\ load[n][c].pc = "register"
    /\ load' = [load EXCEPT ![n] = [load[n] EXCEPT ![c] = NoLoad]]
    /\ snapshot' = [snapshot EXCEPT ![n] =
                        [flows |-> load[n][c].flows, operations |-> load[n][c].operations]]
    /\ handlers' = [handlers EXCEPT ![n] = handlers[n] + 1]
    /\ up' = [up EXCEPT ![n] = "up"]
    /\ queue' = [queue EXCEPT ![n] = IF c = "job" THEN "next" ELSE queue[n]]
    /\ UNCHANGED <<tables, mail, jobs, isLoaded, missed, crashes>>

(* Every handler is registered without waiting; the caller goes on: run()   *)
(* with the next job, initialize() with starting the server.                *)
Register(n, c) ==
    /\ load[n][c].pc = "register"
    /\ load' = [load EXCEPT ![n] = [load[n] EXCEPT ![c] = NoLoad]]
    /\ snapshot' = [snapshot EXCEPT ![n] =
                        [flows |-> load[n][c].flows, operations |-> load[n][c].operations]]
    /\ handlers' = [handlers EXCEPT ![n] = handlers[n] + 1]
    /\ isLoaded' = [isLoaded EXCEPT ![n] = TRUE]
    /\ up' = [up EXCEPT ![n] = "up"]
    /\ queue' = [queue EXCEPT ![n] = IF c = "job" THEN "next" ELSE queue[n]]
    /\ UNCHANGED <<tables, mail, jobs, missed, crashes>>

-----------------------------------------------------------------------------
(* Processes start and stop.                                                *)

(* getFlowManager() subscribes, initialize() calls load().                  *)
Start(n) ==
    /\ up[n] = "down"
    /\ up' = [up EXCEPT ![n] = "starting"]
    /\ load' = [load EXCEPT ![n] = [load[n] EXCEPT !["initialize"] = NewLoad]]
    /\ UNCHANGED <<tables, mail, queue, jobs, isLoaded, handlers, snapshot, missed, crashes>>

(* A node is stopped, or load() rejects, which nobody catches: createApp    *)
(* fails while starting, and later Node ends on an unhandled rejection.     *)
(* The reloads the node had not published yet are lost for the others.      *)
Stop(n) ==
    /\ up[n] # "down"
    /\ crashes < MaxCrashes
    /\ crashes' = crashes + 1
    /\ up' = [up EXCEPT ![n] = "down"]
    /\ queue' = [queue EXCEPT ![n] = "idle"]
    /\ jobs' = [jobs EXCEPT ![n] = 0]
    /\ mail' = [mail EXCEPT ![n] = 0]
    /\ load' = [load EXCEPT ![n] = [c \in Callers |-> NoLoad]]
    /\ isLoaded' = [isLoaded EXCEPT ![n] = FALSE]
    /\ handlers' = [handlers EXCEPT ![n] = 0]
    /\ missed' = [m \in Nodes |-> missed[m] \/ unpublished[n] > 0 \/ unlinking[n]]
    /\ unpublished' = [unpublished EXCEPT ![n] = 0]
    /\ unlinking' = [unlinking EXCEPT ![n] = FALSE]
    /\ UNCHANGED <<version, snapshot>>

Loading(n) == \E c \in Callers : ReadFlows(n, c) \/ ReadOperations(n, c) \/ Register(n, c)

Queue(n) == QueueDrained(n) \/ Reload(n) \/ RefuseReload(n)

Next ==
    \E n \in Nodes :
        \/ Write(n) \/ Unlink(n) \/ DeleteUnlinked(n) \/ Publish(n)
        \/ Deliver(n) \/ Queue(n) \/ Loading(n)
        \/ Start(n) \/ Stop(n)

Spec == Init /\ [][Next]_vars

(* A process runs its continuations, statements are answered, messages      *)
(* arrive, and a supervisor starts a node that stopped.                     *)
FairSpec ==
    /\ Spec
    /\ \A n \in Nodes :
        /\ WF_vars(DeleteUnlinked(n)) /\ WF_vars(Publish(n)) /\ WF_vars(Deliver(n))
        /\ WF_vars(Queue(n)) /\ WF_vars(Loading(n)) /\ WF_vars(Start(n))

-----------------------------------------------------------------------------
(* Properties.                                                              *)

(* A triggered flow runs once: the handlers of at most one load are in      *)
(* place, and none while a load is under way, however reloads of several    *)
(* nodes and the load of a starting one come together.                      *)
OneLoad ==
    \A n \in Nodes :
        /\ handlers[n] = IF isLoaded[n] THEN 1 ELSE 0
        /\ isLoaded[n] => \A c \in Callers : load[n][c].pc = "none"
        /\ \A c, d \in Callers : load[n][c].pc # "none" /\ load[n][d].pc # "none" => c = d

(* Something will still make node n read the tables.                        *)
ReloadPending(n) ==
    \/ mail[n] > 0
    \/ jobs[n] > 0 /\ queue[n] = "next"
    \/ jobs[n] > 0 /\ queue[n] = "busy" /\ load[n]["job"].pc # "none"
    \/ \E c \in Callers : load[n][c].pc = "flows"
    \/ \E m \in Nodes : unpublished[m] > 0 \/ unlinking[m]

(* Node n works with, or is about to register, flows and operations that    *)
(* are not the stored ones.                                                 *)
Behind(n) ==
    \/ isLoaded[n] /\ snapshot[n] # [flows |-> version, operations |-> version]
    \/ \E c \in Callers : load[n][c].pc \in {"operations", "register"} /\ load[n][c].flows # version
    \/ \E c \in Callers : load[n][c].pc = "register" /\ load[n][c].operations # version

(* No change is forgotten: a node that is behind, or whose flows and        *)
(* operations come from different versions, has a reload coming, unless one *)
(* was lost with its publisher, refused while starting, or never sent       *)
(* because a delete failed half-way.                                        *)
NoLostReload == \A n \in Nodes : Behind(n) => ReloadPending(n) \/ missed[n]

(* Overlapping loads never put older flows back in place of newer ones.     *)
NeverOlder ==
    [][\A n \in Nodes : /\ snapshot'[n].flows >= snapshot[n].flows
                        /\ snapshot'[n].operations >= snapshot[n].operations]_vars

(* A node that is behind catches up, unless a reload of it was lost.        *)
CatchesUp ==
    \A n \in Nodes : [](Behind(n) => <>(~Behind(n) \/ missed[n]))

(* Handlers that a reload or a start took away come back.                   *)
LoadsAgain == \A n \in Nodes : []<>isLoaded[n]

(* The strengthening of OneLoad and NoLostReload that every step keeps.     *)

(* The life cycle of a process decides what can be under way in it.         *)
Lifecycle(n) ==
    /\ up[n] = "down" =>
        /\ queue[n] = "idle" /\ ~isLoaded[n] /\ unpublished[n] = 0 /\ ~unlinking[n]
        /\ \A c \in Callers : load[n][c].pc = "none"
    /\ up[n] = "starting" =>
        /\ load[n]["initialize"].pc # "none" /\ load[n]["job"].pc = "none"
        /\ ~isLoaded[n] /\ unpublished[n] = 0 /\ ~unlinking[n]
    /\ up[n] = "up" =>
        /\ load[n]["initialize"].pc = "none"
        /\ isLoaded[n] <=> load[n]["job"].pc = "none"
    /\ queue[n] = "busy" <=> load[n]["job"].pc # "none"
    /\ queue[n] = "idle" => jobs[n] = 0
    /\ handlers[n] = IF isLoaded[n] THEN 1 ELSE 0

(* What was read later is not older, and nothing is newer than the tables.  *)
ReadsInOrder(n) ==
    /\ snapshot[n].flows <= version /\ snapshot[n].operations <= version
    /\ \A c \in Callers :
        /\ load[n][c].pc \in {"operations", "register"} =>
            snapshot[n].flows <= load[n][c].flows /\ load[n][c].flows <= version
        /\ load[n][c].pc = "register" =>
            snapshot[n].operations <= load[n][c].operations /\ load[n][c].operations <= version

IInv == TypeOK /\ (\A n \in Nodes : Lifecycle(n) /\ ReadsInOrder(n)) /\ NoLostReload

Replica == INSTANCE Replicas WITH served <- [n \in Nodes |-> snapshot[n].flows]

(* The flows a node works with are a replica of the stored ones: always     *)
(* some stored version, and never an older one again.                       *)
ReplicaSpec == Replica!Spec
=============================================================================
