------------------------------ MODULE Webhooks ------------------------------
(***************************************************************************)
(* How the webhooks stored in directus_webhooks become handlers of every   *)
(* node: init(), reload(), register() and unregister() of webhooks.ts, the *)
(* queue its reloads go through (utils/job-queue.ts), and the mutations    *)
(* that publish them (services/webhooks.ts).  The contents of the table    *)
(* are abstracted to a version.                                            *)
(***************************************************************************)
EXTENDS Naturals

CONSTANTS Nodes,       (* the processes that share the database                 *)
          MaxVersion,  (* bound: how often the table is changed                 *)
          MaxStarts    (* bound: how often a node starts                        *)

VARIABLES version,      (* of the stored webhooks                               *)
          unpublished,  (* node -> its changes whose reload is not published    *)
          mail,         (* node -> reload messages on their way to it           *)
          state,        (* node -> life cycle of the process                    *)
          reading,      (* node -> what its register() is about to do           *)
          read,         (* node -> the version its register() read              *)
          jobs,         (* node -> reloads waiting in its JobQueue              *)
          handlers,     (* node -> the versions it has handlers of              *)
          unannounced,  (* history: a change since the node's read that it is   *)
                        (* not told of                                          *)
          starts        (* how often a node started                             *)

process == <<state, reading, read, jobs, handlers>>
vars == <<version, unpublished, mail, process, unannounced, starts>>

(* The state of a node is that of init(): its first register(), from there  *)
(* to the subscription (which the store has to confirm), and from then on.  *)
(* A register() reads the schema, then the table, and then has its rows.    *)
TypeOK ==
    /\ version \in Nat
    /\ unpublished \in [Nodes -> Nat]
    /\ mail \in [Nodes -> Nat]
    /\ state \in [Nodes -> {"down", "registers", "subscribes", "up"}]
    /\ reading \in [Nodes -> {"none", "table", "rows"}]
    /\ read \in [Nodes -> Nat]
    /\ jobs \in [Nodes -> Nat]
    /\ handlers \in [Nodes -> SUBSET Nat]
    /\ unannounced \in [Nodes -> BOOLEAN]
    /\ starts \in Nat

Init ==
    /\ version = 0
    /\ unpublished = [n \in Nodes |-> 0]
    /\ mail = [n \in Nodes |-> 0]
    /\ state = [n \in Nodes |-> "down"]
    /\ reading = [n \in Nodes |-> "none"]
    /\ read = [n \in Nodes |-> 0]
    /\ jobs = [n \in Nodes |-> 0]
    /\ handlers = [n \in Nodes |-> {}]
    /\ unannounced = [n \in Nodes |-> FALSE]
    /\ starts = 0

-----------------------------------------------------------------------------
(* Changing the table.                                                      *)

(* createOne, createMany, updateMany and deleteMany of WebhooksService: the *)
(* mutation of ItemsService commits; the reload is published after it.      *)
Change(n) ==
    /\ state[n] = "up"
    /\ version < MaxVersion
    /\ version' = version + 1
    /\ unpublished' = [unpublished EXCEPT ![n] = @ + 1]
    /\ UNCHANGED <<mail, process, unannounced, starts>>

(* Mutation: the publisher takes its own reload for done. *)
PublishToOthers(n) ==
    /\ unpublished[n] > 0
    /\ unpublished' = [unpublished EXCEPT ![n] = @ - 1]
    /\ mail' = [m \in Nodes |-> IF state[m] = "up" /\ m # n THEN mail[m] + 1 ELSE mail[m]]
    /\ unannounced' = [m \in Nodes |-> unannounced[m] \/ state[m] \in {"registers", "subscribes"}]
    /\ UNCHANGED <<version, process, starts>>

(* The message reaches every subscribed node, the publisher too.            *)
Publish(n) ==
    /\ unpublished[n] > 0
    /\ unpublished' = [unpublished EXCEPT ![n] = @ - 1]
    /\ mail' = [m \in Nodes |-> IF state[m] = "up" THEN mail[m] + 1 ELSE mail[m]]
    /\ unannounced' = [m \in Nodes |-> unannounced[m] \/ state[m] \in {"registers", "subscribes"}]
    /\ UNCHANGED <<version, process, starts>>

(* The connection to the messenger is down: the message is lost.            *)
Lose(n) ==
    /\ mail[n] > 0
    /\ mail' = [mail EXCEPT ![n] = @ - 1]
    /\ unannounced' = [unannounced EXCEPT ![n] = TRUE]
    /\ UNCHANGED <<version, unpublished, process, starts>>

-----------------------------------------------------------------------------
(* The handlers of a node.                                                  *)

(* init() calls register() *)
Start(n) ==
    /\ state[n] = "down"
    /\ starts < MaxStarts
    /\ starts' = starts + 1
    /\ state' = [state EXCEPT ![n] = "registers"]
    /\ reading' = [reading EXCEPT ![n] = "table"]
    /\ UNCHANGED <<version, unpublished, mail, read, jobs, handlers, unannounced>>

(* Subscribed: from here on messages arrive *)
Subscribe(n) ==
    /\ state[n] = "subscribes"
    /\ state' = [state EXCEPT ![n] = "up"]
    /\ UNCHANGED <<version, unpublished, mail, reading, read, jobs, handlers, unannounced, starts>>

(* JobQueue: the jobs wait for the one that runs, which begins with         *)
(* unregister().                                                            *)
Deliver(n) ==
    /\ mail[n] > 0
    /\ mail' = [mail EXCEPT ![n] = @ - 1]
    /\ jobs' = [jobs EXCEPT ![n] = @ + 1]
    /\ UNCHANGED <<version, unpublished, state, reading, read, handlers, unannounced, starts>>

(* Mutation: the queue does not look whether a job waits. *)
UnregisterUnasked(n) ==
    /\ state[n] = "up"
    /\ reading[n] = "none"
    /\ jobs' = [jobs EXCEPT ![n] = @ - 1]
    /\ handlers' = [handlers EXCEPT ![n] = {}]
    /\ reading' = [reading EXCEPT ![n] = "table"]
    /\ UNCHANGED <<version, unpublished, mail, state, read, unannounced, starts>>

Unregister(n) ==
    /\ jobs[n] > 0
    /\ reading[n] = "none"
    /\ jobs' = [jobs EXCEPT ![n] = @ - 1]
    /\ handlers' = [handlers EXCEPT ![n] = {}]
    /\ reading' = [reading EXCEPT ![n] = "table"]
    /\ UNCHANGED <<version, unpublished, mail, state, read, unannounced, starts>>

(* readByQuery of the active webhooks; what was not announced before is     *)
(* read now *)
ReadTable(n) ==
    /\ reading[n] = "table"
    /\ read' = [read EXCEPT ![n] = version]
    /\ reading' = [reading EXCEPT ![n] = "rows"]
    /\ unannounced' = [unannounced EXCEPT ![n] = FALSE]
    /\ UNCHANGED <<version, unpublished, mail, state, jobs, handlers, starts>>

(* The handlers of all rows are registered without an await.                *)
Register(n) ==
    /\ reading[n] = "rows"
    /\ reading' = [reading EXCEPT ![n] = "none"]
    /\ handlers' = [handlers EXCEPT ![n] = @ \cup {read[n]}]
    /\ state' = [state EXCEPT ![n] = IF @ = "registers" THEN "subscribes" ELSE @]
    /\ UNCHANGED <<version, unpublished, mail, read, jobs, unannounced, starts>>

(* The process ends, for whatever reason: a failure in register() rejects a *)
(* promise that nobody handles.  Its unpublished changes are announced to   *)
(* nobody.                                                                  *)
Stop(n) ==
    /\ state[n] # "down"
    /\ state' = [state EXCEPT ![n] = "down"]
    /\ reading' = [reading EXCEPT ![n] = "none"]
    /\ read' = [read EXCEPT ![n] = 0]
    /\ jobs' = [jobs EXCEPT ![n] = 0]
    /\ mail' = [mail EXCEPT ![n] = 0]
    /\ handlers' = [handlers EXCEPT ![n] = {}]
    /\ unpublished' = [unpublished EXCEPT ![n] = 0]
    /\ unannounced' = [m \in Nodes |-> unannounced[m] \/ unpublished[n] > 0]
    /\ UNCHANGED <<version, starts>>

Next ==
    \E n \in Nodes :
        \/ Change(n) \/ Publish(n) \/ Lose(n)
        \/ Start(n) \/ Subscribe(n) \/ Stop(n)
        \/ Deliver(n) \/ Unregister(n) \/ ReadTable(n) \/ Register(n)

Spec == Init /\ [][Next]_vars

-----------------------------------------------------------------------------

(* A node has nothing to do and nothing is on its way to any.               *)
Quiet(n) ==
    /\ state[n] = "up" /\ reading[n] = "none" /\ jobs[n] = 0 /\ mail[n] = 0
    /\ \A m \in Nodes : unpublished[m] = 0

(* A node at rest calls each stored webhook, as it is stored and once: its  *)
(* handlers are those of one read, and that read is of the last version     *)
(* unless a change since was not announced to the node (it came between the *)
(* node's first read and its subscription, its message was lost, or its     *)
(* writer ended first).                                                     *)
HandlersCurrent ==
    \A n \in Nodes :
        Quiet(n) => /\ handlers[n] = {read[n]}
                    /\ read[n] # version => unannounced[n]
=============================================================================
