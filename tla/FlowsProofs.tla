---------------------------- MODULE FlowsProofs -----------------------------
(***************************************************************************)
(* Proofs about Flows: the type invariant, that the handlers of at most    *)
(* one load are in place, that no reload is forgotten, that overlapping    *)
(* loads never bring older flows back, and that the flows of a node are a  *)
(* replica of the stored ones (module Replicas).                           *)
(***************************************************************************)
EXTENDS Flows, TLAPS

Inv(n) == Lifecycle(n) /\ ReadsInOrder(n)

LEMMA TypeInit == Init => TypeOK
BY FlowsAssumption DEF Init, TypeOK, Load, NoLoad, Callers

LEMMA TypeNext == TypeOK /\ [Next]_vars => TypeOK'
<1> SUFFICES ASSUME TypeOK, [Next]_vars PROVE TypeOK'
  OBVIOUS
<1> USE FlowsAssumption DEF TypeOK
<1>1. CASE UNCHANGED vars
  BY <1>1 DEF vars, tables, process
<1>2. ASSUME NEW n \in Nodes, Write(n) PROVE TypeOK'
  BY <1>2 DEF Write, process
<1>3. ASSUME NEW n \in Nodes, Unlink(n) PROVE TypeOK'
  BY <1>3 DEF Unlink, process
<1>4. ASSUME NEW n \in Nodes, DeleteUnlinked(n) PROVE TypeOK'
  <2>1. CASE version' = version + 1 /\ unpublished' = [unpublished EXCEPT ![n] = unpublished[n] + 1] /\ UNCHANGED missed
    BY <1>4, <2>1 DEF DeleteUnlinked, process
  <2>2. CASE missed' = [m \in Nodes |-> TRUE] /\ UNCHANGED <<version, unpublished>>
    BY <1>4, <2>2 DEF DeleteUnlinked, process
  <2> QED BY <1>4, <2>1, <2>2 DEF DeleteUnlinked
<1>5. ASSUME NEW n \in Nodes, Publish(n) PROVE TypeOK'
  BY <1>5 DEF Publish, process
<1>6. ASSUME NEW n \in Nodes, Deliver(n) PROVE TypeOK'
  BY <1>6 DEF Deliver, tables
<1>7. ASSUME NEW n \in Nodes, Queue(n) PROVE TypeOK'
  <2>1. CASE QueueDrained(n) BY <2>1 DEF QueueDrained, tables
  <2>2. CASE Reload(n)
    BY <2>2 DEF Reload, tables, Load, Callers, NewLoad, NoLoad
  <2>3. CASE RefuseReload(n) BY <2>3 DEF RefuseReload, tables
  <2> QED BY <1>7, <2>1, <2>2, <2>3 DEF Queue
<1>8. ASSUME NEW n \in Nodes, Loading(n) PROVE TypeOK'
  <2>1. ASSUME NEW c \in Callers, ReadFlows(n, c) PROVE TypeOK'
    BY <2>1 DEF ReadFlows, tables, Load
  <2>2. ASSUME NEW c \in Callers, ReadOperations(n, c) PROVE TypeOK'
    BY <2>2 DEF ReadOperations, tables, Load
  <2>3. ASSUME NEW c \in Callers, Register(n, c) PROVE TypeOK'
    BY <2>3 DEF Register, tables, Load, NoLoad
  <2> QED BY <1>8, <2>1, <2>2, <2>3 DEF Loading
<1>9. ASSUME NEW n \in Nodes, Start(n) PROVE TypeOK'
  BY <1>9 DEF Start, tables, Load, Callers, NewLoad, NoLoad
<1>10. ASSUME NEW n \in Nodes, Stop(n) PROVE TypeOK'
  BY <1>10 DEF Stop, tables, Load, Callers, NoLoad
<1> QED
  BY <1>1, <1>2, <1>3, <1>4, <1>5, <1>6, <1>7, <1>8, <1>9, <1>10 DEF Next

(* Every variable keeps its type: no counter of messages, jobs or           *)
(* unpublished changes goes below zero.                                     *)
THEOREM TypeCorrect == Spec => []TypeOK
BY TypeInit, TypeNext, PTL DEF Spec

-----------------------------------------------------------------------------
(* Lifecycle and ReadsInOrder, action by action.                            *)

LEMMA InvInit == Init => \A n \in Nodes : Inv(n)
<1> SUFFICES ASSUME Init, NEW n \in Nodes PROVE Inv(n)
  OBVIOUS
<1>1. load[n]["job"].pc = "none" /\ load[n]["initialize"].pc = "none"
  BY DEF Init, NoLoad, Callers
<1>2. Lifecycle(n)
  BY <1>1 DEF Init, Lifecycle, Callers
<1>3. ReadsInOrder(n)
  BY <1>1 DEF Init, ReadsInOrder, Callers
<1> QED BY <1>2, <1>3 DEF Inv

LEMMA InvNext ==
    ASSUME TypeOK, \A n \in Nodes : Inv(n), [Next]_vars
    PROVE  \A n \in Nodes : Inv(n)'
<1> SUFFICES ASSUME NEW m \in Nodes PROVE Inv(m)'
  OBVIOUS
<1> USE DEF TypeOK, Inv, Lifecycle, ReadsInOrder
<1>1. CASE UNCHANGED vars
  BY <1>1 DEF vars, tables, process
<1>2. ASSUME NEW n \in Nodes, Write(n) PROVE Inv(m)'
  BY <1>2 DEF Write, process, Load, Callers
<1>3. ASSUME NEW n \in Nodes, Unlink(n) PROVE Inv(m)'
  BY <1>3 DEF Unlink, process, Load, Callers
<1>4. ASSUME NEW n \in Nodes, DeleteUnlinked(n) PROVE Inv(m)'
  BY <1>4 DEF DeleteUnlinked, process, Load, Callers
<1>5. ASSUME NEW n \in Nodes, Publish(n) PROVE Inv(m)'
  BY <1>5 DEF Publish, process, Load, Callers
<1>6. ASSUME NEW n \in Nodes, Deliver(n) PROVE Inv(m)'
  BY <1>6 DEF Deliver, tables, Load, Callers
<1>7. ASSUME NEW n \in Nodes, Queue(n) PROVE Inv(m)'
  <2>1. CASE QueueDrained(n) BY <2>1 DEF QueueDrained, tables, Load, Callers
  <2>2. CASE Reload(n)
    BY <2>2 DEF Reload, tables, Load, Callers, NewLoad, NoLoad
  <2>3. CASE RefuseReload(n) BY <2>3 DEF RefuseReload, tables, Load, Callers
  <2> QED BY <1>7, <2>1, <2>2, <2>3 DEF Queue
<1>8. ASSUME NEW n \in Nodes, Loading(n) PROVE Inv(m)'
  <2>1. ASSUME NEW c \in Callers, ReadFlows(n, c) PROVE Inv(m)'
    BY <2>1 DEF ReadFlows, tables, Load, Callers
  <2>2. ASSUME NEW c \in Callers, ReadOperations(n, c) PROVE Inv(m)'
    BY <2>2 DEF ReadOperations, tables, Load, Callers
  <2>3. ASSUME NEW c \in Callers, Register(n, c) PROVE Inv(m)'
    BY <2>3 DEF Register, tables, Load, NoLoad, Callers
  <2> QED BY <1>8, <2>1, <2>2, <2>3 DEF Loading
<1>9. ASSUME NEW n \in Nodes, Start(n) PROVE Inv(m)'
  BY <1>9 DEF Start, tables, Load, Callers, NewLoad, NoLoad
<1>10. ASSUME NEW n \in Nodes, Stop(n) PROVE Inv(m)'
  BY <1>10 DEF Stop, tables, Load, Callers, NoLoad
<1> QED
  BY <1>1, <1>2, <1>3, <1>4, <1>5, <1>6, <1>7, <1>8, <1>9, <1>10 DEF Next

(* The handlers of at most one load are in place on every node.             *)
LEMMA InvOneLoad ==
    ASSUME TypeOK, \A n \in Nodes : Inv(n)
    PROVE  OneLoad
<1> SUFFICES ASSUME NEW n \in Nodes
             PROVE  /\ handlers[n] = IF isLoaded[n] THEN 1 ELSE 0
                    /\ isLoaded[n] => \A c \in Callers : load[n][c].pc = "none"
                    /\ \A c, d \in Callers :
                        load[n][c].pc # "none" /\ load[n][d].pc # "none" => c = d
  BY DEF OneLoad
<1>1. Lifecycle(n) /\ up[n] \in {"down", "starting", "up"}
  BY DEF Inv, TypeOK
<1>2. handlers[n] = IF isLoaded[n] THEN 1 ELSE 0
  BY <1>1 DEF Lifecycle
<1>3. isLoaded[n] => load[n]["job"].pc = "none" /\ load[n]["initialize"].pc = "none"
  BY <1>1 DEF Lifecycle
<1>4. load[n]["job"].pc = "none" \/ load[n]["initialize"].pc = "none"
  BY <1>1 DEF Lifecycle, Callers
<1> QED BY <1>2, <1>3, <1>4 DEF Callers

-----------------------------------------------------------------------------
(* No reload is forgotten.                                                  *)

Covered(n) == Behind(n) => ReloadPending(n) \/ missed[n]

LEMMA CoveredNext ==
    ASSUME TypeOK, \A n \in Nodes : Inv(n), NoLostReload, [Next]_vars
    PROVE  NoLostReload'
<1> SUFFICES ASSUME NEW m \in Nodes PROVE Covered(m)'
  BY DEF NoLostReload, Covered
<1>0. Covered(m) /\ Lifecycle(m)
  BY DEF NoLostReload, Covered, Inv
<1> USE DEF TypeOK, Covered, Behind, ReloadPending, Lifecycle
<1>1. CASE UNCHANGED vars
  BY <1>0, <1>1 DEF vars, tables, process
<1>2. ASSUME NEW n \in Nodes, Write(n) PROVE Covered(m)'
  BY <1>0, <1>2 DEF Write, process
<1>3. ASSUME NEW n \in Nodes, Unlink(n) PROVE Covered(m)'
  BY <1>0, <1>3 DEF Unlink, process
<1>4. ASSUME NEW n \in Nodes, DeleteUnlinked(n) PROVE Covered(m)'
  <2>1. CASE unpublished' = [unpublished EXCEPT ![n] = unpublished[n] + 1]
    BY <1>0, <1>4, <2>1 DEF DeleteUnlinked, process
  <2>2. CASE missed' = [k \in Nodes |-> TRUE]
    BY <1>0, <1>4, <2>2 DEF DeleteUnlinked, process
  <2> QED BY <1>4, <2>1, <2>2 DEF DeleteUnlinked
<1>5. ASSUME NEW n \in Nodes, Publish(n) PROVE Covered(m)'
  <2>1. PICK early \in SUBSET {k \in Nodes : up[k] = "starting"} :
            /\ mail' = [k \in Nodes |->
                        IF up[k] = "down" \/ k \in early THEN mail[k] ELSE mail[k] + 1]
            /\ missed' = [k \in Nodes |-> missed[k] \/ k \in early]
    BY <1>5 DEF Publish
  <2>2. CASE m \in early
    BY <2>1, <2>2
  <2>3. CASE up[m] = "down"
    BY <1>0, <1>5, <2>3 DEF Publish, process
  <2>4. CASE m \notin early /\ up[m] # "down"
    <3>1. mail'[m] = mail[m] + 1
      BY <2>1, <2>4
    <3> QED BY <3>1
  <2> QED BY <2>2, <2>3, <2>4
<1>6. ASSUME NEW n \in Nodes, Deliver(n) PROVE Covered(m)'
  BY <1>0, <1>6 DEF Deliver, tables
<1>7. ASSUME NEW n \in Nodes, Queue(n) PROVE Covered(m)'
  <2>1. CASE QueueDrained(n) BY <1>0, <2>1 DEF QueueDrained, tables
  <2>2. CASE Reload(n)
    BY <1>0, <2>2 DEF Reload, tables, Load, Callers, NewLoad
  <2>3. CASE RefuseReload(n) BY <1>0, <2>3 DEF RefuseReload, tables
  <2> QED BY <1>7, <2>1, <2>2, <2>3 DEF Queue
<1>8. ASSUME NEW n \in Nodes, Loading(n) PROVE Covered(m)'
  <2>1. ASSUME NEW c \in Callers, ReadFlows(n, c) PROVE Covered(m)'
    BY <1>0, <2>1 DEF ReadFlows, tables, Load, Callers
  <2>2. ASSUME NEW c \in Callers, ReadOperations(n, c) PROVE Covered(m)'
    BY <1>0, <2>2 DEF ReadOperations, tables, Load, Callers
  <2>3. ASSUME NEW c \in Callers, Register(n, c) PROVE Covered(m)'
    BY <1>0, <2>3 DEF Register, tables, Load, NoLoad, Callers
  <2> QED BY <1>8, <2>1, <2>2, <2>3 DEF Loading
<1>9. ASSUME NEW n \in Nodes, Start(n) PROVE Covered(m)'
  BY <1>0, <1>9 DEF Start, tables, Load, Callers, NewLoad
<1>10. ASSUME NEW n \in Nodes, Stop(n) PROVE Covered(m)'
  BY <1>0, <1>10 DEF Stop, tables, Load, Callers, NoLoad
<1> QED
  BY <1>1, <1>2, <1>3, <1>4, <1>5, <1>6, <1>7, <1>8, <1>9, <1>10 DEF Next

LEMMA InductiveInvariant == Spec => []IInv
<1>1. Init => IInv
  <2> SUFFICES ASSUME Init PROVE IInv
    OBVIOUS
  <2>1. ASSUME NEW n \in Nodes PROVE ~Behind(n)
    BY DEF Init, Behind, NoLoad, Callers
  <2> QED BY TypeInit, InvInit, <2>1 DEF IInv, Inv, NoLostReload
<1>2. IInv /\ [Next]_vars => IInv'
  <2> SUFFICES ASSUME IInv, [Next]_vars PROVE IInv'
    OBVIOUS
  <2>1. TypeOK /\ (\A n \in Nodes : Inv(n)) /\ NoLostReload
    BY DEF IInv, Inv
  <2>2. TypeOK' BY <2>1, TypeNext
  <2>3. \A n \in Nodes : Inv(n)' BY <2>1, InvNext
  <2>4. NoLostReload' BY <2>1, CoveredNext
  <2> QED BY <2>2, <2>3, <2>4 DEF IInv, Inv
<1> QED BY <1>1, <1>2, PTL DEF Spec

(* A triggered flow runs once: loads do not overlap and never add up.       *)
THEOREM SingleLoad == Spec => []OneLoad
<1>1. IInv => OneLoad
  BY InvOneLoad DEF IInv, Inv
<1> QED BY <1>1, InductiveInvariant, PTL

(* A node that is behind has a reload coming, unless one was lost.          *)
THEOREM NoReloadForgotten == Spec => []NoLostReload
<1>1. IInv => NoLostReload
  BY DEF IInv
<1> QED BY <1>1, InductiveInvariant, PTL

-----------------------------------------------------------------------------
(* Older flows never replace newer ones.                                    *)

LEMMA SnapshotStep ==
    ASSUME IInv, [Next]_vars, NEW n \in Nodes
    PROVE  /\ snapshot[n].flows <= snapshot'[n].flows /\ snapshot'[n].flows <= version
           /\ snapshot[n].operations <= snapshot'[n].operations
           /\ snapshot[n].flows \in Nat /\ snapshot[n].operations \in Nat
           /\ snapshot'[n].flows \in Nat /\ snapshot'[n].operations \in Nat
<1> USE DEF IInv, TypeOK, ReadsInOrder
<1>1. CASE UNCHANGED snapshot
  BY <1>1
<1>2. ASSUME NEW k \in Nodes, NEW c \in Callers, Register(k, c)
      PROVE snapshot' = [snapshot EXCEPT ![k] =
                [flows |-> load[k][c].flows, operations |-> load[k][c].operations]]
            /\ load[k][c] \in Load
            /\ snapshot[k].flows <= load[k][c].flows /\ load[k][c].flows <= version
            /\ snapshot[k].operations <= load[k][c].operations
  BY <1>2 DEF Register
<1>3. ASSUME NEW k \in Nodes, NEW c \in Callers, Register(k, c)
      PROVE /\ snapshot[n].flows <= snapshot'[n].flows /\ snapshot'[n].flows <= version
            /\ snapshot[n].operations <= snapshot'[n].operations
            /\ snapshot[n].flows \in Nat /\ snapshot[n].operations \in Nat
            /\ snapshot'[n].flows \in Nat /\ snapshot'[n].operations \in Nat
  <2>1. CASE n = k
    BY <1>2, <1>3, <2>1 DEF Load
  <2>2. CASE n # k
    BY <1>2, <1>3, <2>2
  <2> QED BY <2>1, <2>2
<1>4. CASE Next
  BY <1>1, <1>3, <1>4 DEF Next, Write, Unlink, DeleteUnlinked, Publish, Deliver, Queue,
     QueueDrained, Reload, RefuseReload, Loading, ReadFlows, ReadOperations, Start, Stop, process
<1> QED BY <1>1, <1>4 DEF vars, process

(* No reload, whichever came first, replaces the flows or operations a node *)
(* works with by older ones.                                                *)
THEOREM Monotonic == Spec => NeverOlder
<1>1. IInv /\ [Next]_vars =>
        [\A n \in Nodes : /\ snapshot'[n].flows >= snapshot[n].flows
                          /\ snapshot'[n].operations >= snapshot[n].operations]_vars
  BY SnapshotStep
<1> QED BY <1>1, InductiveInvariant, PTL DEF Spec, NeverOlder

(* The versions of the flows the nodes work with behave like the replicas   *)
(* of module Replicas.                                                      *)
THEOREM ImplementsReplicas == Spec => ReplicaSpec
<1>1. Init => Replica!Init
  BY DEF Init, Replica!Init
<1>2. IInv /\ [Next]_vars => [Replica!Next]_(Replica!vars)
  <2> SUFFICES ASSUME IInv, [Next]_vars PROVE [Replica!Next]_(Replica!vars)
    OBVIOUS
  <2> DEFINE served == [n \in Nodes |-> snapshot[n].flows]
  <2>1. \/ version' = version + 1 /\ UNCHANGED snapshot
        \/ UNCHANGED <<version, snapshot>>
        \/ \E n \in Nodes, c \in Callers : Register(n, c)
    BY DEF Next, Write, Unlink, DeleteUnlinked, Publish, Deliver, Queue, QueueDrained,
       Reload, RefuseReload, Loading, ReadFlows, ReadOperations, Start, Stop, process,
       tables, vars
  <2>2. CASE version' = version + 1 /\ UNCHANGED snapshot
    BY <2>2 DEF Replica!Next, Replica!Write
  <2>3. CASE UNCHANGED <<version, snapshot>>
    BY <2>3 DEF Replica!vars
  <2>4. ASSUME NEW n \in Nodes, NEW c \in Callers, Register(n, c)
        PROVE  Replica!CatchUp(n)
    <3>1. UNCHANGED version
      BY <2>4 DEF Register, tables
    <3>2. snapshot'[n].flows \in served[n]..version
      BY SnapshotStep DEF IInv, TypeOK
    <3>3. snapshot' = [snapshot EXCEPT ![n] =
                [flows |-> load[n][c].flows, operations |-> load[n][c].operations]]
      BY <2>4 DEF Register
    <3>4. served' = [served EXCEPT ![n] = snapshot'[n].flows]
      BY <3>3 DEF IInv, TypeOK
    <3> QED BY <3>1, <3>2, <3>4 DEF Replica!CatchUp
  <2> QED BY <2>1, <2>2, <2>3, <2>4 DEF Replica!Next
<1> QED BY <1>1, <1>2, InductiveInvariant, PTL DEF Spec, ReplicaSpec, Replica!Spec
=============================================================================
