-------------------------- MODULE SystemCacheProofs --------------------------
(* Theorems about SystemCache, for any nodes, requests and changes.         *)
EXTENDS SystemCache, TLAPS

(* A request's record after a step that moves it on.                        *)
LEMMA GotoType ==
    ASSUME req \in [Reqs -> Request], NEW r \in Reqs, NEW step \in Steps, Goto(r, step)
    PROVE  req' \in [Reqs -> Request]
<1>1. req[r] \in Request
  OBVIOUS
<1>2. [req[r] EXCEPT !.pc = step] \in Request
  BY <1>1 DEF Request
<1> QED BY <1>2 DEF Goto

LEMMA IdleType == Idle \in Request /\ Over \in Request /\ Empty \in Cached /\ Current \in Cached
BY DEF Idle, Over, Empty, Current, Cached, Value, Request, Steps, Operations

LEMMA DoneType ==
    ASSUME req \in [Reqs -> Request], NEW r \in Reqs, Done(r)
    PROVE  req' \in [Reqs -> Request]
BY IdleType DEF Done

LEMMA BeginType ==
    ASSUME TypeOK, NEW r \in Reqs, NEW n \in Nodes, NEW op, NEW step \in Steps, Begin(r, op, n, step)
    PROVE  req' \in [Reqs -> Request]
<1>1. op \in Operations /\ Empty.value \in Value
  BY SystemCacheAssumption DEF Begin, Empty, Value
<1>2. [op |-> op, node |-> n, pc |-> step, value |-> Empty.value] \in Request
  BY <1>1 DEF Request
<1> QED BY <1>2 DEF Begin, TypeOK

LEMMA OutdateType ==
    ASSUME req \in [Reqs -> Request], NEW R
    PROVE  Outdate(R) \in [Reqs -> Request]
<1> SUFFICES ASSUME NEW q \in Reqs
             PROVE  [req[q] EXCEPT !.value = [version |-> req[q].value.version, late |-> TRUE]] \in Request
  BY DEF Outdate
<1>1. req[q] \in Request /\ req[q].value \in Value
  BY DEF Request
<1>2. [version |-> req[q].value.version, late |-> TRUE] \in Value
  BY <1>1 DEF Value
<1> QED BY <1>1, <1>2 DEF Request

LEMMA CommitType ==
    ASSUME TypeOK, NEW D, Commit(D)
    PROVE  /\ version' \in [Data -> Nat]
           /\ \A d \in Data : d \notin D => version'[d] = version[d]
BY DEF Commit, TypeOK

LEMMA TypeInit == Init => TypeOK
<1> SUFFICES ASSUME Init PROVE TypeOK
  OBVIOUS
<1>1. local \in [Nodes -> Cached] /\ entry \in Cached /\ req \in [Reqs -> Request]
  <2> HIDE DEF Init
  <2>1. local \in [Nodes -> {Empty, Current}] /\ entry \in {Empty, Current}
    BY DEF Init
  <2>2. req = [r \in Reqs |-> Idle]
    BY DEF Init
  <2> QED BY <2>1, <2>2, IdleType
<1>2. version \in [Data -> Nat]
  <2>1. version = [d \in Data |-> 0]
    BY DEF Init
  <2> QED BY <2>1
<1>3. shared \in Nat \cup {None}
  <2>1. shared \in {0, None}
    BY DEF Init
  <2> QED BY <2>1
<1> QED BY <1>1, <1>2, <1>3 DEF Init, TypeOK

LEMMA TypeNext == TypeOK /\ [Next]_vars => TypeOK'
<1> SUFFICES ASSUME TypeOK, [Next]_vars PROVE TypeOK'
  OBVIOUS
<1>1. CASE UNCHANGED vars
  BY <1>1 DEF vars, TypeOK
<1>2. ASSUME NEW r \in Reqs, Read(r) PROVE TypeOK'
  <2>1. ASSUME NEW n \in Nodes, PermissionsMiss(r, n) \/ SchemaMiss(r, n) PROVE TypeOK'
    <3>1. req' \in [Reqs -> Request]
      BY <2>1, BeginType DEF PermissionsMiss, SchemaMiss, Steps
    <3> QED BY <2>1, <3>1 DEF PermissionsMiss, SchemaMiss, TypeOK
  <2>2. CASE Query(r)
    <3> DEFINE d == IF req[r].op = "getPermissions" THEN "permissions" ELSE "schema"
               y == [req[r] EXCEPT !.pc = IF d = "permissions" THEN "check" ELSE "share",
                                   !.value = [version |-> version[d], late |-> FALSE]]
    <3>1. req[r] \in Request /\ version[d] \in Nat
      BY DEF TypeOK, Data
    <3>2. [version |-> version[d], late |-> FALSE] \in Value
      BY <3>1 DEF Value
    <3>3. y \in Request
      BY <3>1, <3>2 DEF Request, Steps
    <3>4. req' = [req EXCEPT ![r] = y]
      BY <2>2 DEF Query
    <3> QED BY <2>2, <3>3, <3>4 DEF Query, TypeOK
  <2>3. CASE CheckLock(r)
    <3>1. req' \in [Reqs -> Request]
      BY <2>3, GotoType, DoneType DEF CheckLock, TypeOK, Steps
    <3> QED BY <2>3, <3>1 DEF CheckLock, TypeOK
  <2>4. req[r].value \in Value /\ Full(r) \in Cached
    BY DEF TypeOK, Request, Full, Cached
  <2>5. CASE SetEntry(r)
    <3>1. req' \in [Reqs -> Request]
      BY <2>5, DoneType DEF SetEntry, TypeOK
    <3> QED BY <2>4, <2>5, <3>1 DEF SetEntry, TypeOK
  <2>6. CASE ShareHash(r)
    <3>1. req' \in [Reqs -> Request]
      BY <2>6, GotoType DEF ShareHash, TypeOK, Steps
    <3> QED BY <2>4, <2>6, <3>1 DEF ShareHash, TypeOK, Value
  <2>7. CASE KeepSchema(r)
    <3>1. req' \in [Reqs -> Request]
      BY <2>7, DoneType DEF KeepSchema, TypeOK
    <3>2. local' \in [Nodes -> Cached]
      BY <2>4, <2>7 DEF KeepSchema, TypeOK
    <3> QED BY <2>7, <3>1, <3>2 DEF KeepSchema, TypeOK
  <2> QED BY <1>2, <2>1, <2>2, <2>3, <2>5, <2>6, <2>7 DEF Read
<1>3. ASSUME NEW r \in Reqs, Change(r) PROVE TypeOK'
  <2>1. ASSUME NEW n \in Nodes, ChangePermissions(r, n) PROVE TypeOK'
    <3>1. req' \in [Reqs -> Request] /\ version' \in [Data -> Nat]
      BY <2>1, BeginType, CommitType DEF ChangePermissions, Steps
    <3> QED BY <2>1, <3>1 DEF ChangePermissions, TypeOK
  <2>2. ASSUME NEW n \in Nodes, ChangeSchema(r, n) PROVE TypeOK'
    <3>1. req' \in [Reqs -> Request] /\ version' \in [Data -> Nat]
      BY <2>2, BeginType, CommitType DEF ChangeSchema, Steps
    <3> QED BY <2>2, <3>1 DEF ChangeSchema, TypeOK
  <2>3. ASSUME NEW n \in Nodes, DeleteRole(r, n) PROVE TypeOK'
    <3>1. req' \in [Reqs -> Request]
      BY <2>3, BeginType DEF DeleteRole, Steps
    <3> QED BY <2>3, <3>1 DEF DeleteRole, TypeOK
  <2>4. ASSUME NEW n \in Nodes, Flush(r, n) PROVE TypeOK'
    <3>1. [version |-> version["schema"], late |-> FALSE] \in Value
      BY DEF TypeOK, Data, Value
    <3>2. [op |-> "flush", node |-> n, pc |-> "lock",
           value |-> [version |-> version["schema"], late |-> FALSE]] \in Request
      BY <3>1 DEF Request, Steps, Operations
    <3>3. req' \in [Reqs -> Request]
      BY <2>4, <3>2 DEF Flush, BeginFlush, TypeOK
    <3> QED BY <2>4, <3>3 DEF Flush, TypeOK
  <2>5. CASE CommitRole(r)
    <3>1. req' \in [Reqs -> Request] /\ version' \in [Data -> Nat]
      BY <2>5, DoneType, CommitType DEF CommitRole, TypeOK
    <3> QED BY <2>5, <3>1 DEF CommitRole, TypeOK, Data
  <2> QED BY <1>3, <2>1, <2>2, <2>3, <2>4, <2>5 DEF Change
<1>4. ASSUME NEW r \in Reqs, Clear(r) PROVE TypeOK'
  <2>1. CASE Decide(r)
    <3>1. req' \in [Reqs -> Request]
      BY <2>1, GotoType DEF Decide, TypeOK, Steps
    <3> QED BY <2>1, <3>1 DEF Decide, TypeOK, Data
  <2>2. CASE SetLock(r)
    <3>1. req' \in [Reqs -> Request]
      BY <2>2, GotoType DEF SetLock, TypeOK, Steps
    <3> QED BY <2>2, <3>1 DEF SetLock, TypeOK
  <2>3. CASE ClearEntry(r)
    <3> DEFINE O == Outdate({q \in Reqs : req[q].pc \in {"check", "set"}})
               y == [req[r] EXCEPT !.pc = "unlock"]
    <3>1. O \in [Reqs -> Request]
      BY OutdateType DEF TypeOK
    <3>2. req[r] \in Request
      BY DEF TypeOK
    <3>3. y \in Request
      BY <3>2 DEF Request, Steps
    <3>4. req' = [O EXCEPT ![r] = y]
      BY <2>3 DEF ClearEntry
    <3> HIDE DEF O, y
    <3>5. req' \in [Reqs -> Request]
      BY <3>1, <3>3, <3>4
    <3> QED BY <2>3, <3>5, IdleType DEF ClearEntry, TypeOK
  <2>4. CASE Unlock(r)
    <3>1. req' \in [Reqs -> Request]
      BY <2>4, GotoType DEF Unlock, TypeOK, Steps
    <3> QED BY <2>4, <3>1 DEF Unlock, TypeOK
  <2>5. CASE ClearLocal(r)
    <3> DEFINE O == Outdate({q \in Reqs : req[q].node = req[r].node /\ req[q].pc \in {"share", "keep"}})
    <3>1. O \in [Reqs -> Request]
      BY OutdateType DEF TypeOK
    <3>2. req[r] \in Request
      BY DEF TypeOK
    <3>3. /\ [req[r] EXCEPT !.pc = "commit"] \in Request
          /\ [req[r] EXCEPT !.pc = "query", !.op = "getSchema"] \in Request
      BY <3>2 DEF Request, Steps, Operations
    <3>4. PICK y \in Request : req' = [O EXCEPT ![r] = y]
      BY <2>5, <3>3, IdleType DEF ClearLocal
    <3> HIDE DEF O
    <3>5. req' \in [Reqs -> Request]
      BY <3>1, <3>4
    <3>6. local' \in [Nodes -> Cached]
      BY <2>5, IdleType DEF ClearLocal, TypeOK
    <3> QED BY <2>5, <3>5, <3>6 DEF ClearLocal, TypeOK
  <2> QED BY <1>4, <2>1, <2>2, <2>3, <2>4, <2>5 DEF Clear
<1>5. ASSUME NEW r \in Reqs, Reject(r) PROVE TypeOK'
  <2>1. req' \in [Reqs -> Request]
    BY <1>5, DoneType DEF Reject, TypeOK
  <2> QED BY <1>5, <2>1 DEF Reject, TypeOK, Data
<1>6. CASE LockExpires
  BY <1>6 DEF LockExpires, TypeOK
<1>7. ASSUME NEW n \in Nodes, Crash(n) PROVE TypeOK'
  <2>1. req' \in [Reqs -> Request] /\ local' \in [Nodes -> Cached]
    BY <1>7, IdleType DEF Crash, TypeOK
  <2> QED BY <1>7, <2>1 DEF Crash, TypeOK, Data
<1> QED BY <1>1, <1>2, <1>3, <1>4, <1>5, <1>6, <1>7 DEF Next

(* Every variable keeps its type: the stores hold only what setSystemCache, *)
(* setSchemaCache and the clears put there.                                 *)
THEOREM TypeCorrect == Spec => []TypeOK
BY TypeInit, TypeNext, PTL DEF Spec

-----------------------------------------------------------------------------
(* The cached permissions.                                                  *)

Old(value, d) == value.version < version[d] => value.late

(* What is cached, or about to be, is current or late.                      *)
PermissionsGood ==
    /\ entry.full => Old(entry.value, "permissions")
    /\ \A q \in Reqs : req[q].pc \in {"check", "set"} => Old(req[q].value, "permissions")

PermissionsInv ==
    \/ "permissions" \in missed
    \/ \E r \in Reqs : Clearing(r)
    \/ PermissionsGood

(* Request r moves on and changes nothing the invariant speaks of.          *)
LEMMA PermissionsKept ==
    ASSUME TypeOK, PermissionsInv, NEW r \in Reqs, NEW y,
           req' = [req EXCEPT ![r] = y], entry' = entry,
           version'["permissions"] = version["permissions"],
           missed \cap {"permissions"} \subseteq missed',
           y.pc \in {"check", "set"} =>
               req[r].pc \in {"check", "set"} /\ y.value = req[r].value,
           Clearing(r) => y.pc \in {"decide", "lock", "clear"} \/ "permissions" \in missed'
    PROVE  PermissionsInv'
<1>1. req'[r] = y /\ \A q \in Reqs \ {r} : req'[q] = req[q]
  BY DEF TypeOK
<1>2. CASE "permissions" \in missed
  BY <1>2 DEF PermissionsInv
<1>3. ASSUME NEW q \in Reqs, Clearing(q) PROVE PermissionsInv'
  <2>1. CASE q = r
    BY <1>1, <1>3, <2>1 DEF PermissionsInv, Clearing
  <2>2. CASE q # r
    BY <1>1, <1>3, <2>2 DEF PermissionsInv, Clearing
  <2> QED BY <2>1, <2>2
<1>4. CASE PermissionsGood
  BY <1>1, <1>4 DEF PermissionsInv, PermissionsGood, Old
<1> QED BY <1>2, <1>3, <1>4 DEF PermissionsInv

LEMMA PermissionsNext == TypeOK /\ PermissionsInv /\ [Next]_vars => PermissionsInv'
<1> SUFFICES ASSUME TypeOK, PermissionsInv, [Next]_vars PROVE PermissionsInv'
  OBVIOUS
<1>0. \A r \in Reqs : req[r] \in Request
  BY DEF TypeOK
<1>1. CASE UNCHANGED vars
  BY <1>1 DEF vars, PermissionsInv, PermissionsGood, Old, Clearing
<1>2. ASSUME NEW r \in Reqs, Read(r) PROVE PermissionsInv'
  <2>1. ASSUME NEW n \in Nodes, PermissionsMiss(r, n) \/ SchemaMiss(r, n) PROVE PermissionsInv'
    <3>1. ASSUME NEW op, Begin(r, op, n, "query"), UNCHANGED <<entry, version, missed>>
          PROVE  PermissionsInv'
      <4> DEFINE y == [op |-> op, node |-> n, pc |-> "query", value |-> Empty.value]
      <4>1. req' = [req EXCEPT ![r] = y] /\ y.pc = "query" /\ req[r].pc = "idle"
        BY <3>1 DEF Begin
      <4> HIDE DEF y
      <4> QED BY <3>1, <4>1, PermissionsKept DEF Clearing
    <3> QED BY <2>1, <3>1 DEF PermissionsMiss, SchemaMiss
  <2>2. CASE Query(r)
    <3> DEFINE d == IF req[r].op = "getPermissions" THEN "permissions" ELSE "schema"
               y == [req[r] EXCEPT !.pc = IF d = "permissions" THEN "check" ELSE "share",
                                   !.value = [version |-> version[d], late |-> FALSE]]
    <3>1. /\ req' = [req EXCEPT ![r] = y] /\ req[r].pc = "query"
          /\ UNCHANGED <<entry, version, missed>>
      BY <2>2 DEF Query
    <3>2. CASE d = "permissions"
      <4>1. y.pc = "check" /\ y.value.version = version["permissions"]
        BY <1>0, <3>2 DEF Request
      <4>2. version["permissions"] \in Nat
        BY DEF TypeOK, Data
      <4> HIDE DEF d, y
      <4>3. req'[r] = y /\ \A q \in Reqs \ {r} : req'[q] = req[q]
        BY <3>1 DEF TypeOK
      <4>4. ASSUME PermissionsGood PROVE PermissionsGood'
        BY <3>1, <4>1, <4>2, <4>3, <4>4 DEF PermissionsGood, Old
      <4>5. ASSUME NEW q \in Reqs, Clearing(q) PROVE Clearing(q)'
        BY <3>1, <4>3, <4>5 DEF Clearing
      <4> QED BY <3>1, <4>4, <4>5 DEF PermissionsInv
    <3>3. CASE d # "permissions"
      <4>1. y.pc = "share"
        BY <1>0, <3>3 DEF Request
      <4> HIDE DEF d, y
      <4> QED BY <3>1, <4>1, PermissionsKept DEF Clearing
    <3> QED BY <3>2, <3>3
  <2>3. CASE CheckLock(r)
    <3>1. CASE lock
      BY <2>3, <3>1, PermissionsKept DEF CheckLock, Done, Over, Idle, Clearing
    <3>2. CASE ~lock
      <4> DEFINE y == [req[r] EXCEPT !.pc = "set"]
      <4>1. /\ req' = [req EXCEPT ![r] = y] /\ req[r].pc = "check"
            /\ UNCHANGED <<entry, version, missed>>
        BY <2>3, <3>2 DEF CheckLock, Goto
      <4>2. y.value = req[r].value
        BY <1>0 DEF Request
      <4> HIDE DEF y
      <4> QED BY <4>1, <4>2, PermissionsKept DEF Clearing
    <3> QED BY <3>1, <3>2
  <2>4. CASE SetEntry(r)
    <3>1. /\ req' = [req EXCEPT ![r] = Over] /\ req[r].pc = "set"
          /\ entry'.value = req[r].value /\ UNCHANGED <<version, missed>>
      BY <2>4 DEF SetEntry, Done, Full
    <3>2. Over.pc = "done"
      BY DEF Over, Idle
    <3>3. req'[r] = Over /\ \A q \in Reqs \ {r} : req'[q] = req[q]
      BY <3>1 DEF TypeOK
    <3>4. ASSUME PermissionsGood PROVE PermissionsGood'
      BY <3>1, <3>2, <3>3, <3>4 DEF PermissionsGood, Old
    <3>5. ASSUME NEW q \in Reqs, Clearing(q) PROVE Clearing(q)'
      BY <3>1, <3>3, <3>5 DEF Clearing
    <3> QED BY <3>1, <3>4, <3>5 DEF PermissionsInv
  <2>5. CASE ShareHash(r)
    <3> DEFINE y == [req[r] EXCEPT !.pc = "keep"]
    <3>1. /\ req' = [req EXCEPT ![r] = y] /\ req[r].pc = "share"
          /\ UNCHANGED <<entry, version, missed>>
      BY <2>5 DEF ShareHash, Goto
    <3>2. y.pc = "keep"
      BY <1>0 DEF Request
    <3> HIDE DEF y
    <3> QED BY <3>1, <3>2, PermissionsKept DEF Clearing
  <2>6. CASE KeepSchema(r)
    BY <2>6, PermissionsKept DEF KeepSchema, Done, Over, Idle, Clearing
  <2> QED BY <1>2, <2>1, <2>2, <2>3, <2>4, <2>5, <2>6 DEF Read
<1>3. ASSUME NEW r \in Reqs, Change(r) PROVE PermissionsInv'
  <2>1. ASSUME NEW n \in Nodes,
               ChangePermissions(r, n) \/ ChangeSchema(r, n) \/ DeleteRole(r, n) \/ Flush(r, n)
        PROVE  PermissionsInv'
    <3>1. req'[r].pc \in {"decide", "lock"}
      BY <2>1 DEF ChangePermissions, ChangeSchema, DeleteRole, Flush, Begin, BeginFlush, TypeOK
    <3> QED BY <3>1 DEF PermissionsInv, Clearing
  <2>2. CASE CommitRole(r)
    BY <2>2 DEF CommitRole, PermissionsInv
  <2> QED BY <1>3, <2>1, <2>2 DEF Change
<1>4. ASSUME NEW r \in Reqs, Clear(r) PROVE PermissionsInv'
  <2>1. CASE Decide(r)
    <3>1. CASE lock /\ \A q \in Reqs : req[q].pc # "clear"
      BY <2>1, <3>1 DEF Decide, PermissionsInv
    <3>2. ASSUME NEW q \in Reqs, req[q].pc = "clear" PROVE PermissionsInv'
      <4>1. q # r
        BY <2>1, <3>2 DEF Decide
      <4>2. req'[q] = req[q]
        BY <2>1, <4>1 DEF Decide, Goto, TypeOK
      <4> QED BY <3>2, <4>2 DEF PermissionsInv, Clearing
    <3>3. CASE ~lock
      <4>1. req'[r].pc = "lock"
        BY <1>0, <2>1, <3>3 DEF Decide, Goto, TypeOK, Request
      <4> QED BY <4>1 DEF PermissionsInv, Clearing
    <3> QED BY <3>1, <3>2, <3>3
  <2>2. CASE SetLock(r)
    <3>1. req'[r].pc = "clear"
      BY <1>0, <2>2 DEF SetLock, Goto, TypeOK, Request
    <3> QED BY <3>1 DEF PermissionsInv, Clearing
  <2>3. CASE ClearEntry(r)
    <3> DEFINE R == {q \in Reqs : req[q].pc \in {"check", "set"}}
               y == [req[r] EXCEPT !.pc = "unlock"]
    <3>1. req' = [Outdate(R) EXCEPT ![r] = y] /\ entry' = Empty
      BY <2>3 DEF ClearEntry
    <3>2. y.pc = "unlock"
      BY <1>0 DEF Request
    <3>3. ASSUME NEW q \in Reqs, req'[q].pc \in {"check", "set"} PROVE req'[q].value.late
      <4>1. CASE q = r
        <5> HIDE DEF y
        <5>1. req'[r] = y
          BY <3>1 DEF Outdate
        <5> QED BY <3>2, <3>3, <4>1, <5>1
      <4>2. CASE q # r
        <5> HIDE DEF y
        <5>1. req'[q] = Outdate(R)[q]
          BY <3>1, <4>2 DEF Outdate
        <5>2. CASE q \in R
          <6> HIDE DEF R
          <6>1. req'[q] = [req[q] EXCEPT !.value = [version |-> req[q].value.version, late |-> TRUE]]
            BY <5>1, <5>2 DEF Outdate
          <6> QED BY <1>0, <6>1 DEF Request
        <5>3. CASE q \notin R
          BY <3>3, <5>1, <5>3 DEF Outdate
        <5> QED BY <5>2, <5>3
      <4> QED BY <4>1, <4>2
    <3>4. ~entry'.full
      BY <3>1 DEF Empty
    <3> QED BY <3>3, <3>4 DEF PermissionsInv, PermissionsGood, Old
  <2>4. CASE Unlock(r)
    <3> DEFINE y == [req[r] EXCEPT !.pc = "local"]
    <3>1. /\ req' = [req EXCEPT ![r] = y] /\ req[r].pc = "unlock"
          /\ UNCHANGED <<entry, version, missed>>
      BY <2>4 DEF Unlock, Goto
    <3>2. y.pc = "local"
      BY <1>0 DEF Request
    <3> HIDE DEF y
    <3> QED BY <3>1, <3>2, PermissionsKept DEF Clearing
  <2>5. CASE ClearLocal(r)
    <3> DEFINE R == {q \in Reqs : req[q].node = req[r].node /\ req[q].pc \in {"share", "keep"}}
    <3>1. req[r].pc = "local" /\ UNCHANGED <<entry, version>> /\ missed \cap {"permissions"} \subseteq missed'
      BY <2>5 DEF ClearLocal
    <3>2. PICK y : req' = [Outdate(R) EXCEPT ![r] = y] /\ y.pc \in {"commit", "query", "done"}
      <4>1. \E y \in {[req[r] EXCEPT !.pc = "commit"], Over,
                      [req[r] EXCEPT !.pc = "query", !.op = "getSchema"]} :
                req' = [Outdate(R) EXCEPT ![r] = y]
        BY <2>5 DEF ClearLocal
      <4>2. \A y \in {[req[r] EXCEPT !.pc = "commit"], Over,
                      [req[r] EXCEPT !.pc = "query", !.op = "getSchema"]} :
                y.pc \in {"commit", "query", "done"}
        BY <1>0 DEF Request, Over, Idle
      <4> QED BY <4>1, <4>2
    <3>3. req'[r] = y
      BY <3>2 DEF Outdate
    <3>4. ASSUME NEW q \in Reqs, q # r
          PROVE  /\ req'[q].pc = req[q].pc
                 /\ req[q].pc \in {"check", "set"} => req'[q] = req[q]
      <4>1. req'[q] = Outdate(R)[q]
        BY <3>2, <3>4 DEF Outdate
      <4>2. CASE q \in R
        <5>1. req[q].pc \in {"share", "keep"}
          BY <4>2
        <5> HIDE DEF R
        <5>2. req'[q] = [req[q] EXCEPT !.value = [version |-> req[q].value.version, late |-> TRUE]]
          BY <4>1, <4>2 DEF Outdate
        <5> QED BY <1>0, <5>1, <5>2 DEF Request
      <4>3. CASE q \notin R
        BY <4>1, <4>3 DEF Outdate
      <4> QED BY <4>2, <4>3
    <3>5. ASSUME NEW q \in Reqs, Clearing(q) PROVE Clearing(q)'
      BY <3>1, <3>4, <3>5 DEF Clearing
    <3>6. ASSUME PermissionsGood PROVE PermissionsGood'
      BY <3>1, <3>2, <3>3, <3>4, <3>6 DEF PermissionsGood, Old
    <3> QED BY <3>1, <3>5, <3>6 DEF PermissionsInv
  <2> QED BY <1>4, <2>1, <2>2, <2>3, <2>4, <2>5 DEF Clear
<1>5. ASSUME NEW r \in Reqs, Reject(r) PROVE PermissionsInv'
  <2>1. /\ req' = [req EXCEPT ![r] = Over] /\ entry' = entry /\ version' = version
        /\ missed \subseteq missed'
        /\ Clearing(r) => "permissions" \in missed'
    BY <1>5 DEF Reject, Done
  <2>2. Over.pc = "done"
    BY DEF Over, Idle
  <2>3. version'["permissions"] = version["permissions"] /\ missed \cap {"permissions"} \subseteq missed'
    BY <2>1
  <2>4. /\ Over.pc \in {"check", "set"} => req[r].pc \in {"check", "set"} /\ Over.value = req[r].value
        /\ Clearing(r) => Over.pc \in {"decide", "lock", "clear"} \/ "permissions" \in missed'
    BY <2>1, <2>2
  <2> QED BY <2>1, <2>3, <2>4, PermissionsKept
<1>6. CASE LockExpires
  BY <1>6 DEF LockExpires, PermissionsInv, PermissionsGood, Old, Clearing
<1>7. ASSUME NEW n \in Nodes, Crash(n) PROVE PermissionsInv'
  <2>1. CASE \E r \in Reqs : req[r].node = n /\ Clearing(r)
    BY <1>7, <2>1 DEF Crash, PermissionsInv
  <2>2. CASE ~\E r \in Reqs : req[r].node = n /\ Clearing(r)
    <3>1. missed' = missed /\ entry' = entry /\ version' = version
      BY <1>7, <2>2 DEF Crash
    <3>2. \A q \in Reqs : req'[q] = IF req[q].node = n THEN Over ELSE req[q]
      BY <1>7 DEF Crash
    <3>3. Over.pc = "done"
      BY DEF Over, Idle
    <3>4. ASSUME NEW q \in Reqs, Clearing(q) PROVE Clearing(q)'
      BY <2>2, <3>2, <3>4 DEF Clearing
    <3>5. ASSUME PermissionsGood PROVE PermissionsGood'
      BY <3>1, <3>2, <3>3, <3>5 DEF PermissionsGood, Old
    <3> QED BY <3>1, <3>4, <3>5 DEF PermissionsInv
  <2> QED BY <2>1, <2>2
<1> QED BY <1>1, <1>2, <1>3, <1>4, <1>5, <1>6, <1>7 DEF Next

LEMMA PermissionsInit == Init => PermissionsInv
BY DEF Init, PermissionsInv, PermissionsGood, Old, Empty, Current, Idle, Data

LEMMA PermissionsImplies == PermissionsInv => PermissionsFresh
BY DEF PermissionsInv, PermissionsGood, Old, PermissionsFresh

(* For any number of nodes and requests: the cached permissions are stale   *)
(* only while a clear is on its way, or when they were cached across one,   *)
(* or when the model recorded that no clear followed a change.              *)
THEOREM PermissionsCoherent == Spec => []PermissionsFresh
BY TypeInit, TypeNext, PermissionsInit, PermissionsNext, PermissionsImplies, PTL DEF Spec

-----------------------------------------------------------------------------
(* The schema.                                                              *)

(* What node n keeps of the schema, or is about to, is current or late.     *)
Fresh(n) ==
    /\ local[n].full => Old(local[n].value, "schema")
    /\ \A q \in Reqs : req[q].node = n /\ req[q].pc \in {"share", "keep"} => Old(req[q].value, "schema")

(* The node that has cleared its copy last is fresh.                        *)
SchemaInv ==
    \/ "schema" \in missed
    \/ \E r \in Reqs : SchemaDue(r)
    \/ \E n \in Nodes : Fresh(n)

(* Request r moves on and changes nothing the invariant speaks of.          *)
LEMMA SchemaKept ==
    ASSUME TypeOK, SchemaInv, NEW r \in Reqs, NEW y,
           req' = [req EXCEPT ![r] = y], local' = local,
           version'["schema"] = version["schema"],
           missed \cap {"schema"} \subseteq missed',
           y.pc \in {"share", "keep"} =>
               req[r].pc \in {"share", "keep"} /\ y.value = req[r].value /\ y.node = req[r].node,
           SchemaDue(r) =>
               \/ y.op = "changeSchema" /\ y.pc \in {"decide", "lock", "clear", "unlock", "local"}
               \/ "schema" \in missed'
    PROVE  SchemaInv'
<1>1. req'[r] = y /\ \A q \in Reqs \ {r} : req'[q] = req[q]
  BY DEF TypeOK
<1>2. CASE "schema" \in missed
  BY <1>2 DEF SchemaInv
<1>3. ASSUME NEW q \in Reqs, SchemaDue(q) PROVE SchemaInv'
  <2>1. CASE q = r
    BY <1>1, <1>3, <2>1 DEF SchemaInv, SchemaDue, Clearing
  <2>2. CASE q # r
    BY <1>1, <1>3, <2>2 DEF SchemaInv, SchemaDue, Clearing
  <2> QED BY <2>1, <2>2
<1>4. ASSUME NEW n \in Nodes, Fresh(n) PROVE Fresh(n)'
  BY <1>1, <1>4 DEF Fresh, Old
<1> QED BY <1>2, <1>3, <1>4 DEF SchemaInv

(* A request that is under way has a node.                                  *)
Placed == \A r \in Reqs : req[r].pc \notin {"idle", "done"} => req[r].node \in Nodes

LEMMA PlacedInit == Init => Placed
BY DEF Init, Placed, Idle

LEMMA PlacedKept ==
    ASSUME TypeOK, Placed, NEW r \in Reqs, NEW y, req' = [req EXCEPT ![r] = y],
           y.pc = "done" \/ y.node \in Nodes
    PROVE  Placed'
BY DEF TypeOK, Placed

LEMMA PlacedGoto ==
    ASSUME TypeOK, Placed, NEW r \in Reqs, NEW step, Goto(r, step), req[r].pc \notin {"idle", "done"}
    PROVE  Placed'
<1> DEFINE y == [req[r] EXCEPT !.pc = step]
<1>1. req[r] \in Request /\ req[r].node \in Nodes
  BY DEF Placed, TypeOK
<1>2. y.node \in Nodes
  BY <1>1 DEF Request
<1>3. req' = [req EXCEPT ![r] = y]
  BY DEF Goto
<1> HIDE DEF y
<1> QED BY <1>2, <1>3, PlacedKept

LEMMA PlacedDone ==
    ASSUME TypeOK, Placed, NEW r \in Reqs, Done(r)
    PROVE  Placed'
BY PlacedKept DEF Done, Over, Idle

LEMMA PlacedBegin ==
    ASSUME TypeOK, Placed, NEW r \in Reqs, NEW n \in Nodes, NEW op, NEW step, Begin(r, op, n, step)
    PROVE  Placed'
BY PlacedKept DEF Begin

LEMMA PlacedOutdate ==
    ASSUME TypeOK, Placed, NEW r \in Reqs, NEW R, NEW y, req' = [Outdate(R) EXCEPT ![r] = y],
           y.pc = "done" \/ y.node \in Nodes
    PROVE  Placed'
<1> SUFFICES ASSUME NEW q \in Reqs, req'[q].pc \notin {"idle", "done"} PROVE req'[q].node \in Nodes
  BY DEF Placed
<1>1. CASE q = r
  BY <1>1 DEF Outdate
<1>2. CASE q # r
  <2>1. req[q] \in Request
    BY DEF TypeOK
  <2>2. req'[q] = Outdate(R)[q]
    BY <1>2 DEF Outdate
  <2>3. CASE q \in R
    <3>1. req'[q] = [req[q] EXCEPT !.value = [version |-> req[q].value.version, late |-> TRUE]]
      BY <2>2, <2>3 DEF Outdate
    <3>2. req'[q].node = req[q].node /\ req'[q].pc = req[q].pc
      BY <2>1, <3>1 DEF Request
    <3> QED BY <3>2 DEF Placed
  <2>4. CASE q \notin R
    BY <2>2, <2>4 DEF Outdate, Placed
  <2> QED BY <2>3, <2>4
<1> QED BY <1>1, <1>2

LEMMA PlacedNext == TypeOK /\ Placed /\ [Next]_vars => Placed'
<1> SUFFICES ASSUME TypeOK, Placed, [Next]_vars PROVE Placed'
  OBVIOUS
<1>0. \A r \in Reqs : req[r] \in Request
  BY DEF TypeOK
<1>1. CASE UNCHANGED vars
  BY <1>1 DEF vars, Placed
<1>2. ASSUME NEW r \in Reqs, Read(r) PROVE Placed'
  <2>1. ASSUME NEW n \in Nodes, PermissionsMiss(r, n) \/ SchemaMiss(r, n) PROVE Placed'
    BY <2>1, PlacedBegin DEF PermissionsMiss, SchemaMiss
  <2>2. CASE Query(r)
    <3> DEFINE d == IF req[r].op = "getPermissions" THEN "permissions" ELSE "schema"
               y == [req[r] EXCEPT !.pc = IF d = "permissions" THEN "check" ELSE "share",
                                   !.value = [version |-> version[d], late |-> FALSE]]
    <3>1. req' = [req EXCEPT ![r] = y] /\ req[r].pc = "query"
      BY <2>2 DEF Query
    <3>2. y.node = req[r].node
      BY <1>0 DEF Request
    <3> HIDE DEF d, y
    <3> QED BY <3>1, <3>2, PlacedKept DEF Placed
  <2>3. CASE CheckLock(r) \/ SetEntry(r) \/ ShareHash(r) \/ KeepSchema(r)
    BY <2>3, PlacedGoto, PlacedDone DEF CheckLock, SetEntry, ShareHash, KeepSchema
  <2> QED BY <1>2, <2>1, <2>2, <2>3 DEF Read
<1>3. ASSUME NEW r \in Reqs, Change(r) PROVE Placed'
  <2>1. ASSUME NEW n \in Nodes, ChangePermissions(r, n) \/ ChangeSchema(r, n) \/ DeleteRole(r, n)
        PROVE  Placed'
    BY <2>1, PlacedBegin DEF ChangePermissions, ChangeSchema, DeleteRole
  <2>2. ASSUME NEW n \in Nodes, Flush(r, n) PROVE Placed'
    BY <2>2, PlacedKept DEF Flush, BeginFlush
  <2>3. CASE CommitRole(r)
    BY <2>3, PlacedDone DEF CommitRole
  <2> QED BY <1>3, <2>1, <2>2, <2>3 DEF Change
<1>4. ASSUME NEW r \in Reqs, Clear(r) PROVE Placed'
  <2>1. CASE Decide(r) \/ SetLock(r) \/ Unlock(r)
    BY <2>1, PlacedGoto DEF Decide, SetLock, Unlock
  <2>2. CASE ClearEntry(r)
    <3> DEFINE y == [req[r] EXCEPT !.pc = "unlock"]
    <3>1. y.node = req[r].node /\ req[r].node \in Nodes
      BY <1>0, <2>2 DEF ClearEntry, Request, Placed
    <3>2. \E R : req' = [Outdate(R) EXCEPT ![r] = y]
      BY <2>2 DEF ClearEntry
    <3> HIDE DEF y
    <3> QED BY <3>1, <3>2, PlacedOutdate
  <2>3. CASE ClearLocal(r)
    <3>1. req[r].pc = "local" /\ req[r].node \in Nodes
      BY <2>3 DEF ClearLocal, Placed
    <3>2. \A y \in {[req[r] EXCEPT !.pc = "commit"], Over,
                    [req[r] EXCEPT !.pc = "query", !.op = "getSchema"]} :
              y.pc = "done" \/ y.node \in Nodes
      BY <1>0, <3>1 DEF Request, Over, Idle
    <3>3. \E y \in {[req[r] EXCEPT !.pc = "commit"], Over,
                    [req[r] EXCEPT !.pc = "query", !.op = "getSchema"]} :
              \E R : req' = [Outdate(R) EXCEPT ![r] = y]
      BY <2>3 DEF ClearLocal
    <3> QED BY <3>2, <3>3, PlacedOutdate
  <2> QED BY <1>4, <2>1, <2>2, <2>3 DEF Clear
<1>5. ASSUME NEW r \in Reqs, Reject(r) PROVE Placed'
  BY <1>5, PlacedDone DEF Reject
<1>6. CASE LockExpires
  BY <1>6 DEF LockExpires, Placed
<1>7. ASSUME NEW n \in Nodes, Crash(n) PROVE Placed'
  BY <1>7 DEF Crash, Placed, Over, Idle
<1> QED BY <1>1, <1>2, <1>3, <1>4, <1>5, <1>6, <1>7 DEF Next

LEMMA SchemaNext == TypeOK /\ Placed /\ SchemaInv /\ [Next]_vars => SchemaInv'
<1> SUFFICES ASSUME TypeOK, Placed, SchemaInv, [Next]_vars PROVE SchemaInv'
  OBVIOUS
<1>0. \A r \in Reqs : req[r] \in Request
  BY DEF TypeOK
<1>1. CASE UNCHANGED vars
  BY <1>1 DEF vars, SchemaInv, Fresh, Old, SchemaDue, Clearing
<1>a. Over.pc = "done"
  BY DEF Over, Idle
<1>2. ASSUME NEW r \in Reqs, Read(r) PROVE SchemaInv'
  <2>1. ASSUME NEW n \in Nodes, PermissionsMiss(r, n) \/ SchemaMiss(r, n) PROVE SchemaInv'
    <3>1. ASSUME NEW op, Begin(r, op, n, "query"), UNCHANGED <<local, version, missed>>
          PROVE  SchemaInv'
      <4> DEFINE y == [op |-> op, node |-> n, pc |-> "query", value |-> Empty.value]
      <4>1. req' = [req EXCEPT ![r] = y] /\ y.pc = "query" /\ req[r].pc = "idle"
        BY <3>1 DEF Begin
      <4> HIDE DEF y
      <4> QED BY <3>1, <4>1, SchemaKept DEF SchemaDue, Clearing
    <3> QED BY <2>1, <3>1 DEF PermissionsMiss, SchemaMiss
  <2>2. CASE Query(r)
    <3> DEFINE d == IF req[r].op = "getPermissions" THEN "permissions" ELSE "schema"
               y == [req[r] EXCEPT !.pc = IF d = "permissions" THEN "check" ELSE "share",
                                   !.value = [version |-> version[d], late |-> FALSE]]
    <3>1. /\ req' = [req EXCEPT ![r] = y] /\ req[r].pc = "query"
          /\ UNCHANGED <<local, version, missed>>
      BY <2>2 DEF Query
    <3>2. CASE d # "permissions"
      <4>1. y.pc = "share" /\ y.value.version = version["schema"]
        BY <1>0, <3>2 DEF Request
      <4>2. version["schema"] \in Nat
        BY DEF TypeOK, Data
      <4> HIDE DEF d, y
      <4>3. req'[r] = y /\ \A q \in Reqs \ {r} : req'[q] = req[q]
        BY <3>1 DEF TypeOK
      <4>4. ASSUME NEW n \in Nodes, Fresh(n) PROVE Fresh(n)'
        BY <3>1, <4>1, <4>2, <4>3, <4>4 DEF Fresh, Old
      <4>5. ASSUME NEW q \in Reqs, SchemaDue(q) PROVE SchemaDue(q)'
        BY <3>1, <4>3, <4>5 DEF SchemaDue, Clearing
      <4> QED BY <3>1, <4>4, <4>5 DEF SchemaInv
    <3>3. CASE d = "permissions"
      <4>1. y.pc = "check"
        BY <1>0, <3>3 DEF Request
      <4> HIDE DEF d, y
      <4> QED BY <3>1, <4>1, SchemaKept DEF SchemaDue, Clearing
    <3> QED BY <3>2, <3>3
  <2>3. CASE CheckLock(r)
    <3>1. CASE lock
      <4>1. /\ req' = [req EXCEPT ![r] = Over] /\ req[r].pc = "check"
            /\ UNCHANGED <<local, version, missed>>
        BY <2>3, <3>1 DEF CheckLock, Done
      <4> QED BY <1>a, <4>1, SchemaKept DEF SchemaDue, Clearing
    <3>2. CASE ~lock
      <4> DEFINE y == [req[r] EXCEPT !.pc = "set"]
      <4>1. /\ req' = [req EXCEPT ![r] = y] /\ req[r].pc = "check"
            /\ UNCHANGED <<local, version, missed>>
        BY <2>3, <3>2 DEF CheckLock, Goto
      <4>2. y.pc = "set"
        BY <1>0 DEF Request
      <4> HIDE DEF y
      <4> QED BY <4>1, <4>2, SchemaKept DEF SchemaDue, Clearing
    <3> QED BY <3>1, <3>2
  <2>4. CASE SetEntry(r)
    <3>1. /\ req' = [req EXCEPT ![r] = Over] /\ req[r].pc = "set"
          /\ UNCHANGED <<local, version, missed>>
      BY <2>4 DEF SetEntry, Done
    <3> QED BY <1>a, <3>1, SchemaKept DEF SchemaDue, Clearing
  <2>5. CASE ShareHash(r)
    <3> DEFINE y == [req[r] EXCEPT !.pc = "keep"]
    <3>1. /\ req' = [req EXCEPT ![r] = y] /\ req[r].pc = "share"
          /\ UNCHANGED <<local, version, missed>>
      BY <2>5 DEF ShareHash, Goto
    <3>2. y.pc = "keep" /\ y.value = req[r].value /\ y.node = req[r].node
      BY <1>0 DEF Request
    <3> HIDE DEF y
    <3> QED BY <3>1, <3>2, SchemaKept DEF SchemaDue, Clearing
  <2>6. CASE KeepSchema(r)
    <3>1. /\ req' = [req EXCEPT ![r] = Over] /\ req[r].pc = "keep"
          /\ local' = [local EXCEPT ![req[r].node] = Full(r)] /\ UNCHANGED <<version, missed>>
      BY <2>6 DEF KeepSchema, Done
    <3>2. req'[r] = Over /\ \A q \in Reqs \ {r} : req'[q] = req[q]
      BY <3>1 DEF TypeOK
    <3>3. ASSUME NEW n \in Nodes, Fresh(n) PROVE Fresh(n)'
      <4>1. CASE req[r].node = n
        <5>1. local'[n].value = req[r].value
          BY <3>1, <4>1 DEF Full, TypeOK
        <5>2. Old(req[r].value, "schema")
          BY <3>1, <3>3, <4>1 DEF Fresh
        <5> QED BY <1>a, <3>1, <3>2, <3>3, <5>1, <5>2 DEF Fresh, Old
      <4>2. CASE req[r].node # n
        <5>1. local'[n] = local[n]
          BY <3>1, <4>2 DEF TypeOK
        <5> QED BY <1>a, <3>1, <3>2, <3>3, <5>1 DEF Fresh, Old
      <4> QED BY <4>1, <4>2
    <3>4. ASSUME NEW q \in Reqs, SchemaDue(q) PROVE SchemaDue(q)'
      BY <3>1, <3>2, <3>4 DEF SchemaDue, Clearing
    <3> QED BY <3>1, <3>3, <3>4 DEF SchemaInv
  <2> QED BY <1>2, <2>1, <2>2, <2>3, <2>4, <2>5, <2>6 DEF Read
<1>3. ASSUME NEW r \in Reqs, Change(r) PROVE SchemaInv'
  <2>1. ASSUME NEW n \in Nodes, ChangePermissions(r, n) PROVE SchemaInv'
    <3> DEFINE y == [op |-> "changePermissions", node |-> n, pc |-> "decide", value |-> Empty.value]
    <3>1. /\ req' = [req EXCEPT ![r] = y] /\ y.pc = "decide" /\ req[r].pc = "idle"
          /\ UNCHANGED <<local, missed>>
      BY <2>1 DEF ChangePermissions, Begin
    <3>2. version'["schema"] = version["schema"]
      BY <2>1, CommitType DEF ChangePermissions, Data
    <3> HIDE DEF y
    <3> QED BY <3>1, <3>2, SchemaKept DEF SchemaDue, Clearing
  <2>2. ASSUME NEW n \in Nodes, ChangeSchema(r, n) PROVE SchemaInv'
    <3>1. req'[r].pc = "decide" /\ req'[r].op = "changeSchema"
      BY <2>2 DEF ChangeSchema, Begin, TypeOK
    <3> QED BY <3>1 DEF SchemaInv, SchemaDue, Clearing
  <2>3. ASSUME NEW n \in Nodes, DeleteRole(r, n) PROVE SchemaInv'
    <3> DEFINE y == [op |-> "deleteRole", node |-> n, pc |-> "decide", value |-> Empty.value]
    <3>1. /\ req' = [req EXCEPT ![r] = y] /\ y.pc = "decide" /\ req[r].pc = "idle"
          /\ UNCHANGED <<version, local, missed>>
      BY <2>3 DEF DeleteRole, Begin
    <3> HIDE DEF y
    <3> QED BY <3>1, SchemaKept DEF SchemaDue, Clearing
  <2>4. ASSUME NEW n \in Nodes, Flush(r, n) PROVE SchemaInv'
    <3> DEFINE y == [op |-> "flush", node |-> n, pc |-> "lock",
                     value |-> [version |-> version["schema"], late |-> FALSE]]
    <3>1. /\ req' = [req EXCEPT ![r] = y] /\ y.pc = "lock" /\ req[r].pc = "idle"
          /\ UNCHANGED <<version, local, missed>>
      BY <2>4 DEF Flush, BeginFlush
    <3> HIDE DEF y
    <3> QED BY <3>1, SchemaKept DEF SchemaDue, Clearing
  <2>5. CASE CommitRole(r)
    <3>1. /\ req' = [req EXCEPT ![r] = Over] /\ req[r].pc = "commit"
          /\ local' = local /\ missed \subseteq missed'
      BY <2>5 DEF CommitRole, Done
    <3>2. version'["schema"] = version["schema"]
      BY <2>5, CommitType DEF CommitRole, Data
    <3> QED BY <1>a, <3>1, <3>2, SchemaKept DEF SchemaDue, Clearing
  <2> QED BY <1>3, <2>1, <2>2, <2>3, <2>4, <2>5 DEF Change
<1>4. ASSUME NEW r \in Reqs, Clear(r) PROVE SchemaInv'
  <2>1. ASSUME NEW step \in {"lock", "clear", "unlock", "local"}, Goto(r, step),
               req[r].pc \in {"decide", "lock", "clear", "unlock"},
               local' = local, version' = version, missed \cap {"schema"} \subseteq missed'
        PROVE  SchemaInv'
    <3> DEFINE y == [req[r] EXCEPT !.pc = step]
    <3>1. y.pc = step /\ y.op = req[r].op
      BY <1>0 DEF Request
    <3>2. req' = [req EXCEPT ![r] = y]
      BY <2>1 DEF Goto
    <3> HIDE DEF y
    <3>3. SchemaDue(r) => y.op = "changeSchema"
      BY <3>1 DEF SchemaDue
    <3> QED BY <2>1, <3>1, <3>2, <3>3, SchemaKept
  <2>2. CASE Decide(r)
    BY <2>1, <2>2 DEF Decide
  <2>3. CASE SetLock(r)
    BY <2>1, <2>3 DEF SetLock
  <2>4. CASE Unlock(r)
    BY <2>1, <2>4 DEF Unlock
  <2>5. CASE ClearEntry(r)
    <3> DEFINE R == {q \in Reqs : req[q].pc \in {"check", "set"}}
               y == [req[r] EXCEPT !.pc = "unlock"]
    <3>1. /\ req' = [Outdate(R) EXCEPT ![r] = y] /\ req[r].pc = "clear"
          /\ UNCHANGED <<local, version>> /\ missed \cap {"schema"} \subseteq missed'
      BY <2>5 DEF ClearEntry
    <3>2. y.pc = "unlock" /\ y.op = req[r].op
      BY <1>0 DEF Request
    <3> HIDE DEF y
    <3>3. req'[r] = y
      BY <3>1 DEF Outdate
    <3>4. ASSUME NEW q \in Reqs, q # r
          PROVE  /\ req'[q].pc = req[q].pc /\ req'[q].op = req[q].op /\ req'[q].node = req[q].node
                 /\ req[q].pc \in {"share", "keep"} => req'[q].value = req[q].value
      <4>1. req'[q] = Outdate(R)[q]
        BY <3>1, <3>4 DEF Outdate
      <4>2. CASE q \in R
        <5>1. req[q].pc \in {"check", "set"}
          BY <4>2
        <5> HIDE DEF R
        <5>2. req'[q] = [req[q] EXCEPT !.value = [version |-> req[q].value.version, late |-> TRUE]]
          BY <4>1, <4>2 DEF Outdate
        <5> QED BY <1>0, <5>1, <5>2 DEF Request
      <4>3. CASE q \notin R
        BY <4>1, <4>3 DEF Outdate
      <4> QED BY <4>2, <4>3
    <3>5. ASSUME NEW q \in Reqs, SchemaDue(q) PROVE SchemaDue(q)'
      BY <3>2, <3>3, <3>4, <3>5 DEF SchemaDue, Clearing
    <3>6. ASSUME NEW n \in Nodes, Fresh(n) PROVE Fresh(n)'
      <4>1. local'[n].full => Old(local[n].value, "schema")'
        BY <3>1, <3>6 DEF Fresh, Old
      <4>2. ASSUME NEW q \in Reqs, req'[q].node = n, req'[q].pc \in {"share", "keep"}
            PROVE  Old(req[q].value, "schema")'
        <5>1. q # r
          BY <3>2, <3>3, <4>2
        <5>2. /\ req[q].node = n /\ req[q].pc \in {"share", "keep"}
              /\ req'[q].value = req[q].value
          BY <3>4, <4>2, <5>1
        <5> QED BY <3>1, <3>6, <5>2 DEF Fresh, Old
      <4> QED BY <4>1, <4>2 DEF Fresh
    <3> QED BY <3>1, <3>5, <3>6 DEF SchemaInv
  <2>6. CASE ClearLocal(r)
    <3>0. PICK m \in Nodes : m = req[r].node
      BY <2>6 DEF ClearLocal, Placed
    <3> DEFINE R == {q \in Reqs : req[q].node = req[r].node /\ req[q].pc \in {"share", "keep"}}
    <3>1. local' = [local EXCEPT ![m] = Empty] /\ req[r].pc = "local"
      BY <2>6, <3>0 DEF ClearLocal
    <3>2. PICK y : req' = [Outdate(R) EXCEPT ![r] = y] /\ y.pc \in {"commit", "query", "done"}
      <4>1. \E y \in {[req[r] EXCEPT !.pc = "commit"], Over,
                      [req[r] EXCEPT !.pc = "query", !.op = "getSchema"]} :
                req' = [Outdate(R) EXCEPT ![r] = y]
        BY <2>6 DEF ClearLocal
      <4>2. \A y \in {[req[r] EXCEPT !.pc = "commit"], Over,
                      [req[r] EXCEPT !.pc = "query", !.op = "getSchema"]} :
                y.pc \in {"commit", "query", "done"}
        BY <1>0, <1>a DEF Request
      <4> QED BY <4>1, <4>2
    <3>3. req'[r] = y
      BY <3>2 DEF Outdate
    <3>4. ASSUME NEW q \in Reqs, req'[q].node = m, req'[q].pc \in {"share", "keep"}
          PROVE  req'[q].value.late
      <4>1. q # r
        BY <3>2, <3>3, <3>4
      <4>2. req'[q] = Outdate(R)[q]
        BY <3>2, <4>1 DEF Outdate
      <4>3. q \in R
        <5> SUFFICES ASSUME q \notin R PROVE FALSE
          OBVIOUS
        <5>1. req'[q] = req[q]
          BY <4>2 DEF Outdate
        <5> QED BY <3>0, <3>4, <5>1
      <4> HIDE DEF R
      <4>4. req'[q] = [req[q] EXCEPT !.value = [version |-> req[q].value.version, late |-> TRUE]]
        BY <4>2, <4>3 DEF Outdate
      <4> QED BY <1>0, <4>4 DEF Request
    <3>5. ~local'[m].full
      BY <3>1 DEF Empty, TypeOK
    <3>6. Fresh(m)'
      BY <3>4, <3>5 DEF Fresh, Old
    <3> QED BY <3>6 DEF SchemaInv
  <2> QED BY <1>4, <2>2, <2>3, <2>4, <2>5, <2>6 DEF Clear
<1>5. ASSUME NEW r \in Reqs, Reject(r) PROVE SchemaInv'
  <2>1. /\ req' = [req EXCEPT ![r] = Over] /\ local' = local /\ version' = version
        /\ missed \subseteq missed'
        /\ SchemaDue(r) => "schema" \in missed'
    BY <1>5 DEF Reject, Done, SchemaDue
  <2>2. version'["schema"] = version["schema"] /\ missed \cap {"schema"} \subseteq missed'
    BY <2>1
  <2> QED BY <1>a, <2>1, <2>2, SchemaKept
<1>6. CASE LockExpires
  BY <1>6 DEF LockExpires, SchemaInv, Fresh, Old, SchemaDue, Clearing
<1>7. ASSUME NEW n \in Nodes, Crash(n) PROVE SchemaInv'
  <2>1. local' = [local EXCEPT ![n] = Empty]
    BY <1>7 DEF Crash
  <2>2. \A q \in Reqs : req'[q] = IF req[q].node = n THEN Over ELSE req[q]
    BY <1>7 DEF Crash
  <2>3. ~local'[n].full
    BY <2>1 DEF Empty, TypeOK
  <2>4. Over.node = None /\ None # n
    BY SystemCacheAssumption DEF Over, Idle
  <2>5. \A q \in Reqs : req'[q].node # n
    BY <2>2, <2>4
  <2>6. Fresh(n)'
    BY <2>3, <2>5 DEF Fresh
  <2> QED BY <2>6 DEF SchemaInv
<1> QED BY <1>1, <1>2, <1>3, <1>4, <1>5, <1>6, <1>7 DEF Next

LEMMA SchemaInit == Init => SchemaInv
<1> SUFFICES ASSUME Init PROVE SchemaInv
  OBVIOUS
<1>1. PICK n \in Nodes : TRUE
  BY SystemCacheAssumption
<1>2. local[n] \in {Empty, Current} /\ version["schema"] = 0
  BY DEF Init, Data
<1>3. \A q \in Reqs : req[q].pc = "idle"
  BY DEF Init, Idle
<1>4. Fresh(n)
  BY <1>2, <1>3 DEF Fresh, Old, Empty, Current
<1> QED BY <1>4 DEF SchemaInv

LEMMA SchemaImplies == SchemaInv => NotStuck
BY DEF SchemaInv, Fresh, Old, NotStuck, Stuck, Hit

(* For any number of nodes and requests: if every node finds an old schema  *)
(* valid, one of them kept it across its own clear, or a clear is on its    *)
(* way or was rejected.  The node that cleared its copy last is fresh.      *)
THEOREM SchemaRecovers == Spec => []NotStuck
BY TypeInit, TypeNext, PlacedInit, PlacedNext, SchemaInit, SchemaNext, SchemaImplies, PTL DEF Spec
=============================================================================
