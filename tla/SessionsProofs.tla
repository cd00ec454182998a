--------------------------- MODULE SessionsProofs ---------------------------
(* Proofs about Sessions, for every number of tokens, owners and requests.  *)
EXTENDS Sessions, TLAPS

-----------------------------------------------------------------------------
LEMMA WithoutType ==
    ASSUME TypeOK, NEW D, sessions' = Without(D)
    PROVE  /\ DOMAIN sessions' \subseteq Tokens
           /\ sessions' \in [DOMAIN sessions' -> Row]
  BY DEF TypeOK, Without

LEMMA WithType ==
    ASSUME TypeOK, NEW t \in Tokens, NEW row \in Row, sessions' = With(t, row)
    PROVE  /\ DOMAIN sessions' \subseteq Tokens
           /\ sessions' \in [DOMAIN sessions' -> Row]
  BY DEF TypeOK, With

LEMMA StartType ==
    ASSUME TypeOK, NEW r \in Reqs, NEW t \in DOMAIN sessions,
           NEW step \in Steps, Start(r, step, t)
    PROVE  req' \in [Reqs -> Request]
  BY DEF TypeOK, Start, Row, Request, OrNone

LEMMA MoveType ==
    ASSUME TypeOK, NEW r \in Reqs,
           Done(r) \/ \E step \in Steps : Goto(r, step)
    PROVE  req' \in [Reqs -> Request]
  <1>1. Idle \in Request
    BY DEF Idle, Request, Steps, OrNone
  <1>2. CASE Done(r)
    BY <1>1, <1>2 DEF Done, TypeOK
  <1>3. CASE \E step \in Steps : Goto(r, step)
    BY <1>3 DEF Goto, TypeOK, Request
  <1> QED  BY <1>2, <1>3

-----------------------------------------------------------------------------
(* The inductive invariant.                                                 *)

LEMMA InitInv == Init => IInv
  <1> SUFFICES ASSUME Init PROVE IInv
    OBVIOUS
  <1> USE SessionsAssumption
  <1>0. /\ DOMAIN sessions \subseteq Tokens /\ drawn = DOMAIN sessions
        /\ sessions \in [DOMAIN sessions -> LegacyRow]
    <2>1. PICK L \in SUBSET Legacy : sessions \in [L -> LegacyRow]
      BY DEF Init
    <2>2. DOMAIN sessions = L
      BY <2>1
    <2> QED BY <2>1, <2>2 DEF Init
  <1>1. TypeOK
    <2>1. sessions \in [DOMAIN sessions -> Row]
      BY <1>0 DEF LegacyRow, Row, OrNone
    <2> QED BY <1>0, <2>1 DEF Init, TypeOK, Idle, Request, Steps, OrNone, Owners
  <1>2. RowsFollowSucc
    BY <1>0 DEF Init, LegacyRow, RowsFollowSucc, OrNone
  <1>3. ReadsAgree
    BY DEF Init, ReadsAgree, ReadAgrees, Idle, OrNone
  <1>4. PendingIsPrivate
    BY DEF Init, PendingIsPrivate, Private, Idle
  <1>5. SingleHead
    <2>1. \A s \in Tokens : Carriers(s) = {}
      BY <1>0 DEF Init, LegacyRow, Carriers, IsHead, IsPending, Idle
    <2> QED  BY <2>1 DEF SingleHead
  <1> QED  BY <1>1, <1>2, <1>3, <1>4, <1>5 DEF IInv

(* Every step keeps the types: the answers a refresh gives are tokens, even *)
(* the one a loser reads from the row somebody else rotated.                *)
LEMMA TypeStep == IInv /\ [Next]_vars => TypeOK'
  <1> SUFFICES ASSUME IInv, [Next]_vars
               PROVE  TypeOK'
    OBVIOUS
  <1> USE SessionsAssumption
  <1>0. TypeOK
    BY DEF IInv
  <1>r. ReadsAgree
    BY DEF IInv
  <1>p. PendingIsPrivate
    BY DEF IInv
  <1>a. Idle \in Request
    BY DEF Idle, Request, Steps, OrNone
  <1>1. ASSUME NEW r \in Reqs, NEW p \in Owners, LoginStart(r, p)
        PROVE  TypeOK'
    BY <1>0, <1>1 DEF TypeOK, LoginStart, Idle, Request, Steps, OrNone
  <1>2. ASSUME NEW r \in Reqs, LoginInsert(r)
        PROVE  TypeOK'
    <2>1. PICK t \in Tokens \ drawn :
            /\ sessions' = With(t, [owner |-> req[r].owner, expires |-> now + TTL,
                                    fallback |-> None, sid |-> t])
            /\ drawn' = drawn \cup {t}
      BY <1>2 DEF LoginInsert
    <2>2. [owner |-> req[r].owner, expires |-> now + TTL, fallback |-> None, sid |-> t] \in Row
      BY <1>0, <1>2, <1>r DEF LoginInsert, ReadsAgree, ReadAgrees, TypeOK, Row, OrNone
    <2>3. DOMAIN sessions' \subseteq Tokens /\ sessions' \in [DOMAIN sessions' -> Row]
      BY <1>0, <2>1, <2>2, WithType
    <2>4. req' \in [Reqs -> Request]
      BY <1>0, <1>2, MoveType DEF LoginInsert, Steps
    <2> QED  BY <1>0, <1>2, <2>1, <2>3, <2>4 DEF LoginInsert, TypeOK
  <1>3. ASSUME NEW r \in Reqs, LoginSweep(r)
        PROVE  TypeOK'
    BY <1>0, <1>3, <1>a DEF TypeOK, LoginSweep, Without, Done
  <1>4. ASSUME NEW r \in Reqs, NEW t \in Tokens, RefreshStart(r, t)
        PROVE  TypeOK'
    BY <1>0, <1>4 DEF TypeOK, RefreshStart, Start, Request, Row, Steps, OrNone
  <1>5. ASSUME NEW r \in Reqs, RefreshPurge(r)
        PROVE  TypeOK'
    BY <1>0, <1>5, <1>a DEF TypeOK, RefreshPurge, Without, Done
  <1>6. ASSUME NEW r \in Reqs, RefreshCleanUp(r)
        PROVE  TypeOK'
    BY <1>0, <1>6 DEF TypeOK, RefreshCleanUp, Without, Goto, Request, Steps
  <1>7. ASSUME NEW r \in Reqs, RefreshExtend(r)
        PROVE  TypeOK'
    <2>1. req[r].fallback \in Tokens
      BY <1>0, <1>7, <1>r DEF TypeOK, RefreshExtend, ReadsAgree, ReadAgrees, Request, OrNone
    <2>2. DOMAIN sessions' \subseteq Tokens /\ sessions' \in [DOMAIN sessions' -> Row]
      BY <1>0, <1>7 DEF TypeOK, RefreshExtend, Row
    <2>3. answers' \in [Tokens -> SUBSET Tokens]
      BY <1>0, <1>7, <2>1 DEF TypeOK, RefreshExtend, Return
    <2> QED  BY <1>0, <1>7, <1>a, <2>2, <2>3 DEF TypeOK, RefreshExtend, Return, Done
  <1>8. ASSUME NEW r \in Reqs, RefreshClaim(r)
        PROVE  TypeOK'
    <2>1. PICK n \in Tokens \ drawn :
            /\ sessions' = With(req[r].token, [sessions[req[r].token] EXCEPT
                            !.fallback = n, !.expires = now + Overlap])
            /\ succ' = [succ EXCEPT ![req[r].token] = n]
            /\ drawn' = drawn \cup {n}
            /\ req' = [req EXCEPT ![r] =
                    [req[r] EXCEPT !.pc = "insert", !.new = n,
                                   !.sid = IF req[r].sid = None THEN n ELSE req[r].sid]]
      BY <1>8 DEF RefreshClaim
    <2>2. DOMAIN sessions' \subseteq Tokens /\ sessions' \in [DOMAIN sessions' -> Row]
      <3> DEFINE row == [sessions[req[r].token] EXCEPT !.fallback = n, !.expires = now + Overlap]
      <3>1. ASSUME req[r].token \in DOMAIN sessions
            PROVE  row \in Row
        <4>1. sessions[req[r].token] \in Row /\ now + Overlap \in Nat
          BY <1>0, <3>1 DEF TypeOK
        <4> QED  BY <4>1 DEF Row, OrNone
      <3>2. sessions' = With(req[r].token, row)
        BY <2>1
      <3>3. req[r].token \in DOMAIN sessions
        BY <1>8 DEF RefreshClaim, Claimable
      <3> HIDE DEF row
      <3> QED  BY <1>0, <3>1, <3>2, <3>3, WithType DEF TypeOK
    <2>3. req' \in [Reqs -> Request]
      <3> DEFINE q == [req[r] EXCEPT !.pc = "insert", !.new = n,
                                     !.sid = IF req[r].sid = None THEN n ELSE req[r].sid]
      <3>1. req[r] \in Request
        BY <1>0 DEF TypeOK
      <3>2. q \in Request
        BY <3>1 DEF Request, Steps, OrNone
      <3>3. req' = [req EXCEPT ![r] = q]
        BY <2>1
      <3> HIDE DEF q
      <3> QED  BY <1>0, <3>2, <3>3 DEF TypeOK
    <2> QED  BY <1>0, <1>8, <2>1, <2>2, <2>3 DEF TypeOK, RefreshClaim, OrNone
  <1>9. ASSUME NEW r \in Reqs, RefreshClaimLost(r)
        PROVE  TypeOK'
    BY <1>0, <1>9 DEF TypeOK, RefreshClaimLost, Goto, Request, Steps
  <1>10. ASSUME NEW r \in Reqs, RefreshReread(r)
         PROVE  TypeOK'
    <2>1. ASSUME req[r].token \in DOMAIN sessions
          PROVE  sessions[req[r].token].fallback \in Tokens
      BY <1>0, <1>10, <1>r, <2>1 DEF TypeOK, RefreshReread, ReadsAgree, ReadAgrees, Row, OrNone
    <2>2. answers' \in [Tokens -> SUBSET Tokens]
      BY <1>0, <1>10, <2>1 DEF TypeOK, RefreshReread, Return
    <2> QED  BY <1>0, <1>10, <1>a, <2>2 DEF TypeOK, RefreshReread, Return, Done
  <1>11. ASSUME NEW r \in Reqs, RefreshInsert(r)
         PROVE  TypeOK'
    <2> DEFINE row == [owner |-> req[r].owner, expires |-> now + TTL,
                       fallback |-> None, sid |-> req[r].sid]
    <2>1. req[r].new \in Tokens /\ row \in Row
      BY <1>0, <1>11, <1>r, <1>p
         DEF RefreshInsert, ReadsAgree, ReadAgrees, PendingIsPrivate, Private, TypeOK, Row, OrNone
    <2>2. DOMAIN sessions' \subseteq Tokens /\ sessions' \in [DOMAIN sessions' -> Row]
      <3>1. sessions' = With(req[r].new, row)
        BY <1>11 DEF RefreshInsert
      <3> HIDE DEF row
      <3> QED  BY <1>0, <2>1, <3>1, WithType
    <2>3. answers' \in [Tokens -> SUBSET Tokens]
      BY <1>0, <1>11, <2>1 DEF TypeOK, RefreshInsert, Return
    <2> QED  BY <1>0, <1>11, <1>a, <2>2, <2>3 DEF TypeOK, RefreshInsert, Return, Done
  <1>12. ASSUME NEW r \in Reqs, NEW t \in Tokens, LogoutStart(r, t)
         PROVE  TypeOK'
    BY <1>0, <1>12 DEF TypeOK, LogoutStart, Start, Request, Row, Steps, OrNone
  <1>13. ASSUME NEW r \in Reqs, LogoutDelete(r)
         PROVE  TypeOK'
    BY <1>0, <1>13, <1>a DEF TypeOK, LogoutDelete, Without, Done
  <1>14. ASSUME NEW r \in Reqs, ForeignKeyError(r) \/ Abort(r)
         PROVE  TypeOK'
    BY <1>0, <1>14, <1>a DEF TypeOK, ForeignKeyError, Abort, Done
  <1>15. ASSUME NEW p \in Owners, SetStatus(p) \/ DeleteOwner(p)
         PROVE  TypeOK'
    BY <1>0, <1>15 DEF TypeOK, SetStatus, DeleteOwner, Without
  <1>16. CASE Tick
    BY <1>0, <1>16 DEF TypeOK, Tick
  <1>17. CASE UNCHANGED vars
    BY <1>0, <1>17 DEF TypeOK, vars
  <1> QED
    BY <1>1, <1>2, <1>3, <1>4, <1>5, <1>6, <1>7, <1>8, <1>9, <1>10, <1>11,
       <1>12, <1>13, <1>14, <1>15, <1>16, <1>17 DEF Next, Login, Refresh, Logout

(* The steps that only delete rows.                                         *)
LEMMA Deletes ==
    ASSUME \/ \E r \in Reqs : LoginSweep(r) \/ RefreshPurge(r) \/ RefreshCleanUp(r)
                                \/ LogoutDelete(r)
           \/ \E p \in Owners : DeleteOwner(p)
    PROVE  /\ \E D : sessions' = Without(D)
           /\ DOMAIN sessions' \subseteq DOMAIN sessions
           /\ \A t \in DOMAIN sessions' : sessions'[t] = sessions[t]
           /\ UNCHANGED <<drawn, succ, answers>>
  <1>1. \E D : sessions' = Without(D)
    BY DEF LoginSweep, RefreshPurge, RefreshCleanUp, LogoutDelete, DeleteOwner
  <1>2. UNCHANGED <<drawn, succ, answers>>
    BY DEF LoginSweep, RefreshPurge, RefreshCleanUp, LogoutDelete, DeleteOwner
  <1>3. PICK D : sessions' = Without(D)
    BY <1>1
  <1>4. /\ DOMAIN sessions' \subseteq DOMAIN sessions
        /\ \A t \in DOMAIN sessions' : sessions'[t] = sessions[t]
    BY <1>3 DEF Without
  <1> QED  BY <1>1, <1>2, <1>4

(* The steps that leave the table and the history alone.                    *)
LEMMA Quiet ==
    ASSUME \/ \E r \in Reqs :
                \/ \E p \in Owners : LoginStart(r, p)
                \/ \E t \in Tokens : RefreshStart(r, t) \/ LogoutStart(r, t)
                \/ RefreshClaimLost(r) \/ ForeignKeyError(r) \/ Abort(r)
           \/ \E p \in Owners : SetStatus(p)
           \/ Tick
           \/ UNCHANGED vars
    PROVE  UNCHANGED <<sessions, drawn, succ, answers>>
  BY DEF LoginStart, RefreshStart, LogoutStart, RefreshClaimLost, ForeignKeyError,
         Abort, SetStatus, Tick, vars

(* Rows point to what their tokens were rotated to, and only the first      *)
(* claim of a token sets its successor.                                     *)
LEMMA SuccStep == IInv /\ [Next]_vars => RowsFollowSucc'
  <1> SUFFICES ASSUME IInv, [Next]_vars
               PROVE  RowsFollowSucc'
    OBVIOUS
  <1> USE SessionsAssumption
  <1>0. TypeOK /\ RowsFollowSucc /\ ReadsAgree /\ PendingIsPrivate
    BY DEF IInv
  <1>1. ASSUME UNCHANGED <<sessions, drawn, succ, answers>>
        PROVE  RowsFollowSucc'
    <2>1. sessions' = sessions /\ drawn' = drawn /\ succ' = succ /\ answers' = answers
      BY <1>1
    <2> QED  BY <1>0, <2>1 DEF RowsFollowSucc
  <1>2. ASSUME DOMAIN sessions' \subseteq DOMAIN sessions,
               \A t \in DOMAIN sessions' : sessions'[t] = sessions[t],
               UNCHANGED <<drawn, succ, answers>>
        PROVE  RowsFollowSucc'
    BY <1>0, <1>2 DEF RowsFollowSucc
  <1>3. ASSUME NEW r \in Reqs, LoginInsert(r)
        PROVE  RowsFollowSucc'
    <2>1. PICK t \in Tokens \ drawn :
            /\ sessions' = With(t, [owner |-> req[r].owner, expires |-> now + TTL,
                                    fallback |-> None, sid |-> t])
            /\ drawn' = drawn \cup {t}
      BY <1>3 DEF LoginInsert
    <2>2. UNCHANGED <<succ, answers>>
      BY <1>3 DEF LoginInsert
    <2>3. /\ DOMAIN sessions' = DOMAIN sessions \cup {t}
          /\ sessions'[t].fallback = None /\ sessions'[t].sid = t
          /\ \A x \in DOMAIN sessions \ {t} : sessions'[x] = sessions[x]
      BY <2>1 DEF With
    <2>4. succ[t] = None /\ t \notin DOMAIN sessions
      BY <1>0, <2>1 DEF RowsFollowSucc
    <2> QED  BY <1>0, <2>1, <2>2, <2>3, <2>4 DEF RowsFollowSucc, OrNone
  <1>4. ASSUME NEW r \in Reqs, RefreshExtend(r)
        PROVE  RowsFollowSucc'
    <2>1. /\ DOMAIN sessions' = DOMAIN sessions
          /\ \A t \in DOMAIN sessions :
                sessions'[t].fallback = sessions[t].fallback /\ sessions'[t].sid = sessions[t].sid
      BY <1>0, <1>4 DEF RefreshExtend, TypeOK, Row
    <2>2. UNCHANGED <<drawn, succ>>
      BY <1>4 DEF RefreshExtend
    <2>3. answers' = [answers EXCEPT ![req[r].token] = answers[req[r].token] \cup {req[r].fallback}]
      BY <1>4 DEF RefreshExtend, Return
    <2>4. req[r].fallback = succ[req[r].token]
      BY <1>0, <1>4 DEF RefreshExtend, ReadsAgree, ReadAgrees
    <2>5. \A t \in Tokens : \A a \in answers'[t] : succ[t] = a
      BY <1>0, <2>3, <2>4 DEF RowsFollowSucc, TypeOK
    <2> QED  BY <1>0, <2>1, <2>2, <2>5 DEF RowsFollowSucc
  <1>5. ASSUME NEW r \in Reqs, RefreshClaim(r)
        PROVE  RowsFollowSucc'
    <2> DEFINE t == req[r].token
    <2>1. PICK n \in Tokens \ drawn :
            /\ sessions' = With(t, [sessions[t] EXCEPT !.fallback = n, !.expires = now + Overlap])
            /\ succ' = [succ EXCEPT ![t] = n]
            /\ drawn' = drawn \cup {n}
      BY <1>5 DEF RefreshClaim
    <2>2. UNCHANGED answers
      BY <1>5 DEF RefreshClaim
    <2>3. t \in DOMAIN sessions /\ t \in Tokens /\ t \in drawn /\ succ[t] = None
      BY <1>0, <1>5 DEF RefreshClaim, Claimable, RowsFollowSucc, TypeOK
    <2>4. /\ DOMAIN sessions' = DOMAIN sessions
          /\ sessions'[t] = [sessions[t] EXCEPT !.fallback = n, !.expires = now + Overlap]
          /\ \A x \in DOMAIN sessions \ {t} : sessions'[x] = sessions[x]
      BY <2>1, <2>3 DEF With
    <2>5. sessions'[t].fallback = n /\ sessions'[t].sid = sessions[t].sid
      BY <1>0, <2>3, <2>4 DEF TypeOK, Row
    <2> HIDE DEF t
    <2>6. \A x \in Tokens : succ'[x] = IF x = t THEN n ELSE succ[x]
      BY <1>0, <2>1 DEF TypeOK
    <2>7. answers[t] = {}
      BY <1>0, <2>3 DEF TypeOK, RowsFollowSucc
    <2>8. \A x \in DOMAIN sessions' :
            sessions'[x].fallback = succ'[x] /\ sessions'[x].sid \in OrNone(drawn')
      <3> SUFFICES ASSUME NEW x \in DOMAIN sessions'
                   PROVE  sessions'[x].fallback = succ'[x] /\ sessions'[x].sid \in OrNone(drawn')
        OBVIOUS
      <3>1. x \in DOMAIN sessions /\ x \in Tokens
        BY <1>0, <2>4 DEF TypeOK
      <3>2. sessions[x].fallback = succ[x] /\ sessions[x].sid \in OrNone(drawn)
        BY <1>0, <3>1 DEF RowsFollowSucc
      <3>3. CASE x = t
        BY <2>1, <2>5, <2>6, <3>1, <3>2, <3>3 DEF OrNone
      <3>4. CASE x # t
        BY <2>1, <2>4, <2>6, <3>1, <3>2, <3>4 DEF OrNone
      <3> QED  BY <3>3, <3>4
    <2>9. \A x \in Tokens :
            /\ succ'[x] \in OrNone(drawn')
            /\ succ'[x] # None => x \in drawn'
            /\ \A a \in answers'[x] : succ'[x] = a
      BY <1>0, <2>1, <2>2, <2>3, <2>6, <2>7 DEF RowsFollowSucc, OrNone
    <2>10. \A x, u \in Tokens : succ'[x] # None /\ succ'[x] = succ'[u] => x = u
      BY <1>0, <2>1, <2>6 DEF RowsFollowSucc, OrNone
    <2>11. DOMAIN sessions' \subseteq drawn'
      BY <1>0, <2>1, <2>4 DEF RowsFollowSucc
    <2> QED  BY <2>8, <2>9, <2>10, <2>11 DEF RowsFollowSucc
  <1>6. ASSUME NEW r \in Reqs, RefreshReread(r)
        PROVE  RowsFollowSucc'
    <2>1. UNCHANGED <<sessions, drawn, succ>>
      BY <1>6 DEF RefreshReread
    <2>2. \/ UNCHANGED answers
          \/ /\ req[r].token \in DOMAIN sessions
             /\ answers' = [answers EXCEPT ![req[r].token] =
                              answers[req[r].token] \cup {sessions[req[r].token].fallback}]
      BY <1>6 DEF RefreshReread, Return
    <2> QED  BY <1>0, <2>1, <2>2 DEF RowsFollowSucc, TypeOK
  <1>7. ASSUME NEW r \in Reqs, RefreshInsert(r)
        PROVE  RowsFollowSucc'
    <2>1. /\ req[r].new \in drawn /\ req[r].sid \in drawn
          /\ succ[req[r].token] = req[r].new /\ succ[req[r].new] = None
      BY <1>0, <1>7 DEF RefreshInsert, PendingIsPrivate, Private
    <2>2. /\ DOMAIN sessions' = DOMAIN sessions \cup {req[r].new}
          /\ sessions'[req[r].new].fallback = None /\ sessions'[req[r].new].sid = req[r].sid
          /\ \A x \in DOMAIN sessions \ {req[r].new} : sessions'[x] = sessions[x]
      BY <1>7 DEF RefreshInsert, With
    <2>3. UNCHANGED <<drawn, succ>>
      BY <1>7 DEF RefreshInsert
    <2>4. answers' = [answers EXCEPT ![req[r].token] = answers[req[r].token] \cup {req[r].new}]
      BY <1>7 DEF RefreshInsert, Return
    <2> QED  BY <1>0, <2>1, <2>2, <2>3, <2>4 DEF RowsFollowSucc, OrNone, TypeOK
  <1> QED
    <2>1. ASSUME NEW r \in Reqs, Login(r) PROVE RowsFollowSucc'
      BY <1>1, <1>2, <1>3, <2>1, Deletes, Quiet DEF Login
    <2>2. ASSUME NEW r \in Reqs, Refresh(r) PROVE RowsFollowSucc'
      BY <1>1, <1>2, <1>4, <1>5, <1>6, <1>7, <2>2, Deletes, Quiet DEF Refresh
    <2>3. ASSUME NEW r \in Reqs, Logout(r) \/ ForeignKeyError(r) \/ Abort(r)
          PROVE  RowsFollowSucc'
      BY <1>1, <1>2, <2>3, Deletes, Quiet DEF Logout
    <2>4. ASSUME NEW p \in Owners, SetStatus(p) \/ DeleteOwner(p)
          PROVE  RowsFollowSucc'
      BY <1>1, <1>2, <2>4, Deletes, Quiet
    <2>5. CASE Tick \/ UNCHANGED vars
      BY <1>1, <2>5, Quiet
    <2> QED  BY <2>1, <2>2, <2>3, <2>4, <2>5 DEF Next

(* What no step undoes: drawn tokens, successors, the session_id of a row   *)
(* and the fact that it was rotated; and a row that appears belongs to a    *)
(* token no request presents.                                               *)
LEMMA StepFacts ==
    ASSUME IInv, [Next]_vars
    PROVE  /\ drawn \subseteq drawn'
           /\ \A t \in Tokens : succ[t] # None => succ'[t] = succ[t]
           /\ \A t \in DOMAIN sessions \cap DOMAIN sessions' :
                /\ sessions'[t].sid = sessions[t].sid
                /\ sessions[t].fallback # None => sessions'[t].fallback # None
           /\ \A t \in DOMAIN sessions' \ DOMAIN sessions :
                \A q \in Reqs : req[q].token # t
  <1> DEFINE G == /\ drawn \subseteq drawn'
                  /\ \A t \in Tokens : succ[t] # None => succ'[t] = succ[t]
                  /\ \A t \in DOMAIN sessions \cap DOMAIN sessions' :
                       /\ sessions'[t].sid = sessions[t].sid
                       /\ sessions[t].fallback # None => sessions'[t].fallback # None
                  /\ \A t \in DOMAIN sessions' \ DOMAIN sessions :
                       \A q \in Reqs : req[q].token # t
  <1> SUFFICES G
    OBVIOUS
  <1> USE SessionsAssumption
  <1>0. TypeOK /\ RowsFollowSucc /\ ReadsAgree /\ PendingIsPrivate
    BY DEF IInv
  <1>1. ASSUME UNCHANGED <<sessions, drawn, succ>>
        PROVE  G
    <2>1. sessions' = sessions /\ drawn' = drawn /\ succ' = succ
      BY <1>1
    <2> QED  BY <2>1
  <1>2. ASSUME DOMAIN sessions' \subseteq DOMAIN sessions,
               \A t \in DOMAIN sessions' : sessions'[t] = sessions[t],
               UNCHANGED <<drawn, succ>>
        PROVE  G
    BY <1>2
  <1>3. ASSUME NEW r \in Reqs, LoginInsert(r)
        PROVE  G
    <2>1. PICK t \in Tokens \ drawn :
            /\ sessions' = With(t, [owner |-> req[r].owner, expires |-> now + TTL,
                                    fallback |-> None, sid |-> t])
            /\ drawn' = drawn \cup {t}
      BY <1>3 DEF LoginInsert
    <2>2. succ' = succ
      BY <1>3 DEF LoginInsert
    <2>3. /\ DOMAIN sessions' = DOMAIN sessions \cup {t}
          /\ \A x \in DOMAIN sessions \ {t} : sessions'[x] = sessions[x]
      BY <2>1 DEF With
    <2>4. t \notin DOMAIN sessions /\ \A q \in Reqs : req[q].token # t
      BY <1>0, <2>1 DEF RowsFollowSucc, ReadsAgree, ReadAgrees, OrNone
    <2> QED  BY <2>1, <2>2, <2>3, <2>4
  <1>4. ASSUME NEW r \in Reqs, RefreshExtend(r)
        PROVE  G
    BY <1>0, <1>4 DEF RefreshExtend, TypeOK, Row
  <1>5. ASSUME NEW r \in Reqs, RefreshClaim(r)
        PROVE  G
    <2> DEFINE t == req[r].token
    <2>1. PICK n \in Tokens \ drawn :
            /\ sessions' = With(t, [sessions[t] EXCEPT !.fallback = n, !.expires = now + Overlap])
            /\ succ' = [succ EXCEPT ![t] = n]
            /\ drawn' = drawn \cup {n}
      BY <1>5 DEF RefreshClaim
    <2>2. t \in DOMAIN sessions /\ succ[t] = None
      BY <1>0, <1>5 DEF RefreshClaim, Claimable, RowsFollowSucc
    <2>3. /\ DOMAIN sessions' = DOMAIN sessions
          /\ sessions'[t] = [sessions[t] EXCEPT !.fallback = n, !.expires = now + Overlap]
          /\ \A x \in DOMAIN sessions \ {t} : sessions'[x] = sessions[x]
      BY <2>1, <2>2 DEF With
    <2>4. sessions'[t].fallback = n /\ sessions'[t].sid = sessions[t].sid
      BY <1>0, <2>2, <2>3 DEF TypeOK, Row
    <2> HIDE DEF t
    <2>5. \A x \in Tokens : succ[x] # None => succ'[x] = succ[x]
      BY <1>0, <2>1, <2>2 DEF TypeOK
    <2> QED  BY <2>1, <2>3, <2>4, <2>5
  <1>6. ASSUME NEW r \in Reqs, RefreshReread(r)
        PROVE  G
    BY <1>1, <1>6 DEF RefreshReread
  <1>7. ASSUME NEW r \in Reqs, RefreshInsert(r)
        PROVE  G
    <2>1. \A q \in Reqs : req[q].token # req[r].new
      BY <1>0, <1>7 DEF RefreshInsert, PendingIsPrivate, Private
    <2>2. /\ DOMAIN sessions' = DOMAIN sessions \cup {req[r].new}
          /\ req[r].new \notin DOMAIN sessions
          /\ \A x \in DOMAIN sessions \ {req[r].new} : sessions'[x] = sessions[x]
      BY <1>0, <1>7 DEF RefreshInsert, PendingIsPrivate, Private, With
    <2>3. drawn' = drawn /\ succ' = succ
      BY <1>7 DEF RefreshInsert
    <2> QED  BY <2>1, <2>2, <2>3
  <1> HIDE DEF G
  <1> QED
    <2>1. ASSUME NEW r \in Reqs, Login(r) PROVE G
      BY <1>1, <1>2, <1>3, <2>1, Deletes, Quiet DEF Login
    <2>2. ASSUME NEW r \in Reqs, Refresh(r) PROVE G
      BY <1>1, <1>2, <1>4, <1>5, <1>6, <1>7, <2>2, Deletes, Quiet DEF Refresh
    <2>3. ASSUME NEW r \in Reqs, Logout(r) \/ ForeignKeyError(r) \/ Abort(r)
          PROVE  G
      BY <1>1, <1>2, <2>3, Deletes, Quiet DEF Logout
    <2>4. ASSUME NEW p \in Owners, SetStatus(p) \/ DeleteOwner(p)
          PROVE  G
      BY <1>1, <1>2, <2>4, Deletes, Quiet
    <2>5. CASE Tick \/ UNCHANGED vars
      BY <1>1, <2>5, Quiet
    <2> QED  BY <2>1, <2>2, <2>3, <2>4, <2>5 DEF Next

(* Another request's step does not invalidate what a request has read.      *)
LEMMA ReadStable ==
    ASSUME IInv, [Next]_vars, NEW q \in Reqs, req'[q] = req[q]
    PROVE  ReadAgrees(q)'
  <1>0. TypeOK /\ RowsFollowSucc /\ ReadAgrees(q)
    BY DEF IInv, ReadsAgree
  <1>1. /\ drawn \subseteq drawn'
        /\ \A t \in Tokens : succ[t] # None => succ'[t] = succ[t]
        /\ \A t \in DOMAIN sessions \cap DOMAIN sessions' :
             /\ sessions'[t].sid = sessions[t].sid
             /\ sessions[t].fallback # None => sessions'[t].fallback # None
        /\ req[q].token \notin DOMAIN sessions' \ DOMAIN sessions
    BY StepFacts
  <1>2. /\ req[q].pc \in {"cleanup", "extend"} => req[q].token \in Tokens
        /\ req[q].token \in OrNone(drawn') /\ req[q].sid \in OrNone(drawn')
        /\ req[q].pc \notin {"idle", "login", "sweep"} => req[q].token \in drawn'
    BY <1>0, <1>1 DEF ReadAgrees, TypeOK, OrNone
  <1>3. /\ req[q].pc \in {"login", "cleanup", "extend", "claim", "insert"} => req[q].owner \in Owners
        /\ req[q].pc = "extend" => req[q].fallback # None
        /\ req[q].pc \in {"cleanup", "extend"} =>
            req[q].fallback = None \/ req[q].fallback = succ'[req[q].token]
    BY <1>0, <1>1, <1>2 DEF ReadAgrees
  <1>4. /\ req[q].pc \in {"cleanup", "claim"} /\ req[q].token \in DOMAIN sessions' =>
            sessions'[req[q].token].sid = req[q].sid
        /\ req[q].pc = "reread" /\ req[q].token \in DOMAIN sessions' =>
            sessions'[req[q].token].fallback # None
    BY <1>0, <1>1 DEF ReadAgrees
  <1> QED  BY <1>2, <1>3, <1>4 DEF ReadAgrees

(* What a step leaves of the other requests.                                *)
LEMMA OnlyOne ==
    ASSUME TypeOK, NEW r \in Reqs, Login(r) \/ Refresh(r) \/ Logout(r)
                                     \/ ForeignKeyError(r) \/ Abort(r)
    PROVE  \A q \in Reqs \ {r} : req'[q] = req[q]
  <1>1. CASE Login(r)
    BY <1>1 DEF Login, LoginStart, LoginInsert, LoginSweep, Goto, Done, TypeOK
  <1>2. CASE Refresh(r)
    <2>1. ASSUME NEW t \in Tokens, RefreshStart(r, t)
          PROVE  \A q \in Reqs \ {r} : req'[q] = req[q]
      BY <2>1 DEF RefreshStart, Start, TypeOK
    <2>2. CASE RefreshPurge(r) \/ RefreshCleanUp(r) \/ RefreshClaimLost(r)
      BY <2>2 DEF RefreshPurge, RefreshCleanUp, RefreshClaimLost, Goto, Done, TypeOK
    <2>3. CASE RefreshExtend(r) \/ RefreshReread(r) \/ RefreshInsert(r)
      BY <2>3 DEF RefreshExtend, RefreshReread, RefreshInsert, Return, Done, TypeOK
    <2>4. CASE RefreshClaim(r)
      BY <2>4 DEF RefreshClaim, TypeOK
    <2> QED  BY <1>2, <2>1, <2>2, <2>3, <2>4 DEF Refresh
  <1>3. CASE Logout(r)
    BY <1>3 DEF Logout, LogoutStart, LogoutDelete, Start, Done, TypeOK
  <1>4. CASE ForeignKeyError(r) \/ Abort(r)
    BY <1>4 DEF ForeignKeyError, Abort, Done, TypeOK
  <1> QED  BY <1>1, <1>2, <1>3, <1>4

LEMMA ReadsStep == IInv /\ [Next]_vars => ReadsAgree'
  <1> SUFFICES ASSUME IInv, [Next]_vars
               PROVE  ReadsAgree'
    OBVIOUS
  <1> USE SessionsAssumption
  <1>0. TypeOK /\ RowsFollowSucc /\ ReadsAgree
    BY DEF IInv
  <1>1. ASSUME NEW r \in Reqs, req'[r] = Idle
        PROVE  ReadAgrees(r)'
    BY <1>1 DEF ReadAgrees, Idle, OrNone
  <1>2. ASSUME NEW r \in Reqs, Login(r)
        PROVE  ReadAgrees(r)'
    <2>1. ASSUME NEW p \in Owners, LoginStart(r, p)
          PROVE  ReadAgrees(r)'
      BY <1>0, <2>1 DEF LoginStart, ReadAgrees, TypeOK, Idle, OrNone
    <2>2. CASE LoginInsert(r)
      <3>1. req'[r] = [req[r] EXCEPT !.pc = "sweep"] /\ drawn \subseteq drawn'
        BY <1>0, <2>2 DEF LoginInsert, Goto, TypeOK
      <3>2. req'[r].pc = "sweep" /\ req'[r].token = req[r].token /\ req'[r].sid = req[r].sid
        BY <1>0, <3>1 DEF TypeOK, Request
      <3> QED  BY <1>0, <3>1, <3>2 DEF ReadsAgree, ReadAgrees, OrNone
    <2>3. CASE LoginSweep(r)
      BY <1>0, <1>1, <2>3 DEF LoginSweep, Done, TypeOK
    <2> QED  BY <1>2, <2>1, <2>2, <2>3 DEF Login
  <1>3. ASSUME NEW r \in Reqs, NEW t \in DOMAIN sessions, NEW step \in {"cleanup", "purge", "logout"},
               Start(r, step, t), UNCHANGED <<sessions, drawn, succ>>
        PROVE  ReadAgrees(r)'
    <2>1. req'[r] = [pc |-> step, token |-> t, owner |-> sessions[t].owner,
                     fallback |-> sessions[t].fallback, sid |-> sessions[t].sid, new |-> None]
      BY <1>0, <1>3 DEF Start, TypeOK
    <2>2. /\ sessions[t].owner \in Owners /\ t \in drawn
          /\ sessions[t].fallback = succ[t] /\ sessions[t].sid \in OrNone(drawn)
      BY <1>0 DEF TypeOK, RowsFollowSucc, Row
    <2> QED  BY <1>3, <2>1, <2>2 DEF ReadAgrees, OrNone
  <1>4. ASSUME NEW r \in Reqs, Refresh(r)
        PROVE  ReadAgrees(r)'
    <2>1. ASSUME NEW t \in Tokens, RefreshStart(r, t)
          PROVE  ReadAgrees(r)'
      BY <1>3, <2>1 DEF RefreshStart
    <2>2. CASE RefreshPurge(r) \/ RefreshExtend(r) \/ RefreshInsert(r) \/ RefreshReread(r)
      BY <1>0, <1>1, <2>2 DEF RefreshPurge, RefreshExtend, RefreshInsert, RefreshReread,
                              Return, Done, TypeOK
    <2>3. CASE RefreshCleanUp(r)
      <3> DEFINE step == IF req[r].fallback = None THEN "claim" ELSE "extend"
      <3>1. req'[r] = [req[r] EXCEPT !.pc = step] /\ req[r].pc = "cleanup"
        BY <1>0, <2>3 DEF RefreshCleanUp, Goto, TypeOK
      <3>2. /\ req'[r].pc = step /\ req'[r].token = req[r].token /\ req'[r].sid = req[r].sid
            /\ req'[r].owner = req[r].owner /\ req'[r].fallback = req[r].fallback
        BY <1>0, <3>1 DEF TypeOK, Request
      <3>3. /\ DOMAIN sessions' \subseteq DOMAIN sessions
            /\ \A t \in DOMAIN sessions' : sessions'[t] = sessions[t]
            /\ drawn' = drawn /\ succ' = succ
        BY <2>3, Deletes
      <3> QED  BY <1>0, <3>1, <3>2, <3>3 DEF ReadsAgree, ReadAgrees, OrNone
    <2>4. CASE RefreshClaim(r)
      <3>1. PICK n \in Tokens \ drawn :
              /\ drawn' = drawn \cup {n}
              /\ req' = [req EXCEPT ![r] =
                          [req[r] EXCEPT !.pc = "insert", !.new = n,
                                         !.sid = IF req[r].sid = None THEN n ELSE req[r].sid]]
        BY <2>4 DEF RefreshClaim
      <3>2. req[r].pc = "claim" /\ req[r] \in Request
        BY <1>0, <2>4 DEF RefreshClaim, TypeOK
      <3>3. req'[r] = [req[r] EXCEPT !.pc = "insert", !.new = n,
                             !.sid = IF req[r].sid = None THEN n ELSE req[r].sid]
        BY <1>0, <3>1 DEF TypeOK
      <3>4. /\ req'[r].pc = "insert" /\ req'[r].token = req[r].token
            /\ req'[r].owner = req[r].owner /\ req'[r].sid \in {n, req[r].sid}
        BY <3>2, <3>3 DEF Request
      <3> QED  BY <1>0, <3>1, <3>2, <3>4 DEF ReadsAgree, ReadAgrees, OrNone
    <2>5. CASE RefreshClaimLost(r)
      <3>1. req'[r] = [req[r] EXCEPT !.pc = "reread"] /\ req[r].pc = "claim"
        BY <1>0, <2>5 DEF RefreshClaimLost, Goto, TypeOK
      <3>2. req'[r].pc = "reread" /\ req'[r].token = req[r].token /\ req'[r].sid = req[r].sid
        BY <1>0, <3>1 DEF TypeOK, Request
      <3>3. req[r].token \in DOMAIN sessions => sessions[req[r].token].fallback # None
        BY <2>5 DEF RefreshClaimLost, Claimable
      <3>4. sessions' = sessions /\ drawn' = drawn /\ succ' = succ
        BY <2>5 DEF RefreshClaimLost
      <3> QED  BY <1>0, <3>1, <3>2, <3>3, <3>4 DEF ReadsAgree, ReadAgrees, OrNone
    <2> QED  BY <1>4, <2>1, <2>2, <2>3, <2>4, <2>5 DEF Refresh
  <1>5. ASSUME NEW r \in Reqs, Logout(r) \/ ForeignKeyError(r) \/ Abort(r)
        PROVE  ReadAgrees(r)'
    <2>1. ASSUME NEW t \in Tokens, LogoutStart(r, t)
          PROVE  ReadAgrees(r)'
      BY <1>3, <2>1 DEF LogoutStart
    <2>2. CASE LogoutDelete(r) \/ ForeignKeyError(r) \/ Abort(r)
      BY <1>0, <1>1, <2>2 DEF LogoutDelete, ForeignKeyError, Abort, Done, TypeOK
    <2> QED  BY <1>5, <2>1, <2>2 DEF Logout
  <1>6. CASE \E r \in Reqs : Login(r) \/ Refresh(r) \/ Logout(r) \/ ForeignKeyError(r) \/ Abort(r)
    <2>1. PICK r \in Reqs : Login(r) \/ Refresh(r) \/ Logout(r) \/ ForeignKeyError(r) \/ Abort(r)
      BY <1>6
    <2>2. ReadAgrees(r)'
      BY <1>2, <1>4, <1>5, <2>1
    <2>3. \A q \in Reqs \ {r} : req'[q] = req[q]
      BY <1>0, <2>1, OnlyOne
    <2>4. \A q \in Reqs \ {r} : ReadAgrees(q)'
      BY <2>3, ReadStable
    <2> QED  BY <2>2, <2>4 DEF ReadsAgree
  <1>7. CASE Tick \/ UNCHANGED vars \/ \E p \in Owners : SetStatus(p) \/ DeleteOwner(p)
    <2>1. req' = req
      BY <1>7 DEF Tick, SetStatus, DeleteOwner, vars
    <2> QED  BY <2>1, ReadStable DEF ReadsAgree
  <1> QED  BY <1>6, <1>7 DEF Next

(* A request keeps its token, drops it or takes one from the table; only    *)
(* a claim makes an insert pending.                                         *)
LEMMA RequestFacts ==
    ASSUME IInv, [Next]_vars, NEW p \in Reqs
    PROVE  /\ req'[p].token \in {req[p].token, None} \cup DOMAIN sessions
           /\ req'[p].pc = "insert" => req'[p] = req[p] \/ RefreshClaim(p)
  <1> DEFINE G == /\ req'[p].token \in {req[p].token, None} \cup DOMAIN sessions
                  /\ req'[p].pc = "insert" => req'[p] = req[p] \/ RefreshClaim(p)
  <1> SUFFICES G
    OBVIOUS
  <1>0. TypeOK
    BY DEF IInv
  <1>1. ASSUME req'[p] = req[p]
        PROVE  G
    BY <1>1
  <1>2. ASSUME req'[p] = Idle
        PROVE  G
    BY <1>2 DEF Idle
  <1>3. ASSUME NEW step \in Steps \ {"insert"}, Goto(p, step)
        PROVE  G
    <2>1. req'[p] = [req[p] EXCEPT !.pc = step]
      BY <1>0, <1>3 DEF Goto, TypeOK
    <2>2. req'[p].pc = step /\ req'[p].token = req[p].token
      BY <1>0, <2>1 DEF TypeOK, Request
    <2> QED  BY <2>2
  <1>4. ASSUME NEW step \in Steps \ {"insert"}, NEW t \in DOMAIN sessions, Start(p, step, t)
        PROVE  G
    BY <1>0, <1>4 DEF Start, TypeOK
  <1>5. ASSUME Login(p)
        PROVE  G
    <2>1. ASSUME NEW u \in Owners, LoginStart(p, u) PROVE G
      BY <1>0, <2>1 DEF LoginStart, Idle, TypeOK
    <2>2. CASE LoginInsert(p)
      BY <1>3, <2>2 DEF LoginInsert, Steps
    <2>3. CASE LoginSweep(p)
      BY <1>0, <1>2, <2>3 DEF LoginSweep, Done, TypeOK
    <2> QED  BY <1>5, <2>1, <2>2, <2>3 DEF Login
  <1>6. ASSUME Refresh(p)
        PROVE  G
    <2>1. ASSUME NEW t \in Tokens, RefreshStart(p, t) PROVE G
      BY <1>4, <2>1 DEF RefreshStart, Steps
    <2>2. CASE RefreshPurge(p) \/ RefreshExtend(p) \/ RefreshReread(p) \/ RefreshInsert(p)
      BY <1>0, <1>2, <2>2 DEF RefreshPurge, RefreshExtend, RefreshReread, RefreshInsert,
                              Return, Done, TypeOK
    <2>3. CASE RefreshCleanUp(p) \/ RefreshClaimLost(p)
      BY <1>3, <2>3 DEF RefreshCleanUp, RefreshClaimLost, Steps
    <2>4. CASE RefreshClaim(p)
      <3>1. req'[p].token = req[p].token
        BY <1>0, <2>4 DEF RefreshClaim, TypeOK, Request
      <3> QED  BY <2>4, <3>1
    <2> QED  BY <1>6, <2>1, <2>2, <2>3, <2>4 DEF Refresh
  <1>7. ASSUME Logout(p) \/ ForeignKeyError(p) \/ Abort(p)
        PROVE  G
    <2>1. ASSUME NEW t \in Tokens, LogoutStart(p, t) PROVE G
      BY <1>4, <2>1 DEF LogoutStart, Steps
    <2>2. CASE LogoutDelete(p) \/ ForeignKeyError(p) \/ Abort(p)
      BY <1>0, <1>2, <2>2 DEF LogoutDelete, ForeignKeyError, Abort, Done, TypeOK
    <2> QED  BY <1>7, <2>1, <2>2 DEF Logout
  <1>8. CASE \E r \in Reqs : Login(r) \/ Refresh(r) \/ Logout(r) \/ ForeignKeyError(r) \/ Abort(r)
    <2>1. PICK r \in Reqs : Login(r) \/ Refresh(r) \/ Logout(r) \/ ForeignKeyError(r) \/ Abort(r)
      BY <1>8
    <2>2. p # r => req'[p] = req[p]
      BY <1>0, <2>1, OnlyOne
    <2> QED  BY <1>1, <1>5, <1>6, <1>7, <2>1, <2>2
  <1>9. CASE Tick \/ UNCHANGED vars \/ \E u \in Owners : SetStatus(u) \/ DeleteOwner(u)
    BY <1>1, <1>9 DEF Tick, SetStatus, DeleteOwner, vars
  <1> HIDE DEF G
  <1> QED  BY <1>8, <1>9 DEF Next

(* Rows appear for a new token or a pending insert, and succ changes for    *)
(* the token of a claim only.                                               *)
LEMMA TableFacts ==
    ASSUME IInv, [Next]_vars
    PROVE  /\ \A t \in DOMAIN sessions' \ DOMAIN sessions :
                t \notin drawn \/ \E r \in Reqs : RefreshInsert(r) /\ req[r].new = t
           /\ \A t \in Tokens : succ'[t] = succ[t]
                \/ \E r \in Reqs : RefreshClaim(r) /\ req[r].token = t
  <1> DEFINE G == /\ \A t \in DOMAIN sessions' \ DOMAIN sessions :
                        t \notin drawn \/ \E r \in Reqs : RefreshInsert(r) /\ req[r].new = t
                  /\ \A t \in Tokens : succ'[t] = succ[t]
                        \/ \E r \in Reqs : RefreshClaim(r) /\ req[r].token = t
  <1> SUFFICES G
    OBVIOUS
  <1>0. TypeOK
    BY DEF IInv
  <1>1. ASSUME DOMAIN sessions' \subseteq DOMAIN sessions, succ' = succ
        PROVE  G
    BY <1>1
  <1>2. ASSUME NEW r \in Reqs, LoginInsert(r)
        PROVE  G
    BY <1>2 DEF LoginInsert, With
  <1>3. ASSUME NEW r \in Reqs, RefreshExtend(r) \/ RefreshReread(r)
        PROVE  G
    <2>1. DOMAIN sessions' = DOMAIN sessions /\ succ' = succ
      BY <1>3 DEF RefreshExtend, RefreshReread
    <2> QED  BY <1>1, <2>1
  <1>4. ASSUME NEW r \in Reqs, RefreshClaim(r)
        PROVE  G
    BY <1>0, <1>4 DEF RefreshClaim, Claimable, With, TypeOK
  <1>5. ASSUME NEW r \in Reqs, RefreshInsert(r)
        PROVE  G
    <2>1. DOMAIN sessions' = DOMAIN sessions \cup {req[r].new} /\ succ' = succ
      BY <1>5 DEF RefreshInsert, With
    <2> QED  BY <1>5, <2>1
  <1> HIDE DEF G
  <1> QED
    <2>1. ASSUME NEW r \in Reqs, Login(r) PROVE G
      BY <1>1, <1>2, <2>1, Deletes, Quiet DEF Login
    <2>2. ASSUME NEW r \in Reqs, Refresh(r) PROVE G
      BY <1>1, <1>3, <1>4, <1>5, <2>2, Deletes, Quiet DEF Refresh
    <2>3. ASSUME NEW r \in Reqs, Logout(r) \/ ForeignKeyError(r) \/ Abort(r)
          PROVE  G
      BY <1>1, <2>3, Deletes, Quiet DEF Logout
    <2>4. ASSUME NEW p \in Owners, SetStatus(p) \/ DeleteOwner(p)
          PROVE  G
      BY <1>1, <2>4, Deletes, Quiet
    <2>5. CASE Tick \/ UNCHANGED vars
      BY <1>1, <2>5, Quiet
    <2> QED  BY <2>1, <2>2, <2>3, <2>4, <2>5 DEF Next

(* A claim draws a token nobody knows and puts it down as the successor.    *)
LEMMA ClaimFacts ==
    ASSUME IInv, NEW r \in Reqs, RefreshClaim(r)
    PROVE  \E n \in Tokens \ drawn :
             /\ req'[r].pc = "insert" /\ req'[r].new = n
             /\ req'[r].token = req[r].token
             /\ req'[r].sid = IF req[r].sid = None THEN n ELSE req[r].sid
             /\ \A q \in Reqs \ {r} : req'[q] = req[q]
             /\ drawn' = drawn \cup {n}
             /\ succ' = [succ EXCEPT ![req[r].token] = n]
             /\ DOMAIN sessions' = DOMAIN sessions
             /\ req[r].token \in DOMAIN sessions
             /\ sessions[req[r].token].fallback = None
             /\ sessions[req[r].token].sid = req[r].sid
             /\ sessions'[req[r].token].fallback = n
             /\ \A x \in DOMAIN sessions \ {req[r].token} : sessions'[x] = sessions[x]
  <1>0. TypeOK /\ ReadAgrees(r)
    BY DEF IInv, ReadsAgree
  <1> DEFINE t == req[r].token
  <1>1. PICK n \in Tokens \ drawn :
          /\ sessions' = With(t, [sessions[t] EXCEPT !.fallback = n, !.expires = now + Overlap])
          /\ succ' = [succ EXCEPT ![t] = n]
          /\ drawn' = drawn \cup {n}
          /\ req' = [req EXCEPT ![r] =
                      [req[r] EXCEPT !.pc = "insert", !.new = n,
                                     !.sid = IF req[r].sid = None THEN n ELSE req[r].sid]]
    BY DEF RefreshClaim
  <1>2. t \in DOMAIN sessions /\ sessions[t].fallback = None /\ sessions[t].sid = req[r].sid
    BY <1>0 DEF RefreshClaim, Claimable, ReadAgrees
  <1>3. /\ DOMAIN sessions' = DOMAIN sessions
        /\ sessions'[t] = [sessions[t] EXCEPT !.fallback = n, !.expires = now + Overlap]
        /\ \A x \in DOMAIN sessions \ {t} : sessions'[x] = sessions[x]
    BY <1>1, <1>2 DEF With
  <1>4. sessions'[t].fallback = n
    BY <1>0, <1>2, <1>3 DEF TypeOK, Row
  <1>5. /\ req'[r] = [req[r] EXCEPT !.pc = "insert", !.new = n,
                            !.sid = IF req[r].sid = None THEN n ELSE req[r].sid]
        /\ \A q \in Reqs \ {r} : req'[q] = req[q]
    BY <1>0, <1>1 DEF TypeOK
  <1>6. /\ req'[r].pc = "insert" /\ req'[r].new = n /\ req'[r].token = t
        /\ req'[r].sid = IF req[r].sid = None THEN n ELSE req[r].sid
    BY <1>0, <1>5 DEF TypeOK, Request
  <1> QED  BY <1>1, <1>2, <1>3, <1>4, <1>5, <1>6

LEMMA PendingStep == IInv /\ [Next]_vars => PendingIsPrivate'
  <1> SUFFICES ASSUME IInv, [Next]_vars, NEW r \in Reqs, req'[r].pc = "insert"
               PROVE  Private(r)'
    BY DEF PendingIsPrivate
  <1> USE SessionsAssumption
  <1>0. TypeOK /\ RowsFollowSucc /\ ReadsAgree /\ PendingIsPrivate
    BY DEF IInv
  <1>1. CASE RefreshClaim(r)
    <2>1. PICK n \in Tokens \ drawn :
             /\ req'[r].new = n /\ req'[r].token = req[r].token
             /\ req'[r].sid = IF req[r].sid = None THEN n ELSE req[r].sid
             /\ \A q \in Reqs \ {r} : req'[q] = req[q]
             /\ drawn' = drawn \cup {n}
             /\ succ' = [succ EXCEPT ![req[r].token] = n]
             /\ DOMAIN sessions' = DOMAIN sessions
      BY <1>1, ClaimFacts
    <2>2. n \notin DOMAIN sessions /\ succ[n] = None /\ req[r].token \in drawn
          /\ req[r].sid \in OrNone(drawn)
      BY <1>0, <1>1, <2>1 DEF RowsFollowSucc, ReadsAgree, ReadAgrees, RefreshClaim
    <2>3. succ'[req[r].token] = n /\ succ'[n] = None
      BY <1>0, <2>1, <2>2 DEF TypeOK
    <2>4. \A q \in Reqs : req'[q].token # n
      BY <1>0, <2>1 DEF ReadsAgree, ReadAgrees, OrNone
    <2>5. \A q \in Reqs : req'[q].pc = "insert" /\ req'[q].new = n => q = r
      BY <1>0, <2>1 DEF PendingIsPrivate, Private
    <2> QED  BY <2>1, <2>2, <2>3, <2>4, <2>5 DEF Private, OrNone
  <1>2. CASE req'[r] = req[r]
    <2>1. Private(r)
      BY <1>0, <1>2 DEF PendingIsPrivate
    <2> DEFINE n == req[r].new
    <2>2. n \notin DOMAIN sessions'
      <3>1. ASSUME NEW q \in Reqs, RefreshInsert(q), req[q].new = n
            PROVE  FALSE
        <4>1. q = r
          BY <2>1, <3>1 DEF Private, RefreshInsert
        <4>2. req'[r] = Idle
          BY <1>0, <3>1, <4>1 DEF RefreshInsert, Return, Done, TypeOK
        <4> QED  BY <4>2 DEF Idle
      <3> QED  BY <2>1, <3>1, TableFacts DEF Private
    <2>3. \A q \in Reqs : req[q].token # n
      BY <2>1 DEF Private
    <2>4. n \in Tokens /\ n # None /\ req[r].token \in Tokens
      BY <1>0, <1>2, <2>1 DEF Private, TypeOK, ReadsAgree, ReadAgrees
    <2>5. n \in drawn' /\ req[r].sid \in drawn' /\ succ'[req[r].token] = n /\ succ'[n] = None
      BY <2>1, <2>3, <2>4, StepFacts, TableFacts DEF Private
    <2>6. \A q \in Reqs : req'[q].token # n
      BY <2>1, <2>3, <2>4, RequestFacts DEF Private
    <2>7. ASSUME NEW q \in Reqs, req'[q].pc = "insert", req'[q].new = n
          PROVE  q = r
      <3>1. CASE req'[q] = req[q]
        BY <2>1, <2>7, <3>1 DEF Private
      <3>2. CASE RefreshClaim(q)
        <4>1. req'[q].new \notin drawn
          BY <3>2, ClaimFacts
        <4> QED  BY <2>1, <2>7, <4>1 DEF Private
      <3> QED  BY <2>7, <3>1, <3>2, RequestFacts
    <2> QED  BY <1>2, <2>2, <2>5, <2>6, <2>7 DEF Private
  <1> QED  BY <1>1, <1>2, RequestFacts

(* What a new row carries.                                                  *)
LEMMA NewRows ==
    ASSUME IInv, [Next]_vars, NEW t \in DOMAIN sessions' \ DOMAIN sessions
    PROVE  \/ t \notin drawn /\ sessions'[t].sid = t
           \/ \E r \in Reqs : /\ req[r].pc = "insert" /\ req[r].new = t
                              /\ sessions'[t].sid = req[r].sid
  <1> DEFINE G == \/ t \notin drawn /\ sessions'[t].sid = t
                  \/ \E r \in Reqs : /\ req[r].pc = "insert" /\ req[r].new = t
                                     /\ sessions'[t].sid = req[r].sid
  <1> SUFFICES G
    OBVIOUS
  <1>1. ASSUME DOMAIN sessions' \subseteq DOMAIN sessions
        PROVE  G
    BY <1>1
  <1>2. ASSUME NEW r \in Reqs, LoginInsert(r)
        PROVE  G
    BY <1>2 DEF LoginInsert, With
  <1>3. ASSUME NEW r \in Reqs, RefreshExtend(r) \/ RefreshReread(r) \/ RefreshClaim(r)
        PROVE  G
    <2>1. DOMAIN sessions' = DOMAIN sessions
      BY <1>3 DEF RefreshExtend, RefreshReread, RefreshClaim, Claimable, With
    <2> QED  BY <1>1, <2>1
  <1>4. ASSUME NEW r \in Reqs, RefreshInsert(r)
        PROVE  G
    BY <1>4 DEF RefreshInsert, With
  <1> HIDE DEF G
  <1> QED
    <2>1. ASSUME NEW r \in Reqs, Login(r) PROVE G
      BY <1>1, <1>2, <2>1, Deletes, Quiet DEF Login
    <2>2. ASSUME NEW r \in Reqs, Refresh(r) PROVE G
      BY <1>1, <1>3, <1>4, <2>2, Deletes, Quiet DEF Refresh
    <2>3. ASSUME NEW r \in Reqs, Logout(r) \/ ForeignKeyError(r) \/ Abort(r)
          PROVE  G
      BY <1>1, <2>3, Deletes, Quiet DEF Logout
    <2>4. ASSUME NEW p \in Owners, SetStatus(p) \/ DeleteOwner(p)
          PROVE  G
      BY <1>1, <2>4, Deletes, Quiet
    <2>5. CASE Tick \/ UNCHANGED vars
      BY <1>1, <2>5, Quiet
    <2> QED  BY <2>1, <2>2, <2>3, <2>4, <2>5 DEF Next

(* How the carriers of a session change: a token of a new session, or the   *)
(* successor of a carrier, is the only one that can join them, and the      *)
(* carrier that was rotated leaves.                                         *)
LEMMA CarrierStep ==
    ASSUME IInv, [Next]_vars, NEW s \in Tokens
    PROVE  \/ Carriers(s)' \subseteq Carriers(s)
           \/ s \notin drawn /\ Carriers(s)' \subseteq {s}
           \/ \E n : Carriers(s) # {} /\ Carriers(s)' \subseteq {n}
  <1> USE SessionsAssumption
  <1>0. TypeOK /\ RowsFollowSucc /\ ReadsAgree /\ PendingIsPrivate /\ SingleHead
    BY DEF IInv
  <1>1. ASSUME s \notin drawn
        PROVE  Carriers(s) = {}
    <2>1. \A t \in Tokens : ~IsHead(t, s)
      BY <1>0, <1>1 DEF IsHead, RowsFollowSucc, OrNone
    <2>2. \A t \in Tokens : ~IsPending(t, s)
      BY <1>0, <1>1 DEF IsPending, PendingIsPrivate, Private
    <2> QED  BY <2>1, <2>2 DEF Carriers
  <1>2. ASSUME NEW t \in Tokens, IsHead(t, s)'
        PROVE  t \in Carriers(s) \/ (t = s /\ s \notin drawn)
    <2>1. t \in DOMAIN sessions' /\ sessions'[t].fallback = None /\ sessions'[t].sid = s
      BY <1>2 DEF IsHead
    <2>2. CASE t \in DOMAIN sessions
      BY <2>1, <2>2, StepFacts DEF IsHead, Carriers
    <2>3. CASE t \notin DOMAIN sessions
      BY <2>1, <2>3, NewRows DEF IsPending, Carriers
    <2> QED  BY <2>2, <2>3
  <1>3. ASSUME NEW t \in Tokens, IsPending(t, s)',
               \A r \in Reqs : ~RefreshClaim(r)
        PROVE  t \in Carriers(s)
    <2>1. PICK r \in Reqs : req'[r].pc = "insert" /\ req'[r].new = t /\ req'[r].sid = s
      BY <1>3 DEF IsPending
    <2>2. req'[r] = req[r]
      BY <1>3, <2>1, RequestFacts
    <2> QED  BY <2>1, <2>2 DEF IsPending, Carriers
  <1>4. CASE \A r \in Reqs : ~RefreshClaim(r)
    <2>1. Carriers(s)' \subseteq Carriers(s) \cup (IF s \in drawn THEN {} ELSE {s})
      BY <1>2, <1>3, <1>4 DEF Carriers
    <2> QED  BY <1>1, <2>1
  <1>5. CASE \E r \in Reqs : RefreshClaim(r)
    <2>1. PICK r \in Reqs : RefreshClaim(r)
      BY <1>5
    <2>2. PICK n \in Tokens \ drawn :
             /\ req'[r].new = n
             /\ req'[r].sid = IF req[r].sid = None THEN n ELSE req[r].sid
             /\ \A q \in Reqs \ {r} : req'[q] = req[q]
             /\ DOMAIN sessions' = DOMAIN sessions
             /\ req[r].token \in DOMAIN sessions
             /\ sessions[req[r].token].fallback = None
             /\ sessions[req[r].token].sid = req[r].sid
             /\ sessions'[req[r].token].fallback = n
             /\ \A x \in DOMAIN sessions \ {req[r].token} : sessions'[x] = sessions[x]
      BY <2>1, ClaimFacts
    <2>3. ASSUME NEW t \in Tokens, t \in Carriers(s)'
          PROVE  t \in Carriers(s) \ {req[r].token} \/ (t = n /\ req'[r].sid = s)
      <3>1. CASE IsHead(t, s)'
        <4>1. t \in DOMAIN sessions /\ t # req[r].token
          BY <2>2, <3>1 DEF IsHead
        <4> QED  BY <2>2, <3>1, <4>1 DEF IsHead, Carriers
      <3>2. CASE IsPending(t, s)'
        <4>1. PICK q \in Reqs : req'[q].pc = "insert" /\ req'[q].new = t /\ req'[q].sid = s
          BY <3>2 DEF IsPending
        <4>2. CASE q = r
          BY <2>2, <4>1, <4>2
        <4>3. CASE q # r
          <5>1. req[q].pc = "insert" /\ req[q].new = t /\ req[q].sid = s
            BY <2>2, <4>1, <4>3
          <5>2. t # req[r].token
            BY <1>0, <5>1 DEF PendingIsPrivate, Private
          <5> QED  BY <5>1, <5>2 DEF IsPending, Carriers
        <4> QED  BY <4>2, <4>3
      <3> QED  BY <2>3, <3>1, <3>2 DEF Carriers
    <2>4. Carriers(s)' \subseteq Tokens
      BY DEF Carriers
    <2>5. CASE req'[r].sid # s
      BY <2>3, <2>4, <2>5
    <2>6. CASE req'[r].sid = s /\ req[r].sid = None
      <3>1. s = n
        BY <2>2, <2>6
      <3> QED  BY <1>1, <2>2, <2>3, <2>4, <3>1
    <2>7. CASE req'[r].sid = s /\ req[r].sid # None
      <3>1. req[r].token \in Carriers(s)
        BY <1>0, <2>2, <2>7 DEF Carriers, IsHead, TypeOK
      <3>2. Carriers(s) = {req[r].token}
        BY <1>0, <3>1 DEF SingleHead
      <3> QED  BY <2>3, <2>4, <3>1, <3>2
    <2> QED  BY <2>5, <2>6, <2>7
  <1> QED  BY <1>4, <1>5

LEMMA HeadStep == IInv /\ [Next]_vars => SingleHead'
  <1> SUFFICES ASSUME IInv, [Next]_vars, NEW s \in Tokens
               PROVE  \A a, b \in Carriers(s)' : a = b
    BY DEF SingleHead
  <1>1. \A a, b \in Carriers(s) : a = b
    BY DEF IInv, SingleHead
  <1> QED  BY <1>1, CarrierStep

-----------------------------------------------------------------------------
(* The inductive invariant holds in every state.                            *)
THEOREM InductiveInvariant == Spec => []IInv
  <1>1. IInv /\ [Next]_vars => IInv'
    BY TypeStep, SuccStep, ReadsStep, PendingStep, HeadStep DEF IInv
  <1> QED  BY InitInv, <1>1, PTL DEF Spec

(* Every variable keeps its type; in particular no refresh is answered with *)
(* a NULL token, the loser's re-read of fallback_token included.            *)
THEOREM TypeCorrect == Spec => []TypeOK
  <1>1. IInv => TypeOK
    BY DEF IInv
  <1> QED  BY InductiveInvariant, <1>1, PTL

(* A session never forks, for any number of tokens, owners and concurrent   *)
(* requests: at most one of its tokens can be rotated next.                 *)
THEOREM NoFork == Spec => []SingleHead
  <1>1. IInv => SingleHead
    BY DEF IInv
  <1> QED  BY InductiveInvariant, <1>1, PTL

(* All refreshes of one token that are answered are answered alike.         *)
THEOREM OneAnswer == Spec => []SameAnswer
  <1>1. IInv => SameAnswer
    BY DEF IInv, RowsFollowSucc, SameAnswer
  <1> QED  BY InductiveInvariant, <1>1, PTL

(* A session whose current token is gone stays dead.                        *)
THEOREM NoResurrection == Spec => DeadSession
  <1>1. IInv /\ [Next]_vars => [\A s \in drawn : Carriers(s) = {} => Carriers(s)' = {}]_vars
    <2> SUFFICES ASSUME IInv, [Next]_vars, NEW s \in drawn, Carriers(s) = {}
                 PROVE  Carriers(s)' = {}
      OBVIOUS
    <2>1. s \in Tokens
      BY DEF IInv, TypeOK
    <2> QED  BY <2>1, CarrierStep
  <1> QED  BY InductiveInvariant, <1>1, PTL DEF Spec, DeadSession

(* Logging out with the current token of a session ends it.                 *)
THEOREM LogoutIsFinal == Spec => LogoutEndsHead
  <1>1. IInv /\ [Next]_vars =>
          [\A r \in Reqs : \A s \in Tokens :
              LogoutDelete(r) /\ IsHead(req[r].token, s) => Carriers(s)' = {}]_vars
    <2> SUFFICES ASSUME IInv, [Next]_vars, NEW r \in Reqs, NEW s \in Tokens,
                        LogoutDelete(r), IsHead(req[r].token, s)
                 PROVE  Carriers(s)' = {}
      OBVIOUS
    <2>0. TypeOK /\ SingleHead /\ PendingIsPrivate
      BY DEF IInv
    <2>1. /\ DOMAIN sessions' \subseteq DOMAIN sessions \ {req[r].token}
          /\ \A t \in DOMAIN sessions' : sessions'[t] = sessions[t]
      BY DEF LogoutDelete, Without
    <2>2. req'[r] = Idle /\ \A q \in Reqs \ {r} : req'[q] = req[q]
      BY <2>0 DEF LogoutDelete, Done, TypeOK
    <2>3. req[r].token \in Carriers(s)
      BY <2>0 DEF IsHead, Carriers, TypeOK
    <2>4. \A t \in Tokens : ~IsHead(t, s)'
      BY <2>0, <2>1, <2>3 DEF IsHead, Carriers, SingleHead
    <2>5. ASSUME NEW t \in Tokens, IsPending(t, s)'
          PROVE  FALSE
      <3>1. PICK q \in Reqs : req'[q].pc = "insert" /\ req'[q].new = t /\ req'[q].sid = s
        BY <2>5 DEF IsPending
      <3>2. req'[q] = req[q]
        BY <2>2, <3>1 DEF Idle
      <3>3. t \in Carriers(s) /\ t # req[r].token
        BY <2>0, <3>1, <3>2 DEF IsPending, Carriers, PendingIsPrivate, Private
      <3> QED  BY <2>0, <2>3, <3>3 DEF SingleHead
    <2> QED  BY <2>4, <2>5 DEF Carriers
  <1> QED  BY InductiveInvariant, <1>1, PTL DEF Spec, LogoutEndsHead

-----------------------------------------------------------------------------
(* Refinement: a claim is the rotation of the presented token, an answered  *)
(* refresh an answer, a login the opening of a session, and every other     *)
(* step leaves what Rotation talks about alone.                             *)
LEMMA RotationStep ==
    ASSUME IInv, [Next]_vars
    PROVE  [Rot!Next]_(Rot!vars)
  <1> DEFINE G == [Rot!Next]_(Rot!vars)
  <1> SUFFICES G
    OBVIOUS
  <1> USE SessionsAssumption
  <1>0. TypeOK /\ RowsFollowSucc /\ ReadsAgree /\ PendingIsPrivate
    BY DEF IInv
  <1>1. ASSUME UNCHANGED <<drawn, succ, answers>>
        PROVE  G
    BY <1>1 DEF Rot!vars
  <1>2. ASSUME NEW r \in Reqs, LoginInsert(r)
        PROVE  G
    BY <1>2 DEF LoginInsert, Rot!Next, Rot!Open
  <1>3. ASSUME NEW r \in Reqs, NEW n, Return(r, n), n # None, n = succ[req[r].token],
               req[r].token \in Tokens, UNCHANGED <<drawn, succ>>
        PROVE  G
    BY <1>3 DEF Return, Rot!Next, Rot!Answer
  <1>4. ASSUME NEW r \in Reqs, RefreshExtend(r)
        PROVE  G
    <2>1. /\ req[r].fallback # None /\ req[r].fallback = succ[req[r].token]
          /\ req[r].token \in Tokens
      BY <1>0, <1>4 DEF RefreshExtend, ReadsAgree, ReadAgrees, TypeOK
    <2> QED  BY <1>3, <1>4, <2>1 DEF RefreshExtend
  <1>5. ASSUME NEW r \in Reqs, RefreshClaim(r)
        PROVE  G
    <2>1. PICK n \in Tokens \ drawn :
             /\ drawn' = drawn \cup {n}
             /\ succ' = [succ EXCEPT ![req[r].token] = n]
             /\ req[r].token \in DOMAIN sessions
             /\ sessions[req[r].token].fallback = None
      BY <1>5, ClaimFacts
    <2>2. req[r].token \in drawn /\ req[r].token \in Tokens /\ succ[req[r].token] = None
      BY <1>0, <2>1 DEF RowsFollowSucc, TypeOK
    <2>3. answers' = answers
      BY <1>5 DEF RefreshClaim
    <2> QED  BY <2>1, <2>2, <2>3 DEF Rot!Next, Rot!Rotate
  <1>6. ASSUME NEW r \in Reqs, RefreshReread(r)
        PROVE  G
    <2>1. CASE req[r].token \in DOMAIN sessions
      <3>1. /\ sessions[req[r].token].fallback # None /\ req[r].token \in Tokens
            /\ sessions[req[r].token].fallback = succ[req[r].token]
        BY <1>0, <1>6, <2>1 DEF RefreshReread, ReadsAgree, ReadAgrees, RowsFollowSucc, TypeOK
      <3> QED  BY <1>3, <1>6, <2>1, <3>1 DEF RefreshReread
    <2>2. CASE req[r].token \notin DOMAIN sessions
      BY <1>1, <1>6, <2>2 DEF RefreshReread
    <2> QED  BY <2>1, <2>2
  <1>7. ASSUME NEW r \in Reqs, RefreshInsert(r)
        PROVE  G
    <2>1. /\ req[r].new # None /\ req[r].new = succ[req[r].token] /\ req[r].token \in Tokens
      BY <1>0, <1>7 DEF RefreshInsert, ReadsAgree, ReadAgrees, PendingIsPrivate, Private, TypeOK
    <2> QED  BY <1>3, <1>7, <2>1 DEF RefreshInsert
  <1> HIDE DEF G
  <1> QED
    <2>1. ASSUME NEW r \in Reqs, Login(r) PROVE G
      BY <1>1, <1>2, <2>1, Deletes, Quiet DEF Login
    <2>2. ASSUME NEW r \in Reqs, Refresh(r) PROVE G
      BY <1>1, <1>4, <1>5, <1>6, <1>7, <2>2, Deletes, Quiet DEF Refresh
    <2>3. ASSUME NEW r \in Reqs, Logout(r) \/ ForeignKeyError(r) \/ Abort(r)
          PROVE  G
      BY <1>1, <2>3, Deletes, Quiet DEF Logout
    <2>4. ASSUME NEW p \in Owners, SetStatus(p) \/ DeleteOwner(p)
          PROVE  G
      BY <1>1, <2>4, Deletes, Quiet
    <2>5. CASE Tick \/ UNCHANGED vars
      BY <1>1, <2>5, Quiet
    <2> QED  BY <2>1, <2>2, <2>3, <2>4, <2>5 DEF Next

(* Sessions implements Rotation: every token is rotated at most once, to a  *)
(* token never handed out before, and is answered with that token only.     *)
THEOREM ImplementsRotation == Spec => RotationSpec
  <1>1. Init => Rot!Init
    BY SessionsAssumption DEF Init, Rot!Init
  <1>2. IInv /\ [Next]_vars => [Rot!Next]_(Rot!vars)
    BY RotationStep
  <1> QED  BY <1>1, <1>2, InductiveInvariant, PTL DEF Spec, RotationSpec, Rot!Spec
=============================================================================
