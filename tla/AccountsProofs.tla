--------------------------- MODULE AccountsProofs ---------------------------
(* Theorems about Accounts, for any users, roles, requests and limit.       *)
EXTENDS Accounts, FiniteSetTheorems, TLAPS

LoginSteps == {"consume", "suspend", "forget", "verify", "success"}

(* The fields of a request fit what it does.                                *)
Shape(q) ==
    /\ q.pc \in {"users", "commit"} => q.op \notin {"none", "login"}
    /\ q.pc = "users" => q.op = "deleteRoles"
    /\ q.pc \in LoginSteps => q.op = "login"
    /\ q.pc = "consume" => ~q.counted
    /\ q.op \in {"acceptInvite", "verifyEmail", "resetPassword", "login"} => \E u \in Users : q.users = {u}
    /\ q.op = "createUser" => q.role # Same /\ q.status \in {"invited", "draft", "active"}
    /\ q.op = "updateUsers" => q.status \in {"active", "suspended", Same}
    /\ q.op = "setUsersOfRole" => q.role \in Roles
    /\ q.op = "updateRoles" => q.access \in {"plain", "admin"}

ShapeInv == \A r \in Reqs : Shape(req[r])

(* What the check of a request has found.                                   *)
Found(q) ==
    /\ q.op = "updateUsers" =>
        /\ (q.role \in Roles /\ role[q.role] # "admin") => AdminUserBeside(q.users)
        /\ q.status \notin {Same, "active"} => ActiveAdminBeside(q.users)
    /\ q.op = "deleteUsers" => AdminUserBeside(q.users)
    /\ q.op = "setUsersOfRole" => AdminUserAfterSet(q.role, q.users) /\ q.users \subseteq Present
    /\ q.op = "updateRoles" => (q.access = "plain" => AdminRoleBeside(q.roles))
    /\ q.op = "deleteRoles" => AdminRoleBeside(q.roles)
    /\ (q.op = "deleteRoles" /\ q.pc = "commit") =>
        /\ q.users = {u \in Present : user[u].role \in q.roles}
        /\ q.users = {} \/ ActiveAdminBeside(q.users)
    /\ q.op = "acceptInvite" => \A u \in q.users : user[u].status = "invited"
    /\ q.op = "verifyEmail" => \A u \in q.users : user[u].status = "draft"
    /\ q.op = "resetPassword" =>
        \A u \in q.users : user[u].status = "active" /\ user[u].password = q.password
    /\ q.pc = "forget" => \A u \in q.users : user[u].status # "active"

(* It still holds unless the request was overtaken.                         *)
FoundInv == \A r \in Reqs : Checked(r) /\ ~req[r].stale => Found(req[r])

(* A reset link was issued for a password the user had, and a spent one for *)
(* a password that was replaced.                                            *)
LinkInv ==
    /\ \A r \in Reqs : req[r].op = "resetPassword" =>
            \A u \in req[r].users : req[r].password <= user[u].password
    /\ \A l \in spent : l.password < user[l.user].password

(* The logins of a user that were counted and not yet refused or accepted.  *)
Counted(u) == {r \in Reqs : u \in req[r].users /\ req[r].pc \in {"suspend", "verify"} /\ req[r].counted}

AttemptsInv ==
    \A u \in Users :
        /\ refused[u] + Cardinality(Counted(u)) <= attempts[u]
        /\ attempts[u] > MaxAttempts =>
            \E r \in Reqs : u \in req[r].users /\ req[r].pc \in {"suspend", "forget"}

IInv == TypeOK /\ ShapeInv /\ FoundInv /\ LinkInv /\ AttemptsInv

-----------------------------------------------------------------------------
(* Requests.                                                                *)

LEMMA IdleType == Idle \in Request /\ Over \in Request /\ Over.pc = "done" /\ Over.op = "none" /\ Shape(Over)
BY DEF Idle, Over, Request, Operations, Steps, Statuses, Access, Shape, LoginSteps

(* A request that begins has found what it checked.                         *)
Begun(r, new) ==
    /\ new \in Request /\ Shape(new) /\ Found(new)
    /\ new.pc \in {"users", "commit", "consume"} /\ ~new.counted
    /\ new.op = "resetPassword" => \A u \in new.users : new.password <= user[u].password
    /\ Start(r, new)

Begins(r) ==
    \/ \E u \in Users, x \in Roles \cup {None}, s \in {"invited", "active"} : CreateUser(r, u, x, s)
    \/ \E U \in SUBSET Present \ {{}}, x \in Roles \cup {None, Same}, s \in {"active", "suspended", Same} :
        Same \in {x, s} /\ UpdateUsers(r, U, x, s)
    \/ \E U \in SUBSET Present \ {{}} : DeleteUsers(r, U)
    \/ \E u \in Users : AcceptInvite(r, u) \/ VerifyEmail(r, u) \/ Register(r, u)
    \/ \E u \in Users, x \in Roles : Invite(r, u, x)
    \/ \E u \in Users : \E p \in 0..user[u].password : ResetPassword(r, [user |-> u, password |-> p])
    \/ \E x \in Roles, U \in SUBSET Present : SetUsersOfRole(r, x, U)
    \/ \E R \in SUBSET Roles \ {{}}, access \in {"plain", "admin"} : UpdateRoles(r, R, access)
    \/ \E R \in SUBSET Roles \ {{}} : DeleteRoles(r, R)
    \/ \E u \in Users : Login(r, u)

LEMMA CreateBegins ==
    ASSUME NEW r \in Reqs, NEW u \in Users, NEW x \in Roles \cup {None},
           NEW s \in {"invited", "draft", "active"}, CreateUser(r, u, x, s)
    PROVE  \E new : Begun(r, new)
<1> DEFINE new == [Idle EXCEPT !.op = "createUser", !.pc = "commit", !.users = {u}, !.role = x, !.status = s]
<1>1. new \in Request /\ new.op = "createUser" /\ new.pc = "commit" /\ new.role = x /\ new.status = s /\ ~new.counted
  BY DEF Idle, Request, Operations, Steps, Statuses, Access
<1>2. Shape(new) /\ Found(new)
  BY <1>1, AccountsAssumption DEF Shape, Found, LoginSteps
<1>3. Start(r, new)
  BY DEF CreateUser
<1> HIDE DEF new
<1> QED BY <1>1, <1>2, <1>3 DEF Begun

LEMMA UpdateBegins ==
    ASSUME NEW r \in Reqs, NEW U \in SUBSET Users, NEW x \in Roles \cup {None, Same},
           NEW s \in {"active", "suspended", Same}, UpdateUsers(r, U, x, s)
    PROVE  \E new : Begun(r, new)
<1> DEFINE new == [Idle EXCEPT !.op = "updateUsers", !.pc = "commit", !.users = U, !.role = x, !.status = s]
<1>1. new \in Request /\ new.op = "updateUsers" /\ new.pc = "commit" /\ new.users = U /\ new.role = x
      /\ new.status = s /\ ~new.counted
  BY DEF Idle, Request, Operations, Steps, Statuses, Access
<1>2. /\ (x \in Roles /\ role[x] # "admin") => AdminUserBeside(U)
      /\ s \notin {Same, "active"} => ActiveAdminBeside(U)
      /\ Start(r, new)
  BY DEF UpdateUsers
<1>3. Shape(new) /\ Found(new)
  BY <1>1, <1>2 DEF Shape, Found, LoginSteps
<1> HIDE DEF new
<1> QED BY <1>1, <1>2, <1>3 DEF Begun

LEMMA Beginning ==
    ASSUME TypeOK, NEW r \in Reqs, Begins(r)
    PROVE  \E new : Begun(r, new)
<1>0. Present \subseteq Users
  BY DEF Present
<1>1. ASSUME NEW u \in Users, NEW x \in Roles \cup {None}, NEW s \in {"invited", "active"},
             CreateUser(r, u, x, s)
      PROVE  \E new : Begun(r, new)
  BY <1>1, CreateBegins
<1>2. ASSUME NEW U \in SUBSET Present, NEW x \in Roles \cup {None, Same},
             NEW s \in {"active", "suspended", Same}, UpdateUsers(r, U, x, s)
      PROVE  \E new : Begun(r, new)
  BY <1>0, <1>2, UpdateBegins
<1>3. ASSUME NEW U \in SUBSET Present, DeleteUsers(r, U) PROVE \E new : Begun(r, new)
  <2> DEFINE new == [Idle EXCEPT !.op = "deleteUsers", !.pc = "commit", !.users = U]
  <2>1. new \in Request /\ new.op = "deleteUsers" /\ new.pc = "commit" /\ new.users = U /\ ~new.counted
    BY <1>0 DEF Idle, Request, Operations, Steps, Statuses, Access
  <2>2. Shape(new) /\ Found(new) /\ Start(r, new)
    BY <1>3, <2>1 DEF Shape, Found, LoginSteps, DeleteUsers
  <2> HIDE DEF new
  <2> QED BY <2>1, <2>2 DEF Begun
<1>4. ASSUME NEW u \in Users, AcceptInvite(r, u) PROVE \E new : Begun(r, new)
  <2> DEFINE new == [Idle EXCEPT !.op = "acceptInvite", !.pc = "commit", !.users = {u}]
  <2>1. new \in Request /\ new.op = "acceptInvite" /\ new.pc = "commit" /\ new.users = {u} /\ ~new.counted
    BY DEF Idle, Request, Operations, Steps, Statuses, Access
  <2>2. Shape(new) /\ Found(new) /\ Start(r, new)
    BY <1>4, <2>1 DEF Shape, Found, LoginSteps, AcceptInvite
  <2> HIDE DEF new
  <2> QED BY <2>1, <2>2 DEF Begun
<1>5. ASSUME NEW u \in Users, NEW x \in Roles, Invite(r, u, x) PROVE \E new : Begun(r, new)
  <2>1. CASE CreateUser(r, u, x, "invited")
    BY <2>1, CreateBegins
  <2>2. CASE UpdateUsers(r, {u}, x, Same)
    BY <2>2, UpdateBegins
  <2> QED BY <1>5, <2>1, <2>2 DEF Invite
<1>6. ASSUME NEW u \in Users, NEW p \in 0..user[u].password, ResetPassword(r, [user |-> u, password |-> p])
      PROVE  \E new : Begun(r, new)
  <2> DEFINE new == [Idle EXCEPT !.op = "resetPassword", !.pc = "commit", !.users = {u}, !.password = p]
  <2>0. p \in Nat
    BY DEF TypeOK, User
  <2>1. new \in Request /\ new.op = "resetPassword" /\ new.pc = "commit" /\ new.users = {u}
        /\ new.password = p /\ ~new.counted
    BY <2>0 DEF Idle, Request, Operations, Steps, Statuses, Access
  <2>2. Start(r, new) /\ user[u].status = "active" /\ user[u].password = p
    BY <1>6 DEF ResetPassword
  <2>3. Shape(new) /\ Found(new)
    BY <2>1, <2>2 DEF Shape, Found, LoginSteps
  <2> HIDE DEF new
  <2> QED BY <2>1, <2>2, <2>3 DEF Begun
<1>7. ASSUME NEW x \in Roles, NEW U \in SUBSET Present, SetUsersOfRole(r, x, U)
      PROVE  \E new : Begun(r, new)
  <2> DEFINE new == [Idle EXCEPT !.op = "setUsersOfRole", !.pc = "commit", !.users = U, !.role = x]
  <2>1. new \in Request /\ new.op = "setUsersOfRole" /\ new.pc = "commit" /\ new.users = U
        /\ new.role = x /\ ~new.counted
    BY <1>0 DEF Idle, Request, Operations, Steps, Statuses, Access
  <2>2. Shape(new) /\ Found(new) /\ Start(r, new)
    BY <1>7, <2>1 DEF Shape, Found, LoginSteps, SetUsersOfRole
  <2> HIDE DEF new
  <2> QED BY <2>1, <2>2 DEF Begun
<1>8. ASSUME NEW R \in SUBSET Roles, NEW access \in {"plain", "admin"}, UpdateRoles(r, R, access)
      PROVE  \E new : Begun(r, new)
  <2> DEFINE new == [Idle EXCEPT !.op = "updateRoles", !.pc = "commit", !.roles = R, !.access = access]
  <2>1. new \in Request /\ new.op = "updateRoles" /\ new.pc = "commit" /\ new.roles = R
        /\ new.access = access /\ ~new.counted
    BY DEF Idle, Request, Operations, Steps, Statuses, Access
  <2>2. Shape(new) /\ Found(new) /\ Start(r, new)
    BY <1>8, <2>1 DEF Shape, Found, LoginSteps, UpdateRoles
  <2> HIDE DEF new
  <2> QED BY <2>1, <2>2 DEF Begun
<1>9. ASSUME NEW R \in SUBSET Roles, DeleteRoles(r, R) PROVE \E new : Begun(r, new)
  <2> DEFINE new == [Idle EXCEPT !.op = "deleteRoles", !.pc = "users", !.roles = R]
  <2>1. new \in Request /\ new.op = "deleteRoles" /\ new.pc = "users" /\ new.roles = R /\ ~new.counted
    BY DEF Idle, Request, Operations, Steps, Statuses, Access
  <2>2. Shape(new) /\ Found(new) /\ Start(r, new)
    BY <1>9, <2>1 DEF Shape, Found, LoginSteps, DeleteRoles
  <2> HIDE DEF new
  <2> QED BY <2>1, <2>2 DEF Begun
<1>10. ASSUME NEW u \in Users, Login(r, u) PROVE \E new : Begun(r, new)
  <2> DEFINE new == [Idle EXCEPT !.op = "login", !.pc = "consume", !.users = {u}]
  <2>1. new \in Request /\ new.op = "login" /\ new.pc = "consume" /\ new.users = {u} /\ ~new.counted
    BY DEF Idle, Request, Operations, Steps, Statuses, Access
  <2>2. Shape(new) /\ Found(new) /\ Start(r, new)
    BY <1>10, <2>1 DEF Shape, Found, LoginSteps, Login
  <2> HIDE DEF new
  <2> QED BY <2>1, <2>2 DEF Begun
<1>11. ASSUME NEW u \in Users, VerifyEmail(r, u) PROVE \E new : Begun(r, new)
  <2> DEFINE new == [Idle EXCEPT !.op = "verifyEmail", !.pc = "commit", !.users = {u}]
  <2>1. new \in Request /\ new.op = "verifyEmail" /\ new.pc = "commit" /\ new.users = {u} /\ ~new.counted
    BY DEF Idle, Request, Operations, Steps, Statuses, Access
  <2>2. Shape(new) /\ Found(new) /\ Start(r, new)
    BY <1>11, <2>1 DEF Shape, Found, LoginSteps, VerifyEmail
  <2> HIDE DEF new
  <2> QED BY <2>1, <2>2 DEF Begun
<1>12. ASSUME NEW u \in Users, Register(r, u) PROVE \E new : Begun(r, new)
  BY <1>12, CreateBegins, AccountsAssumption DEF Register
<1> QED BY <1>1, <1>2, <1>3, <1>4, <1>5, <1>6, <1>7, <1>8, <1>9, <1>10, <1>11, <1>12 DEF Begins

-----------------------------------------------------------------------------
(* Steps that leave users and roles alone.                                  *)

LEMMA SameFound ==
    ASSUME user' = user, role' = role, NEW q, NEW p, req'[q] = p, Found(p)
    PROVE  Found(req[q])'
BY DEF Found, AdminUserBeside, ActiveAdminBeside, AdminRoleBeside, AdminUserAfterSet,
       AdminUsers, ActiveAdmins, AdminRoles, Present

LEMMA CountedFinite == ASSUME NEW u PROVE IsFiniteSet(Counted(u)) /\ Cardinality(Counted(u)) \in Nat
<1>1. Counted(u) \subseteq Reqs
  BY DEF Counted
<1> QED BY <1>1, AccountsAssumption, FS_Subset, FS_CardinalityType

(* What one request's step must show to keep the invariant, when nothing    *)
(* but its record and what AttemptsInv is about changes.                    *)
LEMMA MoveInv ==
    ASSUME IInv, NEW r \in Reqs, NEW new \in Request,
           req' = [req EXCEPT ![r] = new],
           user' = user, role' = role, spent' = spent,
           Shape(new), new.pc \in {"users", "commit", "forget"} /\ ~new.stale => Found(new),
           new.op = "resetPassword" => \A u \in new.users : new.password <= user[u].password,
           attempts' \in [Users -> Nat], refused' \in [Users -> Nat], AttemptsInv'
    PROVE  IInv'
<1>1. TypeOK'
  BY DEF IInv, TypeOK
<1>2. ShapeInv'
  BY DEF IInv, TypeOK, ShapeInv
<1>3. FoundInv'
  <2> SUFFICES ASSUME NEW q \in Reqs, Checked(q)', ~req'[q].stale PROVE Found(req[q])'
    BY DEF FoundInv
  <2>1. CASE q = r
    <3>1. req'[q] = new
      BY <2>1 DEF IInv, TypeOK
    <3>2. Found(new)
      BY <3>1 DEF Checked
    <3> QED BY <3>1, <3>2, SameFound
  <2>2. CASE q # r
    <3>1. req'[q] = req[q]
      BY <2>2 DEF IInv, TypeOK
    <3>2. Found(req[q])
      BY <3>1 DEF IInv, FoundInv, Checked
    <3> QED BY <3>1, <3>2, SameFound
  <2> QED BY <2>1, <2>2
<1>4. LinkInv'
  <2>1. \A q \in Reqs : req'[q] = IF q = r THEN new ELSE req[q]
    BY DEF IInv, TypeOK
  <2> QED BY <2>1 DEF IInv, LinkInv
<1> QED BY <1>1, <1>2, <1>3, <1>4 DEF IInv

(* A step of one request that is not counted before and after, nor was      *)
(* about to suspend or to forget.                                           *)
LEMMA QuietAttempts ==
    ASSUME TypeOK, AttemptsInv, NEW r \in Reqs, NEW new \in Request,
           req' = [req EXCEPT ![r] = new], attempts' = attempts, refused' = refused,
           req[r].pc \notin {"suspend", "forget", "verify"},
           new.pc \in {"suspend", "verify"} => ~new.counted
    PROVE  AttemptsInv'
<1> SUFFICES ASSUME NEW u \in Users
             PROVE  /\ refused[u] + Cardinality(Counted(u)') <= attempts[u]
                    /\ attempts[u] > MaxAttempts =>
                         \E q \in Reqs : u \in req'[q].users /\ req'[q].pc \in {"suspend", "forget"}
  BY DEF AttemptsInv
<1>1. Counted(u)' = Counted(u)
  BY DEF Counted, TypeOK
<1>2. ASSUME NEW q \in Reqs, req[q].pc \in {"suspend", "forget"} PROVE req'[q] = req[q]
  BY <1>2 DEF TypeOK
<1> QED BY <1>1, <1>2 DEF AttemptsInv

LEMMA BeginInv == ASSUME IInv, NEW r \in Reqs, Begins(r) PROVE IInv'
<1>1. PICK new : Begun(r, new)
  BY Beginning DEF IInv
<1>2. AttemptsInv'
  BY <1>1, QuietAttempts DEF IInv, Begun, Start
<1>3. attempts' \in [Users -> Nat] /\ refused' \in [Users -> Nat]
  BY <1>1 DEF IInv, TypeOK, Begun, Start
<1> QED BY <1>1, <1>2, <1>3, MoveInv DEF Begun, Start

LEMMA SuspendUsersInv == ASSUME IInv, NEW r \in Reqs, SuspendUsersOfRoles(r) PROVE IInv'
<1> DEFINE U == {u \in Present : user[u].role \in req[r].roles}
           moved == [req[r] EXCEPT !.pc = "commit", !.users = U]
           new == IF U = {} \/ ActiveAdminBeside(U) THEN moved ELSE Over
<1>1. req[r] \in Request /\ U \subseteq Users /\ req[r].op = "deleteRoles" /\ req[r].pc = "users"
  BY DEF IInv, TypeOK, ShapeInv, Shape, SuspendUsersOfRoles, Present
<1>2. /\ moved \in Request /\ moved.pc = "commit" /\ moved.op = "deleteRoles" /\ moved.users = U
      /\ moved.roles = req[r].roles /\ moved.stale = req[r].stale
  BY <1>1 DEF Request, Steps
<1>3. Shape(moved)
  BY <1>2 DEF Shape, LoginSteps
<1>4. ASSUME ~moved.stale, U = {} \/ ActiveAdminBeside(U) PROVE Found(moved)
  <2>1. Found(req[r])
    BY <1>1, <1>2, <1>4 DEF IInv, FoundInv, Checked
  <2>2. AdminRoleBeside(moved.roles)
    BY <1>1, <1>2, <2>1 DEF Found
  <2> HIDE DEF moved
  <2> QED BY <1>2, <1>4, <2>2 DEF Found
<1>5. /\ req' = [req EXCEPT ![r] = new] /\ UNCHANGED <<user, role, attempts, refused, spent>>
  BY DEF SuspendUsersOfRoles
<1>6. new \in Request /\ Shape(new) /\ (new.pc \in {"users", "commit", "forget"} /\ ~new.stale => Found(new))
  BY <1>2, <1>3, <1>4, IdleType
<1>7. new.pc \in {"commit", "done"} /\ new.op # "resetPassword"
  BY <1>2, IdleType
<1> HIDE DEF new
<1>8. AttemptsInv'
  BY <1>1, <1>5, <1>6, <1>7, QuietAttempts DEF IInv
<1> QED BY <1>5, <1>6, <1>7, <1>8, MoveInv DEF IInv, TypeOK

LEMMA FailInv == ASSUME IInv, NEW r \in Reqs, Fail(r) PROVE IInv'
<1>1. AttemptsInv'
  BY IdleType, QuietAttempts DEF IInv, Fail
<1> QED BY <1>1, IdleType, MoveInv DEF IInv, TypeOK, Fail

-----------------------------------------------------------------------------
(* Mutations.                                                               *)

LEMMA OvertakeShape ==
    ASSUME NEW q \in Request, Shape(q)
    PROVE  LET s == [q EXCEPT !.stale = TRUE] IN s \in Request /\ Shape(s)
BY DEF Shape, Request

LEMMA CommitInv ==
    ASSUME IInv, NEW r \in Reqs, req[r].pc = "commit", Overtake(r),
           user' \in [Users -> User], role' \in [Roles -> Access],
           \A u \in Users : user'[u].role # None => role'[user'[u].role] # "absent",
           \A u \in Users : user[u].password <= user'[u].password,
           \A l \in spent' : l.password < user'[l.user].password,
           attempts' = attempts, refused' = refused, spent' \in SUBSET Link
    PROVE  IInv'
<1> DEFINE late(q) == [req[q] EXCEPT !.stale = TRUE]
<1>1. \A q \in Reqs : req[q] \in Request /\ Shape(req[q])
  BY DEF IInv, TypeOK, ShapeInv
<1>2. \A q \in Reqs : /\ late(q) \in Request /\ Shape(late(q)) /\ late(q).stale
                      /\ late(q).pc = req[q].pc /\ late(q).users = req[q].users
                      /\ late(q).counted = req[q].counted
  BY <1>1, OvertakeShape DEF Request
<1> HIDE DEF late
<1>3. req' = [q \in Reqs |-> IF q = r THEN Over
                            ELSE IF Checked(q) /\ (user' # user \/ role' # role) THEN late(q) ELSE req[q]]
  BY DEF Overtake, late
<1>4. TypeOK'
  <2>1. req' \in [Reqs -> Request]
    BY <1>1, <1>2, <1>3, IdleType
  <2> QED BY <2>1 DEF IInv, TypeOK
<1>5. ShapeInv'
  BY <1>1, <1>2, <1>3, IdleType DEF ShapeInv
<1>6. FoundInv'
  <2> SUFFICES ASSUME NEW q \in Reqs, Checked(q)', ~req'[q].stale PROVE Found(req[q])'
    BY DEF FoundInv
  <2>1. q # r /\ req'[q] = req[q]
    BY <1>2, <1>3, IdleType DEF Checked
  <2>2. user' = user /\ role' = role /\ Found(req[q])
    BY <1>2, <1>3, <2>1 DEF Checked, IInv, FoundInv
  <2> QED BY <2>1, <2>2, SameFound
<1>8. LinkInv'
  <2> SUFFICES ASSUME NEW q \in Reqs, req'[q].op = "resetPassword", NEW u \in req'[q].users
               PROVE  req'[q].password <= user'[u].password
    BY DEF LinkInv
  <2>1. /\ req[q] \in Request /\ req[q].op = "resetPassword" /\ u \in req[q].users
        /\ req'[q].password = req[q].password
    <3>1. Over.op # "resetPassword"
      BY DEF Over, Idle
    <3>2. late(q).op = req[q].op /\ late(q).password = req[q].password
      BY <1>1 DEF late, Request
    <3> QED BY <1>1, <1>2, <1>3, <3>1, <3>2
  <2>2. u \in Users /\ req[q].password \in Nat /\ user[u].password \in Nat /\ user'[u].password \in Nat
    BY <2>1 DEF Request, IInv, TypeOK, User
  <2> QED BY <2>1, <2>2 DEF IInv, LinkInv
<1>7. AttemptsInv'
  <2> SUFFICES ASSUME NEW u \in Users
               PROVE  /\ refused[u] + Cardinality(Counted(u)') <= attempts[u]
                      /\ attempts[u] > MaxAttempts =>
                           \E q \in Reqs : u \in req'[q].users /\ req'[q].pc \in {"suspend", "forget"}
    BY DEF AttemptsInv
  <2>1. \A q \in Reqs : q # r => /\ req'[q].pc = req[q].pc /\ req'[q].users = req[q].users
                                /\ req'[q].counted = req[q].counted
    BY <1>2, <1>3
  <2>2. req'[r].pc = "done"
    BY <1>3, IdleType
  <2>3. Counted(u)' = Counted(u)
    BY <2>1, <2>2 DEF Counted
  <2>4. ASSUME NEW q \in Reqs, req[q].pc \in {"suspend", "forget"} PROVE q # r
    BY <2>4
  <2> QED BY <2>1, <2>3, <2>4 DEF IInv, AttemptsInv
<1> QED BY <1>4, <1>5, <1>6, <1>7, <1>8 DEF IInv

(* What every mutation does to the tables and to the links.                 *)
UsersFit ==
    /\ user' \in [Users -> User] /\ role' \in [Roles -> Access]
    /\ \A u \in Users : user'[u].role # None => role'[user'[u].role] # "absent"
    /\ \A u \in Users : user[u].password <= user'[u].password

Becomes(z, s, y, p) == z \in User /\ z.status = s /\ z.role = y /\ z.password = p

LEMMA RowFields ==
    ASSUME NEW s \in Statuses, NEW y \in Roles \cup {None}, NEW p \in Nat
    PROVE  Becomes(Row(s, y, p), s, y, p)
BY DEF User, Becomes, Row

LEMMA UserFields ==
    ASSUME NEW x \in User
    PROVE  x.status \in Statuses /\ x.role \in Roles \cup {None} /\ x.password \in Nat /\ x.password + 1 \in Nat
BY DEF User

LEMMA CreateFits == ASSUME IInv, NEW r \in Reqs, CommitCreateUser(r) PROVE UsersFit
<1>1. req[r] \in Request /\ Shape(req[r]) /\ req[r].op = "createUser"
  BY DEF IInv, TypeOK, ShapeInv, CommitCreateUser, Committing
<1>2. PICK u \in req[r].users :
        /\ req[r].role # None => role[req[r].role] # "absent"
        /\ user' = [user EXCEPT ![u] = Row(req[r].status, req[r].role, user[u].password + 1)]
  BY DEF CommitCreateUser
<1> DEFINE new == Row(req[r].status, req[r].role, user[u].password + 1)
<1>3. u \in Users /\ req[r].role \in Roles \cup {None} /\ req[r].status \in Statuses /\ user[u] \in User
  BY <1>1 DEF Request, Shape, Statuses, IInv, TypeOK
<1>4. new \in User /\ new.role = req[r].role /\ new.password = user[u].password + 1
  <2>1. Becomes(new, req[r].status, req[r].role, user[u].password + 1)
    BY <1>3, RowFields, UserFields
  <2> QED BY <2>1 DEF Becomes
<1> HIDE DEF new
<1>5. user' = [user EXCEPT ![u] = new] /\ role' = role
  BY <1>2 DEF CommitCreateUser, new
<1>6. user' \in [Users -> User] /\ role' \in [Roles -> Access]
  BY <1>4, <1>5 DEF IInv, TypeOK
<1>7. \A v \in Users : user'[v] = IF v = u THEN new ELSE user[v]
  BY <1>3, <1>5 DEF IInv, TypeOK
<1>8. \A v \in Users : user[v].password \in Nat
  BY DEF IInv, TypeOK, User
<1> QED BY <1>2, <1>4, <1>5, <1>6, <1>7, <1>8 DEF UsersFit, IInv, TypeOK

LEMMA UpdateUsersFits == ASSUME IInv, NEW r \in Reqs, CommitUpdateUsers(r) PROVE UsersFit
<1>1. /\ req[r].role \in Roles \cup {None, Same} /\ req[r].status \in {"active", "suspended", Same}
      /\ req[r].role \in Roles => role[req[r].role] # "absent"
      /\ role' = role
  BY DEF IInv, TypeOK, ShapeInv, Shape, Request, CommitUpdateUsers, Committing
<1>2. ASSUME NEW u \in Users
      PROVE  /\ user[u].password \in Nat
             /\ user'[u] \in User /\ user'[u].password = user[u].password
             /\ user'[u].role # None => role[user'[u].role] # "absent"
  <2> DEFINE x == IF req[r].role = Same THEN user[u].role ELSE req[r].role
             s == IF req[r].status = Same THEN user[u].status ELSE req[r].status
  <2>1. user[u] \in User /\ user[u].password \in Nat
    BY DEF IInv, TypeOK, User
  <2>2. x \in Roles \cup {None} /\ s \in Statuses /\ (x # None => role[x] # "absent")
    BY <1>1, <2>1, UserFields DEF Statuses, IInv, TypeOK
  <2>3. user'[u] = IF u \in req[r].users \cap Present THEN Row(s, x, user[u].password) ELSE user[u]
    BY DEF CommitUpdateUsers
  <2> HIDE DEF x, s
  <2>4. CASE u \in req[r].users \cap Present
    <3>1. Becomes(user'[u], s, x, user[u].password)
      BY <2>1, <2>2, <2>3, <2>4, RowFields
    <3> QED BY <2>1, <2>2, <3>1 DEF Becomes
  <2>5. CASE u \notin req[r].users \cap Present
    BY <2>1, <2>3, <2>5 DEF IInv, TypeOK
  <2> QED BY <2>4, <2>5
<1>3. user' \in [Users -> User]
  BY <1>2 DEF CommitUpdateUsers
<1> QED BY <1>1, <1>2, <1>3 DEF UsersFit, IInv, TypeOK

LEMMA DeleteUsersFits == ASSUME IInv, NEW r \in Reqs, CommitDeleteUsers(r) PROVE UsersFit
<1>1. \A u \in Users : user[u] \in User /\ user[u].password \in Nat
  BY DEF IInv, TypeOK, User
<1>2. /\ role' = role
      /\ user' = [u \in Users |-> IF u \in req[r].users
                                   THEN Row("absent", None, user[u].password) ELSE user[u]]
  BY DEF CommitDeleteUsers
<1>3. ASSUME NEW u \in Users
      PROVE  /\ user'[u] \in User /\ user'[u].password = user[u].password
             /\ user'[u].role # None => role[user'[u].role] # "absent"
  <2>1. CASE u \in req[r].users
    <3>1. Becomes(user'[u], "absent", None, user[u].password)
      BY <1>1, <1>2, <2>1, RowFields, UserFields DEF Statuses
    <3> QED BY <1>1, <3>1 DEF Becomes
  <2>2. CASE u \notin req[r].users
    BY <1>1, <1>2, <2>2 DEF IInv, TypeOK
  <2> QED BY <2>1, <2>2
<1> QED BY <1>1, <1>2, <1>3 DEF UsersFit, IInv, TypeOK

LEMMA VerifyFits == ASSUME IInv, NEW r \in Reqs, CommitVerifyEmail(r) PROVE UsersFit
<1>1. \A u \in Users : user[u] \in User /\ user[u].password \in Nat /\ user[u].password + 1 \in Nat
  BY DEF IInv, TypeOK, User
<1>2. /\ role' = role
      /\ user' = [u \in Users |-> IF u \in req[r].users \cap Present
                                   THEN Row("active", user[u].role, user[u].password) ELSE user[u]]
  BY DEF CommitVerifyEmail
<1>3. ASSUME NEW u \in Users
      PROVE  /\ user'[u] \in User /\ user'[u].password >= user[u].password
             /\ user'[u].role # None => role[user'[u].role] # "absent"
  <2>1. CASE u \in req[r].users \cap Present
    <3>1. Becomes(user'[u], "active", user[u].role, user[u].password)
      BY <1>1, <1>2, <2>1, RowFields, UserFields DEF Statuses
    <3> QED BY <1>1, <3>1 DEF Becomes, IInv, TypeOK
  <2>2. CASE u \notin req[r].users \cap Present
    BY <1>1, <1>2, <2>2 DEF IInv, TypeOK
  <2> QED BY <2>1, <2>2
<1> QED BY <1>1, <1>2, <1>3 DEF UsersFit, IInv, TypeOK, User

LEMMA PasswordFits == ASSUME IInv, NEW r \in Reqs, CommitPassword(r) PROVE UsersFit
<1>1. \A u \in Users : user[u] \in User /\ user[u].password \in Nat /\ user[u].password + 1 \in Nat
  BY DEF IInv, TypeOK, User
<1>2. /\ role' = role
      /\ user' = [u \in Users |-> IF u \in req[r].users \cap Present
                                   THEN Row("active", user[u].role, user[u].password + 1) ELSE user[u]]
  BY DEF CommitPassword
<1>3. ASSUME NEW u \in Users
      PROVE  /\ user'[u] \in User /\ user'[u].password >= user[u].password
             /\ user'[u].role # None => role[user'[u].role] # "absent"
  <2>1. CASE u \in req[r].users \cap Present
    <3>1. Becomes(user'[u], "active", user[u].role, user[u].password + 1)
      BY <1>1, <1>2, <2>1, RowFields, UserFields DEF Statuses
    <3> QED BY <1>1, <3>1 DEF Becomes, IInv, TypeOK
  <2>2. CASE u \notin req[r].users \cap Present
    BY <1>1, <1>2, <2>2 DEF IInv, TypeOK
  <2> QED BY <2>1, <2>2
<1> QED BY <1>1, <1>2, <1>3 DEF UsersFit, IInv, TypeOK, User

LEMMA SetUsersFits == ASSUME IInv, NEW r \in Reqs, CommitSetUsersOfRole(r) PROVE UsersFit
<1>1. \A u \in Users : user[u] \in User /\ user[u].password \in Nat
  BY DEF IInv, TypeOK, User
<1>2. /\ role' = role /\ req[r].role \in Roles /\ role[req[r].role] # "absent"
      /\ user' = [u \in Users |->
                    IF u \in req[r].users \cap Present THEN Row(user[u].status, req[r].role, user[u].password)
                    ELSE IF user[u].role = req[r].role THEN Row(user[u].status, None, user[u].password)
                    ELSE user[u]]
  BY DEF CommitSetUsersOfRole, Committing, IInv, ShapeInv, Shape
<1>3. ASSUME NEW u \in Users
      PROVE  /\ user'[u] \in User /\ user'[u].password = user[u].password
             /\ user'[u].role # None => role[user'[u].role] # "absent"
  <2>2. CASE u \in req[r].users \cap Present
    <3>1. Becomes(user'[u], user[u].status, req[r].role, user[u].password)
      BY <1>1, <1>2, <2>2, RowFields, UserFields
    <3> QED BY <1>1, <1>2, <3>1 DEF Becomes
  <2>3. CASE u \notin req[r].users \cap Present /\ user[u].role = req[r].role
    <3>1. Becomes(user'[u], user[u].status, None, user[u].password)
      BY <1>1, <1>2, <2>3, RowFields, UserFields
    <3> QED BY <1>1, <3>1 DEF Becomes
  <2>4. CASE u \notin req[r].users \cap Present /\ user[u].role # req[r].role
    BY <1>1, <1>2, <2>4 DEF IInv, TypeOK
  <2> QED BY <2>2, <2>3, <2>4
<1> QED BY <1>1, <1>2, <1>3 DEF UsersFit, IInv, TypeOK

LEMMA UpdateRolesFits == ASSUME IInv, NEW r \in Reqs, CommitUpdateRoles(r) PROVE UsersFit
<1>1. req[r].access \in {"plain", "admin"} /\ user' = user
      /\ role' = [x \in Roles |->
                    IF x \in req[r].roles /\ role[x] # "absent" THEN req[r].access ELSE role[x]]
  BY DEF CommitUpdateRoles, Committing, IInv, ShapeInv, Shape
<1>2. role' \in [Roles -> Access] /\ \A x \in Roles : role[x] # "absent" => role'[x] # "absent"
  BY <1>1 DEF IInv, TypeOK, Access
<1>3. \A u \in Users : user[u].role \in Roles \cup {None} /\ user[u].password \in Nat
  BY DEF IInv, TypeOK, User
<1> QED BY <1>1, <1>2, <1>3 DEF UsersFit, IInv, TypeOK

LEMMA DeleteRolesFits == ASSUME IInv, NEW r \in Reqs, CommitDeleteRoles(r) PROVE UsersFit
<1>1. \A u \in Users : user[u] \in User /\ user[u].password \in Nat
  BY DEF IInv, TypeOK, User
<1>2. /\ role' = [x \in Roles |-> IF x \in req[r].roles THEN "absent" ELSE role[x]]
      /\ user' = [u \in Users |->
                    IF u \in req[r].users \cap Present
                    THEN Row("suspended", None, user[u].password)
                    ELSE IF user[u].role \in req[r].roles THEN Row(user[u].status, None, user[u].password)
                    ELSE user[u]]
  BY DEF CommitDeleteRoles
<1>3. role' \in [Roles -> Access]
  BY <1>2 DEF IInv, TypeOK, Access
<1>4. ASSUME NEW u \in Users
      PROVE  /\ user'[u] \in User /\ user'[u].password = user[u].password
             /\ user'[u].role # None => user'[u].role = user[u].role /\ user[u].role \notin req[r].roles
  <2>1. CASE u \in req[r].users \cap Present
    <3>1. Becomes(user'[u], "suspended", None, user[u].password)
      BY <1>1, <1>2, <2>1, RowFields, UserFields DEF Statuses
    <3> QED BY <1>1, <3>1 DEF Becomes
  <2>2. CASE u \notin req[r].users \cap Present /\ user[u].role \in req[r].roles
    <3>1. Becomes(user'[u], user[u].status, None, user[u].password)
      BY <1>1, <1>2, <2>2, RowFields, UserFields DEF Statuses
    <3> QED BY <1>1, <3>1 DEF Becomes
  <2>3. CASE u \notin req[r].users \cap Present /\ user[u].role \notin req[r].roles
    BY <1>1, <1>2, <2>3 DEF IInv, TypeOK
  <2> QED BY <2>1, <2>2, <2>3
<1>5. \A u \in Users : user'[u].role # None => role'[user'[u].role] # "absent"
  <2> SUFFICES ASSUME NEW u \in Users, user'[u].role # None PROVE role'[user'[u].role] # "absent"
    OBVIOUS
  <2>1. user[u].role # None /\ user'[u].role = user[u].role /\ user[u].role \notin req[r].roles
    BY <1>4
  <2>2. user[u].role \in Roles /\ role[user[u].role] # "absent"
    BY <1>1, <2>1 DEF User, IInv, TypeOK
  <2> QED BY <1>2, <2>1, <2>2
<1> QED BY <1>1, <1>2, <1>3, <1>4, <1>5 DEF UsersFit

LEMMA CommitKeeps == ASSUME IInv, NEW r \in Reqs, Commit(r) PROVE IInv'
<1>1. UsersFit
  BY CreateFits, UpdateUsersFits, DeleteUsersFits, VerifyFits, PasswordFits, SetUsersFits, UpdateRolesFits, DeleteRolesFits
     DEF Commit
<1>2. req[r].pc = "commit" /\ Overtake(r) /\ attempts' = attempts /\ refused' = refused
  BY DEF Commit, Committing, CommitCreateUser, CommitUpdateUsers, CommitDeleteUsers, CommitVerifyEmail, CommitPassword,
         CommitSetUsersOfRole, CommitUpdateRoles, CommitDeleteRoles
<1>3. \A u \in Users : user[u].password \in Nat /\ user'[u].password \in Nat
  BY <1>1 DEF UsersFit, IInv, TypeOK, User
<1>4. \A l \in spent : l \in Link /\ l.user \in Users /\ l.password \in Nat
                        /\ l.password < user[l.user].password
  BY DEF IInv, TypeOK, LinkInv, Link
<1>5. CASE spent' = spent
  <2>1. \A l \in spent' : l.password < user'[l.user].password
    BY <1>1, <1>3, <1>4, <1>5 DEF UsersFit
  <2> QED BY <1>1, <1>2, <1>4, <1>5, <2>1, CommitInv DEF UsersFit
<1>6. CASE CommitPassword(r) /\ req[r].op = "resetPassword"
  <2>1. spent' = spent \cup {[user |-> u, password |-> req[r].password] : u \in req[r].users \cap Present}
    BY <1>6 DEF CommitPassword
  <2>2. ASSUME NEW u \in req[r].users \cap Present
        PROVE  /\ [user |-> u, password |-> req[r].password] \in Link
               /\ req[r].password < user'[u].password
    <3>1. u \in Users /\ req[r].password \in Nat /\ req[r].password <= user[u].password
      BY <1>6 DEF Present, IInv, TypeOK, Request, LinkInv
    <3>2. user'[u].password = user[u].password + 1
      <4>1. user[u] \in User /\ user[u].password + 1 \in Nat /\ "active" \in Statuses
        BY <3>1 DEF IInv, TypeOK, User, Statuses
      <4>2. user'[u] = Row("active", user[u].role, user[u].password + 1)
        BY <1>6, <3>1 DEF CommitPassword
      <4>3. Becomes(user'[u], "active", user[u].role, user[u].password + 1)
        BY <3>1, <4>1, <4>2, RowFields, UserFields
      <4> QED BY <4>3 DEF Becomes
    <3> QED BY <1>3, <3>1, <3>2 DEF Link
  <2>3. \A l \in spent' : l \in Link /\ l.password < user'[l.user].password
    <3> SUFFICES ASSUME NEW l \in spent' PROVE l \in Link /\ l.password < user'[l.user].password
      OBVIOUS
    <3>1. CASE l \in spent
      BY <1>1, <1>3, <1>4, <3>1 DEF UsersFit
    <3>2. CASE l \notin spent
      <4>1. PICK u \in req[r].users \cap Present : l = [user |-> u, password |-> req[r].password]
        BY <2>1, <3>2
      <4> QED BY <2>2, <4>1
    <3> QED BY <3>1, <3>2
  <2> QED BY <1>1, <1>2, <2>3, CommitInv DEF UsersFit
<1>7. spent' = spent \/ (CommitPassword(r) /\ req[r].op = "resetPassword")
  BY DEF Commit, CommitCreateUser, CommitUpdateUsers, CommitDeleteUsers, CommitVerifyEmail, CommitPassword, Committing,
         CommitSetUsersOfRole, CommitUpdateRoles, CommitDeleteRoles
<1> QED BY <1>5, <1>6, <1>7

-----------------------------------------------------------------------------
(* Logins.                                                                  *)

LEMMA LoginShape ==
    ASSUME IInv, NEW r \in Reqs, NEW u \in Users, req[r].pc \in LoginSteps, u \in req[r].users
    PROVE  req[r] \in Request /\ req[r].op = "login" /\ req[r].users = {u}
BY DEF IInv, TypeOK, ShapeInv, Shape, LoginSteps

(* What a login's step does to the attempts, when it concerns one user.     *)
LEMMA OneUserAttempts ==
    ASSUME IInv, NEW r \in Reqs, NEW u \in Users, req[r].users = {u}, NEW new \in Request,
           req' = [req EXCEPT ![r] = new], new.users \subseteq {u},
           attempts' \in [Users -> Nat], refused' \in [Users -> Nat],
           \A v \in Users \ {u} : attempts'[v] = attempts[v] /\ refused'[v] = refused[v],
           refused'[u] + Cardinality(Counted(u)') <= attempts'[u],
           attempts'[u] > MaxAttempts =>
                \E q \in Reqs : u \in req'[q].users /\ req'[q].pc \in {"suspend", "forget"}
    PROVE  AttemptsInv'
<1> SUFFICES ASSUME NEW v \in Users \ {u}
             PROVE  /\ refused'[v] + Cardinality(Counted(v)') <= attempts'[v]
                    /\ attempts'[v] > MaxAttempts =>
                         \E q \in Reqs : v \in req'[q].users /\ req'[q].pc \in {"suspend", "forget"}
  BY DEF AttemptsInv
<1>1. Counted(v)' = Counted(v)
  BY DEF Counted, IInv, TypeOK
<1>2. ASSUME NEW q \in Reqs, v \in req[q].users PROVE req'[q] = req[q]
  BY <1>2 DEF IInv, TypeOK
<1> QED BY <1>1, <1>2 DEF IInv, AttemptsInv

LEMMA ConsumeInv ==
    ASSUME IInv, NEW r \in Reqs, NEW u \in Users, Consume(r, u)
    PROVE  IInv'
<1> DEFINE step == IF attempts[u] < MaxAttempts THEN "verify" ELSE "suspend"
           new == [req[r] EXCEPT !.pc = step, !.counted = TRUE]
<1>1. req[r].pc = "consume" /\ u \in req[r].users /\ req' = [req EXCEPT ![r] = new]
      /\ attempts' = [attempts EXCEPT ![u] = attempts[u] + 1] /\ UNCHANGED <<user, role, refused, spent>>
  BY DEF Consume
<1>2. req[r] \in Request /\ req[r].op = "login" /\ req[r].users = {u}
  BY <1>1, LoginShape DEF LoginSteps
<1>3. step \in {"verify", "suspend"} /\ (step = "verify" => attempts[u] < MaxAttempts)
  OBVIOUS
<1> HIDE DEF step
<1>4. /\ new \in Request /\ Shape(new) /\ new.op = "login" /\ new.users = {u}
      /\ new.pc = step /\ new.counted
  <2>1. step \in LoginSteps /\ step # "consume" /\ TRUE \in BOOLEAN
    BY <1>3 DEF LoginSteps
  <2>2. /\ new \in Request /\ new.op = "login" /\ new.users = {u} /\ new.pc = step /\ new.counted
    BY <1>2, <2>1 DEF Request, Steps, LoginSteps
  <2> HIDE DEF new
  <2>3. Shape(new)
    BY <2>1, <2>2 DEF Shape, LoginSteps
  <2> QED BY <2>2, <2>3
<1> HIDE DEF new
<1>5. attempts \in [Users -> Nat] /\ refused \in [Users -> Nat] /\ req \in [Reqs -> Request]
  BY DEF IInv, TypeOK
<1>6. Counted(u)' = Counted(u) \cup {r} /\ r \notin Counted(u)
  BY <1>1, <1>3, <1>4, <1>5 DEF Counted
<1>7. Cardinality(Counted(u)') = Cardinality(Counted(u)) + 1 /\ Cardinality(Counted(u)) \in Nat
  BY <1>6, CountedFinite, FS_AddElement
<1>8. attempts'[u] = attempts[u] + 1 /\ \A v \in Users \ {u} : attempts'[v] = attempts[v]
  BY <1>1, <1>5
<1>9. refused'[u] + Cardinality(Counted(u)') <= attempts'[u]
  BY <1>1, <1>5, <1>7, <1>8 DEF IInv, AttemptsInv
<1>10. attempts'[u] > MaxAttempts =>
          \E q \in Reqs : u \in req'[q].users /\ req'[q].pc \in {"suspend", "forget"}
  <2> SUFFICES ASSUME attempts'[u] > MaxAttempts PROVE req'[r] = new /\ step = "suspend"
    BY <1>4
  <2> QED BY <1>1, <1>3, <1>5, <1>8, AccountsAssumption
<1>11. attempts' \in [Users -> Nat] /\ refused' \in [Users -> Nat]
  BY <1>1, <1>5
<1>12. AttemptsInv'
  BY <1>1, <1>2, <1>4, <1>8, <1>9, <1>10, <1>11, OneUserAttempts
<1>13. ~(new.pc \in {"users", "commit", "forget"})
  BY <1>3, <1>4
<1> QED BY <1>1, <1>4, <1>11, <1>12, <1>13, MoveInv

LEMMA LeavesInv ==
    ASSUME IInv, NEW r \in Reqs, NEW u \in Users, req[r].pc = "verify", u \in req[r].users,
           NEW new \in Request, Shape(new), req' = [req EXCEPT ![r] = new],
           new.pc \in {"success", "done"}, new.users \subseteq {u}, new.op # "resetPassword",
           UNCHANGED <<user, role, attempts, spent>>,
           \/ refused' = refused
           \/ req[r].counted /\ refused' = [refused EXCEPT ![u] = refused[u] + 1]
    PROVE  IInv'
<1>1. req[r] \in Request /\ req[r].users = {u}
  BY LoginShape DEF LoginSteps
<1>2. attempts \in [Users -> Nat] /\ refused \in [Users -> Nat] /\ req \in [Reqs -> Request]
  BY DEF IInv, TypeOK
<1>3. refused' \in [Users -> Nat] /\ \A v \in Users \ {u} : refused'[v] = refused[v]
  BY <1>2
<1>4. Counted(u)' = Counted(u) \ {r}
  BY <1>2 DEF Counted
<1>5. /\ Cardinality(Counted(u)) \in Nat /\ Cardinality(Counted(u)') \in Nat
      /\ Cardinality(Counted(u)') <= Cardinality(Counted(u))
      /\ r \in Counted(u) => Cardinality(Counted(u)') = Cardinality(Counted(u)) - 1
  <2>1. CASE r \in Counted(u)
    <3>1. IsFiniteSet(Counted(u)) /\ Cardinality(Counted(u)) \in Nat
      BY CountedFinite
    <3>2. Cardinality(Counted(u) \ {r}) = Cardinality(Counted(u)) - 1 /\ IsFiniteSet(Counted(u) \ {r})
      BY <2>1, <3>1, FS_RemoveElement
    <3>3. Cardinality(Counted(u) \ {r}) \in Nat
      BY <3>2, FS_CardinalityType
    <3> QED BY <1>4, <3>1, <3>2, <3>3
  <2>2. CASE r \notin Counted(u)
    <3>1. Counted(u)' = Counted(u)
      BY <1>4, <2>2
    <3> QED BY <2>2, <3>1, CountedFinite
  <2> QED BY <2>1, <2>2
<1>6. req[r].counted => r \in Counted(u)
  BY DEF Counted
<1>7. refused'[u] + Cardinality(Counted(u)') <= attempts[u]
  <2>1. refused[u] + Cardinality(Counted(u)) <= attempts[u] /\ refused[u] \in Nat /\ attempts[u] \in Nat
    BY <1>2 DEF IInv, AttemptsInv
  <2>2. CASE refused' = refused
    BY <1>5, <2>1, <2>2
  <2>3. CASE req[r].counted /\ refused' = [refused EXCEPT ![u] = refused[u] + 1]
    <3>1. refused'[u] = refused[u] + 1
      BY <1>2, <2>3
    <3> QED BY <1>5, <1>6, <2>1, <2>3, <3>1
  <2> QED BY <2>2, <2>3
<1>8. attempts[u] > MaxAttempts =>
          \E q \in Reqs : u \in req'[q].users /\ req'[q].pc \in {"suspend", "forget"}
  <2> SUFFICES ASSUME attempts[u] > MaxAttempts
               PROVE  \E q \in Reqs : u \in req'[q].users /\ req'[q].pc \in {"suspend", "forget"}
    OBVIOUS
  <2>1. PICK q \in Reqs : u \in req[q].users /\ req[q].pc \in {"suspend", "forget"}
    BY DEF IInv, AttemptsInv
  <2>2. req'[q] = req[q]
    BY <1>2, <2>1
  <2> QED BY <2>1, <2>2
<1>9. AttemptsInv'
  BY <1>1, <1>2, <1>3, <1>7, <1>8, OneUserAttempts
<1> QED BY <1>2, <1>3, <1>9, MoveInv

LEMMA RefuseInv ==
    ASSUME IInv, NEW r \in Reqs, NEW u \in Users, Refuse(r, u) \/ Accept(r, u)
    PROVE  IInv'
<1>1. req[r].pc = "verify" /\ u \in req[r].users /\ UNCHANGED <<user, role, attempts, spent>>
  BY DEF Refuse, Accept
<1>2. Over \in Request /\ Shape(Over) /\ Over.pc = "done" /\ Over.op = "none" /\ Over.users = {}
  BY IdleType DEF Over, Idle
<1>3. CASE Refuse(r, u)
  BY <1>1, <1>2, <1>3, LeavesInv DEF Refuse
<1>4. CASE Accept(r, u)
  <2> DEFINE moved == [req[r] EXCEPT !.pc = "success"]
             new == IF u \in Present THEN moved ELSE Over
  <2>1. req[r] \in Request /\ req[r].op = "login" /\ req[r].users = {u}
    BY <1>1, LoginShape DEF LoginSteps
  <2>2. moved \in Request /\ moved.pc = "success" /\ moved.op = "login" /\ moved.users = {u}
    BY <2>1 DEF Request, Steps
  <2>3. Shape(moved)
    <3> HIDE DEF moved
    <3> QED BY <2>2 DEF Shape, LoginSteps
  <2>4. req' = [req EXCEPT ![r] = new] /\ refused' = refused
    BY <1>4 DEF Accept
  <2>5. new \in Request /\ Shape(new) /\ new.pc \in {"success", "done"} /\ new.users \subseteq {u}
        /\ new.op # "resetPassword"
    BY <1>2, <2>2, <2>3
  <2> HIDE DEF new
  <2> QED BY <1>1, <2>4, <2>5, LeavesInv
<1> QED BY <1>3, <1>4

LEMMA SuspendInv ==
    ASSUME IInv, NEW r \in Reqs, NEW u \in Users, Suspend(r, u)
    PROVE  IInv'
<1> DEFINE late(q) == [req[q] EXCEPT !.stale = TRUE]
           new == [req[r] EXCEPT !.pc = "forget"]
<1>1. req[r].pc = "suspend" /\ u \in req[r].users /\ UNCHANGED <<role, attempts, refused, spent>>
  BY DEF Suspend
<1>2. req[r] \in Request /\ req[r].op = "login" /\ req[r].users = {u}
  BY <1>1, LoginShape DEF LoginSteps
<1>3. \A q \in Reqs : req[q] \in Request /\ Shape(req[q])
  BY DEF IInv, TypeOK, ShapeInv
<1>4. \A q \in Reqs : /\ late(q) \in Request /\ Shape(late(q)) /\ late(q).stale
                      /\ late(q).pc = req[q].pc /\ late(q).users = req[q].users /\ late(q).op = req[q].op
                      /\ late(q).counted = req[q].counted /\ late(q).password = req[q].password
  BY <1>3, OvertakeShape DEF Request
<1>5. new \in Request /\ new.op = "login" /\ new.users = {u} /\ new.pc = "forget"
  BY <1>2 DEF Request, Steps
<1>6. req' = [q \in Reqs |-> IF q = r THEN new
                            ELSE IF Checked(q) /\ user' # user THEN late(q) ELSE req[q]]
  BY DEF Suspend
<1> HIDE DEF late, new
<1>7. Shape(new)
  BY <1>5 DEF Shape, LoginSteps
<1>8. ASSUME NEW v \in Users
      PROVE  /\ user'[v] \in User /\ user'[v].password = user[v].password /\ user'[v].role = user[v].role
             /\ v = u => user'[v].status # "active"
  <2>1. user[v] \in User /\ user \in [Users -> User]
    BY DEF IInv, TypeOK
  <2>2. CASE u \in Present /\ v = u
    <3>1. user'[v] = Row("suspended", user[v].role, user[v].password)
      BY <2>1, <2>2 DEF Suspend
    <3>2. Becomes(user'[v], "suspended", user[v].role, user[v].password)
      BY <2>1, <3>1, RowFields, UserFields DEF Statuses
    <3> QED BY <3>2 DEF Becomes
  <2>3. CASE u \notin Present
    BY <2>1, <2>3 DEF Suspend, Present
  <2>4. CASE v # u
    BY <2>1, <2>4 DEF Suspend
  <2> QED BY <2>2, <2>3, <2>4
<1>9. user' \in [Users -> User]
  <2>1. user' = [v \in Users |-> user'[v]]
    BY DEF Suspend, IInv, TypeOK
  <2> QED BY <1>8, <2>1
<1>10. TypeOK'
  <2>1. req' \in [Reqs -> Request]
    BY <1>3, <1>4, <1>5, <1>6
  <2> QED BY <1>1, <1>8, <1>9, <2>1 DEF IInv, TypeOK
<1>11. ShapeInv'
  BY <1>3, <1>4, <1>6, <1>7 DEF ShapeInv
<1>12. FoundInv'
  <2> SUFFICES ASSUME NEW q \in Reqs, Checked(q)', ~req'[q].stale PROVE Found(req[q])'
    BY DEF FoundInv
  <2>1. CASE q = r
    <3>1. req'[q] = new
      BY <1>6, <2>1
    <3> QED BY <1>5, <1>8, <3>1 DEF Found
  <2>2. CASE q # r
    <3>1. req'[q] = req[q]
      BY <1>4, <1>6, <2>2 DEF Checked
    <3>2. user' = user /\ Found(req[q])
      BY <1>4, <1>6, <2>2, <3>1 DEF Checked, IInv, FoundInv
    <3> QED BY <1>1, <3>1, <3>2, SameFound
  <2> QED BY <2>1, <2>2
<1>13. LinkInv'
  <2>1. \A q \in Reqs : req'[q].op = req[q].op /\ req'[q].users = req[q].users
                        /\ (q # r => req'[q].password = req[q].password)
    BY <1>2, <1>4, <1>5, <1>6
  <2>2. ASSUME NEW q \in Reqs, req'[q].op = "resetPassword", NEW v \in req'[q].users
        PROVE  req'[q].password <= user'[v].password
    <3>1. q # r /\ v \in req[q].users /\ v \in Users
      BY <1>2, <1>3, <2>1, <2>2 DEF Request
    <3> QED BY <1>8, <2>1, <2>2, <3>1 DEF IInv, LinkInv
  <2>3. \A l \in spent : l.user \in Users
    BY DEF IInv, TypeOK, Link
  <2> QED BY <1>1, <1>8, <2>2, <2>3 DEF IInv, LinkInv
<1>14. AttemptsInv'
  <2> SUFFICES ASSUME NEW v \in Users
               PROVE  /\ refused[v] + Cardinality(Counted(v)') <= attempts[v]
                      /\ attempts[v] > MaxAttempts =>
                           \E q \in Reqs : v \in req'[q].users /\ req'[q].pc \in {"suspend", "forget"}
    BY <1>1 DEF AttemptsInv
  <2>1. \A q \in Reqs : /\ req'[q].users = req[q].users
                        /\ q # r => req'[q].pc = req[q].pc /\ req'[q].counted = req[q].counted
    BY <1>2, <1>4, <1>5, <1>6
  <2>2. req'[r].pc = "forget"
    BY <1>5, <1>6
  <2>3. Counted(v)' \subseteq Counted(v)
    BY <2>1, <2>2 DEF Counted
  <2>4. /\ Cardinality(Counted(v)') <= Cardinality(Counted(v))
        /\ Cardinality(Counted(v)) \in Nat /\ Cardinality(Counted(v)') \in Nat
    BY <2>3, CountedFinite, FS_Subset, FS_CardinalityType
  <2>5. refused[v] \in Nat /\ attempts[v] \in Nat
    BY DEF IInv, TypeOK
  <2>6. \A q \in Reqs : req[q].pc \in {"suspend", "forget"} => req'[q].pc \in {"suspend", "forget"}
    BY <2>1, <2>2
  <2> QED BY <2>1, <2>4, <2>5, <2>6 DEF IInv, AttemptsInv
<1> QED BY <1>10, <1>11, <1>12, <1>13, <1>14 DEF IInv

LEMMA ResetInv ==
    ASSUME IInv, NEW r \in Reqs, NEW u \in Users, req[r].pc \in {"forget", "success"}, u \in req[r].users,
           NEW next \in Request, Shape(next), next.pc \in {"verify", "done"}, ~next.counted,
           next.users \subseteq {u}, next.op # "resetPassword",
           ResetAttempts(r, u, next)
    PROVE  IInv'
<1> DEFINE clear(q) == [req[q] EXCEPT !.counted = FALSE]
<1>1. \A q \in Reqs : req[q] \in Request /\ Shape(req[q])
  BY DEF IInv, TypeOK, ShapeInv
<1>2. \A q \in Reqs : /\ clear(q) \in Request /\ ~clear(q).counted
                      /\ clear(q).op = req[q].op /\ clear(q).pc = req[q].pc
                      /\ clear(q).users = req[q].users /\ clear(q).stale = req[q].stale
                      /\ clear(q).password = req[q].password /\ clear(q).role = req[q].role
                      /\ clear(q).status = req[q].status /\ clear(q).access = req[q].access
                      /\ clear(q).roles = req[q].roles
  BY <1>1 DEF Request
<1>3. /\ req' = [q \in Reqs |-> IF q = r THEN next
                               ELSE IF req[q].op = "login" /\ u \in req[q].users THEN clear(q) ELSE req[q]]
      /\ attempts' = [attempts EXCEPT ![u] = 0] /\ refused' = [refused EXCEPT ![u] = 0]
      /\ UNCHANGED <<user, role, spent>>
  BY DEF ResetAttempts
<1> HIDE DEF clear
<1>4. \A q \in Reqs : Shape(clear(q))
  BY <1>1, <1>2 DEF Shape
<1>5. req[r].users = {u}
  BY LoginShape DEF LoginSteps
<1>6. TypeOK'
  <2>1. req' \in [Reqs -> Request]
    BY <1>1, <1>2, <1>3
  <2>2. attempts' \in [Users -> Nat] /\ refused' \in [Users -> Nat]
    BY <1>3 DEF IInv, TypeOK
  <2> QED BY <1>3, <2>1, <2>2 DEF IInv, TypeOK
<1>7. ShapeInv'
  BY <1>1, <1>3, <1>4 DEF ShapeInv
<1>8. FoundInv'
  <2> SUFFICES ASSUME NEW q \in Reqs, Checked(q)', ~req'[q].stale PROVE Found(req[q])'
    BY DEF FoundInv
  <2>1. q # r
    BY <1>3 DEF Checked
  <2>2. req'[q] \in {req[q], clear(q)}
    BY <1>3, <2>1
  <2>3. Found(req[q])
    BY <1>2, <2>2 DEF IInv, FoundInv, Checked
  <2>4. Found(clear(q))
    BY <1>2, <2>3 DEF Found
  <2> QED BY <1>3, <2>2, <2>3, <2>4, SameFound
<1>9. LinkInv'
  <2> SUFFICES ASSUME NEW q \in Reqs, req'[q].op = "resetPassword", NEW v \in req'[q].users
               PROVE  req'[q].password <= user[v].password
    BY <1>3 DEF IInv, LinkInv
  <2>1. req'[q] \in {req[q], clear(q)}
    BY <1>3
  <2> QED BY <1>2, <2>1 DEF IInv, LinkInv
<1>10. AttemptsInv'
  <2> SUFFICES ASSUME NEW v \in Users
               PROVE  /\ refused'[v] + Cardinality(Counted(v)') <= attempts'[v]
                      /\ attempts'[v] > MaxAttempts =>
                           \E q \in Reqs : v \in req'[q].users /\ req'[q].pc \in {"suspend", "forget"}
    BY DEF AttemptsInv
  <2>1. attempts \in [Users -> Nat] /\ refused \in [Users -> Nat]
    BY DEF IInv, TypeOK
  <2>2. CASE v = u
    <3>1. Counted(v)' = {}
      <4> SUFFICES ASSUME NEW q \in Reqs, u \in req'[q].users, req'[q].pc \in {"suspend", "verify"}
                   PROVE  ~req'[q].counted
        BY <2>2 DEF Counted
      <4>1. CASE q = r
        BY <1>3, <4>1
      <4>2. CASE q # r
        <5>1. u \in req[q].users /\ req[q].pc \in {"suspend", "verify"}
          BY <1>2, <1>3, <4>2
        <5>2. req[q].op = "login"
          BY <1>1, <5>1 DEF Shape, LoginSteps
        <5> QED BY <1>2, <1>3, <4>2, <5>1, <5>2
      <4> QED BY <4>1, <4>2
    <3>2. attempts'[v] = 0 /\ refused'[v] = 0
      BY <1>3, <2>1, <2>2
    <3> QED BY <3>1, <3>2, FS_EmptySet, AccountsAssumption
  <2>3. CASE v # u
    <3>1. attempts'[v] = attempts[v] /\ refused'[v] = refused[v]
      BY <1>3, <2>1, <2>3
    <3>2. \A q \in Reqs : v \in req'[q].users <=> q # r /\ v \in req[q].users
      BY <1>2, <1>3, <1>5, <2>3
    <3>3. \A q \in Reqs : v \in req[q].users /\ req[q].pc \in LoginSteps => req'[q] = req[q]
      <4> SUFFICES ASSUME NEW q \in Reqs, v \in req[q].users, req[q].pc \in LoginSteps
                   PROVE  q # r /\ u \notin req[q].users
        BY <1>3
      <4>1. req[q].users = {v}
        BY LoginShape
      <4> QED BY <1>5, <2>3, <4>1
    <3>4. \A q \in Reqs : q # r => req'[q].pc = req[q].pc
      BY <1>2, <1>3
    <3>5. Counted(v)' = Counted(v)
      BY <3>2, <3>3, <3>4 DEF Counted, LoginSteps
    <3> QED BY <3>1, <3>2, <3>3, <3>4, <3>5 DEF IInv, AttemptsInv, LoginSteps
  <2> QED BY <2>2, <2>3
<1> QED BY <1>6, <1>7, <1>8, <1>9, <1>10 DEF IInv

LEMMA ConsumeFailsInv == ASSUME IInv, NEW r \in Reqs, NEW u \in Users, ConsumeFails(r, u) PROVE IInv'
<1> DEFINE new == [req[r] EXCEPT !.pc = "suspend"]
<1>1. req[r].pc = "consume" /\ u \in req[r].users
  BY DEF ConsumeFails
<1>2. req[r] \in Request /\ req[r].op = "login" /\ req[r].users = {u} /\ ~req[r].counted
  BY <1>1, LoginShape DEF LoginSteps, IInv, ShapeInv, Shape
<1>3. new \in Request /\ new.op = "login" /\ new.users = {u} /\ new.pc = "suspend" /\ ~new.counted
  BY <1>2 DEF Request, Steps
<1>4. req' = [req EXCEPT ![r] = new] /\ UNCHANGED <<user, role, attempts, refused, spent>>
  BY DEF ConsumeFails
<1> HIDE DEF new
<1>5. Shape(new)
  BY <1>3 DEF Shape, LoginSteps
<1>6. AttemptsInv'
  BY <1>1, <1>3, <1>4, QuietAttempts DEF IInv
<1>7. attempts' \in [Users -> Nat] /\ refused' \in [Users -> Nat]
  BY <1>4 DEF IInv, TypeOK
<1> QED BY <1>3, <1>4, <1>5, <1>6, <1>7, MoveInv

LEMMA LogInInv == ASSUME IInv, NEW r \in Reqs, NEW u \in Users, LogIn(r, u) PROVE IInv'
<1>1. CASE Login(r, u)
  BY <1>1, BeginInv DEF Begins
<1>2. CASE Consume(r, u)
  BY <1>2, ConsumeInv
<1>3. CASE Suspend(r, u)
  BY <1>3, SuspendInv
<1>4. CASE Forget(r, u)
  <2> DEFINE new == [req[r] EXCEPT !.pc = "verify", !.counted = FALSE]
  <2>1. req[r].pc = "forget" /\ u \in req[r].users /\ ResetAttempts(r, u, new)
    BY <1>4 DEF Forget
  <2>2. req[r] \in Request /\ req[r].op = "login" /\ req[r].users = {u}
    BY <2>1, LoginShape DEF LoginSteps
  <2>3. new \in Request /\ new.op = "login" /\ new.users = {u} /\ new.pc = "verify" /\ ~new.counted
    BY <2>2 DEF Request, Steps
  <2> HIDE DEF new
  <2>4. Shape(new)
    BY <2>3 DEF Shape, LoginSteps
  <2> QED BY <2>1, <2>3, <2>4, ResetInv
<1>5. CASE Refuse(r, u) \/ Accept(r, u)
  BY <1>5, RefuseInv
<1>6. CASE Succeed(r, u)
  <2>1. req[r].pc = "success" /\ u \in req[r].users /\ ResetAttempts(r, u, Over)
    BY <1>6 DEF Succeed
  <2>2. ~Over.counted /\ Over.users = {}
    BY DEF Over, Idle
  <2> QED BY <2>1, <2>2, IdleType, ResetInv
<1>7. CASE ConsumeFails(r, u)
  BY <1>7, ConsumeFailsInv
<1> QED BY <1>1, <1>2, <1>3, <1>4, <1>5, <1>6, <1>7 DEF LogIn

-----------------------------------------------------------------------------
(* The invariant.                                                           *)

LEMMA InvInit == Init => IInv
<1> SUFFICES ASSUME Init PROVE IInv
  OBVIOUS
<1>1. /\ role \in [Roles -> {"plain", "admin"}]
      /\ user \in [Users -> [status : Statuses, role : Roles \cup {None}, password : {0}]]
      /\ attempts = [u \in Users |-> 0] /\ refused = [u \in Users |-> 0]
      /\ req = [r \in Reqs |-> Idle] /\ spent = {}
  BY DEF Init
<1>2. \A u \in Users : user[u] \in User /\ (user[u].role # None => role[user[u].role] # "absent")
  BY <1>1 DEF User
<1>3. TypeOK
  <2>1. role \in [Roles -> Access]
    BY <1>1 DEF Access
  <2>2. user \in [Users -> User]
    BY <1>1, <1>2
  <2> QED BY <1>1, <1>2, <2>1, <2>2, IdleType DEF TypeOK
<1>4. ShapeInv /\ FoundInv /\ LinkInv
  BY <1>1, <1>2 DEF ShapeInv, Shape, FoundInv, Checked, LinkInv, Idle, LoginSteps
<1>5. AttemptsInv
  <2> SUFFICES ASSUME NEW u \in Users
               PROVE  refused[u] + Cardinality(Counted(u)) <= attempts[u] /\ ~(attempts[u] > MaxAttempts)
    BY DEF AttemptsInv
  <2>1. Counted(u) = {}
    BY <1>1 DEF Counted, Idle
  <2> QED BY <1>1, <2>1, FS_EmptySet, AccountsAssumption
<1> QED BY <1>3, <1>4, <1>5 DEF IInv

LEMMA InvNext == IInv /\ [Next]_vars => IInv'
<1> SUFFICES ASSUME IInv, [Next]_vars PROVE IInv'
  OBVIOUS
<1>1. ASSUME NEW r \in Reqs, Mutate(r) PROVE IInv'
  <2>1. CASE SuspendUsersOfRoles(r)
    BY <2>1, SuspendUsersInv
  <2>2. CASE ~SuspendUsersOfRoles(r)
    <3>1. Begins(r)
      BY <1>1, <2>2 DEF Mutate, Begins
    <3> QED BY <3>1, BeginInv
  <2> QED BY <2>1, <2>2
<1>2. ASSUME NEW r \in Reqs, Commit(r) PROVE IInv'
  BY <1>2, CommitKeeps
<1>3. ASSUME NEW r \in Reqs, Fail(r) PROVE IInv'
  BY <1>3, FailInv
<1>4. ASSUME NEW r \in Reqs, NEW u \in Users, LogIn(r, u) PROVE IInv'
  BY <1>4, LogInInv
<1>5. CASE UNCHANGED vars
  <2>1. UNCHANGED <<user, role, attempts, req, refused, spent>>
    BY <1>5 DEF vars
  <2>2. TypeOK' /\ ShapeInv' /\ LinkInv'
    BY <2>1 DEF IInv, TypeOK, ShapeInv, LinkInv
  <2>3. FoundInv'
    <3> SUFFICES ASSUME NEW q \in Reqs, Checked(q)', ~req'[q].stale PROVE Found(req[q])'
      BY DEF FoundInv
    <3>1. Found(req[q]) /\ req'[q] = req[q]
      BY <2>1 DEF IInv, FoundInv, Checked
    <3> QED BY <2>1, <3>1, SameFound
  <2>4. AttemptsInv'
    <3>1. \A u \in Users : Counted(u)' = Counted(u)
      BY <2>1 DEF Counted
    <3> QED BY <2>1, <3>1 DEF IInv, AttemptsInv
  <2> QED BY <2>2, <2>3, <2>4 DEF IInv
<1> QED BY <1>1, <1>2, <1>3, <1>4, <1>5 DEF Next

LEMMA Inductive == Spec => []IInv
BY InvInit, InvNext, PTL DEF Spec

(* What is stored of users and roles is of its type, and a user's role      *)
(* exists, whatever order users are moved and roles are deleted in.         *)
THEOREM TypeCorrect == Spec => []TypeOK
BY Inductive, PTL DEF IInv

(* No more passwords are refused than the limit while the user stays active *)
(* and no login is about to suspend it, however logins overlap.             *)
THEOREM LimitHolds == Spec => []AttemptsLimited
<1>1. IInv => AttemptsLimited
  <2> SUFFICES ASSUME IInv, NEW u \in Users, user[u].status = "active", refused[u] > MaxAttempts
               PROVE  \E r \in Reqs : /\ u \in req[r].users
                                      /\ \/ req[r].pc = "suspend"
                                         \/ req[r].pc = "forget" /\ req[r].stale
    BY DEF AttemptsLimited
  <2>1. refused[u] \in Nat /\ attempts[u] \in Nat /\ Cardinality(Counted(u)) \in Nat
    BY CountedFinite DEF IInv, TypeOK
  <2>2. attempts[u] > MaxAttempts
    BY <2>1, AccountsAssumption DEF IInv, AttemptsInv
  <2>3. PICK r \in Reqs : u \in req[r].users /\ req[r].pc \in {"suspend", "forget"}
    BY <2>2 DEF IInv, AttemptsInv
  <2>4. req[r].pc = "forget" => req[r].stale
    BY <2>3 DEF IInv, FoundInv, Checked, Found, TypeOK, Request
  <2> QED BY <2>3, <2>4
<1> QED BY <1>1, Inductive, PTL

-----------------------------------------------------------------------------
(* What the checks guarantee.                                               *)

(* A mutation that was not overtaken applies what it has found.             *)
LEMMA Applied ==
    ASSUME IInv, NEW r \in Reqs, Commit(r)
    PROVE  Applies(r) /\ req[r] \in Request /\ Shape(req[r]) /\ (~req[r].stale => Found(req[r]))
<1>1. req[r].pc = "commit" /\ Overtake(r)
  BY DEF Commit, Committing, CommitCreateUser, CommitUpdateUsers, CommitDeleteUsers, CommitVerifyEmail, CommitPassword,
         CommitSetUsersOfRole, CommitUpdateRoles, CommitDeleteRoles
<1>2. req'[r].pc = "done"
  BY <1>1, IdleType DEF Overtake
<1> QED BY <1>1, <1>2 DEF Applies, IInv, TypeOK, ShapeInv, FoundInv, Checked, Request

(* Tables change in mutations and when a login suspends its user.           *)
LEMMA Changes ==
    ASSUME [Next]_vars
    PROVE  \/ user' = user /\ role' = role
           \/ \E r \in Reqs : Commit(r)
           \/ \E r \in Reqs, u \in Users : Suspend(r, u)
<1>1. ASSUME NEW r \in Reqs, Mutate(r) PROVE user' = user /\ role' = role
  <2>1. ASSUME NEW new, Start(r, new) PROVE user' = user /\ role' = role
    BY <2>1 DEF Start
  <2>2. ASSUME NEW u, NEW x, NEW s, CreateUser(r, u, x, s) PROVE user' = user /\ role' = role
    BY <2>1, <2>2 DEF CreateUser
  <2>3. ASSUME NEW U, NEW x, NEW s, UpdateUsers(r, U, x, s) PROVE user' = user /\ role' = role
    BY <2>1, <2>3 DEF UpdateUsers
  <2>4. ASSUME NEW u, NEW x, Invite(r, u, x) PROVE user' = user /\ role' = role
    BY <2>2, <2>3, <2>4 DEF Invite
  <2>5. ASSUME NEW U, DeleteUsers(r, U) PROVE user' = user /\ role' = role
    BY <2>1, <2>5 DEF DeleteUsers
  <2>6. ASSUME NEW u, AcceptInvite(r, u) PROVE user' = user /\ role' = role
    BY <2>1, <2>6 DEF AcceptInvite
  <2>7. ASSUME NEW l, ResetPassword(r, l) PROVE user' = user /\ role' = role
    BY <2>1, <2>7 DEF ResetPassword
  <2>8. ASSUME NEW x, NEW U, SetUsersOfRole(r, x, U) PROVE user' = user /\ role' = role
    BY <2>1, <2>8 DEF SetUsersOfRole
  <2>9. ASSUME NEW R, NEW access, UpdateRoles(r, R, access) PROVE user' = user /\ role' = role
    BY <2>1, <2>9 DEF UpdateRoles
  <2>10. ASSUME NEW R, DeleteRoles(r, R) PROVE user' = user /\ role' = role
    BY <2>1, <2>10 DEF DeleteRoles
  <2>11. SuspendUsersOfRoles(r) => user' = user /\ role' = role
    BY DEF SuspendUsersOfRoles
  <2>12. ASSUME NEW u, VerifyEmail(r, u) \/ Register(r, u) PROVE user' = user /\ role' = role
    BY <2>1, <2>2, <2>12 DEF VerifyEmail, Register
  <2> QED BY <1>1, <2>2, <2>3, <2>4, <2>5, <2>6, <2>7, <2>8, <2>9, <2>10, <2>11, <2>12 DEF Mutate
<1>2. ASSUME NEW r \in Reqs, NEW u \in Users, LogIn(r, u), ~Suspend(r, u) PROVE user' = user /\ role' = role
  BY <1>2 DEF LogIn, Start, Login, Consume, ConsumeFails, Forget, ResetAttempts, Refuse, Accept, Succeed
<1>3. ASSUME NEW r \in Reqs, Fail(r) PROVE user' = user /\ role' = role
  BY <1>3 DEF Fail
<1>4. CASE UNCHANGED vars
  BY <1>4 DEF vars
<1> QED BY <1>1, <1>2, <1>3, <1>4 DEF Next

LEMMA SuspendKeeps ==
    ASSUME IInv, NEW r \in Reqs, NEW u \in Users, Suspend(r, u)
    PROVE  /\ req[r].pc = "suspend" /\ req'[r].pc = "forget" /\ role' = role
           /\ AdminUsers' = AdminUsers
           /\ \A v \in Users : user'[v].status \in {user[v].status, "suspended"}
<1>1. req[r].pc = "suspend" /\ req'[r].pc = "forget" /\ role' = role
  BY DEF Suspend, IInv, TypeOK, Request
<1>2. ASSUME NEW v \in Users
      PROVE  /\ user'[v].role = user[v].role
             /\ user'[v].status \in {user[v].status, "suspended"}
             /\ user'[v].status = "absent" <=> user[v].status = "absent"
  <2>1. user[v] \in User /\ user \in [Users -> User]
    BY DEF IInv, TypeOK
  <2>2. CASE v = u /\ u \in Present
    <3>1. user'[v] = Row("suspended", user[v].role, user[v].password)
      BY <2>1, <2>2 DEF Suspend
    <3>2. Becomes(user'[v], "suspended", user[v].role, user[v].password)
      BY <2>1, <3>1, RowFields, UserFields DEF Statuses
    <3> QED BY <2>2, <3>2 DEF Becomes, Present
  <2>3. CASE ~(v = u /\ u \in Present)
    BY <2>1, <2>3 DEF Suspend, Present
  <2> QED BY <2>2, <2>3
<1>3. AdminUsers' = AdminUsers
  BY <1>1, <1>2 DEF AdminUsers, AdminRoles, Present
<1> QED BY <1>1, <1>2, <1>3

(* A mutation that was not overtaken leaves an administrator.               *)
LEMMA AdminUserStays ==
    ASSUME IInv, NEW r \in Reqs, Commit(r), ~req[r].stale, AdminUsers # {},
           ~(req[r].op = "updateUsers" /\ req[r].role = None), req[r].op # "updateRoles"
    PROVE  AdminUsers' # {}
<1>1. req[r] \in Request /\ Shape(req[r]) /\ Found(req[r])
  BY Applied
<1>2. \A v \in Users : user[v] \in User
  BY DEF IInv, TypeOK
<1>3. ASSUME NEW v \in Users, user'[v].status # "absent", user'[v].role \in Roles,
             role'[user'[v].role] = "admin"
      PROVE  AdminUsers' # {}
  BY <1>3 DEF AdminUsers, AdminRoles, Present
<1>4. ASSUME NEW v \in AdminUsers, role' = role, user'[v] = user[v] PROVE AdminUsers' # {}
  BY <1>3, <1>4 DEF AdminUsers, AdminRoles, Present
<1>5. ASSUME NEW v \in AdminUsers
      PROVE  v \in Users /\ v \in Present /\ user[v] \in User /\ user[v].status # "absent" /\ user[v].role \in Roles
             /\ role[user[v].role] = "admin" /\ user[v].password \in Nat /\ user[v].password + 1 \in Nat
             /\ user[v].status \in Statuses
  BY <1>2 DEF AdminUsers, AdminRoles, Present, User
<1>6. PICK a \in AdminUsers : TRUE
  OBVIOUS
<1>7. CASE CommitCreateUser(r)
  BY <1>4, <1>5, <1>6, <1>7 DEF CommitCreateUser, IInv, TypeOK
<1>8. CASE CommitUpdateUsers(r)
  <2>1. req[r].op = "updateUsers" /\ role' = role /\ req[r].role \in Roles \cup {Same}
        /\ req[r].status \in {"active", "suspended", Same}
    BY <1>1, <1>8 DEF CommitUpdateUsers, Committing, Request, Shape
  <2>2. CASE req[r].role \in Roles /\ role[req[r].role] # "admin"
    <3>1. PICK v \in AdminUsers : v \notin req[r].users
      BY <1>1, <2>1, <2>2 DEF Found, AdminUserBeside
    <3> QED BY <1>4, <1>5, <1>8, <3>1 DEF CommitUpdateUsers
  <2>3. CASE req[r].role = Same \/ role[req[r].role] = "admin"
    <3>1. CASE a \in req[r].users \cap Present
      <4> DEFINE s == IF req[r].status = Same THEN user[a].status ELSE req[r].status
                 x == IF req[r].role = Same THEN user[a].role ELSE req[r].role
      <4>1. user'[a] = Row(s, x, user[a].password)
        BY <1>5, <1>8, <3>1 DEF CommitUpdateUsers
      <4>2. s \in Statuses /\ s # "absent" /\ x \in Roles /\ role[x] = "admin"
        BY <1>5, <2>1, <2>3, AccountsAssumption DEF Statuses
      <4>3. Becomes(user'[a], s, x, user[a].password)
        BY <1>5, <4>1, <4>2, RowFields
      <4> HIDE DEF s, x
      <4> QED BY <1>3, <1>5, <2>1, <4>2, <4>3 DEF Becomes
    <3>2. CASE a \notin req[r].users \cap Present
      BY <1>4, <1>5, <1>8, <2>1, <3>2 DEF CommitUpdateUsers
    <3> QED BY <3>1, <3>2
  <2> QED BY <2>1, <2>2, <2>3
<1>9. CASE CommitDeleteUsers(r)
  <2>1. PICK v \in AdminUsers : v \notin req[r].users
    BY <1>1, <1>9 DEF Found, AdminUserBeside, CommitDeleteUsers, Committing
  <2> QED BY <1>4, <1>5, <1>9, <2>1 DEF CommitDeleteUsers
<1>10. CASE CommitPassword(r)
  <2>1. role' = role
    BY <1>10 DEF CommitPassword
  <2>2. CASE a \in req[r].users \cap Present
    <3>1. user'[a] = Row("active", user[a].role, user[a].password + 1)
      BY <1>5, <1>10, <2>2 DEF CommitPassword
    <3>2. Becomes(user'[a], "active", user[a].role, user[a].password + 1)
      BY <1>5, <3>1, RowFields DEF Statuses
    <3> QED BY <1>3, <1>5, <2>1, <3>2 DEF Becomes
  <2>3. CASE a \notin req[r].users \cap Present
    BY <1>4, <1>5, <1>10, <2>1, <2>3 DEF CommitPassword
  <2> QED BY <2>2, <2>3
<1>11. CASE CommitSetUsersOfRole(r)
  <2>1. /\ role' = role /\ req[r].role \in Roles /\ req[r].users \subseteq Present
        /\ AdminUserAfterSet(req[r].role, req[r].users)
    BY <1>1, <1>11 DEF CommitSetUsersOfRole, Committing, Found, Shape
  <2>2. CASE role[req[r].role] = "admin" /\ req[r].users # {}
    <3>1. PICK v \in req[r].users : v \in Present /\ v \in Users
      BY <2>1, <2>2 DEF Present
    <3>2. user'[v] = Row(user[v].status, req[r].role, user[v].password)
      BY <1>11, <3>1 DEF CommitSetUsersOfRole
    <3>3. Becomes(user'[v], user[v].status, req[r].role, user[v].password)
      BY <1>2, <2>1, <3>1, <3>2, RowFields, UserFields
    <3> QED BY <1>3, <2>1, <2>2, <3>1, <3>3 DEF Becomes, Present
  <2>3. CASE AdminUserBeside(req[r].users \cup {u \in Present : user[u].role = req[r].role})
    <3>1. PICK v \in AdminUsers : v \notin req[r].users /\ user[v].role # req[r].role
      BY <1>5, <2>3 DEF AdminUserBeside
    <3> QED BY <1>4, <1>5, <1>11, <2>1, <3>1 DEF CommitSetUsersOfRole
  <2> QED BY <2>1, <2>2, <2>3 DEF AdminUserAfterSet
<1>12. CASE CommitDeleteRoles(r)
  <2>1. /\ req[r].users = {u \in Present : user[u].role \in req[r].roles}
        /\ req[r].users = {} \/ ActiveAdminBeside(req[r].users)
    BY <1>1, <1>12 DEF CommitDeleteRoles, Committing, Found
  <2>2. PICK v \in AdminUsers : v \notin req[r].users
    BY <1>6, <2>1 DEF ActiveAdminBeside, ActiveAdmins
  <2>3. user[v].role \notin req[r].roles
    BY <1>5, <2>1, <2>2
  <2>4. user'[v] = user[v] /\ role'[user[v].role] = "admin"
    BY <1>5, <1>12, <2>2, <2>3 DEF CommitDeleteRoles
  <2> QED BY <1>3, <1>5, <2>4
<1>13. CASE CommitVerifyEmail(r)
  <2>1. role' = role
    BY <1>13 DEF CommitVerifyEmail
  <2>2. CASE a \in req[r].users \cap Present
    <3>1. user'[a] = Row("active", user[a].role, user[a].password)
      BY <1>5, <1>13, <2>2 DEF CommitVerifyEmail
    <3>2. Becomes(user'[a], "active", user[a].role, user[a].password)
      BY <1>5, <3>1, RowFields DEF Statuses
    <3> QED BY <1>3, <1>5, <2>1, <3>2 DEF Becomes
  <2>3. CASE a \notin req[r].users \cap Present
    BY <1>4, <1>5, <1>13, <2>1, <2>3 DEF CommitVerifyEmail
  <2> QED BY <2>2, <2>3
<1> QED BY <1>7, <1>8, <1>9, <1>10, <1>11, <1>12, <1>13 DEF Commit, CommitUpdateRoles, Committing

(* And an active one, if it suspends users or deletes roles.                *)
LEMMA ActiveAdminStays ==
    ASSUME IInv, NEW r \in Reqs, Commit(r), ~req[r].stale, ActiveAdmins # {},
           ~(req[r].op = "updateUsers" /\ req[r].status \in {Same, "active"}),
           req[r].op \notin {"deleteUsers", "setUsersOfRole", "updateRoles"}
    PROVE  ActiveAdmins' # {}
<1>1. req[r] \in Request /\ Shape(req[r]) /\ Found(req[r])
  BY Applied
<1>2. ASSUME NEW v \in ActiveAdmins
      PROVE  v \in Users /\ v \in Present /\ user[v] \in User /\ user[v].status = "active" /\ user[v].role \in Roles
             /\ role[user[v].role] = "admin" /\ user[v].password \in Nat /\ user[v].password + 1 \in Nat
  BY DEF ActiveAdmins, AdminUsers, AdminRoles, Present, User, IInv, TypeOK
<1>3. ASSUME NEW v \in ActiveAdmins, role'[user[v].role] = role[user[v].role],
             user'[v].role = user[v].role, user'[v].status = "active"
      PROVE  ActiveAdmins' # {}
  BY <1>2, <1>3 DEF ActiveAdmins, AdminUsers, AdminRoles, Present
<1>4. PICK a \in ActiveAdmins : TRUE
  OBVIOUS
<1>5. CASE CommitCreateUser(r)
  BY <1>2, <1>3, <1>4, <1>5 DEF CommitCreateUser, IInv, TypeOK
<1>6. CASE CommitUpdateUsers(r)
  <2>1. PICK v \in ActiveAdmins : v \notin req[r].users
    BY <1>1, <1>6 DEF Found, ActiveAdminBeside, CommitUpdateUsers, Committing
  <2>2. user'[v] = user[v] /\ role' = role
    BY <1>2, <1>6, <2>1 DEF CommitUpdateUsers
  <2> QED BY <1>2, <1>3, <2>2
<1>7. CASE CommitPassword(r)
  <2>1. role' = role
    BY <1>7 DEF CommitPassword
  <2>2. CASE a \in req[r].users \cap Present
    <3>1. user'[a] = Row("active", user[a].role, user[a].password + 1)
      BY <1>2, <1>7, <2>2 DEF CommitPassword
    <3>2. Becomes(user'[a], "active", user[a].role, user[a].password + 1)
      BY <1>2, <3>1, RowFields DEF Statuses
    <3> QED BY <1>3, <1>2, <2>1, <3>2 DEF Becomes
  <2>3. CASE a \notin req[r].users \cap Present
    BY <1>2, <1>3, <1>7, <2>1, <2>3 DEF CommitPassword
  <2> QED BY <2>2, <2>3
<1>8. CASE CommitDeleteRoles(r)
  <2>1. /\ req[r].users = {u \in Present : user[u].role \in req[r].roles}
        /\ req[r].users = {} \/ ActiveAdminBeside(req[r].users)
    BY <1>1, <1>8 DEF CommitDeleteRoles, Committing, Found
  <2>2. PICK v \in ActiveAdmins : v \notin req[r].users
    BY <1>4, <2>1 DEF ActiveAdminBeside
  <2>3. user[v].role \notin req[r].roles
    BY <1>2, <2>1, <2>2
  <2>4. user'[v] = user[v] /\ role'[user[v].role] = role[user[v].role]
    BY <1>2, <1>8, <2>2, <2>3 DEF CommitDeleteRoles
  <2> QED BY <1>2, <1>3, <2>4
<1>9. CASE CommitVerifyEmail(r)
  <2>1. role' = role
    BY <1>9 DEF CommitVerifyEmail
  <2>2. CASE a \in req[r].users \cap Present
    <3>1. user'[a] = Row("active", user[a].role, user[a].password)
      BY <1>2, <1>9, <2>2 DEF CommitVerifyEmail
    <3>2. Becomes(user'[a], "active", user[a].role, user[a].password)
      BY <1>2, <3>1, RowFields DEF Statuses
    <3> QED BY <1>3, <1>2, <2>1, <3>2 DEF Becomes
  <2>3. CASE a \notin req[r].users \cap Present
    BY <1>2, <1>3, <1>9, <2>1, <2>3 DEF CommitVerifyEmail
  <2> QED BY <2>2, <2>3
<1> QED BY <1>5, <1>6, <1>7, <1>8, <1>9 DEF Commit, CommitUpdateRoles, CommitDeleteUsers, CommitSetUsersOfRole, Committing

LEMMA AdminRoleStays ==
    ASSUME IInv, NEW r \in Reqs, Commit(r), ~req[r].stale, AdminRoles # {}
    PROVE  AdminRoles' # {}
<1>1. req[r] \in Request /\ Shape(req[r]) /\ Found(req[r])
  BY Applied
<1>2. CASE role' = role
  BY <1>2 DEF AdminRoles
<1>3. CASE CommitUpdateRoles(r)
  <2>1. req[r].op = "updateRoles" /\ req[r].access \in {"plain", "admin"}
        /\ role' = [x \in Roles |->
                      IF x \in req[r].roles /\ role[x] # "absent" THEN req[r].access ELSE role[x]]
    BY <1>1, <1>3 DEF CommitUpdateRoles, Committing, Shape
  <2>2. CASE req[r].access = "admin"
    BY <2>1, <2>2 DEF AdminRoles
  <2>3. CASE req[r].access = "plain"
    BY <1>1, <2>1, <2>3 DEF Found, AdminRoleBeside, AdminRoles
  <2> QED BY <2>1, <2>2, <2>3
<1>4. CASE CommitDeleteRoles(r)
  <2>1. AdminRoleBeside(req[r].roles)
    BY <1>1, <1>4 DEF Found, CommitDeleteRoles, Committing
  <2>2. role' = [x \in Roles |-> IF x \in req[r].roles THEN "absent" ELSE role[x]]
    BY <1>4 DEF CommitDeleteRoles
  <2> QED BY <2>1, <2>2 DEF AdminRoleBeside, AdminRoles
<1> QED BY <1>2, <1>3, <1>4 DEF Commit, CommitCreateUser, CommitUpdateUsers, CommitDeleteUsers,
        CommitVerifyEmail, CommitPassword, CommitSetUsersOfRole

(* A user that becomes active after a suspension was updated so, or by a    *)
(* mutation that was overtaken.                                             *)
LEMMA Reactivated ==
    ASSUME IInv, NEW r \in Reqs, Commit(r), ~req[r].stale, NEW u \in Users,
           user[u].status = "suspended", user'[u].status = "active"
    PROVE  req[r].op = "updateUsers"
<1>1. req[r] \in Request /\ Shape(req[r]) /\ Found(req[r])
  BY Applied
<1>2. user[u] \in User /\ user[u].password \in Nat /\ user[u].role \in Roles \cup {None} /\ user \in [Users -> User]
  BY DEF IInv, TypeOK, User
<1>3. ~CommitCreateUser(r)
  <2> SUFFICES ASSUME CommitCreateUser(r) PROVE FALSE
    OBVIOUS
  <2>1. PICK v \in req[r].users :
          /\ user[v].status = "absent"
          /\ user' = [user EXCEPT ![v] = Row(req[r].status, req[r].role, user[v].password + 1)]
    BY DEF CommitCreateUser
  <2>2. v # u
    BY <2>1
  <2> QED BY <1>2, <2>1, <2>2
<1>4. ~CommitDeleteUsers(r)
  <2> SUFFICES ASSUME CommitDeleteUsers(r), u \in req[r].users PROVE FALSE
    BY DEF CommitDeleteUsers
  <2>1. user'[u] = Row("absent", None, user[u].password)
    BY DEF CommitDeleteUsers
  <2> QED BY <2>1 DEF Row
<1>5. ~CommitPassword(r)
  <2> SUFFICES ASSUME CommitPassword(r) PROVE FALSE
    OBVIOUS
  <2>1. u \in req[r].users
    BY DEF CommitPassword
  <2> QED BY <1>1, <2>1 DEF CommitPassword, Committing, Found
<1>6. ~CommitSetUsersOfRole(r)
  <2> SUFFICES ASSUME CommitSetUsersOfRole(r) PROVE FALSE
    OBVIOUS
  <2>1. user'[u] \in {Row(user[u].status, req[r].role, user[u].password),
                       Row(user[u].status, None, user[u].password), user[u]}
    BY DEF CommitSetUsersOfRole
  <2> QED BY <2>1 DEF Row
<1>7. ~CommitUpdateRoles(r)
  BY DEF CommitUpdateRoles
<1>8. ~CommitDeleteRoles(r)
  <2> SUFFICES ASSUME CommitDeleteRoles(r) PROVE FALSE
    OBVIOUS
  <2>1. user'[u] \in {Row("suspended", None, user[u].password),
                       Row(user[u].status, None, user[u].password), user[u]}
    BY DEF CommitDeleteRoles
  <2> QED BY <2>1 DEF Row
<1>10. ~CommitVerifyEmail(r)
  <2> SUFFICES ASSUME CommitVerifyEmail(r) PROVE FALSE
    OBVIOUS
  <2>1. u \in req[r].users
    BY DEF CommitVerifyEmail
  <2> QED BY <1>1, <2>1 DEF CommitVerifyEmail, Committing, Found
<1>9. CommitUpdateUsers(r)
  BY <1>3, <1>4, <1>5, <1>6, <1>7, <1>8, <1>10 DEF Commit
<1> QED BY <1>9 DEF CommitUpdateUsers, Committing

(* The last user of an admin role is lost only by a mutation that was       *)
(* overtaken since its check, that takes the role with null, or that takes  *)
(* admin_access from a role.                                                *)
THEOREM AdministratorStays == Spec => AdminUserKept
<1>1. IInv /\ [Next]_vars =>
        [AdminUsers # {} /\ AdminUsers' = {} =>
            \E r \in Reqs : /\ Applies(r)
                            /\ \/ req[r].stale
                               \/ req[r].op = "updateUsers" /\ req[r].role = None
                               \/ req[r].op = "updateRoles"]_vars
  <2> SUFFICES ASSUME IInv, [Next]_vars, AdminUsers # {}, AdminUsers' = {}
               PROVE  \E r \in Reqs : /\ Applies(r)
                                      /\ \/ req[r].stale
                                         \/ req[r].op = "updateUsers" /\ req[r].role = None
                                         \/ req[r].op = "updateRoles"
    OBVIOUS
  <2>1. ~(user' = user /\ role' = role)
    BY DEF AdminUsers, AdminRoles, Present
  <2>2. ~ \E r \in Reqs, u \in Users : Suspend(r, u)
    BY SuspendKeeps
  <2>3. PICK r \in Reqs : Commit(r)
    BY <2>1, <2>2, Changes
  <2> QED BY <2>3, Applied, AdminUserStays
<1> QED BY <1>1, Inductive, PTL DEF Spec, AdminUserKept

(* Suspending users and deleting roles leave an active administrator unless *)
(* they are overtaken; a login that meets the limit may not, nor what is    *)
(* checked for administrators of any status.                                *)
THEOREM ActiveAdministratorStays == Spec => ActiveAdminKept
<1>1. IInv /\ [Next]_vars =>
        [ActiveAdmins # {} /\ ActiveAdmins' = {} =>
            \/ \E r \in Reqs : req[r].pc = "suspend" /\ req'[r].pc = "forget"
            \/ \E r \in Reqs : /\ Applies(r)
                               /\ \/ req[r].stale
                                  \/ req[r].op = "updateUsers" /\ req[r].status \in {Same, "active"}
                                  \/ req[r].op \in {"deleteUsers", "setUsersOfRole", "updateRoles"}]_vars
  <2> SUFFICES ASSUME IInv, [Next]_vars, ActiveAdmins # {}, ActiveAdmins' = {},
                      ~ \E r \in Reqs : req[r].pc = "suspend" /\ req'[r].pc = "forget"
               PROVE  \E r \in Reqs : /\ Applies(r)
                                      /\ \/ req[r].stale
                                         \/ req[r].op = "updateUsers" /\ req[r].status \in {Same, "active"}
                                         \/ req[r].op \in {"deleteUsers", "setUsersOfRole", "updateRoles"}
    OBVIOUS
  <2>1. ~(user' = user /\ role' = role)
    BY DEF ActiveAdmins, AdminUsers, AdminRoles, Present
  <2>2. ~ \E r \in Reqs, u \in Users : Suspend(r, u)
    BY SuspendKeeps
  <2>3. PICK r \in Reqs : Commit(r)
    BY <2>1, <2>2, Changes
  <2> QED BY <2>3, Applied, ActiveAdminStays
<1> QED BY <1>1, Inductive, PTL DEF Spec, ActiveAdminKept

(* The last admin role is lost only by a mutation that was overtaken.       *)
THEOREM AdminRoleRemains == Spec => AdminRoleKept
<1>1. IInv /\ [Next]_vars =>
        [AdminRoles # {} /\ AdminRoles' = {} => \E r \in Reqs : Applies(r) /\ req[r].stale]_vars
  <2> SUFFICES ASSUME IInv, [Next]_vars, AdminRoles # {}, AdminRoles' = {}
               PROVE  \E r \in Reqs : Applies(r) /\ req[r].stale
    OBVIOUS
  <2>1. role' # role
    BY DEF AdminRoles
  <2>2. PICK r \in Reqs : Commit(r)
    BY <2>1, Changes, SuspendKeeps
  <2> QED BY <2>2, Applied, AdminRoleStays
<1> QED BY <1>1, Inductive, PTL DEF Spec, AdminRoleKept

(* A suspended user becomes active again only if an update says so, or by a *)
(* link that was followed before the suspension and applied after it.       *)
THEOREM SuspensionStands == Spec => SuspensionHolds
<1>1. IInv /\ [Next]_vars =>
        [\A u \in Users : user[u].status = "suspended" /\ user'[u].status = "active" =>
            \E r \in Reqs : Applies(r) /\ (req[r].op = "updateUsers" \/ req[r].stale)]_vars
  <2> SUFFICES ASSUME IInv, [Next]_vars, NEW u \in Users,
                      user[u].status = "suspended", user'[u].status = "active"
               PROVE  \E r \in Reqs : Applies(r) /\ (req[r].op = "updateUsers" \/ req[r].stale)
    OBVIOUS
  <2>1. PICK r \in Reqs : Commit(r)
    BY Changes, SuspendKeeps
  <2> QED BY <2>1, Applied, Reactivated
<1> QED BY <1>1, Inductive, PTL DEF Spec, SuspensionHolds

(* A reset link sets a password once, unless it is followed again before it *)
(* has been applied.                                                        *)
THEOREM LinkSpent == Spec => ResetLinkOnce
<1>1. IInv /\ [Next]_vars =>
        [\A r \in Reqs : /\ Applies(r) /\ req[r].op = "resetPassword"
                         /\ \E u \in req[r].users : [user |-> u, password |-> req[r].password] \in spent
                         /\ user' # user
                         => req[r].stale]_vars
  <2> SUFFICES ASSUME IInv, NEW r \in Reqs, Applies(r), req[r].op = "resetPassword",
                      NEW u \in req[r].users, [user |-> u, password |-> req[r].password] \in spent,
                      ~req[r].stale
               PROVE  FALSE
    BY DEF IInv, TypeOK, Request
  <2>1. u \in Users /\ user[u].password \in Nat
    BY DEF IInv, TypeOK, Request, User
  <2>2. user[u].password = req[r].password
    BY DEF Applies, IInv, FoundInv, Checked, Found
  <2>3. req[r].password < user[u].password
    BY DEF IInv, LinkInv
  <2> QED BY <2>1, <2>2, <2>3
<1> QED BY <1>1, Inductive, PTL DEF Spec, ResetLinkOnce
=============================================================================
