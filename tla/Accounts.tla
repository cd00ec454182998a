------------------------------ MODULE Accounts ------------------------------
(***************************************************************************)
(* Users and roles, and what keeps an installation in the hands of an      *)
(* administrator: the checks that UsersService and RolesService make       *)
(* before they change anything (services/users.ts, services/roles.ts), the *)
(* links by which an invited or registered user becomes active and a       *)
(* password is reset (auth/drivers/local.ts too), and the login attempts   *)
(* after which a user is suspended (services/authentication.ts).           *)
(* The checks run before the transaction of the mutation they guard, so    *)
(* that a request is first checked and later applied.                      *)
(***************************************************************************)
EXTENDS Naturals, FiniteSets

CONSTANTS Users, Roles,
          Reqs,         (* requests, each made once                               *)
          Logins,       (* bound: requests that may only be logins                *)
          Rejected,     (* bound: requests whose call of the limiter may fail     *)
          MaxAttempts,  (* the setting auth_login_attempts                        *)
          DefaultRole,  (* the role of who registers                              *)
          None,         (* no role                                                *)
          Same          (* a field that is not in the payload                     *)

ASSUME AccountsAssumption ==
    /\ MaxAttempts \in Nat /\ DefaultRole \in Roles \cup {None}
    /\ Logins \subseteq Reqs /\ IsFiniteSet(Reqs)
    /\ None \notin Roles /\ Same \notin Roles \cup {None, "invited", "draft", "active", "suspended"}

VARIABLES user,      (* directus_users                                            *)
          role,      (* directus_roles: its admin_access, or that it is absent    *)
          attempts,  (* loginAttemptsLimiter: points consumed by a user           *)
          req,       (* the local state of every request                          *)
          refused,   (* history: passwords refused since the counter was reset    *)
          spent      (* history: the reset links that have set a password         *)

vars == <<user, role, attempts, req, refused, spent>>

(* archived is as suspended: neither active nor waiting to become so.       *)
Statuses == {"absent", "invited", "draft", "active", "suspended"}
Access == {"absent", "plain", "admin"}

(* The password is named by how often it was set; a reset link carries the  *)
(* hash of the password it was issued for.                                  *)
User == [status : Statuses, role : Roles \cup {None}, password : Nat]
Row(s, x, p) == [status |-> s, role |-> x, password |-> p]
Link == [user : Users, password : Nat]

Operations == {"none", "createUser", "updateUsers", "deleteUsers", "acceptInvite", "verifyEmail",
               "resetPassword", "setUsersOfRole", "updateRoles", "deleteRoles", "login"}

Steps == {"idle", "users", "commit", "consume", "suspend", "forget", "verify", "success", "done"}

(* stale: users or roles have changed since the request was checked, or     *)
(* since the login suspended its user.                                      *)
(* counted: the attempt was counted after the last reset of the counter.    *)
Request == [op : Operations, pc : Steps, users : SUBSET Users, roles : SUBSET Roles,
            role : Roles \cup {None, Same}, status : Statuses \cup {Same}, access : Access,
            password : Nat, stale : BOOLEAN, counted : BOOLEAN]

Idle == [op |-> "none", pc |-> "idle", users |-> {}, roles |-> {}, role |-> Same, status |-> Same,
         access |-> "absent", password |-> 0, stale |-> FALSE, counted |-> FALSE]

Over == [Idle EXCEPT !.pc = "done"]

Present == {u \in Users : user[u].status # "absent"}
AdminRoles == {x \in Roles : role[x] = "admin"}
AdminUsers == {u \in Present : user[u].role \in AdminRoles}
ActiveAdmins == {u \in AdminUsers : user[u].status = "active"}

(* A user's role exists, whatever order users are moved and roles deleted   *)
(* in.                                                                      *)
TypeOK ==
    /\ user \in [Users -> User]
    /\ role \in [Roles -> Access]
    /\ attempts \in [Users -> Nat]
    /\ req \in [Reqs -> Request]
    /\ refused \in [Users -> Nat]
    /\ spent \in SUBSET Link
    /\ \A u \in Users : user[u].role # None => role[user[u].role] # "absent"

(* An installation with an administrator.                                   *)
Init ==
    /\ role \in [Roles -> {"plain", "admin"}]
    /\ user \in [Users -> [status : Statuses, role : Roles \cup {None}, password : {0}]]
    /\ \A u \in Users : user[u].status = "absent" => user[u].role = None
    /\ ActiveAdmins # {}
    /\ attempts = [u \in Users |-> 0]
    /\ req = [r \in Reqs |-> Idle]
    /\ refused = [u \in Users |-> 0]
    /\ spent = {}

-----------------------------------------------------------------------------
(* The checks.                                                              *)

(* Mutation: the users that are to go are counted. *)
AnyAdminUser(U) == AdminUsers # {}

(* checkRemainingAdminExistence: administrators of any status count.        *)
AdminUserBeside(U) == AdminUsers \ U # {}

(* Mutation: the status is not asked for. *)
AnyAdminBeside(U) == AdminUsers \ U # {}

(* checkRemainingActiveAdmin.                                               *)
ActiveAdminBeside(U) == ActiveAdmins \ U # {}

(* checkForOtherAdminRoles: that the role has users does not matter.        *)
AdminRoleBeside(R) == AdminRoles \ R # {}

(* checkForOtherAdminUsers, for a list of users that replaces those of the  *)
(* role.                                                                    *)
AdminUserAfterSet(x, U) ==
    \/ role[x] = "admin" /\ U # {}
    \/ AdminUserBeside(U \cup {u \in Present : user[u].role = x})

Start(r, new) ==
    /\ req[r].pc = "idle"
    /\ req' = [req EXCEPT ![r] = new]
    /\ UNCHANGED <<user, role, attempts, refused, spent>>

CreateUser(r, u, x, s) ==
    /\ user[u].status = "absent"
    /\ Start(r, [Idle EXCEPT !.op = "createUser", !.pc = "commit",
                             !.users = {u}, !.role = x, !.status = s])

(* UsersService.updateMany.  A role of null is falsy, and is not checked.   *)
UpdateUsers(r, U, x, s) ==
    /\ x \in Roles /\ role[x] # "admin" => AdminUserBeside(U)
    /\ s \notin {Same, "active"} => ActiveAdminBeside(U)
    /\ Start(r, [Idle EXCEPT !.op = "updateUsers", !.pc = "commit",
                             !.users = U, !.role = x, !.status = s])

(* inviteUser creates a user who is unknown and moves one who was invited   *)
(* to another role.                                                         *)
Invite(r, u, x) ==
    \/ CreateUser(r, u, x, "invited")
    \/ /\ user[u].status = "invited" /\ user[u].role # x
       /\ UpdateUsers(r, {u}, x, Same)

DeleteUsers(r, U) ==
    /\ AdminUserBeside(U)
    /\ Start(r, [Idle EXCEPT !.op = "deleteUsers", !.pc = "commit", !.users = U])

AcceptInvite(r, u) ==
    /\ user[u].status = "invited"
    /\ Start(r, [Idle EXCEPT !.op = "acceptInvite", !.pc = "commit", !.users = {u}])

(* registerUser makes a user that is unknown a draft.                       *)
Register(r, u) == CreateUser(r, u, DefaultRole, "draft")

VerifyEmail(r, u) ==
    /\ user[u].status = "draft"
    /\ Start(r, [Idle EXCEPT !.op = "verifyEmail", !.pc = "commit", !.users = {u}])

(* Mutation: the hash of the password is not compared. *)
ResetAnyPassword(r, link) ==
    /\ user[link.user].status = "active"
    /\ Start(r, [Idle EXCEPT !.op = "resetPassword", !.pc = "commit",
                             !.users = {link.user}, !.password = link.password])

(* Mutation: suspended users may reset their password. *)
ResetPasswordOfAny(r, link) ==
    /\ user[link.user].status # "absent"
    /\ user[link.user].password = link.password
    /\ Start(r, [Idle EXCEPT !.op = "resetPassword", !.pc = "commit",
                             !.users = {link.user}, !.password = link.password])

(* The link was issued by requestPasswordReset while the user had that      *)
(* password.                                                                *)
ResetPassword(r, link) ==
    /\ user[link.user].status = "active"
    /\ user[link.user].password = link.password
    /\ Start(r, [Idle EXCEPT !.op = "resetPassword", !.pc = "commit",
                             !.users = {link.user}, !.password = link.password])

(* RolesService.updateOne with a list of users.                             *)
SetUsersOfRole(r, x, U) ==
    /\ role[x] # "absent"
    /\ AdminUserAfterSet(x, U)
    /\ Start(r, [Idle EXCEPT !.op = "setUsersOfRole", !.pc = "commit", !.users = U, !.role = x])

(* RolesService.updateMany and updateBatch.                                 *)
UpdateRoles(r, R, access) ==
    /\ access = "plain" => AdminRoleBeside(R)
    /\ Start(r, [Idle EXCEPT !.op = "updateRoles", !.pc = "commit", !.roles = R, !.access = access])

DeleteRoles(r, R) ==
    /\ AdminRoleBeside(R)
    /\ Start(r, [Idle EXCEPT !.op = "deleteRoles", !.pc = "users", !.roles = R])

(* Inside the transaction that deletes the roles, their users are updated   *)
(* by UsersService, which makes its own check - if there are any.           *)
SuspendUsersOfRoles(r) ==
    /\ req[r].pc = "users"
    /\ LET U == {u \in Present : user[u].role \in req[r].roles} IN
        req' = [req EXCEPT ![r] =
                IF U = {} \/ ActiveAdminBeside(U)
                THEN [req[r] EXCEPT !.pc = "commit", !.users = U]
                ELSE Over]
    /\ UNCHANGED <<user, role, attempts, refused, spent>>

-----------------------------------------------------------------------------
(* The mutations.                                                           *)

Checked(q) == req[q].pc \in {"users", "commit", "forget"}

(* r has committed: what the others have found or done before may not hold. *)
Overtake(r) ==
    req' = [q \in Reqs |->
              IF q = r THEN Over
              ELSE IF Checked(q) /\ (user' # user \/ role' # role)
              THEN [req[q] EXCEPT !.stale = TRUE] ELSE req[q]]

Committing(r, op) == req[r].pc = "commit" /\ req[r].op = op

CommitCreateUser(r) ==
    /\ Committing(r, "createUser")
    /\ \E u \in req[r].users :
        /\ user[u].status = "absent"
        /\ req[r].role # None => role[req[r].role] # "absent"
        /\ user' = [user EXCEPT ![u] = Row(req[r].status, req[r].role, user[u].password + 1)]
    /\ UNCHANGED <<role, attempts, refused, spent>>
    /\ Overtake(r)

CommitUpdateUsers(r) ==
    /\ Committing(r, "updateUsers")
    /\ req[r].role \in Roles => role[req[r].role] # "absent"
    /\ user' = [u \in Users |->
                IF u \in req[r].users \cap Present
                THEN Row(IF req[r].status = Same THEN user[u].status ELSE req[r].status,
                         IF req[r].role = Same THEN user[u].role ELSE req[r].role,
                         user[u].password)
                ELSE user[u]]
    /\ UNCHANGED <<role, attempts, refused, spent>>
    /\ Overtake(r)

CommitDeleteUsers(r) ==
    /\ Committing(r, "deleteUsers")
    /\ user' = [u \in Users |->
                IF u \in req[r].users
                THEN Row("absent", None, user[u].password) ELSE user[u]]
    /\ UNCHANGED <<role, attempts, refused, spent>>
    /\ Overtake(r)

(* acceptInvite and resetPassword set the password and make the user        *)
(* active, and verifyEmail makes it active, whatever it has become since.   *)
CommitVerifyEmail(r) ==
    /\ Committing(r, "verifyEmail")
    /\ user' = [u \in Users |->
                IF u \in req[r].users \cap Present
                THEN Row("active", user[u].role, user[u].password) ELSE user[u]]
    /\ UNCHANGED <<role, attempts, refused, spent>>
    /\ Overtake(r)

CommitPassword(r) ==
    /\ Committing(r, "acceptInvite") \/ Committing(r, "resetPassword")
    /\ user' = [u \in Users |->
                IF u \in req[r].users \cap Present
                THEN Row("active", user[u].role, user[u].password + 1)
                ELSE user[u]]
    /\ spent' = IF req[r].op = "acceptInvite" THEN spent
                ELSE spent \cup {[user |-> u, password |-> req[r].password] : u \in req[r].users \cap Present}
    /\ UNCHANGED <<role, attempts, refused>>
    /\ Overtake(r)

(* The users in the list get the role, those who had it and are not in the  *)
(* list have none.                                                          *)
CommitSetUsersOfRole(r) ==
    /\ Committing(r, "setUsersOfRole")
    /\ role[req[r].role] # "absent"
    /\ user' = [u \in Users |->
                IF u \in req[r].users \cap Present THEN Row(user[u].status, req[r].role, user[u].password)
                ELSE IF user[u].role = req[r].role THEN Row(user[u].status, None, user[u].password)
                ELSE user[u]]
    /\ UNCHANGED <<role, attempts, refused, spent>>
    /\ Overtake(r)

CommitUpdateRoles(r) ==
    /\ Committing(r, "updateRoles")
    /\ role' = [x \in Roles |->
                IF x \in req[r].roles /\ role[x] # "absent" THEN req[r].access ELSE role[x]]
    /\ UNCHANGED <<user, attempts, refused, spent>>
    /\ Overtake(r)

(* Mutation: the users that came into the role meanwhile keep it. *)
CommitDeleteRolesLoosely(r) ==
    /\ Committing(r, "deleteRoles")
    /\ role' = [x \in Roles |-> IF x \in req[r].roles THEN "absent" ELSE role[x]]
    /\ user' = [u \in Users |->
                IF u \in req[r].users \cap Present
                THEN Row("suspended", None, user[u].password)
                ELSE user[u]]
    /\ UNCHANGED <<attempts, refused, spent>>
    /\ Overtake(r)

(* The users found are suspended; the foreign key of directus_users takes   *)
(* the role from those who got it meanwhile.                                *)
CommitDeleteRoles(r) ==
    /\ Committing(r, "deleteRoles")
    /\ role' = [x \in Roles |-> IF x \in req[r].roles THEN "absent" ELSE role[x]]
    /\ user' = [u \in Users |->
                IF u \in req[r].users \cap Present
                THEN Row("suspended", None, user[u].password)
                ELSE IF user[u].role \in req[r].roles THEN Row(user[u].status, None, user[u].password)
                ELSE user[u]]
    /\ UNCHANGED <<attempts, refused, spent>>
    /\ Overtake(r)

(* A filter refuses, a constraint is violated, a statement fails.           *)
Fail(r) ==
    /\ req[r].pc \in {"users", "commit"}
    /\ req' = [req EXCEPT ![r] = Over]
    /\ UNCHANGED <<user, role, attempts, refused, spent>>

-----------------------------------------------------------------------------
(* A login.                                                                 *)

Login(r, u) ==
    /\ user[u].status = "active"
    /\ Start(r, [Idle EXCEPT !.op = "login", !.pc = "consume", !.users = {u}])

(* Mutation: one attempt is not counted. *)
ConsumeLate(r, u) ==
    /\ req[r].pc = "consume" /\ u \in req[r].users
    /\ attempts' = [attempts EXCEPT ![u] = attempts[u] + 1]
    /\ req' = [req EXCEPT ![r] = [req[r] EXCEPT
                !.pc = IF attempts[u] > MaxAttempts THEN "suspend" ELSE "verify", !.counted = TRUE]]
    /\ UNCHANGED <<user, role, refused, spent>>

Consume(r, u) ==
    /\ req[r].pc = "consume" /\ u \in req[r].users
    /\ attempts' = [attempts EXCEPT ![u] = attempts[u] + 1]
    /\ req' = [req EXCEPT ![r] = [req[r] EXCEPT
                !.pc = IF attempts[u] < MaxAttempts THEN "verify" ELSE "suspend", !.counted = TRUE]]
    /\ UNCHANGED <<user, role, refused, spent>>

(* A rejection of the limiter is taken for the limit, whatever its reason.  *)
ConsumeFails(r, u) ==
    /\ req[r].pc = "consume" /\ u \in req[r].users /\ r \in Rejected
    /\ req' = [req EXCEPT ![r] = [req[r] EXCEPT !.pc = "suspend"]]
    /\ UNCHANGED <<user, role, attempts, refused, spent>>

(* The user may be the last administrator, or deleted meanwhile.            *)
Suspend(r, u) ==
    /\ req[r].pc = "suspend" /\ u \in req[r].users
    /\ user' = IF u \in Present THEN [user EXCEPT ![u] = Row("suspended", user[u].role, user[u].password)] ELSE user
    /\ req' = [q \in Reqs |->
                IF q = r THEN [req[r] EXCEPT !.pc = "forget"]
                ELSE IF Checked(q) /\ user' # user THEN [req[q] EXCEPT !.stale = TRUE] ELSE req[q]]
    /\ UNCHANGED <<role, attempts, refused, spent>>

(* loginAttemptsLimiter.set(user.id, 0, 0).                                 *)
ResetAttempts(r, u, next) ==
    /\ attempts' = [attempts EXCEPT ![u] = 0]
    /\ refused' = [refused EXCEPT ![u] = 0]
    /\ req' = [q \in Reqs |->
                IF q = r THEN next
                ELSE IF req[q].op = "login" /\ u \in req[q].users THEN [req[q] EXCEPT !.counted = FALSE]
                ELSE req[q]]
    /\ UNCHANGED <<user, role, spent>>

(* The login goes on: with the right password it succeeds.                  *)
Forget(r, u) ==
    /\ req[r].pc = "forget" /\ u \in req[r].users
    /\ ResetAttempts(r, u, [req[r] EXCEPT !.pc = "verify", !.counted = FALSE])

(* The password, or the one-time password, is wrong.                        *)
Refuse(r, u) ==
    /\ req[r].pc = "verify" /\ u \in req[r].users
    /\ refused' = IF req[r].counted THEN [refused EXCEPT ![u] = refused[u] + 1] ELSE refused
    /\ req' = [req EXCEPT ![r] = Over]
    /\ UNCHANGED <<user, role, attempts, spent>>

(* Both are right: a session is stored, unless the user was deleted.        *)
Accept(r, u) ==
    /\ req[r].pc = "verify" /\ u \in req[r].users
    /\ req' = [req EXCEPT ![r] = IF u \in Present THEN [req[r] EXCEPT !.pc = "success"] ELSE Over]
    /\ UNCHANGED <<user, role, attempts, refused, spent>>

Succeed(r, u) ==
    /\ req[r].pc = "success" /\ u \in req[r].users
    /\ ResetAttempts(r, u, Over)

-----------------------------------------------------------------------------

(* Bound: an update gives a role or a status.                               *)
Mutate(r) ==
    \/ \E u \in Users, x \in Roles \cup {None}, s \in {"invited", "active"} : CreateUser(r, u, x, s)
    \/ \E U \in SUBSET Present \ {{}}, x \in Roles \cup {None, Same}, s \in {"active", "suspended", Same} :
        Same \in {x, s} /\ UpdateUsers(r, U, x, s)
    \/ \E U \in SUBSET Present \ {{}} : DeleteUsers(r, U)
    \/ \E u \in Users : AcceptInvite(r, u) \/ VerifyEmail(r, u) \/ Register(r, u)
    \/ \E u \in Users, x \in Roles : Invite(r, u, x)
    \/ \E u \in Users : \E p \in 0..user[u].password : ResetPassword(r, [user |-> u, password |-> p])
    \/ \E x \in Roles, U \in SUBSET Present : SetUsersOfRole(r, x, U)
    \/ \E R \in SUBSET Roles \ {{}}, access \in {"plain", "admin"} : UpdateRoles(r, R, access)
    \/ \E R \in SUBSET Roles \ {{}} : DeleteRoles(r, R)
    \/ SuspendUsersOfRoles(r)

Commit(r) ==
    \/ CommitCreateUser(r) \/ CommitUpdateUsers(r) \/ CommitDeleteUsers(r) \/ CommitVerifyEmail(r)
    \/ CommitPassword(r) \/ CommitSetUsersOfRole(r) \/ CommitUpdateRoles(r) \/ CommitDeleteRoles(r)

LogIn(r, u) ==
    \/ Login(r, u) \/ Consume(r, u) \/ ConsumeFails(r, u) \/ Suspend(r, u) \/ Forget(r, u)
    \/ Refuse(r, u) \/ Accept(r, u) \/ Succeed(r, u)

Next ==
    \/ \E r \in Reqs \ Logins : Mutate(r) \/ Commit(r) \/ Fail(r)
    \/ \E r \in Reqs, u \in Users : LogIn(r, u)

Spec == Init /\ [][Next]_vars

-----------------------------------------------------------------------------
(* Properties.                                                              *)

Applies(r) == req[r].pc = "commit" /\ req'[r].pc = "done"

(* Whatever is deleted, moved or set interleaves, the last user of an admin *)
(* role is lost only by a mutation that was overtaken since its check, that *)
(* takes the role away with null, or that takes admin_access from a role    *)
(* while the other admin roles have no users.                               *)
AdminUserKept ==
    [][AdminUsers # {} /\ AdminUsers' = {} =>
        \E r \in Reqs : /\ Applies(r)
                        /\ \/ req[r].stale
                           \/ req[r].op = "updateUsers" /\ req[r].role = None
                           \/ req[r].op = "updateRoles"]_vars

(* Suspending users and deleting roles, which suspends their users, never   *)
(* loses the last active administrator unless overtaken; only a login that  *)
(* meets the limit does, and what is checked for administrators of any      *)
(* status.                                                                  *)
ActiveAdminKept ==
    [][ActiveAdmins # {} /\ ActiveAdmins' = {} =>
        \/ \E r \in Reqs : req[r].pc = "suspend" /\ req'[r].pc = "forget"
        \/ \E r \in Reqs : /\ Applies(r)
                           /\ \/ req[r].stale
                              \/ req[r].op = "updateUsers" /\ req[r].status \in {Same, "active"}
                              \/ req[r].op \in {"deleteUsers", "setUsersOfRole", "updateRoles"}]_vars

(* The last admin role is lost only by a mutation that was overtaken.       *)
AdminRoleKept ==
    [][AdminRoles # {} /\ AdminRoles' = {} => \E r \in Reqs : Applies(r) /\ req[r].stale]_vars

(* A suspended user becomes active again only if an update says so, or by a *)
(* link that was followed before the suspension and applied after it.       *)
SuspensionHolds ==
    [][\A u \in Users : user[u].status = "suspended" /\ user'[u].status = "active" =>
        \E r \in Reqs : Applies(r) /\ (req[r].op = "updateUsers" \/ req[r].stale)]_vars

(* A reset link sets a password once, unless it is followed again before it *)
(* has been applied.                                                        *)
ResetLinkOnce ==
    [][\A r \in Reqs : /\ Applies(r) /\ req[r].op = "resetPassword"
                       /\ \E u \in req[r].users : [user |-> u, password |-> req[r].password] \in spent
                       /\ user' # user
                       => req[r].stale]_vars

(* However logins of a user overlap, no more passwords than the limit are   *)
(* refused from one reset of the counter to the next while the user stays   *)
(* active: the login that met the limit is about to suspend the user, or    *)
(* has done so and the user was made active again.                          *)
AttemptsLimited ==
    \A u \in Users :
        user[u].status = "active" /\ refused[u] > MaxAttempts =>
            \E r \in Reqs : /\ u \in req[r].users
                            /\ \/ req[r].pc = "suspend"
                               \/ req[r].pc = "forget" /\ req[r].stale
=============================================================================
