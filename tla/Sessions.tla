------------------------------ MODULE Sessions ------------------------------
(***************************************************************************)
(* Refresh-token sessions: the rows of directus_sessions and the requests  *)
(* that log in (AuthenticationService.login, SharesService.login), rotate  *)
(* a token (AuthenticationService.refresh) and log out.  Every awaited SQL *)
(* statement is an action of its own, so requests interleave between any   *)
(* two statements of one of them; no transaction surrounds them in the     *)
(* code.  A session is a chain of rows with one session_id: rotating a     *)
(* token keeps its row for an overlap, pointing at the new token through   *)
(* fallback_token.                                                         *)
(***************************************************************************)
EXTENDS Naturals

CONSTANTS Tokens,     (* values nanoid(64) returns: tokens and session ids      *)
          Users,      (* rows of directus_users                                 *)
          Shares,     (* rows of directus_shares                                *)
          Legacy,     (* tokens rows older than the session_id column may have   *)
          Reqs,       (* concurrent requests                                    *)
          TTL,        (* REFRESH_TOKEN_TTL                                      *)
          Overlap,    (* REFRESH_TOKEN_OVERLAP_DURATION                         *)
          MaxTime,    (* bound: the clock stops here                            *)
          MaxAborts,  (* bound: how many requests die half-way                  *)
          None        (* the SQL NULL                                           *)

Owners == Users \cup Shares

ASSUME SessionsAssumption ==
    /\ TTL \in Nat /\ Overlap \in Nat /\ MaxTime \in Nat /\ MaxAborts \in Nat
    /\ None \notin Tokens \cup Owners
    /\ Legacy \subseteq Tokens

VARIABLES sessions,  (* directus_sessions: token -> row                         *)
          status,    (* of a user, or whether a share's date window is open     *)
          now,       (* the clock                                               *)
          req,       (* the local state of every request                        *)
          drawn,     (* the values nanoid has returned                          *)
          succ,      (* history: what a token was rotated to                    *)
          answers,   (* history: the tokens refreshes of a token returned       *)
          aborts     (* how many requests died half-way                         *)

vars == <<sessions, status, now, req, drawn, succ, answers, aborts>>

OrNone(S) == S \cup {None}

Row == [owner: Owners, expires: Nat, fallback: OrNone(Tokens), sid: OrNone(Tokens)]

Steps == {"idle", "login", "sweep", "purge", "cleanup", "extend", "claim",
          "reread", "insert", "logout"}

(* token is the presented token; owner, fallback and sid are the fields of  *)
(* the row as the first SELECT returned it; new is the token drawn.         *)
Request == [pc: Steps, token: OrNone(Tokens), owner: OrNone(Owners),
            fallback: OrNone(Tokens), sid: OrNone(Tokens), new: OrNone(Tokens)]

Idle == [pc |-> "idle", token |-> None, owner |-> None, fallback |-> None,
         sid |-> None, new |-> None]

(* Rows, requests and history keep their types: in particular a refresh is  *)
(* answered with a token, never with the NULL of a row it reads again.      *)
TypeOK ==
    /\ DOMAIN sessions \subseteq Tokens
    /\ sessions \in [DOMAIN sessions -> Row]
    /\ status \in [Owners -> {"active", "inactive", "deleted"}]
    /\ now \in Nat
    /\ req \in [Reqs -> Request]
    /\ drawn \in SUBSET Tokens
    /\ succ \in [Tokens -> OrNone(Tokens)]
    /\ answers \in [Tokens -> SUBSET Tokens]
    /\ aborts \in Nat

LegacyRow == [owner: Owners, expires: {TTL}, fallback: {None}, sid: {None}]

Init ==
    /\ sessions \in UNION {[L -> LegacyRow] : L \in SUBSET Legacy}
    /\ status = [p \in Owners |-> "active"]
    /\ now = 0
    /\ req = [r \in Reqs |-> Idle]
    /\ drawn = DOMAIN sessions
    /\ succ = [t \in Tokens |-> None]
    /\ answers = [t \in Tokens |-> {}]
    /\ aborts = 0

-----------------------------------------------------------------------------
(* SQL on directus_sessions.                                                *)

Expired(t) == sessions[t].expires < now

Without(D) == [t \in DOMAIN sessions \ D |-> sessions[t]]

With(t, row) ==
    [x \in DOMAIN sessions \cup {t} |-> IF x = t THEN row ELSE sessions[x]]

(* A request moves on, and a request is over. *)
Goto(r, step) == req' = [req EXCEPT ![r].pc = step]
Done(r) == req' = [req EXCEPT ![r] = Idle]

Start(r, step, t) ==
    /\ req[r].pc = "idle"
    /\ req' = [req EXCEPT ![r] =
                [pc |-> step, token |-> t, owner |-> sessions[t].owner,
                 fallback |-> sessions[t].fallback, sid |-> sessions[t].sid,
                 new |-> None]]

(* A refresh of the presented token returns n. *)
Return(r, n) ==
    /\ answers' = [answers EXCEPT ![req[r].token] = @ \cup {n}]
    /\ Done(r)

-----------------------------------------------------------------------------
(* Login of a user, or of a visitor of a share.                             *)

LoginStart(r, p) ==
    /\ req[r].pc = "idle"
    /\ status[p] = "active"
    /\ req' = [req EXCEPT ![r] = [Idle EXCEPT !.pc = "login", !.owner = p]]
    /\ UNCHANGED <<sessions, status, now, drawn, succ, answers, aborts>>

LoginInsert(r) ==
    /\ req[r].pc = "login"
    /\ status[req[r].owner] # "deleted"
    /\ \E t \in Tokens \ drawn :
        /\ sessions' = With(t, [owner |-> req[r].owner, expires |-> now + TTL,
                                fallback |-> None, sid |-> t])
        /\ drawn' = drawn \cup {t}
    /\ Goto(r, "sweep")
    /\ UNCHANGED <<status, now, succ, answers, aborts>>

LoginSweep(r) ==
    /\ req[r].pc = "sweep"
    /\ sessions' = Without({t \in DOMAIN sessions : Expired(t)})
    /\ Done(r)
    /\ UNCHANGED <<status, now, drawn, succ, answers, aborts>>

-----------------------------------------------------------------------------
(* Refresh.  A token no live row carries is refused and changes nothing.    *)

RefreshStart(r, t) ==
    /\ t \in DOMAIN sessions
    /\ ~Expired(t)
    /\ \/ /\ status[sessions[t].owner] = "active"
          /\ Start(r, "cleanup", t)
       \/ /\ sessions[t].owner \in Users
          /\ status[sessions[t].owner] # "active"
          /\ Start(r, "purge", t)
    /\ UNCHANGED <<sessions, status, now, drawn, succ, answers, aborts>>

RefreshPurge(r) ==
    /\ req[r].pc = "purge"
    /\ sessions' = Without({req[r].token})
    /\ Done(r)
    /\ UNCHANGED <<status, now, drawn, succ, answers, aborts>>

(* "where user = <user>": for a share session the user is NULL, which knex  *)
(* turns into IS NULL, so the rows of all shares are cleaned up.            *)
SameUserColumn(p, q) == p = q \/ (p \in Shares /\ q \in Shares)

RefreshCleanUp(r) ==
    /\ req[r].pc = "cleanup"
    /\ sessions' = Without({t \in DOMAIN sessions :
                        Expired(t) /\ SameUserColumn(sessions[t].owner, req[r].owner)})
    /\ Goto(r, IF req[r].fallback = None THEN "claim" ELSE "extend")
    /\ UNCHANGED <<status, now, drawn, succ, answers, aborts>>

(* Mutation: the successor's row is written back when it is gone. *)
RefreshExtendUpserts(r) ==
    /\ req[r].pc = "extend"
    /\ sessions' = With(req[r].fallback,
                        [owner |-> req[r].owner, expires |-> now + TTL,
                         fallback |-> None, sid |-> req[r].sid])
    /\ Return(r, req[r].fallback)
    /\ UNCHANGED <<status, now, drawn, succ, aborts>>

RefreshExtend(r) ==
    /\ req[r].pc = "extend"
    /\ sessions' = [t \in DOMAIN sessions |->
                        IF t = req[r].fallback
                        THEN [sessions[t] EXCEPT !.expires = now + TTL]
                        ELSE sessions[t]]
    /\ Return(r, req[r].fallback)
    /\ UNCHANGED <<status, now, drawn, succ, aborts>>

(* Mutation: the condition "fallback_token is null" forgotten. *)
ClaimableByAll(t) == t \in DOMAIN sessions

(* "where token = <t> and fallback_token is null" *)
Claimable(t) == t \in DOMAIN sessions /\ sessions[t].fallback = None

RefreshClaim(r) ==
    /\ req[r].pc = "claim"
    /\ Claimable(req[r].token)
    /\ \E n \in Tokens \ drawn :
        /\ sessions' = With(req[r].token, [sessions[req[r].token] EXCEPT
                            !.fallback = n, !.expires = now + Overlap])
        /\ succ' = [succ EXCEPT ![req[r].token] = n]
        /\ drawn' = drawn \cup {n}
        /\ req' = [req EXCEPT ![r] =
                    [req[r] EXCEPT !.pc = "insert", !.new = n,
                                   !.sid = IF req[r].sid = None THEN n ELSE req[r].sid]]
    /\ UNCHANGED <<status, now, answers, aborts>>

RefreshClaimLost(r) ==
    /\ req[r].pc = "claim"
    /\ ~Claimable(req[r].token)
    /\ Goto(r, "reread")
    /\ UNCHANGED <<sessions, status, now, drawn, succ, answers, aborts>>

(* Mutation: the loser returns the fallback_token it read at first. *)
RefreshRereadNull(r) ==
    /\ req[r].pc = "reread"
    /\ Return(r, req[r].fallback)
    /\ UNCHANGED <<sessions, status, now, drawn, succ, aborts>>

(* Mutation: the loser keeps the token it drew itself. *)
RefreshRereadIgnored(r) ==
    /\ req[r].pc = "reread"
    /\ \E n \in Tokens \ drawn : Return(r, n) /\ drawn' = drawn \cup {n}
    /\ UNCHANGED <<sessions, status, now, succ, aborts>>

(* Mutation: the loser waits for a row that may be gone. *)
RefreshRereadWaits(r) ==
    /\ req[r].pc = "reread"
    /\ req[r].token \in DOMAIN sessions
    /\ Return(r, sessions[req[r].token].fallback)
    /\ UNCHANGED <<sessions, status, now, drawn, succ, aborts>>

(* When the row is gone, reading fallback_token of undefined throws.        *)
RefreshReread(r) ==
    /\ req[r].pc = "reread"
    /\ \/ /\ req[r].token \in DOMAIN sessions
          /\ Return(r, sessions[req[r].token].fallback)
       \/ /\ req[r].token \notin DOMAIN sessions
          /\ Done(r)
          /\ UNCHANGED answers
    /\ UNCHANGED <<sessions, status, now, drawn, succ, aborts>>

RefreshInsert(r) ==
    /\ req[r].pc = "insert"
    /\ status[req[r].owner] # "deleted"
    /\ sessions' = With(req[r].new,
                        [owner |-> req[r].owner, expires |-> now + TTL,
                         fallback |-> None, sid |-> req[r].sid])
    /\ Return(r, req[r].new)
    /\ UNCHANGED <<status, now, drawn, succ, aborts>>

-----------------------------------------------------------------------------
(* Logout.  The inner join with directus_users leaves share sessions alone. *)

LogoutStart(r, t) ==
    /\ t \in DOMAIN sessions
    /\ sessions[t].owner \in Users
    /\ Start(r, "logout", t)
    /\ UNCHANGED <<sessions, status, now, drawn, succ, answers, aborts>>

(* Mutation: only the predecessor is deleted. *)
LogoutDeletesFallback(r) ==
    /\ req[r].pc = "logout"
    /\ sessions' = Without({t \in DOMAIN sessions : sessions[t].fallback = req[r].token})
    /\ Done(r)
    /\ UNCHANGED <<status, now, drawn, succ, answers, aborts>>

LogoutDelete(r) ==
    /\ req[r].pc = "logout"
    /\ sessions' = Without({t \in DOMAIN sessions :
                        t = req[r].token \/ sessions[t].fallback = req[r].token})
    /\ Done(r)
    /\ UNCHANGED <<status, now, drawn, succ, answers, aborts>>

-----------------------------------------------------------------------------
(* The surroundings.                                                        *)

(* An INSERT whose user or share was deleted violates the foreign key.      *)
ForeignKeyError(r) ==
    /\ req[r].pc \in {"login", "insert"}
    /\ status[req[r].owner] = "deleted"
    /\ Done(r)
    /\ UNCHANGED <<sessions, status, now, drawn, succ, answers, aborts>>

(* The server dies, or an awaited call (provider.refresh, a statement, the  *)
(* auth.jwt filter) rejects: what was written stays written.                *)
Abort(r) ==
    /\ req[r].pc # "idle"
    /\ aborts < MaxAborts
    /\ aborts' = aborts + 1
    /\ Done(r)
    /\ UNCHANGED <<sessions, status, now, drawn, succ, answers>>

(* A user is suspended or reactivated; a share's date window closes, opens. *)
SetStatus(p) ==
    /\ status[p] # "deleted"
    /\ status' = [status EXCEPT ![p] = IF @ = "active" THEN "inactive" ELSE "active"]
    /\ UNCHANGED <<sessions, now, req, drawn, succ, answers, aborts>>

(* The foreign keys of directus_sessions cascade.                           *)
DeleteOwner(p) ==
    /\ status[p] # "deleted"
    /\ status' = [status EXCEPT ![p] = "deleted"]
    /\ sessions' = Without({t \in DOMAIN sessions : sessions[t].owner = p})
    /\ UNCHANGED <<now, req, drawn, succ, answers, aborts>>

Tick ==
    /\ now < MaxTime
    /\ now' = now + 1
    /\ UNCHANGED <<sessions, status, req, drawn, succ, answers, aborts>>

Refresh(r) ==
    \/ \E t \in Tokens : RefreshStart(r, t)
    \/ RefreshPurge(r) \/ RefreshCleanUp(r) \/ RefreshExtend(r)
    \/ RefreshClaim(r) \/ RefreshClaimLost(r) \/ RefreshReread(r) \/ RefreshInsert(r)

Login(r) ==
    \/ \E p \in Owners : LoginStart(r, p)
    \/ LoginInsert(r) \/ LoginSweep(r)

Logout(r) ==
    \/ \E t \in Tokens : LogoutStart(r, t)
    \/ LogoutDelete(r)

Next ==
    \/ \E r \in Reqs : Login(r) \/ Refresh(r) \/ Logout(r) \/ ForeignKeyError(r) \/ Abort(r)
    \/ \E p \in Owners : SetStatus(p) \/ DeleteOwner(p)
    \/ Tick

Spec == Init /\ [][Next]_vars

(* A request that was accepted goes on: Node runs every continuation whose  *)
(* statement the database has answered.                                     *)
Step(r) ==
    \/ LoginInsert(r) \/ LoginSweep(r)
    \/ RefreshPurge(r) \/ RefreshCleanUp(r) \/ RefreshExtend(r)
    \/ RefreshClaim(r) \/ RefreshClaimLost(r) \/ RefreshReread(r) \/ RefreshInsert(r)
    \/ LogoutDelete(r) \/ ForeignKeyError(r)

FairSpec == Spec /\ \A r \in Reqs : WF_vars(Step(r))

-----------------------------------------------------------------------------
(* Properties.                                                              *)

IsHead(t, s) == t \in DOMAIN sessions /\ sessions[t].fallback = None /\ sessions[t].sid = s

IsPending(t, s) ==
    \E r \in Reqs : req[r].pc = "insert" /\ req[r].new = t /\ req[r].sid = s

(* The tokens session s can go on with: an unrotated row, or a token a      *)
(* request has drawn and is about to insert.                                *)
Carriers(s) == {t \in Tokens : IsHead(t, s) \/ IsPending(t, s)}

(* middleware/authenticate.ts: an access token of session s is accepted.    *)
Authenticates(s) == \E t \in DOMAIN sessions : sessions[t].sid = s /\ ~Expired(t)

(* A session never forks: however refreshes of its tokens interleave, at    *)
(* most one token can be rotated next.  This is what the atomic condition   *)
(* "fallback_token: null" of refresh() is for.                              *)
SingleHead == \A s \in Tokens : \A a, b \in Carriers(s) : a = b

(* "Concurrent refresh requests receive the same new token": all refreshes  *)
(* of one token that are answered, now or later, are answered alike.        *)
SameAnswer == \A t \in Tokens : \A a, b \in answers[t] : a = b

(* No statement of a request that is still under way brings a session back  *)
(* whose current token was logged out, purged, expired or cascaded away.    *)
DeadSession ==
    [][\A s \in drawn : Carriers(s) = {} => Carriers(s)' = {}]_vars

(* Logging out with the current token of a session ends it, whatever        *)
(* refreshes of older tokens are under way.                                 *)
LogoutEndsHead ==
    [][\A r \in Reqs : \A s \in Tokens :
        LogoutDelete(r) /\ IsHead(req[r].token, s) => Carriers(s)' = {}]_vars

(* Every accepted request ends, answered or refused; the bound on tokens    *)
(* excuses one that is about to draw a token, as long as nanoid has none    *)
(* left, and no other.                                                      *)
Terminates ==
    \A r \in Reqs :
        req[r].pc # "idle" ~>
            \/ req[r].pc = "idle"
            \/ req[r].pc \in {"login", "claim"} /\ drawn = Tokens

(* The strengthening of SingleHead and SameAnswer that every step keeps.    *)

(* A row points to what its token was rotated to; nothing is rotated to a   *)
(* token that was not drawn, and no two tokens to the same one.             *)
RowsFollowSucc ==
    /\ DOMAIN sessions \subseteq drawn
    /\ \A t \in DOMAIN sessions :
        sessions[t].fallback = succ[t] /\ sessions[t].sid \in OrNone(drawn)
    /\ \A t \in Tokens :
        /\ succ[t] \in OrNone(drawn)
        /\ succ[t] # None => t \in drawn
        /\ \A a \in answers[t] : succ[t] = a
    /\ \A t, u \in Tokens : succ[t] # None /\ succ[t] = succ[u] => t = u

(* What a request read from its row is still true of it.                    *)
ReadAgrees(r) ==
    /\ req[r].pc \notin {"idle", "login", "sweep"} => req[r].token \in drawn
    /\ req[r].token \in OrNone(drawn)
    /\ req[r].sid \in OrNone(drawn)
    /\ req[r].pc \in {"login", "cleanup", "extend", "claim", "insert"} => req[r].owner \in Owners
    /\ req[r].pc = "extend" => req[r].fallback # None
    /\ req[r].pc \in {"cleanup", "extend"} =>
        req[r].fallback = None \/ req[r].fallback = succ[req[r].token]
    /\ req[r].pc \in {"cleanup", "claim"} /\ req[r].token \in DOMAIN sessions =>
        sessions[req[r].token].sid = req[r].sid
    /\ req[r].pc = "reread" /\ req[r].token \in DOMAIN sessions =>
        sessions[req[r].token].fallback # None

ReadsAgree == \A r \in Reqs : ReadAgrees(r)

(* A drawn token that is still to be inserted is known to its request only. *)
Private(r) ==
    /\ req[r].new \in drawn /\ req[r].new \notin DOMAIN sessions
    /\ req[r].sid \in drawn
    /\ succ[req[r].token] = req[r].new /\ succ[req[r].new] = None
    /\ \A q \in Reqs :
        /\ req[q].token # req[r].new
        /\ req[q].pc = "insert" /\ req[q].new = req[r].new => q = r

PendingIsPrivate == \A r \in Reqs : req[r].pc = "insert" => Private(r)

IInv == TypeOK /\ RowsFollowSucc /\ ReadsAgree /\ PendingIsPrivate /\ SingleHead

Rot == INSTANCE Rotation

(* Sessions implements the rotation of tokens it promises: whatever the     *)
(* statements of concurrent refreshes, a token has one successor.           *)
RotationSpec == Rot!Spec

-----------------------------------------------------------------------------
(* What comments and docs say and the code does not do.                     *)

(* services/authentication.ts: "Remove all related sessions (main and       *)
(* fallback)": when a logout is done no access token of the session is      *)
(* accepted any more.                                                       *)
LogoutDestroysSession ==
    [][\A r \in Reqs : \A s \in Tokens :
        LogoutDelete(r) /\ req[r].sid = s => ~Authenticates(s)']_vars

(* The overlap prevents "authentication failures when multiple requests     *)
(* refresh simultaneously": a token a refresh returns is in the table.      *)
AnswerUsable ==
    [][\A t, n \in Tokens : n \in answers'[t] \ answers[t] => n \in DOMAIN sessions']_vars
=============================================================================
