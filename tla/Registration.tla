---------------------------- MODULE Registration ----------------------------
(***************************************************************************)
(* Registration with one address (auth/drivers/local.ts): the account it   *)
(* creates, and the mails that ask to confirm it, of which a request sends *)
(* none within an interval of the last.  An address has several spellings  *)
(* (upper and lower case): the code compares addresses, the unique column  *)
(* of directus_users compares spellings.                                   *)
(***************************************************************************)
EXTENDS RegistrationConstants

CONSTANTS Spellings,  (* of the one address                                     *)
          Reqs,       (* requests to register                                   *)
          MaxTime     (* bound: on the clock                                    *)

VARIABLES account,    (* spelling -> Missing, or status and registerMailSentAt  *)
          req,        (* request -> its local variables                         *)
          now,        (* the clock                                              *)
          lastMail,   (* history: when the last mail was sent, 0 if never       *)
          unrecorded, (* history: the last mail is on record with no account    *)
          raced       (* history: an account was created since a request that   *)
                      (* creates another looked                                 *)

vars == <<account, req, now, lastMail, unrecorded, raced>>

Locals == [pc : {"new", "check", "insert", "reread", "send", "stamp", "store", "done"},
           email : Spellings, account : Spellings, date : Nat,
           excused : BOOLEAN, alone : BOOLEAN]

TypeOK ==
    /\ account \in [Spellings -> Columns \cup {Missing}]
    /\ req \in [Reqs -> Locals]
    /\ now \in Nat /\ lastMail \in Nat
    /\ unrecorded \in BOOLEAN /\ raced \in BOOLEAN

(* 0 stands for never, and is long ago.                                     *)
Init ==
    /\ account = [s \in Spellings |-> Missing]
    /\ req \in [Reqs -> {[pc |-> "new", email |-> s, account |-> s, date |-> 0,
                          excused |-> FALSE, alone |-> FALSE] : s \in Spellings}]
    /\ now = Interval
    /\ lastMail = 0
    /\ unrecorded = FALSE
    /\ raced = FALSE

Accounts == {s \in Spellings : account[s] # Missing}

Step(r, pc) == req' = [req EXCEPT ![r].pc = pc]

-----------------------------------------------------------------------------
(* registerUser                                                             *)

(* No mail was sent for the account within the interval.                    *)
MailDue(s) == now - account[s].sentAt >= Interval

(* Mutation: the interval is not looked at. *)
LookupWithoutInterval(r) ==
    /\ req[r].pc = "new"
    /\ \/ /\ Accounts = {}
          /\ req' = [req EXCEPT ![r].pc = "check", ![r].excused = unrecorded]
       \/ \E s \in Accounts :
            IF account[s].status = "draft"
            THEN req' = [req EXCEPT ![r].pc = "send", ![r].account = s, ![r].excused = unrecorded]
            ELSE Step(r, "done")
    /\ UNCHANGED <<account, now, lastMail, unrecorded, raced>>

(* getAccountByEmail, and the returns that tell the caller nothing          *)
Lookup(r) ==
    /\ req[r].pc = "new"
    /\ \/ /\ Accounts = {}
          /\ req' = [req EXCEPT ![r].pc = "check", ![r].excused = unrecorded]
       \/ \E s \in Accounts :
            IF account[s].status = "draft" /\ MailDue(s)
            THEN req' = [req EXCEPT ![r].pc = "send", ![r].account = s, ![r].excused = unrecorded]
            ELSE Step(r, "done")
    /\ UNCHANGED <<account, now, lastMail, unrecorded, raced>>

(* Mutation: an address is unique as it is spelled. *)
CheckSpelling(r) ==
    /\ req[r].pc = "check"
    /\ req' = [req EXCEPT ![r].pc = IF req[r].email \notin Accounts THEN "insert" ELSE "done",
                          ![r].alone = Accounts = {}]
    /\ UNCHANGED <<account, now, lastMail, unrecorded, raced>>

(* UsersService.createOne: checkUniqueEmails ...                            *)
CheckUnique(r) ==
    /\ req[r].pc = "check"
    /\ req' = IF Accounts = {}
              THEN [req EXCEPT ![r].pc = "insert", ![r].alone = TRUE]
              ELSE [req EXCEPT ![r].pc = "done"]
    /\ UNCHANGED <<account, now, lastMail, unrecorded, raced>>

(* ... and the transaction, which fails for a spelling that has an account  *)
Insert(r) ==
    LET s == req[r].email IN
    /\ req[r].pc = "insert"
    /\ s \notin Accounts
    /\ account' = [account EXCEPT ![s] = Account("draft", 0)]
    /\ raced' = (raced \/ (req[r].alone /\ Accounts # {}))
    /\ Step(r, "reread")
    /\ UNCHANGED <<now, lastMail, unrecorded>>

(* The account is looked up by its address again; its interval is not.      *)
Reread(r) ==
    /\ req[r].pc = "reread"
    /\ \/ \E s \in Accounts :
            req' = [req EXCEPT ![r].pc = "send", ![r].account = s,
                                  ![r].excused = @ \/ unrecorded]
       \/ Accounts = {} /\ Step(r, "done")
    /\ UNCHANGED <<account, now, lastMail, unrecorded, raced>>

(* The mail is accepted; every other request under way has been overtaken.  *)
Send(r) ==
    /\ req[r].pc = "send"
    /\ req' = [q \in Reqs |-> IF q = r THEN [req[q] EXCEPT !.pc = "stamp"]
                              ELSE [req[q] EXCEPT !.excused = TRUE]]
    /\ lastMail' = now
    /\ unrecorded' = TRUE
    /\ UNCHANGED <<account, now, raced>>

(* new Date(), and the update of auth_data                                  *)
Stamp(r) ==
    /\ req[r].pc = "stamp"
    /\ req' = [req EXCEPT ![r].pc = "store", ![r].date = now]
    /\ UNCHANGED <<account, now, lastMail, unrecorded, raced>>

StoreDate(r) ==
    LET s == req[r].account IN
    /\ req[r].pc = "store"
    /\ Step(r, "done")
    /\ IF s \in Accounts
       THEN /\ account' = [account EXCEPT ![s].sentAt = req[r].date]
            /\ unrecorded' = (req[r].date < lastMail)
       ELSE UNCHANGED <<account, unrecorded>>
    /\ UNCHANGED <<now, lastMail, raced>>

(* The mail is refused, a statement or a filter fails, the process ends.    *)
Fail(r) ==
    /\ req[r].pc \notin {"new", "done"}
    /\ Step(r, "done")
    /\ UNCHANGED <<account, now, lastMail, unrecorded, raced>>

-----------------------------------------------------------------------------
(* What else becomes of an account.                                         *)

(* verifyEmail: the record of the mail goes with the status                 *)
VerifyEmail(s) ==
    /\ s \in Accounts
    /\ account[s].status = "draft"
    /\ account' = [account EXCEPT ![s] = Account("active", 0)]
    /\ unrecorded' = TRUE
    /\ UNCHANGED <<req, now, lastMail, raced>>

(* An administrator makes it a draft again, or deletes it.                  *)
Redraft(s) ==
    /\ s \in Accounts
    /\ account[s].status = "active"
    /\ account' = [account EXCEPT ![s] = Account("draft", account[s].sentAt)]
    /\ UNCHANGED <<req, now, lastMail, unrecorded, raced>>

DeleteAccount(s) ==
    /\ s \in Accounts
    /\ account' = [account EXCEPT ![s] = Missing]
    /\ unrecorded' = TRUE
    /\ UNCHANGED <<req, now, lastMail, raced>>

Tick ==
    /\ now < MaxTime
    /\ now' = now + 1
    /\ UNCHANGED <<account, req, lastMail, unrecorded, raced>>

Next ==
    \/ \E r \in Reqs : \/ Lookup(r) \/ CheckUnique(r) \/ Insert(r) \/ Reread(r)
                       \/ Send(r) \/ Stamp(r) \/ StoreDate(r) \/ Fail(r)
    \/ \E s \in Spellings : VerifyEmail(s) \/ Redraft(s) \/ DeleteAccount(s)
    \/ Tick

Spec == Init /\ [][Next]_vars

-----------------------------------------------------------------------------

(* An address has two accounts only when one was created while a request to *)
(* create the other was between its check and its INSERT.                   *)
OneAccount == raced \/ \A s, t \in Accounts : s = t

SendsApart ==
    \A r \in Reqs :
        Send(r) => \/ lastMail = 0
                   \/ now - lastMail >= Interval
                   \/ req[r].excused
                   \/ raced

(* Two mails to the address are an interval apart: unless the first was not *)
(* on record when the second's request looked, another request sent one     *)
(* since then, or the address got two accounts.                             *)
MailsApart == [][SendsApart]_vars
=============================================================================
