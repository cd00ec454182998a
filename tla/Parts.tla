-------------------------------- MODULE Parts --------------------------------
(***************************************************************************)
(* Parts of the system that share no state with one another: each          *)
(* behaviour is one of one of them (an interleaving would add nothing),    *)
(* and the variables of the others have no value.                          *)
(***************************************************************************)
EXTENDS ShareLimits, RegistrationConstants, ItemsConstants

CONSTANTS ShareIds, Logins,             (* Shares                                *)
          Nodes, MaxVersion, MaxStarts, (* Webhooks                              *)
          Files, Locations, Exts, Transfers, New, Gone, (* Uploads               *)
          Spellings, Registrants, MaxTime,              (* Registration          *)
          Related, Values, MaxSaves, Same,              (* RelationEdits         *)
          Nests, WithColumn, WithAlias, MaxChanges, Ungrouped  (* Snapshots      *)

VARIABLES part,
          share, login, admitted, most, lost,
          version, unpublished, mail, state, reading, read, jobs, handlers, unannounced, starts,
          row, stored, upload, mishaps,
          account, registration, now, lastMail, unrecorded, raced,
          header, due, long, timer, stray, away, idle, visible, first, refreshing, calls, out,
          overtaken, late,
          rows, staged, fetched, withItem, saves, want, dropped, sent, again, muddled,
          db, after, base, known, phase, changes, unseen,
          items, lock, req, history, events, cache, reader, unpurged, deaths

S == INSTANCE Shares
W == INSTANCE Webhooks
U == INSTANCE Uploads WITH Reqs <- Transfers, req <- upload
R == INSTANCE Registration WITH Reqs <- Registrants, req <- registration
C == INSTANCE ClientRefresh
E == INSTANCE RelationEdits WITH Keys <- Related
D == INSTANCE Snapshots WITH Columns <- WithColumn, Lists <- WithAlias
I == INSTANCE Items

(* What stands for no row, no extension and no contents is none.            *)
ASSUME UploadsAssumption ==
    /\ New # Gone /\ New \notin U!Rows /\ Gone \notin U!Rows
    /\ None \notin Exts
    /\ "absent" \notin Transfers /\ "partial" \notin Transfers

(* Groups are in no cycles: of the collections of any set one is in none of *)
(* the others.                                                              *)
ASSUME SnapshotsAssumption ==
    /\ MaxChanges \in Nat
    /\ Ungrouped \notin DOMAIN Nests
    /\ \A X \in SUBSET DOMAIN Nests : X # {} => \E c \in X : Nests[c] \cap X = {}

(* What stands for no row of another page is none.                          *)
ASSUME EditsAssumption == Missing \notin E!Rows /\ MaxSaves \in Nat

ofShares == <<share, login, admitted, most, lost>>
ofWebhooks == <<version, unpublished, mail, state, reading, read, jobs, handlers, unannounced,
                starts>>
ofUploads == <<row, stored, upload, mishaps>>
ofRegistration == <<account, registration, now, lastMail, unrecorded, raced>>
ofClient == <<header, due, long, timer, stray, away, idle, visible, first, refreshing, calls,
              out, overtaken, late>>
ofEdits == <<rows, staged, fetched, withItem, saves, want, dropped, sent, again, muddled>>
ofSnapshots == <<db, after, base, known, phase, changes, unseen>>
ofItems == <<items, lock, req, history, events, cache, reader, unpurged, deaths>>
vars == <<part, ofShares, ofWebhooks, ofUploads, ofRegistration, ofClient, ofEdits,
          ofSnapshots, ofItems>>

-----------------------------------------------------------------------------

NoShares ==
    /\ share = None /\ login = None /\ admitted = None /\ most = None /\ lost = None

NoWebhooks ==
    /\ version = None /\ unpublished = None /\ mail = None /\ state = None /\ reading = None
    /\ read = None /\ jobs = None /\ handlers = None /\ unannounced = None /\ starts = None

NoUploads ==
    /\ row = None /\ stored = None /\ upload = None /\ mishaps = None

NoRegistration ==
    /\ account = None /\ registration = None /\ now = None /\ lastMail = None /\ unrecorded = None
    /\ raced = None

NoClient ==
    /\ header = None /\ due = None /\ long = None /\ timer = None /\ stray = None
    /\ away = None /\ idle = None /\ visible = None /\ first = None /\ refreshing = None
    /\ calls = None /\ out = None /\ overtaken = None /\ late = None

NoEdits ==
    /\ rows = None /\ staged = None /\ fetched = None /\ withItem = None /\ saves = None
    /\ want = None /\ dropped = None /\ sent = None /\ again = None /\ muddled = None

NoSnapshots ==
    /\ db = None /\ after = None /\ base = None /\ known = None /\ phase = None
    /\ changes = None /\ unseen = None

NoItems ==
    /\ items = None /\ lock = None /\ req = None /\ history = None /\ events = None
    /\ cache = None /\ reader = None /\ unpurged = None /\ deaths = None

Init ==
    /\ part \in {"shares", "webhooks", "uploads", "registration", "client", "edits",
                "snapshots", "items"}
    /\ IF part = "shares" THEN S!Init ELSE NoShares
    /\ IF part = "webhooks" THEN W!Init ELSE NoWebhooks
    /\ IF part = "uploads" THEN U!Init ELSE NoUploads
    /\ IF part = "registration" THEN R!Init ELSE NoRegistration
    /\ IF part = "client" THEN C!Init ELSE NoClient
    /\ IF part = "edits" THEN E!Init ELSE NoEdits
    /\ IF part = "snapshots" THEN D!Init ELSE NoSnapshots
    /\ IF part = "items" THEN I!Init ELSE NoItems

Next ==
    /\ UNCHANGED part
    /\ \/ /\ part = "shares" /\ S!Next
          /\ UNCHANGED <<ofWebhooks, ofUploads, ofRegistration, ofClient, ofEdits,
                         ofSnapshots, ofItems>>
       \/ /\ part = "webhooks" /\ W!Next
          /\ UNCHANGED <<ofShares, ofUploads, ofRegistration, ofClient, ofEdits,
                         ofSnapshots, ofItems>>
       \/ /\ part = "uploads" /\ U!Next
          /\ UNCHANGED <<ofShares, ofWebhooks, ofRegistration, ofClient, ofEdits,
                         ofSnapshots, ofItems>>
       \/ /\ part = "registration" /\ R!Next
          /\ UNCHANGED <<ofShares, ofWebhooks, ofUploads, ofClient, ofEdits,
                         ofSnapshots, ofItems>>
       \/ /\ part = "client" /\ C!Next
          /\ UNCHANGED <<ofShares, ofWebhooks, ofUploads, ofRegistration, ofEdits,
                         ofSnapshots, ofItems>>
       \/ /\ part = "edits" /\ E!Next
          /\ UNCHANGED <<ofShares, ofWebhooks, ofUploads, ofRegistration, ofClient,
                         ofSnapshots, ofItems>>
       \/ /\ part = "snapshots" /\ D!Next
          /\ UNCHANGED <<ofShares, ofWebhooks, ofUploads, ofRegistration, ofClient,
                         ofEdits, ofItems>>
       \/ /\ part = "items" /\ I!Next
          /\ UNCHANGED <<ofShares, ofWebhooks, ofUploads, ofRegistration, ofClient,
                         ofEdits, ofSnapshots>>

Spec == Init /\ [][Next]_vars

-----------------------------------------------------------------------------
(* The properties of the parts, which their modules state.                  *)

(* The variables of the part that is instantiated have their types. *)
TypeOK ==
    /\ part = "shares" => S!TypeOK
    /\ part = "webhooks" => W!TypeOK
    /\ part = "uploads" => U!TypeOK
    /\ part = "registration" => R!TypeOK
    /\ part = "client" => C!TypeOK
    /\ part = "edits" => E!TypeOK
    /\ part = "snapshots" => D!TypeOK
    /\ part = "items" => I!TypeOK

(* A share admits one login more than max_uses at most, and one for each    *)
(* count that was overwritten (Shares).                                     *)
UsesBounded == part = "shares" => S!UsesBounded

(* A node at rest has the handlers of the stored webhooks, once (Webhooks). *)
HandlersCurrent == part = "webhooks" => W!HandlersCurrent

(* A file's row describes the bytes the storage has of it (Uploads).        *)
BytesDescribed == part = "uploads" => U!BytesDescribed

(* The storage holds nothing that belongs to no row (Uploads).              *)
NothingLeftBehind == part = "uploads" => U!NothingLeftBehind

(* An address has one account (Registration).                               *)
OneAccount == part = "registration" => R!OneAccount

(* Two mails to an address are an interval apart (Registration).            *)
MailsApart == [][part = "registration" => R!SendsApart]_vars

(* Who is signed in and uses the app stays signed in (ClientRefresh).       *)
StaysSignedIn == part = "client" => C!StaysSignedIn

(* Who signed out stays signed out (ClientRefresh).                         *)
SignedOutQuiet == part = "client" => C!SignedOutQuiet

(* A save does what the user last asked of every row (RelationEdits).       *)
EditsSaved == [][part = "edits" => E!SavedAsAsked]_vars

(* An instance matches the snapshot applied to it (Snapshots).              *)
SnapshotReached == part = "snapshots" => D!SnapshotReached

(* Action events tell of nothing that is not committed, unless they are     *)
(* emitted inside a transaction (Items).                                    *)
ActionsFollowCommit == part = "items" => I!ActionsFollowCommit

(* A mutation that is done has told of its keys if it committed, and else   *)
(* of none, with the same exception (Items).                                *)
AllAnnounced == part = "items" => I!AllAnnounced

(* The newest revision of an item is that of its last writer and holds its  *)
(* data, if the snapshots of those that named it were theirs (Items).       *)
RevisionsFollowItems == part = "items" => I!RevisionsFollowItems

(* One request changes no more items than MAX_BATCH_MUTATION (Items).       *)
BatchLimit == part = "items" => I!BatchLimit

(* A stale response is in the cache only until the purge that is due, but   *)
(* for late responses and processes that died (Items).                      *)
StaleUntilPurge == part = "items" => I!StaleUntilPurge
==============================================================================
