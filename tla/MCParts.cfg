SPECIFICATION Spec
CONSTANTS
    ShareIds = {shared}
    Logins = {r1, r2, r3}
    Limits = {0, 1}
    Unlimited = Unlimited
    Nodes = {a, b}
    MaxVersion = 2
    MaxStarts = 3
    Files = {file}
    Locations = {a, b}
    Exts = {v1, v2}
    Transfers = {r1, r2, r3}
    New = New
    Gone = Gone
    Spellings = {a, b}
    Registrants = {r1, r2}
    Interval = 2
    MaxTime = 6
    Missing = Missing
    Related = {a, b}
    Values = {v1, v2}
    MaxSaves = 2
    Same = Same
    Nests <- Chain
    c1 = c1
    c2 = c2
    c3 = c3
    WithColumn = {c2}
    WithAlias = {c1}
    MaxChanges = 1
    Ungrouped = Ungrouped
    Keys = {2, 3, 10}
    AsText <- KeysAsText
    Existing = {2, 3}
    Reqs = {r1, r2}
    Admins = {r1}
    Readers = {d1}
    Kinds = {"createMany", "updateMany", "updateBatch", "deleteMany", "upsertOne", "upsertMany"}
    Limit = 2
    MaxDeaths = 1
    None = None
SYMMETRY Symmetry
CONSTRAINT Followed
INVARIANTS TypeOK UsesBounded HandlersCurrent BytesDescribed NothingLeftBehind OneAccount
           StaysSignedIn SignedOutQuiet SnapshotReached ActionsFollowCommit AllAnnounced
           RevisionsFollowItems BatchLimit StaleUntilPurge
PROPERTIES MailsApart EditsSaved
CHECK_DEADLOCK FALSE
