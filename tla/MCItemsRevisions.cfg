CONSTANTS
    Keys = {2, 10}
    Existing = {2, 10}
    Reqs = {r1}
    Admins = {}
    Readers = {}
    Kinds = {"createMany", "updateMany", "updateBatch", "deleteMany", "upsertOne", "upsertMany"}
    AsText <- KeysAsText
    Limit = 2
    MaxDeaths = 0
    None = None
SPECIFICATION Spec
INVARIANTS RevisionsHoldTheirItem
CHECK_DEADLOCK FALSE
