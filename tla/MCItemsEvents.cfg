CONSTANTS
    Keys = {1, 2}
    Existing = {1, 2}
    Reqs = {r1}
    Admins = {}
    Readers = {}
    Kinds = {"createMany", "updateMany", "updateBatch", "deleteMany", "upsertOne", "upsertMany"}
    AsText <- KeysAsText
    Limit = 2
    MaxDeaths = 0
    None = None
SPECIFICATION Spec
INVARIANTS NoActionUndone
CHECK_DEADLOCK FALSE
