CONSTANTS
    Tokens = {t1, t2}
    Users = {u1}
    Shares = {}
    Legacy = {}
    Reqs = {r1, r2}
    TTL = 2
    Overlap = 1
    MaxTime = 2
    MaxAborts = 0
    None = None
SPECIFICATION Spec
PROPERTIES AnswerUsable
CHECK_DEADLOCK FALSE
