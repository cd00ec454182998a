CONSTANTS
    Tokens = {t1, t2, t3}
    Users = {u1}
    Shares = {s1}
    Legacy = {}
    Reqs = {r1, r2}
    TTL = 1
    Overlap = 0
    MaxTime = 0
    MaxAborts = 0
    None = None
SPECIFICATION FairSpec
PROPERTIES Terminates
CHECK_DEADLOCK FALSE
