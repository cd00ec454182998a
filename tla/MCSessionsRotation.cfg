CONSTANTS
    Tokens = {t1, t2, t3}
    Users = {u1}
    Shares = {}
    Legacy = {t1, t2, t3}
    Reqs = {r1, r2}
    TTL = 2
    Overlap = 1
    MaxTime = 2
    MaxAborts = 1
    None = None
SPECIFICATION Spec
SYMMETRY Symmetry
INVARIANTS TypeOK SingleHead SameAnswer
PROPERTIES DeadSession LogoutEndsHead RotationSpec
CHECK_DEADLOCK FALSE
