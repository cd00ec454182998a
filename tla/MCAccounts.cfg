CONSTANTS
    Users = {u1, u2}
    Roles = {a, b}
    Reqs = {r1, r2, l1}
    Logins = {l1}
    Rejected = {l1}
    MaxAttempts = 1
    DefaultRole = None
    None = None
    Same = Same
SPECIFICATION Instance
SYMMETRY Symmetry
INVARIANTS TypeOK AttemptsLimited
PROPERTIES AdminUserKept ActiveAdminKept SuspensionHolds ResetLinkOnce
CHECK_DEADLOCK FALSE
