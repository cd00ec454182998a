CONSTANTS
    ShareIds = {shared}
    Logins = {r1, r2}
    Limits = {1}
    Unlimited = Unlimited
SPECIFICATION Spec
INVARIANTS ViewedAtMost
CHECK_DEADLOCK FALSE
