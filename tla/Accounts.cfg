SPECIFICATION Spec
CONSTANTS
    None = None
    Accounts = {a1, a2}
    Tabs = {t1, t2}
    Passwords = {p1, p2}
    Created = {"owner", "viewer"}
    Sec = 2
    Ttl = 2
    MaxFailed = 2
    LockTime = 2
    MaxDelay = 1
    LastTime = 4
    MaxCalls = 4
SYMMETRY Symmetry
INVARIANTS TypeOK OwnerRemains DisabledFades TriesLimited GoodTokenKept
CHECK_DEADLOCK FALSE
