SPECIFICATION Spec
CONSTANTS
    None = None
    Sec = 1
    Day = 1
    MaxTerm = 0
    Kids = {k1, k2, k3}
    FirstKey = k1
    ForeignKeys = {k3}
    KeyAdmins = {a1, a2}
    Sessions = {s1}
    Pools = {2}
    LicenseIds = {l1}
    Trials = {}
    TrialEnd = 0
    Jtis = {j1, j2}
    Starts = {0}
    Ends = {None}
    LastTime = 0
SYMMETRY Symmetry
INVARIANTS
    TypeOK
    SignedWithDeployedKey
CHECK_DEADLOCK FALSE
