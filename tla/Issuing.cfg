SPECIFICATION Spec
CONSTANTS
    None = None
    Sec = 2
    Day = 1
    MaxTerm = 2
    Kids = {k1}
    FirstKey = k1
    ForeignKeys = {}
    KeyAdmins = {}
    Sessions = {s1, s2}
    Pools = {2, 3}
    LicenseIds = {l1, t1}
    Trials = {t1}
    TrialEnd = 1
    Jtis = {j1, j2, j3, j4}
    Starts = {0, 1}
    Ends = {2, 3, None}
    LastTime = 2
SYMMETRY Symmetry
INVARIANTS
    OneCurrent
    StatusNotEarly
    HangsOnlyWhenExhausted
PROPERTIES
    EndMovesWithCredential
CHECK_DEADLOCK FALSE
