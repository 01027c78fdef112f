SPECIFICATION Spec
CONSTANTS
    None = None
    HardRollback = 1
    MaxRollbackCount = 2
    RollbackDecay = 2
    MaxAdvance = 3
    Day = 1
    DefaultSkewTol = 0
    TrialDays = 1
    TrialWarnDays = 1
    FormalWarnDays = 1
    TrialEnabled = TRUE
    Enforce = TRUE
    Ops = {o1}
    InstallIds = {i1, i2}
    Cred <- MCCred
    KeyFiles = {"formal", "broken"}
    TrialCreds = {"trial"}
    Failed = Failed
    Torn = Torn
    Faults = {"readFail", "writeFail", "mirrorFail", "mirrorTorn", "crash", "dbLoss", "mirrorLoss"}
    Calls = {"save", "reset", "peek"}
    MaxCounted = 2
    ReloadCheck = 0
    MaxOpTime = 0
    LastTime = 1
    Steps = {1}
    Jumps = {}
    SetBacks = {}
SYMMETRY Symmetry
INVARIANTS TypeOK BoundToSelf EntitledNotBlocked
PROPERTIES IdentityKept CredentialsKept TrialStartKept
