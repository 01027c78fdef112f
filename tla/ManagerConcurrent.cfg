SPECIFICATION Spec
CONSTANTS
    None = None
    HardRollback = 1
    MaxRollbackCount = 2
    RollbackDecay = 2
    MaxAdvance = 3
    Day = 1
    DefaultSkewTol = 1
    TrialDays = 2
    TrialWarnDays = 1
    FormalWarnDays = 1
    TrialEnabled = TRUE
    Enforce = TRUE
    Ops = {o1, o2}
    InstallIds = {i1, i2}
    Cred <- MCCred
    KeyFiles = {"formal"}
    TrialCreds = {"trial"}
    Failed = Failed
    Torn = Torn
    Faults = {}
    Calls = {"reset"}
    MaxCounted = 2
    ReloadCheck = 0
    MaxOpTime = 1
    LastTime = 2
    Steps = {1}
    Jumps = {}
    SetBacks = {}
SYMMETRY Symmetry
INVARIANTS EntitledNotBlocked
