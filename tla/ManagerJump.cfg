SPECIFICATION Spec
CONSTANTS
    None = None
    HardRollback = 1
    MaxRollbackCount = 2
    RollbackDecay = 2
    MaxAdvance = 3
    Day = 1
    DefaultSkewTol = 0
    TrialDays = 2
    TrialWarnDays = 1
    FormalWarnDays = 1
    TrialEnabled = TRUE
    Enforce = TRUE
    Ops = {o1}
    InstallIds = {i1}
    Cred <- MCCred
    KeyFiles = {"formal"}
    TrialCreds = {"trial"}
    Failed = Failed
    Torn = Torn
    Faults = {"jump", "mirrorLoss", "setBack"}
    Calls = {}
    MaxCounted = 2
    ReloadCheck = 0
    MaxOpTime = 0
    LastTime = 6
    Steps = {1}
    Jumps = {2,4}
    SetBacks = {1}
INVARIANTS ForwardFaultHeals
