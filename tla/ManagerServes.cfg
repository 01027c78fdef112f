SPECIFICATION FairSpec
CONSTANTS
    None = None
    HardRollback = 1
    MaxRollbackCount = 2
    RollbackDecay = 2
    MaxAdvance = 3
    Day = 1
    DefaultSkewTol = 0
    TrialDays = 2
    TrialWarnDays = 1
    FormalWarnDays = 1
    TrialEnabled = TRUE
    Enforce = TRUE
    Ops = {o1}
    InstallIds = {i1, i2, i3}
    Cred <- MCCred
    KeyFiles = {"formal", "broken"}
    TrialCreds = {"trial"}
    Failed = Failed
    Torn = Torn
    Faults = {"readFail", "crash"}
    Calls = {"peek"}
    MaxCounted = 2
    ReloadCheck = 0
    MaxOpTime = 0
    LastTime = 0
    Steps = {1}
    Jumps = {}
    SetBacks = {}
PROPERTIES KeyFileServed AuthorityReturns
