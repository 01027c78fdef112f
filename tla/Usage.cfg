SPECIFICATION FairSpec
CONSTANTS
    None = None
    SkewTol = 1
    NonceTtl = 1
    Offsets <- MCOffsets
    Nonces = {1, 2, 3}
    LastTime = 3
    Sessions = {s1, s2}
    Batches = {1, 2}
    Tasks = {"t1", "t2"}
    Users = {"u1", "u2"}
    Content <- MCContent
    WindowEnd <- MCWindowEnd
    DayLength = 2
    MaxFaults = 1
INVARIANTS TypeOK AdmittedOnce DailyMatchesTasks 
PROPERTIES CountsOnce AllConfirmed
CHECK_DEADLOCK FALSE
