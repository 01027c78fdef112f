SPECIFICATION FairSpec
CONSTANTS
    None = None
    SkewTol = 1
    NonceTtl = 1
    Offsets <- MCOffsets
    Nonces = {1, 2}
    LastTime = 0
    Sessions = {s1}
    Batches = {1}
    Tasks = {"t1", "t2"}
    Users = {"u1", "u2"}
    Content <- MCNoStatus
    WindowEnd <- MCOneEnd
    DayLength = 2
    MaxFaults = 0
PROPERTIES AllConfirmed
CHECK_DEADLOCK FALSE
