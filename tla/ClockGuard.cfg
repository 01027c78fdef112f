SPECIFICATION Spec
CONSTANTS
    None = None
    SkewTol = 1
    HardRollback = 4
    MaxRollbackCount = 3
    RollbackDecay = 2
    MaxAdvance = 6
    LastTime = 9
    MaxFaults = 3
    MaxCounted = 4
    Jumps = {1, 3, 7}
    SetBacks = {2, 5}
INVARIANTS
    TypeOK
    TicketBelowWatermark
    CountCanDecay
    ForwardFaultHeals
PROPERTIES
    LoweredOnlyByUndo
CHECK_DEADLOCK FALSE
