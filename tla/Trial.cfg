SPECIFICATION FairSpec
CONSTANTS
    None = None
    Installs = {1, 2}
    Hosts = {None, h1}
    Dbs = {d1}
    Sessions = {s1, s2}
    Days = 0
    Limit = 1
    MaxReinstalls = 1
    MaxFaults = 1
    MaxReissues = 1
    LastTime = 1
INVARIANTS TypeOK LimitKept
PROPERTIES KeepsPromise Registers
CHECK_DEADLOCK FALSE
