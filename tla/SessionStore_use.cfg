\* The requests of a run are bounded.
CHECK_DEADLOCK FALSE
SPECIFICATION FairSpec
CONSTANTS
    Sids = {a, b, c}
    Requests = {r1, r2}
    Tables = {users}
    Writes = {"insert"}
    Faults = {"openError", "closeError"}
    MaxSessions = 2
    PageLimit = 2
    MaxGrowth = 1
    MaxCalls = 4
INVARIANTS
    TypeOK
    
    SessionExact
    WithinLimits
PROPERTIES
    OnlyOldestEvicted
    IdleSessionsGo
