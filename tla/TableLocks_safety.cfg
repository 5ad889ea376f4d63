\* The system stops when every transaction has ended and every request is used.
CHECK_DEADLOCK FALSE
SPECIFICATION FairSpec
CONSTANTS
    A = A
    B = B
    Tables = {A, B}
    Txns = {t1, t2}
    AutoTxns = {t2}
    MaxRequests = 2
    Statements <- Joins
    Faults = {"timeout", "commitError", "rollbackError", "useAfterEnd"}
    None = None
INVARIANTS
    TypeOK
    MutualExclusion
    NoConflictingLocks
    EntriesBacked
    
PROPERTY
    WaitsEnd
