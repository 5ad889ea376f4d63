\* Clients may stop issuing statements at any time, and the bounds end every run.
CHECK_DEADLOCK FALSE
SPECIFICATION Spec
CONSTANTS
    Clients = {c1, c2}
    ExplicitClients = {}
    Tables = {1}
    Rows = {10, 11}
    TableOf <- MCTableOf
    PageOf <- OneTable
    Pages = {0, 1}
    PoolSize = 2
    Views = FALSE
    Faults = {"walError", "pageError", "powerLoss", "tornError", "tornCrash"}
    MaxTxns = 2
    MaxLSN = 4
    MaxBoots = 2
    ClientBoots = 1
CONSTRAINT LogReadable
INVARIANTS
    TypeOK
    PinsCounted
    NoSteal
    RecoveryExactUnlessReused
    ReadsCommitted
    
    
PROPERTY
    ImplementsAtomicStore
