\* Clients may stop issuing statements at any time, and the bounds end every run.
CHECK_DEADLOCK FALSE
SPECIFICATION Spec
CONSTANTS
    Clients = {c1, c2}
    ExplicitClients = {c1}
    Tables = {1}
    Rows = {10, 11}
    TableOf <- MCTableOf
    PageOf <- OneTable
    Pages = {0, 1}
    PoolSize = 2
    Views = FALSE
    Faults = {}
    MaxTxns = 3
    MaxLSN = 6
    MaxBoots = 3
    ClientBoots = 2
INVARIANT
    RecoveryExact
