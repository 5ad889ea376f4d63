\* Clients may stop issuing statements at any time, and the bounds end every run.
CHECK_DEADLOCK FALSE
SPECIFICATION Spec
CONSTANTS
    Clients = {c1, c2}
    ExplicitClients = {c1}
    Tables = {1, 2}
    Rows = {10, 20}
    TableOf <- MCTableOf
    PageOf <- OwnLeaves
    Pages = {0, 1, 2}
    PoolSize = 2
    Views = TRUE
    Faults = {}
    MaxTxns = 2
    MaxLSN = 5
    MaxBoots = 1
    ClientBoots = 1
INVARIANTS
    StoreExact
