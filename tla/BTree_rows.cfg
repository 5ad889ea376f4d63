\* The bounds on operations and pages end every run.
CHECK_DEADLOCK FALSE
SPECIFICATION Spec
CONSTANTS
    small = small
    large = large
    c1 = c1
    c2 = c2
    Clients = {c1}
    Keys = {1, 2, 11}
    TableOf <- MCTableOf
    TablesOf <- OneClient
    Rows = {small, large}
    RowLen <- MCRowLen
    InternalLen = 2
    SlotSize = 1
    Capacity = 8
    Kinds = {"insert", "update", "delete"}
    Faults = {"poolFull", "abort"}
    MaxPages = 8
    MaxOps = 6
    NoPage = NoPage
    NoRow = NoRow
    NoClient = NoClient
INVARIANTS
    TypeOK
    SearchExact
    ScanExact
    FileExact
    ChainIsTree
    CleanMatchesFile
