\* The bounds on operations and pages end every run.
CHECK_DEADLOCK FALSE
SPECIFICATION Spec
CONSTANTS
    small = small
    large = large
    c1 = c1
    c2 = c2
    Clients = {c1}
    Keys = {1, 2}
    TableOf <- MCTableOf
    TablesOf <- OneClient
    Rows = {large}
    RowLen <- MCRowLen
    InternalLen = 1
    SlotSize = 1
    Capacity = 6
    Kinds = {"insert", "update"}
    Faults = {}
    MaxPages = 11
    MaxOps = 8
    NoPage = NoPage
    NoRow = NoRow
    NoClient = NoClient
INVARIANT
    SearchReliable
