\* The bounds on operations and pages end every run.
CHECK_DEADLOCK FALSE
SPECIFICATION Spec
CONSTANTS
    small = small
    large = large
    c1 = c1
    c2 = c2
    Clients = {c1, c2}
    Keys = {1, 2, 11, 12}
    TableOf <- MCTableOf
    TablesOf <- EachItsTable
    Rows = {small}
    RowLen <- MCRowLen
    InternalLen = 2
    SlotSize = 1
    Capacity = 6
    Kinds = {"insert"}
    Faults = {}
    MaxPages = 8
    MaxOps = 5
    NoPage = NoPage
    NoRow = NoRow
    NoClient = NoClient
INVARIANT
    SearchExact
