\* The operations of a run are bounded, and a torn catalog.json cannot be opened.
CHECK_DEADLOCK FALSE
SPECIFICATION Spec
CONSTANTS
    c1 = c1
    c2 = c2
    users = users
    orders = orders
    Clients <- MCClients
    Tables <- MCTables
    Faults <- MCFaults
    Widths = {1, 2}
    MaxOps = 5
    MaxCrashes = 2
SYMMETRY Symmetry
INVARIANTS
    TypeOK
    RowsOfItsTable
    RepoAgrees
    CatalogKept
