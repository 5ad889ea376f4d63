\* The system stops when every transaction has ended and every request is used.
CHECK_DEADLOCK FALSE
SPECIFICATION FairSpec
CONSTANTS
    A = A
    B = B
    Tables = {A, B}
    Txns = {t1, t2, t3}
    AutoTxns = {t1, t2, t3}
    MaxRequests = 2
    Statements <- ReadWrite
    Faults = {}
    None = None
INVARIANT
    NoOrphanHolder
PROPERTIES
    StrictTwoPhase
    StatementsEnd
