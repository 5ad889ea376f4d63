\* The system stops when every transaction has ended and every request is used.
CHECK_DEADLOCK FALSE
SPECIFICATION Spec
CONSTANTS
    A = A
    B = B
    Tables = {A, B}
    Txns = {t1, t2}
    AutoTxns = {t1, t2}
    MaxRequests = 2
    Statements <- SingleTable
    Faults = {"timeout"}
    None = None
INVARIANT
    EndReleasesTables
