---------------------------- MODULE MCTxnStore ----------------------------
(* Instances of TxnStore for TLC.  Rows 10, 11 belong to table 1, row 20 to table 2. *)
EXTENDS TxnStore

MCTableOf == [r \in Rows |-> r \div 10]

\* A database with a single table whose two rows are on two leaves.
OneTable == [r \in Rows |-> r - 10]

\* Two tables that share no leaf: table 1 on leaf 0, table 2 on leaf 1.  A leaf 2
\* is empty after deletes: leaves are never merged, and scans of table 2 pass it.
OwnLeaves == [r \in Rows |-> r \div 20]

\* A run ends with the first record that is written behind a torn one.  Flush keeps
\* its buffer when Write fails and writes all of it again, behind whatever reached
\* the file (wal.go:80); from then on a commit is acknowledged and cannot be found
\* again, and none of the properties can be expected of the store.
LogReadable == walTail # "garbled"

=============================================================================
