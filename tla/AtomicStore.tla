---------------------------- MODULE AtomicStore ----------------------------
(***************************************************************************)
(* What the storage engine promises (docs/storage.md, README): a database  *)
(* that changes only when a transaction commits, then by all of its        *)
(* changes at once; transactions that are rolled back, or not committed    *)
(* when the process ends, leave no trace; no two transactions have         *)
(* uncommitted changes to the same row.                                    *)
(***************************************************************************)
EXTENDS Naturals

CONSTANTS Rows,   \* rows of the database
          Uids    \* transactions; db maps a row to the last that committed a change

VARIABLES db,      \* row -> transaction whose change is committed (0: never changed)
          pending  \* transaction -> rows it has changed without having committed

asVars == <<db, pending>>

Init == db = [r \in Rows |-> 0] /\ pending = [u \in Uids |-> {}]

Change(u, r) ==
    /\ \A v \in Uids \ {u} : r \notin pending[v]
    /\ pending' = [pending EXCEPT ![u] = @ \cup {r}]
    /\ UNCHANGED db

\* The changes of the transactions in U become the database's, those of the
\* transactions in D are dropped.  One flush of the log can commit several
\* transactions, and a crash commits some and drops the rest.
CommitAndDrop(U, D) ==
    /\ db' = [r \in Rows |-> IF \E u \in U : r \in pending[u]
                             THEN CHOOSE u \in U : r \in pending[u] ELSE db[r]]
    /\ pending' = [u \in Uids |-> IF u \in U \cup D THEN {} ELSE pending[u]]

Next ==
    \/ \E u \in Uids, r \in Rows : Change(u, r)
    \/ \E U, D \in SUBSET Uids : CommitAndDrop(U, D)

Spec == Init /\ [][Next]_asVars

=============================================================================
