---------------------------- MODULE MCTableLocks ----------------------------
(* Instances of TableLocks for TLC. *)
EXTENDS TableLocks

CONSTANTS A, B

R(tb) == <<[table |-> tb, mode |-> "r"]>>
W(tb) == <<[table |-> tb, mode |-> "w"]>>

\* Single-table statements; with joins that take the tables in one order, or in two.
SingleTable == {R(A), W(A)}
ReadWrite   == {R(A), W(A), W(B), R(A) \o R(B)}
Joins       == {R(A), W(A), W(B), R(A) \o R(B), R(B) \o R(A)}

=============================================================================
