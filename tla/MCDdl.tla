------------------------------- MODULE MCDdl -------------------------------
(* An instance of Ddl for TLC. *)
EXTENDS Ddl, TLC

CONSTANTS c1, c2, users, orders

MCClients == {c1, c2}
MCTables  == {users, orders}
MCFaults  == FaultKinds
\* Clients and tables are interchangeable.
Symmetry  == Permutations(MCClients) \cup Permutations(MCTables)
=============================================================================
