------------------------------ MODULE MCBTree ------------------------------
(* Instances of BTree for TLC: keys below 10 belong to table 0, the others to table 1. *)
EXTENDS BTree

MCTableOf == [k \in Keys |-> k \div 10]

\* One client works on both tables, or one on each.
OneClient == [c \in Clients |-> {0, 1}]

CONSTANTS small, large, c1, c2
MCRowLen == [r \in Rows |-> IF r = large THEN 3 ELSE 2]
EachItsTable == [c \in Clients |-> IF c = c1 THEN {0} ELSE {1}]

=============================================================================
