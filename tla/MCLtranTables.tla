--------------------------- MODULE MCLtranTables ---------------------------
(* Instances of LtranTables for TLC: a process with two stacks, and one with *)
(* one whose thread has a tid the first used; a server's and a client's      *)
(* connection.                                                               *)
EXTENDS LtranTables, TLC

CONSTANTS p1, p2, k1, k2, k3, a1, a2, q1, q2

MCProcOf == [k \in {k1, k2, k3} |-> IF k = k3 THEN p2 ELSE p1]
MCTidOf == [k \in {k1, k2, k3} |-> IF k = k2 THEN 2 ELSE 1]
MCHash == [a \in {a1, a2} |-> a]
MCDst == [q \in {q1, q2} |-> IF q = q1 THEN a1 ELSE a2]

Symmetry == Permutations(Cell)
=============================================================================
