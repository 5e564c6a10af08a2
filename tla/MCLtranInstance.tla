--------------------------- MODULE MCLtranInstance ---------------------------
(* Instances of LtranInstance for TLC. *)
EXTENDS LtranInstance, TLC

Symmetry == Permutations(Proc) \cup Permutations(Conn) \cup Permutations(Thread)
=============================================================================
