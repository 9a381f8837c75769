------------------------------ MODULE MCDlist ------------------------------
(* The small instance of Dlist for TLC. *)
EXTENDS Dlist, TLC

CONSTANTS l1, l2, n1, n2, n3, n4, d1, d2

MCIndices == {-5, -3, -1, 0, 3, 4}

Symmetry == Permutations({n1, n2, n3, n4})
=============================================================================
