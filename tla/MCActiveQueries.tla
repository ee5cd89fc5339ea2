-------------------------- MODULE MCActiveQueries ---------------------------
(* Model checking of ActiveQueries: three requests of one query and one of *)
(* another, pages of one row.                                              *)
EXTENDS ActiveQueries, TLC

CONSTANTS r1, r2, r3, other, k, l
Same == {r1, r2, r3}
Requests == Same \cup {other}
Keys == {k, l}
Text == [r \in Requests |-> IF r = other THEN l ELSE k]
Symmetry == Permutations(Same)
=============================================================================
