--------------------------- MODULE MCPathDecision ---------------------------
EXTENDS PathDecision, TLC

CONSTANTS n1, n2

TwoNb == {n1, n2}

(* Neighbours differ in nothing but what they bring.                       *)
Symmetry == Permutations(TwoNb)
=============================================================================
