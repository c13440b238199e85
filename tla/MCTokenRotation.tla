--------------------------- MODULE MCTokenRotation ---------------------------
(* Model values for TokenRotation.                                         *)
EXTENDS TokenRotation, TLC

Symmetry == Permutations(Requests)
=============================================================================
