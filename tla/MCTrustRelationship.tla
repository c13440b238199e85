------------------------ MODULE MCTrustRelationship ------------------------
(* Model values for TrustRelationship.                                     *)
EXTENDS TrustRelationship, TLC

Symmetry == Permutations(Operations) \cup Permutations(Actors)
=============================================================================
