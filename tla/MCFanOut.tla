------------------------------ MODULE MCFanOut ------------------------------
(* Model values for FanOut.                                                *)
EXTENDS FanOut, TLC

Symmetry == Permutations(Deliveries) \cup Permutations(Managers)
=============================================================================
