---------------------- MODULE MCSubscriptionLifecycle ----------------------
(* Model values for SubscriptionLifecycle.                                 *)
EXTENDS SubscriptionLifecycle, TLC

Symmetry == Permutations(Operations) \cup Permutations(Existing)
=============================================================================
