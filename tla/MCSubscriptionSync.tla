------------------------- MODULE MCSubscriptionSync -------------------------
(* Model values for SubscriptionSync.                                      *)
EXTENDS SubscriptionSync, TLC

Symmetry == Permutations(Syncs)
=============================================================================
