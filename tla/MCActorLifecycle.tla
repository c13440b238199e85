-------------------------- MODULE MCActorLifecycle --------------------------
(* Model values for ActorLifecycle.                                        *)
EXTENDS ActorLifecycle, TLC

Symmetry == Permutations(Operations)
=============================================================================
