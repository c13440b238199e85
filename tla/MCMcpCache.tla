----------------------------- MODULE MCMcpCache -----------------------------
(* Model values for McpCache.                                              *)
EXTENDS McpCache, TLC

OneClient == [t \in Tokens |-> CHOOSE c \in Clients : TRUE]

\* Requests are interchangeable, and so are revocations: nothing compares or
\* orders them.
Symmetry == Permutations(Requests) \cup Permutations(Revocations)
=============================================================================
