------------------------------ MODULE MCLogin ------------------------------
(* Model values for Login.  A behaviour is of one of two kinds: logins, or *)
(* addresses that are given in the form and confirmed by links.  They meet *)
(* in the actor of the person, which both look up and create.              *)
EXTENDS Login, TLC

CONSTANT LoginRequests      \* How many requests overlap in a login.

VARIABLE mail

OfKind ==
    IF mail
    THEN \A r \in Requests : pc[r] # "idle" => flow[r] \in {"email", "visit"}
    ELSE /\ \A r \in Requests : flow[r] \notin {"email", "visit"}
         /\ Cardinality({r \in Requests : pc[r] # "idle"}) <= LoginRequests

MCInit == Init /\ mail \in BOOLEAN
MCNext == Next /\ UNCHANGED mail /\ OfKind'
MCSpec == MCInit /\ [][MCNext]_<<vars, mail>>

Symmetry == Permutations(Requests)
=============================================================================
