---------------------- MODULE MCSubscriptionPublisher ----------------------
(* Model values for SubscriptionPublisher.  A behaviour is of one of two   *)
(* kinds: requests that overlap, at a subscription that is told of every   *)
(* change, or requests one after the other, at one that polls and whose    *)
(* peer knows no resync.                                                   *)
EXTENDS SubscriptionPublisher, TLC

CONSTANTS SerialChanges, SerialFaults, SerialMaxFaults

VARIABLE serial

Serial == INSTANCE SubscriptionPublisher WITH
    Changes <- SerialChanges, Upsert <- TRUE, ResyncOption <- FALSE,
    Granularity <- "none", MaxOverlap <- 1, Faults <- SerialFaults,
    MaxFaults <- SerialMaxFaults

EitherInit ==
    \/ serial = FALSE /\ Init
    \/ serial = TRUE /\ Serial!Init

EitherNext ==
    \/ ~serial /\ Next /\ UNCHANGED serial
    \/ serial /\ Serial!Next /\ UNCHANGED serial

EitherSpec == EitherInit /\ [][EitherNext]_<<vars, serial>>

\* The changes that both kinds have are interchangeable, and the imports.
Symmetry == Permutations(Changes) \cup Permutations(Imports)
=============================================================================
