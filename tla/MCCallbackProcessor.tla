------------------------ MODULE MCCallbackProcessor ------------------------
(* Model values for CallbackProcessor.  A behaviour is of one of two       *)
(* kinds: few requests that overlap and may fail, or more requests, one    *)
(* after the other, without a fault.  Nothing compares or orders the       *)
(* requests, so they may as well arrive in a fixed order.                  *)
EXTENDS CallbackProcessor, TLC, Sequences

CONSTANTS
    d1, d2, d3, d4, d5,     \* The requests.
    Overlapping,            \* How many of them there are when they overlap,
    OverlappingMaxSeq       \* ... and the highest number they carry.

VARIABLE serial

Arrivals == <<d1, d2, d3, d4, d5>>
ArrivesInOrder ==
    \A i \in 2..Len(Arrivals) :
        pc[Arrivals[i]] # "idle" => pc[Arrivals[i - 1]] # "idle"

OneAtATime == faults = 0 /\ Cardinality(InFlight) <= 1

FewThatOverlap ==
    \A i \in 1..Len(Arrivals) :
        pc[Arrivals[i]] # "idle" =>
            i <= Overlapping /\ seq[Arrivals[i]] <= OverlappingMaxSeq

EitherInit ==
    /\ Init
    /\ serial \in BOOLEAN
    /\ ~serial => \A n \in Seqno : n > OverlappingMaxSeq => kind[n] = "diff"

EitherNext ==
    /\ Next
    /\ ArrivesInOrder'
    /\ IF serial THEN OneAtATime' ELSE FewThatOverlap'
    /\ UNCHANGED serial

EitherSpec ==
    /\ EitherInit
    /\ [][EitherNext]_<<vars, serial>>
    /\ \A d \in Deliveries : WF_<<vars, serial>>(Process(d) /\ UNCHANGED serial)
=============================================================================
