------------------------------- MODULE FanOut -------------------------------
(***************************************************************************)
(* FanOutManager and its CircuitBreaker (actingweb/fanout.py): delivery of *)
(* callbacks to one peer by several managers, each with a breaker in       *)
(* memory, over the one persisted row "cb:<peer>".                         *)
(*                                                                         *)
(* A manager is an object of a process: it loads the row when it is made,  *)
(* or when it first needs the breaker, and writes its own breaker back     *)
(* whole after every outcome.  A delivery waits twice, for the semaphore   *)
(* and for the peer's answer; between two awaits it is one step.  The      *)
(* semaphore belongs to one call of deliver_to_subscribers and does not    *)
(* bound the deliveries of overlapping calls, so a delivery that has been  *)
(* admitted waits for any time.                                            *)
(***************************************************************************)
EXTENDS Integers, Sequences, SequencesExt, FiniteSets

CONSTANTS
    Managers,       \* FanOutManager objects, each in a process of its own.
    Deliveries,     \* Calls of deliver_one for the peer.
    Threshold,      \* failure_threshold
    Cooldown,       \* cooldown_seconds, in ticks of the clock.
    MaxClock,       \* Bound on the clock,
    MaxIncidents    \* on restarts, manual resets and failed accesses to the
                    \* row, taken together.

ASSUME SetsAssumption == IsFiniteSet(Managers) /\ IsFiniteSet(Deliveries)
ASSUME ThresholdAssumption == Threshold \in Nat \ {0}
ASSUME CooldownAssumption == Cooldown \in Nat
ASSUME BoundsAssumption ==
    MaxClock \in Nat /\ MaxIncidents \in Nat

VARIABLES
    alive,          \* The managers there are.
    breakers,       \* For each manager its breaker objects: the last one is
                    \* in its dict, earlier ones have been replaced by a reset
                    \* but may still be held by a delivery.
    stored,         \* The persisted row.
    clock,
    pc, manager,    \* Of each delivery: its step, its manager,
    held,           \* and which of the manager's breakers it holds.
    (* What was observed. *)
    streak,         \* Failures since the last success, reset or start of
                    \* the manager, and since the last success or reset of
                    \* any ("all"),
    failedAt,       \* and when the last of them was.
    failures,       \* Failed deliveries so far.
    disturbed,      \* Has the row been written by another manager alive at the
                    \* same time, by a replaced breaker, or not at all?
    incidents       \* Restarts, resets and faults so far.

vars == <<alive, breakers, stored, clock, pc, manager, held, streak, failedAt,
          failures, disturbed, incidents>>

CONSTANTS NoRow, NoManager, All

ASSUME NullsAssumption == NoManager \notin Managers /\ All \notin Managers

Observers == Managers \cup {All}
Breaker == [state : {"closed", "open", "half_open"},
            failure_count : Nat, last_failure_time : 0..MaxClock]
ASSUME NoRowAssumption == NoRow \notin Breaker

NewBreaker == [state |-> "closed", failure_count |-> 0, last_failure_time |-> 0]

TypeOK ==
    /\ alive \in SUBSET Managers
    /\ breakers \in [Managers -> Seq(Breaker)]
    /\ stored \in Breaker \cup {NoRow}
    /\ clock \in 0..MaxClock
    /\ pc \in [Deliveries -> {"idle", "admitted", "sending", "done"}]
    /\ manager \in [Deliveries -> Managers \cup {NoManager}]
    /\ held \in [Deliveries -> Nat]
    /\ streak \in [Observers -> Nat]
    /\ failedAt \in [Observers -> 0..MaxClock]
    /\ failures \in Nat
    /\ disturbed \in BOOLEAN
    /\ incidents \in 0..MaxIncidents

Init ==
    /\ alive = {}
    /\ breakers = [m \in Managers |-> <<>>]
    /\ stored = NoRow
    /\ clock = 0
    /\ pc = [d \in Deliveries |-> "idle"]
    /\ manager = [d \in Deliveries |-> NoManager]
    /\ held = [d \in Deliveries |-> 0]
    /\ streak = [o \in Observers |-> 0]
    /\ failedAt = [o \in Observers |-> 0]
    /\ failures = 0
    /\ disturbed = FALSE
    /\ incidents = 0

-----------------------------------------------------------------------------
(* CircuitBreaker.                                                         *)

\* Mutant: a success makes up for one failure.
RecordSuccessByOne(b) == [b EXCEPT !.failure_count = @ - 1, !.state = "closed"]

RecordSuccess(b) == [b EXCEPT !.failure_count = 0, !.state = "closed"]

\* Mutant: one failure too many is needed.
RecordFailureLate(b) ==
    [b EXCEPT !.failure_count = @ + 1,
              !.last_failure_time = clock,
              !.state = IF b.failure_count >= Threshold THEN "open" ELSE @]

\* Mutant: one failure too few is enough.
RecordFailureEarly(b) ==
    [b EXCEPT !.failure_count = @ + 1,
              !.last_failure_time = clock,
              !.state = IF b.failure_count + 2 >= Threshold THEN "open" ELSE @]

RecordFailure(b) ==
    [b EXCEPT !.failure_count = @ + 1,
              !.last_failure_time = clock,
              !.state = IF b.failure_count + 1 >= Threshold THEN "open" ELSE @]

CooledDown(b) == clock - b.last_failure_time >= Cooldown

\* should_allow_request: the answer, and the breaker after it.
Allows(b) == b.state = "open" => CooledDown(b)
Asked(b) == IF b.state = "open" /\ CooledDown(b)
            THEN [b EXCEPT !.state = "half_open"] ELSE b

-----------------------------------------------------------------------------
(* Helpers.                                                                *)

At(d, step) == pc[d] = step
Goto(d, step) == pc' = [pc EXCEPT ![d] = step]

Loaded(m) == breakers[m] # <<>>
IsCurrent(d) == held[d] = Len(breakers[manager[d]])

Incident(n) ==
    /\ incidents + n <= MaxIncidents
    /\ incidents' = incidents + n

\* A delivery returns its result and keeps nothing.
Return(d) ==
    /\ Goto(d, "done")
    /\ manager' = [manager EXCEPT ![d] = NoManager]
    /\ held' = [held EXCEPT ![d] = 0]

\* _persist_circuit_breaker(b), after n other incidents.  When the write fails
\* the exception is logged and swallowed, as for reads.
Persist(b, n) ==
    \/ stored' = b /\ Incident(n)
    \/ UNCHANGED stored /\ Incident(n + 1)

Disturb(condition) == disturbed' = (disturbed \/ condition)

-----------------------------------------------------------------------------
(* The life of a manager.                                                  *)

\* Mutant: the persisted breakers are not loaded.
StartAfresh(m) ==
    /\ m \notin alive
    /\ alive' = alive \cup {m}
    /\ Incident(0)
    /\ breakers' = [breakers EXCEPT ![m] = <<NewBreaker>>]
    /\ streak' = [streak EXCEPT ![m] = 0]
    /\ Disturb(alive # {})
    /\ UNCHANGED <<stored, clock, pc, manager, held, failedAt, failures>>

\* __init__ loads the row, if there is one.  A failed load is swallowed; the
\* breaker is then loaded when it is first needed.
Start(m) ==
    /\ m \notin alive
    /\ alive' = alive \cup {m}
    /\ \/ /\ breakers' = [breakers EXCEPT ![m] =
                             IF stored = NoRow THEN <<>> ELSE <<stored>>]
          /\ Incident(0)
       \/ /\ stored # NoRow
          /\ Incident(1)
          /\ breakers' = [breakers EXCEPT ![m] = <<>>]
    /\ streak' = [streak EXCEPT ![m] = 0]
    /\ Disturb(alive # {})
    /\ UNCHANGED <<stored, clock, pc, manager, held, failedAt, failures>>

\* The process ends, and its deliveries with it.
Stop(m) ==
    /\ m \in alive
    /\ Incident(1)
    /\ alive' = alive \ {m}
    /\ breakers' = [breakers EXCEPT ![m] = <<>>]
    /\ LET died == {d \in Deliveries : manager[d] = m}
       IN  /\ pc' = [d \in Deliveries |-> IF d \in died THEN "done" ELSE pc[d]]
           /\ manager' = [d \in Deliveries |->
                             IF d \in died THEN NoManager ELSE manager[d]]
           /\ held' = [d \in Deliveries |-> IF d \in died THEN 0 ELSE held[d]]
    /\ UNCHANGED <<stored, clock, streak, failedAt, failures,
                   disturbed>>

\* _get_circuit_breaker, when the manager has no breaker yet: it is loaded, or
\* made when there is no row or the row cannot be read.
GetCircuitBreaker(m) ==
    /\ m \in alive
    /\ ~Loaded(m)
    /\ \/ /\ breakers' = [breakers EXCEPT ![m] =
                             <<IF stored = NoRow THEN NewBreaker ELSE stored>>]
          /\ Incident(0)
          /\ UNCHANGED disturbed
       \/ /\ stored # NoRow
          /\ Incident(1)
          /\ breakers' = [breakers EXCEPT ![m] = <<NewBreaker>>]
          /\ Disturb(TRUE)
    /\ UNCHANGED <<alive, stored, clock, pc, manager, held, streak, failedAt,
                   failures>>

\* reset_circuit_breaker puts a new object in the place of the old one.
ResetCircuitBreaker(m) ==
    /\ m \in alive
    /\ breakers' = [breakers EXCEPT ![m] = Append(@, NewBreaker)]
    /\ Persist(NewBreaker, 1)
    /\ streak' = [streak EXCEPT ![m] = 0, ![All] = 0]
    /\ Disturb(stored' # NewBreaker \/ \E d \in Deliveries : At(d, "sending"))
    /\ UNCHANGED <<alive, clock, pc, manager, held, failedAt, failures>>

-----------------------------------------------------------------------------
(* deliver_to_subscribers, for one subscription.                           *)

\* deliver_one asks the breaker ...
Admit(d, m) ==
    /\ At(d, "idle")
    /\ m \in alive
    /\ Loaded(m)
    /\ Allows(Last(breakers[m]))
    /\ manager' = [manager EXCEPT ![d] = m]
    /\ breakers' = [breakers EXCEPT ![m][Len(breakers[m])] = Asked(@)]
    /\ Goto(d, "admitted")
    /\ UNCHANGED <<alive, stored, clock, held, streak, failedAt, failures,
                   disturbed, incidents>>

\* ... which may be open.
Refuse(d, m) ==
    /\ At(d, "idle")
    /\ m \in alive
    /\ Loaded(m)
    /\ ~Allows(Last(breakers[m]))
    /\ Return(d)
    /\ UNCHANGED <<alive, breakers, stored, clock, streak, failedAt, failures,
                   disturbed, incidents>>

\* _deliver_single looks the breaker up again and sends the callback.
Send(d) ==
    /\ At(d, "admitted")
    /\ held' = [held EXCEPT ![d] = Len(breakers[manager[d]])]
    /\ Goto(d, "sending")
    /\ UNCHANGED <<alive, breakers, stored, clock, manager, streak, failedAt,
                   failures, disturbed, incidents>>

\* Whether a write of d's breaker to the row loses something: it is not the
\* manager's breaker any more, or the write failed.
Misses(d) == ~IsCurrent(d) \/ stored' # breakers'[manager[d]][held[d]]

\* The peer answers 200 or 204.
Succeed(d) ==
    LET m == manager[d]
        b == RecordSuccess(breakers[m][held[d]])
    IN  /\ At(d, "sending")
        /\ breakers' = [breakers EXCEPT ![m][held[d]] = b]
        /\ Persist(b, 0)
        /\ streak' = [streak EXCEPT ![m] = IF IsCurrent(d) THEN 0 ELSE @,
                                    ![All] = 0]
        /\ Disturb(Misses(d))
        /\ Return(d)
        /\ UNCHANGED <<alive, clock, failedAt, failures>>

\* record_failure on d's breaker, which becomes b; n failures are counted.
\* The caller says what happens to the row.
Failed(d, n, b) ==
    LET m == manager[d]
    IN  /\ breakers' = [breakers EXCEPT ![m][held[d]] = b]
        /\ streak' = [streak EXCEPT ![m] = IF IsCurrent(d) THEN @ + 1 ELSE @,
                                    ![All] = @ + 1]
        /\ failedAt' = [failedAt EXCEPT ![m] = IF IsCurrent(d) THEN clock ELSE @,
                                        ![All] = clock]
        /\ failures' = failures + n
        /\ Disturb(Misses(d))
        /\ Return(d)
        /\ UNCHANGED <<alive, clock>>

\* Any other answer, a timeout or an error of the connection.
Fail(d) ==
    LET b == RecordFailure(breakers[manager[d]][held[d]])
    IN  At(d, "sending") /\ Persist(b, 0) /\ Failed(d, 1, b)

\* 429 with a date as Retry-After: int() raises after the failure was
\* recorded and persisted, and the handler of the exception does so again.
RateLimitedUntil(d) ==
    LET once == RecordFailure(breakers[manager[d]][held[d]])
        twice == RecordFailure(once)
    IN  /\ At(d, "sending")
        /\ Persist(twice, 0) \/ (stored' = once /\ Incident(1))
        /\ Failed(d, 2, twice)

Tick ==
    /\ clock < MaxClock
    /\ clock' = clock + 1
    /\ UNCHANGED <<alive, breakers, stored, pc, manager, held, streak, failedAt,
                   failures, disturbed, incidents>>

Next ==
    \/ \E m \in Managers :
        Start(m) \/ Stop(m) \/ GetCircuitBreaker(m) \/ ResetCircuitBreaker(m)
    \/ \E d \in Deliveries :
        \/ \E m \in Managers : Admit(d, m) \/ Refuse(d, m)
        \/ Send(d) \/ Succeed(d) \/ Fail(d) \/ RateLimitedUntil(d)
    \/ Tick

Spec == Init /\ [][Next]_vars
-----------------------------------------------------------------------------

\* After Threshold failures in a row a peer is left alone for Cooldown.
Shut(o) == streak[o] >= Threshold /\ clock - failedAt[o] < Cooldown

Admitted(d) == ~At(d, "admitted") /\ At(d, "admitted")'

\* A manager lets no delivery through for Cooldown after Threshold failures
\* in a row of its own, however late the answers it counts come in, however
\* often the breaker was half open before, and whatever replaced breakers
\* still record.
PeerIsLeftAlone ==
    [][\A d \in Deliveries : Admitted(d) => ~Shut(manager[d]')]_vars

\* The breaker survives restarts: the failures in a row are those of all
\* managers, each of which continues where the one before it stopped.  This
\* holds unless managers live at the same time, a breaker is reset while a
\* delivery holds it, or the row could not be read or written: then a row
\* with fewer failures may replace one with more.
StaysShutOverRestarts ==
    [][\A d \in Deliveries : Admitted(d) /\ ~disturbed => ~Shut(All)]_vars

\* No breaker, in memory or stored, is open or being tested before Threshold
\* failures were recorded, however copies replace each other.
OpenIsEarned ==
    \A b \in (UNION {ToSet(breakers[m]) : m \in Managers}) \cup ({stored} \ {NoRow}) :
        b.state # "closed" => failures >= Threshold

\* What the comment in should_allow_request says: a half-open breaker allows
\* one test request.
OneTestRequest ==
    \A m \in alive :
        Loaded(m) /\ Last(breakers[m]).state = "half_open" =>
            Cardinality({d \in Deliveries :
                manager[d] = m /\ pc[d] \in {"admitted", "sending"}}) <= 1

-----------------------------------------------------------------------------
(* The inductive invariant.                                                *)

\* A delivery under way has a manager that lives, and a breaker of it.
DeliveriesHold ==
    \A d \in Deliveries :
        IF pc[d] \in {"admitted", "sending"}
        THEN /\ manager[d] \in alive
             /\ Loaded(manager[d])
             /\ At(d, "sending") => held[d] \in 1..Len(breakers[manager[d]])
        ELSE manager[d] = NoManager

\* A breaker counts no more failures than the n there were.
Earned(b, n) ==
    /\ b.failure_count <= n
    /\ b.state # "closed" => n >= Threshold

BreakersAreEarned ==
    /\ \A m \in Managers :
          \A i \in 1..Len(breakers[m]) : Earned(breakers[m][i], failures)
    /\ stored # NoRow => Earned(stored, failures)

\* Breaker b has counted the failures in a row that o has seen; while o is
\* shut b is open.
Follows(b, o) ==
    /\ streak[o] <= b.failure_count
    /\ streak[o] >= Threshold =>
        \/ b.state = "open" /\ failedAt[o] <= b.last_failure_time
        \/ clock - failedAt[o] >= Cooldown

\* The breaker of a manager follows the manager's own failures.
ManagersFollow ==
    \A m \in alive :
        IF Loaded(m) THEN Follows(Last(breakers[m]), m) ELSE streak[m] = 0

\* Undisturbed, there is one manager at a time, and its breaker and the row
\* follow all failures.
AllIsFollowed ==
    /\ \A m, n \in alive : m = n
    /\ \A m \in alive : Loaded(m) => Follows(Last(breakers[m]), All)
    /\ IF stored = NoRow THEN streak[All] = 0 ELSE Follows(stored, All)

IInv ==
    /\ TypeOK
    /\ DeliveriesHold
    /\ BreakersAreEarned
    /\ ManagersFollow
    /\ ~disturbed => AllIsFollowed
=============================================================================
