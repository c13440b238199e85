---------------------------- MODULE FanOut_proofs ----------------------------
(***************************************************************************)
(* Proofs about FanOut: whatever the number of managers and deliveries,    *)
(* the threshold and the time to cool down, a peer that has failed often   *)
(* enough in a row is left alone, and a breaker opens for no less.         *)
(*                                                                         *)
(* The argument follows the counters.  A manager's breaker has counted at  *)
(* least the failures in a row the manager has seen, since only a new      *)
(* breaker or a success sets its counter back, and both end the streak.    *)
(* It opened when the counter reached the threshold, and leaves that state *)
(* only once the time to cool down, counted from the last failure of all,  *)
(* has passed.  The same holds of the row and the failures of all managers *)
(* as long as each manager starts from what the one before it wrote.       *)
(*                                                                         *)
(* And about SubscriptionSync, where callbacks do not get through: where   *)
(* diffs suffice, one sync after the other loses none.                     *)
(***************************************************************************)
EXTENDS FanOut, SubscriptionSync, SequenceTheorems, FiniteSetTheorems, TLAPS

-----------------------------------------------------------------------------
(* Breakers, and managers with their breakers.                             *)

LEMMA NewIsBreaker == NewBreaker \in Breaker
  BY BoundsAssumption DEF Breaker, NewBreaker

\* What the three methods of CircuitBreaker make of a breaker.
LEMMA BreakerTypes ==
    ASSUME clock \in 0..MaxClock, NEW b \in Breaker
    PROVE  /\ NewBreaker \in Breaker
           /\ RecordSuccess(b) \in Breaker
           /\ RecordFailure(b) \in Breaker
           /\ Asked(b) \in Breaker
<1> USE BoundsAssumption DEF Breaker
<1>1. NewBreaker \in Breaker
  BY DEF NewBreaker
<1>2. RecordSuccess(b) \in Breaker
  BY DEF RecordSuccess
<1>3. RecordFailure(b) \in Breaker
  <2>1. /\ b.failure_count + 1 \in Nat
        /\ (IF b.failure_count + 1 >= Threshold THEN "open" ELSE b.state)
              \in {"closed", "open", "half_open"}
    OBVIOUS
  <2> QED
    BY <2>1 DEF RecordFailure
<1>4. Asked(b) \in Breaker
  BY DEF Asked
<1> QED
  BY <1>1, <1>2, <1>3, <1>4

LEMMA Success ==
    ASSUME NEW b \in Breaker
    PROVE  /\ RecordSuccess(b).failure_count = 0
           /\ RecordSuccess(b).state = "closed"
  BY DEF Breaker, RecordSuccess

LEMMA Failure ==
    ASSUME NEW b \in Breaker
    PROVE  /\ RecordFailure(b).failure_count = b.failure_count + 1
           /\ RecordFailure(b).last_failure_time = clock
           /\ RecordFailure(b).state =
                 IF b.failure_count + 1 >= Threshold THEN "open" ELSE b.state
  BY DEF Breaker, RecordFailure

LEMMA Asking ==
    ASSUME NEW b \in Breaker
    PROVE  /\ Asked(b).failure_count = b.failure_count
           /\ Asked(b).last_failure_time = b.last_failure_time
           /\ Asked(b).state = "open" => b.state = "open" /\ ~CooledDown(b)
           /\ Asked(b).state # "closed" => b.state # "closed"
           /\ b.state = "open" /\ Asked(b).state # "open" => CooledDown(b)
  BY DEF Breaker, Asked

\* A manager with breakers has a last one.
LEMMA LastIsThere ==
    ASSUME TypeOK, NEW m \in Managers
    PROVE  /\ Len(breakers[m]) \in Nat
           /\ Loaded(m) <=> Len(breakers[m]) \in 1..Len(breakers[m])
           /\ Loaded(m) => Last(breakers[m]) \in Breaker
           /\ Last(breakers[m]) = breakers[m][Len(breakers[m])]
           /\ \A i \in 1..Len(breakers[m]) : breakers[m][i] \in Breaker
<1>1. breakers[m] \in Seq(Breaker)
  BY DEF TypeOK
<1>2. /\ Len(breakers[m]) \in Nat
      /\ breakers[m] # <<>> => Len(breakers[m]) \in Nat \ {0}
      /\ breakers[m] \in [1..Len(breakers[m]) -> Breaker]
  BY <1>1, EmptySeq, LenProperties
<1>3. breakers[m] = <<>> => Len(breakers[m]) = 0
  BY EmptySeq
<1> QED
  BY <1>2, <1>3 DEF Loaded, Last

\* One breaker of one manager is replaced where it is.
InPlace(m, i, b) ==
    /\ breakers' \in [Managers -> Seq(Breaker)]
    /\ \A n \in Managers : Len(breakers'[n]) = Len(breakers[n])
    /\ \A n \in Managers : Loaded(n)' <=> Loaded(n)
    /\ \A n \in Managers : n # m => breakers'[n] = breakers[n]
    /\ breakers'[m][i] = b
    /\ \A j \in 1..Len(breakers[m]) : j # i => breakers'[m][j] = breakers[m][j]

LEMMA Replaced ==
    ASSUME TypeOK, NEW m \in Managers, NEW i \in 1..Len(breakers[m]),
           NEW b \in Breaker, breakers' = [breakers EXCEPT ![m][i] = b]
    PROVE  InPlace(m, i, b)
<1> DEFINE s == [breakers[m] EXCEPT ![i] = b]
<1>1. breakers[m] \in Seq(Breaker)
  BY DEF TypeOK
<1>2. /\ s \in Seq(Breaker)
      /\ Len(s) = Len(breakers[m])
      /\ \A j \in 1..Len(breakers[m]) : s[j] = IF j = i THEN b ELSE breakers[m][j]
  BY <1>1, ExceptSeq
<1>3. breakers' = [breakers EXCEPT ![m] = s]
  OBVIOUS
<1>4. breakers'[m] = s /\ \A n \in Managers : n # m => breakers'[n] = breakers[n]
  BY <1>3 DEF TypeOK
<1>5. breakers' \in [Managers -> Seq(Breaker)]
  BY <1>2, <1>3 DEF TypeOK
<1>6. breakers[m] # <<>> /\ s # <<>>
  BY <1>1, <1>2, EmptySeq
<1> HIDE DEF s
<1>7. \A n \in Managers : Loaded(n)' <=> Loaded(n)
  BY <1>4, <1>6 DEF Loaded
<1> QED
  BY <1>2, <1>4, <1>5, <1>7 DEF InPlace

\* The same for the breaker a delivery holds, and for the one it is asked of.
LEMMA Recorded ==
    ASSUME TypeOK, DeliveriesHold, NEW d \in Deliveries, At(d, "sending")
    PROVE  /\ manager[d] \in alive
           /\ manager[d] \in Managers
           /\ held[d] \in 1..Len(breakers[manager[d]])
           /\ breakers[manager[d]][held[d]] \in Breaker
           /\ Loaded(manager[d])
           /\ IsCurrent(d) => breakers[manager[d]][held[d]] = Last(breakers[manager[d]])
<1>1. /\ manager[d] \in alive
      /\ manager[d] \in Managers
      /\ held[d] \in 1..Len(breakers[manager[d]])
      /\ Loaded(manager[d])
  BY DEF TypeOK, DeliveriesHold, At
<1> QED
  BY <1>1, LastIsThere DEF IsCurrent

LEMMA Outcome ==
    ASSUME TypeOK, DeliveriesHold, NEW d \in Deliveries, At(d, "sending"),
           NEW b \in Breaker,
           breakers' = [breakers EXCEPT ![manager[d]][held[d]] = b]
    PROVE  InPlace(manager[d], held[d], b)
  BY Recorded, Replaced

LEMMA Inquiry ==
    ASSUME TypeOK, NEW d \in Deliveries, NEW m \in Managers, Admit(d, m)
    PROVE  InPlace(m, Len(breakers[m]), Asked(Last(breakers[m])))
<1>1. Len(breakers[m]) \in 1..Len(breakers[m])
  BY LastIsThere DEF Admit
<1>2. Last(breakers[m]) \in Breaker /\ clock \in 0..MaxClock
  BY LastIsThere DEF Admit, TypeOK
<1>3. Asked(Last(breakers[m])) \in Breaker
  BY <1>2, BreakerTypes
<1>4. breakers' = [breakers EXCEPT ![m][Len(breakers[m])] =
                      Asked(Last(breakers[m]))]
  BY LastIsThere DEF Admit
<1> QED
  BY <1>1, <1>3, <1>4, Replaced

\* The last breaker of a manager after one has been replaced in place.
LEMMA LastInPlace ==
    ASSUME TypeOK, NEW m \in Managers, NEW i \in 1..Len(breakers[m]),
           NEW b, InPlace(m, i, b)
    PROVE  /\ \A n \in Managers \ {m} : Last(breakers'[n]) = Last(breakers[n])
           /\ i = Len(breakers[m]) => Last(breakers'[m]) = b
           /\ i # Len(breakers[m]) => Last(breakers'[m]) = Last(breakers[m])
<1>1. Len(breakers[m]) \in Nat
  BY LastIsThere
<1>2. Len(breakers'[m]) = Len(breakers[m])
  BY DEF InPlace
<1>3. Len(breakers[m]) \in 1..Len(breakers[m])
  BY <1>1
<1> QED
  BY <1>2, <1>3 DEF InPlace, Last

-----------------------------------------------------------------------------
\* Every step keeps the types.
LEMMA TypeStep == TypeOK /\ DeliveriesHold /\ [Next]_vars => TypeOK'
<1> SUFFICES ASSUME TypeOK, DeliveriesHold, [Next]_vars PROVE TypeOK'
  OBVIOUS
<1> USE BoundsAssumption
<1>1. ASSUME NEW m \in Managers, Start(m) PROVE TypeOK'
  <2>1. breakers' \in [Managers -> Seq(Breaker)]
    <3>1. <<>> \in Seq(Breaker) /\ (stored \in Breaker => <<stored>> \in Seq(Breaker))
      OBVIOUS
    <3>2. stored # NoRow => stored \in Breaker
      BY DEF TypeOK
    <3> QED
      BY <1>1, <3>1, <3>2 DEF Start, TypeOK
  <2>2. streak' \in [Observers -> Nat]
    BY <1>1 DEF Start, TypeOK, Observers
  <2>3. disturbed' \in BOOLEAN
    BY <1>1 DEF Start, TypeOK, Disturb
  <2>4. incidents' \in 0..MaxIncidents
    BY <1>1 DEF Start, TypeOK, Incident
  <2>5. alive' \in SUBSET Managers
    BY <1>1 DEF Start, TypeOK
  <2> QED
    BY <1>1, <2>1, <2>2, <2>3, <2>4, <2>5 DEF Start, TypeOK
<1>2. ASSUME NEW m \in Managers, Stop(m) PROVE TypeOK'
  <2>1. breakers' \in [Managers -> Seq(Breaker)]
    BY <1>2 DEF Stop, TypeOK
  <2>2. /\ pc' \in [Deliveries -> {"idle", "admitted", "sending", "done"}]
        /\ manager' \in [Deliveries -> Managers \cup {NoManager}]
        /\ held' \in [Deliveries -> Nat]
    BY <1>2 DEF Stop, TypeOK
  <2>3. incidents' \in 0..MaxIncidents
    BY <1>2 DEF Stop, TypeOK, Incident
  <2> QED
    BY <1>2, <2>1, <2>2, <2>3 DEF Stop, TypeOK
<1>3. ASSUME NEW m \in Managers, GetCircuitBreaker(m) PROVE TypeOK'
  <2>1. NewBreaker \in Breaker /\ (stored # NoRow => stored \in Breaker)
    BY DEF TypeOK, NewBreaker, Breaker
  <2>2. breakers' \in [Managers -> Seq(Breaker)]
    <3>1. PICK b \in Breaker : breakers' = [breakers EXCEPT ![m] = <<b>>]
      BY <1>3, <2>1 DEF GetCircuitBreaker
    <3>2. <<b>> \in Seq(Breaker)
      OBVIOUS
    <3> QED
      BY <3>1, <3>2 DEF TypeOK
  <2>3. disturbed' \in BOOLEAN
    BY <1>3 DEF GetCircuitBreaker, TypeOK, Disturb
  <2>4. incidents' \in 0..MaxIncidents
    <3>1. Incident(0) \/ Incident(1)
      BY <1>3 DEF GetCircuitBreaker
    <3> QED
      BY <3>1 DEF TypeOK, Incident
  <2> QED
    BY <1>3, <2>2, <2>3, <2>4 DEF GetCircuitBreaker, TypeOK
<1>4. ASSUME NEW m \in Managers, ResetCircuitBreaker(m) PROVE TypeOK'
  <2>1. NewBreaker \in Breaker
    BY DEF NewBreaker, Breaker
  <2>2. Append(breakers[m], NewBreaker) \in Seq(Breaker)
    BY <2>1, AppendProperties DEF TypeOK
  <2>3. breakers' \in [Managers -> Seq(Breaker)]
    BY <1>4, <2>2 DEF ResetCircuitBreaker, TypeOK
  <2>4. stored' \in Breaker \cup {NoRow} /\ incidents' \in 0..MaxIncidents
    BY <1>4, <2>1 DEF ResetCircuitBreaker, TypeOK, Persist, Incident
  <2>5. disturbed' \in BOOLEAN
    BY <1>4 DEF ResetCircuitBreaker, Disturb
  <2>6. streak' \in [Observers -> Nat]
    BY <1>4 DEF ResetCircuitBreaker, TypeOK, Observers
  <2> QED
    BY <1>4, <2>3, <2>4, <2>5, <2>6 DEF ResetCircuitBreaker, TypeOK
<1>5. ASSUME NEW d \in Deliveries, NEW m \in Managers, Admit(d, m) PROVE TypeOK'
  <2>1. breakers' \in [Managers -> Seq(Breaker)]
    BY <1>5, Inquiry DEF InPlace
  <2> QED
    BY <1>5, <2>1 DEF Admit, TypeOK, Goto
<1>6. ASSUME NEW d \in Deliveries, NEW m \in Managers, Refuse(d, m) PROVE TypeOK'
  BY <1>6 DEF Refuse, TypeOK, Return, Goto
<1>7. ASSUME NEW d \in Deliveries, Send(d) PROVE TypeOK'
  <2>1. manager[d] \in Managers
    BY <1>7 DEF Send, At, DeliveriesHold, TypeOK
  <2>2. Len(breakers[manager[d]]) \in Nat
    BY <2>1, LastIsThere
  <2> QED
    BY <1>7, <2>2 DEF Send, TypeOK, Goto
<1>8. ASSUME NEW d \in Deliveries, Succeed(d) PROVE TypeOK'
  <2> DEFINE m == manager[d]
             b == RecordSuccess(breakers[m][held[d]])
  <2>1. At(d, "sending") /\ clock \in 0..MaxClock
    BY <1>8 DEF Succeed, TypeOK
  <2>2. b \in Breaker
    BY <2>1, Recorded, BreakerTypes
  <2>3. breakers' = [breakers EXCEPT ![m][held[d]] = b] /\ Persist(b, 0)
    BY <1>8 DEF Succeed
  <2>4. m \in Managers
    BY <2>1, Recorded
  <2>5. streak' \in [Observers -> Nat]
    BY <1>8, <2>4 DEF Succeed, TypeOK, Observers
  <2> HIDE DEF b
  <2>6. breakers' \in [Managers -> Seq(Breaker)]
    BY <2>1, <2>2, <2>3, Outcome DEF InPlace
  <2>7. stored' \in Breaker \cup {NoRow} /\ incidents' \in 0..MaxIncidents
    BY <2>2, <2>3 DEF TypeOK, Persist, Incident
  <2>8. disturbed' \in BOOLEAN
    BY <1>8 DEF Succeed, Disturb
  <2> QED
    BY <1>8, <2>5, <2>6, <2>7, <2>8 DEF Succeed, TypeOK, Return, Goto
<1>9. ASSUME NEW d \in Deliveries, NEW n \in Nat, NEW b \in Breaker,
             At(d, "sending"), Failed(d, n, b), stored' \in Breaker \cup {NoRow},
             incidents' \in 0..MaxIncidents
      PROVE  TypeOK'
  <2>1. manager[d] \in Managers
    BY <1>9, Recorded
  <2>2. breakers' = [breakers EXCEPT ![manager[d]][held[d]] = b]
    BY <1>9 DEF Failed
  <2>3. breakers' \in [Managers -> Seq(Breaker)]
    BY <1>9, <2>2, Outcome DEF InPlace
  <2>4. streak' \in [Observers -> Nat]
    BY <1>9, <2>1 DEF Failed, TypeOK, Observers
  <2>5. failedAt' \in [Observers -> 0..MaxClock]
    BY <1>9, <2>1 DEF Failed, TypeOK, Observers
  <2>6. disturbed' \in BOOLEAN
    BY <1>9 DEF Failed, Disturb
  <2>7. failures' \in Nat
    BY <1>9 DEF Failed, TypeOK
  <2> QED
    BY <1>9, <2>3, <2>4, <2>5, <2>6, <2>7 DEF Failed, TypeOK, Return, Goto
<1>10. ASSUME NEW d \in Deliveries, Fail(d) PROVE TypeOK'
  <2> DEFINE b == RecordFailure(breakers[manager[d]][held[d]])
  <2>1. At(d, "sending") /\ clock \in 0..MaxClock
    BY <1>10 DEF Fail, TypeOK
  <2>2. b \in Breaker
    BY <2>1, Recorded, BreakerTypes
  <2>3. Persist(b, 0) /\ Failed(d, 1, b)
    BY <1>10 DEF Fail
  <2> HIDE DEF b
  <2>4. stored' \in Breaker \cup {NoRow} /\ incidents' \in 0..MaxIncidents
    BY <2>2, <2>3 DEF TypeOK, Persist, Incident
  <2> QED
    BY <2>1, <2>2, <2>3, <2>4, <1>9
<1>11. ASSUME NEW d \in Deliveries, RateLimitedUntil(d) PROVE TypeOK'
  <2> DEFINE once == RecordFailure(breakers[manager[d]][held[d]])
             twice == RecordFailure(once)
  <2>1. At(d, "sending") /\ clock \in 0..MaxClock
    BY <1>11 DEF RateLimitedUntil, TypeOK
  <2>2. once \in Breaker
    BY <2>1, Recorded, BreakerTypes
  <2>3. twice \in Breaker
    BY <2>1, <2>2, BreakerTypes
  <2>4. /\ Persist(twice, 0) \/ (stored' = once /\ Incident(1))
        /\ Failed(d, 2, twice)
    BY <1>11 DEF RateLimitedUntil
  <2> HIDE DEF once, twice
  <2>5. stored' \in Breaker \cup {NoRow} /\ incidents' \in 0..MaxIncidents
    BY <2>2, <2>3, <2>4 DEF TypeOK, Persist, Incident
  <2> QED
    BY <2>1, <2>3, <2>4, <2>5, <1>9
<1>12. CASE Tick
  BY <1>12 DEF Tick, TypeOK
<1>13. CASE UNCHANGED vars
  BY <1>13 DEF vars, TypeOK
<1> QED
  BY <1>1, <1>2, <1>3, <1>4, <1>5, <1>6, <1>7, <1>8, <1>10, <1>11, <1>12,
     <1>13 DEF Next

-----------------------------------------------------------------------------
\* A delivery keeps its manager, and its breaker, for as long as it runs.
LEMMA HoldStep ==
    TypeOK /\ DeliveriesHold /\ [Next]_vars => DeliveriesHold'
<1> SUFFICES ASSUME TypeOK, DeliveriesHold, [Next]_vars,
                    NEW e \in Deliveries
             PROVE  (IF pc[e] \in {"admitted", "sending"}
                     THEN /\ manager[e] \in alive
                          /\ Loaded(manager[e])
                          /\ At(e, "sending") =>
                                held[e] \in 1..Len(breakers[manager[e]])
                     ELSE manager[e] = NoManager)'
  BY DEF DeliveriesHold
<1> DEFINE Holds == IF pc[e] \in {"admitted", "sending"}
                    THEN /\ manager[e] \in alive
                         /\ Loaded(manager[e])
                         /\ At(e, "sending") =>
                               held[e] \in 1..Len(breakers[manager[e]])
                    ELSE manager[e] = NoManager
<1>0. Holds /\ (manager[e] \in Managers \/ manager[e] = NoManager)
  BY DEF DeliveriesHold, TypeOK
<1>1. ASSUME NEW m \in Managers, Start(m) PROVE Holds'
  <2>1. manager[e] \in alive => manager[e] # m
    BY <1>1 DEF Start
  <2>2. manager[e] \in alive => breakers'[manager[e]] = breakers[manager[e]]
    BY <1>1, <2>1 DEF Start, TypeOK
  <2> QED
    BY <1>0, <1>1, <2>2 DEF Start, Loaded, At
<1>2. ASSUME NEW m \in Managers, Stop(m) PROVE Holds'
  <2>1. CASE manager[e] = m
    <3>1. pc'[e] = "done" /\ manager'[e] = NoManager
      BY <1>2, <2>1 DEF Stop
    <3> QED
      BY <3>1
  <2>2. CASE manager[e] # m
    <3>1. pc'[e] = pc[e] /\ manager'[e] = manager[e] /\ held'[e] = held[e]
      BY <1>2, <2>2 DEF Stop
    <3>2. manager[e] \in alive => breakers'[manager[e]] = breakers[manager[e]]
      BY <1>2, <2>2 DEF Stop, TypeOK
    <3>3. manager[e] \in alive => manager[e] \in alive'
      BY <1>2, <2>2 DEF Stop
    <3> QED
      BY <1>0, <3>1, <3>2, <3>3 DEF Loaded, At
  <2> QED
    BY <2>1, <2>2
<1>3. ASSUME NEW m \in Managers, GetCircuitBreaker(m) PROVE Holds'
  <2>1. Loaded(manager[e]) => manager[e] # m
    BY <1>3 DEF GetCircuitBreaker
  <2>2. PICK b : breakers' = [breakers EXCEPT ![m] = <<b>>]
    BY <1>3 DEF GetCircuitBreaker
  <2>3. manager[e] \in alive /\ Loaded(manager[e])
           => breakers'[manager[e]] = breakers[manager[e]]
    BY <2>1, <2>2 DEF TypeOK
  <2>4. UNCHANGED <<alive, pc, manager, held>>
    BY <1>3 DEF GetCircuitBreaker
  <2> QED
    BY <1>0, <2>3, <2>4 DEF Loaded, At
<1>4. ASSUME NEW m \in Managers, ResetCircuitBreaker(m) PROVE Holds'
  <2> DEFINE s == Append(breakers[m], NewBreaker)
  <2>0. NewBreaker \in Breaker /\ breakers[m] \in Seq(Breaker)
    BY NewIsBreaker DEF TypeOK
  <2>1. s # <<>> /\ Len(s) = Len(breakers[m]) + 1 /\ Len(breakers[m]) \in Nat
    BY <2>0, AppendProperties, LenProperties
  <2>2. breakers' = [breakers EXCEPT ![m] = s] /\ UNCHANGED <<alive, pc, manager, held>>
    BY <1>4 DEF ResetCircuitBreaker
  <2> HIDE DEF s
  <2>3. breakers'[m] = s /\ \A n \in Managers \ {m} : breakers'[n] = breakers[n]
    BY <2>2 DEF TypeOK
  <2>4. CASE manager[e] = m
    BY <1>0, <2>1, <2>2, <2>3, <2>4 DEF Loaded, At
  <2>5. CASE manager[e] # m
    BY <1>0, <2>2, <2>3, <2>5, NullsAssumption DEF Loaded, At, TypeOK
  <2> QED
    BY <2>4, <2>5
<1>5. ASSUME NEW d \in Deliveries, NEW m \in Managers, Admit(d, m) PROVE Holds'
  <2>1. /\ \A n \in Managers : Len(breakers'[n]) = Len(breakers[n])
        /\ \A n \in Managers : breakers[n] # <<>> <=> breakers'[n] # <<>>
    BY <1>5, Inquiry DEF InPlace, Loaded
  <2>2. CASE e = d
    <3>1. /\ pc'[e] = "admitted" /\ manager'[e] = m
          /\ m \in alive' /\ breakers'[m] # <<>>
      BY <1>5, <2>1, <2>2 DEF Admit, Goto, TypeOK, Loaded
    <3> QED
      BY <3>1 DEF At, Loaded
  <2>3. CASE e # d
    <3>1. /\ pc'[e] = pc[e] /\ manager'[e] = manager[e]
          /\ held'[e] = held[e] /\ alive' = alive
      BY <1>5, <2>3 DEF Admit, Goto, TypeOK
    <3>2. manager[e] \in alive =>
            /\ Len(breakers'[manager[e]]) = Len(breakers[manager[e]])
            /\ breakers[manager[e]] # <<>> <=> breakers'[manager[e]] # <<>>
      BY <2>1 DEF TypeOK
    <3> QED
      BY <1>0, <3>1, <3>2 DEF At, Loaded
  <2> QED
    BY <2>2, <2>3
<1>6. ASSUME NEW d \in Deliveries, NEW m \in Managers, Refuse(d, m) PROVE Holds'
  BY <1>0, <1>6 DEF Refuse, Return, Goto, TypeOK, At, Loaded
<1>7. ASSUME NEW d \in Deliveries, Send(d) PROVE Holds'
  <2>1. CASE e = d
    <3>1. Loaded(manager[d]) /\ manager[d] \in Managers /\ manager[d] \in alive
      BY <1>7, <1>0, <2>1 DEF Send, At, TypeOK
    <3>2. Len(breakers[manager[d]]) \in 1..Len(breakers[manager[d]])
      BY <3>1, LastIsThere
    <3> QED
      BY <1>7, <2>1, <3>1, <3>2 DEF Send, Goto, TypeOK, At, Loaded
  <2>2. CASE e # d
    BY <1>0, <1>7, <2>2 DEF Send, Goto, TypeOK, At, Loaded
  <2> QED
    BY <2>1, <2>2
<1>8. ASSUME NEW d \in Deliveries, NEW b \in Breaker, At(d, "sending"),
             breakers' = [breakers EXCEPT ![manager[d]][held[d]] = b],
             Return(d), UNCHANGED alive
      PROVE  Holds'
  <2>1. /\ \A n \in Managers : Len(breakers'[n]) = Len(breakers[n])
        /\ \A n \in Managers : breakers[n] # <<>> <=> breakers'[n] # <<>>
    BY <1>8, Outcome DEF InPlace, Loaded
  <2>2. CASE e = d
    BY <1>8, <2>2 DEF Return, Goto, TypeOK
  <2>3. CASE e # d
    <3>1. /\ pc'[e] = pc[e] /\ manager'[e] = manager[e]
          /\ held'[e] = held[e] /\ alive' = alive
      BY <1>8, <2>3 DEF Return, Goto, TypeOK
    <3>2. manager[e] \in alive =>
            /\ Len(breakers'[manager[e]]) = Len(breakers[manager[e]])
            /\ breakers[manager[e]] # <<>> <=> breakers'[manager[e]] # <<>>
      BY <2>1 DEF TypeOK
    <3> QED
      BY <1>0, <3>1, <3>2 DEF At, Loaded
  <2> QED
    BY <2>2, <2>3
<1> HIDE DEF Holds
<1>9. clock \in 0..MaxClock
  BY DEF TypeOK
<1>10. ASSUME NEW d \in Deliveries, Succeed(d) PROVE Holds'
  BY <1>8, <1>9, <1>10, Recorded, BreakerTypes DEF Succeed
<1>11. ASSUME NEW d \in Deliveries, Fail(d) PROVE Holds'
  BY <1>8, <1>9, <1>11, Recorded, BreakerTypes DEF Fail, Failed
<1>12. ASSUME NEW d \in Deliveries, RateLimitedUntil(d) PROVE Holds'
  <2> DEFINE once == RecordFailure(breakers[manager[d]][held[d]])
  <2>1. At(d, "sending") /\ Failed(d, 2, RecordFailure(once))
    BY <1>12 DEF RateLimitedUntil
  <2>2. once \in Breaker
    BY <1>9, <2>1, Recorded, BreakerTypes
  <2>3. RecordFailure(once) \in Breaker
    BY <1>9, <2>2, BreakerTypes
  <2> QED
    BY <1>8, <2>1, <2>3 DEF Failed
<1>13. CASE Tick
  BY <1>0, <1>13 DEF Tick, Holds, At, Loaded
<1>14. CASE UNCHANGED vars
  BY <1>0, <1>14 DEF vars, Holds, At, Loaded
<1>15. Holds'
  <2>1. ASSUME NEW m \in Managers,
               Start(m) \/ Stop(m) \/ GetCircuitBreaker(m) \/ ResetCircuitBreaker(m)
        PROVE  Holds'
    BY <1>1, <1>2, <1>3, <1>4, <2>1
  <2>2. ASSUME NEW d \in Deliveries, NEW m \in Managers, Admit(d, m) \/ Refuse(d, m)
        PROVE  Holds'
    BY <1>5, <1>6, <2>2
  <2>3. ASSUME NEW d \in Deliveries,
               Send(d) \/ Succeed(d) \/ Fail(d) \/ RateLimitedUntil(d)
        PROVE  Holds'
    BY <1>7, <1>10, <1>11, <1>12, <2>3
  <2> QED
    BY <1>13, <1>14, <2>1, <2>2, <2>3 DEF Next, Holds
<1> QED
  BY <1>15 DEF Holds

-----------------------------------------------------------------------------
\* What a new breaker, a success, an inquiry and a failure make of Earned.
LEMMA EarnedOn ==
    ASSUME NEW b \in Breaker, NEW n \in Nat
    PROVE  /\ Earned(NewBreaker, n)
           /\ Earned(RecordSuccess(b), n)
           /\ Earned(b, n) => Earned(Asked(b), n)
           /\ Earned(b, n) => Earned(RecordFailure(b), n + 1)
           /\ Earned(b, n) => \A k \in Nat : k >= n => Earned(b, k)
<1>1. b.failure_count \in Nat
  BY DEF Breaker
<1>2. Earned(NewBreaker, n)
  BY DEF Earned, NewBreaker
<1>3. Earned(RecordSuccess(b), n)
  BY Success DEF Earned
<1>4. Earned(b, n) => Earned(Asked(b), n)
  BY Asking DEF Earned
<1>5. Earned(b, n) => Earned(RecordFailure(b), n + 1)
  BY <1>1, Failure, ThresholdAssumption DEF Earned
<1>6. Earned(b, n) => \A k \in Nat : k >= n => Earned(b, k)
  BY <1>1, ThresholdAssumption DEF Earned
<1> QED
  BY <1>2, <1>3, <1>4, <1>5, <1>6

\* No breaker counts failures that were none, or opens too early.
LEMMA EarnedStep ==
    TypeOK /\ DeliveriesHold /\ BreakersAreEarned /\ [Next]_vars
        => BreakersAreEarned'
<1> SUFFICES ASSUME TypeOK, DeliveriesHold, BreakersAreEarned, [Next]_vars
             PROVE  BreakersAreEarned'
  OBVIOUS
<1>0. failures \in Nat /\ clock \in 0..MaxClock
  BY DEF TypeOK
<1>00. Earned(NewBreaker, failures)
  BY <1>0, NewIsBreaker, EarnedOn
<1>1. ASSUME NEW m \in Managers, Start(m) PROVE BreakersAreEarned'
  <2>1. /\ breakers'[m] = <<>> \/ (breakers'[m] = <<stored>> /\ stored # NoRow)
        /\ \A n \in Managers \ {m} : breakers'[n] = breakers[n]
        /\ UNCHANGED <<stored, failures>>
    BY <1>1 DEF Start, TypeOK
  <2>2. \A i \in 1..Len(breakers'[m]) : Earned(breakers'[m][i], failures)
    BY <2>1 DEF BreakersAreEarned
  <2> QED
    BY <2>1, <2>2 DEF BreakersAreEarned
<1>2. ASSUME NEW m \in Managers, Stop(m) PROVE BreakersAreEarned'
  <2>1. /\ breakers'[m] = <<>>
        /\ \A n \in Managers \ {m} : breakers'[n] = breakers[n]
        /\ UNCHANGED <<stored, failures>>
    BY <1>2 DEF Stop, TypeOK
  <2> QED
    BY <2>1 DEF BreakersAreEarned
<1>3. ASSUME NEW m \in Managers, GetCircuitBreaker(m) PROVE BreakersAreEarned'
  <2>1. /\ \/ breakers' = [breakers EXCEPT ![m] = <<NewBreaker>>]
           \/ stored # NoRow /\ breakers' = [breakers EXCEPT ![m] = <<stored>>]
        /\ UNCHANGED <<stored, failures>>
    BY <1>3 DEF GetCircuitBreaker
  <2>2. /\ breakers'[m] = <<NewBreaker>> \/ (breakers'[m] = <<stored>> /\ stored # NoRow)
        /\ \A n \in Managers \ {m} : breakers'[n] = breakers[n]
    BY <2>1 DEF TypeOK
  <2>3. \A i \in 1..Len(breakers'[m]) : Earned(breakers'[m][i], failures)
    BY <1>0, <2>2, <1>00 DEF BreakersAreEarned
  <2> QED
    BY <2>1, <2>2, <2>3 DEF BreakersAreEarned
<1>4. ASSUME NEW m \in Managers, ResetCircuitBreaker(m) PROVE BreakersAreEarned'
  <2> DEFINE s == Append(breakers[m], NewBreaker)
  <2>0. NewBreaker \in Breaker /\ breakers[m] \in Seq(Breaker)
    BY NewIsBreaker DEF TypeOK
  <2>1. /\ Len(breakers[m]) \in Nat
        /\ Len(s) = Len(breakers[m]) + 1
        /\ \A i \in 1..Len(breakers[m]) : s[i] = breakers[m][i]
        /\ s[Len(breakers[m]) + 1] = NewBreaker
    BY <2>0, AppendProperties, LenProperties
  <2>2. breakers' = [breakers EXCEPT ![m] = s] /\ UNCHANGED failures
    BY <1>4 DEF ResetCircuitBreaker
  <2>3. stored' = NewBreaker \/ stored' = stored
    BY <1>4 DEF ResetCircuitBreaker, Persist
  <2> HIDE DEF s
  <2>4. breakers'[m] = s /\ \A n \in Managers \ {m} : breakers'[n] = breakers[n]
    BY <2>2 DEF TypeOK
  <2>5. \A i \in 1..Len(s) : Earned(s[i], failures)
    <3> SUFFICES ASSUME NEW i \in 1..Len(s) PROVE Earned(s[i], failures)
      OBVIOUS
    <3>1. i \in 1..Len(breakers[m]) \/ i = Len(breakers[m]) + 1
      BY <2>1
    <3> QED
      BY <1>0, <2>1, <3>1, <1>00 DEF BreakersAreEarned
  <2> QED
    BY <1>0, <2>2, <2>3, <2>4, <2>5, <1>00 DEF BreakersAreEarned
<1>5. ASSUME NEW m \in Managers, NEW i \in 1..Len(breakers[m]), NEW b,
             InPlace(m, i, b), failures' \in Nat, failures' >= failures,
             Earned(b, failures'),
             stored' = stored \/ Earned(stored', failures')
      PROVE  BreakersAreEarned'
  <2>1. ASSUME NEW n \in Managers, NEW j \in 1..Len(breakers'[n])
        PROVE  Earned(breakers'[n][j], failures')
    <3>1. j \in 1..Len(breakers[n])
      BY <1>5 DEF InPlace
    <3>2. CASE n = m /\ j = i
      BY <1>5, <3>2 DEF InPlace
    <3>3. CASE ~(n = m /\ j = i)
      <4>1. breakers'[n][j] = breakers[n][j]
        BY <1>5, <3>1, <3>3 DEF InPlace
      <4>2. breakers[n][j] \in Breaker /\ Earned(breakers[n][j], failures)
        BY <3>1, LastIsThere DEF BreakersAreEarned
      <4> QED
        BY <1>0, <1>5, <4>1, <4>2, EarnedOn
    <3> QED
      BY <3>2, <3>3
  <2>2. stored # NoRow => Earned(stored, failures')
    <3>1. stored # NoRow => stored \in Breaker /\ Earned(stored, failures)
      BY DEF TypeOK, BreakersAreEarned
    <3> QED
      BY <1>0, <1>5, <3>1, EarnedOn
  <2> QED
    BY <1>5, <2>1, <2>2 DEF BreakersAreEarned
<1>6. ASSUME NEW d \in Deliveries, NEW m \in Managers, Admit(d, m)
      PROVE  BreakersAreEarned'
  <2> DEFINE i == Len(breakers[m])
             b == Last(breakers[m])
  <2>1. i \in 1..Len(breakers[m]) /\ b \in Breaker /\ b = breakers[m][i]
    BY <1>6, LastIsThere DEF Admit
  <2>2. Earned(Asked(b), failures)
    BY <1>0, <2>1, EarnedOn DEF BreakersAreEarned
  <2>3. InPlace(m, i, Asked(b))
    BY <1>6, Inquiry
  <2>4. failures' = failures /\ stored' = stored
    BY <1>6 DEF Admit
  <2> HIDE DEF i, b
  <2> QED
    BY <1>0, <1>5, <2>1, <2>2, <2>3, <2>4
<1>7. ASSUME NEW d \in Deliveries, At(d, "sending"), NEW b \in Breaker, NEW n \in Nat,
             breakers' = [breakers EXCEPT ![manager[d]][held[d]] = b],
             failures' = failures + n, Earned(b, failures'),
             stored' = stored \/ Earned(stored', failures')
      PROVE  BreakersAreEarned'
  <2>1. /\ manager[d] \in Managers /\ held[d] \in 1..Len(breakers[manager[d]])
        /\ InPlace(manager[d], held[d], b)
    BY <1>7, Recorded, Outcome
  <2>2. failures' \in Nat /\ failures' >= failures
    BY <1>0, <1>7
  <2> QED
    BY <1>5, <1>7, <2>1, <2>2
<1>8. ASSUME NEW d \in Deliveries, At(d, "sending")
      PROVE  /\ breakers[manager[d]][held[d]] \in Breaker
             /\ Earned(breakers[manager[d]][held[d]], failures)
  BY <1>8, Recorded DEF BreakersAreEarned
<1>9. ASSUME NEW d \in Deliveries, Succeed(d) PROVE BreakersAreEarned'
  <2> DEFINE b == RecordSuccess(breakers[manager[d]][held[d]])
  <2>1. b \in Breaker /\ Earned(b, failures)
    BY <1>0, <1>8, <1>9, BreakerTypes, EarnedOn DEF Succeed
  <2>2. /\ At(d, "sending")
        /\ breakers' = [breakers EXCEPT ![manager[d]][held[d]] = b]
        /\ stored' = b \/ stored' = stored
        /\ failures' = failures
    BY <1>0, <1>9 DEF Succeed, Persist
  <2> HIDE DEF b
  <2>3. failures' = failures + 0
    BY <1>0, <2>2
  <2> QED
    BY <1>7, <2>1, <2>2, <2>3
<1>10. ASSUME NEW d \in Deliveries, Fail(d) PROVE BreakersAreEarned'
  <2> DEFINE b == RecordFailure(breakers[manager[d]][held[d]])
  <2>1. b \in Breaker /\ Earned(b, failures + 1)
    BY <1>0, <1>8, <1>10, BreakerTypes, EarnedOn DEF Fail
  <2>2. /\ At(d, "sending")
        /\ breakers' = [breakers EXCEPT ![manager[d]][held[d]] = b]
        /\ stored' = b \/ stored' = stored
        /\ failures' = failures + 1
    BY <1>10 DEF Fail, Failed, Persist
  <2> HIDE DEF b
  <2> QED
    BY <1>7, <2>1, <2>2
<1>11. ASSUME NEW d \in Deliveries, RateLimitedUntil(d) PROVE BreakersAreEarned'
  <2> DEFINE once == RecordFailure(breakers[manager[d]][held[d]])
             twice == RecordFailure(once)
  <2>1. once \in Breaker /\ Earned(once, failures + 1)
    BY <1>0, <1>8, <1>11, BreakerTypes, EarnedOn DEF RateLimitedUntil
  <2>2. twice \in Breaker /\ Earned(twice, (failures + 1) + 1)
    BY <1>0, <2>1, BreakerTypes, EarnedOn
  <2>3. /\ At(d, "sending")
        /\ breakers' = [breakers EXCEPT ![manager[d]][held[d]] = twice]
        /\ stored' = once \/ stored' = twice \/ stored' = stored
        /\ failures' = failures + 2
    BY <1>11 DEF RateLimitedUntil, Failed, Persist
  <2> HIDE DEF once, twice
  <2>4. failures' = (failures + 1) + 1 /\ failures' \in Nat
    BY <1>0, <2>3
  <2>5. Earned(once, failures')
    BY <1>0, <2>1, <2>4, EarnedOn
  <2> QED
    BY <1>7, <2>2, <2>3, <2>4, <2>5
<1>12. CASE UNCHANGED <<breakers, stored, failures>>
  BY <1>12 DEF BreakersAreEarned
<1>13. ASSUME NEW d \in Deliveries, NEW m \in Managers, Refuse(d, m)
       PROVE  BreakersAreEarned'
  BY <1>12, <1>13 DEF Refuse
<1>14. ASSUME NEW d \in Deliveries, Send(d) PROVE BreakersAreEarned'
  BY <1>12, <1>14 DEF Send
<1>15. CASE Tick
  BY <1>12, <1>15 DEF Tick
<1>16. CASE UNCHANGED vars
  BY <1>12, <1>16 DEF vars
<1> QED
  BY <1>1, <1>2, <1>3, <1>4, <1>6, <1>9, <1>10, <1>11, <1>13, <1>14, <1>15,
     <1>16 DEF Next

-----------------------------------------------------------------------------
\* Follows, of s failures in a row, the last of them at at, at the time now.
Keeps(b, s, at, now) ==
    /\ s <= b.failure_count
    /\ s >= Threshold =>
        \/ b.state = "open" /\ at <= b.last_failure_time
        \/ now - at >= Cooldown

LEMMA FollowsKeeps ==
    ASSUME NEW b, NEW o
    PROVE  Follows(b, o) <=> Keeps(b, streak[o], failedAt[o], clock)
  BY DEF Follows, Keeps

\* Any breaker keeps an ended streak; asking a breaker that has not cooled
\* down changes nothing; one more failure counts for both.
LEMMA KeepsOn ==
    ASSUME TypeOK, NEW b \in Breaker, NEW s \in Nat, NEW at \in 0..MaxClock
    PROVE  /\ \A now \in Nat : Keeps(b, 0, at, now)
           /\ Keeps(b, s, at, clock) => Keeps(Asked(b), s, at, clock)
           /\ Keeps(b, s, at, clock) => Keeps(b, s, at, clock + 1)
           /\ s <= b.failure_count
                 => /\ Keeps(RecordFailure(b), s + 1, clock, clock)
                    /\ s <= RecordFailure(b).failure_count
<1>0. /\ clock \in Nat /\ b.failure_count \in Nat /\ b.last_failure_time \in Nat
      /\ at \in Nat
  BY BoundsAssumption DEF TypeOK, Breaker
<1>1. \A now \in Nat : Keeps(b, 0, at, now)
  BY <1>0, ThresholdAssumption DEF Keeps
<1>2. Keeps(b, s, at, clock) => Keeps(Asked(b), s, at, clock)
  <2> SUFFICES ASSUME Keeps(b, s, at, clock), s >= Threshold, Asked(b).state # "open"
               PROVE  clock - at >= Cooldown
    BY Asking DEF Keeps
  <2>1. CASE b.state = "open"
    <3>1. clock - b.last_failure_time >= Cooldown
      BY <2>1, Asking DEF CooledDown
    <3> QED
      BY <1>0, <3>1, CooldownAssumption DEF Keeps
  <2>2. CASE b.state # "open"
    BY <2>2 DEF Keeps
  <2> QED
    BY <2>1, <2>2
<1>3. Keeps(b, s, at, clock) => Keeps(b, s, at, clock + 1)
  BY <1>0, CooldownAssumption DEF Keeps
<1>4. s <= b.failure_count
         => /\ Keeps(RecordFailure(b), s + 1, clock, clock)
            /\ s <= RecordFailure(b).failure_count
  BY <1>0, Failure, ThresholdAssumption DEF Keeps
<1> QED
  BY <1>1, <1>2, <1>3, <1>4

\* What a failure does to the counts of a manager and of all.
LEMMA Counted ==
    ASSUME TypeOK, DeliveriesHold, NEW d \in Deliveries, At(d, "sending"),
           NEW k, NEW b, Failed(d, k, b)
    PROVE  /\ manager[d] \in Managers /\ manager[d] # All
           /\ IsCurrent(d) => /\ streak'[manager[d]] = streak[manager[d]] + 1
                              /\ failedAt'[manager[d]] = clock
           /\ ~IsCurrent(d) => /\ streak'[manager[d]] = streak[manager[d]]
                               /\ failedAt'[manager[d]] = failedAt[manager[d]]
           /\ streak'[All] = streak[All] + 1
           /\ failedAt'[All] = clock
           /\ \A n \in Managers \ {manager[d]} :
                 streak'[n] = streak[n] /\ failedAt'[n] = failedAt[n]
<1>1. manager[d] \in Managers /\ manager[d] # All
  BY Recorded, NullsAssumption
<1>2. /\ streak' = [streak EXCEPT
                       ![manager[d]] = IF IsCurrent(d) THEN @ + 1 ELSE @,
                       ![All] = @ + 1]
      /\ failedAt' = [failedAt EXCEPT
                         ![manager[d]] = IF IsCurrent(d) THEN clock ELSE @,
                         ![All] = clock]
  BY DEF Failed
<1>3. /\ streak \in [Managers \cup {All} -> Nat]
      /\ failedAt \in [Managers \cup {All} -> 0..MaxClock]
  BY DEF TypeOK, Observers
<1> QED
  BY <1>1, <1>2, <1>3, NullsAssumption

\* A manager's last breaker, once d has recorded b in the one it holds.
LEMMA LastRecorded ==
    ASSUME TypeOK, DeliveriesHold, NEW d \in Deliveries, At(d, "sending"),
           NEW b \in Breaker,
           breakers' = [breakers EXCEPT ![manager[d]][held[d]] = b]
    PROVE  /\ IsCurrent(d) => Last(breakers'[manager[d]]) = b
           /\ ~IsCurrent(d) => Last(breakers'[manager[d]]) = Last(breakers[manager[d]])
           /\ \A n \in Managers \ {manager[d]} :
                 Last(breakers'[n]) = Last(breakers[n])
           /\ \A n \in Managers : breakers[n] # <<>> <=> breakers'[n] # <<>>
<1>1. /\ manager[d] \in Managers /\ held[d] \in 1..Len(breakers[manager[d]])
      /\ InPlace(manager[d], held[d], b)
  BY Recorded, Outcome
<1>2. \A n \in Managers : breakers[n] # <<>> <=> breakers'[n] # <<>>
  BY <1>1 DEF InPlace, Loaded
<1>3. /\ \A n \in Managers \ {manager[d]} :
            Last(breakers'[n]) = Last(breakers[n])
      /\ held[d] = Len(breakers[manager[d]]) => Last(breakers'[manager[d]]) = b
      /\ held[d] # Len(breakers[manager[d]])
            => Last(breakers'[manager[d]]) = Last(breakers[manager[d]])
  BY <1>1, LastInPlace
<1> QED
  BY <1>2, <1>3 DEF IsCurrent

\* The breaker of a manager keeps up with the failures of the manager.
LEMMA ManagerStep ==
    TypeOK /\ TypeOK' /\ DeliveriesHold /\ ManagersFollow /\ [Next]_vars
        => ManagersFollow'
<1> SUFFICES ASSUME TypeOK, TypeOK', DeliveriesHold, ManagersFollow, [Next]_vars,
                    NEW n \in Managers, n \in alive'
             PROVE  IF breakers'[n] # <<>>
                    THEN Keeps(Last(breakers'[n]), streak'[n], failedAt'[n], clock')
                    ELSE streak'[n] = 0
  BY DEF ManagersFollow, Follows, Keeps, Loaded, TypeOK
<1> DEFINE Kept == IF breakers'[n] # <<>>
                   THEN Keeps(Last(breakers'[n]), streak'[n], failedAt'[n], clock')
                   ELSE streak'[n] = 0
<1>0. /\ streak[n] \in Nat /\ failedAt[n] \in 0..MaxClock
      /\ clock \in Nat /\ clock' \in Nat /\ failedAt'[n] \in 0..MaxClock
  BY BoundsAssumption DEF TypeOK, Observers
<1>00. n \in alive /\ breakers[n] # <<>>
          => /\ Keeps(Last(breakers[n]), streak[n], failedAt[n], clock)
             /\ Last(breakers[n]) \in Breaker
  BY LastIsThere DEF ManagersFollow, Follows, Keeps, Loaded
<1>000. n \in alive /\ breakers[n] = <<>> => streak[n] = 0
  BY DEF ManagersFollow, Loaded
<1>01. ASSUME NEW b \in Breaker, streak'[n] = 0, breakers'[n] # <<>> => Last(breakers'[n]) = b
       PROVE  Kept
  <2>1. Keeps(b, 0, failedAt'[n], clock')
    BY <1>0, KeepsOn
  <2> QED
    BY <1>01, <2>1
<1>02. ASSUME n \in alive, breakers[n] # <<>> <=> breakers'[n] # <<>>,
              breakers[n] # <<>> => Last(breakers'[n]) = Last(breakers[n]),
              streak'[n] = streak[n], failedAt'[n] = failedAt[n], clock' = clock
       PROVE  Kept
  BY <1>00, <1>000, <1>02
<1> HIDE DEF Kept
<1>1. ASSUME NEW m \in Managers, Start(m) PROVE Kept
  <2>1. CASE n = m
    <3>1. /\ streak'[n] = 0
          /\ breakers'[n] = <<>> \/ (breakers'[n] = <<stored>> /\ stored # NoRow)
      BY <1>1, <2>1 DEF Start, TypeOK, Observers
    <3>2. breakers'[n] = <<stored>> => Last(breakers'[n]) = stored
      BY DEF Last
    <3>3. stored # NoRow => stored \in Breaker
      BY DEF TypeOK
    <3> QED
      BY <1>01, <3>1, <3>2, <3>3, NewIsBreaker
  <2>2. CASE n # m
    BY <1>02, <1>1, <2>2 DEF Start, TypeOK, Observers
  <2> QED
    BY <2>1, <2>2
<1>2. ASSUME NEW m \in Managers, Stop(m) PROVE Kept
  <2>1. n # m /\ n \in alive
    BY <1>2 DEF Stop
  <2> QED
    BY <1>02, <1>2, <2>1 DEF Stop, TypeOK
<1>3. ASSUME NEW m \in Managers, GetCircuitBreaker(m) PROVE Kept
  <2>1. PICK b \in Breaker : breakers' = [breakers EXCEPT ![m] = <<b>>]
    <3>1. stored # NoRow => stored \in Breaker
      BY DEF TypeOK
    <3> QED
      BY <1>3, <3>1, NewIsBreaker DEF GetCircuitBreaker
  <2>2. UNCHANGED <<alive, clock, streak, failedAt>> /\ breakers[m] = <<>>
    BY <1>3 DEF GetCircuitBreaker, Loaded
  <2>3. CASE n = m
    <3>1. breakers'[n] = <<b>> /\ Last(<<b>>) = b
      BY <2>1, <2>3 DEF TypeOK, Last
    <3> QED
      BY <1>01, <1>000, <2>2, <2>3, <3>1
  <2>4. CASE n # m
    BY <1>02, <2>1, <2>2, <2>4 DEF TypeOK
  <2> QED
    BY <2>3, <2>4
<1>4. ASSUME NEW m \in Managers, ResetCircuitBreaker(m) PROVE Kept
  <2>1. CASE n = m
    <3>1. breakers'[n] = Append(breakers[n], NewBreaker) /\ streak'[n] = 0
      BY <1>4, <2>1, NullsAssumption DEF ResetCircuitBreaker, TypeOK, Observers
    <3>2. Last(Append(breakers[n], NewBreaker)) = NewBreaker
      BY AppendProperties, LenProperties, NewIsBreaker DEF Last, TypeOK
    <3> QED
      BY <1>01, <3>1, <3>2, NewIsBreaker
  <2>2. CASE n # m
    <3>1. streak'[n] = streak[n]
      BY <1>4, <2>2, NullsAssumption DEF ResetCircuitBreaker, TypeOK, Observers
    <3>2. breakers'[n] = breakers[n] /\ UNCHANGED <<alive, clock, failedAt>>
      BY <1>4, <2>2 DEF ResetCircuitBreaker, TypeOK
    <3> QED
      BY <1>02, <3>1, <3>2
  <2> QED
    BY <2>1, <2>2
<1>5. ASSUME NEW d \in Deliveries, NEW m \in Managers, Admit(d, m) PROVE Kept
  <2>1. /\ UNCHANGED <<alive, clock, streak, failedAt>>
        /\ InPlace(m, Len(breakers[m]), Asked(Last(breakers[m])))
        /\ breakers[m] # <<>>
        /\ Len(breakers[m]) \in 1..Len(breakers[m])
    BY <1>5, Inquiry, LastIsThere DEF Admit, Loaded
  <2>2. CASE n = m
    <3>1. Last(breakers'[n]) = Asked(Last(breakers[n])) /\ breakers'[n] # <<>>
      BY <2>1, <2>2, LastInPlace DEF InPlace, Loaded
    <3>2. Keeps(Asked(Last(breakers[n])), streak[n], failedAt[n], clock)
      BY <1>0, <1>00, <2>1, <2>2, KeepsOn
    <3> QED
      BY <2>1, <3>1, <3>2 DEF Kept
  <2>3. CASE n # m
    BY <1>02, <2>1, <2>3 DEF InPlace
  <2> QED
    BY <2>2, <2>3
<1>6. ASSUME NEW d \in Deliveries, NEW m \in Managers, Refuse(d, m) PROVE Kept
  BY <1>02, <1>6 DEF Refuse
<1>7. ASSUME NEW d \in Deliveries, Send(d) PROVE Kept
  BY <1>02, <1>7 DEF Send
<1>8. ASSUME NEW d \in Deliveries, Succeed(d) PROVE Kept
  <2> DEFINE m == manager[d]
             b == RecordSuccess(breakers[m][held[d]])
  <2>1. At(d, "sending") /\ breakers' = [breakers EXCEPT ![m][held[d]] = b]
    BY <1>8 DEF Succeed
  <2>2. b \in Breaker /\ m \in Managers /\ m # All
    BY <2>1, Recorded, BreakerTypes, NullsAssumption DEF TypeOK
  <2>3. /\ UNCHANGED <<alive, clock, failedAt>>
        /\ streak' = [streak EXCEPT ![m] = IF IsCurrent(d) THEN 0 ELSE @,
                                    ![All] = 0]
    BY <1>8 DEF Succeed
  <2> HIDE DEF b
  <2>4. /\ IsCurrent(d) => Last(breakers'[m]) = b
        /\ ~IsCurrent(d) => Last(breakers'[m]) = Last(breakers[m])
        /\ n # m => Last(breakers'[n]) = Last(breakers[n])
        /\ breakers[n] # <<>> <=> breakers'[n] # <<>>
    BY <2>1, <2>2, LastRecorded
  <2>5. /\ IsCurrent(d) /\ n = m => streak'[n] = 0
        /\ ~(IsCurrent(d) /\ n = m) => streak'[n] = streak[n]
    BY <2>2, <2>3, NullsAssumption DEF TypeOK, Observers
  <2>6. CASE IsCurrent(d) /\ n = m
    BY <1>01, <2>2, <2>4, <2>5, <2>6
  <2>7. CASE ~(IsCurrent(d) /\ n = m)
    BY <1>02, <2>3, <2>4, <2>5, <2>7
  <2> QED
    BY <2>6, <2>7
<1>9. ASSUME NEW d \in Deliveries, At(d, "sending"), NEW k, NEW b \in Breaker,
             Failed(d, k, RecordFailure(b)),
             streak[manager[d]] \in Nat /\ IsCurrent(d)
                => streak[manager[d]] <= b.failure_count
      PROVE  Kept
  <2> DEFINE m == manager[d]
             c == RecordFailure(b)
  <2>1. c \in Breaker /\ m \in Managers
    BY <1>9, Recorded, BreakerTypes DEF TypeOK
  <2>2. breakers' = [breakers EXCEPT ![m][held[d]] = c]
    BY <1>9 DEF Failed
  <2>3. UNCHANGED <<alive, clock>>
    BY <1>9 DEF Failed
  <2>4. /\ IsCurrent(d) => Last(breakers'[m]) = c
        /\ ~IsCurrent(d) => Last(breakers'[m]) = Last(breakers[m])
        /\ n # m => Last(breakers'[n]) = Last(breakers[n])
        /\ breakers[n] # <<>> <=> breakers'[n] # <<>>
    BY <1>9, <2>1, <2>2, LastRecorded
  <2>5. /\ IsCurrent(d) /\ n = m => streak'[n] = streak[n] + 1 /\ failedAt'[n] = clock
        /\ ~(IsCurrent(d) /\ n = m)
              => streak'[n] = streak[n] /\ failedAt'[n] = failedAt[n]
    BY <1>9, <2>1, Counted
  <2>6. CASE IsCurrent(d) /\ n = m
    <3>1. Keeps(c, streak[n] + 1, clock, clock)
      BY <1>0, <1>9, <2>6, KeepsOn
    <3>2. breakers'[n] # <<>>
      BY <1>9, <2>4, <2>6, Recorded DEF Loaded
    <3> QED
      BY <2>3, <2>4, <2>5, <2>6, <3>1, <3>2 DEF Kept
  <2>7. CASE ~(IsCurrent(d) /\ n = m)
    BY <1>02, <2>3, <2>4, <2>5, <2>7
  <2> QED
    BY <2>6, <2>7
<1>10. ASSUME NEW d \in Deliveries, At(d, "sending")
       PROVE  /\ breakers[manager[d]][held[d]] \in Breaker
              /\ streak[manager[d]] \in Nat
              /\ IsCurrent(d) => streak[manager[d]]
                                    <= breakers[manager[d]][held[d]].failure_count
  <2>1. manager[d] \in alive /\ Loaded(manager[d]) /\ manager[d] \in Managers
    BY <1>10, Recorded
  <2>2. streak[manager[d]] <= Last(breakers[manager[d]]).failure_count
    BY <2>1 DEF ManagersFollow, Follows
  <2> QED
    BY <1>10, <2>1, <2>2, Recorded DEF TypeOK, Observers
<1>11. ASSUME NEW d \in Deliveries, Fail(d) PROVE Kept
  BY <1>9, <1>10, <1>11 DEF Fail
<1>12. ASSUME NEW d \in Deliveries, RateLimitedUntil(d) PROVE Kept
  <2> DEFINE b == breakers[manager[d]][held[d]]
  <2>1. At(d, "sending") /\ Failed(d, 2, RecordFailure(RecordFailure(b)))
    BY <1>12 DEF RateLimitedUntil
  <2>2. b \in Breaker /\ streak[manager[d]] \in Nat
    BY <1>10, <2>1
  <2>3. IsCurrent(d) => streak[manager[d]] <= b.failure_count
    BY <1>10, <2>1
  <2> HIDE DEF b
  <2>4. RecordFailure(b) \in Breaker
    BY <2>2, BreakerTypes DEF TypeOK
  <2>5. IsCurrent(d) => streak[manager[d]] <= RecordFailure(b).failure_count
    BY <1>0, <2>2, <2>3, KeepsOn
  <2> QED
    BY <1>9, <2>1, <2>4, <2>5
<1>13. CASE Tick
  <2>1. clock' = clock + 1 /\ UNCHANGED <<alive, breakers, streak, failedAt>>
    BY <1>13 DEF Tick
  <2>2. breakers[n] # <<>> => Keeps(Last(breakers[n]), streak[n], failedAt[n], clock + 1)
    BY <1>0, <1>00, <2>1, KeepsOn
  <2> QED
    BY <1>000, <2>1, <2>2 DEF Kept
<1>14. CASE UNCHANGED vars
  <2>1. /\ alive' = alive /\ breakers' = breakers /\ clock' = clock
        /\ streak' = streak /\ failedAt' = failedAt
    BY <1>14 DEF vars
  <2>2. n \in alive
    BY <2>1
  <2>3. Kept
    BY <1>02, <2>1, <2>2
  <2> QED
    BY <2>3 DEF Kept
<1>15. Kept
  BY <1>1, <1>2, <1>3, <1>4, <1>5, <1>6, <1>7, <1>8, <1>11, <1>12, <1>13,
     <1>14 DEF Next, Kept
<1> QED
  BY <1>15 DEF Kept

-----------------------------------------------------------------------------
\* An undisturbed row and the one breaker in memory keep up with the failures
\* of all managers, one after the other.
LEMMA AllStep ==
    TypeOK /\ TypeOK' /\ DeliveriesHold /\ (~disturbed => AllIsFollowed) /\ [Next]_vars
        => (~disturbed' => AllIsFollowed')
<1> SUFFICES ASSUME TypeOK, TypeOK', DeliveriesHold, ~disturbed => AllIsFollowed,
                    [Next]_vars, ~disturbed'
             PROVE  /\ \A m, n \in alive' : m = n
                    /\ \A m \in alive' : breakers'[m] # <<>> =>
                          Keeps(Last(breakers'[m]), streak'[All], failedAt'[All], clock')
                    /\ IF stored' = NoRow THEN streak'[All] = 0
                       ELSE Keeps(stored', streak'[All], failedAt'[All], clock')
  BY DEF AllIsFollowed, Follows, Keeps, Loaded, TypeOK
<1> DEFINE Alone == \A m, n \in alive' : m = n
           Kept == \A m \in alive' : breakers'[m] # <<>> =>
                      Keeps(Last(breakers'[m]), streak'[All], failedAt'[All], clock')
           RowKept == IF stored' = NoRow THEN streak'[All] = 0
                      ELSE Keeps(stored', streak'[All], failedAt'[All], clock')
<1>0. /\ streak[All] \in Nat /\ failedAt[All] \in 0..MaxClock
      /\ clock \in Nat /\ clock' \in Nat /\ failedAt'[All] \in 0..MaxClock
      /\ stored # NoRow => stored \in Breaker
      /\ All \notin Managers
  BY BoundsAssumption, NullsAssumption DEF TypeOK, Observers
<1>00. ASSUME ~disturbed
       PROVE  /\ \A m, n \in alive : m = n
              /\ \A m \in alive : breakers[m] # <<>> =>
                    /\ Keeps(Last(breakers[m]), streak[All], failedAt[All], clock)
                    /\ Last(breakers[m]) \in Breaker
              /\ stored = NoRow => streak[All] = 0
              /\ stored # NoRow => Keeps(stored, streak[All], failedAt[All], clock)
  <2>1. \A m \in alive : breakers[m] # <<>> => Last(breakers[m]) \in Breaker
    BY LastIsThere DEF Loaded, TypeOK
  <2> QED
    BY <1>00, <2>1 DEF AllIsFollowed, Follows, Keeps, Loaded
<1> HIDE DEF Alone, Kept, RowKept
<1>1. ASSUME NEW m \in Managers, Start(m) PROVE Alone /\ Kept /\ RowKept
  <2>1. ~disturbed /\ alive = {} /\ alive' = {m}
    BY <1>1 DEF Start, Disturb
  <2>2. /\ streak'[All] = streak[All]
        /\ UNCHANGED <<stored, clock, failedAt>>
        /\ breakers'[m] = <<>> \/ (breakers'[m] = <<stored>> /\ stored # NoRow)
    BY <1>0, <1>1 DEF Start, TypeOK, Observers
  <2>3. Last(<<stored>>) = stored
    BY DEF Last
  <2>4. Alone
    BY <2>1 DEF Alone
  <2>5. Kept
    BY <1>00, <2>1, <2>2, <2>3 DEF Kept
  <2>6. RowKept
    BY <1>00, <2>1, <2>2 DEF RowKept
  <2> QED
    BY <2>4, <2>5, <2>6
<1>2. ASSUME NEW m \in Managers, Stop(m) PROVE Alone /\ Kept /\ RowKept
  <2>1. /\ ~disturbed /\ alive' = alive \ {m}
        /\ UNCHANGED <<stored, clock, streak, failedAt>>
        /\ \A n \in Managers \ {m} : breakers'[n] = breakers[n]
    BY <1>2 DEF Stop, TypeOK
  <2>2. Alone
    BY <1>00, <2>1 DEF Alone
  <2>3. Kept
    BY <1>00, <2>1 DEF Kept, TypeOK
  <2>4. RowKept
    BY <1>00, <2>1 DEF RowKept
  <2> QED
    BY <2>2, <2>3, <2>4
<1>3. ASSUME NEW m \in Managers, GetCircuitBreaker(m) PROVE Alone /\ Kept /\ RowKept
  <2> DEFINE b == IF stored = NoRow THEN NewBreaker ELSE stored
  <2>1. /\ ~disturbed /\ breakers' = [breakers EXCEPT ![m] = <<b>>]
        /\ UNCHANGED <<alive, stored, clock, streak, failedAt>>
    <3>1. ~Disturb(TRUE)
      BY DEF Disturb
    <3>2. /\ breakers' = [breakers EXCEPT ![m] =
                              <<IF stored = NoRow THEN NewBreaker ELSE stored>>]
          /\ UNCHANGED disturbed
      BY <1>3, <3>1 DEF GetCircuitBreaker
    <3>3. UNCHANGED <<alive, stored, clock, streak, failedAt>>
      BY <1>3 DEF GetCircuitBreaker
    <3> QED
      BY <3>2, <3>3
  <2>2. Keeps(b, streak[All], failedAt[All], clock)
    BY <1>0, <1>00, <2>1, KeepsOn, NewIsBreaker
  <2> HIDE DEF b
  <2>3. /\ breakers'[m] = <<b>> /\ Last(<<b>>) = b
        /\ \A n \in Managers \ {m} : breakers'[n] = breakers[n]
    BY <2>1 DEF TypeOK, Last
  <2>4. Alone
    BY <1>00, <2>1 DEF Alone
  <2>5. Kept
    BY <1>00, <2>1, <2>2, <2>3 DEF Kept, TypeOK
  <2>6. RowKept
    BY <1>00, <2>1 DEF RowKept
  <2> QED
    BY <2>4, <2>5, <2>6
<1>4. ASSUME NEW m \in Managers, ResetCircuitBreaker(m) PROVE Alone /\ Kept /\ RowKept
  <2>1. /\ ~disturbed /\ stored' = NewBreaker
        /\ m \in alive
        /\ UNCHANGED <<alive, clock, failedAt>>
    BY <1>4 DEF ResetCircuitBreaker, Disturb
  <2>2. streak'[All] = 0
    BY <1>0, <1>4 DEF ResetCircuitBreaker, TypeOK, Observers
  <2>3. \A c \in Breaker : Keeps(c, streak'[All], failedAt'[All], clock')
    BY <1>0, <2>2, KeepsOn
  <2>4. breakers'[m] = Append(breakers[m], NewBreaker)
    BY <1>4 DEF ResetCircuitBreaker, TypeOK
  <2>5. Last(Append(breakers[m], NewBreaker)) = NewBreaker
    BY AppendProperties, LenProperties, NewIsBreaker DEF Last, TypeOK
  <2>6. Alone
    BY <1>00, <2>1 DEF Alone
  <2>7. Kept
    BY <1>00, <2>1, <2>3, <2>4, <2>5, NewIsBreaker DEF Kept
  <2>8. RowKept
    BY <2>1, <2>3, <2>2, NewIsBreaker DEF RowKept
  <2> QED
    BY <2>6, <2>7, <2>8
<1>5. ASSUME NEW d \in Deliveries, NEW m \in Managers, Admit(d, m)
      PROVE  Alone /\ Kept /\ RowKept
  <2>1. /\ ~disturbed
        /\ UNCHANGED <<alive, stored, clock, streak, failedAt>>
        /\ InPlace(m, Len(breakers[m]), Asked(Last(breakers[m])))
        /\ m \in alive /\ breakers[m] # <<>>
        /\ Len(breakers[m]) \in 1..Len(breakers[m])
    BY <1>5, Inquiry, LastIsThere DEF Admit, Loaded
  <2>2. /\ Last(breakers'[m]) = Asked(Last(breakers[m]))
    BY <2>1, LastInPlace
  <2>3. Keeps(Asked(Last(breakers[m])), streak[All], failedAt[All], clock)
    BY <1>0, <1>00, <2>1, KeepsOn
  <2>4. Alone
    BY <1>00, <2>1 DEF Alone
  <2>5. Kept
    BY <1>00, <2>1, <2>2, <2>3 DEF Kept
  <2>6. RowKept
    BY <1>00, <2>1 DEF RowKept
  <2> QED
    BY <2>4, <2>5, <2>6
<1>6. ASSUME UNCHANGED <<alive, breakers, stored, clock, streak, failedAt, disturbed>>
      PROVE  Alone /\ Kept /\ RowKept
  BY <1>00, <1>6 DEF Alone, Kept, RowKept
<1>7. ASSUME NEW d \in Deliveries, NEW m \in Managers, Refuse(d, m)
      PROVE  Alone /\ Kept /\ RowKept
  BY <1>6, <1>7 DEF Refuse
<1>8. ASSUME NEW d \in Deliveries, Send(d) PROVE Alone /\ Kept /\ RowKept
  BY <1>6, <1>8 DEF Send
<1>9. ASSUME NEW d \in Deliveries, At(d, "sending"), NEW b \in Breaker,
             breakers' = [breakers EXCEPT ![manager[d]][held[d]] = b],
             ~disturbed, IsCurrent(d), stored' = b, UNCHANGED alive,
             Keeps(b, streak'[All], failedAt'[All], clock')
      PROVE  Alone /\ Kept /\ RowKept
  <2>1. manager[d] \in alive
    BY <1>9, Recorded
  <2>2. Last(breakers'[manager[d]]) = b
    BY <1>9, LastRecorded
  <2>3. Alone
    BY <1>00, <1>9 DEF Alone
  <2>4. Kept
    BY <1>00, <1>9, <2>1, <2>2 DEF Kept
  <2>5. RowKept
    BY <1>9, NoRowAssumption DEF RowKept
  <2> QED
    BY <2>3, <2>4, <2>5
<1>10. ASSUME NEW d \in Deliveries, At(d, "sending"), NEW b \in Breaker,
              breakers' = [breakers EXCEPT ![manager[d]][held[d]] = b],
              Disturb(Misses(d))
       PROVE  ~disturbed /\ IsCurrent(d) /\ stored' = b
  <2>1. breakers'[manager[d]][held[d]] = b
    BY <1>10, Outcome DEF InPlace
  <2> QED
    BY <1>10, <2>1 DEF Disturb, Misses
<1>11. ASSUME NEW d \in Deliveries, Succeed(d) PROVE Alone /\ Kept /\ RowKept
  <2> DEFINE b == RecordSuccess(breakers[manager[d]][held[d]])
  <2>1. /\ At(d, "sending") /\ UNCHANGED alive
        /\ breakers' = [breakers EXCEPT ![manager[d]][held[d]] = b]
        /\ Disturb(Misses(d))
    BY <1>11 DEF Succeed
  <2>2. b \in Breaker /\ manager[d] \in Managers
    BY <2>1, Recorded, BreakerTypes DEF TypeOK
  <2>3. streak'[All] = 0
    BY <1>0, <1>11, <2>2 DEF Succeed, TypeOK, Observers
  <2> HIDE DEF b
  <2>4. Keeps(b, streak'[All], failedAt'[All], clock')
    BY <1>0, <2>2, <2>3, KeepsOn
  <2> QED
    BY <1>9, <1>10, <2>1, <2>2, <2>4
<1>12. ASSUME NEW d \in Deliveries, At(d, "sending")
       PROVE  /\ breakers[manager[d]][held[d]] \in Breaker
              /\ ~disturbed /\ IsCurrent(d)
                    => streak[All] <= breakers[manager[d]][held[d]].failure_count
  BY <1>00, <1>12, Recorded DEF Keeps, Loaded
<1>13. ASSUME NEW d \in Deliveries, At(d, "sending"), NEW k, NEW b \in Breaker,
              Failed(d, k, RecordFailure(b)),
              ~disturbed /\ IsCurrent(d) => streak[All] <= b.failure_count
       PROVE  Alone /\ Kept /\ RowKept
  <2> DEFINE c == RecordFailure(b)
  <2>1. /\ c \in Breaker /\ UNCHANGED <<alive, clock>>
        /\ breakers' = [breakers EXCEPT ![manager[d]][held[d]] = c]
        /\ Disturb(Misses(d))
    BY <1>13, BreakerTypes DEF Failed, TypeOK
  <2>2. streak'[All] = streak[All] + 1 /\ failedAt'[All] = clock
    BY <1>13, Counted
  <2>3. ~disturbed /\ IsCurrent(d) /\ stored' = c
    BY <1>10, <1>13, <2>1
  <2>4. Keeps(c, streak[All] + 1, clock, clock)
    BY <1>0, <1>13, <2>3, KeepsOn
  <2>5. Keeps(c, streak'[All], failedAt'[All], clock')
    BY <2>1, <2>2, <2>4
  <2> HIDE DEF c
  <2> QED
    BY <1>9, <1>13, <2>1, <2>3, <2>5
<1>14. ASSUME NEW d \in Deliveries, Fail(d) PROVE Alone /\ Kept /\ RowKept
  BY <1>12, <1>13, <1>14 DEF Fail
<1>15. ASSUME NEW d \in Deliveries, RateLimitedUntil(d)
       PROVE  Alone /\ Kept /\ RowKept
  <2> DEFINE b == breakers[manager[d]][held[d]]
  <2>1. At(d, "sending") /\ Failed(d, 2, RecordFailure(RecordFailure(b)))
    BY <1>15 DEF RateLimitedUntil
  <2>2. b \in Breaker /\ (~disturbed /\ IsCurrent(d) => streak[All] <= b.failure_count)
    BY <1>12, <2>1
  <2> HIDE DEF b
  <2>3. RecordFailure(b) \in Breaker
    BY <2>2, BreakerTypes DEF TypeOK
  <2>4. ~disturbed /\ IsCurrent(d) => streak[All] <= RecordFailure(b).failure_count
    BY <1>0, <2>2, KeepsOn
  <2> QED
    BY <1>13, <2>1, <2>3, <2>4
<1>16. ASSUME Tick PROVE Alone /\ Kept /\ RowKept
  <2>1. /\ clock' = clock + 1 /\ ~disturbed
        /\ UNCHANGED <<alive, breakers, stored, streak, failedAt>>
    BY <1>16 DEF Tick
  <2>2. Alone
    BY <1>00, <2>1 DEF Alone
  <2>3. Kept
    BY <1>0, <1>00, <2>1, KeepsOn DEF Kept
  <2>4. RowKept
    BY <1>0, <1>00, <2>1, KeepsOn DEF RowKept
  <2> QED
    BY <2>2, <2>3, <2>4
<1>17. ASSUME UNCHANGED vars PROVE Alone /\ Kept /\ RowKept
  BY <1>6, <1>17 DEF vars
<1>18. Alone /\ Kept /\ RowKept
  BY <1>1, <1>2, <1>3, <1>4, <1>5, <1>7, <1>8, <1>11, <1>14, <1>15, <1>16,
     <1>17 DEF Next, Alone, Kept, RowKept
<1> QED
  BY <1>18 DEF Alone, Kept, RowKept

-----------------------------------------------------------------------------
(* The results.                                                            *)

\* The inductive invariant holds in every state: of the deliveries in
\* fanout.py and the breakers they hold, of the failures these have counted,
\* and of the row _persist_circuit_breaker writes.
THEOREM Invariance == Spec => []IInv
<1>1. Init => IInv
  <2> SUFFICES ASSUME Init PROVE IInv
    OBVIOUS
  <2>1. TypeOK
    <3>1. breakers \in [Managers -> Seq(Breaker)]
      BY EmptySeq DEF Init
    <3>2. 0 \in 0..MaxClock /\ 0 \in 0..MaxIncidents
      BY BoundsAssumption
    <3>3. /\ streak \in [Observers -> Nat]
          /\ failedAt \in [Observers -> 0..MaxClock]
      BY <3>2 DEF Init
    <3>4. disturbed \in BOOLEAN
      BY DEF Init
    <3> QED
      BY <3>1, <3>2, <3>3, <3>4 DEF Init, TypeOK
  <2>2. DeliveriesHold
    BY DEF Init, DeliveriesHold
  <2>3. BreakersAreEarned
    BY DEF Init, BreakersAreEarned
  <2>4. ManagersFollow /\ AllIsFollowed
    BY DEF Init, ManagersFollow, AllIsFollowed, Observers
  <2> QED
    BY <2>1, <2>2, <2>3, <2>4 DEF IInv
<1>2. IInv /\ [Next]_vars => IInv'
  BY TypeStep, HoldStep, EarnedStep, ManagerStep, AllStep DEF IInv
<1> QED
  BY <1>1, <1>2, PTL DEF Spec

\* No breaker, in memory or in the database, is open or being tested before
\* failure_threshold deliveries have failed, whatever is replaced, reset,
\* loaded or lost on the way.
THEOREM OpenBreakersAreEarned == Spec => []OpenIsEarned
<1>1. IInv => OpenIsEarned
  <2> SUFFICES ASSUME IInv,
                      NEW b \in (UNION {ToSet(breakers[m]) : m \in Managers})
                                   \cup ({stored} \ {NoRow}),
                      b.state # "closed"
               PROVE  failures >= Threshold
    BY DEF OpenIsEarned
  <2>1. CASE b = stored /\ stored # NoRow
    BY <2>1 DEF IInv, BreakersAreEarned, Earned
  <2>2. ASSUME NEW m \in Managers, b \in ToSet(breakers[m])
        PROVE  failures >= Threshold
    <3>1. DOMAIN breakers[m] = 1..Len(breakers[m])
      BY LenProperties DEF IInv, TypeOK
    <3>2. PICK i \in 1..Len(breakers[m]) : b = breakers[m][i]
      BY <2>2, <3>1 DEF ToSet
    <3> QED
      BY <3>2 DEF IInv, BreakersAreEarned, Earned
  <2>3. CASE b \in {stored} \ {NoRow}
    BY <2>1, <2>3
  <2>4. CASE b \in UNION {ToSet(breakers[m]) : m \in Managers}
    <3>1. PICK s \in {ToSet(breakers[m]) : m \in Managers} : b \in s
      BY <2>4
    <3>2. PICK m \in Managers : s = ToSet(breakers[m])
      OBVIOUS
    <3> QED
      BY <2>2, <3>1, <3>2
  <2> QED
    BY <2>3, <2>4
<1> QED
  BY <1>1, Invariance, PTL

\* A delivery that is let through was let through by should_allow_request.
LEMMA AdmittedByBreaker ==
    ASSUME TypeOK, [Next]_vars, NEW d \in Deliveries, Admitted(d)
    PROVE  \E m \in Managers : Admit(d, m) /\ manager'[d] = m
<1>0. pc[d] # "admitted" /\ pc'[d] = "admitted"
  BY DEF Admitted, At
<1>1. ASSUME NEW m \in Managers,
             Start(m) \/ GetCircuitBreaker(m) \/ ResetCircuitBreaker(m)
      PROVE  FALSE
  BY <1>0, <1>1 DEF Start, GetCircuitBreaker, ResetCircuitBreaker
<1>2. ASSUME NEW m \in Managers, Stop(m) PROVE FALSE
  BY <1>0, <1>2 DEF Stop
<1>3. ASSUME NEW e \in Deliveries, NEW m \in Managers, Admit(e, m)
      PROVE  Admit(d, m) /\ manager'[d] = m
  BY <1>0, <1>3 DEF Admit, Goto, TypeOK
<1>4. ASSUME NEW e \in Deliveries, NEW m \in Managers, Refuse(e, m) PROVE FALSE
  BY <1>0, <1>4 DEF Refuse, Return, Goto, TypeOK
<1>5. ASSUME NEW e \in Deliveries, Send(e) PROVE FALSE
  BY <1>0, <1>5 DEF Send, Goto, TypeOK
<1>6. ASSUME NEW e \in Deliveries, Return(e) PROVE FALSE
  BY <1>0, <1>6 DEF Return, Goto, TypeOK
<1>7. ASSUME NEW e \in Deliveries, Succeed(e) \/ Fail(e) \/ RateLimitedUntil(e)
      PROVE  FALSE
  BY <1>6, <1>7 DEF Succeed, Fail, RateLimitedUntil, Failed
<1>8. ~Tick /\ ~UNCHANGED vars
  BY <1>0 DEF Tick, vars
<1> QED
  BY <1>1, <1>2, <1>3, <1>4, <1>5, <1>7, <1>8 DEF Next

\* A breaker that follows an observer's failures refuses while they are
\* Threshold in a row and the last of them no longer ago than Cooldown.
LEMMA ShutIsRefused ==
    ASSUME TypeOK, NEW b \in Breaker, NEW o \in Observers, Follows(b, o), Allows(b)
    PROVE  ~Shut(o)
<1>1. /\ clock \in Nat /\ failedAt[o] \in Nat /\ b.last_failure_time \in Nat
      /\ streak[o] \in Nat
  BY BoundsAssumption DEF TypeOK, Breaker
<1> QED
  BY <1>1, CooldownAssumption, ThresholdAssumption
  DEF Follows, Allows, CooledDown, Shut

\* After failure_threshold failures in a row of its own a manager sends the
\* peer nothing for cooldown_seconds.
THEOREM ManagersLeaveThePeerAlone == Spec => PeerIsLeftAlone
<1>1. IInv /\ [Next]_vars => \A d \in Deliveries : Admitted(d) => ~Shut(manager[d]')
  <2> SUFFICES ASSUME IInv, [Next]_vars, NEW d \in Deliveries, Admitted(d)
               PROVE  ~Shut(manager'[d])
    OBVIOUS
  <2>1. PICK m \in Managers : Admit(d, m) /\ manager'[d] = m
    BY AdmittedByBreaker DEF IInv
  <2>2. /\ Last(breakers[m]) \in Breaker /\ Follows(Last(breakers[m]), m)
        /\ Allows(Last(breakers[m]))
    BY <2>1, LastIsThere DEF IInv, ManagersFollow, Admit
  <2> QED
    BY <2>1, <2>2, ShutIsRefused DEF IInv, Observers
<1> QED
  BY <1>1, Invariance, PTL DEF Spec, PeerIsLeftAlone

\* As long as one manager lives at a time and the row could be read and
\* written, the same holds of the failures in a row of all of them: a restart
\* does not make the peer's breaker forget.
THEOREM RestartsDoNotForget == Spec => StaysShutOverRestarts
<1>1. IInv /\ [Next]_vars
         => \A d \in Deliveries : Admitted(d) /\ ~disturbed => ~Shut(All)
  <2> SUFFICES ASSUME IInv, [Next]_vars, NEW d \in Deliveries, Admitted(d), ~disturbed
               PROVE  ~Shut(All)
    OBVIOUS
  <2>1. PICK m \in Managers : Admit(d, m) /\ manager'[d] = m
    BY AdmittedByBreaker DEF IInv
  <2>2. /\ Last(breakers[m]) \in Breaker /\ Follows(Last(breakers[m]), All)
        /\ Allows(Last(breakers[m]))
    BY <2>1, LastIsThere DEF IInv, AllIsFollowed, Admit
  <2> QED
    BY <2>2, ShutIsRefused DEF IInv, Observers
<1> QED
  BY <1>1, Invariance, PTL DEF Spec, StaysShutOverRestarts

-----------------------------------------------------------------------------
(* The publisher, the network and sync_subscription.  Where diffs suffice  *)
(* they are numbered one by one and kept from the first that was not       *)
(* cleared; a sync fetches all of them, and clears and counts no more than *)
(* it has fetched or, after a baseline, read the number of.  Callbacks may *)
(* only move the own number over what is known or queued with its data.    *)

\* The numbers of the publisher, and what is bounded by them: no number is
\* under way, queued or cleared before it was given out.
SequenceOK ==
    /\ written = IF step = "increase" THEN sequence + 1 ELSE sequence
    /\ step \in {"create", "send"} => sequence > 0
    /\ callbacks \cup acks \cup diffs \cup Queued \subseteq 1..sequence
    /\ IsFiniteSet(pending)

\* What a sync has fetched is bounded by the numbers of the publisher.
FetchedOK(s) ==
    /\ finalSeq[s] <= sequence /\ maxSequence[s] <= sequence
    /\ todo[s] \subseteq 1..sequence
    /\ syncStep[s] = "process" =>
         maxSequence[s] \in todo[s] /\ \A d \in todo[s] : d <= maxSequence[s]

\* The types, and the numbers in their bounds.
SyncBase == SyncTypeOK /\ SequenceOK /\ \A s \in Syncs : FetchedOK(s)

\* One request at most syncs at a time: the method takes no lock, and two
\* syncs that overlap may count what neither has.
OneSync == \A s, t \in Syncs : s = t

\* Every queued entry has its data, and the first of its number is there.
DataIsQueued ==
    /\ \A e \in pending : e.data
    /\ \A e \in pending : \E f \in pending : f.seq = e.seq /\ f.copy = 1

\* Nothing waits to be fetched or acknowledged one by one.
QueueHasData == acks = {} /\ DataIsQueued

\* The diffs that are kept are the latest ones, without a gap.
DiffsAreConsecutive ==
    \A d \in diffs : \A k \in d..sequence :
        k \in diffs \/ (k = sequence /\ step = "create")

\* What a sync is going to count is known when it counts it: after a
\* baseline all of the answer, after its diffs all it has fetched.
SyncKnows(s) ==
    /\ syncStep[s] \in {"set_seq", "dup_seq", "dup_clear"} => 1..finalSeq[s]
         \subseteq known
    /\ syncStep[s] \in {"clear", "modify"} => 1..maxSequence[s] \subseteq known
    /\ syncStep[s] = "process" =>
         /\ \A d \in todo[s] : d..maxSequence[s] \subseteq todo[s]
         /\ processed[s] => \E d \in todo[s] : d <= lastSeq + 1
    /\ syncStep[s] \in {"get_sequence", "get_diffs"} => ~processed[s]

\* The strengthening where diffs suffice.
Lossless ==
    /\ 1..lastSeq \subseteq known
    /\ ClearedIsKnown
    /\ QueueHasData
    /\ DiffsAreConsecutive
    /\ \A s \in Syncs : SyncKnows(s)

\* The inductive invariant.
SyncInv == SyncBase /\ (DiffsSuffice => Lossless)

-----------------------------------------------------------------------------

\* A set of natural numbers has a least member,
LEMMA HasLeast ==
    ASSUME NEW m \in Nat, NEW S \in SUBSET (0..m), S # {}
    PROVE  \E x \in S : \A y \in S : x <= y
<1> DEFINE below(a) == {b \in 0..m : b < a}
<1> DEFINE belows == {below(a) : a \in S}
<1>1. IsFiniteSet(0..m)
  BY FS_Interval
<1>2. IsWellFoundedOn(StrictSubsetOrdering(0..m), FiniteSubsetsOf(0..m))
  BY <1>1, FS_StrictSubsetOrderingWellFounded
<1>3. belows \subseteq FiniteSubsetsOf(0..m) /\ belows # {}
  <2>1. FiniteSubsetsOf(0..m) = SUBSET (0..m)
    BY <1>1, FS_FiniteSubsetsOfFinite
  <2>2. \A a : below(a) \subseteq 0..m
    OBVIOUS
  <2>3. \A a \in S : below(a) \in FiniteSubsetsOf(0..m)
    BY <2>1, <2>2
  <2> HIDE DEF below
  <2> QED
    BY <2>3
<1>4. \E x \in belows :
         \A y \in belows : <<y, x>> \notin StrictSubsetOrdering(0..m)
  <2> HIDE DEF belows
  <2> QED
    BY <1>2, <1>3, WFMin
<1>5. PICK a \in S :
         \A y \in belows : <<y, below(a)>> \notin StrictSubsetOrdering(0..m)
  BY <1>4
<1>6. ASSUME NEW b \in S
      PROVE  a <= b
  <2>1. SUFFICES ASSUME b < a
                 PROVE  FALSE
    OBVIOUS
  <2>2. below(b) \subseteq below(a) /\ b \in below(a) /\ b \notin below(b)
    BY <2>1
  <2>3. <<below(b), below(a)>> \in StrictSubsetOrdering(0..m)
    BY <2>2 DEF StrictSubsetOrdering
  <2> QED
    BY <1>5, <2>3
<1> HIDE DEF below, belows
<1> QED
  BY <1>6

\* and a bounded one a greatest.
LEMMA HasGreatest ==
    ASSUME NEW m \in Nat, NEW S \in SUBSET (0..m), S # {}
    PROVE  \E x \in S : \A y \in S : y <= x
<1> DEFINE T == {m - y : y \in S}
<1>1. T \in SUBSET (0..m) /\ T # {}
  <2>1. \A y \in S : m - y \in 0..m
    OBVIOUS
  <2> QED
    BY <2>1
<1>2. PICK x \in T : \A y \in T : x <= y
  <2> HIDE DEF T
  <2> QED
    BY <1>1, HasLeast
<1>3. PICK s \in S : x = m - s
  BY <1>2
<1>4. ASSUME NEW y \in S
      PROVE  y <= s
  <2>1. m - y \in T
    OBVIOUS
  <2>2. x <= m - y
    BY <1>2, <2>1
  <2> QED
    BY <1>3, <2>2
<1> HIDE DEF T
<1> QED
  BY <1>4

\* The constants are numbers.
LEMMA SyncNumbers ==
    /\ MaxSeq \in Nat /\ MaxResyncs \in Nat /\ MaxPending \in Nat
    /\ MaxFaults \in Nat
  BY NumbersAssumption

\* The last number an in-order callback makes consecutive.
Top(n) == CHOOSE m \in Batch(n) : \A k \in Batch(n) : k <= m

\* The consecutive numbers are an interval, and all but the first are queued.
LEMMA BatchHasTop ==
    ASSUME NEW n \in Seqno
    PROVE  /\ n \in Batch(n)
           /\ Top(n) \in Batch(n)
           /\ \A k \in Batch(n) : k <= Top(n)
           /\ n..Top(n) \subseteq Batch(n)
           /\ Batch(n) \subseteq n..MaxSeq
           /\ n + 1..Top(n) \subseteq Queued
<1>1. Batch(n) \subseteq n..MaxSeq
  BY DEF Batch
<1>2. n \in Batch(n)
  BY SyncNumbers DEF Batch, Seqno
<1>3. Batch(n) \in SUBSET (0..MaxSeq) /\ Batch(n) # {}
  BY <1>1, <1>2, SyncNumbers DEF Seqno
<1>4. \E m \in Batch(n) : \A k \in Batch(n) : k <= m
  BY <1>3, HasGreatest, SyncNumbers
<1>5. Top(n) \in Batch(n) /\ \A k \in Batch(n) : k <= Top(n)
  BY <1>4 DEF Top
<1>6. n + 1..Top(n) \subseteq Queued
  BY <1>5 DEF Batch
<1>7. n..Top(n) \subseteq Batch(n)
  BY <1>1, <1>5, <1>6, SyncNumbers DEF Batch, Seqno
<1> QED
  BY <1>1, <1>2, <1>5, <1>6, <1>7

\* What a callback does but for the gap that got too old,
Keep(n, hasData) ==
    \/ Duplicate(n) \/ Queue(n, hasData) \/ Reject(n)
    \/ ProcessInOrder(n, hasData)
\* and with it.
Receive(n, hasData) == Keep(n, hasData) \/ GapTimeout(n)

\* The types and bounds of the subscriber's database.
ReceiverOK ==
    /\ lastSeq \in 0..sequence
    /\ pending \in SUBSET Entries /\ Cardinality(pending) <= MaxPending
    /\ IsFiniteSet(pending)
    /\ Queued \subseteq 1..sequence
    /\ known \in SUBSET (1..written)

\* The entry a callback is queued as.
LEMMA EntryOK ==
    ASSUME NEW n \in Seqno, NEW hasData \in BOOLEAN, SyncTypeOK,
       IsFiniteSet(pending),
           Cardinality(pending) < MaxPending
    PROVE  /\ Entry(n, hasData) \in Entries
           /\ n \notin Queued => Entry(n, hasData).copy = 1
<1> DEFINE same == {e \in pending : e.seq = n}
<1>1. IsFiniteSet(same) /\ Cardinality(same) <= Cardinality(pending)
  BY FS_Subset
<1>2. Cardinality(same) \in Nat /\ Cardinality(pending) \in Nat
  BY <1>1, FS_CardinalityType
<1>3. 1 + Cardinality(same) \in 1..MaxPending
  BY <1>1, <1>2, SyncNumbers
<1>4. Entry(n, hasData) = [seq |-> n, data |-> hasData,
                           copy |-> 1 + Cardinality(same)]
  BY DEF Entry
<1>5. ASSUME n \notin Queued
      PROVE  Cardinality(same) = 0
  <2>1. same = {}
    BY <1>5 DEF Queued
  <2> QED
    BY <2>1, FS_EmptySet
<1> HIDE DEF same
<1>6. Entry(n, hasData) \in Entries
  BY <1>3, <1>4 DEF Entries
<1> QED
  BY <1>4, <1>5, <1>6

\* A callback keeps the types, and what is known.
LEMMA ReceiveTypes ==
    ASSUME NEW n \in Seqno, NEW hasData \in BOOLEAN, SyncTypeOK, SequenceOK,
           n <= sequence, Receive(n, hasData), UNCHANGED <<written, sequence>>
    PROVE  ReceiverOK' /\ known \subseteq known'
<1>0. /\ lastSeq \in 0..sequence /\ sequence \in 0..written
      /\ written \in 0..MaxSeq /\ pending \in SUBSET Entries
      /\ Cardinality(pending) <= MaxPending /\ IsFiniteSet(pending)
      /\ Queued \subseteq 1..sequence /\ known \in SUBSET (1..written)
  BY DEF SyncTypeOK, SequenceOK
<1>1. CASE UNCHANGED receiverVars
  BY <1>0, <1>1 DEF ReceiverOK, receiverVars, Queued
<1>2. CASE Queue(n, hasData)
  <2>1. Entry(n, hasData) \in Entries /\ Entry(n, hasData).seq = n
    BY <1>0, <1>2, EntryOK DEF Queue, Entry
  <2>2. /\ IsFiniteSet(pending')
        /\ Cardinality(pending') \in {Cardinality(pending),
             Cardinality(pending) + 1}
    BY <1>0, <1>2, FS_AddElement DEF Queue
  <2>3. Cardinality(pending) \in Nat
    BY <1>0, FS_CardinalityType
  <2>4. Cardinality(pending') <= MaxPending
    BY <1>2, <2>2, <2>3, SyncNumbers DEF Queue
  <2>5. Queued' \subseteq 1..sequence
    BY <1>0, <1>2, <2>1 DEF Queue, Queued, Seqno
  <2> QED
    BY <1>0, <1>2, <2>1, <2>2, <2>4, <2>5 DEF ReceiverOK, Queue
<1>3. CASE ProcessInOrder(n, hasData)
  <2>1. pending' \subseteq pending
    BY <1>3 DEF ProcessInOrder
  <2>2. IsFiniteSet(pending') /\ Cardinality(pending') <= Cardinality(pending)
    BY <1>0, <2>1, FS_Subset
  <2>3. Cardinality(pending') \in Nat /\ Cardinality(pending) \in Nat
    BY <1>0, <2>2, FS_CardinalityType
  <2>4. Cardinality(pending') <= MaxPending
    BY <1>0, <2>2, <2>3, SyncNumbers
  <2>5. lastSeq' = Top(n)
    BY <1>3 DEF ProcessInOrder, Top
  <2>6. lastSeq' \in 0..sequence
    <3>1. Top(n) \in n..MaxSeq /\ n + 1..Top(n) \subseteq 1..sequence
      BY <1>0, BatchHasTop
    <3>2. CASE Top(n) = n
      BY <1>0, <2>5, <3>2 DEF Seqno
    <3>3. CASE Top(n) > n
      <4>1. Top(n) \in n + 1..Top(n)
        BY <3>1, <3>3, SyncNumbers DEF Seqno
      <4> QED
        BY <2>5, <3>1, <4>1
    <3> QED
      BY <3>1, <3>2, <3>3, SyncNumbers DEF Seqno
  <2>7. Queued' \subseteq Queued
    BY <2>1 DEF Queued
  <2>8. WithData(n) \subseteq Queued
    BY DEF WithData, Queued
  <2>9. known' \subseteq 1..written /\ known \subseteq known'
    <3>1. n \in 1..written
      BY <1>0 DEF Seqno
    <3>2. WithData(n) \subseteq 1..written
      <4>1. 1..sequence \subseteq 1..written
        BY <1>0
      <4> QED
        BY <1>0, <2>8, <4>1
    <3> QED
      BY <1>0, <1>3, <3>1, <3>2 DEF ProcessInOrder
  <2> QED
    BY <1>0, <1>3, <2>1, <2>2, <2>4, <2>6, <2>7, <2>9 DEF ReceiverOK
<1>4. CASE GapTimeout(n)
  BY <1>0, <1>4, FS_EmptySet, SyncNumbers DEF GapTimeout, ReceiverOK, Queued
<1> QED
  BY <1>1, <1>2, <1>3, <1>4 DEF Receive, Keep, Duplicate, Reject

\* But for the gap that got too old the own number never falls.
LEMMA KeepGrows ==
    ASSUME NEW n \in Seqno, NEW hasData \in BOOLEAN, SyncTypeOK,
           Keep(n, hasData)
    PROVE  /\ lastSeq <= lastSeq'
           /\ Duplicate(n) \/ ProcessInOrder(n, hasData) => n <= lastSeq'
<1>0. lastSeq \in Nat /\ n \in Nat
  BY DEF SyncTypeOK, Seqno
<1>1. CASE Duplicate(n)
  BY <1>0, <1>1 DEF Duplicate, receiverVars
<1>2. CASE Reject(n)
  <2>1. lastSeq' = lastSeq /\ n > lastSeq + 1
    BY <1>2 DEF Reject, receiverVars
  <2>2. ~Duplicate(n) /\ ~ProcessInOrder(n, hasData)
    <3>1. ~(n <= lastSeq) /\ n # lastSeq + 1
      BY <1>0, <2>1
    <3> QED
      BY <3>1 DEF Duplicate, ProcessInOrder
  <2> QED
    BY <1>0, <2>1, <2>2
<1>3. CASE Queue(n, hasData)
  <2>1. lastSeq' = lastSeq /\ n > lastSeq + 1
    BY <1>3 DEF Queue
  <2>2. ~Duplicate(n) /\ ~ProcessInOrder(n, hasData)
    <3>1. ~(n <= lastSeq) /\ n # lastSeq + 1
      BY <1>0, <2>1
    <3> QED
      BY <3>1 DEF Duplicate, ProcessInOrder
  <2>3. lastSeq <= lastSeq'
    BY <1>0, <2>1
  <2> QED
    BY <2>2, <2>3
<1>4. CASE ProcessInOrder(n, hasData)
  <2>1. lastSeq' = Top(n) /\ n = lastSeq + 1
    BY <1>4 DEF ProcessInOrder, Top
  <2>2. n <= Top(n) /\ Top(n) \in Int
    BY BatchHasTop DEF Seqno
  <2>3. lastSeq <= lastSeq' /\ n <= lastSeq'
    BY <1>0, <2>1, <2>2
  <2> QED
    BY <2>3
<1> QED
  BY <1>1, <1>2, <1>3, <1>4 DEF Keep

\* A callback with its data leaves nothing out.
LEMMA ReceiveData ==
    ASSUME NEW n \in Seqno, SyncTypeOK, SequenceOK, DataIsQueued,
           1..lastSeq \subseteq known, n <= sequence, Receive(n, TRUE)
    PROVE  DataIsQueued' /\ 1..lastSeq' \subseteq known'
<1>0. /\ lastSeq \in Nat /\ pending \in SUBSET Entries /\ IsFiniteSet(pending)
  BY DEF SyncTypeOK, SequenceOK
<1>1. CASE Duplicate(n) \/ Reject(n)
  BY <1>1 DEF receiverVars, DataIsQueued, Duplicate, Reject
<1>2. CASE Queue(n, TRUE)
  <2> DEFINE new == Entry(n, TRUE)
  <2>1. new.seq = n /\ new.data = TRUE /\ (n \notin Queued => new.copy = 1)
    BY <1>0, <1>2, EntryOK DEF Queue, Entry
  <2>2. pending' = pending \cup {new} /\ UNCHANGED <<lastSeq, known>>
    BY <1>2 DEF Queue
  <2> HIDE DEF new
  <2>3. \A e \in pending' : e.data
    BY <2>1, <2>2 DEF DataIsQueued
  <2>4. ASSUME NEW e \in pending'
        PROVE  \E f \in pending' : f.seq = e.seq /\ f.copy = 1
    <3>1. CASE e \in pending
      BY <2>2, <3>1 DEF DataIsQueued
    <3>2. CASE e = new /\ n \notin Queued
      BY <2>1, <2>2, <3>2
    <3>3. CASE e = new /\ n \in Queued
      <4>1. PICK f \in pending : f.seq = n
        BY <3>3 DEF Queued
      <4> QED
        BY <2>1, <2>2, <3>3, <4>1 DEF DataIsQueued
    <3> QED
      BY <2>2, <3>1, <3>2, <3>3
  <2>5. DataIsQueued'
    BY <2>3, <2>4 DEF DataIsQueued
  <2> QED
    BY <2>2, <2>5
<1>3. CASE ProcessInOrder(n, TRUE)
  <2>1. /\ lastSeq' = Top(n) /\ n = lastSeq + 1
        /\ known' = known \cup {n} \cup WithData(n)
        /\ pending' = {e \in pending : e.seq \notin Batch(n)}
    BY <1>3 DEF ProcessInOrder, Top
  <2>2. DataIsQueued'
    BY <2>1 DEF DataIsQueued
  <2>3. ASSUME NEW m \in 1..Top(n)
        PROVE  m \in known'
    <3>1. m \in Int /\ m <= Top(n) /\ Top(n) \in Int /\ n \in Int
      BY <2>3, BatchHasTop DEF Seqno
    <3>2. CASE m <= lastSeq
      BY <1>0, <2>1, <2>3, <3>2
    <3>3. CASE m = n
      BY <2>1, <3>3
    <3>4. CASE m > n
      <4>1. m \in n + 1..Top(n) /\ m \in n..Top(n)
        BY <3>1, <3>4
      <4>2. m \in Queued /\ m \in Batch(n)
        BY <4>1, BatchHasTop
      <4>3. PICK e \in pending : e.seq = m
        BY <4>2 DEF Queued
      <4>4. PICK f \in pending : f.seq = m /\ f.copy = 1 /\ f.data
        BY <4>3 DEF DataIsQueued
      <4> QED
        BY <2>1, <4>2, <4>4 DEF WithData
    <3> QED
      BY <1>0, <2>1, <3>1, <3>2, <3>3, <3>4
  <2>4. 1..lastSeq' \subseteq known'
    BY <2>1, <2>3
  <2> QED
    BY <2>2, <2>4
<1>4. CASE GapTimeout(n)
  BY <1>0, <1>4 DEF GapTimeout, DataIsQueued
<1> QED
  BY <1>1, <1>2, <1>3, <1>4 DEF Receive, Keep

\* The diff a sync processes next.
NextOf(s) == CHOOSE m \in todo[s] : \A d \in todo[s] : m <= d

\* It is the least that is left.
LEMMA NextIsLeast ==
    ASSUME SyncTypeOK, NEW s \in Syncs, FetchedOK(s), SyncAt(s, "process"),
           sequence <= MaxSeq
    PROVE  /\ NextOf(s) \in todo[s] /\ \A d \in todo[s] : NextOf(s) <= d
           /\ NextOf(s) \in Seqno /\ NextOf(s) <= sequence
<1>1. todo[s] # {} /\ todo[s] \in SUBSET (0..MaxSeq)
  BY DEF FetchedOK, SyncAt, SyncTypeOK, Seqno
<1>2. \E x \in todo[s] : \A y \in todo[s] : x <= y
  BY <1>1, HasLeast, SyncNumbers
<1>3. NextOf(s) \in todo[s] /\ \A d \in todo[s] : NextOf(s) <= d
  BY <1>2 DEF NextOf
<1> QED
  BY <1>3 DEF FetchedOK, SyncTypeOK, Seqno

\* ProcessDiff in terms of it.
LEMMA ProcessDiffReceives ==
    ASSUME NEW s \in Syncs, ProcessDiff(s)
    PROVE  /\ SyncAt(s, "process")
           /\ todo' = [todo EXCEPT ![s] = @ \ {NextOf(s)}]
           /\ \/ /\ \/ Duplicate(NextOf(s)) \/ Queue(NextOf(s), TRUE)
                    \/ Reject(NextOf(s)) \/ GapTimeout(NextOf(s))
                 /\ processed' = [processed EXCEPT ![s] = @ \/ FALSE]
              \/ /\ ProcessInOrder(NextOf(s), TRUE)
                 /\ processed' = [processed EXCEPT ![s] = @ \/ TRUE]
           /\ SyncGoto(s, IF todo[s] \ {NextOf(s)} # {} THEN "process"
                      ELSE IF processed'[s] THEN "clear" ELSE "dup_baseline")
           /\ UNCHANGED <<publisherVars, network, finalSeq, maxSequence,
                obsVars>>
  BY DEF ProcessDiff, NextOf

\* A fetched diff is received with its data.
LEMMA FetchedIsReceived ==
    ASSUME NEW s \in Syncs, ProcessDiff(s)
    PROVE  Receive(NextOf(s), TRUE)
  BY ProcessDiffReceives DEF Receive, Keep

\* ReceiveDiff in terms of Keep and Receive.
LEMMA ReceiveDiffReceives ==
    ASSUME NEW n \in Seqno, ReceiveDiff(n)
    PROVE  /\ n \in callbacks /\ kind[n] = "diff"
           /\ callbacks' = callbacks \ {n}
           /\ \E hasData \in BOOLEAN :
                /\ FetchDiff(n, hasData)
                /\ \/ Keep(n, hasData) /\ UNCHANGED syncVars
                   \/ GapTimeout(n) /\ \E s \in Syncs : StartSync(s)
           /\ acks' = IF Low THEN acks' ELSE acks
           /\ acks' \subseteq acks \cup {n}
           /\ UNCHANGED <<subscriptionVars, written, sequence, step>>
  BY DEF ReceiveDiff, Keep

\* The types of the publisher and the network,
PublisherTypes ==
    /\ kind \in [Seqno -> {"diff", "resync"}]
    /\ granularity \in Granularities
    /\ written \in 0..MaxSeq
    /\ sequence \in 0..written
    /\ step \in {"idle", "increase", "create", "send"}
    /\ diffs \in SUBSET Seqno
    /\ callbacks \in SUBSET Seqno
    /\ acks \in SUBSET Seqno
    /\ faults \in 0..MaxFaults
    /\ passedOver \in BOOLEAN

\* and of the syncs.
SyncTypes ==
    /\ syncStep \in [Syncs -> {"idle"} \cup SyncSteps]
    /\ finalSeq \in [Syncs -> 0..MaxSeq]
    /\ todo \in [Syncs -> SUBSET Seqno]
    /\ processed \in [Syncs -> BOOLEAN]
    /\ maxSequence \in [Syncs -> 0..MaxSeq]

\* The publisher and the network keep their types.
LEMMA NextPublisherTypes ==
    ASSUME SyncBase, SyncNext
    PROVE  PublisherTypes'
<1>0. SyncTypeOK /\ SequenceOK /\ \A s \in Syncs : FetchedOK(s)
  BY DEF SyncBase
<1>1. ASSUME WriteChange
      PROVE  PublisherTypes'
  BY <1>0, <1>1, SyncNumbers DEF WriteChange, publisherVars,
     subscriptionVars, network, receiverVars, syncVars, obsVars,
     PublisherTypes, SyncTypeOK, SequenceOK, Seqno
<1>2. ASSUME IncreaseSeq
      PROVE  PublisherTypes'
  BY <1>0, <1>2, SyncNumbers DEF IncreaseSeq, publisherVars,
     subscriptionVars, network, receiverVars, syncVars, obsVars,
     PublisherTypes, SyncTypeOK, SequenceOK, Seqno
<1>3. ASSUME CreateDiff
      PROVE  PublisherTypes'
  BY <1>0, <1>3, SyncNumbers DEF CreateDiff, publisherVars,
     subscriptionVars, network, receiverVars, syncVars, obsVars,
     PublisherTypes, SyncTypeOK, SequenceOK, Seqno
<1>4. ASSUME SendCallback
      PROVE  PublisherTypes'
  BY <1>0, <1>4, SyncNumbers DEF SendCallback, publisherVars,
     subscriptionVars, network, receiverVars, syncVars, obsVars,
     PublisherTypes, SyncTypeOK, SequenceOK, Seqno
<1>5. ASSUME NEW n \in Seqno, LoseCallback(n)
      PROVE  PublisherTypes'
  BY <1>0, <1>5, SyncNumbers DEF LoseCallback, publisherVars,
     subscriptionVars, network, receiverVars, syncVars, obsVars,
     PublisherTypes, SyncTypeOK, SequenceOK, Seqno
<1>6. ASSUME NEW n \in Seqno, ReceiveDiff(n)
      PROVE  PublisherTypes'
  <2>1. PICK hasData \in BOOLEAN : FetchDiff(n, hasData) /\ Receive(n, hasData)
    BY <1>6, ReceiveDiffReceives DEF Receive
  <2>2. /\ n \in callbacks /\ n <= sequence
        /\ callbacks' = callbacks \ {n} /\ acks' \subseteq acks \cup {n}
        /\ UNCHANGED <<kind, granularity, written, sequence, step>>
    BY <1>0, <1>6, ReceiveDiffReceives DEF subscriptionVars, SequenceOK, Seqno
  <2>3. /\ diffs' \subseteq diffs /\ faults' \in 0..MaxFaults
        /\ UNCHANGED passedOver
    BY <1>0, <2>1, SyncNumbers DEF FetchDiff, Fault, obsVars, SyncTypeOK
  <2> QED
    BY <1>0, <2>2, <2>3 DEF PublisherTypes, SyncTypeOK, Seqno
<1>7. ASSUME NEW n \in Seqno, ReceiveResync(n)
      PROVE  PublisherTypes'
  <2>1. passedOver' \in BOOLEAN
    BY <1>0, <1>7 DEF ReceiveResync, FetchBaseline, BaselineArrives,
       BaselineFails, obsVars, SyncTypeOK
  <2>2. faults' \in 0..MaxFaults
    BY <1>0, <1>7, SyncNumbers DEF ReceiveResync, FetchBaseline,
       BaselineArrives, BaselineFails, obsVars, SyncTypeOK
  <2> QED
    BY <1>0, <1>7, <2>1, <2>2 DEF ReceiveResync, publisherVars,
       subscriptionVars, network, PublisherTypes, SyncTypeOK
<1>8. ASSUME NEW n \in Seqno, DeliverAck(n)
      PROVE  PublisherTypes'
  BY <1>0, <1>8, SyncNumbers DEF DeliverAck, PutSequence, Fault,
     publisherVars, subscriptionVars, network, receiverVars, syncVars, obsVars,
     PublisherTypes, SyncTypeOK, SequenceOK, Seqno
<1>9. ASSUME NEW s \in Syncs, Sync(s)
      PROVE  PublisherTypes'
  BY <1>0, <1>9, SyncNumbers DEF Sync, StartSync, publisherVars,
     subscriptionVars, network, receiverVars, syncVars, obsVars,
     PublisherTypes, SyncTypeOK, SequenceOK, Seqno
<1>10. ASSUME NEW s \in Syncs, GetSequence(s)
      PROVE  PublisherTypes'
  BY <1>0, <1>10, SyncNumbers DEF GetSequence, SyncAt, SyncGoto,
     publisherVars, subscriptionVars, network, receiverVars, syncVars, obsVars,
     PublisherTypes, SyncTypeOK, SequenceOK, Seqno
<1>11. ASSUME NEW s \in Syncs, GetDiffs(s)
      PROVE  PublisherTypes'
  BY <1>0, <1>11, SyncNumbers DEF GetDiffs, SyncAt, SyncGoto, publisherVars,
     subscriptionVars, network, receiverVars, syncVars, obsVars,
     PublisherTypes, SyncTypeOK, SequenceOK, Seqno
<1>12. ASSUME NEW s \in Syncs, GetFails(s)
      PROVE  PublisherTypes'
  BY <1>0, <1>12, SyncNumbers DEF GetFails, SyncAt, SyncGoto, Fault,
     publisherVars, subscriptionVars, network, receiverVars, syncVars, obsVars,
     PublisherTypes, SyncTypeOK, SequenceOK, Seqno
<1>13. ASSUME NEW s \in Syncs, Baseline(s)
      PROVE  PublisherTypes'
  <2>1. passedOver' \in BOOLEAN
    BY <1>0, <1>13 DEF Baseline, FetchBaseline, BaselineArrives,
       BaselineFails, obsVars, SyncTypeOK
  <2>2. faults' \in 0..MaxFaults
    BY <1>0, <1>13, SyncNumbers DEF Baseline, FetchBaseline,
       BaselineArrives, BaselineFails, obsVars, SyncTypeOK
  <2> QED
    BY <1>0, <1>13, <2>1, <2>2 DEF Baseline, publisherVars,
       subscriptionVars, network, PublisherTypes, SyncTypeOK
<1>14. ASSUME NEW s \in Syncs, SetSeq(s)
      PROVE  PublisherTypes'
  BY <1>0, <1>14, SyncNumbers DEF SetSeq, SyncAt, SyncGoto, publisherVars,
     subscriptionVars, network, receiverVars, syncVars, obsVars,
     PublisherTypes, SyncTypeOK, SequenceOK, Seqno
<1>15. ASSUME NEW s \in Syncs, ProcessDiff(s)
      PROVE  PublisherTypes'
  BY <1>0, <1>15, SyncNumbers DEF ProcessDiff, publisherVars,
     subscriptionVars, network, receiverVars, syncVars, obsVars,
     PublisherTypes, SyncTypeOK, SequenceOK, Seqno
<1>16. ASSUME NEW s \in Syncs, DupBaseline(s)
      PROVE  PublisherTypes'
  <2>1. passedOver' \in BOOLEAN
    BY <1>0, <1>16 DEF DupBaseline, BaselineArrives, BaselineFails, obsVars,
       SyncTypeOK
  <2>2. faults' \in 0..MaxFaults
    BY <1>0, <1>16, SyncNumbers DEF DupBaseline, BaselineArrives,
       BaselineFails, obsVars, SyncTypeOK
  <2> QED
    BY <1>0, <1>16, <2>1, <2>2 DEF DupBaseline, publisherVars,
       subscriptionVars, network, PublisherTypes, SyncTypeOK
<1>17. ASSUME NEW s \in Syncs, DupSeq(s)
      PROVE  PublisherTypes'
  BY <1>0, <1>17, SyncNumbers DEF DupSeq, SyncAt, SyncGoto, publisherVars,
     subscriptionVars, network, receiverVars, syncVars, obsVars,
     PublisherTypes, SyncTypeOK, SequenceOK, Seqno
<1>18. ASSUME NEW s \in Syncs, DupClear(s)
      PROVE  PublisherTypes'
  BY <1>0, <1>18, SyncNumbers DEF DupClear, SyncAt, SyncGoto, PutSequence,
     Fault, publisherVars, subscriptionVars, network, receiverVars, syncVars,
     obsVars, PublisherTypes, SyncTypeOK, SequenceOK, Seqno
<1>19. ASSUME NEW s \in Syncs, Clear(s)
      PROVE  PublisherTypes'
  BY <1>0, <1>19, SyncNumbers DEF Clear, SyncAt, SyncGoto, PutSequence,
     Fault, publisherVars, subscriptionVars, network, receiverVars, syncVars,
     obsVars, PublisherTypes, SyncTypeOK, SequenceOK, Seqno
<1>20. ASSUME NEW s \in Syncs, Modify(s)
      PROVE  PublisherTypes'
  BY <1>0, <1>20, SyncNumbers DEF Modify, SyncAt, SyncGoto, publisherVars,
     subscriptionVars, network, receiverVars, syncVars, obsVars,
     PublisherTypes, SyncTypeOK, SequenceOK, Seqno
<1> QED
  BY <1>1, <1>2, <1>3, <1>4, <1>5, <1>6, <1>7, <1>8, <1>9, <1>10, <1>11, <1>12,
     <1>13, <1>14, <1>15, <1>16, <1>17, <1>18, <1>19, <1>20 DEF SyncNext, Publish,
     RunSync

\* So does the receiver.
LEMMA NextReceiver ==
    ASSUME SyncBase, SyncNext
    PROVE  ReceiverOK'
<1>0. SyncTypeOK /\ SequenceOK /\ \A s \in Syncs : FetchedOK(s)
  BY DEF SyncBase
<1>1. ASSUME WriteChange
      PROVE  ReceiverOK'
  BY <1>0, <1>1 DEF WriteChange, publisherVars, subscriptionVars, network,
     receiverVars, syncVars, obsVars, ReceiverOK, SyncTypeOK, SequenceOK,
     FetchedOK, Seqno, Queued
<1>2. ASSUME IncreaseSeq
      PROVE  ReceiverOK'
  BY <1>0, <1>2 DEF IncreaseSeq, publisherVars, subscriptionVars, network,
     receiverVars, syncVars, obsVars, ReceiverOK, SyncTypeOK, SequenceOK,
     FetchedOK, Seqno, Queued
<1>3. ASSUME CreateDiff
      PROVE  ReceiverOK'
  BY <1>0, <1>3 DEF CreateDiff, publisherVars, subscriptionVars, network,
     receiverVars, syncVars, obsVars, ReceiverOK, SyncTypeOK, SequenceOK,
     FetchedOK, Seqno, Queued
<1>4. ASSUME SendCallback
      PROVE  ReceiverOK'
  BY <1>0, <1>4 DEF SendCallback, publisherVars, subscriptionVars, network,
     receiverVars, syncVars, obsVars, ReceiverOK, SyncTypeOK, SequenceOK,
     FetchedOK, Seqno, Queued
<1>5. ASSUME NEW n \in Seqno, LoseCallback(n)
      PROVE  ReceiverOK'
  BY <1>0, <1>5 DEF LoseCallback, publisherVars, subscriptionVars, network,
     receiverVars, syncVars, obsVars, ReceiverOK, SyncTypeOK, SequenceOK,
     FetchedOK, Seqno, Queued
<1>6. ASSUME NEW n \in Seqno, ReceiveDiff(n)
      PROVE  ReceiverOK'
  <2>1. PICK hasData \in BOOLEAN : FetchDiff(n, hasData) /\ Receive(n, hasData)
    BY <1>6, ReceiveDiffReceives DEF Receive
  <2>2. /\ n \in callbacks /\ n <= sequence
        /\ callbacks' = callbacks \ {n} /\ acks' \subseteq acks \cup {n}
        /\ UNCHANGED <<kind, granularity, written, sequence, step>>
    BY <1>0, <1>6, ReceiveDiffReceives DEF subscriptionVars, SequenceOK, Seqno
  <2>3. /\ diffs' \subseteq diffs /\ faults' \in 0..MaxFaults
        /\ UNCHANGED passedOver
    BY <1>0, <2>1, SyncNumbers DEF FetchDiff, Fault, obsVars, SyncTypeOK
  <2>4. ReceiverOK'
    BY <1>0, <2>1, <2>2, ReceiveTypes
  <2> QED
    BY <2>4
<1>7. ASSUME NEW n \in Seqno, ReceiveResync(n)
      PROVE  ReceiverOK'
  <2>1. /\ lastSeq' = n /\ n \in 1..sequence /\ pending' = {}
        /\ UNCHANGED <<written, sequence>>
    BY <1>0, <1>7 DEF ReceiveResync, publisherVars, SequenceOK
  <2>2. known' \in SUBSET (1..written)
    BY <1>0, <1>7 DEF ReceiveResync, FetchBaseline, BaselineArrives,
       BaselineFails, SyncTypeOK
  <2>3. IsFiniteSet(pending') /\ Cardinality(pending') = 0
    BY <2>1, FS_EmptySet
  <2>4. lastSeq' \in 0..sequence'
    BY <1>0, <2>1 DEF SyncTypeOK
  <2>5. Queued' = {}
    BY <2>1 DEF Queued
  <2> QED
    BY <2>1, <2>2, <2>3, <2>4, <2>5, SyncNumbers DEF ReceiverOK
<1>8. ASSUME NEW n \in Seqno, DeliverAck(n)
      PROVE  ReceiverOK'
  BY <1>0, <1>8 DEF DeliverAck, PutSequence, Fault, publisherVars,
     subscriptionVars, network, receiverVars, syncVars, obsVars, ReceiverOK,
     SyncTypeOK, SequenceOK, FetchedOK, Seqno, Queued
<1>9. ASSUME NEW s \in Syncs, Sync(s)
      PROVE  ReceiverOK'
  BY <1>0, <1>9 DEF Sync, StartSync, publisherVars, subscriptionVars,
     network, receiverVars, syncVars, obsVars, ReceiverOK, SyncTypeOK,
     SequenceOK, FetchedOK, Seqno, Queued
<1>10. ASSUME NEW s \in Syncs, GetSequence(s)
      PROVE  ReceiverOK'
  BY <1>0, <1>10 DEF GetSequence, SyncAt, SyncGoto, publisherVars,
     subscriptionVars, network, receiverVars, syncVars, obsVars, ReceiverOK,
     SyncTypeOK, SequenceOK, FetchedOK, Seqno, Queued
<1>11. ASSUME NEW s \in Syncs, GetDiffs(s)
      PROVE  ReceiverOK'
  BY <1>0, <1>11 DEF GetDiffs, SyncAt, SyncGoto, publisherVars,
     subscriptionVars, network, receiverVars, syncVars, obsVars, ReceiverOK,
     SyncTypeOK, SequenceOK, FetchedOK, Seqno, Queued
<1>12. ASSUME NEW s \in Syncs, GetFails(s)
      PROVE  ReceiverOK'
  BY <1>0, <1>12 DEF GetFails, SyncAt, SyncGoto, Fault, publisherVars,
     subscriptionVars, network, receiverVars, syncVars, obsVars, ReceiverOK,
     SyncTypeOK, SequenceOK, FetchedOK, Seqno, Queued
<1>13. ASSUME NEW s \in Syncs, Baseline(s)
      PROVE  ReceiverOK'
  BY <1>0, <1>13 DEF Baseline, SyncAt, SyncGoto, FetchBaseline,
     BaselineArrives, BaselineFails, publisherVars, subscriptionVars, network,
     receiverVars, syncVars, obsVars, ReceiverOK, SyncTypeOK, SequenceOK,
     FetchedOK, Seqno, Queued
<1>14. ASSUME NEW s \in Syncs, SetSeq(s)
      PROVE  ReceiverOK'
  BY <1>0, <1>14 DEF SetSeq, SyncAt, SyncGoto, publisherVars,
     subscriptionVars, network, receiverVars, syncVars, obsVars, ReceiverOK,
     SyncTypeOK, SequenceOK, FetchedOK, Seqno, Queued
<1>15. ASSUME NEW s \in Syncs, ProcessDiff(s)
      PROVE  ReceiverOK'
  <2>1. /\ Receive(NextOf(s), TRUE) /\ UNCHANGED <<written, sequence>>
        /\ todo' = [todo EXCEPT ![s] = @ \ {NextOf(s)}]
    BY <1>15, ProcessDiffReceives, FetchedIsReceived DEF publisherVars
  <2>2. /\ NextOf(s) \in todo[s] /\ \A d \in todo[s] : NextOf(s) <= d
        /\ NextOf(s) \in Seqno /\ NextOf(s) <= sequence
    <3>1. SyncAt(s, "process")
      BY <1>15, ProcessDiffReceives
    <3>2. sequence <= MaxSeq
      BY <1>0, SyncNumbers DEF SyncTypeOK
    <3> QED
      BY <1>0, <3>1, <3>2, NextIsLeast
  <2>3. ReceiverOK'
    BY <1>0, <2>1, <2>2, ReceiveTypes
  <2> QED
    BY <2>3
<1>16. ASSUME NEW s \in Syncs, DupBaseline(s)
      PROVE  ReceiverOK'
  BY <1>0, <1>16 DEF DupBaseline, SyncAt, SyncGoto, BaselineArrives,
     BaselineFails, publisherVars, subscriptionVars, network, receiverVars,
     syncVars, obsVars, ReceiverOK, SyncTypeOK, SequenceOK, FetchedOK, Seqno,
     Queued
<1>17. ASSUME NEW s \in Syncs, DupSeq(s)
      PROVE  ReceiverOK'
  BY <1>0, <1>17 DEF DupSeq, SyncAt, SyncGoto, publisherVars,
     subscriptionVars, network, receiverVars, syncVars, obsVars, ReceiverOK,
     SyncTypeOK, SequenceOK, FetchedOK, Seqno, Queued
<1>18. ASSUME NEW s \in Syncs, DupClear(s)
      PROVE  ReceiverOK'
  BY <1>0, <1>18 DEF DupClear, SyncAt, SyncGoto, PutSequence, Fault,
     publisherVars, subscriptionVars, network, receiverVars, syncVars, obsVars,
     ReceiverOK, SyncTypeOK, SequenceOK, FetchedOK, Seqno, Queued
<1>19. ASSUME NEW s \in Syncs, Clear(s)
      PROVE  ReceiverOK'
  BY <1>0, <1>19 DEF Clear, SyncAt, SyncGoto, PutSequence, Fault,
     publisherVars, subscriptionVars, network, receiverVars, syncVars, obsVars,
     ReceiverOK, SyncTypeOK, SequenceOK, FetchedOK, Seqno, Queued
<1>20. ASSUME NEW s \in Syncs, Modify(s)
      PROVE  ReceiverOK'
  BY <1>0, <1>20 DEF Modify, SyncAt, SyncGoto, publisherVars,
     subscriptionVars, network, receiverVars, syncVars, obsVars, ReceiverOK,
     SyncTypeOK, SequenceOK, FetchedOK, Seqno, Queued
<1> QED
  BY <1>1, <1>2, <1>3, <1>4, <1>5, <1>6, <1>7, <1>8, <1>9, <1>10, <1>11, <1>12,
     <1>13, <1>14, <1>15, <1>16, <1>17, <1>18, <1>19, <1>20 DEF SyncNext, Publish,
     RunSync

\* The greatest diff is one.
LEMMA GreatestDiff ==
    ASSUME SyncTypeOK, diffs # {}
    PROVE  LET m == CHOOSE m \in diffs : \A d \in diffs : d <= m
           IN  m \in diffs /\ \A d \in diffs : d <= m
<1>1. diffs \in SUBSET (0..MaxSeq)
  BY DEF SyncTypeOK, Seqno
<1>2. \E m \in diffs : \A d \in diffs : d <= m
  BY <1>1, HasGreatest, SyncNumbers
<1> QED
  BY <1>2

\* So do the syncs.
LEMMA NextSyncTypes ==
    ASSUME SyncBase, SyncNext
    PROVE  SyncTypes'
<1>0. SyncTypeOK /\ SequenceOK /\ \A s \in Syncs : FetchedOK(s)
  BY DEF SyncBase
<1>1. ASSUME WriteChange
      PROVE  SyncTypes'
  BY <1>0, <1>1 DEF WriteChange, publisherVars, subscriptionVars, network,
     receiverVars, syncVars, obsVars, SyncTypes, SyncTypeOK, SequenceOK,
     FetchedOK, Seqno, SyncSteps
<1>2. ASSUME IncreaseSeq
      PROVE  SyncTypes'
  BY <1>0, <1>2 DEF IncreaseSeq, publisherVars, subscriptionVars, network,
     receiverVars, syncVars, obsVars, SyncTypes, SyncTypeOK, SequenceOK,
     FetchedOK, Seqno, SyncSteps
<1>3. ASSUME CreateDiff
      PROVE  SyncTypes'
  BY <1>0, <1>3 DEF CreateDiff, publisherVars, subscriptionVars, network,
     receiverVars, syncVars, obsVars, SyncTypes, SyncTypeOK, SequenceOK,
     FetchedOK, Seqno, SyncSteps
<1>4. ASSUME SendCallback
      PROVE  SyncTypes'
  BY <1>0, <1>4 DEF SendCallback, publisherVars, subscriptionVars, network,
     receiverVars, syncVars, obsVars, SyncTypes, SyncTypeOK, SequenceOK,
     FetchedOK, Seqno, SyncSteps
<1>5. ASSUME NEW n \in Seqno, LoseCallback(n)
      PROVE  SyncTypes'
  BY <1>0, <1>5 DEF LoseCallback, publisherVars, subscriptionVars, network,
     receiverVars, syncVars, obsVars, SyncTypes, SyncTypeOK, SequenceOK,
     FetchedOK, Seqno, SyncSteps
<1>6. ASSUME NEW n \in Seqno, ReceiveDiff(n)
      PROVE  SyncTypes'
  <2>1. CASE UNCHANGED syncVars
    BY <1>0, <2>1 DEF syncVars, SyncTypes, SyncTypeOK
  <2>2. CASE \E s \in Syncs : StartSync(s)
    BY <1>0, <2>2 DEF StartSync, SyncTypes, SyncTypeOK, SyncSteps
  <2> QED
    BY <1>6, <2>1, <2>2, ReceiveDiffReceives
<1>7. ASSUME NEW n \in Seqno, ReceiveResync(n)
      PROVE  SyncTypes'
  BY <1>0, <1>7 DEF ReceiveResync, FetchBaseline, BaselineArrives,
     BaselineFails, publisherVars, subscriptionVars, network, receiverVars,
     syncVars, obsVars, SyncTypes, SyncTypeOK, SequenceOK, FetchedOK, Seqno,
     SyncSteps
<1>8. ASSUME NEW n \in Seqno, DeliverAck(n)
      PROVE  SyncTypes'
  BY <1>0, <1>8 DEF DeliverAck, PutSequence, Fault, publisherVars,
     subscriptionVars, network, receiverVars, syncVars, obsVars, SyncTypes,
     SyncTypeOK, SequenceOK, FetchedOK, Seqno, SyncSteps
<1>9. ASSUME NEW s \in Syncs, Sync(s)
      PROVE  SyncTypes'
  BY <1>0, <1>9 DEF Sync, StartSync, publisherVars, subscriptionVars,
     network, receiverVars, syncVars, obsVars, SyncTypes, SyncTypeOK,
     SequenceOK, FetchedOK, Seqno, SyncSteps
<1>10. ASSUME NEW s \in Syncs, GetSequence(s)
      PROVE  SyncTypes'
  <2>1. sequence \in 0..MaxSeq
    BY <1>0, SyncNumbers DEF SyncTypeOK
  <2> QED
    BY <1>0, <1>10, <2>1 DEF GetSequence, SyncGoto, SyncTypes, SyncTypeOK,
       SyncSteps
<1>11. ASSUME NEW s \in Syncs, GetDiffs(s)
      PROVE  SyncTypes'
  <2>1. maxSequence'[s] \in 0..MaxSeq
    <3>1. CASE diffs = {}
      BY <1>0, <1>11, <3>1, SyncNumbers DEF GetDiffs, SyncTypeOK
    <3>2. CASE diffs # {}
      <4>1. maxSequence'[s] \in diffs
        BY <1>0, <1>11, <3>2, GreatestDiff DEF GetDiffs, SyncTypeOK
      <4>2. maxSequence'[s] \in Seqno
        BY <1>0, <4>1 DEF SyncTypeOK
      <4> QED
        BY <4>2, SyncNumbers DEF Seqno
    <3> QED
      BY <3>1, <3>2
  <2>2. maxSequence' \in [Syncs -> 0..MaxSeq]
    BY <1>0, <1>11, <2>1 DEF GetDiffs, SyncTypeOK
  <2> QED
    BY <1>0, <1>11, <2>2 DEF GetDiffs, SyncGoto, SyncTypes, SyncTypeOK,
       SyncSteps
<1>12. ASSUME NEW s \in Syncs, GetFails(s)
      PROVE  SyncTypes'
  BY <1>0, <1>12 DEF GetFails, SyncAt, SyncGoto, Fault, publisherVars,
     subscriptionVars, network, receiverVars, syncVars, obsVars, SyncTypes,
     SyncTypeOK, SequenceOK, FetchedOK, Seqno, SyncSteps
<1>13. ASSUME NEW s \in Syncs, Baseline(s)
      PROVE  SyncTypes'
  BY <1>0, <1>13 DEF Baseline, SyncAt, SyncGoto, FetchBaseline,
     BaselineArrives, BaselineFails, publisherVars, subscriptionVars, network,
     receiverVars, syncVars, obsVars, SyncTypes, SyncTypeOK, SequenceOK,
     FetchedOK, Seqno, SyncSteps
<1>14. ASSUME NEW s \in Syncs, SetSeq(s)
      PROVE  SyncTypes'
  BY <1>0, <1>14 DEF SetSeq, SyncAt, SyncGoto, publisherVars,
     subscriptionVars, network, receiverVars, syncVars, obsVars, SyncTypes,
     SyncTypeOK, SequenceOK, FetchedOK, Seqno, SyncSteps
<1>15. ASSUME NEW s \in Syncs, ProcessDiff(s)
      PROVE  SyncTypes'
  <2>1. processed' \in [Syncs -> BOOLEAN]
    BY <1>0, <1>15, ProcessDiffReceives DEF SyncTypeOK
  <2>2. syncStep' \in [Syncs -> {"idle"} \cup SyncSteps]
    <3>1. PICK label \in SyncSteps : syncStep' = [syncStep EXCEPT ![s] = label]
      BY <1>15, ProcessDiffReceives DEF SyncGoto, SyncSteps
    <3> QED
      BY <1>0, <3>1 DEF SyncTypeOK
  <2>3. todo' = [todo EXCEPT ![s] = @ \ {NextOf(s)}]
        /\ UNCHANGED <<finalSeq, maxSequence>>
    BY <1>15, ProcessDiffReceives
  <2>4. todo' \in [Syncs -> SUBSET Seqno]
    BY <1>0, <2>3 DEF SyncTypeOK
  <2> QED
    BY <1>0, <2>1, <2>2, <2>3, <2>4 DEF SyncTypes, SyncTypeOK
<1>16. ASSUME NEW s \in Syncs, DupBaseline(s)
      PROVE  SyncTypes'
  BY <1>0, <1>16 DEF DupBaseline, SyncAt, SyncGoto, BaselineArrives,
     BaselineFails, publisherVars, subscriptionVars, network, receiverVars,
     syncVars, obsVars, SyncTypes, SyncTypeOK, SequenceOK, FetchedOK, Seqno,
     SyncSteps
<1>17. ASSUME NEW s \in Syncs, DupSeq(s)
      PROVE  SyncTypes'
  BY <1>0, <1>17 DEF DupSeq, SyncAt, SyncGoto, publisherVars,
     subscriptionVars, network, receiverVars, syncVars, obsVars, SyncTypes,
     SyncTypeOK, SequenceOK, FetchedOK, Seqno, SyncSteps
<1>18. ASSUME NEW s \in Syncs, DupClear(s)
      PROVE  SyncTypes'
  BY <1>0, <1>18 DEF DupClear, SyncAt, SyncGoto, PutSequence, Fault,
     publisherVars, subscriptionVars, network, receiverVars, syncVars, obsVars,
     SyncTypes, SyncTypeOK, SequenceOK, FetchedOK, Seqno, SyncSteps
<1>19. ASSUME NEW s \in Syncs, Clear(s)
      PROVE  SyncTypes'
  BY <1>0, <1>19 DEF Clear, SyncAt, SyncGoto, PutSequence, Fault,
     publisherVars, subscriptionVars, network, receiverVars, syncVars, obsVars,
     SyncTypes, SyncTypeOK, SequenceOK, FetchedOK, Seqno, SyncSteps
<1>20. ASSUME NEW s \in Syncs, Modify(s)
      PROVE  SyncTypes'
  BY <1>0, <1>20 DEF Modify, SyncAt, SyncGoto, publisherVars,
     subscriptionVars, network, receiverVars, syncVars, obsVars, SyncTypes,
     SyncTypeOK, SequenceOK, FetchedOK, Seqno, SyncSteps
<1> QED
  BY <1>1, <1>2, <1>3, <1>4, <1>5, <1>6, <1>7, <1>8, <1>9, <1>10, <1>11, <1>12,
     <1>13, <1>14, <1>15, <1>16, <1>17, <1>18, <1>19, <1>20 DEF SyncNext, Publish,
     RunSync

\* Every step keeps the numbers in their bounds.
LEMMA NextNumbers ==
    ASSUME SyncBase, SyncNext
    PROVE  SequenceOK'
<1>0. SyncTypeOK /\ SequenceOK /\ \A s \in Syncs : FetchedOK(s)
  BY DEF SyncBase
<1>1. ASSUME WriteChange
      PROVE  SequenceOK'
  BY <1>0, <1>1 DEF WriteChange, publisherVars, subscriptionVars, network,
     receiverVars, syncVars, obsVars, SyncTypeOK, SequenceOK, Seqno, Queued
<1>2. ASSUME IncreaseSeq
      PROVE  SequenceOK'
  BY <1>0, <1>2 DEF IncreaseSeq, publisherVars, subscriptionVars, network,
     receiverVars, syncVars, obsVars, SyncTypeOK, SequenceOK, Seqno, Queued
<1>3. ASSUME CreateDiff
      PROVE  SequenceOK'
  BY <1>0, <1>3 DEF CreateDiff, publisherVars, subscriptionVars, network,
     receiverVars, syncVars, obsVars, SyncTypeOK, SequenceOK, Seqno, Queued
<1>4. ASSUME SendCallback
      PROVE  SequenceOK'
  BY <1>0, <1>4 DEF SendCallback, publisherVars, subscriptionVars, network,
     receiverVars, syncVars, obsVars, SyncTypeOK, SequenceOK, Seqno, Queued
<1>5. ASSUME NEW n \in Seqno, LoseCallback(n)
      PROVE  SequenceOK'
  BY <1>0, <1>5 DEF LoseCallback, publisherVars, subscriptionVars, network,
     receiverVars, syncVars, obsVars, SyncTypeOK, SequenceOK, Seqno, Queued
<1>6. ASSUME NEW n \in Seqno, ReceiveDiff(n)
      PROVE  SequenceOK'
  <2>1. PICK hasData \in BOOLEAN : FetchDiff(n, hasData) /\ Receive(n, hasData)
    BY <1>6, ReceiveDiffReceives DEF Receive
  <2>2. /\ n \in callbacks /\ n <= sequence
        /\ callbacks' = callbacks \ {n} /\ acks' \subseteq acks \cup {n}
        /\ UNCHANGED <<kind, granularity, written, sequence, step>>
    BY <1>0, <1>6, ReceiveDiffReceives DEF subscriptionVars, SequenceOK, Seqno
  <2>3. /\ diffs' \subseteq diffs /\ faults' \in 0..MaxFaults
        /\ UNCHANGED passedOver
    BY <1>0, <2>1, SyncNumbers DEF FetchDiff, Fault, obsVars, SyncTypeOK
  <2>4. ReceiverOK'
    BY <1>0, <2>1, <2>2, ReceiveTypes
  <2> QED
    BY <1>0, <2>2, <2>3, <2>4 DEF SequenceOK, ReceiverOK, SyncTypeOK
<1>7. ASSUME NEW n \in Seqno, ReceiveResync(n)
      PROVE  SequenceOK'
  <2>1. /\ callbacks' \subseteq callbacks /\ pending' = {}
        /\ UNCHANGED <<written, sequence, diffs, step, acks>>
    BY <1>7 DEF ReceiveResync, publisherVars
  <2>2. Queued' = {}
    BY <2>1 DEF Queued
  <2> QED
    BY <1>0, <2>1, <2>2, FS_EmptySet DEF SequenceOK
<1>8. ASSUME NEW n \in Seqno, DeliverAck(n)
      PROVE  SequenceOK'
  BY <1>0, <1>8 DEF DeliverAck, PutSequence, Fault, publisherVars,
     subscriptionVars, network, receiverVars, syncVars, obsVars, SyncTypeOK,
     SequenceOK, Seqno, Queued
<1>9. ASSUME NEW s \in Syncs, Sync(s)
      PROVE  SequenceOK'
  BY <1>0, <1>9 DEF Sync, StartSync, publisherVars, subscriptionVars,
     network, receiverVars, syncVars, obsVars, SyncTypeOK, SequenceOK, Seqno,
     Queued
<1>10. ASSUME NEW s \in Syncs, GetSequence(s)
      PROVE  SequenceOK'
  BY <1>0, <1>10 DEF GetSequence, SyncAt, SyncGoto, publisherVars,
     subscriptionVars, network, receiverVars, syncVars, obsVars, SyncTypeOK,
     SequenceOK, Seqno, Queued
<1>11. ASSUME NEW s \in Syncs, GetDiffs(s)
      PROVE  SequenceOK'
  BY <1>0, <1>11 DEF GetDiffs, SyncAt, SyncGoto, publisherVars,
     subscriptionVars, network, receiverVars, syncVars, obsVars, SyncTypeOK,
     SequenceOK, Seqno, Queued
<1>12. ASSUME NEW s \in Syncs, GetFails(s)
      PROVE  SequenceOK'
  BY <1>0, <1>12 DEF GetFails, SyncAt, SyncGoto, Fault, publisherVars,
     subscriptionVars, network, receiverVars, syncVars, obsVars, SyncTypeOK,
     SequenceOK, Seqno, Queued
<1>13. ASSUME NEW s \in Syncs, Baseline(s)
      PROVE  SequenceOK'
  BY <1>0, <1>13 DEF Baseline, SyncAt, SyncGoto, FetchBaseline,
     BaselineArrives, BaselineFails, publisherVars, subscriptionVars, network,
     receiverVars, syncVars, obsVars, SyncTypeOK, SequenceOK, Seqno, Queued
<1>14. ASSUME NEW s \in Syncs, SetSeq(s)
      PROVE  SequenceOK'
  BY <1>0, <1>14 DEF SetSeq, SyncAt, SyncGoto, publisherVars,
     subscriptionVars, network, receiverVars, syncVars, obsVars, SyncTypeOK,
     SequenceOK, Seqno, Queued
<1>15. ASSUME NEW s \in Syncs, ProcessDiff(s)
      PROVE  SequenceOK'
  <2>1. /\ Receive(NextOf(s), TRUE) /\ UNCHANGED <<written, sequence>>
        /\ todo' = [todo EXCEPT ![s] = @ \ {NextOf(s)}]
    BY <1>15, ProcessDiffReceives, FetchedIsReceived DEF publisherVars
  <2>2. /\ NextOf(s) \in todo[s] /\ \A d \in todo[s] : NextOf(s) <= d
        /\ NextOf(s) \in Seqno /\ NextOf(s) <= sequence
    <3>1. SyncAt(s, "process")
      BY <1>15, ProcessDiffReceives
    <3>2. sequence <= MaxSeq
      BY <1>0, SyncNumbers DEF SyncTypeOK
    <3> QED
      BY <1>0, <3>1, <3>2, NextIsLeast
  <2>3. ReceiverOK'
    BY <1>0, <2>1, <2>2, ReceiveTypes
  <2>4. UNCHANGED <<written, sequence, diffs, step, callbacks, acks>>
    BY <1>15, ProcessDiffReceives DEF publisherVars, network
  <2> QED
    BY <1>0, <2>3, <2>4 DEF SequenceOK, ReceiverOK
<1>16. ASSUME NEW s \in Syncs, DupBaseline(s)
      PROVE  SequenceOK'
  BY <1>0, <1>16 DEF DupBaseline, SyncAt, SyncGoto, BaselineArrives,
     BaselineFails, publisherVars, subscriptionVars, network, receiverVars,
     syncVars, obsVars, SyncTypeOK, SequenceOK, Seqno, Queued
<1>17. ASSUME NEW s \in Syncs, DupSeq(s)
      PROVE  SequenceOK'
  BY <1>0, <1>17 DEF DupSeq, SyncAt, SyncGoto, publisherVars,
     subscriptionVars, network, receiverVars, syncVars, obsVars, SyncTypeOK,
     SequenceOK, Seqno, Queued
<1>18. ASSUME NEW s \in Syncs, DupClear(s)
      PROVE  SequenceOK'
  BY <1>0, <1>18 DEF DupClear, SyncAt, SyncGoto, PutSequence, Fault,
     publisherVars, subscriptionVars, network, receiverVars, syncVars, obsVars,
     SyncTypeOK, SequenceOK, Seqno, Queued
<1>19. ASSUME NEW s \in Syncs, Clear(s)
      PROVE  SequenceOK'
  BY <1>0, <1>19 DEF Clear, SyncAt, SyncGoto, PutSequence, Fault,
     publisherVars, subscriptionVars, network, receiverVars, syncVars, obsVars,
     SyncTypeOK, SequenceOK, Seqno, Queued
<1>20. ASSUME NEW s \in Syncs, Modify(s)
      PROVE  SequenceOK'
  BY <1>0, <1>20 DEF Modify, SyncAt, SyncGoto, publisherVars,
     subscriptionVars, network, receiverVars, syncVars, obsVars, SyncTypeOK,
     SequenceOK, Seqno, Queued
<1> QED
  BY <1>1, <1>2, <1>3, <1>4, <1>5, <1>6, <1>7, <1>8, <1>9, <1>10, <1>11, <1>12,
     <1>13, <1>14, <1>15, <1>16, <1>17, <1>18, <1>19, <1>20 DEF SyncNext, Publish,
     RunSync

\* What a sync has fetched is in order.
LEMMA NextSyncs ==
    ASSUME SyncBase, NEW t \in Syncs, SyncNext
    PROVE  FetchedOK(t)'
<1>0. SyncTypeOK /\ SequenceOK /\ \A s \in Syncs : FetchedOK(s)
  BY DEF SyncBase
<1>1. ASSUME WriteChange
      PROVE  FetchedOK(t)'
  BY <1>0, <1>1 DEF WriteChange, publisherVars, subscriptionVars, network,
     receiverVars, syncVars, obsVars, SyncTypeOK, SequenceOK, FetchedOK, Seqno
<1>2. ASSUME IncreaseSeq
      PROVE  FetchedOK(t)'
  BY <1>0, <1>2 DEF IncreaseSeq, publisherVars, subscriptionVars, network,
     receiverVars, syncVars, obsVars, SyncTypeOK, SequenceOK, FetchedOK, Seqno
<1>3. ASSUME CreateDiff
      PROVE  FetchedOK(t)'
  BY <1>0, <1>3 DEF CreateDiff, publisherVars, subscriptionVars, network,
     receiverVars, syncVars, obsVars, SyncTypeOK, SequenceOK, FetchedOK, Seqno
<1>4. ASSUME SendCallback
      PROVE  FetchedOK(t)'
  BY <1>0, <1>4 DEF SendCallback, publisherVars, subscriptionVars, network,
     receiverVars, syncVars, obsVars, SyncTypeOK, SequenceOK, FetchedOK, Seqno
<1>5. ASSUME NEW n \in Seqno, LoseCallback(n)
      PROVE  FetchedOK(t)'
  BY <1>0, <1>5 DEF LoseCallback, publisherVars, subscriptionVars, network,
     receiverVars, syncVars, obsVars, SyncTypeOK, SequenceOK, FetchedOK, Seqno
<1>6. ASSUME NEW n \in Seqno, ReceiveDiff(n)
      PROVE  FetchedOK(t)'
  <2>1. UNCHANGED sequence
    BY <1>6, ReceiveDiffReceives
  <2>2. CASE UNCHANGED syncVars
    BY <1>0, <2>1, <2>2 DEF syncVars, FetchedOK
  <2>3. CASE \E s \in Syncs : StartSync(s)
    BY <1>0, <2>1, <2>3 DEF StartSync, FetchedOK, SyncTypeOK
  <2> QED
    BY <1>6, <2>2, <2>3, ReceiveDiffReceives
<1>7. ASSUME NEW n \in Seqno, ReceiveResync(n)
      PROVE  FetchedOK(t)'
  BY <1>0, <1>7 DEF ReceiveResync, FetchBaseline, BaselineArrives,
     BaselineFails, publisherVars, subscriptionVars, network, receiverVars,
     syncVars, obsVars, SyncTypeOK, SequenceOK, FetchedOK, Seqno
<1>8. ASSUME NEW n \in Seqno, DeliverAck(n)
      PROVE  FetchedOK(t)'
  BY <1>0, <1>8 DEF DeliverAck, PutSequence, Fault, publisherVars,
     subscriptionVars, network, receiverVars, syncVars, obsVars, SyncTypeOK,
     SequenceOK, FetchedOK, Seqno
<1>9. ASSUME NEW s \in Syncs, Sync(s)
      PROVE  FetchedOK(t)'
  BY <1>0, <1>9 DEF Sync, StartSync, publisherVars, subscriptionVars,
     network, receiverVars, syncVars, obsVars, SyncTypeOK, SequenceOK,
     FetchedOK, Seqno
<1>10. ASSUME NEW s \in Syncs, GetSequence(s)
      PROVE  FetchedOK(t)'
  BY <1>0, <1>10 DEF GetSequence, SyncAt, SyncGoto, publisherVars,
     subscriptionVars, network, receiverVars, syncVars, obsVars, SyncTypeOK,
     SequenceOK, FetchedOK, Seqno
<1>11. ASSUME NEW s \in Syncs, GetDiffs(s)
      PROVE  FetchedOK(t)'
  <2>1. CASE t # s
    BY <1>0, <1>11, <2>1 DEF GetDiffs, SyncGoto, publisherVars, FetchedOK,
       SyncTypeOK
  <2>2. CASE t = s /\ diffs = {}
    BY <1>0, <1>11, <2>2, SyncNumbers DEF GetDiffs, SyncGoto, publisherVars,
       FetchedOK, SyncTypeOK
  <2>3. CASE t = s /\ diffs # {}
    <3>1. /\ maxSequence'[t] \in diffs /\ \A d \in diffs : d <= maxSequence'[t]
          /\ todo'[t] = diffs /\ UNCHANGED <<sequence, finalSeq>>
      BY <1>0, <1>11, <2>3, GreatestDiff DEF GetDiffs, publisherVars,
         SyncTypeOK
    <3>2. maxSequence'[t] <= sequence
      BY <1>0, <3>1, SyncNumbers DEF SequenceOK, SyncTypeOK
    <3> QED
      BY <1>0, <3>1, <3>2 DEF FetchedOK, SequenceOK
  <2> QED
    BY <2>1, <2>2, <2>3
<1>12. ASSUME NEW s \in Syncs, GetFails(s)
      PROVE  FetchedOK(t)'
  BY <1>0, <1>12 DEF GetFails, SyncAt, SyncGoto, Fault, publisherVars,
     subscriptionVars, network, receiverVars, syncVars, obsVars, SyncTypeOK,
     SequenceOK, FetchedOK, Seqno
<1>13. ASSUME NEW s \in Syncs, Baseline(s)
      PROVE  FetchedOK(t)'
  BY <1>0, <1>13 DEF Baseline, SyncAt, SyncGoto, FetchBaseline,
     BaselineArrives, BaselineFails, publisherVars, subscriptionVars, network,
     receiverVars, syncVars, obsVars, SyncTypeOK, SequenceOK, FetchedOK, Seqno
<1>14. ASSUME NEW s \in Syncs, SetSeq(s)
      PROVE  FetchedOK(t)'
  BY <1>0, <1>14 DEF SetSeq, SyncAt, SyncGoto, publisherVars,
     subscriptionVars, network, receiverVars, syncVars, obsVars, SyncTypeOK,
     SequenceOK, FetchedOK, Seqno
<1>15. ASSUME NEW s \in Syncs, ProcessDiff(s)
      PROVE  FetchedOK(t)'
  <2>1. /\ Receive(NextOf(s), TRUE) /\ UNCHANGED <<written, sequence>>
        /\ todo' = [todo EXCEPT ![s] = @ \ {NextOf(s)}]
    BY <1>15, ProcessDiffReceives, FetchedIsReceived DEF publisherVars
  <2>2. /\ NextOf(s) \in todo[s] /\ \A d \in todo[s] : NextOf(s) <= d
        /\ NextOf(s) \in Seqno /\ NextOf(s) <= sequence
    <3>1. SyncAt(s, "process")
      BY <1>15, ProcessDiffReceives
    <3>2. sequence <= MaxSeq
      BY <1>0, SyncNumbers DEF SyncTypeOK
    <3> QED
      BY <1>0, <3>1, <3>2, NextIsLeast
  <2>3. ReceiverOK'
    BY <1>0, <2>1, <2>2, ReceiveTypes
  <2>4. UNCHANGED <<finalSeq, maxSequence>>
    BY <1>15, ProcessDiffReceives
  <2>5. CASE t # s
    BY <1>0, <1>15, <2>1, <2>4, <2>5, ProcessDiffReceives DEF SyncGoto,
       FetchedOK, SyncTypeOK
  <2>6. CASE t = s
    <3>1. /\ maxSequence[s] \in todo[s]
          /\ \A d \in todo[s] : d <= maxSequence[s]
          /\ todo[s] \subseteq 1..sequence
      BY <1>0, <1>15, ProcessDiffReceives DEF FetchedOK, SyncAt
    <3>2. todo'[s] = todo[s] \ {NextOf(s)}
      BY <1>0, <2>1 DEF SyncTypeOK
    <3>3. ASSUME syncStep'[s] = "process"
          PROVE  maxSequence[s] # NextOf(s)
      <4>1. todo'[s] # {}
        BY <1>0, <1>15, <3>2, <3>3, ProcessDiffReceives DEF SyncGoto,
           SyncTypeOK
      <4>2. PICK d \in todo[s] : d # NextOf(s)
        BY <3>2, <4>1
      <4> QED
        BY <2>2, <3>1, <4>2 DEF Seqno
    <3> QED
      BY <1>0, <2>1, <2>4, <2>6, <3>1, <3>2, <3>3 DEF FetchedOK
  <2> QED
    BY <2>5, <2>6
<1>16. ASSUME NEW s \in Syncs, DupBaseline(s)
      PROVE  FetchedOK(t)'
  BY <1>0, <1>16 DEF DupBaseline, SyncAt, SyncGoto, BaselineArrives,
     BaselineFails, publisherVars, subscriptionVars, network, receiverVars,
     syncVars, obsVars, SyncTypeOK, SequenceOK, FetchedOK, Seqno
<1>17. ASSUME NEW s \in Syncs, DupSeq(s)
      PROVE  FetchedOK(t)'
  BY <1>0, <1>17 DEF DupSeq, SyncAt, SyncGoto, publisherVars,
     subscriptionVars, network, receiverVars, syncVars, obsVars, SyncTypeOK,
     SequenceOK, FetchedOK, Seqno
<1>18. ASSUME NEW s \in Syncs, DupClear(s)
      PROVE  FetchedOK(t)'
  BY <1>0, <1>18 DEF DupClear, SyncAt, SyncGoto, PutSequence, Fault,
     publisherVars, subscriptionVars, network, receiverVars, syncVars, obsVars,
     SyncTypeOK, SequenceOK, FetchedOK, Seqno
<1>19. ASSUME NEW s \in Syncs, Clear(s)
      PROVE  FetchedOK(t)'
  BY <1>0, <1>19 DEF Clear, SyncAt, SyncGoto, PutSequence, Fault,
     publisherVars, subscriptionVars, network, receiverVars, syncVars, obsVars,
     SyncTypeOK, SequenceOK, FetchedOK, Seqno
<1>20. ASSUME NEW s \in Syncs, Modify(s)
      PROVE  FetchedOK(t)'
  BY <1>0, <1>20 DEF Modify, SyncAt, SyncGoto, publisherVars,
     subscriptionVars, network, receiverVars, syncVars, obsVars, SyncTypeOK,
     SequenceOK, FetchedOK, Seqno
<1> QED
  BY <1>1, <1>2, <1>3, <1>4, <1>5, <1>6, <1>7, <1>8, <1>9, <1>10, <1>11, <1>12,
     <1>13, <1>14, <1>15, <1>16, <1>17, <1>18, <1>19, <1>20 DEF SyncNext, Publish,
     RunSync

\* A callback that carries its data leaves the publisher alone.
LEMMA HighDiff ==
    ASSUME NEW n \in Seqno, granularity = "high", ReceiveDiff(n)
    PROVE  /\ n \in callbacks
           /\ \/ Keep(n, TRUE) /\ UNCHANGED syncVars
              \/ GapTimeout(n) /\ \E s \in Syncs : StartSync(s)
           /\ UNCHANGED <<diffs, acks, passedOver, subscriptionVars, written,
                          sequence, step>>
<1>1. PICK hasData \in BOOLEAN :
         /\ FetchDiff(n, hasData)
         /\ \/ Keep(n, hasData) /\ UNCHANGED syncVars
            \/ GapTimeout(n) /\ \E s \in Syncs : StartSync(s)
  BY ReceiveDiffReceives
<1>2. ~Low
  BY DEF Low
<1>3. hasData = TRUE /\ UNCHANGED <<diffs, passedOver>>
  BY <1>1, <1>2 DEF FetchDiff, obsVars
<1> QED
  BY <1>1, <1>2, <1>3, ReceiveDiffReceives

\* What a sync processes was fetched.
LEMMA NextIsFetched ==
    ASSUME SyncBase, NEW s \in Syncs, ProcessDiff(s)
    PROVE  /\ NextOf(s) \in todo[s] /\ \A d \in todo[s] : NextOf(s) <= d
           /\ NextOf(s) \in Seqno /\ NextOf(s) <= sequence
           /\ todo'[s] = todo[s] \ {NextOf(s)}
           /\ syncStep[s] = "process"
<1>1. SyncTypeOK /\ FetchedOK(s)
  BY DEF SyncBase
<1>2. SyncAt(s, "process")
  BY ProcessDiffReceives
<1>3. sequence <= MaxSeq
  BY <1>1, SyncNumbers DEF SyncTypeOK
<1>4. todo'[s] = todo[s] \ {NextOf(s)}
  BY <1>1, ProcessDiffReceives DEF SyncTypeOK
<1> QED
  BY <1>1, <1>2, <1>3, <1>4, NextIsLeast DEF SyncAt

\* Diffs that suffice have always sufficed.
LEMMA NextSuffices ==
    ASSUME SyncBase, DiffsSuffice', SyncNext
    PROVE  DiffsSuffice
<1>0. SyncTypeOK /\ SequenceOK /\ \A s \in Syncs : FetchedOK(s)
  BY DEF SyncBase
<1>1. ASSUME WriteChange
      PROVE  DiffsSuffice
  BY <1>0, <1>1 DEF WriteChange, publisherVars, subscriptionVars, network,
     receiverVars, syncVars, obsVars, DiffsSuffice, SyncTypeOK, Fault
<1>2. ASSUME IncreaseSeq
      PROVE  DiffsSuffice
  BY <1>0, <1>2 DEF IncreaseSeq, publisherVars, subscriptionVars, network,
     receiverVars, syncVars, obsVars, DiffsSuffice, SyncTypeOK, Fault
<1>3. ASSUME CreateDiff
      PROVE  DiffsSuffice
  BY <1>0, <1>3 DEF CreateDiff, publisherVars, subscriptionVars, network,
     receiverVars, syncVars, obsVars, DiffsSuffice, SyncTypeOK, Fault
<1>4. ASSUME SendCallback
      PROVE  DiffsSuffice
  BY <1>0, <1>4 DEF SendCallback, publisherVars, subscriptionVars, network,
     receiverVars, syncVars, obsVars, DiffsSuffice, SyncTypeOK, Fault
<1>5. ASSUME NEW n \in Seqno, LoseCallback(n)
      PROVE  DiffsSuffice
  BY <1>0, <1>5 DEF LoseCallback, publisherVars, subscriptionVars, network,
     receiverVars, syncVars, obsVars, DiffsSuffice, SyncTypeOK, Fault
<1>6. ASSUME NEW n \in Seqno, ReceiveDiff(n)
      PROVE  DiffsSuffice
  <2>1. UNCHANGED <<subscriptionVars, sequence>>
    BY <1>6, ReceiveDiffReceives
  <2>2. UNCHANGED passedOver
    BY <1>6, ReceiveDiffReceives DEF FetchDiff, Fault, obsVars
  <2> QED
    BY <2>1, <2>2 DEF DiffsSuffice, subscriptionVars
<1>7. ASSUME NEW n \in Seqno, ReceiveResync(n)
      PROVE  DiffsSuffice
  BY <1>0, <1>7 DEF ReceiveResync, FetchBaseline, BaselineArrives,
     BaselineFails, publisherVars, subscriptionVars, network, receiverVars,
     syncVars, obsVars, DiffsSuffice, SyncTypeOK, Fault
<1>8. ASSUME NEW n \in Seqno, DeliverAck(n)
      PROVE  DiffsSuffice
  BY <1>0, <1>8 DEF DeliverAck, PutSequence, Fault, publisherVars,
     subscriptionVars, network, receiverVars, syncVars, obsVars, DiffsSuffice,
     SyncTypeOK, Fault
<1>9. ASSUME NEW s \in Syncs, Sync(s)
      PROVE  DiffsSuffice
  BY <1>0, <1>9 DEF Sync, StartSync, publisherVars, subscriptionVars,
     network, receiverVars, syncVars, obsVars, DiffsSuffice, SyncTypeOK, Fault
<1>10. ASSUME NEW s \in Syncs, GetSequence(s)
      PROVE  DiffsSuffice
  BY <1>0, <1>10 DEF GetSequence, SyncAt, SyncGoto, publisherVars,
     subscriptionVars, network, receiverVars, syncVars, obsVars, DiffsSuffice,
     SyncTypeOK, Fault
<1>11. ASSUME NEW s \in Syncs, GetDiffs(s)
      PROVE  DiffsSuffice
  BY <1>0, <1>11 DEF GetDiffs, SyncAt, SyncGoto, publisherVars,
     subscriptionVars, network, receiverVars, syncVars, obsVars, DiffsSuffice,
     SyncTypeOK, Fault
<1>12. ASSUME NEW s \in Syncs, GetFails(s)
      PROVE  DiffsSuffice
  BY <1>0, <1>12 DEF GetFails, SyncAt, SyncGoto, Fault, publisherVars,
     subscriptionVars, network, receiverVars, syncVars, obsVars, DiffsSuffice,
     SyncTypeOK, Fault
<1>13. ASSUME NEW s \in Syncs, Baseline(s)
      PROVE  DiffsSuffice
  BY <1>0, <1>13 DEF Baseline, SyncAt, SyncGoto, FetchBaseline,
     BaselineArrives, BaselineFails, publisherVars, subscriptionVars, network,
     receiverVars, syncVars, obsVars, DiffsSuffice, SyncTypeOK, Fault
<1>14. ASSUME NEW s \in Syncs, SetSeq(s)
      PROVE  DiffsSuffice
  BY <1>0, <1>14 DEF SetSeq, SyncAt, SyncGoto, publisherVars,
     subscriptionVars, network, receiverVars, syncVars, obsVars, DiffsSuffice,
     SyncTypeOK, Fault
<1>15. ASSUME NEW s \in Syncs, ProcessDiff(s)
      PROVE  DiffsSuffice
  <2>1. UNCHANGED <<kind, granularity, sequence, passedOver>>
    BY <1>15, ProcessDiffReceives DEF publisherVars, subscriptionVars, obsVars
  <2> QED
    BY <2>1 DEF DiffsSuffice
<1>16. ASSUME NEW s \in Syncs, DupBaseline(s)
      PROVE  DiffsSuffice
  BY <1>0, <1>16 DEF DupBaseline, SyncAt, SyncGoto, BaselineArrives,
     BaselineFails, publisherVars, subscriptionVars, network, receiverVars,
     syncVars, obsVars, DiffsSuffice, SyncTypeOK, Fault
<1>17. ASSUME NEW s \in Syncs, DupSeq(s)
      PROVE  DiffsSuffice
  BY <1>0, <1>17 DEF DupSeq, SyncAt, SyncGoto, publisherVars,
     subscriptionVars, network, receiverVars, syncVars, obsVars, DiffsSuffice,
     SyncTypeOK, Fault
<1>18. ASSUME NEW s \in Syncs, DupClear(s)
      PROVE  DiffsSuffice
  BY <1>0, <1>18 DEF DupClear, SyncAt, SyncGoto, PutSequence, Fault,
     publisherVars, subscriptionVars, network, receiverVars, syncVars, obsVars,
     DiffsSuffice, SyncTypeOK, Fault
<1>19. ASSUME NEW s \in Syncs, Clear(s)
      PROVE  DiffsSuffice
  BY <1>0, <1>19 DEF Clear, SyncAt, SyncGoto, PutSequence, Fault,
     publisherVars, subscriptionVars, network, receiverVars, syncVars, obsVars,
     DiffsSuffice, SyncTypeOK, Fault
<1>20. ASSUME NEW s \in Syncs, Modify(s)
      PROVE  DiffsSuffice
  BY <1>0, <1>20 DEF Modify, SyncAt, SyncGoto, publisherVars,
     subscriptionVars, network, receiverVars, syncVars, obsVars, DiffsSuffice,
     SyncTypeOK, Fault
<1> QED
  BY <1>1, <1>2, <1>3, <1>4, <1>5, <1>6, <1>7, <1>8, <1>9, <1>10, <1>11, <1>12,
     <1>13, <1>14, <1>15, <1>16, <1>17, <1>18, <1>19, <1>20 DEF SyncNext, Publish,
     RunSync

\* What is known stays known.
LEMMA NextKnows ==
    ASSUME SyncBase, SyncNext
    PROVE  known \subseteq known'
<1>0. SyncTypeOK /\ SequenceOK /\ \A s \in Syncs : FetchedOK(s)
  BY DEF SyncBase
<1>1. ASSUME WriteChange
      PROVE  known \subseteq known'
  BY <1>0, <1>1 DEF WriteChange, publisherVars, subscriptionVars, network,
     receiverVars, syncVars, obsVars, SyncTypeOK, SequenceOK
<1>2. ASSUME IncreaseSeq
      PROVE  known \subseteq known'
  BY <1>0, <1>2 DEF IncreaseSeq, publisherVars, subscriptionVars, network,
     receiverVars, syncVars, obsVars, SyncTypeOK, SequenceOK
<1>3. ASSUME CreateDiff
      PROVE  known \subseteq known'
  BY <1>0, <1>3 DEF CreateDiff, publisherVars, subscriptionVars, network,
     receiverVars, syncVars, obsVars, SyncTypeOK, SequenceOK
<1>4. ASSUME SendCallback
      PROVE  known \subseteq known'
  BY <1>0, <1>4 DEF SendCallback, publisherVars, subscriptionVars, network,
     receiverVars, syncVars, obsVars, SyncTypeOK, SequenceOK
<1>5. ASSUME NEW n \in Seqno, LoseCallback(n)
      PROVE  known \subseteq known'
  BY <1>0, <1>5 DEF LoseCallback, publisherVars, subscriptionVars, network,
     receiverVars, syncVars, obsVars, SyncTypeOK, SequenceOK
<1>6. ASSUME NEW n \in Seqno, ReceiveDiff(n)
      PROVE  known \subseteq known'
  <2>1. PICK hasData \in BOOLEAN : FetchDiff(n, hasData) /\ Receive(n, hasData)
    BY <1>6, ReceiveDiffReceives DEF Receive
  <2>2. /\ n \in callbacks /\ n <= sequence
        /\ callbacks' = callbacks \ {n} /\ acks' \subseteq acks \cup {n}
        /\ UNCHANGED <<kind, granularity, written, sequence, step>>
    BY <1>0, <1>6, ReceiveDiffReceives DEF subscriptionVars, SequenceOK, Seqno
  <2>3. /\ diffs' \subseteq diffs /\ faults' \in 0..MaxFaults
        /\ UNCHANGED passedOver
    BY <1>0, <2>1, SyncNumbers DEF FetchDiff, Fault, obsVars, SyncTypeOK
  <2> QED
    BY <1>0, <2>1, <2>2, ReceiveTypes
<1>7. ASSUME NEW n \in Seqno, ReceiveResync(n)
      PROVE  known \subseteq known'
  BY <1>0, <1>7 DEF ReceiveResync, FetchBaseline, BaselineArrives,
     BaselineFails, publisherVars, subscriptionVars, network, receiverVars,
     syncVars, obsVars, SyncTypeOK, SequenceOK
<1>8. ASSUME NEW n \in Seqno, DeliverAck(n)
      PROVE  known \subseteq known'
  BY <1>0, <1>8 DEF DeliverAck, PutSequence, Fault, publisherVars,
     subscriptionVars, network, receiverVars, syncVars, obsVars, SyncTypeOK,
     SequenceOK
<1>9. ASSUME NEW s \in Syncs, Sync(s)
      PROVE  known \subseteq known'
  BY <1>0, <1>9 DEF Sync, StartSync, publisherVars, subscriptionVars,
     network, receiverVars, syncVars, obsVars, SyncTypeOK, SequenceOK
<1>10. ASSUME NEW s \in Syncs, GetSequence(s)
      PROVE  known \subseteq known'
  BY <1>0, <1>10 DEF GetSequence, SyncAt, SyncGoto, publisherVars,
     subscriptionVars, network, receiverVars, syncVars, obsVars, SyncTypeOK,
     SequenceOK
<1>11. ASSUME NEW s \in Syncs, GetDiffs(s)
      PROVE  known \subseteq known'
  BY <1>0, <1>11 DEF GetDiffs, SyncAt, SyncGoto, publisherVars,
     subscriptionVars, network, receiverVars, syncVars, obsVars, SyncTypeOK,
     SequenceOK
<1>12. ASSUME NEW s \in Syncs, GetFails(s)
      PROVE  known \subseteq known'
  BY <1>0, <1>12 DEF GetFails, SyncAt, SyncGoto, Fault, publisherVars,
     subscriptionVars, network, receiverVars, syncVars, obsVars, SyncTypeOK,
     SequenceOK
<1>13. ASSUME NEW s \in Syncs, Baseline(s)
      PROVE  known \subseteq known'
  BY <1>0, <1>13 DEF Baseline, SyncAt, SyncGoto, FetchBaseline,
     BaselineArrives, BaselineFails, publisherVars, subscriptionVars, network,
     receiverVars, syncVars, obsVars, SyncTypeOK, SequenceOK
<1>14. ASSUME NEW s \in Syncs, SetSeq(s)
      PROVE  known \subseteq known'
  BY <1>0, <1>14 DEF SetSeq, SyncAt, SyncGoto, publisherVars,
     subscriptionVars, network, receiverVars, syncVars, obsVars, SyncTypeOK,
     SequenceOK
<1>15. ASSUME NEW s \in Syncs, ProcessDiff(s)
      PROVE  known \subseteq known'
  <2>1. Receive(NextOf(s), TRUE) /\ UNCHANGED <<written, sequence>>
    BY <1>15, ProcessDiffReceives, FetchedIsReceived DEF publisherVars
  <2> QED
    BY <1>0, <1>15, <2>1, NextIsFetched, ReceiveTypes
<1>16. ASSUME NEW s \in Syncs, DupBaseline(s)
      PROVE  known \subseteq known'
  BY <1>0, <1>16 DEF DupBaseline, SyncAt, SyncGoto, BaselineArrives,
     BaselineFails, publisherVars, subscriptionVars, network, receiverVars,
     syncVars, obsVars, SyncTypeOK, SequenceOK
<1>17. ASSUME NEW s \in Syncs, DupSeq(s)
      PROVE  known \subseteq known'
  BY <1>0, <1>17 DEF DupSeq, SyncAt, SyncGoto, publisherVars,
     subscriptionVars, network, receiverVars, syncVars, obsVars, SyncTypeOK,
     SequenceOK
<1>18. ASSUME NEW s \in Syncs, DupClear(s)
      PROVE  known \subseteq known'
  BY <1>0, <1>18 DEF DupClear, SyncAt, SyncGoto, PutSequence, Fault,
     publisherVars, subscriptionVars, network, receiverVars, syncVars, obsVars,
     SyncTypeOK, SequenceOK
<1>19. ASSUME NEW s \in Syncs, Clear(s)
      PROVE  known \subseteq known'
  BY <1>0, <1>19 DEF Clear, SyncAt, SyncGoto, PutSequence, Fault,
     publisherVars, subscriptionVars, network, receiverVars, syncVars, obsVars,
     SyncTypeOK, SequenceOK
<1>20. ASSUME NEW s \in Syncs, Modify(s)
      PROVE  known \subseteq known'
  BY <1>0, <1>20 DEF Modify, SyncAt, SyncGoto, publisherVars,
     subscriptionVars, network, receiverVars, syncVars, obsVars, SyncTypeOK,
     SequenceOK
<1> QED
  BY <1>1, <1>2, <1>3, <1>4, <1>5, <1>6, <1>7, <1>8, <1>9, <1>10, <1>11, <1>12,
     <1>13, <1>14, <1>15, <1>16, <1>17, <1>18, <1>19, <1>20 DEF SyncNext, Publish,
     RunSync

\* The own number covers what is known.
LEMMA NextCovers ==
    ASSUME SyncBase, DiffsSuffice, DiffsSuffice', Lossless, SyncNext
    PROVE  1..lastSeq' \subseteq known'
<1>0. SyncTypeOK /\ SequenceOK /\ \A s \in Syncs : FetchedOK(s)
  BY DEF SyncBase
<1>00. /\ granularity = "high" /\ ~passedOver /\ ~passedOver'
       /\ \A n \in 1..sequence : kind[n] = "diff"
  BY DEF DiffsSuffice
<1>01. /\ 1..lastSeq \subseteq known /\ ClearedIsKnown /\ QueueHasData
       /\ DiffsAreConsecutive /\ \A s \in Syncs : SyncKnows(s)
  BY DEF Lossless
<1>02. known \subseteq known'
  BY NextKnows
<1>1. ASSUME WriteChange
      PROVE  1..lastSeq' \subseteq known'
  BY <1>0, <1>1, <1>00, <1>01, <1>02 DEF WriteChange, publisherVars,
     subscriptionVars, network, receiverVars, syncVars, obsVars, SyncTypeOK,
     SequenceOK, SyncKnows, Seqno
<1>2. ASSUME IncreaseSeq
      PROVE  1..lastSeq' \subseteq known'
  BY <1>0, <1>2, <1>00, <1>01, <1>02 DEF IncreaseSeq, publisherVars,
     subscriptionVars, network, receiverVars, syncVars, obsVars, SyncTypeOK,
     SequenceOK, SyncKnows, Seqno
<1>3. ASSUME CreateDiff
      PROVE  1..lastSeq' \subseteq known'
  BY <1>0, <1>3, <1>00, <1>01, <1>02 DEF CreateDiff, publisherVars,
     subscriptionVars, network, receiverVars, syncVars, obsVars, SyncTypeOK,
     SequenceOK, SyncKnows, Seqno
<1>4. ASSUME SendCallback
      PROVE  1..lastSeq' \subseteq known'
  BY <1>0, <1>4, <1>00, <1>01, <1>02 DEF SendCallback, publisherVars,
     subscriptionVars, network, receiverVars, syncVars, obsVars, SyncTypeOK,
     SequenceOK, SyncKnows, Seqno
<1>5. ASSUME NEW n \in Seqno, LoseCallback(n)
      PROVE  1..lastSeq' \subseteq known'
  BY <1>0, <1>5, <1>00, <1>01, <1>02 DEF LoseCallback, publisherVars,
     subscriptionVars, network, receiverVars, syncVars, obsVars, SyncTypeOK,
     SequenceOK, SyncKnows, Seqno
<1>6. ASSUME NEW n \in Seqno, ReceiveDiff(n)
      PROVE  1..lastSeq' \subseteq known'
  <2>1. /\ n \in callbacks
        /\ Receive(n, TRUE)
        /\ UNCHANGED <<diffs, acks, passedOver, subscriptionVars, written,
                      sequence, step>>
    BY <1>00, <1>6, HighDiff DEF Receive
  <2>2. n <= sequence
    BY <1>0, <2>1 DEF SequenceOK
  <2>3. DataIsQueued' /\ 1..lastSeq' \subseteq known'
    BY <1>0, <1>01, <2>1, <2>2, ReceiveData DEF QueueHasData
  <2> QED
    BY <2>3
<1>7. ASSUME NEW n \in Seqno, ReceiveResync(n)
      PROVE  1..lastSeq' \subseteq known'
  <2>1. n \in 1..sequence /\ kind[n] = "resync"
    BY <1>0, <1>7 DEF ReceiveResync, SequenceOK
  <2> QED
    BY <1>00, <2>1
<1>8. ASSUME NEW n \in Seqno, DeliverAck(n)
      PROVE  1..lastSeq' \subseteq known'
  BY <1>01, <1>8 DEF DeliverAck, QueueHasData
<1>9. ASSUME NEW s \in Syncs, Sync(s)
      PROVE  1..lastSeq' \subseteq known'
  BY <1>0, <1>9, <1>00, <1>01, <1>02 DEF Sync, StartSync, publisherVars,
     subscriptionVars, network, receiverVars, syncVars, obsVars, SyncTypeOK,
     SequenceOK, SyncKnows, Seqno
<1>10. ASSUME NEW s \in Syncs, GetSequence(s)
      PROVE  1..lastSeq' \subseteq known'
  BY <1>0, <1>10, <1>00, <1>01, <1>02 DEF GetSequence, SyncAt, SyncGoto,
     publisherVars, subscriptionVars, network, receiverVars, syncVars, obsVars,
     SyncTypeOK, SequenceOK, SyncKnows, Seqno
<1>11. ASSUME NEW s \in Syncs, GetDiffs(s)
      PROVE  1..lastSeq' \subseteq known'
  BY <1>0, <1>11, <1>00, <1>01, <1>02 DEF GetDiffs, SyncAt, SyncGoto,
     publisherVars, subscriptionVars, network, receiverVars, syncVars, obsVars,
     SyncTypeOK, SequenceOK, SyncKnows, Seqno
<1>12. ASSUME NEW s \in Syncs, GetFails(s)
      PROVE  1..lastSeq' \subseteq known'
  BY <1>0, <1>12, <1>00, <1>01, <1>02 DEF GetFails, SyncAt, SyncGoto, Fault,
     publisherVars, subscriptionVars, network, receiverVars, syncVars, obsVars,
     SyncTypeOK, SequenceOK, SyncKnows, Seqno
<1>13. ASSUME NEW s \in Syncs, Baseline(s)
      PROVE  1..lastSeq' \subseteq known'
  BY <1>0, <1>13, <1>00, <1>01, <1>02 DEF Baseline, SyncAt, SyncGoto,
     FetchBaseline, BaselineArrives, BaselineFails, publisherVars,
     subscriptionVars, network, receiverVars, syncVars, obsVars, SyncTypeOK,
     SequenceOK, SyncKnows, Seqno
<1>14. ASSUME NEW s \in Syncs, SetSeq(s)
      PROVE  1..lastSeq' \subseteq known'
  BY <1>0, <1>14, <1>00, <1>01, <1>02 DEF SetSeq, SyncAt, SyncGoto,
     publisherVars, subscriptionVars, network, receiverVars, syncVars, obsVars,
     SyncTypeOK, SequenceOK, SyncKnows, Seqno
<1>15. ASSUME NEW s \in Syncs, ProcessDiff(s)
      PROVE  1..lastSeq' \subseteq known'
  <2>1. /\ Receive(NextOf(s), TRUE)
        /\ UNCHANGED <<publisherVars, network>>
    BY <1>15, ProcessDiffReceives, FetchedIsReceived
  <2>2. NextOf(s) \in Seqno /\ NextOf(s) <= sequence
    BY <1>15, NextIsFetched
  <2>3. DataIsQueued' /\ 1..lastSeq' \subseteq known'
    BY <1>0, <1>01, <2>1, <2>2, ReceiveData DEF QueueHasData
  <2> QED
    BY <2>3
<1>16. ASSUME NEW s \in Syncs, DupBaseline(s)
      PROVE  1..lastSeq' \subseteq known'
  BY <1>0, <1>16, <1>00, <1>01, <1>02 DEF DupBaseline, SyncAt, SyncGoto,
     BaselineArrives, BaselineFails, publisherVars, subscriptionVars, network,
     receiverVars, syncVars, obsVars, SyncTypeOK, SequenceOK, SyncKnows, Seqno
<1>17. ASSUME NEW s \in Syncs, DupSeq(s)
      PROVE  1..lastSeq' \subseteq known'
  BY <1>0, <1>17, <1>00, <1>01, <1>02 DEF DupSeq, SyncAt, SyncGoto,
     publisherVars, subscriptionVars, network, receiverVars, syncVars, obsVars,
     SyncTypeOK, SequenceOK, SyncKnows, Seqno
<1>18. ASSUME NEW s \in Syncs, DupClear(s)
      PROVE  1..lastSeq' \subseteq known'
  BY <1>0, <1>18, <1>00, <1>01, <1>02 DEF DupClear, SyncAt, SyncGoto,
     PutSequence, Fault, publisherVars, subscriptionVars, network,
     receiverVars, syncVars, obsVars, SyncTypeOK, SequenceOK, SyncKnows, Seqno
<1>19. ASSUME NEW s \in Syncs, Clear(s)
      PROVE  1..lastSeq' \subseteq known'
  BY <1>0, <1>19, <1>00, <1>01, <1>02 DEF Clear, SyncAt, SyncGoto,
     PutSequence, Fault, publisherVars, subscriptionVars, network,
     receiverVars, syncVars, obsVars, SyncTypeOK, SequenceOK, SyncKnows, Seqno
<1>20. ASSUME NEW s \in Syncs, Modify(s)
      PROVE  1..lastSeq' \subseteq known'
  BY <1>0, <1>20, <1>00, <1>01, <1>02 DEF Modify, SyncAt, SyncGoto,
     publisherVars, subscriptionVars, network, receiverVars, syncVars, obsVars,
     SyncTypeOK, SequenceOK, SyncKnows, Seqno
<1> QED
  BY <1>1, <1>2, <1>3, <1>4, <1>5, <1>6, <1>7, <1>8, <1>9, <1>10, <1>11, <1>12,
     <1>13, <1>14, <1>15, <1>16, <1>17, <1>18, <1>19, <1>20 DEF SyncNext, Publish,
     RunSync

\* What was cleared is known.
LEMMA NextCleared ==
    ASSUME SyncBase, DiffsSuffice, DiffsSuffice', Lossless, SyncNext
    PROVE  ClearedIsKnown'
<1>0. SyncTypeOK /\ SequenceOK /\ \A s \in Syncs : FetchedOK(s)
  BY DEF SyncBase
<1>00. /\ granularity = "high" /\ ~passedOver /\ ~passedOver'
       /\ \A n \in 1..sequence : kind[n] = "diff"
  BY DEF DiffsSuffice
<1>01. /\ 1..lastSeq \subseteq known /\ ClearedIsKnown /\ QueueHasData
       /\ DiffsAreConsecutive /\ \A s \in Syncs : SyncKnows(s)
  BY DEF Lossless
<1>02. known \subseteq known'
  BY NextKnows
<1>1. ASSUME WriteChange
      PROVE  ClearedIsKnown'
  BY <1>0, <1>1, <1>00, <1>01, <1>02 DEF WriteChange, publisherVars,
     subscriptionVars, network, receiverVars, syncVars, obsVars,
     ClearedIsKnown, SyncTypeOK, SequenceOK, FetchedOK, SyncKnows, Seqno
<1>2. ASSUME IncreaseSeq
      PROVE  ClearedIsKnown'
  BY <1>0, <1>2, <1>00, <1>01, <1>02 DEF IncreaseSeq, publisherVars,
     subscriptionVars, network, receiverVars, syncVars, obsVars,
     ClearedIsKnown, SyncTypeOK, SequenceOK, FetchedOK, SyncKnows, Seqno
<1>3. ASSUME CreateDiff
      PROVE  ClearedIsKnown'
  BY <1>0, <1>3, <1>00, <1>01, <1>02 DEF CreateDiff, publisherVars,
     subscriptionVars, network, receiverVars, syncVars, obsVars,
     ClearedIsKnown, SyncTypeOK, SequenceOK, FetchedOK, SyncKnows, Seqno
<1>4. ASSUME SendCallback
      PROVE  ClearedIsKnown'
  BY <1>0, <1>4, <1>00, <1>01, <1>02 DEF SendCallback, publisherVars,
     subscriptionVars, network, receiverVars, syncVars, obsVars,
     ClearedIsKnown, SyncTypeOK, SequenceOK, FetchedOK, SyncKnows, Seqno
<1>5. ASSUME NEW n \in Seqno, LoseCallback(n)
      PROVE  ClearedIsKnown'
  BY <1>0, <1>5, <1>00, <1>01, <1>02 DEF LoseCallback, publisherVars,
     subscriptionVars, network, receiverVars, syncVars, obsVars,
     ClearedIsKnown, SyncTypeOK, SequenceOK, FetchedOK, SyncKnows, Seqno
<1>6. ASSUME NEW n \in Seqno, ReceiveDiff(n)
      PROVE  ClearedIsKnown'
  <2>1. /\ n \in callbacks
        /\ Receive(n, TRUE)
        /\ UNCHANGED <<diffs, acks, passedOver, subscriptionVars, written,
                      sequence, step>>
    BY <1>00, <1>6, HighDiff DEF Receive
  <2>2. n <= sequence
    BY <1>0, <2>1 DEF SequenceOK
  <2>3. DataIsQueued' /\ 1..lastSeq' \subseteq known'
    BY <1>0, <1>01, <2>1, <2>2, ReceiveData DEF QueueHasData
  <2> QED
    BY <1>01, <1>02, <2>1 DEF ClearedIsKnown, subscriptionVars
<1>7. ASSUME NEW n \in Seqno, ReceiveResync(n)
      PROVE  ClearedIsKnown'
  <2>1. n \in 1..sequence /\ kind[n] = "resync"
    BY <1>0, <1>7 DEF ReceiveResync, SequenceOK
  <2> QED
    BY <1>00, <2>1
<1>8. ASSUME NEW n \in Seqno, DeliverAck(n)
      PROVE  ClearedIsKnown'
  BY <1>01, <1>8 DEF DeliverAck, QueueHasData
<1>9. ASSUME NEW s \in Syncs, Sync(s)
      PROVE  ClearedIsKnown'
  BY <1>0, <1>9, <1>00, <1>01, <1>02 DEF Sync, StartSync, publisherVars,
     subscriptionVars, network, receiverVars, syncVars, obsVars,
     ClearedIsKnown, SyncTypeOK, SequenceOK, FetchedOK, SyncKnows, Seqno
<1>10. ASSUME NEW s \in Syncs, GetSequence(s)
      PROVE  ClearedIsKnown'
  BY <1>0, <1>10, <1>00, <1>01, <1>02 DEF GetSequence, SyncAt, SyncGoto,
     publisherVars, subscriptionVars, network, receiverVars, syncVars, obsVars,
     ClearedIsKnown, SyncTypeOK, SequenceOK, FetchedOK, SyncKnows, Seqno
<1>11. ASSUME NEW s \in Syncs, GetDiffs(s)
      PROVE  ClearedIsKnown'
  BY <1>0, <1>11, <1>00, <1>01, <1>02 DEF GetDiffs, SyncAt, SyncGoto,
     publisherVars, subscriptionVars, network, receiverVars, syncVars, obsVars,
     ClearedIsKnown, SyncTypeOK, SequenceOK, FetchedOK, SyncKnows, Seqno
<1>12. ASSUME NEW s \in Syncs, GetFails(s)
      PROVE  ClearedIsKnown'
  BY <1>0, <1>12, <1>00, <1>01, <1>02 DEF GetFails, SyncAt, SyncGoto, Fault,
     publisherVars, subscriptionVars, network, receiverVars, syncVars, obsVars,
     ClearedIsKnown, SyncTypeOK, SequenceOK, FetchedOK, SyncKnows, Seqno
<1>13. ASSUME NEW s \in Syncs, Baseline(s)
      PROVE  ClearedIsKnown'
  BY <1>0, <1>13, <1>00, <1>01, <1>02 DEF Baseline, SyncAt, SyncGoto,
     FetchBaseline, BaselineArrives, BaselineFails, publisherVars,
     subscriptionVars, network, receiverVars, syncVars, obsVars,
     ClearedIsKnown, SyncTypeOK, SequenceOK, FetchedOK, SyncKnows, Seqno
<1>14. ASSUME NEW s \in Syncs, SetSeq(s)
      PROVE  ClearedIsKnown'
  BY <1>0, <1>14, <1>00, <1>01, <1>02 DEF SetSeq, SyncAt, SyncGoto,
     publisherVars, subscriptionVars, network, receiverVars, syncVars, obsVars,
     ClearedIsKnown, SyncTypeOK, SequenceOK, FetchedOK, SyncKnows, Seqno
<1>15. ASSUME NEW s \in Syncs, ProcessDiff(s)
      PROVE  ClearedIsKnown'
  <2>1. /\ Receive(NextOf(s), TRUE)
        /\ UNCHANGED <<publisherVars, network>>
    BY <1>15, ProcessDiffReceives, FetchedIsReceived
  <2>2. NextOf(s) \in Seqno /\ NextOf(s) <= sequence
    BY <1>15, NextIsFetched
  <2>3. DataIsQueued' /\ 1..lastSeq' \subseteq known'
    BY <1>0, <1>01, <2>1, <2>2, ReceiveData DEF QueueHasData
  <2> QED
    BY <1>01, <1>02, <2>1 DEF ClearedIsKnown, publisherVars, subscriptionVars
<1>16. ASSUME NEW s \in Syncs, DupBaseline(s)
      PROVE  ClearedIsKnown'
  BY <1>0, <1>16, <1>00, <1>01, <1>02 DEF DupBaseline, SyncAt, SyncGoto,
     BaselineArrives, BaselineFails, publisherVars, subscriptionVars, network,
     receiverVars, syncVars, obsVars, ClearedIsKnown, SyncTypeOK, SequenceOK,
     FetchedOK, SyncKnows, Seqno
<1>17. ASSUME NEW s \in Syncs, DupSeq(s)
      PROVE  ClearedIsKnown'
  BY <1>0, <1>17, <1>00, <1>01, <1>02 DEF DupSeq, SyncAt, SyncGoto,
     publisherVars, subscriptionVars, network, receiverVars, syncVars, obsVars,
     ClearedIsKnown, SyncTypeOK, SequenceOK, FetchedOK, SyncKnows, Seqno
<1>18. ASSUME NEW s \in Syncs, DupClear(s)
      PROVE  ClearedIsKnown'
  BY <1>0, <1>18, <1>00, <1>01, <1>02 DEF DupClear, SyncAt, SyncGoto,
     PutSequence, Fault, publisherVars, subscriptionVars, network,
     receiverVars, syncVars, obsVars, ClearedIsKnown, SyncTypeOK, SequenceOK,
     FetchedOK, SyncKnows, Seqno
<1>19. ASSUME NEW s \in Syncs, Clear(s)
      PROVE  ClearedIsKnown'
  BY <1>0, <1>19, <1>00, <1>01, <1>02 DEF Clear, SyncAt, SyncGoto,
     PutSequence, Fault, publisherVars, subscriptionVars, network,
     receiverVars, syncVars, obsVars, ClearedIsKnown, SyncTypeOK, SequenceOK,
     FetchedOK, SyncKnows, Seqno
<1>20. ASSUME NEW s \in Syncs, Modify(s)
      PROVE  ClearedIsKnown'
  BY <1>0, <1>20, <1>00, <1>01, <1>02 DEF Modify, SyncAt, SyncGoto,
     publisherVars, subscriptionVars, network, receiverVars, syncVars, obsVars,
     ClearedIsKnown, SyncTypeOK, SequenceOK, FetchedOK, SyncKnows, Seqno
<1> QED
  BY <1>1, <1>2, <1>3, <1>4, <1>5, <1>6, <1>7, <1>8, <1>9, <1>10, <1>11, <1>12,
     <1>13, <1>14, <1>15, <1>16, <1>17, <1>18, <1>19, <1>20 DEF SyncNext, Publish,
     RunSync

\* The queue has the data.
LEMMA NextQueue ==
    ASSUME SyncBase, DiffsSuffice, DiffsSuffice', Lossless, SyncNext
    PROVE  QueueHasData'
<1>0. SyncTypeOK /\ SequenceOK /\ \A s \in Syncs : FetchedOK(s)
  BY DEF SyncBase
<1>00. /\ granularity = "high" /\ ~passedOver /\ ~passedOver'
       /\ \A n \in 1..sequence : kind[n] = "diff"
  BY DEF DiffsSuffice
<1>01. /\ 1..lastSeq \subseteq known /\ ClearedIsKnown /\ QueueHasData
       /\ DiffsAreConsecutive /\ \A s \in Syncs : SyncKnows(s)
  BY DEF Lossless
<1>02. known \subseteq known'
  BY NextKnows
<1>1. ASSUME WriteChange
      PROVE  QueueHasData'
  BY <1>0, <1>1, <1>00, <1>01, <1>02 DEF WriteChange, publisherVars,
     subscriptionVars, network, receiverVars, syncVars, obsVars, QueueHasData,
     DataIsQueued
<1>2. ASSUME IncreaseSeq
      PROVE  QueueHasData'
  BY <1>0, <1>2, <1>00, <1>01, <1>02 DEF IncreaseSeq, publisherVars,
     subscriptionVars, network, receiverVars, syncVars, obsVars, QueueHasData,
     DataIsQueued
<1>3. ASSUME CreateDiff
      PROVE  QueueHasData'
  BY <1>0, <1>3, <1>00, <1>01, <1>02 DEF CreateDiff, publisherVars,
     subscriptionVars, network, receiverVars, syncVars, obsVars, QueueHasData,
     DataIsQueued
<1>4. ASSUME SendCallback
      PROVE  QueueHasData'
  BY <1>0, <1>4, <1>00, <1>01, <1>02 DEF SendCallback, publisherVars,
     subscriptionVars, network, receiverVars, syncVars, obsVars, QueueHasData,
     DataIsQueued
<1>5. ASSUME NEW n \in Seqno, LoseCallback(n)
      PROVE  QueueHasData'
  BY <1>0, <1>5, <1>00, <1>01, <1>02 DEF LoseCallback, publisherVars,
     subscriptionVars, network, receiverVars, syncVars, obsVars, QueueHasData,
     DataIsQueued
<1>6. ASSUME NEW n \in Seqno, ReceiveDiff(n)
      PROVE  QueueHasData'
  <2>1. /\ n \in callbacks
        /\ Receive(n, TRUE)
        /\ UNCHANGED <<diffs, acks, passedOver, subscriptionVars, written,
                      sequence, step>>
    BY <1>00, <1>6, HighDiff DEF Receive
  <2>2. n <= sequence
    BY <1>0, <2>1 DEF SequenceOK
  <2>3. DataIsQueued' /\ 1..lastSeq' \subseteq known'
    BY <1>0, <1>01, <2>1, <2>2, ReceiveData DEF QueueHasData
  <2> QED
    BY <1>01, <2>1, <2>3 DEF QueueHasData
<1>7. ASSUME NEW n \in Seqno, ReceiveResync(n)
      PROVE  QueueHasData'
  <2>1. n \in 1..sequence /\ kind[n] = "resync"
    BY <1>0, <1>7 DEF ReceiveResync, SequenceOK
  <2> QED
    BY <1>00, <2>1
<1>8. ASSUME NEW n \in Seqno, DeliverAck(n)
      PROVE  QueueHasData'
  BY <1>01, <1>8 DEF DeliverAck, QueueHasData
<1>9. ASSUME NEW s \in Syncs, Sync(s)
      PROVE  QueueHasData'
  BY <1>0, <1>9, <1>00, <1>01, <1>02 DEF Sync, StartSync, publisherVars,
     subscriptionVars, network, receiverVars, syncVars, obsVars, QueueHasData,
     DataIsQueued
<1>10. ASSUME NEW s \in Syncs, GetSequence(s)
      PROVE  QueueHasData'
  BY <1>0, <1>10, <1>00, <1>01, <1>02 DEF GetSequence, SyncAt, SyncGoto,
     publisherVars, subscriptionVars, network, receiverVars, syncVars, obsVars,
     QueueHasData, DataIsQueued
<1>11. ASSUME NEW s \in Syncs, GetDiffs(s)
      PROVE  QueueHasData'
  BY <1>0, <1>11, <1>00, <1>01, <1>02 DEF GetDiffs, SyncAt, SyncGoto,
     publisherVars, subscriptionVars, network, receiverVars, syncVars, obsVars,
     QueueHasData, DataIsQueued
<1>12. ASSUME NEW s \in Syncs, GetFails(s)
      PROVE  QueueHasData'
  BY <1>0, <1>12, <1>00, <1>01, <1>02 DEF GetFails, SyncAt, SyncGoto, Fault,
     publisherVars, subscriptionVars, network, receiverVars, syncVars, obsVars,
     QueueHasData, DataIsQueued
<1>13. ASSUME NEW s \in Syncs, Baseline(s)
      PROVE  QueueHasData'
  BY <1>0, <1>13, <1>00, <1>01, <1>02 DEF Baseline, SyncAt, SyncGoto,
     FetchBaseline, BaselineArrives, BaselineFails, publisherVars,
     subscriptionVars, network, receiverVars, syncVars, obsVars, QueueHasData,
     DataIsQueued
<1>14. ASSUME NEW s \in Syncs, SetSeq(s)
      PROVE  QueueHasData'
  BY <1>0, <1>14, <1>00, <1>01, <1>02 DEF SetSeq, SyncAt, SyncGoto,
     publisherVars, subscriptionVars, network, receiverVars, syncVars, obsVars,
     QueueHasData, DataIsQueued
<1>15. ASSUME NEW s \in Syncs, ProcessDiff(s)
      PROVE  QueueHasData'
  <2>1. /\ Receive(NextOf(s), TRUE)
        /\ UNCHANGED <<publisherVars, network>>
    BY <1>15, ProcessDiffReceives, FetchedIsReceived
  <2>2. NextOf(s) \in Seqno /\ NextOf(s) <= sequence
    BY <1>15, NextIsFetched
  <2>3. DataIsQueued' /\ 1..lastSeq' \subseteq known'
    BY <1>0, <1>01, <2>1, <2>2, ReceiveData DEF QueueHasData
  <2> QED
    BY <1>01, <2>1, <2>3 DEF QueueHasData, network
<1>16. ASSUME NEW s \in Syncs, DupBaseline(s)
      PROVE  QueueHasData'
  BY <1>0, <1>16, <1>00, <1>01, <1>02 DEF DupBaseline, SyncAt, SyncGoto,
     BaselineArrives, BaselineFails, publisherVars, subscriptionVars, network,
     receiverVars, syncVars, obsVars, QueueHasData, DataIsQueued
<1>17. ASSUME NEW s \in Syncs, DupSeq(s)
      PROVE  QueueHasData'
  BY <1>0, <1>17, <1>00, <1>01, <1>02 DEF DupSeq, SyncAt, SyncGoto,
     publisherVars, subscriptionVars, network, receiverVars, syncVars, obsVars,
     QueueHasData, DataIsQueued
<1>18. ASSUME NEW s \in Syncs, DupClear(s)
      PROVE  QueueHasData'
  BY <1>0, <1>18, <1>00, <1>01, <1>02 DEF DupClear, SyncAt, SyncGoto,
     PutSequence, Fault, publisherVars, subscriptionVars, network,
     receiverVars, syncVars, obsVars, QueueHasData, DataIsQueued
<1>19. ASSUME NEW s \in Syncs, Clear(s)
      PROVE  QueueHasData'
  BY <1>0, <1>19, <1>00, <1>01, <1>02 DEF Clear, SyncAt, SyncGoto,
     PutSequence, Fault, publisherVars, subscriptionVars, network,
     receiverVars, syncVars, obsVars, QueueHasData, DataIsQueued
<1>20. ASSUME NEW s \in Syncs, Modify(s)
      PROVE  QueueHasData'
  BY <1>0, <1>20, <1>00, <1>01, <1>02 DEF Modify, SyncAt, SyncGoto,
     publisherVars, subscriptionVars, network, receiverVars, syncVars, obsVars,
     QueueHasData, DataIsQueued
<1> QED
  BY <1>1, <1>2, <1>3, <1>4, <1>5, <1>6, <1>7, <1>8, <1>9, <1>10, <1>11, <1>12,
     <1>13, <1>14, <1>15, <1>16, <1>17, <1>18, <1>19, <1>20 DEF SyncNext, Publish,
     RunSync

\* The diffs stay consecutive.
LEMMA NextConsecutive ==
    ASSUME SyncBase, DiffsSuffice, DiffsSuffice', Lossless, SyncNext
    PROVE  DiffsAreConsecutive'
<1>0. SyncTypeOK /\ SequenceOK /\ \A s \in Syncs : FetchedOK(s)
  BY DEF SyncBase
<1>00. /\ granularity = "high" /\ ~passedOver /\ ~passedOver'
       /\ \A n \in 1..sequence : kind[n] = "diff"
  BY DEF DiffsSuffice
<1>01. /\ 1..lastSeq \subseteq known /\ ClearedIsKnown /\ QueueHasData
       /\ DiffsAreConsecutive /\ \A s \in Syncs : SyncKnows(s)
  BY DEF Lossless
<1>02. known \subseteq known'
  BY NextKnows
<1>1. ASSUME WriteChange
      PROVE  DiffsAreConsecutive'
  BY <1>0, <1>1, <1>00, <1>01, <1>02 DEF WriteChange, publisherVars,
     subscriptionVars, network, receiverVars, syncVars, obsVars,
     DiffsAreConsecutive, SyncTypeOK, SequenceOK
<1>2. ASSUME IncreaseSeq
      PROVE  DiffsAreConsecutive'
  <2>1. /\ sequence' = sequence + 1 /\ diffs' = diffs
        /\ step' = IF kind[sequence'] = "diff" THEN "create" ELSE "send"
        /\ step = "increase"
        /\ UNCHANGED kind
    BY <1>2 DEF IncreaseSeq, subscriptionVars
  <2>2. sequence \in Nat
    BY <1>0 DEF SyncTypeOK
  <2>3. step' = "create"
    <3>1. sequence' \in 1..sequence'
      BY <2>1, <2>2
    <3> QED
      BY <2>1, <3>1 DEF DiffsSuffice
  <2>4. ASSUME NEW d \in diffs, NEW k \in d..sequence + 1, k # sequence + 1
        PROVE  k \in diffs
    <3>1. k \in d..sequence
      BY <1>0, <2>2, <2>4 DEF SequenceOK
    <3> QED
      BY <1>01, <2>1, <2>4, <3>1 DEF DiffsAreConsecutive
  <2> QED
    BY <2>1, <2>3, <2>4 DEF DiffsAreConsecutive
<1>3. ASSUME CreateDiff
      PROVE  DiffsAreConsecutive'
  BY <1>0, <1>3, <1>00, <1>01, <1>02 DEF CreateDiff, publisherVars,
     subscriptionVars, network, receiverVars, syncVars, obsVars,
     DiffsAreConsecutive, SyncTypeOK, SequenceOK
<1>4. ASSUME SendCallback
      PROVE  DiffsAreConsecutive'
  BY <1>0, <1>4, <1>00, <1>01, <1>02 DEF SendCallback, publisherVars,
     subscriptionVars, network, receiverVars, syncVars, obsVars,
     DiffsAreConsecutive, SyncTypeOK, SequenceOK
<1>5. ASSUME NEW n \in Seqno, LoseCallback(n)
      PROVE  DiffsAreConsecutive'
  BY <1>0, <1>5, <1>00, <1>01, <1>02 DEF LoseCallback, publisherVars,
     subscriptionVars, network, receiverVars, syncVars, obsVars,
     DiffsAreConsecutive, SyncTypeOK, SequenceOK
<1>6. ASSUME NEW n \in Seqno, ReceiveDiff(n)
      PROVE  DiffsAreConsecutive'
  <2>1. /\ n \in callbacks
        /\ Receive(n, TRUE)
        /\ UNCHANGED <<diffs, acks, passedOver, subscriptionVars, written,
                      sequence, step>>
    BY <1>00, <1>6, HighDiff DEF Receive
  <2>2. n <= sequence
    BY <1>0, <2>1 DEF SequenceOK
  <2>3. DataIsQueued' /\ 1..lastSeq' \subseteq known'
    BY <1>0, <1>01, <2>1, <2>2, ReceiveData DEF QueueHasData
  <2> QED
    BY <1>01, <2>1 DEF DiffsAreConsecutive
<1>7. ASSUME NEW n \in Seqno, ReceiveResync(n)
      PROVE  DiffsAreConsecutive'
  <2>1. n \in 1..sequence /\ kind[n] = "resync"
    BY <1>0, <1>7 DEF ReceiveResync, SequenceOK
  <2> QED
    BY <1>00, <2>1
<1>8. ASSUME NEW n \in Seqno, DeliverAck(n)
      PROVE  DiffsAreConsecutive'
  BY <1>01, <1>8 DEF DeliverAck, QueueHasData
<1>9. ASSUME NEW s \in Syncs, Sync(s)
      PROVE  DiffsAreConsecutive'
  BY <1>0, <1>9, <1>00, <1>01, <1>02 DEF Sync, StartSync, publisherVars,
     subscriptionVars, network, receiverVars, syncVars, obsVars,
     DiffsAreConsecutive, SyncTypeOK, SequenceOK
<1>10. ASSUME NEW s \in Syncs, GetSequence(s)
      PROVE  DiffsAreConsecutive'
  BY <1>0, <1>10, <1>00, <1>01, <1>02 DEF GetSequence, SyncAt, SyncGoto,
     publisherVars, subscriptionVars, network, receiverVars, syncVars, obsVars,
     DiffsAreConsecutive, SyncTypeOK, SequenceOK
<1>11. ASSUME NEW s \in Syncs, GetDiffs(s)
      PROVE  DiffsAreConsecutive'
  BY <1>0, <1>11, <1>00, <1>01, <1>02 DEF GetDiffs, SyncAt, SyncGoto,
     publisherVars, subscriptionVars, network, receiverVars, syncVars, obsVars,
     DiffsAreConsecutive, SyncTypeOK, SequenceOK
<1>12. ASSUME NEW s \in Syncs, GetFails(s)
      PROVE  DiffsAreConsecutive'
  BY <1>0, <1>12, <1>00, <1>01, <1>02 DEF GetFails, SyncAt, SyncGoto, Fault,
     publisherVars, subscriptionVars, network, receiverVars, syncVars, obsVars,
     DiffsAreConsecutive, SyncTypeOK, SequenceOK
<1>13. ASSUME NEW s \in Syncs, Baseline(s)
      PROVE  DiffsAreConsecutive'
  BY <1>0, <1>13, <1>00, <1>01, <1>02 DEF Baseline, SyncAt, SyncGoto,
     FetchBaseline, BaselineArrives, BaselineFails, publisherVars,
     subscriptionVars, network, receiverVars, syncVars, obsVars,
     DiffsAreConsecutive, SyncTypeOK, SequenceOK
<1>14. ASSUME NEW s \in Syncs, SetSeq(s)
      PROVE  DiffsAreConsecutive'
  BY <1>0, <1>14, <1>00, <1>01, <1>02 DEF SetSeq, SyncAt, SyncGoto,
     publisherVars, subscriptionVars, network, receiverVars, syncVars, obsVars,
     DiffsAreConsecutive, SyncTypeOK, SequenceOK
<1>15. ASSUME NEW s \in Syncs, ProcessDiff(s)
      PROVE  DiffsAreConsecutive'
  <2>1. /\ Receive(NextOf(s), TRUE)
        /\ UNCHANGED <<publisherVars, network>>
    BY <1>15, ProcessDiffReceives, FetchedIsReceived
  <2>2. NextOf(s) \in Seqno /\ NextOf(s) <= sequence
    BY <1>15, NextIsFetched
  <2>3. DataIsQueued' /\ 1..lastSeq' \subseteq known'
    BY <1>0, <1>01, <2>1, <2>2, ReceiveData DEF QueueHasData
  <2> QED
    BY <1>01, <2>1 DEF DiffsAreConsecutive, publisherVars
<1>16. ASSUME NEW s \in Syncs, DupBaseline(s)
      PROVE  DiffsAreConsecutive'
  BY <1>0, <1>16, <1>00, <1>01, <1>02 DEF DupBaseline, SyncAt, SyncGoto,
     BaselineArrives, BaselineFails, publisherVars, subscriptionVars, network,
     receiverVars, syncVars, obsVars, DiffsAreConsecutive, SyncTypeOK,
     SequenceOK
<1>17. ASSUME NEW s \in Syncs, DupSeq(s)
      PROVE  DiffsAreConsecutive'
  BY <1>0, <1>17, <1>00, <1>01, <1>02 DEF DupSeq, SyncAt, SyncGoto,
     publisherVars, subscriptionVars, network, receiverVars, syncVars, obsVars,
     DiffsAreConsecutive, SyncTypeOK, SequenceOK
<1>18. ASSUME NEW s \in Syncs, DupClear(s)
      PROVE  DiffsAreConsecutive'
  BY <1>0, <1>18, <1>00, <1>01, <1>02 DEF DupClear, SyncAt, SyncGoto,
     PutSequence, Fault, publisherVars, subscriptionVars, network,
     receiverVars, syncVars, obsVars, DiffsAreConsecutive, SyncTypeOK,
     SequenceOK
<1>19. ASSUME NEW s \in Syncs, Clear(s)
      PROVE  DiffsAreConsecutive'
  BY <1>0, <1>19, <1>00, <1>01, <1>02 DEF Clear, SyncAt, SyncGoto,
     PutSequence, Fault, publisherVars, subscriptionVars, network,
     receiverVars, syncVars, obsVars, DiffsAreConsecutive, SyncTypeOK,
     SequenceOK
<1>20. ASSUME NEW s \in Syncs, Modify(s)
      PROVE  DiffsAreConsecutive'
  BY <1>0, <1>20, <1>00, <1>01, <1>02 DEF Modify, SyncAt, SyncGoto,
     publisherVars, subscriptionVars, network, receiverVars, syncVars, obsVars,
     DiffsAreConsecutive, SyncTypeOK, SequenceOK
<1> QED
  BY <1>1, <1>2, <1>3, <1>4, <1>5, <1>6, <1>7, <1>8, <1>9, <1>10, <1>11, <1>12,
     <1>13, <1>14, <1>15, <1>16, <1>17, <1>18, <1>19, <1>20 DEF SyncNext, Publish,
     RunSync

\* A sync knows what it is going to count.
LEMMA NextSyncKnows ==
    ASSUME SyncBase, DiffsSuffice, DiffsSuffice', Lossless, OneSync, NEW t \in
       Syncs, SyncNext
    PROVE  SyncKnows(t)'
<1>0. SyncTypeOK /\ SequenceOK /\ \A s \in Syncs : FetchedOK(s)
  BY DEF SyncBase
<1>00. /\ granularity = "high" /\ ~passedOver /\ ~passedOver'
       /\ \A n \in 1..sequence : kind[n] = "diff"
  BY DEF DiffsSuffice
<1>01. /\ 1..lastSeq \subseteq known /\ ClearedIsKnown /\ QueueHasData
       /\ DiffsAreConsecutive /\ \A s \in Syncs : SyncKnows(s)
  BY DEF Lossless
<1>02. known \subseteq known'
  BY NextKnows
<1>1. ASSUME WriteChange
      PROVE  SyncKnows(t)'
  BY <1>0, <1>1, <1>00, <1>01, <1>02 DEF WriteChange, publisherVars,
     subscriptionVars, network, receiverVars, syncVars, obsVars, SyncKnows,
     FetchedOK, SyncTypeOK, SequenceOK, OneSync
<1>2. ASSUME IncreaseSeq
      PROVE  SyncKnows(t)'
  BY <1>0, <1>2, <1>00, <1>01, <1>02 DEF IncreaseSeq, publisherVars,
     subscriptionVars, network, receiverVars, syncVars, obsVars, SyncKnows,
     FetchedOK, SyncTypeOK, SequenceOK, OneSync
<1>3. ASSUME CreateDiff
      PROVE  SyncKnows(t)'
  BY <1>0, <1>3, <1>00, <1>01, <1>02 DEF CreateDiff, publisherVars,
     subscriptionVars, network, receiverVars, syncVars, obsVars, SyncKnows,
     FetchedOK, SyncTypeOK, SequenceOK, OneSync
<1>4. ASSUME SendCallback
      PROVE  SyncKnows(t)'
  BY <1>0, <1>4, <1>00, <1>01, <1>02 DEF SendCallback, publisherVars,
     subscriptionVars, network, receiverVars, syncVars, obsVars, SyncKnows,
     FetchedOK, SyncTypeOK, SequenceOK, OneSync
<1>5. ASSUME NEW n \in Seqno, LoseCallback(n)
      PROVE  SyncKnows(t)'
  BY <1>0, <1>5, <1>00, <1>01, <1>02 DEF LoseCallback, publisherVars,
     subscriptionVars, network, receiverVars, syncVars, obsVars, SyncKnows,
     FetchedOK, SyncTypeOK, SequenceOK, OneSync
<1>6. ASSUME NEW n \in Seqno, ReceiveDiff(n)
      PROVE  SyncKnows(t)'
  <2>1. CASE Keep(n, TRUE) /\ UNCHANGED syncVars
    <3>1. lastSeq <= lastSeq' /\ lastSeq \in Nat /\ lastSeq' \in Int
      <4>1. lastSeq' \in Int
        BY NextReceiver DEF ReceiverOK
      <4>2. lastSeq <= lastSeq'
        BY <1>0, <2>1, KeepGrows
      <4>3. lastSeq \in Nat
        BY <1>0 DEF SyncTypeOK
      <4> QED
        BY <4>1, <4>2, <4>3
    <3>2. todo[t] \subseteq Int
      BY <1>0 DEF FetchedOK
    <3>3. SyncKnows(t)
      BY <1>01
    <3> QED
      BY <1>02, <2>1, <3>1, <3>2, <3>3 DEF SyncKnows, syncVars
  <2>2. CASE \E s \in Syncs : StartSync(s)
    <3>1. PICK s \in Syncs : StartSync(s)
      BY <2>2
    <3>2. s = t
      BY DEF OneSync
    <3>3. syncStep'[t] = "get_sequence" /\ processed'[t] = FALSE
      BY <1>0, <3>1, <3>2 DEF StartSync, SyncTypeOK
    <3> QED
      BY <3>3 DEF SyncKnows
  <2> QED
    BY <1>00, <1>6, <2>1, <2>2, HighDiff
<1>7. ASSUME NEW n \in Seqno, ReceiveResync(n)
      PROVE  SyncKnows(t)'
  <2>1. n \in 1..sequence /\ kind[n] = "resync"
    BY <1>0, <1>7 DEF ReceiveResync, SequenceOK
  <2> QED
    BY <1>00, <2>1
<1>8. ASSUME NEW n \in Seqno, DeliverAck(n)
      PROVE  SyncKnows(t)'
  BY <1>01, <1>8 DEF DeliverAck, QueueHasData
<1>9. ASSUME NEW s \in Syncs, Sync(s)
      PROVE  SyncKnows(t)'
  BY <1>0, <1>9, <1>00, <1>01, <1>02 DEF Sync, StartSync, publisherVars,
     subscriptionVars, network, receiverVars, syncVars, obsVars, SyncKnows,
     FetchedOK, SyncTypeOK, SequenceOK, OneSync
<1>10. ASSUME NEW s \in Syncs, GetSequence(s)
      PROVE  SyncKnows(t)'
  BY <1>0, <1>10, <1>00, <1>01, <1>02 DEF GetSequence, SyncAt, SyncGoto,
     publisherVars, subscriptionVars, network, receiverVars, syncVars, obsVars,
     SyncKnows, FetchedOK, SyncTypeOK, SequenceOK, OneSync
<1>11. ASSUME NEW s \in Syncs, GetDiffs(s)
      PROVE  SyncKnows(t)'
  <2>0. s = t
    BY DEF OneSync
  <2>1. /\ todo'[t] = diffs /\ UNCHANGED <<processed, known, lastSeq,
             finalSeq>>
        /\ syncStep'[t] \in {"baseline", "process"} /\ ~processed[t]
    BY <1>0, <1>01, <1>11, <2>0 DEF GetDiffs, SyncAt, SyncGoto,
       receiverVars, SyncTypeOK, SyncKnows
  <2>2. ASSUME syncStep'[t] = "process"
        PROVE  \A d \in diffs : d..maxSequence'[t] \subseteq diffs
    <3>1. diffs # {}
      BY <1>0, <1>11, <2>0, <2>2 DEF GetDiffs, SyncGoto, SyncTypeOK
    <3>2. maxSequence'[t] \in diffs /\ \A d \in diffs : d <= maxSequence'[t]
      BY <1>0, <1>11, <2>0, <3>1, GreatestDiff DEF GetDiffs, SyncTypeOK
    <3>3. ASSUME NEW d \in diffs, NEW k \in d..maxSequence'[t], k \notin diffs
          PROVE  FALSE
      <4>1. k \in d..sequence
        BY <1>0, <3>2 DEF SequenceOK, SyncTypeOK
      <4>2. k = sequence
        BY <1>01, <3>3, <4>1 DEF DiffsAreConsecutive
      <4>3. maxSequence'[t] = k
        BY <1>0, <3>2, <4>2 DEF SequenceOK, SyncTypeOK
      <4> QED
        BY <3>2, <3>3, <4>3
    <3> QED
      BY <3>3
  <2> QED
    BY <2>1, <2>2 DEF SyncKnows
<1>12. ASSUME NEW s \in Syncs, GetFails(s)
      PROVE  SyncKnows(t)'
  BY <1>0, <1>12, <1>00, <1>01, <1>02 DEF GetFails, SyncAt, SyncGoto, Fault,
     publisherVars, subscriptionVars, network, receiverVars, syncVars, obsVars,
     SyncKnows, FetchedOK, SyncTypeOK, SequenceOK, OneSync
<1>13. ASSUME NEW s \in Syncs, Baseline(s)
      PROVE  SyncKnows(t)'
  BY <1>0, <1>13, <1>00, <1>01, <1>02 DEF Baseline, SyncAt, SyncGoto,
     FetchBaseline, BaselineArrives, BaselineFails, publisherVars,
     subscriptionVars, network, receiverVars, syncVars, obsVars, SyncKnows,
     FetchedOK, SyncTypeOK, SequenceOK, OneSync
<1>14. ASSUME NEW s \in Syncs, SetSeq(s)
      PROVE  SyncKnows(t)'
  BY <1>0, <1>14, <1>00, <1>01, <1>02 DEF SetSeq, SyncAt, SyncGoto,
     publisherVars, subscriptionVars, network, receiverVars, syncVars, obsVars,
     SyncKnows, FetchedOK, SyncTypeOK, SequenceOK, OneSync
<1>15. ASSUME NEW s \in Syncs, ProcessDiff(s)
      PROVE  SyncKnows(t)'
  <2>0. s = t
    BY DEF OneSync
  <2> DEFINE n == NextOf(t)
  <2>1. /\ n \in todo[t] /\ \A d \in todo[t] : n <= d
        /\ n \in Seqno /\ n <= sequence
        /\ todo'[t] = todo[t] \ {n}
        /\ syncStep[t] = "process"
    BY <1>15, <2>0, NextIsFetched
  <2>2. /\ Receive(n, TRUE)
        /\ UNCHANGED <<publisherVars, network, finalSeq, maxSequence>>
    BY <1>15, <2>0, ProcessDiffReceives, FetchedIsReceived
  <2>3. 1..lastSeq' \subseteq known'
    BY NextCovers
  <2>4. lastSeq' \in Nat /\ lastSeq \in Nat
    BY <1>0, NextReceiver DEF ReceiverOK, SyncTypeOK
  <2>5. /\ maxSequence[t] \in todo[t] /\ \A d \in todo[t] : d <= maxSequence[t]
        /\ todo[t] \subseteq 1..sequence
    BY <1>0, <2>1 DEF FetchedOK
  <2>6. /\ \A d \in todo[t] : d..maxSequence[t] \subseteq todo[t]
        /\ processed[t] => \E d \in todo[t] : d <= lastSeq + 1
    BY <1>01, <2>1 DEF SyncKnows
  <2>7. ASSUME processed'[t]
        PROVE  n <= lastSeq'
    <3>1. CASE ProcessInOrder(n, TRUE) \/ Duplicate(n)
      <4>1. Keep(n, TRUE)
        BY <3>1 DEF Keep
      <4> QED
        BY <1>0, <2>1, <3>1, <4>1, KeepGrows
    <3>2. CASE Queue(n, TRUE) \/ Reject(n) \/ GapTimeout(n)
      <4>1. n > lastSeq + 1
        BY <3>2 DEF Queue, Reject, GapTimeout
      <4>2. ~ProcessInOrder(n, TRUE)
        <5>1. n # lastSeq + 1
          BY <2>1, <2>4, <4>1 DEF Seqno
        <5> QED
          BY <5>1 DEF ProcessInOrder
      <4>3. processed[t]
        BY <1>0, <1>15, <2>0, <2>7, <4>2, ProcessDiffReceives DEF SyncTypeOK
      <4>4. PICK d \in todo[t] : d <= lastSeq + 1
        BY <2>6, <4>3
      <4> QED
        BY <2>1, <2>4, <2>5, <4>1, <4>4
    <3> QED
      BY <2>2, <3>1, <3>2 DEF Receive, Keep
  <2>8. CASE todo'[t] # {}
    <3>1. syncStep'[t] = "process"
      BY <1>0, <1>15, <2>0, <2>1, <2>8, ProcessDiffReceives DEF SyncGoto,
         SyncTypeOK
    <3>2. ASSUME NEW d \in todo'[t], NEW k \in d..maxSequence[t]
          PROVE  k \in todo'[t]
      <4>1. d \in todo[t] /\ n <= d /\ n # d /\ k \in todo[t]
        BY <2>1, <2>6
      <4>2. k # n
        BY <2>5, <2>1, <4>1
      <4> QED
        BY <2>1, <4>1, <4>2
    <3>3. ASSUME processed'[t]
          PROVE  \E d \in todo'[t] : d <= lastSeq' + 1
      <4>1. PICK d \in todo[t] : d # n
        BY <2>1, <2>8
      <4>2. n <= d /\ n \in Int /\ d \in Int /\ d <= maxSequence[t] /\
         maxSequence[t] \in Int
        BY <2>1, <2>5, <4>1
      <4>3. n + 1 \in n..maxSequence[t]
        BY <4>1, <4>2
      <4>4. n + 1 \in todo'[t]
        BY <2>1, <2>6, <4>2, <4>3
      <4>5. n + 1 <= lastSeq' + 1
        BY <2>4, <2>7, <3>3, <4>2
      <4> QED
        BY <4>4, <4>5
    <3> HIDE DEF n
    <3> QED
      BY <2>2, <3>1, <3>2, <3>3 DEF SyncKnows
  <2>9. CASE todo'[t] = {}
    <3>1. maxSequence[t] = n
      BY <2>1, <2>5, <2>9
    <3>2. syncStep'[t] = IF processed'[t] THEN "clear" ELSE "dup_baseline"
      BY <1>0, <1>15, <2>0, <2>1, <2>9, ProcessDiffReceives DEF SyncGoto,
         SyncTypeOK
    <3>3. processed'[t] => 1..maxSequence[t] \subseteq known'
      <4>1. ASSUME processed'[t]
            PROVE  1..maxSequence[t] \subseteq known'
        <5>1. n <= lastSeq' /\ n \in Int
          BY <2>1, <2>7, <4>1 DEF Seqno
        <5> HIDE DEF n
        <5> QED
          BY <2>3, <2>4, <3>1, <5>1
      <4> QED
        BY <4>1
    <3> HIDE DEF n
    <3> QED
      BY <2>2, <3>2, <3>3 DEF SyncKnows
  <2> QED
    BY <2>8, <2>9
<1>16. ASSUME NEW s \in Syncs, DupBaseline(s)
      PROVE  SyncKnows(t)'
  BY <1>0, <1>16, <1>00, <1>01, <1>02 DEF DupBaseline, SyncAt, SyncGoto,
     BaselineArrives, BaselineFails, publisherVars, subscriptionVars, network,
     receiverVars, syncVars, obsVars, SyncKnows, FetchedOK, SyncTypeOK,
     SequenceOK, OneSync
<1>17. ASSUME NEW s \in Syncs, DupSeq(s)
      PROVE  SyncKnows(t)'
  BY <1>0, <1>17, <1>00, <1>01, <1>02 DEF DupSeq, SyncAt, SyncGoto,
     publisherVars, subscriptionVars, network, receiverVars, syncVars, obsVars,
     SyncKnows, FetchedOK, SyncTypeOK, SequenceOK, OneSync
<1>18. ASSUME NEW s \in Syncs, DupClear(s)
      PROVE  SyncKnows(t)'
  BY <1>0, <1>18, <1>00, <1>01, <1>02 DEF DupClear, SyncAt, SyncGoto,
     PutSequence, Fault, publisherVars, subscriptionVars, network,
     receiverVars, syncVars, obsVars, SyncKnows, FetchedOK, SyncTypeOK,
     SequenceOK, OneSync
<1>19. ASSUME NEW s \in Syncs, Clear(s)
      PROVE  SyncKnows(t)'
  BY <1>0, <1>19, <1>00, <1>01, <1>02 DEF Clear, SyncAt, SyncGoto,
     PutSequence, Fault, publisherVars, subscriptionVars, network,
     receiverVars, syncVars, obsVars, SyncKnows, FetchedOK, SyncTypeOK,
     SequenceOK, OneSync
<1>20. ASSUME NEW s \in Syncs, Modify(s)
      PROVE  SyncKnows(t)'
  BY <1>0, <1>20, <1>00, <1>01, <1>02 DEF Modify, SyncAt, SyncGoto,
     publisherVars, subscriptionVars, network, receiverVars, syncVars, obsVars,
     SyncKnows, FetchedOK, SyncTypeOK, SequenceOK, OneSync
<1> QED
  BY <1>1, <1>2, <1>3, <1>4, <1>5, <1>6, <1>7, <1>8, <1>9, <1>10, <1>11, <1>12,
     <1>13, <1>14, <1>15, <1>16, <1>17, <1>18, <1>19, <1>20 DEF SyncNext, Publish,
     RunSync

\* A step that changes nothing keeps the invariant.
LEMMA SyncStutters ==
    ASSUME SyncInv, UNCHANGED allVars
    PROVE  SyncInv'
<1> USE DEF allVars, publisherVars, subscriptionVars, network, receiverVars,
   syncVars, obsVars
<1>1. SyncBase'
  <2>1. SyncTypeOK'
    BY DEF SyncInv, SyncBase, SyncTypeOK
  <2>2. SequenceOK'
    BY DEF SyncInv, SyncBase, SequenceOK, Queued
  <2>3. \A s \in Syncs : FetchedOK(s)'
    BY DEF SyncInv, SyncBase, FetchedOK
  <2> QED
    BY <2>1, <2>2, <2>3 DEF SyncBase
<1>2. ASSUME DiffsSuffice'
      PROVE  Lossless'
  <2>1. Lossless
    BY <1>2 DEF SyncInv, DiffsSuffice
  <2>2. ClearedIsKnown' /\ QueueHasData' /\ DiffsAreConsecutive'
    BY <2>1 DEF Lossless, ClearedIsKnown, QueueHasData, DataIsQueued,
       DiffsAreConsecutive
  <2>3. \A s \in Syncs : SyncKnows(s)'
    BY <2>1 DEF Lossless, SyncKnows
  <2> QED
    BY <2>1, <2>2, <2>3 DEF Lossless
<1> QED
  BY <1>1, <1>2 DEF SyncInv

\* It holds at first.
LEMMA SyncInitInv ==
    ASSUME SyncInit
    PROVE  SyncInv
<1>1. SyncTypeOK /\ IsFiniteSet(pending)
  <2>1. kind \in [Seqno -> {"diff", "resync"}] /\ granularity \in Granularities
    BY DEF SyncInit
  <2>2. /\ written \in 0..MaxSeq /\ sequence \in 0..written
        /\ diffs \in SUBSET Seqno /\ callbacks \in SUBSET Seqno
        /\ acks \in SUBSET Seqno /\ lastSeq \in 0..sequence
        /\ known \in SUBSET (1..written) /\ faults \in 0..MaxFaults
        /\ step \in {"idle", "increase", "create", "send"}
    BY SyncNumbers DEF SyncInit
  <2>3. /\ pending \in SUBSET Entries /\ IsFiniteSet(pending)
        /\ Cardinality(pending) <= MaxPending
    BY FS_EmptySet, SyncNumbers DEF SyncInit
  <2>4. processed \in [Syncs -> BOOLEAN] /\ passedOver \in BOOLEAN
    BY DEF SyncInit
  <2>5. /\ syncStep \in [Syncs -> {"idle"} \cup SyncSteps]
        /\ finalSeq \in [Syncs -> 0..MaxSeq]
        /\ todo \in [Syncs -> SUBSET Seqno]
        /\ maxSequence \in [Syncs -> 0..MaxSeq]
    BY SyncNumbers DEF SyncInit
  <2> QED
    BY <2>1, <2>2, <2>3, <2>4, <2>5 DEF SyncTypeOK
<1>2. SequenceOK /\ \A s \in Syncs : FetchedOK(s)
  BY <1>1 DEF SyncInit, SequenceOK, FetchedOK, Queued
<1>3. Lossless
  BY DEF SyncInit, Lossless, ClearedIsKnown, QueueHasData, DataIsQueued,
     DiffsAreConsecutive, SyncKnows
<1> QED
  BY <1>1, <1>2, <1>3 DEF SyncInv, SyncBase

\* Every step keeps the types and the bounds,
LEMMA NextBase ==
    ASSUME SyncBase, SyncNext
    PROVE  SyncBase'
<1>1. SyncTypeOK'
  BY NextPublisherTypes, NextReceiver, NextSyncTypes DEF PublisherTypes,
     ReceiverOK, SyncTypes, SyncTypeOK
<1> QED
  BY <1>1, NextNumbers, NextSyncs DEF SyncBase

\* and, with one sync at a time, the invariant.
LEMMA NextSyncInv ==
    ASSUME OneSync, SyncInv, SyncNext
    PROVE  SyncInv'
<1>1. SyncBase /\ SyncBase'
  BY NextBase DEF SyncInv
<1>2. ASSUME DiffsSuffice'
      PROVE  Lossless'
  <2>1. DiffsSuffice /\ Lossless
    BY <1>1, <1>2, NextSuffices DEF SyncInv
  <2>2. 1..lastSeq' \subseteq known' /\ ClearedIsKnown'
    BY <1>1, <1>2, <2>1, NextCovers, NextCleared
  <2>3. QueueHasData' /\ DiffsAreConsecutive'
    BY <1>1, <1>2, <2>1, NextQueue, NextConsecutive
  <2>4. \A s \in Syncs : SyncKnows(s)'
    BY <1>1, <1>2, <2>1, NextSyncKnows
  <2> QED
    BY <2>2, <2>3, <2>4 DEF Lossless
<1> QED
  BY <1>1, <1>2 DEF SyncInv

\* However many syncs overlap, and whatever is lost or fails, the variables of
\* the publisher, the network and the subscriber keep their types: the own
\* number never passes the publisher's, and the queue never its limit.
THEOREM SyncTypeCorrect == SyncSpec => []SyncTypeOK
<1>1. SyncInit => SyncBase
  BY SyncInitInv DEF SyncInv
<1>2. SyncBase /\ [SyncNext]_allVars => SyncBase'
  <2>1. ASSUME SyncBase, UNCHANGED allVars
        PROVE  SyncBase'
    <3> USE DEF allVars, publisherVars, subscriptionVars, network, receiverVars,
         syncVars, obsVars
    <3>1. SyncTypeOK'
      BY <2>1 DEF SyncBase, SyncTypeOK
    <3>2. SequenceOK'
      BY <2>1 DEF SyncBase, SequenceOK, Queued
    <3>3. \A s \in Syncs : FetchedOK(s)'
      BY <2>1 DEF SyncBase, FetchedOK
    <3> QED
      BY <3>1, <3>2, <3>3 DEF SyncBase
  <2> QED
    BY <2>1, NextBase
<1>3. SyncBase => SyncTypeOK
  BY DEF SyncBase
<1> QED
  BY <1>1, <1>2, <1>3, PTL DEF SyncSpec

\* With one sync at a time the invariant holds, for any number of changes,
\* resyncs and faults and any limit of the queue.
THEOREM SyncInvariance == OneSync => (SyncSpec => []SyncInv)
<1> SUFFICES ASSUME OneSync
             PROVE  SyncSpec => []SyncInv
  OBVIOUS
<1>1. SyncInit => SyncInv
  BY SyncInitInv
<1>2. SyncInv /\ [SyncNext]_allVars => SyncInv'
  BY NextSyncInv, SyncStutters
<1> QED
  BY <1>1, <1>2, PTL DEF SyncSpec

\* Where diffs suffice, and one request at a time syncs, the subscriber's number
\* covers what it has applied, whatever callbacks were lost, doubled or came in
\* another order, and whichever request of a sync failed.
THEOREM NumberIsCovered == OneSync => (SyncSpec => []SequenceIsCovered)
<1> SUFFICES ASSUME OneSync
             PROVE  SyncSpec => []SequenceIsCovered
  OBVIOUS
<1>1. SyncSpec => []SyncInv
  BY SyncInvariance
<1>2. SyncInv => SequenceIsCovered
  BY DEF SyncInv, Lossless, SequenceIsCovered
<1> QED
  BY <1>1, <1>2, PTL

\* Then no diff is cleared at the publisher before the subscriber has its change.
THEOREM ClearedDiffsAreKnown == OneSync => (SyncSpec => []NoDiffIsLost)
<1> SUFFICES ASSUME OneSync
             PROVE  SyncSpec => []NoDiffIsLost
  OBVIOUS
<1>1. SyncSpec => []SyncInv
  BY SyncInvariance
<1>2. SyncInv => NoDiffIsLost
  BY DEF SyncInv, Lossless, NoDiffIsLost
<1> QED
  BY <1>1, <1>2, PTL
=============================================================================
