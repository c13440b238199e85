---------------------- MODULE CallbackProcessor_proofs ----------------------
(***************************************************************************)
(* Proofs about CallbackProcessor, for every number of requests, sequence  *)
(* numbers, pending entries, attempts, overlaps and faults.                *)
(*                                                                         *)
(* The invariant IInv is proved inductive in three parts: TypeStep (types),*)
(* LocalStep (what a request knows from its earlier reads) and SafeStep    *)
(* (the four properties).  Each part goes through the actions one by one.  *)
(* OrderlyInv, about callbacks that do not overlap, is proved on top of it.*)
(***************************************************************************)
EXTENDS CallbackProcessor, FiniteSetTheorems, TLAPS

Safe == SeqNeverAhead /\ NoSkip /\ AnswerIsTrue /\ PendingBounded

\* The sizes of the sets of queued callbacks: adding one entry adds at most
\* one, and leaving entries out adds none.
LEMMA Queues ==
    /\ \A S \in SUBSET Deliveries : IsFiniteSet(S) /\ Cardinality(S) \in Nat
    /\ \A S \in SUBSET Deliveries, d \in Deliveries :
         Cardinality(S \cup {d}) <= Cardinality(S) + 1
    /\ \A S \in SUBSET Deliveries : \A T \in SUBSET S :
         Cardinality(T) <= Cardinality(S)
<1>1. ASSUME NEW S \in SUBSET Deliveries
      PROVE  IsFiniteSet(S) /\ Cardinality(S) \in Nat
  BY DeliveriesAssumption, FS_Subset, FS_CardinalityType
<1>2. ASSUME NEW S \in SUBSET Deliveries, NEW d \in Deliveries
      PROVE  Cardinality(S \cup {d}) <= Cardinality(S) + 1
  BY <1>1, FS_AddElement
<1>3. ASSUME NEW S \in SUBSET Deliveries, NEW T \in SUBSET S
      PROVE  Cardinality(T) <= Cardinality(S)
  BY <1>1, FS_Subset
<1>4. QED
  BY <1>1, <1>2, <1>3

\* Every step keeps the types.
LEMMA TypeStep == IInv /\ [Next]_vars => TypeOK'
<1> SUFFICES ASSUME IInv, [Next]_vars PROVE TypeOK'
  OBVIOUS
<1> USE MaxSeqAssumption, MaxRetriesAssumption, MaxFaultsAssumption
    DEF IInv, TypeOK, dbVars, localVars, obsVars, Goto, Return, At, Seqno,
        Idle, Steps, Results
<1>1. ASSUME NEW d \in Deliveries, NEW n \in Seqno, Receive(d, n)
      PROVE  TypeOK'
  <2>1. seq' \in [Deliveries -> 0..MaxSeq]
    BY <1>1 DEF Receive
  <2>2. pc' \in [Deliveries -> Idle \cup Steps]
    BY <1>1 DEF Receive
  <2>3. QED
    BY <1>1, <2>1, <2>2 DEF Receive
<1>2. ASSUME NEW d \in Deliveries, GetState(d)
      PROVE  TypeOK'
  BY <1>2 DEF GetState
<1>3. ASSUME NEW d \in Deliveries, Duplicate(d)
      PROVE  TypeOK'
  BY <1>3 DEF Duplicate
<1>4. ASSUME NEW d \in Deliveries, DetectGap(d)
      PROVE  TypeOK'
  BY <1>4 DEF DetectGap
<1>5. ASSUME NEW d \in Deliveries, AcceptInOrder(d)
      PROVE  TypeOK'
  BY <1>5 DEF AcceptInOrder
<1>6. ASSUME NEW d \in Deliveries, GapTimedOut(d)
      PROVE  TypeOK'
  BY <1>6 DEF GapTimedOut
<1>7. ASSUME NEW d \in Deliveries, GapStillOpen(d)
      PROVE  TypeOK'
  BY <1>7 DEF GapStillOpen
<1>8. ASSUME NEW d \in Deliveries, TimeoutCheckVersion(d)
      PROVE  TypeOK'
  BY <1>8 DEF TimeoutCheckVersion
<1>9. ASSUME NEW d \in Deliveries, TimeoutSetState(d)
      PROVE  TypeOK'
  <2>1. state' \in [version : Nat, resync_pending : BOOLEAN]
    BY <1>9 DEF TimeoutSetState
  <2>2. QED
    BY <1>9, <2>1 DEF TimeoutSetState
<1>10. ASSUME NEW d \in Deliveries, TimeoutResetSeq(d)
      PROVE  TypeOK'
  <2>1. lastSeq' \in 0..MaxSeq
    BY <1>10 DEF TimeoutResetSeq
  <2>2. calls' \in [Seqno -> Nat]
    BY <1>10 DEF TimeoutResetSeq
  <2>3. QED
    BY <1>10, <2>1, <2>2 DEF TimeoutResetSeq
<1>11. ASSUME NEW d \in Deliveries, TimeoutClear(d)
      PROVE  TypeOK'
  BY <1>11 DEF TimeoutClear, ClearPending
<1>12. ASSUME NEW d \in Deliveries, QueueFull(d)
      PROVE  TypeOK'
  BY <1>12 DEF QueueFull
<1>13. ASSUME NEW d \in Deliveries, AddRead(d)
      PROVE  TypeOK'
  BY <1>13 DEF AddRead
<1>14. ASSUME NEW d \in Deliveries, AddWrite(d)
      PROVE  TypeOK'
  BY <1>14 DEF AddWrite
<1>15. ASSUME NEW d \in Deliveries, CollectNext(d)
      PROVE  TypeOK'
  <2>1. upto[d] + 1 \in 0..MaxSeq
    BY <1>15 DEF CollectNext, Carrying
  <2>2. upto' \in [Deliveries -> 0..MaxSeq]
    BY <1>15, <2>1 DEF CollectNext
  <2>3. QED
    BY <1>15, <2>2 DEF CollectNext
<1>16. ASSUME NEW d \in Deliveries, CollectEnd(d)
      PROVE  TypeOK'
  BY <1>16 DEF CollectEnd
<1>17. ASSUME NEW d \in Deliveries, RemoveRead(d)
      PROVE  TypeOK'
  BY <1>17 DEF RemoveRead, Carrying
<1>18. ASSUME NEW d \in Deliveries, RemoveWrite(d)
      PROVE  TypeOK'
  BY <1>18 DEF RemoveWrite
<1>19. ASSUME NEW d \in Deliveries, CheckVersion(d)
      PROVE  TypeOK'
  BY <1>19 DEF CheckVersion
<1>20. ASSUME NEW d \in Deliveries, Retry(d)
      PROVE  TypeOK'
  <2>1. attempt' \in [Deliveries -> 1..MaxRetries]
    BY <1>20 DEF Retry
  <2>2. QED
    BY <1>20, <2>1 DEF Retry
<1>21. ASSUME NEW d \in Deliveries, GiveUp(d)
      PROVE  TypeOK'
  BY <1>21 DEF GiveUp
<1>22. ASSUME NEW d \in Deliveries, SetState(d)
      PROVE  TypeOK'
  <2>1. state' \in [version : Nat, resync_pending : BOOLEAN]
    BY <1>22 DEF SetState
  <2>2. next' \in [Deliveries -> 0..MaxSeq + 1]
    BY <1>22 DEF SetState
  <2>3. pc' \in [Deliveries -> Idle \cup Steps]
    BY <1>22 DEF SetState
  <2>4. QED
    BY <1>22, <2>1, <2>2, <2>3 DEF SetState
<1>23. ASSUME NEW d \in Deliveries, CallHandler(d)
      PROVE  TypeOK'
  <2>1. next[d] \in Seqno
    <3>1. /\ seq[d] \in Seqno
          /\ upto[d] \in seq[d]..MaxSeq
          /\ next[d] \in seq[d]..upto[d]
      BY <1>23 DEF CallHandler, LocalInv, Local, InBatch
    <3>2. QED
      BY <3>1
  <2>2. delivered' \in SUBSET Seqno
    BY <1>23, <2>1 DEF CallHandler
  <2>3. calls' \in [Seqno -> Nat]
    BY <1>23, <2>1 DEF CallHandler
  <2>4. next' \in [Deliveries -> 0..MaxSeq + 1]
    BY <1>23, <2>1 DEF CallHandler
  <2>5. pc' \in [Deliveries -> Idle \cup Steps]
    BY <1>23 DEF CallHandler
  <2>6. QED
    BY <1>23, <2>2, <2>3, <2>4, <2>5 DEF CallHandler
<1>24. ASSUME NEW d \in Deliveries, UpdateSeq(d)
      PROVE  TypeOK'
  BY <1>24 DEF UpdateSeq
<1>25. ASSUME NEW d \in Deliveries, ResyncClear(d)
      PROVE  TypeOK'
  BY <1>25 DEF ResyncClear, ClearPending
<1>26. ASSUME NEW d \in Deliveries, ResyncState(d)
      PROVE  TypeOK'
  BY <1>26 DEF ResyncState
<1>27. ASSUME NEW d \in Deliveries, ResyncHandle(d)
      PROVE  TypeOK'
  <2>1. delivered' \in SUBSET Seqno
    <3>1. seq[d] \in Seqno
      BY <1>27 DEF ResyncHandle, LocalInv, Local
    <3>2. 1..seq[d] \subseteq Seqno
      BY <3>1
    <3>3. QED
      BY <1>27, <3>2 DEF ResyncHandle
  <2>2. calls' \in [Seqno -> Nat]
    BY <1>27 DEF ResyncHandle
  <2>3. QED
    BY <1>27, <2>1, <2>2 DEF ResyncHandle
<1>28. ASSUME NEW d \in Deliveries, ResyncSeq(d)
      PROVE  TypeOK'
  BY <1>28 DEF ResyncSeq
<1>29. ASSUME NEW d \in Deliveries, UpdateSeqFails(d)
      PROVE  TypeOK'
  <2>1. faults' \in 0..MaxFaults
    BY <1>29 DEF UpdateSeqFails
  <2>2. QED
    BY <1>29, <2>1 DEF UpdateSeqFails
<1>30. ASSUME NEW d \in Deliveries, Crash(d)
      PROVE  TypeOK'
  <2>1. faults' \in 0..MaxFaults
    BY <1>30 DEF Crash
  <2>2. QED
    BY <1>30, <2>1 DEF Crash
<1>31. CASE UNCHANGED vars
  BY <1>31 DEF vars
<1>32. QED
  BY <1>1, <1>2, <1>3, <1>4, <1>5, <1>6, <1>7, <1>8, <1>9,
     <1>10, <1>11, <1>12, <1>13, <1>14, <1>15, <1>16, <1>17, <1>18,
     <1>19, <1>20, <1>21, <1>22, <1>23, <1>24, <1>25, <1>26, <1>27,
     <1>28, <1>29, <1>30, <1>31
  DEF Next, Process, ProcessDiff, ProcessResync, Fault

\* Every step keeps what the requests know.
LEMMA LocalStep == IInv /\ [Next]_vars => LocalInv'
<1> SUFFICES ASSUME IInv, [Next]_vars PROVE LocalInv'
  OBVIOUS
<1> USE MaxSeqAssumption, MaxPendingAssumption
    DEF IInv, TypeOK, LocalInv, Local, InBatch, dbVars, localVars, obsVars,
       Goto,
        Return, At, Seqno, Idle, Steps, Results
<1>1. ASSUME NEW d \in Deliveries, NEW n \in Seqno, Receive(d, n)
      PROVE  LocalInv'
  BY <1>1 DEF Receive
<1>2. ASSUME NEW d \in Deliveries, GetState(d)
      PROVE  LocalInv'
  BY <1>2 DEF GetState
<1>3. ASSUME NEW d \in Deliveries, Duplicate(d)
      PROVE  LocalInv'
  BY <1>3 DEF Duplicate
<1>4. ASSUME NEW d \in Deliveries, DetectGap(d)
      PROVE  LocalInv'
  BY <1>4 DEF DetectGap
<1>5. ASSUME NEW d \in Deliveries, AcceptInOrder(d)
      PROVE  LocalInv'
  <2>1. /\ seq[d] \in Seqno
        /\ seq[d] \in seq[d]..MaxSeq
        /\ \A n \in 1..seq[d] - 1 : n \in delivered
    BY <1>5 DEF AcceptInOrder, SeqNeverAhead
  <2>2. upto'[d] = seq[d]
    BY <1>5 DEF AcceptInOrder
  <2>3. QED
    BY <1>5, <2>1, <2>2 DEF AcceptInOrder
<1>6. ASSUME NEW d \in Deliveries, GapTimedOut(d)
      PROVE  LocalInv'
  BY <1>6 DEF GapTimedOut
<1>7. ASSUME NEW d \in Deliveries, GapStillOpen(d)
      PROVE  LocalInv'
  BY <1>7 DEF GapStillOpen
<1>8. ASSUME NEW d \in Deliveries, TimeoutCheckVersion(d)
      PROVE  LocalInv'
  BY <1>8 DEF TimeoutCheckVersion
<1>9. ASSUME NEW d \in Deliveries, TimeoutSetState(d)
      PROVE  LocalInv'
  BY <1>9 DEF TimeoutSetState
<1>10. ASSUME NEW d \in Deliveries, TimeoutResetSeq(d)
      PROVE  LocalInv'
  BY <1>10 DEF TimeoutResetSeq
<1>11. ASSUME NEW d \in Deliveries, TimeoutClear(d)
      PROVE  LocalInv'
  BY <1>11 DEF TimeoutClear, ClearPending
<1>12. ASSUME NEW d \in Deliveries, QueueFull(d)
      PROVE  LocalInv'
  BY <1>12 DEF QueueFull
<1>13. ASSUME NEW d \in Deliveries, AddRead(d)
      PROVE  LocalInv'
  BY <1>13 DEF AddRead
<1>14. ASSUME NEW d \in Deliveries, AddWrite(d)
      PROVE  LocalInv'
  BY <1>14 DEF AddWrite
<1>15. ASSUME NEW d \in Deliveries, CollectNext(d)
      PROVE  LocalInv'
  <2>1. upto[d] \in seq[d]..MaxSeq /\ seq[d] \in Seqno
    BY <1>15 DEF CollectNext
  <2>2. upto[d] + 1 \in seq[d]..MaxSeq
    BY <1>15, <2>1 DEF CollectNext, Carrying
  <2>3. QED
    BY <1>15, <2>2 DEF CollectNext
<1>16. ASSUME NEW d \in Deliveries, CollectEnd(d)
      PROVE  LocalInv'
  BY <1>16 DEF CollectEnd
<1>17. ASSUME NEW d \in Deliveries, RemoveRead(d)
      PROVE  LocalInv'
  <2>1. readPending'[d] \in SUBSET pending
    BY <1>17 DEF RemoveRead
  <2>2. /\ Cardinality(readPending'[d]) <= Cardinality(pending)
        /\ Cardinality(readPending'[d]) \in Nat
        /\ Cardinality(pending) \in Nat
    BY <2>1, Queues
  <2>3. Cardinality(readPending'[d]) <= MaxPending
    BY <2>2 DEF PendingBounded
  <2>4. QED
    BY <1>17, <2>3 DEF RemoveRead
<1>18. ASSUME NEW d \in Deliveries, RemoveWrite(d)
      PROVE  LocalInv'
  BY <1>18 DEF RemoveWrite
<1>19. ASSUME NEW d \in Deliveries, CheckVersion(d)
      PROVE  LocalInv'
  BY <1>19 DEF CheckVersion
<1>20. ASSUME NEW d \in Deliveries, Retry(d)
      PROVE  LocalInv'
  BY <1>20 DEF Retry
<1>21. ASSUME NEW d \in Deliveries, GiveUp(d)
      PROVE  LocalInv'
  BY <1>21 DEF GiveUp
<1>22. ASSUME NEW d \in Deliveries, SetState(d)
      PROVE  LocalInv'
  <2>1. /\ seq[d] \in Seqno
        /\ upto[d] \in seq[d]..MaxSeq
        /\ \A n \in 1..seq[d] - 1 : n \in delivered
    BY <1>22 DEF SetState
  <2>2. next'[d] = seq[d] /\ next'[d] \in seq[d]..upto[d]
    BY <1>22, <2>1 DEF SetState
  <2>3. QED
    BY <1>22, <2>1, <2>2 DEF SetState
<1>23. ASSUME NEW d \in Deliveries, CallHandler(d)
      PROVE  LocalInv'
  <2>1. /\ seq[d] \in Seqno
        /\ upto[d] \in seq[d]..MaxSeq
        /\ next[d] \in seq[d]..upto[d]
        /\ \A n \in 1..next[d] - 1 : n \in delivered
    BY <1>23 DEF CallHandler
  <2>2. \A n \in 1..next[d] : n \in delivered'
    BY <1>23, <2>1 DEF CallHandler
  <2>3. ASSUME NEW e \in Deliveries, e # d
        PROVE  /\ pc'[e] = pc[e] /\ result'[e] = result[e]
               /\ seq'[e] = seq[e] /\ upto'[e] = upto[e]
               /\ next'[e] = next[e] /\ readPending'[e] = readPending[e]
    BY <1>23, <2>3 DEF CallHandler
  <2>4. /\ pc'[d] = IF next[d] = upto[d] THEN "update_seq" ELSE "handle"
        /\ result'[d] = "none" /\ seq'[d] = seq[d] /\ upto'[d] = upto[d]
        /\ next'[d] = next[d] + 1
    BY <1>23 DEF CallHandler
  <2>5. delivered \subseteq delivered'
    BY <1>23 DEF CallHandler
  <2>6. ASSUME NEW e \in Deliveries, e # d
        PROVE  Local(e)'
    BY <2>3, <2>5, <2>6
  <2>7. Local(d)'
    <3>1. CASE next[d] = upto[d]
      BY <2>1, <2>2, <2>4, <2>5, <3>1
    <3>2. CASE next[d] # upto[d]
      <4>1. next[d] + 1 \in seq[d]..upto[d]
        BY <2>1, <3>2
      <4>2. pc'[d] = "handle" /\ next'[d] \in seq'[d]..upto'[d]
        BY <2>4, <3>2, <4>1
      <4>3. next'[d] - 1 = next[d]
        BY <2>1, <2>4
      <4>4. \A n \in 1..next'[d] - 1 : n \in delivered'
        BY <2>2, <4>3
      <4>5. /\ upto'[d] \in seq'[d]..MaxSeq
            /\ \A n \in 1..seq'[d] - 1 : n \in delivered'
        BY <2>1, <2>4, <2>5
      <4>6. QED
        BY ONLY <2>1, <2>4, <4>2, <4>4, <4>5 DEF Local, InBatch, At, Steps
    <3>3. QED
      BY <3>1, <3>2
  <2>8. QED
    BY <2>6, <2>7
<1>24. ASSUME NEW d \in Deliveries, UpdateSeq(d)
      PROVE  LocalInv'
  BY <1>24 DEF UpdateSeq
<1>25. ASSUME NEW d \in Deliveries, ResyncClear(d)
      PROVE  LocalInv'
  BY <1>25 DEF ResyncClear, ClearPending
<1>26. ASSUME NEW d \in Deliveries, ResyncState(d)
      PROVE  LocalInv'
  BY <1>26 DEF ResyncState
<1>27. ASSUME NEW d \in Deliveries, ResyncHandle(d)
      PROVE  LocalInv'
  BY <1>27 DEF ResyncHandle
<1>28. ASSUME NEW d \in Deliveries, ResyncSeq(d)
      PROVE  LocalInv'
  BY <1>28 DEF ResyncSeq
<1>29. ASSUME NEW d \in Deliveries, UpdateSeqFails(d)
      PROVE  LocalInv'
  BY <1>29 DEF UpdateSeqFails
<1>30. ASSUME NEW d \in Deliveries, Crash(d)
      PROVE  LocalInv'
  BY <1>30 DEF Crash, InFlight
<1>31. CASE UNCHANGED vars
  BY <1>31 DEF vars
<1>32. QED
  BY <1>1, <1>2, <1>3, <1>4, <1>5, <1>6, <1>7, <1>8, <1>9,
     <1>10, <1>11, <1>12, <1>13, <1>14, <1>15, <1>16, <1>17, <1>18,
     <1>19, <1>20, <1>21, <1>22, <1>23, <1>24, <1>25, <1>26, <1>27,
     <1>28, <1>29, <1>30, <1>31
  DEF Next, Process, ProcessDiff, ProcessResync, Fault

\* Every step keeps the four properties.
LEMMA SafeStep == IInv /\ [Next]_vars => Safe'
<1> SUFFICES ASSUME IInv, [Next]_vars PROVE Safe'
  OBVIOUS
<1> USE MaxSeqAssumption, MaxPendingAssumption
    DEF IInv, TypeOK, LocalInv, Local, InBatch, dbVars, localVars, obsVars,
       Goto,
        Return, At, Seqno, Idle, Steps, Results, Safe, SeqNeverAhead, NoSkip,
        AnswerIsTrue, PendingBounded
<1>1. ASSUME NEW d \in Deliveries, NEW n \in Seqno, Receive(d, n)
      PROVE  Safe'
  BY <1>1 DEF Receive
<1>2. ASSUME NEW d \in Deliveries, GetState(d)
      PROVE  Safe'
  BY <1>2 DEF GetState
<1>3. ASSUME NEW d \in Deliveries, Duplicate(d)
      PROVE  Safe'
  <2>1. seq[d] \in delivered
    BY <1>3 DEF Duplicate
  <2>2. QED
    BY <1>3, <2>1 DEF Duplicate
<1>4. ASSUME NEW d \in Deliveries, DetectGap(d)
      PROVE  Safe'
  BY <1>4 DEF DetectGap
<1>5. ASSUME NEW d \in Deliveries, AcceptInOrder(d)
      PROVE  Safe'
  BY <1>5 DEF AcceptInOrder
<1>6. ASSUME NEW d \in Deliveries, GapTimedOut(d)
      PROVE  Safe'
  BY <1>6 DEF GapTimedOut
<1>7. ASSUME NEW d \in Deliveries, GapStillOpen(d)
      PROVE  Safe'
  BY <1>7 DEF GapStillOpen
<1>8. ASSUME NEW d \in Deliveries, TimeoutCheckVersion(d)
      PROVE  Safe'
  BY <1>8 DEF TimeoutCheckVersion
<1>9. ASSUME NEW d \in Deliveries, TimeoutSetState(d)
      PROVE  Safe'
  BY <1>9 DEF TimeoutSetState
<1>10. ASSUME NEW d \in Deliveries, TimeoutResetSeq(d)
      PROVE  Safe'
  BY <1>10 DEF TimeoutResetSeq
<1>11. ASSUME NEW d \in Deliveries, TimeoutClear(d)
      PROVE  Safe'
  <2>1. PendingBounded'
    BY <1>11, FS_EmptySet DEF TimeoutClear, ClearPending
  <2>2. QED
    BY <1>11, <2>1 DEF TimeoutClear, ClearPending
<1>12. ASSUME NEW d \in Deliveries, QueueFull(d)
      PROVE  Safe'
  BY <1>12 DEF QueueFull
<1>13. ASSUME NEW d \in Deliveries, AddRead(d)
      PROVE  Safe'
  BY <1>13 DEF AddRead
<1>14. ASSUME NEW d \in Deliveries, AddWrite(d)
      PROVE  Safe'
  <2>1. Cardinality(readPending[d]) < MaxPending
    BY <1>14 DEF AddWrite
  <2>2. /\ pending' = readPending[d] \cup {d}
        /\ readPending[d] \in SUBSET Deliveries
    BY <1>14 DEF AddWrite
  <2>3. /\ Cardinality(readPending[d] \cup {d}) <= Cardinality(readPending[d]) + 1
        /\ Cardinality(readPending[d]) \in Nat
        /\ Cardinality(readPending[d] \cup {d}) \in Nat
    <3>1. \A S \in SUBSET Deliveries :
             /\ Cardinality(S) \in Nat
             /\ S \cup {d} \in SUBSET Deliveries
             /\ Cardinality(S \cup {d}) <= Cardinality(S) + 1
      BY ONLY Queues, <1>14
    <3>2. QED
      BY ONLY <2>2, <3>1
  <2>4. PendingBounded'
    BY <2>1, <2>2, <2>3
  <2>5. QED
    BY <1>14, <2>4 DEF AddWrite
<1>15. ASSUME NEW d \in Deliveries, CollectNext(d)
      PROVE  Safe'
  BY <1>15 DEF CollectNext
<1>16. ASSUME NEW d \in Deliveries, CollectEnd(d)
      PROVE  Safe'
  BY <1>16 DEF CollectEnd
<1>17. ASSUME NEW d \in Deliveries, RemoveRead(d)
      PROVE  Safe'
  BY <1>17 DEF RemoveRead
<1>18. ASSUME NEW d \in Deliveries, RemoveWrite(d)
      PROVE  Safe'
  BY <1>18 DEF RemoveWrite
<1>19. ASSUME NEW d \in Deliveries, CheckVersion(d)
      PROVE  Safe'
  BY <1>19 DEF CheckVersion
<1>20. ASSUME NEW d \in Deliveries, Retry(d)
      PROVE  Safe'
  BY <1>20 DEF Retry
<1>21. ASSUME NEW d \in Deliveries, GiveUp(d)
      PROVE  Safe'
  BY <1>21 DEF GiveUp
<1>22. ASSUME NEW d \in Deliveries, SetState(d)
      PROVE  Safe'
  BY <1>22 DEF SetState
<1>23. ASSUME NEW d \in Deliveries, CallHandler(d)
      PROVE  Safe'
  <2>0. /\ seq[d] \in Seqno
        /\ upto[d] \in seq[d]..MaxSeq
        /\ next[d] \in seq[d]..upto[d]
        /\ \A n \in 1..next[d] - 1 : n \in delivered
    BY <1>23 DEF CallHandler
  <2>1. /\ next[d] \in Nat \ {0}
        /\ \A n \in 1..next[d] - 1 : n \in delivered
    BY <2>0
  <2>2. delivered' = delivered \cup {next[d]}
    BY <1>23 DEF CallHandler
  <2>3. NoSkip'
    BY <2>1, <2>2
  <2>4. QED
    BY <1>23, <2>2, <2>3 DEF CallHandler
<1>24. ASSUME NEW d \in Deliveries, UpdateSeq(d)
      PROVE  Safe'
  BY <1>24 DEF UpdateSeq
<1>25. ASSUME NEW d \in Deliveries, ResyncClear(d)
      PROVE  Safe'
  <2>1. PendingBounded'
    BY <1>25, FS_EmptySet DEF ResyncClear, ClearPending
  <2>2. QED
    BY <1>25, <2>1 DEF ResyncClear, ClearPending
<1>26. ASSUME NEW d \in Deliveries, ResyncState(d)
      PROVE  Safe'
  BY <1>26 DEF ResyncState
<1>27. ASSUME NEW d \in Deliveries, ResyncHandle(d)
      PROVE  Safe'
  BY <1>27 DEF ResyncHandle
<1>28. ASSUME NEW d \in Deliveries, ResyncSeq(d)
      PROVE  Safe'
  BY <1>28 DEF ResyncSeq
<1>29. ASSUME NEW d \in Deliveries, UpdateSeqFails(d)
      PROVE  Safe'
  <2>1. seq[d] \in delivered
    BY <1>29 DEF UpdateSeqFails
  <2>2. QED
    BY <1>29, <2>1 DEF UpdateSeqFails
<1>30. ASSUME NEW d \in Deliveries, Crash(d)
      PROVE  Safe'
  BY <1>30 DEF Crash
<1>31. CASE UNCHANGED vars
  BY <1>31 DEF vars
<1>32. QED
  BY <1>1, <1>2, <1>3, <1>4, <1>5, <1>6, <1>7, <1>8, <1>9,
     <1>10, <1>11, <1>12, <1>13, <1>14, <1>15, <1>16, <1>17, <1>18,
     <1>19, <1>20, <1>21, <1>22, <1>23, <1>24, <1>25, <1>26, <1>27,
     <1>28, <1>29, <1>30, <1>31
  DEF Next, Process, ProcessDiff, ProcessResync, Fault

\* A fresh subscription satisfies the invariant.
LEMMA InitIInv == Init => IInv
<1> SUFFICES ASSUME Init PROVE IInv
  OBVIOUS
<1> USE MaxSeqAssumption, MaxPendingAssumption, MaxRetriesAssumption,
        MaxFaultsAssumption DEF Init, Idle, Steps, Results, Seqno
<1>1. TypeOK
  BY DEF TypeOK
<1>2. LocalInv
  BY DEF LocalInv, Local, InBatch, At
<1>3. SeqNeverAhead /\ NoSkip /\ AnswerIsTrue
  BY DEF SeqNeverAhead, NoSkip, AnswerIsTrue
<1>4. PendingBounded
  BY FS_EmptySet DEF PendingBounded
<1>5. QED
  BY <1>1, <1>2, <1>3, <1>4 DEF IInv

\* The invariant holds in every behaviour.
THEOREM Invariance == Spec => []IInv
<1>1. Init => IInv
  BY InitIInv
<1>2. IInv /\ [Next]_vars => IInv'
  BY TypeStep, LocalStep, SafeStep DEF IInv, Safe
<1>3. QED
  BY <1>1, <1>2, PTL DEF Spec

\* Types are preserved by every interleaving, crash and failed write.
THEOREM TypeCorrect == Spec => []TypeOK
  BY Invariance, PTL DEF IInv

\* Subscription.sequence never runs ahead of the handler.
THEOREM SequenceNeverAhead == Spec => []SeqNeverAhead
  BY Invariance, PTL DEF IInv

\* What has been delivered is a prefix of what was sent.
THEOREM DeliveryIsAPrefix == Spec => []NoSkip
  BY Invariance, PTL DEF IInv

\* PROCESSED and DUPLICATE are only answered for delivered changes.
THEOREM AnswersAreTrue == Spec => []AnswerIsTrue
  BY Invariance, PTL DEF IInv

\* A step of a request is a step of OrderedDelivery or leaves it alone.
LEMMA StepRefines == IInv /\ [Next]_vars => [Abstract!Next]_Abstract!vars
<1> SUFFICES ASSUME IInv, [Next]_vars
             PROVE  [Abstract!Next]_Abstract!vars
  OBVIOUS
<1> USE MaxSeqAssumption
    DEF IInv, TypeOK, LocalInv, Local, InBatch, At, Steps, Seqno,
        Abstract!vars, Abstract!Next, Abstract!Deliver, Abstract!Rebase,
        Abstract!Record, dbVars, obsVars
<1>1. CASE UNCHANGED <<delivered, lastSeq>>
  BY <1>1
<1>2. ASSUME NEW d \in Deliveries, CallHandler(d)
      PROVE  Abstract!Next
  <2>1. /\ next[d] \in Seqno
        /\ \A n \in 1..next[d] - 1 : n \in delivered
    <3>1. /\ seq[d] \in Seqno
          /\ upto[d] \in seq[d]..MaxSeq
          /\ next[d] \in seq[d]..upto[d]
          /\ \A n \in 1..next[d] - 1 : n \in delivered
      BY <1>2 DEF CallHandler
    <3>2. QED
      BY <3>1
  <2>2. Abstract!Deliver(next[d])
    BY <1>2, <2>1 DEF CallHandler
  <2>3. QED
    BY <2>1, <2>2
<1>3. ASSUME NEW d \in Deliveries, ResyncHandle(d)
      PROVE  Abstract!Next
  <2>1. Abstract!Rebase(seq[d]) /\ seq[d] \in Seqno
    BY <1>3 DEF ResyncHandle
  <2>2. QED
    BY <2>1
<1>4. ASSUME NEW d \in Deliveries, UpdateSeq(d)
      PROVE  Abstract!Next
  <2>1. Abstract!Record(upto[d]) /\ upto[d] \in Seqno \cup {0}
    BY <1>4 DEF UpdateSeq
  <2>2. QED
    BY <2>1
<1>5. ASSUME NEW d \in Deliveries, ResyncSeq(d)
      PROVE  Abstract!Next
  <2>1. Abstract!Record(seq[d]) /\ seq[d] \in Seqno \cup {0}
    BY <1>5 DEF ResyncSeq
  <2>2. QED
    BY <2>1
<1>6. ASSUME NEW d \in Deliveries, TimeoutResetSeq(d)
      PROVE  Abstract!Next
  <2>1. Abstract!Record(0)
    BY <1>6 DEF TimeoutResetSeq
  <2>2. QED
    BY <2>1
<1>7. QED
  BY <1>1, <1>2, <1>3, <1>4, <1>5, <1>6
  DEF Next, Process, ProcessDiff, ProcessResync, Fault, vars, Receive,
      GetState, Duplicate, DetectGap, AcceptInOrder, GapTimedOut,
      GapStillOpen, TimeoutCheckVersion, TimeoutSetState, TimeoutClear,
      QueueFull, AddRead, AddWrite, CollectNext, CollectEnd, RemoveRead,
      RemoveWrite, CheckVersion, Retry, GiveUp, SetState, ResyncClear,
      ResyncState, UpdateSeqFails, Crash

\* Whatever the interleaving, the requests implement ordered delivery.
THEOREM Refinement == Spec => ImplementsOrderedDelivery
<1>1. Init => Abstract!Init
  BY DEF Init, Abstract!Init
<1>2. QED
  BY <1>1, StepRefines, Invariance, PTL
  DEF Spec, ImplementsOrderedDelivery, Abstract!Spec

\* The pending list never exceeds max_pending.
THEOREM BackPressure == Spec => []PendingBounded
  BY Invariance, PTL DEF IInv

-----------------------------------------------------------------------------
(* What holds as long as callbacks do not overlap: Orderly, request by      *)
(* request.  The one that is processed acts on what it has read.           *)

\* A request goes on.
StepOf(d) == (\E n \in Seqno : Receive(d, n)) \/ Process(d)

\* A step of one request moves no other.
LEMMA OnlyMoves ==
    ASSUME TypeOK, NEW d \in Deliveries, StepOf(d)
    PROVE  /\ orderly' => orderly
           /\ \A e \in Deliveries \ {d} : pc'[e] = pc[e]
           /\ pc[d] \in Idle => pc[d] = "idle" /\ \E n \in Seqno :
              Receive(d, n)
BY DEF StepOf, Process, ProcessDiff, ProcessResync, TypeOK, Goto, Return,
   At, Idle, Steps, Receive, GetState, Duplicate, DetectGap, AcceptInOrder,
   GapTimedOut, GapStillOpen, TimeoutCheckVersion, TimeoutSetState,
   TimeoutResetSeq, TimeoutClear, QueueFull, AddRead, AddWrite, CollectNext,
   CollectEnd, RemoveRead, RemoveWrite, CheckVersion, Retry, GiveUp, SetState,
   CallHandler, UpdateSeq, ResyncClear, ResyncState, ResyncHandle, ResyncSeq

\* While a callback is processed no other is.
LEMMA OthersAreIdle ==
    ASSUME Orderly, NEW d \in Deliveries, pc[d] \notin Idle
    PROVE  \A e \in Deliveries \ {d} : pc[e] \in Idle
BY DEF Orderly, Alone, InFlight

\* One callback is processed at a time.
LEMMA AloneStep ==
    ASSUME IInv, Orderly, orderly', NEW d \in Deliveries, StepOf(d)
    PROVE  Alone'
<1>1. InFlight' \subseteq InFlight \cup {d}
  BY OnlyMoves DEF InFlight, IInv
<1>2. CASE pc[d] \in Idle
  <2>1. InFlight = {}
    BY <1>2, OnlyMoves DEF IInv, Receive
  <2>2. QED
    BY <1>1, <2>1 DEF Alone
<1>3. CASE pc[d] \notin Idle
  <2>1. InFlight \subseteq {d}
    BY <1>3, OthersAreIdle DEF InFlight
  <2>2. QED
    BY <1>1, <2>1 DEF Alone
<1>4. QED
  BY <1>2, <1>3

\* What the request has read stays true until it acts on it: nobody else
\* writes.
LEMMA FreshStep ==
    ASSUME IInv, Orderly, orderly', NEW d \in Deliveries, StepOf(d)
    PROVE  ReadsAreFresh(d)'
<1> USE MaxSeqAssumption DEF IInv, TypeOK, LocalInv, Local, dbVars, localVars,
        obsVars, Goto, Return, At, Seqno, Idle, Steps, Orderly, InBatch,
        ReadsAreFresh
<1>1. ASSUME NEW n \in Seqno, Receive(d, n) PROVE ReadsAreFresh(d)'
  BY <1>1 DEF Receive
<1>2. CASE GetState(d)
  BY <1>2 DEF GetState
<1>3. CASE Duplicate(d)
  BY <1>3 DEF Duplicate
<1>4. CASE DetectGap(d)
  BY <1>4 DEF DetectGap
<1>5. CASE AcceptInOrder(d)
  BY <1>5 DEF AcceptInOrder
<1>6. CASE GapTimedOut(d)
  BY <1>6 DEF GapTimedOut
<1>7. CASE GapStillOpen(d)
  BY <1>7 DEF GapStillOpen
<1>8. CASE TimeoutCheckVersion(d)
  BY <1>8 DEF TimeoutCheckVersion
<1>9. CASE TimeoutSetState(d)
  BY <1>9 DEF TimeoutSetState
<1>10. CASE TimeoutResetSeq(d)
  BY <1>10 DEF TimeoutResetSeq
<1>11. CASE TimeoutClear(d)
  BY <1>11 DEF TimeoutClear, ClearPending
<1>12. CASE QueueFull(d)
  BY <1>12 DEF QueueFull
<1>13. CASE AddRead(d)
  BY <1>13 DEF AddRead
<1>14. CASE AddWrite(d)
  BY <1>14 DEF AddWrite
<1>15. CASE CollectNext(d)
  BY <1>15 DEF CollectNext
<1>16. CASE CollectEnd(d)
  BY <1>16 DEF CollectEnd
<1>17. CASE RemoveRead(d)
  <2>1. readPending'[d] = pending \ Carrying(pending, upto[d])
    BY <1>17 DEF RemoveRead
  <2>2. Carrying(pending, upto[d])' = Carrying(pending, upto[d])
    BY <1>17 DEF RemoveRead, Carrying
  <2>3. pending' = pending /\ pc'[d] = "remove_write" /\ state' = state
        /\ lastSeq' = lastSeq /\ seq' = seq /\ readVersion' = readVersion
    BY <1>17 DEF RemoveRead
  <2>4. seq[d] = lastSeq + 1 /\ readVersion[d] = state.version
    BY <1>17 DEF RemoveRead, ReadsAreFresh
  <2>5. QED
    BY <2>1, <2>2, <2>3, <2>4 DEF ReadsAreFresh
<1>18. CASE RemoveWrite(d)
  BY <1>18 DEF RemoveWrite
<1>19. CASE CheckVersion(d)
  BY <1>19 DEF CheckVersion
<1>20. CASE Retry(d)
  BY <1>20 DEF Retry
<1>21. CASE GiveUp(d)
  BY <1>21 DEF GiveUp
<1>22. CASE SetState(d)
  BY <1>22 DEF SetState
<1>23. CASE CallHandler(d)
  BY <1>23 DEF CallHandler
<1>24. CASE UpdateSeq(d)
  BY <1>24 DEF UpdateSeq
<1>25. CASE ResyncClear(d)
  BY <1>25 DEF ResyncClear, ClearPending
<1>26. CASE ResyncState(d)
  BY <1>26 DEF ResyncState
<1>27. CASE ResyncHandle(d)
  BY <1>27 DEF ResyncHandle
<1>28. CASE ResyncSeq(d)
  BY <1>28 DEF ResyncSeq
<1>29. QED
  BY <1>1, <1>2, <1>3, <1>4, <1>5, <1>6, <1>7, <1>8, <1>9, <1>10,
     <1>11, <1>12, <1>13, <1>14, <1>15, <1>16, <1>17, <1>18, <1>19,
     <1>20, <1>21, <1>22, <1>23, <1>24, <1>25, <1>26, <1>27, <1>28
  DEF StepOf, Process, ProcessDiff, ProcessResync

\* The queue is not touched after the batch has been collected.
LEMMA LeaveStep ==
    ASSUME IInv, Orderly, orderly', NEW d \in Deliveries, StepOf(d)
    PROVE  LeavesInQueue(d)'
<1> USE MaxSeqAssumption DEF IInv, TypeOK, LocalInv, Local, dbVars, localVars,
        obsVars, Goto, Return, At, Seqno, Idle, Steps, Orderly, InBatch,
        ReadsAreFresh, LeavesInQueue, Carrying
<1>1. ASSUME NEW n \in Seqno, Receive(d, n) PROVE LeavesInQueue(d)'
  BY <1>1 DEF Receive
<1>2. CASE GetState(d)
  BY <1>2 DEF GetState
<1>3. CASE Duplicate(d)
  BY <1>3 DEF Duplicate
<1>4. CASE DetectGap(d)
  BY <1>4 DEF DetectGap
<1>5. CASE AcceptInOrder(d)
  BY <1>5 DEF AcceptInOrder
<1>6. CASE GapTimedOut(d)
  BY <1>6 DEF GapTimedOut
<1>7. CASE GapStillOpen(d)
  BY <1>7 DEF GapStillOpen
<1>8. CASE TimeoutCheckVersion(d)
  BY <1>8 DEF TimeoutCheckVersion
<1>9. CASE TimeoutSetState(d)
  BY <1>9 DEF TimeoutSetState
<1>10. CASE TimeoutResetSeq(d)
  BY <1>10 DEF TimeoutResetSeq
<1>11. CASE TimeoutClear(d)
  BY <1>11 DEF TimeoutClear, ClearPending
<1>12. CASE QueueFull(d)
  BY <1>12 DEF QueueFull
<1>13. CASE AddRead(d)
  BY <1>13 DEF AddRead
<1>14. CASE AddWrite(d)
  BY <1>14 DEF AddWrite
<1>15. CASE CollectNext(d)
  BY <1>15 DEF CollectNext
<1>16. CASE CollectEnd(d)
  BY <1>16 DEF CollectEnd
<1>17. CASE RemoveRead(d)
  BY <1>17 DEF RemoveRead
<1>18. CASE RemoveWrite(d)
  BY <1>18 DEF RemoveWrite
<1>19. CASE CheckVersion(d)
  BY <1>19 DEF CheckVersion
<1>20. CASE Retry(d)
  BY <1>20 DEF Retry
<1>21. CASE GiveUp(d)
  BY <1>21 DEF GiveUp
<1>22. CASE SetState(d)
  BY <1>22 DEF SetState
<1>23. CASE CallHandler(d)
  BY <1>23 DEF CallHandler
<1>24. CASE UpdateSeq(d)
  BY <1>24 DEF UpdateSeq
<1>25. CASE ResyncClear(d)
  BY <1>25 DEF ResyncClear, ClearPending
<1>26. CASE ResyncState(d)
  BY <1>26 DEF ResyncState
<1>27. CASE ResyncHandle(d)
  BY <1>27 DEF ResyncHandle
<1>28. CASE ResyncSeq(d)
  BY <1>28 DEF ResyncSeq
<1>29. QED
  BY <1>1, <1>2, <1>3, <1>4, <1>5, <1>6, <1>7, <1>8, <1>9, <1>10,
     <1>11, <1>12, <1>13, <1>14, <1>15, <1>16, <1>17, <1>18, <1>19,
     <1>20, <1>21, <1>22, <1>23, <1>24, <1>25, <1>26, <1>27, <1>28
  DEF StepOf, Process, ProcessDiff, ProcessResync

\* Only a request that returns queues its callback.
LEMMA DoneStep ==
    ASSUME IInv, Orderly, orderly', NEW d \in Deliveries, StepOf(d)
    PROVE  QueuedIsDone'
<1> USE MaxSeqAssumption DEF IInv, TypeOK, LocalInv, Local, dbVars, localVars,
        obsVars, Goto, Return, At, Seqno, Idle, Steps, Orderly, InBatch,
        ReadsAreFresh, QueuedIsDone, Carrying
<1>1. ASSUME NEW n \in Seqno, Receive(d, n) PROVE QueuedIsDone'
  BY <1>1 DEF Receive
<1>2. CASE GetState(d)
  BY <1>2 DEF GetState
<1>3. CASE Duplicate(d)
  BY <1>3 DEF Duplicate
<1>4. CASE DetectGap(d)
  BY <1>4 DEF DetectGap
<1>5. CASE AcceptInOrder(d)
  BY <1>5 DEF AcceptInOrder
<1>6. CASE GapTimedOut(d)
  BY <1>6 DEF GapTimedOut
<1>7. CASE GapStillOpen(d)
  BY <1>7 DEF GapStillOpen
<1>8. CASE TimeoutCheckVersion(d)
  BY <1>8 DEF TimeoutCheckVersion
<1>9. CASE TimeoutSetState(d)
  BY <1>9 DEF TimeoutSetState
<1>10. CASE TimeoutResetSeq(d)
  BY <1>10 DEF TimeoutResetSeq
<1>11. CASE TimeoutClear(d)
  BY <1>11 DEF TimeoutClear, ClearPending
<1>12. CASE QueueFull(d)
  BY <1>12 DEF QueueFull
<1>13. CASE AddRead(d)
  BY <1>13 DEF AddRead
<1>14. CASE AddWrite(d)
  BY <1>14 DEF AddWrite
<1>15. CASE CollectNext(d)
  BY <1>15 DEF CollectNext
<1>16. CASE CollectEnd(d)
  BY <1>16 DEF CollectEnd
<1>17. CASE RemoveRead(d)
  BY <1>17 DEF RemoveRead
<1>18. CASE RemoveWrite(d)
  BY <1>18 DEF RemoveWrite
<1>19. CASE CheckVersion(d)
  BY <1>19 DEF CheckVersion
<1>20. CASE Retry(d)
  BY <1>20 DEF Retry
<1>21. CASE GiveUp(d)
  BY <1>21 DEF GiveUp
<1>22. CASE SetState(d)
  BY <1>22 DEF SetState
<1>23. CASE CallHandler(d)
  BY <1>23 DEF CallHandler
<1>24. CASE UpdateSeq(d)
  BY <1>24 DEF UpdateSeq
<1>25. CASE ResyncClear(d)
  BY <1>25 DEF ResyncClear, ClearPending
<1>26. CASE ResyncState(d)
  BY <1>26 DEF ResyncState
<1>27. CASE ResyncHandle(d)
  BY <1>27 DEF ResyncHandle
<1>28. CASE ResyncSeq(d)
  BY <1>28 DEF ResyncSeq
<1>29. QED
  BY <1>1, <1>2, <1>3, <1>4, <1>5, <1>6, <1>7, <1>8, <1>9, <1>10,
     <1>11, <1>12, <1>13, <1>14, <1>15, <1>16, <1>17, <1>18, <1>19,
     <1>20, <1>21, <1>22, <1>23, <1>24, <1>25, <1>26, <1>27, <1>28
  DEF StepOf, Process, ProcessDiff, ProcessResync

\* A batch takes from the queue what is next in line, and everything that
\* moves the line without a batch empties the queue.
LEMMA NextStep ==
    ASSUME IInv, Orderly, orderly', NEW d \in Deliveries, StepOf(d)
    PROVE  NextIsNotQueued'
<1>1. pc[d] \notin Idle => \A e \in Deliveries \ {d} : pc[e] \in Idle
  BY OthersAreIdle
<1> USE MaxSeqAssumption DEF IInv, TypeOK, LocalInv, Local, dbVars, localVars,
        obsVars, Goto, Return, At, Seqno, Idle, Steps, Orderly, InBatch,
        Alone, InFlight, ReadsAreFresh, LeavesInQueue, NextIsNotQueued,
        Carrying
<1>2. ASSUME NEW n \in Seqno, Receive(d, n) PROVE NextIsNotQueued'
  <2>1. Carrying(pending, lastSeq + 1) = {}
    BY <1>2 DEF Receive, InFlight, NextIsNotQueued
  <2>2. d \notin pending
    BY <1>2 DEF Receive, QueuedIsDone
  <2>3. /\ pending' = pending /\ lastSeq' = lastSeq
        /\ \A e \in pending : seq'[e] = seq[e]
    BY <1>2, <2>2 DEF Receive
  <2>4. Carrying(pending, lastSeq + 1)' = {}
    BY <2>1, <2>3 DEF Carrying
  <2>5. QED
    BY <2>4 DEF NextIsNotQueued
<1>3. CASE GetState(d)
  <2>1. \A e \in Deliveries : ~InBatch(e) /\ ~At(e, "timeout_clear")
    BY <1>3, <1>1 DEF GetState
  <2>2. Carrying(pending, lastSeq + 1) = {}
    BY <2>1 DEF NextIsNotQueued
  <2>3. Carrying(pending, lastSeq + 1)' = Carrying(pending, lastSeq + 1)
    BY <1>3 DEF GetState, Carrying
  <2>4. QED
    BY <2>2, <2>3 DEF NextIsNotQueued
<1>4. CASE Duplicate(d)
  <2>1. \A e \in Deliveries : ~InBatch(e) /\ ~At(e, "timeout_clear")
    BY <1>4, <1>1 DEF Duplicate
  <2>2. Carrying(pending, lastSeq + 1) = {}
    BY <2>1 DEF NextIsNotQueued
  <2>3. Carrying(pending, lastSeq + 1)' = Carrying(pending, lastSeq + 1)
    BY <1>4 DEF Duplicate, Carrying
  <2>4. QED
    BY <2>2, <2>3 DEF NextIsNotQueued
<1>5. CASE DetectGap(d)
  <2>1. \A e \in Deliveries : ~InBatch(e) /\ ~At(e, "timeout_clear")
    BY <1>5, <1>1 DEF DetectGap
  <2>2. Carrying(pending, lastSeq + 1) = {}
    BY <2>1 DEF NextIsNotQueued
  <2>3. Carrying(pending, lastSeq + 1)' = Carrying(pending, lastSeq + 1)
    BY <1>5 DEF DetectGap, Carrying
  <2>4. QED
    BY <2>2, <2>3 DEF NextIsNotQueued
<1>6. CASE AcceptInOrder(d)
  BY <1>6 DEF AcceptInOrder
<1>7. CASE GapTimedOut(d)
  <2>1. \A e \in Deliveries : ~InBatch(e) /\ ~At(e, "timeout_clear")
    BY <1>7, <1>1 DEF GapTimedOut
  <2>2. Carrying(pending, lastSeq + 1) = {}
    BY <2>1 DEF NextIsNotQueued
  <2>3. Carrying(pending, lastSeq + 1)' = Carrying(pending, lastSeq + 1)
    BY <1>7 DEF GapTimedOut, Carrying
  <2>4. QED
    BY <2>2, <2>3 DEF NextIsNotQueued
<1>8. CASE GapStillOpen(d)
  <2>1. \A e \in Deliveries : ~InBatch(e) /\ ~At(e, "timeout_clear")
    BY <1>8, <1>1 DEF GapStillOpen
  <2>2. Carrying(pending, lastSeq + 1) = {}
    BY <2>1 DEF NextIsNotQueued
  <2>3. Carrying(pending, lastSeq + 1)' = Carrying(pending, lastSeq + 1)
    BY <1>8 DEF GapStillOpen, Carrying
  <2>4. QED
    BY <2>2, <2>3 DEF NextIsNotQueued
<1>9. CASE TimeoutCheckVersion(d)
  <2>1. \A e \in Deliveries : ~InBatch(e) /\ ~At(e, "timeout_clear")
    BY <1>9, <1>1 DEF TimeoutCheckVersion
  <2>2. Carrying(pending, lastSeq + 1) = {}
    BY <2>1 DEF NextIsNotQueued
  <2>3. Carrying(pending, lastSeq + 1)' = Carrying(pending, lastSeq + 1)
    BY <1>9 DEF TimeoutCheckVersion, Carrying
  <2>4. QED
    BY <2>2, <2>3 DEF NextIsNotQueued
<1>10. CASE TimeoutSetState(d)
  <2>1. \A e \in Deliveries : ~InBatch(e) /\ ~At(e, "timeout_clear")
    BY <1>10, <1>1 DEF TimeoutSetState
  <2>2. Carrying(pending, lastSeq + 1) = {}
    BY <2>1 DEF NextIsNotQueued
  <2>3. Carrying(pending, lastSeq + 1)' = Carrying(pending, lastSeq + 1)
    BY <1>10 DEF TimeoutSetState, Carrying
  <2>4. QED
    BY <2>2, <2>3 DEF NextIsNotQueued
<1>11. CASE TimeoutResetSeq(d)
  BY <1>11 DEF TimeoutResetSeq
<1>12. CASE TimeoutClear(d)
  BY <1>12 DEF TimeoutClear, ClearPending
<1>13. CASE QueueFull(d)
  <2>1. \A e \in Deliveries : ~InBatch(e) /\ ~At(e, "timeout_clear")
    BY <1>13, <1>1 DEF QueueFull
  <2>2. Carrying(pending, lastSeq + 1) = {}
    BY <2>1 DEF NextIsNotQueued
  <2>3. Carrying(pending, lastSeq + 1)' = Carrying(pending, lastSeq + 1)
    BY <1>13 DEF QueueFull, Carrying
  <2>4. QED
    BY <2>2, <2>3 DEF NextIsNotQueued
<1>14. CASE AddRead(d)
  <2>1. \A e \in Deliveries : ~InBatch(e) /\ ~At(e, "timeout_clear")
    BY <1>14, <1>1 DEF AddRead
  <2>2. Carrying(pending, lastSeq + 1) = {}
    BY <2>1 DEF NextIsNotQueued
  <2>3. Carrying(pending, lastSeq + 1)' = Carrying(pending, lastSeq + 1)
    BY <1>14 DEF AddRead, Carrying
  <2>4. QED
    BY <2>2, <2>3 DEF NextIsNotQueued
<1>15. CASE AddWrite(d)
  <2>1. \A e \in Deliveries : ~InBatch(e) /\ ~At(e, "timeout_clear")
    BY <1>15, <1>1 DEF AddWrite
  <2>2. Carrying(pending, lastSeq + 1) = {}
    BY <2>1 DEF NextIsNotQueued
  <2>3. pending' = pending \cup {d} /\ seq[d] > lastSeq + 1
    BY <1>15 DEF AddWrite, ReadsAreFresh
  <2>4. Carrying(pending, lastSeq + 1)' = {}
    BY <1>15, <2>2, <2>3 DEF AddWrite, Carrying
  <2>5. QED
    BY <2>4 DEF NextIsNotQueued
<1>16. CASE CollectNext(d)
  BY <1>16 DEF CollectNext
<1>17. CASE CollectEnd(d)
  BY <1>17 DEF CollectEnd
<1>18. CASE RemoveRead(d)
  BY <1>18 DEF RemoveRead
<1>19. CASE RemoveWrite(d)
  BY <1>19 DEF RemoveWrite
<1>20. CASE CheckVersion(d)
  BY <1>20 DEF CheckVersion
<1>21. CASE Retry(d)
  BY <1>21 DEF Retry
<1>22. CASE GiveUp(d)
  BY <1>22 DEF GiveUp
<1>23. CASE SetState(d)
  BY <1>23 DEF SetState
<1>24. CASE CallHandler(d)
  BY <1>24 DEF CallHandler
<1>25. CASE UpdateSeq(d)
  BY <1>25 DEF UpdateSeq
<1>26. CASE ResyncClear(d)
  BY <1>26 DEF ResyncClear, ClearPending
<1>27. CASE ResyncState(d)
  BY <1>27 DEF ResyncState
<1>28. CASE ResyncHandle(d)
  BY <1>28 DEF ResyncHandle
<1>29. CASE ResyncSeq(d)
  BY <1>29 DEF ResyncSeq
<1>30. QED
  BY <1>2, <1>3, <1>4, <1>5, <1>6, <1>7, <1>8, <1>9, <1>10, <1>11,
     <1>12, <1>13, <1>14, <1>15, <1>16, <1>17, <1>18, <1>19, <1>20,
     <1>21, <1>22, <1>23, <1>24, <1>25, <1>26, <1>27, <1>28, <1>29
  DEF StepOf, Process, ProcessDiff, ProcessResync

\* The handler is called for the numbers of the batch, in order.
LEMMA CallsStep ==
    ASSUME IInv, Orderly, orderly', NEW d \in Deliveries, StepOf(d)
    PROVE  CallsAreRecorded'
<1>1. pc[d] \notin Idle => \A e \in Deliveries \ {d} : pc[e] \in Idle
  BY OthersAreIdle
<1> USE MaxSeqAssumption DEF IInv, TypeOK, LocalInv, Local, dbVars, localVars,
        obsVars, Goto, Return, At, Seqno, Idle, Steps, Orderly, InBatch,
        ReadsAreFresh, CallsAreRecorded, Alone, InFlight
<1>2. ASSUME NEW n \in Seqno, Receive(d, n) PROVE CallsAreRecorded'
  BY <1>2 DEF Receive
<1>3. CASE GetState(d)
  BY <1>3 DEF GetState
<1>4. CASE Duplicate(d)
  BY <1>4 DEF Duplicate
<1>5. CASE DetectGap(d)
  BY <1>5 DEF DetectGap
<1>6. CASE AcceptInOrder(d)
  BY <1>6 DEF AcceptInOrder
<1>7. CASE GapTimedOut(d)
  BY <1>7 DEF GapTimedOut
<1>8. CASE GapStillOpen(d)
  BY <1>8 DEF GapStillOpen
<1>9. CASE TimeoutCheckVersion(d)
  BY <1>9 DEF TimeoutCheckVersion
<1>10. CASE TimeoutSetState(d)
  BY <1>10 DEF TimeoutSetState
<1>11. CASE TimeoutResetSeq(d)
  BY <1>11 DEF TimeoutResetSeq
<1>12. CASE TimeoutClear(d)
  BY <1>12 DEF TimeoutClear, ClearPending
<1>13. CASE QueueFull(d)
  BY <1>13 DEF QueueFull
<1>14. CASE AddRead(d)
  BY <1>14 DEF AddRead
<1>15. CASE AddWrite(d)
  BY <1>15 DEF AddWrite
<1>16. CASE CollectNext(d)
  BY <1>16 DEF CollectNext
<1>17. CASE CollectEnd(d)
  BY <1>17 DEF CollectEnd
<1>18. CASE RemoveRead(d)
  BY <1>18 DEF RemoveRead
<1>19. CASE RemoveWrite(d)
  BY <1>19 DEF RemoveWrite
<1>20. CASE CheckVersion(d)
  BY <1>20 DEF CheckVersion
<1>21. CASE Retry(d)
  BY <1>21 DEF Retry
<1>22. CASE GiveUp(d)
  BY <1>22 DEF GiveUp
<1>23. CASE SetState(d)
  BY <1>23 DEF SetState
<1>24. CASE CallHandler(d)
  <2>1. seq[d] = lastSeq + 1 /\ next[d] \in seq[d]..upto[d]
    BY <1>24 DEF CallHandler, ReadsAreFresh
  <2>2. ASSUME NEW n \in Seqno, calls'[n] > 0
        PROVE  n <= lastSeq \/ n <= next[d]
    <3>1. CASE n = next[d]
      BY <3>1, <2>1
    <3>2. CASE n # next[d]
      <4>1. calls[n] > 0
        BY <2>2, <3>2, <1>24 DEF CallHandler
      <4>2. \A e \in Deliveries \ {d} : pc[e] \in Idle
        BY <1>24, <1>1 DEF CallHandler
      <4>3. n <= lastSeq \/ n < next[d]
        BY <4>1, <4>2, <1>24 DEF CallHandler, CallsAreRecorded
      <4>4. QED
        BY <4>3, <2>1
    <3>3. QED
      BY <3>1, <3>2
  <2>3. \/ pc'[d] = "handle" /\ next'[d] = next[d] + 1
        \/ pc'[d] = "update_seq" /\ upto'[d] = next[d]
    BY <1>24 DEF CallHandler
  <2>4. lastSeq' = lastSeq
    BY <1>24 DEF CallHandler
  <2>5. QED
    BY <2>1, <2>2, <2>3, <2>4 DEF CallsAreRecorded
<1>25. CASE UpdateSeq(d)
  <2>1. seq[d] = lastSeq + 1 /\ upto[d] \in seq[d]..MaxSeq
    BY <1>25 DEF UpdateSeq, ReadsAreFresh
  <2>2. \A e \in Deliveries \ {d} : pc[e] \in Idle
    BY <1>25, <1>1 DEF UpdateSeq
  <2>3. ASSUME NEW n \in Seqno, calls[n] > 0 PROVE n <= upto[d]
    <3>1. n <= lastSeq \/ n <= upto[d]
      BY <1>25, <2>2, <2>3 DEF UpdateSeq, CallsAreRecorded
    <3>2. QED
      BY <3>1, <2>1
  <2>4. lastSeq' = upto[d] /\ calls' = calls
    BY <1>25 DEF UpdateSeq
  <2>5. QED
    BY <2>3, <2>4 DEF CallsAreRecorded
<1>26. CASE ResyncClear(d)
  BY <1>26 DEF ResyncClear, ClearPending
<1>27. CASE ResyncState(d)
  BY <1>27 DEF ResyncState
<1>28. CASE ResyncHandle(d)
  BY <1>28 DEF ResyncHandle
<1>29. CASE ResyncSeq(d)
  <2>1. calls' = calls /\ \A n \in Seqno : calls[n] = 0
    BY <1>29 DEF ResyncSeq, BaselineIsNew
  <2>2. QED
    BY <2>1 DEF CallsAreRecorded
<1>30. QED
  BY <1>2, <1>3, <1>4, <1>5, <1>6, <1>7, <1>8, <1>9, <1>10, <1>11,
     <1>12, <1>13, <1>14, <1>15, <1>16, <1>17, <1>18, <1>19, <1>20,
     <1>21, <1>22, <1>23, <1>24, <1>25, <1>26, <1>27, <1>28, <1>29
  DEF StepOf, Process, ProcessDiff, ProcessResync

\* The handler is not called between the resync and its number.
LEMMA BaselineStep ==
    ASSUME IInv, Orderly, orderly', NEW d \in Deliveries, StepOf(d)
    PROVE  BaselineIsNew'
<1>1. pc[d] \notin Idle => \A e \in Deliveries \ {d} : pc[e] \in Idle
  BY OthersAreIdle
<1> USE MaxSeqAssumption DEF IInv, TypeOK, LocalInv, Local, dbVars, localVars,
        obsVars, Goto, Return, At, Seqno, Idle, Steps, Orderly, InBatch,
        BaselineIsNew
<1>2. ASSUME NEW n \in Seqno, Receive(d, n) PROVE BaselineIsNew'
  BY <1>2 DEF Receive
<1>3. CASE GetState(d)
  BY <1>3 DEF GetState
<1>4. CASE Duplicate(d)
  BY <1>4 DEF Duplicate
<1>5. CASE DetectGap(d)
  BY <1>5 DEF DetectGap
<1>6. CASE AcceptInOrder(d)
  BY <1>6 DEF AcceptInOrder
<1>7. CASE GapTimedOut(d)
  BY <1>7 DEF GapTimedOut
<1>8. CASE GapStillOpen(d)
  BY <1>8 DEF GapStillOpen
<1>9. CASE TimeoutCheckVersion(d)
  BY <1>9 DEF TimeoutCheckVersion
<1>10. CASE TimeoutSetState(d)
  BY <1>10 DEF TimeoutSetState
<1>11. CASE TimeoutResetSeq(d)
  BY <1>11 DEF TimeoutResetSeq
<1>12. CASE TimeoutClear(d)
  BY <1>12 DEF TimeoutClear, ClearPending
<1>13. CASE QueueFull(d)
  BY <1>13 DEF QueueFull
<1>14. CASE AddRead(d)
  BY <1>14 DEF AddRead
<1>15. CASE AddWrite(d)
  BY <1>15 DEF AddWrite
<1>16. CASE CollectNext(d)
  BY <1>16 DEF CollectNext
<1>17. CASE CollectEnd(d)
  BY <1>17 DEF CollectEnd
<1>18. CASE RemoveRead(d)
  BY <1>18 DEF RemoveRead
<1>19. CASE RemoveWrite(d)
  BY <1>19 DEF RemoveWrite
<1>20. CASE CheckVersion(d)
  BY <1>20 DEF CheckVersion
<1>21. CASE Retry(d)
  BY <1>21 DEF Retry
<1>22. CASE GiveUp(d)
  BY <1>22 DEF GiveUp
<1>23. CASE SetState(d)
  BY <1>23 DEF SetState
<1>24. CASE CallHandler(d)
  <2>1. \A e \in Deliveries : pc'[e] # "resync_seq"
    BY <1>24, <1>1 DEF CallHandler
  <2>2. QED
    BY <2>1 DEF BaselineIsNew
<1>25. CASE UpdateSeq(d)
  BY <1>25 DEF UpdateSeq
<1>26. CASE ResyncClear(d)
  BY <1>26 DEF ResyncClear, ClearPending
<1>27. CASE ResyncState(d)
  BY <1>27 DEF ResyncState
<1>28. CASE ResyncHandle(d)
  BY <1>28 DEF ResyncHandle
<1>29. CASE ResyncSeq(d)
  BY <1>29 DEF ResyncSeq
<1>30. QED
  BY <1>2, <1>3, <1>4, <1>5, <1>6, <1>7, <1>8, <1>9, <1>10, <1>11,
     <1>12, <1>13, <1>14, <1>15, <1>16, <1>17, <1>18, <1>19, <1>20,
     <1>21, <1>22, <1>23, <1>24, <1>25, <1>26, <1>27, <1>28, <1>29
  DEF StepOf, Process, ProcessDiff, ProcessResync

\* No number of a batch has had a call.
LEMMA OnceStep ==
    ASSUME IInv, Orderly, orderly', NEW d \in Deliveries, StepOf(d)
    PROVE  AtMostOnce'
<1>1. pc[d] \notin Idle => \A e \in Deliveries \ {d} : pc[e] \in Idle
  BY OthersAreIdle
<1> USE MaxSeqAssumption DEF IInv, TypeOK, LocalInv, Local, dbVars, localVars,
        obsVars, Goto, Return, At, Seqno, Idle, Steps, Orderly, InBatch,
        ReadsAreFresh, AtMostOnce
<1>2. ASSUME NEW n \in Seqno, Receive(d, n) PROVE AtMostOnce'
  BY <1>2 DEF Receive
<1>3. CASE GetState(d)
  BY <1>3 DEF GetState
<1>4. CASE Duplicate(d)
  BY <1>4 DEF Duplicate
<1>5. CASE DetectGap(d)
  BY <1>5 DEF DetectGap
<1>6. CASE AcceptInOrder(d)
  BY <1>6 DEF AcceptInOrder
<1>7. CASE GapTimedOut(d)
  BY <1>7 DEF GapTimedOut
<1>8. CASE GapStillOpen(d)
  BY <1>8 DEF GapStillOpen
<1>9. CASE TimeoutCheckVersion(d)
  BY <1>9 DEF TimeoutCheckVersion
<1>10. CASE TimeoutSetState(d)
  BY <1>10 DEF TimeoutSetState
<1>11. CASE TimeoutResetSeq(d)
  BY <1>11 DEF TimeoutResetSeq
<1>12. CASE TimeoutClear(d)
  BY <1>12 DEF TimeoutClear, ClearPending
<1>13. CASE QueueFull(d)
  BY <1>13 DEF QueueFull
<1>14. CASE AddRead(d)
  BY <1>14 DEF AddRead
<1>15. CASE AddWrite(d)
  BY <1>15 DEF AddWrite
<1>16. CASE CollectNext(d)
  BY <1>16 DEF CollectNext
<1>17. CASE CollectEnd(d)
  BY <1>17 DEF CollectEnd
<1>18. CASE RemoveRead(d)
  BY <1>18 DEF RemoveRead
<1>19. CASE RemoveWrite(d)
  BY <1>19 DEF RemoveWrite
<1>20. CASE CheckVersion(d)
  BY <1>20 DEF CheckVersion
<1>21. CASE Retry(d)
  BY <1>21 DEF Retry
<1>22. CASE GiveUp(d)
  BY <1>22 DEF GiveUp
<1>23. CASE SetState(d)
  BY <1>23 DEF SetState
<1>24. CASE CallHandler(d)
  <2>1. seq[d] = lastSeq + 1 /\ next[d] \in seq[d]..upto[d] /\ next[d] \in
     Seqno
    BY <1>24 DEF CallHandler, ReadsAreFresh
  <2>2. \A e \in Deliveries \ {d} : ~At(e, "handle") /\ ~At(e, "update_seq")
    BY <1>24, <1>1 DEF CallHandler
  <2>3. ~(calls[next[d]] > 0)
    <3>1. ~(next[d] <= lastSeq)
      BY <2>1
    <3>2. ASSUME NEW e \in Deliveries
          PROVE  /\ ~(At(e, "handle") /\ next[d] < next[e])
                 /\ ~At(e, "update_seq")
      <4>1. CASE e = d
        BY <1>24, <2>1, <4>1 DEF CallHandler
      <4>2. CASE e # d
        <5>1. e \in Deliveries \ {d}
          BY <4>2
        <5>2. QED
          BY <2>2, <5>1
      <4>3. QED
        BY <4>1, <4>2
    <3>3. QED
      BY <2>1, <3>1, <3>2 DEF CallsAreRecorded
  <2>4. calls' = [calls EXCEPT ![next[d]] = 1]
    <3>1. calls[next[d]] = 0
      BY <2>1, <2>3
    <3>2. calls' = [calls EXCEPT ![next[d]] = @ + 1]
      BY <1>24 DEF CallHandler
    <3>3. QED
      BY <3>1, <3>2
  <2>5. QED
    BY <2>4 DEF AtMostOnce
<1>25. CASE UpdateSeq(d)
  BY <1>25 DEF UpdateSeq
<1>26. CASE ResyncClear(d)
  BY <1>26 DEF ResyncClear, ClearPending
<1>27. CASE ResyncState(d)
  BY <1>27 DEF ResyncState
<1>28. CASE ResyncHandle(d)
  BY <1>28 DEF ResyncHandle
<1>29. CASE ResyncSeq(d)
  BY <1>29 DEF ResyncSeq
<1>30. QED
  BY <1>2, <1>3, <1>4, <1>5, <1>6, <1>7, <1>8, <1>9, <1>10, <1>11,
     <1>12, <1>13, <1>14, <1>15, <1>16, <1>17, <1>18, <1>19, <1>20,
     <1>21, <1>22, <1>23, <1>24, <1>25, <1>26, <1>27, <1>28, <1>29
  DEF StepOf, Process, ProcessDiff, ProcessResync

\* What leaves the queue is in the batch, which reaches the handler.
LEMMA ForgetStep ==
    ASSUME IInv, Orderly, orderly', NEW d \in Deliveries, StepOf(d)
    PROVE  QueuedNotForgotten'
<1> USE MaxSeqAssumption DEF IInv, TypeOK, LocalInv, Local, dbVars, localVars,
        obsVars, Goto, Return, At, Seqno, Idle, Steps, Orderly, InBatch,
        ReadsAreFresh, QueuedNotForgotten, Carries, Carrying, Alone, InFlight
<1>1. ASSUME NEW n \in Seqno, Receive(d, n) PROVE QueuedNotForgotten'
  <2>1. result' = result /\ pending' = pending /\ dropped' = dropped
        /\ delivered' = delivered /\ upto' = upto
    BY <1>1 DEF Receive
  <2>2. \A e \in Deliveries : e # d => seq'[e] = seq[e] /\ pc'[e] = pc[e]
    BY <1>1 DEF Receive
  <2>3. result[d] # "PENDING"
    BY <1>1 DEF Receive
  <2>4. \A e \in Deliveries : ~Carries(d, e)
    BY <1>1 DEF Receive, Carries
  <2>5. ASSUME NEW e \in Deliveries \ {d}, NEW f \in Deliveries \ {d},
     Carries(f, e)
        PROVE  Carries(f, e)'
    BY <2>1, <2>2, <2>5 DEF Carries
  <2>6. QED
    <3>1. SUFFICES ASSUME NEW e \in Deliveries, result[e] = "PENDING"
                   PROVE  \/ e \in pending \cup dropped
                          \/ seq[e] \in delivered
                          \/ \E f \in Deliveries : Carries(f, e)'
      BY <2>1, <2>2, <2>3 DEF QueuedNotForgotten
    <3>2. e \in Deliveries \ {d}
      BY <3>1, <2>3
    <3>3. QED
      BY <3>1, <3>2, <2>4, <2>5 DEF QueuedNotForgotten
<1>2. CASE GetState(d)
  BY <1>2 DEF GetState
<1>3. CASE Duplicate(d)
  BY <1>3 DEF Duplicate
<1>4. CASE DetectGap(d)
  BY <1>4 DEF DetectGap
<1>5. CASE AcceptInOrder(d)
  BY <1>5 DEF AcceptInOrder
<1>6. CASE GapTimedOut(d)
  BY <1>6 DEF GapTimedOut
<1>7. CASE GapStillOpen(d)
  BY <1>7 DEF GapStillOpen
<1>8. CASE TimeoutCheckVersion(d)
  BY <1>8 DEF TimeoutCheckVersion
<1>9. CASE TimeoutSetState(d)
  BY <1>9 DEF TimeoutSetState
<1>10. CASE TimeoutResetSeq(d)
  BY <1>10 DEF TimeoutResetSeq
<1>11. CASE TimeoutClear(d)
  BY <1>11 DEF TimeoutClear, ClearPending
<1>12. CASE QueueFull(d)
  BY <1>12 DEF QueueFull
<1>13. CASE AddRead(d)
  BY <1>13 DEF AddRead
<1>14. CASE AddWrite(d)
  BY <1>14 DEF AddWrite
<1>15. CASE CollectNext(d)
  BY <1>15 DEF CollectNext
<1>16. CASE CollectEnd(d)
  BY <1>16 DEF CollectEnd
<1>17. CASE RemoveRead(d)
  BY <1>17 DEF RemoveRead
<1>18. CASE RemoveWrite(d)
  <2>1. /\ pending' = pending \ Carrying(pending, upto[d])
        /\ result' = result /\ dropped' = dropped /\ delivered' = delivered
        /\ upto' = upto /\ seq' = seq
    BY <1>18 DEF RemoveWrite, ReadsAreFresh
  <2>2. pc'[d] = "collect" /\ pc[d] = "remove_write"
    BY <1>18 DEF RemoveWrite
  <2>3. upto[d] \in seq[d]..upto[d]
    BY <1>18 DEF RemoveWrite
  <2>4. \A e \in Carrying(pending, upto[d]) : Carries(d, e)'
    BY <2>1, <2>2, <2>3 DEF Carries, Carrying
  <2>5. ASSUME NEW e \in Deliveries, NEW f \in Deliveries, Carries(f, e)
        PROVE  Carries(f, e)'
    BY <1>18, <2>5 DEF RemoveWrite, Carries
  <2>6. QED
    BY <2>1, <2>4, <2>5 DEF QueuedNotForgotten
<1>19. CASE CheckVersion(d)
  BY <1>19 DEF CheckVersion
<1>20. CASE Retry(d)
  BY <1>20 DEF Retry
<1>21. CASE GiveUp(d)
  BY <1>21 DEF GiveUp
<1>22. CASE SetState(d)
  BY <1>22 DEF SetState
<1>23. CASE CallHandler(d)
  BY <1>23 DEF CallHandler
<1>24. CASE UpdateSeq(d)
  BY <1>24 DEF UpdateSeq
<1>25. CASE ResyncClear(d)
  BY <1>25 DEF ResyncClear, ClearPending
<1>26. CASE ResyncState(d)
  BY <1>26 DEF ResyncState
<1>27. CASE ResyncHandle(d)
  BY <1>27 DEF ResyncHandle
<1>28. CASE ResyncSeq(d)
  BY <1>28 DEF ResyncSeq
<1>29. QED
  BY <1>1, <1>2, <1>3, <1>4, <1>5, <1>6, <1>7, <1>8, <1>9, <1>10,
     <1>11, <1>12, <1>13, <1>14, <1>15, <1>16, <1>17, <1>18, <1>19,
     <1>20, <1>21, <1>22, <1>23, <1>24, <1>25, <1>26, <1>27, <1>28
  DEF StepOf, Process, ProcessDiff, ProcessResync

\* Together: every step keeps Orderly as long as nothing overlaps or fails.
LEMMA OrderlyStep == IInv /\ OrderlyInv /\ [Next]_vars => OrderlyInv'
<1> SUFFICES ASSUME IInv, OrderlyInv, [Next]_vars, orderly' PROVE Orderly'
  BY DEF OrderlyInv
<1>1. ASSUME NEW d \in Deliveries, StepOf(d) PROVE Orderly'
  <2>1. Orderly
    BY <1>1, OnlyMoves DEF OrderlyInv, IInv
  <2>2. ASSUME NEW e \in Deliveries \ {d}, pc[e] \notin Idle
        PROVE  FALSE
    <3>1. pc[d] \in Idle
      BY <2>1, <2>2, OthersAreIdle
    <3>2. InFlight = {}
      BY <1>1, <3>1, OnlyMoves DEF Receive, IInv
    <3>3. QED
      BY <2>2, <3>2 DEF InFlight
  <2>3. ASSUME NEW e \in Deliveries \ {d}
        PROVE  ReadsAreFresh(e)' /\ LeavesInQueue(e)'
    <3>1. pc'[e] \in Idle
      BY <1>1, <2>2, OnlyMoves DEF IInv
    <3>2. QED
      BY <3>1 DEF Idle, ReadsAreFresh, LeavesInQueue, InBatch, At
  <2>4. ReadsAreFresh(d)' /\ LeavesInQueue(d)'
    BY <1>1, <2>1, FreshStep, LeaveStep
  <2>5. /\ Alone' /\ QueuedIsDone' /\ NextIsNotQueued' /\ CallsAreRecorded'
        /\ BaselineIsNew' /\ AtMostOnce' /\ QueuedNotForgotten'
    BY <1>1, <2>1, AloneStep, DoneStep, NextStep, CallsStep, BaselineStep,
       OnceStep, ForgetStep
  <2>6. \A e \in Deliveries : ReadsAreFresh(e)' /\ LeavesInQueue(e)'
    BY <2>3, <2>4
  <2>7. QED
    BY <2>5, <2>6 DEF Orderly
<1>2. ASSUME NEW d \in Deliveries, Fault(d) PROVE FALSE
  BY <1>2 DEF Fault, UpdateSeqFails, Crash
<1>3. CASE UNCHANGED vars
  <2>1. Orderly
    BY <1>3 DEF OrderlyInv, vars
  <2>2. QED
    BY <1>3, <2>1
    DEF vars, dbVars, localVars, obsVars, Orderly, Alone, InFlight, At,
        ReadsAreFresh, LeavesInQueue, QueuedIsDone, NextIsNotQueued, InBatch,
        Carrying, CallsAreRecorded, BaselineIsNew, AtMostOnce,
        QueuedNotForgotten, Carries
<1>4. QED
  BY <1>1, <1>2, <1>3 DEF Next, StepOf

\* A new subscription is in order.
LEMMA OrderlyInit == Init => OrderlyInv
<1> SUFFICES ASSUME Init PROVE Orderly
  BY DEF OrderlyInv
<1> USE DEF Init, InFlight, Idle
<1>1. /\ Alone
      /\ \A d \in Deliveries : ReadsAreFresh(d) /\ LeavesInQueue(d)
  BY DEF Alone, ReadsAreFresh, LeavesInQueue, InBatch, At
<1>2. QueuedIsDone /\ NextIsNotQueued /\ CallsAreRecorded /\ BaselineIsNew
  BY DEF QueuedIsDone, NextIsNotQueued, Carrying, CallsAreRecorded,
     BaselineIsNew
<1>3. AtMostOnce /\ QueuedNotForgotten
  BY DEF AtMostOnce, QueuedNotForgotten
<1>4. QED
  BY <1>1, <1>2, <1>3 DEF Orderly

\* As long as callbacks come one after the other and nothing fails, each diff
\* reaches the handler at most once per baseline, no callback answered PENDING
\* is forgotten, and a filled gap leaves nothing behind that is next in line.
THEOREM ExactlyOnceInOrder == Spec => []OrderlyIsExactlyOnce
<1>1. ASSUME OrderlyInv PROVE OrderlyIsExactlyOnce
  <2>1. SUFFICES ASSUME orderly
                 PROVE  AtMostOnce /\ QueuedNotForgotten /\ GapFilledIsProcessed
    BY DEF OrderlyIsExactlyOnce
  <2>2. /\ AtMostOnce /\ QueuedNotForgotten
        /\ Carrying(pending, lastSeq + 1) = {}
             \/ \E d \in Deliveries : InBatch(d) \/ At(d, "timeout_clear")
    BY <1>1, <2>1 DEF OrderlyInv, Orderly, NextIsNotQueued
  <2>3. ASSUME InFlight = {}, NEW d \in Deliveries
        PROVE  ~InBatch(d) /\ ~At(d, "timeout_clear")
    BY <2>3 DEF InFlight, Idle, InBatch, At
  <2>4. QED
    BY <2>2, <2>3 DEF GapFilledIsProcessed
<1>2. QED
  BY <1>1, OrderlyInit, OrderlyStep, Invariance, PTL DEF Spec
=============================================================================
