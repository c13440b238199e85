-------------------- MODULE SubscriptionPublisher_proofs --------------------
(***************************************************************************)
(* Proofs about SubscriptionPublisher, for any number of changes and       *)
(* imports, both kinds of database, and any overlaps and faults.           *)
(*                                                                         *)
(* A suspension is lifted before the state is read for the resync, and a   *)
(* property is written before the suspension is looked at: SkippedIsTold   *)
(* carries the argument, WrittenFirst the order of the second.  What holds *)
(* while requests come one after the other is Orderly: the one request in  *)
(* flight has the record as it is, and a number it has taken is not in use *)
(* before its diff is saved.                                               *)
(*                                                                         *)
(* The second part is about SubscriptionLifecycle: the subscriptions of    *)
(* two actors, from the first request to the end of the trust, for any     *)
(* number of operations and subscriptions, and MaxMishaps faults.          *)
(***************************************************************************)
EXTENDS SubscriptionPublisher, SubscriptionLifecycle, TLAPS

\* Every step keeps the types; in particular a rollback never takes the
\* sequence below zero.
LEMMA TypeStep == IInv /\ [Next]_vars => TypeOK'
<1> SUFFICES ASSUME IInv, [Next]_vars PROVE TypeOK'
  OBVIOUS
<1> USE RequestsAssumption, BoundsAssumption
    DEF IInv, TypeOK, Requests, Goto, At, Idle, Steps, Resuming, Begin,
        Fault
<1>1. ASSUME NEW c \in Changes, Write(c)
      PROVE  TypeOK'
  BY <1>1 DEF Write
<1>2. ASSUME NEW c \in Changes, FindSuspended(c)
      PROVE  TypeOK'
  BY <1>2 DEF FindSuspended
<1>3. ASSUME NEW c \in Changes, FindNotSuspended(c)
      PROVE  TypeOK'
  BY <1>3 DEF FindNotSuspended
<1>4. ASSUME NEW c \in Changes, SuspensionCheckFails(c)
      PROVE  TypeOK'
  BY <1>4 DEF SuspensionCheckFails
<1>5. ASSUME NEW c \in Changes, LoadSubscription(c)
      PROVE  TypeOK'
  BY <1>5 DEF LoadSubscription
<1>6. ASSUME NEW c \in Changes, IncreaseSeq(c)
      PROVE  TypeOK'
  BY <1>6 DEF IncreaseSeq
<1>7. ASSUME NEW c \in Changes, IncreaseSeqFails(c)
      PROVE  TypeOK'
  BY <1>7 DEF IncreaseSeqFails
<1>8. ASSUME NEW c \in Changes, CreateDiff(c)
      PROVE  TypeOK'
  <2>1. Message(cached[c], {c}) \in Messages
    BY <1>8 DEF CreateDiff, NumberTaken, Message, Messages
  <2>2. diffs' \in SUBSET Messages
    BY <1>8, <2>1 DEF CreateDiff, Save, Numbered
  <2>3. QED
    BY <1>8, <2>2 DEF CreateDiff
<1>9. ASSUME NEW c \in Changes, CreateConflicts(c)
      PROVE  TypeOK'
  BY <1>9 DEF CreateConflicts
<1>10. ASSUME NEW c \in Changes, CreateFails(c)
      PROVE  TypeOK'
  BY <1>10 DEF CreateFails
<1>11. ASSUME NEW c \in Changes, DecreaseSeq(c)
      PROVE  TypeOK'
  <2>1. cached[c] > 0
    BY <1>11 DEF DecreaseSeq, NumberTaken
  <2>2. QED
    BY <1>11, <2>1 DEF DecreaseSeq
<1>12. ASSUME NEW c \in Changes, SendCallback(c)
      PROVE  TypeOK'
  <2>1. Message(cached[c], {c}) \in Messages
    BY <1>12 DEF SendCallback, NumberTaken, Message, Messages
  <2>2. QED
    BY <1>12, <2>1 DEF SendCallback
<1>13. ASSUME NEW r \in Imports, Suspend(r)
      PROVE  TypeOK'
  BY <1>13 DEF Suspend
<1>14. ASSUME NEW r \in Imports, ResumeNothing(r)
      PROVE  TypeOK'
  BY <1>14 DEF ResumeNothing
<1>15. ASSUME NEW r \in Imports, Resume(r)
      PROVE  TypeOK'
  BY <1>15 DEF Resume
<1>16. ASSUME NEW r \in Imports, ResyncLoad(r)
      PROVE  TypeOK'
  BY <1>16 DEF ResyncLoad
<1>17. ASSUME NEW r \in Imports, ResyncIncrease(r)
      PROVE  TypeOK'
  BY <1>17 DEF ResyncIncrease
<1>18. ASSUME NEW r \in Imports, ResyncIncreaseFails(r)
      PROVE  TypeOK'
  <2>1. orderly' = FALSE /\ faults' \in 0..MaxFaults
    BY <1>18 DEF ResyncIncreaseFails
  <2>2. pc' \in [Requests -> Idle \cup Steps] /\ cached' \in [Requests -> Nat]
    BY <1>18 DEF ResyncIncreaseFails
  <2>3. QED
    BY <1>18, <2>1, <2>2 DEF ResyncIncreaseFails
<1>19. ASSUME NEW r \in Imports, ResyncStore(r)
      PROVE  TypeOK'
  <2>1. Message(cached[r], written) \in Messages
    BY <1>19 DEF ResyncStore, NumberTaken, Message, Messages
  <2>2. diffs' \in SUBSET Messages
    BY <1>19, <2>1 DEF ResyncStore, Save, Numbered
  <2>3. QED
    BY <1>19, <2>2 DEF ResyncStore
<1>20. ASSUME NEW r \in Imports, ResyncSend(r)
      PROVE  TypeOK'
  <2>1. Message(cached[r], written) \in Messages
    BY <1>20 DEF ResyncSend, NumberTaken, Message, Messages
  <2>2. QED
    BY <1>20, <2>1 DEF ResyncSend
<1>21. ASSUME NEW r \in Requests, Crash(r)
      PROVE  TypeOK'
  BY <1>21 DEF Crash
<1>22. CASE Poll
  BY <1>22 DEF Poll
<1>23. CASE ClearDiffs
  BY <1>23 DEF ClearDiffs
<1>24. ASSUME NEW d \in diffs, GetDiff(d)
      PROVE  TypeOK'
  BY <1>24 DEF GetDiff
<1>25. CASE UNCHANGED vars
  BY <1>25 DEF vars
<1>26. QED
  BY <1>1, <1>2, <1>3, <1>4, <1>5, <1>6, <1>7, <1>8, <1>9,
     <1>10, <1>11, <1>12, <1>13, <1>14, <1>15, <1>16, <1>17, <1>18,
     <1>19, <1>20, <1>21, <1>22, <1>23, <1>24, <1>25
  DEF Next, RegisterDiffs, Import, Subscriber

\* Every step keeps the numbers taken.
LEMMA NumberStep == IInv /\ [Next]_vars => NumberTaken'
<1> SUFFICES ASSUME IInv, [Next]_vars PROVE NumberTaken'
  OBVIOUS
<1> USE RequestsAssumption, BoundsAssumption
    DEF IInv, TypeOK, Requests, Goto, At, Idle, Steps, Resuming, Begin,
        Fault, NumberTaken
<1>1. ASSUME NEW c \in Changes, Write(c)
      PROVE  NumberTaken'
  BY <1>1 DEF Write
<1>2. ASSUME NEW c \in Changes, FindSuspended(c)
      PROVE  NumberTaken'
  BY <1>2 DEF FindSuspended
<1>3. ASSUME NEW c \in Changes, FindNotSuspended(c)
      PROVE  NumberTaken'
  BY <1>3 DEF FindNotSuspended
<1>4. ASSUME NEW c \in Changes, SuspensionCheckFails(c)
      PROVE  NumberTaken'
  BY <1>4 DEF SuspensionCheckFails
<1>5. ASSUME NEW c \in Changes, LoadSubscription(c)
      PROVE  NumberTaken'
  BY <1>5 DEF LoadSubscription
<1>6. ASSUME NEW c \in Changes, IncreaseSeq(c)
      PROVE  NumberTaken'
  BY <1>6 DEF IncreaseSeq
<1>7. ASSUME NEW c \in Changes, IncreaseSeqFails(c)
      PROVE  NumberTaken'
  BY <1>7 DEF IncreaseSeqFails
<1>8. ASSUME NEW c \in Changes, CreateDiff(c)
      PROVE  NumberTaken'
  BY <1>8 DEF CreateDiff
<1>9. ASSUME NEW c \in Changes, CreateConflicts(c)
      PROVE  NumberTaken'
  BY <1>9 DEF CreateConflicts
<1>10. ASSUME NEW c \in Changes, CreateFails(c)
      PROVE  NumberTaken'
  BY <1>10 DEF CreateFails
<1>11. ASSUME NEW c \in Changes, DecreaseSeq(c)
      PROVE  NumberTaken'
  BY <1>11 DEF DecreaseSeq
<1>12. ASSUME NEW c \in Changes, SendCallback(c)
      PROVE  NumberTaken'
  BY <1>12 DEF SendCallback
<1>13. ASSUME NEW r \in Imports, Suspend(r)
      PROVE  NumberTaken'
  BY <1>13 DEF Suspend
<1>14. ASSUME NEW r \in Imports, ResumeNothing(r)
      PROVE  NumberTaken'
  BY <1>14 DEF ResumeNothing
<1>15. ASSUME NEW r \in Imports, Resume(r)
      PROVE  NumberTaken'
  BY <1>15 DEF Resume
<1>16. ASSUME NEW r \in Imports, ResyncLoad(r)
      PROVE  NumberTaken'
  BY <1>16 DEF ResyncLoad
<1>17. ASSUME NEW r \in Imports, ResyncIncrease(r)
      PROVE  NumberTaken'
  BY <1>17 DEF ResyncIncrease
<1>18. ASSUME NEW r \in Imports, ResyncIncreaseFails(r)
      PROVE  NumberTaken'
  BY <1>18 DEF ResyncIncreaseFails
<1>19. ASSUME NEW r \in Imports, ResyncStore(r)
      PROVE  NumberTaken'
  BY <1>19 DEF ResyncStore
<1>20. ASSUME NEW r \in Imports, ResyncSend(r)
      PROVE  NumberTaken'
  BY <1>20 DEF ResyncSend
<1>21. ASSUME NEW r \in Requests, Crash(r)
      PROVE  NumberTaken'
  BY <1>21 DEF Crash
<1>22. CASE Poll
  BY <1>22 DEF Poll
<1>23. CASE ClearDiffs
  BY <1>23 DEF ClearDiffs
<1>24. ASSUME NEW d \in diffs, GetDiff(d)
      PROVE  NumberTaken'
  BY <1>24 DEF GetDiff
<1>25. CASE UNCHANGED vars
  BY <1>25 DEF vars
<1>26. QED
  BY <1>1, <1>2, <1>3, <1>4, <1>5, <1>6, <1>7, <1>8, <1>9,
     <1>10, <1>11, <1>12, <1>13, <1>14, <1>15, <1>16, <1>17, <1>18,
     <1>19, <1>20, <1>21, <1>22, <1>23, <1>24, <1>25
  DEF Next, RegisterDiffs, Import, Subscriber

\* Every step keeps the order of write and check.
LEMMA WrittenStep == IInv /\ [Next]_vars => WrittenFirst'
<1> SUFFICES ASSUME IInv, [Next]_vars PROVE WrittenFirst'
  OBVIOUS
<1> USE RequestsAssumption, BoundsAssumption
    DEF IInv, TypeOK, Requests, Goto, At, Idle, Steps, Resuming, Begin,
        Fault, WrittenFirst
<1>1. ASSUME NEW c \in Changes, Write(c)
      PROVE  WrittenFirst'
  BY <1>1 DEF Write
<1>2. ASSUME NEW c \in Changes, FindSuspended(c)
      PROVE  WrittenFirst'
  BY <1>2 DEF FindSuspended
<1>3. ASSUME NEW c \in Changes, FindNotSuspended(c)
      PROVE  WrittenFirst'
  BY <1>3 DEF FindNotSuspended
<1>4. ASSUME NEW c \in Changes, SuspensionCheckFails(c)
      PROVE  WrittenFirst'
  BY <1>4 DEF SuspensionCheckFails
<1>5. ASSUME NEW c \in Changes, LoadSubscription(c)
      PROVE  WrittenFirst'
  BY <1>5 DEF LoadSubscription
<1>6. ASSUME NEW c \in Changes, IncreaseSeq(c)
      PROVE  WrittenFirst'
  BY <1>6 DEF IncreaseSeq
<1>7. ASSUME NEW c \in Changes, IncreaseSeqFails(c)
      PROVE  WrittenFirst'
  BY <1>7 DEF IncreaseSeqFails
<1>8. ASSUME NEW c \in Changes, CreateDiff(c)
      PROVE  WrittenFirst'
  BY <1>8 DEF CreateDiff
<1>9. ASSUME NEW c \in Changes, CreateConflicts(c)
      PROVE  WrittenFirst'
  BY <1>9 DEF CreateConflicts
<1>10. ASSUME NEW c \in Changes, CreateFails(c)
      PROVE  WrittenFirst'
  BY <1>10 DEF CreateFails
<1>11. ASSUME NEW c \in Changes, DecreaseSeq(c)
      PROVE  WrittenFirst'
  BY <1>11 DEF DecreaseSeq
<1>12. ASSUME NEW c \in Changes, SendCallback(c)
      PROVE  WrittenFirst'
  BY <1>12 DEF SendCallback
<1>13. ASSUME NEW r \in Imports, Suspend(r)
      PROVE  WrittenFirst'
  BY <1>13 DEF Suspend
<1>14. ASSUME NEW r \in Imports, ResumeNothing(r)
      PROVE  WrittenFirst'
  BY <1>14 DEF ResumeNothing
<1>15. ASSUME NEW r \in Imports, Resume(r)
      PROVE  WrittenFirst'
  BY <1>15 DEF Resume
<1>16. ASSUME NEW r \in Imports, ResyncLoad(r)
      PROVE  WrittenFirst'
  BY <1>16 DEF ResyncLoad
<1>17. ASSUME NEW r \in Imports, ResyncIncrease(r)
      PROVE  WrittenFirst'
  BY <1>17 DEF ResyncIncrease
<1>18. ASSUME NEW r \in Imports, ResyncIncreaseFails(r)
      PROVE  WrittenFirst'
  BY <1>18 DEF ResyncIncreaseFails
<1>19. ASSUME NEW r \in Imports, ResyncStore(r)
      PROVE  WrittenFirst'
  BY <1>19 DEF ResyncStore
<1>20. ASSUME NEW r \in Imports, ResyncSend(r)
      PROVE  WrittenFirst'
  BY <1>20 DEF ResyncSend
<1>21. ASSUME NEW r \in Requests, Crash(r)
      PROVE  WrittenFirst'
  BY <1>21 DEF Crash, InFlight
<1>22. CASE Poll
  BY <1>22 DEF Poll
<1>23. CASE ClearDiffs
  BY <1>23 DEF ClearDiffs
<1>24. ASSUME NEW d \in diffs, GetDiff(d)
      PROVE  WrittenFirst'
  BY <1>24 DEF GetDiff
<1>25. CASE UNCHANGED vars
  BY <1>25 DEF vars
<1>26. QED
  BY <1>1, <1>2, <1>3, <1>4, <1>5, <1>6, <1>7, <1>8, <1>9,
     <1>10, <1>11, <1>12, <1>13, <1>14, <1>15, <1>16, <1>17, <1>18,
     <1>19, <1>20, <1>21, <1>22, <1>23, <1>24, <1>25
  DEF Next, RegisterDiffs, Import, Subscriber

\* Every step keeps skipped changes covered.
LEMMA ToldStep == ResyncOption /\ IInv /\ [Next]_vars => SkippedIsTold'
<1> SUFFICES ASSUME ResyncOption /\ IInv, [Next]_vars PROVE SkippedIsTold'
  OBVIOUS
<1> USE RequestsAssumption, BoundsAssumption
    DEF IInv, TypeOK, Requests, Goto, At, Idle, Steps, Resuming, Begin,
        Fault, SkippedIsTold
<1>1. ASSUME NEW c \in Changes, Write(c)
      PROVE  SkippedIsTold'
  BY <1>1 DEF Write
<1>2. ASSUME NEW c \in Changes, FindSuspended(c)
      PROVE  SkippedIsTold'
  BY <1>2 DEF FindSuspended
<1>3. ASSUME NEW c \in Changes, FindNotSuspended(c)
      PROVE  SkippedIsTold'
  BY <1>3 DEF FindNotSuspended
<1>4. ASSUME NEW c \in Changes, SuspensionCheckFails(c)
      PROVE  SkippedIsTold'
  BY <1>4 DEF SuspensionCheckFails
<1>5. ASSUME NEW c \in Changes, LoadSubscription(c)
      PROVE  SkippedIsTold'
  BY <1>5 DEF LoadSubscription
<1>6. ASSUME NEW c \in Changes, IncreaseSeq(c)
      PROVE  SkippedIsTold'
  BY <1>6 DEF IncreaseSeq
<1>7. ASSUME NEW c \in Changes, IncreaseSeqFails(c)
      PROVE  SkippedIsTold'
  BY <1>7 DEF IncreaseSeqFails
<1>8. ASSUME NEW c \in Changes, CreateDiff(c)
      PROVE  SkippedIsTold'
  BY <1>8 DEF CreateDiff
<1>9. ASSUME NEW c \in Changes, CreateConflicts(c)
      PROVE  SkippedIsTold'
  BY <1>9 DEF CreateConflicts
<1>10. ASSUME NEW c \in Changes, CreateFails(c)
      PROVE  SkippedIsTold'
  BY <1>10 DEF CreateFails
<1>11. ASSUME NEW c \in Changes, DecreaseSeq(c)
      PROVE  SkippedIsTold'
  BY <1>11 DEF DecreaseSeq
<1>12. ASSUME NEW c \in Changes, SendCallback(c)
      PROVE  SkippedIsTold'
  <2>1. told \subseteq told'
    BY <1>12 DEF SendCallback
  <2>2. \A e \in Carried(told) : e \in Carried(told')
    BY <2>1 DEF Carried
  <2>3. QED
    BY <1>12, <2>2 DEF SendCallback
<1>13. ASSUME NEW r \in Imports, Suspend(r)
      PROVE  SkippedIsTold'
  BY <1>13 DEF Suspend
<1>14. ASSUME NEW r \in Imports, ResumeNothing(r)
      PROVE  SkippedIsTold'
  BY <1>14 DEF ResumeNothing
<1>15. ASSUME NEW r \in Imports, Resume(r)
      PROVE  SkippedIsTold'
  BY <1>15 DEF Resume
<1>16. ASSUME NEW r \in Imports, ResyncLoad(r)
      PROVE  SkippedIsTold'
  BY <1>16 DEF ResyncLoad
<1>17. ASSUME NEW r \in Imports, ResyncIncrease(r)
      PROVE  SkippedIsTold'
  BY <1>17 DEF ResyncIncrease
<1>18. ASSUME NEW r \in Imports, ResyncIncreaseFails(r)
      PROVE  SkippedIsTold'
  BY <1>18 DEF ResyncIncreaseFails
<1>19. ASSUME NEW r \in Imports, ResyncStore(r)
      PROVE  SkippedIsTold'
  BY <1>19 DEF ResyncStore
<1>20. ASSUME NEW r \in Imports, ResyncSend(r)
      PROVE  SkippedIsTold'
  <2>1. Message(cached[r], written) \in told'
    BY <1>20 DEF ResyncSend
  <2>2. \A e \in written : e \in Carried(told')
    BY <2>1 DEF Carried, Message
  <2>3. skipped' = skipped /\ skipped \subseteq written
    BY <1>20 DEF ResyncSend, WrittenFirst
  <2>4. QED
    BY <2>2, <2>3
<1>21. ASSUME NEW r \in Requests, Crash(r)
      PROVE  SkippedIsTold'
  BY <1>21 DEF Crash
<1>22. CASE Poll
  <2>1. told \subseteq told'
    BY <1>22 DEF Poll
  <2>2. \A e \in Carried(told) : e \in Carried(told')
    BY <2>1 DEF Carried
  <2>3. QED
    BY <1>22, <2>2 DEF Poll
<1>23. CASE ClearDiffs
  BY <1>23 DEF ClearDiffs
<1>24. ASSUME NEW d \in diffs, GetDiff(d)
      PROVE  SkippedIsTold'
  <2>1. told \subseteq told'
    BY <1>24 DEF GetDiff
  <2>2. \A e \in Carried(told) : e \in Carried(told')
    BY <2>1 DEF Carried
  <2>3. QED
    BY <1>24, <2>2 DEF GetDiff
<1>25. CASE UNCHANGED vars
  BY <1>25 DEF vars
<1>26. QED
  BY <1>1, <1>2, <1>3, <1>4, <1>5, <1>6, <1>7, <1>8, <1>9,
     <1>10, <1>11, <1>12, <1>13, <1>14, <1>15, <1>16, <1>17, <1>18,
     <1>19, <1>20, <1>21, <1>22, <1>23, <1>24, <1>25
  DEF Next, RegisterDiffs, Import, Subscriber

\* The numbers known are those of the types.
LEMMA KnownNumbers == TypeOK => \A m \in Known : m.seq \in Nat
BY DEF TypeOK, Known, Messages

\* A diff saved under a new number replaces none.
LEMMA NewNumberIsSaved ==
    ASSUME TypeOK, NumbersAreNew, RecordIsFresh,
           NEW r \in Requests, TookNumber(r)
    PROVE  Numbered(Known, cached[r]) = {} /\ Numbered(diffs, cached[r]) = {}
BY DEF NumbersAreNew, RecordIsFresh, TookNumber, Known, Numbered

\* An acknowledgement clears nothing the subscriber has not been given.
LEMMA ClearingKeepsKnown ==
    ASSUME TypeOK, ClearedWasTold, ClearDiffs
    PROVE  Known' = Known
<1>1. ASSUME NEW d \in diffs, d \notin diffs'
      PROVE  d \in told
  <2>1. PICK m \in polled : ~(d.seq > m.seq)
    BY <1>1 DEF ClearDiffs
  <2>2. d.seq \in Nat /\ m.seq \in Nat
    BY DEF TypeOK, Messages
  <2>3. QED
    BY <2>1, <2>2 DEF ClearedWasTold
<1>2. diffs' \subseteq diffs /\ told' = told
  BY DEF ClearDiffs
<1>3. QED
  BY <1>1, <1>2 DEF Known

\* At high granularity what was announced stays announced.
LEMMA SentStep == Granularity = "high" /\ IInv /\ [Next]_vars => SentInFull'
<1> SUFFICES ASSUME Granularity = "high", IInv, [Next]_vars
             PROVE  SentInFull'
  OBVIOUS
<1> USE RequestsAssumption, BoundsAssumption
    DEF IInv, TypeOK, Requests, Goto, At, Idle, Steps, Resuming, Begin,
        Fault, SentInFull
<1>1. ASSUME NEW c \in Changes, Write(c) PROVE SentInFull'
  BY <1>1 DEF Write
<1>2. ASSUME NEW c \in Changes, FindSuspended(c) PROVE SentInFull'
  BY <1>2 DEF FindSuspended
<1>3. ASSUME NEW c \in Changes, FindNotSuspended(c) PROVE SentInFull'
  BY <1>3 DEF FindNotSuspended
<1>4. ASSUME NEW c \in Changes, SuspensionCheckFails(c) PROVE SentInFull'
  BY <1>4 DEF SuspensionCheckFails
<1>5. ASSUME NEW c \in Changes, LoadSubscription(c) PROVE SentInFull'
  BY <1>5 DEF LoadSubscription
<1>6. ASSUME NEW c \in Changes, IncreaseSeq(c) PROVE SentInFull'
  BY <1>6 DEF IncreaseSeq
<1>7. ASSUME NEW c \in Changes, IncreaseSeqFails(c) PROVE SentInFull'
  BY <1>7 DEF IncreaseSeqFails
<1>8. ASSUME NEW c \in Changes, CreateDiff(c) PROVE SentInFull'
  BY <1>8 DEF CreateDiff
<1>9. ASSUME NEW c \in Changes, CreateConflicts(c) PROVE SentInFull'
  BY <1>9 DEF CreateConflicts
<1>10. ASSUME NEW c \in Changes, CreateFails(c) PROVE SentInFull'
  BY <1>10 DEF CreateFails
<1>11. ASSUME NEW c \in Changes, DecreaseSeq(c) PROVE SentInFull'
  BY <1>11 DEF DecreaseSeq
<1>12. ASSUME NEW c \in Changes, SendCallback(c) PROVE SentInFull'
  <2>1. /\ told \subseteq told'
        /\ Message(cached[c], {c}) \in told'
    BY <1>12 DEF SendCallback
  <2>2. /\ \A e \in Carried(told) : e \in Carried(told')
        /\ c \in Carried(told')
    BY <2>1 DEF Carried, Message
  <2>3. QED
    BY <1>12, <2>2 DEF SendCallback
<1>13. ASSUME NEW r \in Imports, Suspend(r) PROVE SentInFull'
  BY <1>13 DEF Suspend
<1>14. ASSUME NEW r \in Imports, ResumeNothing(r) PROVE SentInFull'
  BY <1>14 DEF ResumeNothing
<1>15. ASSUME NEW r \in Imports, Resume(r) PROVE SentInFull'
  BY <1>15 DEF Resume
<1>16. ASSUME NEW r \in Imports, ResyncLoad(r) PROVE SentInFull'
  BY <1>16 DEF ResyncLoad
<1>17. ASSUME NEW r \in Imports, ResyncIncrease(r) PROVE SentInFull'
  BY <1>17 DEF ResyncIncrease
<1>18. ASSUME NEW r \in Imports, ResyncIncreaseFails(r) PROVE SentInFull'
  BY <1>18 DEF ResyncIncreaseFails
<1>19. ASSUME NEW r \in Imports, ResyncStore(r) PROVE SentInFull'
  BY <1>19 DEF ResyncStore
<1>20. ASSUME NEW r \in Imports, ResyncSend(r) PROVE SentInFull'
  <2>1. told \subseteq told'
    BY <1>20 DEF ResyncSend
  <2>2. \A e \in Carried(told) : e \in Carried(told')
    BY <2>1 DEF Carried
  <2>3. QED
    BY <1>20, <2>2 DEF ResyncSend
<1>21. ASSUME NEW r \in Requests, Crash(r) PROVE SentInFull'
  BY <1>21 DEF Crash, InFlight
<1>22. CASE Poll
  <2>1. told \subseteq told'
    BY <1>22 DEF Poll
  <2>2. \A e \in Carried(told) : e \in Carried(told')
    BY <2>1 DEF Carried
  <2>3. QED
    BY <1>22, <2>2 DEF Poll
<1>23. CASE ClearDiffs
  BY <1>23 DEF ClearDiffs
<1>24. ASSUME NEW d \in diffs, GetDiff(d) PROVE SentInFull'
  <2>1. told \subseteq told'
    BY <1>24 DEF GetDiff
  <2>2. \A e \in Carried(told) : e \in Carried(told')
    BY <2>1 DEF Carried
  <2>3. QED
    BY <1>24, <2>2 DEF GetDiff
<1>25. CASE UNCHANGED vars
  BY <1>25 DEF vars
<1>26. QED
  BY <1>1, <1>2, <1>3, <1>4, <1>5, <1>6, <1>7, <1>8, <1>9, <1>10,
     <1>11, <1>12, <1>13, <1>14, <1>15, <1>16, <1>17, <1>18, <1>19,
     <1>20, <1>21, <1>22, <1>23, <1>24, <1>25
  DEF Next, RegisterDiffs, Import, Subscriber

\* As long as no two requests overlap there is at most one.
LEMMA AloneStep == IInv /\ orderly' /\ [Next]_vars => Alone'
<1> SUFFICES ASSUME IInv, orderly', [Next]_vars PROVE Alone'
  OBVIOUS
<1> USE RequestsAssumption, BoundsAssumption
    DEF IInv, TypeOK, Requests, Goto, At, Idle, Steps, Resuming, Begin,
        Fault, Alone, InFlight, Orderly
<1>1. ASSUME NEW c \in Changes, Write(c) PROVE Alone'
  BY <1>1 DEF Write
<1>2. ASSUME NEW c \in Changes, FindSuspended(c) PROVE Alone'
  BY <1>2 DEF FindSuspended
<1>3. ASSUME NEW c \in Changes, FindNotSuspended(c) PROVE Alone'
  BY <1>3 DEF FindNotSuspended
<1>4. ASSUME NEW c \in Changes, SuspensionCheckFails(c) PROVE Alone'
  BY <1>4 DEF SuspensionCheckFails
<1>5. ASSUME NEW c \in Changes, LoadSubscription(c) PROVE Alone'
  BY <1>5 DEF LoadSubscription
<1>6. ASSUME NEW c \in Changes, IncreaseSeq(c) PROVE Alone'
  BY <1>6 DEF IncreaseSeq
<1>7. ASSUME NEW c \in Changes, IncreaseSeqFails(c) PROVE Alone'
  BY <1>7 DEF IncreaseSeqFails
<1>8. ASSUME NEW c \in Changes, CreateDiff(c) PROVE Alone'
  BY <1>8 DEF CreateDiff
<1>9. ASSUME NEW c \in Changes, CreateConflicts(c) PROVE Alone'
  BY <1>9 DEF CreateConflicts
<1>10. ASSUME NEW c \in Changes, CreateFails(c) PROVE Alone'
  BY <1>10 DEF CreateFails
<1>11. ASSUME NEW c \in Changes, DecreaseSeq(c) PROVE Alone'
  BY <1>11 DEF DecreaseSeq
<1>12. ASSUME NEW c \in Changes, SendCallback(c) PROVE Alone'
  BY <1>12 DEF SendCallback
<1>13. ASSUME NEW r \in Imports, Suspend(r) PROVE Alone'
  BY <1>13 DEF Suspend
<1>14. ASSUME NEW r \in Imports, ResumeNothing(r) PROVE Alone'
  BY <1>14 DEF ResumeNothing
<1>15. ASSUME NEW r \in Imports, Resume(r) PROVE Alone'
  BY <1>15 DEF Resume
<1>16. ASSUME NEW r \in Imports, ResyncLoad(r) PROVE Alone'
  BY <1>16 DEF ResyncLoad
<1>17. ASSUME NEW r \in Imports, ResyncIncrease(r) PROVE Alone'
  BY <1>17 DEF ResyncIncrease
<1>18. ASSUME NEW r \in Imports, ResyncIncreaseFails(r) PROVE Alone'
  BY <1>18 DEF ResyncIncreaseFails
<1>19. ASSUME NEW r \in Imports, ResyncStore(r) PROVE Alone'
  BY <1>19 DEF ResyncStore
<1>20. ASSUME NEW r \in Imports, ResyncSend(r) PROVE Alone'
  BY <1>20 DEF ResyncSend
<1>21. ASSUME NEW r \in Requests, Crash(r) PROVE Alone'
  BY <1>21 DEF Crash
<1>22. CASE Poll
  BY <1>22 DEF Poll
<1>23. CASE ClearDiffs
  BY <1>23 DEF ClearDiffs
<1>24. ASSUME NEW d \in diffs, GetDiff(d) PROVE Alone'
  BY <1>24 DEF GetDiff
<1>25. CASE UNCHANGED vars
  BY <1>25 DEF vars
<1>26. QED
  BY <1>1, <1>2, <1>3, <1>4, <1>5, <1>6, <1>7, <1>8, <1>9, <1>10,
     <1>11, <1>12, <1>13, <1>14, <1>15, <1>16, <1>17, <1>18, <1>19,
     <1>20, <1>21, <1>22, <1>23, <1>24, <1>25
  DEF Next, RegisterDiffs, Import, Subscriber

\* The full state is only stored for a peer that knows no resync.
LEMMA StoredStep == IInv /\ orderly' /\ [Next]_vars => StoredInsteadOfSent'
<1> SUFFICES ASSUME IInv, orderly', [Next]_vars PROVE StoredInsteadOfSent'
  OBVIOUS
<1> USE RequestsAssumption, BoundsAssumption
    DEF IInv, TypeOK, Requests, Goto, At, Idle, Steps, Resuming, Begin,
        Fault, Alone, InFlight, Orderly, StoredInsteadOfSent
<1>1. ASSUME NEW c \in Changes, Write(c) PROVE StoredInsteadOfSent'
  BY <1>1 DEF Write
<1>2. ASSUME NEW c \in Changes, FindSuspended(c) PROVE StoredInsteadOfSent'
  BY <1>2 DEF FindSuspended
<1>3. ASSUME NEW c \in Changes, FindNotSuspended(c) PROVE StoredInsteadOfSent'
  BY <1>3 DEF FindNotSuspended
<1>4. ASSUME NEW c \in Changes, SuspensionCheckFails(c)
      PROVE  StoredInsteadOfSent'
  BY <1>4 DEF SuspensionCheckFails
<1>5. ASSUME NEW c \in Changes, LoadSubscription(c) PROVE StoredInsteadOfSent'
  BY <1>5 DEF LoadSubscription
<1>6. ASSUME NEW c \in Changes, IncreaseSeq(c) PROVE StoredInsteadOfSent'
  BY <1>6 DEF IncreaseSeq
<1>7. ASSUME NEW c \in Changes, IncreaseSeqFails(c) PROVE StoredInsteadOfSent'
  BY <1>7 DEF IncreaseSeqFails
<1>8. ASSUME NEW c \in Changes, CreateDiff(c) PROVE StoredInsteadOfSent'
  BY <1>8 DEF CreateDiff, Save
<1>9. ASSUME NEW c \in Changes, CreateConflicts(c) PROVE StoredInsteadOfSent'
  BY <1>9 DEF CreateConflicts
<1>10. ASSUME NEW c \in Changes, CreateFails(c) PROVE StoredInsteadOfSent'
  BY <1>10 DEF CreateFails
<1>11. ASSUME NEW c \in Changes, DecreaseSeq(c) PROVE StoredInsteadOfSent'
  BY <1>11 DEF DecreaseSeq
<1>12. ASSUME NEW c \in Changes, SendCallback(c) PROVE StoredInsteadOfSent'
  BY <1>12 DEF SendCallback
<1>13. ASSUME NEW r \in Imports, Suspend(r) PROVE StoredInsteadOfSent'
  BY <1>13 DEF Suspend
<1>14. ASSUME NEW r \in Imports, ResumeNothing(r) PROVE StoredInsteadOfSent'
  BY <1>14 DEF ResumeNothing
<1>15. ASSUME NEW r \in Imports, Resume(r) PROVE StoredInsteadOfSent'
  BY <1>15 DEF Resume
<1>16. ASSUME NEW r \in Imports, ResyncLoad(r) PROVE StoredInsteadOfSent'
  BY <1>16 DEF ResyncLoad
<1>17. ASSUME NEW r \in Imports, ResyncIncrease(r) PROVE StoredInsteadOfSent'
  BY <1>17 DEF ResyncIncrease
<1>18. ASSUME NEW r \in Imports, ResyncIncreaseFails(r)
      PROVE  StoredInsteadOfSent'
  BY <1>18 DEF ResyncIncreaseFails
<1>19. ASSUME NEW r \in Imports, ResyncStore(r) PROVE StoredInsteadOfSent'
  BY <1>19 DEF ResyncStore, Save
<1>20. ASSUME NEW r \in Imports, ResyncSend(r) PROVE StoredInsteadOfSent'
  BY <1>20 DEF ResyncSend
<1>21. ASSUME NEW r \in Requests, Crash(r) PROVE StoredInsteadOfSent'
  BY <1>21 DEF Crash
<1>22. CASE Poll
  BY <1>22 DEF Poll
<1>23. CASE ClearDiffs
  BY <1>23 DEF ClearDiffs
<1>24. ASSUME NEW d \in diffs, GetDiff(d) PROVE StoredInsteadOfSent'
  BY <1>24 DEF GetDiff
<1>25. CASE UNCHANGED vars
  BY <1>25 DEF vars
<1>26. QED
  BY <1>1, <1>2, <1>3, <1>4, <1>5, <1>6, <1>7, <1>8, <1>9, <1>10,
     <1>11, <1>12, <1>13, <1>14, <1>15, <1>16, <1>17, <1>18, <1>19,
     <1>20, <1>21, <1>22, <1>23, <1>24, <1>25
  DEF Next, RegisterDiffs, Import, Subscriber

\* A request that is alone finds the record as it read it.
LEMMA FreshStep == IInv /\ orderly' /\ [Next]_vars => RecordIsFresh'
<1> SUFFICES ASSUME IInv, orderly', [Next]_vars PROVE RecordIsFresh'
  OBVIOUS
<1> USE RequestsAssumption, BoundsAssumption
    DEF IInv, TypeOK, Requests, Goto, At, Idle, Steps, Resuming, Begin,
        Fault, Alone, InFlight, Orderly, RecordIsFresh
<1>1. ASSUME NEW c \in Changes, Write(c) PROVE RecordIsFresh'
  BY <1>1 DEF Write
<1>2. ASSUME NEW c \in Changes, FindSuspended(c) PROVE RecordIsFresh'
  BY <1>2 DEF FindSuspended
<1>3. ASSUME NEW c \in Changes, FindNotSuspended(c) PROVE RecordIsFresh'
  BY <1>3 DEF FindNotSuspended
<1>4. ASSUME NEW c \in Changes, SuspensionCheckFails(c) PROVE RecordIsFresh'
  BY <1>4 DEF SuspensionCheckFails
<1>5. ASSUME NEW c \in Changes, LoadSubscription(c) PROVE RecordIsFresh'
  BY <1>5 DEF LoadSubscription
<1>6. ASSUME NEW c \in Changes, IncreaseSeq(c) PROVE RecordIsFresh'
  BY <1>6 DEF IncreaseSeq
<1>7. ASSUME NEW c \in Changes, IncreaseSeqFails(c) PROVE RecordIsFresh'
  BY <1>7 DEF IncreaseSeqFails
<1>8. ASSUME NEW c \in Changes, CreateDiff(c) PROVE RecordIsFresh'
  BY <1>8 DEF CreateDiff, Save
<1>9. ASSUME NEW c \in Changes, CreateConflicts(c) PROVE RecordIsFresh'
  BY <1>9 DEF CreateConflicts
<1>10. ASSUME NEW c \in Changes, CreateFails(c) PROVE RecordIsFresh'
  BY <1>10 DEF CreateFails
<1>11. ASSUME NEW c \in Changes, DecreaseSeq(c) PROVE RecordIsFresh'
  BY <1>11 DEF DecreaseSeq
<1>12. ASSUME NEW c \in Changes, SendCallback(c) PROVE RecordIsFresh'
  BY <1>12 DEF SendCallback
<1>13. ASSUME NEW r \in Imports, Suspend(r) PROVE RecordIsFresh'
  BY <1>13 DEF Suspend
<1>14. ASSUME NEW r \in Imports, ResumeNothing(r) PROVE RecordIsFresh'
  BY <1>14 DEF ResumeNothing
<1>15. ASSUME NEW r \in Imports, Resume(r) PROVE RecordIsFresh'
  BY <1>15 DEF Resume
<1>16. ASSUME NEW r \in Imports, ResyncLoad(r) PROVE RecordIsFresh'
  BY <1>16 DEF ResyncLoad
<1>17. ASSUME NEW r \in Imports, ResyncIncrease(r) PROVE RecordIsFresh'
  BY <1>17 DEF ResyncIncrease
<1>18. ASSUME NEW r \in Imports, ResyncIncreaseFails(r) PROVE RecordIsFresh'
  BY <1>18 DEF ResyncIncreaseFails
<1>19. ASSUME NEW r \in Imports, ResyncStore(r) PROVE RecordIsFresh'
  BY <1>19 DEF ResyncStore, Save
<1>20. ASSUME NEW r \in Imports, ResyncSend(r) PROVE RecordIsFresh'
  BY <1>20 DEF ResyncSend
<1>21. ASSUME NEW r \in Requests, Crash(r) PROVE RecordIsFresh'
  BY <1>21 DEF Crash
<1>22. CASE Poll
  BY <1>22 DEF Poll
<1>23. CASE ClearDiffs
  BY <1>23 DEF ClearDiffs
<1>24. ASSUME NEW d \in diffs, GetDiff(d) PROVE RecordIsFresh'
  BY <1>24 DEF GetDiff
<1>25. CASE UNCHANGED vars
  BY <1>25 DEF vars
<1>26. QED
  BY <1>1, <1>2, <1>3, <1>4, <1>5, <1>6, <1>7, <1>8, <1>9, <1>10,
     <1>11, <1>12, <1>13, <1>14, <1>15, <1>16, <1>17, <1>18, <1>19,
     <1>20, <1>21, <1>22, <1>23, <1>24, <1>25
  DEF Next, RegisterDiffs, Import, Subscriber

\* No number is known that the record has not reached: a number is given
\* back only while nothing is known by it.
LEMMA TakenStep == IInv /\ orderly' /\ [Next]_vars => NumbersAreTaken'
<1> SUFFICES ASSUME IInv, orderly', [Next]_vars PROVE NumbersAreTaken'
  OBVIOUS
<1> USE RequestsAssumption, BoundsAssumption
    DEF IInv, TypeOK, Requests, Goto, At, Idle, Steps, Resuming, Begin,
        Fault, Alone, InFlight, Orderly, NumbersAreTaken, RecordIsFresh,
        NumbersAreNew, Known, Numbered, TookNumber, Message
<1>1. ASSUME NEW c \in Changes, Write(c) PROVE NumbersAreTaken'
  BY <1>1 DEF Write
<1>2. ASSUME NEW c \in Changes, FindSuspended(c) PROVE NumbersAreTaken'
  BY <1>2 DEF FindSuspended
<1>3. ASSUME NEW c \in Changes, FindNotSuspended(c) PROVE NumbersAreTaken'
  BY <1>3 DEF FindNotSuspended
<1>4. ASSUME NEW c \in Changes, SuspensionCheckFails(c) PROVE NumbersAreTaken'
  BY <1>4 DEF SuspensionCheckFails
<1>5. ASSUME NEW c \in Changes, LoadSubscription(c) PROVE NumbersAreTaken'
  BY <1>5 DEF LoadSubscription
<1>6. ASSUME NEW c \in Changes, IncreaseSeqFails(c) PROVE NumbersAreTaken'
  BY <1>6 DEF IncreaseSeqFails
<1>7. ASSUME NEW c \in Changes, CreateDiff(c) PROVE NumbersAreTaken'
  BY <1>7 DEF CreateDiff, Save
<1>8. ASSUME NEW c \in Changes, CreateConflicts(c) PROVE NumbersAreTaken'
  BY <1>8 DEF CreateConflicts
<1>9. ASSUME NEW c \in Changes, CreateFails(c) PROVE NumbersAreTaken'
  BY <1>9 DEF CreateFails
<1>10. ASSUME NEW c \in Changes, SendCallback(c) PROVE NumbersAreTaken'
  BY <1>10 DEF SendCallback
<1>11. ASSUME NEW c \in Changes, IncreaseSeq(c) PROVE NumbersAreTaken'
  BY <1>11, KnownNumbers DEF IncreaseSeq, Messages
<1>12. ASSUME NEW c \in Changes, DecreaseSeq(c) PROVE NumbersAreTaken'
  BY <1>12, KnownNumbers DEF DecreaseSeq, Messages
<1>13. ASSUME NEW r \in Imports, Suspend(r) PROVE NumbersAreTaken'
  BY <1>13 DEF Suspend
<1>14. ASSUME NEW r \in Imports, ResumeNothing(r) PROVE NumbersAreTaken'
  BY <1>14 DEF ResumeNothing
<1>15. ASSUME NEW r \in Imports, Resume(r) PROVE NumbersAreTaken'
  BY <1>15 DEF Resume
<1>16. ASSUME NEW r \in Imports, ResyncLoad(r) PROVE NumbersAreTaken'
  BY <1>16 DEF ResyncLoad
<1>17. ASSUME NEW r \in Imports, ResyncIncreaseFails(r) PROVE NumbersAreTaken'
  BY <1>17 DEF ResyncIncreaseFails
<1>18. ASSUME NEW r \in Imports, ResyncStore(r) PROVE NumbersAreTaken'
  BY <1>18 DEF ResyncStore, Save
<1>19. ASSUME NEW r \in Imports, ResyncSend(r) PROVE NumbersAreTaken'
  BY <1>19 DEF ResyncSend
<1>20. ASSUME NEW r \in Imports, ResyncIncrease(r) PROVE NumbersAreTaken'
  BY <1>20, KnownNumbers DEF ResyncIncrease, Messages
<1>21. ASSUME NEW r \in Requests, Crash(r) PROVE NumbersAreTaken'
  BY <1>21 DEF Crash
<1>22. CASE Poll
  BY <1>22 DEF Poll
<1>23. CASE ClearDiffs
  BY <1>23 DEF ClearDiffs
<1>24. ASSUME NEW d \in diffs, GetDiff(d) PROVE NumbersAreTaken'
  BY <1>24 DEF GetDiff
<1>25. CASE UNCHANGED vars
  BY <1>25 DEF vars
<1>26. QED
  BY <1>1, <1>2, <1>3, <1>4, <1>5, <1>6, <1>7, <1>8, <1>9, <1>10,
     <1>11, <1>12, <1>13, <1>14, <1>15, <1>16, <1>17, <1>18, <1>19,
     <1>20, <1>21, <1>22, <1>23, <1>24, <1>25
  DEF Next, RegisterDiffs, Import, Subscriber

\* A number that has just been taken is not in use.
LEMMA NewStep == IInv /\ orderly' /\ [Next]_vars => NumbersAreNew'
<1> SUFFICES ASSUME IInv, orderly', [Next]_vars PROVE NumbersAreNew'
  OBVIOUS
<1> USE RequestsAssumption, BoundsAssumption
    DEF IInv, TypeOK, Requests, Goto, At, Idle, Steps, Resuming, Begin,
        Fault, Alone, InFlight, Orderly, NumbersAreNew, NumbersAreTaken,
        RecordIsFresh, TookNumber, Known, Numbered, StoredInsteadOfSent
<1>1. ASSUME NEW c \in Changes, Write(c) PROVE NumbersAreNew'
  BY <1>1 DEF Write
<1>2. ASSUME NEW c \in Changes, FindSuspended(c) PROVE NumbersAreNew'
  BY <1>2 DEF FindSuspended
<1>3. ASSUME NEW c \in Changes, FindNotSuspended(c) PROVE NumbersAreNew'
  BY <1>3 DEF FindNotSuspended
<1>4. ASSUME NEW c \in Changes, SuspensionCheckFails(c) PROVE NumbersAreNew'
  BY <1>4 DEF SuspensionCheckFails
<1>5. ASSUME NEW c \in Changes, LoadSubscription(c) PROVE NumbersAreNew'
  BY <1>5 DEF LoadSubscription
<1>6. ASSUME NEW c \in Changes, IncreaseSeq(c) PROVE NumbersAreNew'
  BY <1>6 DEF IncreaseSeq
<1>7. ASSUME NEW c \in Changes, IncreaseSeqFails(c) PROVE NumbersAreNew'
  BY <1>7 DEF IncreaseSeqFails
<1>8. ASSUME NEW c \in Changes, CreateConflicts(c) PROVE NumbersAreNew'
  BY <1>8 DEF CreateConflicts
<1>9. ASSUME NEW c \in Changes, CreateFails(c) PROVE NumbersAreNew'
  BY <1>9 DEF CreateFails
<1>10. ASSUME NEW c \in Changes, DecreaseSeq(c) PROVE NumbersAreNew'
  BY <1>10 DEF DecreaseSeq
<1>11. ASSUME NEW c \in Changes, SendCallback(c) PROVE NumbersAreNew'
  BY <1>11 DEF SendCallback
<1>12. ASSUME NEW c \in Changes, CreateDiff(c) PROVE NumbersAreNew'
  <2>1. TookNumber(c)
    BY <1>12 DEF CreateDiff, TookNumber
  <2>2. Numbered(Known, cached[c]) = {} /\ Numbered(diffs, cached[c]) = {}
    BY <1>12, <2>1, NewNumberIsSaved DEF CreateDiff
  <2>3. diffs' = diffs \cup {Message(cached[c], {c})} /\ told' = told
    BY <1>12, <2>2 DEF CreateDiff, Save, Message
  <2>4. Known' = Known \cup {Message(cached[c], {c})}
    BY <2>3 DEF Known
  <2>5. QED
    BY <1>12, <2>1, <2>2, <2>3, <2>4, KnownNumbers DEF CreateDiff,
       NumbersAreNew, NumbersAreTaken, RecordIsFresh, TookNumber, Known,
       Numbered, StoredInsteadOfSent
<1>13. ASSUME NEW r \in Imports, Suspend(r) PROVE NumbersAreNew'
  BY <1>13 DEF Suspend
<1>14. ASSUME NEW r \in Imports, ResumeNothing(r) PROVE NumbersAreNew'
  BY <1>14 DEF ResumeNothing
<1>15. ASSUME NEW r \in Imports, Resume(r) PROVE NumbersAreNew'
  BY <1>15 DEF Resume
<1>16. ASSUME NEW r \in Imports, ResyncLoad(r) PROVE NumbersAreNew'
  BY <1>16 DEF ResyncLoad
<1>17. ASSUME NEW r \in Imports, ResyncIncrease(r) PROVE NumbersAreNew'
  BY <1>17 DEF ResyncIncrease
<1>18. ASSUME NEW r \in Imports, ResyncIncreaseFails(r) PROVE NumbersAreNew'
  BY <1>18 DEF ResyncIncreaseFails
<1>19. ASSUME NEW r \in Imports, ResyncSend(r) PROVE NumbersAreNew'
  BY <1>19 DEF ResyncSend
<1>20. ASSUME NEW r \in Imports, ResyncStore(r) PROVE NumbersAreNew'
  <2>1. TookNumber(r)
    BY <1>20 DEF ResyncStore, TookNumber
  <2>2. Numbered(Known, cached[r]) = {} /\ Numbered(diffs, cached[r]) = {}
    BY <1>20, <2>1, NewNumberIsSaved DEF ResyncStore
  <2>3. diffs' = diffs \cup {Message(cached[r], written)} /\ told' = told
    BY <1>20, <2>2 DEF ResyncStore, Save, Message
  <2>4. Known' = Known \cup {Message(cached[r], written)}
    BY <2>3 DEF Known
  <2>5. QED
    BY <1>20, <2>1, <2>2, <2>3, <2>4, KnownNumbers DEF ResyncStore,
       NumbersAreNew, NumbersAreTaken, RecordIsFresh, TookNumber, Known,
       Numbered, StoredInsteadOfSent
<1>21. ASSUME NEW r \in Requests, Crash(r) PROVE NumbersAreNew'
  BY <1>21 DEF Crash
<1>22. CASE Poll
  BY <1>22 DEF Poll
<1>23. CASE ClearDiffs
  <2>1. Known' = Known
    BY <1>23, ClearingKeepsKnown DEF ClearDiffs
  <2>2. QED
    BY <1>23, <2>1 DEF ClearDiffs
<1>24. ASSUME NEW d \in diffs, GetDiff(d) PROVE NumbersAreNew'
  BY <1>24 DEF GetDiff
<1>25. CASE UNCHANGED vars
  BY <1>25 DEF vars
<1>26. QED
  BY <1>1, <1>2, <1>3, <1>4, <1>5, <1>6, <1>7, <1>8, <1>9, <1>10,
     <1>11, <1>12, <1>13, <1>14, <1>15, <1>16, <1>17, <1>18, <1>19,
     <1>20, <1>21, <1>22, <1>23, <1>24, <1>25
  DEF Next, RegisterDiffs, Import, Subscriber

\* What is stored or sent under a number does not change.
LEMMA UniqueStep == IInv /\ orderly' /\ [Next]_vars => NumbersAreUnique'
<1> SUFFICES ASSUME IInv, orderly', [Next]_vars PROVE NumbersAreUnique'
  OBVIOUS
<1> USE RequestsAssumption, BoundsAssumption
    DEF IInv, TypeOK, Requests, Goto, At, Idle, Steps, Resuming, Begin,
        Fault, Alone, InFlight, Orderly, NumbersAreUnique, NumbersAreNew,
        RecordIsFresh, TookNumber, Known, Numbered, Message, WaitsToBeSent
<1>1. ASSUME NEW c \in Changes, Write(c) PROVE NumbersAreUnique'
  BY <1>1 DEF Write
<1>2. ASSUME NEW c \in Changes, FindSuspended(c) PROVE NumbersAreUnique'
  BY <1>2 DEF FindSuspended
<1>3. ASSUME NEW c \in Changes, FindNotSuspended(c) PROVE NumbersAreUnique'
  BY <1>3 DEF FindNotSuspended
<1>4. ASSUME NEW c \in Changes, SuspensionCheckFails(c) PROVE NumbersAreUnique'
  BY <1>4 DEF SuspensionCheckFails
<1>5. ASSUME NEW c \in Changes, LoadSubscription(c) PROVE NumbersAreUnique'
  BY <1>5 DEF LoadSubscription
<1>6. ASSUME NEW c \in Changes, IncreaseSeq(c) PROVE NumbersAreUnique'
  BY <1>6 DEF IncreaseSeq
<1>7. ASSUME NEW c \in Changes, IncreaseSeqFails(c) PROVE NumbersAreUnique'
  BY <1>7 DEF IncreaseSeqFails
<1>8. ASSUME NEW c \in Changes, CreateConflicts(c) PROVE NumbersAreUnique'
  BY <1>8 DEF CreateConflicts
<1>9. ASSUME NEW c \in Changes, CreateFails(c) PROVE NumbersAreUnique'
  BY <1>9 DEF CreateFails
<1>10. ASSUME NEW c \in Changes, DecreaseSeq(c) PROVE NumbersAreUnique'
  BY <1>10 DEF DecreaseSeq
<1>11. ASSUME NEW c \in Changes, SendCallback(c) PROVE NumbersAreUnique'
  BY <1>11 DEF SendCallback
<1>12. ASSUME NEW c \in Changes, CreateDiff(c) PROVE NumbersAreUnique'
  <2>1. TookNumber(c)
    BY <1>12 DEF CreateDiff, TookNumber
  <2>2. Numbered(Known, cached[c]) = {} /\ Numbered(diffs, cached[c]) = {}
    BY <1>12, <2>1, NewNumberIsSaved DEF CreateDiff
  <2>3. diffs' = diffs \cup {Message(cached[c], {c})} /\ told' = told
    BY <1>12, <2>2 DEF CreateDiff, Save, Message
  <2>4. \A m \in told \cup diffs : m.seq # Message(cached[c], {c}).seq
    BY <2>2 DEF Numbered, Known, Message
  <2>5. NumbersAreUnique
    BY <1>12 DEF CreateDiff
  <2>6. QED
    BY <2>3, <2>4, <2>5 DEF NumbersAreUnique
<1>13. ASSUME NEW r \in Imports, Suspend(r) PROVE NumbersAreUnique'
  BY <1>13 DEF Suspend
<1>14. ASSUME NEW r \in Imports, ResumeNothing(r) PROVE NumbersAreUnique'
  BY <1>14 DEF ResumeNothing
<1>15. ASSUME NEW r \in Imports, Resume(r) PROVE NumbersAreUnique'
  BY <1>15 DEF Resume
<1>16. ASSUME NEW r \in Imports, ResyncLoad(r) PROVE NumbersAreUnique'
  BY <1>16 DEF ResyncLoad
<1>17. ASSUME NEW r \in Imports, ResyncIncrease(r) PROVE NumbersAreUnique'
  BY <1>17 DEF ResyncIncrease
<1>18. ASSUME NEW r \in Imports, ResyncIncreaseFails(r) PROVE NumbersAreUnique'
  BY <1>18 DEF ResyncIncreaseFails
<1>19. ASSUME NEW r \in Imports, ResyncSend(r) PROVE NumbersAreUnique'
  BY <1>19 DEF ResyncSend
<1>20. ASSUME NEW r \in Imports, ResyncStore(r) PROVE NumbersAreUnique'
  <2>1. TookNumber(r)
    BY <1>20 DEF ResyncStore, TookNumber
  <2>2. Numbered(Known, cached[r]) = {} /\ Numbered(diffs, cached[r]) = {}
    BY <1>20, <2>1, NewNumberIsSaved DEF ResyncStore
  <2>3. diffs' = diffs \cup {Message(cached[r], written)} /\ told' = told
    BY <1>20, <2>2 DEF ResyncStore, Save, Message
  <2>4. Known' = Known \cup {Message(cached[r], written)}
    BY <2>3 DEF Known
  <2>5. QED
    BY <1>20, <2>1, <2>2, <2>3, <2>4, KnownNumbers DEF ResyncStore,
       NumbersAreUnique, NumbersAreNew, RecordIsFresh, TookNumber, Known,
       Numbered, Message, WaitsToBeSent
<1>21. ASSUME NEW r \in Requests, Crash(r) PROVE NumbersAreUnique'
  BY <1>21 DEF Crash
<1>22. CASE Poll
  BY <1>22 DEF Poll
<1>23. CASE ClearDiffs
  <2>1. Known' = Known
    BY <1>23, ClearingKeepsKnown DEF ClearDiffs
  <2>2. QED
    BY <1>23, <2>1 DEF ClearDiffs
<1>24. ASSUME NEW d \in diffs, GetDiff(d) PROVE NumbersAreUnique'
  BY <1>24 DEF GetDiff
<1>25. CASE UNCHANGED vars
  BY <1>25 DEF vars
<1>26. QED
  BY <1>1, <1>2, <1>3, <1>4, <1>5, <1>6, <1>7, <1>8, <1>9, <1>10,
     <1>11, <1>12, <1>13, <1>14, <1>15, <1>16, <1>17, <1>18, <1>19,
     <1>20, <1>21, <1>22, <1>23, <1>24, <1>25
  DEF Next, RegisterDiffs, Import, Subscriber

\* Each number is in use, or just taken, or its request died.
LEMMA GapStep == IInv /\ orderly' /\ [Next]_vars => NoGap'
<1> SUFFICES ASSUME IInv, orderly', [Next]_vars PROVE NoGap'
  OBVIOUS
<1> USE RequestsAssumption, BoundsAssumption
    DEF IInv, TypeOK, Requests, Goto, At, Idle, Steps, Resuming, Begin,
        Fault, Alone, InFlight, Orderly, NoGap, NumbersAreNew,
        RecordIsFresh, TookNumber, Known, Numbered, Died, Message
<1>1. ASSUME NEW c \in Changes, Write(c) PROVE NoGap'
  BY <1>1 DEF Write
<1>2. ASSUME NEW c \in Changes, FindSuspended(c) PROVE NoGap'
  BY <1>2 DEF FindSuspended
<1>3. ASSUME NEW c \in Changes, FindNotSuspended(c) PROVE NoGap'
  BY <1>3 DEF FindNotSuspended
<1>4. ASSUME NEW c \in Changes, SuspensionCheckFails(c) PROVE NoGap'
  BY <1>4 DEF SuspensionCheckFails
<1>5. ASSUME NEW c \in Changes, LoadSubscription(c) PROVE NoGap'
  BY <1>5 DEF LoadSubscription
<1>6. ASSUME NEW c \in Changes, IncreaseSeq(c) PROVE NoGap'
  BY <1>6 DEF IncreaseSeq
<1>7. ASSUME NEW c \in Changes, IncreaseSeqFails(c) PROVE NoGap'
  BY <1>7 DEF IncreaseSeqFails
<1>8. ASSUME NEW c \in Changes, CreateConflicts(c) PROVE NoGap'
  BY <1>8 DEF CreateConflicts
<1>9. ASSUME NEW c \in Changes, CreateFails(c) PROVE NoGap'
  BY <1>9 DEF CreateFails
<1>10. ASSUME NEW c \in Changes, DecreaseSeq(c) PROVE NoGap'
  BY <1>10 DEF DecreaseSeq
<1>11. ASSUME NEW c \in Changes, SendCallback(c) PROVE NoGap'
  BY <1>11 DEF SendCallback
<1>12. ASSUME NEW c \in Changes, CreateDiff(c) PROVE NoGap'
  <2>1. TookNumber(c)
    BY <1>12 DEF CreateDiff, TookNumber
  <2>2. Numbered(Known, cached[c]) = {} /\ Numbered(diffs, cached[c]) = {}
    BY <1>12, <2>1, NewNumberIsSaved DEF CreateDiff
  <2>3. diffs' = diffs \cup {Message(cached[c], {c})} /\ told' = told
    BY <1>12, <2>2 DEF CreateDiff, Save, Message
  <2>4. Known' = Known \cup {Message(cached[c], {c})}
    BY <2>3 DEF Known
  <2>5. QED
    BY <1>12, <2>1, <2>2, <2>3, <2>4, KnownNumbers DEF CreateDiff, NoGap,
       NumbersAreNew, RecordIsFresh, TookNumber, Known, Numbered, Died, Message
<1>13. ASSUME NEW r \in Imports, Suspend(r) PROVE NoGap'
  BY <1>13 DEF Suspend
<1>14. ASSUME NEW r \in Imports, ResumeNothing(r) PROVE NoGap'
  BY <1>14 DEF ResumeNothing
<1>15. ASSUME NEW r \in Imports, Resume(r) PROVE NoGap'
  BY <1>15 DEF Resume
<1>16. ASSUME NEW r \in Imports, ResyncLoad(r) PROVE NoGap'
  BY <1>16 DEF ResyncLoad
<1>17. ASSUME NEW r \in Imports, ResyncIncrease(r) PROVE NoGap'
  BY <1>17 DEF ResyncIncrease
<1>18. ASSUME NEW r \in Imports, ResyncIncreaseFails(r) PROVE NoGap'
  BY <1>18 DEF ResyncIncreaseFails
<1>19. ASSUME NEW r \in Imports, ResyncStore(r) PROVE NoGap'
  <2>1. TookNumber(r)
    BY <1>19 DEF ResyncStore, TookNumber
  <2>2. Numbered(Known, cached[r]) = {} /\ Numbered(diffs, cached[r]) = {}
    BY <1>19, <2>1, NewNumberIsSaved DEF ResyncStore
  <2>3. diffs' = diffs \cup {Message(cached[r], written)} /\ told' = told
    BY <1>19, <2>2 DEF ResyncStore, Save, Message
  <2>4. Known' = Known \cup {Message(cached[r], written)}
    BY <2>3 DEF Known
  <2>5. QED
    BY <1>19, <2>1, <2>2, <2>3, <2>4, KnownNumbers DEF ResyncStore, NoGap,
       NumbersAreNew, RecordIsFresh, TookNumber, Known, Numbered, Died, Message
<1>20. ASSUME NEW r \in Imports, ResyncSend(r) PROVE NoGap'
  <2>1. ASSUME ResyncOption
        PROVE  Message(cached[r], written) \in Numbered(Known', sequence)
    BY <1>20, <2>1 DEF ResyncSend, RecordIsFresh, Known, Numbered, Message
  <2>2. ~ResyncOption => ~TookNumber(r)
    BY <1>20 DEF ResyncSend, TookNumber
  <2>3. \A s \in Requests : TookNumber(s) => s = r
    BY <1>20 DEF ResyncSend, TookNumber
  <2>4. \A n : Numbered(Known, n) \subseteq Numbered(Known', n)
    BY <1>20 DEF ResyncSend, Known, Numbered
  <2>5. QED
    BY <1>20, <2>1, <2>2, <2>3, <2>4 DEF ResyncSend, NoGap, Died
<1>21. ASSUME NEW r \in Requests, Crash(r) PROVE NoGap'
  BY <1>21 DEF Crash
<1>22. CASE Poll
  BY <1>22 DEF Poll
<1>23. CASE ClearDiffs
  <2>1. Known' = Known
    BY <1>23, ClearingKeepsKnown DEF ClearDiffs
  <2>2. QED
    BY <1>23, <2>1 DEF ClearDiffs
<1>24. ASSUME NEW d \in diffs, GetDiff(d) PROVE NoGap'
  BY <1>24 DEF GetDiff
<1>25. CASE UNCHANGED vars
  BY <1>25 DEF vars
<1>26. QED
  BY <1>1, <1>2, <1>3, <1>4, <1>5, <1>6, <1>7, <1>8, <1>9, <1>10,
     <1>11, <1>12, <1>13, <1>14, <1>15, <1>16, <1>17, <1>18, <1>19,
     <1>20, <1>21, <1>22, <1>23, <1>24, <1>25
  DEF Next, RegisterDiffs, Import, Subscriber

\* The diff of a callback to be sent is not cleared unread.
LEMMA WaitStep == IInv /\ orderly' /\ [Next]_vars => WaitsToBeSent'
<1> SUFFICES ASSUME IInv, orderly', [Next]_vars PROVE WaitsToBeSent'
  OBVIOUS
<1> USE RequestsAssumption, BoundsAssumption
    DEF IInv, TypeOK, Requests, Goto, At, Idle, Steps, Resuming, Begin,
        Fault, Alone, InFlight, Orderly, WaitsToBeSent, RecordIsFresh,
        Known, Message
<1>1. ASSUME NEW c \in Changes, Write(c) PROVE WaitsToBeSent'
  BY <1>1 DEF Write
<1>2. ASSUME NEW c \in Changes, FindSuspended(c) PROVE WaitsToBeSent'
  BY <1>2 DEF FindSuspended
<1>3. ASSUME NEW c \in Changes, FindNotSuspended(c) PROVE WaitsToBeSent'
  BY <1>3 DEF FindNotSuspended
<1>4. ASSUME NEW c \in Changes, SuspensionCheckFails(c) PROVE WaitsToBeSent'
  BY <1>4 DEF SuspensionCheckFails
<1>5. ASSUME NEW c \in Changes, LoadSubscription(c) PROVE WaitsToBeSent'
  BY <1>5 DEF LoadSubscription
<1>6. ASSUME NEW c \in Changes, IncreaseSeq(c) PROVE WaitsToBeSent'
  BY <1>6 DEF IncreaseSeq
<1>7. ASSUME NEW c \in Changes, IncreaseSeqFails(c) PROVE WaitsToBeSent'
  BY <1>7 DEF IncreaseSeqFails
<1>8. ASSUME NEW c \in Changes, CreateConflicts(c) PROVE WaitsToBeSent'
  BY <1>8 DEF CreateConflicts
<1>9. ASSUME NEW c \in Changes, CreateFails(c) PROVE WaitsToBeSent'
  BY <1>9 DEF CreateFails
<1>10. ASSUME NEW c \in Changes, DecreaseSeq(c) PROVE WaitsToBeSent'
  BY <1>10 DEF DecreaseSeq
<1>11. ASSUME NEW c \in Changes, SendCallback(c) PROVE WaitsToBeSent'
  BY <1>11 DEF SendCallback
<1>12. ASSUME NEW c \in Changes, CreateDiff(c) PROVE WaitsToBeSent'
  <2>1. TookNumber(c)
    BY <1>12 DEF CreateDiff, TookNumber
  <2>2. Numbered(Known, cached[c]) = {} /\ Numbered(diffs, cached[c]) = {}
    BY <1>12, <2>1, NewNumberIsSaved DEF CreateDiff
  <2>3. diffs' = diffs \cup {Message(cached[c], {c})} /\ told' = told
    BY <1>12, <2>2 DEF CreateDiff, Save, Message
  <2>4. Known' = Known \cup {Message(cached[c], {c})}
    BY <2>3 DEF Known
  <2>5. QED
    BY <1>12, <2>1, <2>2, <2>3, <2>4, KnownNumbers DEF CreateDiff,
       WaitsToBeSent, RecordIsFresh, Known, Message
<1>13. ASSUME NEW r \in Imports, Suspend(r) PROVE WaitsToBeSent'
  BY <1>13 DEF Suspend
<1>14. ASSUME NEW r \in Imports, ResumeNothing(r) PROVE WaitsToBeSent'
  BY <1>14 DEF ResumeNothing
<1>15. ASSUME NEW r \in Imports, Resume(r) PROVE WaitsToBeSent'
  BY <1>15 DEF Resume
<1>16. ASSUME NEW r \in Imports, ResyncLoad(r) PROVE WaitsToBeSent'
  BY <1>16 DEF ResyncLoad
<1>17. ASSUME NEW r \in Imports, ResyncIncrease(r) PROVE WaitsToBeSent'
  BY <1>17 DEF ResyncIncrease
<1>18. ASSUME NEW r \in Imports, ResyncIncreaseFails(r) PROVE WaitsToBeSent'
  BY <1>18 DEF ResyncIncreaseFails
<1>19. ASSUME NEW r \in Imports, ResyncStore(r) PROVE WaitsToBeSent'
  BY <1>19 DEF ResyncStore, Save
<1>20. ASSUME NEW r \in Imports, ResyncSend(r) PROVE WaitsToBeSent'
  BY <1>20 DEF ResyncSend
<1>21. ASSUME NEW r \in Requests, Crash(r) PROVE WaitsToBeSent'
  BY <1>21 DEF Crash
<1>22. CASE Poll
  BY <1>22 DEF Poll
<1>23. CASE ClearDiffs
  <2>1. Known' = Known
    BY <1>23, ClearingKeepsKnown DEF ClearDiffs
  <2>2. QED
    BY <1>23, <2>1 DEF ClearDiffs
<1>24. ASSUME NEW d \in diffs, GetDiff(d) PROVE WaitsToBeSent'
  BY <1>24 DEF GetDiff
<1>25. CASE UNCHANGED vars
  BY <1>25 DEF vars
<1>26. QED
  BY <1>1, <1>2, <1>3, <1>4, <1>5, <1>6, <1>7, <1>8, <1>9, <1>10,
     <1>11, <1>12, <1>13, <1>14, <1>15, <1>16, <1>17, <1>18, <1>19,
     <1>20, <1>21, <1>22, <1>23, <1>24, <1>25
  DEF Next, RegisterDiffs, Import, Subscriber

\* An acknowledgement names nothing newer than what was polled.
LEMMA ClearedStep == IInv /\ orderly' /\ [Next]_vars => ClearedWasTold'
<1> SUFFICES ASSUME IInv, orderly', [Next]_vars PROVE ClearedWasTold'
  OBVIOUS
<1> USE RequestsAssumption, BoundsAssumption
    DEF IInv, TypeOK, Requests, Goto, At, Idle, Steps, Resuming, Begin,
        Fault, Alone, InFlight, Orderly, ClearedWasTold, RecordIsFresh,
        NumbersAreTaken, NumbersAreNew, TookNumber, Known, Numbered,
        Message
<1>1. ASSUME NEW c \in Changes, Write(c) PROVE ClearedWasTold'
  BY <1>1 DEF Write
<1>2. ASSUME NEW c \in Changes, FindSuspended(c) PROVE ClearedWasTold'
  BY <1>2 DEF FindSuspended
<1>3. ASSUME NEW c \in Changes, FindNotSuspended(c) PROVE ClearedWasTold'
  BY <1>3 DEF FindNotSuspended
<1>4. ASSUME NEW c \in Changes, SuspensionCheckFails(c) PROVE ClearedWasTold'
  BY <1>4 DEF SuspensionCheckFails
<1>5. ASSUME NEW c \in Changes, LoadSubscription(c) PROVE ClearedWasTold'
  BY <1>5 DEF LoadSubscription
<1>6. ASSUME NEW c \in Changes, IncreaseSeq(c) PROVE ClearedWasTold'
  BY <1>6 DEF IncreaseSeq
<1>7. ASSUME NEW c \in Changes, IncreaseSeqFails(c) PROVE ClearedWasTold'
  BY <1>7 DEF IncreaseSeqFails
<1>8. ASSUME NEW c \in Changes, CreateConflicts(c) PROVE ClearedWasTold'
  BY <1>8 DEF CreateConflicts
<1>9. ASSUME NEW c \in Changes, CreateFails(c) PROVE ClearedWasTold'
  BY <1>9 DEF CreateFails
<1>10. ASSUME NEW c \in Changes, DecreaseSeq(c) PROVE ClearedWasTold'
  BY <1>10 DEF DecreaseSeq
<1>11. ASSUME NEW c \in Changes, SendCallback(c) PROVE ClearedWasTold'
  BY <1>11 DEF SendCallback
<1>12. ASSUME NEW c \in Changes, CreateDiff(c) PROVE ClearedWasTold'
  <2>1. TookNumber(c)
    BY <1>12 DEF CreateDiff, TookNumber
  <2>2. Numbered(Known, cached[c]) = {} /\ Numbered(diffs, cached[c]) = {}
    BY <1>12, <2>1, NewNumberIsSaved DEF CreateDiff
  <2>3. diffs' = diffs \cup {Message(cached[c], {c})} /\ told' = told
    BY <1>12, <2>2 DEF CreateDiff, Save, Message
  <2>4. Known' = Known \cup {Message(cached[c], {c})}
    BY <2>3 DEF Known
  <2>5. QED
    BY <1>12, <2>1, <2>2, <2>3, <2>4, KnownNumbers DEF CreateDiff,
       ClearedWasTold, RecordIsFresh, NumbersAreTaken, NumbersAreNew,
       TookNumber, Known, Numbered, Message
<1>13. ASSUME NEW r \in Imports, Suspend(r) PROVE ClearedWasTold'
  BY <1>13 DEF Suspend
<1>14. ASSUME NEW r \in Imports, ResumeNothing(r) PROVE ClearedWasTold'
  BY <1>14 DEF ResumeNothing
<1>15. ASSUME NEW r \in Imports, Resume(r) PROVE ClearedWasTold'
  BY <1>15 DEF Resume
<1>16. ASSUME NEW r \in Imports, ResyncLoad(r) PROVE ClearedWasTold'
  BY <1>16 DEF ResyncLoad
<1>17. ASSUME NEW r \in Imports, ResyncIncrease(r) PROVE ClearedWasTold'
  BY <1>17 DEF ResyncIncrease
<1>18. ASSUME NEW r \in Imports, ResyncIncreaseFails(r) PROVE ClearedWasTold'
  BY <1>18 DEF ResyncIncreaseFails
<1>19. ASSUME NEW r \in Imports, ResyncSend(r) PROVE ClearedWasTold'
  BY <1>19 DEF ResyncSend
<1>20. ASSUME NEW r \in Imports, ResyncStore(r) PROVE ClearedWasTold'
  <2>1. TookNumber(r)
    BY <1>20 DEF ResyncStore, TookNumber
  <2>2. Numbered(Known, cached[r]) = {} /\ Numbered(diffs, cached[r]) = {}
    BY <1>20, <2>1, NewNumberIsSaved DEF ResyncStore
  <2>3. diffs' = diffs \cup {Message(cached[r], written)} /\ told' = told
    BY <1>20, <2>2 DEF ResyncStore, Save, Message
  <2>4. Known' = Known \cup {Message(cached[r], written)}
    BY <2>3 DEF Known
  <2>5. QED
    BY <1>20, <2>1, <2>2, <2>3, <2>4, KnownNumbers DEF ResyncStore,
       ClearedWasTold, RecordIsFresh, NumbersAreTaken, NumbersAreNew,
       TookNumber, Known, Numbered, Message
<1>21. ASSUME NEW r \in Requests, Crash(r) PROVE ClearedWasTold'
  BY <1>21 DEF Crash
<1>22. CASE Poll
  BY <1>22 DEF Poll
<1>23. CASE ClearDiffs
  BY <1>23 DEF ClearDiffs
<1>24. ASSUME NEW d \in diffs, GetDiff(d) PROVE ClearedWasTold'
  BY <1>24 DEF GetDiff
<1>25. CASE UNCHANGED vars
  BY <1>25 DEF vars
<1>26. QED
  BY <1>1, <1>2, <1>3, <1>4, <1>5, <1>6, <1>7, <1>8, <1>9, <1>10,
     <1>11, <1>12, <1>13, <1>14, <1>15, <1>16, <1>17, <1>18, <1>19,
     <1>20, <1>21, <1>22, <1>23, <1>24, <1>25
  DEF Next, RegisterDiffs, Import, Subscriber

\* A change that is done stays announced.
LEMMA AnnouncedStep == IInv /\ orderly' /\ [Next]_vars => ChangeIsAnnounced'
<1> SUFFICES ASSUME IInv, orderly', [Next]_vars PROVE ChangeIsAnnounced'
  OBVIOUS
<1> USE RequestsAssumption, BoundsAssumption
    DEF IInv, TypeOK, Requests, Goto, At, Idle, Steps, Resuming, Begin,
        Fault, Alone, InFlight, Orderly, ChangeIsAnnounced
<1>1. ASSUME NEW c \in Changes, Write(c) PROVE ChangeIsAnnounced'
  BY <1>1 DEF Write, WrittenFirst
<1>2. ASSUME NEW c \in Changes, FindSuspended(c) PROVE ChangeIsAnnounced'
  BY <1>2 DEF FindSuspended
<1>3. ASSUME NEW c \in Changes, FindNotSuspended(c) PROVE ChangeIsAnnounced'
  BY <1>3 DEF FindNotSuspended
<1>4. ASSUME NEW c \in Changes, SuspensionCheckFails(c)
      PROVE  ChangeIsAnnounced'
  BY <1>4 DEF SuspensionCheckFails
<1>5. ASSUME NEW c \in Changes, LoadSubscription(c) PROVE ChangeIsAnnounced'
  BY <1>5 DEF LoadSubscription
<1>6. ASSUME NEW c \in Changes, IncreaseSeq(c) PROVE ChangeIsAnnounced'
  BY <1>6 DEF IncreaseSeq
<1>7. ASSUME NEW c \in Changes, IncreaseSeqFails(c) PROVE ChangeIsAnnounced'
  BY <1>7 DEF IncreaseSeqFails
<1>8. ASSUME NEW c \in Changes, CreateConflicts(c) PROVE ChangeIsAnnounced'
  BY <1>8 DEF CreateConflicts
<1>9. ASSUME NEW c \in Changes, CreateFails(c) PROVE ChangeIsAnnounced'
  BY <1>9 DEF CreateFails
<1>10. ASSUME NEW c \in Changes, DecreaseSeq(c) PROVE ChangeIsAnnounced'
  BY <1>10 DEF DecreaseSeq
<1>11. ASSUME NEW c \in Changes, CreateDiff(c) PROVE ChangeIsAnnounced'
  <2>1. TookNumber(c)
    BY <1>11 DEF CreateDiff, TookNumber
  <2>2. Numbered(Known, cached[c]) = {} /\ Numbered(diffs, cached[c]) = {}
    BY <1>11, <2>1, NewNumberIsSaved DEF CreateDiff
  <2>3. Known \subseteq Known'
    BY <1>11, <2>2 DEF CreateDiff, Save, Message, Known
  <2>4. \A e \in Carried(Known) : e \in Carried(Known')
    BY <2>3 DEF Carried
  <2>5. QED
    BY <1>11, <2>4 DEF CreateDiff, Known
<1>12. ASSUME NEW c \in Changes, SendCallback(c) PROVE ChangeIsAnnounced'
  <2>1. Known \subseteq Known' /\ Message(cached[c], {c}) \in Known
    BY <1>12 DEF SendCallback, WaitsToBeSent, Known
  <2>2. /\ \A e \in Carried(Known) : e \in Carried(Known')
        /\ c \in Carried(Known')
    BY <2>1 DEF Carried, Message
  <2>3. QED
    BY <1>12, <2>2 DEF SendCallback, Known
<1>13. ASSUME NEW r \in Imports, Suspend(r) PROVE ChangeIsAnnounced'
  BY <1>13 DEF Suspend
<1>14. ASSUME NEW r \in Imports, ResumeNothing(r) PROVE ChangeIsAnnounced'
  BY <1>14 DEF ResumeNothing
<1>15. ASSUME NEW r \in Imports, Resume(r) PROVE ChangeIsAnnounced'
  BY <1>15 DEF Resume
<1>16. ASSUME NEW r \in Imports, ResyncLoad(r) PROVE ChangeIsAnnounced'
  BY <1>16 DEF ResyncLoad
<1>17. ASSUME NEW r \in Imports, ResyncIncrease(r) PROVE ChangeIsAnnounced'
  BY <1>17 DEF ResyncIncrease
<1>18. ASSUME NEW r \in Imports, ResyncIncreaseFails(r)
      PROVE  ChangeIsAnnounced'
  BY <1>18 DEF ResyncIncreaseFails
<1>19. ASSUME NEW r \in Imports, ResyncStore(r) PROVE ChangeIsAnnounced'
  <2>1. TookNumber(r)
    BY <1>19 DEF ResyncStore, TookNumber
  <2>2. Numbered(Known, cached[r]) = {} /\ Numbered(diffs, cached[r]) = {}
    BY <1>19, <2>1, NewNumberIsSaved DEF ResyncStore
  <2>3. Known \subseteq Known'
    BY <1>19, <2>2 DEF ResyncStore, Save, Message, Known
  <2>4. \A e \in Carried(Known) : e \in Carried(Known')
    BY <2>3 DEF Carried
  <2>5. QED
    BY <1>19, <2>4 DEF ResyncStore, Known
<1>20. ASSUME NEW r \in Imports, ResyncSend(r) PROVE ChangeIsAnnounced'
  <2>1. Known \subseteq Known'
    BY <1>20 DEF ResyncSend, Known
  <2>2. \A e \in Carried(Known) : e \in Carried(Known')
    BY <2>1 DEF Carried
  <2>3. QED
    BY <1>20, <2>2 DEF ResyncSend, Known
<1>21. ASSUME NEW r \in Requests, Crash(r) PROVE ChangeIsAnnounced'
  BY <1>21 DEF Crash
<1>22. CASE Poll
  <2>1. Known \subseteq Known'
    BY <1>22 DEF Poll, Known
  <2>2. \A e \in Carried(Known) : e \in Carried(Known')
    BY <2>1 DEF Carried
  <2>3. QED
    BY <1>22, <2>2 DEF Poll, Known
<1>23. CASE ClearDiffs
  <2>1. Known \subseteq Known'
    BY <1>23, ClearingKeepsKnown DEF ClearDiffs, Known
  <2>2. \A e \in Carried(Known) : e \in Carried(Known')
    BY <2>1 DEF Carried
  <2>3. QED
    BY <1>23, <2>2 DEF ClearDiffs, Known
<1>24. ASSUME NEW d \in diffs, GetDiff(d) PROVE ChangeIsAnnounced'
  <2>1. Known \subseteq Known'
    BY <1>24 DEF GetDiff, Known
  <2>2. \A e \in Carried(Known) : e \in Carried(Known')
    BY <2>1 DEF Carried
  <2>3. QED
    BY <1>24, <2>2 DEF GetDiff, Known
<1>25. CASE UNCHANGED vars
  BY <1>25 DEF vars
<1>26. QED
  BY <1>1, <1>2, <1>3, <1>4, <1>5, <1>6, <1>7, <1>8, <1>9, <1>10,
     <1>11, <1>12, <1>13, <1>14, <1>15, <1>16, <1>17, <1>18, <1>19,
     <1>20, <1>21, <1>22, <1>23, <1>24, <1>25
  DEF Next, RegisterDiffs, Import, Subscriber

\* A new subscription satisfies the invariant.
LEMMA InitIInv == Init => IInv
<1> SUFFICES ASSUME Init PROVE IInv
  OBVIOUS
<1> USE BoundsAssumption
    DEF Init, Requests, Idle, Steps, Resuming, Messages, InFlight
<1>1. TypeOK
  <2>1. pc \in [Requests -> Idle \cup Steps] /\ cached \in [Requests -> Nat]
    OBVIOUS
  <2>2. faults \in 0..MaxFaults
    OBVIOUS
  <2>3. QED
    BY <2>1, <2>2 DEF TypeOK
<1>2. NumberTaken /\ WrittenFirst /\ SkippedIsTold
  BY DEF NumberTaken, WrittenFirst, SkippedIsTold
<1>3. SentInFull
  BY DEF SentInFull
<1>4. Orderly
  <2>1. Known = {}
    BY DEF Known
  <2>2. Alone /\ RecordIsFresh /\ StoredInsteadOfSent /\ WaitsToBeSent
    BY DEF Alone, RecordIsFresh, StoredInsteadOfSent, WaitsToBeSent
  <2>3. NumbersAreTaken /\ NumbersAreNew /\ NumbersAreUnique /\ NoGap
    BY <2>1 DEF NumbersAreTaken, NumbersAreNew, NumbersAreUnique, NoGap,
       TookNumber
  <2>4. ClearedWasTold /\ ChangeIsAnnounced
    BY DEF ClearedWasTold, ChangeIsAnnounced
  <2>5. QED
    BY <2>2, <2>3, <2>4 DEF Orderly
<1>5. QED
  BY <1>1, <1>2, <1>3, <1>4 DEF IInv

\* The invariant holds in every behaviour.
THEOREM Invariance == Spec => []IInv
<1>1. Init => IInv
  BY InitIInv
<1>2. IInv /\ [Next]_vars => IInv'
  <2>1. ASSUME IInv, [Next]_vars, orderly' PROVE Orderly'
    BY <2>1, AloneStep, StoredStep, FreshStep, TakenStep, NewStep, UniqueStep,
       GapStep, WaitStep, ClearedStep, AnnouncedStep DEF Orderly
  <2>2. QED
    BY <2>1, TypeStep, NumberStep, WrittenStep, ToldStep, SentStep DEF IInv
<1>3. QED
  BY <1>1, <1>2, PTL DEF Spec

\* Types are preserved; the sequence never becomes negative and no diff or
\* callback has a number below 1, whatever overlaps with a rollback.
THEOREM TypeCorrect == Spec => []TypeOK
  BY Invariance, PTL DEF IInv

\* A change that register_diffs skipped is made good by a resync.
THEOREM SuspensionLosesNothing == ResyncOption => (Spec => []SkippedIsResynced)
<1> SUFFICES ASSUME ResyncOption PROVE Spec => []SkippedIsResynced
  OBVIOUS
<1>1. IInv => SkippedIsResynced
  BY DEF IInv, SkippedIsTold, SkippedIsResynced, Carried
<1>2. QED
  BY <1>1, Invariance, PTL

\* A change whose request is done was announced, can be polled, waits for a
\* resync or was logged as failed.
THEOREM DoneIsAnnounced == Spec => []ChangeIsAnnounced
<1>1. ASSUME IInv PROVE ChangeIsAnnounced
  <2>1. CASE orderly
    BY <1>1, <2>1 DEF IInv, Orderly
  <2>2. CASE Granularity = "high"
    <3>1. SentInFull /\ written \subseteq Changes
      BY <1>1, <2>2 DEF IInv, TypeOK
    <3>2. QED
      BY <3>1 DEF SentInFull, ChangeIsAnnounced, Carried
  <2>3. QED
    BY <2>1, <2>2 DEF ChangeIsAnnounced
<1>2. QED
  BY <1>1, Invariance, PTL

\* As long as the requests of an actor do not overlap, a number stands for one
\* diff and no number is left out.
THEOREM NumbersHold == Spec => []NumbersAreSound
<1>1. ASSUME IInv PROVE NumbersAreSound
  <2>1. SUFFICES ASSUME orderly PROVE NumbersAreUnique /\ NumbersAreUsed
    BY DEF NumbersAreSound
  <2>2. NumbersAreUnique /\ NoGap
    BY <1>1, <2>1 DEF IInv, Orderly
  <2>3. ASSUME InFlight = {}, NEW r \in Requests PROVE ~TookNumber(r)
    BY <1>1, <2>3 DEF IInv, TypeOK, InFlight, TookNumber, Idle
  <2>4. NumbersAreUsed
    BY <2>2, <2>3 DEF NoGap, NumbersAreUsed, Known
  <2>5. QED
    BY <2>2, <2>4
<1>2. QED
  BY <1>1, Invariance, PTL

-----------------------------------------------------------------------------
(* What an operation does to its own state.                                *)

LEMMA Going ==
    ASSUME LifeTypeOK, NEW o \in Operations, NEW r \in Roles,
           NEW step \in LifeSteps, LifeGoto(o, r, step)
    PROVE  /\ at' \in [Operations -> [Roles -> LifeSteps]]
           /\ at'[o][r] = step
           /\ \A q \in Roles \ {r} : at'[o][q] = at[o][q]
           /\ \A q \in Operations \ {o} : at'[q] = at[q]
BY DEF LifeTypeOK, LifeGoto

LEMMA Replying ==
    ASSUME LifeTypeOK, NEW o \in Operations,
           NEW a \in {"ok", "gone", "refused"}, Reply(o, a)
    PROVE  /\ answer' \in [Operations -> {"none", "ok", "gone", "refused"}]
           /\ at[o]["caller"] = "waiting" => answer'[o] = a
           /\ at[o]["caller"] # "waiting" => answer'[o] = "none"
           /\ \A q \in Operations \ {o} : answer'[q] = answer[q]
BY DEF LifeTypeOK, Reply

\* One operation moves; the others are where they were.
Others(o) ==
    \A q \in Operations \ {o} :
        /\ at'[q] = at[q] /\ kind'[q] = kind[q] /\ side'[q] = side[q]
        /\ sub'[q] = sub[q] /\ answer'[q] = answer[q] /\ force'[q] = force[q]
        /\ last'[q] = last[q] /\ list'[q] = list[q] /\ missing'[q] = missing[q]
        /\ alone'[q] => alone[q]

LEMMA OthersStay ==
    ASSUME NEW o \in Operations, LifeTypeOK, Step(o)
    PROVE  Others(o)
<1>0. LifeTypeOK
  OBVIOUS
<1> USE DEF LifeTypeOK, Others
<1>1. CASE Subscribe(o)
  BY <1>0, <1>1 DEF Subscribe, LifeBegin, Call, observed
<1>2. CASE Leave(o)
  BY <1>0, <1>2 DEF Leave, LifeBegin, Call, Put, observed
<1>3. CASE Sync(o)
  BY <1>0, <1>3 DEF Sync, LifeBegin, LifeGoto, observed
<1>4. ASSUME NEW b \in Subscriptions, Callback(o, b) PROVE Others(o)
  BY <1>0, <1>4 DEF Callback, LifeBegin, Call, observed
<1>5. ASSUME NEW x \in Sides, NEW b \in Subscriptions, NEW owner \in BOOLEAN,
   Remove(o, x, b, owner)
      PROVE  Others(o)
  BY <1>0, <1>5 DEF Remove, LifeBegin, Call, observed
<1>6. ASSUME NEW x \in Sides, Drop(o, x) PROVE Others(o)
  BY <1>0, <1>6 DEF Drop, LifeBegin, Call, observed
<1>7. CASE AcceptSubscription(o)
  BY <1>0, <1>7 DEF AcceptSubscription, Handles, Put, Done, LifeGoto, Reply,
     observed
<1>8. CASE SubscriptionCreated(o)
  BY <1>0, <1>8 DEF SubscriptionCreated, LifeAt, Put, LifeGoto, observed
<1>9. CASE SubscriptionFailed(o)
  BY <1>0, <1>9 DEF SubscriptionFailed, LifeAt, TimesOut, LifeFault,
     LifeGoto, observed
<1>10. CASE FetchBaseline(o)
  <2>1. PICK step \in {"store", "done"} : LifeGoto(o, "caller", step)
    BY <1>10 DEF FetchBaseline
  <2>2. /\ at' \in [Operations -> [Roles -> LifeSteps]]
        /\ at'[o]["caller"] = step
        /\ \A q \in Roles \ {"caller"} : at'[o][q] = at[o][q]
        /\ \A q \in Operations \ {o} : at'[q] = at[q]
    BY <1>0, <2>1, Going DEF LifeSteps, Roles
  <2> QED
    BY <1>0, <1>10, <2>1, <2>2 DEF FetchBaseline, observed
<1>11. CASE StoreBaseline(o)
  BY <1>0, <1>11 DEF StoreBaseline, LifeAt, LifeGoto, observed
<1>12. CASE AcceptCallback(o)
  <2>1. PICK step \in {"apply", "none"} : LifeGoto(o, "handler", step)
    BY <1>12 DEF AcceptCallback, Done
  <2>2. /\ at' \in [Operations -> [Roles -> LifeSteps]]
        /\ at'[o]["handler"] = step
        /\ \A q \in Roles \ {"handler"} : at'[o][q] = at[o][q]
        /\ \A q \in Operations \ {o} : at'[q] = at[q]
    BY <1>0, <2>1, Going DEF LifeSteps, Roles
  <2>3. UNCHANGED answer \/ \E a \in {"gone"} : Reply(o, a)
    BY <1>12 DEF AcceptCallback, Done
  <2>4. /\ answer' \in [Operations -> {"none", "ok", "gone", "refused"}]
        /\ answer'[o] \in {answer[o], "none"} \cup {"gone"}
        /\ \A q \in Operations \ {o} : answer'[q] = answer[q]
    BY <1>0, <2>3, Replying DEF LifeTypeOK
  <2> QED
    BY <1>0, <1>12, <2>1, <2>2, <2>4 DEF AcceptCallback, observed
<1>13. CASE ApplyCallback(o)
  BY <1>0, <1>13 DEF ApplyCallback, Handles, LifeGoto, Done, Reply, observed
<1>14. CASE CallbackAnswered(o)
  BY <1>0, <1>14 DEF CallbackAnswered, LifeAt, TimesOut, LifeFault,
     LifeGoto, observed
<1>15. CASE AcceptRemoval(o)
  <2>1. PICK step \in {"read", "delete", "none"} : LifeGoto(o, "handler", step)
    BY <1>15 DEF AcceptRemoval, Done, FirstStep
  <2>2. /\ at' \in [Operations -> [Roles -> LifeSteps]]
        /\ at'[o]["handler"] = step
        /\ \A q \in Roles \ {"handler"} : at'[o][q] = at[o][q]
        /\ \A q \in Operations \ {o} : at'[q] = at[q]
    BY <1>0, <2>1, Going DEF LifeSteps, Roles
  <2>3. UNCHANGED answer \/ \E a \in {"ok"} : Reply(o, a)
    BY <1>15 DEF AcceptRemoval, Done, FirstStep
  <2>4. /\ answer' \in [Operations -> {"none", "ok", "gone", "refused"}]
        /\ answer'[o] \in {answer[o], "none"} \cup {"ok"}
        /\ \A q \in Operations \ {o} : answer'[q] = answer[q]
    BY <1>0, <2>3, Replying DEF LifeTypeOK
  <2> QED
    BY <1>0, <1>15, <2>1, <2>2, <2>4 DEF AcceptRemoval, observed
<1>16. CASE RemovalAnswered(o)
  BY <1>0, <1>16 DEF RemovalAnswered, LifeAt, FirstStep, LifeGoto, observed
<1>17. CASE RemovalFailed(o)
  BY <1>0, <1>17 DEF RemovalFailed, LifeAt, TimesOut, LifeFault, FirstStep,
     LifeGoto, observed
<1>18. ASSUME NEW r \in Roles, ReadRemaining(o, r) PROVE Others(o)
  BY <1>0, <1>18 DEF ReadRemaining, LifeGoto, observed
<1>19. ASSUME NEW r \in Roles, DeleteRow(o, r) PROVE Others(o)
  <2>1. PICK step \in {"wipe", "done", "none"} : LifeGoto(o, r, step)
    BY <1>19 DEF DeleteRow, Finish, Done, Roles
  <2>2. /\ at' \in [Operations -> [Roles -> LifeSteps]]
        /\ at'[o][r] = step
        /\ \A q \in Roles \ {r} : at'[o][q] = at[o][q]
        /\ \A q \in Operations \ {o} : at'[q] = at[q]
    BY <1>0, <2>1, Going DEF LifeSteps, Roles
  <2>3. UNCHANGED answer \/ \E a \in {"ok"} : Reply(o, a)
    BY <1>19 DEF DeleteRow, Finish, Done, Roles
  <2>4. /\ answer' \in [Operations -> {"none", "ok", "gone", "refused"}]
        /\ answer'[o] \in {answer[o], "none"} \cup {"ok"}
        /\ \A q \in Operations \ {o} : answer'[q] = answer[q]
    BY <1>0, <2>3, Replying DEF LifeTypeOK
  <2> QED
    BY <1>0, <1>19, <2>1, <2>2, <2>4 DEF DeleteRow, observed
<1>20. ASSUME NEW r \in Roles, WipeData(o, r) PROVE Others(o)
  <2>1. PICK step \in {"done", "none"} : LifeGoto(o, r, step)
    BY <1>20 DEF WipeData, Finish, Done, Roles
  <2>2. /\ at' \in [Operations -> [Roles -> LifeSteps]]
        /\ at'[o][r] = step
        /\ \A q \in Roles \ {r} : at'[o][q] = at[o][q]
        /\ \A q \in Operations \ {o} : at'[q] = at[q]
    BY <1>0, <2>1, Going DEF LifeSteps, Roles
  <2>3. UNCHANGED answer \/ \E a \in {"ok"} : Reply(o, a)
    BY <1>20 DEF WipeData, Finish, Done, Roles
  <2>4. /\ answer' \in [Operations -> {"none", "ok", "gone", "refused"}]
        /\ answer'[o] \in {answer[o], "none"} \cup {"ok"}
        /\ \A q \in Operations \ {o} : answer'[q] = answer[q]
    BY <1>0, <2>3, Replying DEF LifeTypeOK
  <2> QED
    BY <1>0, <1>20, <2>1, <2>2, <2>4 DEF WipeData, observed
<1>21. CASE AcceptDrop(o)
  BY <1>0, <1>21 DEF AcceptDrop, Where, LifeGoto, observed
<1>22. CASE DropAnswered(o)
  BY <1>0, <1>22 DEF DropAnswered, LifeAt, LifeGoto, observed
<1>23. CASE DropFailed(o)
  BY <1>0, <1>23 DEF DropFailed, LifeAt, TimesOut, LifeFault, LifeGoto,
     observed
<1>24. CASE Left(o)
  BY <1>0, <1>24 DEF Left, LifeAt, TimesOut, LifeFault, LifeGoto, observed
<1>25. ASSUME NEW r \in Roles, ListRows(o, r) PROVE Others(o)
  BY <1>0, <1>25 DEF ListRows, Where, LifeGoto, observed
<1>26. ASSUME NEW r \in Roles, DeleteRows(o, r) PROVE Others(o)
  BY <1>0, <1>26 DEF DeleteRows, Put, Where, LifeGoto, observed
<1>27. ASSUME NEW r \in Roles, DeleteData(o, r) PROVE Others(o)
  BY <1>0, <1>27 DEF DeleteData, Where, LifeGoto, observed
<1>28. ASSUME NEW r \in Roles, DeleteTrust(o, r) PROVE Others(o)
  <2>1. PICK step \in {"done", "none"} : LifeGoto(o, r, step)
    BY <1>28 DEF DeleteTrust, Finish, Done, Roles
  <2>2. /\ at' \in [Operations -> [Roles -> LifeSteps]]
        /\ at'[o][r] = step
        /\ \A q \in Roles \ {r} : at'[o][q] = at[o][q]
        /\ \A q \in Operations \ {o} : at'[q] = at[q]
    BY <1>0, <2>1, Going DEF LifeSteps, Roles
  <2>3. UNCHANGED answer \/ \E a \in {"ok"} : Reply(o, a)
    BY <1>28 DEF DeleteTrust, Finish, Done, Roles
  <2>4. /\ answer' \in [Operations -> {"none", "ok", "gone", "refused"}]
        /\ answer'[o] \in {answer[o], "none"} \cup {"ok"}
        /\ \A q \in Operations \ {o} : answer'[q] = answer[q]
    BY <1>0, <2>3, Replying DEF LifeTypeOK
  <2> QED
    BY <1>0, <1>28, <2>1, <2>2, <2>4 DEF DeleteTrust, observed
<1>29. CASE SyncOne(o)
  <2>1. PICK b \in list[o] :
           /\ list' = [list EXCEPT ![o] = @ \ {b}]
           /\ sub' = [sub EXCEPT ![o] = b]
           /\ missing' = [missing EXCEPT ![o] = FALSE] \/ UNCHANGED missing
           /\ LifeGoto(o, "caller", "store") \/ UNCHANGED at
           /\ LifeFault \/ UNCHANGED mishaps
    BY <1>29 DEF SyncOne
  <2> QED
    BY <1>0, <1>29, <2>1 DEF SyncOne, LifeGoto, LifeFault, observed
<1>30. CASE StoreSync(o)
  BY <1>0, <1>30 DEF StoreSync, LifeAt, LifeGoto, observed
<1>31. CASE SyncEnds(o)
  BY <1>0, <1>31 DEF SyncEnds, LifeAt, LifeGoto, observed
<1>32. CASE CheckTrust(o)
  BY <1>0, <1>32 DEF CheckTrust, LifeAt, LifeGoto, observed
<1>33. CASE Refuse(o)
  BY <1>0, <1>33 DEF Refuse, Where, Done, LifeGoto, Reply, observed
<1>34. CASE Lose(o)
  BY <1>0, <1>34 DEF Lose, LifeFault, LifeGoto, observed
<1>35. CASE Die(o)
  BY <1>0, <1>35 DEF Die, LifeFault, LifeGoto, observed
<1> HIDE DEF LifeTypeOK, Others
<1> QED
  BY <1>1, <1>2, <1>3, <1>4, <1>5, <1>6, <1>7, <1>8, <1>9, <1>10, <1>11, <1>12,
     <1>13, <1>14, <1>15, <1>16, <1>17, <1>18, <1>19, <1>20, <1>21, <1>22,
     <1>23, <1>24, <1>25, <1>26, <1>27, <1>28, <1>29, <1>30, <1>31, <1>32,
     <1>33, <1>34, <1>35 DEF Step

\* Every step keeps the types.
LEMMA EndsTypeStep ==
    ASSUME NEW o \in Operations, LifeTypeOK, StepsFit, Step(o)
    PROVE  LifeTypeOK'
<1>0. LifeTypeOK /\ StepsFit
  OBVIOUS
<1> USE DEF LifeTypeOK, Subscriptions, Sides, Roles, Kinds, LifeSteps
<1>1. CASE Subscribe(o)
  BY <1>0, <1>1, MaxMishapsAssumption DEF Subscribe, LifeBegin, Call, observed
<1>2. CASE Leave(o)
  BY <1>0, <1>2, MaxMishapsAssumption DEF Leave, LifeBegin, Call, Put, observed
<1>3. CASE Sync(o)
  BY <1>0, <1>3, MaxMishapsAssumption DEF Sync, LifeBegin, LifeGoto, observed
<1>4. ASSUME NEW b \in Subscriptions, Callback(o, b) PROVE LifeTypeOK'
  BY <1>0, <1>4, MaxMishapsAssumption DEF Callback, LifeBegin, Call, observed
<1>5. ASSUME NEW x \in Sides, NEW b \in Subscriptions, NEW owner \in BOOLEAN,
   Remove(o, x, b, owner)
      PROVE  LifeTypeOK'
  BY <1>0, <1>5, MaxMishapsAssumption DEF Remove, LifeBegin, Call, observed
<1>6. ASSUME NEW x \in Sides, Drop(o, x) PROVE LifeTypeOK'
  BY <1>0, <1>6, MaxMishapsAssumption DEF Drop, LifeBegin, Call, observed
<1>7. CASE AcceptSubscription(o)
  BY <1>0, <1>7, MaxMishapsAssumption DEF AcceptSubscription, Handles, Put,
     Done, LifeGoto, Reply, observed
<1>8. CASE SubscriptionCreated(o)
  BY <1>0, <1>8, MaxMishapsAssumption DEF SubscriptionCreated, LifeAt, Put,
     LifeGoto, observed
<1>9. CASE SubscriptionFailed(o)
  BY <1>0, <1>9, MaxMishapsAssumption DEF SubscriptionFailed, LifeAt,
     TimesOut, LifeFault, LifeGoto, observed
<1>10. CASE FetchBaseline(o)
  <2>1. PICK step \in {"store", "done"} : LifeGoto(o, "caller", step)
    BY <1>10 DEF FetchBaseline
  <2>2. /\ at' \in [Operations -> [Roles -> LifeSteps]]
        /\ at'[o]["caller"] = step
        /\ \A q \in Roles \ {"caller"} : at'[o][q] = at[o][q]
        /\ \A q \in Operations \ {o} : at'[q] = at[q]
    BY <1>0, <2>1, Going DEF LifeSteps, Roles
  <2> QED
    BY <1>0, <1>10, <2>1, <2>2, MaxMishapsAssumption DEF FetchBaseline,
       LifeFault, observed
<1>11. CASE StoreBaseline(o)
  BY <1>0, <1>11, MaxMishapsAssumption DEF StoreBaseline, LifeAt, LifeGoto,
     observed
<1>12. CASE AcceptCallback(o)
  <2>1. PICK step \in {"apply", "none"} : LifeGoto(o, "handler", step)
    BY <1>12 DEF AcceptCallback, Done
  <2>2. /\ at' \in [Operations -> [Roles -> LifeSteps]]
        /\ at'[o]["handler"] = step
        /\ \A q \in Roles \ {"handler"} : at'[o][q] = at[o][q]
        /\ \A q \in Operations \ {o} : at'[q] = at[q]
    BY <1>0, <2>1, Going DEF LifeSteps, Roles
  <2>3. UNCHANGED answer \/ \E a \in {"gone"} : Reply(o, a)
    BY <1>12 DEF AcceptCallback, Done
  <2>4. /\ answer' \in [Operations -> {"none", "ok", "gone", "refused"}]
        /\ answer'[o] \in {answer[o], "none"} \cup {"gone"}
        /\ \A q \in Operations \ {o} : answer'[q] = answer[q]
    BY <1>0, <2>3, Replying DEF LifeTypeOK
  <2> QED
    BY <1>0, <1>12, <2>1, <2>2, <2>4 DEF AcceptCallback, observed
<1>13. CASE ApplyCallback(o)
  BY <1>0, <1>13, MaxMishapsAssumption DEF ApplyCallback, Handles, LifeGoto,
     Done, Reply, observed
<1>14. CASE CallbackAnswered(o)
  BY <1>0, <1>14, MaxMishapsAssumption DEF CallbackAnswered, LifeAt,
     TimesOut, LifeFault, LifeGoto, observed
<1>15. CASE AcceptRemoval(o)
  <2>1. PICK step \in {"read", "delete", "none"} : LifeGoto(o, "handler", step)
    BY <1>15 DEF AcceptRemoval, Done, FirstStep
  <2>2. /\ at' \in [Operations -> [Roles -> LifeSteps]]
        /\ at'[o]["handler"] = step
        /\ \A q \in Roles \ {"handler"} : at'[o][q] = at[o][q]
        /\ \A q \in Operations \ {o} : at'[q] = at[q]
    BY <1>0, <2>1, Going DEF LifeSteps, Roles
  <2>3. UNCHANGED answer \/ \E a \in {"ok"} : Reply(o, a)
    BY <1>15 DEF AcceptRemoval, Done, FirstStep
  <2>4. /\ answer' \in [Operations -> {"none", "ok", "gone", "refused"}]
        /\ answer'[o] \in {answer[o], "none"} \cup {"ok"}
        /\ \A q \in Operations \ {o} : answer'[q] = answer[q]
    BY <1>0, <2>3, Replying DEF LifeTypeOK
  <2> QED
    BY <1>0, <1>15, <2>1, <2>2, <2>4 DEF AcceptRemoval, observed
<1>16. CASE RemovalAnswered(o)
  BY <1>0, <1>16, MaxMishapsAssumption DEF RemovalAnswered, LifeAt,
     FirstStep, LifeGoto, observed
<1>17. CASE RemovalFailed(o)
  BY <1>0, <1>17, MaxMishapsAssumption DEF RemovalFailed, LifeAt, TimesOut,
     LifeFault, FirstStep, LifeGoto, observed
<1>18. ASSUME NEW r \in Roles, ReadRemaining(o, r) PROVE LifeTypeOK'
  BY <1>0, <1>18, MaxMishapsAssumption DEF ReadRemaining, LifeGoto, observed
<1>19. ASSUME NEW r \in Roles, DeleteRow(o, r) PROVE LifeTypeOK'
  <2>1. PICK step \in {"wipe", "done", "none"} : LifeGoto(o, r, step)
    BY <1>19 DEF DeleteRow, Finish, Done, Roles
  <2>2. /\ at' \in [Operations -> [Roles -> LifeSteps]]
        /\ at'[o][r] = step
        /\ \A q \in Roles \ {r} : at'[o][q] = at[o][q]
        /\ \A q \in Operations \ {o} : at'[q] = at[q]
    BY <1>0, <2>1, Going DEF LifeSteps, Roles
  <2>3. UNCHANGED answer \/ \E a \in {"ok"} : Reply(o, a)
    BY <1>19 DEF DeleteRow, Finish, Done, Roles
  <2>4. /\ answer' \in [Operations -> {"none", "ok", "gone", "refused"}]
        /\ answer'[o] \in {answer[o], "none"} \cup {"ok"}
        /\ \A q \in Operations \ {o} : answer'[q] = answer[q]
    BY <1>0, <2>3, Replying DEF LifeTypeOK
  <2>5. rows' \in [Sides -> SUBSET Subscriptions]
    <3>1. \E x \in {"s", "p"}, S \in SUBSET Subscriptions : rows' = [rows
       EXCEPT ![x] = S]
      <4>1. Where(o, r) \in {"s", "p"} /\ rows[Where(o, r)] \in SUBSET
         Subscriptions
        BY <1>0 DEF Where, Other
      <4> QED
        BY <1>0, <1>19, <4>1 DEF DeleteRow, Put
    <3> QED
      BY <1>0, <3>1
  <2> QED
    BY <1>0, <1>19, <2>1, <2>2, <2>4, <2>5 DEF DeleteRow, observed
<1>20. ASSUME NEW r \in Roles, WipeData(o, r) PROVE LifeTypeOK'
  <2>1. PICK step \in {"done", "none"} : LifeGoto(o, r, step)
    BY <1>20 DEF WipeData, Finish, Done, Roles
  <2>2. /\ at' \in [Operations -> [Roles -> LifeSteps]]
        /\ at'[o][r] = step
        /\ \A q \in Roles \ {r} : at'[o][q] = at[o][q]
        /\ \A q \in Operations \ {o} : at'[q] = at[q]
    BY <1>0, <2>1, Going DEF LifeSteps, Roles
  <2>3. UNCHANGED answer \/ \E a \in {"ok"} : Reply(o, a)
    BY <1>20 DEF WipeData, Finish, Done, Roles
  <2>4. /\ answer' \in [Operations -> {"none", "ok", "gone", "refused"}]
        /\ answer'[o] \in {answer[o], "none"} \cup {"ok"}
        /\ \A q \in Operations \ {o} : answer'[q] = answer[q]
    BY <1>0, <2>3, Replying DEF LifeTypeOK
  <2> QED
    BY <1>0, <1>20, <2>1, <2>2, <2>4 DEF WipeData, observed
<1>21. CASE AcceptDrop(o)
  BY <1>0, <1>21, MaxMishapsAssumption DEF AcceptDrop, Where, LifeGoto,
     observed
<1>22. CASE DropAnswered(o)
  BY <1>0, <1>22, MaxMishapsAssumption DEF DropAnswered, LifeAt, LifeGoto,
     observed
<1>23. CASE DropFailed(o)
  BY <1>0, <1>23, MaxMishapsAssumption DEF DropFailed, LifeAt, TimesOut,
     LifeFault, LifeGoto, observed
<1>24. CASE Left(o)
  BY <1>0, <1>24, MaxMishapsAssumption DEF Left, LifeAt, TimesOut,
     LifeFault, LifeGoto, observed
<1>25. ASSUME NEW r \in Roles, ListRows(o, r) PROVE LifeTypeOK'
  <2>1. PICK step \in {"rows"} : LifeGoto(o, r, step)
    BY <1>25 DEF ListRows
  <2>2. /\ at' \in [Operations -> [Roles -> LifeSteps]]
        /\ at'[o][r] = step
        /\ \A q \in Roles \ {r} : at'[o][q] = at[o][q]
        /\ \A q \in Operations \ {o} : at'[q] = at[q]
    BY <1>0, <2>1, Going DEF LifeSteps, Roles
  <2> QED
    BY <1>0, <1>25, <2>1, <2>2 DEF ListRows, Where, Other, observed
<1>26. ASSUME NEW r \in Roles, DeleteRows(o, r) PROVE LifeTypeOK'
  <2>1. PICK step \in {"data"} : LifeGoto(o, r, step)
    BY <1>26 DEF DeleteRows
  <2>2. /\ at' \in [Operations -> [Roles -> LifeSteps]]
        /\ at'[o][r] = step
        /\ \A q \in Roles \ {r} : at'[o][q] = at[o][q]
        /\ \A q \in Operations \ {o} : at'[q] = at[q]
    BY <1>0, <2>1, Going DEF LifeSteps, Roles
  <2>5. rows' \in [Sides -> SUBSET Subscriptions]
    <3>1. \E x \in {"s", "p"}, S \in SUBSET Subscriptions : rows' = [rows
       EXCEPT ![x] = S]
      <4>1. Where(o, r) \in {"s", "p"} /\ rows[Where(o, r)] \in SUBSET
         Subscriptions
        BY <1>0 DEF Where, Other
      <4> QED
        BY <1>0, <1>26, <4>1 DEF DeleteRows, Put
    <3> QED
      BY <1>0, <3>1
  <2> QED
    BY <1>0, <1>26, <2>1, <2>2, <2>5 DEF DeleteRows, observed
<1>27. ASSUME NEW r \in Roles, DeleteData(o, r) PROVE LifeTypeOK'
  BY <1>0, <1>27, MaxMishapsAssumption DEF DeleteData, Where, LifeGoto,
     observed
<1>28. ASSUME NEW r \in Roles, DeleteTrust(o, r) PROVE LifeTypeOK'
  <2>1. PICK step \in {"done", "none"} : LifeGoto(o, r, step)
    BY <1>28 DEF DeleteTrust, Finish, Done, Roles
  <2>2. /\ at' \in [Operations -> [Roles -> LifeSteps]]
        /\ at'[o][r] = step
        /\ \A q \in Roles \ {r} : at'[o][q] = at[o][q]
        /\ \A q \in Operations \ {o} : at'[q] = at[q]
    BY <1>0, <2>1, Going DEF LifeSteps, Roles
  <2>3. UNCHANGED answer \/ \E a \in {"ok"} : Reply(o, a)
    BY <1>28 DEF DeleteTrust, Finish, Done, Roles
  <2>4. /\ answer' \in [Operations -> {"none", "ok", "gone", "refused"}]
        /\ answer'[o] \in {answer[o], "none"} \cup {"ok"}
        /\ \A q \in Operations \ {o} : answer'[q] = answer[q]
    BY <1>0, <2>3, Replying DEF LifeTypeOK
  <2> QED
    BY <1>0, <1>28, <2>1, <2>2, <2>4 DEF DeleteTrust, observed
<1>29. CASE SyncOne(o)
  <2>1. PICK b \in list[o] :
           /\ list' = [list EXCEPT ![o] = @ \ {b}]
           /\ sub' = [sub EXCEPT ![o] = b]
           /\ missing' = [missing EXCEPT ![o] = FALSE] \/ UNCHANGED missing
           /\ LifeGoto(o, "caller", "store") \/ UNCHANGED at
           /\ LifeFault \/ UNCHANGED mishaps
    BY <1>29 DEF SyncOne
  <2>2. /\ list' \in [Operations -> SUBSET Subscriptions]
        /\ sub' \in [Operations -> Subscriptions]
        /\ missing' \in [Operations -> BOOLEAN]
    BY <1>0, <2>1
  <2>3. at' \in [Operations -> [Roles -> LifeSteps]]
    BY <1>0, <2>1, Going DEF LifeSteps, Roles
  <2>4. mishaps' \in 0..MaxMishaps
    BY <1>0, <2>1, MaxMishapsAssumption DEF LifeFault
  <2> QED
    BY <1>0, <1>29, <2>2, <2>3, <2>4 DEF SyncOne, observed
<1>30. CASE StoreSync(o)
  BY <1>0, <1>30, MaxMishapsAssumption DEF StoreSync, LifeAt, LifeGoto,
     observed
<1>31. CASE SyncEnds(o)
  BY <1>0, <1>31, MaxMishapsAssumption DEF SyncEnds, LifeAt, LifeGoto, observed
<1>32. CASE CheckTrust(o)
  BY <1>0, <1>32, MaxMishapsAssumption DEF CheckTrust, LifeAt, LifeGoto,
     observed
<1>33. CASE Refuse(o)
  BY <1>0, <1>33, MaxMishapsAssumption DEF Refuse, Where, Done, LifeGoto,
     Reply, observed
<1>34. CASE Lose(o)
  BY <1>0, <1>34, MaxMishapsAssumption DEF Lose, LifeFault, LifeGoto, observed
<1>35. CASE Die(o)
  BY <1>0, <1>35, MaxMishapsAssumption DEF Die, LifeFault, LifeGoto, observed
<1> HIDE DEF LifeTypeOK, Subscriptions, Sides, Roles, Kinds, LifeSteps
<1> QED
  BY <1>1, <1>2, <1>3, <1>4, <1>5, <1>6, <1>7, <1>8, <1>9, <1>10, <1>11, <1>12,
     <1>13, <1>14, <1>15, <1>16, <1>17, <1>18, <1>19, <1>20, <1>21, <1>22,
     <1>23, <1>24, <1>25, <1>26, <1>27, <1>28, <1>29, <1>30, <1>31, <1>32,
     <1>33, <1>34, <1>35 DEF Step

\* An operation takes the steps of its kind.
LEMMA FitsStep ==
    ASSUME NEW o \in Operations, LifeTypeOK, StepsFit, Step(o)
    PROVE  Fits(o)'
<1>0. LifeTypeOK /\ Fits(o)
  BY DEF StepsFit
<1> USE DEF LifeTypeOK, Subscriptions, Sides, Roles, Kinds, LifeSteps
<1>1. CASE Subscribe(o)
  BY <1>0, <1>1 DEF Subscribe, LifeBegin, Call, observed, Fits
<1>2. CASE Leave(o)
  BY <1>0, <1>2 DEF Leave, LifeBegin, Call, Put, observed, Fits
<1>3. CASE Sync(o)
  BY <1>0, <1>3 DEF Sync, LifeBegin, LifeGoto, observed, Fits
<1>4. ASSUME NEW b \in Subscriptions, Callback(o, b) PROVE Fits(o)'
  BY <1>0, <1>4 DEF Callback, LifeBegin, Call, observed, Fits
<1>5. ASSUME NEW x \in Sides, NEW b \in Subscriptions, NEW owner \in BOOLEAN,
   Remove(o, x, b, owner)
      PROVE  Fits(o)'
  BY <1>0, <1>5 DEF Remove, LifeBegin, Call, observed, Fits
<1>6. ASSUME NEW x \in Sides, Drop(o, x) PROVE Fits(o)'
  BY <1>0, <1>6 DEF Drop, LifeBegin, Call, observed, Fits
<1>7. CASE AcceptSubscription(o)
  BY <1>0, <1>7 DEF AcceptSubscription, Handles, Put, Done, LifeGoto, Reply,
     observed, Fits
<1>8. CASE SubscriptionCreated(o)
  BY <1>0, <1>8 DEF SubscriptionCreated, LifeAt, Put, LifeGoto, observed, Fits
<1>9. CASE SubscriptionFailed(o)
  BY <1>0, <1>9 DEF SubscriptionFailed, LifeAt, TimesOut, LifeFault,
     LifeGoto, observed, Fits
<1>10. CASE FetchBaseline(o)
  BY <1>0, <1>10 DEF FetchBaseline, LifeAt, LifeGoto, LifeFault, observed, Fits
<1>11. CASE StoreBaseline(o)
  BY <1>0, <1>11 DEF StoreBaseline, LifeAt, LifeGoto, observed, Fits
<1>12. CASE AcceptCallback(o)
  BY <1>0, <1>12 DEF AcceptCallback, Handles, LifeGoto, Done, Reply,
     observed, Fits
<1>13. CASE ApplyCallback(o)
  BY <1>0, <1>13 DEF ApplyCallback, Handles, LifeGoto, Done, Reply,
     observed, Fits
<1>14. CASE CallbackAnswered(o)
  BY <1>0, <1>14 DEF CallbackAnswered, LifeAt, TimesOut, LifeFault,
     LifeGoto, observed, Fits
<1>15. CASE AcceptRemoval(o)
  BY <1>0, <1>15 DEF AcceptRemoval, Handles, Where, FirstStep, LifeGoto,
     Done, Reply, observed, Fits
<1>16. CASE RemovalAnswered(o)
  BY <1>0, <1>16 DEF RemovalAnswered, LifeAt, FirstStep, LifeGoto, observed,
     Fits
<1>17. CASE RemovalFailed(o)
  BY <1>0, <1>17 DEF RemovalFailed, LifeAt, TimesOut, LifeFault, FirstStep,
     LifeGoto, observed, Fits
<1>18. ASSUME NEW r \in Roles, ReadRemaining(o, r) PROVE Fits(o)'
  BY <1>0, <1>18 DEF ReadRemaining, LifeGoto, observed, Fits
<1>19. ASSUME NEW r \in Roles, DeleteRow(o, r) PROVE Fits(o)'
  BY <1>0, <1>19 DEF DeleteRow, Put, Where, Finish, LifeGoto, Done, Reply,
     observed, Fits
<1>20. ASSUME NEW r \in Roles, WipeData(o, r) PROVE Fits(o)'
  BY <1>0, <1>20 DEF WipeData, Finish, LifeGoto, Done, Reply, observed, Fits
<1>21. CASE AcceptDrop(o)
  BY <1>0, <1>21 DEF AcceptDrop, Where, LifeGoto, observed, Fits
<1>22. CASE DropAnswered(o)
  BY <1>0, <1>22 DEF DropAnswered, LifeAt, LifeGoto, observed, Fits
<1>23. CASE DropFailed(o)
  BY <1>0, <1>23 DEF DropFailed, LifeAt, TimesOut, LifeFault, LifeGoto,
     observed, Fits
<1>24. CASE Left(o)
  BY <1>0, <1>24 DEF Left, LifeAt, TimesOut, LifeFault, LifeGoto, observed,
     Fits
<1>25. ASSUME NEW r \in Roles, ListRows(o, r) PROVE Fits(o)'
  BY <1>0, <1>25 DEF ListRows, Where, LifeGoto, observed, Fits
<1>26. ASSUME NEW r \in Roles, DeleteRows(o, r) PROVE Fits(o)'
  BY <1>0, <1>26 DEF DeleteRows, Put, Where, LifeGoto, observed, Fits
<1>27. ASSUME NEW r \in Roles, DeleteData(o, r) PROVE Fits(o)'
  BY <1>0, <1>27 DEF DeleteData, Where, LifeGoto, observed, Fits
<1>28. ASSUME NEW r \in Roles, DeleteTrust(o, r) PROVE Fits(o)'
  BY <1>0, <1>28 DEF DeleteTrust, Where, Finish, LifeGoto, Done, Reply,
     observed, Fits
<1>29. CASE SyncOne(o)
  BY <1>0, <1>29 DEF SyncOne, LifeAt, Found, NotFound, LifeFault, LifeGoto,
     observed, Fits
<1>30. CASE StoreSync(o)
  BY <1>0, <1>30 DEF StoreSync, LifeAt, LifeGoto, observed, Fits
<1>31. CASE SyncEnds(o)
  BY <1>0, <1>31 DEF SyncEnds, LifeAt, LifeGoto, observed, Fits
<1>32. CASE CheckTrust(o)
  BY <1>0, <1>32 DEF CheckTrust, LifeAt, LifeGoto, observed, Fits
<1>33. CASE Refuse(o)
  BY <1>0, <1>33 DEF Refuse, Where, Done, LifeGoto, Reply, observed, Fits
<1>34. CASE Lose(o)
  BY <1>0, <1>34 DEF Lose, LifeFault, LifeGoto, observed, Fits
<1>35. CASE Die(o)
  BY <1>0, <1>35 DEF Die, LifeFault, LifeGoto, observed, Fits
<1> HIDE DEF LifeTypeOK, Subscriptions, Sides, Roles, Kinds, LifeSteps
<1> QED
  BY <1>1, <1>2, <1>3, <1>4, <1>5, <1>6, <1>7, <1>8, <1>9, <1>10, <1>11, <1>12,
     <1>13, <1>14, <1>15, <1>16, <1>17, <1>18, <1>19, <1>20, <1>21, <1>22,
     <1>23, <1>24, <1>25, <1>26, <1>27, <1>28, <1>29, <1>30, <1>31, <1>32,
     <1>33, <1>34, <1>35 DEF Step

LEMMA SameFits ==
    ASSUME StepsFit, NEW o \in Operations, Others(o), Fits(o)'
    PROVE  StepsFit'
<1>1. ASSUME NEW q \in Operations \ {o} PROVE Fits(q)'
  BY <1>1 DEF Others, StepsFit, Fits
<1> QED
  BY <1>1 DEF StepsFit

\* Faults, force and overlap are not forgotten, and no trust comes back.
Later ==
    /\ Clean' => Clean
    /\ crossed => crossed'
    /\ mishaps' >= mishaps
    /\ trust' \subseteq trust

Continues(o) == Active(o) /\ UNCHANGED <<kind, side, force, alone, crossed>>

\* Who begins has touched nothing but the publisher's rows, and the overlap
\* is seen.
Begins(o) ==
    /\ ~Active(o) /\ Active(o)' /\ kind[o] = "none" /\ kind'[o] # "none"
    /\ alone'[o] => \A q \in Operations : ~Active(q)
    /\ \A q \in Operations : Active(q) => ~alone'[q]
    /\ rows'["s"] = rows["s"] /\ UNCHANGED <<trust, data, gone, answer>>
    /\ kind'[o] # "leave" => UNCHANGED rows
    /\ \/ crossed'
       \/ \A q \in Operations :
             Active(q) => kind'[o] \notin Removals /\ kind[q] \notin Removals

LEMMA Monotone ==
    ASSUME NEW o \in Operations, LifeTypeOK, StepsFit, Step(o)
    PROVE  Later
<1>0. LifeTypeOK /\ Fits(o)
  BY DEF StepsFit
<1> USE DEF LifeTypeOK, Clean, Later
<1>1. CASE Subscribe(o)
  BY <1>0, <1>1 DEF Subscribe, LifeBegin, Call, observed, Fits
<1>2. CASE Leave(o)
  BY <1>0, <1>2 DEF Leave, LifeBegin, Call, Put, observed, Fits
<1>3. CASE Sync(o)
  BY <1>0, <1>3 DEF Sync, LifeBegin, LifeGoto, observed, Fits
<1>4. ASSUME NEW b \in Subscriptions, Callback(o, b) PROVE Later
  BY <1>0, <1>4 DEF Callback, LifeBegin, Call, observed, Fits
<1>5. ASSUME NEW x \in Sides, NEW b \in Subscriptions, NEW owner \in BOOLEAN,
   Remove(o, x, b, owner)
      PROVE  Later
  BY <1>0, <1>5 DEF Remove, LifeBegin, Call, observed, Fits
<1>6. ASSUME NEW x \in Sides, Drop(o, x) PROVE Later
  BY <1>0, <1>6 DEF Drop, LifeBegin, Call, observed, Fits
<1>7. CASE AcceptSubscription(o)
  BY <1>0, <1>7 DEF AcceptSubscription, Handles, Put, Done, LifeGoto, Reply,
     observed, Fits
<1>8. CASE SubscriptionCreated(o)
  BY <1>0, <1>8 DEF SubscriptionCreated, LifeAt, Put, LifeGoto, observed, Fits
<1>9. CASE SubscriptionFailed(o)
  BY <1>0, <1>9 DEF SubscriptionFailed, LifeAt, TimesOut, LifeFault,
     LifeGoto, observed, Fits
<1>10. CASE FetchBaseline(o)
  BY <1>0, <1>10 DEF FetchBaseline, LifeAt, LifeGoto, LifeFault, observed, Fits
<1>11. CASE StoreBaseline(o)
  BY <1>0, <1>11 DEF StoreBaseline, LifeAt, LifeGoto, observed, Fits
<1>12. CASE AcceptCallback(o)
  BY <1>0, <1>12 DEF AcceptCallback, Handles, LifeGoto, Done, Reply,
     observed, Fits
<1>13. CASE ApplyCallback(o)
  BY <1>0, <1>13 DEF ApplyCallback, Handles, LifeGoto, Done, Reply,
     observed, Fits
<1>14. CASE CallbackAnswered(o)
  BY <1>0, <1>14 DEF CallbackAnswered, LifeAt, TimesOut, LifeFault,
     LifeGoto, observed, Fits
<1>15. CASE AcceptRemoval(o)
  BY <1>0, <1>15 DEF AcceptRemoval, Handles, Where, FirstStep, LifeGoto,
     Done, Reply, observed, Fits
<1>16. CASE RemovalAnswered(o)
  BY <1>0, <1>16 DEF RemovalAnswered, LifeAt, FirstStep, LifeGoto, observed,
     Fits
<1>17. CASE RemovalFailed(o)
  BY <1>0, <1>17 DEF RemovalFailed, LifeAt, TimesOut, LifeFault, FirstStep,
     LifeGoto, observed, Fits
<1>18. ASSUME NEW r \in Roles, ReadRemaining(o, r) PROVE Later
  BY <1>0, <1>18 DEF ReadRemaining, LifeGoto, observed, Fits
<1>19. ASSUME NEW r \in Roles, DeleteRow(o, r) PROVE Later
  BY <1>0, <1>19 DEF DeleteRow, Put, Where, Finish, LifeGoto, Done, Reply,
     observed, Fits
<1>20. ASSUME NEW r \in Roles, WipeData(o, r) PROVE Later
  BY <1>0, <1>20 DEF WipeData, Finish, LifeGoto, Done, Reply, observed, Fits
<1>21. CASE AcceptDrop(o)
  BY <1>0, <1>21 DEF AcceptDrop, Where, LifeGoto, observed, Fits
<1>22. CASE DropAnswered(o)
  BY <1>0, <1>22 DEF DropAnswered, LifeAt, LifeGoto, observed, Fits
<1>23. CASE DropFailed(o)
  BY <1>0, <1>23 DEF DropFailed, LifeAt, TimesOut, LifeFault, LifeGoto,
     observed, Fits
<1>24. CASE Left(o)
  BY <1>0, <1>24 DEF Left, LifeAt, TimesOut, LifeFault, LifeGoto, observed,
     Fits
<1>25. ASSUME NEW r \in Roles, ListRows(o, r) PROVE Later
  BY <1>0, <1>25 DEF ListRows, Where, LifeGoto, observed, Fits
<1>26. ASSUME NEW r \in Roles, DeleteRows(o, r) PROVE Later
  BY <1>0, <1>26 DEF DeleteRows, Put, Where, LifeGoto, observed, Fits
<1>27. ASSUME NEW r \in Roles, DeleteData(o, r) PROVE Later
  BY <1>0, <1>27 DEF DeleteData, Where, LifeGoto, observed, Fits
<1>28. ASSUME NEW r \in Roles, DeleteTrust(o, r) PROVE Later
  BY <1>0, <1>28 DEF DeleteTrust, Where, Finish, LifeGoto, Done, Reply,
     observed, Fits
<1>29. CASE SyncOne(o)
  BY <1>0, <1>29 DEF SyncOne, LifeAt, Found, NotFound, LifeFault, LifeGoto,
     observed, Fits
<1>30. CASE StoreSync(o)
  BY <1>0, <1>30 DEF StoreSync, LifeAt, LifeGoto, observed, Fits
<1>31. CASE SyncEnds(o)
  BY <1>0, <1>31 DEF SyncEnds, LifeAt, LifeGoto, observed, Fits
<1>32. CASE CheckTrust(o)
  BY <1>0, <1>32 DEF CheckTrust, LifeAt, LifeGoto, observed, Fits
<1>33. CASE Refuse(o)
  BY <1>0, <1>33 DEF Refuse, Where, Done, LifeGoto, Reply, observed, Fits
<1>34. CASE Lose(o)
  BY <1>0, <1>34 DEF Lose, LifeFault, LifeGoto, observed, Fits
<1>35. CASE Die(o)
  BY <1>0, <1>35 DEF Die, LifeFault, LifeGoto, observed, Fits
<1> HIDE DEF LifeTypeOK, Clean, Later
<1> QED
  BY <1>1, <1>2, <1>3, <1>4, <1>5, <1>6, <1>7, <1>8, <1>9, <1>10, <1>11, <1>12,
     <1>13, <1>14, <1>15, <1>16, <1>17, <1>18, <1>19, <1>20, <1>21, <1>22,
     <1>23, <1>24, <1>25, <1>26, <1>27, <1>28, <1>29, <1>30, <1>31, <1>32,
     <1>33, <1>34, <1>35 DEF Step

LEMMA Beginning ==
    ASSUME LifeTypeOK, NEW o \in Operations, Fits(o),
           NEW k \in Kinds \ {"none"}, NEW x \in Sides,
           NEW b \in Subscriptions, LifeBegin(o, k, x, b)
    PROVE  /\ kind[o] = "none" /\ at[o]["caller"] = "idle" /\ ~Active(o)
           /\ kind'[o] = k /\ side'[o] = x /\ sub'[o] = b
           /\ alone'[o] => \A q \in Operations : ~Active(q)
           /\ \A q \in Operations : Active(q) => ~alone'[q]
           /\ \/ crossed'
              \/ \A q \in Operations :
                    Active(q) => k \notin Removals /\ kind[q] \notin Removals
<1>1. at[o]["caller"] = "idle" /\ at[o]["handler"] = "none" /\ kind[o] = "none"
  BY DEF LifeBegin, Fits
<1>2. ~Active(o)
  BY <1>1 DEF Active
<1>3. kind'[o] = k /\ side'[o] = x /\ sub'[o] = b
  BY DEF LifeBegin, LifeTypeOK
<1> DEFINE others == {q \in Operations : Active(q)}
<1>4. /\ alone' = [q \in Operations |-> IF q = o THEN others = {}
                                        ELSE alone[q] /\ q \notin others]
      /\ crossed' = (crossed \/ \E q \in others :
                                   {k, kind[q]} \cap Removals # {})
  BY DEF LifeBegin
<1>5. alone'[o] => others = {}
  BY <1>4
<1>6. ASSUME NEW q \in others PROVE ~alone'[q]
  BY <1>2, <1>4, <1>6
<1>7. crossed' \/ \A q \in others : {k, kind[q]} \cap Removals = {}
  BY <1>4
<1> QED
  BY <1>1, <1>2, <1>3, <1>5, <1>6, <1>7

\* Who is not active begins.
LEMMA ActiveSteps ==
    ASSUME NEW o \in Operations, LifeTypeOK, StepsFit, Step(o)
    PROVE  Continues(o) \/ Begins(o)
<1>0. LifeTypeOK /\ Fits(o)
  BY DEF StepsFit
<1>1. CASE Subscribe(o)
  <2>1. LifeBegin(o, "subscribe", "s", o)
    BY <1>1 DEF Subscribe
  <2>2. o \in Subscriptions /\ "s" \in Sides
    BY <1>0, <1>1 DEF LifeTypeOK, Subscriptions, Sides
  <2>3. /\ kind[o] = "none" /\ ~Active(o) /\ kind'[o] = "subscribe"
        /\ alone'[o] => \A q \in Operations : ~Active(q)
        /\ \A q \in Operations : Active(q) => ~alone'[q]
        /\ \/ crossed'
           \/ \A q \in Operations :
                 Active(q) => "subscribe" \notin Removals /\ kind[q] \notin
                    Removals
    BY <1>0, <2>1, <2>2, Beginning DEF Kinds
  <2>4. Active(o)'
    BY <1>0, <1>1 DEF Subscribe, Active, Call, LifeTypeOK, Roles
  <2>5. /\ rows'["s"] = rows["s"] /\ UNCHANGED <<trust, data, gone, answer>>
        /\ "subscribe" # "leave" => UNCHANGED rows
    BY <1>0, <1>1 DEF Subscribe, LifeTypeOK, Sides
  <2> QED
    BY <2>3, <2>4, <2>5 DEF Begins
<1>2. CASE Leave(o)
  <2>1. LifeBegin(o, "leave", "p", sub[o])
    BY <1>2 DEF Leave
  <2>2. sub[o] \in Subscriptions /\ "p" \in Sides
    BY <1>0, <1>2 DEF LifeTypeOK, Subscriptions, Sides
  <2>3. /\ kind[o] = "none" /\ ~Active(o) /\ kind'[o] = "leave"
        /\ alone'[o] => \A q \in Operations : ~Active(q)
        /\ \A q \in Operations : Active(q) => ~alone'[q]
        /\ \/ crossed'
           \/ \A q \in Operations :
                 Active(q) => "leave" \notin Removals /\ kind[q] \notin
                    Removals
    BY <1>0, <2>1, <2>2, Beginning DEF Kinds
  <2>4. Active(o)'
    BY <1>0, <1>2 DEF Leave, Active, Call, LifeTypeOK, Roles
  <2>5. /\ rows'["s"] = rows["s"] /\ UNCHANGED <<trust, data, gone, answer>>
        /\ "leave" # "leave" => UNCHANGED rows
    BY <1>0, <1>2 DEF Leave, Put, LifeTypeOK, Sides
  <2> QED
    BY <2>3, <2>4, <2>5 DEF Begins
<1>3. CASE Sync(o)
  <2>1. LifeBegin(o, "sync", "s", sub[o])
    BY <1>3 DEF Sync
  <2>2. sub[o] \in Subscriptions /\ "s" \in Sides
    BY <1>0, <1>3 DEF LifeTypeOK, Subscriptions, Sides
  <2>3. /\ kind[o] = "none" /\ ~Active(o) /\ kind'[o] = "sync"
        /\ alone'[o] => \A q \in Operations : ~Active(q)
        /\ \A q \in Operations : Active(q) => ~alone'[q]
        /\ \/ crossed'
           \/ \A q \in Operations :
                 Active(q) => "sync" \notin Removals /\ kind[q] \notin Removals
    BY <1>0, <2>1, <2>2, Beginning DEF Kinds
  <2>4. Active(o)'
    BY <1>0, <1>3 DEF Sync, Active, LifeGoto, Sides, LifeTypeOK, Roles
  <2>5. /\ rows'["s"] = rows["s"] /\ UNCHANGED <<trust, data, gone, answer>>
        /\ "sync" # "leave" => UNCHANGED rows
    BY <1>0, <1>3 DEF Sync, LifeTypeOK, Sides
  <2> QED
    BY <2>3, <2>4, <2>5 DEF Begins
<1>4. ASSUME NEW b \in Subscriptions, Callback(o, b)
      PROVE  Continues(o) \/ Begins(o)
  <2>1. LifeBegin(o, "callback", "p", b)
    BY <1>4 DEF Callback
  <2>2. b \in Subscriptions /\ "p" \in Sides
    BY <1>0, <1>4 DEF LifeTypeOK, Subscriptions, Sides
  <2>3. /\ kind[o] = "none" /\ ~Active(o) /\ kind'[o] = "callback"
        /\ alone'[o] => \A q \in Operations : ~Active(q)
        /\ \A q \in Operations : Active(q) => ~alone'[q]
        /\ \/ crossed'
           \/ \A q \in Operations :
                 Active(q) => "callback" \notin Removals /\ kind[q] \notin
                    Removals
    BY <1>0, <2>1, <2>2, Beginning DEF Kinds
  <2>4. Active(o)'
    BY <1>0, <1>4 DEF Callback, Active, Call, LifeTypeOK, Roles
  <2>5. /\ rows'["s"] = rows["s"] /\ UNCHANGED <<trust, data, gone, answer>>
        /\ "callback" # "leave" => UNCHANGED rows
    BY <1>0, <1>4 DEF Callback, LifeTypeOK, Sides
  <2> QED
    BY <2>3, <2>4, <2>5 DEF Begins
<1>5. ASSUME NEW x \in Sides, NEW b \in Subscriptions, NEW owner \in BOOLEAN,
   Remove(o, x, b, owner)
      PROVE  Continues(o) \/ Begins(o)
  <2>1. LifeBegin(o, "remove", x, b)
    BY <1>5 DEF Remove
  <2>2. b \in Subscriptions /\ x \in Sides
    BY <1>0, <1>5 DEF LifeTypeOK, Subscriptions, Sides
  <2>3. /\ kind[o] = "none" /\ ~Active(o) /\ kind'[o] = "remove"
        /\ alone'[o] => \A q \in Operations : ~Active(q)
        /\ \A q \in Operations : Active(q) => ~alone'[q]
        /\ \/ crossed'
           \/ \A q \in Operations :
                 Active(q) => "remove" \notin Removals /\ kind[q] \notin
                    Removals
    BY <1>0, <2>1, <2>2, Beginning DEF Kinds
  <2>4. Active(o)'
    BY <1>0, <1>5 DEF Remove, Active, Call, LifeTypeOK, Roles
  <2>5. /\ rows'["s"] = rows["s"] /\ UNCHANGED <<trust, data, gone, answer>>
        /\ "remove" # "leave" => UNCHANGED rows
    BY <1>0, <1>5 DEF Remove, LifeTypeOK, Sides
  <2> QED
    BY <2>3, <2>4, <2>5 DEF Begins
<1>6. ASSUME NEW x \in Sides, Drop(o, x) PROVE Continues(o) \/ Begins(o)
  <2>1. LifeBegin(o, "drop", x, sub[o])
    BY <1>6 DEF Drop
  <2>2. sub[o] \in Subscriptions /\ x \in Sides
    BY <1>0, <1>6 DEF LifeTypeOK, Subscriptions, Sides
  <2>3. /\ kind[o] = "none" /\ ~Active(o) /\ kind'[o] = "drop"
        /\ alone'[o] => \A q \in Operations : ~Active(q)
        /\ \A q \in Operations : Active(q) => ~alone'[q]
        /\ \/ crossed'
           \/ \A q \in Operations :
                 Active(q) => "drop" \notin Removals /\ kind[q] \notin Removals
    BY <1>0, <2>1, <2>2, Beginning DEF Kinds
  <2>4. Active(o)'
    BY <1>0, <1>6 DEF Drop, Active, Call, LifeTypeOK, Roles
  <2>5. /\ rows'["s"] = rows["s"] /\ UNCHANGED <<trust, data, gone, answer>>
        /\ "drop" # "leave" => UNCHANGED rows
    BY <1>0, <1>6 DEF Drop, LifeTypeOK, Sides
  <2> QED
    BY <2>3, <2>4, <2>5 DEF Begins
<1>7. CASE AcceptSubscription(o)
  BY <1>0, <1>7 DEF AcceptSubscription, Handles, Put, Done, LifeGoto, Reply,
     observed, Continues, Active, Fits, Sides, Roles
<1>8. CASE SubscriptionCreated(o)
  BY <1>0, <1>8 DEF SubscriptionCreated, LifeAt, Put, LifeGoto, observed,
     Continues, Active, Fits, Sides, Roles
<1>9. CASE SubscriptionFailed(o)
  BY <1>0, <1>9 DEF SubscriptionFailed, LifeAt, TimesOut, LifeFault,
     LifeGoto, observed, Continues, Active, Fits, Sides, Roles
<1>10. CASE FetchBaseline(o)
  BY <1>0, <1>10 DEF FetchBaseline, LifeAt, LifeGoto, LifeFault, observed,
     Continues, Active, Fits, Sides, Roles
<1>11. CASE StoreBaseline(o)
  BY <1>0, <1>11 DEF StoreBaseline, LifeAt, LifeGoto, observed, Continues,
     Active, Fits, Sides, Roles
<1>12. CASE AcceptCallback(o)
  BY <1>0, <1>12 DEF AcceptCallback, Handles, LifeGoto, Done, Reply,
     observed, Continues, Active, Fits, Sides, Roles
<1>13. CASE ApplyCallback(o)
  BY <1>0, <1>13 DEF ApplyCallback, Handles, LifeGoto, Done, Reply,
     observed, Continues, Active, Fits, Sides, Roles
<1>14. CASE CallbackAnswered(o)
  BY <1>0, <1>14 DEF CallbackAnswered, LifeAt, TimesOut, LifeFault,
     LifeGoto, observed, Continues, Active, Fits, Sides, Roles
<1>15. CASE AcceptRemoval(o)
  BY <1>0, <1>15 DEF AcceptRemoval, Handles, Where, FirstStep, LifeGoto,
     Done, Reply, observed, Continues, Active, Fits, Sides, Roles
<1>16. CASE RemovalAnswered(o)
  BY <1>0, <1>16 DEF RemovalAnswered, LifeAt, FirstStep, LifeGoto, observed,
     Continues, Active, Fits, Sides, Roles
<1>17. CASE RemovalFailed(o)
  BY <1>0, <1>17 DEF RemovalFailed, LifeAt, TimesOut, LifeFault, FirstStep,
     LifeGoto, observed, Continues, Active, Fits, Sides, Roles
<1>18. ASSUME NEW r \in Roles, ReadRemaining(o, r)
      PROVE  Continues(o) \/ Begins(o)
  BY <1>0, <1>18 DEF ReadRemaining, LifeGoto, observed, Continues, Active,
     Fits, Sides, Roles
<1>19. ASSUME NEW r \in Roles, DeleteRow(o, r) PROVE Continues(o) \/ Begins(o)
  BY <1>0, <1>19 DEF DeleteRow, Put, Where, Finish, LifeGoto, Done, Reply,
     observed, Continues, Active, Fits, Sides, Roles
<1>20. ASSUME NEW r \in Roles, WipeData(o, r) PROVE Continues(o) \/ Begins(o)
  BY <1>0, <1>20 DEF WipeData, Finish, LifeGoto, Done, Reply, observed,
     Continues, Active, Fits, Sides, Roles
<1>21. CASE AcceptDrop(o)
  BY <1>0, <1>21 DEF AcceptDrop, Where, LifeGoto, observed, Continues,
     Active, Fits, Sides, Roles
<1>22. CASE DropAnswered(o)
  BY <1>0, <1>22 DEF DropAnswered, LifeAt, LifeGoto, observed, Continues,
     Active, Fits, Sides, Roles
<1>23. CASE DropFailed(o)
  BY <1>0, <1>23 DEF DropFailed, LifeAt, TimesOut, LifeFault, LifeGoto,
     observed, Continues, Active, Fits, Sides, Roles
<1>24. CASE Left(o)
  BY <1>0, <1>24 DEF Left, LifeAt, TimesOut, LifeFault, LifeGoto, observed,
     Continues, Active, Fits, Sides, Roles
<1>25. ASSUME NEW r \in Roles, ListRows(o, r) PROVE Continues(o) \/ Begins(o)
  BY <1>0, <1>25 DEF ListRows, Where, LifeGoto, observed, Continues, Active,
     Fits, Sides, Roles
<1>26. ASSUME NEW r \in Roles, DeleteRows(o, r) PROVE Continues(o) \/ Begins(o)
  BY <1>0, <1>26 DEF DeleteRows, Put, Where, LifeGoto, observed, Continues,
     Active, Fits, Sides, Roles
<1>27. ASSUME NEW r \in Roles, DeleteData(o, r) PROVE Continues(o) \/ Begins(o)
  BY <1>0, <1>27 DEF DeleteData, Where, LifeGoto, observed, Continues,
     Active, Fits, Sides, Roles
<1>28. ASSUME NEW r \in Roles, DeleteTrust(o, r)
      PROVE  Continues(o) \/ Begins(o)
  BY <1>0, <1>28 DEF DeleteTrust, Where, Finish, LifeGoto, Done, Reply,
     observed, Continues, Active, Fits, Sides, Roles
<1>29. CASE SyncOne(o)
  BY <1>0, <1>29 DEF SyncOne, LifeAt, Found, NotFound, LifeFault, LifeGoto,
     observed, Continues, Active, Fits, Sides, Roles
<1>30. CASE StoreSync(o)
  BY <1>0, <1>30 DEF StoreSync, LifeAt, LifeGoto, observed, Continues,
     Active, Fits, Sides, Roles
<1>31. CASE SyncEnds(o)
  BY <1>0, <1>31 DEF SyncEnds, LifeAt, LifeGoto, observed, Continues,
     Active, Fits, Sides, Roles
<1>32. CASE CheckTrust(o)
  BY <1>0, <1>32 DEF CheckTrust, LifeAt, LifeGoto, observed, Continues,
     Active, Fits, Sides, Roles
<1>33. CASE Refuse(o)
  BY <1>0, <1>33 DEF Refuse, Where, Done, LifeGoto, Reply, observed,
     Continues, Active, Fits, Sides, Roles
<1>34. CASE Lose(o)
  BY <1>0, <1>34 DEF Lose, LifeFault, LifeGoto, observed, Continues, Active,
     Fits, Sides, Roles
<1>35. CASE Die(o)
  BY <1>0, <1>35 DEF Die, LifeFault, LifeGoto, observed, Continues, Active,
     Fits, Sides, Roles
<1> QED
  BY <1>1, <1>2, <1>3, <1>4, <1>5, <1>6, <1>7, <1>8, <1>9, <1>10, <1>11, <1>12,
     <1>13, <1>14, <1>15, <1>16, <1>17, <1>18, <1>19, <1>20, <1>21, <1>22,
     <1>23, <1>24, <1>25, <1>26, <1>27, <1>28, <1>29, <1>30, <1>31, <1>32,
     <1>33, <1>34, <1>35 DEF Step

LEMMA EndsAloneStep ==
    ASSUME LifeTypeOK, AloneIsAlone, NEW o \in Operations, Others(o),
           Continues(o) \/ Begins(o)
    PROVE  AloneIsAlone'
<1>1. ASSUME NEW q \in Operations \ {o} PROVE Active(q)' <=> Active(q)
  BY DEF Others, Active
<1>2. ASSUME NEW p \in Operations, NEW q \in Operations, p # q,
             alone'[p], Active(p)'
      PROVE  ~Active(q)'
  <2>1. CASE p # o /\ q # o
    BY <1>1, <1>2, <2>1 DEF Others, AloneIsAlone
  <2>2. CASE p = o
    <3>1. CASE Continues(o)
      BY <1>1, <1>2, <2>2, <3>1 DEF Continues, AloneIsAlone
    <3>2. CASE Begins(o)
      BY <1>1, <1>2, <2>2, <3>2 DEF Begins
    <3> QED
      BY <3>1, <3>2
  <2>3. CASE q = o
    <3>1. alone[p] /\ Active(p)
      BY <1>1, <1>2, <2>3 DEF Others
    <3>2. ~Continues(o)
      BY <1>2, <2>3, <3>1 DEF Continues, AloneIsAlone
    <3>3. ~Begins(o)
      BY <1>2, <3>1 DEF Begins
    <3> QED
      BY <3>2, <3>3
  <2> QED
    BY <2>1, <2>2, <2>3
<1> QED
  BY <1>2 DEF AloneIsAlone

\* What a sync clears stays cleared by its own steps.
LEMMA ClearsStep ==
    ASSUME NEW o \in Operations, LifeTypeOK, StepsFit, (kind[o] = "sync" =>
           Clears(o, "caller")), Step(o)
    PROVE  kind'[o] = "sync" => Clears(o, "caller")'
<1>0. LifeTypeOK /\ Fits(o) /\ (kind[o] = "sync" => Clears(o, "caller"))
  BY DEF StepsFit
<1> USE DEF LifeTypeOK
<1>1. CASE Subscribe(o)
  BY <1>0, <1>1 DEF Subscribe, LifeBegin, Call, observed, Fits, Clears,
     Where, Other, Sides, Roles
<1>2. CASE Leave(o)
  BY <1>0, <1>2 DEF Leave, LifeBegin, Call, Put, observed, Fits, Clears,
     Where, Other, Sides, Roles
<1>3. CASE Sync(o)
  BY <1>0, <1>3 DEF Sync, LifeBegin, LifeGoto, observed, Fits, Clears,
     Where, Other, Sides, Roles
<1>4. ASSUME NEW b \in Subscriptions, Callback(o, b)
      PROVE  kind'[o] = "sync" => Clears(o, "caller")'
  BY <1>0, <1>4 DEF Callback, LifeBegin, Call, observed, Fits, Clears,
     Where, Other, Sides, Roles
<1>5. ASSUME NEW x \in Sides, NEW b \in Subscriptions, NEW owner \in BOOLEAN,
   Remove(o, x, b, owner)
      PROVE  kind'[o] = "sync" => Clears(o, "caller")'
  BY <1>0, <1>5 DEF Remove, LifeBegin, Call, observed, Fits, Clears, Where,
     Other, Sides, Roles
<1>6. ASSUME NEW x \in Sides, Drop(o, x)
      PROVE  kind'[o] = "sync" => Clears(o, "caller")'
  BY <1>0, <1>6 DEF Drop, LifeBegin, Call, observed, Fits, Clears, Where,
     Other, Sides, Roles
<1>7. CASE AcceptSubscription(o)
  BY <1>0, <1>7 DEF AcceptSubscription, Handles, Put, Done, LifeGoto, Reply,
     observed, Fits, Clears, Where, Other, Sides, Roles
<1>8. CASE SubscriptionCreated(o)
  BY <1>0, <1>8 DEF SubscriptionCreated, LifeAt, Put, LifeGoto, observed,
     Fits, Clears, Where, Other, Sides, Roles
<1>9. CASE SubscriptionFailed(o)
  BY <1>0, <1>9 DEF SubscriptionFailed, LifeAt, TimesOut, LifeFault,
     LifeGoto, observed, Fits, Clears, Where, Other, Sides, Roles
<1>10. CASE FetchBaseline(o)
  BY <1>0, <1>10 DEF FetchBaseline, LifeAt, LifeGoto, LifeFault, observed,
     Fits, Clears, Where, Other, Sides, Roles
<1>11. CASE StoreBaseline(o)
  BY <1>0, <1>11 DEF StoreBaseline, LifeAt, LifeGoto, observed, Fits,
     Clears, Where, Other, Sides, Roles
<1>12. CASE AcceptCallback(o)
  BY <1>0, <1>12 DEF AcceptCallback, Handles, LifeGoto, Done, Reply,
     observed, Fits, Clears, Where, Other, Sides, Roles
<1>13. CASE ApplyCallback(o)
  BY <1>0, <1>13 DEF ApplyCallback, Handles, LifeGoto, Done, Reply,
     observed, Fits, Clears, Where, Other, Sides, Roles
<1>14. CASE CallbackAnswered(o)
  BY <1>0, <1>14 DEF CallbackAnswered, LifeAt, TimesOut, LifeFault,
     LifeGoto, observed, Fits, Clears, Where, Other, Sides, Roles
<1>15. CASE AcceptRemoval(o)
  BY <1>0, <1>15 DEF AcceptRemoval, Handles, Where, FirstStep, LifeGoto,
     Done, Reply, observed, Fits, Clears, Where, Other, Sides, Roles
<1>16. CASE RemovalAnswered(o)
  BY <1>0, <1>16 DEF RemovalAnswered, LifeAt, FirstStep, LifeGoto, observed,
     Fits, Clears, Where, Other, Sides, Roles
<1>17. CASE RemovalFailed(o)
  BY <1>0, <1>17 DEF RemovalFailed, LifeAt, TimesOut, LifeFault, FirstStep,
     LifeGoto, observed, Fits, Clears, Where, Other, Sides, Roles
<1>18. ASSUME NEW r \in Roles, ReadRemaining(o, r)
      PROVE  kind'[o] = "sync" => Clears(o, "caller")'
  BY <1>0, <1>18 DEF ReadRemaining, LifeGoto, observed, Fits, Clears, Where,
     Other, Sides, Roles
<1>19. ASSUME NEW r \in Roles, DeleteRow(o, r)
      PROVE  kind'[o] = "sync" => Clears(o, "caller")'
  BY <1>0, <1>19 DEF DeleteRow, Put, Where, Finish, LifeGoto, Done, Reply,
     observed, Fits, Clears, Where, Other, Sides, Roles
<1>20. ASSUME NEW r \in Roles, WipeData(o, r)
      PROVE  kind'[o] = "sync" => Clears(o, "caller")'
  BY <1>0, <1>20 DEF WipeData, Finish, LifeGoto, Done, Reply, observed,
     Fits, Clears, Where, Other, Sides, Roles
<1>21. CASE AcceptDrop(o)
  BY <1>0, <1>21 DEF AcceptDrop, Where, LifeGoto, observed, Fits, Clears,
     Where, Other, Sides, Roles
<1>22. CASE DropAnswered(o)
  BY <1>0, <1>22 DEF DropAnswered, LifeAt, LifeGoto, observed, Fits, Clears,
     Where, Other, Sides, Roles
<1>23. CASE DropFailed(o)
  BY <1>0, <1>23 DEF DropFailed, LifeAt, TimesOut, LifeFault, LifeGoto,
     observed, Fits, Clears, Where, Other, Sides, Roles
<1>24. CASE Left(o)
  BY <1>0, <1>24 DEF Left, LifeAt, TimesOut, LifeFault, LifeGoto, observed,
     Fits, Clears, Where, Other, Sides, Roles
<1>25. ASSUME NEW r \in Roles, ListRows(o, r)
      PROVE  kind'[o] = "sync" => Clears(o, "caller")'
  BY <1>0, <1>25 DEF ListRows, Where, LifeGoto, observed, Fits, Clears,
     Where, Other, Sides, Roles
<1>26. ASSUME NEW r \in Roles, DeleteRows(o, r)
      PROVE  kind'[o] = "sync" => Clears(o, "caller")'
  BY <1>0, <1>26 DEF DeleteRows, Put, Where, LifeGoto, observed, Fits,
     Clears, Where, Other, Sides, Roles
<1>27. ASSUME NEW r \in Roles, DeleteData(o, r)
      PROVE  kind'[o] = "sync" => Clears(o, "caller")'
  BY <1>0, <1>27 DEF DeleteData, Where, LifeGoto, observed, Fits, Clears,
     Where, Other, Sides, Roles
<1>28. ASSUME NEW r \in Roles, DeleteTrust(o, r)
      PROVE  kind'[o] = "sync" => Clears(o, "caller")'
  BY <1>0, <1>28 DEF DeleteTrust, Where, Finish, LifeGoto, Done, Reply,
     observed, Fits, Clears, Where, Other, Sides, Roles
<1>29. CASE SyncOne(o)
  BY <1>0, <1>29 DEF SyncOne, LifeAt, Found, NotFound, LifeFault, LifeGoto,
     observed, Fits, Clears, Where, Other, Sides, Roles
<1>30. CASE StoreSync(o)
  BY <1>0, <1>30 DEF StoreSync, LifeAt, LifeGoto, observed, Fits, Clears,
     Where, Other, Sides, Roles
<1>31. CASE SyncEnds(o)
  BY <1>0, <1>31 DEF SyncEnds, LifeAt, LifeGoto, observed, Fits, Clears,
     Where, Other, Sides, Roles
<1>32. CASE CheckTrust(o)
  BY <1>0, <1>32 DEF CheckTrust, LifeAt, LifeGoto, observed, Fits, Clears,
     Where, Other, Sides, Roles
<1>33. CASE Refuse(o)
  BY <1>0, <1>33 DEF Refuse, Where, Done, LifeGoto, Reply, observed, Fits,
     Clears, Where, Other, Sides, Roles
<1>34. CASE Lose(o)
  BY <1>0, <1>34 DEF Lose, LifeFault, LifeGoto, observed, Fits, Clears,
     Where, Other, Sides, Roles
<1>35. CASE Die(o)
  BY <1>0, <1>35 DEF Die, LifeFault, LifeGoto, observed, Fits, Clears,
     Where, Other, Sides, Roles
<1> HIDE DEF LifeTypeOK
<1> QED
  BY <1>1, <1>2, <1>3, <1>4, <1>5, <1>6, <1>7, <1>8, <1>9, <1>10, <1>11, <1>12,
     <1>13, <1>14, <1>15, <1>16, <1>17, <1>18, <1>19, <1>20, <1>21, <1>22,
     <1>23, <1>24, <1>25, <1>26, <1>27, <1>28, <1>29, <1>30, <1>31, <1>32,
     <1>33, <1>34, <1>35 DEF Step

LEMMA SyncClearsStep ==
    ASSUME LifeTypeOK, AloneIsAlone, SyncClears, NEW o \in Operations,
           Others(o), Continues(o) \/ Begins(o),
           (kind'[o] = "sync" /\ alone'[o] => Clears(o, "caller")')
    PROVE  SyncClears'
<1>1. ASSUME NEW q \in Operations \ {o}, kind'[q] = "sync", alone'[q]
      PROVE  Clears(q, "caller")'
  <2>1. alone[q] /\ at'[q] = at[q]
    BY <1>1 DEF Others
  <2>2. ~Active(q)
    BY <1>1, <2>1 DEF Continues, Begins, AloneIsAlone
  <2> QED
    BY <2>1, <2>2 DEF Active, Clears
<1> QED
  BY <1>1 DEF SyncClears

\* The sync of o ends as GonePeerIsForgotten has it.
SyncIsDone(o) ==
    /\ kind[o] = "sync" /\ gone /\ missing[o] /\ alone[o] /\ mishaps' = mishaps
    /\ at[o]["caller"] # "done" /\ at'[o]["caller"] = "done"
    /\ at[o]["caller"] = "check" => "s" \in trust

LEMMA SyncEndsClear ==
    ASSUME NEW o \in Operations, LifeTypeOK, StepsFit, Clears(o, "caller"),
           SyncIsDone(o), Step(o)
    PROVE  rows'["s"] = {} /\ data' = {} /\ "s" \notin trust'
<1>0. LifeTypeOK /\ Fits(o) /\ Clears(o, "caller") /\ SyncIsDone(o)
  BY DEF StepsFit
<1> USE DEF LifeTypeOK
<1>1. CASE Subscribe(o)
  BY <1>0, <1>1 DEF Subscribe, LifeBegin, Call, observed, Fits, Clears,
     Where, Other, Sides, Roles, SyncIsDone
<1>2. CASE Leave(o)
  BY <1>0, <1>2 DEF Leave, LifeBegin, Call, Put, observed, Fits, Clears,
     Where, Other, Sides, Roles, SyncIsDone
<1>3. CASE Sync(o)
  BY <1>0, <1>3 DEF Sync, LifeBegin, LifeGoto, observed, Fits, Clears,
     Where, Other, Sides, Roles, SyncIsDone
<1>4. ASSUME NEW b \in Subscriptions, Callback(o, b)
      PROVE  rows'["s"] = {} /\ data' = {} /\ "s" \notin trust'
  BY <1>0, <1>4 DEF Callback, LifeBegin, Call, observed, Fits, Clears,
     Where, Other, Sides, Roles, SyncIsDone
<1>5. ASSUME NEW x \in Sides, NEW b \in Subscriptions, NEW owner \in BOOLEAN,
   Remove(o, x, b, owner)
      PROVE  rows'["s"] = {} /\ data' = {} /\ "s" \notin trust'
  BY <1>0, <1>5 DEF Remove, LifeBegin, Call, observed, Fits, Clears, Where,
     Other, Sides, Roles, SyncIsDone
<1>6. ASSUME NEW x \in Sides, Drop(o, x)
      PROVE  rows'["s"] = {} /\ data' = {} /\ "s" \notin trust'
  BY <1>0, <1>6 DEF Drop, LifeBegin, Call, observed, Fits, Clears, Where,
     Other, Sides, Roles, SyncIsDone
<1>7. CASE AcceptSubscription(o)
  BY <1>0, <1>7 DEF AcceptSubscription, Handles, Put, Done, LifeGoto, Reply,
     observed, Fits, Clears, Where, Other, Sides, Roles, SyncIsDone
<1>8. CASE SubscriptionCreated(o)
  BY <1>0, <1>8 DEF SubscriptionCreated, LifeAt, Put, LifeGoto, observed,
     Fits, Clears, Where, Other, Sides, Roles, SyncIsDone
<1>9. CASE SubscriptionFailed(o)
  BY <1>0, <1>9 DEF SubscriptionFailed, LifeAt, TimesOut, LifeFault,
     LifeGoto, observed, Fits, Clears, Where, Other, Sides, Roles, SyncIsDone
<1>10. CASE FetchBaseline(o)
  BY <1>0, <1>10 DEF FetchBaseline, LifeAt, LifeGoto, LifeFault, observed,
     Fits, Clears, Where, Other, Sides, Roles, SyncIsDone
<1>11. CASE StoreBaseline(o)
  BY <1>0, <1>11 DEF StoreBaseline, LifeAt, LifeGoto, observed, Fits,
     Clears, Where, Other, Sides, Roles, SyncIsDone
<1>12. CASE AcceptCallback(o)
  BY <1>0, <1>12 DEF AcceptCallback, Handles, LifeGoto, Done, Reply,
     observed, Fits, Clears, Where, Other, Sides, Roles, SyncIsDone
<1>13. CASE ApplyCallback(o)
  BY <1>0, <1>13 DEF ApplyCallback, Handles, LifeGoto, Done, Reply,
     observed, Fits, Clears, Where, Other, Sides, Roles, SyncIsDone
<1>14. CASE CallbackAnswered(o)
  BY <1>0, <1>14 DEF CallbackAnswered, LifeAt, TimesOut, LifeFault,
     LifeGoto, observed, Fits, Clears, Where, Other, Sides, Roles, SyncIsDone
<1>15. CASE AcceptRemoval(o)
  BY <1>0, <1>15 DEF AcceptRemoval, Handles, Where, FirstStep, LifeGoto,
     Done, Reply, observed, Fits, Clears, Where, Other, Sides, Roles,
     SyncIsDone
<1>16. CASE RemovalAnswered(o)
  BY <1>0, <1>16 DEF RemovalAnswered, LifeAt, FirstStep, LifeGoto, observed,
     Fits, Clears, Where, Other, Sides, Roles, SyncIsDone
<1>17. CASE RemovalFailed(o)
  BY <1>0, <1>17 DEF RemovalFailed, LifeAt, TimesOut, LifeFault, FirstStep,
     LifeGoto, observed, Fits, Clears, Where, Other, Sides, Roles, SyncIsDone
<1>18. ASSUME NEW r \in Roles, ReadRemaining(o, r)
      PROVE  rows'["s"] = {} /\ data' = {} /\ "s" \notin trust'
  BY <1>0, <1>18 DEF ReadRemaining, LifeGoto, observed, Fits, Clears, Where,
     Other, Sides, Roles, SyncIsDone
<1>19. ASSUME NEW r \in Roles, DeleteRow(o, r)
      PROVE  rows'["s"] = {} /\ data' = {} /\ "s" \notin trust'
  BY <1>0, <1>19 DEF DeleteRow, Put, Where, Finish, LifeGoto, Done, Reply,
     observed, Fits, Clears, Where, Other, Sides, Roles, SyncIsDone
<1>20. ASSUME NEW r \in Roles, WipeData(o, r)
      PROVE  rows'["s"] = {} /\ data' = {} /\ "s" \notin trust'
  BY <1>0, <1>20 DEF WipeData, Finish, LifeGoto, Done, Reply, observed,
     Fits, Clears, Where, Other, Sides, Roles, SyncIsDone
<1>21. CASE AcceptDrop(o)
  BY <1>0, <1>21 DEF AcceptDrop, Where, LifeGoto, observed, Fits, Clears,
     Where, Other, Sides, Roles, SyncIsDone
<1>22. CASE DropAnswered(o)
  BY <1>0, <1>22 DEF DropAnswered, LifeAt, LifeGoto, observed, Fits, Clears,
     Where, Other, Sides, Roles, SyncIsDone
<1>23. CASE DropFailed(o)
  BY <1>0, <1>23 DEF DropFailed, LifeAt, TimesOut, LifeFault, LifeGoto,
     observed, Fits, Clears, Where, Other, Sides, Roles, SyncIsDone
<1>24. CASE Left(o)
  BY <1>0, <1>24 DEF Left, LifeAt, TimesOut, LifeFault, LifeGoto, observed,
     Fits, Clears, Where, Other, Sides, Roles, SyncIsDone
<1>25. ASSUME NEW r \in Roles, ListRows(o, r)
      PROVE  rows'["s"] = {} /\ data' = {} /\ "s" \notin trust'
  BY <1>0, <1>25 DEF ListRows, Where, LifeGoto, observed, Fits, Clears,
     Where, Other, Sides, Roles, SyncIsDone
<1>26. ASSUME NEW r \in Roles, DeleteRows(o, r)
      PROVE  rows'["s"] = {} /\ data' = {} /\ "s" \notin trust'
  BY <1>0, <1>26 DEF DeleteRows, Put, Where, LifeGoto, observed, Fits,
     Clears, Where, Other, Sides, Roles, SyncIsDone
<1>27. ASSUME NEW r \in Roles, DeleteData(o, r)
      PROVE  rows'["s"] = {} /\ data' = {} /\ "s" \notin trust'
  BY <1>0, <1>27 DEF DeleteData, Where, LifeGoto, observed, Fits, Clears,
     Where, Other, Sides, Roles, SyncIsDone
<1>28. ASSUME NEW r \in Roles, DeleteTrust(o, r)
      PROVE  rows'["s"] = {} /\ data' = {} /\ "s" \notin trust'
  BY <1>0, <1>28 DEF DeleteTrust, Where, Finish, LifeGoto, Done, Reply,
     observed, Fits, Clears, Where, Other, Sides, Roles, SyncIsDone
<1>29. CASE SyncOne(o)
  BY <1>0, <1>29 DEF SyncOne, LifeAt, Found, NotFound, LifeFault, LifeGoto,
     observed, Fits, Clears, Where, Other, Sides, Roles, SyncIsDone
<1>30. CASE StoreSync(o)
  BY <1>0, <1>30 DEF StoreSync, LifeAt, LifeGoto, observed, Fits, Clears,
     Where, Other, Sides, Roles, SyncIsDone
<1>31. CASE SyncEnds(o)
  BY <1>0, <1>31 DEF SyncEnds, LifeAt, LifeGoto, observed, Fits, Clears,
     Where, Other, Sides, Roles, SyncIsDone
<1>32. CASE CheckTrust(o)
  BY <1>0, <1>32 DEF CheckTrust, LifeAt, LifeGoto, observed, Fits, Clears,
     Where, Other, Sides, Roles, SyncIsDone
<1>33. CASE Refuse(o)
  BY <1>0, <1>33 DEF Refuse, Where, Done, LifeGoto, Reply, observed, Fits,
     Clears, Where, Other, Sides, Roles, SyncIsDone
<1>34. CASE Lose(o)
  BY <1>0, <1>34 DEF Lose, LifeFault, LifeGoto, observed, Fits, Clears,
     Where, Other, Sides, Roles, SyncIsDone
<1>35. CASE Die(o)
  BY <1>0, <1>35 DEF Die, LifeFault, LifeGoto, observed, Fits, Clears,
     Where, Other, Sides, Roles, SyncIsDone
<1> HIDE DEF LifeTypeOK
<1> QED
  BY <1>1, <1>2, <1>3, <1>4, <1>5, <1>6, <1>7, <1>8, <1>9, <1>10, <1>11, <1>12,
     <1>13, <1>14, <1>15, <1>16, <1>17, <1>18, <1>19, <1>20, <1>21, <1>22,
     <1>23, <1>24, <1>25, <1>26, <1>27, <1>28, <1>29, <1>30, <1>31, <1>32,
     <1>33, <1>34, <1>35 DEF Step

\* The publisher is gone after its trusts.
LEMMA GoneStep ==
    ASSUME NEW o \in Operations, LifeTypeOK, GoneHasLeft, Step(o)
    PROVE  GoneHasLeft'
<1>0. LifeTypeOK /\ GoneHasLeft
  OBVIOUS
<1> USE DEF LifeTypeOK
<1>1. CASE Subscribe(o)
  BY <1>0, <1>1 DEF Subscribe, LifeBegin, Call, observed, GoneHasLeft
<1>2. CASE Leave(o)
  BY <1>0, <1>2 DEF Leave, LifeBegin, Call, Put, observed, GoneHasLeft
<1>3. CASE Sync(o)
  BY <1>0, <1>3 DEF Sync, LifeBegin, LifeGoto, observed, GoneHasLeft
<1>4. ASSUME NEW b \in Subscriptions, Callback(o, b) PROVE GoneHasLeft'
  BY <1>0, <1>4 DEF Callback, LifeBegin, Call, observed, GoneHasLeft
<1>5. ASSUME NEW x \in Sides, NEW b \in Subscriptions, NEW owner \in BOOLEAN,
   Remove(o, x, b, owner)
      PROVE  GoneHasLeft'
  BY <1>0, <1>5 DEF Remove, LifeBegin, Call, observed, GoneHasLeft
<1>6. ASSUME NEW x \in Sides, Drop(o, x) PROVE GoneHasLeft'
  BY <1>0, <1>6 DEF Drop, LifeBegin, Call, observed, GoneHasLeft
<1>7. CASE AcceptSubscription(o)
  BY <1>0, <1>7 DEF AcceptSubscription, Handles, Put, Done, LifeGoto, Reply,
     observed, GoneHasLeft
<1>8. CASE SubscriptionCreated(o)
  BY <1>0, <1>8 DEF SubscriptionCreated, LifeAt, Put, LifeGoto, observed,
     GoneHasLeft
<1>9. CASE SubscriptionFailed(o)
  BY <1>0, <1>9 DEF SubscriptionFailed, LifeAt, TimesOut, LifeFault,
     LifeGoto, observed, GoneHasLeft
<1>10. CASE FetchBaseline(o)
  BY <1>0, <1>10 DEF FetchBaseline, LifeAt, LifeGoto, LifeFault, observed,
     GoneHasLeft
<1>11. CASE StoreBaseline(o)
  BY <1>0, <1>11 DEF StoreBaseline, LifeAt, LifeGoto, observed, GoneHasLeft
<1>12. CASE AcceptCallback(o)
  BY <1>0, <1>12 DEF AcceptCallback, Handles, LifeGoto, Done, Reply,
     observed, GoneHasLeft
<1>13. CASE ApplyCallback(o)
  BY <1>0, <1>13 DEF ApplyCallback, Handles, LifeGoto, Done, Reply,
     observed, GoneHasLeft
<1>14. CASE CallbackAnswered(o)
  BY <1>0, <1>14 DEF CallbackAnswered, LifeAt, TimesOut, LifeFault,
     LifeGoto, observed, GoneHasLeft
<1>15. CASE AcceptRemoval(o)
  BY <1>0, <1>15 DEF AcceptRemoval, Handles, Where, FirstStep, LifeGoto,
     Done, Reply, observed, GoneHasLeft
<1>16. CASE RemovalAnswered(o)
  BY <1>0, <1>16 DEF RemovalAnswered, LifeAt, FirstStep, LifeGoto, observed,
     GoneHasLeft
<1>17. CASE RemovalFailed(o)
  BY <1>0, <1>17 DEF RemovalFailed, LifeAt, TimesOut, LifeFault, FirstStep,
     LifeGoto, observed, GoneHasLeft
<1>18. ASSUME NEW r \in Roles, ReadRemaining(o, r) PROVE GoneHasLeft'
  BY <1>0, <1>18 DEF ReadRemaining, LifeGoto, observed, GoneHasLeft
<1>19. ASSUME NEW r \in Roles, DeleteRow(o, r) PROVE GoneHasLeft'
  BY <1>0, <1>19 DEF DeleteRow, Put, Where, Finish, LifeGoto, Done, Reply,
     observed, GoneHasLeft
<1>20. ASSUME NEW r \in Roles, WipeData(o, r) PROVE GoneHasLeft'
  BY <1>0, <1>20 DEF WipeData, Finish, LifeGoto, Done, Reply, observed,
     GoneHasLeft
<1>21. CASE AcceptDrop(o)
  BY <1>0, <1>21 DEF AcceptDrop, Where, LifeGoto, observed, GoneHasLeft
<1>22. CASE DropAnswered(o)
  BY <1>0, <1>22 DEF DropAnswered, LifeAt, LifeGoto, observed, GoneHasLeft
<1>23. CASE DropFailed(o)
  BY <1>0, <1>23 DEF DropFailed, LifeAt, TimesOut, LifeFault, LifeGoto,
     observed, GoneHasLeft
<1>24. CASE Left(o)
  BY <1>0, <1>24 DEF Left, LifeAt, TimesOut, LifeFault, LifeGoto, observed,
     GoneHasLeft
<1>25. ASSUME NEW r \in Roles, ListRows(o, r) PROVE GoneHasLeft'
  BY <1>0, <1>25 DEF ListRows, Where, LifeGoto, observed, GoneHasLeft
<1>26. ASSUME NEW r \in Roles, DeleteRows(o, r) PROVE GoneHasLeft'
  BY <1>0, <1>26 DEF DeleteRows, Put, Where, LifeGoto, observed, GoneHasLeft
<1>27. ASSUME NEW r \in Roles, DeleteData(o, r) PROVE GoneHasLeft'
  BY <1>0, <1>27 DEF DeleteData, Where, LifeGoto, observed, GoneHasLeft
<1>28. ASSUME NEW r \in Roles, DeleteTrust(o, r) PROVE GoneHasLeft'
  BY <1>0, <1>28 DEF DeleteTrust, Where, Finish, LifeGoto, Done, Reply,
     observed, GoneHasLeft
<1>29. CASE SyncOne(o)
  BY <1>0, <1>29 DEF SyncOne, LifeAt, Found, NotFound, LifeFault, LifeGoto,
     observed, GoneHasLeft
<1>30. CASE StoreSync(o)
  BY <1>0, <1>30 DEF StoreSync, LifeAt, LifeGoto, observed, GoneHasLeft
<1>31. CASE SyncEnds(o)
  BY <1>0, <1>31 DEF SyncEnds, LifeAt, LifeGoto, observed, GoneHasLeft
<1>32. CASE CheckTrust(o)
  BY <1>0, <1>32 DEF CheckTrust, LifeAt, LifeGoto, observed, GoneHasLeft
<1>33. CASE Refuse(o)
  BY <1>0, <1>33 DEF Refuse, Where, Done, LifeGoto, Reply, observed,
     GoneHasLeft
<1>34. CASE Lose(o)
  BY <1>0, <1>34 DEF Lose, LifeFault, LifeGoto, observed, GoneHasLeft
<1>35. CASE Die(o)
  BY <1>0, <1>35 DEF Die, LifeFault, LifeGoto, observed, GoneHasLeft
<1> HIDE DEF LifeTypeOK
<1> QED
  BY <1>1, <1>2, <1>3, <1>4, <1>5, <1>6, <1>7, <1>8, <1>9, <1>10, <1>11, <1>12,
     <1>13, <1>14, <1>15, <1>16, <1>17, <1>18, <1>19, <1>20, <1>21, <1>22,
     <1>23, <1>24, <1>25, <1>26, <1>27, <1>28, <1>29, <1>30, <1>31, <1>32,
     <1>33, <1>34, <1>35 DEF Step

LEMMA RemovalAloneStep ==
    ASSUME LifeTypeOK, RemovalIsAlone, NEW o \in Operations, Others(o), Later,
           Continues(o) \/ Begins(o)
    PROVE  RemovalIsAlone'
<1>1. ASSUME NEW q \in Operations \ {o}
      PROVE  (Active(q)' <=> Active(q)) /\ kind'[q] = kind[q]
  BY DEF Others, Active
<1>2. ASSUME ~crossed', NEW p \in Operations, NEW q \in Operations, p # q,
             Active(p)', Active(q)', kind'[p] \in Removals
      PROVE  FALSE
  <2>0. ~crossed
    BY <1>2 DEF Later
  <2>1. CASE Continues(o)
    <3>1. Active(p) /\ Active(q) /\ kind[p] \in Removals
      BY <1>1, <1>2, <2>1 DEF Continues
    <3> QED
      BY <1>2, <2>0, <3>1 DEF RemovalIsAlone
  <2>2. CASE Begins(o)
    <3>1. \A u \in Operations :
             Active(u) => kind'[o] \notin Removals /\ kind[u] \notin Removals
      BY <1>2, <2>2 DEF Begins
    <3>2. CASE p = o
      BY <1>1, <1>2, <3>1, <3>2
    <3>3. CASE p # o
      <4>1. Active(p) /\ kind[p] \in Removals
        BY <1>1, <1>2, <3>3
      <4> QED
        BY <3>1, <4>1
    <3> QED
      BY <3>2, <3>3
  <2> QED
    BY <2>1, <2>2
<1>3. Removals' = Removals
  BY DEF Removals
<1> QED
  BY <1>2, <1>3 DEF RemovalIsAlone

\* An operation that is no removal has none beside it ...
LEMMA NobodyRemoves ==
    ASSUME Clean, RemovalIsAlone, NEW o \in Operations, Active(o),
           kind[o] \notin Removals
    PROVE  ~Removing
BY DEF Clean, RemovalIsAlone, Removing

\* ... and a removal nothing.
LEMMA NothingBeside ==
    ASSUME Clean, RemovalIsAlone, NEW o \in Operations, Active(o),
           kind[o] \in Removals
    PROVE  \A q \in Operations \ {o} : ~Active(q)
BY DEF Clean, RemovalIsAlone

\* What is not under way is on track.
LEMMA IdleIsOnTrack ==
    ASSUME NEW o \in Operations, Fits(o)', ~Active(o)'
    PROVE  OnTrack(o)'
BY DEF Fits, Active, OnTrack, Granted

\* A step of an operation that is no removal takes no row and no data.
Grows(o) ==
    /\ UNCHANGED <<trust, gone>>
    /\ rows["s"] \subseteq rows'["s"]
    /\ rows'["s"] \subseteq rows["s"] \cup {o}
    /\ rows["p"] \subseteq rows'["p"]
    /\ rows'["p"] \subseteq rows["p"] \cup {o}
    /\ data \subseteq data' /\ data' \subseteq data \cup rows["s"]
    /\ o \in rows'["p"] \ rows["p"] => Granted(o)'
    /\ o \in rows'["s"] \ rows["s"] => o \in rows["p"] /\ Expected(o)'
    /\ Granted(o) => o \in rows'["s"] \/ Granted(o)'
    /\ Expected(o) => o \in data' \/ Expected(o)'

LEMMA GrowStep ==
    ASSUME NEW o \in Operations, LifeTypeOK, StepsFit, RowsCorrespond,
           OnTrack(o), ~gone, trust = Sides, Active(o),
           kind[o] \notin Removals, Clean, Clean', Step(o)
    PROVE  Grows(o)
<1>0. /\ LifeTypeOK /\ Fits(o) /\ RowsCorrespond /\ OnTrack(o) /\ ~gone
      /\ trust = Sides
      /\ Active(o) /\ kind[o] \notin Removals /\ Clean /\ Clean'
  BY DEF StepsFit
<1> USE DEF LifeTypeOK
<1>1. CASE Subscribe(o)
  BY <1>0, <1>1 DEF Subscribe, LifeBegin, Call, observed, Fits, OnTrack,
     Active, Removals, Granted, Expected, Clean, Sides, Roles, Subscriptions,
     RowsCorrespond, Grows, Where, Other
<1>2. CASE Leave(o)
  BY <1>0, <1>2 DEF Leave, LifeBegin, Call, Put, observed, Fits, OnTrack,
     Active, Removals, Granted, Expected, Clean, Sides, Roles, Subscriptions,
     RowsCorrespond, Grows, Where, Other
<1>3. CASE Sync(o)
  BY <1>0, <1>3 DEF Sync, LifeBegin, LifeGoto, observed, Fits, OnTrack,
     Active, Removals, Granted, Expected, Clean, Sides, Roles, Subscriptions,
     RowsCorrespond, Grows, Where, Other
<1>4. ASSUME NEW b \in Subscriptions, Callback(o, b) PROVE Grows(o)
  BY <1>0, <1>4 DEF Callback, LifeBegin, Call, observed, Fits, OnTrack,
     Active, Removals, Granted, Expected, Clean, Sides, Roles, Subscriptions,
     RowsCorrespond, Grows, Where, Other
<1>5. ASSUME NEW x \in Sides, NEW b \in Subscriptions, NEW owner \in BOOLEAN,
   Remove(o, x, b, owner)
      PROVE  Grows(o)
  BY <1>0, <1>5 DEF Remove, LifeBegin, Call, observed, Fits, OnTrack,
     Active, Removals, Granted, Expected, Clean, Sides, Roles, Subscriptions,
     RowsCorrespond, Grows, Where, Other
<1>6. ASSUME NEW x \in Sides, Drop(o, x) PROVE Grows(o)
  BY <1>0, <1>6 DEF Drop, LifeBegin, Call, observed, Fits, OnTrack, Active,
     Removals, Granted, Expected, Clean, Sides, Roles, Subscriptions,
     RowsCorrespond, Grows, Where, Other
<1>7. CASE AcceptSubscription(o)
  BY <1>0, <1>7 DEF AcceptSubscription, Handles, Put, Done, LifeGoto, Reply,
     observed, Fits, OnTrack, Active, Removals, Granted, Expected, Clean,
     Sides, Roles, Subscriptions, RowsCorrespond, Grows, Where, Other
<1>8. CASE SubscriptionCreated(o)
  BY <1>0, <1>8 DEF SubscriptionCreated, LifeAt, Put, LifeGoto, observed,
     Fits, OnTrack, Active, Removals, Granted, Expected, Clean, Sides, Roles,
     Subscriptions, RowsCorrespond, Grows, Where, Other
<1>9. CASE SubscriptionFailed(o)
  BY <1>0, <1>9 DEF SubscriptionFailed, LifeAt, TimesOut, LifeFault,
     LifeGoto, observed, Fits, OnTrack, Active, Removals, Granted, Expected,
     Clean, Sides, Roles, Subscriptions, RowsCorrespond, Grows, Where, Other
<1>10. CASE FetchBaseline(o)
  BY <1>0, <1>10 DEF FetchBaseline, LifeAt, LifeGoto, LifeFault, observed,
     Fits, OnTrack, Active, Removals, Granted, Expected, Clean, Sides, Roles,
     Subscriptions, RowsCorrespond, Grows, Where, Other
<1>11. CASE StoreBaseline(o)
  BY <1>0, <1>11 DEF StoreBaseline, LifeAt, LifeGoto, observed, Fits,
     OnTrack, Active, Removals, Granted, Expected, Clean, Sides, Roles,
     Subscriptions, RowsCorrespond, Grows, Where, Other
<1>12. CASE AcceptCallback(o)
  BY <1>0, <1>12 DEF AcceptCallback, Handles, LifeGoto, Done, Reply,
     observed, Fits, OnTrack, Active, Removals, Granted, Expected, Clean,
     Sides, Roles, Subscriptions, RowsCorrespond, Grows, Where, Other
<1>13. CASE ApplyCallback(o)
  BY <1>0, <1>13 DEF ApplyCallback, Handles, LifeGoto, Done, Reply,
     observed, Fits, OnTrack, Active, Removals, Granted, Expected, Clean,
     Sides, Roles, Subscriptions, RowsCorrespond, Grows, Where, Other
<1>14. CASE CallbackAnswered(o)
  BY <1>0, <1>14 DEF CallbackAnswered, LifeAt, TimesOut, LifeFault,
     LifeGoto, observed, Fits, OnTrack, Active, Removals, Granted, Expected,
     Clean, Sides, Roles, Subscriptions, RowsCorrespond, Grows, Where, Other
<1>15. CASE AcceptRemoval(o)
  BY <1>0, <1>15 DEF AcceptRemoval, Handles, Where, FirstStep, LifeGoto,
     Done, Reply, observed, Fits, OnTrack, Active, Removals, Granted, Expected,
     Clean, Sides, Roles, Subscriptions, RowsCorrespond, Grows, Where, Other
<1>16. CASE RemovalAnswered(o)
  BY <1>0, <1>16 DEF RemovalAnswered, LifeAt, FirstStep, LifeGoto, observed,
     Fits, OnTrack, Active, Removals, Granted, Expected, Clean, Sides, Roles,
     Subscriptions, RowsCorrespond, Grows, Where, Other
<1>17. CASE RemovalFailed(o)
  BY <1>0, <1>17 DEF RemovalFailed, LifeAt, TimesOut, LifeFault, FirstStep,
     LifeGoto, observed, Fits, OnTrack, Active, Removals, Granted, Expected,
     Clean, Sides, Roles, Subscriptions, RowsCorrespond, Grows, Where, Other
<1>18. ASSUME NEW r \in Roles, ReadRemaining(o, r) PROVE Grows(o)
  BY <1>0, <1>18 DEF ReadRemaining, LifeGoto, observed, Fits, OnTrack,
     Active, Removals, Granted, Expected, Clean, Sides, Roles, Subscriptions,
     RowsCorrespond, Grows, Where, Other
<1>19. ASSUME NEW r \in Roles, DeleteRow(o, r) PROVE Grows(o)
  BY <1>0, <1>19 DEF DeleteRow, Put, Where, Finish, LifeGoto, Done, Reply,
     observed, Fits, OnTrack, Active, Removals, Granted, Expected, Clean,
     Sides, Roles, Subscriptions, RowsCorrespond, Grows, Where, Other
<1>20. ASSUME NEW r \in Roles, WipeData(o, r) PROVE Grows(o)
  BY <1>0, <1>20 DEF WipeData, Finish, LifeGoto, Done, Reply, observed,
     Fits, OnTrack, Active, Removals, Granted, Expected, Clean, Sides, Roles,
     Subscriptions, RowsCorrespond, Grows, Where, Other
<1>21. CASE AcceptDrop(o)
  BY <1>0, <1>21 DEF AcceptDrop, Where, LifeGoto, observed, Fits, OnTrack,
     Active, Removals, Granted, Expected, Clean, Sides, Roles, Subscriptions,
     RowsCorrespond, Grows, Where, Other
<1>22. CASE DropAnswered(o)
  BY <1>0, <1>22 DEF DropAnswered, LifeAt, LifeGoto, observed, Fits,
     OnTrack, Active, Removals, Granted, Expected, Clean, Sides, Roles,
     Subscriptions, RowsCorrespond, Grows, Where, Other
<1>23. CASE DropFailed(o)
  BY <1>0, <1>23 DEF DropFailed, LifeAt, TimesOut, LifeFault, LifeGoto,
     observed, Fits, OnTrack, Active, Removals, Granted, Expected, Clean,
     Sides, Roles, Subscriptions, RowsCorrespond, Grows, Where, Other
<1>24. CASE Left(o)
  BY <1>0, <1>24 DEF Left, LifeAt, TimesOut, LifeFault, LifeGoto, observed,
     Fits, OnTrack, Active, Removals, Granted, Expected, Clean, Sides, Roles,
     Subscriptions, RowsCorrespond, Grows, Where, Other
<1>25. ASSUME NEW r \in Roles, ListRows(o, r) PROVE Grows(o)
  BY <1>0, <1>25 DEF ListRows, Fits, OnTrack, Removals, Kinds, Roles
<1>26. ASSUME NEW r \in Roles, DeleteRows(o, r) PROVE Grows(o)
  BY <1>0, <1>26 DEF DeleteRows, Fits, OnTrack, Removals, Kinds, Roles
<1>27. ASSUME NEW r \in Roles, DeleteData(o, r) PROVE Grows(o)
  BY <1>0, <1>27 DEF DeleteData, Fits, OnTrack, Removals, Kinds, Roles
<1>28. ASSUME NEW r \in Roles, DeleteTrust(o, r) PROVE Grows(o)
  BY <1>0, <1>28 DEF DeleteTrust, Fits, OnTrack, Removals, Kinds, Roles
<1>29. CASE SyncOne(o)
  BY <1>0, <1>29 DEF SyncOne, LifeAt, Found, NotFound, LifeFault, LifeGoto,
     observed, Fits, OnTrack, Active, Removals, Granted, Expected, Clean,
     Sides, Roles, Subscriptions, RowsCorrespond, Grows, Where, Other
<1>30. CASE StoreSync(o)
  BY <1>0, <1>30 DEF StoreSync, LifeAt, LifeGoto, observed, Fits, OnTrack,
     Active, Removals, Granted, Expected, Clean, Sides, Roles, Subscriptions,
     RowsCorrespond, Grows, Where, Other
<1>31. CASE SyncEnds(o)
  BY <1>0, <1>31 DEF SyncEnds, LifeAt, LifeGoto, observed, Fits, OnTrack,
     Active, Removals, Granted, Expected, Clean, Sides, Roles, Subscriptions,
     RowsCorrespond, Grows, Where, Other
<1>32. CASE CheckTrust(o)
  BY <1>0, <1>32 DEF CheckTrust, LifeAt, LifeGoto, observed, Fits, OnTrack,
     Active, Removals, Granted, Expected, Clean, Sides, Roles, Subscriptions,
     RowsCorrespond, Grows, Where, Other
<1>33. CASE Refuse(o)
  BY <1>0, <1>33 DEF Refuse, Where, Done, LifeGoto, Reply, observed, Fits,
     OnTrack, Active, Removals, Granted, Expected, Clean, Sides, Roles,
     Subscriptions, RowsCorrespond, Grows, Where, Other
<1>34. CASE Lose(o)
  BY <1>0, <1>34 DEF Lose, LifeFault, LifeGoto, observed, Fits, OnTrack,
     Active, Removals, Granted, Expected, Clean, Sides, Roles, Subscriptions,
     RowsCorrespond, Grows, Where, Other
<1>35. CASE Die(o)
  BY <1>0, <1>35 DEF Die, LifeFault, LifeGoto, observed, Fits, OnTrack,
     Active, Removals, Granted, Expected, Clean, Sides, Roles, Subscriptions,
     RowsCorrespond, Grows, Where, Other
<1> HIDE DEF LifeTypeOK
<1> QED
  BY <1>1, <1>2, <1>3, <1>4, <1>5, <1>6, <1>7, <1>8, <1>9, <1>10, <1>11, <1>12,
     <1>13, <1>14, <1>15, <1>16, <1>17, <1>18, <1>19, <1>20, <1>21, <1>22,
     <1>23, <1>24, <1>25, <1>26, <1>27, <1>28, <1>29, <1>30, <1>31, <1>32,
     <1>33, <1>34, <1>35 DEF Step

LEMMA OnTrackStep ==
    ASSUME NEW o \in Operations, LifeTypeOK, StepsFit, RowsCorrespond,
           OnTrack(o), ~gone, trust = Sides, Active(o),
           kind[o] \notin Removals, Clean, Clean', Step(o)
    PROVE  OnTrack(o)'
<1>0. /\ LifeTypeOK /\ Fits(o) /\ RowsCorrespond /\ OnTrack(o) /\ ~gone
      /\ trust = Sides
      /\ Active(o) /\ kind[o] \notin Removals /\ Clean /\ Clean'
  BY DEF StepsFit
<1> USE DEF LifeTypeOK
<1>1. CASE Subscribe(o)
  BY <1>0, <1>1 DEF Subscribe, LifeBegin, Call, observed, Fits, OnTrack,
     Active, Removals, Granted, Expected, Clean, Sides, Roles, Subscriptions,
     RowsCorrespond, Where, Other
<1>2. CASE Leave(o)
  BY <1>0, <1>2 DEF Leave, LifeBegin, Call, Put, observed, Fits, OnTrack,
     Active, Removals, Granted, Expected, Clean, Sides, Roles, Subscriptions,
     RowsCorrespond, Where, Other
<1>3. CASE Sync(o)
  BY <1>0, <1>3 DEF Sync, LifeBegin, LifeGoto, observed, Fits, OnTrack,
     Active, Removals, Granted, Expected, Clean, Sides, Roles, Subscriptions,
     RowsCorrespond, Where, Other
<1>4. ASSUME NEW b \in Subscriptions, Callback(o, b) PROVE OnTrack(o)'
  BY <1>0, <1>4 DEF Callback, LifeBegin, Call, observed, Fits, OnTrack,
     Active, Removals, Granted, Expected, Clean, Sides, Roles, Subscriptions,
     RowsCorrespond, Where, Other
<1>5. ASSUME NEW x \in Sides, NEW b \in Subscriptions, NEW owner \in BOOLEAN,
   Remove(o, x, b, owner)
      PROVE  OnTrack(o)'
  BY <1>0, <1>5 DEF Remove, LifeBegin, Call, observed, Fits, OnTrack,
     Active, Removals, Granted, Expected, Clean, Sides, Roles, Subscriptions,
     RowsCorrespond, Where, Other
<1>6. ASSUME NEW x \in Sides, Drop(o, x) PROVE OnTrack(o)'
  BY <1>0, <1>6 DEF Drop, LifeBegin, Call, observed, Fits, OnTrack, Active,
     Removals, Granted, Expected, Clean, Sides, Roles, Subscriptions,
     RowsCorrespond, Where, Other
<1>7. CASE AcceptSubscription(o)
  BY <1>0, <1>7 DEF AcceptSubscription, Handles, Put, Done, LifeGoto, Reply,
     observed, Fits, OnTrack, Active, Removals, Granted, Expected, Clean,
     Sides, Roles, Subscriptions, RowsCorrespond, Where, Other
<1>8. CASE SubscriptionCreated(o)
  BY <1>0, <1>8 DEF SubscriptionCreated, LifeAt, Put, LifeGoto, observed,
     Fits, OnTrack, Active, Removals, Granted, Expected, Clean, Sides, Roles,
     Subscriptions, RowsCorrespond, Where, Other
<1>9. CASE SubscriptionFailed(o)
  BY <1>0, <1>9 DEF SubscriptionFailed, LifeAt, TimesOut, LifeFault,
     LifeGoto, observed, Fits, OnTrack, Active, Removals, Granted, Expected,
     Clean, Sides, Roles, Subscriptions, RowsCorrespond, Where, Other
<1>10. CASE FetchBaseline(o)
  BY <1>0, <1>10 DEF FetchBaseline, LifeAt, LifeGoto, LifeFault, observed,
     Fits, OnTrack, Active, Removals, Granted, Expected, Clean, Sides, Roles,
     Subscriptions, RowsCorrespond, Where, Other
<1>11. CASE StoreBaseline(o)
  BY <1>0, <1>11 DEF StoreBaseline, LifeAt, LifeGoto, observed, Fits,
     OnTrack, Active, Removals, Granted, Expected, Clean, Sides, Roles,
     Subscriptions, RowsCorrespond, Where, Other
<1>12. CASE AcceptCallback(o)
  BY <1>0, <1>12 DEF AcceptCallback, Handles, LifeGoto, Done, Reply,
     observed, Fits, OnTrack, Active, Removals, Granted, Expected, Clean,
     Sides, Roles, Subscriptions, RowsCorrespond, Where, Other
<1>13. CASE ApplyCallback(o)
  BY <1>0, <1>13 DEF ApplyCallback, Handles, LifeGoto, Done, Reply,
     observed, Fits, OnTrack, Active, Removals, Granted, Expected, Clean,
     Sides, Roles, Subscriptions, RowsCorrespond, Where, Other
<1>14. CASE CallbackAnswered(o)
  BY <1>0, <1>14 DEF CallbackAnswered, LifeAt, TimesOut, LifeFault,
     LifeGoto, observed, Fits, OnTrack, Active, Removals, Granted, Expected,
     Clean, Sides, Roles, Subscriptions, RowsCorrespond, Where, Other
<1>15. CASE AcceptRemoval(o)
  BY <1>0, <1>15 DEF AcceptRemoval, Handles, Where, FirstStep, LifeGoto,
     Done, Reply, observed, Fits, OnTrack, Active, Removals, Granted, Expected,
     Clean, Sides, Roles, Subscriptions, RowsCorrespond, Where, Other
<1>16. CASE RemovalAnswered(o)
  BY <1>0, <1>16 DEF RemovalAnswered, LifeAt, FirstStep, LifeGoto, observed,
     Fits, OnTrack, Active, Removals, Granted, Expected, Clean, Sides, Roles,
     Subscriptions, RowsCorrespond, Where, Other
<1>17. CASE RemovalFailed(o)
  BY <1>0, <1>17 DEF RemovalFailed, LifeAt, TimesOut, LifeFault, FirstStep,
     LifeGoto, observed, Fits, OnTrack, Active, Removals, Granted, Expected,
     Clean, Sides, Roles, Subscriptions, RowsCorrespond, Where, Other
<1>18. ASSUME NEW r \in Roles, ReadRemaining(o, r) PROVE OnTrack(o)'
  BY <1>0, <1>18 DEF ReadRemaining, LifeGoto, observed, Fits, OnTrack,
     Active, Removals, Granted, Expected, Clean, Sides, Roles, Subscriptions,
     RowsCorrespond, Where, Other
<1>19. ASSUME NEW r \in Roles, DeleteRow(o, r) PROVE OnTrack(o)'
  BY <1>0, <1>19 DEF DeleteRow, Put, Where, Finish, LifeGoto, Done, Reply,
     observed, Fits, OnTrack, Active, Removals, Granted, Expected, Clean,
     Sides, Roles, Subscriptions, RowsCorrespond, Where, Other
<1>20. ASSUME NEW r \in Roles, WipeData(o, r) PROVE OnTrack(o)'
  BY <1>0, <1>20 DEF WipeData, Finish, LifeGoto, Done, Reply, observed,
     Fits, OnTrack, Active, Removals, Granted, Expected, Clean, Sides, Roles,
     Subscriptions, RowsCorrespond, Where, Other
<1>21. CASE AcceptDrop(o)
  BY <1>0, <1>21 DEF AcceptDrop, Where, LifeGoto, observed, Fits, OnTrack,
     Active, Removals, Granted, Expected, Clean, Sides, Roles, Subscriptions,
     RowsCorrespond, Where, Other
<1>22. CASE DropAnswered(o)
  BY <1>0, <1>22 DEF DropAnswered, LifeAt, LifeGoto, observed, Fits,
     OnTrack, Active, Removals, Granted, Expected, Clean, Sides, Roles,
     Subscriptions, RowsCorrespond, Where, Other
<1>23. CASE DropFailed(o)
  BY <1>0, <1>23 DEF DropFailed, LifeAt, TimesOut, LifeFault, LifeGoto,
     observed, Fits, OnTrack, Active, Removals, Granted, Expected, Clean,
     Sides, Roles, Subscriptions, RowsCorrespond, Where, Other
<1>24. CASE Left(o)
  BY <1>0, <1>24 DEF Left, LifeAt, TimesOut, LifeFault, LifeGoto, observed,
     Fits, OnTrack, Active, Removals, Granted, Expected, Clean, Sides, Roles,
     Subscriptions, RowsCorrespond, Where, Other
<1>25. ASSUME NEW r \in Roles, ListRows(o, r) PROVE OnTrack(o)'
  BY <1>0, <1>25 DEF ListRows, Fits, OnTrack, Removals, Kinds, Roles
<1>26. ASSUME NEW r \in Roles, DeleteRows(o, r) PROVE OnTrack(o)'
  BY <1>0, <1>26 DEF DeleteRows, Fits, OnTrack, Removals, Kinds, Roles
<1>27. ASSUME NEW r \in Roles, DeleteData(o, r) PROVE OnTrack(o)'
  BY <1>0, <1>27 DEF DeleteData, Fits, OnTrack, Removals, Kinds, Roles
<1>28. ASSUME NEW r \in Roles, DeleteTrust(o, r) PROVE OnTrack(o)'
  BY <1>0, <1>28 DEF DeleteTrust, Fits, OnTrack, Removals, Kinds, Roles
<1>29. CASE SyncOne(o)
  BY <1>0, <1>29 DEF SyncOne, LifeAt, Found, NotFound, LifeFault, LifeGoto,
     observed, Fits, OnTrack, Active, Removals, Granted, Expected, Clean,
     Sides, Roles, Subscriptions, RowsCorrespond, Where, Other
<1>30. CASE StoreSync(o)
  BY <1>0, <1>30 DEF StoreSync, LifeAt, LifeGoto, observed, Fits, OnTrack,
     Active, Removals, Granted, Expected, Clean, Sides, Roles, Subscriptions,
     RowsCorrespond, Where, Other
<1>31. CASE SyncEnds(o)
  BY <1>0, <1>31 DEF SyncEnds, LifeAt, LifeGoto, observed, Fits, OnTrack,
     Active, Removals, Granted, Expected, Clean, Sides, Roles, Subscriptions,
     RowsCorrespond, Where, Other
<1>32. CASE CheckTrust(o)
  BY <1>0, <1>32 DEF CheckTrust, LifeAt, LifeGoto, observed, Fits, OnTrack,
     Active, Removals, Granted, Expected, Clean, Sides, Roles, Subscriptions,
     RowsCorrespond, Where, Other
<1>33. CASE Refuse(o)
  BY <1>0, <1>33 DEF Refuse, Where, Done, LifeGoto, Reply, observed, Fits,
     OnTrack, Active, Removals, Granted, Expected, Clean, Sides, Roles,
     Subscriptions, RowsCorrespond, Where, Other
<1>34. CASE Lose(o)
  BY <1>0, <1>34 DEF Lose, LifeFault, LifeGoto, observed, Fits, OnTrack,
     Active, Removals, Granted, Expected, Clean, Sides, Roles, Subscriptions,
     RowsCorrespond, Where, Other
<1>35. CASE Die(o)
  BY <1>0, <1>35 DEF Die, LifeFault, LifeGoto, observed, Fits, OnTrack,
     Active, Removals, Granted, Expected, Clean, Sides, Roles, Subscriptions,
     RowsCorrespond, Where, Other
<1> HIDE DEF LifeTypeOK
<1> QED
  BY <1>1, <1>2, <1>3, <1>4, <1>5, <1>6, <1>7, <1>8, <1>9, <1>10, <1>11, <1>12,
     <1>13, <1>14, <1>15, <1>16, <1>17, <1>18, <1>19, <1>20, <1>21, <1>22,
     <1>23, <1>24, <1>25, <1>26, <1>27, <1>28, <1>29, <1>30, <1>31, <1>32,
     <1>33, <1>34, <1>35 DEF Step

\* A removal goes on, or has left the two in agreement.
RemovesOn(o) ==
    IF Active(o)' THEN Removes(o)' ELSE InAgreement' /\ trust' = Sides

LEMMA RemovesStep ==
    ASSUME NEW o \in Operations, LifeTypeOK, StepsFit, Active(o), kind[o] =
           "remove", Clean, Clean', Removes(o), Step(o)
    PROVE  RemovesOn(o)
<1>0. /\ LifeTypeOK /\ Fits(o) /\ Active(o) /\ kind[o] = "remove" /\ Clean
      /\ Clean'
      /\ Removes(o)
  BY DEF StepsFit
<1> USE DEF LifeTypeOK
<1>1. CASE Subscribe(o)
  BY <1>0, <1>1 DEF Subscribe, LifeBegin, Call, observed, Fits, Active,
     Removes, InAgreement, Clean, Sides, Roles, Other, RemovesOn, Where
<1>2. CASE Leave(o)
  BY <1>0, <1>2 DEF Leave, LifeBegin, Call, Put, observed, Fits, Active,
     Removes, InAgreement, Clean, Sides, Roles, Other, RemovesOn, Where
<1>3. CASE Sync(o)
  BY <1>0, <1>3 DEF Sync, LifeBegin, LifeGoto, observed, Fits, Active,
     Removes, InAgreement, Clean, Sides, Roles, Other, RemovesOn, Where
<1>4. ASSUME NEW b \in Subscriptions, Callback(o, b) PROVE RemovesOn(o)
  BY <1>0, <1>4 DEF Callback, LifeBegin, Call, observed, Fits, Active,
     Removes, InAgreement, Clean, Sides, Roles, Other, RemovesOn, Where
<1>5. ASSUME NEW x \in Sides, NEW b \in Subscriptions, NEW owner \in BOOLEAN,
   Remove(o, x, b, owner)
      PROVE  RemovesOn(o)
  BY <1>0, <1>5 DEF Remove, LifeBegin, Call, observed, Fits, Active,
     Removes, InAgreement, Clean, Sides, Roles, Other, RemovesOn, Where
<1>6. ASSUME NEW x \in Sides, Drop(o, x) PROVE RemovesOn(o)
  BY <1>0, <1>6 DEF Drop, LifeBegin, Call, observed, Fits, Active, Removes,
     InAgreement, Clean, Sides, Roles, Other, RemovesOn, Where
<1>7. CASE AcceptSubscription(o)
  BY <1>0, <1>7 DEF AcceptSubscription, Handles, Put, Done, LifeGoto, Reply,
     observed, Fits, Active, Removes, InAgreement, Clean, Sides, Roles, Other,
     RemovesOn, Where
<1>8. CASE SubscriptionCreated(o)
  BY <1>0, <1>8 DEF SubscriptionCreated, LifeAt, Put, LifeGoto, observed,
     Fits, Active, Removes, InAgreement, Clean, Sides, Roles, Other, RemovesOn,
     Where
<1>9. CASE SubscriptionFailed(o)
  BY <1>0, <1>9 DEF SubscriptionFailed, LifeAt, TimesOut, LifeFault,
     LifeGoto, observed, Fits, Active, Removes, InAgreement, Clean, Sides,
     Roles, Other, RemovesOn, Where
<1>10. CASE FetchBaseline(o)
  BY <1>0, <1>10 DEF FetchBaseline, LifeAt, LifeGoto, LifeFault, observed,
     Fits, Active, Removes, InAgreement, Clean, Sides, Roles, Other, RemovesOn,
     Where
<1>11. CASE StoreBaseline(o)
  BY <1>0, <1>11 DEF StoreBaseline, LifeAt, LifeGoto, observed, Fits,
     Active, Removes, InAgreement, Clean, Sides, Roles, Other, RemovesOn, Where
<1>12. CASE AcceptCallback(o)
  BY <1>0, <1>12 DEF AcceptCallback, Handles, LifeGoto, Done, Reply,
     observed, Fits, Active, Removes, InAgreement, Clean, Sides, Roles, Other,
     RemovesOn, Where
<1>13. CASE ApplyCallback(o)
  BY <1>0, <1>13 DEF ApplyCallback, Handles, LifeGoto, Done, Reply,
     observed, Fits, Active, Removes, InAgreement, Clean, Sides, Roles, Other,
     RemovesOn, Where
<1>14. CASE CallbackAnswered(o)
  BY <1>0, <1>14 DEF CallbackAnswered, LifeAt, TimesOut, LifeFault,
     LifeGoto, observed, Fits, Active, Removes, InAgreement, Clean, Sides,
     Roles, Other, RemovesOn, Where
<1>15. CASE AcceptRemoval(o)
  BY <1>0, <1>15 DEF AcceptRemoval, Handles, Where, FirstStep, LifeGoto,
     Done, Reply, observed, Fits, Active, Removes, InAgreement, Clean, Sides,
     Roles, Other, RemovesOn, Where
<1>16. CASE RemovalAnswered(o)
  BY <1>0, <1>16 DEF RemovalAnswered, LifeAt, FirstStep, LifeGoto, observed,
     Fits, Active, Removes, InAgreement, Clean, Sides, Roles, Other, RemovesOn,
     Where
<1>17. CASE RemovalFailed(o)
  BY <1>0, <1>17 DEF RemovalFailed, LifeAt, TimesOut, LifeFault, FirstStep,
     LifeGoto, observed, Fits, Active, Removes, InAgreement, Clean, Sides,
     Roles, Other, RemovesOn, Where
<1>18. ASSUME NEW r \in Roles, ReadRemaining(o, r) PROVE RemovesOn(o)
  <2>1. /\ kind[o] = "remove" /\ at[o][r] = "read" /\ at'[o][r] = "delete"
        /\ \A u \in Roles \ {r} : at'[o][u] = at[o][u]
        /\ last'[o] = (rows["s"] \ {sub[o]} = {})
        /\ UNCHANGED <<rows, trust, data, sub, side, answer>>
    BY <1>0, <1>18 DEF ReadRemaining, LifeGoto
  <2>2. Active(o)'
    BY <2>1 DEF Active, Roles
  <2>3. CASE r = "caller"
    <3>1. at[o]["handler"] = "none" /\ at'[o]["handler"] = "none"
      BY <1>0, <2>1, <2>3 DEF Removes, Roles
    <3> QED
      BY <1>0, <2>1, <2>2, <2>3, <3>1 DEF Removes, RemovesOn, Roles
  <2>4. CASE r = "handler"
    <3>1. at'[o]["caller"] = "waiting" /\ at[o]["caller"] = "waiting"
      BY <1>0, <2>1, <2>4 DEF Removes, Roles
    <3> QED
      BY <1>0, <2>1, <2>2, <2>4, <3>1 DEF Removes, RemovesOn, InAgreement,
         Roles
  <2> QED
    BY <2>3, <2>4 DEF Roles
<1>19. ASSUME NEW r \in Roles, DeleteRow(o, r) PROVE RemovesOn(o)
  <2>1. CASE r = "caller" /\ side[o] = "s"
    BY <1>0, <1>19, <2>1 DEF DeleteRow, Put, Where, Finish, LifeGoto, Done,
       Reply, observed, Fits, Active, Removes, InAgreement, Clean, Sides,
       Roles, Other, RemovesOn, Where
  <2>2. CASE r = "caller" /\ side[o] = "p"
    BY <1>0, <1>19, <2>2 DEF DeleteRow, Put, Where, Finish, LifeGoto, Done,
       Reply, observed, Fits, Active, Removes, InAgreement, Clean, Sides,
       Roles, Other, RemovesOn, Where
  <2>3. CASE r = "handler" /\ side[o] = "s"
    BY <1>0, <1>19, <2>3 DEF DeleteRow, Put, Where, Finish, LifeGoto, Done,
       Reply, observed, Fits, Active, Removes, InAgreement, Clean, Sides,
       Roles, Other, RemovesOn, Where
  <2>4. CASE r = "handler" /\ side[o] = "p"
    BY <1>0, <1>19, <2>4 DEF DeleteRow, Put, Where, Finish, LifeGoto, Done,
       Reply, observed, Fits, Active, Removes, InAgreement, Clean, Sides,
       Roles, Other, RemovesOn, Where
  <2> QED
    BY <1>0, <1>19, <2>1, <2>2, <2>3, <2>4 DEF Roles, Sides
<1>20. ASSUME NEW r \in Roles, WipeData(o, r) PROVE RemovesOn(o)
  <2>1. CASE r = "caller"
    <3>1. /\ at[o]["caller"] = "wipe" /\ at[o]["handler"] = "none"
          /\ at'[o]["caller"] = "done" /\ at'[o]["handler"] = "none"
      BY <1>0, <1>20, <2>1 DEF WipeData, Finish, LifeGoto, Removes, Roles
    <3>2. rows["s"] = {} /\ rows["p"] = {} /\ trust = Sides
      BY <1>0, <3>1 DEF Removes
    <3>3. UNCHANGED <<rows, trust>> /\ data' = {}
      BY <1>20 DEF WipeData
    <3> QED
      BY <3>1, <3>2, <3>3 DEF RemovesOn, Active, InAgreement
  <2>2. CASE r = "handler"
    <3>1. CASE side[o] = "s"
      BY <1>0, <1>20, <2>2, <3>1 DEF WipeData, Finish, LifeGoto, Done,
         Reply, observed, Fits, Active, Removes, InAgreement, Clean, Sides,
         Roles, Other, RemovesOn, Where
    <3>2. CASE side[o] = "p"
      BY <1>0, <1>20, <2>2, <3>2 DEF WipeData, Finish, LifeGoto, Done,
         Reply, observed, Fits, Active, Removes, InAgreement, Clean, Sides,
         Roles, Other, RemovesOn, Where
    <3> QED
      BY <1>0, <3>1, <3>2 DEF Sides
  <2> QED
    BY <2>1, <2>2 DEF Roles
<1>21. CASE AcceptDrop(o)
  BY <1>0, <1>21 DEF AcceptDrop, Where, LifeGoto, observed, Fits, Active,
     Removes, InAgreement, Clean, Sides, Roles, Other, RemovesOn, Where
<1>22. CASE DropAnswered(o)
  BY <1>0, <1>22 DEF DropAnswered, LifeAt, LifeGoto, observed, Fits, Active,
     Removes, InAgreement, Clean, Sides, Roles, Other, RemovesOn, Where
<1>23. CASE DropFailed(o)
  BY <1>0, <1>23 DEF DropFailed, LifeAt, TimesOut, LifeFault, LifeGoto,
     observed, Fits, Active, Removes, InAgreement, Clean, Sides, Roles, Other,
     RemovesOn, Where
<1>24. CASE Left(o)
  BY <1>0, <1>24 DEF Left, LifeAt, TimesOut, LifeFault, LifeGoto, observed,
     Fits, Active, Removes, InAgreement, Clean, Sides, Roles, Other, RemovesOn,
     Where
<1>25. ASSUME NEW r \in Roles, ListRows(o, r) PROVE RemovesOn(o)
  BY <1>0, <1>25 DEF ListRows, Where, LifeGoto, observed, Fits, Active,
     Removes, InAgreement, Clean, Sides, Roles, Other, RemovesOn, Where
<1>26. ASSUME NEW r \in Roles, DeleteRows(o, r) PROVE RemovesOn(o)
  BY <1>0, <1>26 DEF DeleteRows, Put, Where, LifeGoto, observed, Fits,
     Active, Removes, InAgreement, Clean, Sides, Roles, Other, RemovesOn, Where
<1>27. ASSUME NEW r \in Roles, DeleteData(o, r) PROVE RemovesOn(o)
  BY <1>0, <1>27 DEF DeleteData, Where, LifeGoto, observed, Fits, Active,
     Removes, InAgreement, Clean, Sides, Roles, Other, RemovesOn, Where
<1>28. ASSUME NEW r \in Roles, DeleteTrust(o, r) PROVE RemovesOn(o)
  BY <1>0, <1>28 DEF DeleteTrust, Where, Finish, LifeGoto, Done, Reply,
     observed, Fits, Active, Removes, InAgreement, Clean, Sides, Roles, Other,
     RemovesOn, Where
<1>29. CASE SyncOne(o)
  BY <1>0, <1>29 DEF SyncOne, LifeAt, Found, NotFound, LifeFault, LifeGoto,
     observed, Fits, Active, Removes, InAgreement, Clean, Sides, Roles, Other,
     RemovesOn, Where
<1>30. CASE StoreSync(o)
  BY <1>0, <1>30 DEF StoreSync, LifeAt, LifeGoto, observed, Fits, Active,
     Removes, InAgreement, Clean, Sides, Roles, Other, RemovesOn, Where
<1>31. CASE SyncEnds(o)
  BY <1>0, <1>31 DEF SyncEnds, LifeAt, LifeGoto, observed, Fits, Active,
     Removes, InAgreement, Clean, Sides, Roles, Other, RemovesOn, Where
<1>32. CASE CheckTrust(o)
  BY <1>0, <1>32 DEF CheckTrust, LifeAt, LifeGoto, observed, Fits, Active,
     Removes, InAgreement, Clean, Sides, Roles, Other, RemovesOn, Where
<1>33. CASE Refuse(o)
  BY <1>0, <1>33 DEF Refuse, Where, Done, LifeGoto, Reply, observed, Fits,
     Active, Removes, InAgreement, Clean, Sides, Roles, Other, RemovesOn, Where
<1>34. CASE Lose(o)
  BY <1>0, <1>34 DEF Lose, LifeFault, LifeGoto, observed, Fits, Active,
     Removes, InAgreement, Clean, Sides, Roles, Other, RemovesOn, Where
<1>35. CASE Die(o)
  BY <1>0, <1>35 DEF Die, LifeFault, LifeGoto, observed, Fits, Active,
     Removes, InAgreement, Clean, Sides, Roles, Other, RemovesOn, Where
<1> HIDE DEF LifeTypeOK
<1> QED
  BY <1>1, <1>2, <1>3, <1>4, <1>5, <1>6, <1>7, <1>8, <1>9, <1>10, <1>11, <1>12,
     <1>13, <1>14, <1>15, <1>16, <1>17, <1>18, <1>19, <1>20, <1>21, <1>22,
     <1>23, <1>24, <1>25, <1>26, <1>27, <1>28, <1>29, <1>30, <1>31, <1>32,
     <1>33, <1>34, <1>35 DEF Step

\* The end of a trust goes on, or has left nothing.
DropsOn(o) ==
    IF Active(o)' THEN Drops(o)'
    ELSE trust' = {} /\ rows'["s"] = {} /\ rows'["p"] = {} /\ data' = {}

LEMMA DropsStep ==
    ASSUME NEW o \in Operations, LifeTypeOK, StepsFit, Active(o), kind[o] \in
           {"drop", "leave"}, Clean, Clean', Drops(o), Step(o)
    PROVE  DropsOn(o)
<1>0. /\ LifeTypeOK /\ Fits(o) /\ Active(o) /\ kind[o] \in {"drop", "leave"}
      /\ Clean /\ Clean' /\ Drops(o)
  BY DEF StepsFit
<1> USE DEF LifeTypeOK
<1>1. CASE Subscribe(o)
  BY <1>0, <1>1 DEF Subscribe, LifeBegin, Call, observed, Fits, Active,
     Drops, Clears, Cleared, Clean, Sides, Roles, Other, DropsOn, Where
<1>2. CASE Leave(o)
  BY <1>0, <1>2 DEF Leave, LifeBegin, Call, Put, observed, Fits, Active,
     Drops, Clears, Cleared, Clean, Sides, Roles, Other, DropsOn, Where
<1>3. CASE Sync(o)
  BY <1>0, <1>3 DEF Sync, LifeBegin, LifeGoto, observed, Fits, Active,
     Drops, Clears, Cleared, Clean, Sides, Roles, Other, DropsOn, Where
<1>4. ASSUME NEW b \in Subscriptions, Callback(o, b) PROVE DropsOn(o)
  BY <1>0, <1>4 DEF Callback, LifeBegin, Call, observed, Fits, Active,
     Drops, Clears, Cleared, Clean, Sides, Roles, Other, DropsOn, Where
<1>5. ASSUME NEW x \in Sides, NEW b \in Subscriptions, NEW owner \in BOOLEAN,
   Remove(o, x, b, owner)
      PROVE  DropsOn(o)
  BY <1>0, <1>5 DEF Remove, LifeBegin, Call, observed, Fits, Active, Drops,
     Clears, Cleared, Clean, Sides, Roles, Other, DropsOn, Where
<1>6. ASSUME NEW x \in Sides, Drop(o, x) PROVE DropsOn(o)
  BY <1>0, <1>6 DEF Drop, LifeBegin, Call, observed, Fits, Active, Drops,
     Clears, Cleared, Clean, Sides, Roles, Other, DropsOn, Where
<1>7. CASE AcceptSubscription(o)
  BY <1>0, <1>7 DEF AcceptSubscription, Handles, Put, Done, LifeGoto, Reply,
     observed, Fits, Active, Drops, Clears, Cleared, Clean, Sides, Roles,
     Other, DropsOn, Where
<1>8. CASE SubscriptionCreated(o)
  BY <1>0, <1>8 DEF SubscriptionCreated, LifeAt, Put, LifeGoto, observed,
     Fits, Active, Drops, Clears, Cleared, Clean, Sides, Roles, Other, DropsOn,
     Where
<1>9. CASE SubscriptionFailed(o)
  BY <1>0, <1>9 DEF SubscriptionFailed, LifeAt, TimesOut, LifeFault,
     LifeGoto, observed, Fits, Active, Drops, Clears, Cleared, Clean, Sides,
     Roles, Other, DropsOn, Where
<1>10. CASE FetchBaseline(o)
  BY <1>0, <1>10 DEF FetchBaseline, LifeAt, LifeGoto, LifeFault, observed,
     Fits, Active, Drops, Clears, Cleared, Clean, Sides, Roles, Other, DropsOn,
     Where
<1>11. CASE StoreBaseline(o)
  BY <1>0, <1>11 DEF StoreBaseline, LifeAt, LifeGoto, observed, Fits,
     Active, Drops, Clears, Cleared, Clean, Sides, Roles, Other, DropsOn, Where
<1>12. CASE AcceptCallback(o)
  BY <1>0, <1>12 DEF AcceptCallback, Handles, LifeGoto, Done, Reply,
     observed, Fits, Active, Drops, Clears, Cleared, Clean, Sides, Roles,
     Other, DropsOn, Where
<1>13. CASE ApplyCallback(o)
  BY <1>0, <1>13 DEF ApplyCallback, Handles, LifeGoto, Done, Reply,
     observed, Fits, Active, Drops, Clears, Cleared, Clean, Sides, Roles,
     Other, DropsOn, Where
<1>14. CASE CallbackAnswered(o)
  BY <1>0, <1>14 DEF CallbackAnswered, LifeAt, TimesOut, LifeFault,
     LifeGoto, observed, Fits, Active, Drops, Clears, Cleared, Clean, Sides,
     Roles, Other, DropsOn, Where
<1>15. CASE AcceptRemoval(o)
  BY <1>0, <1>15 DEF AcceptRemoval, Handles, Where, FirstStep, LifeGoto,
     Done, Reply, observed, Fits, Active, Drops, Clears, Cleared, Clean, Sides,
     Roles, Other, DropsOn, Where
<1>16. CASE RemovalAnswered(o)
  BY <1>0, <1>16 DEF RemovalAnswered, LifeAt, FirstStep, LifeGoto, observed,
     Fits, Active, Drops, Clears, Cleared, Clean, Sides, Roles, Other, DropsOn,
     Where
<1>17. CASE RemovalFailed(o)
  BY <1>0, <1>17 DEF RemovalFailed, LifeAt, TimesOut, LifeFault, FirstStep,
     LifeGoto, observed, Fits, Active, Drops, Clears, Cleared, Clean, Sides,
     Roles, Other, DropsOn, Where
<1>18. ASSUME NEW r \in Roles, ReadRemaining(o, r) PROVE DropsOn(o)
  BY <1>0, <1>18 DEF ReadRemaining, LifeGoto, observed, Fits, Active, Drops,
     Clears, Cleared, Clean, Sides, Roles, Other, DropsOn, Where
<1>19. ASSUME NEW r \in Roles, DeleteRow(o, r) PROVE DropsOn(o)
  BY <1>0, <1>19 DEF DeleteRow, Put, Where, Finish, LifeGoto, Done, Reply,
     observed, Fits, Active, Drops, Clears, Cleared, Clean, Sides, Roles,
     Other, DropsOn, Where
<1>20. ASSUME NEW r \in Roles, WipeData(o, r) PROVE DropsOn(o)
  BY <1>0, <1>20 DEF WipeData, Finish, LifeGoto, Done, Reply, observed,
     Fits, Active, Drops, Clears, Cleared, Clean, Sides, Roles, Other, DropsOn,
     Where
<1>21. CASE AcceptDrop(o)
  BY <1>0, <1>21 DEF AcceptDrop, Where, LifeGoto, observed, Fits, Active,
     Drops, Clears, Cleared, Clean, Sides, Roles, Other, DropsOn, Where
<1>22. CASE DropAnswered(o)
  BY <1>0, <1>22 DEF DropAnswered, LifeAt, LifeGoto, observed, Fits, Active,
     Drops, Clears, Cleared, Clean, Sides, Roles, Other, DropsOn, Where
<1>23. CASE DropFailed(o)
  BY <1>0, <1>23 DEF DropFailed, LifeAt, TimesOut, LifeFault, LifeGoto,
     observed, Fits, Active, Drops, Clears, Cleared, Clean, Sides, Roles,
     Other, DropsOn, Where
<1>24. CASE Left(o)
  BY <1>0, <1>24 DEF Left, LifeAt, TimesOut, LifeFault, LifeGoto, observed,
     Fits, Active, Drops, Clears, Cleared, Clean, Sides, Roles, Other, DropsOn,
     Where
<1>25. ASSUME NEW r \in Roles, ListRows(o, r) PROVE DropsOn(o)
  BY <1>0, <1>25 DEF ListRows, Where, LifeGoto, observed, Fits, Active,
     Drops, Clears, Cleared, Clean, Sides, Roles, Other, DropsOn, Where
<1>26. ASSUME NEW r \in Roles, DeleteRows(o, r) PROVE DropsOn(o)
  BY <1>0, <1>26 DEF DeleteRows, Put, Where, LifeGoto, observed, Fits,
     Active, Drops, Clears, Cleared, Clean, Sides, Roles, Other, DropsOn, Where
<1>27. ASSUME NEW r \in Roles, DeleteData(o, r) PROVE DropsOn(o)
  BY <1>0, <1>27 DEF DeleteData, Where, LifeGoto, observed, Fits, Active,
     Drops, Clears, Cleared, Clean, Sides, Roles, Other, DropsOn, Where
<1>28. ASSUME NEW r \in Roles, DeleteTrust(o, r) PROVE DropsOn(o)
  <2>1. CASE r = "caller" /\ side[o] = "s"
    BY <1>0, <1>28, <2>1 DEF DeleteTrust, Where, Finish, LifeGoto, Done,
       Reply, observed, Fits, Active, Drops, Clears, Cleared, Clean, Sides,
       Roles, Other, DropsOn, Where
  <2>2. CASE r = "caller" /\ side[o] = "p"
    BY <1>0, <1>28, <2>2 DEF DeleteTrust, Where, Finish, LifeGoto, Done,
       Reply, observed, Fits, Active, Drops, Clears, Cleared, Clean, Sides,
       Roles, Other, DropsOn, Where
  <2>3. CASE r = "handler" /\ side[o] = "s"
    BY <1>0, <1>28, <2>3 DEF DeleteTrust, Where, Finish, LifeGoto, Done,
       Reply, observed, Fits, Active, Drops, Clears, Cleared, Clean, Sides,
       Roles, Other, DropsOn, Where
  <2>4. CASE r = "handler" /\ side[o] = "p"
    BY <1>0, <1>28, <2>4 DEF DeleteTrust, Where, Finish, LifeGoto, Done,
       Reply, observed, Fits, Active, Drops, Clears, Cleared, Clean, Sides,
       Roles, Other, DropsOn, Where
  <2> QED
    BY <1>0, <1>28, <2>1, <2>2, <2>3, <2>4 DEF Roles, Sides
<1>29. CASE SyncOne(o)
  BY <1>0, <1>29 DEF SyncOne, LifeAt, Found, NotFound, LifeFault, LifeGoto,
     observed, Fits, Active, Drops, Clears, Cleared, Clean, Sides, Roles,
     Other, DropsOn, Where
<1>30. CASE StoreSync(o)
  BY <1>0, <1>30 DEF StoreSync, LifeAt, LifeGoto, observed, Fits, Active,
     Drops, Clears, Cleared, Clean, Sides, Roles, Other, DropsOn, Where
<1>31. CASE SyncEnds(o)
  BY <1>0, <1>31 DEF SyncEnds, LifeAt, LifeGoto, observed, Fits, Active,
     Drops, Clears, Cleared, Clean, Sides, Roles, Other, DropsOn, Where
<1>32. CASE CheckTrust(o)
  BY <1>0, <1>32 DEF CheckTrust, LifeAt, LifeGoto, observed, Fits, Active,
     Drops, Clears, Cleared, Clean, Sides, Roles, Other, DropsOn, Where
<1>33. CASE Refuse(o)
  BY <1>0, <1>33 DEF Refuse, Where, Done, LifeGoto, Reply, observed, Fits,
     Active, Drops, Clears, Cleared, Clean, Sides, Roles, Other, DropsOn, Where
<1>34. CASE Lose(o)
  BY <1>0, <1>34 DEF Lose, LifeFault, LifeGoto, observed, Fits, Active,
     Drops, Clears, Cleared, Clean, Sides, Roles, Other, DropsOn, Where
<1>35. CASE Die(o)
  BY <1>0, <1>35 DEF Die, LifeFault, LifeGoto, observed, Fits, Active,
     Drops, Clears, Cleared, Clean, Sides, Roles, Other, DropsOn, Where
<1> HIDE DEF LifeTypeOK
<1> QED
  BY <1>1, <1>2, <1>3, <1>4, <1>5, <1>6, <1>7, <1>8, <1>9, <1>10, <1>11, <1>12,
     <1>13, <1>14, <1>15, <1>16, <1>17, <1>18, <1>19, <1>20, <1>21, <1>22,
     <1>23, <1>24, <1>25, <1>26, <1>27, <1>28, <1>29, <1>30, <1>31, <1>32,
     <1>33, <1>34, <1>35 DEF Step

\* What begins finds what it needs.
StartsWell(o) ==
    /\ OnTrack(o)'
    /\ kind'[o] = "remove" => Removes(o)'
    /\ kind'[o] \in {"drop", "leave"} => Drops(o)'

LEMMA BeginStep ==
    ASSUME NEW o \in Operations, LifeTypeOK, StepsFit, Begins(o), Clean',
           RowsCorrespond, GoneHasLeft, (trust = Sides \/ (trust = {} /\
           rows["s"] = {})), (kind'[o] \in Removals => InAgreement), Step(o)
    PROVE  StartsWell(o)
<1>0. /\ LifeTypeOK /\ Fits(o) /\ Begins(o) /\ Clean' /\ RowsCorrespond
      /\ GoneHasLeft
      /\ trust = Sides \/ (trust = {} /\ rows["s"] = {})
      /\ kind'[o] \in Removals => InAgreement
  BY DEF StepsFit
<1> USE DEF LifeTypeOK
<1>1. CASE Subscribe(o)
  BY <1>0, <1>1 DEF Subscribe, LifeBegin, Call, observed, Fits, Active,
     Begins, StartsWell, OnTrack, Removes, Drops, Clears, Granted, Removals,
     InAgreement, RowsCorrespond, GoneHasLeft, Other, Where, Sides, Roles
<1>2. CASE Leave(o)
  BY <1>0, <1>2 DEF Leave, LifeBegin, Call, Put, observed, Fits, Active,
     Begins, StartsWell, OnTrack, Removes, Drops, Clears, Granted, Removals,
     InAgreement, RowsCorrespond, GoneHasLeft, Other, Where, Sides, Roles
<1>3. CASE Sync(o)
  BY <1>0, <1>3 DEF Sync, LifeBegin, LifeGoto, observed, Fits, Active,
     Begins, StartsWell, OnTrack, Removes, Drops, Clears, Granted, Removals,
     InAgreement, RowsCorrespond, GoneHasLeft, Other, Where, Sides, Roles
<1>4. ASSUME NEW b \in Subscriptions, Callback(o, b) PROVE StartsWell(o)
  BY <1>0, <1>4 DEF Callback, LifeBegin, Call, observed, Fits, Active,
     Begins, StartsWell, OnTrack, Removes, Drops, Clears, Granted, Removals,
     InAgreement, RowsCorrespond, GoneHasLeft, Other, Where, Sides, Roles
<1>5. ASSUME NEW x \in Sides, NEW b \in Subscriptions, NEW owner \in BOOLEAN,
   Remove(o, x, b, owner)
      PROVE  StartsWell(o)
  BY <1>0, <1>5 DEF Remove, LifeBegin, Call, observed, Fits, Active, Begins,
     StartsWell, OnTrack, Removes, Drops, Clears, Granted, Removals,
     InAgreement, RowsCorrespond, GoneHasLeft, Other, Where, Sides, Roles
<1>6. ASSUME NEW x \in Sides, Drop(o, x) PROVE StartsWell(o)
  BY <1>0, <1>6 DEF Drop, LifeBegin, Call, observed, Fits, Active, Begins,
     StartsWell, OnTrack, Removes, Drops, Clears, Granted, Removals,
     InAgreement, RowsCorrespond, GoneHasLeft, Other, Where, Sides, Roles
<1>7. CASE AcceptSubscription(o)
  BY <1>0, <1>7 DEF AcceptSubscription, Handles, Put, Done, LifeGoto, Reply,
     observed, Fits, Active, Begins, StartsWell, OnTrack, Removes, Drops,
     Clears, Granted, Removals, InAgreement, RowsCorrespond, GoneHasLeft,
     Other, Where, Sides, Roles
<1>8. CASE SubscriptionCreated(o)
  BY <1>0, <1>8 DEF SubscriptionCreated, LifeAt, Put, LifeGoto, observed,
     Fits, Active, Begins, StartsWell, OnTrack, Removes, Drops, Clears,
     Granted, Removals, InAgreement, RowsCorrespond, GoneHasLeft, Other, Where,
     Sides, Roles
<1>9. CASE SubscriptionFailed(o)
  BY <1>0, <1>9 DEF SubscriptionFailed, LifeAt, TimesOut, LifeFault,
     LifeGoto, observed, Fits, Active, Begins, StartsWell, OnTrack, Removes,
     Drops, Clears, Granted, Removals, InAgreement, RowsCorrespond,
     GoneHasLeft, Other, Where, Sides, Roles
<1>10. CASE FetchBaseline(o)
  BY <1>0, <1>10 DEF FetchBaseline, LifeAt, LifeGoto, LifeFault, observed,
     Fits, Active, Begins, StartsWell, OnTrack, Removes, Drops, Clears,
     Granted, Removals, InAgreement, RowsCorrespond, GoneHasLeft, Other, Where,
     Sides, Roles
<1>11. CASE StoreBaseline(o)
  BY <1>0, <1>11 DEF StoreBaseline, LifeAt, LifeGoto, observed, Fits,
     Active, Begins, StartsWell, OnTrack, Removes, Drops, Clears, Granted,
     Removals, InAgreement, RowsCorrespond, GoneHasLeft, Other, Where, Sides,
     Roles
<1>12. CASE AcceptCallback(o)
  BY <1>0, <1>12 DEF AcceptCallback, Handles, LifeGoto, Done, Reply,
     observed, Fits, Active, Begins, StartsWell, OnTrack, Removes, Drops,
     Clears, Granted, Removals, InAgreement, RowsCorrespond, GoneHasLeft,
     Other, Where, Sides, Roles
<1>13. CASE ApplyCallback(o)
  BY <1>0, <1>13 DEF ApplyCallback, Handles, LifeGoto, Done, Reply,
     observed, Fits, Active, Begins, StartsWell, OnTrack, Removes, Drops,
     Clears, Granted, Removals, InAgreement, RowsCorrespond, GoneHasLeft,
     Other, Where, Sides, Roles
<1>14. CASE CallbackAnswered(o)
  BY <1>0, <1>14 DEF CallbackAnswered, LifeAt, TimesOut, LifeFault,
     LifeGoto, observed, Fits, Active, Begins, StartsWell, OnTrack, Removes,
     Drops, Clears, Granted, Removals, InAgreement, RowsCorrespond,
     GoneHasLeft, Other, Where, Sides, Roles
<1>15. CASE AcceptRemoval(o)
  BY <1>0, <1>15 DEF AcceptRemoval, Handles, Where, FirstStep, LifeGoto,
     Done, Reply, observed, Fits, Active, Begins, StartsWell, OnTrack, Removes,
     Drops, Clears, Granted, Removals, InAgreement, RowsCorrespond,
     GoneHasLeft, Other, Where, Sides, Roles
<1>16. CASE RemovalAnswered(o)
  BY <1>0, <1>16 DEF RemovalAnswered, LifeAt, FirstStep, LifeGoto, observed,
     Fits, Active, Begins, StartsWell, OnTrack, Removes, Drops, Clears,
     Granted, Removals, InAgreement, RowsCorrespond, GoneHasLeft, Other, Where,
     Sides, Roles
<1>17. CASE RemovalFailed(o)
  BY <1>0, <1>17 DEF RemovalFailed, LifeAt, TimesOut, LifeFault, FirstStep,
     LifeGoto, observed, Fits, Active, Begins, StartsWell, OnTrack, Removes,
     Drops, Clears, Granted, Removals, InAgreement, RowsCorrespond,
     GoneHasLeft, Other, Where, Sides, Roles
<1>18. ASSUME NEW r \in Roles, ReadRemaining(o, r) PROVE StartsWell(o)
  BY <1>0, <1>18 DEF ReadRemaining, LifeGoto, observed, Fits, Active,
     Begins, StartsWell, OnTrack, Removes, Drops, Clears, Granted, Removals,
     InAgreement, RowsCorrespond, GoneHasLeft, Other, Where, Sides, Roles
<1>19. ASSUME NEW r \in Roles, DeleteRow(o, r) PROVE StartsWell(o)
  BY <1>0, <1>19 DEF DeleteRow, Put, Where, Finish, LifeGoto, Done, Reply,
     observed, Fits, Active, Begins, StartsWell, OnTrack, Removes, Drops,
     Clears, Granted, Removals, InAgreement, RowsCorrespond, GoneHasLeft,
     Other, Where, Sides, Roles
<1>20. ASSUME NEW r \in Roles, WipeData(o, r) PROVE StartsWell(o)
  BY <1>0, <1>20 DEF WipeData, Finish, LifeGoto, Done, Reply, observed,
     Fits, Active, Begins, StartsWell, OnTrack, Removes, Drops, Clears,
     Granted, Removals, InAgreement, RowsCorrespond, GoneHasLeft, Other, Where,
     Sides, Roles
<1>21. CASE AcceptDrop(o)
  BY <1>0, <1>21 DEF AcceptDrop, Where, LifeGoto, observed, Fits, Active,
     Begins, StartsWell, OnTrack, Removes, Drops, Clears, Granted, Removals,
     InAgreement, RowsCorrespond, GoneHasLeft, Other, Where, Sides, Roles
<1>22. CASE DropAnswered(o)
  BY <1>0, <1>22 DEF DropAnswered, LifeAt, LifeGoto, observed, Fits, Active,
     Begins, StartsWell, OnTrack, Removes, Drops, Clears, Granted, Removals,
     InAgreement, RowsCorrespond, GoneHasLeft, Other, Where, Sides, Roles
<1>23. CASE DropFailed(o)
  BY <1>0, <1>23 DEF DropFailed, LifeAt, TimesOut, LifeFault, LifeGoto,
     observed, Fits, Active, Begins, StartsWell, OnTrack, Removes, Drops,
     Clears, Granted, Removals, InAgreement, RowsCorrespond, GoneHasLeft,
     Other, Where, Sides, Roles
<1>24. CASE Left(o)
  BY <1>0, <1>24 DEF Left, LifeAt, TimesOut, LifeFault, LifeGoto, observed,
     Fits, Active, Begins, StartsWell, OnTrack, Removes, Drops, Clears,
     Granted, Removals, InAgreement, RowsCorrespond, GoneHasLeft, Other, Where,
     Sides, Roles
<1>25. ASSUME NEW r \in Roles, ListRows(o, r) PROVE StartsWell(o)
  BY <1>0, <1>25 DEF ListRows, Where, LifeGoto, observed, Fits, Active,
     Begins, StartsWell, OnTrack, Removes, Drops, Clears, Granted, Removals,
     InAgreement, RowsCorrespond, GoneHasLeft, Other, Where, Sides, Roles
<1>26. ASSUME NEW r \in Roles, DeleteRows(o, r) PROVE StartsWell(o)
  BY <1>0, <1>26 DEF DeleteRows, Put, Where, LifeGoto, observed, Fits,
     Active, Begins, StartsWell, OnTrack, Removes, Drops, Clears, Granted,
     Removals, InAgreement, RowsCorrespond, GoneHasLeft, Other, Where, Sides,
     Roles
<1>27. ASSUME NEW r \in Roles, DeleteData(o, r) PROVE StartsWell(o)
  BY <1>0, <1>27 DEF DeleteData, Where, LifeGoto, observed, Fits, Active,
     Begins, StartsWell, OnTrack, Removes, Drops, Clears, Granted, Removals,
     InAgreement, RowsCorrespond, GoneHasLeft, Other, Where, Sides, Roles
<1>28. ASSUME NEW r \in Roles, DeleteTrust(o, r) PROVE StartsWell(o)
  BY <1>0, <1>28 DEF DeleteTrust, Where, Finish, LifeGoto, Done, Reply,
     observed, Fits, Active, Begins, StartsWell, OnTrack, Removes, Drops,
     Clears, Granted, Removals, InAgreement, RowsCorrespond, GoneHasLeft,
     Other, Where, Sides, Roles
<1>29. CASE SyncOne(o)
  BY <1>0, <1>29 DEF SyncOne, LifeAt, Found, NotFound, LifeFault, LifeGoto,
     observed, Fits, Active, Begins, StartsWell, OnTrack, Removes, Drops,
     Clears, Granted, Removals, InAgreement, RowsCorrespond, GoneHasLeft,
     Other, Where, Sides, Roles
<1>30. CASE StoreSync(o)
  BY <1>0, <1>30 DEF StoreSync, LifeAt, LifeGoto, observed, Fits, Active,
     Begins, StartsWell, OnTrack, Removes, Drops, Clears, Granted, Removals,
     InAgreement, RowsCorrespond, GoneHasLeft, Other, Where, Sides, Roles
<1>31. CASE SyncEnds(o)
  BY <1>0, <1>31 DEF SyncEnds, LifeAt, LifeGoto, observed, Fits, Active,
     Begins, StartsWell, OnTrack, Removes, Drops, Clears, Granted, Removals,
     InAgreement, RowsCorrespond, GoneHasLeft, Other, Where, Sides, Roles
<1>32. CASE CheckTrust(o)
  BY <1>0, <1>32 DEF CheckTrust, LifeAt, LifeGoto, observed, Fits, Active,
     Begins, StartsWell, OnTrack, Removes, Drops, Clears, Granted, Removals,
     InAgreement, RowsCorrespond, GoneHasLeft, Other, Where, Sides, Roles
<1>33. CASE Refuse(o)
  BY <1>0, <1>33 DEF Refuse, Where, Done, LifeGoto, Reply, observed, Fits,
     Active, Begins, StartsWell, OnTrack, Removes, Drops, Clears, Granted,
     Removals, InAgreement, RowsCorrespond, GoneHasLeft, Other, Where, Sides,
     Roles
<1>34. CASE Lose(o)
  BY <1>0, <1>34 DEF Lose, LifeFault, LifeGoto, observed, Fits, Active,
     Begins, StartsWell, OnTrack, Removes, Drops, Clears, Granted, Removals,
     InAgreement, RowsCorrespond, GoneHasLeft, Other, Where, Sides, Roles
<1>35. CASE Die(o)
  BY <1>0, <1>35 DEF Die, LifeFault, LifeGoto, observed, Fits, Active,
     Begins, StartsWell, OnTrack, Removes, Drops, Clears, Granted, Removals,
     InAgreement, RowsCorrespond, GoneHasLeft, Other, Where, Sides, Roles
<1> HIDE DEF LifeTypeOK
<1> QED
  BY <1>1, <1>2, <1>3, <1>4, <1>5, <1>6, <1>7, <1>8, <1>9, <1>10, <1>11, <1>12,
     <1>13, <1>14, <1>15, <1>16, <1>17, <1>18, <1>19, <1>20, <1>21, <1>22,
     <1>23, <1>24, <1>25, <1>26, <1>27, <1>28, <1>29, <1>30, <1>31, <1>32,
     <1>33, <1>34, <1>35 DEF Step

LEMMA AgreeWhenIdle ==
    ASSUME RowsCorrespond, \A q \in Operations : ~Active(q)
    PROVE  InAgreement
<1>1. \A q : ~Granted(q) /\ ~Expected(q)
  BY DEF Granted, Expected, Active
<1> QED
  BY <1>1 DEF RowsCorrespond, InAgreement

LEMMA CorrespondStep ==
    ASSUME RowsCorrespond, NEW o \in Operations, Others(o), Grows(o)
    PROVE  RowsCorrespond'
<1>1. ASSUME NEW b, b # o
      PROVE  (Granted(b) <=> Granted(b)') /\ (Expected(b) <=> Expected(b)')
  BY <1>1 DEF Others, Granted, Expected
<1>2. rows'["s"] \subseteq rows'["p"]
  BY DEF RowsCorrespond, Grows
<1>3. ASSUME NEW b \in rows'["p"], b \notin rows'["s"] PROVE Granted(b)'
  <2>1. CASE b = o
    BY <1>3, <2>1 DEF RowsCorrespond, Grows
  <2>2. CASE b # o
    BY <1>1, <1>3, <2>2 DEF RowsCorrespond, Grows
  <2> QED
    BY <2>1, <2>2
<1>4. ASSUME NEW b \in rows'["s"], b \notin data' PROVE Expected(b)'
  <2>1. CASE b = o
    BY <1>4, <2>1 DEF RowsCorrespond, Grows
  <2>2. CASE b # o
    BY <1>1, <1>4, <2>2 DEF RowsCorrespond, Grows
  <2> QED
    BY <2>1, <2>2
<1>5. rows'["s"] = {} => data' = {}
  BY DEF RowsCorrespond, Grows
<1> QED
  BY <1>2, <1>3, <1>4, <1>5 DEF RowsCorrespond

LEMMA CorrespondBegin ==
    ASSUME RowsCorrespond, NEW o \in Operations, Others(o), Begins(o),
           kind'[o] # "leave"
    PROVE  RowsCorrespond'
<1>1. ASSUME NEW b
      PROVE  (Granted(b) => Granted(b)') /\ (Expected(b) => Expected(b)')
  BY DEF Others, Begins, Granted, Expected
<1> QED
  BY <1>1 DEF RowsCorrespond, Begins

\* Who was on track stays so, while nothing is taken.
LEMMA OtherOnTrack ==
    ASSUME NEW o \in Operations, NEW q \in Operations \ {o}, OnTrack(q),
           Others(o), UNCHANGED <<trust, gone>>,
           rows["s"] \subseteq rows'["s"], rows["p"] \subseteq rows'["p"]
    PROVE  OnTrack(q)'
<1>1. /\ at'[q] = at[q] /\ kind'[q] = kind[q] /\ sub'[q] = sub[q]
      /\ answer'[q] = answer[q] /\ list'[q] = list[q]
      /\ missing'[q] = missing[q]
  BY DEF Others
<1>2. (Active(q)' <=> Active(q)) /\ (Granted(q)' <=> Granted(q))
  BY <1>1 DEF Active, Granted
<1> QED
  BY <1>1, <1>2 DEF OnTrack

LEMMA KindsOf ==
    ASSUME LifeTypeOK, NEW o \in Operations, Fits(o), Active(o),
           kind[o] \notin Removals
    PROVE  kind[o] \in {"subscribe", "callback", "sync"}
BY DEF LifeTypeOK, Kinds, Removals, Fits, Active

-----------------------------------------------------------------------------
(* A sync that is alone.                                                   *)

LEMMA SyncInvInit == LifeInit => SyncInv
<1> SUFFICES ASSUME LifeInit PROVE SyncInv
  OBVIOUS
<1>1. LifeTypeOK
  <2>1. at \in [Operations -> [Roles -> LifeSteps]]
    BY DEF LifeInit, Roles, LifeSteps
  <2>2. mishaps \in 0..MaxMishaps
    BY MaxMishapsAssumption DEF LifeInit
  <2>3. /\ rows \in [Sides -> SUBSET Subscriptions] /\ trust \in SUBSET Sides
        /\ data \in SUBSET Subscriptions
        /\ sub \in [Operations -> Subscriptions]
        /\ list \in [Operations -> SUBSET Subscriptions]
    BY DEF LifeInit, Subscriptions
  <2> QED
    BY <2>1, <2>2, <2>3 DEF LifeInit, LifeTypeOK, Sides, Kinds
<1>2. \A o \in Operations : kind[o] = "none" /\ ~alone[o] /\ Fits(o)
  BY DEF LifeInit, Fits, Roles
<1> QED
  BY <1>1, <1>2 DEF SyncInv, StepsFit, AloneIsAlone, SyncClears

LEMMA SyncInvStep ==
    ASSUME SyncInv, [LifeNext]_lifeVars
    PROVE  SyncInv'
<1> USE DEF SyncInv
<1>1. ASSUME NEW o \in Operations, Step(o) PROVE SyncInv'
  <2>1. Others(o) /\ Fits(o)' /\ LifeTypeOK' /\ (Continues(o) \/ Begins(o))
    BY <1>1, OthersStay, FitsStep, EndsTypeStep, ActiveSteps
  <2>2. StepsFit' /\ AloneIsAlone'
    BY <1>1, <2>1, SameFits, EndsAloneStep
  <2>3. ASSUME kind'[o] = "sync", alone'[o] PROVE Clears(o, "caller")'
    <3>1. kind[o] = "sync" => Clears(o, "caller")
      BY <2>1, <2>3 DEF Continues, Begins, SyncClears
    <3> QED
      BY <1>1, <2>3, <3>1, ClearsStep
  <2> QED
    BY <2>1, <2>2, <2>3, SyncClearsStep
<1>2. CASE UNCHANGED lifeVars
  BY <1>2 DEF lifeVars, observed, LifeTypeOK, StepsFit, Fits, AloneIsAlone,
     Active, SyncClears, Clears, Where
<1> QED
  BY <1>1, <1>2 DEF LifeNext

\* What a sync leaves when the publisher was deleted: nothing.
THEOREM GoneAreForgotten == LifeSpec => GonePeerIsForgotten
<1>1. ASSUME SyncInv, NEW o \in Operations, NEW q \in Operations, Step(q),
             SyncIsDone(o)
      PROVE  rows'["s"] = {} /\ data' = {} /\ "s" \notin trust'
  <2>1. q = o
    <3>1. Others(q)
      BY <1>1, OthersStay DEF SyncInv
    <3> QED
      BY <1>1, <3>1 DEF Others, SyncIsDone
  <2> QED
    BY <1>1, <2>1, SyncEndsClear DEF SyncInv, SyncClears, SyncIsDone
<1>2. SyncInv /\ [LifeNext]_lifeVars =>
      [\A o \in Operations :
        kind[o] = "sync" /\ gone /\ missing[o] /\ alone[o]
        /\ mishaps' = mishaps
            /\ at[o]["caller"] # "done" /\ at'[o]["caller"] = "done"
            /\ (at[o]["caller"] = "check" => "s" \in trust)
        => rows'["s"] = {} /\ data' = {} /\ "s" \notin trust']_lifeVars
  BY <1>1 DEF LifeNext, SyncIsDone
<1>3. SyncInv /\ [LifeNext]_lifeVars => SyncInv'
  BY SyncInvStep
<1> QED
  BY <1>2, <1>3, SyncInvInit, PTL DEF LifeSpec, GonePeerIsForgotten

-----------------------------------------------------------------------------
(* The two actors agree.                                                   *)

\* What holds while nothing was lost, crossed or forced.
Right ==
    /\ ~Removing =>
          /\ RowsCorrespond
          /\ trust = Sides \/ (trust = {} /\ rows["s"] = {})
    /\ \A o \in Operations :
          /\ OnTrack(o)
          /\ kind[o] = "remove" /\ Active(o) => Removes(o)
          /\ kind[o] \in {"drop", "leave"} /\ Active(o) => Drops(o)

LEMMA RightIs ==
    LifeIInv <=>
        /\ LifeTypeOK /\ StepsFit /\ RemovalIsAlone /\ GoneHasLeft
        /\ Clean => Right
BY DEF LifeIInv, Right, BetweenRemovals, OthersAreOnTrack, RemovalIsOnTrack,
   DropIsOnTrack

LEMMA RightContinues ==
    ASSUME LifeTypeOK, StepsFit, RemovalIsAlone, Clean, Right,
           NEW o \in Operations, Step(o), Others(o), Clean', Active(o),
           kind'[o] = kind[o], kind[o] \notin Removals
    PROVE  Right'
<1>1. ~Removing
  BY NobodyRemoves
<1>2. RowsCorrespond /\ OnTrack(o) /\ Fits(o)
  BY <1>1 DEF Right, StepsFit
<1>3. trust = Sides /\ ~gone
  BY <1>2, KindsOf DEF OnTrack
<1>4. Grows(o) /\ OnTrack(o)'
  BY <1>2, <1>3, GrowStep, OnTrackStep
<1>5. RowsCorrespond' /\ trust' = Sides
  BY <1>2, <1>3, <1>4, CorrespondStep DEF Grows, Sides
<1>6. ASSUME NEW q \in Operations PROVE OnTrack(q)'
  <2>1. CASE q = o
    BY <1>4, <2>1
  <2>2. CASE q # o
    <3>1. OnTrack(q)
      BY DEF Right
    <3> QED
      BY <1>4, <2>2, <3>1, OtherOnTrack DEF Grows
  <2> QED
    BY <2>1, <2>2
<1>7. ASSUME NEW q \in Operations, kind'[q] \in Removals PROVE ~Active(q)'
  <2>1. q # o
    BY <1>7
  <2>2. kind[q] = kind'[q] /\ (Active(q)' <=> Active(q))
    BY <2>1 DEF Others, Active
  <2> QED
    BY <1>1, <1>7, <2>2 DEF Removing
<1> QED
  BY <1>5, <1>6, <1>7 DEF Right, Removals

LEMMA RightRemoves ==
    ASSUME LifeTypeOK, StepsFit, RemovalIsAlone, Clean, Right,
           NEW o \in Operations, Step(o), Others(o), StepsFit', Clean',
           Active(o), kind'[o] = kind[o], kind[o] \in Removals
    PROVE  Right'
<1>1. ASSUME NEW q \in Operations \ {o} PROVE ~Active(q)'
  <2>1. ~Active(q)
    BY <1>1, NothingBeside
  <2> QED
    BY <1>1, <2>1 DEF Others, Active
<1>2. ASSUME NEW q \in Operations PROVE OnTrack(q)'
  <2>1. CASE q = o
    BY <2>1 DEF OnTrack, Granted, Removals
  <2>2. CASE q # o
    BY <1>1, <2>2, IdleIsOnTrack DEF StepsFit
  <2> QED
    BY <2>1, <2>2
<1>3. CASE kind[o] = "remove"
  <2>1. RemovesOn(o)
    BY <1>3, RemovesStep DEF Right
  <2>2. CASE Active(o)'
    BY <1>1, <1>2, <1>3, <2>1, <2>2 DEF Right, RemovesOn, Removing, Removals
  <2>3. CASE ~Active(o)'
    <3>1. RowsCorrespond' /\ trust' = Sides
      BY <2>1, <2>3 DEF RemovesOn, InAgreement, RowsCorrespond, Sides
    <3> QED
      BY <1>1, <1>2, <2>3, <3>1 DEF Right, Sides
  <2> QED
    BY <2>2, <2>3
<1>4. CASE kind[o] \in {"drop", "leave"}
  <2>1. DropsOn(o)
    BY <1>4, DropsStep DEF Right
  <2>2. CASE Active(o)'
    BY <1>1, <1>2, <1>4, <2>1, <2>2 DEF Right, DropsOn, Removing, Removals
  <2>3. CASE ~Active(o)'
    <3>1. RowsCorrespond' /\ trust' = {} /\ rows'["s"] = {}
      BY <2>1, <2>3 DEF DropsOn, RowsCorrespond
    <3> QED
      BY <1>1, <1>2, <2>3, <3>1 DEF Right
  <2> QED
    BY <2>2, <2>3
<1> QED
  BY <1>3, <1>4 DEF Removals

LEMMA RightBegins ==
    ASSUME LifeTypeOK, StepsFit, GoneHasLeft, Clean, Right,
           NEW o \in Operations, Step(o), Others(o), StepsFit', Clean',
           Begins(o)
    PROVE  Right'
<1>1. \A q \in Operations :
         Active(q) => kind'[o] \notin Removals /\ kind[q] \notin Removals
  BY DEF Begins, Clean
<1>2. ~Removing
  BY <1>1 DEF Removing
<1>3. /\ RowsCorrespond
      /\ trust = Sides \/ (trust = {} /\ rows["s"] = {})
  BY <1>2 DEF Right
<1>4. kind'[o] \in Removals => InAgreement
  BY <1>1, <1>3, AgreeWhenIdle
<1>5. StartsWell(o)
  BY <1>3, <1>4, BeginStep
<1>6. ASSUME NEW q \in Operations \ {o}
      PROVE  (Active(q)' <=> Active(q)) /\ kind'[q] = kind[q]
  BY <1>6 DEF Others, Active
<1>7. kind'[o] # "leave" => UNCHANGED <<rows, trust, gone>>
  BY DEF Begins
<1>8. ASSUME NEW q \in Operations PROVE OnTrack(q)'
  <2>1. CASE q = o
    BY <1>5, <2>1 DEF StartsWell
  <2>2. CASE q # o /\ kind'[o] \in Removals
    <3>1. ~Active(q)'
      BY <1>1, <1>6, <2>2
    <3> QED
      BY <3>1, IdleIsOnTrack DEF StepsFit
  <2>3. CASE q # o /\ kind'[o] \notin Removals
    <3>1. UNCHANGED <<rows, trust, gone>> /\ OnTrack(q)
      BY <1>7, <2>3 DEF Right, Removals
    <3> QED
      BY <2>3, <3>1, OtherOnTrack
  <2> QED
    BY <2>1, <2>2, <2>3
<1>9. ASSUME NEW q \in Operations, kind'[q] \in Removals, Active(q)'
      PROVE  q = o
  BY <1>1, <1>6, <1>9
<1>10. ASSUME ~Removing'
       PROVE  /\ RowsCorrespond'
              /\ trust' = Sides \/ (trust' = {} /\ rows'["s"] = {})
  <2>1. kind'[o] \notin Removals
    BY <1>10 DEF Removing, Begins, Removals
  <2>2. RowsCorrespond'
    BY <1>3, <2>1, CorrespondBegin DEF Removals
  <2> QED
    BY <1>3, <2>2 DEF Begins, Sides
<1> QED
  BY <1>5, <1>8, <1>9, <1>10 DEF Right, StartsWell, Removals

LEMMA EndsInit == LifeInit => LifeIInv
<1> SUFFICES ASSUME LifeInit PROVE LifeIInv
  OBVIOUS
<1>1. LifeTypeOK /\ StepsFit
  BY SyncInvInit DEF SyncInv
<1>2. \A o \in Operations : ~Active(o)
  BY DEF LifeInit, Active, Roles
<1>3. RemovalIsAlone /\ GoneHasLeft
  BY <1>2 DEF RemovalIsAlone, GoneHasLeft, LifeInit
<1>4. RowsCorrespond /\ trust = Sides
  BY DEF LifeInit, RowsCorrespond, Sides
<1>5. \A o \in Operations : OnTrack(o)
  BY <1>2 DEF LifeInit, OnTrack, Granted, Active, Roles
<1> QED
  BY <1>1, <1>2, <1>3, <1>4, <1>5, RightIs DEF Right

LEMMA EndsStep ==
    ASSUME LifeIInv, [LifeNext]_lifeVars
    PROVE  LifeIInv'
<1>1. ASSUME NEW o \in Operations, Step(o) PROVE LifeIInv'
  <2>0. /\ LifeTypeOK /\ StepsFit /\ RemovalIsAlone /\ GoneHasLeft
        /\ Clean => Right
    BY RightIs
  <2>1. /\ Others(o) /\ Fits(o)' /\ LifeTypeOK' /\ Later /\ GoneHasLeft'
        /\ Continues(o) \/ Begins(o)
    BY <1>1, <2>0, OthersStay, FitsStep, EndsTypeStep, Monotone, GoneStep,
       ActiveSteps
  <2>2. StepsFit' /\ RemovalIsAlone'
    BY <1>1, <2>0, <2>1, SameFits, RemovalAloneStep
  <2>3. ASSUME Clean' PROVE Right'
    <3>1. Clean /\ Right
      BY <2>0, <2>1, <2>3 DEF Later
    <3>2. CASE Begins(o)
      BY <1>1, <2>0, <2>1, <2>2, <2>3, <3>1, <3>2, RightBegins
    <3>3. CASE Continues(o) /\ kind[o] \in Removals
      <4>1. Active(o) /\ kind'[o] = kind[o]
        BY <3>3 DEF Continues
      <4> QED
        BY <1>1, <2>0, <2>1, <2>2, <2>3, <3>1, <3>3, <4>1, RightRemoves
    <3>4. CASE Continues(o) /\ kind[o] \notin Removals
      <4>1. Active(o) /\ kind'[o] = kind[o]
        BY <3>4 DEF Continues
      <4> QED
        BY <1>1, <2>0, <2>1, <2>3, <3>1, <3>4, <4>1, RightContinues
    <3> QED
      BY <2>1, <3>2, <3>3, <3>4
  <2> QED
    BY <2>1, <2>2, <2>3 DEF LifeIInv, Right, BetweenRemovals,
       OthersAreOnTrack, RemovalIsOnTrack, DropIsOnTrack
<1>2. CASE UNCHANGED lifeVars
  <2>1. /\ UNCHANGED <<rows, trust, data, gone, kind, side, sub, at, answer,
                       force, last, list, missing, alone, crossed, mishaps>>
        /\ LifeTypeOK /\ StepsFit /\ RemovalIsAlone /\ GoneHasLeft
        /\ Clean => Right
    BY <1>2, RightIs DEF lifeVars, observed
  <2>2. LifeTypeOK' /\ StepsFit' /\ GoneHasLeft'
    BY <2>1 DEF LifeTypeOK, StepsFit, Fits, GoneHasLeft
  <2>3. RemovalIsAlone' /\ (Clean' => Clean)
    BY <2>1 DEF RemovalIsAlone, Active, Clean
  <2>4. Right => Right'
    <3>1. Removing' => Removing
      BY <2>1 DEF Removing, Active
    <3>2. RowsCorrespond => RowsCorrespond'
      BY <2>1 DEF RowsCorrespond, Granted, Expected
    <3>3. Removing => Removing'
      BY <2>1 DEF Removing, Active
    <3>4. ASSUME NEW o \in Operations
          PROVE  /\ (Active(o)' => Active(o)) /\ (OnTrack(o) => OnTrack(o)')
                 /\ (Removes(o) => Removes(o)') /\ (Drops(o) => Drops(o)')
      <4>1. OnTrack(o) => OnTrack(o)'
        BY <2>1 DEF OnTrack, Active, Granted
      <4>2. Removes(o) => Removes(o)'
        BY <2>1 DEF Removes, InAgreement
      <4>3. Drops(o) => Drops(o)'
        BY <2>1 DEF Drops, Cleared, Clears, Where
      <4> QED
        BY <2>1, <4>1, <4>2, <4>3 DEF Active
    <3> QED
      BY <2>1, <3>1, <3>2, <3>3, <3>4 DEF Right
  <2> QED
    BY <2>1, <2>2, <2>3, <2>4 DEF LifeIInv, Right, BetweenRemovals,
       OthersAreOnTrack, RemovalIsOnTrack, DropIsOnTrack
<1> QED
  BY <1>1, <1>2 DEF LifeNext

\* Undisturbed, the two actors agree whenever nothing is under way.
THEOREM TheTwoAgree == LifeSpec => []ActorsAgree
<1>1. LifeIInv => ActorsAgree
  <2> SUFFICES ASSUME LifeIInv, Quiet, mishaps = 0, ~crossed,
                      \A o \in Operations : ~force[o]
               PROVE  /\ rows["s"] = rows["p"]
                      /\ "s" \in trust <=> "p" \in trust
                      /\ trust = {} => rows["s"] = {}
                      /\ rows["s"] \subseteq data
                      /\ rows["s"] = {} => data = {}
    BY DEF ActorsAgree
  <2>1. Clean /\ ~Removing
    BY DEF Clean, Removing, Quiet
  <2>2. /\ RowsCorrespond
        /\ trust = Sides \/ (trust = {} /\ rows["s"] = {})
    BY <2>1 DEF LifeIInv, BetweenRemovals
  <2>3. InAgreement
    BY <2>2, AgreeWhenIdle DEF Quiet
  <2> QED
    BY <2>2, <2>3 DEF InAgreement, Sides
<1>2. LifeIInv /\ [LifeNext]_lifeVars => LifeIInv'
  BY EndsStep
<1> QED
  BY <1>1, <1>2, EndsInit, PTL DEF LifeSpec
=============================================================================
