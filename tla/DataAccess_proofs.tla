-------------------------- MODULE DataAccess_proofs --------------------------
(***************************************************************************)
(* Proofs about how data is kept and who may have it: how a person comes   *)
(* to an actor (Login, for any number of requests, links and things that   *)
(* are used once), what the permissions of a peer let it use (Permissions, *)
(* whatever the patterns, the targets and the way patterns match), the     *)
(* rows of the attributes table on both databases (AttributeStore,         *)
(* DynamoAttributes), how an actor is found by the value of a property     *)
(* (PropertyLookup, for any number of actors, values and requests), and    *)
(* what becomes of the items of a list and of their count (ListProperty,   *)
(* for any number of writers, whose operations meet in the database).      *)
(***************************************************************************)
EXTENDS Login, Permissions, ListProperty, SequenceTheorems, FiniteSetTheorems,
        TLAPS

-----------------------------------------------------------------------------
(* Least actors, and the requests that a step leaves alone.                *)

\* get_from_creator finds an actor where there is one.
LEMMA LeastActor ==
    ASSUME ThingsAreDistinct, actors \subseteq Ids, actors # {}
    PROVE  FromCreator \in actors
<1> DEFINE below(a) == {b \in Ids : b < a}
<1> DEFINE belows == {below(a) : a \in actors}
<1>1. IsFiniteSet(Ids)
  BY FS_Interval DEF ThingsAreDistinct, Ids
<1>2. IsWellFoundedOn(StrictSubsetOrdering(Ids), FiniteSubsetsOf(Ids))
  BY <1>1, FS_StrictSubsetOrderingWellFounded
<1>3. belows \subseteq FiniteSubsetsOf(Ids) /\ belows # {}
  <2>1. FiniteSubsetsOf(Ids) = SUBSET Ids
    BY <1>1, FS_FiniteSubsetsOfFinite
  <2>2. \A a : below(a) \subseteq Ids
    OBVIOUS
  <2> HIDE DEF below
  <2> QED
    BY <2>1, <2>2
<1>4. \E m \in belows :
         \A y \in belows : <<y, m>> \notin StrictSubsetOrdering(Ids)
  <2> HIDE DEF belows
  <2> QED
    BY <1>2, <1>3, WFMin
<1>5. PICK a \in actors :
         \A y \in belows : <<y, below(a)>> \notin StrictSubsetOrdering(Ids)
  BY <1>4
<1>6. ASSUME NEW b \in actors
      PROVE  a <= b
  <2>1. a \in Nat /\ b \in Nat
    BY DEF Ids
  <2>2. SUFFICES ASSUME b < a
                 PROVE  FALSE
    BY <2>1
  <2>3. below(b) \subseteq below(a) /\ b \in below(a) /\ b \notin below(b)
    BY <2>1, <2>2 DEF Ids
  <2>4. <<below(b), below(a)>> \in StrictSubsetOrdering(Ids)
    BY <2>3 DEF StrictSubsetOrdering
  <2> QED
    BY <1>5, <2>4
<1> HIDE DEF below, belows
<1> QED
  BY <1>6 DEF FromCreator

\* Every step keeps the types.
LEMMA LoginTypes ==
    ASSUME ThingsAreDistinct, IInv, [Next]_vars
    PROVE  TypeOK'
<1>0. TypeOK /\ StepsFit
  BY DEF IInv
<1> USE DEF TypeOK, StepsFit, ThingsAreDistinct, Steps, Flows, Things
<1>1. ASSUME NEW r \in Requests, Arrive(r)
      PROVE  TypeOK'
  <2>1. CASE Callback(r)
    BY <1>0, <1>1, <2>1, LeastActor DEF Callback, Begin, Goto, dbVars,
       mailVars, obsVars
  <2>2. CASE Token(r)
    BY <1>0, <1>1, <2>2, LeastActor DEF Token, Begin, Goto, dbVars, mailVars,
       obsVars
  <2>3. CASE ApplePost(r)
    BY <1>0, <1>1, <2>3, LeastActor DEF ApplePost, Begin, Goto, dbVars,
       mailVars, obsVars
  <2>4. CASE EmailPost(r)
    BY <1>0, <1>1, <2>4, LeastActor DEF EmailPost, Begin, Goto, dbVars,
       mailVars, obsVars
  <2>5. CASE EmailGet(r)
    BY <1>0, <1>1, <2>5, LeastActor DEF EmailGet, Begin, Goto, Links, dbVars,
       mailVars, obsVars
  <2> QED
    BY <1>1, <2>1, <2>2, <2>3, <2>4, <2>5 DEF Arrive
<1>2. ASSUME NEW r \in Requests, UseOnce(r)
      PROVE  TypeOK'
  <2>1. CASE NonceRead(r)
    BY <1>0, <1>2, <2>1, LeastActor DEF NonceRead, At, Goto, Answer, Live,
       dbVars, mailVars, obsVars
  <2>2. CASE NonceDelete(r)
    BY <1>0, <1>2, <2>2, LeastActor DEF NonceDelete, At, Spend, Goto, dbVars,
       mailVars, obsVars
  <2>3. CASE AppleContinue(r)
    BY <1>0, <1>2, <2>3, LeastActor DEF AppleContinue, At, Goto, GotoOrRefuse,
       Answer, dbVars, mailVars, obsVars
  <2>4. CASE HandOver(r)
    BY <1>0, <1>2, <2>4, LeastActor DEF HandOver, At, Answer, dbVars, mailVars,
       obsVars
  <2>5. CASE TicketRead(r)
    BY <1>0, <1>2, <2>5, LeastActor DEF TicketRead, At, Goto, Answer, Live,
       dbVars, mailVars, obsVars
  <2>6. CASE TicketDelete(r)
    BY <1>0, <1>2, <2>6, LeastActor DEF TicketDelete, At, Spend, Goto, Answer,
       Live, dbVars, mailVars, obsVars
  <2>7. CASE ReplayRead(r)
    BY <1>0, <1>2, <2>7, LeastActor DEF ReplayRead, At, Goto, Answer, Live,
       dbVars, mailVars, obsVars
  <2>8. CASE ReplayRecord(r)
    BY <1>0, <1>2, <2>8, LeastActor DEF ReplayRecord, At, Spend, GotoOrRefuse,
       Goto, Answer, dbVars, mailVars, obsVars
  <2>9. CASE StoreSession(r)
    BY <1>0, <1>2, <2>9, LeastActor DEF StoreSession, Answer, dbVars, mailVars,
       obsVars
  <2>10. CASE GetSession(r)
    BY <1>0, <1>2, <2>10, LeastActor DEF GetSession, Live, GotoOrRefuse, Goto,
       Answer, dbVars, mailVars, obsVars
  <2>11. CASE DeleteSession(r)
    BY <1>0, <1>2, <2>11, LeastActor DEF DeleteSession, At, Spend, Answer,
       Goto, dbVars, mailVars, obsVars
  <2> QED
    BY <1>2, <2>1, <2>2, <2>3, <2>4, <2>5, <2>6, <2>7, <2>8, <2>9, <2>10, <2>11
    DEF UseOnce
<1>3. ASSUME NEW r \in Requests, Exchange(r)
      PROVE  TypeOK'
  <2>1. CASE WebExchange(r)
    BY <1>0, <1>3, <2>1, LeastActor DEF WebExchange, At, GotoOrRefuse, Goto,
       Answer, dbVars, mailVars, obsVars
  <2>2. CASE SpaExchange(r)
    BY <1>0, <1>3, <2>2, LeastActor DEF SpaExchange, At, GotoOrRefuse, Goto,
       Answer, dbVars, mailVars, obsVars
  <2>3. CASE CodeExchange(r)
    BY <1>0, <1>3, <2>3, LeastActor DEF CodeExchange, At, GotoOrRefuse, Goto,
       Answer, dbVars, mailVars, obsVars
  <2>4. CASE TicketExchange(r)
    BY <1>0, <1>3, <2>4, LeastActor DEF TicketExchange, At, GotoOrRefuse, Goto,
       Answer, dbVars, mailVars, obsVars
  <2> QED
    BY <1>3, <2>1, <2>2, <2>3, <2>4 DEF Exchange
<1>4. ASSUME NEW r \in Requests, Land(r)
      PROVE  TypeOK'
  <2>1. CASE ActorFromState(r)
    BY <1>0, <1>4, <2>1, LeastActor DEF ActorFromState, At, LandsOn, Goto,
       dbVars, mailVars, obsVars
  <2>2. CASE WebCheck(r)
    BY <1>0, <1>4, <2>2, LeastActor DEF WebCheck, At, Goto, dbVars, mailVars,
       obsVars
  <2>3. CASE NativeCheck(r)
    BY <1>0, <1>4, <2>3, LeastActor DEF NativeCheck, At, LandsOn, Goto, dbVars,
       mailVars, obsVars
  <2>4. CASE Find(r)
    <3>1. CASE actors # {}
      BY <1>0, <2>4, <3>1, LeastActor DEF Find, LandsOn, Goto, dbVars, mailVars
    <3>2. CASE actors = {}
      BY <1>0, <2>4, <3>2 DEF Find, Goto, dbVars, mailVars
    <3> QED
      BY <3>1, <3>2
  <2>5. CASE CheckUnique(r)
    BY <1>0, <1>4, <2>5, LeastActor DEF CheckUnique, Answer, Goto, dbVars,
       mailVars, obsVars
  <2>6. CASE CreateActor(r)
    BY <1>0, <1>4, <2>6, LeastActor DEF CreateActor, LandsOn, Goto, dbVars,
       mailVars, obsVars
  <2>7. CASE WebFinish(r)
    BY <1>0, <1>4, <2>7, LeastActor DEF WebFinish, At, Answer, dbVars,
       mailVars, obsVars
  <2>8. CASE SpaFinish(r)
    BY <1>0, <1>4, <2>8, LeastActor DEF SpaFinish, At, Answer, dbVars,
       mailVars, obsVars
  <2>9. CASE NativeFinish(r)
    BY <1>0, <1>4, <2>9, LeastActor DEF NativeFinish, At, Answer, dbVars,
       mailVars, obsVars
  <2> QED
    BY <1>4, <2>1, <2>2, <2>3, <2>4, <2>5, <2>6, <2>7, <2>8, <2>9 DEF Land
<1>5. ASSUME NEW r \in Requests, Confirm(r)
      PROVE  TypeOK'
  <2>1. CASE Unverify(r)
    BY <1>0, <1>5, <2>1, LeastActor DEF Unverify, Goto, dbVars, mailVars,
       obsVars
  <2>2. CASE SetToken(r)
    BY <1>0, <1>5, <2>2, LeastActor DEF SetToken, Goto, dbVars, mailVars,
       obsVars
  <2>3. CASE SetIndex(r)
    BY <1>0, <1>5, <2>3, LeastActor DEF SetIndex, Answer, dbVars, mailVars,
       obsVars
  <2>4. CASE VisitIndex(r)
    BY <1>0, <1>5, <2>4, LeastActor DEF VisitIndex, At, Goto, Answer, dbVars,
       mailVars, obsVars
  <2>5. CASE VisitCompare(r)
    BY <1>0, <1>5, <2>5, LeastActor DEF VisitCompare, Answer, Goto, dbVars,
       mailVars, obsVars
  <2>6. CASE Mark(r)
    <3>1. thing[r] \in Requests
      BY <1>0, <2>6 DEF Mark
    <3>2. confirmed' \subseteq Requests
      BY <1>0, <2>6, <3>1 DEF Mark
    <3>3. /\ verified' \in [Ids -> BOOLEAN] /\ pc' \in [Requests -> Steps]
          /\ result' = result
      BY <1>0, <2>6 DEF Mark, Goto
    <3> QED
      BY <1>0, <2>6, <3>2, <3>3 DEF Mark
  <2>7. CASE ClearToken(r)
    BY <1>0, <1>5, <2>7, LeastActor DEF ClearToken, Goto, dbVars, mailVars,
       obsVars
  <2>8. CASE DropIndex(r)
    BY <1>0, <1>5, <2>8, LeastActor DEF DropIndex, Answer, dbVars, mailVars,
       obsVars
  <2> QED
    BY <1>5, <2>1, <2>2, <2>3, <2>4, <2>5, <2>6, <2>7, <2>8 DEF Confirm
<1>6. ASSUME NEW r \in Requests, Crash(r)
      PROVE  TypeOK'
  BY <1>0, <1>6, LeastActor DEF Crash, InFlight, dbVars, mailVars, obsVars
<1>7. ASSUME NEW x \in Things, Authorize(x)
      PROVE  TypeOK'
  BY <1>0, <1>7, LeastActor DEF Authorize, dbVars, mailVars, obsVars
<1>8. ASSUME NEW x \in Things, Purge(x)
      PROVE  TypeOK'
  BY <1>0, <1>8, LeastActor DEF Purge, Live, At, dbVars, mailVars, obsVars
<1>9. ASSUME NEW x \in Things \cup Requests, Expire(x)
      PROVE  TypeOK'
  BY <1>0, <1>9, LeastActor DEF Expire, Live, dbVars, mailVars, obsVars
<1>10. CASE UNCHANGED vars
  BY <1>0, <1>10 DEF vars, dbVars, mailVars, obsVars
<1> HIDE DEF TypeOK, StepsFit, ThingsAreDistinct, Steps, Flows, Things
<1> QED
  BY <1>1, <1>2, <1>3, <1>4, <1>5, <1>6, <1>7, <1>8, <1>9, <1>10 DEF Next

\* Each request takes the steps of its flow.
LEMMA StepsStep ==
    ASSUME ThingsAreDistinct, IInv, [Next]_vars
    PROVE  StepsFit'
<1>0. TypeOK /\ StepsFit
  BY DEF IInv
<1> USE DEF TypeOK, StepsFit, ThingsAreDistinct
<1>1. ASSUME NEW r \in Requests, Arrive(r)
      PROVE  StepsFit'
  <2>1. CASE Callback(r)
    BY <1>0, <1>1, <2>1, LeastActor DEF Callback, Begin, Goto, dbVars,
       mailVars, obsVars
  <2>2. CASE Token(r)
    BY <1>0, <1>1, <2>2, LeastActor DEF Token, Begin, Goto, dbVars, mailVars,
       obsVars
  <2>3. CASE ApplePost(r)
    BY <1>0, <1>1, <2>3, LeastActor DEF ApplePost, Begin, Goto, dbVars,
       mailVars, obsVars
  <2>4. CASE EmailPost(r)
    BY <1>0, <1>1, <2>4, LeastActor DEF EmailPost, Begin, Goto, dbVars,
       mailVars, obsVars
  <2>5. CASE EmailGet(r)
    BY <1>0, <1>1, <2>5, LeastActor DEF EmailGet, Begin, Goto, Links, dbVars,
       mailVars, obsVars
  <2> QED
    BY <1>1, <2>1, <2>2, <2>3, <2>4, <2>5 DEF Arrive
<1>2. ASSUME NEW r \in Requests, UseOnce(r)
      PROVE  StepsFit'
  <2>1. CASE NonceRead(r)
    BY <1>0, <1>2, <2>1, LeastActor DEF NonceRead, At, Goto, Answer, Live,
       dbVars, mailVars, obsVars
  <2>2. CASE NonceDelete(r)
    BY <1>0, <1>2, <2>2, LeastActor DEF NonceDelete, At, Spend, Goto, dbVars,
       mailVars, obsVars
  <2>3. CASE AppleContinue(r)
    BY <1>0, <1>2, <2>3, LeastActor DEF AppleContinue, At, Goto, GotoOrRefuse,
       Answer, dbVars, mailVars, obsVars
  <2>4. CASE HandOver(r)
    BY <1>0, <1>2, <2>4, LeastActor DEF HandOver, At, Answer, dbVars, mailVars,
       obsVars
  <2>5. CASE TicketRead(r)
    BY <1>0, <1>2, <2>5, LeastActor DEF TicketRead, At, Goto, Answer, Live,
       dbVars, mailVars, obsVars
  <2>6. CASE TicketDelete(r)
    BY <1>0, <1>2, <2>6, LeastActor DEF TicketDelete, At, Spend, Goto, Answer,
       Live, dbVars, mailVars, obsVars
  <2>7. CASE ReplayRead(r)
    BY <1>0, <1>2, <2>7, LeastActor DEF ReplayRead, At, Goto, Answer, Live,
       dbVars, mailVars, obsVars
  <2>8. CASE ReplayRecord(r)
    BY <1>0, <1>2, <2>8, LeastActor DEF ReplayRecord, At, Spend, GotoOrRefuse,
       Goto, Answer, dbVars, mailVars, obsVars
  <2>9. CASE StoreSession(r)
    BY <1>0, <1>2, <2>9, LeastActor DEF StoreSession, Answer, dbVars, mailVars,
       obsVars
  <2>10. CASE GetSession(r)
    BY <1>0, <1>2, <2>10, LeastActor DEF GetSession, Live, GotoOrRefuse, Goto,
       Answer, dbVars, mailVars, obsVars
  <2>11. CASE DeleteSession(r)
    BY <1>0, <1>2, <2>11, LeastActor DEF DeleteSession, At, Spend, Answer,
       Goto, dbVars, mailVars, obsVars
  <2> QED
    BY <1>2, <2>1, <2>2, <2>3, <2>4, <2>5, <2>6, <2>7, <2>8, <2>9, <2>10, <2>11
    DEF UseOnce
<1>3. ASSUME NEW r \in Requests, Exchange(r)
      PROVE  StepsFit'
  <2>1. CASE WebExchange(r)
    BY <1>0, <1>3, <2>1, LeastActor DEF WebExchange, At, GotoOrRefuse, Goto,
       Answer, dbVars, mailVars, obsVars
  <2>2. CASE SpaExchange(r)
    BY <1>0, <1>3, <2>2, LeastActor DEF SpaExchange, At, GotoOrRefuse, Goto,
       Answer, dbVars, mailVars, obsVars
  <2>3. CASE CodeExchange(r)
    BY <1>0, <1>3, <2>3, LeastActor DEF CodeExchange, At, GotoOrRefuse, Goto,
       Answer, dbVars, mailVars, obsVars
  <2>4. CASE TicketExchange(r)
    BY <1>0, <1>3, <2>4, LeastActor DEF TicketExchange, At, GotoOrRefuse, Goto,
       Answer, dbVars, mailVars, obsVars
  <2> QED
    BY <1>3, <2>1, <2>2, <2>3, <2>4 DEF Exchange
<1>4. ASSUME NEW r \in Requests, Land(r)
      PROVE  StepsFit'
  <2>1. CASE ActorFromState(r)
    BY <1>0, <1>4, <2>1, LeastActor DEF ActorFromState, At, LandsOn, Goto,
       dbVars, mailVars, obsVars
  <2>2. CASE WebCheck(r)
    BY <1>0, <1>4, <2>2, LeastActor DEF WebCheck, At, Goto, dbVars, mailVars,
       obsVars
  <2>3. CASE NativeCheck(r)
    BY <1>0, <1>4, <2>3, LeastActor DEF NativeCheck, At, LandsOn, Goto, dbVars,
       mailVars, obsVars
  <2>4. CASE Find(r)
    BY <1>0, <1>4, <2>4, LeastActor DEF Find, LandsOn, Goto, dbVars, mailVars,
       obsVars
  <2>5. CASE CheckUnique(r)
    BY <1>0, <1>4, <2>5, LeastActor DEF CheckUnique, Answer, Goto, dbVars,
       mailVars, obsVars
  <2>6. CASE CreateActor(r)
    BY <1>0, <1>4, <2>6, LeastActor DEF CreateActor, LandsOn, Goto, dbVars,
       mailVars, obsVars
  <2>7. CASE WebFinish(r)
    BY <1>0, <1>4, <2>7, LeastActor DEF WebFinish, At, Answer, dbVars,
       mailVars, obsVars
  <2>8. CASE SpaFinish(r)
    BY <1>0, <1>4, <2>8, LeastActor DEF SpaFinish, At, Answer, dbVars,
       mailVars, obsVars
  <2>9. CASE NativeFinish(r)
    BY <1>0, <1>4, <2>9, LeastActor DEF NativeFinish, At, Answer, dbVars,
       mailVars, obsVars
  <2> QED
    BY <1>4, <2>1, <2>2, <2>3, <2>4, <2>5, <2>6, <2>7, <2>8, <2>9 DEF Land
<1>5. ASSUME NEW r \in Requests, Confirm(r)
      PROVE  StepsFit'
  <2>1. CASE Unverify(r)
    BY <1>0, <1>5, <2>1, LeastActor DEF Unverify, Goto, dbVars, mailVars,
       obsVars
  <2>2. CASE SetToken(r)
    BY <1>0, <1>5, <2>2, LeastActor DEF SetToken, Goto, dbVars, mailVars,
       obsVars
  <2>3. CASE SetIndex(r)
    BY <1>0, <1>5, <2>3, LeastActor DEF SetIndex, Answer, dbVars, mailVars,
       obsVars
  <2>4. CASE VisitIndex(r)
    BY <1>0, <1>5, <2>4, LeastActor DEF VisitIndex, At, Goto, Answer, dbVars,
       mailVars, obsVars
  <2>5. CASE VisitCompare(r)
    BY <1>0, <1>5, <2>5, LeastActor DEF VisitCompare, Answer, Goto, dbVars,
       mailVars, obsVars
  <2>6. CASE Mark(r)
    BY <1>0, <1>5, <2>6, LeastActor DEF Mark, Goto, dbVars, mailVars, obsVars
  <2>7. CASE ClearToken(r)
    BY <1>0, <1>5, <2>7, LeastActor DEF ClearToken, Goto, dbVars, mailVars,
       obsVars
  <2>8. CASE DropIndex(r)
    BY <1>0, <1>5, <2>8, LeastActor DEF DropIndex, Answer, dbVars, mailVars,
       obsVars
  <2> QED
    BY <1>5, <2>1, <2>2, <2>3, <2>4, <2>5, <2>6, <2>7, <2>8 DEF Confirm
<1>6. ASSUME NEW r \in Requests, Crash(r)
      PROVE  StepsFit'
  BY <1>0, <1>6, LeastActor DEF Crash, InFlight, dbVars, mailVars, obsVars
<1>7. ASSUME NEW x \in Things, Authorize(x)
      PROVE  StepsFit'
  BY <1>0, <1>7, LeastActor DEF Authorize, dbVars, mailVars, obsVars
<1>8. ASSUME NEW x \in Things, Purge(x)
      PROVE  StepsFit'
  BY <1>0, <1>8, LeastActor DEF Purge, Live, At, dbVars, mailVars, obsVars
<1>9. ASSUME NEW x \in Things \cup Requests, Expire(x)
      PROVE  StepsFit'
  BY <1>0, <1>9, LeastActor DEF Expire, Live, dbVars, mailVars, obsVars
<1>10. CASE UNCHANGED vars
  BY <1>0, <1>10 DEF vars, dbVars, mailVars, obsVars
<1> HIDE DEF TypeOK, StepsFit, ThingsAreDistinct
<1> QED
  BY <1>1, <1>2, <1>3, <1>4, <1>5, <1>6, <1>7, <1>8, <1>9, <1>10 DEF Next

\* Nothing brings back what was used up.
LEMMA SpentStep ==
    ASSUME ThingsAreDistinct, IInv, [Next]_vars
    PROVE  SpentIsGone'
<1>0. TypeOK /\ StepsFit /\ SpentIsGone
  BY DEF IInv
<1> USE DEF TypeOK, StepsFit, SpentIsGone, ThingsAreDistinct, Things, Live
<1>1. ASSUME NEW r \in Requests, Arrive(r)
      PROVE  SpentIsGone'
  <2>1. CASE Callback(r)
    BY <1>0, <1>1, <2>1 DEF Callback, Begin, Goto, dbVars, mailVars, obsVars
  <2>2. CASE Token(r)
    BY <1>0, <1>1, <2>2 DEF Token, Begin, Goto, dbVars, mailVars, obsVars
  <2>3. CASE ApplePost(r)
    BY <1>0, <1>1, <2>3 DEF ApplePost, Begin, Goto, dbVars, mailVars, obsVars
  <2>4. CASE EmailPost(r)
    BY <1>0, <1>1, <2>4 DEF EmailPost, Begin, Goto, dbVars, mailVars, obsVars
  <2>5. CASE EmailGet(r)
    BY <1>0, <1>1, <2>5 DEF EmailGet, Begin, Goto, Links, dbVars, mailVars,
       obsVars
  <2> QED
    BY <1>1, <2>1, <2>2, <2>3, <2>4, <2>5 DEF Arrive
<1>2. ASSUME NEW r \in Requests, UseOnce(r)
      PROVE  SpentIsGone'
  <2>1. CASE NonceRead(r)
    BY <1>0, <1>2, <2>1 DEF NonceRead, At, Goto, Answer, Live, dbVars,
       mailVars, obsVars
  <2>2. CASE NonceDelete(r)
    BY <1>0, <1>2, <2>2 DEF NonceDelete, At, Spend, Goto, dbVars, mailVars,
       obsVars
  <2>3. CASE AppleContinue(r)
    BY <1>0, <1>2, <2>3 DEF AppleContinue, At, Goto, GotoOrRefuse, Answer,
       dbVars, mailVars, obsVars
  <2>4. CASE HandOver(r)
    BY <1>0, <1>2, <2>4 DEF HandOver, At, Answer, dbVars, mailVars, obsVars
  <2>5. CASE TicketRead(r)
    BY <1>0, <1>2, <2>5 DEF TicketRead, At, Goto, Answer, Live, dbVars,
       mailVars, obsVars
  <2>6. CASE TicketDelete(r)
    BY <1>0, <1>2, <2>6 DEF TicketDelete, At, Spend, Goto, Answer, Live,
       dbVars, mailVars, obsVars
  <2>7. CASE ReplayRead(r)
    BY <1>0, <1>2, <2>7 DEF ReplayRead, At, Goto, Answer, Live, dbVars,
       mailVars, obsVars
  <2>8. CASE ReplayRecord(r)
    BY <1>0, <1>2, <2>8 DEF ReplayRecord, At, Spend, GotoOrRefuse, Goto,
       Answer, dbVars, mailVars, obsVars
  <2>9. CASE StoreSession(r)
    BY <1>0, <1>2, <2>9 DEF StoreSession, Answer, dbVars, mailVars, obsVars
  <2>10. CASE GetSession(r)
    BY <1>0, <1>2, <2>10 DEF GetSession, Live, GotoOrRefuse, Goto, Answer,
       dbVars, mailVars, obsVars
  <2>11. CASE DeleteSession(r)
    BY <1>0, <1>2, <2>11 DEF DeleteSession, At, Spend, Answer, Goto, dbVars,
       mailVars, obsVars
  <2> QED
    BY <1>2, <2>1, <2>2, <2>3, <2>4, <2>5, <2>6, <2>7, <2>8, <2>9, <2>10, <2>11
    DEF UseOnce
<1>3. ASSUME NEW r \in Requests, Exchange(r)
      PROVE  SpentIsGone'
  <2>1. CASE WebExchange(r)
    BY <1>0, <1>3, <2>1 DEF WebExchange, At, GotoOrRefuse, Goto, Answer,
       dbVars, mailVars, obsVars
  <2>2. CASE SpaExchange(r)
    BY <1>0, <1>3, <2>2 DEF SpaExchange, At, GotoOrRefuse, Goto, Answer,
       dbVars, mailVars, obsVars
  <2>3. CASE CodeExchange(r)
    BY <1>0, <1>3, <2>3 DEF CodeExchange, At, GotoOrRefuse, Goto, Answer,
       dbVars, mailVars, obsVars
  <2>4. CASE TicketExchange(r)
    BY <1>0, <1>3, <2>4 DEF TicketExchange, At, GotoOrRefuse, Goto, Answer,
       dbVars, mailVars, obsVars
  <2> QED
    BY <1>3, <2>1, <2>2, <2>3, <2>4 DEF Exchange
<1>4. ASSUME NEW r \in Requests, Land(r)
      PROVE  SpentIsGone'
  <2>1. CASE ActorFromState(r)
    BY <1>0, <1>4, <2>1 DEF ActorFromState, At, LandsOn, Goto, dbVars,
       mailVars, obsVars
  <2>2. CASE WebCheck(r)
    BY <1>0, <1>4, <2>2 DEF WebCheck, At, Goto, dbVars, mailVars, obsVars
  <2>3. CASE NativeCheck(r)
    BY <1>0, <1>4, <2>3 DEF NativeCheck, At, LandsOn, Goto, dbVars, mailVars,
       obsVars
  <2>4. CASE Find(r)
    BY <1>0, <1>4, <2>4 DEF Find, LandsOn, Goto, dbVars, mailVars, obsVars
  <2>5. CASE CheckUnique(r)
    BY <1>0, <1>4, <2>5 DEF CheckUnique, Answer, Goto, dbVars, mailVars,
       obsVars
  <2>6. CASE CreateActor(r)
    BY <1>0, <1>4, <2>6 DEF CreateActor, LandsOn, Goto, dbVars, mailVars,
       obsVars
  <2>7. CASE WebFinish(r)
    BY <1>0, <1>4, <2>7 DEF WebFinish, At, Answer, dbVars, mailVars, obsVars
  <2>8. CASE SpaFinish(r)
    BY <1>0, <1>4, <2>8 DEF SpaFinish, At, Answer, dbVars, mailVars, obsVars
  <2>9. CASE NativeFinish(r)
    BY <1>0, <1>4, <2>9 DEF NativeFinish, At, Answer, dbVars, mailVars, obsVars
  <2> QED
    BY <1>4, <2>1, <2>2, <2>3, <2>4, <2>5, <2>6, <2>7, <2>8, <2>9 DEF Land
<1>5. ASSUME NEW r \in Requests, Confirm(r)
      PROVE  SpentIsGone'
  <2>1. CASE Unverify(r)
    BY <1>0, <1>5, <2>1 DEF Unverify, Goto, dbVars, mailVars, obsVars
  <2>2. CASE SetToken(r)
    BY <1>0, <1>5, <2>2 DEF SetToken, Goto, dbVars, mailVars, obsVars
  <2>3. CASE SetIndex(r)
    BY <1>0, <1>5, <2>3 DEF SetIndex, Answer, dbVars, mailVars, obsVars
  <2>4. CASE VisitIndex(r)
    BY <1>0, <1>5, <2>4 DEF VisitIndex, At, Goto, Answer, dbVars, mailVars,
       obsVars
  <2>5. CASE VisitCompare(r)
    BY <1>0, <1>5, <2>5 DEF VisitCompare, Answer, Goto, dbVars, mailVars,
       obsVars
  <2>6. CASE Mark(r)
    BY <1>0, <1>5, <2>6 DEF Mark, Goto, dbVars, mailVars, obsVars
  <2>7. CASE ClearToken(r)
    BY <1>0, <1>5, <2>7 DEF ClearToken, Goto, dbVars, mailVars, obsVars
  <2>8. CASE DropIndex(r)
    BY <1>0, <1>5, <2>8 DEF DropIndex, Answer, dbVars, mailVars, obsVars
  <2> QED
    BY <1>5, <2>1, <2>2, <2>3, <2>4, <2>5, <2>6, <2>7, <2>8 DEF Confirm
<1>6. ASSUME NEW r \in Requests, Crash(r)
      PROVE  SpentIsGone'
  BY <1>0, <1>6 DEF Crash, InFlight, dbVars, mailVars, obsVars
<1>7. ASSUME NEW x \in Things, Authorize(x)
      PROVE  SpentIsGone'
  BY <1>0, <1>7 DEF Authorize, dbVars, mailVars, obsVars
<1>8. ASSUME NEW x \in Things, Purge(x)
      PROVE  SpentIsGone'
  BY <1>0, <1>8 DEF Purge, Live, At, dbVars, mailVars, obsVars
<1>9. ASSUME NEW x \in Things \cup Requests, Expire(x)
      PROVE  SpentIsGone'
  BY <1>0, <1>9 DEF Expire, Live, dbVars, mailVars, obsVars
<1>10. CASE UNCHANGED vars
  BY <1>0, <1>10 DEF vars, dbVars, mailVars, obsVars
<1> HIDE DEF TypeOK, StepsFit, SpentIsGone, ThingsAreDistinct, Things, Live
<1> QED
  BY <1>1, <1>2, <1>3, <1>4, <1>5, <1>6, <1>7, <1>8, <1>9, <1>10 DEF Next

\* Who comes late is refused at the first look.
LEMMA LateStep ==
    ASSUME ThingsAreDistinct, IInv, [Next]_vars
    PROVE  LateIsRefused'
<1>0. TypeOK /\ StepsFit /\ SpentIsGone /\ LateIsRefused
  BY DEF IInv
<1> USE DEF TypeOK, StepsFit, SpentIsGone, LateIsRefused, ThingsAreDistinct,
        Things, Live
<1>1. ASSUME NEW r \in Requests, Arrive(r)
      PROVE  LateIsRefused'
  <2>1. CASE Callback(r)
    BY <1>0, <1>1, <2>1 DEF Callback, Begin, Goto, dbVars, mailVars, obsVars
  <2>2. CASE Token(r)
    BY <1>0, <1>1, <2>2 DEF Token, Begin, Goto, dbVars, mailVars, obsVars
  <2>3. CASE ApplePost(r)
    BY <1>0, <1>1, <2>3 DEF ApplePost, Begin, Goto, dbVars, mailVars, obsVars
  <2>4. CASE EmailPost(r)
    BY <1>0, <1>1, <2>4 DEF EmailPost, Begin, Goto, dbVars, mailVars, obsVars
  <2>5. CASE EmailGet(r)
    BY <1>0, <1>1, <2>5 DEF EmailGet, Begin, Goto, Links, dbVars, mailVars,
       obsVars
  <2> QED
    BY <1>1, <2>1, <2>2, <2>3, <2>4, <2>5 DEF Arrive
<1>2. ASSUME NEW r \in Requests, UseOnce(r)
      PROVE  LateIsRefused'
  <2>1. CASE NonceRead(r)
    BY <1>0, <1>2, <2>1 DEF NonceRead, At, Goto, Answer, Live, dbVars,
       mailVars, obsVars
  <2>2. CASE NonceDelete(r)
    BY <1>0, <1>2, <2>2 DEF NonceDelete, At, Spend, Goto, dbVars, mailVars,
       obsVars
  <2>3. CASE AppleContinue(r)
    BY <1>0, <1>2, <2>3 DEF AppleContinue, At, Goto, GotoOrRefuse, Answer,
       dbVars, mailVars, obsVars
  <2>4. CASE HandOver(r)
    BY <1>0, <1>2, <2>4 DEF HandOver, At, Answer, dbVars, mailVars, obsVars
  <2>5. CASE TicketRead(r)
    BY <1>0, <1>2, <2>5 DEF TicketRead, At, Goto, Answer, Live, dbVars,
       mailVars, obsVars
  <2>6. CASE TicketDelete(r)
    BY <1>0, <1>2, <2>6 DEF TicketDelete, At, Spend, Goto, Answer, Live,
       dbVars, mailVars, obsVars
  <2>7. CASE ReplayRead(r)
    BY <1>0, <1>2, <2>7 DEF ReplayRead, At, Goto, Answer, Live, dbVars,
       mailVars, obsVars
  <2>8. CASE ReplayRecord(r)
    BY <1>0, <1>2, <2>8 DEF ReplayRecord, At, Spend, GotoOrRefuse, Goto,
       Answer, dbVars, mailVars, obsVars
  <2>9. CASE StoreSession(r)
    BY <1>0, <1>2, <2>9 DEF StoreSession, Answer, dbVars, mailVars, obsVars
  <2>10. CASE GetSession(r)
    BY <1>0, <1>2, <2>10 DEF GetSession, Live, GotoOrRefuse, Goto, Answer,
       dbVars, mailVars, obsVars
  <2>11. CASE DeleteSession(r)
    BY <1>0, <1>2, <2>11 DEF DeleteSession, At, Spend, Answer, Goto, dbVars,
       mailVars, obsVars
  <2> QED
    BY <1>2, <2>1, <2>2, <2>3, <2>4, <2>5, <2>6, <2>7, <2>8, <2>9, <2>10, <2>11
    DEF UseOnce
<1>3. ASSUME NEW r \in Requests, Exchange(r)
      PROVE  LateIsRefused'
  <2>1. CASE WebExchange(r)
    BY <1>0, <1>3, <2>1 DEF WebExchange, At, GotoOrRefuse, Goto, Answer,
       dbVars, mailVars, obsVars
  <2>2. CASE SpaExchange(r)
    BY <1>0, <1>3, <2>2 DEF SpaExchange, At, GotoOrRefuse, Goto, Answer,
       dbVars, mailVars, obsVars
  <2>3. CASE CodeExchange(r)
    BY <1>0, <1>3, <2>3 DEF CodeExchange, At, GotoOrRefuse, Goto, Answer,
       dbVars, mailVars, obsVars
  <2>4. CASE TicketExchange(r)
    BY <1>0, <1>3, <2>4 DEF TicketExchange, At, GotoOrRefuse, Goto, Answer,
       dbVars, mailVars, obsVars
  <2> QED
    BY <1>3, <2>1, <2>2, <2>3, <2>4 DEF Exchange
<1>4. ASSUME NEW r \in Requests, Land(r)
      PROVE  LateIsRefused'
  <2>1. CASE ActorFromState(r)
    BY <1>0, <1>4, <2>1 DEF ActorFromState, At, LandsOn, Goto, dbVars,
       mailVars, obsVars
  <2>2. CASE WebCheck(r)
    BY <1>0, <1>4, <2>2 DEF WebCheck, At, Goto, dbVars, mailVars, obsVars
  <2>3. CASE NativeCheck(r)
    BY <1>0, <1>4, <2>3 DEF NativeCheck, At, LandsOn, Goto, dbVars, mailVars,
       obsVars
  <2>4. CASE Find(r)
    BY <1>0, <1>4, <2>4 DEF Find, LandsOn, Goto, dbVars, mailVars, obsVars
  <2>5. CASE CheckUnique(r)
    BY <1>0, <1>4, <2>5 DEF CheckUnique, Answer, Goto, dbVars, mailVars,
       obsVars
  <2>6. CASE CreateActor(r)
    BY <1>0, <1>4, <2>6 DEF CreateActor, LandsOn, Goto, dbVars, mailVars,
       obsVars
  <2>7. CASE WebFinish(r)
    BY <1>0, <1>4, <2>7 DEF WebFinish, At, Answer, dbVars, mailVars, obsVars
  <2>8. CASE SpaFinish(r)
    BY <1>0, <1>4, <2>8 DEF SpaFinish, At, Answer, dbVars, mailVars, obsVars
  <2>9. CASE NativeFinish(r)
    BY <1>0, <1>4, <2>9 DEF NativeFinish, At, Answer, dbVars, mailVars, obsVars
  <2> QED
    BY <1>4, <2>1, <2>2, <2>3, <2>4, <2>5, <2>6, <2>7, <2>8, <2>9 DEF Land
<1>5. ASSUME NEW r \in Requests, Confirm(r)
      PROVE  LateIsRefused'
  <2>1. CASE Unverify(r)
    BY <1>0, <1>5, <2>1 DEF Unverify, Goto, dbVars, mailVars, obsVars
  <2>2. CASE SetToken(r)
    BY <1>0, <1>5, <2>2 DEF SetToken, Goto, dbVars, mailVars, obsVars
  <2>3. CASE SetIndex(r)
    BY <1>0, <1>5, <2>3 DEF SetIndex, Answer, dbVars, mailVars, obsVars
  <2>4. CASE VisitIndex(r)
    BY <1>0, <1>5, <2>4 DEF VisitIndex, At, Goto, Answer, dbVars, mailVars,
       obsVars
  <2>5. CASE VisitCompare(r)
    BY <1>0, <1>5, <2>5 DEF VisitCompare, Answer, Goto, dbVars, mailVars,
       obsVars
  <2>6. CASE Mark(r)
    BY <1>0, <1>5, <2>6 DEF Mark, Goto, dbVars, mailVars, obsVars
  <2>7. CASE ClearToken(r)
    BY <1>0, <1>5, <2>7 DEF ClearToken, Goto, dbVars, mailVars, obsVars
  <2>8. CASE DropIndex(r)
    BY <1>0, <1>5, <2>8 DEF DropIndex, Answer, dbVars, mailVars, obsVars
  <2> QED
    BY <1>5, <2>1, <2>2, <2>3, <2>4, <2>5, <2>6, <2>7, <2>8 DEF Confirm
<1>6. ASSUME NEW r \in Requests, Crash(r)
      PROVE  LateIsRefused'
  BY <1>0, <1>6 DEF Crash, InFlight, dbVars, mailVars, obsVars
<1>7. ASSUME NEW x \in Things, Authorize(x)
      PROVE  LateIsRefused'
  BY <1>0, <1>7 DEF Authorize, dbVars, mailVars, obsVars
<1>8. ASSUME NEW x \in Things, Purge(x)
      PROVE  LateIsRefused'
  BY <1>0, <1>8 DEF Purge, Live, At, dbVars, mailVars, obsVars
<1>9. ASSUME NEW x \in Things \cup Requests, Expire(x)
      PROVE  LateIsRefused'
  BY <1>0, <1>9 DEF Expire, Live, dbVars, mailVars, obsVars
<1>10. CASE UNCHANGED vars
  BY <1>0, <1>10 DEF vars, dbVars, mailVars, obsVars
<1> HIDE DEF TypeOK, StepsFit, SpentIsGone, LateIsRefused, ThingsAreDistinct,
        Things, Live
<1> QED
  BY <1>1, <1>2, <1>3, <1>4, <1>5, <1>6, <1>7, <1>8, <1>9, <1>10 DEF Next

\* The delete that finds the ticket is the only one.
LEMMA RedeemedStep ==
    ASSUME ThingsAreDistinct, IInv, [Next]_vars
    PROVE  RedeemedOnce'
<1>0. TypeOK /\ StepsFit /\ SpentIsGone /\ RedeemedOnce
  BY DEF IInv
<1> USE DEF TypeOK, StepsFit, SpentIsGone, RedeemedOnce, Redeemed,
        ThingsAreDistinct, Things, Live
<1>1. ASSUME NEW r \in Requests, Arrive(r)
      PROVE  RedeemedOnce'
  <2>1. CASE Callback(r)
    BY <1>0, <1>1, <2>1 DEF Callback, Begin, Goto, dbVars, mailVars, obsVars
  <2>2. CASE Token(r)
    BY <1>0, <1>1, <2>2 DEF Token, Begin, Goto, dbVars, mailVars, obsVars
  <2>3. CASE ApplePost(r)
    BY <1>0, <1>1, <2>3 DEF ApplePost, Begin, Goto, dbVars, mailVars, obsVars
  <2>4. CASE EmailPost(r)
    BY <1>0, <1>1, <2>4 DEF EmailPost, Begin, Goto, dbVars, mailVars, obsVars
  <2>5. CASE EmailGet(r)
    BY <1>0, <1>1, <2>5 DEF EmailGet, Begin, Goto, Links, dbVars, mailVars,
       obsVars
  <2> QED
    BY <1>1, <2>1, <2>2, <2>3, <2>4, <2>5 DEF Arrive
<1>2. ASSUME NEW r \in Requests, UseOnce(r)
      PROVE  RedeemedOnce'
  <2>1. CASE NonceRead(r)
    BY <1>0, <1>2, <2>1 DEF NonceRead, At, Goto, Answer, Live, dbVars,
       mailVars, obsVars
  <2>2. CASE NonceDelete(r)
    BY <1>0, <1>2, <2>2 DEF NonceDelete, At, Spend, Goto, dbVars, mailVars,
       obsVars
  <2>3. CASE AppleContinue(r)
    BY <1>0, <1>2, <2>3 DEF AppleContinue, At, Goto, GotoOrRefuse, Answer,
       dbVars, mailVars, obsVars
  <2>4. CASE HandOver(r)
    BY <1>0, <1>2, <2>4 DEF HandOver, At, Answer, dbVars, mailVars, obsVars
  <2>5. CASE TicketRead(r)
    BY <1>0, <1>2, <2>5 DEF TicketRead, At, Goto, Answer, Live, dbVars,
       mailVars, obsVars
  <2>6. CASE TicketDelete(r)
    BY <1>0, <1>2, <2>6 DEF TicketDelete, At, Spend, Goto, Answer, Live,
       dbVars, mailVars, obsVars
  <2>7. CASE ReplayRead(r)
    BY <1>0, <1>2, <2>7 DEF ReplayRead, At, Goto, Answer, Live, dbVars,
       mailVars, obsVars
  <2>8. CASE ReplayRecord(r)
    BY <1>0, <1>2, <2>8 DEF ReplayRecord, At, Spend, GotoOrRefuse, Goto,
       Answer, dbVars, mailVars, obsVars
  <2>9. CASE StoreSession(r)
    BY <1>0, <1>2, <2>9 DEF StoreSession, Answer, dbVars, mailVars, obsVars
  <2>10. CASE GetSession(r)
    BY <1>0, <1>2, <2>10 DEF GetSession, Live, GotoOrRefuse, Goto, Answer,
       dbVars, mailVars, obsVars
  <2>11. CASE DeleteSession(r)
    BY <1>0, <1>2, <2>11 DEF DeleteSession, At, Spend, Answer, Goto, dbVars,
       mailVars, obsVars
  <2> QED
    BY <1>2, <2>1, <2>2, <2>3, <2>4, <2>5, <2>6, <2>7, <2>8, <2>9, <2>10, <2>11
    DEF UseOnce
<1>3. ASSUME NEW r \in Requests, Exchange(r)
      PROVE  RedeemedOnce'
  <2>1. CASE WebExchange(r)
    BY <1>0, <1>3, <2>1 DEF WebExchange, At, GotoOrRefuse, Goto, Answer,
       dbVars, mailVars, obsVars
  <2>2. CASE SpaExchange(r)
    BY <1>0, <1>3, <2>2 DEF SpaExchange, At, GotoOrRefuse, Goto, Answer,
       dbVars, mailVars, obsVars
  <2>3. CASE CodeExchange(r)
    BY <1>0, <1>3, <2>3 DEF CodeExchange, At, GotoOrRefuse, Goto, Answer,
       dbVars, mailVars, obsVars
  <2>4. CASE TicketExchange(r)
    BY <1>0, <1>3, <2>4 DEF TicketExchange, At, GotoOrRefuse, Goto, Answer,
       dbVars, mailVars, obsVars
  <2> QED
    BY <1>3, <2>1, <2>2, <2>3, <2>4 DEF Exchange
<1>4. ASSUME NEW r \in Requests, Land(r)
      PROVE  RedeemedOnce'
  <2>1. CASE ActorFromState(r)
    BY <1>0, <1>4, <2>1 DEF ActorFromState, At, LandsOn, Goto, dbVars,
       mailVars, obsVars
  <2>2. CASE WebCheck(r)
    BY <1>0, <1>4, <2>2 DEF WebCheck, At, Goto, dbVars, mailVars, obsVars
  <2>3. CASE NativeCheck(r)
    BY <1>0, <1>4, <2>3 DEF NativeCheck, At, LandsOn, Goto, dbVars, mailVars,
       obsVars
  <2>4. CASE Find(r)
    BY <1>0, <1>4, <2>4 DEF Find, LandsOn, Goto, dbVars, mailVars, obsVars
  <2>5. CASE CheckUnique(r)
    BY <1>0, <1>4, <2>5 DEF CheckUnique, Answer, Goto, dbVars, mailVars,
       obsVars
  <2>6. CASE CreateActor(r)
    BY <1>0, <1>4, <2>6 DEF CreateActor, LandsOn, Goto, dbVars, mailVars,
       obsVars
  <2>7. CASE WebFinish(r)
    BY <1>0, <1>4, <2>7 DEF WebFinish, At, Answer, dbVars, mailVars, obsVars
  <2>8. CASE SpaFinish(r)
    BY <1>0, <1>4, <2>8 DEF SpaFinish, At, Answer, dbVars, mailVars, obsVars
  <2>9. CASE NativeFinish(r)
    BY <1>0, <1>4, <2>9 DEF NativeFinish, At, Answer, dbVars, mailVars, obsVars
  <2> QED
    BY <1>4, <2>1, <2>2, <2>3, <2>4, <2>5, <2>6, <2>7, <2>8, <2>9 DEF Land
<1>5. ASSUME NEW r \in Requests, Confirm(r)
      PROVE  RedeemedOnce'
  <2>1. CASE Unverify(r)
    BY <1>0, <1>5, <2>1 DEF Unverify, Goto, dbVars, mailVars, obsVars
  <2>2. CASE SetToken(r)
    BY <1>0, <1>5, <2>2 DEF SetToken, Goto, dbVars, mailVars, obsVars
  <2>3. CASE SetIndex(r)
    BY <1>0, <1>5, <2>3 DEF SetIndex, Answer, dbVars, mailVars, obsVars
  <2>4. CASE VisitIndex(r)
    BY <1>0, <1>5, <2>4 DEF VisitIndex, At, Goto, Answer, dbVars, mailVars,
       obsVars
  <2>5. CASE VisitCompare(r)
    BY <1>0, <1>5, <2>5 DEF VisitCompare, Answer, Goto, dbVars, mailVars,
       obsVars
  <2>6. CASE Mark(r)
    BY <1>0, <1>5, <2>6 DEF Mark, Goto, dbVars, mailVars, obsVars
  <2>7. CASE ClearToken(r)
    BY <1>0, <1>5, <2>7 DEF ClearToken, Goto, dbVars, mailVars, obsVars
  <2>8. CASE DropIndex(r)
    BY <1>0, <1>5, <2>8 DEF DropIndex, Answer, dbVars, mailVars, obsVars
  <2> QED
    BY <1>5, <2>1, <2>2, <2>3, <2>4, <2>5, <2>6, <2>7, <2>8 DEF Confirm
<1>6. ASSUME NEW r \in Requests, Crash(r)
      PROVE  RedeemedOnce'
  BY <1>0, <1>6 DEF Crash, InFlight, dbVars, mailVars, obsVars
<1>7. ASSUME NEW x \in Things, Authorize(x)
      PROVE  RedeemedOnce'
  BY <1>0, <1>7 DEF Authorize, dbVars, mailVars, obsVars
<1>8. ASSUME NEW x \in Things, Purge(x)
      PROVE  RedeemedOnce'
  BY <1>0, <1>8 DEF Purge, Live, At, dbVars, mailVars, obsVars
<1>9. ASSUME NEW x \in Things \cup Requests, Expire(x)
      PROVE  RedeemedOnce'
  BY <1>0, <1>9 DEF Expire, Live, dbVars, mailVars, obsVars
<1>10. CASE UNCHANGED vars
  BY <1>0, <1>10 DEF vars, dbVars, mailVars, obsVars
<1> HIDE DEF TypeOK, StepsFit, SpentIsGone, RedeemedOnce, Redeemed,
        ThingsAreDistinct, Things, Live
<1> QED
  BY <1>1, <1>2, <1>3, <1>4, <1>5, <1>6, <1>7, <1>8, <1>9, <1>10 DEF Next

\* Creations that do not overlap find out of each other.
LEMMA CreatorStep ==
    ASSUME ThingsAreDistinct, IInv, [Next]_vars
    PROVE  OneCreator'
<1>0. TypeOK /\ OneCreator
  BY DEF IInv
<1> USE DEF TypeOK, OneCreator, Creating
<1>1. ASSUME NEW r \in Requests, Arrive(r)
      PROVE  OneCreator'
  <2>1. CASE Callback(r)
    BY <1>0, <1>1, <2>1 DEF Callback, Begin, Goto, dbVars, mailVars, obsVars
  <2>2. CASE Token(r)
    BY <1>0, <1>1, <2>2 DEF Token, Begin, Goto, dbVars, mailVars, obsVars
  <2>3. CASE ApplePost(r)
    BY <1>0, <1>1, <2>3 DEF ApplePost, Begin, Goto, dbVars, mailVars, obsVars
  <2>4. CASE EmailPost(r)
    BY <1>0, <1>1, <2>4 DEF EmailPost, Begin, Goto, dbVars, mailVars, obsVars
  <2>5. CASE EmailGet(r)
    BY <1>0, <1>1, <2>5 DEF EmailGet, Begin, Goto, Links, dbVars, mailVars,
       obsVars
  <2> QED
    BY <1>1, <2>1, <2>2, <2>3, <2>4, <2>5 DEF Arrive
<1>2. ASSUME NEW r \in Requests, UseOnce(r)
      PROVE  OneCreator'
  <2>1. CASE NonceRead(r)
    BY <1>0, <1>2, <2>1 DEF NonceRead, At, Goto, Answer, Live, dbVars,
       mailVars, obsVars
  <2>2. CASE NonceDelete(r)
    BY <1>0, <1>2, <2>2 DEF NonceDelete, At, Spend, Goto, dbVars, mailVars,
       obsVars
  <2>3. CASE AppleContinue(r)
    BY <1>0, <1>2, <2>3 DEF AppleContinue, At, Goto, GotoOrRefuse, Answer,
       dbVars, mailVars, obsVars
  <2>4. CASE HandOver(r)
    BY <1>0, <1>2, <2>4 DEF HandOver, At, Answer, dbVars, mailVars, obsVars
  <2>5. CASE TicketRead(r)
    BY <1>0, <1>2, <2>5 DEF TicketRead, At, Goto, Answer, Live, dbVars,
       mailVars, obsVars
  <2>6. CASE TicketDelete(r)
    BY <1>0, <1>2, <2>6 DEF TicketDelete, At, Spend, Goto, Answer, Live,
       dbVars, mailVars, obsVars
  <2>7. CASE ReplayRead(r)
    BY <1>0, <1>2, <2>7 DEF ReplayRead, At, Goto, Answer, Live, dbVars,
       mailVars, obsVars
  <2>8. CASE ReplayRecord(r)
    BY <1>0, <1>2, <2>8 DEF ReplayRecord, At, Spend, GotoOrRefuse, Goto,
       Answer, dbVars, mailVars, obsVars
  <2>9. CASE StoreSession(r)
    BY <1>0, <1>2, <2>9 DEF StoreSession, Answer, dbVars, mailVars, obsVars
  <2>10. CASE GetSession(r)
    BY <1>0, <1>2, <2>10 DEF GetSession, Live, GotoOrRefuse, Goto, Answer,
       dbVars, mailVars, obsVars
  <2>11. CASE DeleteSession(r)
    BY <1>0, <1>2, <2>11 DEF DeleteSession, At, Spend, Answer, Goto, dbVars,
       mailVars, obsVars
  <2> QED
    BY <1>2, <2>1, <2>2, <2>3, <2>4, <2>5, <2>6, <2>7, <2>8, <2>9, <2>10, <2>11
    DEF UseOnce
<1>3. ASSUME NEW r \in Requests, Exchange(r)
      PROVE  OneCreator'
  <2>1. CASE WebExchange(r)
    BY <1>0, <1>3, <2>1 DEF WebExchange, At, GotoOrRefuse, Goto, Answer,
       dbVars, mailVars, obsVars
  <2>2. CASE SpaExchange(r)
    BY <1>0, <1>3, <2>2 DEF SpaExchange, At, GotoOrRefuse, Goto, Answer,
       dbVars, mailVars, obsVars
  <2>3. CASE CodeExchange(r)
    BY <1>0, <1>3, <2>3 DEF CodeExchange, At, GotoOrRefuse, Goto, Answer,
       dbVars, mailVars, obsVars
  <2>4. CASE TicketExchange(r)
    BY <1>0, <1>3, <2>4 DEF TicketExchange, At, GotoOrRefuse, Goto, Answer,
       dbVars, mailVars, obsVars
  <2> QED
    BY <1>3, <2>1, <2>2, <2>3, <2>4 DEF Exchange
<1>4. ASSUME NEW r \in Requests, Land(r)
      PROVE  OneCreator'
  <2>1. CASE ActorFromState(r)
    BY <1>0, <1>4, <2>1 DEF ActorFromState, At, LandsOn, Goto, dbVars,
       mailVars, obsVars
  <2>2. CASE WebCheck(r)
    BY <1>0, <1>4, <2>2 DEF WebCheck, At, Goto, dbVars, mailVars, obsVars
  <2>3. CASE NativeCheck(r)
    BY <1>0, <1>4, <2>3 DEF NativeCheck, At, LandsOn, Goto, dbVars, mailVars,
       obsVars
  <2>4. CASE Find(r)
    <3>1. CASE actors # {}
      BY <1>0, <2>4, <3>1 DEF Find, LandsOn, Goto, dbVars
    <3>2. CASE actors = {}
      <4>1. /\ actors' = {} /\ \A q \in Requests \ {r} : pc'[q] = pc[q]
            /\ ~crossed' => ~crossed /\ \A q \in Requests : q \notin Creating
        BY <1>0, <2>4, <3>2 DEF Find, Goto, dbVars
      <4> QED
        BY <1>0, <4>1
    <3> QED
      BY <3>1, <3>2
  <2>5. CASE CheckUnique(r)
    BY <1>0, <1>4, <2>5 DEF CheckUnique, Answer, Goto, dbVars, mailVars,
       obsVars
  <2>6. CASE CreateActor(r)
    BY <1>0, <1>4, <2>6 DEF CreateActor, LandsOn, Goto, dbVars, mailVars,
       obsVars
  <2>7. CASE WebFinish(r)
    BY <1>0, <1>4, <2>7 DEF WebFinish, At, Answer, dbVars, mailVars, obsVars
  <2>8. CASE SpaFinish(r)
    BY <1>0, <1>4, <2>8 DEF SpaFinish, At, Answer, dbVars, mailVars, obsVars
  <2>9. CASE NativeFinish(r)
    BY <1>0, <1>4, <2>9 DEF NativeFinish, At, Answer, dbVars, mailVars, obsVars
  <2> QED
    BY <1>4, <2>1, <2>2, <2>3, <2>4, <2>5, <2>6, <2>7, <2>8, <2>9 DEF Land
<1>5. ASSUME NEW r \in Requests, Confirm(r)
      PROVE  OneCreator'
  <2>1. CASE Unverify(r)
    BY <1>0, <1>5, <2>1 DEF Unverify, Goto, dbVars, mailVars, obsVars
  <2>2. CASE SetToken(r)
    BY <1>0, <1>5, <2>2 DEF SetToken, Goto, dbVars, mailVars, obsVars
  <2>3. CASE SetIndex(r)
    BY <1>0, <1>5, <2>3 DEF SetIndex, Answer, dbVars, mailVars, obsVars
  <2>4. CASE VisitIndex(r)
    BY <1>0, <1>5, <2>4 DEF VisitIndex, At, Goto, Answer, dbVars, mailVars,
       obsVars
  <2>5. CASE VisitCompare(r)
    BY <1>0, <1>5, <2>5 DEF VisitCompare, Answer, Goto, dbVars, mailVars,
       obsVars
  <2>6. CASE Mark(r)
    BY <1>0, <1>5, <2>6 DEF Mark, Goto, dbVars, mailVars, obsVars
  <2>7. CASE ClearToken(r)
    BY <1>0, <1>5, <2>7 DEF ClearToken, Goto, dbVars, mailVars, obsVars
  <2>8. CASE DropIndex(r)
    BY <1>0, <1>5, <2>8 DEF DropIndex, Answer, dbVars, mailVars, obsVars
  <2> QED
    BY <1>5, <2>1, <2>2, <2>3, <2>4, <2>5, <2>6, <2>7, <2>8 DEF Confirm
<1>6. ASSUME NEW r \in Requests, Crash(r)
      PROVE  OneCreator'
  BY <1>0, <1>6 DEF Crash, InFlight, dbVars, mailVars, obsVars
<1>7. ASSUME NEW x \in Things, Authorize(x)
      PROVE  OneCreator'
  BY <1>0, <1>7 DEF Authorize, dbVars, mailVars, obsVars
<1>8. ASSUME NEW x \in Things, Purge(x)
      PROVE  OneCreator'
  BY <1>0, <1>8 DEF Purge, Live, At, dbVars, mailVars, obsVars
<1>9. ASSUME NEW x \in Things \cup Requests, Expire(x)
      PROVE  OneCreator'
  BY <1>0, <1>9 DEF Expire, Live, dbVars, mailVars, obsVars
<1>10. CASE UNCHANGED vars
  BY <1>0, <1>10 DEF vars, dbVars, mailVars, obsVars
<1> HIDE DEF TypeOK, OneCreator, Creating
<1> QED
  BY <1>1, <1>2, <1>3, <1>4, <1>5, <1>6, <1>7, <1>8, <1>9, <1>10 DEF Next

\* What is a link stays one.
LEMMA LinksStep ==
    ASSUME ThingsAreDistinct, IInv, [Next]_vars
    PROVE  LinksFit'
<1>0. TypeOK /\ StepsFit /\ LinksFit
  BY DEF IInv
<1> USE DEF TypeOK, StepsFit, LinksFit, IsLink, ThingsAreDistinct
<1>1. ASSUME NEW r \in Requests, Arrive(r)
      PROVE  LinksFit'
  <2>1. CASE Callback(r)
    BY <1>0, <1>1, <2>1 DEF Callback, Begin, Goto, dbVars, mailVars, obsVars
  <2>2. CASE Token(r)
    BY <1>0, <1>1, <2>2 DEF Token, Begin, Goto, dbVars, mailVars, obsVars
  <2>3. CASE ApplePost(r)
    BY <1>0, <1>1, <2>3 DEF ApplePost, Begin, Goto, dbVars, mailVars, obsVars
  <2>4. CASE EmailPost(r)
    BY <1>0, <1>1, <2>4 DEF EmailPost, Begin, Goto, dbVars, mailVars, obsVars
  <2>5. CASE EmailGet(r)
    BY <1>0, <1>1, <2>5 DEF EmailGet, Begin, Goto, Links, dbVars, mailVars,
       obsVars
  <2> QED
    BY <1>1, <2>1, <2>2, <2>3, <2>4, <2>5 DEF Arrive
<1>2. ASSUME NEW r \in Requests, UseOnce(r)
      PROVE  LinksFit'
  <2>1. CASE NonceRead(r)
    BY <1>0, <1>2, <2>1 DEF NonceRead, At, Goto, Answer, Live, dbVars,
       mailVars, obsVars
  <2>2. CASE NonceDelete(r)
    BY <1>0, <1>2, <2>2 DEF NonceDelete, At, Spend, Goto, dbVars, mailVars,
       obsVars
  <2>3. CASE AppleContinue(r)
    BY <1>0, <1>2, <2>3 DEF AppleContinue, At, Goto, GotoOrRefuse, Answer,
       dbVars, mailVars, obsVars
  <2>4. CASE HandOver(r)
    BY <1>0, <1>2, <2>4 DEF HandOver, At, Answer, dbVars, mailVars, obsVars
  <2>5. CASE TicketRead(r)
    BY <1>0, <1>2, <2>5 DEF TicketRead, At, Goto, Answer, Live, dbVars,
       mailVars, obsVars
  <2>6. CASE TicketDelete(r)
    BY <1>0, <1>2, <2>6 DEF TicketDelete, At, Spend, Goto, Answer, Live,
       dbVars, mailVars, obsVars
  <2>7. CASE ReplayRead(r)
    BY <1>0, <1>2, <2>7 DEF ReplayRead, At, Goto, Answer, Live, dbVars,
       mailVars, obsVars
  <2>8. CASE ReplayRecord(r)
    BY <1>0, <1>2, <2>8 DEF ReplayRecord, At, Spend, GotoOrRefuse, Goto,
       Answer, dbVars, mailVars, obsVars
  <2>9. CASE StoreSession(r)
    BY <1>0, <1>2, <2>9 DEF StoreSession, Answer, dbVars, mailVars, obsVars
  <2>10. CASE GetSession(r)
    BY <1>0, <1>2, <2>10 DEF GetSession, Live, GotoOrRefuse, Goto, Answer,
       dbVars, mailVars, obsVars
  <2>11. CASE DeleteSession(r)
    BY <1>0, <1>2, <2>11 DEF DeleteSession, At, Spend, Answer, Goto, dbVars,
       mailVars, obsVars
  <2> QED
    BY <1>2, <2>1, <2>2, <2>3, <2>4, <2>5, <2>6, <2>7, <2>8, <2>9, <2>10, <2>11
    DEF UseOnce
<1>3. ASSUME NEW r \in Requests, Exchange(r)
      PROVE  LinksFit'
  <2>1. CASE WebExchange(r)
    BY <1>0, <1>3, <2>1 DEF WebExchange, At, GotoOrRefuse, Goto, Answer,
       dbVars, mailVars, obsVars
  <2>2. CASE SpaExchange(r)
    BY <1>0, <1>3, <2>2 DEF SpaExchange, At, GotoOrRefuse, Goto, Answer,
       dbVars, mailVars, obsVars
  <2>3. CASE CodeExchange(r)
    BY <1>0, <1>3, <2>3 DEF CodeExchange, At, GotoOrRefuse, Goto, Answer,
       dbVars, mailVars, obsVars
  <2>4. CASE TicketExchange(r)
    BY <1>0, <1>3, <2>4 DEF TicketExchange, At, GotoOrRefuse, Goto, Answer,
       dbVars, mailVars, obsVars
  <2> QED
    BY <1>3, <2>1, <2>2, <2>3, <2>4 DEF Exchange
<1>4. ASSUME NEW r \in Requests, Land(r)
      PROVE  LinksFit'
  <2>1. CASE ActorFromState(r)
    BY <1>0, <1>4, <2>1 DEF ActorFromState, At, LandsOn, Goto, dbVars,
       mailVars, obsVars
  <2>2. CASE WebCheck(r)
    BY <1>0, <1>4, <2>2 DEF WebCheck, At, Goto, dbVars, mailVars, obsVars
  <2>3. CASE NativeCheck(r)
    BY <1>0, <1>4, <2>3 DEF NativeCheck, At, LandsOn, Goto, dbVars, mailVars,
       obsVars
  <2>4. CASE Find(r)
    BY <1>0, <1>4, <2>4 DEF Find, LandsOn, Goto, dbVars, mailVars, obsVars
  <2>5. CASE CheckUnique(r)
    BY <1>0, <1>4, <2>5 DEF CheckUnique, Answer, Goto, dbVars, mailVars,
       obsVars
  <2>6. CASE CreateActor(r)
    BY <1>0, <1>4, <2>6 DEF CreateActor, LandsOn, Goto, dbVars, mailVars,
       obsVars
  <2>7. CASE WebFinish(r)
    BY <1>0, <1>4, <2>7 DEF WebFinish, At, Answer, dbVars, mailVars, obsVars
  <2>8. CASE SpaFinish(r)
    BY <1>0, <1>4, <2>8 DEF SpaFinish, At, Answer, dbVars, mailVars, obsVars
  <2>9. CASE NativeFinish(r)
    BY <1>0, <1>4, <2>9 DEF NativeFinish, At, Answer, dbVars, mailVars, obsVars
  <2> QED
    BY <1>4, <2>1, <2>2, <2>3, <2>4, <2>5, <2>6, <2>7, <2>8, <2>9 DEF Land
<1>5. ASSUME NEW r \in Requests, Confirm(r)
      PROVE  LinksFit'
  <2>1. CASE Unverify(r)
    BY <1>0, <1>5, <2>1 DEF Unverify, Goto, dbVars, mailVars, obsVars
  <2>2. CASE SetToken(r)
    BY <1>0, <1>5, <2>2 DEF SetToken, Goto, dbVars, mailVars, obsVars
  <2>3. CASE SetIndex(r)
    BY <1>0, <1>5, <2>3 DEF SetIndex, Answer, dbVars, mailVars, obsVars
  <2>4. CASE VisitIndex(r)
    BY <1>0, <1>5, <2>4 DEF VisitIndex, At, Goto, Answer, dbVars, mailVars,
       obsVars
  <2>5. CASE VisitCompare(r)
    BY <1>0, <1>5, <2>5 DEF VisitCompare, Answer, Goto, dbVars, mailVars,
       obsVars
  <2>6. CASE Mark(r)
    BY <1>0, <1>5, <2>6 DEF Mark, Goto, dbVars, mailVars, obsVars
  <2>7. CASE ClearToken(r)
    BY <1>0, <1>5, <2>7 DEF ClearToken, Goto, dbVars, mailVars, obsVars
  <2>8. CASE DropIndex(r)
    BY <1>0, <1>5, <2>8 DEF DropIndex, Answer, dbVars, mailVars, obsVars
  <2> QED
    BY <1>5, <2>1, <2>2, <2>3, <2>4, <2>5, <2>6, <2>7, <2>8 DEF Confirm
<1>6. ASSUME NEW r \in Requests, Crash(r)
      PROVE  LinksFit'
  BY <1>0, <1>6 DEF Crash, InFlight, dbVars, mailVars, obsVars
<1>7. ASSUME NEW x \in Things, Authorize(x)
      PROVE  LinksFit'
  BY <1>0, <1>7 DEF Authorize, dbVars, mailVars, obsVars
<1>8. ASSUME NEW x \in Things, Purge(x)
      PROVE  LinksFit'
  BY <1>0, <1>8 DEF Purge, Live, At, dbVars, mailVars, obsVars
<1>9. ASSUME NEW x \in Things \cup Requests, Expire(x)
      PROVE  LinksFit'
  BY <1>0, <1>9 DEF Expire, Live, dbVars, mailVars, obsVars
<1>10. CASE UNCHANGED vars
  BY <1>0, <1>10 DEF vars, dbVars, mailVars, obsVars
<1> HIDE DEF TypeOK, StepsFit, LinksFit, IsLink, ThingsAreDistinct
<1> QED
  BY <1>1, <1>2, <1>3, <1>4, <1>5, <1>6, <1>7, <1>8, <1>9, <1>10 DEF Next

\* The token of a link is taken by its own visit or a newer link only.
LEMMA KeptStep ==
    ASSUME ThingsAreDistinct, IInv, [Next]_vars
    PROVE  LinkIsKept'
<1>0. TypeOK /\ StepsFit /\ LinksFit /\ LinkIsKept /\ VisitsAreTrue
  BY DEF IInv
<1> USE DEF TypeOK, StepsFit, LinksFit, IsLink, LinkIsKept, VisitsAreTrue,
        ThingsAreDistinct
<1>1. ASSUME NEW r \in Requests, Arrive(r)
      PROVE  LinkIsKept'
  <2>1. CASE Callback(r)
    BY <1>0, <1>1, <2>1 DEF Callback, Begin, Goto, dbVars, mailVars, obsVars
  <2>2. CASE Token(r)
    BY <1>0, <1>1, <2>2 DEF Token, Begin, Goto, dbVars, mailVars, obsVars
  <2>3. CASE ApplePost(r)
    BY <1>0, <1>1, <2>3 DEF ApplePost, Begin, Goto, dbVars, mailVars, obsVars
  <2>4. CASE EmailPost(r)
    BY <1>0, <1>1, <2>4 DEF EmailPost, Begin, Goto, dbVars, mailVars, obsVars
  <2>5. CASE EmailGet(r)
    BY <1>0, <1>1, <2>5 DEF EmailGet, Begin, Goto, Links, dbVars, mailVars,
       obsVars
  <2> QED
    BY <1>1, <2>1, <2>2, <2>3, <2>4, <2>5 DEF Arrive
<1>2. ASSUME NEW r \in Requests, UseOnce(r)
      PROVE  LinkIsKept'
  <2>1. CASE NonceRead(r)
    BY <1>0, <1>2, <2>1 DEF NonceRead, At, Goto, Answer, Live, dbVars,
       mailVars, obsVars
  <2>2. CASE NonceDelete(r)
    BY <1>0, <1>2, <2>2 DEF NonceDelete, At, Spend, Goto, dbVars, mailVars,
       obsVars
  <2>3. CASE AppleContinue(r)
    BY <1>0, <1>2, <2>3 DEF AppleContinue, At, Goto, GotoOrRefuse, Answer,
       dbVars, mailVars, obsVars
  <2>4. CASE HandOver(r)
    BY <1>0, <1>2, <2>4 DEF HandOver, At, Answer, dbVars, mailVars, obsVars
  <2>5. CASE TicketRead(r)
    BY <1>0, <1>2, <2>5 DEF TicketRead, At, Goto, Answer, Live, dbVars,
       mailVars, obsVars
  <2>6. CASE TicketDelete(r)
    BY <1>0, <1>2, <2>6 DEF TicketDelete, At, Spend, Goto, Answer, Live,
       dbVars, mailVars, obsVars
  <2>7. CASE ReplayRead(r)
    BY <1>0, <1>2, <2>7 DEF ReplayRead, At, Goto, Answer, Live, dbVars,
       mailVars, obsVars
  <2>8. CASE ReplayRecord(r)
    BY <1>0, <1>2, <2>8 DEF ReplayRecord, At, Spend, GotoOrRefuse, Goto,
       Answer, dbVars, mailVars, obsVars
  <2>9. CASE StoreSession(r)
    BY <1>0, <1>2, <2>9 DEF StoreSession, Answer, dbVars, mailVars, obsVars
  <2>10. CASE GetSession(r)
    BY <1>0, <1>2, <2>10 DEF GetSession, Live, GotoOrRefuse, Goto, Answer,
       dbVars, mailVars, obsVars
  <2>11. CASE DeleteSession(r)
    BY <1>0, <1>2, <2>11 DEF DeleteSession, At, Spend, Answer, Goto, dbVars,
       mailVars, obsVars
  <2> QED
    BY <1>2, <2>1, <2>2, <2>3, <2>4, <2>5, <2>6, <2>7, <2>8, <2>9, <2>10, <2>11
    DEF UseOnce
<1>3. ASSUME NEW r \in Requests, Exchange(r)
      PROVE  LinkIsKept'
  <2>1. CASE WebExchange(r)
    BY <1>0, <1>3, <2>1 DEF WebExchange, At, GotoOrRefuse, Goto, Answer,
       dbVars, mailVars, obsVars
  <2>2. CASE SpaExchange(r)
    BY <1>0, <1>3, <2>2 DEF SpaExchange, At, GotoOrRefuse, Goto, Answer,
       dbVars, mailVars, obsVars
  <2>3. CASE CodeExchange(r)
    BY <1>0, <1>3, <2>3 DEF CodeExchange, At, GotoOrRefuse, Goto, Answer,
       dbVars, mailVars, obsVars
  <2>4. CASE TicketExchange(r)
    BY <1>0, <1>3, <2>4 DEF TicketExchange, At, GotoOrRefuse, Goto, Answer,
       dbVars, mailVars, obsVars
  <2> QED
    BY <1>3, <2>1, <2>2, <2>3, <2>4 DEF Exchange
<1>4. ASSUME NEW r \in Requests, Land(r)
      PROVE  LinkIsKept'
  <2>1. CASE ActorFromState(r)
    BY <1>0, <1>4, <2>1 DEF ActorFromState, At, LandsOn, Goto, dbVars,
       mailVars, obsVars
  <2>2. CASE WebCheck(r)
    BY <1>0, <1>4, <2>2 DEF WebCheck, At, Goto, dbVars, mailVars, obsVars
  <2>3. CASE NativeCheck(r)
    BY <1>0, <1>4, <2>3 DEF NativeCheck, At, LandsOn, Goto, dbVars, mailVars,
       obsVars
  <2>4. CASE Find(r)
    BY <1>0, <1>4, <2>4 DEF Find, LandsOn, Goto, dbVars, mailVars, obsVars
  <2>5. CASE CheckUnique(r)
    BY <1>0, <1>4, <2>5 DEF CheckUnique, Answer, Goto, dbVars, mailVars,
       obsVars
  <2>6. CASE CreateActor(r)
    BY <1>0, <1>4, <2>6 DEF CreateActor, LandsOn, Goto, dbVars, mailVars,
       obsVars
  <2>7. CASE WebFinish(r)
    BY <1>0, <1>4, <2>7 DEF WebFinish, At, Answer, dbVars, mailVars, obsVars
  <2>8. CASE SpaFinish(r)
    BY <1>0, <1>4, <2>8 DEF SpaFinish, At, Answer, dbVars, mailVars, obsVars
  <2>9. CASE NativeFinish(r)
    BY <1>0, <1>4, <2>9 DEF NativeFinish, At, Answer, dbVars, mailVars, obsVars
  <2> QED
    BY <1>4, <2>1, <2>2, <2>3, <2>4, <2>5, <2>6, <2>7, <2>8, <2>9 DEF Land
<1>5. ASSUME NEW r \in Requests, Confirm(r)
      PROVE  LinkIsKept'
  <2>1. CASE Unverify(r)
    BY <1>0, <1>5, <2>1 DEF Unverify, Goto, dbVars, mailVars, obsVars
  <2>2. CASE SetToken(r)
    BY <1>0, <1>5, <2>2 DEF SetToken, Goto, dbVars, mailVars, obsVars
  <2>3. CASE SetIndex(r)
    BY <1>0, <1>5, <2>3 DEF SetIndex, Answer, dbVars, mailVars, obsVars
  <2>4. CASE VisitIndex(r)
    BY <1>0, <1>5, <2>4 DEF VisitIndex, At, Goto, Answer, dbVars, mailVars,
       obsVars
  <2>5. CASE VisitCompare(r)
    BY <1>0, <1>5, <2>5 DEF VisitCompare, Answer, Goto, dbVars, mailVars,
       obsVars
  <2>6. CASE Mark(r)
    BY <1>0, <1>5, <2>6 DEF Mark, Goto, dbVars, mailVars, obsVars
  <2>7. CASE ClearToken(r)
    BY <1>0, <1>5, <2>7 DEF ClearToken, Goto, dbVars, mailVars, obsVars
  <2>8. CASE DropIndex(r)
    BY <1>0, <1>5, <2>8 DEF DropIndex, Answer, dbVars, mailVars, obsVars
  <2> QED
    BY <1>5, <2>1, <2>2, <2>3, <2>4, <2>5, <2>6, <2>7, <2>8 DEF Confirm
<1>6. ASSUME NEW r \in Requests, Crash(r)
      PROVE  LinkIsKept'
  BY <1>0, <1>6 DEF Crash, InFlight, dbVars, mailVars, obsVars
<1>7. ASSUME NEW x \in Things, Authorize(x)
      PROVE  LinkIsKept'
  BY <1>0, <1>7 DEF Authorize, dbVars, mailVars, obsVars
<1>8. ASSUME NEW x \in Things, Purge(x)
      PROVE  LinkIsKept'
  BY <1>0, <1>8 DEF Purge, Live, At, dbVars, mailVars, obsVars
<1>9. ASSUME NEW x \in Things \cup Requests, Expire(x)
      PROVE  LinkIsKept'
  BY <1>0, <1>9 DEF Expire, Live, dbVars, mailVars, obsVars
<1>10. CASE UNCHANGED vars
  BY <1>0, <1>10 DEF vars, dbVars, mailVars, obsVars
<1> HIDE DEF TypeOK, StepsFit, LinksFit, IsLink, LinkIsKept, VisitsAreTrue,
        ThingsAreDistinct
<1> QED
  BY <1>1, <1>2, <1>3, <1>4, <1>5, <1>6, <1>7, <1>8, <1>9, <1>10 DEF Next

\* A visit is refused only by what its link has been through.
LEMMA VisitsStep ==
    ASSUME ThingsAreDistinct, IInv, [Next]_vars
    PROVE  VisitsAreTrue'
<1>0. TypeOK /\ StepsFit /\ LinksFit /\ LinkIsKept /\ VisitsAreTrue
  BY DEF IInv
<1> USE DEF TypeOK, StepsFit, LinksFit, IsLink, LinkIsKept, VisitsAreTrue,
        ThingsAreDistinct
<1>1. ASSUME NEW r \in Requests, Arrive(r)
      PROVE  VisitsAreTrue'
  <2>1. CASE Callback(r)
    BY <1>0, <1>1, <2>1 DEF Callback, Begin, Goto, dbVars, mailVars, obsVars
  <2>2. CASE Token(r)
    BY <1>0, <1>1, <2>2 DEF Token, Begin, Goto, dbVars, mailVars, obsVars
  <2>3. CASE ApplePost(r)
    BY <1>0, <1>1, <2>3 DEF ApplePost, Begin, Goto, dbVars, mailVars, obsVars
  <2>4. CASE EmailPost(r)
    BY <1>0, <1>1, <2>4 DEF EmailPost, Begin, Goto, dbVars, mailVars, obsVars
  <2>5. CASE EmailGet(r)
    BY <1>0, <1>1, <2>5 DEF EmailGet, Begin, Goto, Links, dbVars, mailVars,
       obsVars
  <2> QED
    BY <1>1, <2>1, <2>2, <2>3, <2>4, <2>5 DEF Arrive
<1>2. ASSUME NEW r \in Requests, UseOnce(r)
      PROVE  VisitsAreTrue'
  <2>1. CASE NonceRead(r)
    BY <1>0, <1>2, <2>1 DEF NonceRead, At, Goto, Answer, Live, dbVars,
       mailVars, obsVars
  <2>2. CASE NonceDelete(r)
    BY <1>0, <1>2, <2>2 DEF NonceDelete, At, Spend, Goto, dbVars, mailVars,
       obsVars
  <2>3. CASE AppleContinue(r)
    BY <1>0, <1>2, <2>3 DEF AppleContinue, At, Goto, GotoOrRefuse, Answer,
       dbVars, mailVars, obsVars
  <2>4. CASE HandOver(r)
    BY <1>0, <1>2, <2>4 DEF HandOver, At, Answer, dbVars, mailVars, obsVars
  <2>5. CASE TicketRead(r)
    BY <1>0, <1>2, <2>5 DEF TicketRead, At, Goto, Answer, Live, dbVars,
       mailVars, obsVars
  <2>6. CASE TicketDelete(r)
    BY <1>0, <1>2, <2>6 DEF TicketDelete, At, Spend, Goto, Answer, Live,
       dbVars, mailVars, obsVars
  <2>7. CASE ReplayRead(r)
    BY <1>0, <1>2, <2>7 DEF ReplayRead, At, Goto, Answer, Live, dbVars,
       mailVars, obsVars
  <2>8. CASE ReplayRecord(r)
    BY <1>0, <1>2, <2>8 DEF ReplayRecord, At, Spend, GotoOrRefuse, Goto,
       Answer, dbVars, mailVars, obsVars
  <2>9. CASE StoreSession(r)
    BY <1>0, <1>2, <2>9 DEF StoreSession, Answer, dbVars, mailVars, obsVars
  <2>10. CASE GetSession(r)
    BY <1>0, <1>2, <2>10 DEF GetSession, Live, GotoOrRefuse, Goto, Answer,
       dbVars, mailVars, obsVars
  <2>11. CASE DeleteSession(r)
    BY <1>0, <1>2, <2>11 DEF DeleteSession, At, Spend, Answer, Goto, dbVars,
       mailVars, obsVars
  <2> QED
    BY <1>2, <2>1, <2>2, <2>3, <2>4, <2>5, <2>6, <2>7, <2>8, <2>9, <2>10, <2>11
    DEF UseOnce
<1>3. ASSUME NEW r \in Requests, Exchange(r)
      PROVE  VisitsAreTrue'
  <2>1. CASE WebExchange(r)
    BY <1>0, <1>3, <2>1 DEF WebExchange, At, GotoOrRefuse, Goto, Answer,
       dbVars, mailVars, obsVars
  <2>2. CASE SpaExchange(r)
    BY <1>0, <1>3, <2>2 DEF SpaExchange, At, GotoOrRefuse, Goto, Answer,
       dbVars, mailVars, obsVars
  <2>3. CASE CodeExchange(r)
    BY <1>0, <1>3, <2>3 DEF CodeExchange, At, GotoOrRefuse, Goto, Answer,
       dbVars, mailVars, obsVars
  <2>4. CASE TicketExchange(r)
    BY <1>0, <1>3, <2>4 DEF TicketExchange, At, GotoOrRefuse, Goto, Answer,
       dbVars, mailVars, obsVars
  <2> QED
    BY <1>3, <2>1, <2>2, <2>3, <2>4 DEF Exchange
<1>4. ASSUME NEW r \in Requests, Land(r)
      PROVE  VisitsAreTrue'
  <2>1. CASE ActorFromState(r)
    BY <1>0, <1>4, <2>1 DEF ActorFromState, At, LandsOn, Goto, dbVars,
       mailVars, obsVars
  <2>2. CASE WebCheck(r)
    BY <1>0, <1>4, <2>2 DEF WebCheck, At, Goto, dbVars, mailVars, obsVars
  <2>3. CASE NativeCheck(r)
    BY <1>0, <1>4, <2>3 DEF NativeCheck, At, LandsOn, Goto, dbVars, mailVars,
       obsVars
  <2>4. CASE Find(r)
    BY <1>0, <1>4, <2>4 DEF Find, LandsOn, Goto, dbVars, mailVars, obsVars
  <2>5. CASE CheckUnique(r)
    BY <1>0, <1>4, <2>5 DEF CheckUnique, Answer, Goto, dbVars, mailVars,
       obsVars
  <2>6. CASE CreateActor(r)
    BY <1>0, <1>4, <2>6 DEF CreateActor, LandsOn, Goto, dbVars, mailVars,
       obsVars
  <2>7. CASE WebFinish(r)
    BY <1>0, <1>4, <2>7 DEF WebFinish, At, Answer, dbVars, mailVars, obsVars
  <2>8. CASE SpaFinish(r)
    BY <1>0, <1>4, <2>8 DEF SpaFinish, At, Answer, dbVars, mailVars, obsVars
  <2>9. CASE NativeFinish(r)
    BY <1>0, <1>4, <2>9 DEF NativeFinish, At, Answer, dbVars, mailVars, obsVars
  <2> QED
    BY <1>4, <2>1, <2>2, <2>3, <2>4, <2>5, <2>6, <2>7, <2>8, <2>9 DEF Land
<1>5. ASSUME NEW r \in Requests, Confirm(r)
      PROVE  VisitsAreTrue'
  <2>1. CASE Unverify(r)
    BY <1>0, <1>5, <2>1 DEF Unverify, Goto, dbVars, mailVars, obsVars
  <2>2. CASE SetToken(r)
    <3>1. /\ flow[r] = "email" /\ actor[r] \in Ids
          /\ UNCHANGED <<index, confirmed, flow, thing, actor, result>>
          /\ \A q \in Requests : flow[q] = "visit" => pc'[q] = pc[q]
          /\ token' = [token EXCEPT ![actor[r]] = r]
          /\ spoiled \subseteq spoiled'
          /\ Confirming(actor[r]) # {} => r \in spoiled'
      BY <1>0, <2>2 DEF SetToken, Goto, dbVars, mailVars
    <3>2. ASSUME NEW v \in Requests, flow[v] = "visit",
                 pc[v] \in {"mark", "clear"}
          PROVE  token'[actor[v]] \in
                    {NoLink, thing[v]} \cup spoiled' \cup confirmed'
      <4>1. CASE actor[v] = actor[r]
        <5>1. v \in Confirming(actor[r])
          BY <3>2, <4>1 DEF Confirming
        <5> QED
          BY <1>0, <3>1, <4>1, <5>1
      <4>2. CASE actor[v] # actor[r]
        BY <1>0, <3>1, <3>2, <4>2
      <4> QED
        BY <4>1, <4>2
    <3> QED
      BY <1>0, <3>1, <3>2
  <2>3. CASE SetIndex(r)
    BY <1>0, <1>5, <2>3 DEF SetIndex, Answer, dbVars, mailVars, obsVars
  <2>4. CASE VisitIndex(r)
    BY <1>0, <1>5, <2>4 DEF VisitIndex, At, Goto, Answer, dbVars, mailVars,
       obsVars
  <2>5. CASE VisitCompare(r)
    BY <1>0, <1>5, <2>5 DEF VisitCompare, Answer, Goto, dbVars, mailVars,
       obsVars
  <2>6. CASE Mark(r)
    BY <1>0, <1>5, <2>6 DEF Mark, Goto, dbVars, mailVars, obsVars
  <2>7. CASE ClearToken(r)
    BY <1>0, <1>5, <2>7 DEF ClearToken, Goto, dbVars, mailVars, obsVars
  <2>8. CASE DropIndex(r)
    BY <1>0, <1>5, <2>8 DEF DropIndex, Answer, dbVars, mailVars, obsVars
  <2> QED
    BY <1>5, <2>1, <2>2, <2>3, <2>4, <2>5, <2>6, <2>7, <2>8 DEF Confirm
<1>6. ASSUME NEW r \in Requests, Crash(r)
      PROVE  VisitsAreTrue'
  BY <1>0, <1>6 DEF Crash, InFlight, dbVars, mailVars, obsVars
<1>7. ASSUME NEW x \in Things, Authorize(x)
      PROVE  VisitsAreTrue'
  BY <1>0, <1>7 DEF Authorize, dbVars, mailVars, obsVars
<1>8. ASSUME NEW x \in Things, Purge(x)
      PROVE  VisitsAreTrue'
  BY <1>0, <1>8 DEF Purge, Live, At, dbVars, mailVars, obsVars
<1>9. ASSUME NEW x \in Things \cup Requests, Expire(x)
      PROVE  VisitsAreTrue'
  BY <1>0, <1>9 DEF Expire, Live, dbVars, mailVars, obsVars
<1>10. CASE UNCHANGED vars
  BY <1>0, <1>10 DEF vars, dbVars, mailVars, obsVars
<1> HIDE DEF TypeOK, StepsFit, LinksFit, IsLink, LinkIsKept, VisitsAreTrue,
        ThingsAreDistinct
<1> QED
  BY <1>1, <1>2, <1>3, <1>4, <1>5, <1>6, <1>7, <1>8, <1>9, <1>10 DEF Next

-----------------------------------------------------------------------------
(* The theorems about Login.                                               *)

LEMMA LoginInit == ThingsAreDistinct /\ Init => IInv
<1> SUFFICES ASSUME ThingsAreDistinct, Init
             PROVE  IInv
  OBVIOUS
<1>1. TypeOK
  <2>1. row \in [Things -> {"none", "live", "deleted"}]
    BY DEF Init
  <2>2. faults \in 0..MaxFaults
    BY DEF Init, ThingsAreDistinct
  <2> QED
    BY <2>1, <2>2 DEF Init, TypeOK, Flows, Steps
<1>2. StepsFit /\ SpentIsGone /\ LateIsRefused /\ RedeemedOnce
  BY DEF Init, StepsFit, SpentIsGone, LateIsRefused, RedeemedOnce, Redeemed
<1>3. OneCreator /\ LinksFit /\ LinkIsKept /\ VisitsAreTrue
  BY DEF Init, OneCreator, Creating, LinksFit, LinkIsKept, VisitsAreTrue
<1> QED
  BY <1>1, <1>2, <1>3 DEF IInv

\* Every step keeps the invariant.
THEOREM LoginInvariance == Spec => []IInv
<1>1. Init => IInv
  BY LoginInit, ThingsAssumption
<1>2. IInv /\ [Next]_vars => IInv'
  BY ThingsAssumption, LoginTypes, StepsStep, SpentStep, LateStep,
     RedeemedStep, CreatorStep, LinksStep, KeptStep, VisitsStep
  DEF IInv
<1> QED
  BY <1>1, <1>2, PTL DEF Spec

\* What was used up opens no door for a request that comes later, and a ticket
\* logs in one request, however their accesses overlap and whoever crashes.
THEOREM ThingsAreUsedOnce == Spec => []SingleUse
<1>1. IInv => SingleUse
  <2> SUFFICES ASSUME IInv
               PROVE  SingleUse
    OBVIOUS
  <2>1. \A r \in late : result[r] \notin {"in", "handed", "parked"}
    BY DEF IInv, TypeOK, StepsFit, LateIsRefused
  <2>2. \A r, q \in Requests :
           At(r, {"ticket"}, "done") /\ At(q, {"ticket"}, "done")
               /\ thing[r] = thing[q] /\ result[r] = "in" /\ result[q] = "in"
           => r = q
    BY DEF IInv, RedeemedOnce, Redeemed, At
  <2> QED
    BY <2>1, <2>2 DEF SingleUse
<1> QED
  BY <1>1, LoginInvariance, PTL

\* A person has one actor as long as no two creations overlapped.
THEOREM OneActorEach == Spec => []OneActorPerPerson
<1>1. IInv => OneActorPerPerson
  BY DEF IInv, OneCreator, OneActorPerPerson
<1> QED
  BY <1>1, LoginInvariance, PTL

\* A link that was mailed is refused only if it has done its work or is spoiled.
THEOREM LinksWork == Spec => []LinkStillWorks
<1>1. IInv => LinkStillWorks
  BY DEF IInv, StepsFit, VisitsAreTrue, LinkStillWorks
<1> QED
  BY <1>1, LoginInvariance, PTL

-----------------------------------------------------------------------------
(* Permissions: rules, overrides, and the copy of the peer.                *)

\* A target that matches a "denied" pattern is denied, whatever else the
\* rules of the category allow (_evaluate_rules).
THEOREM DenyWins ==
    ASSUME NEW rules, NEW target, NEW operation,
           MatchesAny(target, Entry(rules, "denied"))
    PROVE  EvaluateRules(rules, target, operation) = "denied"
BY DEF EvaluateRules

\* Nothing is allowed that no pattern of the rules matches: the evaluator
\* never says "allowed" by default (_evaluate_rules).
THEOREM AllowedIsGranted ==
    ASSUME NEW rules, NEW target, NEW operation,
           EvaluateRules(rules, target, operation) = "allowed"
    PROVE  MatchesAny(target, AllowedItems(rules, operation))
<1>1. CASE MatchesAny(target, Entry(rules, "allowed"))
  BY <1>1 DEF MatchesAny, AllowedItems
<1>2. CASE ~MatchesAny(target, Entry(rules, "allowed"))
  <2>1. /\ HasPatterns(rules)
        /\ EvaluatePatterns(rules, target, operation) = "allowed"
    BY <1>2 DEF EvaluateRules
  <2>2. /\ operation \in rules["operations"]
        /\ MatchesAny(target, rules["patterns"])
    BY <2>1 DEF EvaluatePatterns
  <2> QED
    BY <2>1, <2>2 DEF MatchesAny, AllowedItems
<1> QED
  BY <1>1, <1>2

\* An override of a trust only adds patterns and exclusions to those of the
\* trust type (merge_permissions).
THEOREM MergeKeepsBase ==
    ASSUME NEW base, NEW overrides, NEW key \in UnionMergeFields
    PROVE  Entry(base, key) \subseteq Entry(MergeRules(base, overrides), key)
BY DEF Entry, MergeRules

\* Rules merged with rules are rules: patterns and operations do not mix
\* (merge_permissions).
THEOREM MergeMakesRules ==
    ASSUME NEW base, NEW overrides, IsRules(base), IsRules(overrides)
    PROVE  IsRules(MergeRules(base, overrides))
<1> DEFINE merged == MergeRules(base, overrides)
<1>1. DOMAIN merged = DOMAIN base \cup DOMAIN overrides
  BY DEF MergeRules
<1>2. ASSUME NEW k \in DOMAIN merged \cap PatternKeys
      PROVE  merged[k] \subseteq Patterns
  BY <1>1 DEF MergeRules, IsRules, Entry, PatternKeys, RuleKeys,
     UnionMergeFields
<1>3. "operations" \in DOMAIN merged => merged["operations"] \subseteq
   Operations
  BY <1>1 DEF MergeRules, IsRules, UnionMergeFields
<1> QED
  BY <1>1, <1>2, <1>3 DEF IsRules

\* Applying an override once more, to rules that it has been merged into,
\* changes nothing (merge_permissions).
THEOREM MergeIsIdempotent ==
    ASSUME NEW base, NEW overrides
    PROVE  MergeRules(MergeRules(base, overrides), overrides)
             = MergeRules(base, overrides)
<1> DEFINE once == MergeRules(base, overrides)
           twice == MergeRules(once, overrides)
           keys == DOMAIN base \cup DOMAIN overrides
<1>1. DOMAIN once = keys
  BY DEF MergeRules
<1>2. once = [k \in keys |-> once[k]]
  BY DEF MergeRules
<1>3. twice = [k \in keys |-> twice[k]]
  BY <1>1 DEF MergeRules
<1>4. ASSUME NEW k \in keys
      PROVE  twice[k] = once[k]
  <2>1. CASE k \notin DOMAIN overrides
    BY <1>1, <2>1 DEF MergeRules
  <2>2. CASE k \in DOMAIN overrides /\ k \notin UnionMergeFields
    BY <1>1, <2>2 DEF MergeRules
  <2>3. CASE k \in DOMAIN overrides /\ k \in UnionMergeFields
    <3>1. once[k] = Entry(base, k) \cup overrides[k]
      BY <2>3 DEF MergeRules
    <3>2. Entry(once, k) = once[k]
      BY <1>1 DEF Entry
    <3>3. twice[k] = Entry(once, k) \cup overrides[k]
      BY <1>1, <2>3 DEF MergeRules
    <3> HIDE DEF once, twice
    <3> QED
      BY <3>1, <3>2, <3>3
  <2> QED
    BY <2>1, <2>2, <2>3
<1> HIDE DEF once, twice
<1>5. once = twice
  BY <1>2, <1>3, <1>4
<1> QED
  BY <1>5 DEF once, twice

\* No override lifts an exclusion of the trust type, as long as neither the
\* type nor the override has an "allowed" list, which is looked at first
\* (merge_permissions, _evaluate_rules).
THEOREM ExclusionsSurvive ==
    ASSUME NEW base, NEW overrides, NEW target, NEW operation,
           MatchesAny(target, Entry(base, "excluded_patterns")),
           "allowed" \notin DOMAIN base, "allowed" \notin DOMAIN overrides
    PROVE  EvaluateRules(MergeRules(base, overrides), target, operation)
             # "allowed"
<1> DEFINE merged == MergeRules(base, overrides)
<1>1. MatchesAny(target, Entry(merged, "excluded_patterns"))
  <2>1. Entry(base, "excluded_patterns")
          \subseteq Entry(merged, "excluded_patterns")
    BY MergeKeepsBase DEF UnionMergeFields
  <2> HIDE DEF merged
  <2> QED
    BY <2>1 DEF MatchesAny
<1>2. ~MatchesAny(target, Entry(merged, "allowed"))
  <2>1. "allowed" \notin DOMAIN merged
    BY DEF MergeRules
  <2> HIDE DEF merged
  <2> QED
    BY <2>1 DEF Entry, MatchesAny
<1>3. EvaluatePatterns(merged, target, operation) # "allowed"
  <2> HIDE DEF merged
  <2> QED
    BY <1>1 DEF EvaluatePatterns
<1> HIDE DEF merged
<1>4. EvaluateRules(merged, target, operation) # "allowed"
  BY <1>2, <1>3 DEF EvaluateRules
<1> QED
  BY <1>4 DEF merged

\* The same of the whole evaluation: whatever override is stored for a trust,
\* a target that the trust type it names excludes is not allowed to the peer,
\* unless one of the two has an "allowed" list for the category
\* (_get_effective_permissions, evaluate_permission).
THEOREM OverrideLiftsNoExclusion ==
    ASSUME NEW base, NEW relationship, NEW override, NEW category,
           NEW target, NEW operation,
           override # NoPermissions,
           override.trust_type \in DOMAIN base,
           category \in DOMAIN base[override.trust_type],
           MatchesAny(target, Entry(base[override.trust_type][category],
                                    "excluded_patterns")),
           "allowed" \notin DOMAIN base[override.trust_type][category],
           category \in DOMAIN override.rules
             => "allowed" \notin DOMAIN override.rules[category]
    PROVE  EvaluatePermission(EffectivePermissions(base, relationship, override),
                              category, target, operation) # "allowed"
<1> DEFINE type == base[override.trust_type]
           permissions == EffectivePermissions(base, relationship, override)
<1>1. permissions = MergePermissions(type, override.rules)
  BY DEF EffectivePermissions
<1>2. /\ category \in DOMAIN permissions
      /\ permissions[category] =
            IF category \in DOMAIN override.rules
            THEN MergeRules(type[category], override.rules[category])
            ELSE type[category]
  <2> HIDE DEF permissions, type
  <2>1. category \in DOMAIN type
    BY DEF type
  <2> QED
    BY <1>1, <2>1 DEF MergePermissions
<1>3. EvaluateRules(permissions[category], target, operation) # "allowed"
  <2>1. CASE category \in DOMAIN override.rules
    <3>1. permissions[category]
            = MergeRules(type[category], override.rules[category])
      BY <1>2, <2>1
    <3>2. EvaluateRules(MergeRules(type[category], override.rules[category]),
                        target, operation) # "allowed"
      BY <2>1, ExclusionsSurvive
    <3> QED
      BY <3>1, <3>2
  <2>2. CASE category \notin DOMAIN override.rules
    <3>1. permissions[category] = type[category]
      BY <1>2, <2>2
    <3>2. EvaluateRules(type[category], target, operation) # "allowed"
      BY DEF EvaluateRules, EvaluatePatterns, Entry, MatchesAny
    <3> QED
      BY <3>1, <3>2
  <2> QED
    BY <2>1, <2>2
<1> HIDE DEF permissions
<1>4. EvaluatePermission(permissions, category, target, operation) # "allowed"
  BY <1>2, <1>3 DEF EvaluatePermission
<1> QED
  BY <1>4 DEF permissions

\* What a peer believes it may do with a property it may do: for rules
\* without a "denied" list, and a property that both globs treat alike, its
\* reading of the rules it was sent never says yes where the evaluator does
\* not (has_property_access, _evaluate_rules).
THEOREM PeerIsNotMisled ==
    ASSUME NEW rules, NEW target, NEW operation,
           \A p : Matches(target, p) <=> PeerMatches(target, p),
           "denied" \notin DOMAIN rules,
           HasPropertyAccess(rules, target, operation) = "yes"
    PROVE  EvaluateRules(rules, target, operation) = "allowed"
<1>1. /\ ~PeerMatchesAny(target, Entry(rules, "excluded_patterns"))
      /\ operation \in Entry(rules, "operations")
      /\ PeerMatchesAny(target, Entry(rules, "patterns"))
  BY DEF HasPropertyAccess
<1>2. /\ ~MatchesAny(target, Entry(rules, "excluded_patterns"))
      /\ MatchesAny(target, Entry(rules, "patterns"))
  BY <1>1 DEF MatchesAny, PeerMatchesAny
<1>3. HasPatterns(rules)
  BY <1>1 DEF Entry, PeerMatchesAny, HasPatterns
<1>4. EvaluatePatterns(rules, target, operation) = "allowed"
  BY <1>1, <1>2, <1>3 DEF EvaluatePatterns, Entry, HasPatterns
<1>5. ~MatchesAny(target, Entry(rules, "denied"))
  BY DEF Entry, MatchesAny
<1> QED
  BY <1>3, <1>4, <1>5 DEF EvaluateRules

\* And what the evaluator allows by a pattern, the peer knows: it does not
\* give up on a property that it could have (has_property_access).
THEOREM PeerIsNotShortChanged ==
    ASSUME NEW rules, NEW target, NEW operation,
           \A p : Matches(target, p) <=> PeerMatches(target, p),
           "allowed" \notin DOMAIN rules,
           EvaluateRules(rules, target, operation) = "allowed"
    PROVE  HasPropertyAccess(rules, target, operation) = "yes"
<1>1. ~MatchesAny(target, Entry(rules, "allowed"))
  BY DEF Entry, MatchesAny
<1>2. /\ HasPatterns(rules)
      /\ EvaluatePatterns(rules, target, operation) = "allowed"
  BY <1>1 DEF EvaluateRules
<1>3. /\ operation \in rules["operations"]
      /\ MatchesAny(target, rules["patterns"])
      /\ ~MatchesAny(target, Entry(rules, "excluded_patterns"))
  BY <1>2 DEF EvaluatePatterns
<1>4. /\ PeerMatchesAny(target, rules["patterns"])
      /\ ~PeerMatchesAny(target, Entry(rules, "excluded_patterns"))
  BY <1>3 DEF MatchesAny, PeerMatchesAny
<1> QED
  BY <1>2, <1>3, <1>4 DEF HasPropertyAccess, Entry, HasPatterns

\* A property that is lost because patterns were taken away, and for no other
\* reason, matches one of the patterns the peer finds revoked, so its copy is
\* cleaned up (detect_revoked_property_patterns).
THEOREM RevocationIsNoticed ==
    ASSUME NEW before, NEW after, NEW target, NEW operation,
           HasPropertyAccess(before, target, operation) = "yes",
           HasPropertyAccess(after, target, operation) # "yes",
           Entry(after, "operations") = Entry(before, "operations"),
           Entry(after, "excluded_patterns") = Entry(before, "excluded_patterns")
    PROVE  PeerMatchesAny(target, RevokedPatterns(before, after))
<1>1. /\ PeerMatchesAny(target, Entry(before, "patterns"))
      /\ ~PeerMatchesAny(target, Entry(after, "patterns"))
  BY DEF HasPropertyAccess
<1> QED
  BY <1>1 DEF PeerMatchesAny, RevokedPatterns

-----------------------------------------------------------------------------
(* ListProperty.  An item belongs to the operation that wrote it, and      *)
(* leaves the list by one conditional write, or by one that is not         *)
(* reported.  The count hint is a ledger: what a change owes to it is owed *)
(* by an operation under way until it is recorded, or the touch failed.    *)

\* A writer is in an operation.
Active(w) == op[w].step # "idle"
\* The steps before an operation has written its own item.
Unwritten == {"last", "create", "ranks", "dispatch", "get", "write"}
\* Operations that take out, or replace, no other item than they have seen.
Matching == {"pop", "remove"} \cup ByHandle

\* An operation has an item of its own, and what its next step needs.
OpOK(w) ==
    /\ Active(w) => op[w].item \in MaxInitial + 1..MaxInitial + ops
    /\ op[w].step \in {"create", "dispatch", "get", "write"}
        => op[w].at \in Ranks
    /\ op[w].step = "dispatch" => op[w].seen # NoItem
    /\ op[w].step = "write" /\ op[w].kind \in Matching => op[w].seen # NoItem
    /\ Emptied(w) => op[w].kind \in Emptying

\* No two operations write the same item.
ItemsOfTheirOwn ==
    \A u, w \in Writers :
        Active(u) /\ Active(w) /\ op[u].item = op[w].item => u = w

\* What an operation has not written is not in the list yet, nor has it
\* reported anything.
ItemOK(w) ==
    op[w].step \in Unwritten =>
        op[w].item \notin committed /\ reported[op[w].item] = NoItem

\* Items of operations to come are not in the list yet.
NewItems ==
    /\ committed \subseteq 1..MaxInitial + ops
    /\ \A i \in Items : i > MaxInitial + ops => reported[i] = NoItem

\* The strengthening of ItemsAreConserved.
Conserved ==
    /\ NewItems /\ ItemsOfTheirOwn /\ \A w \in Writers : ItemOK(w)
    /\ ItemsAreConserved

\* The types, and the operations.
ListBase == ListTypeOK /\ \A w \in Writers : OpOK(w)

\* Nobody is emptying the list.
Calm == \A v \in Writers : ~Emptied(v)
\* The operations that changed an item and have not recorded it: by
\* kind.
PendingOf(kinds) == {w \in Writers : Pending(w) /\ op[w].kind \in kinds}
\* A change that is owed adds one to the hint,
Added == Cardinality(PendingOf(Adding))
\* subtracts one,
Deleted == Cardinality(PendingOf({"delete_by_handle"}))
\* or is covered by a count.
Counted == Cardinality(PendingOf(Counting))
\* The ledger: hint and items differ by what the adding and the subtracting
\* operations owe, give or take one for each operation that counts and for
\* each touch that failed.
Even(h, t, a, d, c, f) == h - t - a + d \in -(f + c)..(f + c)
\* Until the list is emptied the ledger is even.
Balance == Even(Cardinality(Held), meta.hint, Added, Deleted, Counted, failed)

\* Until somebody races it, an operation that is going to count knows all
\* ranks, the row it loaded is the row, and the rows it empties are all.
CacheOK(w) ==
    /\ HoldsCount(w) => cache[w].ranks = Held
    /\ op[w].step \in {"get", "write"} /\ op[w].kind \in Counting
        => op[w].at \in Held
    /\ op[w].step = "put" => op[w].stash = meta
    /\ op[w].step = "wipe" => Held \subseteq cache[w].ranks
    /\ op[w].step = "drop" => Held = {}

\* The strengthening of DriftIsBounded,
Settled == (Calm => Balance) /\ \A w \in Writers : CacheOK(w)

\* and of ItemsAreVisible.
Visible == Held # {} => meta # NoMeta \/ ListInFlight # {} \/ failed > 0

\* The inductive invariant.  Items are conserved whatever races; the hint is
\* in bounds, and items are seen, as long as no window of Racing was open.
ListInv ==
    /\ ListBase
    /\ Conserved
    /\ Racing => raced
    /\ ~raced => Settled /\ Visible

\* A step of a writer.
Does(w) == (\E kind \in Kinds : ListBegin(w, kind)) \/ Step(w) \/ ListCrash(w)

\* The local state of an operation, and of a cache.
OpRecs ==
    [step : ListSteps, kind : Kinds \cup {"none"}, item : Items \cup {NoItem},
     at : Ranks \cup {NoRank}, seen : Items \cup {NoItem}, stash : Metas,
     tries : 0..(MaxRankRetries + MaxTouches)]
CacheRecs == [warm : BOOLEAN, ranks : SUBSET Ranks]

\* The constants are numbers.
LEMMA Bounds ==
    /\ MaxRank \in Nat /\ MaxInitial \in Nat /\ MaxOps \in Nat
    /\ MaxRankRetries \in Nat \ {0} /\ MaxTouches \in Nat \ {0}
    /\ MaxCrashes \in Nat /\ MaxRankRetries + MaxTouches \in Nat
  BY BoundsAssumption

\* Operations begin with no try behind them.
LEMMA NoTries == 0 \in 0..(MaxRankRetries + MaxTouches)
  BY Bounds

\* The initial values have their types.
LEMMA EmptyRecords ==
    /\ NoOp \in OpRecs /\ Cold \in CacheRecs /\ NoMeta \in Metas
  BY Bounds DEF NoOp, OpRecs, Cold, CacheRecs, NoMeta, Metas, ListSteps,
     Unrecorded, NoItem, NoRank

\* Ranks can be counted.
LEMMA RanksAreCounted ==
    ASSUME NEW S \in SUBSET Ranks
    PROVE  IsFiniteSet(S) /\ Cardinality(S) \in Nat
<1>1. IsFiniteSet(Ranks)
  BY FS_Interval, Bounds DEF Ranks
<1> QED
  BY <1>1, FS_Subset, FS_CardinalityType

\* A hint is never negative.
LEMMA HintIsNatural ==
    ASSUME ListTypeOK, NEW w \in Writers, NEW stored \in Metas
    PROVE  NewHint(w, stored) \in Nat
<1>1. cache[w].ranks \in SUBSET Ranks
  BY DEF ListTypeOK
<1>2. Cardinality(cache[w].ranks) \in Nat
  BY <1>1, RanksAreCounted
<1>3. stored.hint \in Nat /\ Delta(op[w].kind) \in {-1, 0, 1}
  BY DEF Metas, Delta
<1> QED
  BY <1>2, <1>3 DEF NewHint

\* Every step keeps the types of the operations.
LEMMA OpTypes ==
    ASSUME NEW w \in Writers, ListBase, Does(w)
    PROVE  op' \in [Writers -> OpRecs]
<1>0. ListTypeOK /\ \A v \in Writers : OpOK(v)
  BY DEF ListBase
<1>00. /\ op \in [Writers -> OpRecs] /\ meta \in Metas
       /\ ops \in 0..MaxOps /\ rows \in [Ranks -> Items \cup {NoItem}]
  BY <1>0 DEF ListTypeOK, OpRecs
<1>1. ASSUME NEW kind \in Kinds, ListBegin(w, kind)
      PROVE  op' \in [Writers -> OpRecs]
  <2> DEFINE new == [NoOp EXCEPT !.step = FirstStep(kind), !.kind = kind,
                              !.item = MaxInitial + ops + 1, !.stash = meta]
  <2>1. op' = [op EXCEPT ![w] = new]
    BY <1>1 DEF ListBegin
  <2>2. FirstStep(kind) \in ListSteps
    BY DEF FirstStep, ListSteps, Unrecorded
  <2>3. MaxInitial + ops + 1 \in Items
    BY <1>00, <1>1, Bounds DEF ListBegin, Items
  <2>4. NoOp \in OpRecs
    BY EmptyRecords
  <2>5. new \in OpRecs
    BY <1>00, <2>2, <2>3, <2>4 DEF OpRecs
  <2> HIDE DEF new
  <2> QED
    BY <1>00, <2>1, <2>5
<1>2. CASE ReadLast(w)
  <2>1. PICK r \in Ranks : op' = [op EXCEPT ![w].step = "create", ![w].at = r]
    BY <1>2, <1>00 DEF ReadLast
  <2>2. {"create"} \subseteq ListSteps
    BY DEF ListSteps, Unrecorded
  <2>3. [op[w] EXCEPT !.step = "create", !.at = r] \in OpRecs
    BY <1>00, <2>1, <2>2 DEF OpRecs
  <2> QED
    BY <1>00, <2>1, <2>3
<1>3. CASE FindNeighbours(w)
  <2>1. PICK r \in Ranks : op' = [op EXCEPT ![w].step = "create", ![w].at = r]
    BY <1>3, <1>00 DEF FindNeighbours
  <2>2. {"create"} \subseteq ListSteps
    BY DEF ListSteps, Unrecorded
  <2>3. [op[w] EXCEPT !.step = "create", !.at = r] \in OpRecs
    BY <1>00, <2>1, <2>2 DEF OpRecs
  <2> QED
    BY <1>00, <2>1, <2>3
<1>4. CASE Create(w)
  <2>1. op' = [op EXCEPT ![w].step = "touch", ![w].tries = 0]
    BY <1>4, <1>00 DEF Create, ToTouch
  <2>2. {"touch"} \subseteq ListSteps
    BY DEF ListSteps, Unrecorded
  <2>3. [op[w] EXCEPT !.step = "touch", !.tries = 0] \in OpRecs
    BY <1>00, <2>1, <2>2, NoTries DEF OpRecs
  <2> QED
    BY <1>00, <2>1, <2>3
<1>5. CASE Collide(w)
  BY <1>5, <1>00, EmptyRecords DEF Collide, ListAt, Again, Finish,
     FirstStep, database, observed, OpRecs, ListSteps, Unrecorded, Held
<1>6. CASE ReadRanks(w)
  <2>1. PICK r \in Ranks, s \in {"get", "write"} : op' = [op EXCEPT ![w].step =
     s, ![w].at = r]
    BY <1>6, <1>00 DEF ReadRanks, Held
  <2>2. {"get", "write"} \subseteq ListSteps
    BY DEF ListSteps, Unrecorded
  <2>3. [op[w] EXCEPT !.step = s, !.at = r] \in OpRecs
    BY <1>00, <2>1, <2>2 DEF OpRecs
  <2> QED
    BY <1>00, <2>1, <2>3
<1>7. CASE ReadItems(w)
  <2>1. PICK r \in Ranks, s \in {"write", "dispatch"} : op' = [op EXCEPT
     ![w].step = s, ![w].at = r, ![w].seen = rows[r]]
    BY <1>7, <1>00 DEF ReadItems, Held
  <2>2. {"write", "dispatch"} \subseteq ListSteps
    BY DEF ListSteps, Unrecorded
  <2>3. [op[w] EXCEPT !.step = s, !.at = r, !.seen = rows[r]] \in OpRecs
    BY <1>00, <2>1, <2>2 DEF OpRecs
  <2> QED
    BY <1>00, <2>1, <2>3
<1>8. CASE FindNothing(w)
  BY <1>8, <1>00, EmptyRecords DEF FindNothing, ListAt, Know, Finish,
     database, observed, OpRecs, ListSteps, Unrecorded, Held
<1>9. CASE Dispatch(w)
  <2>1. op' = [op EXCEPT ![w].step = "write", ![w].stash = meta]
    BY <1>9, <1>00 DEF Dispatch
  <2>2. {"write"} \subseteq ListSteps
    BY DEF ListSteps, Unrecorded
  <2>3. [op[w] EXCEPT !.step = "write", !.stash = meta] \in OpRecs
    BY <1>00, <2>1, <2>2 DEF OpRecs
  <2> QED
    BY <1>00, <2>1, <2>3
<1>10. CASE GetItem(w)
  BY <1>10, <1>00, EmptyRecords DEF GetItem, ListAt, Again, Finish,
     database, observed, OpRecs, ListSteps, Unrecorded, Held
<1>11. CASE TakeOut(w)
  <2>1. op' = [op EXCEPT ![w].step = "touch", ![w].tries = 0]
    BY <1>11, <1>00 DEF TakeOut, ToTouch
  <2>2. {"touch"} \subseteq ListSteps
    BY DEF ListSteps, Unrecorded
  <2>3. [op[w] EXCEPT !.step = "touch", !.tries = 0] \in OpRecs
    BY <1>00, <2>1, <2>2, NoTries DEF OpRecs
  <2> QED
    BY <1>00, <2>1, <2>3
<1>12. CASE Replace(w)
  <2>1. op' = [op EXCEPT ![w].step = "touch", ![w].tries = 0]
    BY <1>12, <1>00 DEF Replace, ToTouch
  <2>2. {"touch"} \subseteq ListSteps
    BY DEF ListSteps, Unrecorded
  <2>3. [op[w] EXCEPT !.step = "touch", !.tries = 0] \in OpRecs
    BY <1>00, <2>1, <2>2, NoTries DEF OpRecs
  <2> QED
    BY <1>00, <2>1, <2>3
<1>13. CASE Changed(w)
  BY <1>13, <1>00, EmptyRecords DEF Changed, ListAt, Again, Finish,
     database, observed, OpRecs, ListSteps, Unrecorded, Held
<1>14. CASE SetItem(w)
  <2>1. op' = [op EXCEPT ![w].step = "touch", ![w].tries = 0]
    BY <1>14, <1>00 DEF SetItem, ToTouch
  <2>2. {"touch"} \subseteq ListSteps
    BY DEF ListSteps, Unrecorded
  <2>3. [op[w] EXCEPT !.step = "touch", !.tries = 0] \in OpRecs
    BY <1>00, <2>1, <2>2, NoTries DEF OpRecs
  <2> QED
    BY <1>00, <2>1, <2>3
<1>15. CASE DelItem(w)
  <2>1. op' = [op EXCEPT ![w].step = "touch", ![w].tries = 0]
    BY <1>15, <1>00 DEF DelItem, ToTouch
  <2>2. {"touch"} \subseteq ListSteps
    BY DEF ListSteps, Unrecorded
  <2>3. [op[w] EXCEPT !.step = "touch", !.tries = 0] \in OpRecs
    BY <1>00, <2>1, <2>2, NoTries DEF OpRecs
  <2> QED
    BY <1>00, <2>1, <2>3
<1>16. CASE Touch(w)
  BY <1>16, <1>00, EmptyRecords DEF Touch, ListAt, WriteHint, Recorded,
     Finish, database, observed, OpRecs, ListSteps, Unrecorded, Held
<1>17. CASE TouchLoses(w)
  BY <1>17, <1>00, EmptyRecords DEF TouchLoses, ListAt, Finish, database,
     observed, OpRecs, ListSteps, Unrecorded, Held
<1>18. CASE Reread(w)
  <2>1. op' = [op EXCEPT ![w].step = "touch", ![w].stash = meta]
    BY <1>18, <1>00 DEF Reread
  <2>2. {"touch"} \subseteq ListSteps
    BY DEF ListSteps, Unrecorded
  <2>3. [op[w] EXCEPT !.step = "touch", !.stash = meta] \in OpRecs
    BY <1>00, <2>1, <2>2 DEF OpRecs
  <2> QED
    BY <1>00, <2>1, <2>3
<1>19. CASE TouchAbsent(w)
  <2>1. op' = [op EXCEPT ![w].step = "put", ![w].stash = meta]
    BY <1>19, <1>00 DEF TouchAbsent
  <2>2. {"put"} \subseteq ListSteps
    BY DEF ListSteps, Unrecorded
  <2>3. [op[w] EXCEPT !.step = "put", !.stash = meta] \in OpRecs
    BY <1>00, <2>1, <2>2 DEF OpRecs
  <2> QED
    BY <1>00, <2>1, <2>3
<1>20. CASE Put(w)
  BY <1>20, <1>00, EmptyRecords DEF Put, ListAt, WriteHint, Recorded,
     Finish, database, observed, OpRecs, ListSteps, Unrecorded, Held
<1>21. CASE ReadRange(w)
  BY <1>21, <1>00, EmptyRecords DEF ReadRange, ListAt, Know, ListGoto,
     database, observed, OpRecs, ListSteps, Unrecorded, Held
<1>22. CASE WipeRow(w)
  BY <1>22, <1>00, EmptyRecords DEF WipeRow, ListAt, Drop, database,
     observed, OpRecs, ListSteps, Unrecorded, Held
<1>23. CASE Wiped(w)
  BY <1>23, <1>00, EmptyRecords DEF Wiped, ListAt, ListGoto, database,
     observed, OpRecs, ListSteps, Unrecorded, Held
<1>24. CASE ResetMeta(w)
  BY <1>24, <1>00, EmptyRecords DEF ResetMeta, ListAt, WriteHint, Finish,
     database, observed, OpRecs, ListSteps, Unrecorded, Held
<1>25. CASE DropMeta(w)
  BY <1>25, <1>00, EmptyRecords DEF DropMeta, ListAt, Finish, database,
     observed, OpRecs, ListSteps, Unrecorded, Held
<1>26. CASE ListCrash(w)
  BY <1>26, <1>00, EmptyRecords DEF ListCrash, Finish, database, observed,
     OpRecs, ListSteps, Unrecorded, Held
<1> QED
  BY <1>1, <1>2, <1>3, <1>4, <1>5, <1>6, <1>7, <1>8, <1>9, <1>10, <1>11, <1>12,
     <1>13, <1>14, <1>15, <1>16, <1>17, <1>18, <1>19, <1>20, <1>21, <1>22,
     <1>23, <1>24, <1>25, <1>26 DEF Does, Step

\* So are the caches.
LEMMA CacheTypes ==
    ASSUME NEW w \in Writers, ListBase, Does(w)
    PROVE  cache' \in [Writers -> CacheRecs]
<1>0. ListTypeOK /\ \A v \in Writers : OpOK(v)
  BY DEF ListBase
<1>00. cache \in [Writers -> CacheRecs]
  BY <1>0 DEF ListTypeOK, CacheRecs
<1>1. ASSUME NEW kind \in Kinds, ListBegin(w, kind)
      PROVE  cache' \in [Writers -> CacheRecs]
  BY <1>1, <1>00, EmptyRecords DEF ListBegin, FirstStep, database, observed,
     CacheRecs, Held, Known
<1>2. CASE ReadLast(w)
  BY <1>2, <1>00, EmptyRecords DEF ReadLast, ListAt, database, observed,
     CacheRecs, Held, Known
<1>3. CASE FindNeighbours(w)
  BY <1>3, <1>00, EmptyRecords DEF FindNeighbours, ListAt, Know, database,
     observed, CacheRecs, Held, Known
<1>4. CASE Create(w)
  <2>1. [cache[w] EXCEPT !.ranks = @ \cup {op[w].at}] \in CacheRecs
    BY <1>0, <1>00, <1>4 DEF CacheRecs, Create, ListAt, OpOK
  <2> QED
    BY <1>00, <2>1, <1>4 DEF Create
<1>5. CASE Collide(w)
  BY <1>5, <1>00, EmptyRecords DEF Collide, ListAt, Again, Finish,
     FirstStep, database, observed, CacheRecs, Held, Known
<1>6. CASE ReadRanks(w)
  BY <1>6, <1>00, EmptyRecords DEF ReadRanks, ListAt, Know, database,
     observed, CacheRecs, Held, Known
<1>7. CASE ReadItems(w)
  BY <1>7, <1>00, EmptyRecords DEF ReadItems, ListAt, Know, database,
     observed, CacheRecs, Held, Known
<1>8. CASE FindNothing(w)
  BY <1>8, <1>00, EmptyRecords DEF FindNothing, ListAt, Know, Finish,
     database, observed, CacheRecs, Held, Known
<1>9. CASE Dispatch(w)
  BY <1>9, <1>00, EmptyRecords DEF Dispatch, ListAt, database, observed,
     CacheRecs, Held, Known
<1>10. CASE GetItem(w)
  BY <1>10, <1>00, EmptyRecords DEF GetItem, ListAt, Again, Finish,
     database, observed, CacheRecs, Held, Known
<1>11. CASE TakeOut(w)
  BY <1>11, <1>00, EmptyRecords DEF TakeOut, ListAt, Drop, ToTouch,
     database, observed, CacheRecs, Held, Known
<1>12. CASE Replace(w)
  BY <1>12, <1>00, EmptyRecords DEF Replace, ListAt, ToTouch, database,
     observed, CacheRecs, Held, Known
<1>13. CASE Changed(w)
  BY <1>13, <1>00, EmptyRecords DEF Changed, ListAt, Again, Finish,
     database, observed, CacheRecs, Held, Known
<1>14. CASE SetItem(w)
  BY <1>14, <1>00, EmptyRecords DEF SetItem, ListAt, ToTouch, database,
     observed, CacheRecs, Held, Known
<1>15. CASE DelItem(w)
  BY <1>15, <1>00, EmptyRecords DEF DelItem, ListAt, Drop, ToTouch,
     database, observed, CacheRecs, Held, Known
<1>16. CASE Touch(w)
  BY <1>16, <1>00, EmptyRecords DEF Touch, ListAt, WriteHint, Recorded,
     Finish, database, observed, CacheRecs, Held, Known
<1>17. CASE TouchLoses(w)
  BY <1>17, <1>00, EmptyRecords DEF TouchLoses, ListAt, Finish, database,
     observed, CacheRecs, Held, Known
<1>18. CASE Reread(w)
  BY <1>18, <1>00, EmptyRecords DEF Reread, ListAt, database, observed,
     CacheRecs, Held, Known
<1>19. CASE TouchAbsent(w)
  BY <1>19, <1>00, EmptyRecords DEF TouchAbsent, ListAt, database, observed,
     CacheRecs, Held, Known
<1>20. CASE Put(w)
  BY <1>20, <1>00, EmptyRecords DEF Put, ListAt, WriteHint, Recorded,
     Finish, database, observed, CacheRecs, Held, Known
<1>21. CASE ReadRange(w)
  BY <1>21, <1>00, EmptyRecords DEF ReadRange, ListAt, Know, ListGoto,
     database, observed, CacheRecs, Held, Known
<1>22. CASE WipeRow(w)
  BY <1>22, <1>00, EmptyRecords DEF WipeRow, ListAt, Drop, database,
     observed, CacheRecs, Held, Known
<1>23. CASE Wiped(w)
  BY <1>23, <1>00, EmptyRecords DEF Wiped, ListAt, ListGoto, database,
     observed, CacheRecs, Held, Known
<1>24. CASE ResetMeta(w)
  BY <1>24, <1>00, EmptyRecords DEF ResetMeta, ListAt, WriteHint, Finish,
     database, observed, CacheRecs, Held, Known
<1>25. CASE DropMeta(w)
  BY <1>25, <1>00, EmptyRecords DEF DropMeta, ListAt, Finish, database,
     observed, CacheRecs, Held, Known
<1>26. CASE ListCrash(w)
  BY <1>26, <1>00, EmptyRecords DEF ListCrash, Finish, database, observed,
     CacheRecs, Held, Known
<1> QED
  BY <1>1, <1>2, <1>3, <1>4, <1>5, <1>6, <1>7, <1>8, <1>9, <1>10, <1>11, <1>12,
     <1>13, <1>14, <1>15, <1>16, <1>17, <1>18, <1>19, <1>20, <1>21, <1>22,
     <1>23, <1>24, <1>25, <1>26 DEF Does, Step

\* So are the rows.
LEMMA RowTypes ==
    ASSUME NEW w \in Writers, ListBase, Does(w)
    PROVE  rows' \in [Ranks -> Items \cup {NoItem}]
<1>0. ListTypeOK /\ \A v \in Writers : OpOK(v)
  BY DEF ListBase
<1>1. ASSUME NEW kind \in Kinds, ListBegin(w, kind)
      PROVE  rows' \in [Ranks -> Items \cup {NoItem}]
  BY <1>0, <1>1 DEF ListBegin, FirstStep, database, observed, ListTypeOK,
     OpRecs
<1>2. CASE ReadLast(w)
  BY <1>0, <1>2 DEF ReadLast, ListAt, database, observed, ListTypeOK, OpRecs
<1>3. CASE FindNeighbours(w)
  BY <1>0, <1>3 DEF FindNeighbours, ListAt, Know, database, observed,
     ListTypeOK, OpRecs
<1>4. CASE Create(w)
  BY <1>0, <1>4 DEF Create, ListAt, ToTouch, database, observed, ListTypeOK,
     OpRecs
<1>5. CASE Collide(w)
  BY <1>0, <1>5 DEF Collide, ListAt, Again, Finish, FirstStep, database,
     observed, ListTypeOK, OpRecs
<1>6. CASE ReadRanks(w)
  BY <1>0, <1>6 DEF ReadRanks, ListAt, Know, database, observed, ListTypeOK,
     OpRecs
<1>7. CASE ReadItems(w)
  BY <1>0, <1>7 DEF ReadItems, ListAt, Know, database, observed, ListTypeOK,
     OpRecs
<1>8. CASE FindNothing(w)
  BY <1>0, <1>8 DEF FindNothing, ListAt, Know, Finish, database, observed,
     ListTypeOK, OpRecs
<1>9. CASE Dispatch(w)
  BY <1>0, <1>9 DEF Dispatch, ListAt, database, observed, ListTypeOK, OpRecs
<1>10. CASE GetItem(w)
  BY <1>0, <1>10 DEF GetItem, ListAt, Again, Finish, database, observed,
     ListTypeOK, OpRecs
<1>11. CASE TakeOut(w)
  BY <1>0, <1>11 DEF TakeOut, ListAt, Drop, ToTouch, database, observed,
     ListTypeOK, OpRecs
<1>12. CASE Replace(w)
  BY <1>0, <1>12 DEF Replace, ListAt, ToTouch, database, observed,
     ListTypeOK, OpRecs
<1>13. CASE Changed(w)
  BY <1>0, <1>13 DEF Changed, ListAt, Again, Finish, database, observed,
     ListTypeOK, OpRecs
<1>14. CASE SetItem(w)
  BY <1>0, <1>14 DEF SetItem, ListAt, ToTouch, database, observed,
     ListTypeOK, OpRecs
<1>15. CASE DelItem(w)
  BY <1>0, <1>15 DEF DelItem, ListAt, Drop, ToTouch, database, observed,
     ListTypeOK, OpRecs
<1>16. CASE Touch(w)
  BY <1>0, <1>16 DEF Touch, ListAt, WriteHint, Recorded, Finish, database,
     observed, ListTypeOK, OpRecs
<1>17. CASE TouchLoses(w)
  BY <1>0, <1>17 DEF TouchLoses, ListAt, Finish, database, observed,
     ListTypeOK, OpRecs
<1>18. CASE Reread(w)
  BY <1>0, <1>18 DEF Reread, ListAt, database, observed, ListTypeOK, OpRecs
<1>19. CASE TouchAbsent(w)
  BY <1>0, <1>19 DEF TouchAbsent, ListAt, database, observed, ListTypeOK,
     OpRecs
<1>20. CASE Put(w)
  BY <1>0, <1>20 DEF Put, ListAt, WriteHint, Recorded, Finish, database,
     observed, ListTypeOK, OpRecs
<1>21. CASE ReadRange(w)
  BY <1>0, <1>21 DEF ReadRange, ListAt, Know, ListGoto, database, observed,
     ListTypeOK, OpRecs
<1>22. CASE WipeRow(w)
  BY <1>0, <1>22 DEF WipeRow, ListAt, Drop, database, observed, ListTypeOK,
     OpRecs
<1>23. CASE Wiped(w)
  BY <1>0, <1>23 DEF Wiped, ListAt, ListGoto, database, observed,
     ListTypeOK, OpRecs
<1>24. CASE ResetMeta(w)
  BY <1>0, <1>24 DEF ResetMeta, ListAt, WriteHint, Finish, database,
     observed, ListTypeOK, OpRecs
<1>25. CASE DropMeta(w)
  BY <1>0, <1>25 DEF DropMeta, ListAt, Finish, database, observed,
     ListTypeOK, OpRecs
<1>26. CASE ListCrash(w)
  BY <1>0, <1>26 DEF ListCrash, Finish, database, observed, ListTypeOK, OpRecs
<1> QED
  BY <1>1, <1>2, <1>3, <1>4, <1>5, <1>6, <1>7, <1>8, <1>9, <1>10, <1>11, <1>12,
     <1>13, <1>14, <1>15, <1>16, <1>17, <1>18, <1>19, <1>20, <1>21, <1>22,
     <1>23, <1>24, <1>25, <1>26 DEF Does, Step

\* So is the metadata row.
LEMMA MetaTypes ==
    ASSUME NEW w \in Writers, ListBase, Does(w)
    PROVE  meta' \in Metas /\ tokens' \in Nat /\ meta'.token <= tokens'
<1>0. ListTypeOK /\ \A v \in Writers : OpOK(v)
  BY DEF ListBase
<1>1. ASSUME NEW kind \in Kinds, ListBegin(w, kind)
      PROVE  meta' \in Metas /\ tokens' \in Nat /\ meta'.token <= tokens'
  BY <1>0, <1>1, HintIsNatural, EmptyRecords DEF ListBegin, FirstStep,
     database, observed, ListTypeOK, Metas, NoMeta
<1>2. CASE ReadLast(w)
  BY <1>0, <1>2, HintIsNatural, EmptyRecords DEF ReadLast, ListAt, database,
     observed, ListTypeOK, Metas, NoMeta
<1>3. CASE FindNeighbours(w)
  BY <1>0, <1>3, HintIsNatural, EmptyRecords DEF FindNeighbours, ListAt,
     Know, database, observed, ListTypeOK, Metas, NoMeta
<1>4. CASE Create(w)
  BY <1>0, <1>4, HintIsNatural, EmptyRecords DEF Create, ListAt, ToTouch,
     database, observed, ListTypeOK, Metas, NoMeta
<1>5. CASE Collide(w)
  BY <1>0, <1>5, HintIsNatural, EmptyRecords DEF Collide, ListAt, Again,
     Finish, FirstStep, database, observed, ListTypeOK, Metas, NoMeta
<1>6. CASE ReadRanks(w)
  BY <1>0, <1>6, HintIsNatural, EmptyRecords DEF ReadRanks, ListAt, Know,
     database, observed, ListTypeOK, Metas, NoMeta
<1>7. CASE ReadItems(w)
  BY <1>0, <1>7, HintIsNatural, EmptyRecords DEF ReadItems, ListAt, Know,
     database, observed, ListTypeOK, Metas, NoMeta
<1>8. CASE FindNothing(w)
  BY <1>0, <1>8, HintIsNatural, EmptyRecords DEF FindNothing, ListAt, Know,
     Finish, database, observed, ListTypeOK, Metas, NoMeta
<1>9. CASE Dispatch(w)
  BY <1>0, <1>9, HintIsNatural, EmptyRecords DEF Dispatch, ListAt, database,
     observed, ListTypeOK, Metas, NoMeta
<1>10. CASE GetItem(w)
  BY <1>0, <1>10, HintIsNatural, EmptyRecords DEF GetItem, ListAt, Again,
     Finish, database, observed, ListTypeOK, Metas, NoMeta
<1>11. CASE TakeOut(w)
  BY <1>0, <1>11, HintIsNatural, EmptyRecords DEF TakeOut, ListAt, Drop,
     ToTouch, database, observed, ListTypeOK, Metas, NoMeta
<1>12. CASE Replace(w)
  BY <1>0, <1>12, HintIsNatural, EmptyRecords DEF Replace, ListAt, ToTouch,
     database, observed, ListTypeOK, Metas, NoMeta
<1>13. CASE Changed(w)
  BY <1>0, <1>13, HintIsNatural, EmptyRecords DEF Changed, ListAt, Again,
     Finish, database, observed, ListTypeOK, Metas, NoMeta
<1>14. CASE SetItem(w)
  BY <1>0, <1>14, HintIsNatural, EmptyRecords DEF SetItem, ListAt, ToTouch,
     database, observed, ListTypeOK, Metas, NoMeta
<1>15. CASE DelItem(w)
  BY <1>0, <1>15, HintIsNatural, EmptyRecords DEF DelItem, ListAt, Drop,
     ToTouch, database, observed, ListTypeOK, Metas, NoMeta
<1>16. CASE Touch(w)
  BY <1>0, <1>16, HintIsNatural, EmptyRecords DEF Touch, ListAt, WriteHint,
     Recorded, Finish, database, observed, ListTypeOK, Metas, NoMeta
<1>17. CASE TouchLoses(w)
  BY <1>0, <1>17, HintIsNatural, EmptyRecords DEF TouchLoses, ListAt,
     Finish, database, observed, ListTypeOK, Metas, NoMeta
<1>18. CASE Reread(w)
  BY <1>0, <1>18, HintIsNatural, EmptyRecords DEF Reread, ListAt, database,
     observed, ListTypeOK, Metas, NoMeta
<1>19. CASE TouchAbsent(w)
  BY <1>0, <1>19, HintIsNatural, EmptyRecords DEF TouchAbsent, ListAt,
     database, observed, ListTypeOK, Metas, NoMeta
<1>20. CASE Put(w)
  BY <1>0, <1>20, HintIsNatural, EmptyRecords DEF Put, ListAt, WriteHint,
     Recorded, Finish, database, observed, ListTypeOK, Metas, NoMeta
<1>21. CASE ReadRange(w)
  BY <1>0, <1>21, HintIsNatural, EmptyRecords DEF ReadRange, ListAt, Know,
     ListGoto, database, observed, ListTypeOK, Metas, NoMeta
<1>22. CASE WipeRow(w)
  BY <1>0, <1>22, HintIsNatural, EmptyRecords DEF WipeRow, ListAt, Drop,
     database, observed, ListTypeOK, Metas, NoMeta
<1>23. CASE Wiped(w)
  BY <1>0, <1>23, HintIsNatural, EmptyRecords DEF Wiped, ListAt, ListGoto,
     database, observed, ListTypeOK, Metas, NoMeta
<1>24. CASE ResetMeta(w)
  BY <1>0, <1>24, HintIsNatural, EmptyRecords DEF ResetMeta, ListAt,
     WriteHint, Finish, database, observed, ListTypeOK, Metas, NoMeta
<1>25. CASE DropMeta(w)
  BY <1>0, <1>25, HintIsNatural, EmptyRecords DEF DropMeta, ListAt, Finish,
     database, observed, ListTypeOK, Metas, NoMeta
<1>26. CASE ListCrash(w)
  BY <1>0, <1>26, HintIsNatural, EmptyRecords DEF ListCrash, Finish,
     database, observed, ListTypeOK, Metas, NoMeta
<1> QED
  BY <1>1, <1>2, <1>3, <1>4, <1>5, <1>6, <1>7, <1>8, <1>9, <1>10, <1>11, <1>12,
     <1>13, <1>14, <1>15, <1>16, <1>17, <1>18, <1>19, <1>20, <1>21, <1>22,
     <1>23, <1>24, <1>25, <1>26 DEF Does, Step

\* So is what is observed.
LEMMA ObservedTypes ==
    ASSUME NEW w \in Writers, ListBase, Does(w)
    PROVE  /\ ops' \in 0..MaxOps /\ committed' \in SUBSET Items
           /\ destroyed' \in SUBSET Items
           /\ reported' \in [Items -> Items \cup {NoItem}]
           /\ failed' \in Nat /\ crashes' \in 0..MaxCrashes
<1>0. ListTypeOK /\ \A v \in Writers : OpOK(v)
  BY DEF ListBase
<1>1. ASSUME NEW kind \in Kinds, ListBegin(w, kind)
      PROVE  /\ ops' \in 0..MaxOps /\ committed' \in SUBSET Items
           /\ destroyed' \in SUBSET Items
           /\ reported' \in [Items -> Items \cup {NoItem}]
           /\ failed' \in Nat /\ crashes' \in 0..MaxCrashes
  BY <1>0, <1>1, Bounds DEF ListBegin, FirstStep, database, observed,
     ListTypeOK, NoItem
<1>2. CASE ReadLast(w)
  BY <1>0, <1>2, Bounds DEF ReadLast, ListAt, database, observed,
     ListTypeOK, NoItem
<1>3. CASE FindNeighbours(w)
  BY <1>0, <1>3, Bounds DEF FindNeighbours, ListAt, Know, database,
     observed, ListTypeOK, NoItem
<1>4. CASE Create(w)
  <2>1. op[w].item \in Items \cup {NoItem} /\ op[w].seen \in Items \cup
     {NoItem}
    BY <1>0 DEF ListTypeOK
  <2>2. op[w].item \in Items
    BY <1>0, <1>4, Bounds DEF Create, ListAt, OpOK, Active, Items, ListTypeOK
  <2>3. op[w].at \in Ranks
    BY <1>0, <1>4 DEF Create, ListAt, OpOK
  <2>4. rows[op[w].at] \in Items \cup {NoItem}
    BY <1>0, <2>3 DEF ListTypeOK
  <2> QED
    BY <1>0, <2>1, <2>2, <2>4, <1>4 DEF Create, ListTypeOK
<1>5. CASE Collide(w)
  BY <1>0, <1>5, Bounds DEF Collide, ListAt, Again, Finish, FirstStep,
     database, observed, ListTypeOK, NoItem
<1>6. CASE ReadRanks(w)
  BY <1>0, <1>6, Bounds DEF ReadRanks, ListAt, Know, database, observed,
     ListTypeOK, NoItem
<1>7. CASE ReadItems(w)
  BY <1>0, <1>7, Bounds DEF ReadItems, ListAt, Know, database, observed,
     ListTypeOK, NoItem
<1>8. CASE FindNothing(w)
  BY <1>0, <1>8, Bounds DEF FindNothing, ListAt, Know, Finish, database,
     observed, ListTypeOK, NoItem
<1>9. CASE Dispatch(w)
  BY <1>0, <1>9, Bounds DEF Dispatch, ListAt, database, observed,
     ListTypeOK, NoItem
<1>10. CASE GetItem(w)
  BY <1>0, <1>10, Bounds DEF GetItem, ListAt, Again, Finish, database,
     observed, ListTypeOK, NoItem
<1>11. CASE TakeOut(w)
  BY <1>0, <1>11, Bounds DEF TakeOut, ListAt, Drop, ToTouch, database,
     observed, ListTypeOK, NoItem
<1>12. CASE Replace(w)
  <2>1. op[w].item \in Items \cup {NoItem} /\ op[w].seen \in Items \cup
     {NoItem}
    BY <1>0 DEF ListTypeOK
  <2>2. op[w].item \in Items
    BY <1>0, <1>12, Bounds DEF Replace, ListAt, OpOK, Active, Items, ListTypeOK
  <2>3. op[w].at \in Ranks
    BY <1>0, <1>12 DEF Replace, ListAt, OpOK
  <2>4. rows[op[w].at] \in Items \cup {NoItem}
    BY <1>0, <2>3 DEF ListTypeOK
  <2> QED
    BY <1>0, <2>1, <2>2, <2>4, <1>12 DEF Replace, ListTypeOK
<1>13. CASE Changed(w)
  BY <1>0, <1>13, Bounds DEF Changed, ListAt, Again, Finish, database,
     observed, ListTypeOK, NoItem
<1>14. CASE SetItem(w)
  <2>1. op[w].item \in Items \cup {NoItem} /\ op[w].seen \in Items \cup
     {NoItem}
    BY <1>0 DEF ListTypeOK
  <2>2. op[w].item \in Items
    BY <1>0, <1>14, Bounds DEF SetItem, ListAt, OpOK, Active, Items, ListTypeOK
  <2>3. op[w].at \in Ranks
    BY <1>0, <1>14 DEF SetItem, ListAt, OpOK
  <2>4. rows[op[w].at] \in Items \cup {NoItem}
    BY <1>0, <2>3 DEF ListTypeOK
  <2> QED
    BY <1>0, <2>1, <2>2, <2>4, <1>14 DEF SetItem, ListTypeOK
<1>15. CASE DelItem(w)
  <2>1. op[w].item \in Items \cup {NoItem} /\ op[w].seen \in Items \cup
     {NoItem}
    BY <1>0 DEF ListTypeOK
  <2>2. op[w].item \in Items
    BY <1>0, <1>15, Bounds DEF DelItem, ListAt, OpOK, Active, Items, ListTypeOK
  <2>3. op[w].at \in Ranks
    BY <1>0, <1>15 DEF DelItem, ListAt, OpOK
  <2>4. rows[op[w].at] \in Items \cup {NoItem}
    BY <1>0, <2>3 DEF ListTypeOK
  <2> QED
    BY <1>0, <2>1, <2>2, <2>4, <1>15 DEF DelItem, ListTypeOK
<1>16. CASE Touch(w)
  BY <1>0, <1>16, Bounds DEF Touch, ListAt, WriteHint, Recorded, Finish,
     database, observed, ListTypeOK, NoItem
<1>17. CASE TouchLoses(w)
  BY <1>0, <1>17, Bounds DEF TouchLoses, ListAt, Finish, database, observed,
     ListTypeOK, NoItem
<1>18. CASE Reread(w)
  BY <1>0, <1>18, Bounds DEF Reread, ListAt, database, observed, ListTypeOK,
     NoItem
<1>19. CASE TouchAbsent(w)
  BY <1>0, <1>19, Bounds DEF TouchAbsent, ListAt, database, observed,
     ListTypeOK, NoItem
<1>20. CASE Put(w)
  BY <1>0, <1>20, Bounds DEF Put, ListAt, WriteHint, Recorded, Finish,
     database, observed, ListTypeOK, NoItem
<1>21. CASE ReadRange(w)
  BY <1>0, <1>21, Bounds DEF ReadRange, ListAt, Know, ListGoto, database,
     observed, ListTypeOK, NoItem
<1>22. CASE WipeRow(w)
  BY <1>0, <1>22, Bounds DEF WipeRow, ListAt, Drop, database, observed,
     ListTypeOK, NoItem
<1>23. CASE Wiped(w)
  BY <1>0, <1>23, Bounds DEF Wiped, ListAt, ListGoto, database, observed,
     ListTypeOK, NoItem
<1>24. CASE ResetMeta(w)
  BY <1>0, <1>24, Bounds DEF ResetMeta, ListAt, WriteHint, Finish, database,
     observed, ListTypeOK, NoItem
<1>25. CASE DropMeta(w)
  BY <1>0, <1>25, Bounds DEF DropMeta, ListAt, Finish, database, observed,
     ListTypeOK, NoItem
<1>26. CASE ListCrash(w)
  BY <1>0, <1>26, Bounds DEF ListCrash, Finish, database, observed,
     ListTypeOK, NoItem
<1> QED
  BY <1>1, <1>2, <1>3, <1>4, <1>5, <1>6, <1>7, <1>8, <1>9, <1>10, <1>11, <1>12,
     <1>13, <1>14, <1>15, <1>16, <1>17, <1>18, <1>19, <1>20, <1>21, <1>22,
     <1>23, <1>24, <1>25, <1>26 DEF Does, Step

\* But for its step and its tries an operation is as it was.
Same(w) ==
    /\ op'[w].kind = op[w].kind /\ op'[w].item = op[w].item
    /\ op'[w].at = op[w].at /\ op'[w].seen = op[w].seen
    /\ op'[w].stash = op[w].stash

\* Another attempt begins at the given step, or the operation is over.
LEMMA AgainOrDone ==
    ASSUME NEW w \in Writers, op \in [Writers -> OpRecs],
           NEW s \in {"last", "ranks"}, Again(w, s)
    PROVE  op'[w] = NoOp \/ (op'[w].step = s /\ Same(w))
<1>1. CASE Finish(w)
  BY <1>1 DEF Finish
<1>2. CASE op' = [op EXCEPT ![w].step = s, ![w].tries = @ + 1]
  BY <1>2 DEF OpRecs, Same
<1> QED
  BY <1>1, <1>2 DEF Again

\* So it is where the rank was taken,
LEMMA CollidesOrDone ==
    ASSUME NEW w \in Writers, op \in [Writers -> OpRecs], Collide(w)
    PROVE  op'[w] = NoOp \/ (op'[w].step \in {"last", "ranks"} /\ Same(w))
<1>1. /\ FirstStep(op[w].kind) \in {"last", "ranks"}
      /\ Again(w, FirstStep(op[w].kind))
  BY DEF Collide, ListAt, FirstStep, Adding, Emptying
<1>2. \/ op'[w] = NoOp
      \/ op'[w].step = FirstStep(op[w].kind) /\ Same(w)
  BY <1>1, AgainOrDone
<1> QED
  BY <1>1, <1>2

\* where the item is not what it was,
LEMMA ChangedOrDone ==
    ASSUME NEW w \in Writers, op \in [Writers -> OpRecs], Changed(w)
    PROVE  op'[w] = NoOp \/ (op'[w].step = "ranks" /\ Same(w))
<1>1. CASE Finish(w)
  BY <1>1 DEF Finish
<1>2. CASE Again(w, "ranks")
  BY <1>2, AgainOrDone
<1> QED
  BY <1>1, <1>2 DEF Changed

\* and where pop finds no item;
LEMMA GetsOrNot ==
    ASSUME NEW w \in Writers, op \in [Writers -> OpRecs], GetItem(w)
    PROVE  \/ op'[w] = NoOp
           \/ op'[w].step = "ranks" /\ Same(w)
           \/ /\ rows[op[w].at] # NoItem /\ op'[w].seen = rows[op[w].at]
              /\ op'[w].step = "write" /\ op'[w].kind = op[w].kind
              /\ op'[w].item = op[w].item /\ op'[w].at = op[w].at
<1>1. CASE rows[op[w].at] = NoItem
  <2>1. Again(w, "ranks")
    BY <1>1 DEF GetItem
  <2> QED
    BY <2>1, AgainOrDone
<1>2. CASE rows[op[w].at] # NoItem
  BY <1>2 DEF GetItem, OpRecs
<1> QED
  BY <1>1, <1>2

\* where the row was written by another the touch fails in the end.
LEMMA LosesOrDone ==
    ASSUME NEW w \in Writers, op \in [Writers -> OpRecs], TouchLoses(w)
    PROVE  \/ op'[w] = NoOp /\ failed' = failed + 1
           \/ op'[w].step = "reread" /\ failed' = failed /\ Same(w)
<1>1. CASE Finish(w) /\ failed' = failed + 1
  BY <1>1 DEF Finish
<1>2. CASE /\ op' = [op EXCEPT ![w].step = "reread", ![w].tries = @ + 1]
           /\ failed' = failed
  BY <1>2 DEF OpRecs, Same
<1> QED
  BY <1>1, <1>2 DEF TouchLoses

\* A step leaves the operations of others alone.
LEMMA OthersKeep ==
    ASSUME NEW w \in Writers, ListTypeOK, NEW v \in Writers \ {w}, Does(w)
    PROVE  op'[v] = op[v] /\ cache'[v] = cache[v]
<1>00. op \in [Writers -> OpRecs] /\ cache \in [Writers -> CacheRecs]
  BY DEF ListTypeOK, OpRecs, CacheRecs
<1>1. ASSUME NEW kind \in Kinds, ListBegin(w, kind)
      PROVE  op'[v] = op[v] /\ cache'[v] = cache[v]
  BY <1>1, <1>00 DEF ListBegin, FirstStep, database, observed, CacheRecs
<1>2. CASE ReadLast(w)
  BY <1>2, <1>00 DEF ReadLast, ListAt, database, observed, CacheRecs
<1>3. CASE FindNeighbours(w)
  BY <1>3, <1>00 DEF FindNeighbours, ListAt, Know, database, observed,
     CacheRecs
<1>4. CASE Create(w)
  BY <1>4, <1>00 DEF Create, ListAt, ToTouch, database, observed, CacheRecs
<1>5. CASE Collide(w)
  BY <1>5, <1>00 DEF Collide, ListAt, Again, Finish, FirstStep, database,
     observed, CacheRecs
<1>6. CASE ReadRanks(w)
  BY <1>6, <1>00 DEF ReadRanks, ListAt, Know, database, observed, CacheRecs
<1>7. CASE ReadItems(w)
  BY <1>7, <1>00 DEF ReadItems, ListAt, Know, database, observed, CacheRecs
<1>8. CASE FindNothing(w)
  BY <1>8, <1>00 DEF FindNothing, ListAt, Know, Finish, database, observed,
     CacheRecs
<1>9. CASE Dispatch(w)
  BY <1>9, <1>00 DEF Dispatch, ListAt, database, observed, CacheRecs
<1>10. CASE GetItem(w)
  BY <1>10, <1>00 DEF GetItem, ListAt, Again, Finish, database, observed,
     CacheRecs
<1>11. CASE TakeOut(w)
  BY <1>11, <1>00 DEF TakeOut, ListAt, Drop, ToTouch, database, observed,
     CacheRecs
<1>12. CASE Replace(w)
  BY <1>12, <1>00 DEF Replace, ListAt, ToTouch, database, observed, CacheRecs
<1>13. CASE Changed(w)
  BY <1>13, <1>00 DEF Changed, ListAt, Again, Finish, database, observed,
     CacheRecs
<1>14. CASE SetItem(w)
  BY <1>14, <1>00 DEF SetItem, ListAt, ToTouch, database, observed, CacheRecs
<1>15. CASE DelItem(w)
  BY <1>15, <1>00 DEF DelItem, ListAt, Drop, ToTouch, database, observed,
     CacheRecs
<1>16. CASE Touch(w)
  BY <1>16, <1>00 DEF Touch, ListAt, WriteHint, Recorded, Finish, database,
     observed, CacheRecs
<1>17. CASE TouchLoses(w)
  BY <1>17, <1>00 DEF TouchLoses, ListAt, Finish, database, observed, CacheRecs
<1>18. CASE Reread(w)
  BY <1>18, <1>00 DEF Reread, ListAt, database, observed, CacheRecs
<1>19. CASE TouchAbsent(w)
  BY <1>19, <1>00 DEF TouchAbsent, ListAt, database, observed, CacheRecs
<1>20. CASE Put(w)
  BY <1>20, <1>00 DEF Put, ListAt, WriteHint, Recorded, Finish, database,
     observed, CacheRecs
<1>21. CASE ReadRange(w)
  BY <1>21, <1>00 DEF ReadRange, ListAt, Know, ListGoto, database, observed,
     CacheRecs
<1>22. CASE WipeRow(w)
  BY <1>22, <1>00 DEF WipeRow, ListAt, Drop, database, observed, CacheRecs
<1>23. CASE Wiped(w)
  BY <1>23, <1>00 DEF Wiped, ListAt, ListGoto, database, observed, CacheRecs
<1>24. CASE ResetMeta(w)
  BY <1>24, <1>00 DEF ResetMeta, ListAt, WriteHint, Finish, database,
     observed, CacheRecs
<1>25. CASE DropMeta(w)
  BY <1>25, <1>00 DEF DropMeta, ListAt, Finish, database, observed, CacheRecs
<1>26. CASE ListCrash(w)
  BY <1>26, <1>00 DEF ListCrash, Finish, database, observed, CacheRecs
<1> QED
  BY <1>1, <1>2, <1>3, <1>4, <1>5, <1>6, <1>7, <1>8, <1>9, <1>10, <1>11, <1>12,
     <1>13, <1>14, <1>15, <1>16, <1>17, <1>18, <1>19, <1>20, <1>21, <1>22,
     <1>23, <1>24, <1>25, <1>26 DEF Does, Step

\* Operations are only called by Begin.
LEMMA OpsGrow ==
    ASSUME NEW w \in Writers, ListTypeOK, Does(w)
    PROVE  ops \in Nat /\ ops' \in {ops, ops + 1}
<1>00. ops \in Nat
  BY DEF ListTypeOK
<1>1. ASSUME NEW kind \in Kinds, ListBegin(w, kind)
      PROVE  ops \in Nat /\ ops' \in {ops, ops + 1}
  BY <1>1, <1>00 DEF ListBegin, FirstStep, database, observed
<1>2. CASE ReadLast(w)
  BY <1>2, <1>00 DEF ReadLast, ListAt, database, observed
<1>3. CASE FindNeighbours(w)
  BY <1>3, <1>00 DEF FindNeighbours, ListAt, Know, database, observed
<1>4. CASE Create(w)
  BY <1>4, <1>00 DEF Create, ListAt, ToTouch, database, observed
<1>5. CASE Collide(w)
  BY <1>5, <1>00 DEF Collide, ListAt, Again, Finish, FirstStep, database,
     observed
<1>6. CASE ReadRanks(w)
  BY <1>6, <1>00 DEF ReadRanks, ListAt, Know, database, observed
<1>7. CASE ReadItems(w)
  BY <1>7, <1>00 DEF ReadItems, ListAt, Know, database, observed
<1>8. CASE FindNothing(w)
  BY <1>8, <1>00 DEF FindNothing, ListAt, Know, Finish, database, observed
<1>9. CASE Dispatch(w)
  BY <1>9, <1>00 DEF Dispatch, ListAt, database, observed
<1>10. CASE GetItem(w)
  BY <1>10, <1>00 DEF GetItem, ListAt, Again, Finish, database, observed
<1>11. CASE TakeOut(w)
  BY <1>11, <1>00 DEF TakeOut, ListAt, Drop, ToTouch, database, observed
<1>12. CASE Replace(w)
  BY <1>12, <1>00 DEF Replace, ListAt, ToTouch, database, observed
<1>13. CASE Changed(w)
  BY <1>13, <1>00 DEF Changed, ListAt, Again, Finish, database, observed
<1>14. CASE SetItem(w)
  BY <1>14, <1>00 DEF SetItem, ListAt, ToTouch, database, observed
<1>15. CASE DelItem(w)
  BY <1>15, <1>00 DEF DelItem, ListAt, Drop, ToTouch, database, observed
<1>16. CASE Touch(w)
  BY <1>16, <1>00 DEF Touch, ListAt, WriteHint, Recorded, Finish, database,
     observed
<1>17. CASE TouchLoses(w)
  BY <1>17, <1>00 DEF TouchLoses, ListAt, Finish, database, observed
<1>18. CASE Reread(w)
  BY <1>18, <1>00 DEF Reread, ListAt, database, observed
<1>19. CASE TouchAbsent(w)
  BY <1>19, <1>00 DEF TouchAbsent, ListAt, database, observed
<1>20. CASE Put(w)
  BY <1>20, <1>00 DEF Put, ListAt, WriteHint, Recorded, Finish, database,
     observed
<1>21. CASE ReadRange(w)
  BY <1>21, <1>00 DEF ReadRange, ListAt, Know, ListGoto, database, observed
<1>22. CASE WipeRow(w)
  BY <1>22, <1>00 DEF WipeRow, ListAt, Drop, database, observed
<1>23. CASE Wiped(w)
  BY <1>23, <1>00 DEF Wiped, ListAt, ListGoto, database, observed
<1>24. CASE ResetMeta(w)
  BY <1>24, <1>00 DEF ResetMeta, ListAt, WriteHint, Finish, database, observed
<1>25. CASE DropMeta(w)
  BY <1>25, <1>00 DEF DropMeta, ListAt, Finish, database, observed
<1>26. CASE ListCrash(w)
  BY <1>26, <1>00 DEF ListCrash, Finish, database, observed
<1> QED
  BY <1>1, <1>2, <1>3, <1>4, <1>5, <1>6, <1>7, <1>8, <1>9, <1>10, <1>11, <1>12,
     <1>13, <1>14, <1>15, <1>16, <1>17, <1>18, <1>19, <1>20, <1>21, <1>22,
     <1>23, <1>24, <1>25, <1>26 DEF Does, Step

\* An operation has what its next step needs.
LEMMA OwnFits ==
    ASSUME NEW w \in Writers, ListBase, Does(w)
    PROVE  OpOK(w)'
<1>00. /\ op \in [Writers -> OpRecs] /\ rows \in [Ranks -> Items \cup {NoItem}]
       /\ ops \in Nat /\ OpOK(w)
  BY DEF ListBase, ListTypeOK, OpRecs
<1>01. op[w].kind \in Kinds \cup {"none"} /\ op[w] \in OpRecs
  BY <1>00 DEF OpRecs
<1>1. ASSUME NEW kind \in Kinds, ListBegin(w, kind)
      PROVE  OpOK(w)'
  BY <1>1, <1>00, <1>01, Bounds DEF ListBegin, FirstStep, database,
     observed, OpOK, Active, Emptied, Emptying, Matching, ByHandle, Unrecorded,
     Held, NoOp, Adding, Counting, Positional
<1>2. CASE ReadLast(w)
  BY <1>2, <1>00, <1>01, Bounds DEF ReadLast, ListAt, database, observed,
     OpOK, Active, Emptied, Emptying, Matching, ByHandle, Unrecorded, Held,
     NoOp, Adding, Counting, Positional
<1>3. CASE FindNeighbours(w)
  BY <1>3, <1>00, <1>01, Bounds DEF FindNeighbours, ListAt, Know, database,
     observed, OpOK, Active, Emptied, Emptying, Matching, ByHandle, Unrecorded,
     Held, NoOp, Adding, Counting, Positional
<1>4. CASE Create(w)
  BY <1>4, <1>00, <1>01, Bounds DEF Create, ListAt, ToTouch, database,
     observed, OpOK, Active, Emptied, Emptying, Matching, ByHandle, Unrecorded,
     Held, NoOp, Adding, Counting, Positional
<1>5. CASE Collide(w)
  <2>1. op'[w] = NoOp \/ (op'[w].step \in {"last", "ranks"} /\ Same(w))
    BY <1>00, <1>5, CollidesOrDone
  <2>2. op[w].step # "idle" /\ ops' = ops
    BY <1>5 DEF Collide, ListAt, observed
  <2> QED
    BY <1>00, <2>1, <2>2 DEF Same, OpOK, Active, Emptied, NoOp
<1>6. CASE ReadRanks(w)
  BY <1>6, <1>00, <1>01, Bounds DEF ReadRanks, ListAt, Know, database,
     observed, OpOK, Active, Emptied, Emptying, Matching, ByHandle, Unrecorded,
     Held, NoOp, Adding, Counting, Positional
<1>7. CASE ReadItems(w)
  BY <1>7, <1>00, <1>01, Bounds DEF ReadItems, ListAt, Know, database,
     observed, OpOK, Active, Emptied, Emptying, Matching, ByHandle, Unrecorded,
     Held, NoOp, Adding, Counting, Positional
<1>8. CASE FindNothing(w)
  BY <1>8, <1>00, <1>01, Bounds DEF FindNothing, ListAt, Know, Finish,
     database, observed, OpOK, Active, Emptied, Emptying, Matching, ByHandle,
     Unrecorded, Held, NoOp, Adding, Counting, Positional
<1>9. CASE Dispatch(w)
  BY <1>9, <1>00, <1>01, Bounds DEF Dispatch, ListAt, database, observed,
     OpOK, Active, Emptied, Emptying, Matching, ByHandle, Unrecorded, Held,
     NoOp, Adding, Counting, Positional
<1>10. CASE GetItem(w)
  <2>1. \/ op'[w] = NoOp
        \/ op'[w].step = "ranks" /\ Same(w)
        \/ /\ rows[op[w].at] # NoItem /\ op'[w].seen = rows[op[w].at]
           /\ op'[w].step = "write" /\ op'[w].item = op[w].item
           /\ op'[w].at = op[w].at
    BY <1>00, <1>10, GetsOrNot
  <2>2. op[w].step = "get" /\ ops' = ops
    BY <1>10 DEF GetItem, ListAt, observed
  <2> QED
    BY <1>00, <2>1, <2>2 DEF Same, OpOK, Active, Emptied, NoOp
<1>11. CASE TakeOut(w)
  BY <1>11, <1>00, <1>01, Bounds DEF TakeOut, ListAt, Drop, ToTouch,
     database, observed, OpOK, Active, Emptied, Emptying, Matching, ByHandle,
     Unrecorded, Held, NoOp, Adding, Counting, Positional
<1>12. CASE Replace(w)
  BY <1>12, <1>00, <1>01, Bounds DEF Replace, ListAt, ToTouch, database,
     observed, OpOK, Active, Emptied, Emptying, Matching, ByHandle, Unrecorded,
     Held, NoOp, Adding, Counting, Positional
<1>13. CASE Changed(w)
  <2>1. op'[w] = NoOp \/ (op'[w].step = "ranks" /\ Same(w))
    BY <1>00, <1>13, ChangedOrDone
  <2>2. op[w].step # "idle" /\ ops' = ops
    BY <1>13 DEF Changed, ListAt, observed
  <2> QED
    BY <1>00, <2>1, <2>2 DEF Same, OpOK, Active, Emptied, NoOp
<1>14. CASE SetItem(w)
  BY <1>14, <1>00, <1>01, Bounds DEF SetItem, ListAt, ToTouch, database,
     observed, OpOK, Active, Emptied, Emptying, Matching, ByHandle, Unrecorded,
     Held, NoOp, Adding, Counting, Positional
<1>15. CASE DelItem(w)
  BY <1>15, <1>00, <1>01, Bounds DEF DelItem, ListAt, Drop, ToTouch,
     database, observed, OpOK, Active, Emptied, Emptying, Matching, ByHandle,
     Unrecorded, Held, NoOp, Adding, Counting, Positional
<1>16. CASE Touch(w)
  BY <1>16, <1>00, <1>01, Bounds DEF Touch, ListAt, WriteHint, Recorded,
     Finish, database, observed, OpOK, Active, Emptied, Emptying, Matching,
     ByHandle, Unrecorded, Held, NoOp, Adding, Counting, Positional
<1>17. CASE TouchLoses(w)
  <2>1. op'[w] = NoOp \/ (op'[w].step = "reread" /\ Same(w))
    BY <1>00, <1>17, LosesOrDone
  <2>2. op[w].step # "idle" /\ ops' = ops
    BY <1>17 DEF TouchLoses, ListAt, observed
  <2> QED
    BY <1>00, <2>1, <2>2 DEF Same, OpOK, Active, Emptied, NoOp
<1>18. CASE Reread(w)
  BY <1>18, <1>00, <1>01, Bounds DEF Reread, ListAt, database, observed,
     OpOK, Active, Emptied, Emptying, Matching, ByHandle, Unrecorded, Held,
     NoOp, Adding, Counting, Positional
<1>19. CASE TouchAbsent(w)
  BY <1>19, <1>00, <1>01, Bounds DEF TouchAbsent, ListAt, database,
     observed, OpOK, Active, Emptied, Emptying, Matching, ByHandle, Unrecorded,
     Held, NoOp, Adding, Counting, Positional
<1>20. CASE Put(w)
  BY <1>20, <1>00, <1>01, Bounds DEF Put, ListAt, WriteHint, Recorded,
     Finish, database, observed, OpOK, Active, Emptied, Emptying, Matching,
     ByHandle, Unrecorded, Held, NoOp, Adding, Counting, Positional
<1>21. CASE ReadRange(w)
  BY <1>21, <1>00, <1>01, Bounds DEF ReadRange, ListAt, Know, ListGoto,
     database, observed, OpOK, Active, Emptied, Emptying, Matching, ByHandle,
     Unrecorded, Held, NoOp, Adding, Counting, Positional
<1>22. CASE WipeRow(w)
  BY <1>22, <1>00, <1>01, Bounds DEF WipeRow, ListAt, Drop, database,
     observed, OpOK, Active, Emptied, Emptying, Matching, ByHandle, Unrecorded,
     Held, NoOp, Adding, Counting, Positional
<1>23. CASE Wiped(w)
  BY <1>23, <1>00, <1>01, Bounds DEF Wiped, ListAt, ListGoto, database,
     observed, OpOK, Active, Emptied, Emptying, Matching, ByHandle, Unrecorded,
     Held, NoOp, Adding, Counting, Positional
<1>24. CASE ResetMeta(w)
  BY <1>24, <1>00, <1>01, Bounds DEF ResetMeta, ListAt, WriteHint, Finish,
     database, observed, OpOK, Active, Emptied, Emptying, Matching, ByHandle,
     Unrecorded, Held, NoOp, Adding, Counting, Positional
<1>25. CASE DropMeta(w)
  BY <1>25, <1>00, <1>01, Bounds DEF DropMeta, ListAt, Finish, database,
     observed, OpOK, Active, Emptied, Emptying, Matching, ByHandle, Unrecorded,
     Held, NoOp, Adding, Counting, Positional
<1>26. CASE ListCrash(w)
  BY <1>26, <1>00, <1>01, Bounds DEF ListCrash, Finish, database, observed,
     OpOK, Active, Emptied, Emptying, Matching, ByHandle, Unrecorded, Held,
     NoOp, Adding, Counting, Positional
<1> QED
  BY <1>1, <1>2, <1>3, <1>4, <1>5, <1>6, <1>7, <1>8, <1>9, <1>10, <1>11, <1>12,
     <1>13, <1>14, <1>15, <1>16, <1>17, <1>18, <1>19, <1>20, <1>21, <1>22,
     <1>23, <1>24, <1>25, <1>26 DEF Does, Step

\* Every step looks for a race.
LEMMA Watched ==
    ASSUME NEW w \in Writers, Does(w)
    PROVE  Watch
  BY DEF Does, Step, ListBegin, ReadLast, FindNeighbours, Create, Collide,
     ReadRanks, ReadItems, FindNothing, Dispatch, GetItem, TakeOut, Replace,
     Changed, SetItem, DelItem, Touch, TouchLoses, Reread, TouchAbsent, Put,
     ReadRange, WipeRow, Wiped, ResetMeta, DropMeta, ListCrash

\* Every step is a step of a writer.
LEMMA NextDoes ==
    ASSUME ListNext
    PROVE  \E w \in Writers : Does(w)
  BY DEF ListNext, Does

\* Arithmetic.
LEMMA SumsGrow ==
    ASSUME NEW a \in Nat, NEW b \in Nat, NEW c \in Nat, b <= c
    PROVE  a + b \in Nat /\ a + c \in Nat /\ a + b <= a + c
  OBVIOUS

\* The range of items that were given out only grows.
LEMMA Widens ==
    ASSUME NEW a \in Nat, NEW b \in Nat, NEW c \in Nat, b <= c
    PROVE  \A i \in a + 1..a + b : i \in a + 1..a + c
  OBVIOUS

\* Every step keeps the types, and what the operations need.
LEMMA BaseStep ==
    ASSUME ListBase, NEW w \in Writers, Does(w)
    PROVE  ListBase'
<1>1. ListTypeOK /\ \A v \in Writers : OpOK(v)
  BY DEF ListBase
<1>2. raced' \in BOOLEAN
  BY Watched DEF Watch
<1>3. ListTypeOK'
  <2>1. op' \in [Writers -> OpRecs] /\ cache' \in [Writers -> CacheRecs]
    BY OpTypes, CacheTypes
  <2>2. rows' \in [Ranks -> Items \cup {NoItem}]
    BY RowTypes
  <2>3. meta' \in Metas /\ tokens' \in Nat /\ meta'.token <= tokens'
    BY MetaTypes
  <2>4. /\ ops' \in 0..MaxOps /\ committed' \in SUBSET Items
        /\ destroyed' \in SUBSET Items
        /\ reported' \in [Items -> Items \cup {NoItem}]
        /\ failed' \in Nat /\ crashes' \in 0..MaxCrashes
    BY ObservedTypes
  <2> QED
    BY <1>2, <2>1, <2>2, <2>3, <2>4 DEF ListTypeOK, OpRecs, CacheRecs
<1>4. ASSUME NEW v \in Writers
      PROVE  OpOK(v)'
  <2>1. CASE v = w
    BY <2>1, OwnFits
  <2>2. CASE v # w
    <3>1. op'[v] = op[v] /\ ops \in Nat /\ ops' \in {ops, ops + 1}
      BY <1>1, <2>2, OthersKeep, OpsGrow
    <3>2. OpOK(v)
      BY <1>1
    <3>3. \A i \in MaxInitial + 1..MaxInitial + ops :
             i \in MaxInitial + 1..MaxInitial + ops'
      <4>1. MaxInitial \in Nat
        BY Bounds
      <4>2. ops \in Nat /\ ops' \in Nat /\ ops <= ops'
        BY <1>1, OpsGrow
      <4> QED
        BY <4>1, <4>2, Widens
    <3> QED
      BY <3>1, <3>2, <3>3 DEF OpOK, Active, Emptied
  <2> QED
    BY <2>1, <2>2
<1> QED
  BY <1>3, <1>4 DEF ListBase

\* The next item.
Fresh == MaxInitial + ops + 1

\* An operation keeps its item.
LEMMA OwnItem ==
    ASSUME NEW w \in Writers, ListBase, Does(w)
    PROVE  Active(w)' =>
               \/ Active(w) /\ op'[w].item = op[w].item
               \/ ~Active(w) /\ op'[w].item = Fresh
<1>0. ListTypeOK /\ \A v \in Writers : OpOK(v)
  BY DEF ListBase
<1>00. op \in [Writers -> OpRecs]
  BY <1>0 DEF ListTypeOK, OpRecs
<1>1. ASSUME NEW kind \in Kinds, ListBegin(w, kind)
      PROVE  Active(w)' =>
               \/ Active(w) /\ op'[w].item = op[w].item
               \/ ~Active(w) /\ op'[w].item = Fresh
  BY <1>1, <1>00 DEF ListBegin, FirstStep, Emptying, Active, Fresh, NoOp
<1>2. CASE ReadLast(w)
  BY <1>2, <1>00 DEF ReadLast, ListAt, database, observed, Active, NoOp
<1>3. CASE FindNeighbours(w)
  BY <1>3, <1>00 DEF FindNeighbours, ListAt, Know, database, observed,
     Active, NoOp
<1>4. CASE Create(w)
  BY <1>4, <1>00 DEF Create, ListAt, ToTouch, database, observed, Active, NoOp
<1>5. CASE Collide(w)
  <2>1. op'[w] = NoOp \/ (op'[w].step \in {"last", "ranks"} /\ Same(w))
    BY <1>00, <1>5, CollidesOrDone
  <2>2. op[w].step # "idle"
    BY <1>5 DEF Collide, ListAt
  <2> QED
    BY <1>00, <2>1, <2>2 DEF Same, Active, NoOp
<1>6. CASE ReadRanks(w)
  BY <1>6, <1>00 DEF ReadRanks, ListAt, Know, database, observed, Active, NoOp
<1>7. CASE ReadItems(w)
  BY <1>7, <1>00 DEF ReadItems, ListAt, Know, database, observed, Active, NoOp
<1>8. CASE FindNothing(w)
  BY <1>8, <1>00 DEF FindNothing, ListAt, Know, Finish, database, observed,
     Active, NoOp
<1>9. CASE Dispatch(w)
  BY <1>9, <1>00 DEF Dispatch, ListAt, database, observed, Active, NoOp
<1>10. CASE GetItem(w)
  <2>1. op'[w] = NoOp \/ ((op'[w].step = "ranks" /\ Same(w)) \/ (op'[w].step =
     "write" /\ op'[w].item = op[w].item))
    BY <1>00, <1>10, GetsOrNot
  <2>2. op[w].step # "idle"
    BY <1>10 DEF GetItem, ListAt
  <2> QED
    BY <1>00, <2>1, <2>2 DEF Same, Active, NoOp
<1>11. CASE TakeOut(w)
  BY <1>11, <1>00 DEF TakeOut, ListAt, Drop, ToTouch, database, observed,
     Active, NoOp
<1>12. CASE Replace(w)
  BY <1>12, <1>00 DEF Replace, ListAt, ToTouch, database, observed, Active,
     NoOp
<1>13. CASE Changed(w)
  <2>1. op'[w] = NoOp \/ (op'[w].step = "ranks" /\ Same(w))
    BY <1>00, <1>13, ChangedOrDone
  <2>2. op[w].step # "idle"
    BY <1>13 DEF Changed, ListAt
  <2> QED
    BY <1>00, <2>1, <2>2 DEF Same, Active, NoOp
<1>14. CASE SetItem(w)
  BY <1>14, <1>00 DEF SetItem, ListAt, ToTouch, database, observed, Active,
     NoOp
<1>15. CASE DelItem(w)
  BY <1>15, <1>00 DEF DelItem, ListAt, Drop, ToTouch, database, observed,
     Active, NoOp
<1>16. CASE Touch(w)
  BY <1>16, <1>00 DEF Touch, ListAt, WriteHint, Recorded, Finish, database,
     observed, Active, NoOp
<1>17. CASE TouchLoses(w)
  <2>1. op'[w] = NoOp \/ (op'[w].step = "reread" /\ Same(w))
    BY <1>00, <1>17, LosesOrDone
  <2>2. op[w].step # "idle"
    BY <1>17 DEF TouchLoses, ListAt
  <2> QED
    BY <1>00, <2>1, <2>2 DEF Same, Active, NoOp
<1>18. CASE Reread(w)
  BY <1>18, <1>00 DEF Reread, ListAt, database, observed, Active, NoOp
<1>19. CASE TouchAbsent(w)
  BY <1>19, <1>00 DEF TouchAbsent, ListAt, database, observed, Active, NoOp
<1>20. CASE Put(w)
  BY <1>20, <1>00 DEF Put, ListAt, WriteHint, Recorded, Finish, database,
     observed, Active, NoOp
<1>21. CASE ReadRange(w)
  BY <1>21, <1>00 DEF ReadRange, ListAt, Know, ListGoto, database, observed,
     Active, NoOp
<1>22. CASE WipeRow(w)
  BY <1>22, <1>00 DEF WipeRow, ListAt, Drop, database, observed, Active, NoOp
<1>23. CASE Wiped(w)
  BY <1>23, <1>00 DEF Wiped, ListAt, ListGoto, database, observed, Active, NoOp
<1>24. CASE ResetMeta(w)
  BY <1>24, <1>00 DEF ResetMeta, ListAt, WriteHint, Finish, database,
     observed, Active, NoOp
<1>25. CASE DropMeta(w)
  BY <1>25, <1>00 DEF DropMeta, ListAt, Finish, database, observed, Active,
     NoOp
<1>26. CASE ListCrash(w)
  BY <1>26, <1>00 DEF ListCrash, Finish, database, observed, Active, NoOp
<1> QED
  BY <1>1, <1>2, <1>3, <1>4, <1>5, <1>6, <1>7, <1>8, <1>9, <1>10, <1>11, <1>12,
     <1>13, <1>14, <1>15, <1>16, <1>17, <1>18, <1>19, <1>20, <1>21, <1>22,
     <1>23, <1>24, <1>25, <1>26 DEF Does, Step

\* Only the item of the operation is written.
LEMMA WritesOwn ==
    ASSUME NEW w \in Writers, ListBase, Does(w)
    PROVE  \/ UNCHANGED <<committed, reported>>
           \/ /\ Active(w) /\ op'[w].step = "touch" /\ UNCHANGED ops
              /\ op[w].step \in {"create", "write"}
              /\ committed' \subseteq committed \cup {op[w].item}
              /\ \A i \in Items : i # op[w].item => reported'[i] = reported[i]
<1>0. ListTypeOK /\ \A v \in Writers : OpOK(v)
  BY DEF ListBase
<1>00. op \in [Writers -> OpRecs]
  BY <1>0 DEF ListTypeOK, OpRecs
<1>01. reported \in [Items -> Items \cup {NoItem}]
  BY <1>0 DEF ListTypeOK
<1>1. ASSUME NEW kind \in Kinds, ListBegin(w, kind)
      PROVE  \/ UNCHANGED <<committed, reported>>
           \/ /\ Active(w) /\ op'[w].step = "touch" /\ UNCHANGED ops
              /\ op[w].step \in {"create", "write"}
              /\ committed' \subseteq committed \cup {op[w].item}
              /\ \A i \in Items : i # op[w].item => reported'[i] = reported[i]
  BY <1>1, <1>00, <1>01 DEF ListBegin, FirstStep, database, observed, Active
<1>2. CASE ReadLast(w)
  BY <1>2, <1>00, <1>01 DEF ReadLast, ListAt, database, observed, Active
<1>3. CASE FindNeighbours(w)
  BY <1>3, <1>00, <1>01 DEF FindNeighbours, ListAt, Know, database,
     observed, Active
<1>4. CASE Create(w)
  BY <1>4, <1>00, <1>01 DEF Create, ListAt, ToTouch, database, observed, Active
<1>5. CASE Collide(w)
  BY <1>5 DEF Collide, observed
<1>6. CASE ReadRanks(w)
  BY <1>6, <1>00, <1>01 DEF ReadRanks, ListAt, Know, database, observed, Active
<1>7. CASE ReadItems(w)
  BY <1>7, <1>00, <1>01 DEF ReadItems, ListAt, Know, database, observed, Active
<1>8. CASE FindNothing(w)
  BY <1>8, <1>00, <1>01 DEF FindNothing, ListAt, Know, Finish, database,
     observed, Active
<1>9. CASE Dispatch(w)
  BY <1>9, <1>00, <1>01 DEF Dispatch, ListAt, database, observed, Active
<1>10. CASE GetItem(w)
  BY <1>10 DEF GetItem, observed
<1>11. CASE TakeOut(w)
  BY <1>11, <1>00, <1>01 DEF TakeOut, ListAt, Drop, ToTouch, database,
     observed, Active
<1>12. CASE Replace(w)
  BY <1>12, <1>00, <1>01 DEF Replace, ListAt, ToTouch, database, observed,
     Active
<1>13. CASE Changed(w)
  BY <1>13 DEF Changed, observed
<1>14. CASE SetItem(w)
  BY <1>14, <1>00, <1>01 DEF SetItem, ListAt, ToTouch, database, observed,
     Active
<1>15. CASE DelItem(w)
  BY <1>15, <1>00, <1>01 DEF DelItem, ListAt, Drop, ToTouch, database,
     observed, Active
<1>16. CASE Touch(w)
  BY <1>16, <1>00, <1>01 DEF Touch, ListAt, WriteHint, Recorded, Finish,
     database, observed, Active
<1>17. CASE TouchLoses(w)
  BY <1>17 DEF TouchLoses, observed
<1>18. CASE Reread(w)
  BY <1>18, <1>00, <1>01 DEF Reread, ListAt, database, observed, Active
<1>19. CASE TouchAbsent(w)
  BY <1>19, <1>00, <1>01 DEF TouchAbsent, ListAt, database, observed, Active
<1>20. CASE Put(w)
  BY <1>20, <1>00, <1>01 DEF Put, ListAt, WriteHint, Recorded, Finish,
     database, observed, Active
<1>21. CASE ReadRange(w)
  BY <1>21, <1>00, <1>01 DEF ReadRange, ListAt, Know, ListGoto, database,
     observed, Active
<1>22. CASE WipeRow(w)
  BY <1>22, <1>00, <1>01 DEF WipeRow, ListAt, Drop, database, observed, Active
<1>23. CASE Wiped(w)
  BY <1>23, <1>00, <1>01 DEF Wiped, ListAt, ListGoto, database, observed,
     Active
<1>24. CASE ResetMeta(w)
  BY <1>24, <1>00, <1>01 DEF ResetMeta, ListAt, WriteHint, Finish, database,
     observed, Active
<1>25. CASE DropMeta(w)
  BY <1>25, <1>00, <1>01 DEF DropMeta, ListAt, Finish, database, observed,
     Active
<1>26. CASE ListCrash(w)
  BY <1>26, <1>00, <1>01 DEF ListCrash, Finish, database, observed, Active
<1> QED
  BY <1>1, <1>2, <1>3, <1>4, <1>5, <1>6, <1>7, <1>8, <1>9, <1>10, <1>11, <1>12,
     <1>13, <1>14, <1>15, <1>16, <1>17, <1>18, <1>19, <1>20, <1>21, <1>22,
     <1>23, <1>24, <1>25, <1>26 DEF Does, Step

\* What is written stays written.
LEMMA StepsOnward ==
    ASSUME NEW w \in Writers, ListBase, Does(w)
    PROVE  Active(w) /\ op'[w].step \in Unwritten => op[w].step \in Unwritten
<1>0. ListTypeOK /\ \A v \in Writers : OpOK(v)
  BY DEF ListBase
<1>00. op \in [Writers -> OpRecs]
  BY <1>0 DEF ListTypeOK, OpRecs
<1>1. ASSUME NEW kind \in Kinds, ListBegin(w, kind)
      PROVE  Active(w) /\ op'[w].step \in Unwritten => op[w].step \in Unwritten
  BY <1>1, <1>00 DEF ListBegin, FirstStep, database, observed, Active,
     Unwritten, NoOp
<1>2. CASE ReadLast(w)
  BY <1>2, <1>00 DEF ReadLast, ListAt, database, observed, Active,
     Unwritten, NoOp
<1>3. CASE FindNeighbours(w)
  BY <1>3, <1>00 DEF FindNeighbours, ListAt, Know, database, observed,
     Active, Unwritten, NoOp
<1>4. CASE Create(w)
  BY <1>4, <1>00 DEF Create, ListAt, ToTouch, database, observed, Active,
     Unwritten, NoOp
<1>5. CASE Collide(w)
  BY <1>5 DEF Collide, ListAt, Unwritten
<1>6. CASE ReadRanks(w)
  BY <1>6, <1>00 DEF ReadRanks, ListAt, Know, database, observed, Active,
     Unwritten, NoOp
<1>7. CASE ReadItems(w)
  BY <1>7, <1>00 DEF ReadItems, ListAt, Know, database, observed, Active,
     Unwritten, NoOp
<1>8. CASE FindNothing(w)
  BY <1>8, <1>00 DEF FindNothing, ListAt, Know, Finish, database, observed,
     Active, Unwritten, NoOp
<1>9. CASE Dispatch(w)
  BY <1>9, <1>00 DEF Dispatch, ListAt, database, observed, Active,
     Unwritten, NoOp
<1>10. CASE GetItem(w)
  BY <1>10 DEF GetItem, ListAt, Unwritten
<1>11. CASE TakeOut(w)
  BY <1>11, <1>00 DEF TakeOut, ListAt, Drop, ToTouch, database, observed,
     Active, Unwritten, NoOp
<1>12. CASE Replace(w)
  BY <1>12, <1>00 DEF Replace, ListAt, ToTouch, database, observed, Active,
     Unwritten, NoOp
<1>13. CASE Changed(w)
  BY <1>13 DEF Changed, ListAt, Unwritten
<1>14. CASE SetItem(w)
  BY <1>14, <1>00 DEF SetItem, ListAt, ToTouch, database, observed, Active,
     Unwritten, NoOp
<1>15. CASE DelItem(w)
  BY <1>15, <1>00 DEF DelItem, ListAt, Drop, ToTouch, database, observed,
     Active, Unwritten, NoOp
<1>16. CASE Touch(w)
  BY <1>16, <1>00 DEF Touch, ListAt, WriteHint, Recorded, Finish, database,
     observed, Active, Unwritten, NoOp
<1>17. CASE TouchLoses(w)
  <2>1. op'[w] = NoOp \/ (op'[w].step = "reread" /\ Same(w))
    BY <1>00, <1>17, LosesOrDone
  <2> QED
    BY <2>1 DEF Unwritten, NoOp
<1>18. CASE Reread(w)
  BY <1>18, <1>00 DEF Reread, ListAt, database, observed, Active, Unwritten,
     NoOp
<1>19. CASE TouchAbsent(w)
  BY <1>19, <1>00 DEF TouchAbsent, ListAt, database, observed, Active,
     Unwritten, NoOp
<1>20. CASE Put(w)
  BY <1>20, <1>00 DEF Put, ListAt, WriteHint, Recorded, Finish, database,
     observed, Active, Unwritten, NoOp
<1>21. CASE ReadRange(w)
  BY <1>21, <1>00 DEF ReadRange, ListAt, Know, ListGoto, database, observed,
     Active, Unwritten, NoOp
<1>22. CASE WipeRow(w)
  BY <1>22, <1>00 DEF WipeRow, ListAt, Drop, database, observed, Active,
     Unwritten, NoOp
<1>23. CASE Wiped(w)
  BY <1>23, <1>00 DEF Wiped, ListAt, ListGoto, database, observed, Active,
     Unwritten, NoOp
<1>24. CASE ResetMeta(w)
  BY <1>24, <1>00 DEF ResetMeta, ListAt, WriteHint, Finish, database,
     observed, Active, Unwritten, NoOp
<1>25. CASE DropMeta(w)
  BY <1>25, <1>00 DEF DropMeta, ListAt, Finish, database, observed, Active,
     Unwritten, NoOp
<1>26. CASE ListCrash(w)
  BY <1>26, <1>00 DEF ListCrash, Finish, database, observed, Active,
     Unwritten, NoOp
<1> QED
  BY <1>1, <1>2, <1>3, <1>4, <1>5, <1>6, <1>7, <1>8, <1>9, <1>10, <1>11, <1>12,
     <1>13, <1>14, <1>15, <1>16, <1>17, <1>18, <1>19, <1>20, <1>21, <1>22,
     <1>23, <1>24, <1>25, <1>26 DEF Does, Step

\* The item of an operation is none that will be given to another.
LEMMA OwnItemStays ==
    ASSUME ListBase, NEW v \in Writers, Active(v)
    PROVE  /\ op[v].item \in MaxInitial + 1..MaxInitial + ops
           /\ op[v].item \in Items /\ op[v].item # Fresh /\ op[v].item # NoItem
<1>1. op[v].item \in MaxInitial + 1..MaxInitial + ops
  BY DEF ListBase, OpOK
<1>2. ops \in 0..MaxOps
  BY DEF ListBase, ListTypeOK
<1> QED
  BY <1>1, <1>2, Bounds DEF Items, Fresh, NoItem

\* No step makes two operations share an item,
LEMMA ItemsStepOwn ==
    ASSUME ListBase, ItemsOfTheirOwn, NEW w \in Writers, Does(w)
    PROVE  ItemsOfTheirOwn'
<1>1. SUFFICES ASSUME NEW u \in Writers, NEW v \in Writers, Active(u)',
                      Active(v)', op'[u].item = op'[v].item
               PROVE  u = v
  BY DEF ItemsOfTheirOwn
<1>2. ASSUME NEW x \in Writers, x # w, Active(x)'
      PROVE  Active(x) /\ op'[x].item = op[x].item
  BY <1>2, OthersKeep DEF ListBase, Active
<1>3. ASSUME NEW x \in Writers, x # w, Active(x)', Active(w)',
             op'[x].item = op'[w].item
      PROVE  FALSE
  <2>1. Active(x) /\ op'[x].item = op[x].item /\ op[x].item # Fresh
    BY <1>2, <1>3, OwnItemStays
  <2>2. Active(w) /\ op'[w].item = op[w].item
    BY <1>3, <2>1, OwnItem
  <2> QED
    BY <1>3, <2>1, <2>2 DEF ItemsOfTheirOwn
<1>4. CASE u = w \/ v = w
  BY <1>1, <1>3, <1>4
<1>5. CASE u # w /\ v # w
  BY <1>1, <1>2, <1>5 DEF ItemsOfTheirOwn
<1> QED
  BY <1>4, <1>5

\* writes the item of an operation to come,
LEMMA NewItemsStep ==
    ASSUME ListBase, NewItems, NEW w \in Writers, Does(w)
    PROVE  NewItems'
<1> DEFINE bound == MaxInitial + ops
<1>1. /\ bound \in Nat /\ bound' \in Nat /\ bound <= bound'
      /\ committed \subseteq 1..bound
      /\ \A i \in Items : i > bound => reported[i] = NoItem
  <2>1. ops \in Nat /\ ops' \in Nat /\ ops <= ops'
    BY OpsGrow DEF ListBase
  <2>2. MaxInitial \in Nat
    BY Bounds
  <2>3. bound \in Nat /\ bound' \in Nat /\ bound <= bound'
    BY <2>1, <2>2, SumsGrow
  <2> QED
    BY <2>3 DEF NewItems
<1>2. Active(w) => op[w].item \in 1..bound
  <2>1. Active(w) => op[w].item \in MaxInitial + 1..bound
    BY OwnItemStays
  <2> QED
    BY <1>1, <2>1, Bounds
<1> HIDE DEF bound
<1>3. /\ committed' \subseteq 1..bound
      /\ \A i \in Items : i > bound => reported'[i] = NoItem
  <2>1. CASE UNCHANGED <<committed, reported>>
    BY <1>1, <2>1
  <2>2. CASE /\ Active(w)
             /\ committed' \subseteq committed \cup {op[w].item}
             /\ \A i \in Items : i # op[w].item => reported'[i] = reported[i]
    BY <1>1, <1>2, <2>2
  <2> QED
    BY <2>1, <2>2, WritesOwn
<1>4. /\ committed' \subseteq 1..bound'
      /\ \A i \in Items : i > bound' => reported'[i] = NoItem
  BY <1>1, <1>3 DEF Items
<1> QED
  BY <1>4 DEF NewItems, bound

\* or the item of an operation that has not got there.
LEMMA ItemStep ==
    ASSUME ListBase, ListBase', NewItems, ItemsOfTheirOwn, \A v \in Writers :
       ItemOK(v),
           NEW w \in Writers, Does(w), NEW v \in Writers
    PROVE  ItemOK(v)'
<1>1. SUFFICES ASSUME op'[v].step \in Unwritten
               PROVE  op'[v].item \notin committed' /\ reported'[op'[v].item] =
                  NoItem
  BY DEF ItemOK
<1>2. Active(v)'
  BY <1>1 DEF Unwritten, Active
<1>3. op'[v].item \in Items
  <2>1. op'[v].item \in MaxInitial + 1..MaxInitial + ops' /\ ops' \in 0..MaxOps
    BY <1>2 DEF ListBase, OpOK, ListTypeOK
  <2> QED
    BY <2>1, Bounds DEF Items
<1>4. CASE v # w
  <2>1. op'[v] = op[v] /\ Active(v)
    BY <1>2, <1>4, OthersKeep DEF ListBase, Active
  <2>2. op[v].item \notin committed /\ reported[op[v].item] = NoItem
    BY <1>1, <2>1 DEF ItemOK
  <2>3. Active(w) => op[v].item # op[w].item
    BY <1>4, <2>1 DEF ItemsOfTheirOwn
  <2>4. op[v].item \notin committed' /\ reported'[op[v].item] = NoItem
    BY <1>3, <2>1, <2>2, <2>3, WritesOwn
  <2> QED
    BY <2>1, <2>4
<1>5. CASE v = w /\ Active(w)
  <2>1. op'[w].item = op[w].item
    BY <1>2, <1>5, OwnItem
  <2>2. UNCHANGED <<committed, reported>>
    BY <1>1, <1>5, WritesOwn DEF Unwritten
  <2>3. op[w].step \in Unwritten
    BY <1>1, <1>5, StepsOnward
  <2>4. op[w].item \notin committed /\ reported[op[w].item] = NoItem
    BY <2>3 DEF ItemOK
  <2> QED
    BY <1>5, <2>1, <2>2, <2>4
<1>6. CASE v = w /\ ~Active(w)
  <2>1. op'[w].item = Fresh
    BY <1>2, <1>6, OwnItem
  <2>2. UNCHANGED <<committed, reported>>
    BY <1>6, WritesOwn
  <2>3. Fresh \notin committed /\ reported[Fresh] = NoItem
    <3>1. Fresh > MaxInitial + ops /\ Fresh \notin 1..MaxInitial + ops
      BY Bounds DEF Fresh, ListBase, ListTypeOK
    <3>2. Fresh \in Items
      BY <1>3, <1>6, <2>1
    <3> QED
      BY <3>1, <3>2 DEF NewItems
  <2> QED
    BY <1>6, <2>1, <2>2, <2>3
<1> QED
  BY <1>4, <1>5, <1>6

\* No item is in the list twice,
Distinct == \A r, s \in Ranks : rows[r] = rows[s] => r = s \/ rows[r] = NoItem
\* and none is reported twice.
Single ==
    \A i, j \in Items :
        reported[i] = reported[j] => i = j \/ reported[i] = NoItem

\* What a write to one rank does to the items of the list.
LEMMA ListedAfter ==
    ASSUME rows \in [Ranks -> Items \cup {NoItem}], Distinct, NEW r \in Ranks,
           NEW x \in Items \cup {NoItem}, x = NoItem \/ x \notin Listed,
           rows' = [rows EXCEPT ![r] = x]
    PROVE  /\ Distinct'
           /\ Listed' = (Listed \ {rows[r]}) \cup ({x} \ {NoItem})
<1>1. \A s \in Ranks : rows'[s] = IF s = r THEN x ELSE rows[s]
  OBVIOUS
<1>2. \A s \in Ranks : rows[s] # NoItem => rows[s] \in Listed
  BY DEF Listed
<1>3. Distinct'
  BY <1>1, <1>2 DEF Distinct
<1>4. ASSUME NEW i \in Listed'
      PROVE  i \in (Listed \ {rows[r]}) \cup ({x} \ {NoItem})
  <2>1. PICK s \in Ranks : i = rows'[s] /\ i # NoItem
    BY DEF Listed
  <2>2. CASE s = r
    BY <1>1, <2>1, <2>2
  <2>3. CASE s # r
    BY <1>1, <1>2, <2>1, <2>3 DEF Distinct
  <2> QED
    BY <2>2, <2>3
<1>5. ASSUME NEW i \in (Listed \ {rows[r]}) \cup ({x} \ {NoItem})
      PROVE  i \in Listed'
  <2>1. CASE i = x /\ i # NoItem
    BY <1>1, <2>1 DEF Listed
  <2>2. CASE i \in Listed /\ i # rows[r]
    <3>1. PICK s \in Ranks : i = rows[s] /\ i # NoItem
      BY <2>2 DEF Listed
    <3>2. i = rows'[s]
      BY <1>1, <2>2, <3>1
    <3> QED
      BY <3>1, <3>2 DEF Listed
  <2> QED
    BY <1>5, <2>1, <2>2
<1> QED
  BY <1>3, <1>4, <1>5

\* What a report does to the reported items.
LEMMA ReportedAfter ==
    ASSUME reported \in [Items -> Items \cup {NoItem}], Single,
           NEW i \in Items,
           reported[i] = NoItem, NEW x \in Items, x \notin Reported,
           reported' = [reported EXCEPT ![i] = x], x # NoItem
    PROVE  Single' /\ Reported' = Reported \cup {x}
<1>1. \A j \in Items : reported'[j] = IF j = i THEN x ELSE reported[j]
  OBVIOUS
<1>2. \A j \in Items : reported[j] # NoItem => reported[j] \in Reported
  BY DEF Reported
<1>3. Single'
  BY <1>1, <1>2 DEF Single
<1>4. ASSUME NEW y \in Reported'
      PROVE  y \in Reported \cup {x}
  BY <1>1, <1>4 DEF Reported
<1>5. ASSUME NEW y \in Reported \cup {x}
      PROVE  y \in Reported'
  <2>1. CASE y = x
    BY <1>1, <2>1 DEF Reported
  <2>2. CASE y \in Reported
    <3>1. PICK j \in Items : y = reported[j] /\ y # NoItem
      BY <2>2 DEF Reported
    <3>2. y = reported'[j]
      BY <1>1, <3>1
    <3> QED
      BY <3>1, <3>2 DEF Reported
  <2> QED
    BY <1>5, <2>1, <2>2
<1> QED
  BY <1>3, <1>4, <1>5

\* No step loses or doubles an item.
LEMMA ItemsStep ==
    ASSUME NEW w \in Writers, ListBase, Conserved, Does(w)
    PROVE  ItemsAreConserved'
<1>0. ListTypeOK /\ \A v \in Writers : OpOK(v)
  BY DEF ListBase
<1>00. /\ rows \in [Ranks -> Items \cup {NoItem}]
       /\ reported \in [Items -> Items \cup {NoItem}]
  BY <1>0 DEF ListTypeOK
<1>01. /\ committed = Listed \cup Reported \cup destroyed
       /\ Distinct /\ Single /\ Listed \cap Reported = {}
       /\ Listed \cap destroyed = {} /\ Reported \cap destroyed = {}
  BY DEF Conserved, ItemsAreConserved, Distinct, Single
<1>02. \A v \in Writers : ItemOK(v)
  BY DEF Conserved
<1>1. ASSUME NEW kind \in Kinds, ListBegin(w, kind)
      PROVE  ItemsAreConserved'
  BY <1>1, <1>00, <1>01 DEF ListBegin, FirstStep, database, observed,
     ItemsAreConserved, Distinct, Single, Listed, Reported
<1>2. CASE ReadLast(w)
  BY <1>2, <1>00, <1>01 DEF ReadLast, ListAt, database, observed,
     ItemsAreConserved, Distinct, Single, Listed, Reported
<1>3. CASE FindNeighbours(w)
  BY <1>3, <1>00, <1>01 DEF FindNeighbours, ListAt, Know, database,
     observed, ItemsAreConserved, Distinct, Single, Listed, Reported
<1>4. CASE Create(w)
  <2>1. op[w].at \in Ranks
    BY <1>0, <1>4 DEF OpOK, Create, ListAt
  <2>2. op[w].item \in Items /\ op[w].item # NoItem
    BY <1>0, <1>4, OwnItemStays DEF Active, Create, ListAt
  <2>3. /\ op[w].item \notin Listed /\ op[w].item \notin Reported
        /\ op[w].item \notin committed /\ reported[op[w].item] = NoItem
    BY <1>01, <1>02, <1>4 DEF ItemOK, Unwritten, Create, ListAt
  <2>4. /\ Distinct' /\ Listed' = Listed \cup {op[w].item}
    <3>1. /\ rows[op[w].at] = NoItem
          /\ rows' = [rows EXCEPT ![op[w].at] = op[w].item]
      BY <1>4 DEF Create
    <3>2. /\ Distinct'
          /\ Listed' = (Listed \ {rows[op[w].at]}) \cup ({op[w].item} \
               {NoItem})
      BY <1>00, <1>01, <2>1, <2>2, <2>3, <3>1, ListedAfter
    <3>3. NoItem \notin Listed
      BY DEF Listed
    <3> QED
      BY <2>2, <3>1, <3>2, <3>3
  <2>5. /\ committed' = committed \cup {op[w].item}
        /\ reported' = reported /\ destroyed' = destroyed
    BY <1>4 DEF Create
  <2>6. Single' /\ Reported' = Reported
    BY <1>01, <2>5 DEF Single, Reported
  <2> QED
    BY <1>01, <2>3, <2>4, <2>5, <2>6 DEF ItemsAreConserved, Distinct, Single
<1>5. CASE Collide(w)
  BY <1>5, <1>00, <1>01 DEF Collide, ListAt, Again, Finish, FirstStep,
     database, observed, ItemsAreConserved, Distinct, Single, Listed, Reported
<1>6. CASE ReadRanks(w)
  BY <1>6, <1>00, <1>01 DEF ReadRanks, ListAt, Know, database, observed,
     ItemsAreConserved, Distinct, Single, Listed, Reported
<1>7. CASE ReadItems(w)
  BY <1>7, <1>00, <1>01 DEF ReadItems, ListAt, Know, database, observed,
     ItemsAreConserved, Distinct, Single, Listed, Reported
<1>8. CASE FindNothing(w)
  BY <1>8, <1>00, <1>01 DEF FindNothing, ListAt, Know, Finish, database,
     observed, ItemsAreConserved, Distinct, Single, Listed, Reported
<1>9. CASE Dispatch(w)
  BY <1>9, <1>00, <1>01 DEF Dispatch, ListAt, database, observed,
     ItemsAreConserved, Distinct, Single, Listed, Reported
<1>10. CASE GetItem(w)
  BY <1>10, <1>00, <1>01 DEF GetItem, ListAt, Again, Finish, database,
     observed, ItemsAreConserved, Distinct, Single, Listed, Reported
<1>11. CASE TakeOut(w)
  <2>1. op[w].at \in Ranks
    BY <1>0, <1>11 DEF OpOK, TakeOut, ListAt
  <2>2. op[w].item \in Items /\ op[w].item # NoItem
    BY <1>0, <1>11, OwnItemStays DEF Active, TakeOut, ListAt
  <2>3. /\ op[w].item \notin Listed /\ op[w].item \notin Reported
        /\ op[w].item \notin committed /\ reported[op[w].item] = NoItem
    BY <1>01, <1>02, <1>11 DEF ItemOK, Unwritten, TakeOut, ListAt
  <2>4. /\ rows[op[w].at] = op[w].seen /\ op[w].seen # NoItem
        /\ op[w].seen \in Items
    <3>1. op[w].seen # NoItem
      BY <1>0, <1>11 DEF TakeOut, ListAt, OpOK, Matching, ByHandle
    <3>2. rows[op[w].at] = op[w].seen
      BY <1>11 DEF TakeOut
    <3> QED
      BY <1>00, <2>1, <3>1, <3>2
  <2>5. op[w].seen \in Listed
    BY <2>1, <2>4 DEF Listed
  <2>6. /\ Distinct'
        /\ Listed' = (Listed \ {rows[op[w].at]}) \cup ({NoItem} \ {NoItem})
    BY <1>00, <1>01, <2>1, <1>11, ListedAfter DEF TakeOut
  <2>7. Single' /\ Reported' = Reported \cup {op[w].seen}
    <3>1. reported' = [reported EXCEPT ![op[w].item] = op[w].seen]
      BY <1>11 DEF TakeOut
    <3>2. op[w].seen \notin Reported
      BY <1>01, <2>5
    <3> QED
      BY <1>00, <1>01, <2>2, <2>3, <2>4, <3>1, <3>2, ReportedAfter
  <2>8. committed' = committed /\ destroyed' = destroyed
    BY <1>11 DEF TakeOut
  <2> QED
    BY <1>01, <2>3, <2>4, <2>5, <2>6, <2>7, <2>8 DEF ItemsAreConserved,
       Distinct, Single
<1>12. CASE Replace(w)
  <2>1. op[w].at \in Ranks
    BY <1>0, <1>12 DEF OpOK, Replace, ListAt
  <2>2. op[w].item \in Items /\ op[w].item # NoItem
    BY <1>0, <1>12, OwnItemStays DEF Active, Replace, ListAt
  <2>3. /\ op[w].item \notin Listed /\ op[w].item \notin Reported
        /\ op[w].item \notin committed /\ reported[op[w].item] = NoItem
    BY <1>01, <1>02, <1>12 DEF ItemOK, Unwritten, Replace, ListAt
  <2>4. /\ rows[op[w].at] = op[w].seen /\ op[w].seen # NoItem
        /\ op[w].seen \in Items
    <3>1. op[w].seen # NoItem
      BY <1>0, <1>12 DEF Replace, ListAt, OpOK, Matching, ByHandle
    <3>2. rows[op[w].at] = op[w].seen
      BY <1>12 DEF Replace
    <3> QED
      BY <1>00, <2>1, <3>1, <3>2
  <2>5. op[w].seen \in Listed
    BY <2>1, <2>4 DEF Listed
  <2>6. /\ Distinct'
        /\ Listed' = (Listed \ {rows[op[w].at]}) \cup ({op[w].item} \ {NoItem})
    BY <1>00, <1>01, <2>1, <1>12, <2>2, <2>3, ListedAfter DEF Replace
  <2>7. Single' /\ Reported' = Reported \cup {op[w].seen}
    <3>1. reported' = [reported EXCEPT ![op[w].item] = op[w].seen]
      BY <1>12 DEF Replace
    <3>2. op[w].seen \notin Reported
      BY <1>01, <2>5
    <3> QED
      BY <1>00, <1>01, <2>2, <2>3, <2>4, <3>1, <3>2, ReportedAfter
  <2>8. committed' = committed \cup {op[w].item} /\ destroyed' = destroyed
    BY <1>12 DEF Replace
  <2> QED
    BY <1>01, <2>2, <2>3, <2>4, <2>5, <2>6, <2>7, <2>8 DEF
       ItemsAreConserved, Distinct, Single
<1>13. CASE Changed(w)
  BY <1>13, <1>00, <1>01 DEF Changed, ListAt, Again, Finish, database,
     observed, ItemsAreConserved, Distinct, Single, Listed, Reported
<1>14. CASE SetItem(w)
  <2>1. op[w].at \in Ranks
    BY <1>0, <1>14 DEF OpOK, SetItem, ListAt
  <2>2. op[w].item \in Items /\ op[w].item # NoItem
    BY <1>0, <1>14, OwnItemStays DEF Active, SetItem, ListAt
  <2>3. /\ op[w].item \notin Listed /\ op[w].item \notin Reported
        /\ op[w].item \notin committed /\ reported[op[w].item] = NoItem
    BY <1>01, <1>02, <1>14 DEF ItemOK, Unwritten, SetItem, ListAt
  <2>4. /\ Distinct'
        /\ Listed' = (Listed \ {rows[op[w].at]}) \cup ({op[w].item} \ {NoItem})
    BY <1>00, <1>01, <2>1, <1>14, <2>2, <2>3, ListedAfter DEF SetItem
  <2>5. /\ committed' = committed \cup {op[w].item} /\ reported' = reported
        /\ destroyed' = destroyed \cup ({rows[op[w].at]} \ {NoItem})
    BY <1>14 DEF SetItem
  <2>6. Single' /\ Reported' = Reported
    BY <1>01, <2>5 DEF Single, Reported
  <2>7. rows[op[w].at] = NoItem \/ rows[op[w].at] \in Listed
    BY <2>1 DEF Listed
  <2>8. NoItem \notin Listed
    BY DEF Listed
  <2> QED
    BY <1>01, <2>2, <2>3, <2>4, <2>5, <2>6, <2>7, <2>8 DEF
       ItemsAreConserved, Distinct, Single
<1>15. CASE DelItem(w)
  <2>1. op[w].at \in Ranks
    BY <1>0, <1>15 DEF OpOK, DelItem, ListAt
  <2>2. op[w].item \in Items /\ op[w].item # NoItem
    BY <1>0, <1>15, OwnItemStays DEF Active, DelItem, ListAt
  <2>3. /\ op[w].item \notin Listed /\ op[w].item \notin Reported
        /\ op[w].item \notin committed /\ reported[op[w].item] = NoItem
    BY <1>01, <1>02, <1>15 DEF ItemOK, Unwritten, DelItem, ListAt
  <2>4. /\ Distinct'
        /\ Listed' = (Listed \ {rows[op[w].at]}) \cup ({NoItem} \ {NoItem})
    BY <1>00, <1>01, <2>1, <1>15, <2>2, <2>3, ListedAfter DEF DelItem
  <2>5. /\ committed' = committed /\ reported' = reported
        /\ destroyed' = destroyed \cup ({rows[op[w].at]} \ {NoItem})
    BY <1>15 DEF DelItem
  <2>6. Single' /\ Reported' = Reported
    BY <1>01, <2>5 DEF Single, Reported
  <2>7. rows[op[w].at] = NoItem \/ rows[op[w].at] \in Listed
    BY <2>1 DEF Listed
  <2>8. NoItem \notin Listed
    BY DEF Listed
  <2> QED
    BY <1>01, <2>2, <2>3, <2>4, <2>5, <2>6, <2>7, <2>8 DEF
       ItemsAreConserved, Distinct, Single
<1>16. CASE Touch(w)
  BY <1>16, <1>00, <1>01 DEF Touch, ListAt, WriteHint, Recorded, Finish,
     database, observed, ItemsAreConserved, Distinct, Single, Listed, Reported
<1>17. CASE TouchLoses(w)
  BY <1>17, <1>00, <1>01 DEF TouchLoses, ListAt, Finish, database, observed,
     ItemsAreConserved, Distinct, Single, Listed, Reported
<1>18. CASE Reread(w)
  BY <1>18, <1>00, <1>01 DEF Reread, ListAt, database, observed,
     ItemsAreConserved, Distinct, Single, Listed, Reported
<1>19. CASE TouchAbsent(w)
  BY <1>19, <1>00, <1>01 DEF TouchAbsent, ListAt, database, observed,
     ItemsAreConserved, Distinct, Single, Listed, Reported
<1>20. CASE Put(w)
  BY <1>20, <1>00, <1>01 DEF Put, ListAt, WriteHint, Recorded, Finish,
     database, observed, ItemsAreConserved, Distinct, Single, Listed, Reported
<1>21. CASE ReadRange(w)
  BY <1>21, <1>00, <1>01 DEF ReadRange, ListAt, Know, ListGoto, database,
     observed, ItemsAreConserved, Distinct, Single, Listed, Reported
<1>22. CASE WipeRow(w)
  <2>1. PICK r \in cache[w].ranks :
           /\ rows' = [rows EXCEPT ![r] = NoItem]
           /\ destroyed' = destroyed \cup ({rows[r]} \ {NoItem})
    BY <1>22 DEF WipeRow
  <2>2. r \in Ranks
    BY <1>0 DEF ListTypeOK
  <2>3. /\ Distinct'
        /\ Listed' = (Listed \ {rows[r]}) \cup ({NoItem} \ {NoItem})
    BY <1>00, <1>01, <2>1, <2>2, ListedAfter
  <2>4. committed' = committed /\ reported' = reported
    BY <1>22 DEF WipeRow
  <2>5. Single' /\ Reported' = Reported
    BY <1>01, <2>4 DEF Single, Reported
  <2>6. rows[r] = NoItem \/ rows[r] \in Listed
    BY <2>2 DEF Listed
  <2>7. NoItem \notin Listed
    BY DEF Listed
  <2> QED
    BY <1>01, <2>1, <2>3, <2>4, <2>5, <2>6, <2>7 DEF ItemsAreConserved,
       Distinct, Single
<1>23. CASE Wiped(w)
  BY <1>23, <1>00, <1>01 DEF Wiped, ListAt, ListGoto, database, observed,
     ItemsAreConserved, Distinct, Single, Listed, Reported
<1>24. CASE ResetMeta(w)
  BY <1>24, <1>00, <1>01 DEF ResetMeta, ListAt, WriteHint, Finish, database,
     observed, ItemsAreConserved, Distinct, Single, Listed, Reported
<1>25. CASE DropMeta(w)
  BY <1>25, <1>00, <1>01 DEF DropMeta, ListAt, Finish, database, observed,
     ItemsAreConserved, Distinct, Single, Listed, Reported
<1>26. CASE ListCrash(w)
  BY <1>26, <1>00, <1>01 DEF ListCrash, Finish, database, observed,
     ItemsAreConserved, Distinct, Single, Listed, Reported
<1> QED
  BY <1>1, <1>2, <1>3, <1>4, <1>5, <1>6, <1>7, <1>8, <1>9, <1>10, <1>11, <1>12,
     <1>13, <1>14, <1>15, <1>16, <1>17, <1>18, <1>19, <1>20, <1>21, <1>22,
     <1>23, <1>24, <1>25, <1>26 DEF Does, Step

\* Every step keeps the invariant of the items.
LEMMA ConservedStep ==
    ASSUME ListBase, Conserved, NEW w \in Writers, Does(w)
    PROVE  Conserved'
<1>1. ListBase'
  BY BaseStep
<1>2. NewItems' /\ ItemsOfTheirOwn'
  BY NewItemsStep, ItemsStepOwn DEF Conserved
<1>3. \A v \in Writers : ItemOK(v)'
  BY <1>1, ItemStep DEF Conserved
<1>4. ItemsAreConserved'
  BY ItemsStep
<1> QED
  BY <1>2, <1>3, <1>4 DEF Conserved

\* What a write to one rank does to the ranks that are held.
LEMMA HeldAfter ==
    ASSUME rows \in [Ranks -> Items \cup {NoItem}], NEW r \in Ranks,
           NEW x \in Items \cup {NoItem}, rows' = [rows EXCEPT ![r] = x]
    PROVE  /\ x = NoItem => Held' = Held \ {r}
           /\ x # NoItem => Held' = Held \cup {r}
<1>1. \A s \in Ranks : rows'[s] = IF s = r THEN x ELSE rows[s]
  OBVIOUS
<1> QED
  BY <1>1 DEF Held

\* No other step changes them.
LEMMA HeldSame ==
    ASSUME rows' = rows
    PROVE  Held' = Held
  BY DEF Held

\* Whoever changes an item has yet to record it, or empties the list.
LEMMA RowsMove ==
    ASSUME NEW w \in Writers, ListBase, Does(w)
    PROVE  \/ rows' = rows
           \/ Pending(w)' \/ Emptied(w)'
<1>0. ListTypeOK /\ \A v \in Writers : OpOK(v)
  BY DEF ListBase
<1>00. op \in [Writers -> OpRecs]
  BY <1>0 DEF ListTypeOK, OpRecs
<1>1. ASSUME NEW kind \in Kinds, ListBegin(w, kind)
      PROVE  \/ rows' = rows
           \/ Pending(w)' \/ Emptied(w)'
  BY <1>1, <1>00 DEF ListBegin, FirstStep, database, observed, Pending,
     Emptied, Unrecorded
<1>2. CASE ReadLast(w)
  BY <1>2, <1>00 DEF ReadLast, ListAt, database, observed, Pending, Emptied,
     Unrecorded
<1>3. CASE FindNeighbours(w)
  BY <1>3, <1>00 DEF FindNeighbours, ListAt, Know, database, observed,
     Pending, Emptied, Unrecorded
<1>4. CASE Create(w)
  BY <1>4, <1>00 DEF Create, ListAt, ToTouch, database, observed, Pending,
     Emptied, Unrecorded
<1>5. CASE Collide(w)
  BY <1>5, <1>00 DEF Collide, ListAt, Again, Finish, FirstStep, database,
     observed, Pending, Emptied, Unrecorded
<1>6. CASE ReadRanks(w)
  BY <1>6, <1>00 DEF ReadRanks, ListAt, Know, database, observed, Pending,
     Emptied, Unrecorded
<1>7. CASE ReadItems(w)
  BY <1>7, <1>00 DEF ReadItems, ListAt, Know, database, observed, Pending,
     Emptied, Unrecorded
<1>8. CASE FindNothing(w)
  BY <1>8, <1>00 DEF FindNothing, ListAt, Know, Finish, database, observed,
     Pending, Emptied, Unrecorded
<1>9. CASE Dispatch(w)
  BY <1>9, <1>00 DEF Dispatch, ListAt, database, observed, Pending, Emptied,
     Unrecorded
<1>10. CASE GetItem(w)
  BY <1>10, <1>00 DEF GetItem, ListAt, Again, Finish, database, observed,
     Pending, Emptied, Unrecorded
<1>11. CASE TakeOut(w)
  BY <1>11, <1>00 DEF TakeOut, ListAt, Drop, ToTouch, database, observed,
     Pending, Emptied, Unrecorded
<1>12. CASE Replace(w)
  BY <1>12, <1>00 DEF Replace, ListAt, ToTouch, database, observed, Pending,
     Emptied, Unrecorded
<1>13. CASE Changed(w)
  BY <1>13, <1>00 DEF Changed, ListAt, Again, Finish, database, observed,
     Pending, Emptied, Unrecorded
<1>14. CASE SetItem(w)
  BY <1>14, <1>00 DEF SetItem, ListAt, ToTouch, database, observed, Pending,
     Emptied, Unrecorded
<1>15. CASE DelItem(w)
  BY <1>15, <1>00 DEF DelItem, ListAt, Drop, ToTouch, database, observed,
     Pending, Emptied, Unrecorded
<1>16. CASE Touch(w)
  BY <1>16, <1>00 DEF Touch, ListAt, WriteHint, Recorded, Finish, database,
     observed, Pending, Emptied, Unrecorded
<1>17. CASE TouchLoses(w)
  BY <1>17, <1>00 DEF TouchLoses, ListAt, Finish, database, observed,
     Pending, Emptied, Unrecorded
<1>18. CASE Reread(w)
  BY <1>18, <1>00 DEF Reread, ListAt, database, observed, Pending, Emptied,
     Unrecorded
<1>19. CASE TouchAbsent(w)
  BY <1>19, <1>00 DEF TouchAbsent, ListAt, database, observed, Pending,
     Emptied, Unrecorded
<1>20. CASE Put(w)
  BY <1>20, <1>00 DEF Put, ListAt, WriteHint, Recorded, Finish, database,
     observed, Pending, Emptied, Unrecorded
<1>21. CASE ReadRange(w)
  BY <1>21, <1>00 DEF ReadRange, ListAt, Know, ListGoto, database, observed,
     Pending, Emptied, Unrecorded
<1>22. CASE WipeRow(w)
  BY <1>22, <1>00 DEF WipeRow, ListAt, Drop, database, observed, Pending,
     Emptied, Unrecorded
<1>23. CASE Wiped(w)
  BY <1>23, <1>00 DEF Wiped, ListAt, ListGoto, database, observed, Pending,
     Emptied, Unrecorded
<1>24. CASE ResetMeta(w)
  BY <1>24, <1>00 DEF ResetMeta, ListAt, WriteHint, Finish, database,
     observed, Pending, Emptied, Unrecorded
<1>25. CASE DropMeta(w)
  BY <1>25, <1>00 DEF DropMeta, ListAt, Finish, database, observed, Pending,
     Emptied, Unrecorded
<1>26. CASE ListCrash(w)
  BY <1>26, <1>00 DEF ListCrash, Finish, database, observed, Pending,
     Emptied, Unrecorded
<1> QED
  BY <1>1, <1>2, <1>3, <1>4, <1>5, <1>6, <1>7, <1>8, <1>9, <1>10, <1>11, <1>12,
     <1>13, <1>14, <1>15, <1>16, <1>17, <1>18, <1>19, <1>20, <1>21, <1>22,
     <1>23, <1>24, <1>25, <1>26 DEF Does, Step

\* Nobody else writes the metadata row.
LEMMA MetaMoves ==
    ASSUME NEW w \in Writers, ListBase, Does(w)
    PROVE  meta' = meta \/ Pending(w) \/ Emptied(w)
<1>0. ListTypeOK /\ \A v \in Writers : OpOK(v)
  BY DEF ListBase
<1>00. op \in [Writers -> OpRecs]
  BY <1>0 DEF ListTypeOK, OpRecs
<1>1. ASSUME NEW kind \in Kinds, ListBegin(w, kind)
      PROVE  meta' = meta \/ Pending(w) \/ Emptied(w)
  BY <1>1, <1>00 DEF ListBegin, FirstStep, database, observed, Pending,
     Emptied, Unrecorded
<1>2. CASE ReadLast(w)
  BY <1>2, <1>00 DEF ReadLast, ListAt, database, observed, Pending, Emptied,
     Unrecorded
<1>3. CASE FindNeighbours(w)
  BY <1>3, <1>00 DEF FindNeighbours, ListAt, Know, database, observed,
     Pending, Emptied, Unrecorded
<1>4. CASE Create(w)
  BY <1>4, <1>00 DEF Create, ListAt, ToTouch, database, observed, Pending,
     Emptied, Unrecorded
<1>5. CASE Collide(w)
  BY <1>5, <1>00 DEF Collide, ListAt, Again, Finish, FirstStep, database,
     observed, Pending, Emptied, Unrecorded
<1>6. CASE ReadRanks(w)
  BY <1>6, <1>00 DEF ReadRanks, ListAt, Know, database, observed, Pending,
     Emptied, Unrecorded
<1>7. CASE ReadItems(w)
  BY <1>7, <1>00 DEF ReadItems, ListAt, Know, database, observed, Pending,
     Emptied, Unrecorded
<1>8. CASE FindNothing(w)
  BY <1>8, <1>00 DEF FindNothing, ListAt, Know, Finish, database, observed,
     Pending, Emptied, Unrecorded
<1>9. CASE Dispatch(w)
  BY <1>9, <1>00 DEF Dispatch, ListAt, database, observed, Pending, Emptied,
     Unrecorded
<1>10. CASE GetItem(w)
  BY <1>10, <1>00 DEF GetItem, ListAt, Again, Finish, database, observed,
     Pending, Emptied, Unrecorded
<1>11. CASE TakeOut(w)
  BY <1>11, <1>00 DEF TakeOut, ListAt, Drop, ToTouch, database, observed,
     Pending, Emptied, Unrecorded
<1>12. CASE Replace(w)
  BY <1>12, <1>00 DEF Replace, ListAt, ToTouch, database, observed, Pending,
     Emptied, Unrecorded
<1>13. CASE Changed(w)
  BY <1>13, <1>00 DEF Changed, ListAt, Again, Finish, database, observed,
     Pending, Emptied, Unrecorded
<1>14. CASE SetItem(w)
  BY <1>14, <1>00 DEF SetItem, ListAt, ToTouch, database, observed, Pending,
     Emptied, Unrecorded
<1>15. CASE DelItem(w)
  BY <1>15, <1>00 DEF DelItem, ListAt, Drop, ToTouch, database, observed,
     Pending, Emptied, Unrecorded
<1>16. CASE Touch(w)
  BY <1>16, <1>00 DEF Touch, ListAt, WriteHint, Recorded, Finish, database,
     observed, Pending, Emptied, Unrecorded
<1>17. CASE TouchLoses(w)
  BY <1>17, <1>00 DEF TouchLoses, ListAt, Finish, database, observed,
     Pending, Emptied, Unrecorded
<1>18. CASE Reread(w)
  BY <1>18, <1>00 DEF Reread, ListAt, database, observed, Pending, Emptied,
     Unrecorded
<1>19. CASE TouchAbsent(w)
  BY <1>19, <1>00 DEF TouchAbsent, ListAt, database, observed, Pending,
     Emptied, Unrecorded
<1>20. CASE Put(w)
  BY <1>20, <1>00 DEF Put, ListAt, WriteHint, Recorded, Finish, database,
     observed, Pending, Emptied, Unrecorded
<1>21. CASE ReadRange(w)
  BY <1>21, <1>00 DEF ReadRange, ListAt, Know, ListGoto, database, observed,
     Pending, Emptied, Unrecorded
<1>22. CASE WipeRow(w)
  BY <1>22, <1>00 DEF WipeRow, ListAt, Drop, database, observed, Pending,
     Emptied, Unrecorded
<1>23. CASE Wiped(w)
  BY <1>23, <1>00 DEF Wiped, ListAt, ListGoto, database, observed, Pending,
     Emptied, Unrecorded
<1>24. CASE ResetMeta(w)
  BY <1>24, <1>00 DEF ResetMeta, ListAt, WriteHint, Finish, database,
     observed, Pending, Emptied, Unrecorded
<1>25. CASE DropMeta(w)
  BY <1>25, <1>00 DEF DropMeta, ListAt, Finish, database, observed, Pending,
     Emptied, Unrecorded
<1>26. CASE ListCrash(w)
  BY <1>26, <1>00 DEF ListCrash, Finish, database, observed, Pending,
     Emptied, Unrecorded
<1> QED
  BY <1>1, <1>2, <1>3, <1>4, <1>5, <1>6, <1>7, <1>8, <1>9, <1>10, <1>11, <1>12,
     <1>13, <1>14, <1>15, <1>16, <1>17, <1>18, <1>19, <1>20, <1>21, <1>22,
     <1>23, <1>24, <1>25, <1>26 DEF Does, Step

\* Who empties the list ends with its metadata row.
LEMMA EmptiesOn ==
    ASSUME NEW w \in Writers, ListBase, Does(w)
    PROVE  Emptied(w) => Emptied(w)' \/ ResetMeta(w) \/ DropMeta(w)
<1>0. ListTypeOK /\ \A v \in Writers : OpOK(v)
  BY DEF ListBase
<1>00. op \in [Writers -> OpRecs]
  BY <1>0 DEF ListTypeOK, OpRecs
<1>1. ASSUME NEW kind \in Kinds, ListBegin(w, kind)
      PROVE  Emptied(w) => Emptied(w)' \/ ResetMeta(w) \/ DropMeta(w)
  BY <1>1, <1>00 DEF ListBegin, FirstStep, database, observed, Emptied,
     Emptying, NoOp, OpOK
<1>2. CASE ReadLast(w)
  BY <1>2, <1>00 DEF ReadLast, ListAt, database, observed, Emptied,
     Emptying, NoOp, OpOK
<1>3. CASE FindNeighbours(w)
  BY <1>3, <1>00 DEF FindNeighbours, ListAt, Know, database, observed,
     Emptied, Emptying, NoOp, OpOK
<1>4. CASE Create(w)
  BY <1>4, <1>00 DEF Create, ListAt, ToTouch, database, observed, Emptied,
     Emptying, NoOp, OpOK
<1>5. CASE Collide(w)
  BY <1>5, <1>00 DEF Collide, ListAt, Again, Finish, FirstStep, database,
     observed, Emptied, Emptying, NoOp, OpOK
<1>6. CASE ReadRanks(w)
  BY <1>6, <1>00 DEF ReadRanks, ListAt, Know, database, observed, Emptied,
     Emptying, NoOp, OpOK
<1>7. CASE ReadItems(w)
  BY <1>7, <1>00 DEF ReadItems, ListAt, Know, database, observed, Emptied,
     Emptying, NoOp, OpOK
<1>8. CASE FindNothing(w)
  BY <1>8, <1>00 DEF FindNothing, ListAt, Know, Finish, database, observed,
     Emptied, Emptying, NoOp, OpOK
<1>9. CASE Dispatch(w)
  BY <1>9, <1>00 DEF Dispatch, ListAt, database, observed, Emptied,
     Emptying, NoOp, OpOK
<1>10. CASE GetItem(w)
  BY <1>10, <1>00 DEF GetItem, ListAt, Again, Finish, database, observed,
     Emptied, Emptying, NoOp, OpOK
<1>11. CASE TakeOut(w)
  BY <1>11, <1>00 DEF TakeOut, ListAt, Drop, ToTouch, database, observed,
     Emptied, Emptying, NoOp, OpOK
<1>12. CASE Replace(w)
  BY <1>12, <1>00 DEF Replace, ListAt, ToTouch, database, observed, Emptied,
     Emptying, NoOp, OpOK
<1>13. CASE Changed(w)
  BY <1>13, <1>00 DEF Changed, ListAt, Again, Finish, database, observed,
     Emptied, Emptying, NoOp, OpOK
<1>14. CASE SetItem(w)
  BY <1>14, <1>00 DEF SetItem, ListAt, ToTouch, database, observed, Emptied,
     Emptying, NoOp, OpOK
<1>15. CASE DelItem(w)
  BY <1>15, <1>00 DEF DelItem, ListAt, Drop, ToTouch, database, observed,
     Emptied, Emptying, NoOp, OpOK
<1>16. CASE Touch(w)
  BY <1>16, <1>00 DEF Touch, ListAt, WriteHint, Recorded, Finish, database,
     observed, Emptied, Emptying, NoOp, OpOK
<1>17. CASE TouchLoses(w)
  BY <1>17, <1>00 DEF TouchLoses, ListAt, Finish, database, observed,
     Emptied, Emptying, NoOp, OpOK
<1>18. CASE Reread(w)
  BY <1>18, <1>00 DEF Reread, ListAt, database, observed, Emptied, Emptying,
     NoOp, OpOK
<1>19. CASE TouchAbsent(w)
  BY <1>19, <1>00 DEF TouchAbsent, ListAt, database, observed, Emptied,
     Emptying, NoOp, OpOK
<1>20. CASE Put(w)
  BY <1>20, <1>00 DEF Put, ListAt, WriteHint, Recorded, Finish, database,
     observed, Emptied, Emptying, NoOp, OpOK
<1>21. CASE ReadRange(w)
  BY <1>21, <1>00 DEF ReadRange, ListAt, Know, ListGoto, database, observed,
     Emptied, Emptying, NoOp, OpOK
<1>22. CASE WipeRow(w)
  BY <1>22, <1>00 DEF WipeRow, ListAt, Drop, database, observed, Emptied,
     Emptying, NoOp, OpOK
<1>23. CASE Wiped(w)
  BY <1>23, <1>00 DEF Wiped, ListAt, ListGoto, database, observed, Emptied,
     Emptying, NoOp, OpOK
<1>24. CASE ResetMeta(w)
  BY <1>24, <1>00 DEF ResetMeta, ListAt, WriteHint, Finish, database,
     observed, Emptied, Emptying, NoOp, OpOK
<1>25. CASE DropMeta(w)
  BY <1>25, <1>00 DEF DropMeta, ListAt, Finish, database, observed, Emptied,
     Emptying, NoOp, OpOK
<1>26. CASE ListCrash(w)
  BY <1>0, <1>26 DEF ListCrash, OpOK
<1> QED
  BY <1>1, <1>2, <1>3, <1>4, <1>5, <1>6, <1>7, <1>8, <1>9, <1>10, <1>11, <1>12,
     <1>13, <1>14, <1>15, <1>16, <1>17, <1>18, <1>19, <1>20, <1>21, <1>22,
     <1>23, <1>24, <1>25, <1>26 DEF Does, Step

\* What an operation knows of the list is true as long as it is alone.
LEMMA OwnCache ==
    ASSUME NEW w \in Writers, ListBase, CacheOK(w), Does(w)
    PROVE  CacheOK(w)'
<1>0. ListTypeOK /\ \A v \in Writers : OpOK(v)
  BY DEF ListBase
<1>00. op \in [Writers -> OpRecs]
  BY <1>0 DEF ListTypeOK, OpRecs
<1>01. /\ cache \in [Writers -> CacheRecs] /\ CacheOK(w) /\ OpOK(w)
       /\ rows \in [Ranks -> Items \cup {NoItem}]
  BY <1>0 DEF ListTypeOK, CacheRecs
<1>02. rows' = rows => Held' = Held
  BY HeldSame
<1>1. ASSUME NEW kind \in Kinds, ListBegin(w, kind)
      PROVE  CacheOK(w)'
  BY <1>1, <1>00, <1>01, <1>02 DEF ListBegin, FirstStep, database, observed,
     CacheOK, HoldsCount, NoOp, Unrecorded, Emptying, Adding, Counting,
     Positional, ByHandle
<1>2. CASE ReadLast(w)
  BY <1>2, <1>00, <1>01, <1>02 DEF ReadLast, ListAt, database, observed,
     CacheOK, HoldsCount, NoOp, Unrecorded, Emptying, Adding, Counting,
     Positional, ByHandle
<1>3. CASE FindNeighbours(w)
  BY <1>3, <1>00, <1>01, <1>02 DEF FindNeighbours, ListAt, Know, database,
     observed, CacheOK, HoldsCount, NoOp, Unrecorded, Emptying, Adding,
     Counting, Positional, ByHandle
<1>4. CASE Create(w)
  BY <1>4, <1>00, <1>01, <1>02 DEF Create, ListAt, ToTouch, database,
     observed, CacheOK, HoldsCount, NoOp, Unrecorded, Emptying, Adding,
     Counting, Positional, ByHandle
<1>5. CASE Collide(w)
  <2>1. op'[w] = NoOp \/ (op'[w].step \in {"last", "ranks"} /\ Same(w))
    BY <1>00, <1>5, CollidesOrDone
  <2>2. UNCHANGED <<rows, meta, cache>> /\ op[w].step # "put"
    BY <1>5 DEF Collide, ListAt, observed, database
  <2> QED
    BY <1>00, <1>01, <1>02, <2>1, <2>2 DEF Same, CacheOK, HoldsCount, NoOp,
       Unrecorded
<1>6. CASE ReadRanks(w)
  BY <1>6, <1>00, <1>01, <1>02 DEF ReadRanks, ListAt, Know, database,
     observed, CacheOK, HoldsCount, NoOp, Unrecorded, Emptying, Adding,
     Counting, Positional, ByHandle
<1>7. CASE ReadItems(w)
  BY <1>7, <1>00, <1>01, <1>02 DEF ReadItems, ListAt, Know, database,
     observed, CacheOK, HoldsCount, NoOp, Unrecorded, Emptying, Adding,
     Counting, Positional, ByHandle
<1>8. CASE FindNothing(w)
  BY <1>8, <1>00, <1>01, <1>02 DEF FindNothing, ListAt, Know, Finish,
     database, observed, CacheOK, HoldsCount, NoOp, Unrecorded, Emptying,
     Adding, Counting, Positional, ByHandle
<1>9. CASE Dispatch(w)
  BY <1>9, <1>00, <1>01, <1>02 DEF Dispatch, ListAt, database, observed,
     CacheOK, HoldsCount, NoOp, Unrecorded, Emptying, Adding, Counting,
     Positional, ByHandle
<1>10. CASE GetItem(w)
  <2>1. \/ op'[w] = NoOp
        \/ op'[w].step = "ranks"
        \/ /\ op'[w].step = "write" /\ op'[w].kind = op[w].kind
           /\ op'[w].at = op[w].at
    BY <1>00, <1>10, GetsOrNot
  <2>2. UNCHANGED <<rows, meta, cache>> /\ op[w].step = "get"
    BY <1>10 DEF GetItem, ListAt, observed, database
  <2> QED
    BY <1>00, <1>01, <1>02, <2>1, <2>2 DEF CacheOK, HoldsCount, NoOp,
       Unrecorded
<1>11. CASE TakeOut(w)
  <2>1. op[w].at \in Ranks /\ op[w].step = "write"
    BY <1>01, <1>11 DEF OpOK, TakeOut, ListAt
  <2>2. Held' = Held \ {op[w].at}
    <3>1. rows' = [rows EXCEPT ![op[w].at] = NoItem]
      BY <1>11 DEF TakeOut
    <3> QED
      BY <1>01, <2>1, <3>1, HeldAfter
  <2>3. op'[w].step = "touch" /\ op'[w].kind = op[w].kind
    BY <1>00, <1>11 DEF TakeOut, ToTouch, OpRecs
  <2>4. cache'[w].ranks = cache[w].ranks \ {op[w].at}
    BY <1>01, <1>11 DEF TakeOut, Drop, CacheRecs
  <2>5. HoldsCount(w)' => HoldsCount(w)
    BY <2>1, <2>3 DEF HoldsCount
  <2> QED
    BY <1>01, <2>1, <2>2, <2>3, <2>4, <2>5 DEF CacheOK
<1>12. CASE Replace(w)
  BY <1>12, <1>00, <1>01, <1>02 DEF Replace, ListAt, ToTouch, database,
     observed, CacheOK, HoldsCount, NoOp, Unrecorded, Emptying, Adding,
     Counting, Positional, ByHandle
<1>13. CASE Changed(w)
  <2>1. op'[w] = NoOp \/ (op'[w].step = "ranks" /\ Same(w))
    BY <1>00, <1>13, ChangedOrDone
  <2>2. UNCHANGED <<rows, meta, cache>> /\ op[w].step # "put"
    BY <1>13 DEF Changed, ListAt, observed, database
  <2> QED
    BY <1>00, <1>01, <1>02, <2>1, <2>2 DEF Same, CacheOK, HoldsCount, NoOp,
       Unrecorded
<1>14. CASE SetItem(w)
  <2>1. op[w].at \in Ranks /\ op[w].step = "write"
    BY <1>01, <1>14 DEF OpOK, SetItem, ListAt
  <2>2. Held' = Held \cup {op[w].at}
    <3>1. rows' = [rows EXCEPT ![op[w].at] = op[w].item]
      BY <1>14 DEF SetItem
    <3>2. op[w].item \in Items /\ op[w].item # NoItem
      BY <1>0, <2>1, OwnItemStays DEF Active
    <3> QED
      BY <1>01, <2>1, <3>1, <3>2, HeldAfter
  <2>3. op'[w].step = "touch" /\ op'[w].kind = op[w].kind
    BY <1>00, <1>14 DEF SetItem, ToTouch, OpRecs
  <2>4. cache'[w].ranks = cache[w].ranks
    BY <1>01, <1>14 DEF SetItem, Drop, CacheRecs
  <2>5. HoldsCount(w)' => HoldsCount(w)
    BY <2>1, <2>3 DEF HoldsCount
  <2>6. op[w].at \in Held
    BY <1>01, <2>1, <1>14 DEF SetItem, ListAt, CacheOK, Counting, Positional
  <2> QED
    BY <1>01, <2>1, <2>2, <2>3, <2>4, <2>5, <2>6 DEF CacheOK
<1>15. CASE DelItem(w)
  <2>1. op[w].at \in Ranks /\ op[w].step = "write"
    BY <1>01, <1>15 DEF OpOK, DelItem, ListAt
  <2>2. Held' = Held \ {op[w].at}
    <3>1. rows' = [rows EXCEPT ![op[w].at] = NoItem]
      BY <1>15 DEF DelItem
    <3> QED
      BY <1>01, <2>1, <3>1, HeldAfter
  <2>3. op'[w].step = "touch" /\ op'[w].kind = op[w].kind
    BY <1>00, <1>15 DEF DelItem, ToTouch, OpRecs
  <2>4. cache'[w].ranks = cache[w].ranks \ {op[w].at}
    BY <1>01, <1>15 DEF DelItem, Drop, CacheRecs
  <2>5. HoldsCount(w)' => HoldsCount(w)
    BY <2>1, <2>3 DEF HoldsCount
  <2> QED
    BY <1>01, <2>1, <2>2, <2>3, <2>4, <2>5 DEF CacheOK
<1>16. CASE Touch(w)
  BY <1>16, <1>00, <1>01, <1>02 DEF Touch, ListAt, WriteHint, Recorded,
     Finish, database, observed, CacheOK, HoldsCount, NoOp, Unrecorded,
     Emptying, Adding, Counting, Positional, ByHandle
<1>17. CASE TouchLoses(w)
  <2>1. \/ op'[w] = NoOp
        \/ op'[w].step = "reread" /\ op'[w].kind = op[w].kind
    BY <1>00, <1>17, LosesOrDone DEF Same
  <2>2. UNCHANGED <<rows, meta, cache>> /\ op[w].step = "touch"
    BY <1>17 DEF TouchLoses, ListAt, observed, database
  <2>3. HoldsCount(w)' => HoldsCount(w)
    BY <2>1, <2>2 DEF HoldsCount, NoOp, Unrecorded
  <2> QED
    BY <1>00, <1>01, <1>02, <2>1, <2>2, <2>3 DEF CacheOK, NoOp
<1>18. CASE Reread(w)
  BY <1>18, <1>00, <1>01, <1>02 DEF Reread, ListAt, database, observed,
     CacheOK, HoldsCount, NoOp, Unrecorded, Emptying, Adding, Counting,
     Positional, ByHandle
<1>19. CASE TouchAbsent(w)
  BY <1>19, <1>00, <1>01, <1>02 DEF TouchAbsent, ListAt, database, observed,
     CacheOK, HoldsCount, NoOp, Unrecorded, Emptying, Adding, Counting,
     Positional, ByHandle
<1>20. CASE Put(w)
  BY <1>20, <1>00, <1>01, <1>02 DEF Put, ListAt, WriteHint, Recorded,
     Finish, database, observed, CacheOK, HoldsCount, NoOp, Unrecorded,
     Emptying, Adding, Counting, Positional, ByHandle
<1>21. CASE ReadRange(w)
  BY <1>21, <1>00, <1>01, <1>02 DEF ReadRange, ListAt, Know, ListGoto,
     database, observed, CacheOK, HoldsCount, NoOp, Unrecorded, Emptying,
     Adding, Counting, Positional, ByHandle
<1>22. CASE WipeRow(w)
  <2>1. PICK r \in cache[w].ranks :
           /\ rows' = [rows EXCEPT ![r] = NoItem]
           /\ Drop(w, r) /\ op' = op
    BY <1>22 DEF WipeRow
  <2>2. r \in Ranks
    BY <1>01 DEF CacheRecs
  <2>3. Held' = Held \ {r}
    BY <1>01, <2>1, <2>2, HeldAfter
  <2>4. cache'[w].ranks = cache[w].ranks \ {r}
    BY <1>01, <2>1 DEF Drop, CacheRecs
  <2>5. op'[w].step = "wipe"
    BY <2>1, <1>22 DEF WipeRow, ListAt
  <2>6. Held \subseteq cache[w].ranks
    BY <1>01, <2>1, <2>5 DEF CacheOK
  <2> QED
    BY <2>3, <2>4, <2>5, <2>6 DEF CacheOK, HoldsCount, Unrecorded
<1>23. CASE Wiped(w)
  BY <1>23, <1>00, <1>01, <1>02 DEF Wiped, ListAt, ListGoto, database,
     observed, CacheOK, HoldsCount, NoOp, Unrecorded, Emptying, Adding,
     Counting, Positional, ByHandle
<1>24. CASE ResetMeta(w)
  BY <1>24, <1>00, <1>01, <1>02 DEF ResetMeta, ListAt, WriteHint, Finish,
     database, observed, CacheOK, HoldsCount, NoOp, Unrecorded, Emptying,
     Adding, Counting, Positional, ByHandle
<1>25. CASE DropMeta(w)
  BY <1>25, <1>00, <1>01, <1>02 DEF DropMeta, ListAt, Finish, database,
     observed, CacheOK, HoldsCount, NoOp, Unrecorded, Emptying, Adding,
     Counting, Positional, ByHandle
<1>26. CASE ListCrash(w)
  BY <1>26, <1>00, <1>01, <1>02 DEF ListCrash, Finish, database, observed,
     CacheOK, HoldsCount, NoOp, Unrecorded, Emptying, Adding, Counting,
     Positional, ByHandle
<1> QED
  BY <1>1, <1>2, <1>3, <1>4, <1>5, <1>6, <1>7, <1>8, <1>9, <1>10, <1>11, <1>12,
     <1>13, <1>14, <1>15, <1>16, <1>17, <1>18, <1>19, <1>20, <1>21, <1>22,
     <1>23, <1>24, <1>25, <1>26 DEF Does, Step

\* What an operation knows of the list stays true as long as none races it.
LEMMA CacheStep ==
    ASSUME ListBase, \A v \in Writers : CacheOK(v), ~Racing, ~Racing',
           NEW w \in Writers, Does(w), NEW v \in Writers
    PROVE  CacheOK(v)'
<1>1. CASE v = w
  BY <1>1, OwnCache
<1>2. CASE v # w
  <2>1. op'[v] = op[v] /\ cache'[v] = cache[v]
    BY <1>2, OthersKeep DEF ListBase
  <2>2. HoldsCount(v)' = HoldsCount(v) /\ Emptied(v)' = Emptied(v)
    BY <2>1 DEF HoldsCount, Emptied
  <2>3. CASE HoldsCount(v) \/ Emptied(v)
    <3>1. ~(Pending(w)' \/ Emptied(w)')
      BY <1>2, <2>2, <2>3 DEF Racing
    <3>2. Held' = Held
      BY <3>1, RowsMove, HeldSame
    <3>3. op[v].step = "put" => meta' = meta
      <4>1. op[v].step = "put" => ~(Pending(w) \/ Emptied(w))
        BY <1>2 DEF Racing
      <4> QED
        BY <4>1, MetaMoves
    <3> QED
      BY <2>1, <2>2, <3>2, <3>3 DEF CacheOK
  <2>4. CASE ~(HoldsCount(v) \/ Emptied(v))
    <3>1. op[v].step = "put" => meta' = meta
      <4>1. op[v].step = "put" => ~(Pending(w) \/ Emptied(w))
        BY <1>2 DEF Racing
      <4> QED
        BY <4>1, MetaMoves
    <3>2. /\ op[v].step \notin {"wipe", "drop"}
          /\ ~(op[v].step \in {"get", "write"} /\ op[v].kind \in Counting)
      BY <2>4 DEF HoldsCount, Emptied
    <3> QED
      BY <2>1, <2>2, <2>4, <3>1, <3>2 DEF CacheOK
  <2> QED
    BY <2>3, <2>4
<1> QED
  BY <1>1, <1>2

\* What a step may mean to the count.  Nothing, for an operation that has
\* nothing to record,
Quiet(w) == UNCHANGED <<rows, meta, failed>> /\ ~Pending(w) /\ ~Pending(w)'
\* or has still to record what it had before.
Stays(w) ==
    /\ UNCHANGED <<rows, meta, failed>>
    /\ Pending(w) /\ Pending(w)' /\ op'[w].kind = op[w].kind
\* An item is changed, and has yet to be recorded.
Changes(w) ==
    /\ Create(w) \/ TakeOut(w) \/ Replace(w) \/ SetItem(w) \/ DelItem(w)
    /\ UNCHANGED <<meta, failed>>
    /\ ~Pending(w) /\ Pending(w)' /\ op'[w].kind = op[w].kind
\* The change is recorded.
Records(w) ==
    /\ rows' = rows /\ meta'.hint = NewHint(w, meta) /\ Recorded(w)
    /\ meta' # NoMeta
    /\ Pending(w) /\ ~Pending(w)'
\* It never will be.
Fails(w) ==
    /\ UNCHANGED <<rows, meta>> /\ failed' = failed + 1
    /\ Pending(w) /\ ~Pending(w)'
\* The list was emptied, and its metadata row reset or deleted.
Drops(w) == ResetMeta(w) \/ DropMeta(w)

\* What a step means to the count.
LEMMA EffectsHere ==
    ASSUME NEW w \in Writers, ListBase, CacheOK(w), Does(w)
    PROVE  \/ Quiet(w) \/ Stays(w) \/ Changes(w) \/ Records(w) \/ Fails(w)
           \/ Drops(w) \/ ReadRange(w) \/ Wiped(w) \/ WipeRow(w)
<1>0. ListTypeOK /\ \A v \in Writers : OpOK(v)
  BY DEF ListBase
<1>00. op \in [Writers -> OpRecs]
  BY <1>0 DEF ListTypeOK, OpRecs
<1>01. tokens \in Nat /\ OpOK(w) /\ CacheOK(w)
  BY <1>0 DEF ListTypeOK
<1>1. ASSUME NEW kind \in Kinds, ListBegin(w, kind)
      PROVE  \/ Quiet(w) \/ Stays(w) \/ Changes(w) \/ Records(w) \/ Fails(w)
           \/ Drops(w) \/ ReadRange(w) \/ Wiped(w) \/ WipeRow(w)
  <2>1. op'[w].step \notin Unrecorded
    BY <1>00, <1>1 DEF ListBegin, FirstStep, Unrecorded
  <2>2. UNCHANGED <<rows, meta, failed>> /\ op[w].step = "idle"
    BY <1>1 DEF ListBegin, database
  <2> QED
    BY <2>1, <2>2 DEF Quiet, Pending, Unrecorded
<1>2. CASE ReadLast(w)
  BY <1>2, <1>00, <1>01 DEF ReadLast, ListAt, database, observed, Quiet,
     Stays, Pending, Unrecorded, NoOp
<1>3. CASE FindNeighbours(w)
  BY <1>3, <1>00, <1>01 DEF FindNeighbours, ListAt, Know, database,
     observed, Quiet, Stays, Pending, Unrecorded, NoOp
<1>4. CASE Create(w)
  <2>1. op'[w].step = "touch" /\ op'[w].kind = op[w].kind
    BY <1>00, <1>4 DEF Create, ToTouch, OpRecs
  <2>2. UNCHANGED <<meta, failed>> /\ op[w].step \notin Unrecorded
    BY <1>4 DEF Create, ListAt, observed, database, Unrecorded
  <2> QED
    BY <1>4, <2>1, <2>2 DEF Changes, Pending, Unrecorded
<1>5. CASE Collide(w)
  <2>1. op'[w] = NoOp \/ op'[w].step \in {"last", "ranks", "write"}
    BY <1>00, <1>5, CollidesOrDone
  <2>2. UNCHANGED <<rows, meta, failed>> /\ op[w].step \notin Unrecorded
    BY <1>5 DEF Collide, ListAt, observed, database, Unrecorded
  <2> QED
    BY <2>1, <2>2 DEF Quiet, Pending, NoOp, Unrecorded
<1>6. CASE ReadRanks(w)
  BY <1>6, <1>00, <1>01 DEF ReadRanks, ListAt, Know, database, observed,
     Quiet, Stays, Pending, Unrecorded, NoOp
<1>7. CASE ReadItems(w)
  BY <1>7, <1>00, <1>01 DEF ReadItems, ListAt, Know, database, observed,
     Quiet, Stays, Pending, Unrecorded, NoOp
<1>8. CASE FindNothing(w)
  BY <1>8, <1>00, <1>01 DEF FindNothing, ListAt, Know, Finish, database,
     observed, Quiet, Stays, Pending, Unrecorded, NoOp
<1>9. CASE Dispatch(w)
  BY <1>9, <1>00, <1>01 DEF Dispatch, ListAt, database, observed, Quiet,
     Stays, Pending, Unrecorded, NoOp
<1>10. CASE GetItem(w)
  <2>1. op'[w] = NoOp \/ op'[w].step \in {"last", "ranks", "write"}
    BY <1>00, <1>10, GetsOrNot
  <2>2. UNCHANGED <<rows, meta, failed>> /\ op[w].step \notin Unrecorded
    BY <1>10 DEF GetItem, ListAt, observed, database, Unrecorded
  <2> QED
    BY <2>1, <2>2 DEF Quiet, Pending, NoOp, Unrecorded
<1>11. CASE TakeOut(w)
  <2>1. op'[w].step = "touch" /\ op'[w].kind = op[w].kind
    BY <1>00, <1>11 DEF TakeOut, ToTouch, OpRecs
  <2>2. UNCHANGED <<meta, failed>> /\ op[w].step \notin Unrecorded
    BY <1>11 DEF TakeOut, ListAt, observed, database, Unrecorded
  <2> QED
    BY <1>11, <2>1, <2>2 DEF Changes, Pending, Unrecorded
<1>12. CASE Replace(w)
  <2>1. op'[w].step = "touch" /\ op'[w].kind = op[w].kind
    BY <1>00, <1>12 DEF Replace, ToTouch, OpRecs
  <2>2. UNCHANGED <<meta, failed>> /\ op[w].step \notin Unrecorded
    BY <1>12 DEF Replace, ListAt, observed, database, Unrecorded
  <2> QED
    BY <1>12, <2>1, <2>2 DEF Changes, Pending, Unrecorded
<1>13. CASE Changed(w)
  <2>1. op'[w] = NoOp \/ op'[w].step \in {"last", "ranks", "write"}
    BY <1>00, <1>13, ChangedOrDone
  <2>2. UNCHANGED <<rows, meta, failed>> /\ op[w].step \notin Unrecorded
    BY <1>13 DEF Changed, ListAt, observed, database, Unrecorded
  <2> QED
    BY <2>1, <2>2 DEF Quiet, Pending, NoOp, Unrecorded
<1>14. CASE SetItem(w)
  <2>1. op'[w].step = "touch" /\ op'[w].kind = op[w].kind
    BY <1>00, <1>14 DEF SetItem, ToTouch, OpRecs
  <2>2. UNCHANGED <<meta, failed>> /\ op[w].step \notin Unrecorded
    BY <1>14 DEF SetItem, ListAt, observed, database, Unrecorded
  <2> QED
    BY <1>14, <2>1, <2>2 DEF Changes, Pending, Unrecorded
<1>15. CASE DelItem(w)
  <2>1. op'[w].step = "touch" /\ op'[w].kind = op[w].kind
    BY <1>00, <1>15 DEF DelItem, ToTouch, OpRecs
  <2>2. UNCHANGED <<meta, failed>> /\ op[w].step \notin Unrecorded
    BY <1>15 DEF DelItem, ListAt, observed, database, Unrecorded
  <2> QED
    BY <1>15, <2>1, <2>2 DEF Changes, Pending, Unrecorded
<1>16. CASE Touch(w)
  <2>1. op[w].stash = meta /\ op[w].step \in Unrecorded
    BY <1>01, <1>16 DEF Touch, ListAt, CacheOK, Unrecorded
  <2>2. WriteHint(NewHint(w, meta)) /\ Recorded(w) /\ rows' = rows
    BY <2>1, <1>16 DEF Touch
  <2>3. meta'.hint = NewHint(w, meta) /\ meta'.token = tokens + 1
    BY <2>2 DEF WriteHint
  <2>4. meta' # NoMeta
    BY <1>01, <2>3 DEF NoMeta
  <2>5. op'[w].step = "idle"
    BY <1>00, <1>16 DEF Touch, Finish, NoOp
  <2> QED
    BY <2>1, <2>2, <2>3, <2>4, <2>5 DEF Records, Pending, Unrecorded
<1>17. CASE TouchLoses(w)
  <2>1. \/ op'[w] = NoOp /\ failed' = failed + 1
        \/ op'[w].step = "reread" /\ failed' = failed /\ Same(w)
    BY <1>00, <1>17, LosesOrDone
  <2>2. UNCHANGED <<rows, meta>> /\ op[w].step = "touch"
    BY <1>17 DEF TouchLoses, ListAt, database
  <2>3. CASE op'[w] = NoOp /\ failed' = failed + 1
    BY <2>2, <2>3 DEF Fails, Pending, NoOp, Unrecorded
  <2>4. CASE op'[w].step = "reread" /\ failed' = failed /\ Same(w)
    BY <2>2, <2>4 DEF Stays, Pending, Same, Unrecorded
  <2> QED
    BY <2>1, <2>3, <2>4
<1>18. CASE Reread(w)
  BY <1>18, <1>00, <1>01 DEF Reread, ListAt, database, observed, Quiet,
     Stays, Pending, Unrecorded, NoOp
<1>19. CASE TouchAbsent(w)
  BY <1>19, <1>00, <1>01 DEF TouchAbsent, ListAt, database, observed, Quiet,
     Stays, Pending, Unrecorded, NoOp
<1>20. CASE Put(w)
  <2>1. op[w].stash = meta /\ op[w].step \in Unrecorded
    BY <1>01, <1>20 DEF Put, ListAt, CacheOK, Unrecorded
  <2>2. WriteHint(NewHint(w, meta)) /\ Recorded(w) /\ rows' = rows
    BY <2>1, <1>20 DEF Put
  <2>3. meta'.hint = NewHint(w, meta) /\ meta'.token = tokens + 1
    BY <2>2 DEF WriteHint
  <2>4. meta' # NoMeta
    BY <1>01, <2>3 DEF NoMeta
  <2>5. op'[w].step = "idle"
    BY <1>00, <1>20 DEF Put, Finish, NoOp
  <2> QED
    BY <2>1, <2>2, <2>3, <2>4, <2>5 DEF Records, Pending, Unrecorded
<1>21. CASE ReadRange(w)
  BY <1>21
<1>22. CASE WipeRow(w)
  BY <1>22
<1>23. CASE Wiped(w)
  BY <1>23
<1>24. CASE ResetMeta(w)
  BY <1>24 DEF Drops
<1>25. CASE DropMeta(w)
  BY <1>25 DEF Drops
<1>26. CASE ListCrash(w)
  <2>1. op'[w].step = "idle" /\ UNCHANGED <<rows, meta>>
    BY <1>00, <1>26 DEF ListCrash, Finish, NoOp, database
  <2>2. failed' = IF op[w].step \in Unrecorded THEN failed + 1 ELSE failed
    BY <1>26 DEF ListCrash
  <2>3. ~Pending(w)'
    BY <2>1 DEF Pending, Unrecorded
  <2>4. CASE op[w].step \in Unrecorded
    BY <2>1, <2>2, <2>3, <2>4 DEF Fails, Pending
  <2>5. CASE op[w].step \notin Unrecorded
    BY <2>1, <2>2, <2>3, <2>5 DEF Quiet, Pending
  <2> QED
    BY <2>4, <2>5
<1> QED
  BY <1>1, <1>2, <1>3, <1>4, <1>5, <1>6, <1>7, <1>8, <1>9, <1>10, <1>11, <1>12,
     <1>13, <1>14, <1>15, <1>16, <1>17, <1>18, <1>19, <1>20, <1>21, <1>22,
     <1>23, <1>24, <1>25, <1>26 DEF Does, Step

\* The same, but for the steps of an operation that empties the list.
LEMMA Effects ==
    ASSUME NEW w \in Writers, ListBase, CacheOK(w), Does(w)
    PROVE  \/ Quiet(w) \/ Stays(w) \/ Changes(w) \/ Records(w) \/ Fails(w)
           \/ Drops(w) \/ Emptied(w)'
<1>1. ReadRange(w) \/ Wiped(w) \/ WipeRow(w) => Emptied(w)'
  BY DEF ListBase, ListTypeOK, ReadRange, Wiped, WipeRow, ListAt, ListGoto,
     Emptied
<1> QED
  BY <1>1, EffectsHere

\* The ledger stays even: an item is added or taken out, and owed; and what
\* is owed is recorded, or never will be.
LEMMA Ledger ==
    ASSUME NEW h \in Nat, NEW t \in Nat, NEW a \in Nat, NEW d \in Nat,
           NEW c \in Nat, NEW f \in Nat, Even(h, t, a, d, c, f)
    PROVE  /\ Even(h + 1, t, a + 1, d, c, f)
           /\ Even(h - 1, t, a, d, c + 1, f)
           /\ Even(h - 1, t, a, d + 1, c, f)
           /\ Even(h, t, a, d, c + 1, f)
           /\ Even(h, t + 1, a - 1, d, c, f)
           /\ Even(h, t - 1, a, d - 1, c, f)
           /\ Even(h, t, a - 1, d, c, f + 1)
           /\ Even(h, t, a, d - 1, c, f + 1)
           /\ Even(h, t, a, d, c - 1, f + 1)
           /\ Even(h, t, a, d, c, f + 1)
  BY DEF Even

\* It is even when the items were counted,
LEMMA LedgerCounted ==
    ASSUME NEW h \in Nat, NEW f \in Nat
    PROVE  Even(h, h, 0, 0, 0, f)
  BY DEF Even

\* and when a hint of 0 stays 0.
LEMMA LedgerClamped ==
    ASSUME NEW h \in Nat, NEW f \in Nat, Even(h, 0, 0, 1, 0, f)
    PROVE  Even(h, 0, 0, 0, 0, f)
  BY DEF Even

\* Writers can be counted.
LEMMA PendingAreCounted ==
    ASSUME NEW K
    PROVE  IsFiniteSet(PendingOf(K)) /\ Cardinality(PendingOf(K)) \in Nat
<1>1. PendingOf(K) \subseteq Writers
  BY DEF PendingOf
<1> QED
  BY <1>1, WritersAssumption, FS_Subset, FS_CardinalityType

\* The ledger is about natural numbers.
LEMMA BalanceTypes ==
    ASSUME ListTypeOK
    PROVE  /\ Cardinality(Held) \in Nat /\ meta.hint \in Nat /\ failed \in Nat
           /\ Added \in Nat /\ Deleted \in Nat /\ Counted \in Nat
<1>1. Cardinality(Held) \in Nat
  BY RanksAreCounted DEF Held
<1>2. meta.hint \in Nat /\ failed \in Nat
  BY DEF ListTypeOK, Metas
<1> QED
  BY <1>1, <1>2, PendingAreCounted DEF Added, Deleted, Counted

\* The operations of others are left alone.
OthersStay(w) == \A v \in Writers : v # w => op'[v] = op[v]

\* What a step does to the number of operations that have yet to record.
LEMMA PendingAfter ==
    ASSUME NEW w \in Writers, OthersStay(w), NEW K
    PROVE  /\ (w \in PendingOf(K) <=> w \in PendingOf(K)') =>
                Cardinality(PendingOf(K))' = Cardinality(PendingOf(K))
           /\ w \notin PendingOf(K) /\ w \in PendingOf(K)' =>
                Cardinality(PendingOf(K))' = Cardinality(PendingOf(K)) + 1
           /\ w \in PendingOf(K) /\ w \notin PendingOf(K)' =>
                Cardinality(PendingOf(K))' = Cardinality(PendingOf(K)) - 1
<1>1. \A v \in Writers : v # w => (v \in PendingOf(K)' <=> v \in PendingOf(K))
  BY DEF PendingOf, Pending, OthersStay
<1>2. PendingOf(K) \subseteq Writers /\ PendingOf(K)' \subseteq Writers
  BY DEF PendingOf
<1>3. CASE w \in PendingOf(K) <=> w \in PendingOf(K)'
  <2>1. PendingOf(K)' = PendingOf(K)
    BY <1>1, <1>2, <1>3
  <2> QED
    BY <1>3, <2>1
<1>4. CASE w \notin PendingOf(K) /\ w \in PendingOf(K)'
  <2>1. PendingOf(K)' = PendingOf(K) \cup {w}
    BY <1>1, <1>2, <1>4
  <2>2. Cardinality(PendingOf(K) \cup {w}) = Cardinality(PendingOf(K)) + 1
    BY <1>4, PendingAreCounted, FS_AddElement
  <2> QED
    BY <1>4, <2>1, <2>2
<1>5. CASE w \in PendingOf(K) /\ w \notin PendingOf(K)'
  <2>1. PendingOf(K)' = PendingOf(K) \ {w}
    BY <1>1, <1>2, <1>5
  <2>2. Cardinality(PendingOf(K) \ {w}) = Cardinality(PendingOf(K)) - 1
    BY <1>5, PendingAreCounted, FS_RemoveElement
  <2> QED
    BY <1>5, <2>1, <2>2
<1> QED
  BY <1>3, <1>4, <1>5

\* The three counts, by whether the operation joins or leaves those that have
\* yet to record their change.
LEMMA CountsAfter ==
    ASSUME NEW w \in Writers, OthersStay(w)
    PROVE  /\ Pending(w) = Pending(w)' /\ (Pending(w) => op'[w].kind =
                op[w].kind) =>
                Added' = Added /\ Deleted' = Deleted /\ Counted' = Counted
           /\ ~Pending(w) /\ Pending(w)' /\ op'[w].kind = op[w].kind =>
                /\ Added' = IF op[w].kind \in Adding THEN Added + 1 ELSE Added
                /\ Deleted' = IF op[w].kind = "delete_by_handle" THEN Deleted +
                     1
                              ELSE Deleted
                /\ Counted' = IF op[w].kind \in Counting THEN Counted + 1 ELSE
                     Counted
           /\ Pending(w) /\ ~Pending(w)' =>
                /\ Added' = IF op[w].kind \in Adding THEN Added - 1 ELSE Added
                /\ Deleted' = IF op[w].kind = "delete_by_handle" THEN Deleted -
                     1
                              ELSE Deleted
                /\ Counted' = IF op[w].kind \in Counting THEN Counted - 1 ELSE
                     Counted
<1>1. ASSUME NEW K
      PROVE  /\ w \in PendingOf(K) <=> Pending(w) /\ op[w].kind \in K
             /\ w \in PendingOf(K)' <=> Pending(w)' /\ op'[w].kind \in K
  BY DEF PendingOf
<1>2. CASE Pending(w) = Pending(w)' /\ (Pending(w) => op'[w].kind = op[w].kind)
  <2>1. ASSUME NEW K
        PROVE  Cardinality(PendingOf(K))' = Cardinality(PendingOf(K))
    <3>1. w \in PendingOf(K) <=> w \in PendingOf(K)'
      BY <1>1, <1>2
    <3> QED
      BY <3>1, PendingAfter
  <2> QED
    BY <1>2, <2>1 DEF Added, Deleted, Counted
<1>3. CASE ~Pending(w) /\ Pending(w)' /\ op'[w].kind = op[w].kind
  <2>1. ASSUME NEW K
        PROVE  Cardinality(PendingOf(K))' =
                 IF op[w].kind \in K THEN Cardinality(PendingOf(K)) + 1
                 ELSE Cardinality(PendingOf(K))
    <3>1. w \notin PendingOf(K) /\ (w \in PendingOf(K)' <=> op[w].kind \in K)
      BY <1>1, <1>3
    <3> QED
      BY <3>1, PendingAfter
  <2> QED
    BY <1>3, <2>1 DEF Added, Deleted, Counted
<1>4. CASE Pending(w) /\ ~Pending(w)'
  <2>1. ASSUME NEW K
        PROVE  Cardinality(PendingOf(K))' =
                 IF op[w].kind \in K THEN Cardinality(PendingOf(K)) - 1
                 ELSE Cardinality(PendingOf(K))
    <3>1. w \notin PendingOf(K)' /\ (w \in PendingOf(K) <=> op[w].kind \in K)
      BY <1>1, <1>4
    <3> QED
      BY <3>1, PendingAfter
  <2> QED
    BY <1>4, <2>1 DEF Added, Deleted, Counted
<1> QED
  BY <1>2, <1>3, <1>4

\* No operation owes two things.
LEMMA Apart ==
    /\ "delete_by_handle" \notin Adding \cup Counting
    /\ Adding \cap Counting = {}
  BY DEF Adding, Counting, Positional

\* Where nobody else has something to record there is no other kind.
LEMMA AloneAreNone ==
    ASSUME NEW w \in Writers, \A v \in Writers : v # w => ~Pending(v), NEW K,
           Pending(w) => op[w].kind \notin K
    PROVE  Cardinality(PendingOf(K)) = 0
<1>1. PendingOf(K) = {}
  BY DEF PendingOf
<1> QED
  BY <1>1, FS_EmptySet

\* A rank that was free is one more,
LEMMA FillsOne ==
    ASSUME ListTypeOK, NEW r \in Ranks, r \notin Held, Held' = Held \cup {r}
    PROVE  Cardinality(Held)' = Cardinality(Held) + 1
<1>1. IsFiniteSet(Held)
  BY RanksAreCounted DEF Held
<1>2. Cardinality(Held \cup {r}) = Cardinality(Held) + 1
  BY <1>1, FS_AddElement
<1> QED
  BY <1>2

\* and one that was held is one less.
LEMMA EmptiesOne ==
    ASSUME ListTypeOK, NEW r \in Held, Held' = Held \ {r}
    PROVE  Cardinality(Held)' = Cardinality(Held) - 1
<1>1. IsFiniteSet(Held)
  BY RanksAreCounted DEF Held
<1>2. Cardinality(Held \ {r}) = Cardinality(Held) - 1
  BY <1>1, FS_RemoveElement
<1> QED
  BY <1>2

\* The ledger stays even when an item is changed,
LEMMA BalanceOfChange ==
    ASSUME ListBase, Balance, NEW w \in Writers, CacheOK(w), OthersStay(w),
       Changes(w)
    PROVE  Balance'
<1>0. ListTypeOK /\ OpOK(w)
  BY DEF ListBase
<1>1. /\ Cardinality(Held) \in Nat /\ meta.hint \in Nat /\ failed \in Nat
      /\ Added \in Nat /\ Deleted \in Nat /\ Counted \in Nat
  BY <1>0, BalanceTypes
<1>2. Even(Cardinality(Held), meta.hint, Added, Deleted, Counted, failed)
  BY DEF Balance
<1>3. meta' = meta /\ failed' = failed
  BY DEF Changes
<1>4. /\ Added' = IF op[w].kind \in Adding THEN Added + 1 ELSE Added
      /\ Deleted' = IF op[w].kind = "delete_by_handle" THEN Deleted + 1 ELSE
           Deleted
      /\ Counted' = IF op[w].kind \in Counting THEN Counted + 1 ELSE Counted
  BY CountsAfter DEF Changes
<1>5. rows \in [Ranks -> Items \cup {NoItem}] /\ Active(w)
  BY <1>0 DEF ListTypeOK, Changes, Create, TakeOut, Replace, SetItem,
     DelItem, ListAt, Active
<1>6. op[w].at \in Ranks
  BY <1>0 DEF OpOK, Changes, Create, TakeOut, Replace, SetItem, DelItem, ListAt
<1>7. op[w].item \in Items /\ op[w].item # NoItem
  BY <1>5, OwnItemStays
<1>8. CASE Create(w)
  <2>1. /\ rows[op[w].at] = NoItem /\ op[w].kind \in Adding
        /\ rows' = [rows EXCEPT ![op[w].at] = op[w].item]
    BY <1>8 DEF Create, ListAt
  <2>2. Held' = Held \cup {op[w].at} /\ op[w].at \notin Held
    BY <1>5, <1>6, <1>7, <2>1, HeldAfter DEF Held
  <2>3. Cardinality(Held)' = Cardinality(Held) + 1
    BY <1>0, <1>6, <2>2, FillsOne
  <2>4. Added' = Added + 1 /\ Deleted' = Deleted /\ Counted' = Counted
    BY <1>4, <2>1, Apart
  <2>5. Even(Cardinality(Held) + 1, meta.hint, Added + 1, Deleted, Counted,
     failed)
    BY <1>1, <1>2, Ledger
  <2> QED
    BY <1>3, <2>3, <2>4, <2>5 DEF Balance
<1>9. CASE TakeOut(w)
  <2>1. /\ rows[op[w].at] = op[w].seen
        /\ rows' = [rows EXCEPT ![op[w].at] = NoItem]
        /\ op[w].kind \in {"pop", "remove", "delete_by_handle"}
        /\ op[w].step = "write"
    BY <1>9 DEF TakeOut, ListAt
  <2>2. op[w].seen # NoItem
    BY <1>0, <2>1 DEF OpOK, Matching, ByHandle
  <2>3. Held' = Held \ {op[w].at} /\ op[w].at \in Held
    BY <1>5, <1>6, <2>1, <2>2, HeldAfter DEF Held
  <2>4. Cardinality(Held)' = Cardinality(Held) - 1
    BY <1>0, <2>3, EmptiesOne
  <2>5. CASE op[w].kind = "delete_by_handle"
    <3>1. Added' = Added /\ Deleted' = Deleted + 1 /\ Counted' = Counted
      BY <1>4, <2>5, Apart
    <3>2. Even(Cardinality(Held) - 1, meta.hint, Added, Deleted + 1, Counted,
       failed)
      BY <1>1, <1>2, Ledger
    <3> QED
      BY <1>3, <2>4, <3>1, <3>2 DEF Balance
  <2>6. CASE op[w].kind # "delete_by_handle"
    <3>1. op[w].kind \in Counting
      BY <2>1, <2>6 DEF Counting, Positional
    <3>2. Added' = Added /\ Deleted' = Deleted /\ Counted' = Counted + 1
      BY <1>4, <2>6, <3>1, Apart
    <3>3. Even(Cardinality(Held) - 1, meta.hint, Added, Deleted, Counted + 1,
       failed)
      BY <1>1, <1>2, Ledger
    <3> QED
      BY <1>3, <2>4, <3>2, <3>3 DEF Balance
  <2> QED
    BY <2>5, <2>6
<1>10. CASE Replace(w)
  <2>1. /\ rows[op[w].at] = op[w].seen
        /\ rows' = [rows EXCEPT ![op[w].at] = op[w].item]
        /\ op[w].kind = "update_by_handle" /\ op[w].step = "write"
    BY <1>10 DEF Replace, ListAt
  <2>2. op[w].seen # NoItem
    BY <1>0, <2>1 DEF OpOK, Matching, ByHandle
  <2>3. Held' = Held
    BY <1>5, <1>6, <1>7, <2>1, <2>2, HeldAfter DEF Held
  <2>4. Added' = Added /\ Deleted' = Deleted /\ Counted' = Counted
    BY <1>4, <2>1 DEF Adding, Counting, Positional
  <2>5. Cardinality(Held)' = Cardinality(Held)
    BY <2>3
  <2> QED
    BY <1>2, <1>3, <2>4, <2>5 DEF Balance
<1>11. CASE SetItem(w) \/ DelItem(w)
  <2>1. op[w].step = "write" /\ op[w].kind \in Counting
    BY <1>11 DEF SetItem, DelItem, ListAt, Counting, Positional
  <2>2. op[w].at \in Held
    BY <2>1 DEF CacheOK
  <2>3. Added' = Added /\ Deleted' = Deleted /\ Counted' = Counted + 1
    BY <1>4, <2>1, Apart
  <2>4. /\ Even(Cardinality(Held) - 1, meta.hint, Added, Deleted, Counted + 1,
             failed)
        /\ Even(Cardinality(Held), meta.hint, Added, Deleted, Counted + 1,
             failed)
    BY <1>1, <1>2, Ledger
  <2>5. CASE SetItem(w)
    <3>1. rows' = [rows EXCEPT ![op[w].at] = op[w].item]
      BY <2>5 DEF SetItem
    <3>2. Held' = Held
      <4>1. Held' = Held \cup {op[w].at}
        BY <1>5, <1>6, <1>7, <3>1, HeldAfter
      <4> QED
        BY <2>2, <4>1
    <3>3. Cardinality(Held)' = Cardinality(Held)
      BY <3>2
    <3> QED
      BY <1>3, <2>3, <2>4, <3>3 DEF Balance
  <2>6. CASE DelItem(w)
    <3>1. rows' = [rows EXCEPT ![op[w].at] = NoItem]
      BY <2>6 DEF DelItem
    <3>2. Held' = Held \ {op[w].at}
      BY <1>5, <1>6, <3>1, HeldAfter
    <3>3. Cardinality(Held)' = Cardinality(Held) - 1
      BY <1>0, <2>2, <3>2, EmptiesOne
    <3> QED
      BY <1>3, <2>3, <2>4, <3>3 DEF Balance
  <2> QED
    BY <1>11, <2>5, <2>6
<1> QED
  BY <1>8, <1>9, <1>10, <1>11 DEF Changes

\* when that is recorded,
LEMMA BalanceOfRecord ==
    ASSUME ListBase, Balance, NEW w \in Writers, CacheOK(w), OthersStay(w),
       Records(w),
           ~Racing
    PROVE  Balance'
<1>0. ListTypeOK
  BY DEF ListBase
<1>1. /\ Cardinality(Held) \in Nat /\ meta.hint \in Nat /\ failed \in Nat
      /\ Added \in Nat /\ Deleted \in Nat /\ Counted \in Nat
  BY <1>0, BalanceTypes
<1>2. Even(Cardinality(Held), meta.hint, Added, Deleted, Counted, failed)
  BY DEF Balance
<1>3. /\ Held' = Held /\ Cardinality(Held)' = Cardinality(Held)
      /\ meta'.hint = NewHint(w, meta) /\ Recorded(w) /\ Pending(w)
  BY HeldSame DEF Records
<1>4. /\ Added' = IF op[w].kind \in Adding THEN Added - 1 ELSE Added
      /\ Deleted' = IF op[w].kind = "delete_by_handle" THEN Deleted - 1 ELSE
           Deleted
      /\ Counted' = IF op[w].kind \in Counting THEN Counted - 1 ELSE Counted
  BY CountsAfter DEF Records
<1>5. CASE op[w].kind \in Counting
  <2>1. HoldsCount(w)
    BY <1>3, <1>5 DEF HoldsCount, Pending
  <2>2. cache[w].ranks = Held
    BY <2>1 DEF CacheOK
  <2>3. \A v \in Writers : v # w => ~Pending(v)
    BY <2>1 DEF Racing
  <2>4. ~Pending(w)' /\ \A v \in Writers : v # w => ~Pending(v)'
    BY <2>3 DEF Records, Pending, OthersStay
  <2>5. Added' = 0 /\ Deleted' = 0 /\ Counted' = 0
    <3>1. ASSUME NEW K
          PROVE  Cardinality(PendingOf(K))' = 0
      <4>1. PendingOf(K)' = {}
        BY <2>4 DEF PendingOf
      <4> QED
        BY <4>1, FS_EmptySet
    <3> QED
      BY <3>1 DEF Added, Deleted, Counted
  <2>6. meta'.hint = Cardinality(Held) /\ failed' = 0
    BY <1>3, <1>5, <2>2 DEF NewHint, Recorded
  <2>7. Even(Cardinality(Held), Cardinality(Held), 0, 0, 0, 0)
    BY <1>1, LedgerCounted
  <2> QED
    BY <1>3, <2>5, <2>6, <2>7 DEF Balance
<1>6. CASE op[w].kind \notin Counting
  <2>1. /\ failed' = failed /\ Counted' = Counted
        /\ meta'.hint = IF meta.hint + Delta(op[w].kind) < 0 THEN 0
                        ELSE meta.hint + Delta(op[w].kind)
    BY <1>3, <1>4, <1>6 DEF NewHint, Recorded
  <2>2. CASE op[w].kind \in Adding
    <3>1. Added' = Added - 1 /\ Deleted' = Deleted
      BY <1>4, <2>2, Apart
    <3>2. Delta(op[w].kind) = 1
      BY <2>2 DEF Delta, Adding
    <3>3. meta'.hint = meta.hint + 1
      BY <1>1, <2>1, <3>2
    <3>4. Even(Cardinality(Held), meta.hint + 1, Added - 1, Deleted, Counted,
       failed)
      BY <1>1, <1>2, Ledger
    <3> QED
      BY <1>3, <2>1, <3>1, <3>3, <3>4 DEF Balance
  <2>3. CASE op[w].kind = "delete_by_handle" /\ meta.hint # 0
    <3>1. Added' = Added /\ Deleted' = Deleted - 1
      BY <1>4, <2>3, Apart
    <3>2. Delta(op[w].kind) = -1
      BY <2>3 DEF Delta, Adding
    <3>3. meta'.hint = meta.hint - 1
      BY <1>1, <2>1, <2>3, <3>2
    <3>4. Even(Cardinality(Held), meta.hint - 1, Added, Deleted - 1, Counted,
       failed)
      BY <1>1, <1>2, Ledger
    <3> QED
      BY <1>3, <2>1, <3>1, <3>3, <3>4 DEF Balance
  <2>4. CASE op[w].kind = "delete_by_handle" /\ meta.hint = 0
    <3>1. Clamps(w)
      BY <1>3, <2>4 DEF Clamps
    <3>2. \A v \in Writers : v # w => ~Pending(v)
      BY <3>1 DEF Racing
    <3>3. Added = 0 /\ Counted = 0
      BY <2>4, <3>2, Apart, AloneAreNone DEF Added, Counted
    <3>4. Deleted = 1
      <4>1. PendingOf({"delete_by_handle"}) = {w}
        BY <1>3, <2>4, <3>2 DEF PendingOf
      <4>2. Cardinality({w}) = 1
        BY FS_Singleton
      <4> QED
        BY <4>1, <4>2 DEF Deleted
    <3>5. Added' = Added /\ Deleted' = 0
      <4>1. Added' = Added /\ Deleted' = Deleted - 1
        BY <1>4, <2>4, Apart
      <4> QED
        BY <3>4, <4>1
    <3>6. meta'.hint = 0
      <4>1. Delta(op[w].kind) = -1
        BY <2>4 DEF Delta, Adding
      <4> QED
        BY <2>1, <2>4, <4>1
    <3>7. Even(Cardinality(Held), 0, 0, 0, 0, failed)
      <4>1. Even(Cardinality(Held), 0, 0, 1, 0, failed)
        BY <1>2, <2>4, <3>3, <3>4
      <4> QED
        BY <1>1, <4>1, LedgerClamped
    <3> QED
      BY <1>3, <2>1, <3>3, <3>5, <3>6, <3>7 DEF Balance
  <2>5. CASE op[w].kind \notin Adding /\ op[w].kind # "delete_by_handle"
    <3>1. Added' = Added /\ Deleted' = Deleted
      BY <1>4, <2>5
    <3>2. Delta(op[w].kind) = 0
      BY <2>5 DEF Delta
    <3>3. meta'.hint = meta.hint
      BY <1>1, <2>1, <3>2
    <3> QED
      BY <1>2, <1>3, <2>1, <3>1, <3>3 DEF Balance
  <2> QED
    BY <2>2, <2>3, <2>4, <2>5
<1> QED
  BY <1>5, <1>6

\* when it never will be,
LEMMA BalanceOfFailure ==
    ASSUME ListBase, Balance, NEW w \in Writers, OthersStay(w), Fails(w)
    PROVE  Balance'
<1>0. ListTypeOK
  BY DEF ListBase
<1>1. /\ Cardinality(Held) \in Nat /\ meta.hint \in Nat /\ failed \in Nat
      /\ Added \in Nat /\ Deleted \in Nat /\ Counted \in Nat
  BY <1>0, BalanceTypes
<1>2. Even(Cardinality(Held), meta.hint, Added, Deleted, Counted, failed)
  BY DEF Balance
<1>3. /\ Cardinality(Held)' = Cardinality(Held)
      /\ meta'.hint = meta.hint /\ failed' = failed + 1
  BY HeldSame DEF Fails
<1>4. /\ Added' = IF op[w].kind \in Adding THEN Added - 1 ELSE Added
      /\ Deleted' = IF op[w].kind = "delete_by_handle" THEN Deleted - 1 ELSE
           Deleted
      /\ Counted' = IF op[w].kind \in Counting THEN Counted - 1 ELSE Counted
  BY CountsAfter DEF Fails
<1>5. LET h == Cardinality(Held)
          t == meta.hint
          f == failed + 1
      IN  /\ Even(h, t, Added - 1, Deleted, Counted, f)
          /\ Even(h, t, Added, Deleted - 1, Counted, f)
          /\ Even(h, t, Added, Deleted, Counted - 1, f)
          /\ Even(h, t, Added, Deleted, Counted, f)
  BY <1>1, <1>2, Ledger
<1>6. CASE op[w].kind \in Adding
  BY <1>3, <1>4, <1>5, <1>6, Apart DEF Balance
<1>7. CASE op[w].kind = "delete_by_handle"
  BY <1>3, <1>4, <1>5, <1>7, Apart DEF Balance
<1>8. CASE op[w].kind \in Counting
  BY <1>3, <1>4, <1>5, <1>8, Apart DEF Balance
<1>9. CASE op[w].kind \notin Adding \cup Counting \cup {"delete_by_handle"}
  BY <1>3, <1>4, <1>5, <1>9 DEF Balance
<1> QED
  BY <1>6, <1>7, <1>8, <1>9

\* and otherwise.
LEMMA BalanceOfRest ==
    ASSUME Balance, NEW w \in Writers, OthersStay(w), Quiet(w) \/ Stays(w)
    PROVE  Balance'
<1>1. Pending(w) = Pending(w)' /\ (Pending(w) => op'[w].kind = op[w].kind)
  BY DEF Quiet, Stays, Pending
<1>2. Added' = Added /\ Deleted' = Deleted /\ Counted' = Counted
  BY <1>1, CountsAfter
<1>3. UNCHANGED <<rows, meta, failed>>
  BY DEF Quiet, Stays
<1>4. Cardinality(Held)' = Cardinality(Held)
  BY <1>3, HeldSame
<1> QED
  BY <1>2, <1>3, <1>4 DEF Balance

\* Every step that races nobody leaves the ledger even,
LEMMA BalanceStep ==
    ASSUME ListBase, ListBase', Calm => Balance, \A v \in Writers : CacheOK(v),
       ~Racing,
           NEW w \in Writers, Does(w)
    PROVE  Calm' => Balance'
<1>1. OthersStay(w)
  BY OthersKeep DEF ListBase, OthersStay
<1>2. CacheOK(w)
  OBVIOUS
<1>3. SUFFICES ASSUME Calm'
               PROVE  Balance'
  OBVIOUS
<1>4. ~Emptied(w)'
  BY <1>3 DEF Calm
<1>5. CASE Drops(w)
  <2>1. /\ op[w].step = "drop" /\ rows' = rows /\ failed' = failed
        /\ meta'.hint = 0 /\ op'[w].step = "idle"
    <3>1. op' = [op EXCEPT ![w] = NoOp] /\ op[w].step = "drop"
      BY <1>5 DEF Drops, ResetMeta, DropMeta, ListAt, Finish
    <3>2. op'[w].step = "idle"
      BY <3>1 DEF ListBase, ListTypeOK, NoOp
    <3>3. rows' = rows /\ failed' = failed /\ meta'.hint = 0
      BY <1>5 DEF Drops, ResetMeta, DropMeta, WriteHint, NoMeta, observed
    <3> QED
      BY <3>1, <3>2, <3>3
  <2>2. \A v \in Writers : v # w => ~Pending(v)
    BY <2>1 DEF Racing, Emptied
  <2>3. \A v \in Writers : ~Pending(v)'
    BY <1>1, <2>1, <2>2 DEF Pending, OthersStay, Unrecorded
  <2>4. Added' = 0 /\ Deleted' = 0 /\ Counted' = 0
    <3>1. ASSUME NEW K
          PROVE  Cardinality(PendingOf(K))' = 0
      <4>1. PendingOf(K)' = {}
        BY <2>3 DEF PendingOf
      <4> QED
        BY <4>1, FS_EmptySet
    <3> QED
      BY <3>1 DEF Added, Deleted, Counted
  <2>5. Cardinality(Held)' = 0
    <3>1. Held' = {}
      BY <1>2, <2>1, HeldSame DEF CacheOK
    <3> QED
      BY <3>1, FS_EmptySet
  <2>6. Even(0, 0, 0, 0, 0, failed)
    BY LedgerCounted DEF ListBase, ListTypeOK
  <2> QED
    BY <2>1, <2>4, <2>5, <2>6 DEF Balance
<1>6. CASE ~Drops(w)
  <2>1. Calm
    <3>1. ~Emptied(w)
      BY <1>4, <1>6, EmptiesOn DEF Drops
    <3>2. \A v \in Writers : v # w => ~Emptied(v)
      BY <1>1, <1>3 DEF Calm, Emptied, OthersStay
    <3> QED
      BY <3>1, <3>2 DEF Calm
  <2>2. Balance
    BY <2>1
  <2>3. Quiet(w) \/ Stays(w) \/ Changes(w) \/ Records(w) \/ Fails(w)
    BY <1>2, <1>4, <1>6, Effects
  <2> QED
    BY <1>1, <1>2, <2>2, <2>3, BalanceOfChange, BalanceOfRecord,
       BalanceOfFailure, BalanceOfRest
<1> QED
  BY <1>5, <1>6

\* and leaves no item that nobody can see.
LEMMA VisibleStep ==
    ASSUME ListBase, ListBase', Visible, \A v \in Writers : CacheOK(v),
           ~Racing, NEW w \in Writers, Does(w)
    PROVE  Visible'
<1>1. OthersStay(w)
  BY OthersKeep DEF ListBase, OthersStay
<1>2. CacheOK(w) /\ failed \in Nat /\ failed' \in Nat
  BY DEF ListBase, ListTypeOK
<1>3. SUFFICES ASSUME Held' # {}, meta' = NoMeta, ListInFlight' = {}
               PROVE  failed' > 0
  BY DEF Visible
<1>4. ~Pending(w)' /\ \A v \in Writers : v # w => ~Pending(v)
  BY <1>1, <1>3 DEF ListInFlight, Pending, OthersStay
<1>5. CASE Quiet(w)
  <2>1. Held = Held' /\ meta = meta' /\ failed = failed'
    BY <1>5, HeldSame DEF Quiet
  <2>2. ListInFlight = {}
    BY <1>4, <1>5 DEF ListInFlight, Quiet
  <2> QED
    BY <1>3, <2>1, <2>2 DEF Visible
<1>6. CASE Stays(w) \/ Changes(w) \/ Records(w)
  BY <1>3, <1>4, <1>6 DEF Stays, Changes, Records
<1>7. CASE Fails(w)
  BY <1>2, <1>7 DEF Fails
<1>8. CASE Drops(w)
  <2>1. op[w].step = "drop" /\ rows' = rows
    BY <1>8 DEF Drops, ResetMeta, DropMeta, ListAt
  <2>2. Held' = {}
    BY <1>2, <2>1, HeldSame DEF CacheOK
  <2> QED
    BY <1>3, <2>2
<1>9. CASE ReadRange(w) \/ Wiped(w) \/ WipeRow(w)
  <2>1. Held' \subseteq Held
    <3>1. CASE WipeRow(w)
      <4>1. PICK r \in cache[w].ranks : rows' = [rows EXCEPT ![r] = NoItem]
        BY <3>1 DEF WipeRow
      <4>2. r \in Ranks /\ rows \in [Ranks -> Items \cup {NoItem}]
        BY DEF ListBase, ListTypeOK
      <4>3. Held' = Held \ {r}
        BY <4>1, <4>2, HeldAfter
      <4> QED
        BY <4>3
    <3>2. CASE ~WipeRow(w)
      BY <1>9, <3>2, HeldSame DEF ReadRange, Wiped, database
    <3> QED
      BY <3>1, <3>2
  <2>2. meta' = meta /\ failed' = failed /\ op[w].step \in {"sweep", "wipe"}
    BY <1>9 DEF ReadRange, Wiped, WipeRow, database, observed, ListAt
  <2>3. ListInFlight = {}
    BY <1>4, <2>2 DEF ListInFlight, Pending, Unrecorded
  <2> QED
    BY <1>3, <2>1, <2>2, <2>3 DEF Visible
<1> QED
  BY <1>2, <1>5, <1>6, <1>7, <1>8, <1>9, EffectsHere

\* The ranks of a new list: one for each item.
LEMMA SpreadIsCounted ==
    ASSUME NEW n \in 0..MaxInitial
    PROVE  /\ Spread(n) \subseteq Ranks /\ Cardinality(Spread(n)) = n
           /\ \A r \in Spread(n) : (r - FirstRank) \div 2 + 1 \in 1..n
           /\ \A r, s \in Spread(n) :
                (r - FirstRank) \div 2 = (s - FirstRank) \div 2 => r = s
           /\ \A i \in 1..n : \E r \in Spread(n) : (r - FirstRank) \div 2 + 1 =
                i
<1> DEFINE f == [i \in 1..n |-> FirstRank + 2 * (i - 1)]
<1>1. FirstRank \in Int /\ MaxInitial \in Nat /\ n \in Nat /\ n <= MaxInitial
  BY Bounds DEF FirstRank
<1>2. f \in Bijection(1..n, Spread(n))
  <2>1. f \in Surjection(1..n, Spread(n))
    BY DEF Surjection, Spread
  <2>2. f \in Injection(1..n, Spread(n))
    <3>1. \A i, j \in 1..n : FirstRank + 2 * (i - 1) = FirstRank + 2 * (j - 1)
       => i = j
      BY <1>1
    <3>2. \A i, j \in 1..n : f[i] = f[j] => i = j
      BY <3>1
    <3>3. f \in [1..n -> Spread(n)]
      BY DEF Spread
    <3> QED
      BY <3>2, <3>3 DEF Injection, IsInjective
  <2> QED
    BY <2>1, <2>2 DEF Bijection
<1>3. Cardinality(Spread(n)) = n
  <2>1. IsFiniteSet(1..n) /\ Cardinality(1..n) = n
    <3>1. Cardinality(1..n) = IF 1 > n THEN 0 ELSE n - 1 + 1
      BY <1>1, FS_Interval
    <3>2. IsFiniteSet(1..n)
      BY <1>1, FS_Interval
    <3> QED
      BY <1>1, <3>1, <3>2
  <2>2. ExistsBijection(1..n, Spread(n))
    BY <1>2 DEF ExistsBijection
  <2>3. Cardinality(Spread(n)) = Cardinality(1..n)
    BY <2>1, <2>2, FS_Bijection
  <2> QED
    BY <2>1, <2>3
<1>4. Spread(n) \subseteq Ranks
  <2>1. 1..n \subseteq 1..MaxInitial
    BY <1>1
  <2>2. Spread(n) \subseteq Spread(MaxInitial)
    BY <2>1 DEF Spread
  <2> QED
    BY <2>2, RoomAssumption
<1>5. \A i \in 1..n : ((FirstRank + 2 * (i - 1)) - FirstRank) \div 2 = i - 1
  <2>1. \A i \in 1..n : (FirstRank + 2 * (i - 1)) - FirstRank = 2 * (i - 1)
    BY <1>1
  <2>2. \A i \in 1..n : (2 * (i - 1)) \div 2 = i - 1
    BY <1>1
  <2> QED
    BY <2>1, <2>2
<1>6. ASSUME NEW r \in Spread(n)
      PROVE  \E i \in 1..n : r = FirstRank + 2 * (i - 1) /\ (r - FirstRank)
         \div 2 = i - 1
  BY <1>5 DEF Spread
<1>7. \A r \in Spread(n) : (r - FirstRank) \div 2 + 1 \in 1..n
  <2>1. TAKE r \in Spread(n)
  <2>2. PICK i \in 1..n : (r - FirstRank) \div 2 = i - 1
    BY <1>6
  <2>3. i - 1 + 1 = i
    BY <1>1
  <2> QED
    BY <2>2, <2>3
<1>8. ASSUME NEW r \in Spread(n), NEW s \in Spread(n),
             (r - FirstRank) \div 2 = (s - FirstRank) \div 2
      PROVE  r = s
  <2>1. PICK i \in 1..n : r = FirstRank + 2 * (i - 1) /\ (r - FirstRank) \div 2
     = i - 1
    BY <1>6
  <2>2. PICK j \in 1..n : s = FirstRank + 2 * (j - 1) /\ (s - FirstRank) \div 2
     = j - 1
    BY <1>6
  <2>3. i - 1 = j - 1
    BY <1>8, <2>1, <2>2
  <2>4. i = j
    BY <2>3
  <2> QED
    BY <2>1, <2>2, <2>4
<1>9. ASSUME NEW i \in 1..n
      PROVE  \E r \in Spread(n) : (r - FirstRank) \div 2 + 1 = i
  <2>1. (FirstRank + 2 * (i - 1)) - FirstRank \in Int /\ FirstRank + 2 * (i -
     1) \in Spread(n)
    BY <1>1 DEF Spread
  <2>2. ((FirstRank + 2 * (i - 1)) - FirstRank) \div 2 + 1 = i
    BY <1>5
  <2> QED
    BY <2>1, <2>2
<1> QED
  BY <1>3, <1>4, <1>7, <1>8, <1>9

\* The invariant holds at first,
LEMMA ListInitInv ==
    ASSUME ListInit
    PROVE  ListInv
<1>1. PICK n \in 0..MaxInitial :
         /\ rows = [r \in Ranks |-> IF r \in Spread(n)
                                    THEN (r - FirstRank) \div 2 + 1 ELSE
                                       NoItem]
         /\ committed = 1..n
         /\ meta = [token |-> 1, hint |-> n] \/ (n = 0 /\ meta = NoMeta)
  BY DEF ListInit
<1>2. /\ tokens = 1 /\ op = [w \in Writers |-> NoOp] /\ cache = [w \in Writers
           |-> Cold]
      /\ ops = 0 /\ reported = [i \in Items |-> NoItem] /\ destroyed = {}
      /\ failed = 0 /\ raced = FALSE /\ crashes = 0
  BY DEF ListInit
<1>3. n \in Nat /\ n <= MaxInitial /\ 1..n \subseteq Items /\ NoItem \notin
   1..n
  BY Bounds DEF Items, NoItem
<1>4. rows \in [Ranks -> Items \cup {NoItem}]
  BY <1>1, <1>3, SpreadIsCounted
<1>5. Held = Spread(n)
  <2>1. \A r \in Ranks : rows[r] # NoItem <=> r \in Spread(n)
    BY <1>1, <1>3, SpreadIsCounted
  <2>2. Spread(n) \subseteq Ranks
    BY SpreadIsCounted
  <2> QED
    BY <2>1, <2>2 DEF Held
<1>6. \A w \in Writers : op[w] = NoOp
  BY <1>2
<1>7. ListTypeOK
  <2>1. op \in [Writers -> OpRecs] /\ cache \in [Writers -> CacheRecs]
    BY <1>2, EmptyRecords
  <2>2. meta \in Metas /\ tokens \in Nat /\ meta.token <= tokens
    BY <1>1, <1>2, <1>3 DEF Metas, NoMeta
  <2>3. ops \in 0..MaxOps /\ failed \in Nat /\ crashes \in 0..MaxCrashes /\
     raced \in BOOLEAN
    <3>1. 0 \in 0..MaxOps /\ 0 \in 0..MaxCrashes /\ 0 \in Nat
      BY Bounds
    <3>2. FALSE \in BOOLEAN
      OBVIOUS
    <3> QED
      BY <1>2, <3>1, <3>2
  <2>4. committed \in SUBSET Items /\ destroyed \in SUBSET Items
    BY <1>1, <1>2, <1>3
  <2>5. reported \in [Items -> Items \cup {NoItem}]
    BY <1>2
  <2> QED
    BY <1>4, <2>1, <2>2, <2>3, <2>4, <2>5 DEF ListTypeOK, OpRecs, CacheRecs
<1>8. \A w \in Writers : OpOK(w) /\ ~Active(w) /\ ~Pending(w) /\ ~Emptied(w)
  BY <1>6 DEF OpOK, Active, Emptied, Pending, Unrecorded, NoOp
<1>9. Conserved
  <2>1. NewItems
    BY <1>1, <1>2, <1>3, Bounds DEF NewItems
  <2>2. ItemsOfTheirOwn /\ \A w \in Writers : ItemOK(w)
    BY <1>6, <1>8 DEF ItemsOfTheirOwn, ItemOK, Unwritten, NoOp
  <2>3. Listed = 1..n
    <3>1. \A r \in Ranks : rows[r] = NoItem \/ rows[r] \in 1..n
      BY <1>1, SpreadIsCounted
    <3>2. \A i \in 1..n : \E r \in Ranks : rows[r] = i
      BY <1>1, SpreadIsCounted
    <3> QED
      BY <1>3, <3>1, <3>2 DEF Listed
  <2>4. \A r, s \in Ranks : rows[r] = rows[s] => r = s \/ rows[r] = NoItem
    <3>1. SUFFICES ASSUME NEW r \in Ranks, NEW s \in Ranks, rows[r] = rows[s],
                          rows[r] # NoItem
                   PROVE  r = s
      OBVIOUS
    <3>2. /\ r \in Spread(n) /\ s \in Spread(n)
          /\ (r - FirstRank) \div 2 + 1 = (s - FirstRank) \div 2 + 1
      BY <1>1, <3>1
    <3>3. (r - FirstRank) \div 2 = (s - FirstRank) \div 2
      <4>1. (r - FirstRank) \div 2 \in Int /\ (s - FirstRank) \div 2 \in Int
        <5>1. FirstRank \in Int /\ r \in Int /\ s \in Int
          BY Bounds DEF FirstRank, Ranks
        <5> QED
          BY <5>1
      <4> QED
        BY <3>2, <4>1
    <3> QED
      BY <3>2, <3>3, SpreadIsCounted
  <2>5. Reported = {}
    BY <1>2 DEF Reported
  <2>6. ItemsAreConserved
    BY <1>1, <1>2, <2>3, <2>4, <2>5 DEF ItemsAreConserved
  <2> QED
    BY <2>1, <2>2, <2>6 DEF Conserved
<1>10. ~Racing
  BY <1>8 DEF Racing
<1>11. Balance
  <2>1. ASSUME NEW K
        PROVE  Cardinality(PendingOf(K)) = 0
    BY <1>8, FS_EmptySet DEF PendingOf
  <2>2. Added = 0 /\ Deleted = 0 /\ Counted = 0
    BY <2>1 DEF Added, Deleted, Counted
  <2>3. Cardinality(Held) = n /\ meta.hint = n
    BY <1>1, <1>5, SpreadIsCounted DEF NoMeta
  <2>4. Even(n, n, 0, 0, 0, 0)
    BY <1>3, LedgerCounted
  <2> QED
    BY <1>2, <2>2, <2>3, <2>4 DEF Balance
<1>12. \A w \in Writers : CacheOK(w)
  BY <1>6, <1>8 DEF CacheOK, HoldsCount, Unrecorded, NoOp
<1>13. Visible
  <2>1. CASE n = 0
    <3>1. 1..n = {}
      BY <2>1
    <3>2. Spread(n) = {}
      BY <3>1 DEF Spread
    <3> QED
      BY <1>5, <3>2 DEF Visible
  <2>2. CASE n # 0
    BY <1>1, <2>2 DEF Visible, NoMeta
  <2> QED
    BY <2>1, <2>2
<1> QED
  BY <1>7, <1>8, <1>9, <1>10, <1>11, <1>12, <1>13 DEF ListInv, ListBase,
     Settled

\* after every step of a writer,
LEMMA ListInvStep ==
    ASSUME ListInv, NEW w \in Writers, Does(w)
    PROVE  ListInv'
<1>1. ListBase /\ ListBase'
  BY BaseStep DEF ListInv
<1>2. Conserved'
  BY ConservedStep DEF ListInv
<1>3. raced' = (raced \/ Racing')
  BY Watched DEF Watch
<1>4. ASSUME ~raced'
      PROVE  Settled' /\ Visible'
  <2>1. ~raced /\ ~Racing'
    BY <1>3, <1>4
  <2>2. ~Racing /\ Settled /\ Visible
    BY <2>1 DEF ListInv
  <2>3. \A v \in Writers : CacheOK(v)'
    BY <1>1, <2>1, <2>2, CacheStep DEF Settled
  <2>4. Calm' => Balance'
    BY <1>1, <2>2, BalanceStep DEF Settled
  <2>5. Visible'
    BY <1>1, <2>2, VisibleStep DEF Settled
  <2> QED
    BY <2>3, <2>4, <2>5 DEF Settled
<1> QED
  BY <1>1, <1>2, <1>3, <1>4 DEF ListInv

\* and when nothing changes.
LEMMA ListInvStutter ==
    ASSUME ListInv, UNCHANGED listVars
    PROVE  ListInv'
<1> USE DEF listVars
<1>1. ListBase'
  <2>1. ListTypeOK'
    BY DEF ListInv, ListBase, ListTypeOK
  <2>2. \A v \in Writers : OpOK(v)'
    BY DEF ListInv, ListBase, OpOK, Active, Emptied
  <2> QED
    BY <2>1, <2>2 DEF ListBase
<1>2. Conserved'
  <2>1. NewItems' /\ ItemsOfTheirOwn'
    BY DEF ListInv, Conserved, NewItems, ItemsOfTheirOwn, Active
  <2>2. \A v \in Writers : ItemOK(v)'
    BY DEF ListInv, Conserved, ItemOK
  <2>3. ItemsAreConserved'
    BY DEF ListInv, Conserved, ItemsAreConserved, Listed, Reported
  <2> QED
    BY <2>1, <2>2, <2>3 DEF Conserved
<1>3. Racing' = Racing
  BY DEF Racing, HoldsCount, Clamps, Emptied, Pending
<1>4. Held' = Held /\ Calm' = Calm
  BY DEF Held, Calm, Emptied
<1>5. ASSUME Settled
      PROVE  Settled'
  <2>1. \A v \in Writers : CacheOK(v)'
    BY <1>4, <1>5 DEF Settled, CacheOK, HoldsCount
  <2>2. Added' = Added /\ Deleted' = Deleted /\ Counted' = Counted
    BY DEF Added, Deleted, Counted, PendingOf, Pending
  <2>3. Balance' = Balance
    BY <1>4, <2>2 DEF Balance
  <2> QED
    BY <1>4, <1>5, <2>1, <2>3 DEF Settled
<1>6. ASSUME Visible
      PROVE  Visible'
  BY <1>4, <1>6 DEF Visible, ListInFlight, Pending
<1> QED
  BY <1>1, <1>2, <1>3, <1>5, <1>6 DEF ListInv

\* It holds however many writers there are, whatever they call, and whichever
\* of them dies half way.
THEOREM ListInvariance == ListSpec => []ListInv
<1>1. ListInit => ListInv
  BY ListInitInv
<1>2. ListInv /\ [ListNext]_listVars => ListInv'
  BY ListInvStep, ListInvStutter, NextDoes
<1> QED
  BY <1>1, <1>2, PTL DEF ListSpec

\* The database, the operations and the caches keep their types, for any
\* number of writers and operations: in particular no hint is negative, and no
\* row is written under a token the metadata row will have again.
THEOREM ListTypeCorrect == ListSpec => []ListTypeOK
<1>1. ListInv => ListTypeOK
  BY DEF ListInv, ListBase
<1> QED
  BY <1>1, ListInvariance, PTL

\* However the operations of any number of writers meet in the database, and
\* whichever of them dies half way, every item that was written is in the list
\* once, was reported as taken out by one operation, or was overwritten or
\* wiped by one that does not report: none is lost, doubled or reported twice.
THEOREM NoItemIsLost == ListSpec => []ItemsAreConserved
<1>1. ListInv => ItemsAreConserved
  BY DEF ListInv, Conserved
<1> QED
  BY <1>1, ListInvariance, PTL

\* An even ledger bounds the drift.
LEMMA BalanceBounds ==
    ASSUME NEW h \in Nat, NEW t \in Nat, NEW a \in Nat, NEW d \in Nat, NEW c
       \in Nat,
           NEW f \in Nat, NEW n \in Nat, Even(h, t, a, d, c, f),
           a + d + c <= n
    PROVE  (IF t > h THEN t - h ELSE h - t) <= n + f
  BY DEF Even

\* Who has yet to record is of one of the three kinds.
LEMMA InFlightIsCounted ==
    ASSUME ListTypeOK
    PROVE  /\ Cardinality(ListInFlight) \in Nat
           /\ Added + Deleted + Counted <= Cardinality(ListInFlight)
<1> DEFINE A == PendingOf(Adding)
           D == PendingOf({"delete_by_handle"})
           C == PendingOf(Counting)
<1>1. /\ IsFiniteSet(A) /\ IsFiniteSet(D) /\ IsFiniteSet(C)
      /\ Cardinality(A) \in Nat /\ Cardinality(D) \in Nat
      /\ Cardinality(C) \in Nat
  BY PendingAreCounted
<1>2. A \cap D = {} /\ (A \cup D) \cap C = {}
  BY Apart DEF PendingOf
<1>3. A \cup D \cup C \subseteq ListInFlight
  BY DEF PendingOf, ListInFlight
<1>4. IsFiniteSet(ListInFlight) /\ Cardinality(ListInFlight) \in Nat
  <2>1. ListInFlight \subseteq Writers
    BY DEF ListInFlight
  <2> QED
    BY <2>1, WritersAssumption, FS_Subset, FS_CardinalityType
<1> HIDE DEF A, D, C
<1>5. IsFiniteSet(A \cup D) /\ Cardinality(A \cup D) = Cardinality(A) +
   Cardinality(D)
  <2>1. /\ IsFiniteSet(A \cup D)
        /\ Cardinality(A \cup D) =
             Cardinality(A) + Cardinality(D) - Cardinality(A \cap D)
    BY <1>1, FS_Union
  <2>2. Cardinality(A \cap D) = 0
    BY <1>2, FS_EmptySet
  <2> QED
    BY <1>1, <2>1, <2>2
<1>6. /\ IsFiniteSet(A \cup D \cup C)
      /\ Cardinality(A \cup D \cup C) =
           Cardinality(A) + Cardinality(D) + Cardinality(C)
  <2>1. /\ IsFiniteSet(A \cup D \cup C)
        /\ Cardinality(A \cup D \cup C) =
             Cardinality(A \cup D) + Cardinality(C) - Cardinality((A \cup D)
                \cap C)
    BY <1>1, <1>5, FS_Union
  <2>2. Cardinality((A \cup D) \cap C) = 0
    BY <1>2, FS_EmptySet
  <2> QED
    BY <1>1, <1>5, <2>1, <2>2
<1>7. Cardinality(A \cup D \cup C) <= Cardinality(ListInFlight)
  BY <1>3, <1>4, FS_Subset
<1> QED
  BY <1>4, <1>6, <1>7 DEF Added, Deleted, Counted, A, D, C

\* The count hint drifts by no more than the operations under way and the
\* touches that failed since a count, as long as none of the windows of Racing
\* was open, whatever the number of writers.
THEOREM HintDriftsNoFurther == ListSpec => []DriftIsBounded
<1>1. ListInv => DriftIsBounded
  <2>1. SUFFICES ASSUME ListInv, ~raced, Calm
                 PROVE  Gap <= Cardinality(ListInFlight) + failed
    BY DEF DriftIsBounded, Calm
  <2>2. ListTypeOK /\ Balance
    BY <2>1 DEF ListInv, ListBase, Settled
  <2>3. /\ Cardinality(Held) \in Nat /\ meta.hint \in Nat /\ failed \in Nat
        /\ Added \in Nat /\ Deleted \in Nat /\ Counted \in Nat
    BY <2>2, BalanceTypes
  <2>4. /\ Cardinality(ListInFlight) \in Nat
        /\ Added + Deleted + Counted <= Cardinality(ListInFlight)
    BY <2>2, InFlightIsCounted
  <2>5. Even(Cardinality(Held), meta.hint, Added, Deleted, Counted, failed)
    BY <2>2 DEF Balance
  <2> QED
    BY <2>3, <2>4, <2>5, BalanceBounds DEF Gap
<1> QED
  BY <1>1, ListInvariance, PTL

\* Then a list with items has a metadata row, or one is about to be written, or
\* the touch that would have written it failed.
THEOREM NoItemIsHidden == ListSpec => []ItemsAreVisible
<1>1. ListInv => ItemsAreVisible
  BY DEF ListInv, Visible, ItemsAreVisible
<1> QED
  BY <1>1, ListInvariance, PTL

\* A ledger without debts has the exact hint.
LEMMA EvenAtRest ==
    ASSUME NEW h \in Nat, NEW t \in Nat, Even(h, t, 0, 0, 0, 0)
    PROVE  t = h
BY DEF Even

\* And a list at rest, whose touches all landed, has an exact hint
\* (docs/guides/property-lists.rst:168).
THEOREM QuietHintsAreExact == ListSpec => [](~raced => QuietHintIsExact)
<1>1. ListInv => (~raced => QuietHintIsExact)
  <2>1. SUFFICES ASSUME ListInv, ~raced, \A w \in Writers : op[w].step = "idle",
                        failed = 0
                 PROVE  meta.hint = Cardinality(Held)
    BY DEF QuietHintIsExact
  <2>2. ListTypeOK
    BY <2>1 DEF ListInv, ListBase
  <2>3. Balance
    BY <2>1 DEF ListInv, Settled, Calm, Emptied
  <2>4. Added = 0 /\ Deleted = 0 /\ Counted = 0
    <3>1. ASSUME NEW K
          PROVE  Cardinality(PendingOf(K)) = 0
      BY <2>1, FS_EmptySet DEF PendingOf, Pending, Unrecorded
    <3> QED
      BY <3>1 DEF Added, Deleted, Counted
  <2>5. Cardinality(Held) \in Nat /\ meta.hint \in Nat
    BY <2>2, BalanceTypes
  <2>6. Even(Cardinality(Held), meta.hint, 0, 0, 0, 0)
    BY <2>1, <2>3, <2>4 DEF Balance
  <2> QED
    BY <2>5, <2>6, EvenAtRest
<1> QED
  BY <1>1, ListInvariance, PTL

-----------------------------------------------------------------------------
(* Which rows meet.  Names are sequences of characters.                    *)

CONSTANTS Characters, Colon

\* The range key of a row: bucket + ":" + name.
RowKey(bucket, name) == bucket \o (<<Colon>> \o name)

NoColon(s) == \A i \in 1..Len(s) : s[i] # Colon

\* The rows that get_bucket and delete_bucket select on DynamoDB.
StartsWith(s, prefix) ==
    /\ Len(prefix) <= Len(s)
    /\ \A i \in 1..Len(prefix) : s[i] = prefix[i]

LEMMA KeyParts ==
    ASSUME Colon \in Characters,
           NEW b \in Seq(Characters), NEW n \in Seq(Characters)
    PROVE  /\ Len(RowKey(b, n)) = Len(b) + 1 + Len(n)
           /\ \A i \in 1..Len(b) : RowKey(b, n)[i] = b[i]
           /\ RowKey(b, n)[Len(b) + 1] = Colon
           /\ \A i \in 1..Len(n) : RowKey(b, n)[Len(b) + 1 + i] = n[i]
<1> DEFINE end == <<Colon>> \o n
<1>1. <<Colon>> \in Seq(Characters) /\ Len(<<Colon>>) = 1
  OBVIOUS
<1>2. /\ end \in Seq(Characters)
      /\ Len(end) = 1 + Len(n)
      /\ \A i \in 1..1 + Len(n) :
            end[i] = IF i <= 1 THEN <<Colon>>[i] ELSE n[i - 1]
  BY <1>1, ConcatProperties
<1>3. /\ end[1] = Colon
      /\ \A i \in 1..Len(n) : end[1 + i] = n[i]
  <2>1. end[1] = Colon
    BY <1>2
  <2>2. ASSUME NEW i \in 1..Len(n) PROVE end[1 + i] = n[i]
    <3>1. 1 + i \in 1..1 + Len(n) /\ ~(1 + i <= 1) /\ (1 + i) - 1 = i
      OBVIOUS
    <3> QED BY <1>2, <3>1
  <2> QED BY <2>1, <2>2
<1> HIDE DEF end
<1>4. /\ Len(b \o end) = Len(b) + Len(end)
      /\ \A i \in 1..Len(b) + Len(end) :
            (b \o end)[i] = IF i <= Len(b) THEN b[i] ELSE end[i - Len(b)]
  BY <1>2, ConcatProperties
<1>5. RowKey(b, n) = b \o end
  BY DEF RowKey, end
<1>6. ASSUME NEW i \in 1..Len(b) PROVE (b \o end)[i] = b[i]
  <2>1. i \in 1..Len(b) + Len(end) /\ i <= Len(b)
    BY <1>2
  <2> QED BY <1>4, <2>1
<1>7. ASSUME NEW i \in 1..Len(end) PROVE (b \o end)[Len(b) + i] = end[i]
  <2>1. /\ Len(b) + i \in 1..Len(b) + Len(end)
        /\ ~(Len(b) + i <= Len(b))
        /\ (Len(b) + i) - Len(b) = i
    BY <1>2
  <2> QED BY <1>4, <2>1
<1>8. (b \o end)[Len(b) + 1] = Colon
  <2>1. 1 \in 1..Len(end)
    BY <1>2
  <2> QED BY <1>3, <1>7, <2>1
<1>9. ASSUME NEW i \in 1..Len(n) PROVE (b \o end)[Len(b) + 1 + i] = n[i]
  <2>1. 1 + i \in 1..Len(end) /\ Len(b) + (1 + i) = Len(b) + 1 + i
    BY <1>2
  <2> QED BY <1>3, <1>7, <2>1
<1> QED BY <1>2, <1>4, <1>5, <1>6, <1>8, <1>9

\* DynamoDB takes the rows of every bucket whose name begins with the asked
\* bucket's for rows of that bucket, and no others (Attribute.bucket_name
\* .startswith(bucket)); PostgreSQL compares the bucket's name.
THEOREM BucketsByPrefix ==
    ASSUME Colon \in Characters,
           NEW b \in Seq(Characters), NEW n \in Seq(Characters),
           NEW asked \in Seq(Characters), NoColon(asked)
    PROVE  StartsWith(RowKey(b, n), asked) <=> StartsWith(b, asked)
<1>1. ASSUME StartsWith(RowKey(b, n), asked) PROVE StartsWith(b, asked)
  <2>1. ~(Len(b) < Len(asked))
    <3>1. SUFFICES ASSUME Len(b) < Len(asked) PROVE FALSE
      OBVIOUS
    <3>2. Len(b) + 1 \in 1..Len(asked)
      BY <3>1
    <3>3. RowKey(b, n)[Len(b) + 1] = asked[Len(b) + 1]
      BY <1>1, <3>2 DEF StartsWith
    <3>4. RowKey(b, n)[Len(b) + 1] = Colon
      BY KeyParts
    <3> QED BY <3>2, <3>3, <3>4 DEF NoColon
  <2>2. Len(asked) <= Len(b)
    BY <2>1
  <2>3. ASSUME NEW i \in 1..Len(asked) PROVE b[i] = asked[i]
    <3>1. i \in 1..Len(b)
      BY <2>2
    <3>2. RowKey(b, n)[i] = b[i]
      BY <3>1, KeyParts
    <3>3. RowKey(b, n)[i] = asked[i]
      BY <1>1 DEF StartsWith
    <3> QED BY <3>2, <3>3
  <2> QED BY <2>2, <2>3 DEF StartsWith
<1>2. ASSUME StartsWith(b, asked) PROVE StartsWith(RowKey(b, n), asked)
  <2>1. Len(asked) <= Len(b) /\ Len(RowKey(b, n)) = Len(b) + 1 + Len(n)
    BY <1>2, KeyParts DEF StartsWith
  <2>2. ASSUME NEW i \in 1..Len(asked) PROVE RowKey(b, n)[i] = asked[i]
    <3>1. i \in 1..Len(b)
      BY <2>1
    <3>2. RowKey(b, n)[i] = b[i]
      BY <3>1, KeyParts
    <3>3. b[i] = asked[i]
      BY <1>2 DEF StartsWith
    <3> QED BY <3>2, <3>3
  <2> QED BY <2>1, <2>2 DEF StartsWith
<1> QED BY <1>1, <1>2

\* The rows of two attributes differ as long as no bucket's name holds a
\* colon (the primary key of db/dynamodb/attribute.py and of
\* db/postgresql/attribute.py is the actor and this key).
THEOREM KeysAreApart ==
    ASSUME Colon \in Characters,
           NEW b \in Seq(Characters), NEW n \in Seq(Characters),
           NEW c \in Seq(Characters), NEW m \in Seq(Characters),
           NoColon(b), NoColon(c), RowKey(b, n) = RowKey(c, m)
    PROVE  b = c /\ n = m
<1>1. StartsWith(c, b) /\ StartsWith(b, c)
  <2>1. StartsWith(b, b) /\ StartsWith(c, c)
    BY DEF StartsWith
  <2>2. StartsWith(RowKey(b, n), b) /\ StartsWith(RowKey(c, m), c)
    BY <2>1, BucketsByPrefix
  <2> QED BY <2>2, BucketsByPrefix
<1>2. b = c
  BY <1>1, SeqEqual DEF StartsWith
<1>3. Len(n) = Len(m)
  BY <1>2, KeyParts
<1>4. ASSUME NEW i \in 1..Len(n) PROVE n[i] = m[i]
  <2>1. \A j \in 1..Len(n) : RowKey(b, n)[Len(b) + 1 + j] = n[j]
    BY KeyParts
  <2>2. \A j \in 1..Len(m) : RowKey(c, m)[Len(c) + 1 + j] = m[j]
    BY KeyParts
  <2>3. i \in 1..Len(m)
    BY <1>3
  <2> QED BY <1>2, <2>1, <2>2, <2>3
<1> QED BY <1>2, <1>3, <1>4, SeqEqual

CONSTANTS Keys, Data, Faulty, NoRow, NoCall
VARIABLES attributes, step, call, answer, made, consumed, item

Dynamo == INSTANCE DynamoAttributes WITH pc <- step, rows <- attributes

-----------------------------------------------------------------------------
(* DynamoAttributes implements AttributeStore.                             *)

\* What a request knows of its call.
CallsOK ==
    /\ step \in [Requests -> {"idle", "called", "read", "done"}]
    /\ call \in [Requests -> Dynamo!Store!Call \cup {NoCall}]
    /\ item \in [Requests -> Dynamo!Store!Row \cup {NoRow}]
    /\ answer \in [Requests -> Dynamo!Store!Answers]
    /\ \A r \in Requests : step[r] # "idle" => call[r] \in Dynamo!Store!Call

\* The rows are rows, and the counters count.
CountsOK ==
    /\ attributes \in [Keys -> Dynamo!Store!Row \cup {NoRow}]
    /\ made \in [Keys -> Nat]
    /\ consumed \in [Keys -> Nat]

StoreInv == CallsOK /\ CountsOK /\ Dynamo!ReadIsExpected

LEMMA CallsAreCalls ==
    ASSUME NEW c \in Dynamo!Store!Call
    PROVE  /\ c.key \in Keys
           /\ c.op \in {"set", "update", "delete", "consume",
                        "get", "get_strict"}
           /\ c.op = "set" => c.new \in Data /\ c.ttl \in BOOLEAN
           /\ c.op = "update" => c.old \in Data /\ c.new \in Data
BY DEF Dynamo!Store!Call

\* What a call leaves is a row or none, and what it answers is an answer.
LEMMA EffectsAreTyped ==
    ASSUME NEW c \in Dynamo!Store!Call, NEW found \in Dynamo!Store!Row \cup {NoRow}
    PROVE  /\ Dynamo!Store!After(c, found) \in Dynamo!Store!Row \cup {NoRow}
           /\ Dynamo!Store!AnswersTo(c, found) \subseteq Dynamo!Store!Answers
           /\ Dynamo!Store!FailedAnswers(c) \subseteq Dynamo!Store!Answers
<1>1. ASSUME c.op = "set"
      PROVE  /\ Dynamo!Store!After(c, found) \in Dynamo!Store!Row
             /\ Dynamo!Store!AnswersTo(c, found) = {Dynamo!Store!Says(TRUE)}
             /\ Dynamo!Store!FailedAnswers(c) = {Dynamo!Store!Says(FALSE)}
  <2>1. c.new \in Data /\ c.ttl \in BOOLEAN
    BY <1>1, CallsAreCalls
  <2> QED BY <1>1, <2>1 DEF Dynamo!Store!After, Dynamo!Store!SetAttr,
     Dynamo!Store!Row,
                Dynamo!Store!AnswersTo, Dynamo!Store!FailedAnswers
<1>2. ASSUME c.op = "delete"
      PROVE  /\ Dynamo!Store!After(c, found) = NoRow
             /\ Dynamo!Store!AnswersTo(c, found) = {Dynamo!Store!Says(TRUE)}
             /\ Dynamo!Store!FailedAnswers(c) = {Dynamo!Store!Says(TRUE), Dynamo!Store!Says(FALSE)}
  BY <1>2 DEF Dynamo!Store!After, Dynamo!Store!AnswersTo,
     Dynamo!Store!FailedAnswers
<1>3. ASSUME c.op = "consume"
      PROVE  /\ Dynamo!Store!After(c, found) = NoRow
             /\ Dynamo!Store!AnswersTo(c, found) = {Dynamo!Store!Says(found # NoRow)}
             /\ Dynamo!Store!FailedAnswers(c) = {Dynamo!Store!Says(FALSE)}
  BY <1>3 DEF Dynamo!Store!After, Dynamo!Store!AnswersTo,
     Dynamo!Store!FailedAnswers
<1>4. ASSUME c.op = "update"
      PROVE  /\ Dynamo!Store!After(c, found) \in Dynamo!Store!Row \cup {NoRow}
             /\ Dynamo!Store!AnswersTo(c, found) = {Dynamo!Store!Says(Dynamo!Store!Matches(c, found))}
             /\ Dynamo!Store!FailedAnswers(c) = {Dynamo!Store!Says(FALSE)}
  <2>1. Dynamo!Store!ConditionalUpdate(c, found) \in Dynamo!Store!Row \cup {NoRow}
    <3>1. c.new \in Data
      BY <1>4, CallsAreCalls
    <3> QED BY <3>1 DEF Dynamo!Store!ConditionalUpdate,
       Dynamo!Store!Matches, Dynamo!Store!Row
  <2> QED BY <1>4, <2>1 DEF Dynamo!Store!After, Dynamo!Store!AnswersTo,
     Dynamo!Store!FailedAnswers
<1>5. ASSUME c.op = "get"
      PROVE  /\ Dynamo!Store!After(c, found) = found
             /\ Dynamo!Store!AnswersTo(c, found) = {Dynamo!Store!Finds(found)}
             /\ Dynamo!Store!FailedAnswers(c) = {Dynamo!Store!Finds(NoRow)}
  BY <1>5 DEF Dynamo!Store!After, Dynamo!Store!AnswersTo,
     Dynamo!Store!FailedAnswers
<1>6. ASSUME c.op = "get_strict"
      PROVE  /\ Dynamo!Store!After(c, found) = found
             /\ Dynamo!Store!AnswersTo(c, found)
                    \subseteq {Dynamo!Store!Finds(found), Dynamo!Store!Finds(NoRow)}
             /\ Dynamo!Store!FailedAnswers(c) = {Dynamo!Store!Says(FALSE)}
  BY <1>6 DEF Dynamo!Store!After, Dynamo!Store!AnswersTo,
     Dynamo!Store!FailedAnswers
<1>7. /\ \A b : b \in BOOLEAN => Dynamo!Store!Says(b) \in Dynamo!Store!Answers
      /\ Dynamo!Store!Finds(found) \in Dynamo!Store!Answers
      /\ Dynamo!Store!Finds(NoRow) \in Dynamo!Store!Answers
  BY DEF Dynamo!Store!Says, Dynamo!Store!Finds, Dynamo!Store!Answers
<1>8. (found # NoRow) \in BOOLEAN /\ Dynamo!Store!Matches(c, found) \in BOOLEAN
  BY DEF Dynamo!Store!Matches
<1> QED BY <1>1, <1>2, <1>3, <1>4, <1>5, <1>6, <1>7, <1>8, CallsAreCalls

LEMMA InitIsGood == Dynamo!Init => StoreInv
BY DEF Dynamo!Init, Dynamo!Store!Init, StoreInv, CallsOK, CountsOK,
   Dynamo!ReadIsExpected, Dynamo!Store!Answers,
       Dynamo!Store!Says

LEMMA AnswerIsKnown ==
    ASSUME CallsOK, NEW r \in Requests, NEW a \in Dynamo!Store!Answers,
           step[r] # "idle", Dynamo!Answer(r, a), UNCHANGED call
    PROVE  CallsOK'
BY DEF CallsOK, Dynamo!Answer

LEMMA SaysIsAnswer ==
    \A b \in BOOLEAN : Dynamo!Store!Says(b) \in Dynamo!Store!Answers
BY DEF Dynamo!Store!Says, Dynamo!Store!Answers

LEMMA WriteIsCounted ==
    ASSUME CountsOK, NEW k \in Keys, NEW found \in Dynamo!Store!Row \cup {NoRow},
           Dynamo!Store!Write(k, found)
    PROVE  /\ attributes' \in [Keys -> Dynamo!Store!Row \cup {NoRow}]
           /\ made' \in [Keys -> Nat]
BY DEF CountsOK, Dynamo!Store!Write

LEMMA KnownIsKept ==
    ASSUME StoreInv, [Dynamo!Next]_(Dynamo!vars)
    PROVE  CallsOK'
<1> USE DEF StoreInv
<1>1. ASSUME NEW r \in Requests, NEW c \in Dynamo!Store!Call, Dynamo!Start(r, c)
      PROVE  CallsOK'
  BY <1>1 DEF Dynamo!Start, CallsOK
<1>2. ASSUME NEW r \in Requests, Dynamo!OneAccess(r) PROVE CallsOK'
  <2> DEFINE c == call[r] found == attributes[call[r].key]
  <2>1. c \in Dynamo!Store!Call /\ step[r] # "idle" /\ UNCHANGED call
    BY <1>2 DEF Dynamo!OneAccess, CallsOK
  <2>2. found \in Dynamo!Store!Row \cup {NoRow}
    BY <2>1, CallsAreCalls DEF CountsOK
  <2>3. \E a \in Dynamo!Store!Answers : Dynamo!Answer(r, a)
    BY <1>2, <2>1, <2>2, EffectsAreTyped DEF Dynamo!OneAccess
  <2> QED BY <2>1, <2>3, AnswerIsKnown
<1>3. ASSUME NEW r \in Requests, Dynamo!Read(r) PROVE CallsOK'
  <2>1. step[r] # "idle" /\ UNCHANGED call /\ call[r] \in Dynamo!Store!Call
    BY <1>3 DEF Dynamo!Read, CallsOK
  <2>2. CASE Dynamo!Answer(r, Dynamo!Store!Says(call[r].op = "delete"))
    BY <2>1, <2>2, AnswerIsKnown, SaysIsAnswer
  <2>3. CASE /\ item' = [item EXCEPT ![r] = attributes[call[r].key]]
             /\ step' = [step EXCEPT ![r] = "read"]
             /\ UNCHANGED answer
    <3>1. attributes[call[r].key] \in Dynamo!Store!Row \cup {NoRow}
      BY <2>1, CallsAreCalls DEF CountsOK
    <3> QED BY <2>1, <2>3, <3>1 DEF CallsOK
  <2> QED BY <1>3, <2>2, <2>3 DEF Dynamo!Read
<1>4. ASSUME NEW r \in Requests,
             Dynamo!DeleteItem(r) \/ Dynamo!ConsumeItem(r) \/
                Dynamo!UpdateItem(r)
      PROVE  CallsOK'
  <2>1. step[r] # "idle" /\ UNCHANGED call
    BY <1>4 DEF Dynamo!DeleteItem, Dynamo!ConsumeItem, Dynamo!UpdateItem
  <2>2. Dynamo!Answer(r, Dynamo!Store!Says(TRUE)) \/ Dynamo!Answer(r, Dynamo!Store!Says(FALSE))
    BY <1>4 DEF Dynamo!DeleteItem, Dynamo!ConsumeItem, Dynamo!UpdateItem
  <2> QED BY <2>1, <2>2, AnswerIsKnown, SaysIsAnswer
<1>5. ASSUME NEW r \in Requests, Dynamo!Return(r) PROVE CallsOK'
  BY <1>5, SaysIsAnswer DEF Dynamo!Return, CallsOK
<1>6. ASSUME NEW k \in Keys, Dynamo!Expire(k) PROVE CallsOK'
  BY <1>6 DEF Dynamo!Expire, CallsOK
<1>7. ASSUME UNCHANGED Dynamo!vars PROVE CallsOK'
  BY <1>7 DEF Dynamo!vars, CallsOK
<1> QED BY <1>1, <1>2, <1>3, <1>4, <1>5, <1>6, <1>7 DEF Dynamo!Next

LEMMA CountedIsKept ==
    ASSUME StoreInv, [Dynamo!Next]_(Dynamo!vars)
    PROVE  CountsOK'
<1> USE DEF StoreInv
<1>1. ASSUME NEW r \in Requests, NEW c \in Dynamo!Store!Call, Dynamo!Start(r, c)
      PROVE  CountsOK'
  BY <1>1 DEF Dynamo!Start, CountsOK
<1>2. ASSUME NEW r \in Requests, call[r] \in Dynamo!Store!Call,
             Dynamo!OneAccess(r) \/ Dynamo!Read(r) \/ Dynamo!DeleteItem(r)
                \/ Dynamo!ConsumeItem(r) \/ Dynamo!UpdateItem(r)
      PROVE  CountsOK'
  <2> DEFINE c == call[r] found == attributes[call[r].key]
  <2>1. c.key \in Keys /\ found \in Dynamo!Store!Row \cup {NoRow}
    BY <1>2, CallsAreCalls DEF CountsOK
  <2>2. c.op = "update" => [found EXCEPT !.data = c.new]
                                \in Dynamo!Store!Row \/ found = NoRow
    BY <1>2, <2>1, CallsAreCalls DEF Dynamo!Store!Row
  <2>3. Dynamo!Store!After(c, found) \in Dynamo!Store!Row \cup {NoRow}
    BY <1>2, <2>1, EffectsAreTyped
  <2>4. \/ UNCHANGED <<attributes, made>>
        \/ \E x \in Dynamo!Store!Row \cup {NoRow} : Dynamo!Store!Write(c.key, x)
    BY <1>2, <2>1, <2>2, <2>3
       DEF Dynamo!OneAccess, Dynamo!Read, Dynamo!DeleteItem,
          Dynamo!ConsumeItem, Dynamo!UpdateItem
  <2>5. \/ UNCHANGED consumed
        \/ consumed' = [consumed EXCEPT ![c.key] = @ + 1]
    BY <1>2 DEF Dynamo!OneAccess, Dynamo!Read, Dynamo!DeleteItem,
       Dynamo!ConsumeItem, Dynamo!UpdateItem
  <2>6. consumed' \in [Keys -> Nat]
    BY <2>1, <2>5 DEF CountsOK
  <2>7. /\ attributes' \in [Keys -> Dynamo!Store!Row \cup {NoRow}]
        /\ made' \in [Keys -> Nat]
    BY <2>1, <2>4, WriteIsCounted DEF CountsOK
  <2> QED BY <2>6, <2>7 DEF CountsOK
<1>3. ASSUME NEW r \in Requests, Dynamo!Return(r) PROVE CountsOK'
  BY <1>3 DEF Dynamo!Return, CountsOK
<1>4. ASSUME NEW k \in Keys, Dynamo!Expire(k) PROVE CountsOK'
  BY <1>4, WriteIsCounted DEF Dynamo!Expire, CountsOK
<1>5. ASSUME UNCHANGED Dynamo!vars PROVE CountsOK'
  BY <1>5 DEF Dynamo!vars, CountsOK
<1>6. ASSUME NEW r \in Requests, step[r] # "idle"
      PROVE  call[r] \in Dynamo!Store!Call
  BY <1>6 DEF CallsOK
<1>7. ASSUME NEW r \in Requests,
             Dynamo!OneAccess(r) \/ Dynamo!Read(r) \/ Dynamo!DeleteItem(r)
                \/ Dynamo!ConsumeItem(r) \/ Dynamo!UpdateItem(r)
      PROVE  step[r] # "idle"
  BY <1>7 DEF Dynamo!OneAccess, Dynamo!Read, Dynamo!DeleteItem,
     Dynamo!ConsumeItem, Dynamo!UpdateItem
<1> QED BY <1>1, <1>2, <1>3, <1>4, <1>5, <1>6, <1>7 DEF Dynamo!Next

LEMMA ReadIsKept ==
    ASSUME StoreInv, [Dynamo!Next]_(Dynamo!vars)
    PROVE  Dynamo!ReadIsExpected'
<1> USE DEF StoreInv, CallsOK, Dynamo!ReadIsExpected
<1>1. ASSUME NEW r \in Requests, NEW c \in Dynamo!Store!Call, Dynamo!Start(r, c)
      PROVE  Dynamo!ReadIsExpected'
  BY <1>1 DEF Dynamo!Start
<1>2. ASSUME NEW r \in Requests, Dynamo!OneAccess(r) PROVE Dynamo!ReadIsExpected'
  BY <1>2 DEF Dynamo!OneAccess, Dynamo!Answer
<1>3. ASSUME NEW r \in Requests, Dynamo!Read(r) PROVE Dynamo!ReadIsExpected'
  BY <1>3 DEF Dynamo!Read, Dynamo!Answer, Dynamo!TwoSteps, Dynamo!Store!Matches
<1>4. ASSUME NEW r \in Requests,
             Dynamo!DeleteItem(r) \/ Dynamo!ConsumeItem(r) \/
                Dynamo!UpdateItem(r)
      PROVE  Dynamo!ReadIsExpected'
  BY <1>4 DEF Dynamo!DeleteItem, Dynamo!ConsumeItem, Dynamo!UpdateItem,
     Dynamo!Answer
<1>5. ASSUME NEW r \in Requests, Dynamo!Return(r) PROVE Dynamo!ReadIsExpected'
  BY <1>5 DEF Dynamo!Return
<1>6. ASSUME NEW k \in Keys, Dynamo!Expire(k) PROVE Dynamo!ReadIsExpected'
  BY <1>6 DEF Dynamo!Expire
<1>7. ASSUME UNCHANGED Dynamo!vars PROVE Dynamo!ReadIsExpected'
  BY <1>7 DEF Dynamo!vars
<1> QED BY <1>1, <1>2, <1>3, <1>4, <1>5, <1>6, <1>7 DEF Dynamo!Next

LEMMA InvariantHolds == Dynamo!Spec => []StoreInv
<1>1. ASSUME StoreInv, [Dynamo!Next]_(Dynamo!vars) PROVE StoreInv'
  BY <1>1, KnownIsKept, CountedIsKept, ReadIsKept DEF StoreInv
<1> QED BY <1>1, InitIsGood, PTL DEF Dynamo!Spec

\* The steps of the requests, as the abstract store sees them.
Seen == [r \in Requests |-> IF step[r] = "read" THEN "called" ELSE step[r]]

LEMMA AnswerIsSeen ==
    ASSUME CallsOK, NEW r \in Requests, NEW a, Dynamo!Answer(r, a),
           step[r] \in {"called", "read"}
    PROVE  /\ Seen[r] = "called"
           /\ Seen' = [Seen EXCEPT ![r] = "done"]
           /\ answer' = [answer EXCEPT ![r] = a]
BY DEF CallsOK, Dynamo!Answer, Seen

LEMMA StepsAreImplemented ==
    ASSUME StoreInv, [Dynamo!Next]_(Dynamo!vars)
    PROVE  [Dynamo!Store!Next]_(Dynamo!Store!vars)
<1> USE DEF StoreInv
<1>1. ASSUME NEW r \in Requests, NEW c \in Dynamo!Store!Call, Dynamo!Start(r, c)
      PROVE  Dynamo!Store!Start(r, c)
  BY <1>1 DEF Dynamo!Start, Dynamo!Store!Start, CallsOK
<1>2. ASSUME NEW r \in Requests, Dynamo!OneAccess(r)
      PROVE  Dynamo!Store!Perform(r) \/ Dynamo!Store!PerformBadly(r)
  <2>1. step[r] = "called" /\ call[r] \in Dynamo!Store!Call
    BY <1>2 DEF Dynamo!OneAccess, CallsOK
  <2>2. call[r].op # "consume"
    BY <1>2 DEF Dynamo!OneAccess, Dynamo!TwoSteps
  <2>3. consumed' = [consumed EXCEPT ![call[r].key] = consumed[call[r].key]]
    BY <1>2 DEF Dynamo!OneAccess, CountsOK
  <2>4. CASE /\ \E a \in Dynamo!Store!AnswersTo(call[r], attributes[call[r].key]) :
                    Dynamo!Answer(r, a)
             /\ Dynamo!Store!Write(call[r].key,
                            Dynamo!Store!After(call[r], attributes[call[r].key]))
    BY <1>2, <2>1, <2>2, <2>3, <2>4, AnswerIsSeen
       DEF Dynamo!OneAccess, Dynamo!Store!Perform, Seen
  <2>5. CASE /\ Faulty
             /\ \E a \in Dynamo!Store!FailedAnswers(call[r]) : Dynamo!Answer(r, a)
             /\ \/ Dynamo!Store!Write(call[r].key, attributes[call[r].key])
                \/ Dynamo!Store!Write(call[r].key,
                               Dynamo!Store!After(call[r], attributes[call[r].key]))
    BY <1>2, <2>1, <2>5, AnswerIsSeen
       DEF Dynamo!OneAccess, Dynamo!Store!PerformBadly, Seen
  <2> QED BY <1>2, <2>4, <2>5 DEF Dynamo!OneAccess
<1>3. ASSUME NEW r \in Requests, Dynamo!Read(r)
      PROVE  \/ Dynamo!Store!Perform(r) \/ Dynamo!Store!PerformBadly(r)
             \/ UNCHANGED Dynamo!Store!vars
  <2> DEFINE c == call[r] found == attributes[call[r].key]
  <2>1. /\ step[r] = "called" /\ c \in Dynamo!Store!Call /\ c.op \in Dynamo!TwoSteps
        /\ UNCHANGED <<attributes, call, made, consumed>>
    BY <1>3 DEF Dynamo!Read, CallsOK
  <2>2. c.key \in Keys
    BY <2>1, CallsAreCalls
  <2>3. /\ attributes' = [attributes EXCEPT ![c.key] = found]
        /\ made' = [made EXCEPT ![c.key] = made[c.key]]
        /\ consumed' = [consumed EXCEPT ![c.key] = consumed[c.key]]
    BY <2>1, <2>2 DEF CountsOK
  <2>4. Dynamo!Store!Write(c.key, found)
    BY <2>3 DEF Dynamo!Store!Write
  <2>5. CASE Faulty /\ Dynamo!Answer(r, Dynamo!Store!Says(c.op = "delete"))
    <3>1. Dynamo!Store!Says(c.op = "delete") \in Dynamo!Store!FailedAnswers(c)
      BY <2>1 DEF Dynamo!TwoSteps, Dynamo!Store!FailedAnswers
    <3> QED BY <2>1, <2>4, <2>5, <3>1, AnswerIsSeen
            DEF Dynamo!Store!PerformBadly, Seen
  <2>6. CASE /\ found = NoRow \/ (c.op = "update" /\ ~Dynamo!Store!Matches(c, found))
             /\ Dynamo!Answer(r, Dynamo!Store!Says(c.op = "delete"))
    <3>1. Dynamo!Store!Says(c.op = "delete") \in Dynamo!Store!AnswersTo(c, found)
      <4>1. CASE c.op = "delete"
        <5>1. (c.op = "delete") = TRUE
          BY <4>1
        <5> QED BY <4>1, <5>1 DEF Dynamo!Store!AnswersTo
      <4>2. CASE c.op = "consume"
        <5>1. found = NoRow
          BY <2>6, <4>2
        <5>2. (c.op = "delete") = FALSE /\ (found # NoRow) = FALSE
          BY <4>2, <5>1
        <5> QED BY <4>2, <5>2 DEF Dynamo!Store!AnswersTo
      <4>3. CASE c.op = "update"
        <5>1. ~Dynamo!Store!Matches(c, found)
          BY <2>6 DEF Dynamo!Store!Matches
        <5>2. (c.op = "delete") = FALSE /\ Dynamo!Store!Matches(c, found) = FALSE
          BY <4>3, <5>1 DEF Dynamo!Store!Matches
        <5> QED BY <4>3, <5>2 DEF Dynamo!Store!AnswersTo
      <4> QED BY <2>1, <4>1, <4>2, <4>3 DEF Dynamo!TwoSteps
    <3>2. Dynamo!Store!After(c, found) = found
      BY <2>1, <2>6 DEF Dynamo!TwoSteps, Dynamo!Store!After,
         Dynamo!Store!ConditionalUpdate,
                        Dynamo!Store!Matches
    <3>3. ~(c.op = "consume" /\ found # NoRow)
      BY <2>6
    <3>4. Dynamo!Store!Write(c.key, Dynamo!Store!After(c, found))
      BY <2>4, <3>2
    <3>5. consumed' = [consumed EXCEPT ![c.key] =
                IF c.op = "consume" /\ found # NoRow THEN @ + 1 ELSE @]
      BY <2>3, <3>3
    <3>6. /\ Seen[r] = "called"
          /\ Seen' = [Seen EXCEPT ![r] = "done"]
          /\ answer' = [answer EXCEPT ![r] = Dynamo!Store!Says(c.op = "delete")]
      BY <2>1, <2>6, AnswerIsSeen
    <3>7. \E a \in Dynamo!Store!AnswersTo(c, found) :
            answer' = [answer EXCEPT ![r] = a]
      BY <3>1, <3>6
    <3> QED BY <2>1, <3>4, <3>5, <3>6, <3>7 DEF Dynamo!Store!Perform, Seen
  <2>7. CASE step' = [step EXCEPT ![r] = "read"] /\ UNCHANGED answer
    BY <2>1, <2>7 DEF Dynamo!Store!vars, CallsOK
  <2> QED BY <1>3, <2>5, <2>6, <2>7 DEF Dynamo!Read
<1>4. ASSUME NEW r \in Requests, Dynamo!DeleteItem(r)
      PROVE  Dynamo!Store!Perform(r) \/ Dynamo!Store!PerformBadly(r)
  <2> DEFINE c == call[r] found == attributes[call[r].key]
  <2>1. /\ step[r] = "read" /\ c \in Dynamo!Store!Call /\ c.op = "delete"
        /\ UNCHANGED <<call, consumed>> /\ Dynamo!Answer(r, Dynamo!Store!Says(TRUE))
    BY <1>4 DEF Dynamo!DeleteItem, CallsOK
  <2>2. c.key \in Keys
    BY <2>1, CallsAreCalls
  <2>3. /\ Dynamo!Store!After(c, found) = NoRow
        /\ Dynamo!Store!Says(TRUE) \in Dynamo!Store!AnswersTo(c, found)
        /\ Dynamo!Store!Says(TRUE) \in Dynamo!Store!FailedAnswers(c)
    BY <2>1 DEF Dynamo!Store!After, Dynamo!Store!AnswersTo,
       Dynamo!Store!FailedAnswers
  <2>4. CASE Dynamo!Store!Write(c.key, NoRow)
    <3>1. consumed' = [consumed EXCEPT ![c.key] = consumed[c.key]]
      BY <2>1, <2>2 DEF CountsOK
    <3> QED BY <2>1, <2>3, <2>4, <3>1, AnswerIsSeen DEF
       Dynamo!Store!Perform, Seen
  <2>5. CASE Faulty /\ UNCHANGED <<attributes, made>>
    <3>1. Dynamo!Store!Write(c.key, found)
      BY <2>2, <2>5 DEF CountsOK, Dynamo!Store!Write
    <3> QED BY <2>1, <2>3, <2>5, <3>1, AnswerIsSeen
            DEF Dynamo!Store!PerformBadly, Seen
  <2> QED BY <1>4, <2>4, <2>5 DEF Dynamo!DeleteItem
<1>5. ASSUME NEW r \in Requests, Dynamo!ConsumeItem(r)
      PROVE  Dynamo!Store!Perform(r) \/ Dynamo!Store!PerformBadly(r)
  <2> DEFINE c == call[r] found == attributes[call[r].key]
  <2>1. /\ step[r] = "read" /\ c \in Dynamo!Store!Call /\ c.op = "consume"
        /\ UNCHANGED call
    BY <1>5 DEF Dynamo!ConsumeItem, CallsOK
  <2>2. c.key \in Keys
    BY <2>1, CallsAreCalls
  <2>3. /\ Dynamo!Store!After(c, found) = NoRow
        /\ Dynamo!Store!Says(found # NoRow) \in Dynamo!Store!AnswersTo(c, found)
        /\ Dynamo!Store!Says(FALSE) \in Dynamo!Store!FailedAnswers(c)
    BY <2>1 DEF Dynamo!Store!After, Dynamo!Store!AnswersTo,
       Dynamo!Store!FailedAnswers
  <2>4. CASE /\ found # NoRow
             /\ Dynamo!Store!Write(c.key, NoRow)
             /\ Dynamo!Answer(r, Dynamo!Store!Says(TRUE))
             /\ consumed' = [consumed EXCEPT ![c.key] = @ + 1]
    <3>1. (found # NoRow) = TRUE
      BY <2>4
    <3> QED BY <2>1, <2>3, <2>4, <3>1, AnswerIsSeen DEF
       Dynamo!Store!Perform, Seen
  <2>5. CASE /\ Faulty
             /\ Dynamo!Store!Write(c.key, NoRow) \/ UNCHANGED <<attributes, made>>
             /\ Dynamo!Answer(r, Dynamo!Store!Says(FALSE))
             /\ UNCHANGED consumed
    <3>1. Dynamo!Store!Write(c.key, found) \/ Dynamo!Store!Write(c.key, Dynamo!Store!After(c, found))
      BY <2>2, <2>3, <2>5 DEF CountsOK, Dynamo!Store!Write
    <3> QED BY <2>1, <2>3, <2>5, <3>1, AnswerIsSeen
            DEF Dynamo!Store!PerformBadly, Seen
  <2>6. CASE /\ found = NoRow
             /\ Dynamo!Answer(r, Dynamo!Store!Says(FALSE))
             /\ UNCHANGED <<attributes, made, consumed>>
    <3>1. (found # NoRow) = FALSE
      BY <2>6
    <3>2. Dynamo!Store!Write(c.key, NoRow)
      BY <2>2, <2>6 DEF CountsOK, Dynamo!Store!Write
    <3>3. consumed' = [consumed EXCEPT ![c.key] = consumed[c.key]]
      BY <2>2, <2>6 DEF CountsOK
    <3> QED BY <2>1, <2>3, <2>6, <3>1, <3>2, <3>3, AnswerIsSeen
            DEF Dynamo!Store!Perform, Seen
  <2> QED BY <1>5, <2>4, <2>5, <2>6 DEF Dynamo!ConsumeItem
<1>6. ASSUME NEW r \in Requests, Dynamo!UpdateItem(r)
      PROVE  Dynamo!Store!Perform(r) \/ Dynamo!Store!PerformBadly(r)
  <2> DEFINE c == call[r]
             found == attributes[call[r].key]
             same == found # NoRow /\ found.data = item[r].data
  <2>1. /\ step[r] = "read" /\ c \in Dynamo!Store!Call /\ c.op = "update"
        /\ UNCHANGED <<call, consumed>>
    BY <1>6 DEF Dynamo!UpdateItem, CallsOK
  <2>2. c.key \in Keys
    BY <2>1, CallsAreCalls
  <2>3. item[r].data = c.old
    BY <2>1 DEF Dynamo!ReadIsExpected
  <2>4. Dynamo!Store!Matches(c, found) <=> same
    BY <2>3 DEF Dynamo!Store!Matches
  <2>5. /\ Dynamo!Store!After(c, found) = Dynamo!Store!ConditionalUpdate(c, found)
        /\ Dynamo!Store!AnswersTo(c, found) = {Dynamo!Store!Says(Dynamo!Store!Matches(c, found))}
        /\ Dynamo!Store!Says(FALSE) \in Dynamo!Store!FailedAnswers(c)
    BY <2>1 DEF Dynamo!Store!After, Dynamo!Store!AnswersTo,
       Dynamo!Store!FailedAnswers
  <2>6. consumed' = [consumed EXCEPT ![c.key] = consumed[c.key]]
    BY <2>1, <2>2 DEF CountsOK
  <2>7. UNCHANGED <<attributes, made>> => Dynamo!Store!Write(c.key, found)
    BY <2>2 DEF CountsOK, Dynamo!Store!Write
  <2>8. CASE /\ same
             /\ Dynamo!Store!Write(c.key, [found EXCEPT !.data = c.new])
             /\ Dynamo!Answer(r, Dynamo!Store!Says(TRUE))
    <3>1. Dynamo!Store!Matches(c, found) = TRUE
      BY <2>4, <2>8 DEF Dynamo!Store!Matches
    <3>2. Dynamo!Store!After(c, found) = [found EXCEPT !.data = c.new]
      BY <2>5, <3>1 DEF Dynamo!Store!ConditionalUpdate
    <3> QED BY <2>1, <2>5, <2>6, <2>8, <3>1, <3>2, AnswerIsSeen
            DEF Dynamo!Store!Perform, Seen
  <2>9. CASE /\ ~same
             /\ UNCHANGED <<attributes, made>>
             /\ Dynamo!Answer(r, Dynamo!Store!Says(FALSE))
    <3>1. Dynamo!Store!Matches(c, found) = FALSE
      BY <2>4, <2>9 DEF Dynamo!Store!Matches
    <3>2. Dynamo!Store!After(c, found) = found
      BY <2>5, <3>1 DEF Dynamo!Store!ConditionalUpdate
    <3> QED BY <2>1, <2>5, <2>6, <2>7, <2>9, <3>1, <3>2, AnswerIsSeen
            DEF Dynamo!Store!Perform, Seen
  <2>10. CASE /\ Faulty
              /\ \/ same /\ Dynamo!Store!Write(c.key, [found EXCEPT !.data = c.new])
                 \/ UNCHANGED <<attributes, made>>
              /\ Dynamo!Answer(r, Dynamo!Store!Says(FALSE))
    <3>1. same => Dynamo!Store!After(c, found) = [found EXCEPT !.data = c.new]
      BY <2>4, <2>5 DEF Dynamo!Store!ConditionalUpdate
    <3>2. Dynamo!Store!Write(c.key, found) \/ Dynamo!Store!Write(c.key, Dynamo!Store!After(c, found))
      BY <2>7, <2>10, <3>1
    <3> QED BY <2>1, <2>5, <2>10, <3>2, AnswerIsSeen
            DEF Dynamo!Store!PerformBadly, Seen
  <2> QED BY <1>6, <2>8, <2>9, <2>10 DEF Dynamo!UpdateItem
<1>7. ASSUME NEW r \in Requests, Dynamo!Return(r) PROVE Dynamo!Store!Return(r)
  BY <1>7 DEF Dynamo!Return, Dynamo!Store!Return, CallsOK
<1>8. ASSUME NEW k \in Keys, Dynamo!Expire(k) PROVE Dynamo!Store!Expire(k)
  BY <1>8 DEF Dynamo!Expire, Dynamo!Store!Expire
<1>9. ASSUME UNCHANGED Dynamo!vars PROVE UNCHANGED Dynamo!Store!vars
  BY <1>9 DEF Dynamo!vars, Dynamo!Store!vars
<1> QED BY <1>1, <1>2, <1>3, <1>4, <1>5, <1>6, <1>7, <1>8, <1>9
        DEF Dynamo!Next, Dynamo!Store!Next

\* On DynamoDB, too, every call takes effect at one moment: what the store
\* does with two accesses to the table, the condition of the second one being
\* checked by the database, is what one statement does.
THEOREM AccessesAreAtomic == Dynamo!Spec => Dynamo!ImplementsAttributeStore
<1>1. Dynamo!Init => Dynamo!Store!Init
  BY DEF Dynamo!Init, Dynamo!Store!Init
<1> QED BY <1>1, InvariantHolds, StepsAreImplemented, PTL
        DEF Dynamo!Spec, Dynamo!ImplementsAttributeStore, Dynamo!Store!Spec

-----------------------------------------------------------------------------
(* What is consumed was put there.                                         *)

\* The row that is there was not consumed yet.
Remaining(k) == IF attributes[k] = NoRow THEN 0 ELSE 1
Balanced == \A k \in Keys : consumed[k] + Remaining(k) <= made[k]

LEMMA BalanceIsKept ==
    ASSUME StoreInv, Balanced, [Dynamo!Store!Next]_(Dynamo!Store!vars)
    PROVE  Balanced'
<1> USE DEF StoreInv, CountsOK, Balanced, Remaining
<1>1. ASSUME NEW r \in Requests, NEW c \in Dynamo!Store!Call, Dynamo!Store!Start(r, c)
      PROVE  Balanced'
  BY <1>1 DEF Dynamo!Store!Start
<1>2. ASSUME NEW k \in Keys, NEW found, Dynamo!Store!Write(k, found),
             \/ UNCHANGED consumed
             \/ /\ attributes[k] # NoRow /\ found = NoRow
                /\ consumed' = [consumed EXCEPT ![k] = @ + 1]
      PROVE  Balanced'
  <2> SUFFICES ASSUME NEW j \in Keys
               PROVE  consumed'[j] + Remaining(j)' <= made'[j]
    OBVIOUS
  <2>1. CASE j # k
    BY <1>2, <2>1 DEF Dynamo!Store!Write
  <2>2. CASE j = k
    BY <1>2, <2>2 DEF Dynamo!Store!Write
  <2> QED BY <2>1, <2>2
<1>3. ASSUME NEW r \in Requests, step[r] # "idle", Dynamo!Store!Perform(r)
      PROVE  Balanced'
  <2> DEFINE c == call[r] found == attributes[call[r].key]
  <2>1. c \in Dynamo!Store!Call /\ c.key \in Keys
    BY <1>3, CallsAreCalls DEF CallsOK
  <2>2. Dynamo!Store!Write(c.key, Dynamo!Store!After(c, found))
    BY <1>3 DEF Dynamo!Store!Perform
  <2>3. CASE c.op = "consume" /\ found # NoRow
    <3>1. Dynamo!Store!After(c, found) = NoRow
      BY <2>3 DEF Dynamo!Store!After
    <3>2. consumed' = [consumed EXCEPT ![c.key] = @ + 1]
      BY <1>3, <2>3 DEF Dynamo!Store!Perform
    <3> QED BY <1>2, <2>1, <2>2, <2>3, <3>1, <3>2
  <2>4. CASE ~(c.op = "consume" /\ found # NoRow)
    <3>1. UNCHANGED consumed
      BY <1>3, <2>1, <2>4 DEF Dynamo!Store!Perform
    <3> QED BY <1>2, <2>1, <2>2, <3>1
  <2> QED BY <2>3, <2>4
<1>4. ASSUME NEW r \in Requests, step[r] # "idle", Dynamo!Store!PerformBadly(r)
      PROVE  Balanced'
  <2>1. call[r].key \in Keys
    BY <1>4, CallsAreCalls DEF CallsOK
  <2> QED BY <1>2, <1>4, <2>1 DEF Dynamo!Store!PerformBadly
<1>5. ASSUME NEW r \in Requests, Dynamo!Store!Return(r) PROVE Balanced'
  BY <1>5 DEF Dynamo!Store!Return
<1>6. ASSUME NEW k \in Keys, Dynamo!Store!Expire(k) PROVE Balanced'
  BY <1>2, <1>6 DEF Dynamo!Store!Expire
<1>7. ASSUME UNCHANGED Dynamo!Store!vars PROVE Balanced'
  BY <1>7 DEF Dynamo!Store!vars
<1>8. ASSUME NEW r \in Requests, Dynamo!Store!Perform(r) \/ Dynamo!Store!PerformBadly(r)
      PROVE  step[r] # "idle"
  BY <1>8 DEF Dynamo!Store!Perform, Dynamo!Store!PerformBadly
<1> QED BY <1>1, <1>3, <1>4, <1>5, <1>6, <1>7, <1>8 DEF Dynamo!Store!Next

\* However many requests present a single use code or a ticket, no more of
\* them are told that they have consumed it than there were codes
\* (delete_attr_conditional: "Exactly one caller sees True"), whatever the
\* number of requests and even if the database fails.
THEOREM CodesAreSingleUse == Dynamo!Spec => []Dynamo!Store!ConsumedOnce
<1>1. ASSUME Dynamo!Init PROVE Balanced
  <2>1. attributes = [k \in Keys |-> NoRow] /\ made = [k \in Keys |-> 0]
        /\ consumed = [k \in Keys |-> 0]
    BY <1>1 DEF Dynamo!Init, Dynamo!Store!Init
  <2>2. ASSUME NEW k \in Keys
        PROVE  attributes[k] = NoRow /\ made[k] = 0 /\ consumed[k] = 0
    BY <2>1
  <2>3. ASSUME NEW k \in Keys PROVE Remaining(k) = 0
    BY <2>2 DEF Remaining
  <2>4. ASSUME NEW k \in Keys PROVE consumed[k] + Remaining(k) <= made[k]
    BY <2>2, <2>3
  <2> QED BY <2>4 DEF Balanced
<1>2. ASSUME StoreInv, Balanced PROVE Dynamo!Store!ConsumedOnce
  <2>1. ASSUME NEW k \in Keys PROVE consumed[k] <= made[k]
    <3>1. consumed[k] \in Nat /\ made[k] \in Nat
      BY <1>2 DEF StoreInv, CountsOK
    <3> QED BY <1>2, <3>1 DEF Balanced, Remaining
  <2> QED BY <2>1 DEF Dynamo!Store!ConsumedOnce
<1> QED BY <1>1, <1>2, InvariantHolds, StepsAreImplemented, BalanceIsKept, PTL
        DEF Dynamo!Spec

CONSTANTS Actors, Values, Backend, Overlap, NoActor, NoValue
VARIABLES prop, lookup, gone, subject, old, value, held, legacy, answers

Lookup == INSTANCE PropertyLookup WITH pc <- step, actor <- subject

-----------------------------------------------------------------------------
(* PropertyLookup.                                                         *)

NullsAreNew == NoActor \notin Actors /\ NoValue \notin Values

-----------------------------------------------------------------------------
(* Types.                                                                  *)

\* Every variable keeps its type, and a request at a step of a write works
\* on an actor, one that loads has an actor, and one that scans a value.
Typed ==
    /\ Lookup!TypeOK
    /\ \A r \in Requests :
        /\ step[r] \in Lookup!WriteSteps \cup {"load"} => subject[r] \in Actors
        /\ step[r] \in {"get_old", "delete_old"} => old[r] \in Values
        /\ step[r] \in {"create", "scan", "load"} => value[r] \in Values

LEMMA TypedInit == Lookup!Init => Typed
BY DEF Lookup!Init, Typed, Lookup!TypeOK, Lookup!NoActorOr,
   Lookup!NoValueOr, Lookup!Steps, Lookup!WriteSteps

LEMMA SyncedPoints ==
    ASSUME NullsAreNew, Typed,
           NEW a \in Actors, NEW b \in Lookup!NoValueOr, NEW c \in Lookup!NoValueOr
    PROVE  LET synced == Lookup!Synced(a, b, c) IN
           /\ synced \in [Values -> Lookup!NoActorOr]
           /\ b = c => synced = lookup
           /\ b # c => \A v \in Values :
                /\ v = b => IF lookup[v] = a THEN synced[v] = NoActor
                            ELSE synced[v] = lookup[v]
                /\ v = c => IF lookup[v] = NoActor THEN synced[v] = a
                            ELSE synced[v] = lookup[v]
                /\ v \notin {b, c} => synced[v] = lookup[v]
<1> DEFINE released == Lookup!Released(lookup, a, b)
           synced == Lookup!Synced(a, b, c)
<1>1. lookup \in [Values -> Lookup!NoActorOr] /\ a # NoActor
      /\ a \in Lookup!NoActorOr /\ NoActor \in Lookup!NoActorOr
  BY DEF Typed, Lookup!TypeOK, NullsAreNew, Lookup!NoActorOr
<1>2. /\ released \in [Values -> Lookup!NoActorOr]
      /\ \A v \in Values :
            released[v] = IF v = b /\ lookup[v] = a THEN NoActor ELSE lookup[v]
  BY <1>1 DEF Lookup!Released
<1> HIDE DEF released
<1>3. CASE b = c
  BY <1>1, <1>3 DEF Lookup!Synced
<1>4. CASE b # c /\ c = NoValue
  <2>1. synced = released
    BY <1>4 DEF Lookup!Synced, released
  <2> QED BY <1>1, <1>2, <1>4, <2>1 DEF NullsAreNew
<1>5. CASE b # c /\ c # NoValue
  <2>1. c \in Values
    BY <1>5 DEF Lookup!NoValueOr
  <2>2. synced = [released EXCEPT ![c] = IF @ = NoActor THEN a ELSE @]
    BY <1>5 DEF Lookup!Synced, Lookup!Claimed, released
  <2>3. /\ synced \in [Values -> Lookup!NoActorOr]
        /\ \A v \in Values : synced[v] =
                IF v = c /\ released[v] = NoActor THEN a ELSE released[v]
    BY <1>1, <1>2, <2>1, <2>2
  <2> HIDE DEF synced
  <2>4. \A v \in Values :
            /\ v = b => IF lookup[v] = a THEN synced[v] = NoActor
                        ELSE synced[v] = lookup[v]
            /\ v = c => IF lookup[v] = NoActor THEN synced[v] = a
                        ELSE synced[v] = lookup[v]
            /\ v \notin {b, c} => synced[v] = lookup[v]
    BY <1>2, <1>5, <2>3
  <2> QED BY <1>5, <2>3, <2>4 DEF synced
<1> QED BY <1>3, <1>4, <1>5

LEMMA TypedStep == NullsAreNew /\ Typed /\ [Lookup!Next]_(Lookup!vars) => Typed'
<1> SUFFICES ASSUME NullsAreNew, Typed, [Lookup!Next]_(Lookup!vars) PROVE
   Typed'
  OBVIOUS
<1> USE DEF Typed, Lookup!TypeOK, Lookup!NoActorOr, Lookup!NoValueOr,
   Lookup!Steps, Lookup!WriteSteps, Lookup!rows,
            Lookup!request
<1>1. ASSUME NEW r \in Requests, NEW a \in Actors, NEW v \in Lookup!NoValueOr,
             Lookup!ReadOld(r, a, v)
      PROVE Typed'
  BY <1>1 DEF Lookup!ReadOld
<1>2. ASSUME NEW r \in Requests, Lookup!Save(r) PROVE Typed'
  BY <1>2 DEF Lookup!Save, Lookup!Record, Lookup!Finish, Lookup!GoOn
<1>3. ASSUME NEW r \in Requests, Lookup!GetOld(r) PROVE Typed'
  BY <1>3 DEF Lookup!GetOld, Lookup!AfterOld, Lookup!Finish, Lookup!GoOn
<1>4. ASSUME NEW r \in Requests, Lookup!DeleteOld(r) PROVE Typed'
  BY <1>4 DEF Lookup!DeleteOld, Lookup!AfterOld, Lookup!Finish, Lookup!GoOn
<1>5. ASSUME NEW r \in Requests, Lookup!Create(r) PROVE Typed'
  BY <1>5 DEF Lookup!Create, Lookup!Claimed, Lookup!Finish
<1>6. ASSUME NEW r \in Requests, Lookup!Commit(r) PROVE Typed'
  <2>1. subject[r] \in Actors /\ old[r] \in Lookup!NoValueOr /\ value[r] \in
     Lookup!NoValueOr
    BY <1>6 DEF Lookup!Commit
  <2>2. lookup' \in [Values -> Lookup!NoActorOr]
    BY <1>6, <2>1, SyncedPoints DEF Lookup!Commit
  <2> QED BY <1>6, <2>1, <2>2 DEF Lookup!Commit, Lookup!Record, Lookup!Finish
<1>7. ASSUME NEW r \in Requests, Lookup!Fail(r) PROVE Typed'
  BY <1>7 DEF Lookup!Fail, Lookup!Finish
<1>8. ASSUME NEW r \in Requests, NEW v \in Values, Lookup!LookUp(r, v) PROVE
   Typed'
  BY <1>8 DEF Lookup!LookUp
<1>9. ASSUME NEW r \in Requests, Lookup!Scan(r) PROVE Typed'
  BY <1>9 DEF Lookup!Scan, Lookup!Finish
<1>10. ASSUME NEW r \in Requests, Lookup!Load(r) PROVE Typed'
  BY <1>10 DEF Lookup!Load, Lookup!Finish
<1>11. ASSUME NEW a \in Actors, Lookup!EndActor(a) PROVE Typed'
  BY <1>11 DEF Lookup!EndActor
<1>12. CASE UNCHANGED Lookup!vars
  BY <1>12 DEF Lookup!vars
<1> QED BY <1>1, <1>2, <1>3, <1>4, <1>5, <1>6, <1>7, <1>8, <1>9, <1>10,
           <1>11, <1>12 DEF Lookup!Next, Lookup!Set, Lookup!Delete,
              Lookup!Wipe, Lookup!NoValueOr

-----------------------------------------------------------------------------
(* What every row, write and search refers to has been true once.          *)

\* The lookup table, and the value a write is about to store in it, name
\* values the actor has had; so does what a search is about to answer.
ValuesWereHeld ==
    /\ \A a \in Actors : prop[a] # NoValue => prop[a] \in held[a]
    /\ \A v \in Values : \A a \in Actors : lookup[v] = a => v \in held[a]
    /\ \A r \in Requests :
        /\ step[r] \in {"get_old", "delete_old", "create"}
           => value[r] \in held[subject[r]] \cup {NoValue}
        /\ step[r] = "load" => value[r] \in held[subject[r]]
    /\ Lookup!AnswersWereTrue

LEMMA HeldInit == NullsAreNew /\ Lookup!Init => ValuesWereHeld
BY DEF Lookup!Init, ValuesWereHeld, Lookup!AnswersWereTrue, NullsAreNew

LEMMA HeldStep ==
    NullsAreNew /\ Typed /\ ValuesWereHeld /\ [Lookup!Next]_(Lookup!vars)
        => ValuesWereHeld'
<1> SUFFICES ASSUME NullsAreNew, Typed, ValuesWereHeld,
                    [Lookup!Next]_(Lookup!vars)
   PROVE ValuesWereHeld'
  OBVIOUS
<1> USE DEF Typed, Lookup!TypeOK, Lookup!NoActorOr, Lookup!NoValueOr,
   Lookup!Steps, Lookup!WriteSteps, Lookup!rows,
            Lookup!request, ValuesWereHeld, Lookup!AnswersWereTrue, NullsAreNew
<1>1. ASSUME NEW r \in Requests, NEW a \in Actors, NEW v \in Lookup!NoValueOr,
             Lookup!ReadOld(r, a, v)
      PROVE ValuesWereHeld'
  BY <1>1 DEF Lookup!ReadOld
<1>2. ASSUME NEW r \in Requests, Lookup!Save(r) PROVE ValuesWereHeld'
  <2>1. subject[r] \in Actors /\ value[r] \in Lookup!NoValueOr
    BY <1>2 DEF Lookup!Save
  <2>2. \A a \in Actors : held'[a] =
            IF a = subject[r] THEN held[a] \cup ({value[r]} \ {NoValue})
            ELSE held[a]
    BY <1>2, <2>1 DEF Lookup!Save, Lookup!Record
  <2>3. \A a \in Actors :
            prop'[a] = IF a = subject[r] THEN value[r] ELSE prop[a]
    BY <1>2, <2>1 DEF Lookup!Save
  <2>4. \A a \in Actors : prop'[a] # NoValue => prop'[a] \in held'[a]
    BY <2>1, <2>2, <2>3
  <2>5. \A v \in Values : \A a \in Actors : lookup'[v] = a => v \in held'[a]
    BY <1>2, <2>2 DEF Lookup!Save
  <2>6. \A s \in Requests :
            /\ step'[s] \in {"get_old", "delete_old", "create"}
               => value'[s] \in held'[subject'[s]] \cup {NoValue}
            /\ step'[s] = "load" => value'[s] \in held'[subject'[s]]
    <3>1. \A s \in Requests \ {r} : step'[s] = step[s] /\ subject'[s] = subject[s]
                                    /\ value'[s] = value[s]
      BY <1>2 DEF Lookup!Save, Lookup!Finish, Lookup!GoOn
    <3>2. \/ step'[r] = "idle"
          \/ /\ step'[r] \in {"create", "get_old"}
             /\ subject'[r] = subject[r] /\ value'[r] = value[r]
      BY <1>2 DEF Lookup!Save, Lookup!Finish, Lookup!GoOn
    <3>3. \A a \in Actors : held[a] \subseteq held'[a]
      BY <2>2
    <3>4. value[r] \in held'[subject[r]] \cup {NoValue}
      BY ONLY <2>1, <2>2
    <3>5. \A s \in Requests \ {r} :
            step[s] \in Lookup!WriteSteps \cup {"load"} => subject[s] \in Actors
      OBVIOUS
    <3> SUFFICES ASSUME NEW s \in Requests
                 PROVE
            /\ step'[s] \in {"get_old", "delete_old", "create"}
               => value'[s] \in held'[subject'[s]] \cup {NoValue}
            /\ step'[s] = "load" => value'[s] \in held'[subject'[s]]
      OBVIOUS
    <3>6. CASE s = r
      BY ONLY <3>2, <3>4, <3>6
    <3>7. CASE s # r
      BY ONLY ValuesWereHeld, <3>1, <3>3, <3>5, <3>7, s \in Requests
         DEF ValuesWereHeld, Lookup!WriteSteps
    <3> QED BY ONLY <3>6, <3>7
  <2>7. answers' = answers
    BY <1>2 DEF Lookup!Save
  <2>8. Lookup!AnswersWereTrue'
    BY <2>2, <2>7
  <2> QED BY ONLY <2>4, <2>5, <2>6, <2>8 DEF ValuesWereHeld
<1>3. ASSUME NEW r \in Requests, Lookup!GetOld(r) PROVE ValuesWereHeld'
  BY <1>3 DEF Lookup!GetOld, Lookup!AfterOld, Lookup!Finish, Lookup!GoOn
<1>4. ASSUME NEW r \in Requests, Lookup!DeleteOld(r) PROVE ValuesWereHeld'
  BY <1>4 DEF Lookup!DeleteOld, Lookup!AfterOld, Lookup!Finish, Lookup!GoOn
<1>5. ASSUME NEW r \in Requests, Lookup!Create(r) PROVE ValuesWereHeld'
  <2>1. subject[r] \in Actors /\ value[r] \in Values /\ step[r] = "create"
    BY <1>5 DEF Lookup!Create
  <2>2. value[r] \in held[subject[r]]
    BY <2>1
  <2>3. \A v \in Values :
            \/ lookup'[v] = lookup[v]
            \/ lookup'[v] = subject[r] /\ v = value[r]
    BY <1>5, <2>1 DEF Lookup!Create, Lookup!Claimed
  <2>4. \A v \in Values : \A a \in Actors : lookup'[v] = a => v \in held[a]
    BY <2>1, <2>2, <2>3
  <2> QED BY <1>5, <2>4 DEF Lookup!Create, Lookup!Finish
<1>6. ASSUME NEW r \in Requests, Lookup!Commit(r) PROVE ValuesWereHeld'
  <2>1. subject[r] \in Actors /\ old[r] \in Lookup!NoValueOr /\ value[r] \in
     Lookup!NoValueOr
    BY <1>6 DEF Lookup!Commit
  <2>2. \A a \in Actors : held'[a] =
            IF a = subject[r] THEN held[a] \cup ({value[r]} \ {NoValue})
            ELSE held[a]
    BY <1>6, <2>1 DEF Lookup!Commit, Lookup!Record
  <2>3. \A v \in Values :
            \/ lookup'[v] \in {lookup[v], NoActor}
            \/ lookup'[v] = subject[r] /\ v = value[r]
    <3>1. lookup' = Lookup!Synced(subject[r], old[r], value[r])
      BY <1>6 DEF Lookup!Commit
    <3> HIDE DEF Typed, Lookup!TypeOK, Lookup!NoActorOr, Lookup!NoValueOr,
       ValuesWereHeld, NullsAreNew
    <3> QED BY <2>1, <3>1, SyncedPoints
  <2>4. \A v \in Values : \A a \in Actors : lookup'[v] = a => v \in held'[a]
    <3> SUFFICES ASSUME NEW v \in Values, NEW a \in Actors, lookup'[v] = a
                 PROVE  v \in held'[a]
      OBVIOUS
    <3>1. CASE lookup[v] = a
      BY <3>1, <2>2
    <3>2. CASE a = subject[r] /\ v = value[r]
      <4>1. value[r] \in {value[r]} \ {NoValue}
        BY <3>2
      <4> QED BY ONLY <4>1, <3>2, <2>2, <2>1
    <3> QED BY <2>3, <3>1, <3>2
  <2>5. \A a \in Actors : prop'[a] # NoValue => prop'[a] \in held'[a]
    BY <1>6, <2>1, <2>2 DEF Lookup!Commit
  <2>6. \A s \in Requests :
            /\ step'[s] \in {"get_old", "delete_old", "create"}
               => value'[s] \in held'[subject'[s]] \cup {NoValue}
            /\ step'[s] = "load" => value'[s] \in held'[subject'[s]]
    <3>1. \A s \in Requests \ {r} : step'[s] = step[s] /\ subject'[s] = subject[s]
                                    /\ value'[s] = value[s]
      BY <1>6 DEF Lookup!Commit, Lookup!Finish
    <3>2. step'[r] = "idle"
      BY <1>6 DEF Lookup!Commit, Lookup!Finish
    <3>3. \A a \in Actors : held[a] \subseteq held'[a]
      BY <2>2
    <3> QED BY <3>1, <3>2, <3>3
  <2> QED BY <1>6, <2>2, <2>4, <2>5, <2>6 DEF Lookup!Commit
<1>7. ASSUME NEW r \in Requests, Lookup!Fail(r) PROVE ValuesWereHeld'
  BY <1>7 DEF Lookup!Fail, Lookup!Finish
<1>8. ASSUME NEW r \in Requests, NEW v \in Values, Lookup!LookUp(r, v) PROVE
   ValuesWereHeld'
  BY <1>8 DEF Lookup!LookUp
<1>9. ASSUME NEW r \in Requests, Lookup!Scan(r) PROVE ValuesWereHeld'
  BY <1>9 DEF Lookup!Scan, Lookup!Finish
<1>10. ASSUME NEW r \in Requests, Lookup!Load(r) PROVE ValuesWereHeld'
  BY <1>10 DEF Lookup!Load, Lookup!Finish
<1>11. ASSUME NEW a \in Actors, Lookup!EndActor(a) PROVE ValuesWereHeld'
  BY <1>11 DEF Lookup!EndActor
<1>12. CASE UNCHANGED Lookup!vars
  BY <1>12 DEF Lookup!vars
<1> QED BY <1>1, <1>2, <1>3, <1>4, <1>5, <1>6, <1>7, <1>8, <1>9, <1>10,
           <1>11, <1>12 DEF Lookup!Next, Lookup!Set, Lookup!Delete,
              Lookup!Wipe, Lookup!NoValueOr

\* A search never ends at an actor that never had the value, with any number
\* of overlapping writes and failures, on both backends.
THEOREM SearchesAreTruthful ==
    ASSUME NullsAreNew PROVE Lookup!Spec => []Lookup!AnswersWereTrue
<1>1. Lookup!Init => Typed /\ ValuesWereHeld
  BY TypedInit, HeldInit
<1>2. Typed /\ ValuesWereHeld /\ [Lookup!Next]_(Lookup!vars) => (Typed /\ ValuesWereHeld)'
  BY TypedStep, HeldStep
<1>3. Typed /\ ValuesWereHeld => Lookup!AnswersWereTrue
  BY DEF ValuesWereHeld
<1> QED BY <1>1, <1>2, <1>3, PTL DEF Lookup!Spec

-----------------------------------------------------------------------------
(* One write of an actor at a time.                                        *)

OneWriter == \A r \in Requests : \A s \in Requests :
    /\ step[r] \in Lookup!WriteSteps /\ step[s] \in Lookup!WriteSteps
    /\ subject[r] = subject[s]
    => r = s

\* What a write has read, or has stored, is what its actor has.
ReadsAreFresh == \A r \in Requests :
    /\ step[r] = "save" => old[r] = prop[subject[r]]
    /\ step[r] \in {"get_old", "delete_old", "create"} =>
        Backend = "dynamodb" /\ prop[subject[r]] = value[r]
    /\ step[r] \in Lookup!WriteSteps => subject[r] \notin gone

Serial == OneWriter /\ ReadsAreFresh /\ Lookup!OnlyOwnRows

LEMMA OneWriterStep ==
    ASSUME ~Overlap, Typed, OneWriter, [Lookup!Next]_(Lookup!vars)
    PROVE  OneWriter'
<1> USE DEF OneWriter, Typed, Lookup!TypeOK, Lookup!NoActorOr,
   Lookup!NoValueOr, Lookup!Steps, Lookup!WriteSteps, Lookup!rows,
   Lookup!request
<1>1. ASSUME NEW r \in Requests, NEW a \in Actors, NEW v \in Lookup!NoValueOr,
             Lookup!ReadOld(r, a, v)
      PROVE OneWriter'
  BY <1>1 DEF Lookup!ReadOld, Lookup!Writers
<1>2. ASSUME NEW r \in Requests, Lookup!Save(r) PROVE OneWriter'
  BY <1>2 DEF Lookup!Save, Lookup!Finish, Lookup!GoOn
<1>3. ASSUME NEW r \in Requests, Lookup!GetOld(r) PROVE OneWriter'
  BY <1>3 DEF Lookup!GetOld, Lookup!AfterOld, Lookup!Finish, Lookup!GoOn
<1>4. ASSUME NEW r \in Requests, Lookup!DeleteOld(r) PROVE OneWriter'
  BY <1>4 DEF Lookup!DeleteOld, Lookup!AfterOld, Lookup!Finish, Lookup!GoOn
<1>5. ASSUME NEW r \in Requests, Lookup!Create(r) PROVE OneWriter'
  BY <1>5 DEF Lookup!Create, Lookup!Claimed, Lookup!Finish
<1>6. ASSUME NEW r \in Requests, Lookup!Commit(r) PROVE OneWriter'
  BY <1>6 DEF Lookup!Commit, Lookup!Finish
<1>7. ASSUME NEW r \in Requests, Lookup!Fail(r) PROVE OneWriter'
  BY <1>7 DEF Lookup!Fail, Lookup!Finish
<1>8. ASSUME NEW r \in Requests, NEW v \in Values, Lookup!LookUp(r, v) PROVE
   OneWriter'
  BY <1>8 DEF Lookup!LookUp
<1>9. ASSUME NEW r \in Requests, Lookup!Scan(r) PROVE OneWriter'
  BY <1>9 DEF Lookup!Scan, Lookup!Finish
<1>10. ASSUME NEW r \in Requests, Lookup!Load(r) PROVE OneWriter'
  BY <1>10 DEF Lookup!Load, Lookup!Finish
<1>11. ASSUME NEW a \in Actors, Lookup!EndActor(a) PROVE OneWriter'
  BY <1>11 DEF Lookup!EndActor, Lookup!Writers
<1>12. CASE UNCHANGED Lookup!vars
  BY <1>12 DEF Lookup!vars
<1> QED BY <1>1, <1>2, <1>3, <1>4, <1>5, <1>6, <1>7, <1>8, <1>9, <1>10,
           <1>11, <1>12 DEF Lookup!Next, Lookup!Set, Lookup!Delete,
              Lookup!Wipe, Lookup!NoValueOr

LEMMA FreshStep ==
    ASSUME ~Overlap, Typed, OneWriter, ReadsAreFresh, [Lookup!Next]_(Lookup!vars)
    PROVE  ReadsAreFresh'
<1> USE DEF ReadsAreFresh, OneWriter, Typed, Lookup!TypeOK, Lookup!NoActorOr,
   Lookup!NoValueOr, Lookup!Steps, Lookup!WriteSteps, Lookup!rows,
   Lookup!request
<1>1. ASSUME NEW r \in Requests, NEW a \in Actors, NEW v \in Lookup!NoValueOr,
             Lookup!ReadOld(r, a, v)
      PROVE ReadsAreFresh'
  BY <1>1 DEF Lookup!ReadOld, Lookup!Writers
<1>2. ASSUME NEW r \in Requests, Lookup!Save(r) PROVE ReadsAreFresh'
  BY <1>2 DEF Lookup!Save, Lookup!Finish, Lookup!GoOn
<1>3. ASSUME NEW r \in Requests, Lookup!GetOld(r) PROVE ReadsAreFresh'
  BY <1>3 DEF Lookup!GetOld, Lookup!AfterOld, Lookup!Finish, Lookup!GoOn
<1>4. ASSUME NEW r \in Requests, Lookup!DeleteOld(r) PROVE ReadsAreFresh'
  BY <1>4 DEF Lookup!DeleteOld, Lookup!AfterOld, Lookup!Finish, Lookup!GoOn
<1>5. ASSUME NEW r \in Requests, Lookup!Create(r) PROVE ReadsAreFresh'
  BY <1>5 DEF Lookup!Create, Lookup!Claimed, Lookup!Finish
<1>6. ASSUME NEW r \in Requests, Lookup!Commit(r) PROVE ReadsAreFresh'
  BY <1>6 DEF Lookup!Commit, Lookup!Finish
<1>7. ASSUME NEW r \in Requests, Lookup!Fail(r) PROVE ReadsAreFresh'
  BY <1>7 DEF Lookup!Fail, Lookup!Finish
<1>8. ASSUME NEW r \in Requests, NEW v \in Values, Lookup!LookUp(r, v) PROVE
   ReadsAreFresh'
  BY <1>8 DEF Lookup!LookUp
<1>9. ASSUME NEW r \in Requests, Lookup!Scan(r) PROVE ReadsAreFresh'
  BY <1>9 DEF Lookup!Scan, Lookup!Finish
<1>10. ASSUME NEW r \in Requests, Lookup!Load(r) PROVE ReadsAreFresh'
  BY <1>10 DEF Lookup!Load, Lookup!Finish
<1>11. ASSUME NEW a \in Actors, Lookup!EndActor(a) PROVE ReadsAreFresh'
  BY <1>11 DEF Lookup!EndActor, Lookup!Writers
<1>12. CASE UNCHANGED Lookup!vars
  BY <1>12 DEF Lookup!vars
<1> QED BY <1>1, <1>2, <1>3, <1>4, <1>5, <1>6, <1>7, <1>8, <1>9, <1>10,
           <1>11, <1>12 DEF Lookup!Next, Lookup!Set, Lookup!Delete,
              Lookup!Wipe, Lookup!NoValueOr

LEMMA OwnRowsStep ==
    ASSUME ~Overlap, NullsAreNew, Typed, Serial, [Lookup!Next]_(Lookup!vars)
    PROVE  Lookup!OnlyOwnRows'
<1> USE DEF Serial, Lookup!OnlyOwnRows, ReadsAreFresh, OneWriter, NullsAreNew,
   Typed, Lookup!TypeOK, Lookup!NoActorOr, Lookup!NoValueOr, Lookup!Steps,
   Lookup!WriteSteps, Lookup!rows, Lookup!request
<1>1. ASSUME NEW r \in Requests, NEW a \in Actors, NEW v \in Lookup!NoValueOr,
             Lookup!ReadOld(r, a, v)
      PROVE Lookup!OnlyOwnRows'
  BY <1>1 DEF Lookup!ReadOld, Lookup!Writers
<1>2. ASSUME NEW r \in Requests, Lookup!Save(r) PROVE Lookup!OnlyOwnRows'
  BY <1>2 DEF Lookup!Save, Lookup!Finish, Lookup!GoOn
<1>3. ASSUME NEW r \in Requests, Lookup!GetOld(r) PROVE Lookup!OnlyOwnRows'
  BY <1>3 DEF Lookup!GetOld, Lookup!AfterOld, Lookup!Finish, Lookup!GoOn
<1>4. ASSUME NEW r \in Requests, Lookup!DeleteOld(r) PROVE Lookup!OnlyOwnRows'
  BY <1>4 DEF Lookup!DeleteOld, Lookup!AfterOld, Lookup!Finish, Lookup!GoOn
<1>5. ASSUME NEW r \in Requests, Lookup!Create(r) PROVE Lookup!OnlyOwnRows'
  BY <1>5 DEF Lookup!Create, Lookup!Claimed, Lookup!Finish
<1>6. ASSUME NEW r \in Requests, Lookup!Commit(r) PROVE Lookup!OnlyOwnRows'
  BY <1>6 DEF Lookup!Commit, Lookup!Finish
<1>7. ASSUME NEW r \in Requests, Lookup!Fail(r) PROVE Lookup!OnlyOwnRows'
  BY <1>7 DEF Lookup!Fail, Lookup!Finish
<1>8. ASSUME NEW r \in Requests, NEW v \in Values, Lookup!LookUp(r, v) PROVE
   Lookup!OnlyOwnRows'
  BY <1>8 DEF Lookup!LookUp
<1>9. ASSUME NEW r \in Requests, Lookup!Scan(r) PROVE Lookup!OnlyOwnRows'
  BY <1>9 DEF Lookup!Scan, Lookup!Finish
<1>10. ASSUME NEW r \in Requests, Lookup!Load(r) PROVE Lookup!OnlyOwnRows'
  BY <1>10 DEF Lookup!Load, Lookup!Finish
<1>11. ASSUME NEW a \in Actors, Lookup!EndActor(a) PROVE Lookup!OnlyOwnRows'
  BY <1>11 DEF Lookup!EndActor, Lookup!Writers
<1>12. CASE UNCHANGED Lookup!vars
  BY <1>12 DEF Lookup!vars
<1> QED BY <1>1, <1>2, <1>3, <1>4, <1>5, <1>6, <1>7, <1>8, <1>9, <1>10,
           <1>11, <1>12 DEF Lookup!Next, Lookup!Set, Lookup!Delete,
              Lookup!Wipe, Lookup!NoValueOr


-----------------------------------------------------------------------------
(* What the table says, when accesses do not fail half way.                *)

\* PostgreSQL takes a write back as a whole.
NothingHalfDone == Backend = "postgresql" \/ ~Faulty

LEMMA TrueStep ==
    ASSUME ~Overlap, NothingHalfDone, NullsAreNew, Typed, Serial,
           Lookup!RowsAreTrue, [Lookup!Next]_(Lookup!vars)
    PROVE  Lookup!RowsAreTrue'
<1> USE DEF Lookup!RowsAreTrue, NothingHalfDone, Lookup!Writers, Serial,
   Lookup!OnlyOwnRows, ReadsAreFresh,
            OneWriter, NullsAreNew,
            Typed, Lookup!TypeOK, Lookup!NoActorOr, Lookup!NoValueOr,
               Lookup!Steps, Lookup!WriteSteps, Lookup!rows, Lookup!request
<1>1. ASSUME NEW r \in Requests, NEW a \in Actors, NEW v \in Lookup!NoValueOr,
             Lookup!ReadOld(r, a, v)
      PROVE Lookup!RowsAreTrue'
  BY <1>1 DEF Lookup!ReadOld
<1>2. ASSUME NEW r \in Requests, Lookup!Save(r) PROVE Lookup!RowsAreTrue'
  BY <1>2 DEF Lookup!Save, Lookup!Record, Lookup!Finish, Lookup!GoOn
<1>3. ASSUME NEW r \in Requests, Lookup!GetOld(r) PROVE Lookup!RowsAreTrue'
  BY <1>3 DEF Lookup!GetOld, Lookup!AfterOld, Lookup!Finish, Lookup!GoOn
<1>4. ASSUME NEW r \in Requests, Lookup!DeleteOld(r) PROVE Lookup!RowsAreTrue'
  BY <1>4 DEF Lookup!DeleteOld, Lookup!AfterOld, Lookup!Finish, Lookup!GoOn
<1>5. ASSUME NEW r \in Requests, Lookup!Create(r) PROVE Lookup!RowsAreTrue'
  BY <1>5 DEF Lookup!Create, Lookup!Claimed, Lookup!Finish
<1>6. ASSUME NEW r \in Requests, Lookup!Commit(r) PROVE Lookup!RowsAreTrue'
  <2> SUFFICES ASSUME NEW v \in Values, NEW a \in Actors, lookup'[v] = a
               PROVE  prop'[a] = v
    OBVIOUS
  <2>1. /\ Backend = "postgresql" /\ step[r] = "save"
        /\ subject[r] \in Actors /\ old[r] \in Lookup!NoValueOr
        /\ value[r] \in Lookup!NoValueOr /\ old[r] = prop[subject[r]]
        /\ lookup' = Lookup!Synced(subject[r], old[r], value[r])
        /\ prop' = [prop EXCEPT ![subject[r]] = value[r]]
    BY <1>6 DEF Lookup!Commit
  <2>2. \A w \in Values : \A b \in Actors : lookup[w] = b => prop[b] = w
    BY <2>1
  <2>3. /\ old[r] = value[r] => lookup' = lookup
        /\ old[r] # value[r] =>
            /\ v = old[r] => IF lookup[v] = subject[r] THEN lookup'[v] = NoActor
                             ELSE lookup'[v] = lookup[v]
            /\ v = value[r] => IF lookup[v] = NoActor
                               THEN lookup'[v] = subject[r]
                               ELSE lookup'[v] = lookup[v]
            /\ v \notin {old[r], value[r]} => lookup'[v] = lookup[v]
    <3> HIDE DEF Typed, Lookup!TypeOK, Lookup!NoActorOr, Lookup!NoValueOr,
       NullsAreNew
    <3> QED BY <2>1, SyncedPoints
  <2> QED BY <2>1, <2>2, <2>3
<1>7. ASSUME NEW r \in Requests, Lookup!Fail(r) PROVE Lookup!RowsAreTrue'
  BY <1>7 DEF Lookup!Fail, Lookup!Finish
<1>8. ASSUME NEW r \in Requests, NEW v \in Values, Lookup!LookUp(r, v) PROVE
   Lookup!RowsAreTrue'
  BY <1>8 DEF Lookup!LookUp
<1>9. ASSUME NEW r \in Requests, Lookup!Scan(r) PROVE Lookup!RowsAreTrue'
  BY <1>9 DEF Lookup!Scan, Lookup!Finish
<1>10. ASSUME NEW r \in Requests, Lookup!Load(r) PROVE Lookup!RowsAreTrue'
  BY <1>10 DEF Lookup!Load, Lookup!Finish
<1>11. ASSUME NEW a \in Actors, Lookup!EndActor(a) PROVE Lookup!RowsAreTrue'
  BY <1>11 DEF Lookup!EndActor
<1>12. CASE UNCHANGED Lookup!vars
  BY <1>12 DEF Lookup!vars
<1> QED BY <1>1, <1>2, <1>3, <1>4, <1>5, <1>6, <1>7, <1>8, <1>9, <1>10,
           <1>11, <1>12 DEF Lookup!Next, Lookup!Set, Lookup!Delete,
              Lookup!Wipe, Lookup!NoValueOr

\* SoleHolderIsFound also while a write that has stored nothing yet is under
\* way.
Indexed == \A a \in Actors :
    /\ prop[a] # NoValue
    /\ a \notin legacy \cup gone
    /\ \A r \in Lookup!Writers(a) : step[r] = "save"
    /\ \A b \in Actors \ {a} : prop[a] \notin held[b]
    => lookup[prop[a]] = a

LEMMA IndexedStep ==
    ASSUME ~Overlap, NothingHalfDone, NullsAreNew, Typed, ValuesWereHeld, Serial,
           Indexed, [Lookup!Next]_(Lookup!vars)
    PROVE  Indexed'
<1> USE DEF Indexed, NothingHalfDone, Lookup!Writers, Serial,
   Lookup!OnlyOwnRows, ReadsAreFresh, OneWriter,
            NullsAreNew, ValuesWereHeld,
            Typed, Lookup!TypeOK, Lookup!NoActorOr, Lookup!NoValueOr,
               Lookup!Steps, Lookup!WriteSteps, Lookup!rows, Lookup!request
<1>1. ASSUME NEW r \in Requests, NEW a \in Actors, NEW v \in Lookup!NoValueOr,
             Lookup!ReadOld(r, a, v)
      PROVE Indexed'
  BY <1>1 DEF Lookup!ReadOld
<1>2. ASSUME NEW r \in Requests, Lookup!Save(r) PROVE Indexed'
  BY <1>2 DEF Lookup!Save, Lookup!Record, Lookup!Finish, Lookup!GoOn
<1>3. ASSUME NEW r \in Requests, Lookup!GetOld(r) PROVE Indexed'
  BY <1>3 DEF Lookup!GetOld, Lookup!AfterOld, Lookup!Finish, Lookup!GoOn
<1>4. ASSUME NEW r \in Requests, Lookup!DeleteOld(r) PROVE Indexed'
  BY <1>4 DEF Lookup!DeleteOld, Lookup!AfterOld, Lookup!Finish, Lookup!GoOn
<1>5. ASSUME NEW r \in Requests, Lookup!Create(r) PROVE Indexed'
  BY <1>5 DEF Lookup!Create, Lookup!Claimed, Lookup!Finish
<1>6. ASSUME NEW r \in Requests, Lookup!Commit(r) PROVE Indexed'
  <2> SUFFICES ASSUME NEW a \in Actors, prop'[a] # NoValue,
                      a \notin legacy' \cup gone,
                      \A b \in Actors \ {a} : prop'[a] \notin held'[b]
               PROVE  lookup'[prop'[a]] = a
    BY <1>6 DEF Lookup!Commit
  <2> DEFINE n == prop'[a]
  <2>1. /\ Backend = "postgresql" /\ step[r] = "save"
        /\ subject[r] \in Actors /\ old[r] \in Lookup!NoValueOr
        /\ value[r] \in Lookup!NoValueOr /\ old[r] = prop[subject[r]]
        /\ lookup' = Lookup!Synced(subject[r], old[r], value[r])
        /\ prop' = [prop EXCEPT ![subject[r]] = value[r]]
        /\ held' = [held EXCEPT
                        ![subject[r]] = @ \cup ({value[r]} \ {NoValue})]
        /\ legacy' = IF old[r] = value[r] THEN legacy
                     ELSE legacy \ {subject[r]}
    BY <1>6 DEF Lookup!Commit, Lookup!Record
  <2>2. n \in Values /\ \A s \in Lookup!Writers(a) : step[s] = "save"
    BY <2>1
  <2>3. /\ old[r] = value[r] => lookup' = lookup
        /\ old[r] # value[r] =>
            /\ n = old[r] => IF lookup[n] = subject[r] THEN lookup'[n] = NoActor
                             ELSE lookup'[n] = lookup[n]
            /\ n = value[r] => IF lookup[n] = NoActor
                               THEN lookup'[n] = subject[r]
                               ELSE lookup'[n] = lookup[n]
            /\ n \notin {old[r], value[r]} => lookup'[n] = lookup[n]
    <3> HIDE DEF Typed, Lookup!TypeOK, Lookup!NoActorOr, Lookup!NoValueOr,
       NullsAreNew, n
    <3> QED BY <2>1, <2>2, SyncedPoints
  <2>4. \A b \in Actors \ {a} : n \notin held[b] /\ lookup[n] # b
    BY <2>1, <2>2
  <2>5. CASE a = subject[r] /\ old[r] # value[r]
    BY <2>1, <2>2, <2>3, <2>4, <2>5
  <2>6. CASE a = subject[r] /\ old[r] = value[r]
    <3>1. n = prop[a] /\ a \notin legacy
      BY <2>1, <2>6
    <3>2. lookup[n] = a
      BY <3>1, <2>2, <2>4
    <3> QED BY <3>2, <2>3, <2>6
  <2>7. CASE a # subject[r]
    <3>1. n = prop[a] /\ a \notin legacy
      BY <2>1, <2>7
    <3>2. lookup[n] = a
      BY <3>1, <2>2, <2>4
    <3>3. n # value[r]
      <4>1. n \in held'[subject[r]] \/ n # value[r]
        BY <2>1, <2>2
      <4> QED BY <4>1, <2>1, <2>7
    <3> QED BY <3>2, <3>3, <2>1, <2>2, <2>3, <2>7
  <2> QED BY <2>5, <2>6, <2>7
<1>7. ASSUME NEW r \in Requests, Lookup!Fail(r) PROVE Indexed'
  BY <1>7 DEF Lookup!Fail, Lookup!Finish
<1>8. ASSUME NEW r \in Requests, NEW v \in Values, Lookup!LookUp(r, v) PROVE
   Indexed'
  BY <1>8 DEF Lookup!LookUp
<1>9. ASSUME NEW r \in Requests, Lookup!Scan(r) PROVE Indexed'
  BY <1>9 DEF Lookup!Scan, Lookup!Finish
<1>10. ASSUME NEW r \in Requests, Lookup!Load(r) PROVE Indexed'
  BY <1>10 DEF Lookup!Load, Lookup!Finish
<1>11. ASSUME NEW a \in Actors, Lookup!EndActor(a) PROVE Indexed'
  BY <1>11 DEF Lookup!EndActor
<1>12. CASE UNCHANGED Lookup!vars
  BY <1>12 DEF Lookup!vars
<1> QED BY <1>1, <1>2, <1>3, <1>4, <1>5, <1>6, <1>7, <1>8, <1>9, <1>10,
           <1>11, <1>12 DEF Lookup!Next, Lookup!Set, Lookup!Delete,
              Lookup!Wipe, Lookup!NoValueOr

-----------------------------------------------------------------------------
(* The theorems.                                                           *)

LEMMA SerialInit == NullsAreNew /\ Lookup!Init => Serial /\ Lookup!RowsAreTrue /\ Indexed
BY DEF Lookup!Init, Serial, OneWriter, ReadsAreFresh, Lookup!OnlyOwnRows,
   Lookup!RowsAreTrue, Indexed,
       Lookup!WriteSteps, NullsAreNew

LEMMA SerialInvariant ==
    ASSUME NullsAreNew, ~Overlap PROVE Lookup!Spec => [](Typed /\ ValuesWereHeld /\ Serial)
<1>1. Lookup!Init => Typed /\ ValuesWereHeld /\ Serial
  BY TypedInit, HeldInit, SerialInit
<1>2. Typed /\ ValuesWereHeld /\ Serial /\ [Lookup!Next]_(Lookup!vars) => (Typed /\
   ValuesWereHeld /\ Serial)'
  <2> SUFFICES ASSUME Typed, ValuesWereHeld, Serial, [Lookup!Next]_(Lookup!vars)
               PROVE  (Typed /\ ValuesWereHeld /\ Serial)'
    OBVIOUS
  <2>1. OneWriter /\ ReadsAreFresh
    BY DEF Serial
  <2> QED BY <2>1, TypedStep, HeldStep, OneWriterStep, FreshStep, OwnRowsStep
             DEF Serial
<1> QED BY <1>1, <1>2, PTL DEF Lookup!Spec

\* If the writes of each actor come one after another, a write only ever
\* deletes a lookup row of its own actor, whatever fails: what the comment of
\* _update_lookup_entry accepts cannot happen between different actors.
THEOREM WritesSpareOthers ==
    ASSUME NullsAreNew, ~Overlap PROVE Lookup!Spec => []Lookup!OnlyOwnRows
BY SerialInvariant, PTL DEF Serial

\* If, besides, no write is left half done, a value resolves to an actor only
\* as long as the actor has it: an old value does not find the actor any more.
THEOREM OldValuesAreForgotten ==
    ASSUME NullsAreNew, ~Overlap, NothingHalfDone
    PROVE  Lookup!Spec => []Lookup!RowsAreTrue
<1>1. Typed /\ ValuesWereHeld /\ Serial /\ Lookup!RowsAreTrue /\
   [Lookup!Next]_(Lookup!vars) => Lookup!RowsAreTrue'
  BY TrueStep
<1>2. Lookup!Init => Lookup!RowsAreTrue
  BY SerialInit
<1> QED BY <1>1, <1>2, SerialInvariant, PTL DEF Lookup!Spec

\* And the only actor that ever had its value is found by it.
THEOREM HoldersAreFound ==
    ASSUME NullsAreNew, ~Overlap, NothingHalfDone
    PROVE  Lookup!Spec => []Lookup!SoleHolderIsFound
<1>1. Typed /\ ValuesWereHeld /\ Serial /\ Indexed /\ [Lookup!Next]_(Lookup!vars) =>
   Indexed'
  BY IndexedStep
<1>2. Lookup!Init => Indexed
  BY SerialInit
<1>3. Indexed => Lookup!SoleHolderIsFound
  BY DEF Indexed, Lookup!SoleHolderIsFound
<1> QED BY <1>1, <1>2, <1>3, SerialInvariant, PTL DEF Lookup!Spec
=============================================================================
