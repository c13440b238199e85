------------------------ MODULE ActorLifecycle_proofs ------------------------
(***************************************************************************)
(* Proofs about what is deleted or rewritten in many steps, any of which   *)
(* may be the last: actors (ActorLifecycle) and the rows of a list that    *)
(* changes its format (ListMigration).  For any actors, creators and       *)
(* operations, any items, appends, crashes and rewrites.                   *)
(*                                                                         *)
(* The invariant of ActorLifecycle follows one actor through its deletion: *)
(* the tombstone is written before the hook and before the wipe and is not *)
(* taken away while the wipe goes on (MarkIsKept), because only a creation *)
(* takes it away, which has a row by then (NewHasRow), and a row that      *)
(* appears during a wipe entangles the two lives (OverlapIsSeen).  So      *)
(* nobody who asks writes rows of a marked actor, and what was wiped stays *)
(* empty (WipedIsEmpty).  First, who wipes what before and after each step;*)
(* then one lemma for each part of the invariant, with a step per action.  *)
(*                                                                         *)
(* The invariant of ListMigration has two parts.  Whatever happens, the    *)
(* rows that the next step relies on hold all items of the list (Lossless);*)
(* and until a window was open, nothing else, in order (Exact), also at the*)
(* end of an undo, which has removed its own rows and no others (Residue). *)
(***************************************************************************)
EXTENDS ActorLifecycle, ListMigration, FiniteSetTheorems, TLAPS

-----------------------------------------------------------------------------
(* Who does what.                                                          *)

\* The actor an operation wipes is one of those it has to delete.
LEMMA VictimIsDoomed ==
    ASSUME TypeOK, StepsFit, NEW o \in Operations,
           pc[o] \in Wipe \cup {"premark", "hook", "mark"}
    PROVE  /\ Victim(o) \in Ids
           /\ kind[o] = "delete" => Victim(o) = id[o]
           /\ kind[o] = "create" => Victim(o) \in doomed[o]
           /\ kind[o] \in {"create", "delete"}
<1>1. CASE kind[o] = "delete"
  BY <1>1 DEF StepsFit, Active, Victim, TypeOK, Wipe, Stores
<1>2. CASE kind[o] = "create" /\ doomed[o] # {}
  <2>1. (CHOOSE i \in doomed[o] : TRUE) \in doomed[o]
    BY <1>2
  <2>2. Victim(o) \in doomed[o]
    BY <1>2, <2>1 DEF Victim
  <2> QED
    BY <1>2, <2>2 DEF TypeOK
<1> QED
  BY <1>1, <1>2 DEF StepsFit

\* One operation moves; the others are where they were.
Others(o) ==
    \A p \in Operations \ {o} :
        /\ pc'[p] = pc[p] /\ kind'[p] = kind[p] /\ id'[p] = id[p]
        /\ creator'[p] = creator[p] /\ doomed'[p] = doomed[p]
        /\ created'[p] = created[p] /\ caused'[p] = caused[p]
        /\ Victim(p)' = Victim(p)

LEMMA VictimStays ==
    ASSUME NEW o \in Operations, kind'[o] = kind[o], id'[o] = id[o],
           doomed'[o] = doomed[o]
    PROVE  Victim(o)' = Victim(o)
  BY DEF Victim

LEMMA OthersStay ==
    ASSUME IInv, NEW o \in Operations,
           \/ \E i \in Ids :
               \/ \E c \in Creators, delete \in BOOLEAN : Create(o, i, c, delete)
               \/ Delete(o, i)
               \/ \E why \in BOOLEAN : Webhook(o, i, why)
           \/ LoadDoomed(o) \/ Insert(o) \/ Clear(o) \/ Created(o)
           \/ Premark(o) \/ ActorDeletedHook(o) \/ Mark(o)
           \/ WipeStore(o) \/ WipeRow(o)
           \/ GetDeletionStatus(o) \/ Write(o) \/ Die(o)
    PROVE  Others(o)
<1> DEFINE Stays(p) ==
        /\ pc'[p] = pc[p] /\ kind'[p] = kind[p] /\ id'[p] = id[p]
        /\ creator'[p] = creator[p] /\ doomed'[p] = doomed[p]
        /\ created'[p] = created[p] /\ caused'[p] = caused[p]
<1> SUFFICES ASSUME NEW p \in Operations \ {o} PROVE Stays(p)
  BY VictimStays DEF Others
<1> USE DEF IInv, TypeOK
<1>1. ASSUME NEW i \in Ids, NEW c \in Creators, NEW delete \in BOOLEAN,
             Create(o, i, c, delete)
      PROVE  Stays(p)
  BY <1>1 DEF Create, Begin, Goto
<1>2. ASSUME NEW i \in Ids, Delete(o, i) PROVE Stays(p)
  BY <1>2 DEF Delete, Begin, Goto
<1>3. ASSUME NEW i \in Ids, NEW why \in BOOLEAN, Webhook(o, i, why)
      PROVE  Stays(p)
  BY <1>3 DEF Webhook, Begin, Goto
<1>4. ASSUME LoadDoomed(o) PROVE Stays(p)
  BY <1>4 DEF LoadDoomed, Begin, Goto
<1>5. ASSUME Insert(o) PROVE Stays(p)
  BY <1>5 DEF Insert, Begin, Goto
<1>6. ASSUME Clear(o) PROVE Stays(p)
  BY <1>6 DEF Clear, Begin, Goto
<1>7. ASSUME Created(o) PROVE Stays(p)
  BY <1>7 DEF Created, Begin, Goto
<1>8. ASSUME Premark(o) PROVE Stays(p)
  BY <1>8 DEF Premark, Begin, Goto
<1>9. ASSUME ActorDeletedHook(o) PROVE Stays(p)
  BY <1>9 DEF ActorDeletedHook, Begin, Goto
<1>10. ASSUME Mark(o) PROVE Stays(p)
  BY <1>10 DEF Mark, Begin, Goto
<1>11. ASSUME WipeStore(o) PROVE Stays(p)
  BY <1>11 DEF WipeStore, Begin, Goto
<1>12. ASSUME WipeRow(o) PROVE Stays(p)
  BY <1>12 DEF WipeRow, Begin, Goto
<1>13. ASSUME GetDeletionStatus(o) PROVE Stays(p)
  BY <1>13 DEF GetDeletionStatus, Begin, Goto
<1>14. ASSUME Write(o) PROVE Stays(p)
  BY <1>14 DEF Write, Begin, Goto
<1>15. ASSUME Die(o) PROVE Stays(p)
  BY <1>15 DEF Die, Begin, Goto
<1> QED
  BY <1>1, <1>2, <1>3, <1>4, <1>5, <1>6, <1>7, <1>8,
     <1>9, <1>10, <1>11, <1>12, <1>13, <1>14, <1>15

-----------------------------------------------------------------------------
\* Every step keeps the types.
LEMMA TypeStep == IInv /\ [Next]_vars => TypeOK'
<1> SUFFICES ASSUME IInv, [Next]_vars PROVE TypeOK'
  OBVIOUS
<1> USE DEF IInv, TypeOK, Steps, Wipe, Stores, observed
<1>1. ASSUME NEW o \in Operations, NEW i \in Ids, NEW c \in Creators,
             NEW delete \in BOOLEAN, Create(o, i, c, delete)
      PROVE  TypeOK'
  BY <1>1, MaxFaultsAssumption DEF Create, Begin, Goto
<1>2. ASSUME NEW o \in Operations, NEW i \in Ids, Delete(o, i) PROVE TypeOK'
  <2>1. entangled' \in SUBSET Ids
    BY <1>2 DEF Delete, Entangle
  <2> QED
    BY <1>2, <2>1 DEF Delete, Begin, Goto
<1>3. ASSUME NEW o \in Operations, NEW i \in Ids, NEW why \in BOOLEAN,
             Webhook(o, i, why)
      PROVE  TypeOK'
  BY <1>3, MaxFaultsAssumption DEF Webhook, Begin, Goto
<1>4. ASSUME NEW o \in Operations, LoadDoomed(o) PROVE TypeOK'
  <2>1. Victim(o) \in doomed[o] \/ doomed[o] = {}
    BY <1>4 DEF LoadDoomed, StepsFit, Victim
  <2>2. entangled' \in SUBSET Ids
    BY <1>4, <2>1 DEF LoadDoomed, Entangle
  <2>3. pc' \in [Operations -> Steps] /\ doomed' \in [Operations -> SUBSET Ids]
    BY <1>4 DEF LoadDoomed, Goto
  <2> QED
    BY <1>4, <2>2, <2>3 DEF LoadDoomed
<1>5. ASSUME NEW o \in Operations, Insert(o) PROVE TypeOK'
  <2>1. id[o] \in Ids /\ creator[o] \in Creators
    BY <1>5 DEF Insert, StepsFit, Active
  <2>2. faults' \in 0..MaxFaults
    BY <1>5, MaxFaultsAssumption DEF Insert, Fault
  <2>3. entangled' \in SUBSET Ids /\ row' \in [Ids -> Creators \cup {Nobody}]
    BY <1>5, <2>1 DEF Insert
  <2> QED
    BY <1>5, <2>2, <2>3 DEF Insert, Goto
<1>6. ASSUME NEW o \in Operations, Clear(o) PROVE TypeOK'
  BY <1>6, MaxFaultsAssumption DEF Clear, ClearActorTombstone, Goto, Fault
<1>7. ASSUME NEW o \in Operations, Created(o) PROVE TypeOK'
  <2>1. id[o] \in Ids
    BY <1>7 DEF Created, StepsFit, Active
  <2> QED
    BY <1>7, <2>1 DEF Created, WriteRows, Goto
<1>8. ASSUME NEW o \in Operations, Premark(o) PROVE TypeOK'
  <2>1. id[o] \in Ids
    BY <1>8 DEF Premark, StepsFit, Active
  <2> QED
    BY <1>8, <2>1, MaxFaultsAssumption DEF Premark, MarkActorDeleted, Goto,
       Fault
<1>9. ASSUME NEW o \in Operations, ActorDeletedHook(o) PROVE TypeOK'
  <2>1. id[o] \in Ids
    BY <1>9 DEF ActorDeletedHook, StepsFit, Active
  <2> QED
    BY <1>9, <2>1 DEF ActorDeletedHook, Goto
<1>10. ASSUME NEW o \in Operations, Mark(o) PROVE TypeOK'
  <2>1. Victim(o) \in Ids
    BY <1>10, VictimIsDoomed DEF Mark
  <2> QED
    BY <1>10, <2>1, MaxFaultsAssumption DEF Mark, MarkActorDeleted, Goto, Fault
<1>11. ASSUME NEW o \in Operations, WipeStore(o) PROVE TypeOK'
  <2>1. After(pc[o]) \in Steps
    BY <1>11 DEF WipeStore, After
  <2>2. Victim(o) \in Ids
    BY <1>11, VictimIsDoomed DEF WipeStore
  <2> QED
    BY <1>11, <2>1, <2>2 DEF WipeStore, Goto, observed
<1>12. ASSUME NEW o \in Operations, WipeRow(o) PROVE TypeOK'
  <2>1. Victim(o) \in Ids
    BY <1>12, VictimIsDoomed DEF WipeRow
  <2>2. faults' \in 0..MaxFaults
    BY <1>12, MaxFaultsAssumption DEF WipeRow, Fault
  <2> QED
    BY <1>12, <2>1, <2>2 DEF WipeRow, Goto, observed
<1>13. ASSUME NEW o \in Operations, GetDeletionStatus(o) PROVE TypeOK'
  BY <1>13, MaxFaultsAssumption DEF GetDeletionStatus, Goto, Fault
<1>14. ASSUME NEW o \in Operations, Write(o) PROVE TypeOK'
  BY <1>14, MaxFaultsAssumption DEF Write, WriteRows, Goto
<1>15. ASSUME NEW o \in Operations, Die(o) PROVE TypeOK'
  BY <1>15, MaxFaultsAssumption DEF Die, Active, Goto, Fault
<1>16. CASE UNCHANGED vars
  BY <1>16 DEF vars, observed
<1> HIDE DEF IInv, TypeOK, Steps, Wipe, Stores, observed
<1> QED
  BY <1>1, <1>2, <1>3, <1>4, <1>5, <1>6, <1>7, <1>8, <1>9, <1>10, <1>11,
     <1>12, <1>13, <1>14, <1>15, <1>16
  DEF Next

\* Each operation takes its own steps, one after the other.
LEMMA FitStep == IInv /\ [Next]_vars => StepsFit'
<1> SUFFICES ASSUME IInv, [Next]_vars PROVE StepsFit'
  OBVIOUS
<1> USE DEF IInv, TypeOK, StepsFit, Steps, Wipe, Stores, Active, observed
<1>1. ASSUME NEW o \in Operations, NEW i \in Ids, NEW c \in Creators,
             NEW delete \in BOOLEAN, Create(o, i, c, delete)
      PROVE  StepsFit'
  <2>1. Others(o)
    BY <1>1, OthersStay
  <2> QED
    BY <1>1, <2>1 DEF Others, Create, Begin, Goto
<1>2. ASSUME NEW o \in Operations, NEW i \in Ids, Delete(o, i) PROVE StepsFit'
  <2>1. Others(o)
    BY <1>2, OthersStay
  <2> QED
    BY <1>2, <2>1 DEF Others, Delete, Begin, Goto, Entangle
<1>3. ASSUME NEW o \in Operations, NEW i \in Ids, NEW why \in BOOLEAN,
             Webhook(o, i, why)
      PROVE  StepsFit'
  <2>1. Others(o)
    BY <1>3, OthersStay
  <2> QED
    BY <1>3, <2>1 DEF Others, Webhook, Begin, Goto
<1>4. ASSUME NEW o \in Operations, LoadDoomed(o) PROVE StepsFit'
  <2>1. Others(o)
    BY <1>4, OthersStay
  <2> QED
    BY <1>4, <2>1 DEF Others, LoadDoomed, Goto, Entangle
<1>5. ASSUME NEW o \in Operations, Insert(o) PROVE StepsFit'
  <2>1. Others(o)
    BY <1>5, OthersStay
  <2> QED
    BY <1>5, <2>1 DEF Others, Insert, Goto, Fault
<1>6. ASSUME NEW o \in Operations, Clear(o) PROVE StepsFit'
  <2>1. Others(o)
    BY <1>6, OthersStay
  <2> QED
    BY <1>6, <2>1 DEF Others, Clear, ClearActorTombstone, Goto, Fault
<1>7. ASSUME NEW o \in Operations, Created(o) PROVE StepsFit'
  <2>1. Others(o)
    BY <1>7, OthersStay
  <2> QED
    BY <1>7, <2>1 DEF Others, Created, WriteRows, Goto
<1>8. ASSUME NEW o \in Operations, Premark(o) PROVE StepsFit'
  <2>1. Others(o)
    BY <1>8, OthersStay
  <2> QED
    BY <1>8, <2>1 DEF Others, Premark, MarkActorDeleted, Goto, Fault
<1>9. ASSUME NEW o \in Operations, ActorDeletedHook(o) PROVE StepsFit'
  <2>1. Others(o)
    BY <1>9, OthersStay
  <2> QED
    BY <1>9, <2>1 DEF Others, ActorDeletedHook, Goto
<1>10. ASSUME NEW o \in Operations, Mark(o) PROVE StepsFit'
  <2>1. Others(o)
    BY <1>10, OthersStay
  <2> QED
    BY <1>10, <2>1 DEF Others, Mark, MarkActorDeleted, Goto, Fault
<1>11. ASSUME NEW o \in Operations, WipeStore(o) PROVE StepsFit'
  <2>1. Others(o)
    BY <1>11, OthersStay
  <2> QED
    BY <1>11, <2>1 DEF Others, WipeStore, Goto, After
<1>12. ASSUME NEW o \in Operations, WipeRow(o) PROVE StepsFit'
  <2>1. Others(o)
    BY <1>12, OthersStay
  <2> QED
    BY <1>12, <2>1 DEF Others, WipeRow, Goto, Fault
<1>13. ASSUME NEW o \in Operations, GetDeletionStatus(o) PROVE StepsFit'
  <2>1. Others(o)
    BY <1>13, OthersStay
  <2> QED
    BY <1>13, <2>1 DEF Others, GetDeletionStatus, Goto, Fault
<1>14. ASSUME NEW o \in Operations, Write(o) PROVE StepsFit'
  <2>1. Others(o)
    BY <1>14, OthersStay
  <2> QED
    BY <1>14, <2>1 DEF Others, Write, WriteRows, Goto
<1>15. ASSUME NEW o \in Operations, Die(o) PROVE StepsFit'
  <2>1. Others(o)
    BY <1>15, OthersStay
  <2> QED
    BY <1>15, <2>1 DEF Others, Die, Active, Goto, Fault
<1>16. CASE UNCHANGED vars
  BY <1>16 DEF vars, observed
<1> HIDE DEF IInv, TypeOK, StepsFit, Steps, Wipe, Stores, Active, observed
<1> QED
  BY <1>1, <1>2, <1>3, <1>4, <1>5, <1>6, <1>7, <1>8, <1>9, <1>10, <1>11,
     <1>12, <1>13, <1>14, <1>15, <1>16
  DEF Next

-----------------------------------------------------------------------------
\* The actor an operation wipes stays the same while it does.
LEMMA VictimNext ==
    ASSUME IInv, NEW o \in Operations
    PROVE  /\ \A i \in Ids : Delete(o, i) => Victim(o)' = i
           /\ LoadDoomed(o) /\ pc'[o] = "mark" => Victim(o)' = Victim(o)
           /\ Premark(o) \/ ActorDeletedHook(o) \/ Mark(o) \/ WipeStore(o)
                 => Victim(o)' = Victim(o)
<1>1. ASSUME NEW i \in Ids, Delete(o, i) PROVE Victim(o)' = i
  <2>1. kind'[o] = "delete" /\ id'[o] = i
    BY <1>1 DEF Delete, Begin, IInv, TypeOK
  <2> QED
    BY <2>1 DEF Victim
<1>2. ASSUME LoadDoomed(o), pc'[o] = "mark" PROVE Victim(o)' = Victim(o)
  <2>1. UNCHANGED <<kind, id, doomed>>
    BY <1>2 DEF LoadDoomed, Goto, IInv, TypeOK
  <2> QED
    BY <2>1, VictimStays
<1>3. ASSUME Premark(o) \/ ActorDeletedHook(o) \/ Mark(o) \/ WipeStore(o)
      PROVE  Victim(o)' = Victim(o)
  <2>1. UNCHANGED <<kind, id, doomed>>
    BY <1>3 DEF Premark, ActorDeletedHook, Mark, WipeStore
  <2> QED
    BY <2>1, VictimStays
<1> QED
  BY <1>1, <1>2, <1>3

\* Who wipes what, before and after a step of another operation.
LEMMA OthersWipe ==
    ASSUME NEW o \in Operations, Others(o)
    PROVE  \A p \in Operations \ {o} : \A i \in Ids : Wipes(p, i)' <=> Wipes(p, i)
  BY DEF Others, Wipes

\* An operation begins to wipe where it has found an actor, and ends with its
\* row.
LEMMA WipesNext ==
    ASSUME IInv, NEW o \in Operations, NEW j \in Ids
    PROVE  /\ \A i \in Ids : Delete(o, i) =>
                 ~Wipes(o, j) /\ (Wipes(o, j)' <=> j = i)
           /\ LoadDoomed(o) =>
                 ~Wipes(o, j) /\ (Wipes(o, j)' <=> pc'[o] = "mark" /\ Victim(o) = j)
           /\ WipeRow(o) => ~Wipes(o, j)' /\ (Wipes(o, j) <=> Victim(o) = j)
           /\ Die(o) => ~Wipes(o, j)'
           /\ Premark(o) \/ ActorDeletedHook(o) \/ Mark(o) \/ WipeStore(o)
                 => (Wipes(o, j)' <=> Wipes(o, j)) /\ (Wipes(o, j) <=> Victim(o) = j)
<1> USE DEF IInv, TypeOK, Wipes, Wipe, Stores
<1>1. ASSUME NEW i \in Ids, Delete(o, i)
      PROVE  ~Wipes(o, j) /\ (Wipes(o, j)' <=> j = i)
  BY <1>1, VictimNext DEF Delete, Begin, Goto
<1>2. ASSUME LoadDoomed(o)
      PROVE  ~Wipes(o, j) /\ (Wipes(o, j)' <=> pc'[o] = "mark" /\ Victim(o) = j)
  <2>1. pc[o] = "load" /\ pc'[o] \in {"load", "insert", "mark"}
    BY <1>2 DEF LoadDoomed, Goto
  <2> QED
    BY <1>2, <2>1, VictimNext
<1>3. ASSUME WipeRow(o)
      PROVE  ~Wipes(o, j)' /\ (Wipes(o, j) <=> Victim(o) = j)
  BY <1>3 DEF WipeRow, Goto
<1>4. ASSUME Die(o) PROVE ~Wipes(o, j)'
  BY <1>4 DEF Die, Goto
<1>5. ASSUME Premark(o) \/ ActorDeletedHook(o) \/ Mark(o) \/ WipeStore(o)
      PROVE  (Wipes(o, j)' <=> Wipes(o, j)) /\ (Wipes(o, j) <=> Victim(o) = j)
  <2>1. Victim(o)' = Victim(o)
    BY <1>5, VictimNext
  <2>2. /\ pc[o] \in Wipe \cup {"premark", "hook", "mark"}
        /\ pc'[o] \in Wipe \cup {"premark", "hook", "mark"}
    BY <1>5 DEF Premark, ActorDeletedHook, Mark, WipeStore, Goto, After
  <2> QED
    BY <2>1, <2>2 DEF Wipes
<1> QED
  BY <1>1, <1>2, <1>3, <1>4, <1>5

\* A step that neither begins nor ends a wipe.
LEMMA WipesAsBefore ==
    ASSUME IInv, NEW o \in Operations, NEW j \in Ids,
           \/ \E i \in Ids :
               \/ \E c \in Creators, delete \in BOOLEAN : Create(o, i, c, delete)
               \/ \E why \in BOOLEAN : Webhook(o, i, why)
           \/ Insert(o) \/ Clear(o) \/ Created(o)
           \/ GetDeletionStatus(o) \/ Write(o)
    PROVE  ~Wipes(o, j) /\ ~Wipes(o, j)'
<1>1. /\ pc[o] \in {"idle", "insert", "clear", "created", "status", "write"}
      /\ pc'[o] \in {"insert", "load", "clear", "created", "status", "write", "done"}
  BY DEF Create, Webhook, Insert, Clear, Created, GetDeletionStatus, Write,
     Begin,
         Goto, IInv, TypeOK
<1> QED
  BY <1>1 DEF Wipes, Wipe, Stores

\* The order of the wipe.
LEMMA WipedFirst == WipedBefore["properties"] = {} /\ WipedBefore["row"] = Stores
  BY DEF WipedBefore, Wipe, Stores

LEMMA WipedNext ==
    ASSUME NEW step \in Stores
    PROVE  After(step) \in Wipe /\ WipedBefore[After(step)] = WipedBefore[step] \cup {step}
<1>1. /\ WipedBefore["properties"] = {} /\ WipedBefore["subscriptions"] = {"properties"}
      /\ WipedBefore["trusts"] = {"properties", "subscriptions"}
      /\ WipedBefore["buckets"] = {"properties", "subscriptions", "trusts"}
      /\ WipedBefore["row"] = Stores
  BY DEF WipedBefore, Wipe, Stores
<1>2. /\ After("properties") = "subscriptions" /\ After("subscriptions") = "trusts"
      /\ After("trusts") = "buckets" /\ After("buckets") = "row"
  BY DEF After
<1> QED
  BY <1>1, <1>2 DEF Wipe, Stores

\* A life that begins during a wipe, or ends before it was counted, is seen.
LEMMA OverlapStep == IInv /\ [Next]_vars => OverlapIsSeen'
<1> SUFFICES ASSUME IInv, [Next]_vars PROVE OverlapIsSeen'
  OBVIOUS
<1>0. TypeOK /\ StepsFit /\ OverlapIsSeen
  BY DEF IInv
<1> USE DEF TypeOK, OverlapIsSeen, Wipe, Stores, observed
<1>1. ASSUME NEW o \in Operations, NEW i \in Ids, NEW c \in Creators,
             NEW delete \in BOOLEAN, Create(o, i, c, delete)
      PROVE  OverlapIsSeen'
  <2>1. Others(o)
    BY <1>1, OthersStay
  <2>2. \A p \in Operations \ {o} : \A j \in Ids : Wipes(p, j)' <=> Wipes(p, j)
    BY <2>1, OthersWipe
  <2>3. \A j \in Ids : ~Wipes(o, j) /\ ~Wipes(o, j)'
    BY <1>1, WipesAsBefore
  <2> QED
    BY <1>0, <1>1, <2>1, <2>2, <2>3 DEF Others, Create, Begin, Goto
<1>2. ASSUME NEW o \in Operations, NEW i \in Ids,
             Delete(o, i)
      PROVE  OverlapIsSeen'
  <2>1. Others(o)
    BY <1>2, OthersStay
  <2>2. \A p \in Operations \ {o} : \A j \in Ids : Wipes(p, j)' <=> Wipes(p, j)
    BY <2>1, OthersWipe
  <2>3. \A j \in Ids : ~Wipes(o, j) /\ (Wipes(o, j)' <=> j = i)
    BY <1>2, WipesNext
  <2> QED
    BY <1>0, <1>2, <2>1, <2>2, <2>3 DEF Others, Delete, Begin, Goto, Entangle
<1>3. ASSUME NEW o \in Operations, NEW i \in Ids, NEW why \in BOOLEAN,
             Webhook(o, i, why)
      PROVE  OverlapIsSeen'
  <2>1. Others(o)
    BY <1>3, OthersStay
  <2>2. \A p \in Operations \ {o} : \A j \in Ids : Wipes(p, j)' <=> Wipes(p, j)
    BY <2>1, OthersWipe
  <2>3. \A j \in Ids : ~Wipes(o, j) /\ ~Wipes(o, j)'
    BY <1>3, WipesAsBefore
  <2> QED
    BY <1>0, <1>3, <2>1, <2>2, <2>3 DEF Others, Webhook, Begin, Goto
<1>4. ASSUME NEW o \in Operations, LoadDoomed(o) PROVE OverlapIsSeen'
  <2>1. Others(o)
    BY <1>4, OthersStay
  <2>2. \A p \in Operations \ {o} : \A j \in Ids : Wipes(p, j)' <=> Wipes(p, j)
    BY <2>1, OthersWipe
  <2>3. \A j \in Ids :
          ~Wipes(o, j) /\ (Wipes(o, j)' <=> pc'[o] = "mark" /\ Victim(o) = j)
    BY <1>4, WipesNext
  <2> QED
    BY <1>0, <1>4, <2>1, <2>2, <2>3 DEF Others, LoadDoomed, Goto, Entangle
<1>5. ASSUME NEW o \in Operations, Insert(o) PROVE OverlapIsSeen'
  <2>1. Others(o)
    BY <1>5, OthersStay
  <2>2. \A p \in Operations \ {o} : \A j \in Ids : Wipes(p, j)' <=> Wipes(p, j)
    BY <2>1, OthersWipe
  <2>3. \A j \in Ids : ~Wipes(o, j) /\ ~Wipes(o, j)'
    BY <1>5, WipesAsBefore
  <2>4. id[o] \in Ids
    BY <1>0, <1>5 DEF Insert, StepsFit, Active
  <2> QED
    BY <1>0, <1>5, <2>1, <2>2, <2>3, <2>4 DEF Others, Insert, Goto, Fault
<1>6. ASSUME NEW o \in Operations, Clear(o) PROVE OverlapIsSeen'
  <2>1. Others(o)
    BY <1>6, OthersStay
  <2>2. \A p \in Operations \ {o} : \A j \in Ids : Wipes(p, j)' <=> Wipes(p, j)
    BY <2>1, OthersWipe
  <2>3. \A j \in Ids : ~Wipes(o, j) /\ ~Wipes(o, j)'
    BY <1>6, WipesAsBefore
  <2>4. id[o] \in Ids
    BY <1>0, <1>6 DEF Clear, StepsFit, Active
  <2> QED
    BY <1>0, <1>6, <2>1, <2>2, <2>3, <2>4 DEF Others, Clear,
       ClearActorTombstone, Goto, Fault
<1>7. ASSUME NEW o \in Operations, Created(o) PROVE OverlapIsSeen'
  <2>1. Others(o)
    BY <1>7, OthersStay
  <2>2. \A p \in Operations \ {o} : \A j \in Ids : Wipes(p, j)' <=> Wipes(p, j)
    BY <2>1, OthersWipe
  <2>3. \A j \in Ids : ~Wipes(o, j) /\ ~Wipes(o, j)'
    BY <1>7, WipesAsBefore
  <2>4. id[o] \in Ids
    BY <1>0, <1>7 DEF Created, StepsFit, Active
  <2> QED
    BY <1>0, <1>7, <2>1, <2>2, <2>3, <2>4 DEF Others, Created, WriteRows, Goto
<1>8. ASSUME NEW o \in Operations, Premark(o) PROVE OverlapIsSeen'
  <2>1. Others(o)
    BY <1>8, OthersStay
  <2>2. \A p \in Operations \ {o} : \A j \in Ids : Wipes(p, j)' <=> Wipes(p, j)
    BY <2>1, OthersWipe
  <2>3. \A j \in Ids :
          (Wipes(o, j)' <=> Wipes(o, j)) /\ (Wipes(o, j) <=> Victim(o) = j)
    BY <1>8, WipesNext
  <2>4. Victim(o) \in Ids
    BY <1>0, <1>8, VictimIsDoomed DEF Premark, StepsFit, Active
  <2> QED
    BY <1>0, <1>8, <2>1, <2>2, <2>3, <2>4 DEF Others, Premark,
       MarkActorDeleted, Goto, Fault
<1>9. ASSUME NEW o \in Operations, ActorDeletedHook(o) PROVE OverlapIsSeen'
  <2>1. Others(o)
    BY <1>9, OthersStay
  <2>2. \A p \in Operations \ {o} : \A j \in Ids : Wipes(p, j)' <=> Wipes(p, j)
    BY <2>1, OthersWipe
  <2>3. \A j \in Ids :
          (Wipes(o, j)' <=> Wipes(o, j)) /\ (Wipes(o, j) <=> Victim(o) = j)
    BY <1>9, WipesNext
  <2>4. Victim(o) \in Ids
    BY <1>0, <1>9, VictimIsDoomed DEF ActorDeletedHook, StepsFit, Active
  <2> QED
    BY <1>0, <1>9, <2>1, <2>2, <2>3, <2>4 DEF Others, ActorDeletedHook, Goto
<1>10. ASSUME NEW o \in Operations, Mark(o) PROVE OverlapIsSeen'
  <2>1. Others(o)
    BY <1>10, OthersStay
  <2>2. \A p \in Operations \ {o} : \A j \in Ids : Wipes(p, j)' <=> Wipes(p, j)
    BY <2>1, OthersWipe
  <2>3. \A j \in Ids :
          (Wipes(o, j)' <=> Wipes(o, j)) /\ (Wipes(o, j) <=> Victim(o) = j)
    BY <1>10, WipesNext
  <2>4. Victim(o) \in Ids
    BY <1>0, <1>10, VictimIsDoomed DEF Mark, StepsFit, Active
  <2> QED
    BY <1>0, <1>10, <2>1, <2>2, <2>3, <2>4 DEF Others, Mark,
       MarkActorDeleted, Goto, Fault
<1>11. ASSUME NEW o \in Operations, WipeStore(o) PROVE OverlapIsSeen'
  <2>1. Others(o)
    BY <1>11, OthersStay
  <2>2. \A p \in Operations \ {o} : \A j \in Ids : Wipes(p, j)' <=> Wipes(p, j)
    BY <2>1, OthersWipe
  <2>3. \A j \in Ids :
          (Wipes(o, j)' <=> Wipes(o, j)) /\ (Wipes(o, j) <=> Victim(o) = j)
    BY <1>11, WipesNext
  <2>4. Victim(o) \in Ids
    BY <1>0, <1>11, VictimIsDoomed DEF WipeStore, StepsFit, Active
  <2> QED
    BY <1>0, <1>11, <2>1, <2>2, <2>3, <2>4 DEF Others, WipeStore, Goto, After
<1>12. ASSUME NEW o \in Operations, WipeRow(o) PROVE OverlapIsSeen'
  <2>1. Others(o)
    BY <1>12, OthersStay
  <2>2. \A p \in Operations \ {o} : \A j \in Ids : Wipes(p, j)' <=> Wipes(p, j)
    BY <2>1, OthersWipe
  <2>3. \A j \in Ids : ~Wipes(o, j)' /\ (Wipes(o, j) <=> Victim(o) = j)
    BY <1>12, WipesNext
  <2>4. Victim(o) \in Ids
    BY <1>0, <1>12, VictimIsDoomed DEF WipeRow, StepsFit, Active
  <2> QED
    BY <1>0, <1>12, <2>1, <2>2, <2>3, <2>4 DEF Others, WipeRow, Goto, Fault
<1>13. ASSUME NEW o \in Operations, GetDeletionStatus(o) PROVE OverlapIsSeen'
  <2>1. Others(o)
    BY <1>13, OthersStay
  <2>2. \A p \in Operations \ {o} : \A j \in Ids : Wipes(p, j)' <=> Wipes(p, j)
    BY <2>1, OthersWipe
  <2>3. \A j \in Ids : ~Wipes(o, j) /\ ~Wipes(o, j)'
    BY <1>13, WipesAsBefore
  <2>4. id[o] \in Ids
    BY <1>0, <1>13 DEF GetDeletionStatus, StepsFit, Active
  <2> QED
    BY <1>0, <1>13, <2>1, <2>2, <2>3, <2>4 DEF Others, GetDeletionStatus,
       Goto, Fault
<1>14. ASSUME NEW o \in Operations, Write(o) PROVE OverlapIsSeen'
  <2>1. Others(o)
    BY <1>14, OthersStay
  <2>2. \A p \in Operations \ {o} : \A j \in Ids : Wipes(p, j)' <=> Wipes(p, j)
    BY <2>1, OthersWipe
  <2>3. \A j \in Ids : ~Wipes(o, j) /\ ~Wipes(o, j)'
    BY <1>14, WipesAsBefore
  <2>4. id[o] \in Ids
    BY <1>0, <1>14 DEF Write, StepsFit, Active
  <2> QED
    BY <1>0, <1>14, <2>1, <2>2, <2>3, <2>4 DEF Others, Write, WriteRows, Goto
<1>15. ASSUME NEW o \in Operations, Die(o) PROVE OverlapIsSeen'
  <2>1. Others(o)
    BY <1>15, OthersStay
  <2>2. \A p \in Operations \ {o} : \A j \in Ids : Wipes(p, j)' <=> Wipes(p, j)
    BY <2>1, OthersWipe
  <2>3. \A j \in Ids : ~Wipes(o, j)'
    BY <1>15, WipesNext
  <2> QED
    BY <1>0, <1>15, <2>1, <2>2, <2>3 DEF Others, Die, Active, Goto, Fault
<1>16. CASE UNCHANGED vars
  <2>1. \A p \in Operations : Victim(p)' = Victim(p)
    BY <1>16, VictimStays DEF vars
  <2> QED
    BY <1>0, <1>16, <2>1 DEF vars, Wipes
<1> HIDE DEF TypeOK, OverlapIsSeen, Wipe, Stores, observed
<1> QED
  BY <1>1, <1>2, <1>3, <1>4, <1>5, <1>6, <1>7, <1>8, <1>9, <1>10, <1>11,
     <1>12, <1>13, <1>14, <1>15, <1>16
  DEF Next

\* A tombstone is not taken away during a wipe without notice.
LEMMA MarkStep == IInv /\ [Next]_vars => MarkIsKept'
<1> SUFFICES ASSUME IInv, [Next]_vars PROVE MarkIsKept'
  OBVIOUS
<1>0. TypeOK /\ StepsFit /\ OverlapIsSeen /\ MarkIsKept
  BY DEF IInv
<1> USE DEF TypeOK, OverlapIsSeen, MarkIsKept, Wipe, Stores, observed
<1>1. ASSUME NEW o \in Operations, NEW i \in Ids, NEW c \in Creators,
             NEW delete \in BOOLEAN, Create(o, i, c, delete)
      PROVE  MarkIsKept'
  <2>1. Others(o)
    BY <1>1, OthersStay
  <2>2. \A p \in Operations \ {o} : \A j \in Ids : Wipes(p, j)' <=> Wipes(p, j)
    BY <2>1, OthersWipe
  <2>3. \A j \in Ids : ~Wipes(o, j) /\ ~Wipes(o, j)'
    BY <1>1, WipesAsBefore
  <2> QED
    BY <1>0, <1>1, <2>1, <2>2, <2>3 DEF Others, Create, Begin, Goto
<1>2. ASSUME NEW o \in Operations, NEW i \in Ids,
             Delete(o, i)
      PROVE  MarkIsKept'
  <2>1. Others(o)
    BY <1>2, OthersStay
  <2>2. \A p \in Operations \ {o} : \A j \in Ids : Wipes(p, j)' <=> Wipes(p, j)
    BY <2>1, OthersWipe
  <2>3. \A j \in Ids : ~Wipes(o, j) /\ (Wipes(o, j)' <=> j = i)
    BY <1>2, WipesNext
  <2> QED
    BY <1>0, <1>2, <2>1, <2>2, <2>3 DEF Others, Delete, Begin, Goto, Entangle
<1>3. ASSUME NEW o \in Operations, NEW i \in Ids, NEW why \in BOOLEAN,
             Webhook(o, i, why)
      PROVE  MarkIsKept'
  <2>1. Others(o)
    BY <1>3, OthersStay
  <2>2. \A p \in Operations \ {o} : \A j \in Ids : Wipes(p, j)' <=> Wipes(p, j)
    BY <2>1, OthersWipe
  <2>3. \A j \in Ids : ~Wipes(o, j) /\ ~Wipes(o, j)'
    BY <1>3, WipesAsBefore
  <2> QED
    BY <1>0, <1>3, <2>1, <2>2, <2>3 DEF Others, Webhook, Begin, Goto
<1>4. ASSUME NEW o \in Operations, LoadDoomed(o) PROVE MarkIsKept'
  <2>1. Others(o)
    BY <1>4, OthersStay
  <2>2. \A p \in Operations \ {o} : \A j \in Ids : Wipes(p, j)' <=> Wipes(p, j)
    BY <2>1, OthersWipe
  <2>3. \A j \in Ids :
          ~Wipes(o, j) /\ (Wipes(o, j)' <=> pc'[o] = "mark" /\ Victim(o) = j)
    BY <1>4, WipesNext
  <2> QED
    BY <1>0, <1>4, <2>1, <2>2, <2>3 DEF Others, LoadDoomed, Goto, Entangle
<1>5. ASSUME NEW o \in Operations, Insert(o) PROVE MarkIsKept'
  <2>1. Others(o)
    BY <1>5, OthersStay
  <2>2. \A p \in Operations \ {o} : \A j \in Ids : Wipes(p, j)' <=> Wipes(p, j)
    BY <2>1, OthersWipe
  <2>3. \A j \in Ids : ~Wipes(o, j) /\ ~Wipes(o, j)'
    BY <1>5, WipesAsBefore
  <2>4. id[o] \in Ids
    BY <1>0, <1>5 DEF Insert, StepsFit, Active
  <2> QED
    BY <1>0, <1>5, <2>1, <2>2, <2>3, <2>4 DEF Others, Insert, Goto, Fault
<1>6. ASSUME NEW o \in Operations, Clear(o) PROVE MarkIsKept'
  <2>1. Others(o)
    BY <1>6, OthersStay
  <2>2. \A p \in Operations \ {o} : \A j \in Ids : Wipes(p, j)' <=> Wipes(p, j)
    BY <2>1, OthersWipe
  <2>3. \A j \in Ids : ~Wipes(o, j) /\ ~Wipes(o, j)'
    BY <1>6, WipesAsBefore
  <2>4. id[o] \in Ids
    BY <1>0, <1>6 DEF Clear, StepsFit, Active
  <2> QED
    BY <1>0, <1>6, <2>1, <2>2, <2>3, <2>4 DEF Others, Clear,
       ClearActorTombstone, Goto, Fault
<1>7. ASSUME NEW o \in Operations, Created(o) PROVE MarkIsKept'
  <2>1. Others(o)
    BY <1>7, OthersStay
  <2>2. \A p \in Operations \ {o} : \A j \in Ids : Wipes(p, j)' <=> Wipes(p, j)
    BY <2>1, OthersWipe
  <2>3. \A j \in Ids : ~Wipes(o, j) /\ ~Wipes(o, j)'
    BY <1>7, WipesAsBefore
  <2>4. id[o] \in Ids
    BY <1>0, <1>7 DEF Created, StepsFit, Active
  <2> QED
    BY <1>0, <1>7, <2>1, <2>2, <2>3, <2>4 DEF Others, Created, WriteRows, Goto
<1>8. ASSUME NEW o \in Operations, Premark(o) PROVE MarkIsKept'
  <2>1. Others(o)
    BY <1>8, OthersStay
  <2>2. \A p \in Operations \ {o} : \A j \in Ids : Wipes(p, j)' <=> Wipes(p, j)
    BY <2>1, OthersWipe
  <2>3. \A j \in Ids :
          (Wipes(o, j)' <=> Wipes(o, j)) /\ (Wipes(o, j) <=> Victim(o) = j)
    BY <1>8, WipesNext
  <2>4. Victim(o) \in Ids
    BY <1>0, <1>8, VictimIsDoomed DEF Premark, StepsFit, Active
  <2>5. Victim(o) = id[o]
    BY <1>0, <1>8, VictimIsDoomed DEF Premark, StepsFit
  <2> QED
    BY <1>0, <1>8, <2>1, <2>2, <2>3, <2>4, <2>5 DEF Others, Premark,
       MarkActorDeleted, Goto, Fault
<1>9. ASSUME NEW o \in Operations, ActorDeletedHook(o) PROVE MarkIsKept'
  <2>1. Others(o)
    BY <1>9, OthersStay
  <2>2. \A p \in Operations \ {o} : \A j \in Ids : Wipes(p, j)' <=> Wipes(p, j)
    BY <2>1, OthersWipe
  <2>3. \A j \in Ids :
          (Wipes(o, j)' <=> Wipes(o, j)) /\ (Wipes(o, j) <=> Victim(o) = j)
    BY <1>9, WipesNext
  <2>4. Victim(o) \in Ids
    BY <1>0, <1>9, VictimIsDoomed DEF ActorDeletedHook, StepsFit, Active
  <2> QED
    BY <1>0, <1>9, <2>1, <2>2, <2>3, <2>4 DEF Others, ActorDeletedHook, Goto
<1>10. ASSUME NEW o \in Operations, Mark(o) PROVE MarkIsKept'
  <2>1. Others(o)
    BY <1>10, OthersStay
  <2>2. \A p \in Operations \ {o} : \A j \in Ids : Wipes(p, j)' <=> Wipes(p, j)
    BY <2>1, OthersWipe
  <2>3. \A j \in Ids :
          (Wipes(o, j)' <=> Wipes(o, j)) /\ (Wipes(o, j) <=> Victim(o) = j)
    BY <1>10, WipesNext
  <2>4. Victim(o) \in Ids
    BY <1>0, <1>10, VictimIsDoomed DEF Mark, StepsFit, Active
  <2> QED
    BY <1>0, <1>10, <2>1, <2>2, <2>3, <2>4 DEF Others, Mark,
       MarkActorDeleted, Goto, Fault
<1>11. ASSUME NEW o \in Operations, WipeStore(o) PROVE MarkIsKept'
  <2>1. Others(o)
    BY <1>11, OthersStay
  <2>2. \A p \in Operations \ {o} : \A j \in Ids : Wipes(p, j)' <=> Wipes(p, j)
    BY <2>1, OthersWipe
  <2>3. \A j \in Ids :
          (Wipes(o, j)' <=> Wipes(o, j)) /\ (Wipes(o, j) <=> Victim(o) = j)
    BY <1>11, WipesNext
  <2>4. Victim(o) \in Ids
    BY <1>0, <1>11, VictimIsDoomed DEF WipeStore, StepsFit, Active
  <2> QED
    BY <1>0, <1>11, <2>1, <2>2, <2>3, <2>4 DEF Others, WipeStore, Goto, After
<1>12. ASSUME NEW o \in Operations, WipeRow(o) PROVE MarkIsKept'
  <2>1. Others(o)
    BY <1>12, OthersStay
  <2>2. \A p \in Operations \ {o} : \A j \in Ids : Wipes(p, j)' <=> Wipes(p, j)
    BY <2>1, OthersWipe
  <2>3. \A j \in Ids : ~Wipes(o, j)' /\ (Wipes(o, j) <=> Victim(o) = j)
    BY <1>12, WipesNext
  <2>4. Victim(o) \in Ids
    BY <1>0, <1>12, VictimIsDoomed DEF WipeRow, StepsFit, Active
  <2> QED
    BY <1>0, <1>12, <2>1, <2>2, <2>3, <2>4 DEF Others, WipeRow, Goto, Fault
<1>13. ASSUME NEW o \in Operations, GetDeletionStatus(o) PROVE MarkIsKept'
  <2>1. Others(o)
    BY <1>13, OthersStay
  <2>2. \A p \in Operations \ {o} : \A j \in Ids : Wipes(p, j)' <=> Wipes(p, j)
    BY <2>1, OthersWipe
  <2>3. \A j \in Ids : ~Wipes(o, j) /\ ~Wipes(o, j)'
    BY <1>13, WipesAsBefore
  <2>4. id[o] \in Ids
    BY <1>0, <1>13 DEF GetDeletionStatus, StepsFit, Active
  <2> QED
    BY <1>0, <1>13, <2>1, <2>2, <2>3, <2>4 DEF Others, GetDeletionStatus,
       Goto, Fault
<1>14. ASSUME NEW o \in Operations, Write(o) PROVE MarkIsKept'
  <2>1. Others(o)
    BY <1>14, OthersStay
  <2>2. \A p \in Operations \ {o} : \A j \in Ids : Wipes(p, j)' <=> Wipes(p, j)
    BY <2>1, OthersWipe
  <2>3. \A j \in Ids : ~Wipes(o, j) /\ ~Wipes(o, j)'
    BY <1>14, WipesAsBefore
  <2>4. id[o] \in Ids
    BY <1>0, <1>14 DEF Write, StepsFit, Active
  <2> QED
    BY <1>0, <1>14, <2>1, <2>2, <2>3, <2>4 DEF Others, Write, WriteRows, Goto
<1>15. ASSUME NEW o \in Operations, Die(o) PROVE MarkIsKept'
  <2>1. Others(o)
    BY <1>15, OthersStay
  <2>2. \A p \in Operations \ {o} : \A j \in Ids : Wipes(p, j)' <=> Wipes(p, j)
    BY <2>1, OthersWipe
  <2>3. \A j \in Ids : ~Wipes(o, j)'
    BY <1>15, WipesNext
  <2> QED
    BY <1>0, <1>15, <2>1, <2>2, <2>3 DEF Others, Die, Active, Goto, Fault
<1>16. CASE UNCHANGED vars
  <2>1. \A p \in Operations : Victim(p)' = Victim(p)
    BY <1>16, VictimStays DEF vars
  <2> QED
    BY <1>0, <1>16, <2>1 DEF vars, Wipes
<1> HIDE DEF TypeOK, OverlapIsSeen, MarkIsKept, Wipe, Stores, observed
<1> QED
  BY <1>1, <1>2, <1>3, <1>4, <1>5, <1>6, <1>7, <1>8, <1>9, <1>10, <1>11,
     <1>12, <1>13, <1>14, <1>15, <1>16
  DEF Next

\* A tombstone that meets a live actor is on its way.
LEMMA WorkedOnStep == IInv /\ [Next]_vars => MarkedIsWorkedOn'
<1> SUFFICES ASSUME IInv, [Next]_vars PROVE MarkedIsWorkedOn'
  OBVIOUS
<1>0. TypeOK /\ StepsFit /\ MarkedIsWorkedOn
  BY DEF IInv
<1> USE DEF TypeOK, MarkedIsWorkedOn, Wipe, Stores, observed
<1>1. ASSUME NEW o \in Operations, NEW i \in Ids, NEW c \in Creators,
             NEW delete \in BOOLEAN, Create(o, i, c, delete)
      PROVE  MarkedIsWorkedOn'
  <2>1. Others(o)
    BY <1>1, OthersStay
  <2>2. \A p \in Operations \ {o} : \A j \in Ids : Wipes(p, j)' <=> Wipes(p, j)
    BY <2>1, OthersWipe
  <2>3. \A j \in Ids : ~Wipes(o, j) /\ ~Wipes(o, j)'
    BY <1>1, WipesAsBefore
  <2> QED
    BY <1>0, <1>1, <2>1, <2>2, <2>3 DEF Others, Create, Begin, Goto
<1>2. ASSUME NEW o \in Operations, NEW i \in Ids,
             Delete(o, i)
      PROVE  MarkedIsWorkedOn'
  <2>1. Others(o)
    BY <1>2, OthersStay
  <2>2. \A p \in Operations \ {o} : \A j \in Ids : Wipes(p, j)' <=> Wipes(p, j)
    BY <2>1, OthersWipe
  <2>3. \A j \in Ids : ~Wipes(o, j) /\ (Wipes(o, j)' <=> j = i)
    BY <1>2, WipesNext
  <2> QED
    BY <1>0, <1>2, <2>1, <2>2, <2>3 DEF Others, Delete, Begin, Goto, Entangle
<1>3. ASSUME NEW o \in Operations, NEW i \in Ids, NEW why \in BOOLEAN,
             Webhook(o, i, why)
      PROVE  MarkedIsWorkedOn'
  <2>1. Others(o)
    BY <1>3, OthersStay
  <2>2. \A p \in Operations \ {o} : \A j \in Ids : Wipes(p, j)' <=> Wipes(p, j)
    BY <2>1, OthersWipe
  <2>3. \A j \in Ids : ~Wipes(o, j) /\ ~Wipes(o, j)'
    BY <1>3, WipesAsBefore
  <2> QED
    BY <1>0, <1>3, <2>1, <2>2, <2>3 DEF Others, Webhook, Begin, Goto
<1>4. ASSUME NEW o \in Operations, LoadDoomed(o) PROVE MarkedIsWorkedOn'
  <2>1. Others(o)
    BY <1>4, OthersStay
  <2>2. \A p \in Operations \ {o} : \A j \in Ids : Wipes(p, j)' <=> Wipes(p, j)
    BY <2>1, OthersWipe
  <2>3. \A j \in Ids :
          ~Wipes(o, j) /\ (Wipes(o, j)' <=> pc'[o] = "mark" /\ Victim(o) = j)
    BY <1>4, WipesNext
  <2> QED
    BY <1>0, <1>4, <2>1, <2>2, <2>3 DEF Others, LoadDoomed, Goto, Entangle
<1>5. ASSUME NEW o \in Operations, Insert(o) PROVE MarkedIsWorkedOn'
  <2>1. Others(o)
    BY <1>5, OthersStay
  <2>2. \A p \in Operations \ {o} : \A j \in Ids : Wipes(p, j)' <=> Wipes(p, j)
    BY <2>1, OthersWipe
  <2>3. \A j \in Ids : ~Wipes(o, j) /\ ~Wipes(o, j)'
    BY <1>5, WipesAsBefore
  <2>4. id[o] \in Ids
    BY <1>0, <1>5 DEF Insert, StepsFit, Active
  <2> QED
    BY <1>0, <1>5, <2>1, <2>2, <2>3, <2>4 DEF Others, Insert, Goto, Fault
<1>6. ASSUME NEW o \in Operations, Clear(o) PROVE MarkedIsWorkedOn'
  <2>1. Others(o)
    BY <1>6, OthersStay
  <2>2. \A p \in Operations \ {o} : \A j \in Ids : Wipes(p, j)' <=> Wipes(p, j)
    BY <2>1, OthersWipe
  <2>3. \A j \in Ids : ~Wipes(o, j) /\ ~Wipes(o, j)'
    BY <1>6, WipesAsBefore
  <2>4. id[o] \in Ids
    BY <1>0, <1>6 DEF Clear, StepsFit, Active
  <2> QED
    BY <1>0, <1>6, <2>1, <2>2, <2>3, <2>4 DEF Others, Clear,
       ClearActorTombstone, Goto, Fault
<1>7. ASSUME NEW o \in Operations, Created(o) PROVE MarkedIsWorkedOn'
  <2>1. Others(o)
    BY <1>7, OthersStay
  <2>2. \A p \in Operations \ {o} : \A j \in Ids : Wipes(p, j)' <=> Wipes(p, j)
    BY <2>1, OthersWipe
  <2>3. \A j \in Ids : ~Wipes(o, j) /\ ~Wipes(o, j)'
    BY <1>7, WipesAsBefore
  <2>4. id[o] \in Ids
    BY <1>0, <1>7 DEF Created, StepsFit, Active
  <2> QED
    BY <1>0, <1>7, <2>1, <2>2, <2>3, <2>4 DEF Others, Created, WriteRows, Goto
<1>8. ASSUME NEW o \in Operations, Premark(o) PROVE MarkedIsWorkedOn'
  <2>1. Others(o)
    BY <1>8, OthersStay
  <2>2. \A p \in Operations \ {o} : \A j \in Ids : Wipes(p, j)' <=> Wipes(p, j)
    BY <2>1, OthersWipe
  <2>3. \A j \in Ids :
          (Wipes(o, j)' <=> Wipes(o, j)) /\ (Wipes(o, j) <=> Victim(o) = j)
    BY <1>8, WipesNext
  <2>4. Victim(o) \in Ids
    BY <1>0, <1>8, VictimIsDoomed DEF Premark, StepsFit, Active
  <2>5. Victim(o) = id[o]
    BY <1>0, <1>8, VictimIsDoomed DEF Premark, StepsFit
  <2> QED
    BY <1>0, <1>8, <2>1, <2>2, <2>3, <2>4, <2>5 DEF Others, Premark,
       MarkActorDeleted, Goto, Fault
<1>9. ASSUME NEW o \in Operations, ActorDeletedHook(o) PROVE MarkedIsWorkedOn'
  <2>1. Others(o)
    BY <1>9, OthersStay
  <2>2. \A p \in Operations \ {o} : \A j \in Ids : Wipes(p, j)' <=> Wipes(p, j)
    BY <2>1, OthersWipe
  <2>3. \A j \in Ids :
          (Wipes(o, j)' <=> Wipes(o, j)) /\ (Wipes(o, j) <=> Victim(o) = j)
    BY <1>9, WipesNext
  <2>4. Victim(o) \in Ids
    BY <1>0, <1>9, VictimIsDoomed DEF ActorDeletedHook, StepsFit, Active
  <2> QED
    BY <1>0, <1>9, <2>1, <2>2, <2>3, <2>4 DEF Others, ActorDeletedHook, Goto
<1>10. ASSUME NEW o \in Operations, Mark(o) PROVE MarkedIsWorkedOn'
  <2>1. Others(o)
    BY <1>10, OthersStay
  <2>2. \A p \in Operations \ {o} : \A j \in Ids : Wipes(p, j)' <=> Wipes(p, j)
    BY <2>1, OthersWipe
  <2>3. \A j \in Ids :
          (Wipes(o, j)' <=> Wipes(o, j)) /\ (Wipes(o, j) <=> Victim(o) = j)
    BY <1>10, WipesNext
  <2>4. Victim(o) \in Ids
    BY <1>0, <1>10, VictimIsDoomed DEF Mark, StepsFit, Active
  <2> QED
    BY <1>0, <1>10, <2>1, <2>2, <2>3, <2>4 DEF Others, Mark,
       MarkActorDeleted, Goto, Fault
<1>11. ASSUME NEW o \in Operations, WipeStore(o) PROVE MarkedIsWorkedOn'
  <2>1. Others(o)
    BY <1>11, OthersStay
  <2>2. \A p \in Operations \ {o} : \A j \in Ids : Wipes(p, j)' <=> Wipes(p, j)
    BY <2>1, OthersWipe
  <2>3. \A j \in Ids :
          (Wipes(o, j)' <=> Wipes(o, j)) /\ (Wipes(o, j) <=> Victim(o) = j)
    BY <1>11, WipesNext
  <2>4. Victim(o) \in Ids
    BY <1>0, <1>11, VictimIsDoomed DEF WipeStore, StepsFit, Active
  <2> QED
    BY <1>0, <1>11, <2>1, <2>2, <2>3, <2>4 DEF Others, WipeStore, Goto, After
<1>12. ASSUME NEW o \in Operations, WipeRow(o) PROVE MarkedIsWorkedOn'
  <2>1. Others(o)
    BY <1>12, OthersStay
  <2>2. \A p \in Operations \ {o} : \A j \in Ids : Wipes(p, j)' <=> Wipes(p, j)
    BY <2>1, OthersWipe
  <2>3. \A j \in Ids : ~Wipes(o, j)' /\ (Wipes(o, j) <=> Victim(o) = j)
    BY <1>12, WipesNext
  <2>4. Victim(o) \in Ids
    BY <1>0, <1>12, VictimIsDoomed DEF WipeRow, StepsFit, Active
  <2> QED
    BY <1>0, <1>12, <2>1, <2>2, <2>3, <2>4 DEF Others, WipeRow, Goto, Fault
<1>13. ASSUME NEW o \in Operations, GetDeletionStatus(o)
      PROVE  MarkedIsWorkedOn'
  <2>1. Others(o)
    BY <1>13, OthersStay
  <2>2. \A p \in Operations \ {o} : \A j \in Ids : Wipes(p, j)' <=> Wipes(p, j)
    BY <2>1, OthersWipe
  <2>3. \A j \in Ids : ~Wipes(o, j) /\ ~Wipes(o, j)'
    BY <1>13, WipesAsBefore
  <2>4. id[o] \in Ids
    BY <1>0, <1>13 DEF GetDeletionStatus, StepsFit, Active
  <2> QED
    BY <1>0, <1>13, <2>1, <2>2, <2>3, <2>4 DEF Others, GetDeletionStatus,
       Goto, Fault
<1>14. ASSUME NEW o \in Operations, Write(o) PROVE MarkedIsWorkedOn'
  <2>1. Others(o)
    BY <1>14, OthersStay
  <2>2. \A p \in Operations \ {o} : \A j \in Ids : Wipes(p, j)' <=> Wipes(p, j)
    BY <2>1, OthersWipe
  <2>3. \A j \in Ids : ~Wipes(o, j) /\ ~Wipes(o, j)'
    BY <1>14, WipesAsBefore
  <2>4. id[o] \in Ids
    BY <1>0, <1>14 DEF Write, StepsFit, Active
  <2> QED
    BY <1>0, <1>14, <2>1, <2>2, <2>3, <2>4 DEF Others, Write, WriteRows, Goto
<1>15. ASSUME NEW o \in Operations, Die(o) PROVE MarkedIsWorkedOn'
  <2>1. Others(o)
    BY <1>15, OthersStay
  <2>2. \A p \in Operations \ {o} : \A j \in Ids : Wipes(p, j)' <=> Wipes(p, j)
    BY <2>1, OthersWipe
  <2>3. \A j \in Ids : ~Wipes(o, j)'
    BY <1>15, WipesNext
  <2> QED
    BY <1>0, <1>15, <2>1, <2>2, <2>3 DEF Others, Die, Active, Goto, Fault
<1>16. CASE UNCHANGED vars
  <2>1. \A p \in Operations : Victim(p)' = Victim(p)
    BY <1>16, VictimStays DEF vars
  <2> QED
    BY <1>0, <1>16, <2>1 DEF vars, Wipes
<1> HIDE DEF TypeOK, MarkedIsWorkedOn, Wipe, Stores, observed
<1> QED
  BY <1>1, <1>2, <1>3, <1>4, <1>5, <1>6, <1>7, <1>8, <1>9, <1>10, <1>11,
     <1>12, <1>13, <1>14, <1>15, <1>16
  DEF Next

\* A new row is not deleted before its tombstone is cleared, without notice.
LEMMA NewRowStep == IInv /\ [Next]_vars => NewHasRow'
<1> SUFFICES ASSUME IInv, [Next]_vars PROVE NewHasRow'
  OBVIOUS
<1>0. TypeOK /\ StepsFit /\ OverlapIsSeen /\ NewHasRow
  BY DEF IInv
<1> USE DEF TypeOK, OverlapIsSeen, NewHasRow, Wipe, Stores, observed
<1>1. ASSUME NEW o \in Operations, NEW i \in Ids, NEW c \in Creators,
             NEW delete \in BOOLEAN, Create(o, i, c, delete)
      PROVE  NewHasRow'
  <2>1. Others(o)
    BY <1>1, OthersStay
  <2>2. \A p \in Operations \ {o} : \A j \in Ids : Wipes(p, j)' <=> Wipes(p, j)
    BY <2>1, OthersWipe
  <2>3. \A j \in Ids : ~Wipes(o, j) /\ ~Wipes(o, j)'
    BY <1>1, WipesAsBefore
  <2> QED
    BY <1>0, <1>1, <2>1, <2>2, <2>3 DEF Others, Create, Begin, Goto
<1>2. ASSUME NEW o \in Operations, NEW i \in Ids, Delete(o, i) PROVE NewHasRow'
  <2>1. Others(o)
    BY <1>2, OthersStay
  <2>2. \A p \in Operations \ {o} : \A j \in Ids : Wipes(p, j)' <=> Wipes(p, j)
    BY <2>1, OthersWipe
  <2>3. \A j \in Ids : ~Wipes(o, j) /\ (Wipes(o, j)' <=> j = i)
    BY <1>2, WipesNext
  <2> QED
    BY <1>0, <1>2, <2>1, <2>2, <2>3 DEF Others, Delete, Begin, Goto, Entangle
<1>3. ASSUME NEW o \in Operations, NEW i \in Ids, NEW why \in BOOLEAN,
             Webhook(o, i, why)
      PROVE  NewHasRow'
  <2>1. Others(o)
    BY <1>3, OthersStay
  <2>2. \A p \in Operations \ {o} : \A j \in Ids : Wipes(p, j)' <=> Wipes(p, j)
    BY <2>1, OthersWipe
  <2>3. \A j \in Ids : ~Wipes(o, j) /\ ~Wipes(o, j)'
    BY <1>3, WipesAsBefore
  <2> QED
    BY <1>0, <1>3, <2>1, <2>2, <2>3 DEF Others, Webhook, Begin, Goto
<1>4. ASSUME NEW o \in Operations, LoadDoomed(o) PROVE NewHasRow'
  <2>1. Others(o)
    BY <1>4, OthersStay
  <2>2. \A p \in Operations \ {o} : \A j \in Ids : Wipes(p, j)' <=> Wipes(p, j)
    BY <2>1, OthersWipe
  <2>3. \A j \in Ids :
          ~Wipes(o, j) /\ (Wipes(o, j)' <=> pc'[o] = "mark" /\ Victim(o) = j)
    BY <1>4, WipesNext
  <2> QED
    BY <1>0, <1>4, <2>1, <2>2, <2>3 DEF Others, LoadDoomed, Goto, Entangle
<1>5. ASSUME NEW o \in Operations, Insert(o) PROVE NewHasRow'
  <2>1. Others(o)
    BY <1>5, OthersStay
  <2>2. \A p \in Operations \ {o} : \A j \in Ids : Wipes(p, j)' <=> Wipes(p, j)
    BY <2>1, OthersWipe
  <2>3. \A j \in Ids : ~Wipes(o, j) /\ ~Wipes(o, j)'
    BY <1>5, WipesAsBefore
  <2>4. id[o] \in Ids
    BY <1>0, <1>5 DEF Insert, StepsFit, Active
  <2>5. creator[o] # Nobody
    BY <1>0, <1>5, CreatorsAssumption DEF Insert, StepsFit, Active
  <2>6. \A j \in Ids : row[j] # Nobody => row'[j] # Nobody
    BY <1>0, <1>5, <2>4, <2>5 DEF Insert
  <2>7. id' = id /\ entangled \subseteq entangled'
    BY <1>5 DEF Insert
  <2>8. pc'[o] = "clear" => row'[id[o]] # Nobody
    BY <1>0, <1>5, <2>4, <2>5 DEF Insert, Goto
  <2>9. \A p \in Operations : pc[p] = "clear" => id[p] \in Ids
    BY <1>0 DEF StepsFit, Active
  <2> QED
    BY <1>0, <2>1, <2>6, <2>7, <2>8, <2>9 DEF Others
<1>6. ASSUME NEW o \in Operations, Clear(o) PROVE NewHasRow'
  <2>1. Others(o)
    BY <1>6, OthersStay
  <2>2. \A p \in Operations \ {o} : \A j \in Ids : Wipes(p, j)' <=> Wipes(p, j)
    BY <2>1, OthersWipe
  <2>3. \A j \in Ids : ~Wipes(o, j) /\ ~Wipes(o, j)'
    BY <1>6, WipesAsBefore
  <2>4. id[o] \in Ids
    BY <1>0, <1>6 DEF Clear, StepsFit, Active
  <2> QED
    BY <1>0, <1>6, <2>1, <2>2, <2>3, <2>4 DEF Others, Clear,
       ClearActorTombstone, Goto, Fault
<1>7. ASSUME NEW o \in Operations, Created(o) PROVE NewHasRow'
  <2>1. Others(o)
    BY <1>7, OthersStay
  <2>2. \A p \in Operations \ {o} : \A j \in Ids : Wipes(p, j)' <=> Wipes(p, j)
    BY <2>1, OthersWipe
  <2>3. \A j \in Ids : ~Wipes(o, j) /\ ~Wipes(o, j)'
    BY <1>7, WipesAsBefore
  <2>4. id[o] \in Ids
    BY <1>0, <1>7 DEF Created, StepsFit, Active
  <2> QED
    BY <1>0, <1>7, <2>1, <2>2, <2>3, <2>4 DEF Others, Created, WriteRows, Goto
<1>8. ASSUME NEW o \in Operations, Premark(o) PROVE NewHasRow'
  <2>1. Others(o)
    BY <1>8, OthersStay
  <2>2. \A p \in Operations \ {o} : \A j \in Ids : Wipes(p, j)' <=> Wipes(p, j)
    BY <2>1, OthersWipe
  <2>3. \A j \in Ids :
          (Wipes(o, j)' <=> Wipes(o, j)) /\ (Wipes(o, j) <=> Victim(o) = j)
    BY <1>8, WipesNext
  <2>4. Victim(o) \in Ids
    BY <1>0, <1>8, VictimIsDoomed DEF Premark, StepsFit, Active
  <2> QED
    BY <1>0, <1>8, <2>1, <2>2, <2>3, <2>4 DEF Others, Premark,
       MarkActorDeleted, Goto, Fault
<1>9. ASSUME NEW o \in Operations, ActorDeletedHook(o) PROVE NewHasRow'
  <2>1. Others(o)
    BY <1>9, OthersStay
  <2>2. \A p \in Operations \ {o} : \A j \in Ids : Wipes(p, j)' <=> Wipes(p, j)
    BY <2>1, OthersWipe
  <2>3. \A j \in Ids :
          (Wipes(o, j)' <=> Wipes(o, j)) /\ (Wipes(o, j) <=> Victim(o) = j)
    BY <1>9, WipesNext
  <2>4. Victim(o) \in Ids
    BY <1>0, <1>9, VictimIsDoomed DEF ActorDeletedHook, StepsFit, Active
  <2> QED
    BY <1>0, <1>9, <2>1, <2>2, <2>3, <2>4 DEF Others, ActorDeletedHook, Goto
<1>10. ASSUME NEW o \in Operations, Mark(o) PROVE NewHasRow'
  <2>1. Others(o)
    BY <1>10, OthersStay
  <2>2. \A p \in Operations \ {o} : \A j \in Ids : Wipes(p, j)' <=> Wipes(p, j)
    BY <2>1, OthersWipe
  <2>3. \A j \in Ids :
          (Wipes(o, j)' <=> Wipes(o, j)) /\ (Wipes(o, j) <=> Victim(o) = j)
    BY <1>10, WipesNext
  <2>4. Victim(o) \in Ids
    BY <1>0, <1>10, VictimIsDoomed DEF Mark, StepsFit, Active
  <2> QED
    BY <1>0, <1>10, <2>1, <2>2, <2>3, <2>4 DEF Others, Mark,
       MarkActorDeleted, Goto, Fault
<1>11. ASSUME NEW o \in Operations, WipeStore(o) PROVE NewHasRow'
  <2>1. Others(o)
    BY <1>11, OthersStay
  <2>2. \A p \in Operations \ {o} : \A j \in Ids : Wipes(p, j)' <=> Wipes(p, j)
    BY <2>1, OthersWipe
  <2>3. \A j \in Ids :
          (Wipes(o, j)' <=> Wipes(o, j)) /\ (Wipes(o, j) <=> Victim(o) = j)
    BY <1>11, WipesNext
  <2>4. Victim(o) \in Ids
    BY <1>0, <1>11, VictimIsDoomed DEF WipeStore, StepsFit, Active
  <2> QED
    BY <1>0, <1>11, <2>1, <2>2, <2>3, <2>4 DEF Others, WipeStore, Goto, After
<1>12. ASSUME NEW o \in Operations, WipeRow(o) PROVE NewHasRow'
  <2>1. Others(o)
    BY <1>12, OthersStay
  <2>2. \A p \in Operations \ {o} : \A j \in Ids : Wipes(p, j)' <=> Wipes(p, j)
    BY <2>1, OthersWipe
  <2>3. \A j \in Ids : ~Wipes(o, j)' /\ (Wipes(o, j) <=> Victim(o) = j)
    BY <1>12, WipesNext
  <2>4. Victim(o) \in Ids
    BY <1>0, <1>12, VictimIsDoomed DEF WipeRow, StepsFit, Active
  <2>5. \A p \in Operations : pc[p] = "clear" => id[p] \in Ids
    BY <1>0 DEF StepsFit, Active
  <2>6. \A p \in Operations :
          pc[p] = "clear" /\ id[p] = Victim(o) => Victim(o) \in entangled
    BY <1>0, <2>3, <2>4
  <2>7. pc'[o] # "clear" /\ entangled' = entangled
    BY <1>0, <1>12 DEF WipeRow, Goto
  <2>8. \A j \in Ids : j # Victim(o) => row'[j] = row[j]
    BY <1>0, <1>12 DEF WipeRow
  <2> QED
    BY <1>0, <2>1, <2>5, <2>6, <2>7, <2>8 DEF Others
<1>13. ASSUME NEW o \in Operations, GetDeletionStatus(o) PROVE NewHasRow'
  <2>1. Others(o)
    BY <1>13, OthersStay
  <2>2. \A p \in Operations \ {o} : \A j \in Ids : Wipes(p, j)' <=> Wipes(p, j)
    BY <2>1, OthersWipe
  <2>3. \A j \in Ids : ~Wipes(o, j) /\ ~Wipes(o, j)'
    BY <1>13, WipesAsBefore
  <2>4. id[o] \in Ids
    BY <1>0, <1>13 DEF GetDeletionStatus, StepsFit, Active
  <2> QED
    BY <1>0, <1>13, <2>1, <2>2, <2>3, <2>4 DEF Others, GetDeletionStatus,
       Goto, Fault
<1>14. ASSUME NEW o \in Operations, Write(o) PROVE NewHasRow'
  <2>1. Others(o)
    BY <1>14, OthersStay
  <2>2. \A p \in Operations \ {o} : \A j \in Ids : Wipes(p, j)' <=> Wipes(p, j)
    BY <2>1, OthersWipe
  <2>3. \A j \in Ids : ~Wipes(o, j) /\ ~Wipes(o, j)'
    BY <1>14, WipesAsBefore
  <2>4. id[o] \in Ids
    BY <1>0, <1>14 DEF Write, StepsFit, Active
  <2> QED
    BY <1>0, <1>14, <2>1, <2>2, <2>3, <2>4 DEF Others, Write, WriteRows, Goto
<1>15. ASSUME NEW o \in Operations, Die(o) PROVE NewHasRow'
  <2>1. Others(o)
    BY <1>15, OthersStay
  <2>2. \A p \in Operations \ {o} : \A j \in Ids : Wipes(p, j)' <=> Wipes(p, j)
    BY <2>1, OthersWipe
  <2>3. \A j \in Ids : ~Wipes(o, j)'
    BY <1>15, WipesNext
  <2> QED
    BY <1>0, <1>15, <2>1, <2>2, <2>3 DEF Others, Die, Active, Goto, Fault
<1>16. CASE UNCHANGED vars
  <2>1. \A p \in Operations : Victim(p)' = Victim(p)
    BY <1>16, VictimStays DEF vars
  <2> QED
    BY <1>0, <1>16, <2>1 DEF vars, Wipes
<1> HIDE DEF TypeOK, OverlapIsSeen, NewHasRow, Wipe, Stores, observed
<1> QED
  BY <1>1, <1>2, <1>3, <1>4, <1>5, <1>6, <1>7, <1>8, <1>9, <1>10, <1>11,
     <1>12, <1>13, <1>14, <1>15, <1>16
  DEF Next

\* Who lost its row has a tombstone.
LEMMA GoneStep == IInv /\ [Next]_vars => GoneIsMarked'
<1> SUFFICES ASSUME IInv, [Next]_vars PROVE GoneIsMarked'
  OBVIOUS
<1>0. TypeOK /\ StepsFit /\ NewHasRow /\ MarkIsKept /\ GoneIsMarked
  BY DEF IInv
<1> USE DEF TypeOK, NewHasRow, MarkIsKept, GoneIsMarked, Wipe, Stores,
        observed
<1>1. ASSUME NEW o \in Operations, NEW i \in Ids, NEW c \in Creators,
             NEW delete \in BOOLEAN, Create(o, i, c, delete)
      PROVE  GoneIsMarked'
  <2>1. Others(o)
    BY <1>1, OthersStay
  <2>2. \A p \in Operations \ {o} : \A j \in Ids : Wipes(p, j)' <=> Wipes(p, j)
    BY <2>1, OthersWipe
  <2>3. \A j \in Ids : ~Wipes(o, j) /\ ~Wipes(o, j)'
    BY <1>1, WipesAsBefore
  <2> QED
    BY <1>0, <1>1, <2>1, <2>2, <2>3 DEF Others, Create, Begin, Goto
<1>2. ASSUME NEW o \in Operations, NEW i \in Ids,
             Delete(o, i)
      PROVE  GoneIsMarked'
  <2>1. Others(o)
    BY <1>2, OthersStay
  <2>2. \A p \in Operations \ {o} : \A j \in Ids : Wipes(p, j)' <=> Wipes(p, j)
    BY <2>1, OthersWipe
  <2>3. \A j \in Ids : ~Wipes(o, j) /\ (Wipes(o, j)' <=> j = i)
    BY <1>2, WipesNext
  <2> QED
    BY <1>0, <1>2, <2>1, <2>2, <2>3 DEF Others, Delete, Begin, Goto, Entangle
<1>3. ASSUME NEW o \in Operations, NEW i \in Ids, NEW why \in BOOLEAN,
             Webhook(o, i, why)
      PROVE  GoneIsMarked'
  <2>1. Others(o)
    BY <1>3, OthersStay
  <2>2. \A p \in Operations \ {o} : \A j \in Ids : Wipes(p, j)' <=> Wipes(p, j)
    BY <2>1, OthersWipe
  <2>3. \A j \in Ids : ~Wipes(o, j) /\ ~Wipes(o, j)'
    BY <1>3, WipesAsBefore
  <2> QED
    BY <1>0, <1>3, <2>1, <2>2, <2>3 DEF Others, Webhook, Begin, Goto
<1>4. ASSUME NEW o \in Operations, LoadDoomed(o) PROVE GoneIsMarked'
  <2>1. Others(o)
    BY <1>4, OthersStay
  <2>2. \A p \in Operations \ {o} : \A j \in Ids : Wipes(p, j)' <=> Wipes(p, j)
    BY <2>1, OthersWipe
  <2>3. \A j \in Ids :
          ~Wipes(o, j) /\ (Wipes(o, j)' <=> pc'[o] = "mark" /\ Victim(o) = j)
    BY <1>4, WipesNext
  <2> QED
    BY <1>0, <1>4, <2>1, <2>2, <2>3 DEF Others, LoadDoomed, Goto, Entangle
<1>5. ASSUME NEW o \in Operations, Insert(o) PROVE GoneIsMarked'
  <2>1. Others(o)
    BY <1>5, OthersStay
  <2>2. \A p \in Operations \ {o} : \A j \in Ids : Wipes(p, j)' <=> Wipes(p, j)
    BY <2>1, OthersWipe
  <2>3. \A j \in Ids : ~Wipes(o, j) /\ ~Wipes(o, j)'
    BY <1>5, WipesAsBefore
  <2>4. id[o] \in Ids
    BY <1>0, <1>5 DEF Insert, StepsFit, Active
  <2>5. creator[o] # Nobody /\ ~created[o]
    BY <1>0, <1>5, CreatorsAssumption DEF Insert, StepsFit, Active
  <2>6. \A j \in Ids : row'[j] = Nobody => row[j] = Nobody
    BY <1>0, <1>5, <2>5 DEF Insert
  <2>7. UNCHANGED <<tombstone, stray, unmarked, cancelled, id>> /\ entangled
     \subseteq entangled'
    BY <1>5 DEF Insert
  <2>8. \/ pc'[o] = "clear" /\ row'[id[o]] # Nobody
        \/ pc'[o] = "created" /\ created' = created
    BY <1>0, <1>5, <2>4, <2>5 DEF Insert, Goto
  <2> QED
    BY <1>0, <2>1, <2>5, <2>6, <2>7, <2>8 DEF Others
<1>6. ASSUME NEW o \in Operations, Clear(o) PROVE GoneIsMarked'
  <2>1. Others(o)
    BY <1>6, OthersStay
  <2>2. \A p \in Operations \ {o} : \A j \in Ids : Wipes(p, j)' <=> Wipes(p, j)
    BY <2>1, OthersWipe
  <2>3. \A j \in Ids : ~Wipes(o, j) /\ ~Wipes(o, j)'
    BY <1>6, WipesAsBefore
  <2>4. id[o] \in Ids
    BY <1>0, <1>6 DEF Clear, StepsFit, Active
  <2> QED
    BY <1>0, <1>6, <2>1, <2>2, <2>3, <2>4 DEF Others, Clear,
       ClearActorTombstone, Goto, Fault
<1>7. ASSUME NEW o \in Operations, Created(o) PROVE GoneIsMarked'
  <2>1. Others(o)
    BY <1>7, OthersStay
  <2>2. \A p \in Operations \ {o} : \A j \in Ids : Wipes(p, j)' <=> Wipes(p, j)
    BY <2>1, OthersWipe
  <2>3. \A j \in Ids : ~Wipes(o, j) /\ ~Wipes(o, j)'
    BY <1>7, WipesAsBefore
  <2>4. id[o] \in Ids
    BY <1>0, <1>7 DEF Created, StepsFit, Active
  <2> QED
    BY <1>0, <1>7, <2>1, <2>2, <2>3, <2>4 DEF Others, Created, WriteRows, Goto
<1>8. ASSUME NEW o \in Operations, Premark(o) PROVE GoneIsMarked'
  <2>1. Others(o)
    BY <1>8, OthersStay
  <2>2. \A p \in Operations \ {o} : \A j \in Ids : Wipes(p, j)' <=> Wipes(p, j)
    BY <2>1, OthersWipe
  <2>3. \A j \in Ids :
          (Wipes(o, j)' <=> Wipes(o, j)) /\ (Wipes(o, j) <=> Victim(o) = j)
    BY <1>8, WipesNext
  <2>4. Victim(o) \in Ids
    BY <1>0, <1>8, VictimIsDoomed DEF Premark, StepsFit, Active
  <2> QED
    BY <1>0, <1>8, <2>1, <2>2, <2>3, <2>4 DEF Others, Premark,
       MarkActorDeleted, Goto, Fault
<1>9. ASSUME NEW o \in Operations, ActorDeletedHook(o) PROVE GoneIsMarked'
  <2>1. Others(o)
    BY <1>9, OthersStay
  <2>2. \A p \in Operations \ {o} : \A j \in Ids : Wipes(p, j)' <=> Wipes(p, j)
    BY <2>1, OthersWipe
  <2>3. \A j \in Ids :
          (Wipes(o, j)' <=> Wipes(o, j)) /\ (Wipes(o, j) <=> Victim(o) = j)
    BY <1>9, WipesNext
  <2>4. Victim(o) \in Ids
    BY <1>0, <1>9, VictimIsDoomed DEF ActorDeletedHook, StepsFit, Active
  <2>5. Victim(o) = id[o]
    BY <1>0, <1>9, VictimIsDoomed DEF ActorDeletedHook, StepsFit
  <2>6. id[o] \in tombstone \cup unmarked \cup entangled
    BY <1>0, <1>9, <2>3, <2>4, <2>5 DEF ActorDeletedHook
  <2> QED
    BY <1>0, <1>9, <2>1, <2>6 DEF Others, ActorDeletedHook, Goto
<1>10. ASSUME NEW o \in Operations, Mark(o) PROVE GoneIsMarked'
  <2>1. Others(o)
    BY <1>10, OthersStay
  <2>2. \A p \in Operations \ {o} : \A j \in Ids : Wipes(p, j)' <=> Wipes(p, j)
    BY <2>1, OthersWipe
  <2>3. \A j \in Ids :
          (Wipes(o, j)' <=> Wipes(o, j)) /\ (Wipes(o, j) <=> Victim(o) = j)
    BY <1>10, WipesNext
  <2>4. Victim(o) \in Ids
    BY <1>0, <1>10, VictimIsDoomed DEF Mark, StepsFit, Active
  <2> QED
    BY <1>0, <1>10, <2>1, <2>2, <2>3, <2>4 DEF Others, Mark,
       MarkActorDeleted, Goto, Fault
<1>11. ASSUME NEW o \in Operations, WipeStore(o) PROVE GoneIsMarked'
  <2>1. Others(o)
    BY <1>11, OthersStay
  <2>2. \A p \in Operations \ {o} : \A j \in Ids : Wipes(p, j)' <=> Wipes(p, j)
    BY <2>1, OthersWipe
  <2>3. \A j \in Ids :
          (Wipes(o, j)' <=> Wipes(o, j)) /\ (Wipes(o, j) <=> Victim(o) = j)
    BY <1>11, WipesNext
  <2>4. Victim(o) \in Ids
    BY <1>0, <1>11, VictimIsDoomed DEF WipeStore, StepsFit, Active
  <2> QED
    BY <1>0, <1>11, <2>1, <2>2, <2>3, <2>4 DEF Others, WipeStore, Goto, After
<1>12. ASSUME NEW o \in Operations, WipeRow(o) PROVE GoneIsMarked'
  <2>1. Others(o)
    BY <1>12, OthersStay
  <2>2. \A p \in Operations \ {o} : \A j \in Ids : Wipes(p, j)' <=> Wipes(p, j)
    BY <2>1, OthersWipe
  <2>3. \A j \in Ids : ~Wipes(o, j)' /\ (Wipes(o, j) <=> Victim(o) = j)
    BY <1>12, WipesNext
  <2>4. Victim(o) \in Ids
    BY <1>0, <1>12, VictimIsDoomed DEF WipeRow, StepsFit, Active
  <2> QED
    BY <1>0, <1>12, <2>1, <2>2, <2>3, <2>4 DEF Others, WipeRow, Goto, Fault
<1>13. ASSUME NEW o \in Operations, GetDeletionStatus(o) PROVE GoneIsMarked'
  <2>1. Others(o)
    BY <1>13, OthersStay
  <2>2. \A p \in Operations \ {o} : \A j \in Ids : Wipes(p, j)' <=> Wipes(p, j)
    BY <2>1, OthersWipe
  <2>3. \A j \in Ids : ~Wipes(o, j) /\ ~Wipes(o, j)'
    BY <1>13, WipesAsBefore
  <2>4. id[o] \in Ids
    BY <1>0, <1>13 DEF GetDeletionStatus, StepsFit, Active
  <2> QED
    BY <1>0, <1>13, <2>1, <2>2, <2>3, <2>4 DEF Others, GetDeletionStatus,
       Goto, Fault
<1>14. ASSUME NEW o \in Operations, Write(o) PROVE GoneIsMarked'
  <2>1. Others(o)
    BY <1>14, OthersStay
  <2>2. \A p \in Operations \ {o} : \A j \in Ids : Wipes(p, j)' <=> Wipes(p, j)
    BY <2>1, OthersWipe
  <2>3. \A j \in Ids : ~Wipes(o, j) /\ ~Wipes(o, j)'
    BY <1>14, WipesAsBefore
  <2>4. id[o] \in Ids
    BY <1>0, <1>14 DEF Write, StepsFit, Active
  <2> QED
    BY <1>0, <1>14, <2>1, <2>2, <2>3, <2>4 DEF Others, Write, WriteRows, Goto
<1>15. ASSUME NEW o \in Operations, Die(o) PROVE GoneIsMarked'
  <2>1. Others(o)
    BY <1>15, OthersStay
  <2>2. \A p \in Operations \ {o} : \A j \in Ids : Wipes(p, j)' <=> Wipes(p, j)
    BY <2>1, OthersWipe
  <2>3. \A j \in Ids : ~Wipes(o, j)'
    BY <1>15, WipesNext
  <2> QED
    BY <1>0, <1>15, <2>1, <2>2, <2>3 DEF Others, Die, Active, Goto, Fault
<1>16. CASE UNCHANGED vars
  <2>1. \A p \in Operations : Victim(p)' = Victim(p)
    BY <1>16, VictimStays DEF vars
  <2> QED
    BY <1>0, <1>16, <2>1 DEF vars, Wipes
<1> HIDE DEF TypeOK, NewHasRow, MarkIsKept, GoneIsMarked, Wipe, Stores,
        observed
<1> QED
  BY <1>1, <1>2, <1>3, <1>4, <1>5, <1>6, <1>7, <1>8, <1>9, <1>10, <1>11,
     <1>12, <1>13, <1>14, <1>15, <1>16
  DEF Next

\* What was wiped is not written again without notice.
LEMMA EmptyStep == IInv /\ [Next]_vars => WipedIsEmpty'
<1> SUFFICES ASSUME IInv, [Next]_vars PROVE WipedIsEmpty'
  OBVIOUS
<1>0. TypeOK /\ StepsFit /\ MarkIsKept /\ GoneIsMarked /\ WipedIsEmpty
  BY DEF IInv
<1> USE DEF TypeOK, MarkIsKept, GoneIsMarked, WipedIsEmpty, Wipe, Stores,
        observed
<1>1. ASSUME NEW o \in Operations, NEW i \in Ids, NEW c \in Creators,
             NEW delete \in BOOLEAN, Create(o, i, c, delete)
      PROVE  WipedIsEmpty'
  <2>1. Others(o)
    BY <1>1, OthersStay
  <2>2. \A p \in Operations \ {o} : \A j \in Ids : Wipes(p, j)' <=> Wipes(p, j)
    BY <2>1, OthersWipe
  <2>3. \A j \in Ids : ~Wipes(o, j) /\ ~Wipes(o, j)'
    BY <1>1, WipesAsBefore
  <2> QED
    BY <1>0, <1>1, <2>1, <2>2, <2>3 DEF Others, Create, Begin, Goto
<1>2. ASSUME NEW o \in Operations, NEW i \in Ids,
             Delete(o, i)
      PROVE  WipedIsEmpty'
  <2>1. Others(o)
    BY <1>2, OthersStay
  <2>2. \A p \in Operations \ {o} : \A j \in Ids : Wipes(p, j)' <=> Wipes(p, j)
    BY <2>1, OthersWipe
  <2>3. \A j \in Ids : ~Wipes(o, j) /\ (Wipes(o, j)' <=> j = i)
    BY <1>2, WipesNext
  <2> QED
    BY <1>0, <1>2, <2>1, <2>2, <2>3 DEF Others, Delete, Begin, Goto, Entangle
<1>3. ASSUME NEW o \in Operations, NEW i \in Ids, NEW why \in BOOLEAN,
             Webhook(o, i, why)
      PROVE  WipedIsEmpty'
  <2>1. Others(o)
    BY <1>3, OthersStay
  <2>2. \A p \in Operations \ {o} : \A j \in Ids : Wipes(p, j)' <=> Wipes(p, j)
    BY <2>1, OthersWipe
  <2>3. \A j \in Ids : ~Wipes(o, j) /\ ~Wipes(o, j)'
    BY <1>3, WipesAsBefore
  <2> QED
    BY <1>0, <1>3, <2>1, <2>2, <2>3 DEF Others, Webhook, Begin, Goto
<1>4. ASSUME NEW o \in Operations, LoadDoomed(o) PROVE WipedIsEmpty'
  <2>1. Others(o)
    BY <1>4, OthersStay
  <2>2. \A p \in Operations \ {o} : \A j \in Ids : Wipes(p, j)' <=> Wipes(p, j)
    BY <2>1, OthersWipe
  <2>3. \A j \in Ids :
          ~Wipes(o, j) /\ (Wipes(o, j)' <=> pc'[o] = "mark" /\ Victim(o) = j)
    BY <1>4, WipesNext
  <2> QED
    BY <1>0, <1>4, <2>1, <2>2, <2>3 DEF Others, LoadDoomed, Goto, Entangle
<1>5. ASSUME NEW o \in Operations, Insert(o) PROVE WipedIsEmpty'
  <2>1. Others(o)
    BY <1>5, OthersStay
  <2>2. \A p \in Operations \ {o} : \A j \in Ids : Wipes(p, j)' <=> Wipes(p, j)
    BY <2>1, OthersWipe
  <2>3. \A j \in Ids : ~Wipes(o, j) /\ ~Wipes(o, j)'
    BY <1>5, WipesAsBefore
  <2>4. id[o] \in Ids
    BY <1>0, <1>5 DEF Insert, StepsFit, Active
  <2> QED
    BY <1>0, <1>5, <2>1, <2>2, <2>3, <2>4 DEF Others, Insert, Goto, Fault
<1>6. ASSUME NEW o \in Operations, Clear(o) PROVE WipedIsEmpty'
  <2>1. Others(o)
    BY <1>6, OthersStay
  <2>2. \A p \in Operations \ {o} : \A j \in Ids : Wipes(p, j)' <=> Wipes(p, j)
    BY <2>1, OthersWipe
  <2>3. \A j \in Ids : ~Wipes(o, j) /\ ~Wipes(o, j)'
    BY <1>6, WipesAsBefore
  <2>4. id[o] \in Ids
    BY <1>0, <1>6 DEF Clear, StepsFit, Active
  <2> QED
    BY <1>0, <1>6, <2>1, <2>2, <2>3, <2>4 DEF Others, Clear,
       ClearActorTombstone, Goto, Fault
<1>7. ASSUME NEW o \in Operations, Created(o) PROVE WipedIsEmpty'
  <2>1. Others(o)
    BY <1>7, OthersStay
  <2>2. \A p \in Operations \ {o} : \A j \in Ids : Wipes(p, j)' <=> Wipes(p, j)
    BY <2>1, OthersWipe
  <2>3. \A j \in Ids : ~Wipes(o, j) /\ ~Wipes(o, j)'
    BY <1>7, WipesAsBefore
  <2>4. id[o] \in Ids
    BY <1>0, <1>7 DEF Created, StepsFit, Active
  <2>5. pc[o] = "created" /\ pc' = [pc EXCEPT ![o] = "done"] /\ UNCHANGED
     <<row, unmarked, entangled>>
    BY <1>7 DEF Created, Goto
  <2>6. /\ stray \subseteq stray'
        /\ data' = [data EXCEPT ![id[o]] = @ \cup Stores]
        /\ id[o] \in tombstone \/ ~created[o] => id[o] \in stray'
    BY <1>7 DEF Created, WriteRows
  <2>7. ASSUME NEW j \in Ids \ (stray' \cup unmarked' \cup entangled'), j =
     id[o]
        PROVE  /\ row[j] # Nobody
               /\ \A p \in Operations : ~(pc[p] \in Wipe /\ Victim(p) = j)
    <3>1. j \notin tombstone \cup stray \cup unmarked \cup entangled
      BY <2>5, <2>6, <2>7
    <3>2. row[j] # Nobody
      BY <1>0, <2>5, <2>6, <2>7, <3>1
    <3>3. \A p \in Operations : ~(pc[p] \in Wipe /\ Victim(p) = j)
      BY <1>0, <3>1 DEF Wipes
    <3> QED
      BY <3>2, <3>3
  <2>8. \A p \in Operations : pc'[p] \in Wipe => p # o /\ pc[p] = pc'[p] /\
     Victim(p)' = Victim(p)
    BY <1>0, <2>1, <2>5 DEF Others
  <2>9. \A j \in Ids : j # id[o] => data'[j] = data[j]
    BY <1>0, <2>6
  <2> QED
    BY <1>0, <2>5, <2>6, <2>7, <2>8, <2>9
<1>8. ASSUME NEW o \in Operations, Premark(o) PROVE WipedIsEmpty'
  <2>1. Others(o)
    BY <1>8, OthersStay
  <2>2. \A p \in Operations \ {o} : \A j \in Ids : Wipes(p, j)' <=> Wipes(p, j)
    BY <2>1, OthersWipe
  <2>3. \A j \in Ids :
          (Wipes(o, j)' <=> Wipes(o, j)) /\ (Wipes(o, j) <=> Victim(o) = j)
    BY <1>8, WipesNext
  <2>4. Victim(o) \in Ids
    BY <1>0, <1>8, VictimIsDoomed DEF Premark, StepsFit, Active
  <2> QED
    BY <1>0, <1>8, <2>1, <2>2, <2>3, <2>4 DEF Others, Premark,
       MarkActorDeleted, Goto, Fault
<1>9. ASSUME NEW o \in Operations, ActorDeletedHook(o) PROVE WipedIsEmpty'
  <2>1. Others(o)
    BY <1>9, OthersStay
  <2>2. \A p \in Operations \ {o} : \A j \in Ids : Wipes(p, j)' <=> Wipes(p, j)
    BY <2>1, OthersWipe
  <2>3. \A j \in Ids :
          (Wipes(o, j)' <=> Wipes(o, j)) /\ (Wipes(o, j) <=> Victim(o) = j)
    BY <1>9, WipesNext
  <2>4. Victim(o) \in Ids
    BY <1>0, <1>9, VictimIsDoomed DEF ActorDeletedHook, StepsFit, Active
  <2> QED
    BY <1>0, <1>9, <2>1, <2>2, <2>3, <2>4 DEF Others, ActorDeletedHook, Goto
<1>10. ASSUME NEW o \in Operations, Mark(o) PROVE WipedIsEmpty'
  <2>1. Others(o)
    BY <1>10, OthersStay
  <2>2. \A p \in Operations \ {o} : \A j \in Ids : Wipes(p, j)' <=> Wipes(p, j)
    BY <2>1, OthersWipe
  <2>3. \A j \in Ids :
          (Wipes(o, j)' <=> Wipes(o, j)) /\ (Wipes(o, j) <=> Victim(o) = j)
    BY <1>10, WipesNext
  <2>4. Victim(o) \in Ids
    BY <1>0, <1>10, VictimIsDoomed DEF Mark, StepsFit, Active
  <2>5. UNCHANGED <<row, data, stray, entangled>> /\ unmarked \subseteq
     unmarked'
    BY <1>10 DEF Mark, MarkActorDeleted
  <2>6. pc'[o] = "properties"
    BY <1>0, <1>10 DEF Mark, Goto
  <2> QED
    BY <1>0, <2>1, <2>5, <2>6, WipedFirst DEF Others
<1>11. ASSUME NEW o \in Operations, WipeStore(o) PROVE WipedIsEmpty'
  <2>1. Others(o)
    BY <1>11, OthersStay
  <2>2. \A p \in Operations \ {o} : \A j \in Ids : Wipes(p, j)' <=> Wipes(p, j)
    BY <2>1, OthersWipe
  <2>3. \A j \in Ids :
          (Wipes(o, j)' <=> Wipes(o, j)) /\ (Wipes(o, j) <=> Victim(o) = j)
    BY <1>11, WipesNext
  <2>4. Victim(o) \in Ids
    BY <1>0, <1>11, VictimIsDoomed DEF WipeStore, StepsFit, Active
  <2>5. UNCHANGED <<row, stray, unmarked, entangled>>
    BY <1>11 DEF WipeStore
  <2>6. pc[o] \in Stores /\ pc'[o] = After(pc[o]) /\ Victim(o)' = Victim(o)
    BY <1>0, <1>11, VictimNext DEF WipeStore, Goto
  <2>7. /\ data'[Victim(o)] = data[Victim(o)] \ {pc[o]}
        /\ \A j \in Ids : data'[j] \subseteq data[j]
    BY <1>0, <1>11, <2>4 DEF WipeStore
  <2>8. WipedBefore[pc'[o]] = WipedBefore[pc[o]] \cup {pc[o]}
    BY <2>6, WipedNext
  <2>9. \A p \in Operations \ {o} : pc'[p] = pc[p] /\ Victim(p)' = Victim(p)
    BY <2>1 DEF Others
  <2>10. ASSUME NEW j \in Ids \ (stray \cup unmarked \cup entangled),
     Victim(o) = j
         PROVE  data'[j] \cap WipedBefore[pc'[o]] = {}
    <3>1. data[j] \cap WipedBefore[pc[o]] = {}
      BY <1>0, <2>6, <2>10
    <3> QED
      BY <2>7, <2>8, <2>10, <3>1
  <2> QED
    BY <1>0, <2>5, <2>6, <2>7, <2>9, <2>10
<1>12. ASSUME NEW o \in Operations, WipeRow(o) PROVE WipedIsEmpty'
  <2>1. Others(o)
    BY <1>12, OthersStay
  <2>2. \A p \in Operations \ {o} : \A j \in Ids : Wipes(p, j)' <=> Wipes(p, j)
    BY <2>1, OthersWipe
  <2>3. \A j \in Ids : ~Wipes(o, j)' /\ (Wipes(o, j) <=> Victim(o) = j)
    BY <1>12, WipesNext
  <2>4. Victim(o) \in Ids
    BY <1>0, <1>12, VictimIsDoomed DEF WipeRow, StepsFit, Active
  <2>5. UNCHANGED <<data, stray, unmarked, entangled>>
    BY <1>12 DEF WipeRow
  <2>6. pc[o] = "row" /\ pc'[o] \notin Wipe
    BY <1>0, <1>12 DEF WipeRow, Goto
  <2>7. \A j \in Ids : j # Victim(o) => row'[j] = row[j]
    BY <1>0, <1>12 DEF WipeRow
  <2>8. ASSUME NEW j \in Ids \ (stray \cup unmarked \cup entangled),
     Victim(o) = j
        PROVE  data[j] = {}
    <3>1. data[j] \cap Stores = {}
      BY <1>0, <2>6, <2>8, WipedFirst
    <3> QED
      BY <1>0, <3>1
  <2> QED
    BY <1>0, <2>1, <2>5, <2>6, <2>7, <2>8 DEF Others
<1>13. ASSUME NEW o \in Operations, GetDeletionStatus(o) PROVE WipedIsEmpty'
  <2>1. Others(o)
    BY <1>13, OthersStay
  <2>2. \A p \in Operations \ {o} : \A j \in Ids : Wipes(p, j)' <=> Wipes(p, j)
    BY <2>1, OthersWipe
  <2>3. \A j \in Ids : ~Wipes(o, j) /\ ~Wipes(o, j)'
    BY <1>13, WipesAsBefore
  <2>4. id[o] \in Ids
    BY <1>0, <1>13 DEF GetDeletionStatus, StepsFit, Active
  <2> QED
    BY <1>0, <1>13, <2>1, <2>2, <2>3, <2>4 DEF Others, GetDeletionStatus,
       Goto, Fault
<1>14. ASSUME NEW o \in Operations, Write(o) PROVE WipedIsEmpty'
  <2>1. Others(o)
    BY <1>14, OthersStay
  <2>2. \A p \in Operations \ {o} : \A j \in Ids : Wipes(p, j)' <=> Wipes(p, j)
    BY <2>1, OthersWipe
  <2>3. \A j \in Ids : ~Wipes(o, j) /\ ~Wipes(o, j)'
    BY <1>14, WipesAsBefore
  <2>4. id[o] \in Ids
    BY <1>0, <1>14 DEF Write, StepsFit, Active
  <2>5. pc[o] = "write" /\ pc' = [pc EXCEPT ![o] = "done"] /\ UNCHANGED
     <<row, unmarked, entangled>>
    BY <1>14 DEF Write, Goto
  <2>6. /\ stray \subseteq stray'
        /\ data' = [data EXCEPT ![id[o]] = @ \cup {"properties"}]
        /\ id[o] \in tombstone => id[o] \in stray'
    BY <1>14 DEF Write, WriteRows
  <2>7. ASSUME NEW j \in Ids \ (stray' \cup unmarked' \cup entangled'), j =
     id[o]
        PROVE  /\ row[j] # Nobody
               /\ \A p \in Operations : ~(pc[p] \in Wipe /\ Victim(p) = j)
    <3>1. j \notin tombstone \cup stray \cup unmarked \cup entangled
      BY <2>5, <2>6, <2>7
    <3>2. row[j] # Nobody
      BY <1>0, <2>5, <2>6, <2>7, <3>1
    <3>3. \A p \in Operations : ~(pc[p] \in Wipe /\ Victim(p) = j)
      BY <1>0, <3>1 DEF Wipes
    <3> QED
      BY <3>2, <3>3
  <2>8. \A p \in Operations : pc'[p] \in Wipe => p # o /\ pc[p] = pc'[p] /\
     Victim(p)' = Victim(p)
    BY <1>0, <2>1, <2>5 DEF Others
  <2>9. \A j \in Ids : j # id[o] => data'[j] = data[j]
    BY <1>0, <2>6
  <2> QED
    BY <1>0, <2>5, <2>6, <2>7, <2>8, <2>9
<1>15. ASSUME NEW o \in Operations, Die(o) PROVE WipedIsEmpty'
  <2>1. Others(o)
    BY <1>15, OthersStay
  <2>2. \A p \in Operations \ {o} : \A j \in Ids : Wipes(p, j)' <=> Wipes(p, j)
    BY <2>1, OthersWipe
  <2>3. \A j \in Ids : ~Wipes(o, j)'
    BY <1>15, WipesNext
  <2> QED
    BY <1>0, <1>15, <2>1, <2>2, <2>3 DEF Others, Die, Active, Goto, Fault
<1>16. CASE UNCHANGED vars
  <2>1. \A p \in Operations : Victim(p)' = Victim(p)
    BY <1>16, VictimStays DEF vars
  <2> QED
    BY <1>0, <1>16, <2>1 DEF vars, Wipes
<1> HIDE DEF TypeOK, MarkIsKept, GoneIsMarked, WipedIsEmpty, Wipe, Stores,
        observed
<1> QED
  BY <1>1, <1>2, <1>3, <1>4, <1>5, <1>6, <1>7, <1>8, <1>9, <1>10, <1>11,
     <1>12, <1>13, <1>14, <1>15, <1>16
  DEF Next

\* A cancellation comes after the mark.
LEMMA CancelledStep == IInv /\ [Next]_vars => CancelledIsMarked'
<1> SUFFICES ASSUME IInv, [Next]_vars PROVE CancelledIsMarked'
  OBVIOUS
<1>0. TypeOK /\ StepsFit /\ CancelledIsMarked
  BY DEF IInv
<1> USE DEF TypeOK, CancelledIsMarked, Wipe, Stores, observed
<1>1. ASSUME NEW o \in Operations, NEW i \in Ids, NEW c \in Creators,
             NEW delete \in BOOLEAN, Create(o, i, c, delete)
      PROVE  CancelledIsMarked'
  <2>1. Others(o)
    BY <1>1, OthersStay
  <2> QED
    BY <1>0, <1>1, <2>1 DEF Others, Create, Begin, Goto
<1>2. ASSUME NEW o \in Operations, NEW i \in Ids,
             Delete(o, i)
      PROVE  CancelledIsMarked'
  <2>1. Others(o)
    BY <1>2, OthersStay
  <2> QED
    BY <1>0, <1>2, <2>1 DEF Others, Delete, Begin, Goto, Entangle
<1>3. ASSUME NEW o \in Operations, NEW i \in Ids, NEW why \in BOOLEAN,
             Webhook(o, i, why)
      PROVE  CancelledIsMarked'
  <2>1. Others(o)
    BY <1>3, OthersStay
  <2> QED
    BY <1>0, <1>3, <2>1 DEF Others, Webhook, Begin, Goto
<1>4. ASSUME NEW o \in Operations, LoadDoomed(o) PROVE CancelledIsMarked'
  <2>1. Others(o)
    BY <1>4, OthersStay
  <2> QED
    BY <1>0, <1>4, <2>1 DEF Others, LoadDoomed, Goto, Entangle
<1>5. ASSUME NEW o \in Operations, Insert(o) PROVE CancelledIsMarked'
  <2>1. Others(o)
    BY <1>5, OthersStay
  <2>2. id[o] \in Ids
    BY <1>0, <1>5 DEF Insert, StepsFit, Active
  <2> QED
    BY <1>0, <1>5, <2>1, <2>2 DEF Others, Insert, Goto, Fault
<1>6. ASSUME NEW o \in Operations, Clear(o) PROVE CancelledIsMarked'
  <2>1. Others(o)
    BY <1>6, OthersStay
  <2>2. id[o] \in Ids
    BY <1>0, <1>6 DEF Clear, StepsFit, Active
  <2> QED
    BY <1>0, <1>6, <2>1, <2>2 DEF Others, Clear, ClearActorTombstone, Goto,
       Fault
<1>7. ASSUME NEW o \in Operations, Created(o) PROVE CancelledIsMarked'
  <2>1. Others(o)
    BY <1>7, OthersStay
  <2>2. id[o] \in Ids
    BY <1>0, <1>7 DEF Created, StepsFit, Active
  <2> QED
    BY <1>0, <1>7, <2>1, <2>2 DEF Others, Created, WriteRows, Goto
<1>8. ASSUME NEW o \in Operations, Premark(o) PROVE CancelledIsMarked'
  <2>1. Others(o)
    BY <1>8, OthersStay
  <2>2. Victim(o) \in Ids
    BY <1>0, <1>8, VictimIsDoomed DEF Premark, StepsFit, Active
  <2> QED
    BY <1>0, <1>8, <2>1, <2>2 DEF Others, Premark, MarkActorDeleted, Goto,
       Fault
<1>9. ASSUME NEW o \in Operations, ActorDeletedHook(o) PROVE CancelledIsMarked'
  <2>1. Others(o)
    BY <1>9, OthersStay
  <2>2. Victim(o) \in Ids
    BY <1>0, <1>9, VictimIsDoomed DEF ActorDeletedHook, StepsFit, Active
  <2> QED
    BY <1>0, <1>9, <2>1, <2>2 DEF Others, ActorDeletedHook, Goto
<1>10. ASSUME NEW o \in Operations, Mark(o) PROVE CancelledIsMarked'
  <2>1. Others(o)
    BY <1>10, OthersStay
  <2>2. Victim(o) \in Ids
    BY <1>0, <1>10, VictimIsDoomed DEF Mark, StepsFit, Active
  <2> QED
    BY <1>0, <1>10, <2>1, <2>2 DEF Others, Mark, MarkActorDeleted, Goto, Fault
<1>11. ASSUME NEW o \in Operations, WipeStore(o) PROVE CancelledIsMarked'
  <2>1. Others(o)
    BY <1>11, OthersStay
  <2>2. Victim(o) \in Ids
    BY <1>0, <1>11, VictimIsDoomed DEF WipeStore, StepsFit, Active
  <2> QED
    BY <1>0, <1>11, <2>1, <2>2 DEF Others, WipeStore, Goto, After
<1>12. ASSUME NEW o \in Operations, WipeRow(o) PROVE CancelledIsMarked'
  <2>1. Others(o)
    BY <1>12, OthersStay
  <2>2. Victim(o) \in Ids
    BY <1>0, <1>12, VictimIsDoomed DEF WipeRow, StepsFit, Active
  <2> QED
    BY <1>0, <1>12, <2>1, <2>2 DEF Others, WipeRow, Goto, Fault
<1>13. ASSUME NEW o \in Operations, GetDeletionStatus(o)
      PROVE  CancelledIsMarked'
  <2>1. Others(o)
    BY <1>13, OthersStay
  <2>2. id[o] \in Ids
    BY <1>0, <1>13 DEF GetDeletionStatus, StepsFit, Active
  <2> QED
    BY <1>0, <1>13, <2>1, <2>2 DEF Others, GetDeletionStatus, Goto, Fault
<1>14. ASSUME NEW o \in Operations, Write(o) PROVE CancelledIsMarked'
  <2>1. Others(o)
    BY <1>14, OthersStay
  <2>2. id[o] \in Ids
    BY <1>0, <1>14 DEF Write, StepsFit, Active
  <2> QED
    BY <1>0, <1>14, <2>1, <2>2 DEF Others, Write, WriteRows, Goto
<1>15. ASSUME NEW o \in Operations, Die(o) PROVE CancelledIsMarked'
  <2>1. Others(o)
    BY <1>15, OthersStay
  <2> QED
    BY <1>0, <1>15, <2>1 DEF Others, Die, Active, Goto, Fault
<1>16. CASE UNCHANGED vars
  <2>1. \A p \in Operations : Victim(p)' = Victim(p)
    BY <1>16, VictimStays DEF vars
  <2> QED
    BY <1>0, <1>16, <2>1 DEF vars, Wipes
<1> HIDE DEF TypeOK, CancelledIsMarked, Wipe, Stores, observed
<1> QED
  BY <1>1, <1>2, <1>3, <1>4, <1>5, <1>6, <1>7, <1>8, <1>9, <1>10, <1>11,
     <1>12, <1>13, <1>14, <1>15, <1>16
  DEF Next

-----------------------------------------------------------------------------
(* The theorems.                                                           *)

LEMMA InitIInv == Init => IInv
<1> SUFFICES ASSUME Init PROVE IInv
  OBVIOUS
<1>1. TypeOK
  BY MaxFaultsAssumption DEF Init, TypeOK, Steps, Wipe, Stores
<1>2. \A o \in Operations : pc[o] = "idle" /\ ~created[o] /\ ~caused[o]
  BY DEF Init
<1>3. \A o \in Operations : \A i \in Ids : ~Wipes(o, i)
  BY <1>2 DEF Wipes, Wipe, Stores
<1>4. StepsFit
  BY <1>2 DEF StepsFit, Active, Wipe, Stores
<1>5. OverlapIsSeen /\ MarkIsKept
  BY <1>3 DEF OverlapIsSeen, MarkIsKept
<1>6. MarkedIsWorkedOn /\ NewHasRow /\ GoneIsMarked
  BY <1>2 DEF Init, MarkedIsWorkedOn, NewHasRow, GoneIsMarked
<1>7. WipedIsEmpty
  BY <1>2 DEF Init, WipedIsEmpty, Wipe, Stores
<1>8. CancelledIsMarked
  BY <1>2 DEF Init, CancelledIsMarked
<1> QED
  BY <1>1, <1>4, <1>5, <1>6, <1>7, <1>8 DEF IInv

\* In every state the invariant holds.
THEOREM Invariance == Spec => []IInv
<1>1. IInv /\ [Next]_vars => IInv'
  BY TypeStep, FitStep, OverlapStep, MarkStep, WorkedOnStep, NewRowStep,
     GoneStep,
     EmptyStep, CancelledStep DEF IInv
<1> QED
  BY InitIInv, <1>1, PTL DEF Spec

\* While an actor is wiped (actor.py, Actor.delete) the tombstone that was
\* written before (deletion.py, mark_actor_deleted) is there for the webhooks
\* of the application to find, whatever creations come between; unless its
\* write failed or two lives of the id overlapped.
THEOREM WipesAreMarked == Spec => []WipeIsMarked
<1>1. IInv => WipeIsMarked
  <2> SUFFICES ASSUME IInv, NEW o \in Operations, pc[o] \in Wipe
               PROVE  Victim(o) \in tombstone \cup unmarked \cup entangled
    BY DEF WipeIsMarked
  <2>1. Victim(o) \in Ids
    BY VictimIsDoomed DEF IInv
  <2> QED
    BY <2>1 DEF IInv, MarkIsKept, Wipes
<1> QED
  BY Invariance, <1>1, PTL

\* Once all is quiet no actor that resolves has a tombstone: each creation has
\* cleared it after its row (actor.py, Actor.create).
THEOREM TheLiveAreUnmarked == Spec => []LiveIsNotDeleted
<1>1. IInv => LiveIsNotDeleted
  <2> SUFFICES ASSUME IInv, Quiet, faults = 0, NEW i \in Ids \ entangled,
                      row[i] # Nobody, i \in tombstone
               PROVE  FALSE
    BY DEF LiveIsNotDeleted
  <2>1. PICK o \in Operations : Wipes(o, i) \/ (pc[o] = "clear" /\ id[o] = i)
    BY DEF IInv, MarkedIsWorkedOn
  <2> QED
    BY <2>1 DEF Quiet, Active, Wipes, Wipe, Stores
<1> QED
  BY Invariance, <1>1, PTL

\* What belonged to a deleted actor is gone with it: a later deletion, which
\* needs the row, is not called for.
THEOREM NothingIsOrphaned == Spec => []NoOrphans
<1>1. IInv => NoOrphans
  BY DEF IInv, WipedIsEmpty, NoOrphans
<1> QED
  BY Invariance, <1>1, PTL

\* Faults are counted, never forgotten.
LEMMA FaultsStay ==
    ASSUME IInv, [Next]_vars
    PROVE  faults' \in Nat /\ faults' >= faults
<1>1. faults \in Nat
  BY MaxFaultsAssumption DEF IInv, TypeOK
<1>2. faults' = faults \/ faults' = faults + 1
  BY DEF Next, Create, Delete, Webhook, LoadDoomed, Insert, Clear, Created,
     Premark,
         ActorDeletedHook, Mark, WipeStore, WipeRow, GetDeletionStatus, Write, Die,
         ClearActorTombstone, MarkActorDeleted, Fault, vars
<1> QED
  BY <1>1, <1>2

\* The webhook brought about by a cancellation in the actor_deleted hook asks
\* get_deletion_status (deletion.py) and is told DELETED, whenever it comes:
\* RootHandler.delete wrote the tombstone before the hook.
THEOREM CancellationsAreSuppressed == Spec => CancelledIsSuppressed
<1> DEFINE Suppressed(o) ==
       pc[o] = "write" /\ pc'[o] = "done" /\ caused[o] =>
           faults' > 0 \/ id[o] \in cleared
<1>1. ASSUME IInv, [Next]_vars, NEW o \in Operations PROVE Suppressed(o)
  <2> SUFFICES ASSUME pc[o] = "write", pc'[o] = "done", caused[o]
               PROVE  faults' > 0 \/ id[o] \in cleared
    OBVIOUS
  <2>1. faults \in Nat /\ (faults > 0 \/ id[o] \in cleared)
    BY <1>1, MaxFaultsAssumption DEF IInv, CancelledIsMarked, TypeOK
  <2>2. faults' \in Nat /\ faults' >= faults
    BY <1>1, <2>1, FaultsStay
  <2> QED
    BY <2>1, <2>2
<1>2. IInv /\ [Next]_vars => [\A o \in Operations : Suppressed(o)]_vars
  BY <1>1
<1> QED
  BY Invariance, <1>2, PTL DEF Spec, CancelledIsSuppressed

-----------------------------------------------------------------------------
(* A rewrite of a list: the inductive invariant (ListMigration).           *)

\* A migration has read the metadata row,
Reading == {"verify", "read"}
\* or the items too, and has not flipped the metadata row yet.
Copying == {"recheck", "leftover", "clear", "copy", "meta", "flip"}
\* The steps that go from row to row.
Counting == {"copy", "rollback", "down_copy"}

\* The first rows hold what the rewrite has read.
Copied(rows, n) == \A r \in First(n) : rows[r] = job.values[r + 1]

\* What an undone migration has still to remove.
Residue ==
    {r \in Rows : /\ job.next <= r /\ r < Len(job.values)
                  /\ v2[r] = job.values[r + 1]}

\* How many rows a migration has written.
Written == IF job.step = "copy" THEN job.next ELSE Len(job.values)

\* No item is of an append to come: an append is never taken for residue.
Given ==
    /\ \A r \in Rows : /\ v1[r] <= MaxInitial + appends
                       /\ v2[r] <= MaxInitial + appends
    /\ \A k \in 1..Len(job.values) : job.values[k] <= MaxInitial + appends

\* What a rewrite goes by is still so when it acts on it: the format it has
\* read, the names it deletes, the rows it has written.
JobOK ==
    /\ Len(job.values) <= MaxItems
    /\ job.next = 0 \/ (job.step \in Counting /\ job.next < Len(job.values))
    /\ job.step \in Reading \cup Copying => meta.format # 2
    /\ job.step \in {"rollback", "down_read", "down_copy", "down_flip"} =>
        meta.format # 1
    /\ job.step = "down_names" => meta.format # 2
    /\ job.step = "cleanup" =>
        /\ meta.format = 1 => job.names \subseteq {2} \X Rows
        /\ meta.format = 2 => job.names \subseteq {1} \X Rows
    /\ job.step = "clear" => /\ job.names \subseteq {2} \X Rows
                             /\ {2} \X Held(v2) \subseteq job.names
    /\ job.step \in Reading => meta = NoMeta \/ job.length = meta.length
    /\ job.step \in {"copy", "meta", "flip"} =>
        /\ Held(v2) \subseteq First(Written)
        /\ \A r \in Held(v2) : v2[r] = job.values[r + 1]
        /\ meta = NoMeta \/ Copied(v2, Written)

RewriteBase == RewriteTypeOK /\ Given /\ JobOK

\* The given rows hold all items of the list.
Within(rows, names) ==
    \A i \in 1..Len(contents) : \E r \in names : rows[r] = contents[i]

\* The strengthening of NothingIsLost: the rows of the list's format hold all
\* its items, and so does what a rewrite has read; an undo, which knows its
\* rows by what they hold, takes none of them for its own.
Lossless ==
    /\ meta = NoMeta => contents = <<>>
    /\ meta.format = 1 => Within(v1, First(meta.length))
    /\ meta.format = 2 => Within(v2, Rows)
    /\ job.step \in Copying \cup {"down_copy", "down_flip"} =>
        \A i \in 1..Len(contents) :
            \E k \in 1..Len(job.values) : contents[i] = job.values[k]
    /\ job.step = "rollback" =>
        \A i \in 1..Len(contents), k \in 1..Len(job.values) :
            contents[i] # job.values[k]
    /\ job.step = "down_copy" =>
        Copied(v1, job.next) \/ (lapsed /\ contents = <<>>)
    /\ job.step = "down_flip" =>
        Copied(v1, Len(job.values)) \/ (lapsed /\ contents = <<>>)

\* The strengthening of ContentsAreKept: the rows hold nothing but the items,
\* in order, but for what is still to be undone; and where there is no list,
\* no rows of format 2 are left for the next one.
Exact ==
    /\ meta.format = 1 =>
        /\ meta.changed # "no"
        /\ Len(contents) = meta.length
        /\ \A r \in First(meta.length) : v1[r] = contents[r + 1]
    /\ meta.format = 2 /\ job.step # "rollback" => InOrder(v2, Rows) = contents
    /\ job.step = "rollback" =>
        /\ InOrder(v2, Rows \ Residue) = contents
        /\ meta = NoMeta => Held(v2) \subseteq Residue
    /\ meta = NoMeta /\ job.step \notin {"copy", "meta", "rollback"} =>
        Held(v2) = {}
    /\ job.step \in Copying => meta = NoMeta \/ job.values = contents
    /\ job.step = "flip" => meta # NoMeta
    /\ job.step \in {"down_copy", "down_flip"} => job.values = contents

\* The inductive invariants, of whatever happens and of the time before a
\* window was open.
RewriteInv == RewriteBase /\ Lossless
ExactInv == RewriteInv /\ (lapsed \/ Exact)

-----------------------------------------------------------------------------
(* Items in the order of their rows.                                       *)

\* The rows of a set that hold an item, those before one, and the row in a
\* position.
Present(rows, names) == Held(rows) \cap names
Before(P, r) == {s \in P : s < r}
Nth(P, i) == CHOOSE r \in P : Cardinality(Before(P, r)) = i - 1

\* The constants are numbers, and the rows can be counted.
LEMMA Numbers ==
    /\ MaxInitial \in Nat /\ MaxAppends \in Nat /\ MaxItems \in Nat
    /\ Rows \subseteq Nat /\ IsFiniteSet(Rows) /\ Cardinality(Rows) = MaxItems
    /\ Items \subseteq Nat /\ NoItem \notin Items
<1>1. MaxInitial \in Nat /\ MaxAppends \in Nat /\ MaxItems \in Nat
  BY BoundsAssumption DEF MaxItems
<1>2. Rows \subseteq Nat /\ Items \subseteq Nat /\ NoItem \notin Items
  BY <1>1 DEF Rows, Items, NoItem
<1>3. IsFiniteSet(0..(MaxItems - 1))
  BY <1>1, FS_Interval
<1>4. Cardinality(0..(MaxItems - 1))
        = IF 0 > MaxItems - 1 THEN 0 ELSE MaxItems - 1 - 0 + 1
  BY <1>1, FS_Interval
<1>5. Cardinality(0..(MaxItems - 1)) = MaxItems
  BY <1>1, <1>4
<1> QED
  BY <1>1, <1>2, <1>3, <1>5 DEF Rows

\* Rows of a set have different numbers of rows before them, from none on.
LEMMA Positions ==
    ASSUME NEW P \in SUBSET Rows
    PROVE  /\ IsFiniteSet(P) /\ Cardinality(P) \in Nat
           /\ Cardinality(P) <= MaxItems
           /\ \A r \in P : Cardinality(Before(P, r)) + 1 \in 1..Cardinality(P)
           /\ \A r, s \in P : Cardinality(Before(P, r)) = Cardinality(Before(P, s))
                => r = s
           /\ \A i \in 1..Cardinality(P) :
                \E r \in P : Cardinality(Before(P, r)) = i - 1
<1> DEFINE n == Cardinality(P)
           f == [r \in P |-> Cardinality(Before(P, r)) + 1]
<1>1. IsFiniteSet(P) /\ n \in Nat /\ n <= MaxItems
  BY Numbers, FS_Subset, FS_CardinalityType
<1>2. ASSUME NEW r
      PROVE  IsFiniteSet(Before(P, r)) /\ Cardinality(Before(P, r)) \in Nat
  <2>1. Before(P, r) \subseteq P
    BY DEF Before
  <2>2. IsFiniteSet(Before(P, r))
    BY <1>1, <2>1, FS_Subset
  <2> QED
    BY <2>2, FS_CardinalityType
<1>3. ASSUME NEW r \in P
      PROVE  Cardinality(Before(P, r)) + 1 \in 1..n
  <2>1. Before(P, r) \cup {r} \subseteq P
    BY DEF Before
  <2>2. r \notin Before(P, r)
    BY Numbers DEF Before
  <2>3. Cardinality(Before(P, r) \cup {r}) = Cardinality(Before(P, r)) + 1
    BY <1>2, <2>2, FS_AddElement
  <2>4. Cardinality(Before(P, r) \cup {r}) <= n
    BY <1>1, <2>1, FS_Subset
  <2> HIDE DEF n
  <2> QED
    BY <1>1, <1>2, <2>3, <2>4
<1>4. ASSUME NEW r \in P, NEW s \in P, r < s
      PROVE  Cardinality(Before(P, r)) < Cardinality(Before(P, s))
  <2>1. Before(P, r) \cup {r} \subseteq Before(P, s)
    <3>1. r \in Nat /\ s \in Nat /\ P \subseteq Nat
      BY Numbers
    <3>2. ASSUME NEW t \in Before(P, r)
          PROVE  t \in Before(P, s)
      <4>1. t \in P /\ t \in Nat /\ t < r
        BY <3>1 DEF Before
      <4>2. t < s
        BY <1>4, <3>1, <4>1
      <4> QED
        BY <4>1, <4>2 DEF Before
    <3>3. r \in Before(P, s)
      BY <1>4 DEF Before
    <3> QED
      BY <3>2, <3>3
  <2>2. r \notin Before(P, r)
    BY Numbers DEF Before
  <2>3. Cardinality(Before(P, r) \cup {r}) = Cardinality(Before(P, r)) + 1
    BY <1>2, <2>2, FS_AddElement
  <2>4. Cardinality(Before(P, r) \cup {r}) <= Cardinality(Before(P, s))
    BY <1>2, <2>1, FS_Subset
  <2> QED
    BY <1>2, <2>3, <2>4
<1>5. ASSUME NEW r \in P, NEW s \in P,
             Cardinality(Before(P, r)) = Cardinality(Before(P, s))
      PROVE  r = s
  <2>1. r \in Nat /\ s \in Nat
    BY Numbers
  <2>2. ~(r < s) /\ ~(s < r)
    <3>1. Cardinality(Before(P, r)) \in Nat
      BY <1>2
    <3> QED
      BY <1>4, <1>5, <3>1
  <2> QED
    BY <2>1, <2>2
<1>6. ASSUME NEW i \in 1..n
      PROVE  \E r \in P : Cardinality(Before(P, r)) = i - 1
  <2>1. f \in [P -> 1..n]
    BY <1>3
  <2>2. ASSUME NEW r \in P, NEW s \in P, f[r] = f[s]
        PROVE  r = s
    BY <1>2, <1>5, <2>2
  <2>3. f \in Injection(P, 1..n)
    BY <2>1, <2>2 DEF Injection, IsInjective
  <2>4. IsFiniteSet(1..n) /\ Cardinality(1..n) = n
    <3>1. Cardinality(1..n) = IF 1 > n THEN 0 ELSE n - 1 + 1
      BY <1>1, FS_Interval
    <3>2. IsFiniteSet(1..n)
      BY <1>1, FS_Interval
    <3> HIDE DEF n
    <3> QED
      BY <1>1, <3>1, <3>2
  <2>5. f \in Surjection(P, 1..n)
    <3> HIDE DEF f
    <3> QED
      BY <2>3, <2>4, FS_Injection
  <2>6. PICK r \in P : f[r] = i
    BY <2>5 DEF Surjection
  <2> QED
    BY <1>2, <2>6
<1> QED
  BY <1>1, <1>3, <1>5, <1>6

\* The row in a position.
LEMMA NthIs ==
    ASSUME NEW P \in SUBSET Rows
    PROVE  /\ \A i \in 1..Cardinality(P) :
                Nth(P, i) \in P /\ Cardinality(Before(P, Nth(P, i))) = i - 1
           /\ \A r \in P : Nth(P, Cardinality(Before(P, r)) + 1) = r
<1>1. ASSUME NEW i \in 1..Cardinality(P)
      PROVE  Nth(P, i) \in P /\ Cardinality(Before(P, Nth(P, i))) = i - 1
  BY Positions DEF Nth
<1>2. ASSUME NEW r \in P
      PROVE  Nth(P, Cardinality(Before(P, r)) + 1) = r
  <2> DEFINE i == Cardinality(Before(P, r)) + 1
  <2>1. i \in 1..Cardinality(P)
    BY Positions
  <2>2. Cardinality(Before(P, Nth(P, i))) = i - 1 /\ Nth(P, i) \in P
    BY <1>1, <2>1
  <2>3. i - 1 = Cardinality(Before(P, r))
    <3>1. Before(P, r) \in SUBSET Rows
      BY DEF Before
    <3>2. Cardinality(Before(P, r)) \in Nat
      BY <3>1, Positions
    <3> QED
      BY <3>2
  <2> QED
    BY <2>2, <2>3, Positions
<1> QED
  BY <1>1, <1>2

\* Only rows hold items.
LEMMA PresentAreRows ==
    ASSUME NEW f, NEW A
    PROVE  Present(f, A) \in SUBSET Rows
BY DEF Present, Held

\* The items of the rows in order, as a function of their positions.
LEMMA InOrderIs ==
    ASSUME NEW f, NEW A
    PROVE  InOrder(f, A) = [i \in 1..Cardinality(Present(f, A)) |->
                               f[Nth(Present(f, A), i)]]
BY DEF InOrder, Present, Nth, Before

\* The same items in the same rows are the same items in order.
LEMMA SameInOrder ==
    ASSUME NEW f, NEW A, NEW g, NEW B, Present(f, A) = Present(g, B),
           \A r \in Present(f, A) : f[r] = g[r]
    PROVE  InOrder(f, A) = InOrder(g, B)
<1> DEFINE P == Present(f, A)
<1>1. \A i \in 1..Cardinality(P) : Nth(P, i) \in P
  BY PresentAreRows, NthIs
<1>2. InOrder(f, A) = [i \in 1..Cardinality(P) |-> f[Nth(P, i)]]
  BY InOrderIs
<1>3. InOrder(g, B) = [i \in 1..Cardinality(P) |-> g[Nth(P, i)]]
  BY InOrderIs
<1>4. \A i \in 1..Cardinality(P) : f[Nth(P, i)] = g[Nth(P, i)]
  BY <1>1
<1> HIDE DEF P
<1> QED
  BY <1>2, <1>3, <1>4

\* What is read in order are the items that are there.
LEMMA ReadInOrder ==
    ASSUME NEW f \in [Rows -> Items \cup {NoItem}], NEW A
    PROVE  /\ InOrder(f, A) \in Seq(Items) /\ Len(InOrder(f, A)) <= MaxItems
           /\ \A k \in 1..Len(InOrder(f, A)) :
                \E r \in Present(f, A) : InOrder(f, A)[k] = f[r]
           /\ \A r \in Present(f, A) :
                \E k \in 1..Len(InOrder(f, A)) : InOrder(f, A)[k] = f[r]
<1> DEFINE P == Present(f, A)
           n == Cardinality(P)
<1>1. P \in SUBSET Rows
  BY PresentAreRows
<1>2. n \in Nat /\ n <= MaxItems
  BY <1>1, Positions
<1>3. InOrder(f, A) = [i \in 1..n |-> f[Nth(P, i)]]
  BY InOrderIs
<1>4. \A r \in P : f[r] \in Items
  BY DEF Present, Held
<1>5. \A i \in 1..n : Nth(P, i) \in P
  BY <1>1, NthIs
<1>6. ASSUME NEW r \in P
      PROVE  \E k \in 1..n : InOrder(f, A)[k] = f[r]
  <2>1. Cardinality(Before(P, r)) + 1 \in 1..n
    BY <1>1, Positions
  <2>2. Nth(P, Cardinality(Before(P, r)) + 1) = r
    BY <1>1, NthIs
  <2> QED
    BY <1>3, <2>1, <2>2
<1> HIDE DEF P, n
<1>7. InOrder(f, A) \in Seq(Items) /\ Len(InOrder(f, A)) = n
  BY <1>2, <1>3, <1>4, <1>5
<1> QED
  BY <1>2, <1>3, <1>4, <1>5, <1>6, <1>7 DEF P

\* A row after all others adds its item at the end.
LEMMA AppendInOrder ==
    ASSUME NEW f \in [Rows -> Items \cup {NoItem}], NEW A,
           NEW g \in [Rows -> Items \cup {NoItem}], NEW B, NEW m \in Rows,
           \A r \in Present(f, A) : r < m,
           Present(g, B) = Present(f, A) \cup {m},
           \A r \in Present(f, A) : g[r] = f[r]
    PROVE  InOrder(g, B) = Append(InOrder(f, A), g[m])
<1> DEFINE P == Present(f, A)
           Q == Present(g, B)
           n == Cardinality(P)
<1>1. P \in SUBSET Rows /\ Q \in SUBSET Rows
  BY PresentAreRows
<1>2. n \in Nat /\ IsFiniteSet(P)
  BY <1>1, Positions
<1>3. m \notin P
  BY Numbers
<1>4. Cardinality(Q) = n + 1
  BY <1>2, <1>3, FS_AddElement
<1>5. \A r \in P : Before(Q, r) = Before(P, r)
  <2>1. ASSUME NEW r \in P
        PROVE  Before(Q, r) = Before(P, r)
    <3>1. r \in Nat /\ m \in Nat /\ r < m
      BY <1>1, Numbers
    <3>2. ~(m < r)
      BY <3>1
    <3>3. Q = P \cup {m}
      OBVIOUS
    <3> QED
      BY <3>2, <3>3 DEF Before
  <2> QED
    BY <2>1
<1>6. Before(Q, m) = P
  <2>1. m \in Nat /\ ~(m < m)
    BY Numbers
  <2> QED
    BY <2>1 DEF Before
<1>7. ASSUME NEW i \in 1..n
      PROVE  Nth(Q, i) = Nth(P, i) /\ Nth(P, i) \in P
  <2>1. Nth(P, i) \in P /\ Cardinality(Before(P, Nth(P, i))) = i - 1
    BY <1>1, NthIs
  <2>2. Nth(P, i) \in Q /\ Cardinality(Before(Q, Nth(P, i))) = i - 1
    BY <1>5, <2>1
  <2>3. Nth(Q, Cardinality(Before(Q, Nth(P, i))) + 1) = Nth(P, i)
    BY <1>1, <2>2, NthIs
  <2>4. i - 1 + 1 = i
    BY <1>2
  <2> QED
    BY <2>1, <2>2, <2>3, <2>4
<1>8. Nth(Q, n + 1) = m
  BY <1>1, <1>6, NthIs
<1>9. InOrder(f, A) = [i \in 1..n |-> f[Nth(P, i)]]
  BY InOrderIs
<1>10. InOrder(g, B) = [i \in 1..n + 1 |-> g[Nth(Q, i)]]
  BY <1>4, InOrderIs
<1>11. InOrder(f, A) \in Seq(Items) /\ Len(InOrder(f, A)) = n
  <2>1. InOrder(f, A) \in Seq(Items)
    BY ReadInOrder
  <2> HIDE DEF P, n
  <2> QED
    BY <1>2, <1>9, <2>1
<1>12. Append(InOrder(f, A), g[m])
         = [i \in 1..n + 1 |-> IF i <= n THEN f[Nth(P, i)] ELSE g[m]]
  <2> HIDE DEF P, n
  <2> QED
    BY <1>2, <1>9, <1>11
<1>13. ASSUME NEW i \in 1..n + 1
       PROVE  g[Nth(Q, i)] = IF i <= n THEN f[Nth(P, i)] ELSE g[m]
  <2>1. CASE i <= n
    BY <1>2, <1>7, <2>1
  <2>2. CASE ~(i <= n)
    <3>1. i = n + 1
      <4> HIDE DEF n
      <4> QED
        BY <1>2, <2>2
    <3> QED
      BY <1>8, <2>2, <3>1
  <2> QED
    BY <2>1, <2>2
<1> QED
  BY <1>10, <1>12, <1>13

\* The first rows are numbered from 0,
LEMMA FirstRows ==
    ASSUME NEW n \in Nat, n <= MaxItems
    PROVE  /\ First(n) = 0..(n - 1) /\ First(n) \subseteq Rows
           /\ Cardinality(First(n)) = n
<1>1. First(n) = 0..(n - 1)
  BY Numbers DEF First, Rows
<1>2. Cardinality(0..(n - 1)) = IF 0 > n - 1 THEN 0 ELSE n - 1 - 0 + 1
  <2>1. n - 1 \in Int /\ 0 \in Int
    OBVIOUS
  <2> QED
    BY <2>1, FS_Interval
<1>3. Cardinality(0..(n - 1)) = n
  BY <1>2
<1> QED
  BY <1>1, <1>3 DEF First

\* Rows without gaps are read as they were written.
LEMMA DenseInOrder ==
    ASSUME NEW f, NEW A, NEW s \in Seq(Items), Len(s) <= MaxItems,
           Present(f, A) = First(Len(s)),
           \A r \in First(Len(s)) : f[r] = s[r + 1]
    PROVE  InOrder(f, A) = s
<1> DEFINE n == Len(s)
           P == First(n)
<1>1. n \in Nat /\ n <= MaxItems
  OBVIOUS
<1>2. P = 0..(n - 1) /\ Cardinality(P) = n /\ P \in SUBSET Rows
  BY <1>1, FirstRows
<1>3. ASSUME NEW r \in P
      PROVE  Cardinality(Before(P, r)) = r
  <2>1. r \in Nat /\ r < n
    BY <1>1, <1>2
  <2>2. Before(P, r) = 0..(r - 1)
    BY <1>1, <1>2, <2>1 DEF Before
  <2>3. r <= MaxItems
    BY <1>1, <2>1, Numbers
  <2>4. Cardinality(First(r)) = r /\ First(r) = 0..(r - 1)
    BY <2>1, <2>3, FirstRows
  <2> QED
    BY <2>2, <2>4
<1>4. ASSUME NEW i \in 1..n
      PROVE  Nth(P, i) = i - 1 /\ i - 1 \in P
  <2>1. i - 1 \in P
    BY <1>1, <1>2
  <2>2. Nth(P, i - 1 + 1) = i - 1
    BY <1>2, <1>3, <2>1, NthIs
  <2>3. i - 1 + 1 = i
    BY <1>1
  <2> QED
    BY <2>1, <2>2, <2>3
<1>5. InOrder(f, A) = [i \in 1..n |-> f[Nth(P, i)]]
  BY <1>2, InOrderIs
<1>6. \A i \in 1..n : f[Nth(P, i)] = s[i]
  <2>1. ASSUME NEW i \in 1..n
        PROVE  f[Nth(P, i)] = s[i]
    <3>1. f[i - 1] = s[i - 1 + 1]
      BY <1>4
    <3>2. i - 1 + 1 = i
      BY <1>1
    <3> QED
      BY <1>4, <3>1, <3>2
  <2> QED
    BY <2>1
<1>7. s = [i \in 1..n |-> s[i]]
  OBVIOUS
<1> QED
  BY <1>5, <1>6, <1>7

\* No rows, no items.
LEMMA NothingInOrder ==
    ASSUME NEW f, NEW A, Present(f, A) = {}
    PROVE  InOrder(f, A) = <<>>
<1>1. <<>> \in Seq(Items) /\ Len(<<>>) = 0 /\ Len(<<>>) <= MaxItems
  BY Numbers
<1>2. First(0) = {}
  BY Numbers DEF First, Rows
<1> QED
  BY <1>1, <1>2, DenseInOrder

\* one more makes them longer by the next row,
LEMMA FirstSteps ==
    ASSUME NEW n \in Rows
    PROVE  First(n + 1) = First(n) \cup {n} /\ n \notin First(n)
<1>1. n \in Nat /\ Rows \subseteq Nat
  BY Numbers
<1>2. \A r \in Nat : (r < n + 1) <=> (r < n \/ r = n)
  BY <1>1
<1>3. ~(n < n)
  BY <1>1
<1> QED
  BY <1>1, <1>2, <1>3 DEF First

\* and none are no rows.
LEMMA FirstOfNone == First(0) = {}
<1>1. \A r \in Nat : ~(r < 0)
  OBVIOUS
<1> QED
  BY <1>1, Numbers DEF First

\* A later append makes the bound on the items given larger.
LEMMA LaterIsLarger ==
    ASSUME NEW m \in Nat, NEW a \in Nat, NEW b \in Nat, b = a \/ b = a + 1
    PROVE  /\ 0 <= m + b /\ m + b <= m + b
           /\ \A x \in Nat : x <= m + a => x <= m + b
OBVIOUS

-----------------------------------------------------------------------------
(* The types.                                                              *)

\* Removing rows only removes.
LEMMA RemoveRemoves ==
    ASSUME RewriteTypeOK, NEW names, Remove(names)
    PROVE  /\ v1' \in [Rows -> Items \cup {NoItem}]
           /\ v2' \in [Rows -> Items \cup {NoItem}]
           /\ Held(v1') \subseteq Held(v1) /\ Held(v2') \subseteq Held(v2)
           /\ \A r \in Held(v1') : v1'[r] = v1[r]
           /\ \A r \in Held(v2') : v2'[r] = v2[r]
           /\ \A r \in Rows : v1'[r] = IF <<1, r>> \in names THEN NoItem ELSE v1[r]
           /\ \A r \in Rows : v2'[r] = IF <<2, r>> \in names THEN NoItem ELSE v2[r]
           /\ \A r \in Held(v2) : <<2, r>> \notin names => r \in Held(v2')
BY DEF Remove, RewriteTypeOK, Held

\* Rows of one format are removed without the other.
LEMMA RemoveOneFormat ==
    ASSUME RewriteTypeOK, NEW names, Remove(names)
    PROVE  /\ names \subseteq {2} \X Rows => v1' = v1
           /\ names \subseteq {1} \X Rows => v2' = v2
<1>1. v1 = [r \in Rows |-> v1[r]] /\ v2 = [r \in Rows |-> v2[r]]
  BY DEF RewriteTypeOK
<1>2. ASSUME names \subseteq {2} \X Rows
      PROVE  v1' = v1
  <2>1. \A r \in Rows : <<1, r>> \notin names
    BY <1>2
  <2>2. v1' = [r \in Rows |-> v1[r]]
    BY <2>1 DEF Remove
  <2> QED
    BY <1>1, <2>2
<1>3. ASSUME names \subseteq {1} \X Rows
      PROVE  v2' = v2
  <2>1. \A r \in Rows : <<2, r>> \notin names
    BY <1>3
  <2>2. v2' = [r \in Rows |-> v2[r]]
    BY <2>1 DEF Remove
  <2> QED
    BY <1>1, <2>2
<1> QED
  BY <1>2, <1>3

\* The type of a job.
Jobs == [step : RewriteSteps, allowed : BOOLEAN, length : 0..MaxItems,
         orphans : SUBSET Rows, values : Seq(Items), next : 0..MaxItems,
         names : SUBSET Names]

\* Assignments to a job that keep its type.
LEMMA JobsCanDo ==
    ASSUME NEW j \in Jobs
    PROVE  /\ \A s \in RewriteSteps : [j EXCEPT !.step = s] \in Jobs
           /\ \A s \in RewriteSteps, N \in SUBSET Names :
                [j EXCEPT !.step = s, !.names = N] \in Jobs
           /\ \A s \in RewriteSteps, n \in 0..MaxItems :
                [j EXCEPT !.step = s, !.next = n] \in Jobs
           /\ \A s \in RewriteSteps, n \in 0..MaxItems :
                [j EXCEPT !.step = s, !.length = n] \in Jobs
           /\ \A s \in RewriteSteps, o \in SUBSET Rows :
                [j EXCEPT !.step = s, !.orphans = o] \in Jobs
           /\ \A s \in RewriteSteps, v \in Seq(Items) :
                [j EXCEPT !.step = s, !.values = v] \in Jobs
           /\ \A s \in RewriteSteps, a \in BOOLEAN :
                [j EXCEPT !.step = s, !.allowed = a] \in Jobs
BY DEF Jobs

\* No job is a job.
LEMMA NoJobIsAJob == NoJob \in Jobs
BY Numbers DEF NoJob, Jobs, RewriteSteps

\* The metadata row and the format read off it.
LEMMA MetaIs ==
    ASSUME RewriteTypeOK
    PROVE  /\ meta.format \in {0, 1, 2}
           /\ meta.format = 0 <=> meta = NoMeta
           /\ meta.format = 0 => Format = 2
           /\ meta.format # 0 => Format = meta.format
           /\ meta.format # 0 => meta \in Metas
<1>1. NoMeta.format = 0
  BY DEF NoMeta
<1>2. CASE meta = NoMeta
  BY <1>1, <1>2 DEF Format
<1>3. CASE meta \in Metas
  <2>1. meta.format \in {1, 2}
    BY <1>3 DEF Metas
  <2>2. meta # NoMeta
    BY <1>1, <2>1
  <2> QED
    BY <1>3, <2>1, <2>2 DEF Format
<1> QED
  BY <1>2, <1>3 DEF RewriteTypeOK

\* A rewrite starts with nothing read.
LEMMA StartsAnew ==
    ASSUME Migrate \/ Downgrade \/ Crash
    PROVE  /\ job'.values = <<>> /\ job'.next = 0 /\ job'.names = {}
           /\ job'.step \in {"idle", "check", "down_check"}
<1>1. NoJob \in Jobs /\ NoJob.step = "idle" /\ NoJob.values = <<>> /\ NoJob.next = 0
      /\ NoJob.names = {}
  BY NoJobIsAJob DEF NoJob
<1>2. CASE Migrate
  <2>1. PICK allowed \in BOOLEAN :
          job' = [NoJob EXCEPT !.step = "check", !.allowed = allowed]
    BY <1>2 DEF Migrate
  <2> QED
    BY <1>1, <2>1 DEF Jobs
<1>3. CASE Downgrade
  <2>1. job' = [NoJob EXCEPT !.step = "down_check"]
    BY <1>3 DEF Downgrade
  <2> QED
    BY <1>1, <2>1 DEF Jobs
<1>4. CASE Crash
  BY <1>1, <1>4 DEF Crash
<1> QED
  BY <1>2, <1>3, <1>4

\* The row a loop is at.
LEMMA RowToCopy ==
    ASSUME RewriteTypeOK, JobOK, job.values # <<>>, job.step \in Counting
    PROVE  /\ job.next \in Rows /\ job.next \in Nat /\ job.next < Len(job.values)
           /\ job.next + 1 \in 1..Len(job.values)
           /\ job.values[job.next + 1] \in Items
<1>1. Len(job.values) \in Nat /\ Len(job.values) <= MaxItems /\ Len(job.values) > 0
  BY DEF RewriteTypeOK, JobOK
<1>2. job.next \in Nat /\ job.next < Len(job.values)
  BY <1>1 DEF RewriteTypeOK, JobOK
<1> QED
  BY <1>1, <1>2, Numbers DEF Rows, RewriteTypeOK

\* What a step of a loop does to the job.
LEMMA LoopDoes ==
    ASSUME RewriteTypeOK, JobOK, NEW s \in RewriteSteps,
           NEW t \in RewriteSteps, Loop(s, t), job.step \in Counting
    PROVE  /\ job' \in Jobs
           /\ job'.values = job.values
           /\ \/ /\ job'.step = s /\ job'.next = job.next + 1
                 /\ job'.next < Len(job.values)
                 /\ job.values # <<>>
              \/ /\ job'.step = t /\ job'.next = 0
                 /\ \/ job.values = <<>> /\ job.next = 0
                    \/ job.values # <<>> /\ job.next + 1 = Len(job.values)
<1>1. job \in Jobs /\ job.next \in Nat /\ Len(job.values) \in Nat
      /\ Len(job.values) <= MaxItems /\ job.values \in Seq(Items)
  BY DEF RewriteTypeOK, Jobs, JobOK
<1>2. CASE job.next + 1 < Len(job.values)
  <2>1. job' = [job EXCEPT !.step = s, !.next = job.next + 1]
    BY <1>2 DEF Loop
  <2>2. job.next + 1 \in 0..MaxItems /\ job.values # <<>>
    BY <1>1, <1>2, Numbers
  <2>3. job' \in Jobs
    BY <1>1, <2>1, <2>2, JobsCanDo
  <2>4. job'.step = s /\ job'.next = job.next + 1 /\ job'.values = job.values
    BY <1>1, <2>1 DEF Jobs
  <2> QED
    BY <1>2, <2>2, <2>3, <2>4
<1>3. CASE ~(job.next + 1 < Len(job.values))
  <2>1. job' = [job EXCEPT !.step = t, !.next = 0]
    BY <1>3 DEF Loop
  <2>2. 0 \in 0..MaxItems
    BY Numbers
  <2>3. job' \in Jobs
    BY <1>1, <2>1, <2>2, JobsCanDo
  <2>4. job'.step = t /\ job'.next = 0 /\ job'.values = job.values
    BY <1>1, <2>1 DEF Jobs
  <2>5. CASE job.values = <<>>
    <3>1. job.next = 0 \/ job.next < Len(job.values)
      BY DEF JobOK
    <3>2. Len(job.values) = 0
      BY <2>5
    <3>3. job.next = 0
      BY <1>1, <3>1, <3>2
    <3>4. job'.next = 0
      BY <2>4
    <3> QED
      BY <2>3, <2>4, <2>5, <3>3, <3>4
  <2>6. CASE job.values # <<>>
    <3>1. job.next < Len(job.values)
      BY <2>6, RowToCopy
    <3> QED
      BY <1>1, <1>3, <2>3, <2>4, <2>6, <3>1
  <2> QED
    BY <2>5, <2>6
<1> QED
  BY <1>2, <1>3

\* Where an append to a list of format 2 goes.
LEMMA AppendsGoBehind ==
    ASSUME RewriteTypeOK, NEW item \in Items, Append2(item)
    PROVE  \E m \in Rows : /\ \A r \in Held(v2) : r < m
                           /\ v2' = [v2 EXCEPT ![m] = item]
<1> DEFINE next == IF Held(v2) = {} THEN 0
                   ELSE 1 + CHOOSE r \in Held(v2) : \A s \in Held(v2) : s <= r
<1>1. next \in Rows /\ v2' = [v2 EXCEPT ![next] = item]
  BY DEF Append2
<1>2. \A r \in Held(v2) : r < next
  <2>1. CASE Held(v2) = {}
    BY <2>1
  <2>2. CASE Held(v2) # {}
    <3>1. Held(v2) \subseteq Nat /\ IsFiniteSet(Held(v2))
      <4>1. Held(v2) \subseteq Rows
        BY DEF Held
      <4> QED
        BY <4>1, Numbers, FS_Subset
    <3>2. \E r \in Held(v2) : \A s \in Held(v2) : s <= r
      <4>1. PICK r \in Held(v2) :
              Cardinality(Before(Held(v2), r)) = Cardinality(Held(v2)) - 1
        <5>1. Held(v2) \in SUBSET Rows
          BY DEF Held
        <5>2. Cardinality(Held(v2)) # 0
          BY <2>2, <3>1, FS_EmptySet
        <5>3. Cardinality(Held(v2)) \in 1..Cardinality(Held(v2))
          BY <5>1, <5>2, Positions
        <5> QED
          BY <5>1, <5>3, Positions
      <4>2. Before(Held(v2), r) = Held(v2) \ {r}
        <5>1. Cardinality(Held(v2) \ {r}) = Cardinality(Held(v2)) - 1
          BY <3>1, FS_RemoveElement
        <5>2. Before(Held(v2), r) \subseteq Held(v2) \ {r}
          BY <3>1 DEF Before
        <5>3. IsFiniteSet(Held(v2) \ {r})
          BY <3>1, FS_Subset
        <5> QED
          BY <4>1, <5>1, <5>2, <5>3, FS_Subset
      <4>3. ASSUME NEW s \in Held(v2)
            PROVE  s <= r
        <5>1. s = r \/ s < r
          BY <4>2 DEF Before
        <5>2. s \in Nat /\ r \in Nat
          BY <3>1
        <5> QED
          BY <5>1, <5>2
      <4> QED
        BY <4>3
    <3> DEFINE last == CHOOSE r \in Held(v2) : \A s \in Held(v2) : s <= r
    <3>3. last \in Held(v2) /\ \A s \in Held(v2) : s <= last
      BY <3>2
    <3>4. next = 1 + last
      BY <2>2
    <3> HIDE DEF last, next
    <3>5. ASSUME NEW r \in Held(v2)
          PROVE  r < next
      <4>1. r \in Nat /\ last \in Nat /\ r <= last
        BY <3>1, <3>3
      <4> QED
        BY <3>4, <4>1
    <3> QED
      BY <3>5
  <2> QED
    BY <2>1, <2>2
<1> HIDE DEF next
<1> QED
  BY <1>1, <1>2

\* Every step keeps the types.
LEMMA TypeStays ==
    ASSUME RewriteTypeOK, JobOK, [RewriteNext]_rewriteVars
    PROVE  RewriteTypeOK'
<1>1. job \in Jobs /\ meta \in Metas \cup {NoMeta} /\ contents \in Seq(Items)
      /\ v1 \in [Rows -> Items \cup {NoItem}]
      /\ v2 \in [Rows -> Items \cup {NoItem}]
  BY DEF RewriteTypeOK, Jobs
<1> DEFINE RowsOK(rows) == rows \in [Rows -> Items \cup {NoItem}]
           Rest == /\ meta' \in Metas \cup {NoMeta} /\ contents' \in Seq(Items)
                   /\ lapsed' \in BOOLEAN
           CountsOK == /\ appends' \in 0..MaxAppends /\ clears' \in 0..MaxClears
                       /\ downgrades' \in 0..MaxDowngrades
                       /\ crashes' \in 0..MaxCrashes
<1>2. ASSUME job' \in Jobs, RowsOK(v1'), RowsOK(v2'), Rest, CountsOK
      PROVE  RewriteTypeOK'
  BY <1>2 DEF RewriteTypeOK, Jobs
<1>3. UNCHANGED <<meta, contents, lapsed>> => Rest
  BY <1>1 DEF RewriteTypeOK
<1>4. UNCHANGED counters => CountsOK
  BY DEF RewriteTypeOK, counters
<1>5. \A r \in Rows : r + 1 \in 0..MaxItems
  BY Numbers DEF Rows
<1>6. appends < MaxAppends => /\ MaxInitial + (appends + 1) \in Items
                              /\ appends + 1 \in 0..MaxAppends
  BY Numbers DEF RewriteTypeOK, Items, MaxItems
<1>7. crashes < MaxCrashes => crashes + 1 \in 0..MaxCrashes
  BY BoundsAssumption DEF RewriteTypeOK
<1>8. NewMeta(1) \in Metas /\ NewMeta(2) \in Metas
  BY Numbers DEF NewMeta, Metas
<1>9. UNCHANGED database => UNCHANGED <<v1, v2, meta>>
  BY DEF database
<1>10. UNCHANGED counters => UNCHANGED <<appends, clears, downgrades, crashes>>
  BY DEF counters
<1>11. CASE AppendItem
  <2> DEFINE item == MaxInitial + appends'
  <2>1. item \in Items /\ appends' \in 0..MaxAppends
    BY <1>6, <1>11 DEF AppendItem
  <2>2. CountsOK
    BY <1>11, <2>1 DEF AppendItem, RewriteTypeOK
  <2>3. contents' \in Seq(Items) /\ lapsed' \in BOOLEAN /\ job' \in Jobs
    <3>1. contents' = Append(contents, item) /\ UNCHANGED <<job, lapsed>>
      BY <1>11 DEF AppendItem
    <3> HIDE DEF item
    <3> QED
      BY <1>1, <2>1, <3>1 DEF RewriteTypeOK
  <2>4. Append1(item) \/ Append2(item)
    BY <1>11 DEF AppendItem
  <2> HIDE DEF item
  <2>5. CASE Append1(item) /\ meta # NoMeta
    <3>1. meta' = [meta EXCEPT !.length = @ + 1] /\ v2' = v2 /\ meta.length + 1 \in 0..MaxItems
      BY <1>5, <2>5 DEF Append1
    <3>2. meta' \in Metas
      BY <1>1, <2>5, <3>1 DEF Metas
    <3>3. RowsOK(v1')
      BY <1>1, <2>1, <2>5 DEF Append1
    <3> QED
      BY <1>1, <1>2, <2>2, <2>3, <3>1, <3>2, <3>3
  <2>6. CASE Append2(item)
    <3>1. RowsOK(v2') /\ v1' = v1
      BY <1>1, <2>1, <2>6 DEF Append2
    <3>2. meta' \in Metas \cup {NoMeta}
      BY <1>1, <1>8, <2>6 DEF Append2
    <3> QED
      BY <1>1, <1>2, <2>2, <2>3, <3>1, <3>2
  <2>7. meta = NoMeta => Append2(item)
    BY <1>11 DEF AppendItem, Format, item
  <2> QED
    BY <2>4, <2>5, <2>6, <2>7
<1>12. CASE AppendDies
  <2>1. RowsOK(v1') /\ CountsOK
    BY <1>1, <1>6, <1>7, <1>12 DEF AppendDies, RewriteTypeOK
  <2> QED
    BY <1>1, <1>2, <1>3, <1>12, <2>1 DEF AppendDies
<1>13. CASE ClearList
  <2>1. RowsOK(v1') /\ RowsOK(v2')
    BY <1>13, RemoveRemoves DEF ClearList
  <2>2. meta' \in Metas
    BY <1>8, <1>13, BoundsAssumption DEF ClearList
  <2>3. CountsOK
    BY <1>13, BoundsAssumption DEF ClearList, RewriteTypeOK
  <2>4. contents' \in Seq(Items) /\ lapsed' \in BOOLEAN /\ job' \in Jobs
    BY <1>1, <1>13 DEF ClearList, RewriteTypeOK
  <2> QED
    BY <1>2, <2>1, <2>2, <2>3, <2>4
<1>14. CASE DeleteList
  <2>1. RowsOK(v1') /\ RowsOK(v2')
    BY <1>14, RemoveRemoves DEF DeleteList
  <2>2. CountsOK
    BY <1>4, <1>14 DEF DeleteList
  <2>3. contents' \in Seq(Items) /\ lapsed' \in BOOLEAN /\ job' \in Jobs /\ meta' = NoMeta
    BY <1>1, <1>14 DEF DeleteList, RewriteTypeOK
  <2> QED
    BY <1>2, <2>1, <2>2, <2>3
<1>15. CASE Migrate
  <2>1. job' \in Jobs
    BY <1>15, NoJobIsAJob DEF Jobs, Migrate, RewriteSteps
  <2> QED
    BY <1>1, <1>2, <1>3, <1>4, <1>9, <1>15, <2>1 DEF Migrate
<1>16. CASE Downgrade
  <2>1. job' \in Jobs
    BY <1>16, NoJobIsAJob DEF Jobs, Downgrade, RewriteSteps, Downgrading
  <2>2. CountsOK
    BY <1>16, BoundsAssumption DEF Downgrade, RewriteTypeOK
  <2> QED
    BY <1>1, <1>2, <1>3, <1>9, <1>16, <2>1, <2>2 DEF Downgrade
<1>17. CASE Crash
  <2>1. job' \in Jobs /\ CountsOK
    BY <1>7, <1>17, NoJobIsAJob DEF Crash, RewriteTypeOK
  <2>2. Rest
    BY <1>1, <1>9, <1>17 DEF Crash, RewriteTypeOK
  <2> QED
    BY <1>1, <1>2, <1>9, <1>17, <2>1, <2>2 DEF Crash
<1>18. CASE Run
  <2>1. CountsOK
    BY <1>4, <1>18 DEF Run, Check, Verify, ReadItems, Recheck, ListLeftover,
       ClearLeftover, CopyRow, ReadMeta, Flip, Rollback, Cleanup, Sweep,
       DownCheck, DownRead, DownCopyRow, DownFlip, DownNames
  <2>2. CASE Check \/ DownCheck
    <3>1. job' \in Jobs
      <4>1. CASE DownCheck
        BY <1>1, <4>1 DEF Jobs, DownCheck, RewriteGoto, RewriteSteps,
           Downgrading
      <4>2. CASE Check /\ Format = 2
        BY <1>1, <4>2 DEF Jobs, Check, RewriteGoto, RewriteSteps
      <4>3. CASE Check /\ Format # 2
        <5>1. meta \in Metas
          BY <1>1, <4>3 DEF Format
        <5>2. meta.length \in 0..MaxItems
          BY <5>1 DEF Metas
        <5> QED
          BY <1>1, <4>3, <5>2 DEF Jobs, Check, RewriteSteps
      <4> QED
        BY <2>2, <4>1, <4>2, <4>3
    <3> QED
      BY <1>1, <1>2, <1>3, <1>9, <2>1, <2>2, <3>1 DEF Check, DownCheck
  <2>3. CASE Verify
    <3>1. job' \in Jobs
      <4>1. Orphans(job.length) \in SUBSET Rows
        BY DEF Orphans, Held
      <4> QED
        BY <1>1, <2>3, <4>1, NoJobIsAJob DEF Jobs, Verify, Done, RewriteSteps
    <3> QED
      BY <1>1, <1>2, <1>3, <1>9, <2>1, <2>3, <3>1 DEF Verify
  <2>4. CASE ReadItems \/ DownRead
    <3>1. InOrder(v1, First(job.length)) \in Seq(Items) /\ InOrder(v2, Rows) \in Seq(Items)
      BY <1>1, ReadInOrder
    <3>2. job' \in Jobs
      BY <1>1, <2>4, <3>1 DEF Jobs, ReadItems, DownRead, RewriteSteps,
         Downgrading
    <3> QED
      BY <1>1, <1>2, <1>3, <1>9, <2>1, <2>4, <3>2 DEF ReadItems, DownRead
  <2>5. CASE Recheck \/ ReadMeta
    <3>1. job' \in Jobs
      BY <1>1, <2>5 DEF Jobs, Recheck, ReadMeta, RewriteGoto, RewriteSteps
    <3> QED
      BY <1>1, <1>2, <1>3, <1>9, <2>1, <2>5, <3>1 DEF Recheck, ReadMeta
  <2>6. CASE ListLeftover \/ Sweep \/ DownNames
    <3>1. PICK s \in RewriteSteps, N \in SUBSET Names :
            job' = [job EXCEPT !.step = s, !.names = N]
      <4>1. \A formats : Stored(formats) \in SUBSET Names
        BY DEF Stored
      <4> QED
        BY <2>6, <4>1 DEF ListLeftover, Sweep, DownNames, With,
           RewriteSteps, Downgrading
    <3>2. job' \in Jobs
      BY <1>1, <3>1, JobsCanDo
    <3> QED
      BY <1>1, <1>2, <1>3, <1>9, <2>1, <2>6, <3>2 DEF ListLeftover, Sweep,
         DownNames
  <2>7. CASE ClearLeftover \/ Cleanup
    <3>1. RowsOK(v1') /\ RowsOK(v2')
      BY <1>1, <2>7, RemoveRemoves DEF ClearLeftover, Cleanup
    <3>2. job' \in Jobs
      <4>1. \/ job' = NoJob
            \/ job' = [job EXCEPT !.step = "copy"]
            \/ \E s \in RewriteSteps : \E n \in job.names :
                 job' = [job EXCEPT !.step = s, !.names = job.names \ {n}]
        BY <2>7 DEF ClearLeftover, Cleanup, With, RewriteGoto, Done,
           RewriteSteps
      <4>2. \A n \in job.names : job.names \ {n} \in SUBSET Names
        BY <1>1 DEF Jobs
      <4> QED
        BY <1>1, <4>1, <4>2, NoJobIsAJob DEF Jobs, RewriteSteps
    <3> QED
      BY <1>1, <1>2, <1>3, <2>1, <2>7, <3>1, <3>2 DEF ClearLeftover, Cleanup
  <2>8. CASE CopyRow \/ DownCopyRow
    <3>1. RowsOK(v1') /\ RowsOK(v2')
      <4>1. job.values # <<>> =>
              job.next \in Rows /\ job.values[job.next + 1] \in Items
        BY <2>8, RowToCopy DEF CopyRow, DownCopyRow, Counting
      <4> QED
        BY <1>1, <2>8, <4>1 DEF CopyRow, DownCopyRow
    <3>2. job' \in Jobs
      BY <2>8, LoopDoes DEF CopyRow, DownCopyRow, Counting, RewriteSteps,
         Downgrading
    <3> QED
      BY <1>1, <1>2, <1>3, <2>1, <2>8, <3>1, <3>2 DEF CopyRow, DownCopyRow
  <2>9. CASE Rollback
    <3>1. RowsOK(v1') /\ RowsOK(v2')
      BY <1>1, <2>9, RemoveRemoves DEF Rollback
    <3>2. job' \in Jobs
      BY <2>9, LoopDoes DEF Rollback, Counting, RewriteSteps
    <3> QED
      BY <1>1, <1>2, <1>3, <2>1, <2>9, <3>1, <3>2 DEF Rollback
  <2>10. CASE Flip
    <3>1. {1} \X (First(job.length) \cup job.orphans) \in SUBSET Names
      BY <1>1 DEF Jobs, First, Names
    <3>2. job' \in Jobs
      BY <1>1, <2>10, <3>1 DEF Jobs, Flip, With, RewriteSteps
    <3>3. meta' \in Metas
      BY <2>10, Numbers DEF Flip, Metas
    <3> QED
      BY <1>1, <1>2, <2>1, <2>10, <3>2, <3>3 DEF Flip, RewriteTypeOK
  <2>11. CASE DownFlip
    <3>1. job' \in Jobs
      BY <1>1, <2>11 DEF Jobs, DownFlip, RewriteGoto, RewriteSteps, Downgrading
    <3>2. Len(job.values) \in 0..MaxItems
      BY <1>1, Numbers DEF JobOK, Jobs
    <3>3. meta' \in Metas
      BY <2>11, <3>2 DEF DownFlip, Metas
    <3> QED
      BY <1>1, <1>2, <2>1, <2>11, <3>1, <3>3 DEF DownFlip, RewriteTypeOK
  <2> QED
    BY <1>18, <2>2, <2>3, <2>4, <2>5, <2>6, <2>7, <2>8, <2>9, <2>10, <2>11
       DEF Run
<1>19. CASE UNCHANGED rewriteVars
  BY <1>1, <1>2, <1>19 DEF rewriteVars, RewriteTypeOK
<1> QED
  BY <1>11, <1>12, <1>13, <1>14, <1>15, <1>16, <1>17, <1>18, <1>19 DEF
     RewriteNext

\* An item is given to one append only: the rows hold no later ones.
LEMMA GivenStays ==
    ASSUME RewriteBase, [RewriteNext]_rewriteVars
    PROVE  Given'
<1> DEFINE Old(x) == x <= MaxInitial + appends
           New(x) == x <= MaxInitial + appends'
           AllNew(rows) == \A r \in Rows : New(rows[r])
<1>1. RewriteTypeOK /\ JobOK /\ RewriteTypeOK' /\ Given
  BY TypeStays DEF RewriteBase
<1>2. /\ v1 \in [Rows -> Items \cup {NoItem}]
      /\ v2 \in [Rows -> Items \cup {NoItem}]
      /\ v1' \in [Rows -> Items \cup {NoItem}] /\ v2' \in [Rows -> Items \cup {NoItem}]
      /\ job.values \in Seq(Items) /\ job'.values \in Seq(Items)
  BY <1>1 DEF RewriteTypeOK
<1>3. /\ appends \in Nat /\ appends' \in Nat /\ MaxInitial \in Nat
      /\ NoItem \in Nat /\ Items \subseteq Nat
  BY <1>1, Numbers DEF RewriteTypeOK, NoItem
<1>4. appends' = appends \/ appends' = appends + 1
  BY <1>1 DEF RewriteNext, rewriteVars, AppendItem, AppendDies, ClearList,
     DeleteList, Migrate, Downgrade, Crash, Run, counters, Check, Verify,
     ReadItems, Recheck, ListLeftover, ClearLeftover, CopyRow, ReadMeta, Flip,
     Rollback, Cleanup, Sweep, DownCheck, DownRead, DownCopyRow, DownFlip,
     DownNames
<1>5. /\ 0 <= MaxInitial + appends' /\ MaxInitial + appends' <= MaxInitial + appends'
      /\ \A x \in Nat : x <= MaxInitial + appends => x <= MaxInitial + appends'
  BY <1>3, <1>4, LaterIsLarger
<1>22. New(NoItem)
  BY <1>5 DEF NoItem
<1>6. ASSUME NEW x \in Items \cup {NoItem}, Old(x)
      PROVE  New(x)
  BY <1>3, <1>5, <1>6
<1>7. /\ \A r \in Rows : Old(v1[r]) /\ Old(v2[r])
      /\ \A k \in 1..Len(job.values) : Old(job.values[k])
  BY <1>1 DEF Given
<1>8. New(MaxInitial + appends')
  BY <1>5
<1> HIDE DEF Old, New
<1>9. AllNew(v1) /\ AllNew(v2)
  BY <1>2, <1>6, <1>7
<1>10. \A k \in 1..Len(job.values) : New(job.values[k])
  BY <1>2, <1>6, <1>7
<1>11. ASSUME AllNew(v1'), AllNew(v2'), \A k \in 1..Len(job'.values) : New(job'.values[k])
       PROVE  Given'
  BY <1>11 DEF Given, New
<1>12. ASSUME NEW names, Remove(names)
       PROVE  AllNew(v1') /\ AllNew(v2')
  BY <1>1, <1>9, <1>12, <1>22, RemoveRemoves
<1>13. CASE AppendItem \/ AppendDies
  <2>1. job' = job
    BY <1>13 DEF AppendItem, AppendDies
  <2>2. AllNew(v1') /\ AllNew(v2')
    BY <1>2, <1>8, <1>9, <1>13 DEF AppendItem, AppendDies, Append1, Append2
  <2> QED
    BY <1>10, <1>11, <2>1, <2>2
<1>14. CASE ClearList \/ DeleteList
  <2>1. AllNew(v1') /\ AllNew(v2')
    BY <1>12, <1>14 DEF ClearList, DeleteList
  <2> QED
    BY <1>10, <1>11, <1>14, <2>1 DEF ClearList, DeleteList
<1>15. CASE Migrate \/ Downgrade \/ Crash
  <2>1. job'.values = <<>>
    BY <1>15, StartsAnew
  <2>2. \A k \in 1..Len(<<>>) : New(<<>>[k])
    OBVIOUS
  <2> QED
    BY <1>9, <1>11, <1>15, <2>1, <2>2 DEF Migrate, Downgrade, Crash, database
<1>16. CASE ReadItems \/ DownRead
  <2>1. /\ \A k \in 1..Len(InOrder(v1, First(job.length))) :
             \E r \in Rows : InOrder(v1, First(job.length))[k] = v1[r]
        /\ \A k \in 1..Len(InOrder(v2, Rows)) :
             \E r \in Rows : InOrder(v2, Rows)[k] = v2[r]
    BY <1>2, ReadInOrder, PresentAreRows
  <2>2. \/ job'.values = InOrder(v1, First(job.length))
        \/ job'.values = InOrder(v2, Rows)
    BY <1>1, <1>16 DEF ReadItems, DownRead, RewriteTypeOK
  <2>3. \A k \in 1..Len(job'.values) : New(job'.values[k])
    BY <1>9, <2>1, <2>2
  <2> QED
    BY <1>9, <1>11, <1>16, <2>3 DEF ReadItems, DownRead, database
<1>17. CASE CopyRow \/ DownCopyRow
  <2>1. job'.values = job.values
    BY <1>1, <1>17, LoopDoes DEF CopyRow, DownCopyRow, Counting,
       RewriteSteps, Downgrading
  <2>2. job.values # <<>> => New(job.values[job.next + 1])
    BY <1>1, <1>10, <1>17, RowToCopy DEF CopyRow, DownCopyRow, Counting
  <2>3. AllNew(v1') /\ AllNew(v2')
    BY <1>2, <1>9, <1>17, <2>2 DEF CopyRow, DownCopyRow
  <2> QED
    BY <1>10, <1>11, <2>1, <2>3
<1>18. CASE Rollback
  <2>1. job'.values = job.values
    BY <1>1, <1>18, LoopDoes DEF Rollback, Counting, RewriteSteps
  <2>2. AllNew(v1') /\ AllNew(v2')
    BY <1>9, <1>12, <1>18 DEF Rollback
  <2> QED
    BY <1>10, <1>11, <2>1, <2>2
<1>19. CASE ClearLeftover \/ Cleanup
  <2>1. job'.values = job.values \/ job'.values = <<>>
    <3>1. job \in Jobs /\ NoJob.values = <<>>
      BY <1>1 DEF RewriteTypeOK, Jobs, NoJob
    <3> QED
      BY <1>19, <3>1 DEF ClearLeftover, Cleanup, With, RewriteGoto, Done, Jobs
  <2>2. AllNew(v1') /\ AllNew(v2')
    BY <1>9, <1>12, <1>19 DEF ClearLeftover, Cleanup
  <2>3. \A k \in 1..Len(<<>>) : New(<<>>[k])
    OBVIOUS
  <2> QED
    BY <1>10, <1>11, <2>1, <2>2, <2>3
<1>20. CASE \/ Check \/ Verify \/ Recheck \/ ListLeftover \/ ReadMeta \/ Sweep
            \/ DownCheck \/ DownNames \/ Flip \/ DownFlip
  <2>1. job'.values = job.values \/ job'.values = <<>>
    <3>1. job \in Jobs /\ NoJob.values = <<>>
      BY <1>1 DEF RewriteTypeOK, Jobs, NoJob
    <3> QED
      BY <1>20, <3>1 DEF Check, Verify, Recheck, ListLeftover, ReadMeta,
         Sweep, DownCheck, DownNames, Flip, DownFlip, With, RewriteGoto, Done,
         Jobs
  <2>2. v1' = v1 /\ v2' = v2
    BY <1>20 DEF Check, Verify, Recheck, ListLeftover, ReadMeta, Sweep,
       DownCheck, DownNames, Flip, DownFlip, database
  <2>3. \A k \in 1..Len(<<>>) : New(<<>>[k])
    OBVIOUS
  <2> QED
    BY <1>9, <1>10, <1>11, <2>1, <2>2, <2>3
<1>21. CASE UNCHANGED rewriteVars
  BY <1>9, <1>10, <1>11, <1>21 DEF rewriteVars
<1> QED
  BY <1>13, <1>14, <1>15, <1>16, <1>17, <1>18, <1>19, <1>20, <1>21 DEF
     RewriteNext, Run

\* What a rewrite goes by stays so until it acts on it.
LEMMA JobStays ==
    ASSUME RewriteBase, [RewriteNext]_rewriteVars
    PROVE  JobOK'
<1>1. RewriteTypeOK /\ JobOK /\ RewriteTypeOK'
  BY TypeStays DEF RewriteBase
<1>2. job \in Jobs /\ meta \in Metas \cup {NoMeta}
  BY <1>1 DEF RewriteTypeOK, Jobs
<1>3. /\ v1 \in [Rows -> Items \cup {NoItem}]
      /\ v2 \in [Rows -> Items \cup {NoItem}]
      /\ meta.format \in {0, 1, 2} /\ (meta.format = 0 <=> meta = NoMeta)
      /\ (meta.format = 0 => Format = 2)
      /\ (meta.format # 0 => Format = meta.format)
  BY <1>1, MetaIs DEF RewriteTypeOK
<1>4. 0 <= MaxItems /\ Len(<<>>) = 0
  BY Numbers
<1>5. CASE AppendItem
  <2>1. job' = job /\ (AtRest \/ job.step = "rollback")
    BY <1>5 DEF AppendItem
  <2>2. CASE AtRest
    BY <1>1, <2>1, <2>2 DEF JobOK, AtRest, Reading, Copying
  <2>3. CASE job.step = "rollback"
    <3>1. meta.format # 1
      BY <1>1, <2>3 DEF JobOK
    <3>2. Append2(MaxInitial + appends')
      BY <1>3, <1>5, <3>1 DEF AppendItem
    <3>3. meta'.format # 1
      BY <3>1, <3>2 DEF Append2, NewMeta
    <3> QED
      BY <1>1, <2>1, <2>3, <3>3 DEF JobOK, Reading, Copying
  <2> QED
    BY <2>1, <2>2, <2>3
<1>6. CASE AppendDies \/ ClearList
  <2>1. job' = job /\ AtRest
    BY <1>6 DEF AppendDies, ClearList
  <2> QED
    BY <1>1, <2>1 DEF JobOK, AtRest, Reading, Copying
<1>7. CASE DeleteList
  <2>1. job' = job /\ meta' = NoMeta /\ Remove(Swept)
    BY <1>7 DEF DeleteList
  <2>2. Held(v2') \subseteq Held(v2) /\ \A r \in Held(v2') : v2'[r] = v2[r]
    BY <1>1, <2>1, RemoveRemoves
  <2>3. meta'.format = 0
    BY <2>1 DEF NoMeta
  <2>4. Written' = Written
    BY <2>1 DEF Written
  <2>5. job.step = "clear" => {2} \X Held(v2') \subseteq job.names
    BY <1>1, <2>2 DEF JobOK
  <2>6. job.step \in {"copy", "meta", "flip"} =>
          /\ Held(v2') \subseteq First(Written)
          /\ \A r \in Held(v2') : v2'[r] = job.values[r + 1]
    BY <1>1, <2>2 DEF JobOK
  <2> QED
    BY <1>1, <2>1, <2>3, <2>4, <2>5, <2>6 DEF JobOK
<1>8. CASE Migrate \/ Downgrade \/ Crash
  <2>1. /\ job'.values = <<>> /\ job'.next = 0
        /\ job'.step \in {"idle", "check", "down_check"}
    BY <1>8, StartsAnew
  <2> QED
    BY <1>4, <2>1 DEF JobOK, Reading, Copying
<1>9. CASE Check \/ DownCheck
  <2>1. /\ job'.values = job.values /\ job'.next = job.next /\ meta' = meta
        /\ \/ job'.step = "sweep"
           \/ job'.step = "verify" /\ Format # 2 /\ job'.length = meta.length
           \/ job'.step = "down_read" /\ Format = 2
    BY <1>2, <1>9 DEF Check, DownCheck, RewriteGoto, Jobs, database
  <2>2. job.next = 0
    BY <1>1, <1>9 DEF JobOK, Check, DownCheck, Counting
  <2> QED
    BY <1>1, <1>3, <2>1, <2>2 DEF JobOK, Reading, Copying
<1>10. CASE Verify
  <2>1. job.next = 0 /\ meta' = meta /\ meta.format # 2
        /\ (meta = NoMeta \/ job.length = meta.length)
    BY <1>1, <1>10 DEF JobOK, Verify, Counting, database, Reading
  <2>2. CASE job' = NoJob
    BY <1>4, <2>2 DEF JobOK, Reading, Copying, NoJob
  <2>3. CASE job' = [job EXCEPT !.step = "read", !.orphans = Orphans(job.length)]
    <3>1. /\ job'.values = job.values /\ job'.next = job.next
          /\ job'.step = "read" /\ job'.length = job.length
      BY <1>2, <2>3 DEF Jobs
    <3> QED
      BY <1>1, <2>1, <3>1 DEF JobOK, Reading, Copying
  <2> QED
    BY <1>10, <2>2, <2>3 DEF Verify, Done
<1>11. CASE ReadItems
  <2>1. /\ job.next = 0 /\ meta' = meta /\ meta.format # 2
    BY <1>1, <1>11 DEF JobOK, ReadItems, Counting, database, Reading
  <2>2. /\ job'.values = InOrder(v1, First(job.length)) /\ job'.next = job.next
        /\ job'.step = "recheck"
    BY <1>2, <1>11 DEF ReadItems, Jobs
  <2>3. Len(job'.values) <= MaxItems
    BY <1>3, <2>2, ReadInOrder
  <2> QED
    BY <2>1, <2>2, <2>3 DEF JobOK, Reading, Copying
<1>12. CASE DownRead
  <2>1. /\ job.next = 0 /\ meta' = meta /\ meta.format # 1
    BY <1>1, <1>12 DEF JobOK, DownRead, Counting, database
  <2>2. /\ job'.values = InOrder(v2, Rows) /\ job'.next = job.next
        /\ job'.step = "down_copy"
    BY <1>2, <1>12 DEF DownRead, Jobs
  <2>3. Len(job'.values) <= MaxItems
    BY <1>3, <2>2, ReadInOrder
  <2> QED
    BY <2>1, <2>2, <2>3 DEF JobOK, Reading, Copying
<1>13. CASE Recheck
  <2>1. /\ job.next = 0 /\ meta' = meta /\ meta.format # 2
    BY <1>1, <1>13 DEF JobOK, Recheck, Counting, database, Copying
  <2>2. /\ job'.values = job.values /\ job'.next = job.next /\ job'.step = "leftover"
    BY <1>2, <1>13, <2>1 DEF Recheck, RewriteGoto, Jobs
  <2> QED
    BY <1>1, <2>1, <2>2 DEF JobOK, Reading, Copying
<1>14. CASE ListLeftover
  <2>1. /\ job.next = 0 /\ meta' = meta /\ meta.format # 2 /\ v2' = v2
    BY <1>1, <1>14 DEF JobOK, ListLeftover, Counting, database, Copying
  <2>2. /\ job'.values = job.values /\ job'.next = job.next /\ job'.step = "clear"
        /\ job'.names = Stored({2})
    BY <1>2, <1>14, <2>1 DEF ListLeftover, With, Jobs
  <2>3. Stored({2}) \subseteq {2} \X Rows /\ {2} \X Held(v2) \subseteq Stored({2})
    BY DEF Stored, Names, Held
  <2> QED
    BY <1>1, <2>1, <2>2, <2>3 DEF JobOK, Reading, Copying
<1>15. CASE ClearLeftover
  <2>1. /\ job.next = 0 /\ meta' = meta /\ meta.format # 2
        /\ job.names \subseteq {2} \X Rows /\ {2} \X Held(v2) \subseteq job.names
        /\ Len(job.values) <= MaxItems
    BY <1>1, <1>15 DEF JobOK, ClearLeftover, Counting, Copying
  <2>2. CASE job.names = {}
    <3>1. job' = [job EXCEPT !.step = "copy"] /\ v2' = v2
      BY <1>15, <2>2 DEF ClearLeftover, RewriteGoto
    <3>2. job'.step = "copy" /\ job'.values = job.values /\ job'.next = job.next
      BY <1>2, <3>1 DEF Jobs
    <3>3. Held(v2') = {}
      <4>1. \A r \in Held(v2) : <<2, r>> \in job.names
        BY <2>1
      <4> QED
        BY <2>2, <3>1, <4>1
    <3>4. Written' = 0 /\ First(0) = {}
      BY <2>1, <3>2, FirstOfNone DEF Written
    <3>5. Copied(v2, Written)'
      BY <3>4 DEF Copied
    <3> QED
      BY <2>1, <3>2, <3>3, <3>5 DEF JobOK, Reading, Copying
  <2>3. CASE job.names # {}
    <3>1. PICK n \in job.names : /\ Remove({n})
                                 /\ job' = [job EXCEPT !.step = "clear",
                                                       !.names = job.names \ {n}]
      BY <1>15, <2>3 DEF ClearLeftover, With
    <3>2. /\ job'.step = "clear" /\ job'.values = job.values /\ job'.next = job.next
          /\ job'.names = job.names \ {n}
      BY <1>2, <3>1 DEF Jobs
    <3>3. {2} \X Held(v2') \subseteq job.names \ {n}
      <4>1. Held(v2') \subseteq Held(v2)
        BY <1>1, <3>1, RemoveRemoves
      <4>2. \A r \in Held(v2') : <<2, r>> # n
        BY <1>1, <3>1, RemoveRemoves DEF Held
      <4> QED
        BY <2>1, <4>1, <4>2
    <3> QED
      BY <2>1, <3>2, <3>3 DEF JobOK, Reading, Copying
  <2> QED
    BY <2>2, <2>3
<1>16. CASE CopyRow
  <2>1. /\ meta' = meta /\ meta.format # 2 /\ Len(job.values) <= MaxItems
        /\ Held(v2) \subseteq First(job.next)
        /\ \A r \in Held(v2) : v2[r] = job.values[r + 1]
        /\ meta = NoMeta \/ Copied(v2, job.next)
    BY <1>1, <1>16 DEF JobOK, CopyRow, Copying, Written
  <2>2. /\ job'.values = job.values
        /\ \/ /\ job'.step = "copy" /\ job'.next = job.next + 1
              /\ job'.next < Len(job.values)
              /\ job.values # <<>>
           \/ /\ job'.step = "meta" /\ job'.next = 0
              /\ \/ job.values = <<>> /\ job.next = 0
                 \/ job.values # <<>> /\ job.next + 1 = Len(job.values)
    BY <1>1, <1>16, LoopDoes DEF CopyRow, Counting, RewriteSteps
  <2>3. CASE job.values = <<>>
    <3>1. Written' = job.next
      BY <1>4, <2>2, <2>3 DEF Written
    <3>2. v2' = v2 /\ job'.step = "meta" /\ job'.next = 0
      BY <1>16, <2>2, <2>3 DEF CopyRow
    <3>3. meta' = NoMeta \/ Copied(v2, Written)'
      BY <2>1, <2>2, <3>1, <3>2 DEF Copied
    <3> QED
      BY <2>1, <2>2, <3>1, <3>2, <3>3 DEF JobOK, Reading, Copying
  <2>4. CASE job.values # <<>>
    <3>1. Written' = job.next + 1
      BY <2>2, <2>4 DEF Written
    <3>2. job.next \in Rows /\ job.next \in Nat
      BY <1>1, <1>16, <2>4, RowToCopy DEF CopyRow, Counting
    <3>3. v2' = [v2 EXCEPT ![job.next] = job.values[job.next + 1]]
      BY <1>16, <2>4 DEF CopyRow
    <3>4. First(job.next + 1) = First(job.next) \cup {job.next}
      BY <3>2, FirstSteps
    <3>5. Held(v2') \subseteq First(job.next + 1)
      BY <1>3, <2>1, <3>2, <3>3, <3>4 DEF Held
    <3>6. \A r \in Held(v2') : v2'[r] = job.values[r + 1]
      BY <1>3, <2>1, <3>2, <3>3 DEF Held
    <3>7. meta' = NoMeta \/ Copied(v2, Written)'
      <4>1. ASSUME meta # NoMeta, NEW r \in First(job.next + 1)
            PROVE  v2'[r] = job.values[r + 1]
        <5>1. r \in Rows
          BY DEF First
        <5>2. CASE r = job.next
          BY <1>3, <3>2, <3>3, <5>2
        <5>3. CASE r # job.next
          BY <1>3, <2>1, <3>2, <3>3, <3>4, <4>1, <5>1, <5>3 DEF Copied
        <5> QED
          BY <5>2, <5>3
      <4> QED
        BY <2>1, <2>2, <3>1, <4>1 DEF Copied
    <3>8. job'.next = 0 \/ (job'.step = "copy" /\ job'.next < Len(job.values))
      BY <2>2
    <3>9. job'.step \in {"copy", "meta"}
      BY <2>2
    <3> QED
      BY <2>1, <2>2, <3>1, <3>5, <3>6, <3>7, <3>8, <3>9 DEF JobOK, Reading,
         Copying, Counting
  <2> QED
    BY <2>3, <2>4
<1>17. CASE ReadMeta
  <2>1. /\ meta' = meta /\ v2' = v2 /\ Len(job.values) <= MaxItems /\ job.next = 0
        /\ meta.format # 2 /\ job.step = "meta" /\ Written = Len(job.values)
        /\ Held(v2) \subseteq First(Written)
        /\ \A r \in Held(v2) : v2[r] = job.values[r + 1]
        /\ meta = NoMeta \/ Copied(v2, Written)
    BY <1>1, <1>17 DEF JobOK, ReadMeta, Copying, Counting, Written, database
  <2>2. /\ job'.values = job.values /\ job'.next = job.next
        /\ job'.step = IF meta = NoMeta THEN "rollback" ELSE "flip"
    BY <1>2, <1>17 DEF ReadMeta, RewriteGoto, Jobs
  <2>3. Written' = Written /\ (Copied(v2, Written)' <=> Copied(v2, Written))
    BY <2>1, <2>2 DEF Written, Copied
  <2> QED
    BY <1>3, <2>1, <2>2, <2>3 DEF JobOK, Reading, Copying
<1>18. CASE Flip
  <2>1. Len(job.values) <= MaxItems /\ job.next = 0
    BY <1>1, <1>18 DEF JobOK, Flip, Counting
  <2>2. /\ job'.values = job.values /\ job'.next = job.next /\ job'.step = "cleanup"
        /\ job'.names = {1} \X (First(job.length) \cup job.orphans)
        /\ meta'.format = 2
    BY <1>2, <1>18 DEF Flip, With, Jobs
  <2>3. job'.names \subseteq {1} \X Rows
    BY <1>2, <2>2 DEF First, Jobs
  <2> QED
    BY <2>1, <2>2, <2>3 DEF JobOK, Reading, Copying
<1>19. CASE Rollback
  <2>1. meta' = meta /\ meta.format # 1 /\ Len(job.values) <= MaxItems
    BY <1>1, <1>19 DEF JobOK, Rollback
  <2>2. /\ job'.values = job.values
        /\ \/ job'.step = "rollback" /\ job'.next < Len(job.values)
           \/ job'.step = "idle" /\ job'.next = 0
    BY <1>1, <1>19, LoopDoes DEF Rollback, Counting, RewriteSteps
  <2> QED
    BY <2>1, <2>2 DEF JobOK, Reading, Copying, Counting
<1>20. CASE Cleanup
  <2>1. meta' = meta /\ Len(job.values) <= MaxItems /\ job.next = 0
        /\ (meta.format = 1 => job.names \subseteq {2} \X Rows)
        /\ (meta.format = 2 => job.names \subseteq {1} \X Rows)
    BY <1>1, <1>20 DEF JobOK, Cleanup, Counting
  <2>2. CASE job' = NoJob
    BY <1>4, <2>2 DEF JobOK, Reading, Copying, NoJob
  <2>3. ASSUME NEW n, job' = [job EXCEPT !.step = "cleanup", !.names = job.names \ {n}]
        PROVE  JobOK'
    <3>1. /\ job'.step = "cleanup" /\ job'.values = job.values /\ job'.next = job.next
          /\ job'.names = job.names \ {n}
      BY <1>2, <2>3 DEF Jobs
    <3> QED
      BY <2>1, <3>1 DEF JobOK, Reading, Copying
  <2> QED
    BY <1>20, <2>2, <2>3 DEF Cleanup, Done, With
<1>21. CASE Sweep
  <2>1. meta' = meta /\ Len(job.values) <= MaxItems /\ job.next = 0
    BY <1>1, <1>21 DEF JobOK, Sweep, Counting, database
  <2>2. /\ job'.step = "cleanup" /\ job'.values = job.values /\ job'.next = job.next
        /\ job'.names = Stored(Foreign)
    BY <1>2, <1>21 DEF Sweep, With, Jobs
  <2>3. /\ meta.format = 1 => Foreign \subseteq {2}
        /\ meta.format = 2 => Foreign \subseteq {1}
    BY <1>3 DEF Foreign
  <2>4. /\ meta.format = 1 => Stored(Foreign) \subseteq {2} \X Rows
        /\ meta.format = 2 => Stored(Foreign) \subseteq {1} \X Rows
    BY <2>3 DEF Stored, Names
  <2> QED
    BY <2>1, <2>2, <2>4 DEF JobOK, Reading, Copying
<1>22. CASE DownCopyRow
  <2>1. meta' = meta /\ meta.format # 1 /\ Len(job.values) <= MaxItems
    BY <1>1, <1>22 DEF JobOK, DownCopyRow
  <2>2. /\ job'.values = job.values
        /\ \/ job'.step = "down_copy" /\ job'.next < Len(job.values)
           \/ job'.step = "down_flip" /\ job'.next = 0
    BY <1>1, <1>22, LoopDoes DEF DownCopyRow, Counting, RewriteSteps,
       Downgrading
  <2> QED
    BY <2>1, <2>2 DEF JobOK, Reading, Copying, Counting
<1>23. CASE DownFlip
  <2>1. Len(job.values) <= MaxItems /\ job.next = 0 /\ meta'.format = 1
    BY <1>1, <1>23 DEF JobOK, DownFlip, Counting
  <2>2. job'.step = "down_names" /\ job'.values = job.values /\ job'.next = job.next
    BY <1>2, <1>23 DEF DownFlip, RewriteGoto, Jobs
  <2> QED
    BY <2>1, <2>2 DEF JobOK, Reading, Copying
<1>24. CASE DownNames
  <2>1. Len(job.values) <= MaxItems /\ job.next = 0 /\ meta' = meta /\ meta.format # 2
    BY <1>1, <1>24 DEF JobOK, DownNames, Counting, database
  <2>2. /\ job'.step = "cleanup" /\ job'.values = job.values /\ job'.next = job.next
        /\ job'.names = Stored({2})
    BY <1>2, <1>24 DEF DownNames, With, Jobs
  <2>3. Stored({2}) \subseteq {2} \X Rows
    BY DEF Stored, Names
  <2> QED
    BY <2>1, <2>2, <2>3 DEF JobOK, Reading, Copying
<1>25. CASE UNCHANGED rewriteVars
  <2>1. job' = job /\ meta' = meta /\ v2' = v2
    BY <1>25 DEF rewriteVars
  <2>2. Written' = Written /\ (Copied(v2, Written)' <=> Copied(v2, Written))
    BY <2>1 DEF Written, Copied
  <2> QED
    BY <1>1, <2>1, <2>2 DEF JobOK
<1> QED
  BY <1>5, <1>6, <1>7, <1>8, <1>9, <1>10, <1>11, <1>12, <1>13, <1>14, <1>15,
     <1>16,
     <1>17, <1>18, <1>19, <1>20, <1>21, <1>22, <1>23, <1>24, <1>25 DEF RewriteNext, Run

\* Nothing the list holds gets lost: not by a step of a rewrite, and not in
\* the windows that the code leaves open.
LEMMA LosslessStays ==
    ASSUME RewriteInv, [RewriteNext]_rewriteVars
    PROVE  Lossless'
<1> DEFINE All(s, vs) == \A i \in 1..Len(s) : \E k \in 1..Len(vs) : s[i] = vs[k]
           None(s, vs) == \A i \in 1..Len(s), k \in 1..Len(vs) : s[i] # vs[k]
           DownSteps == {"down_copy", "down_flip"}
<1>1. RewriteTypeOK /\ JobOK /\ RewriteTypeOK' /\ Lossless /\ Given
  BY TypeStays DEF RewriteBase, RewriteInv
<1>2. job \in Jobs /\ contents \in Seq(Items)
  BY <1>1 DEF RewriteTypeOK, Jobs
<1>3. /\ v1 \in [Rows -> Items \cup {NoItem}]
      /\ v2 \in [Rows -> Items \cup {NoItem}]
      /\ meta.format \in {0, 1, 2} /\ (meta.format = 0 <=> meta = NoMeta)
      /\ (meta.format = 0 => Format = 2)
      /\ (meta.format # 0 => Format = meta.format /\ meta \in Metas)
  BY <1>1, MetaIs DEF RewriteTypeOK
<1>4. \A i \in 1..Len(contents) : contents[i] \in Items /\ contents[i] # NoItem
  BY <1>2, Numbers
<1>5. meta'.format = 0 <=> meta' = NoMeta
  <2>1. NoMeta.format = 0 /\ \A m \in Metas : m.format # 0
    BY DEF NoMeta, Metas
  <2> QED
    BY <1>1, <2>1 DEF RewriteTypeOK
<1>6. ASSUME contents' = <<>>,
             job'.step \in DownSteps => lapsed' = TRUE
      PROVE  Lossless'
  <2>1. Len(<<>>) = 0 /\ 1..0 = {}
    OBVIOUS
  <2>2. lapsed' \in BOOLEAN
    BY <1>1 DEF RewriteTypeOK
  <2> QED
    BY <1>6, <2>1, <2>2 DEF Lossless, Within
\* Steps that only move on.
<1>7. ASSUME UNCHANGED <<v1, v2, meta, contents>>, lapsed => lapsed',
             job'.values = job.values,
             job'.step \in Copying \cup DownSteps =>
               job.step \in Copying \cup DownSteps,
             job'.step = "rollback" => job.step = "rollback" \/ contents = <<>>,
             job'.step = "down_copy" => job.step = "down_copy" /\ job'.next = job.next,
             job'.step = "down_flip" => job.step = "down_flip"
      PROVE  Lossless'
  <2>1. Lossless
    BY <1>1
  <2>2. contents = <<>> => None(contents, job.values)
    OBVIOUS
  <2>3. job'.step \in Copying \cup DownSteps => All(contents', job'.values)
    BY <1>7, <2>1 DEF Lossless
  <2>4. job'.step = "rollback" => None(contents', job'.values)
    BY <1>7, <2>1, <2>2 DEF Lossless
  <2>5. job'.step = "down_copy" => Copied(v1, job.next)' \/ (lapsed' /\ contents' = <<>>)
    BY <1>7, <2>1 DEF Lossless, Copied
  <2>6. job'.step = "down_flip" =>
          Copied(v1, Len(job.values))' \/ (lapsed' /\ contents' = <<>>)
    BY <1>7, <2>1 DEF Lossless, Copied
  <2>7. /\ meta' = NoMeta => contents' = <<>>
        /\ meta'.format = 1 => Within(v1, First(meta.length))'
        /\ meta'.format = 2 => Within(v2, Rows)'
    BY <1>7, <2>1 DEF Lossless, Within
  <2> QED
    BY <2>3, <2>4, <2>5, <2>6, <2>7 DEF Lossless
<1>8. CASE AppendItem
  <2> DEFINE item == MaxInitial + appends'
  <2>1. /\ contents' = Append(contents, item) /\ job' = job /\ lapsed' = lapsed
        /\ AtRest \/ job.step = "rollback"
    BY <1>8 DEF AppendItem
  <2>2. item \in Items /\ \A k \in 1..Len(job.values) : job.values[k] # item
    <3>1. appends' = appends + 1 /\ appends \in Nat /\ appends < MaxAppends
      BY <1>1, <1>8 DEF AppendItem, RewriteTypeOK
    <3>2. \A k \in 1..Len(job.values) : job.values[k] \in Items
                                        /\ job.values[k] <= MaxInitial + appends
      BY <1>1 DEF RewriteTypeOK, Given
    <3> QED
      BY <3>1, <3>2, Numbers DEF Items, MaxItems
  <2> HIDE DEF item
  <2>3. Len(contents') = Len(contents) + 1 /\ Len(contents) \in Nat
        /\ \A i \in 1..Len(contents') :
             \/ contents'[i] = item
             \/ i \in 1..Len(contents) /\ contents'[i] = contents[i]
    BY <1>2, <2>1, <2>2
  <2>4. job'.step = "rollback" => None(contents', job'.values)
    BY <1>1, <2>1, <2>2, <2>3 DEF Lossless
  <2>5. job'.step \notin Copying \cup DownSteps
    BY <2>1 DEF AtRest, Copying
  <2>6. CASE meta.format = 1
    <3>1. /\ meta.length \in Rows /\ v1' = [v1 EXCEPT ![meta.length] = item]
          /\ meta' = [meta EXCEPT !.length = @ + 1]
      BY <1>3, <1>8, <2>6 DEF AppendItem, Append1, item
    <3>2. meta'.format = 1 /\ meta'.length = meta.length + 1
      BY <1>3, <2>6, <3>1 DEF Metas
    <3>3. First(meta'.length) = First(meta.length) \cup {meta.length}
          /\ meta.length \notin First(meta.length)
      BY <3>1, <3>2, FirstSteps
    <3>4. Within(v1, First(meta.length))'
      <4>1. \A i \in 1..Len(contents) :
              \E r \in First(meta'.length) : v1'[r] = contents[i]
        BY <1>1, <1>3, <2>6, <3>1, <3>3 DEF Lossless, Within, First
      <4>2. v1'[meta.length] = item
        BY <1>3, <3>1
      <4> QED
        BY <2>3, <3>3, <4>1, <4>2 DEF Within
    <3> QED
      BY <1>5, <2>4, <2>5, <3>2, <3>4 DEF Lossless
  <2>7. CASE meta.format # 1
    <3>1. Append2(item)
      BY <1>3, <1>8, <2>7 DEF AppendItem, item
    <3>2. PICK m \in Rows : /\ \A r \in Held(v2) : r < m
                            /\ v2' = [v2 EXCEPT ![m] = item]
      BY <1>1, <2>2, <3>1, AppendsGoBehind
    <3>3. meta'.format = 2
      BY <1>3, <2>7, <3>1 DEF Append2, NewMeta
    <3>4. m \notin Held(v2)
      BY <3>2, Numbers
    <3>5. Within(v2, Rows)'
      <4>1. \A i \in 1..Len(contents) : \E r \in Rows : v2[r] = contents[i]
        BY <1>1, <1>3, <2>7 DEF Lossless, Within
      <4>2. \A i \in 1..Len(contents) : \E r \in Rows : v2'[r] = contents[i]
        <5>1. ASSUME NEW i \in 1..Len(contents)
              PROVE  \E r \in Rows : v2'[r] = contents[i]
          <6>1. PICK r \in Rows : v2[r] = contents[i]
            BY <4>1
          <6>2. r # m
            BY <1>4, <3>4, <6>1 DEF Held
          <6> QED
            BY <1>3, <3>2, <6>1, <6>2
        <5> QED
          BY <5>1
      <4>3. v2'[m] = item
        BY <1>3, <3>2
      <4> QED
        BY <2>3, <4>2, <4>3 DEF Within
    <3> QED
      BY <1>5, <2>4, <2>5, <3>3, <3>5 DEF Lossless
  <2> QED
    BY <2>6, <2>7
<1>9. CASE AppendDies
  <2>1. /\ meta.length \in Rows
        /\ v1' = [v1 EXCEPT ![meta.length] = MaxInitial + appends']
        /\ UNCHANGED <<v2, meta, job, contents, lapsed>> /\ AtRest /\ meta.format = 1
    BY <1>3, <1>9 DEF AppendDies
  <2>2. meta.length \notin First(meta.length)
    BY <2>1, FirstSteps
  <2>3. Within(v1, First(meta.length))'
    BY <1>1, <1>3, <2>1, <2>2 DEF Lossless, Within, First
  <2> QED
    BY <1>3, <2>1, <2>3 DEF Lossless, AtRest, Copying
<1>10. CASE ClearList
  <2>1. contents' = <<>> /\ job'.step = "idle"
    BY <1>10 DEF ClearList, AtRest
  <2> QED
    BY <1>6, <2>1
<1>11. CASE DeleteList
  <2>1. contents' = <<>>
        /\ lapsed' = (lapsed \/ job.step \in {"flip"} \cup Downgrading)
        /\ job' = job
    BY <1>11 DEF DeleteList
  <2> QED
    BY <1>6, <2>1 DEF Downgrading
<1>12. CASE Migrate \/ Downgrade \/ Crash
  <2>1. job'.step \in {"idle", "check", "down_check"}
    BY <1>12, StartsAnew
  <2>2. UNCHANGED <<v1, v2, meta, contents>>
    BY <1>12 DEF Migrate, Downgrade, Crash, database
  <2>3. /\ meta' = NoMeta => contents' = <<>>
        /\ meta'.format = 1 => Within(v1, First(meta.length))'
        /\ meta'.format = 2 => Within(v2, Rows)'
    BY <1>1, <2>2 DEF Lossless, Within
  <2> QED
    BY <2>1, <2>3 DEF Lossless, Copying
<1>13. CASE ReadItems
  <2>1. /\ UNCHANGED <<v1, v2, meta, contents, lapsed>> /\ job'.step = "recheck"
        /\ job'.values = InOrder(v1, First(job.length))
        /\ meta.format # 2 /\ (meta = NoMeta \/ job.length = meta.length)
    BY <1>1, <1>2, <1>13 DEF ReadItems, database, Jobs, JobOK, Reading
  <2>2. All(contents', job'.values)
    <3>1. CASE meta = NoMeta
      <4>1. contents' = <<>>
        BY <1>1, <2>1, <3>1 DEF Lossless
      <4> QED
        BY <4>1
    <3>2. CASE meta # NoMeta
      <4>1. ASSUME NEW i \in 1..Len(contents)
            PROVE  \E k \in 1..Len(job'.values) : contents[i] = job'.values[k]
        <5>1. PICK r \in First(meta.length) : v1[r] = contents[i]
          BY <1>1, <1>3, <2>1, <3>2 DEF Lossless, Within
        <5>2. r \in Present(v1, First(job.length))
          BY <1>4, <2>1, <3>2, <5>1 DEF Present, Held, First
        <5> QED
          BY <1>3, <2>1, <5>1, <5>2, ReadInOrder
      <4> QED
        BY <2>1, <4>1
    <3> QED
      BY <3>1, <3>2
  <2>3. /\ meta' = NoMeta => contents' = <<>>
        /\ meta'.format = 1 => Within(v1, First(meta.length))'
        /\ meta'.format = 2 => Within(v2, Rows)'
    BY <1>1, <2>1 DEF Lossless, Within
  <2> QED
    BY <2>1, <2>2, <2>3 DEF Lossless
<1>14. CASE DownRead
  <2>1. /\ UNCHANGED <<v1, v2, meta, contents, lapsed>> /\ job'.step = "down_copy"
        /\ job'.values = InOrder(v2, Rows) /\ job'.next = 0 /\ meta.format # 1
    BY <1>1, <1>2, <1>14 DEF DownRead, database, Jobs, JobOK, Counting
  <2>2. All(contents', job'.values)
    <3>1. CASE meta = NoMeta
      <4>1. contents' = <<>>
        BY <1>1, <2>1, <3>1 DEF Lossless
      <4> QED
        BY <4>1
    <3>2. CASE meta # NoMeta
      <4>1. ASSUME NEW i \in 1..Len(contents)
            PROVE  \E k \in 1..Len(job'.values) : contents[i] = job'.values[k]
        <5>1. PICK r \in Rows : v2[r] = contents[i]
          BY <1>1, <1>3, <2>1, <3>2 DEF Lossless, Within
        <5>2. r \in Present(v2, Rows)
          BY <1>4, <5>1 DEF Present, Held
        <5> QED
          BY <1>3, <2>1, <5>1, <5>2, ReadInOrder
      <4> QED
        BY <2>1, <4>1
    <3> QED
      BY <3>1, <3>2
  <2>3. /\ meta' = NoMeta => contents' = <<>>
        /\ meta'.format = 1 => Within(v1, First(meta.length))'
        /\ meta'.format = 2 => Within(v2, Rows)'
    BY <1>1, <2>1 DEF Lossless, Within
  <2>4. Copied(v1, job.next)'
    BY <2>1, FirstOfNone DEF Copied
  <2> QED
    BY <2>1, <2>2, <2>3, <2>4 DEF Lossless
<1>15. CASE Check \/ DownCheck \/ Verify \/ Sweep \/ DownNames
  <2>1. UNCHANGED <<v1, v2, meta, contents>>
    BY <1>15 DEF Check, DownCheck, Verify, Sweep, DownNames, database
  <2>2. job'.step \in {"idle", "sweep", "verify", "down_read", "read", "cleanup"}
    <3>1. NoJob.step = "idle"
      BY DEF NoJob
    <3> QED
      BY <1>2, <1>15, <3>1 DEF Check, DownCheck, Verify, Sweep, DownNames,
         RewriteGoto, With, Done, Jobs
  <2>3. /\ meta' = NoMeta => contents' = <<>>
        /\ meta'.format = 1 => Within(v1, First(meta.length))'
        /\ meta'.format = 2 => Within(v2, Rows)'
    BY <1>1, <2>1 DEF Lossless, Within
  <2> QED
    BY <2>2, <2>3 DEF Lossless, Copying
<1>16. CASE Recheck \/ ListLeftover \/ ReadMeta
  <2>1. UNCHANGED <<v1, v2, meta, contents, lapsed>>
    BY <1>16 DEF Recheck, ListLeftover, ReadMeta, database
  <2>2. /\ job'.values = job.values /\ job.step \in Copying
        /\ job'.step \in {"sweep", "leftover", "clear", "flip", "rollback"}
        /\ (job'.step = "rollback" => meta = NoMeta)
    BY <1>2, <1>16 DEF Recheck, ListLeftover, ReadMeta, RewriteGoto, With,
       Jobs, Copying
  <2>3. meta = NoMeta => contents = <<>>
    BY <1>1 DEF Lossless
  <2> QED
    BY <1>7, <2>1, <2>2, <2>3
<1>17. CASE ClearLeftover
  <2>1. /\ UNCHANGED <<meta, contents, lapsed>> /\ meta.format # 2
        /\ job.names \subseteq {2} \X Rows /\ job.step \in Copying
    BY <1>1, <1>17 DEF ClearLeftover, JobOK, Copying
  <2>2. job'.values = job.values /\ job'.step \in {"clear", "copy"}
    BY <1>2, <1>17 DEF ClearLeftover, RewriteGoto, With, Jobs
  <2>3. v1' = v1
    <3>1. CASE job.names = {}
      BY <1>17, <3>1 DEF ClearLeftover
    <3>2. CASE job.names # {}
      <4>1. PICK n \in job.names : Remove({n})
        BY <1>17, <3>2 DEF ClearLeftover
      <4>2. {n} \subseteq {2} \X Rows
        BY <2>1
      <4> QED
        BY <1>1, <4>1, <4>2, RemoveOneFormat
    <3> QED
      BY <3>1, <3>2
  <2>4. /\ meta' = NoMeta => contents' = <<>>
        /\ meta'.format = 1 => Within(v1, First(meta.length))'
        /\ meta'.format # 2
    BY <1>1, <2>1, <2>3 DEF Lossless, Within
  <2>5. All(contents', job'.values)
    BY <1>1, <2>1, <2>2 DEF Lossless
  <2> QED
    BY <2>2, <2>4, <2>5 DEF Lossless
<1>18. CASE CopyRow
  <2>1. /\ UNCHANGED <<v1, meta, contents, lapsed>> /\ meta.format # 2
        /\ job.step \in Copying
    BY <1>1, <1>18 DEF CopyRow, JobOK, Copying
  <2>2. job'.values = job.values /\ job'.step \in {"copy", "meta"}
    BY <1>1, <1>18, LoopDoes DEF CopyRow, Counting, RewriteSteps
  <2>3. /\ meta' = NoMeta => contents' = <<>>
        /\ meta'.format = 1 => Within(v1, First(meta.length))'
        /\ meta'.format # 2
    BY <1>1, <2>1 DEF Lossless, Within
  <2>4. All(contents', job'.values)
    <3>1. All(contents, job.values)
      BY <1>1, <2>1 DEF Lossless
    <3> QED
      BY <2>1, <2>2, <3>1
  <2> QED
    BY <2>2, <2>3, <2>4 DEF Lossless
<1>19. CASE Flip
  <2>1. /\ UNCHANGED <<v1, v2, contents, lapsed>> /\ meta'.format = 2
        /\ job'.step = "cleanup" /\ job.step \in Copying
        /\ meta = NoMeta \/ Copied(v2, Len(job.values))
        /\ Len(job.values) \in Nat /\ Len(job.values) <= MaxItems
    BY <1>1, <1>2, <1>19 DEF Flip, With, Jobs, JobOK, Copying, Written
  <2>2. ASSUME NEW i \in 1..Len(contents)
        PROVE  \E r \in Rows : v2[r] = contents[i]
    <3>1. meta # NoMeta
      <4>1. meta = NoMeta => contents = <<>>
        BY <1>1 DEF Lossless
      <4> QED
        BY <2>2, <4>1
    <3>2. PICK k \in 1..Len(job.values) : contents[i] = job.values[k]
      BY <1>1, <2>1 DEF Lossless
    <3>3. k - 1 \in First(Len(job.values)) /\ k - 1 + 1 = k
      BY <2>1, FirstRows
    <3>4. v2[k - 1] = job.values[k - 1 + 1] /\ k - 1 \in Rows
      BY <2>1, <3>1, <3>3 DEF Copied, First
    <3> QED
      BY <3>2, <3>3, <3>4
  <2>3. Within(v2, Rows)'
    BY <2>1, <2>2 DEF Within
  <2>4. job'.step \notin Copying \cup DownSteps
    BY <2>1 DEF Copying
  <2> QED
    BY <1>5, <2>1, <2>3, <2>4 DEF Lossless
<1>20. CASE Rollback
  <2>1. /\ UNCHANGED <<meta, contents, lapsed>> /\ meta.format # 1
        /\ None(contents, job.values)
    BY <1>1, <1>20 DEF Rollback, JobOK, Lossless
  <2>2. job'.values = job.values /\ job'.step \in {"rollback", "idle"}
    BY <1>1, <1>20, LoopDoes DEF Rollback, Counting, RewriteSteps
  <2>3. \A r \in Rows : v2'[r] = v2[r] \/ \E k \in 1..Len(job.values) : v2[r] = job.values[k]
    <3>1. CASE job.values # <<>> /\ v2[job.next] = job.values[job.next + 1]
      <4>1. Remove({<<2, job.next>>})
        BY <1>20, <3>1 DEF Rollback
      <4>2. job.next + 1 \in 1..Len(job.values)
        BY <1>1, <1>20, <3>1, RowToCopy DEF Rollback, Counting
      <4>3. ASSUME NEW r \in Rows, r # job.next
            PROVE  v2'[r] = v2[r]
        <5>1. <<2, r>> \notin {<<2, job.next>>}
          BY <4>3
        <5> QED
          BY <1>1, <4>1, <5>1, RemoveRemoves
      <4> QED
        BY <3>1, <4>2, <4>3
    <3>2. CASE ~(job.values # <<>> /\ v2[job.next] = job.values[job.next + 1])
      BY <1>20, <3>2 DEF Rollback
    <3> QED
      BY <3>1, <3>2
  <2>4. meta.format = 2 => Within(v2, Rows)'
    <3>1. ASSUME meta.format = 2, NEW i \in 1..Len(contents)
          PROVE  \E r \in Rows : v2'[r] = contents[i]
      <4>1. PICK r \in Rows : v2[r] = contents[i]
        BY <1>1, <3>1 DEF Lossless, Within
      <4> QED
        BY <2>1, <2>3, <4>1
    <3> QED
      BY <2>1, <3>1 DEF Within
  <2>5. /\ meta' = NoMeta => contents' = <<>>
        /\ meta'.format # 1
        /\ meta'.format = 2 => Within(v2, Rows)'
    BY <1>1, <2>1, <2>4 DEF Lossless
  <2>6. job'.step = "rollback" => None(contents', job'.values)
    BY <2>1, <2>2
  <2> QED
    BY <2>2, <2>5, <2>6 DEF Lossless, Copying
<1>21. CASE Cleanup
  <2>1. UNCHANGED <<meta, contents, lapsed>>
    BY <1>21 DEF Cleanup
  <2>2. job'.step \in {"idle", "cleanup"}
    <3>1. NoJob.step = "idle"
      BY DEF NoJob
    <3> QED
      BY <1>2, <1>21, <3>1 DEF Cleanup, Done, With, Jobs
  <2>3. /\ meta.format = 1 => v1' = v1
        /\ meta.format = 2 => v2' = v2
    <3>1. CASE job.names = {}
      BY <1>21, <3>1 DEF Cleanup
    <3>2. CASE job.names # {}
      <4>1. PICK n \in job.names : Remove({n})
        BY <1>21, <3>2 DEF Cleanup
      <4>2. /\ meta.format = 1 => {n} \subseteq {2} \X Rows
            /\ meta.format = 2 => {n} \subseteq {1} \X Rows
        BY <1>1, <1>21 DEF JobOK, Cleanup
      <4> QED
        BY <1>1, <4>1, <4>2, RemoveOneFormat
    <3> QED
      BY <3>1, <3>2
  <2>4. /\ meta' = NoMeta => contents' = <<>>
        /\ meta'.format = 1 => Within(v1, First(meta.length))'
        /\ meta'.format = 2 => Within(v2, Rows)'
    BY <1>1, <2>1, <2>3 DEF Lossless, Within
  <2> QED
    BY <2>2, <2>4 DEF Lossless, Copying
<1>22. CASE DownCopyRow
  <2>1. /\ UNCHANGED <<v2, meta, contents, lapsed>> /\ meta.format # 1
        /\ job.step = "down_copy" /\ All(contents, job.values)
        /\ Copied(v1, job.next) \/ (lapsed /\ contents = <<>>)
    BY <1>1, <1>22 DEF DownCopyRow, JobOK, Lossless
  <2>2. /\ job'.values = job.values
        /\ \/ /\ job'.step = "down_copy" /\ job'.next = job.next + 1
              /\ job'.next < Len(job.values)
              /\ job.values # <<>>
           \/ /\ job'.step = "down_flip" /\ job'.next = 0
              /\ \/ job.values = <<>> /\ job.next = 0
                 \/ job.values # <<>> /\ job.next + 1 = Len(job.values)
    BY <1>1, <1>22, LoopDoes DEF DownCopyRow, Counting, RewriteSteps,
       Downgrading
  <2>3. ASSUME job.values # <<>>, Copied(v1, job.next)
        PROVE  \A r \in First(job.next + 1) : v1'[r] = job.values[r + 1]
    <3>1. job.next \in Rows
      BY <1>1, <1>22, <2>3, RowToCopy DEF DownCopyRow, Counting
    <3>2. v1' = [v1 EXCEPT ![job.next] = job.values[job.next + 1]]
      BY <1>22, <2>3 DEF DownCopyRow
    <3>3. First(job.next + 1) = First(job.next) \cup {job.next}
      BY <3>1, FirstSteps
    <3>4. ASSUME NEW r \in First(job.next + 1)
          PROVE  v1'[r] = job.values[r + 1]
      <4>1. r \in Rows
        BY DEF First
      <4>2. CASE r = job.next
        BY <1>3, <3>1, <3>2, <4>2
      <4>3. CASE r # job.next
        BY <1>3, <2>3, <3>1, <3>2, <3>3, <4>1, <4>3 DEF Copied
      <4> QED
        BY <4>2, <4>3
    <3> QED
      BY <3>4
  <2>4. job'.step = "down_copy" => Copied(v1, job.next)' \/ (lapsed' /\ contents' = <<>>)
    BY <2>1, <2>2, <2>3 DEF Copied
  <2>5. job'.step = "down_flip" =>
          Copied(v1, Len(job.values))' \/ (lapsed' /\ contents' = <<>>)
    <3>1. Len(<<>>) = 0
      OBVIOUS
    <3>2. job.values = <<>> => Copied(v1, Len(job.values))'
      BY <2>2, <3>1, FirstOfNone DEF Copied
    <3>3. CASE job.values # <<>>
      BY <2>1, <2>2, <2>3, <3>3 DEF Copied
    <3> QED
      BY <3>2, <3>3
  <2>6. /\ meta' = NoMeta => contents' = <<>>
        /\ meta'.format # 1
        /\ meta'.format = 2 => Within(v2, Rows)'
    BY <1>1, <2>1 DEF Lossless, Within
  <2>7. All(contents', job'.values) /\ job'.step # "rollback"
    BY <2>1, <2>2
  <2> QED
    BY <2>4, <2>5, <2>6, <2>7 DEF Lossless
<1>23. CASE DownFlip
  <2>1. /\ UNCHANGED <<v1, v2, contents, lapsed>> /\ meta'.format = 1
        /\ meta'.length = Len(job.values) /\ job'.step = "down_names"
        /\ All(contents, job.values)
        /\ Copied(v1, Len(job.values)) \/ (lapsed /\ contents = <<>>)
        /\ Len(job.values) \in Nat /\ Len(job.values) <= MaxItems
    BY <1>1, <1>2, <1>23 DEF DownFlip, RewriteGoto, Jobs, JobOK, Lossless
  <2>2. Within(v1, First(meta.length))'
    <3>1. CASE contents = <<>>
      BY <2>1, <3>1 DEF Within
    <3>2. CASE contents # <<>>
      <4>1. ASSUME NEW i \in 1..Len(contents)
            PROVE  \E r \in First(Len(job.values)) : v1[r] = contents[i]
        <5>1. PICK k \in 1..Len(job.values) : contents[i] = job.values[k]
          BY <2>1
        <5>2. k - 1 \in First(Len(job.values)) /\ k - 1 + 1 = k
          BY <2>1, FirstRows
        <5>3. v1[k - 1] = job.values[k - 1 + 1]
          BY <2>1, <3>2, <5>2 DEF Copied
        <5> QED
          BY <5>1, <5>2, <5>3
      <4> QED
        BY <2>1, <4>1 DEF Within
    <3> QED
      BY <3>1, <3>2
  <2>3. job'.step \notin Copying \cup DownSteps
    BY <2>1 DEF Copying
  <2> QED
    BY <1>5, <2>1, <2>2, <2>3 DEF Lossless
<1>24. CASE UNCHANGED rewriteVars
  <2>1. UNCHANGED <<v1, v2, meta, contents, lapsed, job>>
    BY <1>24 DEF rewriteVars
  <2> QED
    BY <1>7, <2>1
<1> QED
  BY <1>8, <1>9, <1>10, <1>11, <1>12, <1>13, <1>14, <1>15, <1>16, <1>17,
     <1>18, <1>19,
     <1>20, <1>21, <1>22, <1>23, <1>24 DEF RewriteNext, Run

-----------------------------------------------------------------------------
(* Exactly the items, outside the windows.                                 *)

\* The sweep of a clear or a delete leaves no row of format 2.
LEMMA SweptOfBoth ==
    ASSUME RewriteTypeOK, Exact, meta # NoMeta, Remove(Swept)
    PROVE  Held(v2') = {}
<1>1. Stored({2}) \subseteq Swept
  <2>1. CASE meta.format = 1
    <3>1. Foreign = {2}
      <4>1. meta.changed # "no"
        BY <2>1 DEF Exact
      <4>2. {1, 2} \ {1} = {2}
        OBVIOUS
      <4> QED
        BY <2>1, <4>1, <4>2 DEF Foreign
    <3> QED
      BY <3>1 DEF Swept
  <2>2. CASE meta.format # 1
    <3>1. Format # 1
      BY <2>2, MetaIs
    <3> QED
      BY <3>1 DEF Swept
  <2> QED
    BY <2>1, <2>2
<1>2. ASSUME NEW r \in Held(v2')
      PROVE  FALSE
  <2>1. r \in Held(v2) /\ r \in Rows
    BY RemoveRemoves DEF Held
  <2>2. <<2, r>> \in Stored({2})
    BY <2>1 DEF Stored, Names
  <2>3. v2'[r] = NoItem
    BY <1>1, <2>1, <2>2, RemoveRemoves
  <2> QED
    BY <1>2, <2>3 DEF Held
<1> QED
  BY <1>2

\* A window, once passed, stays on record.
LEMMA LapsesStay ==
    ASSUME RewriteTypeOK, [RewriteNext]_rewriteVars, lapsed
    PROVE  lapsed'
BY DEF RewriteNext, rewriteVars, AppendItem, AppendDies, ClearList,
   DeleteList, Migrate, Downgrade, Crash, Run, Check, Verify, ReadItems,
   Recheck, ListLeftover, ClearLeftover, CopyRow, ReadMeta, Flip, Rollback,
   Cleanup, Sweep, DownCheck, DownRead, DownCopyRow, DownFlip, DownNames

\* One step of an undo takes its row off the residue, and nothing else.
LEMMA RollbackSteps ==
    ASSUME RewriteTypeOK, JobOK, Rollback
    PROVE  /\ job'.values = job.values
           /\ \/ /\ job'.step = "rollback"
                 /\ Residue' = Residue \ {job.next}
              \/ /\ job'.step = "idle"
                 /\ Residue \subseteq {job.next}
           /\ Present(v2', Rows \ (Residue \ {job.next})) = Present(v2, Rows \ Residue)
           /\ Held(v2') \subseteq Held(v2)
           /\ job.next \in Residue => job.next \notin Held(v2')
           /\ \A r \in Held(v2') : v2'[r] = v2[r]
<1>1. job \in Jobs /\ Len(job.values) \in Nat /\ job.next \in Nat
      /\ Rows \subseteq Nat /\ job.step = "rollback"
  BY Numbers DEF RewriteTypeOK, Jobs, Rollback
<1>2. /\ job'.values = job.values
      /\ \/ /\ job'.step = "rollback" /\ job'.next = job.next + 1
            /\ job'.next < Len(job.values)
            /\ job.values # <<>>
         \/ /\ job'.step = "idle" /\ job'.next = 0
            /\ \/ job.values = <<>> /\ job.next = 0
               \/ job.values # <<>> /\ job.next + 1 = Len(job.values)
  BY <1>1, LoopDoes DEF Rollback, Counting, RewriteSteps
<1>3. job.next \in Residue => job.values # <<>> /\ v2[job.next] = job.values[job.next + 1]
  <2>1. ASSUME job.next \in Residue
        PROVE  job.next < Len(job.values) /\ v2[job.next] = job.values[job.next + 1]
    BY <2>1 DEF Residue
  <2>2. job.values = <<>> => Len(job.values) = 0
    OBVIOUS
  <2>3. ~(job.next < 0)
    BY <1>1
  <2> QED
    BY <2>1, <2>2, <2>3
<1>4. job.values # <<>> /\ v2[job.next] = job.values[job.next + 1]
        => job.next \in Residue
  <2>1. ASSUME job.values # <<>>, v2[job.next] = job.values[job.next + 1]
        PROVE  job.next \in Residue
    <3>1. job.next \in Rows /\ job.next < Len(job.values)
      BY <1>1, <2>1, RowToCopy DEF Counting
    <3>2. job.next <= job.next
      BY <1>1
    <3> QED
      BY <2>1, <3>1, <3>2 DEF Residue
  <2> QED
    BY <2>1
<1>5. /\ job.next \in Residue =>
           v2'[job.next] = NoItem /\ job.next \in Rows
      /\ \A r \in Rows : r # job.next => v2'[r] = v2[r]
      /\ job.next \notin Residue => v2' = v2
  <2>1. CASE job.next \in Residue
    <3>1. Remove({<<2, job.next>>}) /\ job.next \in Rows
      BY <1>3, <2>1 DEF Rollback, Residue
    <3>2. v2'[job.next] = NoItem
      <4>1. <<2, job.next>> \in {<<2, job.next>>}
        OBVIOUS
      <4> QED
        BY <3>1, <4>1, RemoveRemoves
    <3>3. ASSUME NEW r \in Rows, r # job.next
          PROVE  v2'[r] = v2[r]
      <4>1. <<2, r>> \notin {<<2, job.next>>}
        BY <3>3
      <4> QED
        BY <3>1, <4>1, RemoveRemoves
    <3> QED
      BY <2>1, <3>1, <3>2, <3>3
  <2>2. CASE job.next \notin Residue
    BY <1>4, <2>2 DEF Rollback
  <2> QED
    BY <2>1, <2>2
<1>6. /\ Held(v2') \subseteq Held(v2) /\ \A r \in Held(v2') : v2'[r] = v2[r]
      /\ job.next \in Residue => job.next \notin Held(v2')
      /\ \A r \in Rows : r # job.next => (r \in Held(v2') <=> r \in Held(v2))
      /\ job.next \notin Residue => Held(v2') = Held(v2)
  BY <1>5 DEF Held
<1>7. Present(v2', Rows \ (Residue \ {job.next})) = Present(v2, Rows \ Residue)
  BY <1>6 DEF Present, Held
<1>8. job'.step = "rollback" => Residue' = Residue \ {job.next}
  <2>1. ASSUME job'.step = "rollback", NEW r \in Rows
        PROVE  (/\ job'.next <= r /\ r < Len(job'.values) /\ v2'[r] = job'.values[r + 1])
               <=> (r \in Residue /\ r # job.next)
    <3>1. job'.next = job.next + 1 /\ job'.values = job.values
      BY <1>2, <2>1
    <3>2. r \in Nat
      BY <1>1
    <3>3. (job.next + 1 <= r) <=> (job.next <= r /\ r # job.next)
      BY <1>1, <3>2
    <3>4. r # job.next => v2'[r] = v2[r]
      BY <1>5
    <3> QED
      BY <3>1, <3>3, <3>4 DEF Residue
  <2>2. Residue' = {r \in Rows : /\ job'.next <= r /\ r < Len(job'.values)
                                 /\ v2'[r] = job'.values[r + 1]}
    BY DEF Residue
  <2> QED
    BY <2>1, <2>2 DEF Residue
<1>9. job'.step = "idle" => Residue \subseteq {job.next}
  <2>1. ASSUME job'.step = "idle", NEW r \in Residue
        PROVE  r = job.next
    <3>1. job.next <= r /\ r < Len(job.values) /\ r \in Nat
      BY <1>1 DEF Residue
    <3>2. job.values = <<>> => Len(job.values) = 0
      OBVIOUS
    <3>3. job.values # <<>> /\ job.next + 1 = Len(job.values)
      BY <1>1, <1>2, <2>1, <3>1, <3>2
    <3>4. Len(job.values) = job.next + 1
      BY <3>3
    <3> QED
      BY <1>1, <3>1, <3>4
  <2> QED
    BY <2>1
<1> QED
  BY <1>2, <1>6, <1>7, <1>8, <1>9

\* As long as no window was open: the items in the rows are exactly those the
\* list holds, in their order.
LEMMA ExactStays ==
    ASSUME RewriteInv, Exact, [RewriteNext]_rewriteVars, ~lapsed, ~lapsed',
           1 \notin Clearable
    PROVE  Exact'
<1>1. RewriteTypeOK /\ JobOK /\ RewriteTypeOK' /\ Lossless /\ Given /\ Exact
  BY TypeStays DEF RewriteBase, RewriteInv
<1>2. job \in Jobs /\ contents \in Seq(Items) /\ NoJob.step = "idle"
  BY <1>1 DEF RewriteTypeOK, Jobs, NoJob
<1>3. /\ v1 \in [Rows -> Items \cup {NoItem}]
      /\ v2 \in [Rows -> Items \cup {NoItem}]
      /\ v1' \in [Rows -> Items \cup {NoItem}] /\ v2' \in [Rows -> Items \cup {NoItem}]
      /\ meta.format \in {0, 1, 2} /\ (meta.format = 0 <=> meta = NoMeta)
      /\ (meta.format = 0 => Format = 2)
      /\ (meta.format # 0 => Format = meta.format /\ meta \in Metas)
  BY <1>1, MetaIs DEF RewriteTypeOK
<1>4. meta'.format = 0 <=> meta' = NoMeta
  <2>1. NoMeta.format = 0 /\ \A m \in Metas : m.format # 0
    BY DEF NoMeta, Metas
  <2> QED
    BY <1>1, <2>1 DEF RewriteTypeOK
<1>5. \A s, A : Present(s, A) = Held(s) \cap A
  BY DEF Present
<1>6. /\ Held(v2) \cap Rows = Held(v2) /\ Held(v2') \cap Rows = Held(v2')
  BY DEF Held
<1>7. meta = NoMeta => contents = <<>>
  BY <1>1 DEF Lossless
<1> DEFINE Clean(step) == meta = NoMeta /\ step \notin {"copy", "meta", "rollback"}
                            => Held(v2) = {}
\* Steps that only move on.
<1>8. ASSUME UNCHANGED <<v1, v2, meta, contents>>, job.step # "rollback",
             job'.step # "rollback", Clean(job'.step),
             job'.step \in Copying => meta = NoMeta \/ job'.values = contents,
             job'.step = "flip" => meta # NoMeta,
             job'.step \in {"down_copy", "down_flip"} => job'.values = contents
      PROVE  Exact'
  <2>1. meta.format = 1 =>
          /\ meta.changed # "no"
          /\ Len(contents) = meta.length
          /\ \A r \in First(meta.length) : v1[r] = contents[r + 1]
    BY <1>1 DEF Exact
  <2>2. meta.format = 2 => InOrder(v2, Rows) = contents
    BY <1>1, <1>8 DEF Exact
  <2> QED
    BY <1>8, <2>1, <2>2 DEF Exact
<1>9. CASE AppendItem
  <2> DEFINE item == MaxInitial + appends'
  <2>1. /\ contents' = Append(contents, item) /\ job' = job
        /\ AtRest \/ job.step = "rollback"
    BY <1>9 DEF AppendItem
  <2>2. item \in Items /\ \A k \in 1..Len(job.values) : job.values[k] # item
    <3>1. appends' = appends + 1 /\ appends \in Nat /\ appends < MaxAppends
      BY <1>1, <1>9 DEF AppendItem, RewriteTypeOK
    <3>2. \A k \in 1..Len(job.values) : job.values[k] \in Items
                                        /\ job.values[k] <= MaxInitial + appends
      BY <1>1 DEF RewriteTypeOK, Given
    <3> QED
      BY <3>1, <3>2, Numbers DEF Items, MaxItems
  <2> HIDE DEF item
  <2>3. CASE meta.format = 1
    <3>1. /\ meta.length \in Rows /\ v1' = [v1 EXCEPT ![meta.length] = item]
          /\ meta' = [meta EXCEPT !.length = @ + 1] /\ v2' = v2
      BY <1>3, <1>9, <2>3 DEF AppendItem, Append1, item
    <3>2. /\ meta'.format = 1 /\ meta'.length = meta.length + 1
          /\ meta'.changed = meta.changed
      BY <1>3, <2>3, <3>1 DEF Metas
    <3>3. First(meta'.length) = First(meta.length) \cup {meta.length}
          /\ meta.length \notin First(meta.length)
      BY <3>1, <3>2, FirstSteps
    <3>4. /\ meta.changed # "no" /\ Len(contents) = meta.length
          /\ \A r \in First(meta.length) : v1[r] = contents[r + 1]
      BY <1>1, <2>3 DEF Exact
    <3>5. /\ Len(contents') = meta'.length
          /\ contents'[meta.length + 1] = item
          /\ \A i \in 1..Len(contents) : contents'[i] = contents[i]
      BY <1>2, <2>1, <2>2, <3>2, <3>4
    <3>6. \A r \in First(meta'.length) : v1'[r] = contents'[r + 1]
      <4>1. ASSUME NEW r \in First(meta.length)
            PROVE  v1'[r] = contents'[r + 1]
        <5>1. r \in Rows /\ r # meta.length /\ r \in Nat /\ r < Len(contents)
          BY <3>3, <3>4, <4>1, Numbers DEF First
        <5>2. r + 1 \in 1..Len(contents)
          BY <1>2, <5>1
        <5>3. v1'[r] = v1[r]
          BY <1>3, <3>1, <5>1
        <5> QED
          BY <3>4, <3>5, <5>2, <5>3
      <4>2. v1'[meta.length] = item
        BY <1>3, <3>1
      <4> QED
        BY <3>3, <3>5, <4>1, <4>2
    <3>7. job'.step = "idle"
      BY <1>1, <2>1, <2>3 DEF JobOK, AtRest
    <3> QED
      BY <1>4, <3>2, <3>4, <3>5, <3>6, <3>7 DEF Exact, Copying
  <2>4. CASE meta.format # 1
    <3>1. Append2(item)
      BY <1>3, <1>9, <2>4 DEF AppendItem, item
    <3>2. PICK m \in Rows : /\ \A r \in Held(v2) : r < m
                            /\ v2' = [v2 EXCEPT ![m] = item]
      BY <1>1, <2>2, <3>1, AppendsGoBehind
    <3>3. meta'.format = 2
      BY <1>3, <2>4, <3>1 DEF Append2, NewMeta
    <3>4. m \notin Held(v2) /\ v2'[m] = item /\ item # NoItem
          /\ \A r \in Rows : r # m => v2'[r] = v2[r]
      BY <1>3, <2>2, <3>2, Numbers
    <3>5. Held(v2') = Held(v2) \cup {m}
      BY <3>4 DEF Held
    <3>6. CASE AtRest
      <4>1. InOrder(v2, Rows) = contents
        <5>1. CASE meta = NoMeta
          <6>1. Held(v2) = {}
            BY <1>1, <3>6, <5>1 DEF Exact, AtRest
          <6> QED
            BY <1>5, <1>7, <5>1, <6>1, NothingInOrder
        <5>2. CASE meta # NoMeta
          BY <1>1, <1>3, <2>4, <3>6, <5>2 DEF Exact, AtRest
        <5> QED
          BY <5>1, <5>2
      <4>2. Present(v2', Rows) = Present(v2, Rows) \cup {m}
            /\ Present(v2, Rows) = Held(v2)
        BY <1>5, <1>6, <3>5
      <4>3. \A r \in Present(v2, Rows) : v2'[r] = v2[r] /\ r < m
        BY <3>2, <3>4, <4>2 DEF Held
      <4>4. InOrder(v2', Rows) = Append(InOrder(v2, Rows), v2'[m])
        BY <1>3, <4>2, <4>3, AppendInOrder
      <4>5. InOrder(v2', Rows) = contents'
        BY <2>1, <3>4, <4>1, <4>4
      <4> QED
        BY <1>4, <2>1, <3>3, <3>6, <4>5 DEF Exact, AtRest, Copying
    <3>7. CASE job.step = "rollback"
      <4>1. InOrder(v2, Rows \ Residue) = contents
        BY <1>1, <3>7 DEF Exact
      <4>2. Residue' = Residue
        <5>1. \A r \in Rows : r \in Nat
          BY Numbers
        <5>2. ASSUME NEW r \in Rows, r < Len(job.values)
              PROVE  v2'[r] = job.values[r + 1] <=> v2[r] = job.values[r + 1]
          <6>1. r + 1 \in 1..Len(job.values)
            BY <1>2, <5>1, <5>2 DEF Jobs
          <6>2. job.values[r + 1] \in Items /\ job.values[r + 1] # item
            BY <1>2, <2>2, <6>1 DEF Jobs
          <6>3. r = m => v2[r] # job.values[r + 1]
            BY <3>4, <6>2, Numbers DEF Held
          <6> QED
            BY <3>4, <6>2, <6>3
        <5>3. Residue' = {r \in Rows : /\ job.next <= r /\ r < Len(job.values)
                                       /\ v2'[r] = job.values[r + 1]}
          BY <2>1 DEF Residue
        <5> QED
          BY <5>2, <5>3 DEF Residue
      <4>3. m \notin Residue
        <5>1. ASSUME m \in Residue
              PROVE  FALSE
          <6>1. m < Len(job.values) /\ v2[m] = job.values[m + 1] /\ m \in Nat
            BY <5>1, Numbers DEF Residue
          <6>2. m + 1 \in 1..Len(job.values)
            BY <1>2, <6>1 DEF Jobs
          <6>3. v2[m] \in Items
            BY <1>2, <6>1, <6>2 DEF Jobs
          <6> QED
            BY <3>4, <6>3, Numbers DEF Held
        <5> QED
          BY <5>1
      <4> DEFINE A == Rows \ Residue
      <4>4. /\ Present(v2', A) = Present(v2, A) \cup {m}
            /\ Present(v2, A) \subseteq Held(v2)
        BY <1>5, <3>5, <4>3
      <4>5. \A r \in Present(v2, A) : v2'[r] = v2[r] /\ r < m
        BY <3>2, <3>4, <4>4 DEF Held
      <4>6. Rows \ Residue' = A /\ InOrder(v2, A) = contents
        BY <4>1, <4>2
      <4> HIDE DEF A
      <4>7. InOrder(v2', A) = Append(InOrder(v2, A), v2'[m])
        BY <1>3, <4>4, <4>5, AppendInOrder
      <4>8. InOrder(v2', A) = contents'
        BY <2>1, <3>4, <4>6, <4>7
      <4>9. InOrder(v2', Rows \ Residue') = contents'
        BY <4>6, <4>8
      <4> QED
        <5>1. meta'.format = 2 /\ meta' # NoMeta /\ job'.step = "rollback"
          BY <1>4, <2>1, <3>3, <3>7
        <5> QED
          BY <4>9, <5>1 DEF Exact, Copying
    <3> QED
      BY <2>1, <3>6, <3>7
  <2> QED
    BY <2>3, <2>4
<1>10. CASE AppendDies
  <2>1. /\ meta.length \in Rows
        /\ v1' = [v1 EXCEPT ![meta.length] = MaxInitial + appends']
        /\ UNCHANGED <<v2, meta, job, contents, lapsed>> /\ AtRest /\ meta.format = 1
    BY <1>3, <1>10 DEF AppendDies
  <2>2. meta.length \notin First(meta.length)
    BY <2>1, FirstSteps
  <2>3. /\ meta.changed # "no" /\ Len(contents) = meta.length
        /\ \A r \in First(meta.length) : v1[r] = contents[r + 1]
    BY <1>1, <2>1 DEF Exact
  <2>4. \A r \in First(meta.length) : v1'[r] = contents[r + 1]
    BY <1>3, <2>1, <2>2, <2>3 DEF First
  <2> QED
    BY <1>3, <2>1, <2>3, <2>4 DEF Exact, AtRest, Copying
<1>11. CASE ClearList
  <2>1. /\ AtRest /\ job' = job /\ Remove(Swept) /\ contents' = <<>>
        /\ meta' = NewMeta(meta.format) /\ meta.format \in Clearable
    BY <1>11 DEF ClearList
  <2>2. meta.format = 2 /\ meta # NoMeta
    BY <1>3, <2>1, BoundsAssumption
  <2>3. Held(v2') = {}
    BY <1>1, <2>1, <2>2, SweptOfBoth
  <2>4. InOrder(v2', Rows) = <<>>
    BY <1>5, <2>3, NothingInOrder
  <2>5. meta'.format = 2
    BY <2>1, <2>2 DEF NewMeta
  <2> QED
    BY <1>4, <2>1, <2>4, <2>5 DEF Exact, AtRest, Copying
<1>12. CASE DeleteList
  <2>1. /\ meta # NoMeta /\ Remove(Swept) /\ meta' = NoMeta /\ contents' = <<>>
        /\ job' = job /\ job.step \notin {"flip"} \cup Downgrading
    BY <1>12 DEF DeleteList
  <2>2. Held(v2') = {}
    BY <1>1, <2>1, SweptOfBoth
  <2>3. InOrder(v2', Rows \ Residue') = <<>>
    BY <1>5, <2>2, NothingInOrder
  <2>4. meta'.format = 0
    BY <2>1 DEF NoMeta
  <2> QED
    BY <2>1, <2>2, <2>3, <2>4 DEF Exact, Downgrading
<1>13. CASE Migrate \/ Downgrade
  <2>1. /\ job'.step \in {"idle", "check", "down_check"} /\ AtRest
        /\ UNCHANGED <<v1, v2, meta, contents>>
    BY <1>13, StartsAnew DEF Migrate, Downgrade, database
  <2>2. Clean(job'.step)
    BY <1>1, <2>1 DEF Exact, AtRest
  <2> QED
    BY <1>8, <2>1, <2>2 DEF AtRest, Copying
<1>14. CASE Crash
  <2>1. /\ job'.step \in {"idle", "check", "down_check"}
        /\ UNCHANGED <<v1, v2, meta, contents>>
        /\ meta # NoMeta /\ job.step # "rollback"
    BY <1>14, StartsAnew DEF Crash, database
  <2> QED
    BY <1>8, <2>1 DEF Copying
<1>15. CASE Check \/ DownCheck \/ Verify \/ Sweep \/ DownNames
  <2>1. UNCHANGED <<v1, v2, meta, contents>>
    BY <1>15 DEF Check, DownCheck, Verify, Sweep, DownNames, database
  <2>2. /\ job'.step \in {"idle", "sweep", "verify", "down_read", "read", "cleanup"}
        /\ job.step \in {"check", "down_check", "verify", "sweep", "down_names"}
    BY <1>2, <1>15 DEF Check, DownCheck, Verify, Sweep, DownNames,
       RewriteGoto, With, Done, Jobs
  <2>3. Clean(job'.step)
    BY <1>1, <2>2 DEF Exact
  <2> QED
    BY <1>8, <2>1, <2>2, <2>3 DEF Copying
<1>16. CASE ReadItems
  <2>1. /\ UNCHANGED <<v1, v2, meta, contents>> /\ job'.step = "recheck"
        /\ job'.values = InOrder(v1, First(job.length)) /\ job.step = "read"
        /\ meta.format # 2 /\ (meta = NoMeta \/ job.length = meta.length)
    BY <1>1, <1>2, <1>16 DEF ReadItems, database, Jobs, JobOK, Reading
  <2>2. Clean(job'.step)
    BY <1>1, <2>1 DEF Exact
  <2>3. meta = NoMeta \/ job'.values = contents
    <3>1. CASE meta # NoMeta
      <4>1. /\ Len(contents) = meta.length /\ job.length = meta.length
            /\ \A r \in First(meta.length) : v1[r] = contents[r + 1]
        BY <1>1, <1>3, <2>1, <3>1 DEF Exact
      <4>2. Len(contents) <= MaxItems /\ Len(contents) \in Nat
        BY <1>2, <1>3, <3>1, <4>1, Numbers DEF Metas
      <4>3. ASSUME NEW r \in First(meta.length)
            PROVE  r \in Held(v1)
        <5>1. r \in Rows /\ r \in Nat /\ r + 1 \in 1..Len(contents)
          BY <4>1, <4>2, <4>3, Numbers DEF First
        <5>2. contents[r + 1] \in Items
          BY <1>2, <5>1
        <5> QED
          BY <4>1, <4>3, <5>1, <5>2, Numbers DEF Held
      <4>4. Present(v1, First(job.length)) = First(Len(contents))
        BY <1>5, <4>1, <4>3
      <4> QED
        BY <1>2, <2>1, <4>1, <4>2, <4>4, DenseInOrder
    <3> QED
      BY <3>1
  <2> QED
    BY <1>8, <2>1, <2>2, <2>3 DEF Copying
<1>17. CASE DownRead
  <2>1. /\ UNCHANGED <<v1, v2, meta, contents>> /\ job'.step = "down_copy"
        /\ job'.values = InOrder(v2, Rows) /\ meta.format # 1 /\ job.step = "down_read"
    BY <1>1, <1>2, <1>17 DEF DownRead, database, Jobs, JobOK
  <2>2. Clean(job'.step)
    BY <1>1, <2>1 DEF Exact
  <2>3. InOrder(v2, Rows) = contents
    <3>1. CASE meta = NoMeta
      BY <1>5, <1>7, <2>1, <2>2, <3>1, NothingInOrder
    <3>2. CASE meta # NoMeta
      BY <1>1, <1>3, <2>1, <3>2 DEF Exact
    <3> QED
      BY <3>1, <3>2
  <2> QED
    BY <1>8, <2>1, <2>2, <2>3 DEF Copying
<1>18. CASE Recheck \/ ListLeftover
  <2>1. /\ UNCHANGED <<v1, v2, meta, contents>> /\ job.step \in {"recheck", "leftover"}
        /\ job'.step \in {"sweep", "leftover", "clear"} /\ job'.values = job.values
    BY <1>2, <1>18 DEF Recheck, ListLeftover, database, RewriteGoto, With, Jobs
  <2>2. Clean(job'.step) /\ (meta = NoMeta \/ job'.values = contents)
    BY <1>1, <2>1 DEF Exact, Copying
  <2> QED
    BY <1>8, <2>1, <2>2 DEF Copying
<1>19. CASE ClearLeftover
  <2>1. /\ UNCHANGED <<meta, contents>> /\ meta.format # 2 /\ job.step = "clear"
        /\ job.names \subseteq {2} \X Rows
    BY <1>1, <1>19 DEF ClearLeftover, JobOK, Copying
  <2>2. job'.values = job.values /\ job'.step \in {"clear", "copy"}
    BY <1>2, <1>19 DEF ClearLeftover, RewriteGoto, With, Jobs
  <2>3. v1' = v1 /\ Held(v2') \subseteq Held(v2)
    <3>1. CASE job.names = {}
      BY <1>19, <3>1 DEF ClearLeftover
    <3>2. CASE job.names # {}
      <4>1. PICK n \in job.names : Remove({n})
        BY <1>19, <3>2 DEF ClearLeftover
      <4>2. {n} \subseteq {2} \X Rows
        BY <2>1
      <4> QED
        BY <1>1, <4>1, <4>2, RemoveOneFormat, RemoveRemoves
    <3> QED
      BY <3>1, <3>2
  <2>4. meta = NoMeta => Held(v2') = {}
    BY <1>1, <2>1, <2>3 DEF Exact
  <2>5. meta = NoMeta \/ job'.values = contents
    BY <1>1, <2>1, <2>2 DEF Exact, Copying
  <2>6. meta.format = 1 =>
          /\ meta.changed # "no" /\ Len(contents) = meta.length
          /\ \A r \in First(meta.length) : v1[r] = contents[r + 1]
    BY <1>1 DEF Exact
  <2> QED
    BY <2>1, <2>2, <2>3, <2>4, <2>5, <2>6 DEF Exact
<1>20. CASE CopyRow
  <2>1. /\ UNCHANGED <<v1, meta, contents>> /\ meta.format # 2 /\ job.step = "copy"
    BY <1>1, <1>20 DEF CopyRow, JobOK, Copying
  <2>2. job'.values = job.values /\ job'.step \in {"copy", "meta"}
    BY <1>1, <1>20, LoopDoes DEF CopyRow, Counting, RewriteSteps
  <2>3. meta = NoMeta \/ job'.values = contents
    BY <1>1, <2>1, <2>2 DEF Exact, Copying
  <2>4. meta.format = 1 =>
          /\ meta.changed # "no" /\ Len(contents) = meta.length
          /\ \A r \in First(meta.length) : v1[r] = contents[r + 1]
    BY <1>1 DEF Exact
  <2> QED
    BY <2>1, <2>2, <2>3, <2>4 DEF Exact
<1>21. CASE ReadMeta
  <2>1. /\ UNCHANGED <<v1, v2, meta, contents>> /\ job.step = "meta" /\ meta.format # 2
        /\ job'.values = job.values /\ job'.next = 0
        /\ job'.step = (IF meta = NoMeta THEN "rollback" ELSE "flip")
        /\ Held(v2) \subseteq First(Len(job.values))
        /\ \A r \in Held(v2) : v2[r] = job.values[r + 1]
    BY <1>1, <1>2, <1>21 DEF ReadMeta, JobOK, Copying, Counting, Written,
       database, RewriteGoto, Jobs
  <2>2. CASE meta # NoMeta
    BY <1>1, <1>8, <2>1, <2>2 DEF Exact, Copying
  <2>3. CASE meta = NoMeta
    <3>1. Held(v2') \subseteq Residue'
      <4>1. ASSUME NEW r \in Held(v2)
            PROVE  r \in Residue'
        <5>1. r \in Rows /\ r \in Nat /\ r < Len(job.values) /\ v2[r] = job.values[r + 1]
          BY <2>1, <4>1, Numbers DEF First, Held
        <5> QED
          BY <2>1, <5>1 DEF Residue
      <4> QED
        BY <2>1, <4>1
    <3>2. InOrder(v2', Rows \ Residue') = <<>>
      BY <1>5, <3>1, NothingInOrder
    <3>3. job'.step = "rollback" /\ meta'.format = 0
      BY <1>3, <2>1, <2>3
    <3> QED
      BY <1>7, <2>1, <2>3, <3>1, <3>2, <3>3 DEF Exact, Copying
  <2> QED
    BY <2>2, <2>3
<1>22. CASE Flip
  <2>1. /\ UNCHANGED <<v1, v2, contents>> /\ meta'.format = 2
        /\ job'.step = "cleanup" /\ job.step = "flip"
        /\ meta = NoMeta \/ Copied(v2, Len(job.values))
        /\ Held(v2) \subseteq First(Len(job.values))
        /\ job.values \in Seq(Items) /\ Len(job.values) <= MaxItems
    BY <1>1, <1>2, <1>22 DEF Flip, With, Jobs, JobOK, Written
  <2>2. meta # NoMeta /\ job.values = contents
    BY <1>1, <2>1 DEF Exact, Copying
  <2>3. \A r \in First(Len(job.values)) : v2[r] = job.values[r + 1]
    BY <2>1, <2>2 DEF Copied
  <2>4. ASSUME NEW r \in First(Len(job.values))
        PROVE  r \in Held(v2)
    <3>1. r \in Rows /\ r \in Nat /\ r + 1 \in 1..Len(job.values)
      BY <2>1, <2>4, Numbers DEF First
    <3>2. job.values[r + 1] \in Items
      BY <2>1, <3>1
    <3> QED
      BY <2>3, <2>4, <3>1, <3>2, Numbers DEF Held
  <2>5. Present(v2, Rows) = First(Len(job.values))
    BY <1>5, <1>6, <2>1, <2>4
  <2>6. InOrder(v2, Rows) = job.values
    BY <2>1, <2>3, <2>5, DenseInOrder
  <2> QED
    BY <1>4, <2>1, <2>2, <2>6 DEF Exact, Copying
<1>23. CASE Rollback
  <2>1. /\ UNCHANGED <<meta, contents>> /\ meta.format # 1 /\ job.step = "rollback"
    BY <1>1, <1>23 DEF Rollback, JobOK
  <2>2. /\ InOrder(v2, Rows \ Residue) = contents
        /\ meta = NoMeta => Held(v2) \subseteq Residue
    BY <1>1, <2>1 DEF Exact
  <2>3. /\ \/ /\ job'.step = "rollback"
              /\ Residue' = Residue \ {job.next}
           \/ /\ job'.step = "idle"
              /\ Residue \subseteq {job.next}
        /\ Present(v2', Rows \ (Residue \ {job.next})) = Present(v2, Rows \ Residue)
        /\ Held(v2') \subseteq Held(v2)
        /\ job.next \in Residue => job.next \notin Held(v2')
        /\ \A r \in Held(v2') : v2'[r] = v2[r]
    BY <1>1, <1>23, RollbackSteps
  <2> DEFINE B == Residue \ {job.next}
  <2>4. InOrder(v2', Rows \ B) = contents
    <3>1. \A r \in Present(v2', Rows \ B) : v2[r] = v2'[r]
      BY <1>5, <2>3
    <3> HIDE DEF B
    <3>2. Present(v2', Rows \ B) = Present(v2, Rows \ Residue)
      BY <2>3 DEF B
    <3> DEFINE C == Rows \ B
               D == Rows \ Residue
    <3> HIDE DEF C, D
    <3>3. InOrder(v2', C) = InOrder(v2, D)
      BY <3>1, <3>2, SameInOrder DEF C, D
    <3> QED
      BY <2>2, <3>3 DEF C, D
  <2>5. meta = NoMeta => Held(v2') \subseteq B
    BY <2>2, <2>3
  <2>6. CASE job'.step = "rollback"
    <3>1. Residue' = B
      BY <2>3, <2>6
    <3>2. meta'.format # 1
      BY <2>1
    <3> QED
      BY <2>1, <2>4, <2>5, <2>6, <3>1, <3>2 DEF Exact, Copying
  <2>7. CASE job'.step = "idle"
    <3>1. B = {} /\ Rows \ B = Rows
      BY <2>3, <2>7
    <3>2. InOrder(v2', Rows) = contents
      BY <2>4, <3>1
    <3>3. meta = NoMeta => Held(v2') = {}
      BY <2>5, <3>1
    <3>4. meta'.format # 1 /\ contents' = contents /\ meta' = meta
      BY <2>1
    <3> QED
      BY <2>7, <3>2, <3>3, <3>4 DEF Exact, Copying
  <2> QED
    BY <2>3, <2>6, <2>7
<1>24. CASE Cleanup
  <2>1. UNCHANGED <<meta, contents>> /\ job.step = "cleanup"
    BY <1>24 DEF Cleanup
  <2>2. job'.step \in {"idle", "cleanup"}
    BY <1>2, <1>24 DEF Cleanup, Done, With, Jobs
  <2>3. /\ meta.format = 1 => v1' = v1
        /\ meta.format = 2 => v2' = v2
        /\ Held(v2') \subseteq Held(v2)
    <3>1. CASE job.names = {}
      BY <1>24, <3>1 DEF Cleanup
    <3>2. CASE job.names # {}
      <4>1. PICK n \in job.names : Remove({n})
        BY <1>24, <3>2 DEF Cleanup
      <4>2. /\ meta.format = 1 => {n} \subseteq {2} \X Rows
            /\ meta.format = 2 => {n} \subseteq {1} \X Rows
        BY <1>1, <1>24 DEF JobOK, Cleanup
      <4> QED
        BY <1>1, <4>1, <4>2, RemoveOneFormat, RemoveRemoves
    <3> QED
      BY <3>1, <3>2
  <2>4. /\ meta.format = 1 =>
             /\ meta.changed # "no" /\ Len(contents) = meta.length
             /\ \A r \in First(meta.length) : v1'[r] = contents[r + 1]
        /\ meta.format = 2 => InOrder(v2', Rows) = contents
        /\ meta = NoMeta => Held(v2') = {}
    BY <1>1, <2>1, <2>3 DEF Exact
  <2> QED
    BY <2>1, <2>2, <2>4 DEF Exact, Copying
<1>25. CASE DownCopyRow
  <2>1. /\ UNCHANGED <<v2, meta, contents>> /\ meta.format # 1
        /\ job.step = "down_copy"
    BY <1>1, <1>25 DEF DownCopyRow, JobOK
  <2>2. job'.values = job.values /\ job'.step \in {"down_copy", "down_flip"}
    BY <1>1, <1>25, LoopDoes DEF DownCopyRow, Counting, RewriteSteps,
       Downgrading
  <2>3. /\ meta.format = 2 => InOrder(v2, Rows) = contents
        /\ meta = NoMeta => Held(v2) = {}
        /\ job.values = contents
    BY <1>1, <2>1 DEF Exact
  <2> QED
    BY <2>1, <2>2, <2>3 DEF Exact, Copying
<1>26. CASE DownFlip
  <2>1. /\ UNCHANGED <<v1, v2, contents>> /\ meta'.format = 1
        /\ meta'.length = Len(job.values) /\ job'.step = "down_names"
        /\ meta'.changed = "yes" /\ job.step = "down_flip"
    BY <1>2, <1>26 DEF DownFlip, RewriteGoto, Jobs
  <2>2. job.values = contents /\ Copied(v1, Len(job.values))
    BY <1>1, <2>1 DEF Exact, Lossless
  <2>3. \A r \in First(meta'.length) : v1'[r] = contents'[r + 1]
    BY <2>1, <2>2 DEF Copied
  <2> QED
    BY <1>4, <2>1, <2>2, <2>3 DEF Exact, Copying
<1>27. CASE UNCHANGED rewriteVars
  <2>1. UNCHANGED <<v1, v2, meta, contents, job>>
    BY <1>27 DEF rewriteVars
  <2>2. Residue' = Residue
    BY <2>1 DEF Residue
  <2> QED
    BY <1>1, <2>1, <2>2 DEF Exact
<1> QED
  BY <1>9, <1>10, <1>11, <1>12, <1>13, <1>14, <1>15, <1>16, <1>17, <1>18,
     <1>19,
     <1>20, <1>21, <1>22, <1>23, <1>24, <1>25, <1>26, <1>27 DEF RewriteNext, Run

-----------------------------------------------------------------------------
(* The theorems.                                                           *)

\* The list of an older release is exactly its rows.
LEMMA StartsExact == RewriteInit => ExactInv
<1> SUFFICES ASSUME RewriteInit PROVE ExactInv
  OBVIOUS
<1>1. PICK n \in 0..MaxInitial :
        /\ v1 = [r \in Rows |-> IF r < n THEN r + 1 ELSE NoItem]
        /\ v2 = [r \in Rows |-> NoItem]
        /\ meta = [format |-> 1, length |-> n, changed |-> "unknown"]
        /\ job = NoJob
        /\ contents = [i \in 1..n |-> i]
        /\ lapsed = FALSE
        /\ appends = 0 /\ clears = 0 /\ downgrades = 0 /\ crashes = 0
  BY DEF RewriteInit
<1>2. n \in Nat /\ n <= MaxInitial /\ MaxInitial \in Nat /\ n <= MaxItems /\ MaxItems \in Nat
      /\ MaxAppends \in Nat /\ MaxItems = MaxInitial + MaxAppends
  BY <1>1, Numbers DEF MaxItems
<1>3. 1..n \subseteq Items
  BY <1>2 DEF Items
<1>4. contents \in Seq(Items) /\ Len(contents) = n /\ \A i \in 1..n : contents[i] = i
  BY <1>1, <1>2, <1>3
<1>5. \A r \in Rows : r < n => r + 1 \in 1..n /\ r + 1 \in Items
  BY <1>2, <1>3, Numbers
<1>6. /\ v1 \in [Rows -> Items \cup {NoItem}]
      /\ v2 \in [Rows -> Items \cup {NoItem}]
      /\ Held(v2) = {}
  BY <1>1, <1>5 DEF Held
<1>7. meta \in Metas /\ meta.format = 1 /\ meta.length = n /\ meta.changed = "unknown"
      /\ meta # NoMeta
  <2>1. n \in 0..MaxItems
    BY <1>2
  <2> QED
    BY <1>1, <2>1 DEF Metas, NoMeta
<1>8. job \in Jobs /\ job.step = "idle" /\ job.values = <<>> /\ job.next = 0
  BY <1>1, NoJobIsAJob DEF NoJob
<1>9. RewriteTypeOK
  <2>1. job \in [step : RewriteSteps, allowed : BOOLEAN, length : 0..MaxItems,
                 orphans : SUBSET Rows, values : Seq(Items), next : 0..MaxItems,
                 names : SUBSET Names]
    BY <1>8 DEF Jobs
  <2>2. lapsed \in BOOLEAN /\ appends \in 0..MaxAppends /\ clears \in 0..MaxClears
        /\ downgrades \in 0..MaxDowngrades /\ crashes \in 0..MaxCrashes
    <3>1. lapsed \in BOOLEAN
      BY <1>1
    <3>2. \A m \in Nat : 0 \in 0..m
      OBVIOUS
    <3> QED
      BY <1>1, <3>1, <3>2, BoundsAssumption
  <2> QED
    BY <1>4, <1>6, <1>7, <2>1, <2>2 DEF RewriteTypeOK
<1>10. Given
  <2>1. \A r \in Rows : v1[r] <= MaxInitial + 0 /\ v2[r] <= MaxInitial + 0
    BY <1>1, <1>2, Numbers DEF NoItem
  <2>2. Len(job.values) = 0 /\ 1..0 = {}
    BY <1>8
  <2> QED
    BY <1>1, <2>1, <2>2 DEF Given
<1>11. JobOK
  <2>1. Len(<<>>) = 0 /\ 0 <= MaxItems
    BY <1>2
  <2> QED
    BY <1>8, <2>1 DEF JobOK, Reading, Copying
<1>12. \A r \in First(n) : v1[r] = contents[r + 1]
  <2>1. ASSUME NEW r \in First(n)
        PROVE  v1[r] = contents[r + 1]
    <3>1. r \in Rows /\ r < n
      BY DEF First
    <3> QED
      BY <1>1, <1>4, <1>5, <3>1
  <2> QED
    BY <2>1
<1>13. Within(v1, First(n))
  <2>1. ASSUME NEW i \in 1..Len(contents)
        PROVE  \E r \in First(n) : v1[r] = contents[i]
    <3>1. i \in 1..n
      BY <1>4
    <3>2. i - 1 \in First(n) /\ i - 1 + 1 = i
      BY <1>2, <3>1, FirstRows
    <3> QED
      BY <1>12, <3>2
  <2> QED
    BY <2>1 DEF Within
<1>14. Lossless
  BY <1>7, <1>8, <1>13 DEF Lossless, Copying
<1>15. Exact
  BY <1>4, <1>7, <1>8, <1>12 DEF Exact, Copying
<1> QED
  BY <1>9, <1>10, <1>11, <1>14, <1>15 DEF ExactInv, RewriteInv, RewriteBase

\* Every step keeps all items of the list,
LEMMA KeptStays == RewriteInv /\ [RewriteNext]_rewriteVars => RewriteInv'
BY TypeStays, GivenStays, JobStays, LosslessStays DEF RewriteInv, RewriteBase

\* and exactly them while no window was open.
LEMMA ExactlyStays ==
    1 \notin Clearable /\ ExactInv /\ [RewriteNext]_rewriteVars => ExactInv'
BY KeptStays, LapsesStay, ExactStays DEF ExactInv, RewriteInv, RewriteBase

\* Whatever is deleted, cleared or dies, and however often: the rows that the
\* next step of a rewrite relies on hold every item of the list.
THEOREM RewritesInvariance == RewriteSpec => []RewriteInv
<1>1. RewriteInit => RewriteInv
  BY StartsExact DEF ExactInv
<1> QED
  BY <1>1, KeptStays, PTL DEF RewriteSpec

\* A reader of the list misses no item of it: whether the migration, the
\* downgrade or the undo of a migration is under way, has died or was run
\* again, and also in the windows in which a list comes back.
THEOREM NoRewriteLoses == RewriteSpec => []NothingIsLost
<1>1. RewriteInv => NothingIsLost
  <2> SUFFICES ASSUME RewriteInv, NEW i \in 1..Len(contents)
               PROVE  \E k \in 1..Len(View) : View[k] = contents[i]
    BY DEF NothingIsLost
  <2>1. RewriteTypeOK /\ Lossless /\ contents \in Seq(Items)
    BY DEF RewriteInv, RewriteBase, RewriteTypeOK
  <2>2. /\ v1 \in [Rows -> Items \cup {NoItem}]
        /\ v2 \in [Rows -> Items \cup {NoItem}]
        /\ contents[i] # NoItem
    BY <2>1, Numbers DEF RewriteTypeOK
  <2>3. meta # NoMeta
    <3>1. meta = NoMeta => contents = <<>>
      BY <2>1 DEF Lossless
    <3> QED
      BY <3>1
  <2>4. CASE meta.format = 1
    <3>1. PICK r \in First(meta.length) : v1[r] = contents[i]
      BY <2>1, <2>4 DEF Lossless, Within
    <3>2. r \in Present(v1, First(meta.length))
      BY <2>2, <3>1 DEF Present, Held, First
    <3>3. View = InOrder(v1, First(meta.length))
      BY <2>3, <2>4 DEF View
    <3> QED
      BY <2>2, <3>1, <3>2, <3>3, ReadInOrder
  <2>5. CASE meta.format = 2
    <3>1. PICK r \in Rows : v2[r] = contents[i]
      BY <2>1, <2>5 DEF Lossless, Within
    <3>2. r \in Present(v2, Rows)
      BY <2>2, <3>1 DEF Present, Held
    <3>3. View = InOrder(v2, Rows)
      BY <2>3, <2>5 DEF View
    <3> QED
      BY <2>2, <3>1, <3>2, <3>3, ReadInOrder
  <2> QED
    BY <2>1, <2>3, <2>4, <2>5, MetaIs
<1> QED
  BY <1>1, RewritesInvariance, PTL

\* With lists cleared in format 2 only (the clear of a list of format 1 may
\* leave rows of the other format behind, see the README): outside the windows
\* on record, readers see at every step of a rewrite exactly the items of the
\* list in their order.
THEOREM RewritesKeepContents ==
    1 \notin Clearable => (RewriteSpec => []ContentsAreKept)
<1> SUFFICES ASSUME 1 \notin Clearable PROVE RewriteSpec => []ContentsAreKept
  OBVIOUS
<1>1. ExactInv => ContentsAreKept
  <2> SUFFICES ASSUME ExactInv, ~lapsed, job.step # "rollback"
               PROVE  View = contents
    BY DEF ContentsAreKept
  <2>1. RewriteTypeOK /\ Lossless /\ Exact /\ contents \in Seq(Items)
    BY DEF ExactInv, RewriteInv, RewriteBase, RewriteTypeOK
  <2>2. CASE meta = NoMeta
    <3>1. View = <<>>
      BY <2>1, <2>2, MetaIs DEF View
    <3> QED
      BY <2>1, <2>2, <3>1 DEF Lossless
  <2>3. CASE meta.format = 1
    <3>1. meta # NoMeta /\ meta \in Metas
      BY <2>1, <2>3, MetaIs
    <3>2. /\ Len(contents) = meta.length
          /\ \A r \in First(meta.length) : v1[r] = contents[r + 1]
      BY <2>1, <2>3 DEF Exact
    <3>3. Len(contents) <= MaxItems /\ Len(contents) \in Nat
      BY <2>1, <3>1, <3>2, Numbers DEF Metas
    <3>4. ASSUME NEW r \in First(meta.length)
          PROVE  r \in Held(v1)
      <4>1. r \in Rows /\ r \in Nat /\ r + 1 \in 1..Len(contents)
        BY <3>2, <3>3, <3>4, Numbers DEF First
      <4>2. contents[r + 1] \in Items
        BY <2>1, <4>1
      <4> QED
        BY <3>2, <3>4, <4>1, <4>2, Numbers DEF Held
    <3>5. Present(v1, First(meta.length)) = First(Len(contents))
      BY <3>2, <3>4 DEF Present
    <3>6. InOrder(v1, First(meta.length)) = contents
      BY <2>1, <3>2, <3>3, <3>5, DenseInOrder
    <3> QED
      BY <2>3, <3>1, <3>6 DEF View
  <2>4. CASE meta.format = 2
    <3>1. meta # NoMeta /\ InOrder(v2, Rows) = contents
      BY <2>1, <2>4, MetaIs DEF Exact
    <3> QED
      BY <2>4, <3>1 DEF View
  <2> QED
    BY <2>1, <2>2, <2>3, <2>4, MetaIs
<1> QED
  BY <1>1, StartsExact, ExactlyStays, PTL DEF RewriteSpec
=============================================================================
