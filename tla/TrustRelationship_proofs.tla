---------------------- MODULE TrustRelationship_proofs ----------------------
(***************************************************************************)
(* Theorems about TrustRelationship, for any number of operations and of   *)
(* faults, on the backend that updates the named columns of a row          *)
(* (~WholeRow): what an actor knows of the other's approval is true, and   *)
(* when all is quiet the two rows agree.                                   *)
(*                                                                         *)
(* The argument is in three layers.  Who takes each step (StepsFit) and    *)
(* what may be under way beside it (AreAlone); where a secret can be and   *)
(* what a creation and an approval can rely on until they end              *)
(* (SecretsAreKnown to ApprovalHolds); and what a creation, a deletion and *)
(* an announcement have written as long as nothing goes wrong, which gives *)
(* the rows between them (RowsMatch).                                      *)
(***************************************************************************)
EXTENDS TrustRelationship, FiniteSetTheorems, TLAPS

-----------------------------------------------------------------------------
(* The two actors.                                                         *)

LEMMA PeerIsOther ==
    ASSUME NEW x \in Actors
    PROVE  /\ Peer(x) \in Actors
           /\ Peer(x) # x
           /\ Peer(Peer(x)) = x
           /\ \A y \in Actors : y = x \/ y = Peer(x)
<1>1. IsFiniteSet(Actors \ {x}) /\ Cardinality(Actors \ {x}) = 1
  BY ActorsAssumption, FS_RemoveElement
<1>2. PICK y : Actors \ {x} = {y}
  BY <1>1, FS_Singleton
<1>3. y \in Actors /\ y # x /\ \A z \in Actors : z = x \/ z = y
  BY <1>2
<1>4. Peer(x) = y /\ Peer(y) = x
  BY <1>3 DEF Peer
<1> QED
  BY <1>3, <1>4

\* One operation moves; the others are where they were.
Others(o) ==
    \A p \in Operations \ {o} :
        /\ pc'[p] = pc[p] /\ kind'[p] = kind[p] /\ me'[p] = me[p]
        /\ secret'[p] = secret[p] /\ answer'[p] = answer[p]
        /\ handler'[p] = handler[p] /\ copy'[p] = copy[p]
        /\ verified'[p] = verified[p]

LEMMA OthersStay ==
    ASSUME IInv, NEW o \in Operations,
           \/ \E x \in Actors :
               Create(o, x) \/ Approve(o, x) \/ Delete(o, x) \/ Access(o, x)
           \/ CreateAnswered(o) \/ Promote(o) \/ CreateFailed(o) \/ Accept(o)
           \/ Authenticate(o) \/ RecordTrustUsage(o) \/ NotAuthenticated(o)
           \/ SaveApproval(o) \/ Notified(o) \/ NoteApproval(o)
           \/ DeleteRequested(o) \/ PeerRemoves(o)
           \/ DeleteAnswered(o) \/ DeleteFailed(o) \/ Remove(o)
           \/ Lose(o) \/ Die(o)
    PROVE  Others(o)
<1> USE DEF IInv, TypeOK
<1>1. ASSUME NEW x \in Actors, Create(o, x) PROVE Others(o)
  BY <1>1 DEF Create, Begin, Goto, Step, Put, Others
<1>2. ASSUME NEW x \in Actors, Approve(o, x) PROVE Others(o)
  BY <1>2 DEF Approve, Begin, Goto, Load, Others
<1>3. ASSUME NEW x \in Actors, Delete(o, x) PROVE Others(o)
  BY <1>3 DEF Delete, Begin, Goto, Step, Others
<1>4. ASSUME NEW x \in Actors, Access(o, x) PROVE Others(o)
  BY <1>4 DEF Access, Begin, Goto, Step, Others
<1>5. ASSUME CreateAnswered(o) PROVE Others(o)
  BY <1>5 DEF CreateAnswered, At, Load, Goto, Return, Others
<1>6. ASSUME Promote(o) PROVE Others(o)
  BY <1>6 DEF Promote, At, Modify, Put, Return, Goto, Others
<1>7. ASSUME CreateFailed(o) PROVE Others(o)
  BY <1>7 DEF CreateFailed, At, Put, Return, Goto, Fault, Others
<1>8. ASSUME Accept(o) PROVE Others(o)
  BY <1>8 DEF Accept, Handles, Put, Answer, Step, Fault, Others
<1>9. ASSUME Authenticate(o) PROVE Others(o)
  BY <1>9 DEF Authenticate, Load, Step, Others
<1>10. ASSUME RecordTrustUsage(o) PROVE Others(o)
  BY <1>10 DEF RecordTrustUsage, Put, Step, Others
<1>11. ASSUME NotAuthenticated(o) PROVE Others(o)
  BY <1>11 DEF NotAuthenticated, Step, Answer, Others
<1>12. ASSUME SaveApproval(o) PROVE Others(o)
  BY <1>12 DEF SaveApproval, At, Modify, Put, Step, Return, Goto, Others
<1>13. ASSUME Notified(o) PROVE Others(o)
  BY <1>13 DEF Notified, Handles, Load, Step, Others
<1>14. ASSUME NoteApproval(o) PROVE Others(o)
  BY <1>14 DEF NoteApproval, Handles, Modify, Put, Step, Others
<1>15. ASSUME DeleteRequested(o) PROVE Others(o)
  BY <1>15 DEF DeleteRequested, Handles, Step, Answer, Others
<1>16. ASSUME PeerRemoves(o) PROVE Others(o)
  BY <1>16 DEF PeerRemoves, Handles, Put, Answer, Step, Others
<1>17. ASSUME DeleteAnswered(o) PROVE Others(o)
  BY <1>17 DEF DeleteAnswered, At, Goto, Others
<1>18. ASSUME DeleteFailed(o) PROVE Others(o)
  BY <1>18 DEF DeleteFailed, At, Return, Goto, Fault, Others
<1>19. ASSUME Remove(o) PROVE Others(o)
  BY <1>19 DEF Remove, At, Put, Return, Goto, Others
<1>20. ASSUME Lose(o) PROVE Others(o)
  BY <1>20 DEF Lose, Step, Fault, Others
<1>21. ASSUME Die(o) PROVE Others(o)
  BY <1>21 DEF Die, Return, Goto, Fault, Others
<1> QED
  BY <1>1, <1>2, <1>3, <1>4, <1>5, <1>6, <1>7, <1>8, <1>9, <1>10, <1>11,
     <1>12, <1>13, <1>14, <1>15, <1>16, <1>17, <1>18, <1>19, <1>20,
     <1>21

\* A row is a record.
LEMMA RowsAreRecords ==
    ASSUME IInv, NEW x \in Actors, rows[x] # NoRow
    PROVE  rows[x] \in Rows
  BY DEF IInv, TypeOK

\* Every step keeps the types.
LEMMA TypeStep == ~WholeRow /\ IInv /\ [Next]_vars => TypeOK'
<1> SUFFICES ASSUME ~WholeRow, IInv, [Next]_vars PROVE TypeOK'
  OBVIOUS
<1> USE DEF IInv, TypeOK, Kinds, Answers
<1>1. ASSUME NEW o \in Operations, NEW x \in Actors, Create(o, x) PROVE TypeOK'
  <2>1. [secret |-> o, approved |-> TRUE, peer_approved |-> FALSE, verified |->
     TRUE] \in Rows
    BY DEF Rows
  <2> QED
    BY <1>1, <2>1 DEF Create, Begin, Goto, Step, Put
<1>2. ASSUME NEW o \in Operations, NEW x \in Actors, Approve(o, x)
      PROVE  TypeOK'
  <2>1. rows[x] \in Rows
    BY <1>2 DEF Approve
  <2>2. rows[x].secret \in Operations
    BY <2>1 DEF Rows
  <2> QED
    BY <1>2, <2>1, <2>2 DEF Approve, Begin, Goto, Load
<1>3. ASSUME NEW o \in Operations, NEW x \in Actors, Delete(o, x) PROVE TypeOK'
  <2>1. rows[x] \in Rows
    BY <1>3 DEF Delete
  <2>2. rows[x].secret \in Operations
    BY <2>1 DEF Rows
  <2> QED
    BY <1>3, <2>1, <2>2 DEF Delete, Begin, Goto, Step
<1>4. ASSUME NEW o \in Operations, NEW x \in Actors, Access(o, x) PROVE TypeOK'
  <2>1. rows[x] \in Rows
    BY <1>4 DEF Access
  <2>2. rows[x].secret \in Operations
    BY <2>1 DEF Rows
  <2> QED
    BY <1>4, <2>1, <2>2 DEF Access, Begin, Goto, Step
<1>5. ASSUME NEW o \in Operations, CreateAnswered(o) PROVE TypeOK'
  <2>2. me[o] \in Actors /\ secret[o] \in Operations
    BY <1>5 DEF CreateAnswered, At, Handles, StepsFit
  <2> QED
    BY <1>5, <2>2, PeerIsOther DEF CreateAnswered, At, Load, Goto, Return
<1>6. ASSUME NEW o \in Operations, Promote(o) PROVE TypeOK'
  <2>2. me[o] \in Actors /\ secret[o] \in Operations
    BY <1>6 DEF Promote, At, Handles, StepsFit
  <2>3. \A row \in Rows : [row EXCEPT !["peer_approved"] = TRUE] \in Rows
    BY DEF Rows
  <2> QED
    BY <1>6, <2>2, PeerIsOther, <2>3 DEF Promote, At, Modify, Put, Return, Goto
<1>7. ASSUME NEW o \in Operations, CreateFailed(o) PROVE TypeOK'
  <2>2. me[o] \in Actors /\ secret[o] \in Operations
    BY <1>7 DEF CreateFailed, At, Handles, StepsFit
  <2> QED
    BY <1>7, <2>2, PeerIsOther, MaxFaultsAssumption DEF CreateFailed, At, Put,
       Return, Goto, Fault
<1>8. ASSUME NEW o \in Operations, Accept(o) PROVE TypeOK'
  <2>2. me[o] \in Actors /\ secret[o] \in Operations
    BY <1>8 DEF Accept, At, Handles, StepsFit
  <2>3. \A auto \in BOOLEAN : [secret |-> secret[o], approved |-> auto,
     peer_approved |-> TRUE, verified |-> verified[o]] \in Rows
    BY <2>2 DEF Rows
  <2> QED
    BY <1>8, <2>2, PeerIsOther, MaxFaultsAssumption, <2>3 DEF Accept, Handles,
       Put, Answer, Step, Fault
<1>9. ASSUME NEW o \in Operations, Authenticate(o) PROVE TypeOK'
  <2>2. me[o] \in Actors /\ secret[o] \in Operations
    BY <1>9 DEF Authenticate, At, Handles, StepsFit
  <2> QED
    BY <1>9, <2>2, PeerIsOther DEF Authenticate, Load, Step, Server
<1>10. ASSUME NEW o \in Operations, RecordTrustUsage(o) PROVE TypeOK'
  <2>2. me[o] \in Actors /\ secret[o] \in Operations
    BY <1>10 DEF RecordTrustUsage, At, Handles, StepsFit
  <2> QED
    BY <1>10, <2>2, PeerIsOther DEF RecordTrustUsage, Put, Step, Server
<1>11. ASSUME NEW o \in Operations, NotAuthenticated(o) PROVE TypeOK'
  BY <1>11 DEF NotAuthenticated, Step, Answer
<1>12. ASSUME NEW o \in Operations, SaveApproval(o) PROVE TypeOK'
  <2>2. me[o] \in Actors /\ secret[o] \in Operations
    BY <1>12 DEF SaveApproval, At, Handles, StepsFit
  <2>3. \A row \in Rows : [row EXCEPT !["approved"] = TRUE] \in Rows
    BY DEF Rows
  <2> QED
    BY <1>12, <2>2, PeerIsOther, <2>3 DEF SaveApproval, At, Modify, Put, Step,
       Return, Goto
<1>13. ASSUME NEW o \in Operations, Notified(o) PROVE TypeOK'
  <2>2. me[o] \in Actors /\ secret[o] \in Operations
    BY <1>13 DEF Notified, At, Handles, StepsFit
  <2> QED
    BY <1>13, <2>2, PeerIsOther DEF Notified, Handles, Load, Step
<1>14. ASSUME NEW o \in Operations, NoteApproval(o) PROVE TypeOK'
  <2>2. me[o] \in Actors /\ secret[o] \in Operations
    BY <1>14 DEF NoteApproval, At, Handles, StepsFit
  <2>3. \A row \in Rows : [row EXCEPT !["peer_approved"] = TRUE] \in Rows
    BY DEF Rows
  <2> QED
    BY <1>14, <2>2, PeerIsOther, <2>3 DEF NoteApproval, Handles, Modify, Put,
       Step
<1>15. ASSUME NEW o \in Operations, DeleteRequested(o) PROVE TypeOK'
  BY <1>15 DEF DeleteRequested, Handles, Step, Answer
<1>16. ASSUME NEW o \in Operations, PeerRemoves(o) PROVE TypeOK'
  <2>2. me[o] \in Actors /\ secret[o] \in Operations
    BY <1>16 DEF PeerRemoves, At, Handles, StepsFit
  <2> QED
    BY <1>16, <2>2, PeerIsOther DEF PeerRemoves, Handles, Put, Answer, Step
<1>17. ASSUME NEW o \in Operations, DeleteAnswered(o) PROVE TypeOK'
  BY <1>17 DEF DeleteAnswered, At, Goto
<1>18. ASSUME NEW o \in Operations, DeleteFailed(o) PROVE TypeOK'
  BY <1>18, MaxFaultsAssumption DEF DeleteFailed, At, Return, Goto, Fault
<1>19. ASSUME NEW o \in Operations, Remove(o) PROVE TypeOK'
  <2>2. me[o] \in Actors /\ secret[o] \in Operations
    BY <1>19 DEF Remove, At, Handles, StepsFit
  <2> QED
    BY <1>19, <2>2, PeerIsOther DEF Remove, At, Put, Return, Goto
<1>20. ASSUME NEW o \in Operations, Lose(o) PROVE TypeOK'
  BY <1>20, MaxFaultsAssumption DEF Lose, Step, Fault
<1>21. ASSUME NEW o \in Operations, Die(o) PROVE TypeOK'
  BY <1>21, MaxFaultsAssumption DEF Die, Return, Goto, Fault
<1>22. CASE UNCHANGED vars
  BY <1>22 DEF vars
<1> HIDE DEF IInv, TypeOK, Kinds, Answers
<1> QED
  BY <1>1, <1>2, <1>3, <1>4, <1>5, <1>6, <1>7, <1>8, <1>9, <1>10, <1>11,
     <1>12, <1>13, <1>14, <1>15, <1>16, <1>17, <1>18, <1>19, <1>20,
     <1>21, <1>22
  DEF Next

LEMMA SecretsAreOperations ==
    ASSUME IInv, NEW x \in Actors, rows[x] # NoRow
    PROVE  rows[x].secret \in Operations
  BY RowsAreRecords DEF Rows

LEMMA ClashesBothWays ==
    ASSUME NEW k, NEW l
    PROVE  Clash(k, l) <=> Clash(l, k)
  BY DEF Clash

\* Each operation takes its own steps.
LEMMA FitStep ==
    ASSUME ~WholeRow, IInv, [Next]_vars
    PROVE  StepsFit'
<1>0. TypeOK /\ StepsFit
  BY DEF IInv
<1> USE DEF TypeOK, StepsFit
<1>1. ASSUME NEW o \in Operations, NEW x \in Actors, Create(o, x)
      PROVE  StepsFit'
  <2>1. Others(o)
    BY <1>1, OthersStay
  <2> QED
    BY <1>0, <1>1, <2>1 DEF Others, Create, Begin, Goto, Step, Put
<1>2. ASSUME NEW o \in Operations, NEW x \in Actors, Approve(o, x)
      PROVE  StepsFit'
  <2>1. Others(o)
    BY <1>2, OthersStay
  <2>2. rows[x].secret \in Operations
    BY <1>2, SecretsAreOperations DEF Approve
  <2> QED
    BY <1>0, <1>2, <2>1, <2>2 DEF Others, Approve, Begin, Goto, Load
<1>3. ASSUME NEW o \in Operations, NEW x \in Actors, Delete(o, x)
      PROVE  StepsFit'
  <2>1. Others(o)
    BY <1>3, OthersStay
  <2>2. rows[x].secret \in Operations
    BY <1>3, SecretsAreOperations DEF Delete
  <2> QED
    BY <1>0, <1>3, <2>1, <2>2 DEF Others, Delete, Begin, Goto, Step
<1>4. ASSUME NEW o \in Operations, NEW x \in Actors, Access(o, x)
      PROVE  StepsFit'
  <2>1. Others(o)
    BY <1>4, OthersStay
  <2>2. rows[x].secret \in Operations
    BY <1>4, SecretsAreOperations DEF Access
  <2> QED
    BY <1>0, <1>4, <2>1, <2>2 DEF Others, Access, Begin, Goto, Step
<1>5. ASSUME NEW o \in Operations, CreateAnswered(o) PROVE StepsFit'
  <2>1. Others(o)
    BY <1>5, OthersStay
  <2> QED
    BY <1>0, <1>5, <2>1 DEF Others, CreateAnswered, At, Load, Goto, Return
<1>6. ASSUME NEW o \in Operations, Promote(o) PROVE StepsFit'
  <2>1. Others(o)
    BY <1>6, OthersStay
  <2> QED
    BY <1>0, <1>6, <2>1 DEF Others, Promote, At, Modify, Put, Return, Goto
<1>7. ASSUME NEW o \in Operations, CreateFailed(o) PROVE StepsFit'
  <2>1. Others(o)
    BY <1>7, OthersStay
  <2> QED
    BY <1>0, <1>7, <2>1 DEF Others, CreateFailed, At, Put, Return, Goto, Fault
<1>8. ASSUME NEW o \in Operations, Accept(o) PROVE StepsFit'
  <2>1. Others(o)
    BY <1>8, OthersStay
  <2> QED
    BY <1>0, <1>8, <2>1 DEF Others, Accept, Handles, Put, Answer, Step, Fault
<1>9. ASSUME NEW o \in Operations, Authenticate(o) PROVE StepsFit'
  <2>1. Others(o)
    BY <1>9, OthersStay
  <2> QED
    BY <1>0, <1>9, <2>1 DEF Others, Authenticate, Load, Step
<1>10. ASSUME NEW o \in Operations, RecordTrustUsage(o) PROVE StepsFit'
  <2>1. Others(o)
    BY <1>10, OthersStay
  <2> QED
    BY <1>0, <1>10, <2>1 DEF Others, RecordTrustUsage, Put, Step
<1>11. ASSUME NEW o \in Operations, NotAuthenticated(o) PROVE StepsFit'
  <2>1. Others(o)
    BY <1>11, OthersStay
  <2> QED
    BY <1>0, <1>11, <2>1 DEF Others, NotAuthenticated, Step, Answer
<1>12. ASSUME NEW o \in Operations, SaveApproval(o) PROVE StepsFit'
  <2>1. Others(o)
    BY <1>12, OthersStay
  <2> QED
    BY <1>0, <1>12, <2>1 DEF Others, SaveApproval, At, Modify, Put, Step,
       Return, Goto
<1>13. ASSUME NEW o \in Operations, Notified(o) PROVE StepsFit'
  <2>1. Others(o)
    BY <1>13, OthersStay
  <2> QED
    BY <1>0, <1>13, <2>1 DEF Others, Notified, Handles, Load, Step
<1>14. ASSUME NEW o \in Operations, NoteApproval(o) PROVE StepsFit'
  <2>1. Others(o)
    BY <1>14, OthersStay
  <2> QED
    BY <1>0, <1>14, <2>1 DEF Others, NoteApproval, Handles, Modify, Put, Step
<1>15. ASSUME NEW o \in Operations, DeleteRequested(o) PROVE StepsFit'
  <2>1. Others(o)
    BY <1>15, OthersStay
  <2> QED
    BY <1>0, <1>15, <2>1 DEF Others, DeleteRequested, Handles, Step, Answer
<1>16. ASSUME NEW o \in Operations, PeerRemoves(o) PROVE StepsFit'
  <2>1. Others(o)
    BY <1>16, OthersStay
  <2> QED
    BY <1>0, <1>16, <2>1 DEF Others, PeerRemoves, Handles, Put, Answer, Step
<1>17. ASSUME NEW o \in Operations, DeleteAnswered(o) PROVE StepsFit'
  <2>1. Others(o)
    BY <1>17, OthersStay
  <2> QED
    BY <1>0, <1>17, <2>1 DEF Others, DeleteAnswered, At, Goto
<1>18. ASSUME NEW o \in Operations, DeleteFailed(o) PROVE StepsFit'
  <2>1. Others(o)
    BY <1>18, OthersStay
  <2> QED
    BY <1>0, <1>18, <2>1 DEF Others, DeleteFailed, At, Return, Goto, Fault
<1>19. ASSUME NEW o \in Operations, Remove(o) PROVE StepsFit'
  <2>1. Others(o)
    BY <1>19, OthersStay
  <2> QED
    BY <1>0, <1>19, <2>1 DEF Others, Remove, At, Put, Return, Goto
<1>20. ASSUME NEW o \in Operations, Lose(o) PROVE StepsFit'
  <2>1. Others(o)
    BY <1>20, OthersStay
  <2> QED
    BY <1>0, <1>20, <2>1 DEF Others, Lose, Step, Fault
<1>21. ASSUME NEW o \in Operations, Die(o) PROVE StepsFit'
  <2>1. Others(o)
    BY <1>21, OthersStay
  <2> QED
    BY <1>0, <1>21, <2>1 DEF Others, Die, Return, Goto, Fault
<1>22. CASE UNCHANGED vars
  BY <1>0, <1>22 DEF vars
<1> HIDE DEF TypeOK, StepsFit
<1> QED
  BY <1>1, <1>2, <1>3, <1>4, <1>5, <1>6, <1>7, <1>8, <1>9, <1>10, <1>11,
     <1>12, <1>13, <1>14, <1>15, <1>16, <1>17, <1>18, <1>19, <1>20,
     <1>21, <1>22
  DEF Next

\* What begins beside a creation or deletion is noticed.
LEMMA AloneStep ==
    ASSUME ~WholeRow, IInv, [Next]_vars
    PROVE  AreAlone'
<1>0. TypeOK /\ StepsFit /\ AreAlone
  BY DEF IInv
<1> USE DEF TypeOK, StepsFit, AreAlone, Active
<1>1. ASSUME NEW o \in Operations, NEW x \in Actors, Create(o, x)
      PROVE  AreAlone'
  <2>1. Others(o)
    BY <1>1, OthersStay
  <2>2. ~crossed' => /\ ~crossed
                     /\ \A p \in Operations : Active(p) => ~Clash("create",
                        kind[p])
    BY <1>1 DEF Create, Begin
  <2>3. kind'[o] = "create"
    BY <1>0, <1>1 DEF Create, Begin
  <2> QED
    BY <1>0, <2>1, <2>2, <2>3, ClashesBothWays DEF Others
<1>2. ASSUME NEW o \in Operations, NEW x \in Actors, Approve(o, x)
      PROVE  AreAlone'
  <2>1. Others(o)
    BY <1>2, OthersStay
  <2>2. ~crossed' => /\ ~crossed
                     /\ \A p \in Operations : Active(p) => ~Clash("approve",
                        kind[p])
    BY <1>2 DEF Approve, Begin
  <2>3. kind'[o] = "approve"
    BY <1>0, <1>2 DEF Approve, Begin
  <2> QED
    BY <1>0, <2>1, <2>2, <2>3, ClashesBothWays DEF Others
<1>3. ASSUME NEW o \in Operations, NEW x \in Actors, Delete(o, x)
      PROVE  AreAlone'
  <2>1. Others(o)
    BY <1>3, OthersStay
  <2>2. ~crossed' => /\ ~crossed
                     /\ \A p \in Operations : Active(p) => ~Clash("delete",
                        kind[p])
    BY <1>3 DEF Delete, Begin
  <2>3. kind'[o] = "delete"
    BY <1>0, <1>3 DEF Delete, Begin
  <2> QED
    BY <1>0, <2>1, <2>2, <2>3, ClashesBothWays DEF Others
<1>4. ASSUME NEW o \in Operations, NEW x \in Actors, Access(o, x)
      PROVE  AreAlone'
  <2>1. Others(o)
    BY <1>4, OthersStay
  <2>2. ~crossed' => /\ ~crossed
                     /\ \A p \in Operations : Active(p) => ~Clash("access",
                        kind[p])
    BY <1>4 DEF Access, Begin
  <2>3. kind'[o] = "access"
    BY <1>0, <1>4 DEF Access, Begin
  <2> QED
    BY <1>0, <2>1, <2>2, <2>3, ClashesBothWays DEF Others
<1>5. ASSUME NEW o \in Operations, CreateAnswered(o) PROVE AreAlone'
  <2>1. Others(o)
    BY <1>5, OthersStay
  <2> QED
    BY <1>0, <1>5, <2>1 DEF Others, CreateAnswered, At, Load, Goto, Return
<1>6. ASSUME NEW o \in Operations, Promote(o) PROVE AreAlone'
  <2>1. Others(o)
    BY <1>6, OthersStay
  <2> QED
    BY <1>0, <1>6, <2>1 DEF Others, Promote, At, Modify, Put, Return, Goto
<1>7. ASSUME NEW o \in Operations, CreateFailed(o) PROVE AreAlone'
  <2>1. Others(o)
    BY <1>7, OthersStay
  <2> QED
    BY <1>0, <1>7, <2>1 DEF Others, CreateFailed, At, Put, Return, Goto, Fault
<1>8. ASSUME NEW o \in Operations, Accept(o) PROVE AreAlone'
  <2>1. Others(o)
    BY <1>8, OthersStay
  <2> QED
    BY <1>0, <1>8, <2>1 DEF Others, Accept, Handles, Put, Answer, Step, Fault
<1>9. ASSUME NEW o \in Operations, Authenticate(o) PROVE AreAlone'
  <2>1. Others(o)
    BY <1>9, OthersStay
  <2> QED
    BY <1>0, <1>9, <2>1 DEF Others, Authenticate, Load, Step
<1>10. ASSUME NEW o \in Operations, RecordTrustUsage(o) PROVE AreAlone'
  <2>1. Others(o)
    BY <1>10, OthersStay
  <2> QED
    BY <1>0, <1>10, <2>1 DEF Others, RecordTrustUsage, Put, Step
<1>11. ASSUME NEW o \in Operations, NotAuthenticated(o) PROVE AreAlone'
  <2>1. Others(o)
    BY <1>11, OthersStay
  <2> QED
    BY <1>0, <1>11, <2>1 DEF Others, NotAuthenticated, Step, Answer
<1>12. ASSUME NEW o \in Operations, SaveApproval(o) PROVE AreAlone'
  <2>1. Others(o)
    BY <1>12, OthersStay
  <2> QED
    BY <1>0, <1>12, <2>1 DEF Others, SaveApproval, At, Modify, Put, Step,
       Return, Goto
<1>13. ASSUME NEW o \in Operations, Notified(o) PROVE AreAlone'
  <2>1. Others(o)
    BY <1>13, OthersStay
  <2> QED
    BY <1>0, <1>13, <2>1 DEF Others, Notified, Handles, Load, Step
<1>14. ASSUME NEW o \in Operations, NoteApproval(o) PROVE AreAlone'
  <2>1. Others(o)
    BY <1>14, OthersStay
  <2> QED
    BY <1>0, <1>14, <2>1 DEF Others, NoteApproval, Handles, Modify, Put, Step
<1>15. ASSUME NEW o \in Operations, DeleteRequested(o) PROVE AreAlone'
  <2>1. Others(o)
    BY <1>15, OthersStay
  <2> QED
    BY <1>0, <1>15, <2>1 DEF Others, DeleteRequested, Handles, Step, Answer
<1>16. ASSUME NEW o \in Operations, PeerRemoves(o) PROVE AreAlone'
  <2>1. Others(o)
    BY <1>16, OthersStay
  <2> QED
    BY <1>0, <1>16, <2>1 DEF Others, PeerRemoves, Handles, Put, Answer, Step
<1>17. ASSUME NEW o \in Operations, DeleteAnswered(o) PROVE AreAlone'
  <2>1. Others(o)
    BY <1>17, OthersStay
  <2> QED
    BY <1>0, <1>17, <2>1 DEF Others, DeleteAnswered, At, Goto
<1>18. ASSUME NEW o \in Operations, DeleteFailed(o) PROVE AreAlone'
  <2>1. Others(o)
    BY <1>18, OthersStay
  <2> QED
    BY <1>0, <1>18, <2>1 DEF Others, DeleteFailed, At, Return, Goto, Fault
<1>19. ASSUME NEW o \in Operations, Remove(o) PROVE AreAlone'
  <2>1. Others(o)
    BY <1>19, OthersStay
  <2> QED
    BY <1>0, <1>19, <2>1 DEF Others, Remove, At, Put, Return, Goto
<1>20. ASSUME NEW o \in Operations, Lose(o) PROVE AreAlone'
  <2>1. Others(o)
    BY <1>20, OthersStay
  <2> QED
    BY <1>0, <1>20, <2>1 DEF Others, Lose, Step, Fault
<1>21. ASSUME NEW o \in Operations, Die(o) PROVE AreAlone'
  <2>1. Others(o)
    BY <1>21, OthersStay
  <2> QED
    BY <1>0, <1>21, <2>1 DEF Others, Die, Return, Goto, Fault
<1>22. CASE UNCHANGED vars
  BY <1>0, <1>22 DEF vars
<1> HIDE DEF TypeOK, StepsFit, AreAlone, Active
<1> QED
  BY <1>1, <1>2, <1>3, <1>4, <1>5, <1>6, <1>7, <1>8, <1>9, <1>10, <1>11,
     <1>12, <1>13, <1>14, <1>15, <1>16, <1>17, <1>18, <1>19, <1>20,
     <1>21, <1>22
  DEF Next

-----------------------------------------------------------------------------
(* What a step does to the rows.                                           *)

\* PostgreSQL sets one column of the row that is there.
LEMMA ColumnIsSet ==
    ASSUME ~WholeRow, IInv, NEW y \in Actors, NEW old,
           NEW what \in {"approved", "peer_approved"}, Modify(y, old, what)
    PROVE  \A z \in Actors :
              /\ rows'[z] = NoRow <=> rows[z] = NoRow
              /\ rows[z] # NoRow =>
                    /\ rows'[z].secret = rows[z].secret
                    /\ rows'[z].verified = rows[z].verified
                    /\ rows'[z].approved <=>
                          (rows[z].approved \/ (z = y /\ what = "approved"))
                    /\ rows'[z].peer_approved <=>
                          (rows[z].peer_approved \/ (z = y /\ what = "peer_approved"))
<1> SUFFICES ASSUME NEW z \in Actors
             PROVE  /\ rows'[z] = NoRow <=> rows[z] = NoRow
                    /\ rows[z] # NoRow =>
                          /\ rows'[z].secret = rows[z].secret
                          /\ rows'[z].verified = rows[z].verified
                          /\ rows'[z].approved <=>
                                (rows[z].approved \/ (z = y /\ what = "approved"))
                          /\ rows'[z].peer_approved <=>
                                (rows[z].peer_approved \/ (z = y /\ what = "peer_approved"))
  OBVIOUS
<1>1. rows'[z] = IF z # y THEN rows[z]
                 ELSE IF rows[y] = NoRow THEN NoRow ELSE [rows[y] EXCEPT ![what] = TRUE]
  BY DEF Modify, Put, IInv, TypeOK
<1>2. CASE rows[z] = NoRow
  BY <1>1, <1>2
<1>3. CASE rows[z] # NoRow
  <2>1. rows[z] \in Rows
    BY <1>3, RowsAreRecords
  <2>2. [rows[z] EXCEPT ![what] = TRUE] \in Rows
    BY <2>1 DEF Rows
  <2>3. rows'[z] # NoRow
    BY <1>1, <1>3, <2>2, NoRowAssumption DEF Rows
  <2> QED
    BY <1>1, <1>3, <2>1, <2>3 DEF Rows
<1> QED
  BY <1>2, <1>3

\* What is under way beside another operation, as long as nothing crossed.
LEMMA NothingBeside ==
    ASSUME IInv, ~crossed, NEW o \in Operations, NEW p \in Operations,
           o # p, Active(o), Active(p)
    PROVE  /\ kind[o] \in {"create", "delete"} => kind[p] = "access"
           /\ kind[o] \in {"create", "delete", "approve"} => kind[p] \in {"access", "approve"}
<1>1. ~Clash(kind[o], kind[p])
  BY DEF IInv, AreAlone
<1>2. kind[p] \in Kinds
  BY DEF IInv, TypeOK, StepsFit, Active
<1> QED
  BY <1>1, <1>2 DEF Clash, Kinds

\* A secret goes from its creation to the other side, and nowhere else.
LEMMA KnownStep ==
    ASSUME ~WholeRow, IInv, [Next]_vars
    PROVE  SecretsAreKnown'
<1>0. TypeOK /\ StepsFit /\ SecretsAreKnown
  BY FitStep DEF IInv
<1> USE DEF TypeOK, StepsFit, SecretsAreKnown
<1>1. ASSUME NEW o \in Operations, NEW x \in Actors, Create(o, x)
      PROVE  SecretsAreKnown'
  <2>1. Others(o)
    BY <1>1, OthersStay
  <2>2. /\ pc[o] = "idle" /\ kind'[o] = "create" /\ me'[o] = x
        /\ ~crossed' => ~crossed
    BY <1>0, <1>1 DEF Create, Begin
  <2>3. \A y \in Actors : Peer(y) \in Actors /\ Peer(y) # y
    BY PeerIsOther
  <2>4. rows' = [rows EXCEPT ![x] = [secret |-> o, approved |-> TRUE,
                 peer_approved |-> FALSE, verified |-> TRUE]]
    BY <1>1 DEF Create, Put
  <2> QED
    BY <1>0, <1>1, <2>1, <2>2, <2>3, <2>4, NoRowAssumption DEF Others, Create,
       Begin, Goto, Step, Put
<1>2. ASSUME NEW o \in Operations, NEW x \in Actors, Approve(o, x)
      PROVE  SecretsAreKnown'
  <2>1. Others(o)
    BY <1>2, OthersStay
  <2>2. /\ pc[o] = "idle" /\ kind'[o] = "approve" /\ me'[o] = x
        /\ ~crossed' => ~crossed
    BY <1>0, <1>2 DEF Approve, Begin
  <2>3. \A y \in Actors : Peer(y) \in Actors /\ Peer(y) # y
    BY PeerIsOther
  <2>4. rows' = rows
    BY <1>0, <1>2 DEF Approve
  <2> QED
    BY <1>0, <1>2, <2>1, <2>2, <2>3, <2>4, NoRowAssumption DEF Others, Approve,
       Begin, Goto, Load
<1>3. ASSUME NEW o \in Operations, NEW x \in Actors, Delete(o, x)
      PROVE  SecretsAreKnown'
  <2>1. Others(o)
    BY <1>3, OthersStay
  <2>2. /\ pc[o] = "idle" /\ kind'[o] = "delete" /\ me'[o] = x
        /\ ~crossed' => ~crossed
    BY <1>0, <1>3 DEF Delete, Begin
  <2>3. \A y \in Actors : Peer(y) \in Actors /\ Peer(y) # y
    BY PeerIsOther
  <2>4. rows' = rows
    BY <1>0, <1>3 DEF Delete
  <2> QED
    BY <1>0, <1>3, <2>1, <2>2, <2>3, <2>4, NoRowAssumption DEF Others, Delete,
       Begin, Goto, Step
<1>4. ASSUME NEW o \in Operations, NEW x \in Actors, Access(o, x)
      PROVE  SecretsAreKnown'
  <2>1. Others(o)
    BY <1>4, OthersStay
  <2>2. /\ pc[o] = "idle" /\ kind'[o] = "access" /\ me'[o] = x
        /\ ~crossed' => ~crossed
    BY <1>0, <1>4 DEF Access, Begin
  <2>3. \A y \in Actors : Peer(y) \in Actors /\ Peer(y) # y
    BY PeerIsOther
  <2>4. rows' = rows
    BY <1>0, <1>4 DEF Access
  <2> QED
    BY <1>0, <1>4, <2>1, <2>2, <2>3, <2>4, NoRowAssumption DEF Others, Access,
       Begin, Goto, Step
<1>5. ASSUME NEW o \in Operations, CreateAnswered(o) PROVE SecretsAreKnown'
  <2>1. Others(o)
    BY <1>5, OthersStay
  <2>2. UNCHANGED <<kind, me, secret, crossed>>
    BY <1>5 DEF CreateAnswered
  <2>3. me[o] \in Actors /\ Peer(me[o]) \in Actors /\ Peer(me[o]) # me[o]
    BY <1>0, <1>5, PeerIsOther DEF CreateAnswered, At, Load, Goto, Return
  <2>4. rows' = rows
    BY <1>0, <1>5 DEF CreateAnswered
  <2> QED
    BY <1>0, <1>5, <2>1, <2>2, <2>3, <2>4, NoRowAssumption DEF Others,
       CreateAnswered, At, Load, Goto, Return
<1>6. ASSUME NEW o \in Operations, Promote(o) PROVE SecretsAreKnown'
  <2>1. Others(o)
    BY <1>6, OthersStay
  <2>2. UNCHANGED <<kind, me, secret, crossed>>
    BY <1>6 DEF Promote
  <2>3. me[o] \in Actors /\ Peer(me[o]) \in Actors /\ Peer(me[o]) # me[o]
    BY <1>0, <1>6, PeerIsOther DEF Promote, At, Modify, Put, Return, Goto
  <2>4. \A z \in Actors :
          /\ rows'[z] = NoRow <=> rows[z] = NoRow
          /\ rows[z] # NoRow =>
                /\ rows'[z].secret = rows[z].secret
                /\ rows'[z].verified = rows[z].verified
                /\ rows'[z].approved <=> rows[z].approved
                /\ rows'[z].peer_approved <=> (rows[z].peer_approved \/ z =
                   me[o])
    BY <1>6, <2>3, ColumnIsSet DEF Promote
  <2> QED
    BY <1>0, <1>6, <2>1, <2>2, <2>3, <2>4, NoRowAssumption DEF Others, Promote,
       At, Modify, Put, Return, Goto
<1>7. ASSUME NEW o \in Operations, CreateFailed(o) PROVE SecretsAreKnown'
  <2>1. Others(o)
    BY <1>7, OthersStay
  <2>2. UNCHANGED <<kind, me, secret, crossed>>
    BY <1>7 DEF CreateFailed
  <2>3. me[o] \in Actors /\ Peer(me[o]) \in Actors /\ Peer(me[o]) # me[o]
    BY <1>0, <1>7, PeerIsOther DEF CreateFailed, At, Put, Return, Goto, Fault
  <2>4. rows' = [rows EXCEPT ![me[o]] = NoRow]
    BY <1>7 DEF CreateFailed, Put
  <2> QED
    BY <1>0, <1>7, <2>1, <2>2, <2>3, <2>4, NoRowAssumption DEF Others,
       CreateFailed, At, Put, Return, Goto, Fault
<1>8. ASSUME NEW o \in Operations, Accept(o) PROVE SecretsAreKnown'
  <2>1. Others(o)
    BY <1>8, OthersStay
  <2>2. UNCHANGED <<kind, me, secret, crossed>>
    BY <1>8 DEF Accept
  <2>3. me[o] \in Actors /\ Peer(me[o]) \in Actors /\ Peer(me[o]) # me[o]
    BY <1>0, <1>8, PeerIsOther DEF Accept, Handles, Put, Answer, Step, Fault
  <2>4. \/ UNCHANGED rows /\ faults' # 0
        \/ \E auto \in BOOLEAN :
              /\ rows' = [rows EXCEPT ![Peer(me[o])] =
                   [secret |-> secret[o], approved |-> auto, peer_approved |->
                      TRUE,
                    verified |-> verified[o]]]
              /\ answer'[o] = IF pc[o] # "waiting" THEN "none"
                               ELSE IF auto THEN "created" ELSE "accepted"
    BY <1>0, <1>8, MaxFaultsAssumption DEF Accept, Put, Answer, Fault
  <2>5. kind[o] = "create" /\ handler[o] = "act" /\ handler'[o] = "none"
    BY <1>0, <1>8 DEF Accept, Handles, Step
  <2>6. secret[o] = o /\ kind[o] = "create"
    BY <1>0, <2>5
  <2>7. CASE UNCHANGED rows
    BY <1>0, <2>1, <2>2, <2>3, <2>5, <2>7 DEF Others
  <2>8. ASSUME NEW auto \in BOOLEAN,
               rows' = [rows EXCEPT ![Peer(me[o])] =
                   [secret |-> secret[o], approved |-> auto, peer_approved |->
                      TRUE,
                    verified |-> verified[o]]]
        PROVE  SecretsAreKnown'
    <3>1. \A z \in Actors : z # Peer(me[o]) => rows'[z] = rows[z]
      BY <1>0, <2>8
    <3>2. rows'[Peer(me[o])].secret = o
      BY <1>0, <2>3, <2>6, <2>8
    <3>3. \A q \in Operations : kind'[q] = "create" => secret'[q] = q
      BY <1>0, <2>2
    <3>4. ASSUME NEW z \in Actors, rows'[z] # NoRow
          PROVE  kind'[rows'[z].secret] = "create" /\ (me'[rows'[z].secret] = z
             => rows'[z].approved)
      <4>1. CASE z = Peer(me[o])
        BY <2>2, <2>3, <2>6, <3>2, <4>1
      <4>2. CASE z # Peer(me[o])
        BY <1>0, <2>2, <3>1, <3>4, <4>2
      <4> QED
        BY <4>1, <4>2
    <3>5. ASSUME NEW q \in Operations, kind'[q] = "create", handler'[q] #
       "none",
                 rows'[Peer(me'[q])] # NoRow
          PROVE  rows'[Peer(me'[q])].secret # q
      <4>1. q # o /\ kind[q] = "create" /\ handler[q] # "none" /\ me[q] \in
         Actors
        BY <1>0, <2>1, <2>2, <2>5, <3>5 DEF Others
      <4>2. me' = me /\ Peer(me[q]) \in Actors
        BY <2>2, <4>1, PeerIsOther
      <4> QED
        BY <1>0, <3>1, <3>2, <3>5, <4>1, <4>2
    <3> QED
      BY <3>3, <3>4, <3>5
  <2> QED
    BY <2>4, <2>7, <2>8
<1>9. ASSUME NEW o \in Operations, Authenticate(o) PROVE SecretsAreKnown'
  <2>1. Others(o)
    BY <1>9, OthersStay
  <2>2. UNCHANGED <<kind, me, secret, crossed>>
    BY <1>9 DEF Authenticate
  <2>3. me[o] \in Actors /\ Peer(me[o]) \in Actors /\ Peer(me[o]) # me[o]
    BY <1>0, <1>9, PeerIsOther DEF Authenticate, Load, Step
  <2>4. rows' = rows
    BY <1>0, <1>9 DEF Authenticate
  <2> QED
    BY <1>0, <1>9, <2>1, <2>2, <2>3, <2>4, NoRowAssumption DEF Others,
       Authenticate, Load, Step
<1>10. ASSUME NEW o \in Operations, RecordTrustUsage(o) PROVE SecretsAreKnown'
  <2>1. Others(o)
    BY <1>10, OthersStay
  <2>2. UNCHANGED <<kind, me, secret, crossed>>
    BY <1>10 DEF RecordTrustUsage
  <2>3. me[o] \in Actors /\ Peer(me[o]) \in Actors /\ Peer(me[o]) # me[o]
    BY <1>0, <1>10, PeerIsOther DEF RecordTrustUsage, Put, Step
  <2>4. rows' = rows
    BY <1>0, <1>10 DEF RecordTrustUsage, Put
  <2> QED
    BY <1>0, <1>10, <2>1, <2>2, <2>3, <2>4, NoRowAssumption DEF Others,
       RecordTrustUsage, Put, Step
<1>11. ASSUME NEW o \in Operations, NotAuthenticated(o) PROVE SecretsAreKnown'
  <2>1. Others(o)
    BY <1>11, OthersStay
  <2>2. UNCHANGED <<kind, me, secret, crossed>>
    BY <1>11 DEF NotAuthenticated
  <2>3. me[o] \in Actors /\ Peer(me[o]) \in Actors /\ Peer(me[o]) # me[o]
    BY <1>0, <1>11, PeerIsOther DEF NotAuthenticated, Step, Answer
  <2>4. rows' = rows
    BY <1>0, <1>11 DEF NotAuthenticated
  <2> QED
    BY <1>0, <1>11, <2>1, <2>2, <2>3, <2>4, NoRowAssumption DEF Others,
       NotAuthenticated, Step, Answer
<1>12. ASSUME NEW o \in Operations, SaveApproval(o) PROVE SecretsAreKnown'
  <2>1. Others(o)
    BY <1>12, OthersStay
  <2>2. UNCHANGED <<kind, me, secret, crossed>>
    BY <1>12 DEF SaveApproval
  <2>3. me[o] \in Actors /\ Peer(me[o]) \in Actors /\ Peer(me[o]) # me[o]
    BY <1>0, <1>12, PeerIsOther DEF SaveApproval, At, Modify, Put, Step,
       Return, Goto
  <2>4. \A z \in Actors :
          /\ rows'[z] = NoRow <=> rows[z] = NoRow
          /\ rows[z] # NoRow =>
                /\ rows'[z].secret = rows[z].secret
                /\ rows'[z].verified = rows[z].verified
                /\ rows'[z].approved <=> (rows[z].approved \/ z = me[o])
                /\ rows'[z].peer_approved <=> rows[z].peer_approved
    BY <1>12, <2>3, ColumnIsSet DEF SaveApproval
  <2> QED
    BY <1>0, <1>12, <2>1, <2>2, <2>3, <2>4, NoRowAssumption DEF Others,
       SaveApproval, At, Modify, Put, Step, Return, Goto
<1>13. ASSUME NEW o \in Operations, Notified(o) PROVE SecretsAreKnown'
  <2>1. Others(o)
    BY <1>13, OthersStay
  <2>2. UNCHANGED <<kind, me, secret, crossed>>
    BY <1>13 DEF Notified
  <2>3. me[o] \in Actors /\ Peer(me[o]) \in Actors /\ Peer(me[o]) # me[o]
    BY <1>0, <1>13, PeerIsOther DEF Notified, Handles, Load, Step
  <2>4. rows' = rows
    BY <1>0, <1>13 DEF Notified
  <2> QED
    BY <1>0, <1>13, <2>1, <2>2, <2>3, <2>4, NoRowAssumption DEF Others,
       Notified, Handles, Load, Step
<1>14. ASSUME NEW o \in Operations, NoteApproval(o) PROVE SecretsAreKnown'
  <2>1. Others(o)
    BY <1>14, OthersStay
  <2>2. UNCHANGED <<kind, me, secret, crossed>>
    BY <1>14 DEF NoteApproval
  <2>3. me[o] \in Actors /\ Peer(me[o]) \in Actors /\ Peer(me[o]) # me[o]
    BY <1>0, <1>14, PeerIsOther DEF NoteApproval, Handles, Modify, Put, Step
  <2>4. \A z \in Actors :
          /\ rows'[z] = NoRow <=> rows[z] = NoRow
          /\ rows[z] # NoRow =>
                /\ rows'[z].secret = rows[z].secret
                /\ rows'[z].verified = rows[z].verified
                /\ rows'[z].approved <=> rows[z].approved
                /\ rows'[z].peer_approved <=> (rows[z].peer_approved \/ z =
                   Peer(me[o]))
    BY <1>14, <2>3, ColumnIsSet DEF NoteApproval
  <2> QED
    BY <1>0, <1>14, <2>1, <2>2, <2>3, <2>4, NoRowAssumption DEF Others,
       NoteApproval, Handles, Modify, Put, Step
<1>15. ASSUME NEW o \in Operations, DeleteRequested(o) PROVE SecretsAreKnown'
  <2>1. Others(o)
    BY <1>15, OthersStay
  <2>2. UNCHANGED <<kind, me, secret, crossed>>
    BY <1>15 DEF DeleteRequested
  <2>3. me[o] \in Actors /\ Peer(me[o]) \in Actors /\ Peer(me[o]) # me[o]
    BY <1>0, <1>15, PeerIsOther DEF DeleteRequested, Handles, Step, Answer
  <2>4. rows' = rows
    BY <1>0, <1>15 DEF DeleteRequested
  <2> QED
    BY <1>0, <1>15, <2>1, <2>2, <2>3, <2>4, NoRowAssumption DEF Others,
       DeleteRequested, Handles, Step, Answer
<1>16. ASSUME NEW o \in Operations, PeerRemoves(o) PROVE SecretsAreKnown'
  <2>1. Others(o)
    BY <1>16, OthersStay
  <2>2. UNCHANGED <<kind, me, secret, crossed>>
    BY <1>16 DEF PeerRemoves
  <2>3. me[o] \in Actors /\ Peer(me[o]) \in Actors /\ Peer(me[o]) # me[o]
    BY <1>0, <1>16, PeerIsOther DEF PeerRemoves, Handles, Put, Answer, Step
  <2>4. rows' = [rows EXCEPT ![Peer(me[o])] = NoRow]
    BY <1>16 DEF PeerRemoves, Put
  <2> QED
    BY <1>0, <1>16, <2>1, <2>2, <2>3, <2>4, NoRowAssumption DEF Others,
       PeerRemoves, Handles, Put, Answer, Step
<1>17. ASSUME NEW o \in Operations, DeleteAnswered(o) PROVE SecretsAreKnown'
  <2>1. Others(o)
    BY <1>17, OthersStay
  <2>2. UNCHANGED <<kind, me, secret, crossed>>
    BY <1>17 DEF DeleteAnswered
  <2>3. me[o] \in Actors /\ Peer(me[o]) \in Actors /\ Peer(me[o]) # me[o]
    BY <1>0, <1>17, PeerIsOther DEF DeleteAnswered, At, Goto
  <2>4. rows' = rows
    BY <1>0, <1>17 DEF DeleteAnswered
  <2> QED
    BY <1>0, <1>17, <2>1, <2>2, <2>3, <2>4, NoRowAssumption DEF Others,
       DeleteAnswered, At, Goto
<1>18. ASSUME NEW o \in Operations, DeleteFailed(o) PROVE SecretsAreKnown'
  <2>1. Others(o)
    BY <1>18, OthersStay
  <2>2. UNCHANGED <<kind, me, secret, crossed>>
    BY <1>18 DEF DeleteFailed
  <2>3. me[o] \in Actors /\ Peer(me[o]) \in Actors /\ Peer(me[o]) # me[o]
    BY <1>0, <1>18, PeerIsOther DEF DeleteFailed, At, Return, Goto, Fault
  <2>4. rows' = rows
    BY <1>0, <1>18 DEF DeleteFailed
  <2> QED
    BY <1>0, <1>18, <2>1, <2>2, <2>3, <2>4, NoRowAssumption DEF Others,
       DeleteFailed, At, Return, Goto, Fault
<1>19. ASSUME NEW o \in Operations, Remove(o) PROVE SecretsAreKnown'
  <2>1. Others(o)
    BY <1>19, OthersStay
  <2>2. UNCHANGED <<kind, me, secret, crossed>>
    BY <1>19 DEF Remove
  <2>3. me[o] \in Actors /\ Peer(me[o]) \in Actors /\ Peer(me[o]) # me[o]
    BY <1>0, <1>19, PeerIsOther DEF Remove, At, Put, Return, Goto
  <2>4. rows' = [rows EXCEPT ![me[o]] = NoRow]
    BY <1>19 DEF Remove, Put
  <2> QED
    BY <1>0, <1>19, <2>1, <2>2, <2>3, <2>4, NoRowAssumption DEF Others, Remove,
       At, Put, Return, Goto
<1>20. ASSUME NEW o \in Operations, Lose(o) PROVE SecretsAreKnown'
  <2>1. Others(o)
    BY <1>20, OthersStay
  <2>2. UNCHANGED <<kind, me, secret, crossed>>
    BY <1>20 DEF Lose
  <2>3. me[o] \in Actors /\ Peer(me[o]) \in Actors /\ Peer(me[o]) # me[o]
    BY <1>0, <1>20, PeerIsOther DEF Lose, Step, Fault
  <2>4. rows' = rows
    BY <1>0, <1>20 DEF Lose
  <2> QED
    BY <1>0, <1>20, <2>1, <2>2, <2>3, <2>4, NoRowAssumption DEF Others, Lose,
       Step, Fault
<1>21. ASSUME NEW o \in Operations, Die(o) PROVE SecretsAreKnown'
  <2>1. Others(o)
    BY <1>21, OthersStay
  <2>2. UNCHANGED <<kind, me, secret, crossed>>
    BY <1>21 DEF Die
  <2>3. me[o] \in Actors /\ Peer(me[o]) \in Actors /\ Peer(me[o]) # me[o]
    BY <1>0, <1>21, PeerIsOther DEF Die, Return, Goto, Fault
  <2>4. rows' = rows
    BY <1>0, <1>21 DEF Die
  <2> QED
    BY <1>0, <1>21, <2>1, <2>2, <2>3, <2>4, NoRowAssumption DEF Others, Die,
       Return, Goto, Fault
<1>22. CASE UNCHANGED vars
  BY <1>0, <1>22 DEF vars
<1> HIDE DEF TypeOK, StepsFit, SecretsAreKnown
<1> QED
  BY <1>1, <1>2, <1>3, <1>4, <1>5, <1>6, <1>7, <1>8, <1>9, <1>10, <1>11,
     <1>12, <1>13, <1>14, <1>15, <1>16, <1>17, <1>18, <1>19, <1>20,
     <1>21, <1>22
  DEF Next

\* While a creation runs nobody else touches the rows.
LEMMA CreationStep ==
    ASSUME ~WholeRow, IInv, [Next]_vars
    PROVE  CreationHolds'
<1>0. TypeOK /\ StepsFit /\ SecretsAreKnown /\ CreationHolds
  BY FitStep DEF IInv
<1> USE DEF TypeOK, StepsFit, SecretsAreKnown, CreationHolds, Active
<1>1. ASSUME NEW o \in Operations, NEW x \in Actors, Create(o, x)
      PROVE  CreationHolds'
  <2>1. Others(o)
    BY <1>1, OthersStay
  <2>2. /\ pc[o] = "idle" /\ kind'[o] = "create" /\ me'[o] = x
        /\ ~crossed' => ~crossed
    BY <1>0, <1>1 DEF Create, Begin
  <2>3. \A y \in Actors : Peer(y) \in Actors /\ Peer(y) # y
    BY PeerIsOther
  <2>4. rows' = [rows EXCEPT ![x] = [secret |-> o, approved |-> TRUE,
                 peer_approved |-> FALSE, verified |-> TRUE]]
    BY <1>1 DEF Create, Put
  <2>5. ~crossed' => \A p \in Operations \ {o} :
          Active(p) => kind[p] = "access"
    <3> SUFFICES ASSUME ~crossed', NEW p \in Operations \ {o}, Active(p)
                 PROVE  kind[p] = "access"
      OBVIOUS
    <3>1. ~Clash("create", kind[p])
      BY <1>1 DEF Create, Begin
    <3>2. kind[p] \in Kinds
      BY <1>0 DEF Active
    <3> QED
      BY <3>1, <3>2 DEF Clash, Kinds
  <2>6. kind[o] = "none" /\ answer[o] \notin {"created"}
    BY <1>0, <2>2
  <2>7. SUFFICES ASSUME ~crossed', NEW q \in Operations, kind'[q] = "create",
                        pc'[q] \in {"waiting", "promote"}
                 PROVE  /\ rows'[me'[q]] # NoRow /\ rows'[me'[q]].secret = q
                        /\ answer'[q] # "created" /\ pc'[q] # "promote"
    OBVIOUS
  <2>8. q = o
    BY <2>1, <2>5, <2>7 DEF Others
  <2>9. rows'[x] # NoRow /\ rows'[x].secret = o
    <3>1. rows'[x] = [secret |-> o, approved |-> TRUE, peer_approved |-> FALSE,
                      verified |-> TRUE]
      BY <1>0, <2>4
    <3>2. NoRow \notin Rows
      BY NoRowAssumption DEF Rows
    <3>3. rows'[x] \in Rows
      BY <3>1 DEF Rows
    <3>4. rows'[x] # NoRow
      BY <3>2, <3>3
    <3> QED
      BY <3>1, <3>4
  <2>10. answer' = answer /\ pc'[o] = "waiting"
    BY <1>0, <1>1 DEF Create, Goto
  <2> QED
    BY <2>2, <2>6, <2>8, <2>9, <2>10
<1>2. ASSUME NEW o \in Operations, NEW x \in Actors, Approve(o, x)
      PROVE  CreationHolds'
  <2>1. Others(o)
    BY <1>2, OthersStay
  <2>2. /\ pc[o] = "idle" /\ kind'[o] = "approve" /\ me'[o] = x
        /\ ~crossed' => ~crossed
    BY <1>0, <1>2 DEF Approve, Begin
  <2>3. \A y \in Actors : Peer(y) \in Actors /\ Peer(y) # y
    BY PeerIsOther
  <2>4. rows' = rows
    BY <1>0, <1>2 DEF Approve
  <2>5. ~crossed' => \A p \in Operations \ {o} :
          Active(p) => kind[p] \in {"access", "approve"}
    <3> SUFFICES ASSUME ~crossed', NEW p \in Operations \ {o}, Active(p)
                 PROVE  kind[p] \in {"access", "approve"}
      OBVIOUS
    <3>1. ~Clash("approve", kind[p])
      BY <1>2 DEF Approve, Begin
    <3>2. kind[p] \in Kinds
      BY <1>0 DEF Active
    <3> QED
      BY <3>1, <3>2 DEF Clash, Kinds
  <2> QED
    BY <1>0, <1>2, <2>1, <2>2, <2>3, <2>4, NoRowAssumption, <2>5 DEF Others,
       Approve, Begin, Goto, Load
<1>3. ASSUME NEW o \in Operations, NEW x \in Actors, Delete(o, x)
      PROVE  CreationHolds'
  <2>1. Others(o)
    BY <1>3, OthersStay
  <2>2. /\ pc[o] = "idle" /\ kind'[o] = "delete" /\ me'[o] = x
        /\ ~crossed' => ~crossed
    BY <1>0, <1>3 DEF Delete, Begin
  <2>3. \A y \in Actors : Peer(y) \in Actors /\ Peer(y) # y
    BY PeerIsOther
  <2>4. rows' = rows
    BY <1>0, <1>3 DEF Delete
  <2>5. ~crossed' => \A p \in Operations \ {o} :
          Active(p) => kind[p] = "access"
    <3> SUFFICES ASSUME ~crossed', NEW p \in Operations \ {o}, Active(p)
                 PROVE  kind[p] = "access"
      OBVIOUS
    <3>1. ~Clash("delete", kind[p])
      BY <1>3 DEF Delete, Begin
    <3>2. kind[p] \in Kinds
      BY <1>0 DEF Active
    <3> QED
      BY <3>1, <3>2 DEF Clash, Kinds
  <2> QED
    BY <1>0, <1>3, <2>1, <2>2, <2>3, <2>4, NoRowAssumption, <2>5 DEF Others,
       Delete, Begin, Goto, Step
<1>4. ASSUME NEW o \in Operations, NEW x \in Actors, Access(o, x)
      PROVE  CreationHolds'
  <2>1. Others(o)
    BY <1>4, OthersStay
  <2>2. /\ pc[o] = "idle" /\ kind'[o] = "access" /\ me'[o] = x
        /\ ~crossed' => ~crossed
    BY <1>0, <1>4 DEF Access, Begin
  <2>3. \A y \in Actors : Peer(y) \in Actors /\ Peer(y) # y
    BY PeerIsOther
  <2>4. rows' = rows
    BY <1>0, <1>4 DEF Access
  <2> QED
    BY <1>0, <1>4, <2>1, <2>2, <2>3, <2>4, NoRowAssumption DEF Others, Access,
       Begin, Goto, Step
<1>5. ASSUME NEW o \in Operations, CreateAnswered(o) PROVE CreationHolds'
  <2>1. Others(o)
    BY <1>5, OthersStay
  <2>2. UNCHANGED <<kind, me, secret, crossed>>
    BY <1>5 DEF CreateAnswered
  <2>3. me[o] \in Actors /\ Peer(me[o]) \in Actors /\ Peer(me[o]) # me[o]
    BY <1>0, <1>5, PeerIsOther DEF CreateAnswered, At, Load, Goto, Return
  <2>4. rows' = rows
    BY <1>0, <1>5 DEF CreateAnswered
  <2>5. ~crossed => \A p \in Operations \ {o} : Active(p) =>
          /\ kind[o] \in {"create", "delete"} => kind[p] = "access"
          /\ kind[o] \in {"create", "delete", "approve"} => kind[p] \in
             {"access", "approve"}
    BY <1>0, <1>5, NothingBeside DEF Active, CreateAnswered, At, Load, Goto,
       Return
  <2> QED
    BY <1>0, <1>5, <2>1, <2>2, <2>3, <2>4, NoRowAssumption, <2>5 DEF Others,
       CreateAnswered, At, Load, Goto, Return
<1>6. ASSUME NEW o \in Operations, Promote(o) PROVE CreationHolds'
  <2>1. Others(o)
    BY <1>6, OthersStay
  <2>2. UNCHANGED <<kind, me, secret, crossed>>
    BY <1>6 DEF Promote
  <2>3. me[o] \in Actors /\ Peer(me[o]) \in Actors /\ Peer(me[o]) # me[o]
    BY <1>0, <1>6, PeerIsOther DEF Promote, At, Modify, Put, Return, Goto
  <2>4. \A z \in Actors :
          /\ rows'[z] = NoRow <=> rows[z] = NoRow
          /\ rows[z] # NoRow =>
                /\ rows'[z].secret = rows[z].secret
                /\ rows'[z].verified = rows[z].verified
                /\ rows'[z].approved <=> rows[z].approved
                /\ rows'[z].peer_approved <=> (rows[z].peer_approved \/ z =
                   me[o])
    BY <1>6, <2>3, ColumnIsSet DEF Promote
  <2>5. ~crossed => \A p \in Operations \ {o} : Active(p) =>
          /\ kind[o] \in {"create", "delete"} => kind[p] = "access"
          /\ kind[o] \in {"create", "delete", "approve"} => kind[p] \in
             {"access", "approve"}
    BY <1>0, <1>6, NothingBeside DEF Active, Promote, At, Modify, Put, Return,
       Goto
  <2> QED
    BY <1>0, <1>6, <2>1, <2>2, <2>3, <2>4, NoRowAssumption, <2>5 DEF Others,
       Promote, At, Modify, Put, Return, Goto
<1>7. ASSUME NEW o \in Operations, CreateFailed(o) PROVE CreationHolds'
  <2>1. Others(o)
    BY <1>7, OthersStay
  <2>2. UNCHANGED <<kind, me, secret, crossed>>
    BY <1>7 DEF CreateFailed
  <2>3. me[o] \in Actors /\ Peer(me[o]) \in Actors /\ Peer(me[o]) # me[o]
    BY <1>0, <1>7, PeerIsOther DEF CreateFailed, At, Put, Return, Goto, Fault
  <2>4. rows' = [rows EXCEPT ![me[o]] = NoRow]
    BY <1>7 DEF CreateFailed, Put
  <2>5. ~crossed => \A p \in Operations \ {o} : Active(p) =>
          /\ kind[o] \in {"create", "delete"} => kind[p] = "access"
          /\ kind[o] \in {"create", "delete", "approve"} => kind[p] \in
             {"access", "approve"}
    BY <1>0, <1>7, NothingBeside DEF Active, CreateFailed, At, Put, Return,
       Goto, Fault
  <2> QED
    BY <1>0, <1>7, <2>1, <2>2, <2>3, <2>4, NoRowAssumption, <2>5 DEF Others,
       CreateFailed, At, Put, Return, Goto, Fault
<1>8. ASSUME NEW o \in Operations, Accept(o) PROVE CreationHolds'
  <2>1. Others(o)
    BY <1>8, OthersStay
  <2>2. UNCHANGED <<kind, me, secret, crossed>>
    BY <1>8 DEF Accept
  <2>3. me[o] \in Actors /\ Peer(me[o]) \in Actors /\ Peer(me[o]) # me[o]
    BY <1>0, <1>8, PeerIsOther DEF Accept, Handles, Put, Answer, Step, Fault
  <2>4. \/ UNCHANGED rows /\ faults' # 0
        \/ \E auto \in BOOLEAN :
              /\ rows' = [rows EXCEPT ![Peer(me[o])] =
                   [secret |-> secret[o], approved |-> auto, peer_approved |->
                      TRUE,
                    verified |-> verified[o]]]
              /\ answer'[o] = IF pc[o] # "waiting" THEN "none"
                               ELSE IF auto THEN "created" ELSE "accepted"
    BY <1>0, <1>8, MaxFaultsAssumption DEF Accept, Put, Answer, Fault
  <2>5. ~crossed => \A p \in Operations \ {o} : Active(p) =>
          /\ kind[o] \in {"create", "delete"} => kind[p] = "access"
          /\ kind[o] \in {"create", "delete", "approve"} => kind[p] \in
             {"access", "approve"}
    BY <1>0, <1>8, NothingBeside DEF Active, Accept, Handles, Put, Answer,
       Step, Fault
  <2>6. kind[o] = "create" /\ handler[o] = "act" /\ secret[o] = o /\ pc' = pc
    BY <1>0, <1>8 DEF Accept, Handles
  <2>7. SUFFICES ASSUME ~crossed, NEW q \in Operations, kind[q] = "create",
                        pc[q] \in {"waiting", "promote"}
                 PROVE  /\ rows'[me[q]] # NoRow /\ rows'[me[q]].secret = q
                        /\ answer'[q] = "created" \/ pc[q] = "promote" =>
                              /\ rows'[Peer(me[q])] # NoRow
                              /\ rows'[Peer(me[q])].secret = q
                              /\ rows'[Peer(me[q])].approved
    BY <2>2, <2>6
  <2>8. q = o
    BY <2>5, <2>6, <2>7
  <2>9. rows'[me[o]] = rows[me[o]]
    BY <1>0, <2>3, <2>4
  <2>10. pc[o] = "waiting" /\ answer[o] # "created"
    BY <1>0, <2>6, <2>7, <2>8
  <2>11. CASE UNCHANGED rows /\ answer'[o] # "created"
    BY <1>0, <2>6, <2>7, <2>8, <2>10, <2>11
  <2>12. ASSUME NEW auto \in BOOLEAN, answer'[o] = "created",
                rows' = [rows EXCEPT ![Peer(me[o])] =
                  [secret |-> secret[o], approved |-> auto, peer_approved |->
                     TRUE,
                   verified |-> verified[o]]], auto
         PROVE  /\ rows'[Peer(me[o])] # NoRow
                /\ rows'[Peer(me[o])].secret = o
                /\ rows'[Peer(me[o])].approved
    <3>1. rows'[Peer(me[o])] =
            [secret |-> secret[o], approved |-> auto, peer_approved |-> TRUE,
             verified |-> verified[o]]
      BY <1>0, <2>3, <2>12
    <3>2. rows'[Peer(me[o])] \in Rows
      BY <1>0, <2>6, <3>1 DEF Rows
    <3> QED
      <4>1. NoRow \notin Rows
        BY NoRowAssumption DEF Rows
      <4>2. rows'[Peer(me[o])] # NoRow
        BY <3>2, <4>1
      <4> QED
        BY <2>6, <2>12, <3>1, <4>2
  <2>13. answer'[o] = "created" =>
            /\ rows'[Peer(me[o])] # NoRow
            /\ rows'[Peer(me[o])].secret = o
            /\ rows'[Peer(me[o])].approved
    <3>1. ASSUME answer'[o] = "created"
          PROVE  \E auto \in BOOLEAN :
                    /\ auto
                    /\ rows' = [rows EXCEPT ![Peer(me[o])] =
                         [secret |-> secret[o], approved |-> auto,
                          peer_approved |-> TRUE, verified |-> verified[o]]]
      BY <1>0, <1>8, <2>10, <3>1 DEF Accept, Put, Answer
    <3> QED
      BY <2>12, <3>1
  <2> QED
    BY <1>0, <2>6, <2>7, <2>8, <2>9, <2>10, <2>13
<1>9. ASSUME NEW o \in Operations, Authenticate(o) PROVE CreationHolds'
  <2>1. Others(o)
    BY <1>9, OthersStay
  <2>2. UNCHANGED <<kind, me, secret, crossed>>
    BY <1>9 DEF Authenticate
  <2>3. me[o] \in Actors /\ Peer(me[o]) \in Actors /\ Peer(me[o]) # me[o]
    BY <1>0, <1>9, PeerIsOther DEF Authenticate, Load, Step
  <2>4. rows' = rows
    BY <1>0, <1>9 DEF Authenticate
  <2>5. ~crossed => \A p \in Operations \ {o} : Active(p) =>
          /\ kind[o] \in {"create", "delete"} => kind[p] = "access"
          /\ kind[o] \in {"create", "delete", "approve"} => kind[p] \in
             {"access", "approve"}
    BY <1>0, <1>9, NothingBeside DEF Active, Authenticate, Load, Step
  <2> QED
    BY <1>0, <1>9, <2>1, <2>2, <2>3, <2>4, NoRowAssumption, <2>5 DEF Others,
       Authenticate, Load, Step
<1>10. ASSUME NEW o \in Operations, RecordTrustUsage(o) PROVE CreationHolds'
  <2>1. Others(o)
    BY <1>10, OthersStay
  <2>2. UNCHANGED <<kind, me, secret, crossed>>
    BY <1>10 DEF RecordTrustUsage
  <2>3. me[o] \in Actors /\ Peer(me[o]) \in Actors /\ Peer(me[o]) # me[o]
    BY <1>0, <1>10, PeerIsOther DEF RecordTrustUsage, Put, Step
  <2>4. rows' = rows
    BY <1>0, <1>10 DEF RecordTrustUsage, Put
  <2>5. ~crossed => \A p \in Operations \ {o} : Active(p) =>
          /\ kind[o] \in {"create", "delete"} => kind[p] = "access"
          /\ kind[o] \in {"create", "delete", "approve"} => kind[p] \in
             {"access", "approve"}
    BY <1>0, <1>10, NothingBeside DEF Active, RecordTrustUsage, Put, Step
  <2> QED
    BY <1>0, <1>10, <2>1, <2>2, <2>3, <2>4, NoRowAssumption, <2>5 DEF Others,
       RecordTrustUsage, Put, Step
<1>11. ASSUME NEW o \in Operations, NotAuthenticated(o) PROVE CreationHolds'
  <2>1. Others(o)
    BY <1>11, OthersStay
  <2>2. UNCHANGED <<kind, me, secret, crossed>>
    BY <1>11 DEF NotAuthenticated
  <2>3. me[o] \in Actors /\ Peer(me[o]) \in Actors /\ Peer(me[o]) # me[o]
    BY <1>0, <1>11, PeerIsOther DEF NotAuthenticated, Step, Answer
  <2>4. rows' = rows
    BY <1>0, <1>11 DEF NotAuthenticated
  <2>5. ~crossed => \A p \in Operations \ {o} : Active(p) =>
          /\ kind[o] \in {"create", "delete"} => kind[p] = "access"
          /\ kind[o] \in {"create", "delete", "approve"} => kind[p] \in
             {"access", "approve"}
    BY <1>0, <1>11, NothingBeside DEF Active, NotAuthenticated, Step, Answer
  <2> QED
    BY <1>0, <1>11, <2>1, <2>2, <2>3, <2>4, NoRowAssumption, <2>5 DEF Others,
       NotAuthenticated, Step, Answer
<1>12. ASSUME NEW o \in Operations, SaveApproval(o) PROVE CreationHolds'
  <2>1. Others(o)
    BY <1>12, OthersStay
  <2>2. UNCHANGED <<kind, me, secret, crossed>>
    BY <1>12 DEF SaveApproval
  <2>3. me[o] \in Actors /\ Peer(me[o]) \in Actors /\ Peer(me[o]) # me[o]
    BY <1>0, <1>12, PeerIsOther DEF SaveApproval, At, Modify, Put, Step,
       Return, Goto
  <2>4. \A z \in Actors :
          /\ rows'[z] = NoRow <=> rows[z] = NoRow
          /\ rows[z] # NoRow =>
                /\ rows'[z].secret = rows[z].secret
                /\ rows'[z].verified = rows[z].verified
                /\ rows'[z].approved <=> (rows[z].approved \/ z = me[o])
                /\ rows'[z].peer_approved <=> rows[z].peer_approved
    BY <1>12, <2>3, ColumnIsSet DEF SaveApproval
  <2>5. ~crossed => \A p \in Operations \ {o} : Active(p) =>
          /\ kind[o] \in {"create", "delete"} => kind[p] = "access"
          /\ kind[o] \in {"create", "delete", "approve"} => kind[p] \in
             {"access", "approve"}
    BY <1>0, <1>12, NothingBeside DEF Active, SaveApproval, At, Modify, Put,
       Step, Return, Goto
  <2> QED
    BY <1>0, <1>12, <2>1, <2>2, <2>3, <2>4, NoRowAssumption, <2>5 DEF Others,
       SaveApproval, At, Modify, Put, Step, Return, Goto
<1>13. ASSUME NEW o \in Operations, Notified(o) PROVE CreationHolds'
  <2>1. Others(o)
    BY <1>13, OthersStay
  <2>2. UNCHANGED <<kind, me, secret, crossed>>
    BY <1>13 DEF Notified
  <2>3. me[o] \in Actors /\ Peer(me[o]) \in Actors /\ Peer(me[o]) # me[o]
    BY <1>0, <1>13, PeerIsOther DEF Notified, Handles, Load, Step
  <2>4. rows' = rows
    BY <1>0, <1>13 DEF Notified
  <2>5. ~crossed => \A p \in Operations \ {o} : Active(p) =>
          /\ kind[o] \in {"create", "delete"} => kind[p] = "access"
          /\ kind[o] \in {"create", "delete", "approve"} => kind[p] \in
             {"access", "approve"}
    BY <1>0, <1>13, NothingBeside DEF Active, Notified, Handles, Load, Step
  <2> QED
    BY <1>0, <1>13, <2>1, <2>2, <2>3, <2>4, NoRowAssumption, <2>5 DEF Others,
       Notified, Handles, Load, Step
<1>14. ASSUME NEW o \in Operations, NoteApproval(o) PROVE CreationHolds'
  <2>1. Others(o)
    BY <1>14, OthersStay
  <2>2. UNCHANGED <<kind, me, secret, crossed>>
    BY <1>14 DEF NoteApproval
  <2>3. me[o] \in Actors /\ Peer(me[o]) \in Actors /\ Peer(me[o]) # me[o]
    BY <1>0, <1>14, PeerIsOther DEF NoteApproval, Handles, Modify, Put, Step
  <2>4. \A z \in Actors :
          /\ rows'[z] = NoRow <=> rows[z] = NoRow
          /\ rows[z] # NoRow =>
                /\ rows'[z].secret = rows[z].secret
                /\ rows'[z].verified = rows[z].verified
                /\ rows'[z].approved <=> rows[z].approved
                /\ rows'[z].peer_approved <=> (rows[z].peer_approved \/ z =
                   Peer(me[o]))
    BY <1>14, <2>3, ColumnIsSet DEF NoteApproval
  <2>5. ~crossed => \A p \in Operations \ {o} : Active(p) =>
          /\ kind[o] \in {"create", "delete"} => kind[p] = "access"
          /\ kind[o] \in {"create", "delete", "approve"} => kind[p] \in
             {"access", "approve"}
    BY <1>0, <1>14, NothingBeside DEF Active, NoteApproval, Handles, Modify,
       Put, Step
  <2> QED
    BY <1>0, <1>14, <2>1, <2>2, <2>3, <2>4, NoRowAssumption, <2>5 DEF Others,
       NoteApproval, Handles, Modify, Put, Step
<1>15. ASSUME NEW o \in Operations, DeleteRequested(o) PROVE CreationHolds'
  <2>1. Others(o)
    BY <1>15, OthersStay
  <2>2. UNCHANGED <<kind, me, secret, crossed>>
    BY <1>15 DEF DeleteRequested
  <2>3. me[o] \in Actors /\ Peer(me[o]) \in Actors /\ Peer(me[o]) # me[o]
    BY <1>0, <1>15, PeerIsOther DEF DeleteRequested, Handles, Step, Answer
  <2>4. rows' = rows
    BY <1>0, <1>15 DEF DeleteRequested
  <2>5. ~crossed => \A p \in Operations \ {o} : Active(p) =>
          /\ kind[o] \in {"create", "delete"} => kind[p] = "access"
          /\ kind[o] \in {"create", "delete", "approve"} => kind[p] \in
             {"access", "approve"}
    BY <1>0, <1>15, NothingBeside DEF Active, DeleteRequested, Handles, Step,
       Answer
  <2> QED
    BY <1>0, <1>15, <2>1, <2>2, <2>3, <2>4, NoRowAssumption, <2>5 DEF Others,
       DeleteRequested, Handles, Step, Answer
<1>16. ASSUME NEW o \in Operations, PeerRemoves(o) PROVE CreationHolds'
  <2>1. Others(o)
    BY <1>16, OthersStay
  <2>2. UNCHANGED <<kind, me, secret, crossed>>
    BY <1>16 DEF PeerRemoves
  <2>3. me[o] \in Actors /\ Peer(me[o]) \in Actors /\ Peer(me[o]) # me[o]
    BY <1>0, <1>16, PeerIsOther DEF PeerRemoves, Handles, Put, Answer, Step
  <2>4. rows' = [rows EXCEPT ![Peer(me[o])] = NoRow]
    BY <1>16 DEF PeerRemoves, Put
  <2>5. ~crossed => \A p \in Operations \ {o} : Active(p) =>
          /\ kind[o] \in {"create", "delete"} => kind[p] = "access"
          /\ kind[o] \in {"create", "delete", "approve"} => kind[p] \in
             {"access", "approve"}
    BY <1>0, <1>16, NothingBeside DEF Active, PeerRemoves, Handles, Put,
       Answer, Step
  <2> QED
    BY <1>0, <1>16, <2>1, <2>2, <2>3, <2>4, NoRowAssumption, <2>5 DEF Others,
       PeerRemoves, Handles, Put, Answer, Step
<1>17. ASSUME NEW o \in Operations, DeleteAnswered(o) PROVE CreationHolds'
  <2>1. Others(o)
    BY <1>17, OthersStay
  <2>2. UNCHANGED <<kind, me, secret, crossed>>
    BY <1>17 DEF DeleteAnswered
  <2>3. me[o] \in Actors /\ Peer(me[o]) \in Actors /\ Peer(me[o]) # me[o]
    BY <1>0, <1>17, PeerIsOther DEF DeleteAnswered, At, Goto
  <2>4. rows' = rows
    BY <1>0, <1>17 DEF DeleteAnswered
  <2>5. ~crossed => \A p \in Operations \ {o} : Active(p) =>
          /\ kind[o] \in {"create", "delete"} => kind[p] = "access"
          /\ kind[o] \in {"create", "delete", "approve"} => kind[p] \in
             {"access", "approve"}
    BY <1>0, <1>17, NothingBeside DEF Active, DeleteAnswered, At, Goto
  <2> QED
    BY <1>0, <1>17, <2>1, <2>2, <2>3, <2>4, NoRowAssumption, <2>5 DEF Others,
       DeleteAnswered, At, Goto
<1>18. ASSUME NEW o \in Operations, DeleteFailed(o) PROVE CreationHolds'
  <2>1. Others(o)
    BY <1>18, OthersStay
  <2>2. UNCHANGED <<kind, me, secret, crossed>>
    BY <1>18 DEF DeleteFailed
  <2>3. me[o] \in Actors /\ Peer(me[o]) \in Actors /\ Peer(me[o]) # me[o]
    BY <1>0, <1>18, PeerIsOther DEF DeleteFailed, At, Return, Goto, Fault
  <2>4. rows' = rows
    BY <1>0, <1>18 DEF DeleteFailed
  <2>5. ~crossed => \A p \in Operations \ {o} : Active(p) =>
          /\ kind[o] \in {"create", "delete"} => kind[p] = "access"
          /\ kind[o] \in {"create", "delete", "approve"} => kind[p] \in
             {"access", "approve"}
    BY <1>0, <1>18, NothingBeside DEF Active, DeleteFailed, At, Return, Goto,
       Fault
  <2> QED
    BY <1>0, <1>18, <2>1, <2>2, <2>3, <2>4, NoRowAssumption, <2>5 DEF Others,
       DeleteFailed, At, Return, Goto, Fault
<1>19. ASSUME NEW o \in Operations, Remove(o) PROVE CreationHolds'
  <2>1. Others(o)
    BY <1>19, OthersStay
  <2>2. UNCHANGED <<kind, me, secret, crossed>>
    BY <1>19 DEF Remove
  <2>3. me[o] \in Actors /\ Peer(me[o]) \in Actors /\ Peer(me[o]) # me[o]
    BY <1>0, <1>19, PeerIsOther DEF Remove, At, Put, Return, Goto
  <2>4. rows' = [rows EXCEPT ![me[o]] = NoRow]
    BY <1>19 DEF Remove, Put
  <2>5. ~crossed => \A p \in Operations \ {o} : Active(p) =>
          /\ kind[o] \in {"create", "delete"} => kind[p] = "access"
          /\ kind[o] \in {"create", "delete", "approve"} => kind[p] \in
             {"access", "approve"}
    BY <1>0, <1>19, NothingBeside DEF Active, Remove, At, Put, Return, Goto
  <2> QED
    BY <1>0, <1>19, <2>1, <2>2, <2>3, <2>4, NoRowAssumption, <2>5 DEF Others,
       Remove, At, Put, Return, Goto
<1>20. ASSUME NEW o \in Operations, Lose(o) PROVE CreationHolds'
  <2>1. Others(o)
    BY <1>20, OthersStay
  <2>2. UNCHANGED <<kind, me, secret, crossed>>
    BY <1>20 DEF Lose
  <2>3. me[o] \in Actors /\ Peer(me[o]) \in Actors /\ Peer(me[o]) # me[o]
    BY <1>0, <1>20, PeerIsOther DEF Lose, Step, Fault
  <2>4. rows' = rows
    BY <1>0, <1>20 DEF Lose
  <2>5. ~crossed => \A p \in Operations \ {o} : Active(p) =>
          /\ kind[o] \in {"create", "delete"} => kind[p] = "access"
          /\ kind[o] \in {"create", "delete", "approve"} => kind[p] \in
             {"access", "approve"}
    BY <1>0, <1>20, NothingBeside DEF Active, Lose, Step, Fault
  <2> QED
    BY <1>0, <1>20, <2>1, <2>2, <2>3, <2>4, NoRowAssumption, <2>5 DEF Others,
       Lose, Step, Fault
<1>21. ASSUME NEW o \in Operations, Die(o) PROVE CreationHolds'
  <2>1. Others(o)
    BY <1>21, OthersStay
  <2>2. UNCHANGED <<kind, me, secret, crossed>>
    BY <1>21 DEF Die
  <2>3. me[o] \in Actors /\ Peer(me[o]) \in Actors /\ Peer(me[o]) # me[o]
    BY <1>0, <1>21, PeerIsOther DEF Die, Return, Goto, Fault
  <2>4. rows' = rows
    BY <1>0, <1>21 DEF Die
  <2>5. ~crossed => \A p \in Operations \ {o} : Active(p) =>
          /\ kind[o] \in {"create", "delete"} => kind[p] = "access"
          /\ kind[o] \in {"create", "delete", "approve"} => kind[p] \in
             {"access", "approve"}
    BY <1>0, <1>21, NothingBeside DEF Active, Die, Return, Goto, Fault
  <2> QED
    BY <1>0, <1>21, <2>1, <2>2, <2>3, <2>4, NoRowAssumption, <2>5 DEF Others,
       Die, Return, Goto, Fault
<1>22. CASE UNCHANGED vars
  BY <1>0, <1>22 DEF vars
<1> HIDE DEF TypeOK, StepsFit, SecretsAreKnown, CreationHolds, Active
<1> QED
  BY <1>1, <1>2, <1>3, <1>4, <1>5, <1>6, <1>7, <1>8, <1>9, <1>10, <1>11,
     <1>12, <1>13, <1>14, <1>15, <1>16, <1>17, <1>18, <1>19, <1>20,
     <1>21, <1>22
  DEF Next

\* A creation learns of an approval from the answer to its request only.
LEMMA UndecidedStep ==
    ASSUME ~WholeRow, IInv, [Next]_vars
    PROVE  PeerIsUndecided'
<1>0. TypeOK /\ StepsFit /\ PeerIsUndecided
  BY FitStep DEF IInv
<1> USE DEF TypeOK, StepsFit, PeerIsUndecided, Active
<1>1. ASSUME NEW o \in Operations, NEW x \in Actors, Create(o, x)
      PROVE  PeerIsUndecided'
  <2>1. Others(o)
    BY <1>1, OthersStay
  <2>2. /\ pc[o] = "idle" /\ kind'[o] = "create" /\ me'[o] = x
        /\ ~crossed' => ~crossed
    BY <1>0, <1>1 DEF Create, Begin
  <2>3. \A y \in Actors : Peer(y) \in Actors /\ Peer(y) # y
    BY PeerIsOther
  <2>4. rows' = [rows EXCEPT ![x] = [secret |-> o, approved |-> TRUE,
                 peer_approved |-> FALSE, verified |-> TRUE]]
    BY <1>1 DEF Create, Put
  <2>5. ~crossed' => \A p \in Operations \ {o} :
          Active(p) => kind[p] = "access"
    <3> SUFFICES ASSUME ~crossed', NEW p \in Operations \ {o}, Active(p)
                 PROVE  kind[p] = "access"
      OBVIOUS
    <3>1. ~Clash("create", kind[p])
      BY <1>1 DEF Create, Begin
    <3>2. kind[p] \in Kinds
      BY <1>0 DEF Active
    <3> QED
      BY <3>1, <3>2 DEF Clash, Kinds
  <2> QED
    BY <1>0, <1>1, <2>1, <2>2, <2>3, <2>4, NoRowAssumption, <2>5 DEF Others,
       Create, Begin, Goto, Step, Put
<1>2. ASSUME NEW o \in Operations, NEW x \in Actors, Approve(o, x)
      PROVE  PeerIsUndecided'
  <2>1. Others(o)
    BY <1>2, OthersStay
  <2>2. /\ pc[o] = "idle" /\ kind'[o] = "approve" /\ me'[o] = x
        /\ ~crossed' => ~crossed
    BY <1>0, <1>2 DEF Approve, Begin
  <2>3. \A y \in Actors : Peer(y) \in Actors /\ Peer(y) # y
    BY PeerIsOther
  <2>4. rows' = rows
    BY <1>0, <1>2 DEF Approve
  <2>5. ~crossed' => \A p \in Operations \ {o} :
          Active(p) => kind[p] \in {"access", "approve"}
    <3> SUFFICES ASSUME ~crossed', NEW p \in Operations \ {o}, Active(p)
                 PROVE  kind[p] \in {"access", "approve"}
      OBVIOUS
    <3>1. ~Clash("approve", kind[p])
      BY <1>2 DEF Approve, Begin
    <3>2. kind[p] \in Kinds
      BY <1>0 DEF Active
    <3> QED
      BY <3>1, <3>2 DEF Clash, Kinds
  <2> QED
    BY <1>0, <1>2, <2>1, <2>2, <2>3, <2>4, NoRowAssumption, <2>5 DEF Others,
       Approve, Begin, Goto, Load
<1>3. ASSUME NEW o \in Operations, NEW x \in Actors, Delete(o, x)
      PROVE  PeerIsUndecided'
  <2>1. Others(o)
    BY <1>3, OthersStay
  <2>2. /\ pc[o] = "idle" /\ kind'[o] = "delete" /\ me'[o] = x
        /\ ~crossed' => ~crossed
    BY <1>0, <1>3 DEF Delete, Begin
  <2>3. \A y \in Actors : Peer(y) \in Actors /\ Peer(y) # y
    BY PeerIsOther
  <2>4. rows' = rows
    BY <1>0, <1>3 DEF Delete
  <2>5. ~crossed' => \A p \in Operations \ {o} :
          Active(p) => kind[p] = "access"
    <3> SUFFICES ASSUME ~crossed', NEW p \in Operations \ {o}, Active(p)
                 PROVE  kind[p] = "access"
      OBVIOUS
    <3>1. ~Clash("delete", kind[p])
      BY <1>3 DEF Delete, Begin
    <3>2. kind[p] \in Kinds
      BY <1>0 DEF Active
    <3> QED
      BY <3>1, <3>2 DEF Clash, Kinds
  <2> QED
    BY <1>0, <1>3, <2>1, <2>2, <2>3, <2>4, NoRowAssumption, <2>5 DEF Others,
       Delete, Begin, Goto, Step
<1>4. ASSUME NEW o \in Operations, NEW x \in Actors, Access(o, x)
      PROVE  PeerIsUndecided'
  <2>1. Others(o)
    BY <1>4, OthersStay
  <2>2. /\ pc[o] = "idle" /\ kind'[o] = "access" /\ me'[o] = x
        /\ ~crossed' => ~crossed
    BY <1>0, <1>4 DEF Access, Begin
  <2>3. \A y \in Actors : Peer(y) \in Actors /\ Peer(y) # y
    BY PeerIsOther
  <2>4. rows' = rows
    BY <1>0, <1>4 DEF Access
  <2> QED
    BY <1>0, <1>4, <2>1, <2>2, <2>3, <2>4, NoRowAssumption DEF Others, Access,
       Begin, Goto, Step
<1>5. ASSUME NEW o \in Operations, CreateAnswered(o) PROVE PeerIsUndecided'
  <2>1. Others(o)
    BY <1>5, OthersStay
  <2>2. UNCHANGED <<kind, me, secret, crossed>>
    BY <1>5 DEF CreateAnswered
  <2>3. me[o] \in Actors /\ Peer(me[o]) \in Actors /\ Peer(me[o]) # me[o]
    BY <1>0, <1>5, PeerIsOther DEF CreateAnswered, At, Load, Goto, Return
  <2>4. rows' = rows
    BY <1>0, <1>5 DEF CreateAnswered
  <2>5. ~crossed => \A p \in Operations \ {o} : Active(p) =>
          /\ kind[o] \in {"create", "delete"} => kind[p] = "access"
          /\ kind[o] \in {"create", "delete", "approve"} => kind[p] \in
             {"access", "approve"}
    BY <1>0, <1>5, NothingBeside DEF Active, CreateAnswered, At, Load, Goto,
       Return
  <2> QED
    BY <1>0, <1>5, <2>1, <2>2, <2>3, <2>4, NoRowAssumption, <2>5 DEF Others,
       CreateAnswered, At, Load, Goto, Return
<1>6. ASSUME NEW o \in Operations, Promote(o) PROVE PeerIsUndecided'
  <2>1. Others(o)
    BY <1>6, OthersStay
  <2>2. UNCHANGED <<kind, me, secret, crossed>>
    BY <1>6 DEF Promote
  <2>3. me[o] \in Actors /\ Peer(me[o]) \in Actors /\ Peer(me[o]) # me[o]
    BY <1>0, <1>6, PeerIsOther DEF Promote, At, Modify, Put, Return, Goto
  <2>4. \A z \in Actors :
          /\ rows'[z] = NoRow <=> rows[z] = NoRow
          /\ rows[z] # NoRow =>
                /\ rows'[z].secret = rows[z].secret
                /\ rows'[z].verified = rows[z].verified
                /\ rows'[z].approved <=> rows[z].approved
                /\ rows'[z].peer_approved <=> (rows[z].peer_approved \/ z =
                   me[o])
    BY <1>6, <2>3, ColumnIsSet DEF Promote
  <2>5. ~crossed => \A p \in Operations \ {o} : Active(p) =>
          /\ kind[o] \in {"create", "delete"} => kind[p] = "access"
          /\ kind[o] \in {"create", "delete", "approve"} => kind[p] \in
             {"access", "approve"}
    BY <1>0, <1>6, NothingBeside DEF Active, Promote, At, Modify, Put, Return,
       Goto
  <2> QED
    BY <1>0, <1>6, <2>1, <2>2, <2>3, <2>4, NoRowAssumption, <2>5 DEF Others,
       Promote, At, Modify, Put, Return, Goto
<1>7. ASSUME NEW o \in Operations, CreateFailed(o) PROVE PeerIsUndecided'
  <2>1. Others(o)
    BY <1>7, OthersStay
  <2>2. UNCHANGED <<kind, me, secret, crossed>>
    BY <1>7 DEF CreateFailed
  <2>3. me[o] \in Actors /\ Peer(me[o]) \in Actors /\ Peer(me[o]) # me[o]
    BY <1>0, <1>7, PeerIsOther DEF CreateFailed, At, Put, Return, Goto, Fault
  <2>4. rows' = [rows EXCEPT ![me[o]] = NoRow]
    BY <1>7 DEF CreateFailed, Put
  <2>5. ~crossed => \A p \in Operations \ {o} : Active(p) =>
          /\ kind[o] \in {"create", "delete"} => kind[p] = "access"
          /\ kind[o] \in {"create", "delete", "approve"} => kind[p] \in
             {"access", "approve"}
    BY <1>0, <1>7, NothingBeside DEF Active, CreateFailed, At, Put, Return,
       Goto, Fault
  <2> QED
    BY <1>0, <1>7, <2>1, <2>2, <2>3, <2>4, NoRowAssumption, <2>5 DEF Others,
       CreateFailed, At, Put, Return, Goto, Fault
<1>8. ASSUME NEW o \in Operations, Accept(o) PROVE PeerIsUndecided'
  <2>1. Others(o)
    BY <1>8, OthersStay
  <2>2. UNCHANGED <<kind, me, secret, crossed>>
    BY <1>8 DEF Accept
  <2>3. me[o] \in Actors /\ Peer(me[o]) \in Actors /\ Peer(me[o]) # me[o]
    BY <1>0, <1>8, PeerIsOther DEF Accept, Handles, Put, Answer, Step, Fault
  <2>4. \/ UNCHANGED rows /\ faults' # 0
        \/ \E auto \in BOOLEAN :
              /\ rows' = [rows EXCEPT ![Peer(me[o])] =
                   [secret |-> secret[o], approved |-> auto, peer_approved |->
                      TRUE,
                    verified |-> verified[o]]]
              /\ answer'[o] = IF pc[o] # "waiting" THEN "none"
                               ELSE IF auto THEN "created" ELSE "accepted"
    BY <1>0, <1>8, MaxFaultsAssumption DEF Accept, Put, Answer, Fault
  <2>5. ~crossed => \A p \in Operations \ {o} : Active(p) =>
          /\ kind[o] \in {"create", "delete"} => kind[p] = "access"
          /\ kind[o] \in {"create", "delete", "approve"} => kind[p] \in
             {"access", "approve"}
    BY <1>0, <1>8, NothingBeside DEF Active, Accept, Handles, Put, Answer,
       Step, Fault
  <2> QED
    BY <1>0, <1>8, <2>1, <2>2, <2>3, <2>4, NoRowAssumption, <2>5 DEF Others,
       Accept, Handles, Put, Answer, Step, Fault
<1>9. ASSUME NEW o \in Operations, Authenticate(o) PROVE PeerIsUndecided'
  <2>1. Others(o)
    BY <1>9, OthersStay
  <2>2. UNCHANGED <<kind, me, secret, crossed>>
    BY <1>9 DEF Authenticate
  <2>3. me[o] \in Actors /\ Peer(me[o]) \in Actors /\ Peer(me[o]) # me[o]
    BY <1>0, <1>9, PeerIsOther DEF Authenticate, Load, Step
  <2>4. rows' = rows
    BY <1>0, <1>9 DEF Authenticate
  <2>5. ~crossed => \A p \in Operations \ {o} : Active(p) =>
          /\ kind[o] \in {"create", "delete"} => kind[p] = "access"
          /\ kind[o] \in {"create", "delete", "approve"} => kind[p] \in
             {"access", "approve"}
    BY <1>0, <1>9, NothingBeside DEF Active, Authenticate, Load, Step
  <2> QED
    BY <1>0, <1>9, <2>1, <2>2, <2>3, <2>4, NoRowAssumption, <2>5 DEF Others,
       Authenticate, Load, Step
<1>10. ASSUME NEW o \in Operations, RecordTrustUsage(o) PROVE PeerIsUndecided'
  <2>1. Others(o)
    BY <1>10, OthersStay
  <2>2. UNCHANGED <<kind, me, secret, crossed>>
    BY <1>10 DEF RecordTrustUsage
  <2>3. me[o] \in Actors /\ Peer(me[o]) \in Actors /\ Peer(me[o]) # me[o]
    BY <1>0, <1>10, PeerIsOther DEF RecordTrustUsage, Put, Step
  <2>4. rows' = rows
    BY <1>0, <1>10 DEF RecordTrustUsage, Put
  <2>5. ~crossed => \A p \in Operations \ {o} : Active(p) =>
          /\ kind[o] \in {"create", "delete"} => kind[p] = "access"
          /\ kind[o] \in {"create", "delete", "approve"} => kind[p] \in
             {"access", "approve"}
    BY <1>0, <1>10, NothingBeside DEF Active, RecordTrustUsage, Put, Step
  <2> QED
    BY <1>0, <1>10, <2>1, <2>2, <2>3, <2>4, NoRowAssumption, <2>5 DEF Others,
       RecordTrustUsage, Put, Step
<1>11. ASSUME NEW o \in Operations, NotAuthenticated(o) PROVE PeerIsUndecided'
  <2>1. Others(o)
    BY <1>11, OthersStay
  <2>2. UNCHANGED <<kind, me, secret, crossed>>
    BY <1>11 DEF NotAuthenticated
  <2>3. me[o] \in Actors /\ Peer(me[o]) \in Actors /\ Peer(me[o]) # me[o]
    BY <1>0, <1>11, PeerIsOther DEF NotAuthenticated, Step, Answer
  <2>4. rows' = rows
    BY <1>0, <1>11 DEF NotAuthenticated
  <2>5. ~crossed => \A p \in Operations \ {o} : Active(p) =>
          /\ kind[o] \in {"create", "delete"} => kind[p] = "access"
          /\ kind[o] \in {"create", "delete", "approve"} => kind[p] \in
             {"access", "approve"}
    BY <1>0, <1>11, NothingBeside DEF Active, NotAuthenticated, Step, Answer
  <2> QED
    BY <1>0, <1>11, <2>1, <2>2, <2>3, <2>4, NoRowAssumption, <2>5 DEF Others,
       NotAuthenticated, Step, Answer
<1>12. ASSUME NEW o \in Operations, SaveApproval(o) PROVE PeerIsUndecided'
  <2>1. Others(o)
    BY <1>12, OthersStay
  <2>2. UNCHANGED <<kind, me, secret, crossed>>
    BY <1>12 DEF SaveApproval
  <2>3. me[o] \in Actors /\ Peer(me[o]) \in Actors /\ Peer(me[o]) # me[o]
    BY <1>0, <1>12, PeerIsOther DEF SaveApproval, At, Modify, Put, Step,
       Return, Goto
  <2>4. \A z \in Actors :
          /\ rows'[z] = NoRow <=> rows[z] = NoRow
          /\ rows[z] # NoRow =>
                /\ rows'[z].secret = rows[z].secret
                /\ rows'[z].verified = rows[z].verified
                /\ rows'[z].approved <=> (rows[z].approved \/ z = me[o])
                /\ rows'[z].peer_approved <=> rows[z].peer_approved
    BY <1>12, <2>3, ColumnIsSet DEF SaveApproval
  <2>5. ~crossed => \A p \in Operations \ {o} : Active(p) =>
          /\ kind[o] \in {"create", "delete"} => kind[p] = "access"
          /\ kind[o] \in {"create", "delete", "approve"} => kind[p] \in
             {"access", "approve"}
    BY <1>0, <1>12, NothingBeside DEF Active, SaveApproval, At, Modify, Put,
       Step, Return, Goto
  <2> QED
    BY <1>0, <1>12, <2>1, <2>2, <2>3, <2>4, NoRowAssumption, <2>5 DEF Others,
       SaveApproval, At, Modify, Put, Step, Return, Goto
<1>13. ASSUME NEW o \in Operations, Notified(o) PROVE PeerIsUndecided'
  <2>1. Others(o)
    BY <1>13, OthersStay
  <2>2. UNCHANGED <<kind, me, secret, crossed>>
    BY <1>13 DEF Notified
  <2>3. me[o] \in Actors /\ Peer(me[o]) \in Actors /\ Peer(me[o]) # me[o]
    BY <1>0, <1>13, PeerIsOther DEF Notified, Handles, Load, Step
  <2>4. rows' = rows
    BY <1>0, <1>13 DEF Notified
  <2>5. ~crossed => \A p \in Operations \ {o} : Active(p) =>
          /\ kind[o] \in {"create", "delete"} => kind[p] = "access"
          /\ kind[o] \in {"create", "delete", "approve"} => kind[p] \in
             {"access", "approve"}
    BY <1>0, <1>13, NothingBeside DEF Active, Notified, Handles, Load, Step
  <2> QED
    BY <1>0, <1>13, <2>1, <2>2, <2>3, <2>4, NoRowAssumption, <2>5 DEF Others,
       Notified, Handles, Load, Step
<1>14. ASSUME NEW o \in Operations, NoteApproval(o) PROVE PeerIsUndecided'
  <2>1. Others(o)
    BY <1>14, OthersStay
  <2>2. UNCHANGED <<kind, me, secret, crossed>>
    BY <1>14 DEF NoteApproval
  <2>3. me[o] \in Actors /\ Peer(me[o]) \in Actors /\ Peer(me[o]) # me[o]
    BY <1>0, <1>14, PeerIsOther DEF NoteApproval, Handles, Modify, Put, Step
  <2>4. \A z \in Actors :
          /\ rows'[z] = NoRow <=> rows[z] = NoRow
          /\ rows[z] # NoRow =>
                /\ rows'[z].secret = rows[z].secret
                /\ rows'[z].verified = rows[z].verified
                /\ rows'[z].approved <=> rows[z].approved
                /\ rows'[z].peer_approved <=> (rows[z].peer_approved \/ z =
                   Peer(me[o]))
    BY <1>14, <2>3, ColumnIsSet DEF NoteApproval
  <2>5. ~crossed => \A p \in Operations \ {o} : Active(p) =>
          /\ kind[o] \in {"create", "delete"} => kind[p] = "access"
          /\ kind[o] \in {"create", "delete", "approve"} => kind[p] \in
             {"access", "approve"}
    BY <1>0, <1>14, NothingBeside DEF Active, NoteApproval, Handles, Modify,
       Put, Step
  <2> QED
    BY <1>0, <1>14, <2>1, <2>2, <2>3, <2>4, NoRowAssumption, <2>5 DEF Others,
       NoteApproval, Handles, Modify, Put, Step
<1>15. ASSUME NEW o \in Operations, DeleteRequested(o) PROVE PeerIsUndecided'
  <2>1. Others(o)
    BY <1>15, OthersStay
  <2>2. UNCHANGED <<kind, me, secret, crossed>>
    BY <1>15 DEF DeleteRequested
  <2>3. me[o] \in Actors /\ Peer(me[o]) \in Actors /\ Peer(me[o]) # me[o]
    BY <1>0, <1>15, PeerIsOther DEF DeleteRequested, Handles, Step, Answer
  <2>4. rows' = rows
    BY <1>0, <1>15 DEF DeleteRequested
  <2>5. ~crossed => \A p \in Operations \ {o} : Active(p) =>
          /\ kind[o] \in {"create", "delete"} => kind[p] = "access"
          /\ kind[o] \in {"create", "delete", "approve"} => kind[p] \in
             {"access", "approve"}
    BY <1>0, <1>15, NothingBeside DEF Active, DeleteRequested, Handles, Step,
       Answer
  <2> QED
    BY <1>0, <1>15, <2>1, <2>2, <2>3, <2>4, NoRowAssumption, <2>5 DEF Others,
       DeleteRequested, Handles, Step, Answer
<1>16. ASSUME NEW o \in Operations, PeerRemoves(o) PROVE PeerIsUndecided'
  <2>1. Others(o)
    BY <1>16, OthersStay
  <2>2. UNCHANGED <<kind, me, secret, crossed>>
    BY <1>16 DEF PeerRemoves
  <2>3. me[o] \in Actors /\ Peer(me[o]) \in Actors /\ Peer(me[o]) # me[o]
    BY <1>0, <1>16, PeerIsOther DEF PeerRemoves, Handles, Put, Answer, Step
  <2>4. rows' = [rows EXCEPT ![Peer(me[o])] = NoRow]
    BY <1>16 DEF PeerRemoves, Put
  <2>5. ~crossed => \A p \in Operations \ {o} : Active(p) =>
          /\ kind[o] \in {"create", "delete"} => kind[p] = "access"
          /\ kind[o] \in {"create", "delete", "approve"} => kind[p] \in
             {"access", "approve"}
    BY <1>0, <1>16, NothingBeside DEF Active, PeerRemoves, Handles, Put,
       Answer, Step
  <2> QED
    BY <1>0, <1>16, <2>1, <2>2, <2>3, <2>4, NoRowAssumption, <2>5 DEF Others,
       PeerRemoves, Handles, Put, Answer, Step
<1>17. ASSUME NEW o \in Operations, DeleteAnswered(o) PROVE PeerIsUndecided'
  <2>1. Others(o)
    BY <1>17, OthersStay
  <2>2. UNCHANGED <<kind, me, secret, crossed>>
    BY <1>17 DEF DeleteAnswered
  <2>3. me[o] \in Actors /\ Peer(me[o]) \in Actors /\ Peer(me[o]) # me[o]
    BY <1>0, <1>17, PeerIsOther DEF DeleteAnswered, At, Goto
  <2>4. rows' = rows
    BY <1>0, <1>17 DEF DeleteAnswered
  <2>5. ~crossed => \A p \in Operations \ {o} : Active(p) =>
          /\ kind[o] \in {"create", "delete"} => kind[p] = "access"
          /\ kind[o] \in {"create", "delete", "approve"} => kind[p] \in
             {"access", "approve"}
    BY <1>0, <1>17, NothingBeside DEF Active, DeleteAnswered, At, Goto
  <2> QED
    BY <1>0, <1>17, <2>1, <2>2, <2>3, <2>4, NoRowAssumption, <2>5 DEF Others,
       DeleteAnswered, At, Goto
<1>18. ASSUME NEW o \in Operations, DeleteFailed(o) PROVE PeerIsUndecided'
  <2>1. Others(o)
    BY <1>18, OthersStay
  <2>2. UNCHANGED <<kind, me, secret, crossed>>
    BY <1>18 DEF DeleteFailed
  <2>3. me[o] \in Actors /\ Peer(me[o]) \in Actors /\ Peer(me[o]) # me[o]
    BY <1>0, <1>18, PeerIsOther DEF DeleteFailed, At, Return, Goto, Fault
  <2>4. rows' = rows
    BY <1>0, <1>18 DEF DeleteFailed
  <2>5. ~crossed => \A p \in Operations \ {o} : Active(p) =>
          /\ kind[o] \in {"create", "delete"} => kind[p] = "access"
          /\ kind[o] \in {"create", "delete", "approve"} => kind[p] \in
             {"access", "approve"}
    BY <1>0, <1>18, NothingBeside DEF Active, DeleteFailed, At, Return, Goto,
       Fault
  <2> QED
    BY <1>0, <1>18, <2>1, <2>2, <2>3, <2>4, NoRowAssumption, <2>5 DEF Others,
       DeleteFailed, At, Return, Goto, Fault
<1>19. ASSUME NEW o \in Operations, Remove(o) PROVE PeerIsUndecided'
  <2>1. Others(o)
    BY <1>19, OthersStay
  <2>2. UNCHANGED <<kind, me, secret, crossed>>
    BY <1>19 DEF Remove
  <2>3. me[o] \in Actors /\ Peer(me[o]) \in Actors /\ Peer(me[o]) # me[o]
    BY <1>0, <1>19, PeerIsOther DEF Remove, At, Put, Return, Goto
  <2>4. rows' = [rows EXCEPT ![me[o]] = NoRow]
    BY <1>19 DEF Remove, Put
  <2>5. ~crossed => \A p \in Operations \ {o} : Active(p) =>
          /\ kind[o] \in {"create", "delete"} => kind[p] = "access"
          /\ kind[o] \in {"create", "delete", "approve"} => kind[p] \in
             {"access", "approve"}
    BY <1>0, <1>19, NothingBeside DEF Active, Remove, At, Put, Return, Goto
  <2> QED
    BY <1>0, <1>19, <2>1, <2>2, <2>3, <2>4, NoRowAssumption, <2>5 DEF Others,
       Remove, At, Put, Return, Goto
<1>20. ASSUME NEW o \in Operations, Lose(o) PROVE PeerIsUndecided'
  <2>1. Others(o)
    BY <1>20, OthersStay
  <2>2. UNCHANGED <<kind, me, secret, crossed>>
    BY <1>20 DEF Lose
  <2>3. me[o] \in Actors /\ Peer(me[o]) \in Actors /\ Peer(me[o]) # me[o]
    BY <1>0, <1>20, PeerIsOther DEF Lose, Step, Fault
  <2>4. rows' = rows
    BY <1>0, <1>20 DEF Lose
  <2>5. ~crossed => \A p \in Operations \ {o} : Active(p) =>
          /\ kind[o] \in {"create", "delete"} => kind[p] = "access"
          /\ kind[o] \in {"create", "delete", "approve"} => kind[p] \in
             {"access", "approve"}
    BY <1>0, <1>20, NothingBeside DEF Active, Lose, Step, Fault
  <2> QED
    BY <1>0, <1>20, <2>1, <2>2, <2>3, <2>4, NoRowAssumption, <2>5 DEF Others,
       Lose, Step, Fault
<1>21. ASSUME NEW o \in Operations, Die(o) PROVE PeerIsUndecided'
  <2>1. Others(o)
    BY <1>21, OthersStay
  <2>2. UNCHANGED <<kind, me, secret, crossed>>
    BY <1>21 DEF Die
  <2>3. me[o] \in Actors /\ Peer(me[o]) \in Actors /\ Peer(me[o]) # me[o]
    BY <1>0, <1>21, PeerIsOther DEF Die, Return, Goto, Fault
  <2>4. rows' = rows
    BY <1>0, <1>21 DEF Die
  <2>5. ~crossed => \A p \in Operations \ {o} : Active(p) =>
          /\ kind[o] \in {"create", "delete"} => kind[p] = "access"
          /\ kind[o] \in {"create", "delete", "approve"} => kind[p] \in
             {"access", "approve"}
    BY <1>0, <1>21, NothingBeside DEF Active, Die, Return, Goto, Fault
  <2> QED
    BY <1>0, <1>21, <2>1, <2>2, <2>3, <2>4, NoRowAssumption, <2>5 DEF Others,
       Die, Return, Goto, Fault
<1>22. CASE UNCHANGED vars
  BY <1>0, <1>22 DEF vars
<1> HIDE DEF TypeOK, StepsFit, PeerIsUndecided, Active
<1> QED
  BY <1>1, <1>2, <1>3, <1>4, <1>5, <1>6, <1>7, <1>8, <1>9, <1>10, <1>11,
     <1>12, <1>13, <1>14, <1>15, <1>16, <1>17, <1>18, <1>19, <1>20,
     <1>21, <1>22
  DEF Next

\* While an approval is announced the row stays approved.
LEMMA ApprovalStep ==
    ASSUME ~WholeRow, IInv, [Next]_vars
    PROVE  ApprovalHolds'
<1>0. TypeOK /\ StepsFit /\ ApprovalHolds
  BY FitStep DEF IInv
<1> USE DEF TypeOK, StepsFit, ApprovalHolds, Active
<1>1. ASSUME NEW o \in Operations, NEW x \in Actors, Create(o, x)
      PROVE  ApprovalHolds'
  <2>1. Others(o)
    BY <1>1, OthersStay
  <2>2. /\ pc[o] = "idle" /\ kind'[o] = "create" /\ me'[o] = x
        /\ ~crossed' => ~crossed
    BY <1>0, <1>1 DEF Create, Begin
  <2>3. \A y \in Actors : Peer(y) \in Actors /\ Peer(y) # y
    BY PeerIsOther
  <2>4. rows' = [rows EXCEPT ![x] = [secret |-> o, approved |-> TRUE,
                 peer_approved |-> FALSE, verified |-> TRUE]]
    BY <1>1 DEF Create, Put
  <2>5. ~crossed' => \A p \in Operations \ {o} :
          Active(p) => kind[p] = "access"
    <3> SUFFICES ASSUME ~crossed', NEW p \in Operations \ {o}, Active(p)
                 PROVE  kind[p] = "access"
      OBVIOUS
    <3>1. ~Clash("create", kind[p])
      BY <1>1 DEF Create, Begin
    <3>2. kind[p] \in Kinds
      BY <1>0 DEF Active
    <3> QED
      BY <3>1, <3>2 DEF Clash, Kinds
  <2> QED
    BY <1>0, <1>1, <2>1, <2>2, <2>3, <2>4, NoRowAssumption, <2>5 DEF Others,
       Create, Begin, Goto, Step, Put
<1>2. ASSUME NEW o \in Operations, NEW x \in Actors, Approve(o, x)
      PROVE  ApprovalHolds'
  <2>1. Others(o)
    BY <1>2, OthersStay
  <2>2. /\ pc[o] = "idle" /\ kind'[o] = "approve" /\ me'[o] = x
        /\ ~crossed' => ~crossed
    BY <1>0, <1>2 DEF Approve, Begin
  <2>3. \A y \in Actors : Peer(y) \in Actors /\ Peer(y) # y
    BY PeerIsOther
  <2>4. rows' = rows
    BY <1>0, <1>2 DEF Approve
  <2>5. ~crossed' => \A p \in Operations \ {o} :
          Active(p) => kind[p] \in {"access", "approve"}
    <3> SUFFICES ASSUME ~crossed', NEW p \in Operations \ {o}, Active(p)
                 PROVE  kind[p] \in {"access", "approve"}
      OBVIOUS
    <3>1. ~Clash("approve", kind[p])
      BY <1>2 DEF Approve, Begin
    <3>2. kind[p] \in Kinds
      BY <1>0 DEF Active
    <3> QED
      BY <3>1, <3>2 DEF Clash, Kinds
  <2> QED
    BY <1>0, <1>2, <2>1, <2>2, <2>3, <2>4, NoRowAssumption, <2>5 DEF Others,
       Approve, Begin, Goto, Load
<1>3. ASSUME NEW o \in Operations, NEW x \in Actors, Delete(o, x)
      PROVE  ApprovalHolds'
  <2>1. Others(o)
    BY <1>3, OthersStay
  <2>2. /\ pc[o] = "idle" /\ kind'[o] = "delete" /\ me'[o] = x
        /\ ~crossed' => ~crossed
    BY <1>0, <1>3 DEF Delete, Begin
  <2>3. \A y \in Actors : Peer(y) \in Actors /\ Peer(y) # y
    BY PeerIsOther
  <2>4. rows' = rows
    BY <1>0, <1>3 DEF Delete
  <2>5. ~crossed' => \A p \in Operations \ {o} :
          Active(p) => kind[p] = "access"
    <3> SUFFICES ASSUME ~crossed', NEW p \in Operations \ {o}, Active(p)
                 PROVE  kind[p] = "access"
      OBVIOUS
    <3>1. ~Clash("delete", kind[p])
      BY <1>3 DEF Delete, Begin
    <3>2. kind[p] \in Kinds
      BY <1>0 DEF Active
    <3> QED
      BY <3>1, <3>2 DEF Clash, Kinds
  <2> QED
    BY <1>0, <1>3, <2>1, <2>2, <2>3, <2>4, NoRowAssumption, <2>5 DEF Others,
       Delete, Begin, Goto, Step
<1>4. ASSUME NEW o \in Operations, NEW x \in Actors, Access(o, x)
      PROVE  ApprovalHolds'
  <2>1. Others(o)
    BY <1>4, OthersStay
  <2>2. /\ pc[o] = "idle" /\ kind'[o] = "access" /\ me'[o] = x
        /\ ~crossed' => ~crossed
    BY <1>0, <1>4 DEF Access, Begin
  <2>3. \A y \in Actors : Peer(y) \in Actors /\ Peer(y) # y
    BY PeerIsOther
  <2>4. rows' = rows
    BY <1>0, <1>4 DEF Access
  <2> QED
    BY <1>0, <1>4, <2>1, <2>2, <2>3, <2>4, NoRowAssumption DEF Others, Access,
       Begin, Goto, Step
<1>5. ASSUME NEW o \in Operations, CreateAnswered(o) PROVE ApprovalHolds'
  <2>1. Others(o)
    BY <1>5, OthersStay
  <2>2. UNCHANGED <<kind, me, secret, crossed>>
    BY <1>5 DEF CreateAnswered
  <2>3. me[o] \in Actors /\ Peer(me[o]) \in Actors /\ Peer(me[o]) # me[o]
    BY <1>0, <1>5, PeerIsOther DEF CreateAnswered, At, Load, Goto, Return
  <2>4. rows' = rows
    BY <1>0, <1>5 DEF CreateAnswered
  <2>5. ~crossed => \A p \in Operations \ {o} : Active(p) =>
          /\ kind[o] \in {"create", "delete"} => kind[p] = "access"
          /\ kind[o] \in {"create", "delete", "approve"} => kind[p] \in
             {"access", "approve"}
    BY <1>0, <1>5, NothingBeside DEF Active, CreateAnswered, At, Load, Goto,
       Return
  <2> QED
    BY <1>0, <1>5, <2>1, <2>2, <2>3, <2>4, NoRowAssumption, <2>5 DEF Others,
       CreateAnswered, At, Load, Goto, Return
<1>6. ASSUME NEW o \in Operations, Promote(o) PROVE ApprovalHolds'
  <2>1. Others(o)
    BY <1>6, OthersStay
  <2>2. UNCHANGED <<kind, me, secret, crossed>>
    BY <1>6 DEF Promote
  <2>3. me[o] \in Actors /\ Peer(me[o]) \in Actors /\ Peer(me[o]) # me[o]
    BY <1>0, <1>6, PeerIsOther DEF Promote, At, Modify, Put, Return, Goto
  <2>4. \A z \in Actors :
          /\ rows'[z] = NoRow <=> rows[z] = NoRow
          /\ rows[z] # NoRow =>
                /\ rows'[z].secret = rows[z].secret
                /\ rows'[z].verified = rows[z].verified
                /\ rows'[z].approved <=> rows[z].approved
                /\ rows'[z].peer_approved <=> (rows[z].peer_approved \/ z =
                   me[o])
    BY <1>6, <2>3, ColumnIsSet DEF Promote
  <2>5. ~crossed => \A p \in Operations \ {o} : Active(p) =>
          /\ kind[o] \in {"create", "delete"} => kind[p] = "access"
          /\ kind[o] \in {"create", "delete", "approve"} => kind[p] \in
             {"access", "approve"}
    BY <1>0, <1>6, NothingBeside DEF Active, Promote, At, Modify, Put, Return,
       Goto
  <2> QED
    BY <1>0, <1>6, <2>1, <2>2, <2>3, <2>4, NoRowAssumption, <2>5 DEF Others,
       Promote, At, Modify, Put, Return, Goto
<1>7. ASSUME NEW o \in Operations, CreateFailed(o) PROVE ApprovalHolds'
  <2>1. Others(o)
    BY <1>7, OthersStay
  <2>2. UNCHANGED <<kind, me, secret, crossed>>
    BY <1>7 DEF CreateFailed
  <2>3. me[o] \in Actors /\ Peer(me[o]) \in Actors /\ Peer(me[o]) # me[o]
    BY <1>0, <1>7, PeerIsOther DEF CreateFailed, At, Put, Return, Goto, Fault
  <2>4. rows' = [rows EXCEPT ![me[o]] = NoRow]
    BY <1>7 DEF CreateFailed, Put
  <2>5. ~crossed => \A p \in Operations \ {o} : Active(p) =>
          /\ kind[o] \in {"create", "delete"} => kind[p] = "access"
          /\ kind[o] \in {"create", "delete", "approve"} => kind[p] \in
             {"access", "approve"}
    BY <1>0, <1>7, NothingBeside DEF Active, CreateFailed, At, Put, Return,
       Goto, Fault
  <2> QED
    BY <1>0, <1>7, <2>1, <2>2, <2>3, <2>4, NoRowAssumption, <2>5 DEF Others,
       CreateFailed, At, Put, Return, Goto, Fault
<1>8. ASSUME NEW o \in Operations, Accept(o) PROVE ApprovalHolds'
  <2>1. Others(o)
    BY <1>8, OthersStay
  <2>2. UNCHANGED <<kind, me, secret, crossed>>
    BY <1>8 DEF Accept
  <2>3. me[o] \in Actors /\ Peer(me[o]) \in Actors /\ Peer(me[o]) # me[o]
    BY <1>0, <1>8, PeerIsOther DEF Accept, Handles, Put, Answer, Step, Fault
  <2>4. \/ UNCHANGED rows /\ faults' # 0
        \/ \E auto \in BOOLEAN :
              /\ rows' = [rows EXCEPT ![Peer(me[o])] =
                   [secret |-> secret[o], approved |-> auto, peer_approved |->
                      TRUE,
                    verified |-> verified[o]]]
              /\ answer'[o] = IF pc[o] # "waiting" THEN "none"
                               ELSE IF auto THEN "created" ELSE "accepted"
    BY <1>0, <1>8, MaxFaultsAssumption DEF Accept, Put, Answer, Fault
  <2>5. ~crossed => \A p \in Operations \ {o} : Active(p) =>
          /\ kind[o] \in {"create", "delete"} => kind[p] = "access"
          /\ kind[o] \in {"create", "delete", "approve"} => kind[p] \in
             {"access", "approve"}
    BY <1>0, <1>8, NothingBeside DEF Active, Accept, Handles, Put, Answer,
       Step, Fault
  <2> QED
    BY <1>0, <1>8, <2>1, <2>2, <2>3, <2>4, NoRowAssumption, <2>5 DEF Others,
       Accept, Handles, Put, Answer, Step, Fault
<1>9. ASSUME NEW o \in Operations, Authenticate(o) PROVE ApprovalHolds'
  <2>1. Others(o)
    BY <1>9, OthersStay
  <2>2. UNCHANGED <<kind, me, secret, crossed>>
    BY <1>9 DEF Authenticate
  <2>3. me[o] \in Actors /\ Peer(me[o]) \in Actors /\ Peer(me[o]) # me[o]
    BY <1>0, <1>9, PeerIsOther DEF Authenticate, Load, Step
  <2>4. rows' = rows
    BY <1>0, <1>9 DEF Authenticate
  <2>5. ~crossed => \A p \in Operations \ {o} : Active(p) =>
          /\ kind[o] \in {"create", "delete"} => kind[p] = "access"
          /\ kind[o] \in {"create", "delete", "approve"} => kind[p] \in
             {"access", "approve"}
    BY <1>0, <1>9, NothingBeside DEF Active, Authenticate, Load, Step
  <2> QED
    BY <1>0, <1>9, <2>1, <2>2, <2>3, <2>4, NoRowAssumption, <2>5 DEF Others,
       Authenticate, Load, Step
<1>10. ASSUME NEW o \in Operations, RecordTrustUsage(o) PROVE ApprovalHolds'
  <2>1. Others(o)
    BY <1>10, OthersStay
  <2>2. UNCHANGED <<kind, me, secret, crossed>>
    BY <1>10 DEF RecordTrustUsage
  <2>3. me[o] \in Actors /\ Peer(me[o]) \in Actors /\ Peer(me[o]) # me[o]
    BY <1>0, <1>10, PeerIsOther DEF RecordTrustUsage, Put, Step
  <2>4. rows' = rows
    BY <1>0, <1>10 DEF RecordTrustUsage, Put
  <2>5. ~crossed => \A p \in Operations \ {o} : Active(p) =>
          /\ kind[o] \in {"create", "delete"} => kind[p] = "access"
          /\ kind[o] \in {"create", "delete", "approve"} => kind[p] \in
             {"access", "approve"}
    BY <1>0, <1>10, NothingBeside DEF Active, RecordTrustUsage, Put, Step
  <2> QED
    BY <1>0, <1>10, <2>1, <2>2, <2>3, <2>4, NoRowAssumption, <2>5 DEF Others,
       RecordTrustUsage, Put, Step
<1>11. ASSUME NEW o \in Operations, NotAuthenticated(o) PROVE ApprovalHolds'
  <2>1. Others(o)
    BY <1>11, OthersStay
  <2>2. UNCHANGED <<kind, me, secret, crossed>>
    BY <1>11 DEF NotAuthenticated
  <2>3. me[o] \in Actors /\ Peer(me[o]) \in Actors /\ Peer(me[o]) # me[o]
    BY <1>0, <1>11, PeerIsOther DEF NotAuthenticated, Step, Answer
  <2>4. rows' = rows
    BY <1>0, <1>11 DEF NotAuthenticated
  <2>5. ~crossed => \A p \in Operations \ {o} : Active(p) =>
          /\ kind[o] \in {"create", "delete"} => kind[p] = "access"
          /\ kind[o] \in {"create", "delete", "approve"} => kind[p] \in
             {"access", "approve"}
    BY <1>0, <1>11, NothingBeside DEF Active, NotAuthenticated, Step, Answer
  <2> QED
    BY <1>0, <1>11, <2>1, <2>2, <2>3, <2>4, NoRowAssumption, <2>5 DEF Others,
       NotAuthenticated, Step, Answer
<1>12. ASSUME NEW o \in Operations, SaveApproval(o) PROVE ApprovalHolds'
  <2>1. Others(o)
    BY <1>12, OthersStay
  <2>2. UNCHANGED <<kind, me, secret, crossed>>
    BY <1>12 DEF SaveApproval
  <2>3. me[o] \in Actors /\ Peer(me[o]) \in Actors /\ Peer(me[o]) # me[o]
    BY <1>0, <1>12, PeerIsOther DEF SaveApproval, At, Modify, Put, Step,
       Return, Goto
  <2>4. \A z \in Actors :
          /\ rows'[z] = NoRow <=> rows[z] = NoRow
          /\ rows[z] # NoRow =>
                /\ rows'[z].secret = rows[z].secret
                /\ rows'[z].verified = rows[z].verified
                /\ rows'[z].approved <=> (rows[z].approved \/ z = me[o])
                /\ rows'[z].peer_approved <=> rows[z].peer_approved
    BY <1>12, <2>3, ColumnIsSet DEF SaveApproval
  <2>5. ~crossed => \A p \in Operations \ {o} : Active(p) =>
          /\ kind[o] \in {"create", "delete"} => kind[p] = "access"
          /\ kind[o] \in {"create", "delete", "approve"} => kind[p] \in
             {"access", "approve"}
    BY <1>0, <1>12, NothingBeside DEF Active, SaveApproval, At, Modify, Put,
       Step, Return, Goto
  <2> QED
    BY <1>0, <1>12, <2>1, <2>2, <2>3, <2>4, NoRowAssumption, <2>5 DEF Others,
       SaveApproval, At, Modify, Put, Step, Return, Goto
<1>13. ASSUME NEW o \in Operations, Notified(o) PROVE ApprovalHolds'
  <2>1. Others(o)
    BY <1>13, OthersStay
  <2>2. UNCHANGED <<kind, me, secret, crossed>>
    BY <1>13 DEF Notified
  <2>3. me[o] \in Actors /\ Peer(me[o]) \in Actors /\ Peer(me[o]) # me[o]
    BY <1>0, <1>13, PeerIsOther DEF Notified, Handles, Load, Step
  <2>4. rows' = rows
    BY <1>0, <1>13 DEF Notified
  <2>5. ~crossed => \A p \in Operations \ {o} : Active(p) =>
          /\ kind[o] \in {"create", "delete"} => kind[p] = "access"
          /\ kind[o] \in {"create", "delete", "approve"} => kind[p] \in
             {"access", "approve"}
    BY <1>0, <1>13, NothingBeside DEF Active, Notified, Handles, Load, Step
  <2> QED
    BY <1>0, <1>13, <2>1, <2>2, <2>3, <2>4, NoRowAssumption, <2>5 DEF Others,
       Notified, Handles, Load, Step
<1>14. ASSUME NEW o \in Operations, NoteApproval(o) PROVE ApprovalHolds'
  <2>1. Others(o)
    BY <1>14, OthersStay
  <2>2. UNCHANGED <<kind, me, secret, crossed>>
    BY <1>14 DEF NoteApproval
  <2>3. me[o] \in Actors /\ Peer(me[o]) \in Actors /\ Peer(me[o]) # me[o]
    BY <1>0, <1>14, PeerIsOther DEF NoteApproval, Handles, Modify, Put, Step
  <2>4. \A z \in Actors :
          /\ rows'[z] = NoRow <=> rows[z] = NoRow
          /\ rows[z] # NoRow =>
                /\ rows'[z].secret = rows[z].secret
                /\ rows'[z].verified = rows[z].verified
                /\ rows'[z].approved <=> rows[z].approved
                /\ rows'[z].peer_approved <=> (rows[z].peer_approved \/ z =
                   Peer(me[o]))
    BY <1>14, <2>3, ColumnIsSet DEF NoteApproval
  <2>5. ~crossed => \A p \in Operations \ {o} : Active(p) =>
          /\ kind[o] \in {"create", "delete"} => kind[p] = "access"
          /\ kind[o] \in {"create", "delete", "approve"} => kind[p] \in
             {"access", "approve"}
    BY <1>0, <1>14, NothingBeside DEF Active, NoteApproval, Handles, Modify,
       Put, Step
  <2> QED
    BY <1>0, <1>14, <2>1, <2>2, <2>3, <2>4, NoRowAssumption, <2>5 DEF Others,
       NoteApproval, Handles, Modify, Put, Step
<1>15. ASSUME NEW o \in Operations, DeleteRequested(o) PROVE ApprovalHolds'
  <2>1. Others(o)
    BY <1>15, OthersStay
  <2>2. UNCHANGED <<kind, me, secret, crossed>>
    BY <1>15 DEF DeleteRequested
  <2>3. me[o] \in Actors /\ Peer(me[o]) \in Actors /\ Peer(me[o]) # me[o]
    BY <1>0, <1>15, PeerIsOther DEF DeleteRequested, Handles, Step, Answer
  <2>4. rows' = rows
    BY <1>0, <1>15 DEF DeleteRequested
  <2>5. ~crossed => \A p \in Operations \ {o} : Active(p) =>
          /\ kind[o] \in {"create", "delete"} => kind[p] = "access"
          /\ kind[o] \in {"create", "delete", "approve"} => kind[p] \in
             {"access", "approve"}
    BY <1>0, <1>15, NothingBeside DEF Active, DeleteRequested, Handles, Step,
       Answer
  <2> QED
    BY <1>0, <1>15, <2>1, <2>2, <2>3, <2>4, NoRowAssumption, <2>5 DEF Others,
       DeleteRequested, Handles, Step, Answer
<1>16. ASSUME NEW o \in Operations, PeerRemoves(o) PROVE ApprovalHolds'
  <2>1. Others(o)
    BY <1>16, OthersStay
  <2>2. UNCHANGED <<kind, me, secret, crossed>>
    BY <1>16 DEF PeerRemoves
  <2>3. me[o] \in Actors /\ Peer(me[o]) \in Actors /\ Peer(me[o]) # me[o]
    BY <1>0, <1>16, PeerIsOther DEF PeerRemoves, Handles, Put, Answer, Step
  <2>4. rows' = [rows EXCEPT ![Peer(me[o])] = NoRow]
    BY <1>16 DEF PeerRemoves, Put
  <2>5. ~crossed => \A p \in Operations \ {o} : Active(p) =>
          /\ kind[o] \in {"create", "delete"} => kind[p] = "access"
          /\ kind[o] \in {"create", "delete", "approve"} => kind[p] \in
             {"access", "approve"}
    BY <1>0, <1>16, NothingBeside DEF Active, PeerRemoves, Handles, Put,
       Answer, Step
  <2> QED
    BY <1>0, <1>16, <2>1, <2>2, <2>3, <2>4, NoRowAssumption, <2>5 DEF Others,
       PeerRemoves, Handles, Put, Answer, Step
<1>17. ASSUME NEW o \in Operations, DeleteAnswered(o) PROVE ApprovalHolds'
  <2>1. Others(o)
    BY <1>17, OthersStay
  <2>2. UNCHANGED <<kind, me, secret, crossed>>
    BY <1>17 DEF DeleteAnswered
  <2>3. me[o] \in Actors /\ Peer(me[o]) \in Actors /\ Peer(me[o]) # me[o]
    BY <1>0, <1>17, PeerIsOther DEF DeleteAnswered, At, Goto
  <2>4. rows' = rows
    BY <1>0, <1>17 DEF DeleteAnswered
  <2>5. ~crossed => \A p \in Operations \ {o} : Active(p) =>
          /\ kind[o] \in {"create", "delete"} => kind[p] = "access"
          /\ kind[o] \in {"create", "delete", "approve"} => kind[p] \in
             {"access", "approve"}
    BY <1>0, <1>17, NothingBeside DEF Active, DeleteAnswered, At, Goto
  <2> QED
    BY <1>0, <1>17, <2>1, <2>2, <2>3, <2>4, NoRowAssumption, <2>5 DEF Others,
       DeleteAnswered, At, Goto
<1>18. ASSUME NEW o \in Operations, DeleteFailed(o) PROVE ApprovalHolds'
  <2>1. Others(o)
    BY <1>18, OthersStay
  <2>2. UNCHANGED <<kind, me, secret, crossed>>
    BY <1>18 DEF DeleteFailed
  <2>3. me[o] \in Actors /\ Peer(me[o]) \in Actors /\ Peer(me[o]) # me[o]
    BY <1>0, <1>18, PeerIsOther DEF DeleteFailed, At, Return, Goto, Fault
  <2>4. rows' = rows
    BY <1>0, <1>18 DEF DeleteFailed
  <2>5. ~crossed => \A p \in Operations \ {o} : Active(p) =>
          /\ kind[o] \in {"create", "delete"} => kind[p] = "access"
          /\ kind[o] \in {"create", "delete", "approve"} => kind[p] \in
             {"access", "approve"}
    BY <1>0, <1>18, NothingBeside DEF Active, DeleteFailed, At, Return, Goto,
       Fault
  <2> QED
    BY <1>0, <1>18, <2>1, <2>2, <2>3, <2>4, NoRowAssumption, <2>5 DEF Others,
       DeleteFailed, At, Return, Goto, Fault
<1>19. ASSUME NEW o \in Operations, Remove(o) PROVE ApprovalHolds'
  <2>1. Others(o)
    BY <1>19, OthersStay
  <2>2. UNCHANGED <<kind, me, secret, crossed>>
    BY <1>19 DEF Remove
  <2>3. me[o] \in Actors /\ Peer(me[o]) \in Actors /\ Peer(me[o]) # me[o]
    BY <1>0, <1>19, PeerIsOther DEF Remove, At, Put, Return, Goto
  <2>4. rows' = [rows EXCEPT ![me[o]] = NoRow]
    BY <1>19 DEF Remove, Put
  <2>5. ~crossed => \A p \in Operations \ {o} : Active(p) =>
          /\ kind[o] \in {"create", "delete"} => kind[p] = "access"
          /\ kind[o] \in {"create", "delete", "approve"} => kind[p] \in
             {"access", "approve"}
    BY <1>0, <1>19, NothingBeside DEF Active, Remove, At, Put, Return, Goto
  <2> QED
    BY <1>0, <1>19, <2>1, <2>2, <2>3, <2>4, NoRowAssumption, <2>5 DEF Others,
       Remove, At, Put, Return, Goto
<1>20. ASSUME NEW o \in Operations, Lose(o) PROVE ApprovalHolds'
  <2>1. Others(o)
    BY <1>20, OthersStay
  <2>2. UNCHANGED <<kind, me, secret, crossed>>
    BY <1>20 DEF Lose
  <2>3. me[o] \in Actors /\ Peer(me[o]) \in Actors /\ Peer(me[o]) # me[o]
    BY <1>0, <1>20, PeerIsOther DEF Lose, Step, Fault
  <2>4. rows' = rows
    BY <1>0, <1>20 DEF Lose
  <2>5. ~crossed => \A p \in Operations \ {o} : Active(p) =>
          /\ kind[o] \in {"create", "delete"} => kind[p] = "access"
          /\ kind[o] \in {"create", "delete", "approve"} => kind[p] \in
             {"access", "approve"}
    BY <1>0, <1>20, NothingBeside DEF Active, Lose, Step, Fault
  <2> QED
    BY <1>0, <1>20, <2>1, <2>2, <2>3, <2>4, NoRowAssumption, <2>5 DEF Others,
       Lose, Step, Fault
<1>21. ASSUME NEW o \in Operations, Die(o) PROVE ApprovalHolds'
  <2>1. Others(o)
    BY <1>21, OthersStay
  <2>2. UNCHANGED <<kind, me, secret, crossed>>
    BY <1>21 DEF Die
  <2>3. me[o] \in Actors /\ Peer(me[o]) \in Actors /\ Peer(me[o]) # me[o]
    BY <1>0, <1>21, PeerIsOther DEF Die, Return, Goto, Fault
  <2>4. rows' = rows
    BY <1>0, <1>21 DEF Die
  <2>5. ~crossed => \A p \in Operations \ {o} : Active(p) =>
          /\ kind[o] \in {"create", "delete"} => kind[p] = "access"
          /\ kind[o] \in {"create", "delete", "approve"} => kind[p] \in
             {"access", "approve"}
    BY <1>0, <1>21, NothingBeside DEF Active, Die, Return, Goto, Fault
  <2> QED
    BY <1>0, <1>21, <2>1, <2>2, <2>3, <2>4, NoRowAssumption, <2>5 DEF Others,
       Die, Return, Goto, Fault
<1>22. CASE UNCHANGED vars
  BY <1>0, <1>22 DEF vars
<1> HIDE DEF TypeOK, StepsFit, ApprovalHolds, Active
<1> QED
  BY <1>1, <1>2, <1>3, <1>4, <1>5, <1>6, <1>7, <1>8, <1>9, <1>10, <1>11,
     <1>12, <1>13, <1>14, <1>15, <1>16, <1>17, <1>18, <1>19, <1>20,
     <1>21, <1>22
  DEF Next

\* What is known of an approval stays true.
LEMMA MutualStep ==
    ASSUME ~WholeRow, IInv, [Next]_vars
    PROVE  ApprovalIsMutual'
<1>0. TypeOK /\ StepsFit /\ SecretsAreKnown /\ CreationHolds /\ PeerIsUndecided /\ ApprovalHolds /\ ApprovalIsMutual
  BY FitStep DEF IInv
<1> USE DEF TypeOK, StepsFit, SecretsAreKnown, CreationHolds, PeerIsUndecided,
        ApprovalHolds, ApprovalIsMutual, Active, Linked
<1>1. ASSUME NEW o \in Operations, NEW x \in Actors, Create(o, x)
      PROVE  ApprovalIsMutual'
  <2>1. Others(o)
    BY <1>1, OthersStay
  <2>2. /\ pc[o] = "idle" /\ kind'[o] = "create" /\ me'[o] = x
        /\ ~crossed' => ~crossed
    BY <1>0, <1>1 DEF Create, Begin
  <2>3. \A y \in Actors : Peer(y) \in Actors /\ Peer(y) # y
    BY PeerIsOther
  <2>4. rows' = [rows EXCEPT ![x] = [secret |-> o, approved |-> TRUE,
                 peer_approved |-> FALSE, verified |-> TRUE]]
    BY <1>1 DEF Create, Put
  <2>5. ~crossed' => \A p \in Operations \ {o} :
          Active(p) => kind[p] = "access"
    <3> SUFFICES ASSUME ~crossed', NEW p \in Operations \ {o}, Active(p)
                 PROVE  kind[p] = "access"
      OBVIOUS
    <3>1. ~Clash("create", kind[p])
      BY <1>1 DEF Create, Begin
    <3>2. kind[p] \in Kinds
      BY <1>0 DEF Active
    <3> QED
      BY <3>1, <3>2 DEF Clash, Kinds
  <2> QED
    BY <1>0, <1>1, <2>1, <2>2, <2>3, <2>4, NoRowAssumption, PeerIsOther, <2>5
       DEF Others, Create, Begin, Goto, Step, Put
<1>2. ASSUME NEW o \in Operations, NEW x \in Actors, Approve(o, x)
      PROVE  ApprovalIsMutual'
  <2>1. Others(o)
    BY <1>2, OthersStay
  <2>2. /\ pc[o] = "idle" /\ kind'[o] = "approve" /\ me'[o] = x
        /\ ~crossed' => ~crossed
    BY <1>0, <1>2 DEF Approve, Begin
  <2>3. \A y \in Actors : Peer(y) \in Actors /\ Peer(y) # y
    BY PeerIsOther
  <2>4. rows' = rows
    BY <1>0, <1>2 DEF Approve
  <2>5. ~crossed' => \A p \in Operations \ {o} :
          Active(p) => kind[p] \in {"access", "approve"}
    <3> SUFFICES ASSUME ~crossed', NEW p \in Operations \ {o}, Active(p)
                 PROVE  kind[p] \in {"access", "approve"}
      OBVIOUS
    <3>1. ~Clash("approve", kind[p])
      BY <1>2 DEF Approve, Begin
    <3>2. kind[p] \in Kinds
      BY <1>0 DEF Active
    <3> QED
      BY <3>1, <3>2 DEF Clash, Kinds
  <2> QED
    BY <1>0, <1>2, <2>1, <2>2, <2>3, <2>4, NoRowAssumption, PeerIsOther, <2>5
       DEF Others, Approve, Begin, Goto, Load
<1>3. ASSUME NEW o \in Operations, NEW x \in Actors, Delete(o, x)
      PROVE  ApprovalIsMutual'
  <2>1. Others(o)
    BY <1>3, OthersStay
  <2>2. /\ pc[o] = "idle" /\ kind'[o] = "delete" /\ me'[o] = x
        /\ ~crossed' => ~crossed
    BY <1>0, <1>3 DEF Delete, Begin
  <2>3. \A y \in Actors : Peer(y) \in Actors /\ Peer(y) # y
    BY PeerIsOther
  <2>4. rows' = rows
    BY <1>0, <1>3 DEF Delete
  <2>5. ~crossed' => \A p \in Operations \ {o} :
          Active(p) => kind[p] = "access"
    <3> SUFFICES ASSUME ~crossed', NEW p \in Operations \ {o}, Active(p)
                 PROVE  kind[p] = "access"
      OBVIOUS
    <3>1. ~Clash("delete", kind[p])
      BY <1>3 DEF Delete, Begin
    <3>2. kind[p] \in Kinds
      BY <1>0 DEF Active
    <3> QED
      BY <3>1, <3>2 DEF Clash, Kinds
  <2> QED
    BY <1>0, <1>3, <2>1, <2>2, <2>3, <2>4, NoRowAssumption, PeerIsOther, <2>5
       DEF Others, Delete, Begin, Goto, Step
<1>4. ASSUME NEW o \in Operations, NEW x \in Actors, Access(o, x)
      PROVE  ApprovalIsMutual'
  <2>1. Others(o)
    BY <1>4, OthersStay
  <2>2. /\ pc[o] = "idle" /\ kind'[o] = "access" /\ me'[o] = x
        /\ ~crossed' => ~crossed
    BY <1>0, <1>4 DEF Access, Begin
  <2>3. \A y \in Actors : Peer(y) \in Actors /\ Peer(y) # y
    BY PeerIsOther
  <2>4. rows' = rows
    BY <1>0, <1>4 DEF Access
  <2> QED
    BY <1>0, <1>4, <2>1, <2>2, <2>3, <2>4, NoRowAssumption, PeerIsOther DEF
       Others, Access, Begin, Goto, Step
<1>5. ASSUME NEW o \in Operations, CreateAnswered(o) PROVE ApprovalIsMutual'
  <2>1. Others(o)
    BY <1>5, OthersStay
  <2>2. UNCHANGED <<kind, me, secret, crossed>>
    BY <1>5 DEF CreateAnswered
  <2>3. me[o] \in Actors /\ Peer(me[o]) \in Actors /\ Peer(me[o]) # me[o]
    BY <1>0, <1>5, PeerIsOther DEF CreateAnswered, At, Load, Goto, Return
  <2>4. rows' = rows
    BY <1>0, <1>5 DEF CreateAnswered
  <2>5. ~crossed => \A p \in Operations \ {o} : Active(p) =>
          /\ kind[o] \in {"create", "delete"} => kind[p] = "access"
          /\ kind[o] \in {"create", "delete", "approve"} => kind[p] \in
             {"access", "approve"}
    BY <1>0, <1>5, NothingBeside DEF Active, CreateAnswered, At, Load, Goto,
       Return
  <2> QED
    BY <1>0, <1>5, <2>1, <2>2, <2>3, <2>4, NoRowAssumption, PeerIsOther, <2>5
       DEF Others, CreateAnswered, At, Load, Goto, Return
<1>6. ASSUME NEW o \in Operations, Promote(o) PROVE ApprovalIsMutual'
  <2>1. Others(o)
    BY <1>6, OthersStay
  <2>2. UNCHANGED <<kind, me, secret, crossed>>
    BY <1>6 DEF Promote
  <2>3. me[o] \in Actors /\ Peer(me[o]) \in Actors /\ Peer(me[o]) # me[o]
    BY <1>0, <1>6, PeerIsOther DEF Promote, At, Modify, Put, Return, Goto
  <2>4. \A z \in Actors :
          /\ rows'[z] = NoRow <=> rows[z] = NoRow
          /\ rows[z] # NoRow =>
                /\ rows'[z].secret = rows[z].secret
                /\ rows'[z].verified = rows[z].verified
                /\ rows'[z].approved <=> rows[z].approved
                /\ rows'[z].peer_approved <=> (rows[z].peer_approved \/ z =
                   me[o])
    BY <1>6, <2>3, ColumnIsSet DEF Promote
  <2>5. ~crossed => \A p \in Operations \ {o} : Active(p) =>
          /\ kind[o] \in {"create", "delete"} => kind[p] = "access"
          /\ kind[o] \in {"create", "delete", "approve"} => kind[p] \in
             {"access", "approve"}
    BY <1>0, <1>6, NothingBeside DEF Active, Promote, At, Modify, Put, Return,
       Goto
  <2> QED
    BY <1>0, <1>6, <2>1, <2>2, <2>3, <2>4, NoRowAssumption, PeerIsOther, <2>5
       DEF Others, Promote, At, Modify, Put, Return, Goto
<1>7. ASSUME NEW o \in Operations, CreateFailed(o) PROVE ApprovalIsMutual'
  <2>1. Others(o)
    BY <1>7, OthersStay
  <2>2. UNCHANGED <<kind, me, secret, crossed>>
    BY <1>7 DEF CreateFailed
  <2>3. me[o] \in Actors /\ Peer(me[o]) \in Actors /\ Peer(me[o]) # me[o]
    BY <1>0, <1>7, PeerIsOther DEF CreateFailed, At, Put, Return, Goto, Fault
  <2>4. rows' = [rows EXCEPT ![me[o]] = NoRow]
    BY <1>7 DEF CreateFailed, Put
  <2>5. ~crossed => \A p \in Operations \ {o} : Active(p) =>
          /\ kind[o] \in {"create", "delete"} => kind[p] = "access"
          /\ kind[o] \in {"create", "delete", "approve"} => kind[p] \in
             {"access", "approve"}
    BY <1>0, <1>7, NothingBeside DEF Active, CreateFailed, At, Put, Return,
       Goto, Fault
  <2> QED
    BY <1>0, <1>7, <2>1, <2>2, <2>3, <2>4, NoRowAssumption, PeerIsOther, <2>5
       DEF Others, CreateFailed, At, Put, Return, Goto, Fault
<1>8. ASSUME NEW o \in Operations, Accept(o) PROVE ApprovalIsMutual'
  <2>1. Others(o)
    BY <1>8, OthersStay
  <2>2. UNCHANGED <<kind, me, secret, crossed>>
    BY <1>8 DEF Accept
  <2>3. me[o] \in Actors /\ Peer(me[o]) \in Actors /\ Peer(me[o]) # me[o]
    BY <1>0, <1>8, PeerIsOther DEF Accept, Handles, Put, Answer, Step, Fault
  <2>4. \/ UNCHANGED rows /\ faults' # 0
        \/ \E auto \in BOOLEAN :
              /\ rows' = [rows EXCEPT ![Peer(me[o])] =
                   [secret |-> secret[o], approved |-> auto, peer_approved |->
                      TRUE,
                    verified |-> verified[o]]]
              /\ answer'[o] = IF pc[o] # "waiting" THEN "none"
                               ELSE IF auto THEN "created" ELSE "accepted"
    BY <1>0, <1>8, MaxFaultsAssumption DEF Accept, Put, Answer, Fault
  <2>5. ~crossed => \A p \in Operations \ {o} : Active(p) =>
          /\ kind[o] \in {"create", "delete"} => kind[p] = "access"
          /\ kind[o] \in {"create", "delete", "approve"} => kind[p] \in
             {"access", "approve"}
    BY <1>0, <1>8, NothingBeside DEF Active, Accept, Handles, Put, Answer,
       Step, Fault
  <2>6. kind[o] = "create" /\ handler[o] = "act" /\ secret[o] = o
    BY <1>0, <1>8 DEF Accept, Handles
  <2>7. CASE UNCHANGED rows
    BY <1>0, <2>2, <2>7
  <2>8. ASSUME NEW auto \in BOOLEAN,
               rows' = [rows EXCEPT ![Peer(me[o])] =
                   [secret |-> secret[o], approved |-> auto, peer_approved |->
                      TRUE,
                    verified |-> verified[o]]]
        PROVE  ApprovalIsMutual'
    <3>1. rows'[me[o]] = rows[me[o]] /\ rows'[Peer(me[o])].secret = o
      BY <1>0, <2>3, <2>6, <2>8
    <3>2. SUFFICES ASSUME ~crossed, rows'[me[o]] # NoRow,
                          rows'[me[o]].secret = rows'[Peer(me[o])].secret
                   PROVE  rows'[me[o]].approved /\ ~rows'[me[o]].peer_approved
      BY <2>2, <2>3, PeerIsOther
    <3>3. rows[me[o]].approved
      BY <1>0, <2>3, <3>1, <3>2
    <3>4. ~rows[me[o]].peer_approved
      BY <1>0, <2>3, <2>6, <3>1, <3>2
    <3> QED
      BY <3>1, <3>3, <3>4
  <2> QED
    BY <2>4, <2>7, <2>8
<1>9. ASSUME NEW o \in Operations, Authenticate(o) PROVE ApprovalIsMutual'
  <2>1. Others(o)
    BY <1>9, OthersStay
  <2>2. UNCHANGED <<kind, me, secret, crossed>>
    BY <1>9 DEF Authenticate
  <2>3. me[o] \in Actors /\ Peer(me[o]) \in Actors /\ Peer(me[o]) # me[o]
    BY <1>0, <1>9, PeerIsOther DEF Authenticate, Load, Step
  <2>4. rows' = rows
    BY <1>0, <1>9 DEF Authenticate
  <2>5. ~crossed => \A p \in Operations \ {o} : Active(p) =>
          /\ kind[o] \in {"create", "delete"} => kind[p] = "access"
          /\ kind[o] \in {"create", "delete", "approve"} => kind[p] \in
             {"access", "approve"}
    BY <1>0, <1>9, NothingBeside DEF Active, Authenticate, Load, Step
  <2> QED
    BY <1>0, <1>9, <2>1, <2>2, <2>3, <2>4, NoRowAssumption, PeerIsOther, <2>5
       DEF Others, Authenticate, Load, Step
<1>10. ASSUME NEW o \in Operations, RecordTrustUsage(o) PROVE ApprovalIsMutual'
  <2>1. Others(o)
    BY <1>10, OthersStay
  <2>2. UNCHANGED <<kind, me, secret, crossed>>
    BY <1>10 DEF RecordTrustUsage
  <2>3. me[o] \in Actors /\ Peer(me[o]) \in Actors /\ Peer(me[o]) # me[o]
    BY <1>0, <1>10, PeerIsOther DEF RecordTrustUsage, Put, Step
  <2>4. rows' = rows
    BY <1>0, <1>10 DEF RecordTrustUsage, Put
  <2>5. ~crossed => \A p \in Operations \ {o} : Active(p) =>
          /\ kind[o] \in {"create", "delete"} => kind[p] = "access"
          /\ kind[o] \in {"create", "delete", "approve"} => kind[p] \in
             {"access", "approve"}
    BY <1>0, <1>10, NothingBeside DEF Active, RecordTrustUsage, Put, Step
  <2> QED
    BY <1>0, <1>10, <2>1, <2>2, <2>3, <2>4, NoRowAssumption, PeerIsOther, <2>5
       DEF Others, RecordTrustUsage, Put, Step
<1>11. ASSUME NEW o \in Operations, NotAuthenticated(o) PROVE ApprovalIsMutual'
  <2>1. Others(o)
    BY <1>11, OthersStay
  <2>2. UNCHANGED <<kind, me, secret, crossed>>
    BY <1>11 DEF NotAuthenticated
  <2>3. me[o] \in Actors /\ Peer(me[o]) \in Actors /\ Peer(me[o]) # me[o]
    BY <1>0, <1>11, PeerIsOther DEF NotAuthenticated, Step, Answer
  <2>4. rows' = rows
    BY <1>0, <1>11 DEF NotAuthenticated
  <2>5. ~crossed => \A p \in Operations \ {o} : Active(p) =>
          /\ kind[o] \in {"create", "delete"} => kind[p] = "access"
          /\ kind[o] \in {"create", "delete", "approve"} => kind[p] \in
             {"access", "approve"}
    BY <1>0, <1>11, NothingBeside DEF Active, NotAuthenticated, Step, Answer
  <2> QED
    BY <1>0, <1>11, <2>1, <2>2, <2>3, <2>4, NoRowAssumption, PeerIsOther, <2>5
       DEF Others, NotAuthenticated, Step, Answer
<1>12. ASSUME NEW o \in Operations, SaveApproval(o) PROVE ApprovalIsMutual'
  <2>1. Others(o)
    BY <1>12, OthersStay
  <2>2. UNCHANGED <<kind, me, secret, crossed>>
    BY <1>12 DEF SaveApproval
  <2>3. me[o] \in Actors /\ Peer(me[o]) \in Actors /\ Peer(me[o]) # me[o]
    BY <1>0, <1>12, PeerIsOther DEF SaveApproval, At, Modify, Put, Step,
       Return, Goto
  <2>4. \A z \in Actors :
          /\ rows'[z] = NoRow <=> rows[z] = NoRow
          /\ rows[z] # NoRow =>
                /\ rows'[z].secret = rows[z].secret
                /\ rows'[z].verified = rows[z].verified
                /\ rows'[z].approved <=> (rows[z].approved \/ z = me[o])
                /\ rows'[z].peer_approved <=> rows[z].peer_approved
    BY <1>12, <2>3, ColumnIsSet DEF SaveApproval
  <2>5. ~crossed => \A p \in Operations \ {o} : Active(p) =>
          /\ kind[o] \in {"create", "delete"} => kind[p] = "access"
          /\ kind[o] \in {"create", "delete", "approve"} => kind[p] \in
             {"access", "approve"}
    BY <1>0, <1>12, NothingBeside DEF Active, SaveApproval, At, Modify, Put,
       Step, Return, Goto
  <2> QED
    BY <1>0, <1>12, <2>1, <2>2, <2>3, <2>4, NoRowAssumption, PeerIsOther, <2>5
       DEF Others, SaveApproval, At, Modify, Put, Step, Return, Goto
<1>13. ASSUME NEW o \in Operations, Notified(o) PROVE ApprovalIsMutual'
  <2>1. Others(o)
    BY <1>13, OthersStay
  <2>2. UNCHANGED <<kind, me, secret, crossed>>
    BY <1>13 DEF Notified
  <2>3. me[o] \in Actors /\ Peer(me[o]) \in Actors /\ Peer(me[o]) # me[o]
    BY <1>0, <1>13, PeerIsOther DEF Notified, Handles, Load, Step
  <2>4. rows' = rows
    BY <1>0, <1>13 DEF Notified
  <2>5. ~crossed => \A p \in Operations \ {o} : Active(p) =>
          /\ kind[o] \in {"create", "delete"} => kind[p] = "access"
          /\ kind[o] \in {"create", "delete", "approve"} => kind[p] \in
             {"access", "approve"}
    BY <1>0, <1>13, NothingBeside DEF Active, Notified, Handles, Load, Step
  <2> QED
    BY <1>0, <1>13, <2>1, <2>2, <2>3, <2>4, NoRowAssumption, PeerIsOther, <2>5
       DEF Others, Notified, Handles, Load, Step
<1>14. ASSUME NEW o \in Operations, NoteApproval(o) PROVE ApprovalIsMutual'
  <2>1. Others(o)
    BY <1>14, OthersStay
  <2>2. UNCHANGED <<kind, me, secret, crossed>>
    BY <1>14 DEF NoteApproval
  <2>3. me[o] \in Actors /\ Peer(me[o]) \in Actors /\ Peer(me[o]) # me[o]
    BY <1>0, <1>14, PeerIsOther DEF NoteApproval, Handles, Modify, Put, Step
  <2>4. \A z \in Actors :
          /\ rows'[z] = NoRow <=> rows[z] = NoRow
          /\ rows[z] # NoRow =>
                /\ rows'[z].secret = rows[z].secret
                /\ rows'[z].verified = rows[z].verified
                /\ rows'[z].approved <=> rows[z].approved
                /\ rows'[z].peer_approved <=> (rows[z].peer_approved \/ z =
                   Peer(me[o]))
    BY <1>14, <2>3, ColumnIsSet DEF NoteApproval
  <2>5. ~crossed => \A p \in Operations \ {o} : Active(p) =>
          /\ kind[o] \in {"create", "delete"} => kind[p] = "access"
          /\ kind[o] \in {"create", "delete", "approve"} => kind[p] \in
             {"access", "approve"}
    BY <1>0, <1>14, NothingBeside DEF Active, NoteApproval, Handles, Modify,
       Put, Step
  <2> QED
    BY <1>0, <1>14, <2>1, <2>2, <2>3, <2>4, NoRowAssumption, PeerIsOther, <2>5
       DEF Others, NoteApproval, Handles, Modify, Put, Step
<1>15. ASSUME NEW o \in Operations, DeleteRequested(o) PROVE ApprovalIsMutual'
  <2>1. Others(o)
    BY <1>15, OthersStay
  <2>2. UNCHANGED <<kind, me, secret, crossed>>
    BY <1>15 DEF DeleteRequested
  <2>3. me[o] \in Actors /\ Peer(me[o]) \in Actors /\ Peer(me[o]) # me[o]
    BY <1>0, <1>15, PeerIsOther DEF DeleteRequested, Handles, Step, Answer
  <2>4. rows' = rows
    BY <1>0, <1>15 DEF DeleteRequested
  <2>5. ~crossed => \A p \in Operations \ {o} : Active(p) =>
          /\ kind[o] \in {"create", "delete"} => kind[p] = "access"
          /\ kind[o] \in {"create", "delete", "approve"} => kind[p] \in
             {"access", "approve"}
    BY <1>0, <1>15, NothingBeside DEF Active, DeleteRequested, Handles, Step,
       Answer
  <2> QED
    BY <1>0, <1>15, <2>1, <2>2, <2>3, <2>4, NoRowAssumption, PeerIsOther, <2>5
       DEF Others, DeleteRequested, Handles, Step, Answer
<1>16. ASSUME NEW o \in Operations, PeerRemoves(o) PROVE ApprovalIsMutual'
  <2>1. Others(o)
    BY <1>16, OthersStay
  <2>2. UNCHANGED <<kind, me, secret, crossed>>
    BY <1>16 DEF PeerRemoves
  <2>3. me[o] \in Actors /\ Peer(me[o]) \in Actors /\ Peer(me[o]) # me[o]
    BY <1>0, <1>16, PeerIsOther DEF PeerRemoves, Handles, Put, Answer, Step
  <2>4. rows' = [rows EXCEPT ![Peer(me[o])] = NoRow]
    BY <1>16 DEF PeerRemoves, Put
  <2>5. ~crossed => \A p \in Operations \ {o} : Active(p) =>
          /\ kind[o] \in {"create", "delete"} => kind[p] = "access"
          /\ kind[o] \in {"create", "delete", "approve"} => kind[p] \in
             {"access", "approve"}
    BY <1>0, <1>16, NothingBeside DEF Active, PeerRemoves, Handles, Put,
       Answer, Step
  <2> QED
    BY <1>0, <1>16, <2>1, <2>2, <2>3, <2>4, NoRowAssumption, PeerIsOther, <2>5
       DEF Others, PeerRemoves, Handles, Put, Answer, Step
<1>17. ASSUME NEW o \in Operations, DeleteAnswered(o) PROVE ApprovalIsMutual'
  <2>1. Others(o)
    BY <1>17, OthersStay
  <2>2. UNCHANGED <<kind, me, secret, crossed>>
    BY <1>17 DEF DeleteAnswered
  <2>3. me[o] \in Actors /\ Peer(me[o]) \in Actors /\ Peer(me[o]) # me[o]
    BY <1>0, <1>17, PeerIsOther DEF DeleteAnswered, At, Goto
  <2>4. rows' = rows
    BY <1>0, <1>17 DEF DeleteAnswered
  <2>5. ~crossed => \A p \in Operations \ {o} : Active(p) =>
          /\ kind[o] \in {"create", "delete"} => kind[p] = "access"
          /\ kind[o] \in {"create", "delete", "approve"} => kind[p] \in
             {"access", "approve"}
    BY <1>0, <1>17, NothingBeside DEF Active, DeleteAnswered, At, Goto
  <2> QED
    BY <1>0, <1>17, <2>1, <2>2, <2>3, <2>4, NoRowAssumption, PeerIsOther, <2>5
       DEF Others, DeleteAnswered, At, Goto
<1>18. ASSUME NEW o \in Operations, DeleteFailed(o) PROVE ApprovalIsMutual'
  <2>1. Others(o)
    BY <1>18, OthersStay
  <2>2. UNCHANGED <<kind, me, secret, crossed>>
    BY <1>18 DEF DeleteFailed
  <2>3. me[o] \in Actors /\ Peer(me[o]) \in Actors /\ Peer(me[o]) # me[o]
    BY <1>0, <1>18, PeerIsOther DEF DeleteFailed, At, Return, Goto, Fault
  <2>4. rows' = rows
    BY <1>0, <1>18 DEF DeleteFailed
  <2>5. ~crossed => \A p \in Operations \ {o} : Active(p) =>
          /\ kind[o] \in {"create", "delete"} => kind[p] = "access"
          /\ kind[o] \in {"create", "delete", "approve"} => kind[p] \in
             {"access", "approve"}
    BY <1>0, <1>18, NothingBeside DEF Active, DeleteFailed, At, Return, Goto,
       Fault
  <2> QED
    BY <1>0, <1>18, <2>1, <2>2, <2>3, <2>4, NoRowAssumption, PeerIsOther, <2>5
       DEF Others, DeleteFailed, At, Return, Goto, Fault
<1>19. ASSUME NEW o \in Operations, Remove(o) PROVE ApprovalIsMutual'
  <2>1. Others(o)
    BY <1>19, OthersStay
  <2>2. UNCHANGED <<kind, me, secret, crossed>>
    BY <1>19 DEF Remove
  <2>3. me[o] \in Actors /\ Peer(me[o]) \in Actors /\ Peer(me[o]) # me[o]
    BY <1>0, <1>19, PeerIsOther DEF Remove, At, Put, Return, Goto
  <2>4. rows' = [rows EXCEPT ![me[o]] = NoRow]
    BY <1>19 DEF Remove, Put
  <2>5. ~crossed => \A p \in Operations \ {o} : Active(p) =>
          /\ kind[o] \in {"create", "delete"} => kind[p] = "access"
          /\ kind[o] \in {"create", "delete", "approve"} => kind[p] \in
             {"access", "approve"}
    BY <1>0, <1>19, NothingBeside DEF Active, Remove, At, Put, Return, Goto
  <2> QED
    BY <1>0, <1>19, <2>1, <2>2, <2>3, <2>4, NoRowAssumption, PeerIsOther, <2>5
       DEF Others, Remove, At, Put, Return, Goto
<1>20. ASSUME NEW o \in Operations, Lose(o) PROVE ApprovalIsMutual'
  <2>1. Others(o)
    BY <1>20, OthersStay
  <2>2. UNCHANGED <<kind, me, secret, crossed>>
    BY <1>20 DEF Lose
  <2>3. me[o] \in Actors /\ Peer(me[o]) \in Actors /\ Peer(me[o]) # me[o]
    BY <1>0, <1>20, PeerIsOther DEF Lose, Step, Fault
  <2>4. rows' = rows
    BY <1>0, <1>20 DEF Lose
  <2>5. ~crossed => \A p \in Operations \ {o} : Active(p) =>
          /\ kind[o] \in {"create", "delete"} => kind[p] = "access"
          /\ kind[o] \in {"create", "delete", "approve"} => kind[p] \in
             {"access", "approve"}
    BY <1>0, <1>20, NothingBeside DEF Active, Lose, Step, Fault
  <2> QED
    BY <1>0, <1>20, <2>1, <2>2, <2>3, <2>4, NoRowAssumption, PeerIsOther, <2>5
       DEF Others, Lose, Step, Fault
<1>21. ASSUME NEW o \in Operations, Die(o) PROVE ApprovalIsMutual'
  <2>1. Others(o)
    BY <1>21, OthersStay
  <2>2. UNCHANGED <<kind, me, secret, crossed>>
    BY <1>21 DEF Die
  <2>3. me[o] \in Actors /\ Peer(me[o]) \in Actors /\ Peer(me[o]) # me[o]
    BY <1>0, <1>21, PeerIsOther DEF Die, Return, Goto, Fault
  <2>4. rows' = rows
    BY <1>0, <1>21 DEF Die
  <2>5. ~crossed => \A p \in Operations \ {o} : Active(p) =>
          /\ kind[o] \in {"create", "delete"} => kind[p] = "access"
          /\ kind[o] \in {"create", "delete", "approve"} => kind[p] \in
             {"access", "approve"}
    BY <1>0, <1>21, NothingBeside DEF Active, Die, Return, Goto, Fault
  <2> QED
    BY <1>0, <1>21, <2>1, <2>2, <2>3, <2>4, NoRowAssumption, PeerIsOther, <2>5
       DEF Others, Die, Return, Goto, Fault
<1>22. CASE UNCHANGED vars
  BY <1>0, <1>22 DEF vars, Linked
<1> HIDE DEF TypeOK, StepsFit, SecretsAreKnown, CreationHolds,
        PeerIsUndecided, ApprovalHolds, ApprovalIsMutual, Active, Linked
<1> QED
  BY <1>1, <1>2, <1>3, <1>4, <1>5, <1>6, <1>7, <1>8, <1>9, <1>10, <1>11,
     <1>12, <1>13, <1>14, <1>15, <1>16, <1>17, <1>18, <1>19, <1>20,
     <1>21, <1>22
  DEF Next

-----------------------------------------------------------------------------
(* As long as nothing goes wrong.                                          *)

\* An approval is announced with the secret of the row.
LEMMA AnnouncedStep ==
    ASSUME ~WholeRow, IInv, [Next]_vars
    PROVE  ApprovalIsOnTrack'
<1>0. TypeOK /\ StepsFit /\ ApprovalIsOnTrack
  BY FitStep DEF IInv
<1> USE DEF TypeOK, StepsFit, ApprovalIsOnTrack, Active
<1>1. ASSUME NEW o \in Operations, NEW x \in Actors, Create(o, x)
      PROVE  ApprovalIsOnTrack'
  <2>1. Others(o)
    BY <1>1, OthersStay
  <2>2. /\ pc[o] = "idle" /\ kind'[o] = "create" /\ me'[o] = x
        /\ ~crossed' => ~crossed
    BY <1>0, <1>1 DEF Create, Begin
  <2>3. \A y \in Actors : Peer(y) \in Actors /\ Peer(y) # y
    BY PeerIsOther
  <2>4. rows' = [rows EXCEPT ![x] = [secret |-> o, approved |-> TRUE,
                 peer_approved |-> FALSE, verified |-> TRUE]]
    BY <1>1 DEF Create, Put
  <2>5. ~crossed' => \A p \in Operations \ {o} :
          Active(p) => kind[p] = "access"
    <3> SUFFICES ASSUME ~crossed', NEW p \in Operations \ {o}, Active(p)
                 PROVE  kind[p] = "access"
      OBVIOUS
    <3>1. ~Clash("create", kind[p])
      BY <1>1 DEF Create, Begin
    <3>2. kind[p] \in Kinds
      BY <1>0 DEF Active
    <3> QED
      BY <3>1, <3>2 DEF Clash, Kinds
  <2> QED
    BY <1>0, <1>1, <2>1, <2>2, <2>3, <2>4, NoRowAssumption, <2>5 DEF Others,
       Create, Begin, Goto, Step, Put
<1>2. ASSUME NEW o \in Operations, NEW x \in Actors, Approve(o, x)
      PROVE  ApprovalIsOnTrack'
  <2>1. Others(o)
    BY <1>2, OthersStay
  <2>2. /\ pc[o] = "idle" /\ kind'[o] = "approve" /\ me'[o] = x
        /\ ~crossed' => ~crossed
    BY <1>0, <1>2 DEF Approve, Begin
  <2>3. \A y \in Actors : Peer(y) \in Actors /\ Peer(y) # y
    BY PeerIsOther
  <2>4. rows' = rows
    BY <1>0, <1>2 DEF Approve
  <2>5. ~crossed' => \A p \in Operations \ {o} :
          Active(p) => kind[p] \in {"access", "approve"}
    <3> SUFFICES ASSUME ~crossed', NEW p \in Operations \ {o}, Active(p)
                 PROVE  kind[p] \in {"access", "approve"}
      OBVIOUS
    <3>1. ~Clash("approve", kind[p])
      BY <1>2 DEF Approve, Begin
    <3>2. kind[p] \in Kinds
      BY <1>0 DEF Active
    <3> QED
      BY <3>1, <3>2 DEF Clash, Kinds
  <2> QED
    BY <1>0, <1>2, <2>1, <2>2, <2>3, <2>4, NoRowAssumption, <2>5 DEF Others,
       Approve, Begin, Goto, Load
<1>3. ASSUME NEW o \in Operations, NEW x \in Actors, Delete(o, x)
      PROVE  ApprovalIsOnTrack'
  <2>1. Others(o)
    BY <1>3, OthersStay
  <2>2. /\ pc[o] = "idle" /\ kind'[o] = "delete" /\ me'[o] = x
        /\ ~crossed' => ~crossed
    BY <1>0, <1>3 DEF Delete, Begin
  <2>3. \A y \in Actors : Peer(y) \in Actors /\ Peer(y) # y
    BY PeerIsOther
  <2>4. rows' = rows
    BY <1>0, <1>3 DEF Delete
  <2>5. ~crossed' => \A p \in Operations \ {o} :
          Active(p) => kind[p] = "access"
    <3> SUFFICES ASSUME ~crossed', NEW p \in Operations \ {o}, Active(p)
                 PROVE  kind[p] = "access"
      OBVIOUS
    <3>1. ~Clash("delete", kind[p])
      BY <1>3 DEF Delete, Begin
    <3>2. kind[p] \in Kinds
      BY <1>0 DEF Active
    <3> QED
      BY <3>1, <3>2 DEF Clash, Kinds
  <2> QED
    BY <1>0, <1>3, <2>1, <2>2, <2>3, <2>4, NoRowAssumption, <2>5 DEF Others,
       Delete, Begin, Goto, Step
<1>4. ASSUME NEW o \in Operations, NEW x \in Actors, Access(o, x)
      PROVE  ApprovalIsOnTrack'
  <2>1. Others(o)
    BY <1>4, OthersStay
  <2>2. /\ pc[o] = "idle" /\ kind'[o] = "access" /\ me'[o] = x
        /\ ~crossed' => ~crossed
    BY <1>0, <1>4 DEF Access, Begin
  <2>3. \A y \in Actors : Peer(y) \in Actors /\ Peer(y) # y
    BY PeerIsOther
  <2>4. rows' = rows
    BY <1>0, <1>4 DEF Access
  <2> QED
    BY <1>0, <1>4, <2>1, <2>2, <2>3, <2>4, NoRowAssumption DEF Others, Access,
       Begin, Goto, Step
<1>5. ASSUME NEW o \in Operations, CreateAnswered(o) PROVE ApprovalIsOnTrack'
  <2>1. Others(o)
    BY <1>5, OthersStay
  <2>2. UNCHANGED <<kind, me, secret, crossed>>
    BY <1>5 DEF CreateAnswered
  <2>3. me[o] \in Actors /\ Peer(me[o]) \in Actors /\ Peer(me[o]) # me[o]
    BY <1>0, <1>5, PeerIsOther DEF CreateAnswered, At, Load, Goto, Return
  <2>4. rows' = rows
    BY <1>0, <1>5 DEF CreateAnswered
  <2>5. ~crossed => \A p \in Operations \ {o} : Active(p) =>
          /\ kind[o] \in {"create", "delete"} => kind[p] = "access"
          /\ kind[o] \in {"create", "delete", "approve"} => kind[p] \in
             {"access", "approve"}
    BY <1>0, <1>5, NothingBeside DEF Active, CreateAnswered, At, Load, Goto,
       Return
  <2> QED
    BY <1>0, <1>5, <2>1, <2>2, <2>3, <2>4, NoRowAssumption, <2>5 DEF Others,
       CreateAnswered, At, Load, Goto, Return
<1>6. ASSUME NEW o \in Operations, Promote(o) PROVE ApprovalIsOnTrack'
  <2>1. Others(o)
    BY <1>6, OthersStay
  <2>2. UNCHANGED <<kind, me, secret, crossed>>
    BY <1>6 DEF Promote
  <2>3. me[o] \in Actors /\ Peer(me[o]) \in Actors /\ Peer(me[o]) # me[o]
    BY <1>0, <1>6, PeerIsOther DEF Promote, At, Modify, Put, Return, Goto
  <2>4. \A z \in Actors :
          /\ rows'[z] = NoRow <=> rows[z] = NoRow
          /\ rows[z] # NoRow =>
                /\ rows'[z].secret = rows[z].secret
                /\ rows'[z].verified = rows[z].verified
                /\ rows'[z].approved <=> rows[z].approved
                /\ rows'[z].peer_approved <=> (rows[z].peer_approved \/ z =
                   me[o])
    BY <1>6, <2>3, ColumnIsSet DEF Promote
  <2>5. ~crossed => \A p \in Operations \ {o} : Active(p) =>
          /\ kind[o] \in {"create", "delete"} => kind[p] = "access"
          /\ kind[o] \in {"create", "delete", "approve"} => kind[p] \in
             {"access", "approve"}
    BY <1>0, <1>6, NothingBeside DEF Active, Promote, At, Modify, Put, Return,
       Goto
  <2> QED
    BY <1>0, <1>6, <2>1, <2>2, <2>3, <2>4, NoRowAssumption, <2>5 DEF Others,
       Promote, At, Modify, Put, Return, Goto
<1>7. ASSUME NEW o \in Operations, CreateFailed(o) PROVE ApprovalIsOnTrack'
  <2>1. Others(o)
    BY <1>7, OthersStay
  <2>2. UNCHANGED <<kind, me, secret, crossed>>
    BY <1>7 DEF CreateFailed
  <2>3. me[o] \in Actors /\ Peer(me[o]) \in Actors /\ Peer(me[o]) # me[o]
    BY <1>0, <1>7, PeerIsOther DEF CreateFailed, At, Put, Return, Goto, Fault
  <2>4. rows' = [rows EXCEPT ![me[o]] = NoRow]
    BY <1>7 DEF CreateFailed, Put
  <2>5. ~crossed => \A p \in Operations \ {o} : Active(p) =>
          /\ kind[o] \in {"create", "delete"} => kind[p] = "access"
          /\ kind[o] \in {"create", "delete", "approve"} => kind[p] \in
             {"access", "approve"}
    BY <1>0, <1>7, NothingBeside DEF Active, CreateFailed, At, Put, Return,
       Goto, Fault
  <2> QED
    BY <1>0, <1>7, <2>1, <2>2, <2>3, <2>4, NoRowAssumption, <2>5 DEF Others,
       CreateFailed, At, Put, Return, Goto, Fault
<1>8. ASSUME NEW o \in Operations, Accept(o) PROVE ApprovalIsOnTrack'
  <2>1. Others(o)
    BY <1>8, OthersStay
  <2>2. UNCHANGED <<kind, me, secret, crossed>>
    BY <1>8 DEF Accept
  <2>3. me[o] \in Actors /\ Peer(me[o]) \in Actors /\ Peer(me[o]) # me[o]
    BY <1>0, <1>8, PeerIsOther DEF Accept, Handles, Put, Answer, Step, Fault
  <2>4. \/ UNCHANGED rows /\ faults' # 0
        \/ \E auto \in BOOLEAN :
              /\ rows' = [rows EXCEPT ![Peer(me[o])] =
                   [secret |-> secret[o], approved |-> auto, peer_approved |->
                      TRUE,
                    verified |-> verified[o]]]
              /\ answer'[o] = IF pc[o] # "waiting" THEN "none"
                               ELSE IF auto THEN "created" ELSE "accepted"
    BY <1>0, <1>8, MaxFaultsAssumption DEF Accept, Put, Answer, Fault
  <2>5. ~crossed => \A p \in Operations \ {o} : Active(p) =>
          /\ kind[o] \in {"create", "delete"} => kind[p] = "access"
          /\ kind[o] \in {"create", "delete", "approve"} => kind[p] \in
             {"access", "approve"}
    BY <1>0, <1>8, NothingBeside DEF Active, Accept, Handles, Put, Answer,
       Step, Fault
  <2> QED
    BY <1>0, <1>8, <2>1, <2>2, <2>3, <2>4, NoRowAssumption, <2>5 DEF Others,
       Accept, Handles, Put, Answer, Step, Fault
<1>9. ASSUME NEW o \in Operations, Authenticate(o) PROVE ApprovalIsOnTrack'
  <2>1. Others(o)
    BY <1>9, OthersStay
  <2>2. UNCHANGED <<kind, me, secret, crossed>>
    BY <1>9 DEF Authenticate
  <2>3. me[o] \in Actors /\ Peer(me[o]) \in Actors /\ Peer(me[o]) # me[o]
    BY <1>0, <1>9, PeerIsOther DEF Authenticate, Load, Step
  <2>4. rows' = rows
    BY <1>0, <1>9 DEF Authenticate
  <2>5. ~crossed => \A p \in Operations \ {o} : Active(p) =>
          /\ kind[o] \in {"create", "delete"} => kind[p] = "access"
          /\ kind[o] \in {"create", "delete", "approve"} => kind[p] \in
             {"access", "approve"}
    BY <1>0, <1>9, NothingBeside DEF Active, Authenticate, Load, Step
  <2> QED
    BY <1>0, <1>9, <2>1, <2>2, <2>3, <2>4, NoRowAssumption, <2>5 DEF Others,
       Authenticate, Load, Step
<1>10. ASSUME NEW o \in Operations, RecordTrustUsage(o)
      PROVE  ApprovalIsOnTrack'
  <2>1. Others(o)
    BY <1>10, OthersStay
  <2>2. UNCHANGED <<kind, me, secret, crossed>>
    BY <1>10 DEF RecordTrustUsage
  <2>3. me[o] \in Actors /\ Peer(me[o]) \in Actors /\ Peer(me[o]) # me[o]
    BY <1>0, <1>10, PeerIsOther DEF RecordTrustUsage, Put, Step
  <2>4. rows' = rows
    BY <1>0, <1>10 DEF RecordTrustUsage, Put
  <2>5. ~crossed => \A p \in Operations \ {o} : Active(p) =>
          /\ kind[o] \in {"create", "delete"} => kind[p] = "access"
          /\ kind[o] \in {"create", "delete", "approve"} => kind[p] \in
             {"access", "approve"}
    BY <1>0, <1>10, NothingBeside DEF Active, RecordTrustUsage, Put, Step
  <2> QED
    BY <1>0, <1>10, <2>1, <2>2, <2>3, <2>4, NoRowAssumption, <2>5 DEF Others,
       RecordTrustUsage, Put, Step
<1>11. ASSUME NEW o \in Operations, NotAuthenticated(o)
      PROVE  ApprovalIsOnTrack'
  <2>1. Others(o)
    BY <1>11, OthersStay
  <2>2. UNCHANGED <<kind, me, secret, crossed>>
    BY <1>11 DEF NotAuthenticated
  <2>3. me[o] \in Actors /\ Peer(me[o]) \in Actors /\ Peer(me[o]) # me[o]
    BY <1>0, <1>11, PeerIsOther DEF NotAuthenticated, Step, Answer
  <2>4. rows' = rows
    BY <1>0, <1>11 DEF NotAuthenticated
  <2>5. ~crossed => \A p \in Operations \ {o} : Active(p) =>
          /\ kind[o] \in {"create", "delete"} => kind[p] = "access"
          /\ kind[o] \in {"create", "delete", "approve"} => kind[p] \in
             {"access", "approve"}
    BY <1>0, <1>11, NothingBeside DEF Active, NotAuthenticated, Step, Answer
  <2> QED
    BY <1>0, <1>11, <2>1, <2>2, <2>3, <2>4, NoRowAssumption, <2>5 DEF Others,
       NotAuthenticated, Step, Answer
<1>12. ASSUME NEW o \in Operations, SaveApproval(o) PROVE ApprovalIsOnTrack'
  <2>1. Others(o)
    BY <1>12, OthersStay
  <2>2. UNCHANGED <<kind, me, secret, crossed>>
    BY <1>12 DEF SaveApproval
  <2>3. me[o] \in Actors /\ Peer(me[o]) \in Actors /\ Peer(me[o]) # me[o]
    BY <1>0, <1>12, PeerIsOther DEF SaveApproval, At, Modify, Put, Step,
       Return, Goto
  <2>4. \A z \in Actors :
          /\ rows'[z] = NoRow <=> rows[z] = NoRow
          /\ rows[z] # NoRow =>
                /\ rows'[z].secret = rows[z].secret
                /\ rows'[z].verified = rows[z].verified
                /\ rows'[z].approved <=> (rows[z].approved \/ z = me[o])
                /\ rows'[z].peer_approved <=> rows[z].peer_approved
    BY <1>12, <2>3, ColumnIsSet DEF SaveApproval
  <2>5. ~crossed => \A p \in Operations \ {o} : Active(p) =>
          /\ kind[o] \in {"create", "delete"} => kind[p] = "access"
          /\ kind[o] \in {"create", "delete", "approve"} => kind[p] \in
             {"access", "approve"}
    BY <1>0, <1>12, NothingBeside DEF Active, SaveApproval, At, Modify, Put,
       Step, Return, Goto
  <2> QED
    BY <1>0, <1>12, <2>1, <2>2, <2>3, <2>4, NoRowAssumption, <2>5 DEF Others,
       SaveApproval, At, Modify, Put, Step, Return, Goto
<1>13. ASSUME NEW o \in Operations, Notified(o) PROVE ApprovalIsOnTrack'
  <2>1. Others(o)
    BY <1>13, OthersStay
  <2>2. UNCHANGED <<kind, me, secret, crossed>>
    BY <1>13 DEF Notified
  <2>3. me[o] \in Actors /\ Peer(me[o]) \in Actors /\ Peer(me[o]) # me[o]
    BY <1>0, <1>13, PeerIsOther DEF Notified, Handles, Load, Step
  <2>4. rows' = rows
    BY <1>0, <1>13 DEF Notified
  <2>5. ~crossed => \A p \in Operations \ {o} : Active(p) =>
          /\ kind[o] \in {"create", "delete"} => kind[p] = "access"
          /\ kind[o] \in {"create", "delete", "approve"} => kind[p] \in
             {"access", "approve"}
    BY <1>0, <1>13, NothingBeside DEF Active, Notified, Handles, Load, Step
  <2> QED
    BY <1>0, <1>13, <2>1, <2>2, <2>3, <2>4, NoRowAssumption, <2>5 DEF Others,
       Notified, Handles, Load, Step
<1>14. ASSUME NEW o \in Operations, NoteApproval(o) PROVE ApprovalIsOnTrack'
  <2>1. Others(o)
    BY <1>14, OthersStay
  <2>2. UNCHANGED <<kind, me, secret, crossed>>
    BY <1>14 DEF NoteApproval
  <2>3. me[o] \in Actors /\ Peer(me[o]) \in Actors /\ Peer(me[o]) # me[o]
    BY <1>0, <1>14, PeerIsOther DEF NoteApproval, Handles, Modify, Put, Step
  <2>4. \A z \in Actors :
          /\ rows'[z] = NoRow <=> rows[z] = NoRow
          /\ rows[z] # NoRow =>
                /\ rows'[z].secret = rows[z].secret
                /\ rows'[z].verified = rows[z].verified
                /\ rows'[z].approved <=> rows[z].approved
                /\ rows'[z].peer_approved <=> (rows[z].peer_approved \/ z =
                   Peer(me[o]))
    BY <1>14, <2>3, ColumnIsSet DEF NoteApproval
  <2>5. ~crossed => \A p \in Operations \ {o} : Active(p) =>
          /\ kind[o] \in {"create", "delete"} => kind[p] = "access"
          /\ kind[o] \in {"create", "delete", "approve"} => kind[p] \in
             {"access", "approve"}
    BY <1>0, <1>14, NothingBeside DEF Active, NoteApproval, Handles, Modify,
       Put, Step
  <2> QED
    BY <1>0, <1>14, <2>1, <2>2, <2>3, <2>4, NoRowAssumption, <2>5 DEF Others,
       NoteApproval, Handles, Modify, Put, Step
<1>15. ASSUME NEW o \in Operations, DeleteRequested(o) PROVE ApprovalIsOnTrack'
  <2>1. Others(o)
    BY <1>15, OthersStay
  <2>2. UNCHANGED <<kind, me, secret, crossed>>
    BY <1>15 DEF DeleteRequested
  <2>3. me[o] \in Actors /\ Peer(me[o]) \in Actors /\ Peer(me[o]) # me[o]
    BY <1>0, <1>15, PeerIsOther DEF DeleteRequested, Handles, Step, Answer
  <2>4. rows' = rows
    BY <1>0, <1>15 DEF DeleteRequested
  <2>5. ~crossed => \A p \in Operations \ {o} : Active(p) =>
          /\ kind[o] \in {"create", "delete"} => kind[p] = "access"
          /\ kind[o] \in {"create", "delete", "approve"} => kind[p] \in
             {"access", "approve"}
    BY <1>0, <1>15, NothingBeside DEF Active, DeleteRequested, Handles, Step,
       Answer
  <2> QED
    BY <1>0, <1>15, <2>1, <2>2, <2>3, <2>4, NoRowAssumption, <2>5 DEF Others,
       DeleteRequested, Handles, Step, Answer
<1>16. ASSUME NEW o \in Operations, PeerRemoves(o) PROVE ApprovalIsOnTrack'
  <2>1. Others(o)
    BY <1>16, OthersStay
  <2>2. UNCHANGED <<kind, me, secret, crossed>>
    BY <1>16 DEF PeerRemoves
  <2>3. me[o] \in Actors /\ Peer(me[o]) \in Actors /\ Peer(me[o]) # me[o]
    BY <1>0, <1>16, PeerIsOther DEF PeerRemoves, Handles, Put, Answer, Step
  <2>4. rows' = [rows EXCEPT ![Peer(me[o])] = NoRow]
    BY <1>16 DEF PeerRemoves, Put
  <2>5. ~crossed => \A p \in Operations \ {o} : Active(p) =>
          /\ kind[o] \in {"create", "delete"} => kind[p] = "access"
          /\ kind[o] \in {"create", "delete", "approve"} => kind[p] \in
             {"access", "approve"}
    BY <1>0, <1>16, NothingBeside DEF Active, PeerRemoves, Handles, Put,
       Answer, Step
  <2> QED
    BY <1>0, <1>16, <2>1, <2>2, <2>3, <2>4, NoRowAssumption, <2>5 DEF Others,
       PeerRemoves, Handles, Put, Answer, Step
<1>17. ASSUME NEW o \in Operations, DeleteAnswered(o) PROVE ApprovalIsOnTrack'
  <2>1. Others(o)
    BY <1>17, OthersStay
  <2>2. UNCHANGED <<kind, me, secret, crossed>>
    BY <1>17 DEF DeleteAnswered
  <2>3. me[o] \in Actors /\ Peer(me[o]) \in Actors /\ Peer(me[o]) # me[o]
    BY <1>0, <1>17, PeerIsOther DEF DeleteAnswered, At, Goto
  <2>4. rows' = rows
    BY <1>0, <1>17 DEF DeleteAnswered
  <2>5. ~crossed => \A p \in Operations \ {o} : Active(p) =>
          /\ kind[o] \in {"create", "delete"} => kind[p] = "access"
          /\ kind[o] \in {"create", "delete", "approve"} => kind[p] \in
             {"access", "approve"}
    BY <1>0, <1>17, NothingBeside DEF Active, DeleteAnswered, At, Goto
  <2> QED
    BY <1>0, <1>17, <2>1, <2>2, <2>3, <2>4, NoRowAssumption, <2>5 DEF Others,
       DeleteAnswered, At, Goto
<1>18. ASSUME NEW o \in Operations, DeleteFailed(o) PROVE ApprovalIsOnTrack'
  <2>1. Others(o)
    BY <1>18, OthersStay
  <2>2. UNCHANGED <<kind, me, secret, crossed>>
    BY <1>18 DEF DeleteFailed
  <2>3. me[o] \in Actors /\ Peer(me[o]) \in Actors /\ Peer(me[o]) # me[o]
    BY <1>0, <1>18, PeerIsOther DEF DeleteFailed, At, Return, Goto, Fault
  <2>4. rows' = rows
    BY <1>0, <1>18 DEF DeleteFailed
  <2>5. ~crossed => \A p \in Operations \ {o} : Active(p) =>
          /\ kind[o] \in {"create", "delete"} => kind[p] = "access"
          /\ kind[o] \in {"create", "delete", "approve"} => kind[p] \in
             {"access", "approve"}
    BY <1>0, <1>18, NothingBeside DEF Active, DeleteFailed, At, Return, Goto,
       Fault
  <2> QED
    BY <1>0, <1>18, <2>1, <2>2, <2>3, <2>4, NoRowAssumption, <2>5 DEF Others,
       DeleteFailed, At, Return, Goto, Fault
<1>19. ASSUME NEW o \in Operations, Remove(o) PROVE ApprovalIsOnTrack'
  <2>1. Others(o)
    BY <1>19, OthersStay
  <2>2. UNCHANGED <<kind, me, secret, crossed>>
    BY <1>19 DEF Remove
  <2>3. me[o] \in Actors /\ Peer(me[o]) \in Actors /\ Peer(me[o]) # me[o]
    BY <1>0, <1>19, PeerIsOther DEF Remove, At, Put, Return, Goto
  <2>4. rows' = [rows EXCEPT ![me[o]] = NoRow]
    BY <1>19 DEF Remove, Put
  <2>5. ~crossed => \A p \in Operations \ {o} : Active(p) =>
          /\ kind[o] \in {"create", "delete"} => kind[p] = "access"
          /\ kind[o] \in {"create", "delete", "approve"} => kind[p] \in
             {"access", "approve"}
    BY <1>0, <1>19, NothingBeside DEF Active, Remove, At, Put, Return, Goto
  <2> QED
    BY <1>0, <1>19, <2>1, <2>2, <2>3, <2>4, NoRowAssumption, <2>5 DEF Others,
       Remove, At, Put, Return, Goto
<1>20. ASSUME NEW o \in Operations, Lose(o) PROVE ApprovalIsOnTrack'
  <2>1. Others(o)
    BY <1>20, OthersStay
  <2>2. UNCHANGED <<kind, me, secret, crossed>>
    BY <1>20 DEF Lose
  <2>3. me[o] \in Actors /\ Peer(me[o]) \in Actors /\ Peer(me[o]) # me[o]
    BY <1>0, <1>20, PeerIsOther DEF Lose, Step, Fault
  <2>4. rows' = rows
    BY <1>0, <1>20 DEF Lose
  <2>5. ~crossed => \A p \in Operations \ {o} : Active(p) =>
          /\ kind[o] \in {"create", "delete"} => kind[p] = "access"
          /\ kind[o] \in {"create", "delete", "approve"} => kind[p] \in
             {"access", "approve"}
    BY <1>0, <1>20, NothingBeside DEF Active, Lose, Step, Fault
  <2> QED
    BY <1>0, <1>20, <2>1, <2>2, <2>3, <2>4, NoRowAssumption, <2>5 DEF Others,
       Lose, Step, Fault
<1>21. ASSUME NEW o \in Operations, Die(o) PROVE ApprovalIsOnTrack'
  <2>1. Others(o)
    BY <1>21, OthersStay
  <2>2. UNCHANGED <<kind, me, secret, crossed>>
    BY <1>21 DEF Die
  <2>3. me[o] \in Actors /\ Peer(me[o]) \in Actors /\ Peer(me[o]) # me[o]
    BY <1>0, <1>21, PeerIsOther DEF Die, Return, Goto, Fault
  <2>4. rows' = rows
    BY <1>0, <1>21 DEF Die
  <2>5. ~crossed => \A p \in Operations \ {o} : Active(p) =>
          /\ kind[o] \in {"create", "delete"} => kind[p] = "access"
          /\ kind[o] \in {"create", "delete", "approve"} => kind[p] \in
             {"access", "approve"}
    BY <1>0, <1>21, NothingBeside DEF Active, Die, Return, Goto, Fault
  <2> QED
    BY <1>0, <1>21, <2>1, <2>2, <2>3, <2>4, NoRowAssumption, <2>5 DEF Others,
       Die, Return, Goto, Fault
<1>22. CASE UNCHANGED vars
  BY <1>0, <1>22 DEF vars
<1> HIDE DEF TypeOK, StepsFit, ApprovalIsOnTrack, Active
<1> QED
  BY <1>1, <1>2, <1>3, <1>4, <1>5, <1>6, <1>7, <1>8, <1>9, <1>10, <1>11,
     <1>12, <1>13, <1>14, <1>15, <1>16, <1>17, <1>18, <1>19, <1>20,
     <1>21, <1>22
  DEF Next

\* A creation that nothing goes wrong with writes what it should.
LEMMA OnTrackStep ==
    ASSUME ~WholeRow, IInv, [Next]_vars
    PROVE  CreationIsOnTrack'
<1>0. TypeOK /\ StepsFit /\ SecretsAreKnown /\ CreationIsOnTrack
  BY FitStep DEF IInv
<1> USE DEF TypeOK, StepsFit, SecretsAreKnown, CreationIsOnTrack, Active,
        Server, Knows
<1>1. ASSUME NEW o \in Operations, NEW x \in Actors, Create(o, x)
      PROVE  CreationIsOnTrack'
  <2>1. Others(o)
    BY <1>1, OthersStay
  <2>2. /\ pc[o] = "idle" /\ kind'[o] = "create" /\ me'[o] = x
        /\ ~crossed' => ~crossed
    BY <1>0, <1>1 DEF Create, Begin
  <2>3. \A y \in Actors : Peer(y) \in Actors /\ Peer(y) # y
    BY PeerIsOther
  <2>4. rows' = [rows EXCEPT ![x] = [secret |-> o, approved |-> TRUE,
                 peer_approved |-> FALSE, verified |-> TRUE]]
    BY <1>1 DEF Create, Put
  <2>5. ~crossed' => \A p \in Operations \ {o} :
          Active(p) => kind[p] = "access"
    <3> SUFFICES ASSUME ~crossed', NEW p \in Operations \ {o}, Active(p)
                 PROVE  kind[p] = "access"
      OBVIOUS
    <3>1. ~Clash("create", kind[p])
      BY <1>1 DEF Create, Begin
    <3>2. kind[p] \in Kinds
      BY <1>0 DEF Active
    <3> QED
      BY <3>1, <3>2 DEF Clash, Kinds
  <2>6. SUFFICES ASSUME ~crossed', faults' = 0, NEW q \in Operations,
                        kind'[q] = "create", Active(q)'
                 PROVE  /\ q = o /\ pc'[q] \in {"waiting", "promote"}
                        /\ rows'[me'[q]] = [secret |-> q, approved |-> TRUE,
                              peer_approved |-> FALSE, verified |-> TRUE]
                        /\ handler'[q] = "sent" /\ answer'[q] = "none"
    OBVIOUS
  <2>7. q = o
    BY <2>1, <2>5, <2>6 DEF Others
  <2>8. rows'[x] = [secret |-> o, approved |-> TRUE,
                    peer_approved |-> FALSE, verified |-> TRUE]
    BY <1>0, <2>4
  <2>9. answer' = answer /\ answer[o] = "none" /\ pc'[o] = "waiting"
           /\ handler'[o] = "sent"
    BY <1>0, <1>1, <2>2 DEF Create, Goto, Step
  <2> QED
    BY <2>2, <2>7, <2>8, <2>9
<1>2. ASSUME NEW o \in Operations, NEW x \in Actors, Approve(o, x)
      PROVE  CreationIsOnTrack'
  <2>1. Others(o)
    BY <1>2, OthersStay
  <2>2. /\ pc[o] = "idle" /\ kind'[o] = "approve" /\ me'[o] = x
        /\ ~crossed' => ~crossed
    BY <1>0, <1>2 DEF Approve, Begin
  <2>3. \A y \in Actors : Peer(y) \in Actors /\ Peer(y) # y
    BY PeerIsOther
  <2>4. rows' = rows
    BY <1>0, <1>2 DEF Approve
  <2>5. ~crossed' => \A p \in Operations \ {o} :
          Active(p) => kind[p] \in {"access", "approve"}
    <3> SUFFICES ASSUME ~crossed', NEW p \in Operations \ {o}, Active(p)
                 PROVE  kind[p] \in {"access", "approve"}
      OBVIOUS
    <3>1. ~Clash("approve", kind[p])
      BY <1>2 DEF Approve, Begin
    <3>2. kind[p] \in Kinds
      BY <1>0 DEF Active
    <3> QED
      BY <3>1, <3>2 DEF Clash, Kinds
  <2> QED
    BY <1>0, <1>2, <2>1, <2>2, <2>3, <2>4, NoRowAssumption,
       MaxFaultsAssumption, <2>5 DEF Others, Approve, Begin, Goto, Load
<1>3. ASSUME NEW o \in Operations, NEW x \in Actors, Delete(o, x)
      PROVE  CreationIsOnTrack'
  <2>1. Others(o)
    BY <1>3, OthersStay
  <2>2. /\ pc[o] = "idle" /\ kind'[o] = "delete" /\ me'[o] = x
        /\ ~crossed' => ~crossed
    BY <1>0, <1>3 DEF Delete, Begin
  <2>3. \A y \in Actors : Peer(y) \in Actors /\ Peer(y) # y
    BY PeerIsOther
  <2>4. rows' = rows
    BY <1>0, <1>3 DEF Delete
  <2>5. ~crossed' => \A p \in Operations \ {o} :
          Active(p) => kind[p] = "access"
    <3> SUFFICES ASSUME ~crossed', NEW p \in Operations \ {o}, Active(p)
                 PROVE  kind[p] = "access"
      OBVIOUS
    <3>1. ~Clash("delete", kind[p])
      BY <1>3 DEF Delete, Begin
    <3>2. kind[p] \in Kinds
      BY <1>0 DEF Active
    <3> QED
      BY <3>1, <3>2 DEF Clash, Kinds
  <2> QED
    BY <1>0, <1>3, <2>1, <2>2, <2>3, <2>4, NoRowAssumption,
       MaxFaultsAssumption, <2>5 DEF Others, Delete, Begin, Goto, Step
<1>4. ASSUME NEW o \in Operations, NEW x \in Actors, Access(o, x)
      PROVE  CreationIsOnTrack'
  <2>1. Others(o)
    BY <1>4, OthersStay
  <2>2. /\ pc[o] = "idle" /\ kind'[o] = "access" /\ me'[o] = x
        /\ ~crossed' => ~crossed
    BY <1>0, <1>4 DEF Access, Begin
  <2>3. \A y \in Actors : Peer(y) \in Actors /\ Peer(y) # y
    BY PeerIsOther
  <2>4. rows' = rows
    BY <1>0, <1>4 DEF Access
  <2> QED
    BY <1>0, <1>4, <2>1, <2>2, <2>3, <2>4, NoRowAssumption, MaxFaultsAssumption
       DEF Others, Access, Begin, Goto, Step
<1>5. ASSUME NEW o \in Operations, CreateAnswered(o) PROVE CreationIsOnTrack'
  <2>1. Others(o)
    BY <1>5, OthersStay
  <2>2. UNCHANGED <<kind, me, secret, crossed>>
    BY <1>5 DEF CreateAnswered
  <2>3. me[o] \in Actors /\ Peer(me[o]) \in Actors /\ Peer(me[o]) # me[o]
    BY <1>0, <1>5, PeerIsOther DEF CreateAnswered, At, Load, Goto, Return
  <2>4. rows' = rows
    BY <1>0, <1>5 DEF CreateAnswered
  <2>5. ~crossed => \A p \in Operations \ {o} : Active(p) =>
          /\ kind[o] \in {"create", "delete"} => kind[p] = "access"
          /\ kind[o] \in {"create", "delete", "approve"} => kind[p] \in
             {"access", "approve"}
    BY <1>0, <1>5, NothingBeside DEF Active, CreateAnswered, At, Load, Goto,
       Return
  <2> QED
    BY <1>0, <1>5, <2>1, <2>2, <2>3, <2>4, NoRowAssumption,
       MaxFaultsAssumption, <2>5 DEF Others, CreateAnswered, At, Load, Goto,
       Return
<1>6. ASSUME NEW o \in Operations, Promote(o) PROVE CreationIsOnTrack'
  <2>1. Others(o)
    BY <1>6, OthersStay
  <2>2. UNCHANGED <<kind, me, secret, crossed>>
    BY <1>6 DEF Promote
  <2>3. me[o] \in Actors /\ Peer(me[o]) \in Actors /\ Peer(me[o]) # me[o]
    BY <1>0, <1>6, PeerIsOther DEF Promote, At, Modify, Put, Return, Goto
  <2>4. \A z \in Actors :
          /\ rows'[z] = NoRow <=> rows[z] = NoRow
          /\ rows[z] # NoRow =>
                /\ rows'[z].secret = rows[z].secret
                /\ rows'[z].verified = rows[z].verified
                /\ rows'[z].approved <=> rows[z].approved
                /\ rows'[z].peer_approved <=> (rows[z].peer_approved \/ z =
                   me[o])
    BY <1>6, <2>3, ColumnIsSet DEF Promote
  <2>5. ~crossed => \A p \in Operations \ {o} : Active(p) =>
          /\ kind[o] \in {"create", "delete"} => kind[p] = "access"
          /\ kind[o] \in {"create", "delete", "approve"} => kind[p] \in
             {"access", "approve"}
    BY <1>0, <1>6, NothingBeside DEF Active, Promote, At, Modify, Put, Return,
       Goto
  <2> QED
    BY <1>0, <1>6, <2>1, <2>2, <2>3, <2>4, NoRowAssumption,
       MaxFaultsAssumption, <2>5 DEF Others, Promote, At, Modify, Put, Return,
       Goto
<1>7. ASSUME NEW o \in Operations, CreateFailed(o) PROVE CreationIsOnTrack'
  <2>1. Others(o)
    BY <1>7, OthersStay
  <2>2. UNCHANGED <<kind, me, secret, crossed>>
    BY <1>7 DEF CreateFailed
  <2>3. me[o] \in Actors /\ Peer(me[o]) \in Actors /\ Peer(me[o]) # me[o]
    BY <1>0, <1>7, PeerIsOther DEF CreateFailed, At, Put, Return, Goto, Fault
  <2>4. rows' = [rows EXCEPT ![me[o]] = NoRow]
    BY <1>7 DEF CreateFailed, Put
  <2>5. ~crossed => \A p \in Operations \ {o} : Active(p) =>
          /\ kind[o] \in {"create", "delete"} => kind[p] = "access"
          /\ kind[o] \in {"create", "delete", "approve"} => kind[p] \in
             {"access", "approve"}
    BY <1>0, <1>7, NothingBeside DEF Active, CreateFailed, At, Put, Return,
       Goto, Fault
  <2> QED
    BY <1>0, <1>7, <2>1, <2>2, <2>3, <2>4, NoRowAssumption,
       MaxFaultsAssumption, <2>5 DEF Others, CreateFailed, At, Put, Return,
       Goto, Fault
<1>8. ASSUME NEW o \in Operations, Accept(o) PROVE CreationIsOnTrack'
  <2>1. Others(o)
    BY <1>8, OthersStay
  <2>2. UNCHANGED <<kind, me, secret, crossed>>
    BY <1>8 DEF Accept
  <2>3. me[o] \in Actors /\ Peer(me[o]) \in Actors /\ Peer(me[o]) # me[o]
    BY <1>0, <1>8, PeerIsOther DEF Accept, Handles, Put, Answer, Step, Fault
  <2>4. \/ UNCHANGED rows /\ faults' # 0
        \/ \E auto \in BOOLEAN :
              /\ rows' = [rows EXCEPT ![Peer(me[o])] =
                   [secret |-> secret[o], approved |-> auto, peer_approved |->
                      TRUE,
                    verified |-> verified[o]]]
              /\ answer'[o] = IF pc[o] # "waiting" THEN "none"
                               ELSE IF auto THEN "created" ELSE "accepted"
    BY <1>0, <1>8, MaxFaultsAssumption DEF Accept, Put, Answer, Fault
  <2>5. ~crossed => \A p \in Operations \ {o} : Active(p) =>
          /\ kind[o] \in {"create", "delete"} => kind[p] = "access"
          /\ kind[o] \in {"create", "delete", "approve"} => kind[p] \in
             {"access", "approve"}
    BY <1>0, <1>8, NothingBeside DEF Active, Accept, Handles, Put, Answer,
       Step, Fault
  <2>6. /\ kind[o] = "create" /\ handler[o] = "act" /\ secret[o] = o
        /\ pc' = pc /\ verified' = verified /\ handler'[o] = "none"
    BY <1>0, <1>8 DEF Accept, Handles, Step
  <2>7. SUFFICES ASSUME ~crossed, faults' = 0, NEW q \in Operations,
                        kind[q] = "create", Active(q)'
                 PROVE  /\ q = o /\ pc[q] \in {"waiting", "promote"}
                        /\ rows'[me[q]] = [secret |-> q, approved |-> TRUE,
                              peer_approved |-> FALSE, verified |-> TRUE]
                        /\ answer'[q] \in {"created", "accepted"}
                        /\ rows'[Peer(me[q])] =
                             [secret |-> q, approved |-> answer'[q] =
                                "created",
                              peer_approved |-> TRUE, verified |-> TRUE]
    BY <2>2, <2>6
  <2>8. q = o
    BY <2>1, <2>5, <2>6, <2>7 DEF Others
  <2>9. faults = 0 /\ ~Fault
    <3>1. UNCHANGED faults \/ Fault
      BY <1>8 DEF Accept
    <3>2. faults \in Nat
      BY <1>0, MaxFaultsAssumption
    <3> QED
      BY <2>7, <3>1, <3>2 DEF Fault
  <2>10. /\ pc[o] = "waiting" /\ verified[o]
         /\ rows[me[o]] = [secret |-> o, approved |-> TRUE,
                           peer_approved |-> FALSE, verified |-> TRUE]
    BY <1>0, <2>6, <2>7, <2>9
  <2>11. PICK auto \in BOOLEAN :
            /\ rows' = [rows EXCEPT ![Peer(me[o])] =
                 [secret |-> secret[o], approved |-> auto, peer_approved |->
                    TRUE,
                  verified |-> verified[o]]]
            /\ answer' = [answer EXCEPT ![o] = IF auto THEN "created" ELSE
               "accepted"]
    BY <1>8, <2>9, <2>10 DEF Accept, Put, Answer
  <2>12. rows'[me[o]] = rows[me[o]]
    BY <1>0, <2>3, <2>11
  <2>13. answer'[o] = IF auto THEN "created" ELSE "accepted"
    BY <1>0, <2>11
  <2>14. rows'[Peer(me[o])] = [secret |-> o, approved |-> auto,
                               peer_approved |-> TRUE, verified |->
                                  verified[o]]
    BY <1>0, <2>3, <2>6, <2>11
  <2>15. /\ auto = (answer'[o] = "created")
         /\ verified[o] = TRUE
    BY <1>0, <2>10, <2>13
  <2> QED
    BY <2>8, <2>10, <2>12, <2>13, <2>14, <2>15
<1>9. ASSUME NEW o \in Operations, Authenticate(o) PROVE CreationIsOnTrack'
  <2>1. Others(o)
    BY <1>9, OthersStay
  <2>2. UNCHANGED <<kind, me, secret, crossed>>
    BY <1>9 DEF Authenticate
  <2>3. me[o] \in Actors /\ Peer(me[o]) \in Actors /\ Peer(me[o]) # me[o]
    BY <1>0, <1>9, PeerIsOther DEF Authenticate, Load, Step
  <2>4. rows' = rows
    BY <1>0, <1>9 DEF Authenticate
  <2>5. ~crossed => \A p \in Operations \ {o} : Active(p) =>
          /\ kind[o] \in {"create", "delete"} => kind[p] = "access"
          /\ kind[o] \in {"create", "delete", "approve"} => kind[p] \in
             {"access", "approve"}
    BY <1>0, <1>9, NothingBeside DEF Active, Authenticate, Load, Step
  <2> QED
    BY <1>0, <1>9, <2>1, <2>2, <2>3, <2>4, NoRowAssumption,
       MaxFaultsAssumption, <2>5 DEF Others, Authenticate, Load, Step
<1>10. ASSUME NEW o \in Operations, RecordTrustUsage(o)
      PROVE  CreationIsOnTrack'
  <2>1. Others(o)
    BY <1>10, OthersStay
  <2>2. UNCHANGED <<kind, me, secret, crossed>>
    BY <1>10 DEF RecordTrustUsage
  <2>3. me[o] \in Actors /\ Peer(me[o]) \in Actors /\ Peer(me[o]) # me[o]
    BY <1>0, <1>10, PeerIsOther DEF RecordTrustUsage, Put, Step
  <2>4. rows' = rows
    BY <1>0, <1>10 DEF RecordTrustUsage, Put
  <2>5. ~crossed => \A p \in Operations \ {o} : Active(p) =>
          /\ kind[o] \in {"create", "delete"} => kind[p] = "access"
          /\ kind[o] \in {"create", "delete", "approve"} => kind[p] \in
             {"access", "approve"}
    BY <1>0, <1>10, NothingBeside DEF Active, RecordTrustUsage, Put, Step
  <2>6. verified'[o] <=> kind[o] = "create"
    <3>1. verified' = [verified EXCEPT ![o] = (kind[o] = "create")]
      BY <1>10 DEF RecordTrustUsage
    <3>2. verified \in [Operations -> BOOLEAN]
      BY <1>0
    <3> QED
      BY <3>1, <3>2
  <2>7. /\ UNCHANGED <<pc, answer, faults>>
        /\ handler[o] = "usage" /\ handler'[o] \in {"none", "act"}
        /\ kind[o] # "access" => handler'[o] = "act"
    BY <1>0, <1>10 DEF RecordTrustUsage, Step
  <2> QED
    BY <1>0, <2>1, <2>2, <2>3, <2>4, <2>5, <2>6, <2>7 DEF Others
<1>11. ASSUME NEW o \in Operations, NotAuthenticated(o)
      PROVE  CreationIsOnTrack'
  <2>1. Others(o)
    BY <1>11, OthersStay
  <2>2. UNCHANGED <<kind, me, secret, crossed>>
    BY <1>11 DEF NotAuthenticated
  <2>3. me[o] \in Actors /\ Peer(me[o]) \in Actors /\ Peer(me[o]) # me[o]
    BY <1>0, <1>11, PeerIsOther DEF NotAuthenticated, Step, Answer
  <2>4. rows' = rows
    BY <1>0, <1>11 DEF NotAuthenticated
  <2>5. ~crossed => \A p \in Operations \ {o} : Active(p) =>
          /\ kind[o] \in {"create", "delete"} => kind[p] = "access"
          /\ kind[o] \in {"create", "delete", "approve"} => kind[p] \in
             {"access", "approve"}
    BY <1>0, <1>11, NothingBeside DEF Active, NotAuthenticated, Step, Answer
  <2>6. /\ UNCHANGED <<pc, faults>> /\ handler[o] = "sent" /\ ~Knows(o)
        /\ verified' = verified
    BY <1>11 DEF NotAuthenticated
  <2>7. SUFFICES ASSUME ~crossed, faults = 0
                 PROVE  CreationIsOnTrack'
    BY <2>2, <2>6
  <2>8. kind[o] # "create"
    <3> SUFFICES ASSUME kind[o] = "create"
                 PROVE  FALSE
      OBVIOUS
    <3>1. rows[me[o]] = [secret |-> o, approved |-> TRUE,
                         peer_approved |-> FALSE, verified |-> TRUE]
      BY <1>0, <2>6, <2>7
    <3>2. rows[me[o]] \in Rows
      BY <3>1 DEF Rows
    <3>3. rows[me[o]] # NoRow
      BY <3>2, NoRowAssumption DEF Rows
    <3>4. rows[me[o]].secret = o /\ secret[o] = o
      BY <1>0, <3>1
    <3> QED
      BY <2>6, <3>3, <3>4
  <2> QED
    BY <1>0, <2>1, <2>2, <2>3, <2>4, <2>5, <2>6, <2>7, <2>8 DEF Others
<1>12. ASSUME NEW o \in Operations, SaveApproval(o) PROVE CreationIsOnTrack'
  <2>1. Others(o)
    BY <1>12, OthersStay
  <2>2. UNCHANGED <<kind, me, secret, crossed>>
    BY <1>12 DEF SaveApproval
  <2>3. me[o] \in Actors /\ Peer(me[o]) \in Actors /\ Peer(me[o]) # me[o]
    BY <1>0, <1>12, PeerIsOther DEF SaveApproval, At, Modify, Put, Step,
       Return, Goto
  <2>4. \A z \in Actors :
          /\ rows'[z] = NoRow <=> rows[z] = NoRow
          /\ rows[z] # NoRow =>
                /\ rows'[z].secret = rows[z].secret
                /\ rows'[z].verified = rows[z].verified
                /\ rows'[z].approved <=> (rows[z].approved \/ z = me[o])
                /\ rows'[z].peer_approved <=> rows[z].peer_approved
    BY <1>12, <2>3, ColumnIsSet DEF SaveApproval
  <2>5. ~crossed => \A p \in Operations \ {o} : Active(p) =>
          /\ kind[o] \in {"create", "delete"} => kind[p] = "access"
          /\ kind[o] \in {"create", "delete", "approve"} => kind[p] \in
             {"access", "approve"}
    BY <1>0, <1>12, NothingBeside DEF Active, SaveApproval, At, Modify, Put,
       Step, Return, Goto
  <2> QED
    BY <1>0, <1>12, <2>1, <2>2, <2>3, <2>4, NoRowAssumption,
       MaxFaultsAssumption, <2>5 DEF Others, SaveApproval, At, Modify, Put,
       Step, Return, Goto
<1>13. ASSUME NEW o \in Operations, Notified(o) PROVE CreationIsOnTrack'
  <2>1. Others(o)
    BY <1>13, OthersStay
  <2>2. UNCHANGED <<kind, me, secret, crossed>>
    BY <1>13 DEF Notified
  <2>3. me[o] \in Actors /\ Peer(me[o]) \in Actors /\ Peer(me[o]) # me[o]
    BY <1>0, <1>13, PeerIsOther DEF Notified, Handles, Load, Step
  <2>4. rows' = rows
    BY <1>0, <1>13 DEF Notified
  <2>5. ~crossed => \A p \in Operations \ {o} : Active(p) =>
          /\ kind[o] \in {"create", "delete"} => kind[p] = "access"
          /\ kind[o] \in {"create", "delete", "approve"} => kind[p] \in
             {"access", "approve"}
    BY <1>0, <1>13, NothingBeside DEF Active, Notified, Handles, Load, Step
  <2> QED
    BY <1>0, <1>13, <2>1, <2>2, <2>3, <2>4, NoRowAssumption,
       MaxFaultsAssumption, <2>5 DEF Others, Notified, Handles, Load, Step
<1>14. ASSUME NEW o \in Operations, NoteApproval(o) PROVE CreationIsOnTrack'
  <2>1. Others(o)
    BY <1>14, OthersStay
  <2>2. UNCHANGED <<kind, me, secret, crossed>>
    BY <1>14 DEF NoteApproval
  <2>3. me[o] \in Actors /\ Peer(me[o]) \in Actors /\ Peer(me[o]) # me[o]
    BY <1>0, <1>14, PeerIsOther DEF NoteApproval, Handles, Modify, Put, Step
  <2>4. \A z \in Actors :
          /\ rows'[z] = NoRow <=> rows[z] = NoRow
          /\ rows[z] # NoRow =>
                /\ rows'[z].secret = rows[z].secret
                /\ rows'[z].verified = rows[z].verified
                /\ rows'[z].approved <=> rows[z].approved
                /\ rows'[z].peer_approved <=> (rows[z].peer_approved \/ z =
                   Peer(me[o]))
    BY <1>14, <2>3, ColumnIsSet DEF NoteApproval
  <2>5. ~crossed => \A p \in Operations \ {o} : Active(p) =>
          /\ kind[o] \in {"create", "delete"} => kind[p] = "access"
          /\ kind[o] \in {"create", "delete", "approve"} => kind[p] \in
             {"access", "approve"}
    BY <1>0, <1>14, NothingBeside DEF Active, NoteApproval, Handles, Modify,
       Put, Step
  <2> QED
    BY <1>0, <1>14, <2>1, <2>2, <2>3, <2>4, NoRowAssumption,
       MaxFaultsAssumption, <2>5 DEF Others, NoteApproval, Handles, Modify,
       Put, Step
<1>15. ASSUME NEW o \in Operations, DeleteRequested(o) PROVE CreationIsOnTrack'
  <2>1. Others(o)
    BY <1>15, OthersStay
  <2>2. UNCHANGED <<kind, me, secret, crossed>>
    BY <1>15 DEF DeleteRequested
  <2>3. me[o] \in Actors /\ Peer(me[o]) \in Actors /\ Peer(me[o]) # me[o]
    BY <1>0, <1>15, PeerIsOther DEF DeleteRequested, Handles, Step, Answer
  <2>4. rows' = rows
    BY <1>0, <1>15 DEF DeleteRequested
  <2>5. ~crossed => \A p \in Operations \ {o} : Active(p) =>
          /\ kind[o] \in {"create", "delete"} => kind[p] = "access"
          /\ kind[o] \in {"create", "delete", "approve"} => kind[p] \in
             {"access", "approve"}
    BY <1>0, <1>15, NothingBeside DEF Active, DeleteRequested, Handles, Step,
       Answer
  <2> QED
    BY <1>0, <1>15, <2>1, <2>2, <2>3, <2>4, NoRowAssumption,
       MaxFaultsAssumption, <2>5 DEF Others, DeleteRequested, Handles, Step,
       Answer
<1>16. ASSUME NEW o \in Operations, PeerRemoves(o) PROVE CreationIsOnTrack'
  <2>1. Others(o)
    BY <1>16, OthersStay
  <2>2. UNCHANGED <<kind, me, secret, crossed>>
    BY <1>16 DEF PeerRemoves
  <2>3. me[o] \in Actors /\ Peer(me[o]) \in Actors /\ Peer(me[o]) # me[o]
    BY <1>0, <1>16, PeerIsOther DEF PeerRemoves, Handles, Put, Answer, Step
  <2>4. rows' = [rows EXCEPT ![Peer(me[o])] = NoRow]
    BY <1>16 DEF PeerRemoves, Put
  <2>5. ~crossed => \A p \in Operations \ {o} : Active(p) =>
          /\ kind[o] \in {"create", "delete"} => kind[p] = "access"
          /\ kind[o] \in {"create", "delete", "approve"} => kind[p] \in
             {"access", "approve"}
    BY <1>0, <1>16, NothingBeside DEF Active, PeerRemoves, Handles, Put,
       Answer, Step
  <2> QED
    BY <1>0, <1>16, <2>1, <2>2, <2>3, <2>4, NoRowAssumption,
       MaxFaultsAssumption, <2>5 DEF Others, PeerRemoves, Handles, Put, Answer,
       Step
<1>17. ASSUME NEW o \in Operations, DeleteAnswered(o) PROVE CreationIsOnTrack'
  <2>1. Others(o)
    BY <1>17, OthersStay
  <2>2. UNCHANGED <<kind, me, secret, crossed>>
    BY <1>17 DEF DeleteAnswered
  <2>3. me[o] \in Actors /\ Peer(me[o]) \in Actors /\ Peer(me[o]) # me[o]
    BY <1>0, <1>17, PeerIsOther DEF DeleteAnswered, At, Goto
  <2>4. rows' = rows
    BY <1>0, <1>17 DEF DeleteAnswered
  <2>5. ~crossed => \A p \in Operations \ {o} : Active(p) =>
          /\ kind[o] \in {"create", "delete"} => kind[p] = "access"
          /\ kind[o] \in {"create", "delete", "approve"} => kind[p] \in
             {"access", "approve"}
    BY <1>0, <1>17, NothingBeside DEF Active, DeleteAnswered, At, Goto
  <2> QED
    BY <1>0, <1>17, <2>1, <2>2, <2>3, <2>4, NoRowAssumption,
       MaxFaultsAssumption, <2>5 DEF Others, DeleteAnswered, At, Goto
<1>18. ASSUME NEW o \in Operations, DeleteFailed(o) PROVE CreationIsOnTrack'
  <2>1. Others(o)
    BY <1>18, OthersStay
  <2>2. UNCHANGED <<kind, me, secret, crossed>>
    BY <1>18 DEF DeleteFailed
  <2>3. me[o] \in Actors /\ Peer(me[o]) \in Actors /\ Peer(me[o]) # me[o]
    BY <1>0, <1>18, PeerIsOther DEF DeleteFailed, At, Return, Goto, Fault
  <2>4. rows' = rows
    BY <1>0, <1>18 DEF DeleteFailed
  <2>5. ~crossed => \A p \in Operations \ {o} : Active(p) =>
          /\ kind[o] \in {"create", "delete"} => kind[p] = "access"
          /\ kind[o] \in {"create", "delete", "approve"} => kind[p] \in
             {"access", "approve"}
    BY <1>0, <1>18, NothingBeside DEF Active, DeleteFailed, At, Return, Goto,
       Fault
  <2> QED
    BY <1>0, <1>18, <2>1, <2>2, <2>3, <2>4, NoRowAssumption,
       MaxFaultsAssumption, <2>5 DEF Others, DeleteFailed, At, Return, Goto,
       Fault
<1>19. ASSUME NEW o \in Operations, Remove(o) PROVE CreationIsOnTrack'
  <2>1. Others(o)
    BY <1>19, OthersStay
  <2>2. UNCHANGED <<kind, me, secret, crossed>>
    BY <1>19 DEF Remove
  <2>3. me[o] \in Actors /\ Peer(me[o]) \in Actors /\ Peer(me[o]) # me[o]
    BY <1>0, <1>19, PeerIsOther DEF Remove, At, Put, Return, Goto
  <2>4. rows' = [rows EXCEPT ![me[o]] = NoRow]
    BY <1>19 DEF Remove, Put
  <2>5. ~crossed => \A p \in Operations \ {o} : Active(p) =>
          /\ kind[o] \in {"create", "delete"} => kind[p] = "access"
          /\ kind[o] \in {"create", "delete", "approve"} => kind[p] \in
             {"access", "approve"}
    BY <1>0, <1>19, NothingBeside DEF Active, Remove, At, Put, Return, Goto
  <2> QED
    BY <1>0, <1>19, <2>1, <2>2, <2>3, <2>4, NoRowAssumption,
       MaxFaultsAssumption, <2>5 DEF Others, Remove, At, Put, Return, Goto
<1>20. ASSUME NEW o \in Operations, Lose(o) PROVE CreationIsOnTrack'
  <2>1. Others(o)
    BY <1>20, OthersStay
  <2>2. UNCHANGED <<kind, me, secret, crossed>>
    BY <1>20 DEF Lose
  <2>3. me[o] \in Actors /\ Peer(me[o]) \in Actors /\ Peer(me[o]) # me[o]
    BY <1>0, <1>20, PeerIsOther DEF Lose, Step, Fault
  <2>4. rows' = rows
    BY <1>0, <1>20 DEF Lose
  <2>5. ~crossed => \A p \in Operations \ {o} : Active(p) =>
          /\ kind[o] \in {"create", "delete"} => kind[p] = "access"
          /\ kind[o] \in {"create", "delete", "approve"} => kind[p] \in
             {"access", "approve"}
    BY <1>0, <1>20, NothingBeside DEF Active, Lose, Step, Fault
  <2> QED
    BY <1>0, <1>20, <2>1, <2>2, <2>3, <2>4, NoRowAssumption,
       MaxFaultsAssumption, <2>5 DEF Others, Lose, Step, Fault
<1>21. ASSUME NEW o \in Operations, Die(o) PROVE CreationIsOnTrack'
  <2>1. Others(o)
    BY <1>21, OthersStay
  <2>2. UNCHANGED <<kind, me, secret, crossed>>
    BY <1>21 DEF Die
  <2>3. me[o] \in Actors /\ Peer(me[o]) \in Actors /\ Peer(me[o]) # me[o]
    BY <1>0, <1>21, PeerIsOther DEF Die, Return, Goto, Fault
  <2>4. rows' = rows
    BY <1>0, <1>21 DEF Die
  <2>5. ~crossed => \A p \in Operations \ {o} : Active(p) =>
          /\ kind[o] \in {"create", "delete"} => kind[p] = "access"
          /\ kind[o] \in {"create", "delete", "approve"} => kind[p] \in
             {"access", "approve"}
    BY <1>0, <1>21, NothingBeside DEF Active, Die, Return, Goto, Fault
  <2> QED
    BY <1>0, <1>21, <2>1, <2>2, <2>3, <2>4, NoRowAssumption,
       MaxFaultsAssumption, <2>5 DEF Others, Die, Return, Goto, Fault
<1>22. CASE UNCHANGED vars
  BY <1>0, <1>22 DEF vars
<1> HIDE DEF TypeOK, StepsFit, SecretsAreKnown, CreationIsOnTrack, Active,
        Server, Knows
<1> QED
  BY <1>1, <1>2, <1>3, <1>4, <1>5, <1>6, <1>7, <1>8, <1>9, <1>10, <1>11,
     <1>12, <1>13, <1>14, <1>15, <1>16, <1>17, <1>18, <1>19, <1>20,
     <1>21, <1>22
  DEF Next

\* A deletion that nothing goes wrong with removes the row of the peer first.
LEMMA PeerFirstStep ==
    ASSUME ~WholeRow, IInv, [Next]_vars
    PROVE  DeletionIsOnTrack'
<1>0. TypeOK /\ StepsFit /\ DeletionIsOnTrack
  BY FitStep DEF IInv
<1> USE DEF TypeOK, StepsFit, DeletionIsOnTrack, Active
<1>1. ASSUME NEW o \in Operations, NEW x \in Actors, Create(o, x)
      PROVE  DeletionIsOnTrack'
  <2>1. Others(o)
    BY <1>1, OthersStay
  <2>2. /\ pc[o] = "idle" /\ kind'[o] = "create" /\ me'[o] = x
        /\ ~crossed' => ~crossed
    BY <1>0, <1>1 DEF Create, Begin
  <2>3. \A y \in Actors : Peer(y) \in Actors /\ Peer(y) # y
    BY PeerIsOther
  <2>4. rows' = [rows EXCEPT ![x] = [secret |-> o, approved |-> TRUE,
                 peer_approved |-> FALSE, verified |-> TRUE]]
    BY <1>1 DEF Create, Put
  <2>5. ~crossed' => \A p \in Operations \ {o} :
          Active(p) => kind[p] = "access"
    <3> SUFFICES ASSUME ~crossed', NEW p \in Operations \ {o}, Active(p)
                 PROVE  kind[p] = "access"
      OBVIOUS
    <3>1. ~Clash("create", kind[p])
      BY <1>1 DEF Create, Begin
    <3>2. kind[p] \in Kinds
      BY <1>0 DEF Active
    <3> QED
      BY <3>1, <3>2 DEF Clash, Kinds
  <2> QED
    BY <1>0, <1>1, <2>1, <2>2, <2>3, <2>4, NoRowAssumption,
       MaxFaultsAssumption, <2>5 DEF Others, Create, Begin, Goto, Step, Put
<1>2. ASSUME NEW o \in Operations, NEW x \in Actors, Approve(o, x)
      PROVE  DeletionIsOnTrack'
  <2>1. Others(o)
    BY <1>2, OthersStay
  <2>2. /\ pc[o] = "idle" /\ kind'[o] = "approve" /\ me'[o] = x
        /\ ~crossed' => ~crossed
    BY <1>0, <1>2 DEF Approve, Begin
  <2>3. \A y \in Actors : Peer(y) \in Actors /\ Peer(y) # y
    BY PeerIsOther
  <2>4. rows' = rows
    BY <1>0, <1>2 DEF Approve
  <2>5. ~crossed' => \A p \in Operations \ {o} :
          Active(p) => kind[p] \in {"access", "approve"}
    <3> SUFFICES ASSUME ~crossed', NEW p \in Operations \ {o}, Active(p)
                 PROVE  kind[p] \in {"access", "approve"}
      OBVIOUS
    <3>1. ~Clash("approve", kind[p])
      BY <1>2 DEF Approve, Begin
    <3>2. kind[p] \in Kinds
      BY <1>0 DEF Active
    <3> QED
      BY <3>1, <3>2 DEF Clash, Kinds
  <2> QED
    BY <1>0, <1>2, <2>1, <2>2, <2>3, <2>4, NoRowAssumption,
       MaxFaultsAssumption, <2>5 DEF Others, Approve, Begin, Goto, Load
<1>3. ASSUME NEW o \in Operations, NEW x \in Actors, Delete(o, x)
      PROVE  DeletionIsOnTrack'
  <2>1. Others(o)
    BY <1>3, OthersStay
  <2>2. /\ pc[o] = "idle" /\ kind'[o] = "delete" /\ me'[o] = x
        /\ ~crossed' => ~crossed
    BY <1>0, <1>3 DEF Delete, Begin
  <2>3. \A y \in Actors : Peer(y) \in Actors /\ Peer(y) # y
    BY PeerIsOther
  <2>4. rows' = rows
    BY <1>0, <1>3 DEF Delete
  <2>5. ~crossed' => \A p \in Operations \ {o} :
          Active(p) => kind[p] = "access"
    <3> SUFFICES ASSUME ~crossed', NEW p \in Operations \ {o}, Active(p)
                 PROVE  kind[p] = "access"
      OBVIOUS
    <3>1. ~Clash("delete", kind[p])
      BY <1>3 DEF Delete, Begin
    <3>2. kind[p] \in Kinds
      BY <1>0 DEF Active
    <3> QED
      BY <3>1, <3>2 DEF Clash, Kinds
  <2>6. SUFFICES ASSUME ~crossed', faults' = 0, NEW q \in Operations,
                        kind'[q] = "delete", Active(q)'
                 PROVE  /\ q = o /\ pc'[q] = "waiting" /\ handler'[q] = "sent"
                        /\ answer'[q] = "none" /\ rows'[me'[q]] # NoRow
                        /\ secret'[q] = rows'[me'[q]].secret
    OBVIOUS
  <2>7. q = o
    BY <2>1, <2>5, <2>6 DEF Others
  <2>8. answer' = answer /\ answer[o] = "none" /\ pc'[o] = "waiting"
           /\ handler'[o] = "sent"
    BY <1>0, <1>3, <2>2 DEF Delete, Goto, Step
  <2>9. secret'[o] = rows[x].secret /\ rows[x] # NoRow
    BY <1>0, <1>3 DEF Delete
  <2> QED
    BY <2>2, <2>4, <2>7, <2>8, <2>9
<1>4. ASSUME NEW o \in Operations, NEW x \in Actors, Access(o, x)
      PROVE  DeletionIsOnTrack'
  <2>1. Others(o)
    BY <1>4, OthersStay
  <2>2. /\ pc[o] = "idle" /\ kind'[o] = "access" /\ me'[o] = x
        /\ ~crossed' => ~crossed
    BY <1>0, <1>4 DEF Access, Begin
  <2>3. \A y \in Actors : Peer(y) \in Actors /\ Peer(y) # y
    BY PeerIsOther
  <2>4. rows' = rows
    BY <1>0, <1>4 DEF Access
  <2> QED
    BY <1>0, <1>4, <2>1, <2>2, <2>3, <2>4, NoRowAssumption, MaxFaultsAssumption
       DEF Others, Access, Begin, Goto, Step
<1>5. ASSUME NEW o \in Operations, CreateAnswered(o) PROVE DeletionIsOnTrack'
  <2>1. Others(o)
    BY <1>5, OthersStay
  <2>2. UNCHANGED <<kind, me, secret, crossed>>
    BY <1>5 DEF CreateAnswered
  <2>3. me[o] \in Actors /\ Peer(me[o]) \in Actors /\ Peer(me[o]) # me[o]
    BY <1>0, <1>5, PeerIsOther DEF CreateAnswered, At, Load, Goto, Return
  <2>4. rows' = rows
    BY <1>0, <1>5 DEF CreateAnswered
  <2>5. ~crossed => \A p \in Operations \ {o} : Active(p) =>
          /\ kind[o] \in {"create", "delete"} => kind[p] = "access"
          /\ kind[o] \in {"create", "delete", "approve"} => kind[p] \in
             {"access", "approve"}
    BY <1>0, <1>5, NothingBeside DEF Active, CreateAnswered, At, Load, Goto,
       Return
  <2> QED
    BY <1>0, <1>5, <2>1, <2>2, <2>3, <2>4, NoRowAssumption,
       MaxFaultsAssumption, <2>5 DEF Others, CreateAnswered, At, Load, Goto,
       Return
<1>6. ASSUME NEW o \in Operations, Promote(o) PROVE DeletionIsOnTrack'
  <2>1. Others(o)
    BY <1>6, OthersStay
  <2>2. UNCHANGED <<kind, me, secret, crossed>>
    BY <1>6 DEF Promote
  <2>3. me[o] \in Actors /\ Peer(me[o]) \in Actors /\ Peer(me[o]) # me[o]
    BY <1>0, <1>6, PeerIsOther DEF Promote, At, Modify, Put, Return, Goto
  <2>4. \A z \in Actors :
          /\ rows'[z] = NoRow <=> rows[z] = NoRow
          /\ rows[z] # NoRow =>
                /\ rows'[z].secret = rows[z].secret
                /\ rows'[z].verified = rows[z].verified
                /\ rows'[z].approved <=> rows[z].approved
                /\ rows'[z].peer_approved <=> (rows[z].peer_approved \/ z =
                   me[o])
    BY <1>6, <2>3, ColumnIsSet DEF Promote
  <2>5. ~crossed => \A p \in Operations \ {o} : Active(p) =>
          /\ kind[o] \in {"create", "delete"} => kind[p] = "access"
          /\ kind[o] \in {"create", "delete", "approve"} => kind[p] \in
             {"access", "approve"}
    BY <1>0, <1>6, NothingBeside DEF Active, Promote, At, Modify, Put, Return,
       Goto
  <2> QED
    BY <1>0, <1>6, <2>1, <2>2, <2>3, <2>4, NoRowAssumption,
       MaxFaultsAssumption, <2>5 DEF Others, Promote, At, Modify, Put, Return,
       Goto
<1>7. ASSUME NEW o \in Operations, CreateFailed(o) PROVE DeletionIsOnTrack'
  <2>1. Others(o)
    BY <1>7, OthersStay
  <2>2. UNCHANGED <<kind, me, secret, crossed>>
    BY <1>7 DEF CreateFailed
  <2>3. me[o] \in Actors /\ Peer(me[o]) \in Actors /\ Peer(me[o]) # me[o]
    BY <1>0, <1>7, PeerIsOther DEF CreateFailed, At, Put, Return, Goto, Fault
  <2>4. rows' = [rows EXCEPT ![me[o]] = NoRow]
    BY <1>7 DEF CreateFailed, Put
  <2>5. ~crossed => \A p \in Operations \ {o} : Active(p) =>
          /\ kind[o] \in {"create", "delete"} => kind[p] = "access"
          /\ kind[o] \in {"create", "delete", "approve"} => kind[p] \in
             {"access", "approve"}
    BY <1>0, <1>7, NothingBeside DEF Active, CreateFailed, At, Put, Return,
       Goto, Fault
  <2> QED
    BY <1>0, <1>7, <2>1, <2>2, <2>3, <2>4, NoRowAssumption,
       MaxFaultsAssumption, <2>5 DEF Others, CreateFailed, At, Put, Return,
       Goto, Fault
<1>8. ASSUME NEW o \in Operations, Accept(o) PROVE DeletionIsOnTrack'
  <2>1. Others(o)
    BY <1>8, OthersStay
  <2>2. UNCHANGED <<kind, me, secret, crossed>>
    BY <1>8 DEF Accept
  <2>3. me[o] \in Actors /\ Peer(me[o]) \in Actors /\ Peer(me[o]) # me[o]
    BY <1>0, <1>8, PeerIsOther DEF Accept, Handles, Put, Answer, Step, Fault
  <2>4. \/ UNCHANGED rows /\ faults' # 0
        \/ \E auto \in BOOLEAN :
              /\ rows' = [rows EXCEPT ![Peer(me[o])] =
                   [secret |-> secret[o], approved |-> auto, peer_approved |->
                      TRUE,
                    verified |-> verified[o]]]
              /\ answer'[o] = IF pc[o] # "waiting" THEN "none"
                               ELSE IF auto THEN "created" ELSE "accepted"
    BY <1>0, <1>8, MaxFaultsAssumption DEF Accept, Put, Answer, Fault
  <2>5. ~crossed => \A p \in Operations \ {o} : Active(p) =>
          /\ kind[o] \in {"create", "delete"} => kind[p] = "access"
          /\ kind[o] \in {"create", "delete", "approve"} => kind[p] \in
             {"access", "approve"}
    BY <1>0, <1>8, NothingBeside DEF Active, Accept, Handles, Put, Answer,
       Step, Fault
  <2> QED
    BY <1>0, <1>8, <2>1, <2>2, <2>3, <2>4, NoRowAssumption,
       MaxFaultsAssumption, <2>5 DEF Others, Accept, Handles, Put, Answer,
       Step, Fault
<1>9. ASSUME NEW o \in Operations, Authenticate(o) PROVE DeletionIsOnTrack'
  <2>1. Others(o)
    BY <1>9, OthersStay
  <2>2. UNCHANGED <<kind, me, secret, crossed>>
    BY <1>9 DEF Authenticate
  <2>3. me[o] \in Actors /\ Peer(me[o]) \in Actors /\ Peer(me[o]) # me[o]
    BY <1>0, <1>9, PeerIsOther DEF Authenticate, Load, Step
  <2>4. rows' = rows
    BY <1>0, <1>9 DEF Authenticate
  <2>5. ~crossed => \A p \in Operations \ {o} : Active(p) =>
          /\ kind[o] \in {"create", "delete"} => kind[p] = "access"
          /\ kind[o] \in {"create", "delete", "approve"} => kind[p] \in
             {"access", "approve"}
    BY <1>0, <1>9, NothingBeside DEF Active, Authenticate, Load, Step
  <2> QED
    BY <1>0, <1>9, <2>1, <2>2, <2>3, <2>4, NoRowAssumption,
       MaxFaultsAssumption, <2>5 DEF Others, Authenticate, Load, Step
<1>10. ASSUME NEW o \in Operations, RecordTrustUsage(o)
      PROVE  DeletionIsOnTrack'
  <2>1. Others(o)
    BY <1>10, OthersStay
  <2>2. UNCHANGED <<kind, me, secret, crossed>>
    BY <1>10 DEF RecordTrustUsage
  <2>3. me[o] \in Actors /\ Peer(me[o]) \in Actors /\ Peer(me[o]) # me[o]
    BY <1>0, <1>10, PeerIsOther DEF RecordTrustUsage, Put, Step
  <2>4. rows' = rows
    BY <1>0, <1>10 DEF RecordTrustUsage, Put
  <2>5. ~crossed => \A p \in Operations \ {o} : Active(p) =>
          /\ kind[o] \in {"create", "delete"} => kind[p] = "access"
          /\ kind[o] \in {"create", "delete", "approve"} => kind[p] \in
             {"access", "approve"}
    BY <1>0, <1>10, NothingBeside DEF Active, RecordTrustUsage, Put, Step
  <2> QED
    BY <1>0, <1>10, <2>1, <2>2, <2>3, <2>4, NoRowAssumption,
       MaxFaultsAssumption, <2>5 DEF Others, RecordTrustUsage, Put, Step
<1>11. ASSUME NEW o \in Operations, NotAuthenticated(o)
      PROVE  DeletionIsOnTrack'
  <2>1. Others(o)
    BY <1>11, OthersStay
  <2>2. UNCHANGED <<kind, me, secret, crossed>>
    BY <1>11 DEF NotAuthenticated
  <2>3. me[o] \in Actors /\ Peer(me[o]) \in Actors /\ Peer(me[o]) # me[o]
    BY <1>0, <1>11, PeerIsOther DEF NotAuthenticated, Step, Answer
  <2>4. rows' = rows
    BY <1>0, <1>11 DEF NotAuthenticated
  <2>5. ~crossed => \A p \in Operations \ {o} : Active(p) =>
          /\ kind[o] \in {"create", "delete"} => kind[p] = "access"
          /\ kind[o] \in {"create", "delete", "approve"} => kind[p] \in
             {"access", "approve"}
    BY <1>0, <1>11, NothingBeside DEF Active, NotAuthenticated, Step, Answer
  <2>6. /\ UNCHANGED <<pc, faults>> /\ handler[o] = "sent" /\ ~Knows(o)
        /\ kind[o] # "delete" => answer'[o] = "none"
    BY <1>0, <1>11 DEF NotAuthenticated, Answer
  <2>7. SUFFICES ASSUME ~crossed, faults = 0
                 PROVE  DeletionIsOnTrack'
    BY <2>2, <2>6
  <2>8. kind[o] # "delete"
    <3> SUFFICES ASSUME kind[o] = "delete"
                 PROVE  FALSE
      OBVIOUS
    <3>1. rows[me[o]] # NoRow /\ secret[o] = rows[me[o]].secret
      BY <1>0, <2>6, <2>7
    <3>2. ~HalfDone
      BY <1>0, <2>5, <2>6, <2>7 DEF HalfDone
    <3>3. Linked
      BY <2>3, <2>7, <3>1, <3>2 DEF IInv, RowsMatch, Matched
    <3> QED
      BY <2>3, <2>6, <3>1, <3>3 DEF Linked, Knows, Server
  <2> QED
    BY <1>0, <2>1, <2>2, <2>3, <2>4, <2>5, <2>6, <2>7, <2>8 DEF Others
<1>12. ASSUME NEW o \in Operations, SaveApproval(o) PROVE DeletionIsOnTrack'
  <2>1. Others(o)
    BY <1>12, OthersStay
  <2>2. UNCHANGED <<kind, me, secret, crossed>>
    BY <1>12 DEF SaveApproval
  <2>3. me[o] \in Actors /\ Peer(me[o]) \in Actors /\ Peer(me[o]) # me[o]
    BY <1>0, <1>12, PeerIsOther DEF SaveApproval, At, Modify, Put, Step,
       Return, Goto
  <2>4. \A z \in Actors :
          /\ rows'[z] = NoRow <=> rows[z] = NoRow
          /\ rows[z] # NoRow =>
                /\ rows'[z].secret = rows[z].secret
                /\ rows'[z].verified = rows[z].verified
                /\ rows'[z].approved <=> (rows[z].approved \/ z = me[o])
                /\ rows'[z].peer_approved <=> rows[z].peer_approved
    BY <1>12, <2>3, ColumnIsSet DEF SaveApproval
  <2>5. ~crossed => \A p \in Operations \ {o} : Active(p) =>
          /\ kind[o] \in {"create", "delete"} => kind[p] = "access"
          /\ kind[o] \in {"create", "delete", "approve"} => kind[p] \in
             {"access", "approve"}
    BY <1>0, <1>12, NothingBeside DEF Active, SaveApproval, At, Modify, Put,
       Step, Return, Goto
  <2> QED
    BY <1>0, <1>12, <2>1, <2>2, <2>3, <2>4, NoRowAssumption,
       MaxFaultsAssumption, <2>5 DEF Others, SaveApproval, At, Modify, Put,
       Step, Return, Goto
<1>13. ASSUME NEW o \in Operations, Notified(o) PROVE DeletionIsOnTrack'
  <2>1. Others(o)
    BY <1>13, OthersStay
  <2>2. UNCHANGED <<kind, me, secret, crossed>>
    BY <1>13 DEF Notified
  <2>3. me[o] \in Actors /\ Peer(me[o]) \in Actors /\ Peer(me[o]) # me[o]
    BY <1>0, <1>13, PeerIsOther DEF Notified, Handles, Load, Step
  <2>4. rows' = rows
    BY <1>0, <1>13 DEF Notified
  <2>5. ~crossed => \A p \in Operations \ {o} : Active(p) =>
          /\ kind[o] \in {"create", "delete"} => kind[p] = "access"
          /\ kind[o] \in {"create", "delete", "approve"} => kind[p] \in
             {"access", "approve"}
    BY <1>0, <1>13, NothingBeside DEF Active, Notified, Handles, Load, Step
  <2> QED
    BY <1>0, <1>13, <2>1, <2>2, <2>3, <2>4, NoRowAssumption,
       MaxFaultsAssumption, <2>5 DEF Others, Notified, Handles, Load, Step
<1>14. ASSUME NEW o \in Operations, NoteApproval(o) PROVE DeletionIsOnTrack'
  <2>1. Others(o)
    BY <1>14, OthersStay
  <2>2. UNCHANGED <<kind, me, secret, crossed>>
    BY <1>14 DEF NoteApproval
  <2>3. me[o] \in Actors /\ Peer(me[o]) \in Actors /\ Peer(me[o]) # me[o]
    BY <1>0, <1>14, PeerIsOther DEF NoteApproval, Handles, Modify, Put, Step
  <2>4. \A z \in Actors :
          /\ rows'[z] = NoRow <=> rows[z] = NoRow
          /\ rows[z] # NoRow =>
                /\ rows'[z].secret = rows[z].secret
                /\ rows'[z].verified = rows[z].verified
                /\ rows'[z].approved <=> rows[z].approved
                /\ rows'[z].peer_approved <=> (rows[z].peer_approved \/ z =
                   Peer(me[o]))
    BY <1>14, <2>3, ColumnIsSet DEF NoteApproval
  <2>5. ~crossed => \A p \in Operations \ {o} : Active(p) =>
          /\ kind[o] \in {"create", "delete"} => kind[p] = "access"
          /\ kind[o] \in {"create", "delete", "approve"} => kind[p] \in
             {"access", "approve"}
    BY <1>0, <1>14, NothingBeside DEF Active, NoteApproval, Handles, Modify,
       Put, Step
  <2> QED
    BY <1>0, <1>14, <2>1, <2>2, <2>3, <2>4, NoRowAssumption,
       MaxFaultsAssumption, <2>5 DEF Others, NoteApproval, Handles, Modify,
       Put, Step
<1>15. ASSUME NEW o \in Operations, DeleteRequested(o) PROVE DeletionIsOnTrack'
  <2>1. Others(o)
    BY <1>15, OthersStay
  <2>2. UNCHANGED <<kind, me, secret, crossed>>
    BY <1>15 DEF DeleteRequested
  <2>3. me[o] \in Actors /\ Peer(me[o]) \in Actors /\ Peer(me[o]) # me[o]
    BY <1>0, <1>15, PeerIsOther DEF DeleteRequested, Handles, Step, Answer
  <2>4. rows' = rows
    BY <1>0, <1>15 DEF DeleteRequested
  <2>5. ~crossed => \A p \in Operations \ {o} : Active(p) =>
          /\ kind[o] \in {"create", "delete"} => kind[p] = "access"
          /\ kind[o] \in {"create", "delete", "approve"} => kind[p] \in
             {"access", "approve"}
    BY <1>0, <1>15, NothingBeside DEF Active, DeleteRequested, Handles, Step,
       Answer
  <2>6. /\ UNCHANGED <<pc, faults>> /\ handler[o] = "act" /\ kind[o] = "delete"
        /\ \/ rows[Peer(me[o])] = NoRow
           \/ handler'[o] = "write" /\ answer' = answer
    BY <1>0, <1>15 DEF DeleteRequested, Handles, Step
  <2>7. SUFFICES ASSUME ~crossed, faults = 0
                 PROVE  DeletionIsOnTrack'
    BY <2>2, <2>6
  <2>8. rows[Peer(me[o])] # NoRow
    <3>1. rows[me[o]] # NoRow
      BY <1>0, <2>6, <2>7
    <3>2. ~HalfDone
      BY <1>0, <2>5, <2>6, <2>7 DEF HalfDone
    <3>3. Linked
      BY <2>3, <2>7, <3>1, <3>2 DEF IInv, RowsMatch, Matched
    <3> QED
      BY <2>3, <3>3 DEF Linked
  <2> QED
    BY <1>0, <2>1, <2>2, <2>3, <2>4, <2>5, <2>6, <2>7, <2>8 DEF Others
<1>16. ASSUME NEW o \in Operations, PeerRemoves(o) PROVE DeletionIsOnTrack'
  <2>1. Others(o)
    BY <1>16, OthersStay
  <2>2. UNCHANGED <<kind, me, secret, crossed>>
    BY <1>16 DEF PeerRemoves
  <2>3. me[o] \in Actors /\ Peer(me[o]) \in Actors /\ Peer(me[o]) # me[o]
    BY <1>0, <1>16, PeerIsOther DEF PeerRemoves, Handles, Put, Answer, Step
  <2>4. rows' = [rows EXCEPT ![Peer(me[o])] = NoRow]
    BY <1>16 DEF PeerRemoves, Put
  <2>5. ~crossed => \A p \in Operations \ {o} : Active(p) =>
          /\ kind[o] \in {"create", "delete"} => kind[p] = "access"
          /\ kind[o] \in {"create", "delete", "approve"} => kind[p] \in
             {"access", "approve"}
    BY <1>0, <1>16, NothingBeside DEF Active, PeerRemoves, Handles, Put,
       Answer, Step
  <2> QED
    BY <1>0, <1>16, <2>1, <2>2, <2>3, <2>4, NoRowAssumption,
       MaxFaultsAssumption, <2>5 DEF Others, PeerRemoves, Handles, Put, Answer,
       Step
<1>17. ASSUME NEW o \in Operations, DeleteAnswered(o) PROVE DeletionIsOnTrack'
  <2>1. Others(o)
    BY <1>17, OthersStay
  <2>2. UNCHANGED <<kind, me, secret, crossed>>
    BY <1>17 DEF DeleteAnswered
  <2>3. me[o] \in Actors /\ Peer(me[o]) \in Actors /\ Peer(me[o]) # me[o]
    BY <1>0, <1>17, PeerIsOther DEF DeleteAnswered, At, Goto
  <2>4. rows' = rows
    BY <1>0, <1>17 DEF DeleteAnswered
  <2>5. ~crossed => \A p \in Operations \ {o} : Active(p) =>
          /\ kind[o] \in {"create", "delete"} => kind[p] = "access"
          /\ kind[o] \in {"create", "delete", "approve"} => kind[p] \in
             {"access", "approve"}
    BY <1>0, <1>17, NothingBeside DEF Active, DeleteAnswered, At, Goto
  <2> QED
    BY <1>0, <1>17, <2>1, <2>2, <2>3, <2>4, NoRowAssumption,
       MaxFaultsAssumption, <2>5 DEF Others, DeleteAnswered, At, Goto
<1>18. ASSUME NEW o \in Operations, DeleteFailed(o) PROVE DeletionIsOnTrack'
  <2>1. Others(o)
    BY <1>18, OthersStay
  <2>2. UNCHANGED <<kind, me, secret, crossed>>
    BY <1>18 DEF DeleteFailed
  <2>3. me[o] \in Actors /\ Peer(me[o]) \in Actors /\ Peer(me[o]) # me[o]
    BY <1>0, <1>18, PeerIsOther DEF DeleteFailed, At, Return, Goto, Fault
  <2>4. rows' = rows
    BY <1>0, <1>18 DEF DeleteFailed
  <2>5. ~crossed => \A p \in Operations \ {o} : Active(p) =>
          /\ kind[o] \in {"create", "delete"} => kind[p] = "access"
          /\ kind[o] \in {"create", "delete", "approve"} => kind[p] \in
             {"access", "approve"}
    BY <1>0, <1>18, NothingBeside DEF Active, DeleteFailed, At, Return, Goto,
       Fault
  <2> QED
    BY <1>0, <1>18, <2>1, <2>2, <2>3, <2>4, NoRowAssumption,
       MaxFaultsAssumption, <2>5 DEF Others, DeleteFailed, At, Return, Goto,
       Fault
<1>19. ASSUME NEW o \in Operations, Remove(o) PROVE DeletionIsOnTrack'
  <2>1. Others(o)
    BY <1>19, OthersStay
  <2>2. UNCHANGED <<kind, me, secret, crossed>>
    BY <1>19 DEF Remove
  <2>3. me[o] \in Actors /\ Peer(me[o]) \in Actors /\ Peer(me[o]) # me[o]
    BY <1>0, <1>19, PeerIsOther DEF Remove, At, Put, Return, Goto
  <2>4. rows' = [rows EXCEPT ![me[o]] = NoRow]
    BY <1>19 DEF Remove, Put
  <2>5. ~crossed => \A p \in Operations \ {o} : Active(p) =>
          /\ kind[o] \in {"create", "delete"} => kind[p] = "access"
          /\ kind[o] \in {"create", "delete", "approve"} => kind[p] \in
             {"access", "approve"}
    BY <1>0, <1>19, NothingBeside DEF Active, Remove, At, Put, Return, Goto
  <2> QED
    BY <1>0, <1>19, <2>1, <2>2, <2>3, <2>4, NoRowAssumption,
       MaxFaultsAssumption, <2>5 DEF Others, Remove, At, Put, Return, Goto
<1>20. ASSUME NEW o \in Operations, Lose(o) PROVE DeletionIsOnTrack'
  <2>1. Others(o)
    BY <1>20, OthersStay
  <2>2. UNCHANGED <<kind, me, secret, crossed>>
    BY <1>20 DEF Lose
  <2>3. me[o] \in Actors /\ Peer(me[o]) \in Actors /\ Peer(me[o]) # me[o]
    BY <1>0, <1>20, PeerIsOther DEF Lose, Step, Fault
  <2>4. rows' = rows
    BY <1>0, <1>20 DEF Lose
  <2>5. ~crossed => \A p \in Operations \ {o} : Active(p) =>
          /\ kind[o] \in {"create", "delete"} => kind[p] = "access"
          /\ kind[o] \in {"create", "delete", "approve"} => kind[p] \in
             {"access", "approve"}
    BY <1>0, <1>20, NothingBeside DEF Active, Lose, Step, Fault
  <2> QED
    BY <1>0, <1>20, <2>1, <2>2, <2>3, <2>4, NoRowAssumption,
       MaxFaultsAssumption, <2>5 DEF Others, Lose, Step, Fault
<1>21. ASSUME NEW o \in Operations, Die(o) PROVE DeletionIsOnTrack'
  <2>1. Others(o)
    BY <1>21, OthersStay
  <2>2. UNCHANGED <<kind, me, secret, crossed>>
    BY <1>21 DEF Die
  <2>3. me[o] \in Actors /\ Peer(me[o]) \in Actors /\ Peer(me[o]) # me[o]
    BY <1>0, <1>21, PeerIsOther DEF Die, Return, Goto, Fault
  <2>4. rows' = rows
    BY <1>0, <1>21 DEF Die
  <2>5. ~crossed => \A p \in Operations \ {o} : Active(p) =>
          /\ kind[o] \in {"create", "delete"} => kind[p] = "access"
          /\ kind[o] \in {"create", "delete", "approve"} => kind[p] \in
             {"access", "approve"}
    BY <1>0, <1>21, NothingBeside DEF Active, Die, Return, Goto, Fault
  <2> QED
    BY <1>0, <1>21, <2>1, <2>2, <2>3, <2>4, NoRowAssumption,
       MaxFaultsAssumption, <2>5 DEF Others, Die, Return, Goto, Fault
<1>22. CASE UNCHANGED vars
  BY <1>0, <1>22 DEF vars
<1> HIDE DEF TypeOK, StepsFit, DeletionIsOnTrack, Active
<1> QED
  BY <1>1, <1>2, <1>3, <1>4, <1>5, <1>6, <1>7, <1>8, <1>9, <1>10, <1>11,
     <1>12, <1>13, <1>14, <1>15, <1>16, <1>17, <1>18, <1>19, <1>20,
     <1>21, <1>22
  DEF Next

-----------------------------------------------------------------------------
(* Between creations and deletions.                                        *)

\* Only the operation that is half done can end what is half done.
LEMMA HalfStays ==
    ASSUME NEW o \in Operations, Others(o), HalfDone, ~HalfDone'
    PROVE  Active(o) /\ (kind[o] = "create" \/ (kind[o] = "delete" /\ handler[o] = "none"))
  BY DEF HalfDone, Others, Active

\* The caller of a creation or deletion is there, when nothing went wrong.
LEMMA CallerWaits ==
    ASSUME IInv, ~crossed, faults = 0, NEW o \in Operations, Active(o),
           kind[o] \in {"create", "delete"}
    PROVE  /\ pc[o] \notin {"idle", "done"}
           /\ kind[o] = "create" /\ handler[o] = "none" =>
                 answer[o] \in {"created", "accepted"}
           /\ kind[o] = "delete" /\ handler[o] # "none" => rows[me[o]] # NoRow
  BY DEF IInv, CreationIsOnTrack, DeletionIsOnTrack

LEMMA NowMatched ==
    ASSUME IInv, ~crossed, faults = 0, ~HalfDone
    PROVE  Matched
  BY DEF IInv, RowsMatch

\* Announcements of the other operations go on.
LEMMA AnnouncementsStay ==
    ASSUME NEW o \in Operations, Others(o),
           kind'[o] = kind[o], me'[o] = me[o],
           kind[o] = "approve" /\ handler[o] # "none" => handler'[o] # "none",
           NEW y, Announced(y)
    PROVE  Announced(y)'
  BY DEF Announced, Others

LEMMA MatchedStays ==
    ASSUME UNCHANGED rows, Matched, \A y \in Actors : Announced(y) => Announced(y)'
    PROVE  Matched'
<1>1. CASE \A x \in Actors : rows[x] = NoRow
  BY <1>1 DEF Matched
<1>2. ASSUME Linked,
             \A x \in Actors :
                /\ rows[x].verified
                /\ rows[Peer(x)].approved =>
                      rows[x].peer_approved \/ Announced(Peer(x))
      PROVE  Matched'
  <2>1. Linked'
    BY <1>2 DEF Linked
  <2>2. ASSUME NEW x \in Actors
        PROVE  /\ rows'[x].verified
               /\ rows'[Peer(x)].approved =>
                     rows'[x].peer_approved \/ Announced(Peer(x))'
    BY <1>2, PeerIsOther
  <2> QED
    BY <2>1, <2>2 DEF Matched
<1> QED
  BY <1>1, <1>2 DEF Matched

\* The two rows of a creation that nothing went wrong with.
LEMMA CreationRow ==
    ASSUME IInv, ~crossed, faults = 0, NEW o \in Operations, Active(o),
           kind[o] = "create"
    PROVE  rows[me[o]] # NoRow /\ rows[me[o]].secret = o /\ rows[me[o]].verified
<1>1. rows[me[o]] = [secret |-> o, approved |-> TRUE, peer_approved |-> FALSE,
                     verified |-> TRUE]
  BY DEF IInv, CreationIsOnTrack
<1>2. rows[me[o]] \in Rows
  BY <1>1 DEF Rows
<1>3. rows[me[o]] # NoRow
  BY <1>2, NoRowAssumption DEF Rows
<1> QED
  BY <1>1, <1>3

LEMMA AcceptedRow ==
    ASSUME IInv, ~crossed, faults = 0, NEW o \in Operations, Active(o),
           kind[o] = "create", handler[o] = "none"
    PROVE  /\ rows[Peer(me[o])] # NoRow /\ rows[Peer(me[o])].secret = o
           /\ rows[Peer(me[o])].verified /\ rows[Peer(me[o])].peer_approved
           /\ answer[o] = "accepted" => ~rows[Peer(me[o])].approved
<1>1. rows[Peer(me[o])] = [secret |-> o, approved |-> answer[o] = "created",
                           peer_approved |-> TRUE, verified |-> TRUE]
  BY DEF IInv, CreationIsOnTrack
<1>2. rows[Peer(me[o])] \in Rows
  BY <1>1 DEF Rows
<1>3. rows[Peer(me[o])] # NoRow
  BY <1>2, NoRowAssumption DEF Rows
<1>4. ASSUME answer[o] = "accepted"
      PROVE  ~rows[Peer(me[o])].approved
  <2>1. rows[Peer(me[o])] = [secret |-> o, approved |-> FALSE,
                             peer_approved |-> TRUE, verified |-> TRUE]
    BY <1>1, <1>4
  <2> QED
    BY <2>1
<1> QED
  BY <1>1, <1>3, <1>4

\* Between creations and deletions the rows agree, but for announcements.
LEMMA MatchStep ==
    ASSUME ~WholeRow, IInv, [Next]_vars
    PROVE  RowsMatch'
<1>0. /\ TypeOK /\ StepsFit /\ ApprovalHolds /\ CreationIsOnTrack
      /\ DeletionIsOnTrack /\ ApprovalIsOnTrack
  BY DEF IInv
<1> USE DEF TypeOK, StepsFit, ApprovalHolds, CreationIsOnTrack,
            DeletionIsOnTrack, ApprovalIsOnTrack
<1>1. ASSUME NEW o \in Operations, NEW x \in Actors, Create(o, x)
      PROVE  RowsMatch'
  <2> SUFFICES ASSUME ~crossed', faults' = 0, ~HalfDone'
               PROVE  Matched'
    BY DEF RowsMatch
  <2>1. Others(o)
    BY <1>1, OthersStay
  <2>2. kind'[o] = "create" /\ pc'[o] = "waiting"
    BY <1>0, <1>1 DEF Create, Begin, Goto
  <2> QED
    BY <2>2 DEF HalfDone, Active
<1>2. ASSUME NEW o \in Operations, NEW x \in Actors, Approve(o, x)
      PROVE  RowsMatch'
  <2> SUFFICES ASSUME ~crossed', faults' = 0, ~HalfDone'
               PROVE  Matched'
    BY DEF RowsMatch
  <2>1. Others(o)
    BY <1>2, OthersStay
  <2>2. /\ ~crossed /\ faults = 0 /\ rows' = rows
        /\ pc[o] = "idle" /\ handler[o] = "none"
    BY <1>0, <1>2 DEF Approve, Begin
  <2>3. ~HalfDone
    BY <2>1, <2>2, HalfStays DEF Active
  <2>4. \A y \in Actors : Announced(y) => Announced(y)'
    BY <2>1, <2>2 DEF Announced, Others
  <2> QED
    BY <2>2, <2>3, <2>4, NowMatched, MatchedStays
<1>3. ASSUME NEW o \in Operations, NEW x \in Actors, Delete(o, x)
      PROVE  RowsMatch'
  <2> SUFFICES ASSUME ~crossed', faults' = 0, ~HalfDone'
               PROVE  Matched'
    BY DEF RowsMatch
  <2>1. Others(o)
    BY <1>3, OthersStay
  <2>2. /\ ~crossed /\ faults = 0 /\ rows' = rows
        /\ pc[o] = "idle" /\ handler[o] = "none"
    BY <1>0, <1>3 DEF Delete, Begin
  <2>3. ~HalfDone
    BY <2>1, <2>2, HalfStays DEF Active
  <2>4. \A y \in Actors : Announced(y) => Announced(y)'
    BY <2>1, <2>2 DEF Announced, Others
  <2> QED
    BY <2>2, <2>3, <2>4, NowMatched, MatchedStays
<1>4. ASSUME NEW o \in Operations, NEW x \in Actors, Access(o, x)
      PROVE  RowsMatch'
  <2> SUFFICES ASSUME ~crossed', faults' = 0, ~HalfDone'
               PROVE  Matched'
    BY DEF RowsMatch
  <2>1. Others(o)
    BY <1>4, OthersStay
  <2>2. /\ ~crossed /\ faults = 0 /\ rows' = rows
        /\ pc[o] = "idle" /\ handler[o] = "none"
    BY <1>0, <1>4 DEF Access, Begin
  <2>3. ~HalfDone
    BY <2>1, <2>2, HalfStays DEF Active
  <2>4. \A y \in Actors : Announced(y) => Announced(y)'
    BY <2>1, <2>2 DEF Announced, Others
  <2> QED
    BY <2>2, <2>3, <2>4, NowMatched, MatchedStays
<1>5. ASSUME NEW o \in Operations, CreateAnswered(o) PROVE RowsMatch'
  <2> SUFFICES ASSUME ~crossed', faults' = 0, ~HalfDone'
               PROVE  Matched'
    BY DEF RowsMatch
  <2>1. Others(o)
    BY <1>5, OthersStay
  <2>2. /\ ~crossed /\ faults = 0 /\ rows' = rows /\ Active(o)
        /\ kind[o] = "create" /\ kind' = kind /\ pc[o] = "waiting"
        /\ answer[o] \in {"created", "accepted"}
        /\ \/ pc'[o] = "promote"
           \/ answer[o] = "accepted" \/ rows[me[o]] = NoRow
    <3>1. /\ crossed' = crossed /\ faults' = faults /\ rows' = rows
          /\ kind' = kind
          /\ kind[o] = "create" /\ pc[o] = "waiting"
          /\ answer[o] \in {"created", "accepted"}
      BY <1>5 DEF CreateAnswered, At
    <3>2. \/ pc'[o] = "promote"
          \/ answer[o] = "accepted" \/ rows[me[o]] = NoRow
      BY <1>0, <1>5 DEF CreateAnswered, Goto
    <3> QED
      BY <3>1, <3>2 DEF Active
  <2>3. handler[o] = "none" /\ me[o] \in Actors
    BY <1>0, <2>2
  <2>4. /\ rows[me[o]] # NoRow
        /\ rows[me[o]].secret = o /\ rows[me[o]].verified
    BY <1>0, <2>2, CreationRow
  <2>5. answer[o] = "accepted"
    BY <2>2, <2>4 DEF HalfDone, Active
  <2>6. /\ rows[Peer(me[o])] # NoRow /\ rows[Peer(me[o])].secret = o
        /\ rows[Peer(me[o])].verified /\ rows[Peer(me[o])].peer_approved
        /\ ~rows[Peer(me[o])].approved
    BY <2>2, <2>3, <2>5, AcceptedRow
  <2>7. Linked'
    BY <2>2, <2>3, <2>4, <2>6, PeerIsOther DEF Linked
  <2>8. ASSUME NEW x \in Actors
        PROVE  /\ rows'[x].verified
               /\ rows'[Peer(x)].approved => rows'[x].peer_approved
    BY <2>2, <2>3, <2>4, <2>6, PeerIsOther
  <2> QED
    BY <2>7, <2>8 DEF Matched
<1>6. ASSUME NEW o \in Operations, Promote(o) PROVE RowsMatch'
  <2> SUFFICES ASSUME ~crossed', faults' = 0, ~HalfDone'
               PROVE  Matched'
    BY DEF RowsMatch
  <2>1. Others(o)
    BY <1>6, OthersStay
  <2>2. /\ ~crossed /\ faults = 0 /\ Active(o)
        /\ kind[o] = "create" /\ pc[o] = "promote"
    BY <1>0, <1>6 DEF Promote, At, Active
  <2>3. handler[o] = "none" /\ me[o] \in Actors
    BY <1>0, <2>2
  <2>4. /\ rows[me[o]] # NoRow
        /\ rows[me[o]].secret = o /\ rows[me[o]].verified
    BY <1>0, <2>2, CreationRow
  <2>5. /\ rows[Peer(me[o])] # NoRow /\ rows[Peer(me[o])].secret = o
        /\ rows[Peer(me[o])].verified /\ rows[Peer(me[o])].peer_approved
    BY <2>2, <2>3, AcceptedRow
  <2>6. \A z \in Actors :
           /\ rows'[z] = NoRow <=> rows[z] = NoRow
           /\ rows[z] # NoRow =>
                 /\ rows'[z].secret = rows[z].secret
                 /\ rows'[z].verified = rows[z].verified
                 /\ rows'[z].peer_approved <=> (rows[z].peer_approved \/ z =
                    me[o])
    BY <1>6, <2>3, ColumnIsSet DEF Promote
  <2>7. Linked'
    BY <2>3, <2>4, <2>5, <2>6, PeerIsOther DEF Linked
  <2>8. ASSUME NEW x \in Actors
        PROVE  rows'[x].verified /\ rows'[x].peer_approved
    BY <2>3, <2>4, <2>5, <2>6, PeerIsOther
  <2> QED
    BY <2>7, <2>8 DEF Matched
<1>7. ASSUME NEW o \in Operations, CreateFailed(o) PROVE RowsMatch'
  <2> SUFFICES ASSUME ~crossed', faults' = 0, ~HalfDone'
               PROVE  Matched'
    BY DEF RowsMatch
  <2>1. Others(o)
    BY <1>7, OthersStay
  <2>2. /\ ~crossed /\ kind[o] = "create" /\ pc[o] = "waiting"
        /\ \/ answer[o] = "refused" /\ faults' = faults
           \/ Fault
    BY <1>7 DEF CreateFailed, At
  <2>3. faults = 0 /\ answer[o] = "refused"
    BY <1>0, <2>2, MaxFaultsAssumption DEF Fault
  <2>4. Active(o)
    BY <2>2 DEF Active
  <2> QED
    BY <1>0, <2>2, <2>3, <2>4
<1>8. ASSUME NEW o \in Operations, Accept(o) PROVE RowsMatch'
  <2> SUFFICES ASSUME ~crossed', faults' = 0, ~HalfDone'
               PROVE  Matched'
    BY DEF RowsMatch
  <2>1. Others(o)
    BY <1>8, OthersStay
  <2>2. /\ ~crossed /\ pc' = pc /\ kind' = kind
        /\ kind[o] = "create" /\ handler[o] # "none"
        /\ UNCHANGED faults \/ Fault
    BY <1>8 DEF Accept, Handles
  <2>3. faults = 0
    BY <1>0, <2>2, MaxFaultsAssumption DEF Fault
  <2>4. pc[o] \notin {"idle", "done"}
    BY <2>2, <2>3, CallerWaits DEF Active
  <2> QED
    BY <2>2, <2>4 DEF HalfDone, Active
<1>9. ASSUME NEW o \in Operations, Authenticate(o) PROVE RowsMatch'
  <2> SUFFICES ASSUME ~crossed', faults' = 0, ~HalfDone'
               PROVE  Matched'
    BY DEF RowsMatch
  <2>1. Others(o)
    BY <1>9, OthersStay
  <2>2. /\ ~crossed /\ faults = 0 /\ rows' = rows
        /\ pc' = pc /\ kind' = kind /\ me' = me
        /\ handler[o] # "none" /\ (kind[o] = "approve" => handler'[o] # "none")
    BY <1>0, <1>9 DEF Authenticate, Load, Step
  <2>3. ~HalfDone
    <3> SUFFICES ASSUME HalfDone
                 PROVE  FALSE
      OBVIOUS
    <3>1. kind[o] = "create" /\ Active(o)
      BY <2>1, <2>2, HalfStays
    <3>2. pc'[o] \notin {"idle", "done"} /\ kind'[o] = "create"
      BY <2>2, <3>1, CallerWaits
    <3> QED
      BY <3>2 DEF HalfDone, Active
  <2>4. \A y \in Actors : Announced(y) => Announced(y)'
    BY <2>1, <2>2, AnnouncementsStay
  <2> QED
    BY <2>2, <2>3, <2>4, NowMatched, MatchedStays
<1>10. ASSUME NEW o \in Operations, RecordTrustUsage(o) PROVE RowsMatch'
  <2> SUFFICES ASSUME ~crossed', faults' = 0, ~HalfDone'
               PROVE  Matched'
    BY DEF RowsMatch
  <2>1. Others(o)
    BY <1>10, OthersStay
  <2>2. /\ ~crossed /\ faults = 0 /\ rows' = rows
        /\ pc' = pc /\ kind' = kind /\ me' = me
        /\ handler[o] # "none" /\ (kind[o] = "approve" => handler'[o] # "none")
    BY <1>0, <1>10 DEF RecordTrustUsage, Put, Step
  <2>3. ~HalfDone
    <3> SUFFICES ASSUME HalfDone
                 PROVE  FALSE
      OBVIOUS
    <3>1. kind[o] = "create" /\ Active(o)
      BY <2>1, <2>2, HalfStays
    <3>2. pc'[o] \notin {"idle", "done"} /\ kind'[o] = "create"
      BY <2>2, <3>1, CallerWaits
    <3> QED
      BY <3>2 DEF HalfDone, Active
  <2>4. \A y \in Actors : Announced(y) => Announced(y)'
    BY <2>1, <2>2, AnnouncementsStay
  <2> QED
    BY <2>2, <2>3, <2>4, NowMatched, MatchedStays
<1>11. ASSUME NEW o \in Operations, NotAuthenticated(o) PROVE RowsMatch'
  <2> SUFFICES ASSUME ~crossed', faults' = 0, ~HalfDone'
               PROVE  Matched'
    BY DEF RowsMatch
  <2>1. Others(o)
    BY <1>11, OthersStay
  <2>2. /\ ~crossed /\ faults = 0 /\ rows' = rows
        /\ pc' = pc /\ kind' = kind /\ me' = me
        /\ handler[o] # "none" /\ ~Knows(o)
    BY <1>0, <1>11 DEF NotAuthenticated, Handles, Step
  <2>3. ~HalfDone
    <3> SUFFICES ASSUME HalfDone
                 PROVE  FALSE
      OBVIOUS
    <3>1. kind[o] = "create" /\ Active(o)
      BY <2>1, <2>2, HalfStays
    <3>2. pc'[o] \notin {"idle", "done"} /\ kind'[o] = "create"
      BY <2>2, <3>1, CallerWaits
    <3> QED
      BY <3>2 DEF HalfDone, Active
  <2>4. Matched
    BY <2>2, <2>3, NowMatched
  <2>5. CASE \A x \in Actors : rows[x] = NoRow
    BY <2>2, <2>5 DEF Matched
  <2>6. CASE Linked
    <3>1. kind[o] = "approve" => handler'[o] # "none"
      <4>1. SUFFICES ASSUME kind[o] = "approve"
                     PROVE  FALSE
        OBVIOUS
      <4>2. me[o] \in Actors /\ secret[o] = rows[me[o]].secret
        BY <1>0, <2>2, <4>1 DEF Active
      <4> QED
        BY <2>2, <2>6, <4>1, <4>2, PeerIsOther DEF Linked, Knows, Server
    <3>2. \A y \in Actors : Announced(y) => Announced(y)'
      BY <2>1, <2>2, <3>1, AnnouncementsStay
    <3> QED
      BY <2>2, <2>4, <3>2, MatchedStays
  <2> QED
    BY <2>4, <2>5, <2>6 DEF Matched
<1>12. ASSUME NEW o \in Operations, SaveApproval(o) PROVE RowsMatch'
  <2> SUFFICES ASSUME ~crossed', faults' = 0, ~HalfDone'
               PROVE  Matched'
    BY DEF RowsMatch
  <2>1. Others(o)
    BY <1>12, OthersStay
  <2>2. /\ ~crossed /\ faults = 0 /\ kind[o] = "approve"
        /\ kind' = kind /\ me' = me
    BY <1>12 DEF SaveApproval, At, Handles
  <2>3. me[o] \in Actors
    BY <1>0, <2>2
  <2>4. ~HalfDone
    BY <2>1, <2>2, HalfStays
  <2>5. Matched
    BY <2>2, <2>4, NowMatched
  <2>6. \A z \in Actors :
           /\ rows'[z] = NoRow <=> rows[z] = NoRow
           /\ rows[z] # NoRow =>
                 /\ rows'[z].secret = rows[z].secret
                 /\ rows'[z].verified = rows[z].verified
                 /\ rows'[z].approved <=> (rows[z].approved \/ z = me[o])
                 /\ rows'[z].peer_approved <=> rows[z].peer_approved
    BY <1>12, <2>3, PeerIsOther, ColumnIsSet DEF SaveApproval
  <2>7. CASE \A x \in Actors : rows[x] = NoRow
    BY <2>6, <2>7 DEF Matched
  <2>8. ASSUME Linked,
               \A x \in Actors :
                  /\ rows[x].verified
                  /\ rows[Peer(x)].approved =>
                        rows[x].peer_approved \/ Announced(Peer(x))
        PROVE  Matched'
    <3>1. Linked'
      BY <2>6, <2>8, PeerIsOther DEF Linked
    <3>2. handler[o] = "none"
      BY <1>0, <1>12 DEF SaveApproval, At
    <3>3. \A y \in Actors : Announced(y) => Announced(y)'
      BY <2>1, <2>2, <3>2, AnnouncementsStay
    <3>4. ASSUME NEW y \in Actors, y = me[o], ~rows[y].approved
          PROVE  Announced(y)'
      <4>1. copy[o].approved => rows[me[o]].approved
        BY <1>0, <1>12, <2>2 DEF SaveApproval, At
      <4>2. ~copy[o].approved => handler'[o] = "sent"
        BY <1>0, <1>12 DEF SaveApproval, Step
      <4> QED
        BY <2>2, <3>4, <4>1, <4>2 DEF Announced
    <3>5. ASSUME NEW x \in Actors
          PROVE  /\ rows'[x].verified
                 /\ rows'[Peer(x)].approved =>
                       rows'[x].peer_approved \/ Announced(Peer(x))'
      <4>1. rows[x] # NoRow /\ rows[Peer(x)] # NoRow /\ Peer(x) \in Actors
        BY <2>8, PeerIsOther DEF Linked
      <4>2. CASE Peer(x) = me[o]
        BY <2>6, <2>8, <3>3, <3>4, <4>1, <4>2
      <4>3. CASE Peer(x) # me[o]
        BY <2>6, <2>8, <3>3, <4>1, <4>3
      <4> QED
        BY <4>2, <4>3
    <3> QED
      BY <3>1, <3>5 DEF Matched
  <2> QED
    BY <2>5, <2>7, <2>8 DEF Matched
<1>13. ASSUME NEW o \in Operations, Notified(o) PROVE RowsMatch'
  <2> SUFFICES ASSUME ~crossed', faults' = 0, ~HalfDone'
               PROVE  Matched'
    BY DEF RowsMatch
  <2>1. Others(o)
    BY <1>13, OthersStay
  <2>2. /\ ~crossed /\ faults = 0 /\ rows' = rows
        /\ pc' = pc /\ kind' = kind /\ me' = me
        /\ handler[o] # "none" /\ kind[o] = "approve"
        /\ rows[Peer(me[o])] # NoRow => handler'[o] # "none" 
    BY <1>0, <1>13 DEF Notified, Handles, Step
  <2>3. ~HalfDone
    <3> SUFFICES ASSUME HalfDone
                 PROVE  FALSE
      OBVIOUS
    <3>1. kind[o] = "create" /\ Active(o)
      BY <2>1, <2>2, HalfStays
    <3>2. pc'[o] \notin {"idle", "done"} /\ kind'[o] = "create"
      BY <2>2, <3>1, CallerWaits
    <3> QED
      BY <3>2 DEF HalfDone, Active
  <2>4. Matched
    BY <2>2, <2>3, NowMatched
  <2>5. CASE \A x \in Actors : rows[x] = NoRow
    BY <2>2, <2>5 DEF Matched
  <2>6. CASE Linked
    <3>1. kind[o] = "approve" => handler'[o] # "none"
      <4>1. me[o] \in Actors
        BY <1>0, <2>2
      <4> QED
        BY <2>2, <2>6, <4>1, PeerIsOther DEF Linked
    <3>2. \A y \in Actors : Announced(y) => Announced(y)'
      BY <2>1, <2>2, <3>1, AnnouncementsStay
    <3> QED
      BY <2>2, <2>4, <3>2, MatchedStays
  <2> QED
    BY <2>4, <2>5, <2>6 DEF Matched
<1>14. ASSUME NEW o \in Operations, NoteApproval(o) PROVE RowsMatch'
  <2> SUFFICES ASSUME ~crossed', faults' = 0, ~HalfDone'
               PROVE  Matched'
    BY DEF RowsMatch
  <2>1. Others(o)
    BY <1>14, OthersStay
  <2>2. /\ ~crossed /\ faults = 0 /\ kind[o] = "approve"
        /\ kind' = kind /\ me' = me
    BY <1>14 DEF NoteApproval, At, Handles
  <2>3. me[o] \in Actors
    BY <1>0, <2>2
  <2>4. ~HalfDone
    BY <2>1, <2>2, HalfStays
  <2>5. Matched
    BY <2>2, <2>4, NowMatched
  <2>6. \A z \in Actors :
           /\ rows'[z] = NoRow <=> rows[z] = NoRow
           /\ rows[z] # NoRow =>
                 /\ rows'[z].secret = rows[z].secret
                 /\ rows'[z].verified = rows[z].verified
                 /\ rows'[z].peer_approved <=> (rows[z].peer_approved \/ z =
                    Peer(me[o]))
                 /\ rows'[z].approved <=> rows[z].approved
    BY <1>14, <2>3, PeerIsOther, ColumnIsSet DEF NoteApproval
  <2>7. CASE \A x \in Actors : rows[x] = NoRow
    BY <2>6, <2>7 DEF Matched
  <2>8. ASSUME Linked,
               \A x \in Actors :
                  /\ rows[x].verified
                  /\ rows[Peer(x)].approved =>
                        rows[x].peer_approved \/ Announced(Peer(x))
        PROVE  Matched'
    <3>1. Linked'
      BY <2>6, <2>8, PeerIsOther DEF Linked
    <3>2. ASSUME NEW y \in Actors, y # me[o], Announced(y)
          PROVE  Announced(y)'
      BY <2>1, <2>2, <3>2 DEF Announced, Others
    <3>5. ASSUME NEW x \in Actors
          PROVE  /\ rows'[x].verified
                 /\ rows'[Peer(x)].approved =>
                       rows'[x].peer_approved \/ Announced(Peer(x))'
      <4>1. rows[x] # NoRow /\ rows[Peer(x)] # NoRow /\ Peer(x) \in Actors
        BY <2>8, PeerIsOther DEF Linked
      <4>2. CASE x = Peer(me[o])
        BY <2>6, <2>8, <4>1, <4>2
      <4>3. CASE x # Peer(me[o])
        <5>1. Peer(x) # me[o]
          BY <4>3, PeerIsOther
        <5> QED
          BY <2>6, <2>8, <3>2, <4>1, <4>3, <5>1
      <4> QED
        BY <4>2, <4>3
    <3> QED
      BY <3>1, <3>5 DEF Matched
  <2> QED
    BY <2>5, <2>7, <2>8 DEF Matched
<1>15. ASSUME NEW o \in Operations, DeleteRequested(o) PROVE RowsMatch'
  <2> SUFFICES ASSUME ~crossed', faults' = 0, ~HalfDone'
               PROVE  Matched'
    BY DEF RowsMatch
  <2>1. Others(o)
    BY <1>15, OthersStay
  <2>2. /\ ~crossed /\ faults = 0 /\ rows' = rows
        /\ pc' = pc /\ kind' = kind /\ me' = me
        /\ handler[o] # "none" /\ kind[o] = "delete"
    BY <1>0, <1>15 DEF DeleteRequested, Handles
  <2>3. ~HalfDone
    <3> SUFFICES ASSUME HalfDone
                 PROVE  FALSE
      OBVIOUS
    <3>1. kind[o] = "create" /\ Active(o)
      BY <2>1, <2>2, HalfStays
    <3>2. pc'[o] \notin {"idle", "done"} /\ kind'[o] = "create"
      BY <2>2, <3>1, CallerWaits
    <3> QED
      BY <3>2 DEF HalfDone, Active
  <2>4. \A y \in Actors : Announced(y) => Announced(y)'
    BY <2>1, <2>2, AnnouncementsStay
  <2> QED
    BY <2>2, <2>3, <2>4, NowMatched, MatchedStays
<1>16. ASSUME NEW o \in Operations, PeerRemoves(o) PROVE RowsMatch'
  <2> SUFFICES ASSUME ~crossed', faults' = 0, ~HalfDone'
               PROVE  Matched'
    BY DEF RowsMatch
  <2>1. Others(o)
    BY <1>16, OthersStay
  <2>2. /\ ~crossed /\ faults = 0 /\ pc' = pc /\ kind' = kind
        /\ kind[o] = "delete" /\ handler[o] # "none" /\ handler'[o] = "none"
    BY <1>0, <1>16 DEF PeerRemoves, Handles, Step
  <2>3. pc[o] \notin {"idle", "done"}
    BY <2>2, CallerWaits DEF Active
  <2> QED
    BY <2>2, <2>3 DEF HalfDone, Active
<1>17. ASSUME NEW o \in Operations, DeleteAnswered(o) PROVE RowsMatch'
  <2> SUFFICES ASSUME ~crossed', faults' = 0, ~HalfDone'
               PROVE  Matched'
    BY DEF RowsMatch
  <2>1. Others(o)
    BY <1>17, OthersStay
  <2>2. kind'[o] = "delete" /\ pc'[o] = "remove" /\ handler'[o] = "none"
    BY <1>0, <1>17 DEF DeleteAnswered, At, Goto
  <2> QED
    BY <2>2 DEF HalfDone, Active
<1>18. ASSUME NEW o \in Operations, DeleteFailed(o) PROVE RowsMatch'
  <2> SUFFICES ASSUME ~crossed', faults' = 0, ~HalfDone'
               PROVE  Matched'
    BY DEF RowsMatch
  <2>1. Others(o)
    BY <1>18, OthersStay
  <2>2. /\ ~crossed /\ kind[o] = "delete" /\ pc[o] = "waiting"
        /\ \/ answer[o] = "refused" /\ faults' = faults
           \/ Fault
    BY <1>18 DEF DeleteFailed, At
  <2>3. faults = 0 /\ answer[o] = "refused"
    BY <1>0, <2>2, MaxFaultsAssumption DEF Fault
  <2>4. Active(o)
    BY <2>2 DEF Active
  <2> QED
    BY <1>0, <2>2, <2>3, <2>4
<1>19. ASSUME NEW o \in Operations, Remove(o) PROVE RowsMatch'
  <2> SUFFICES ASSUME ~crossed', faults' = 0, ~HalfDone'
               PROVE  Matched'
    BY DEF RowsMatch
  <2>1. Others(o)
    BY <1>19, OthersStay
  <2>2. /\ ~crossed /\ faults = 0 /\ kind[o] = "delete" /\ pc[o] = "remove"
        /\ rows' = [rows EXCEPT ![me[o]] = NoRow]
    BY <1>0, <1>19 DEF Remove, At, Put
  <2>3. me[o] \in Actors /\ rows[Peer(me[o])] = NoRow
    BY <1>0, <2>2 DEF Active
  <2>4. \A x \in Actors : rows'[x] = NoRow
    BY <1>0, <2>2, <2>3, PeerIsOther
  <2> QED
    BY <2>4 DEF Matched
<1>20. ASSUME NEW o \in Operations, Lose(o) PROVE RowsMatch'
  <2>1. faults' # 0
    BY <1>0, <1>20, MaxFaultsAssumption DEF Lose, Fault
  <2> QED
    BY <2>1 DEF RowsMatch
<1>21. ASSUME NEW o \in Operations, Die(o) PROVE RowsMatch'
  <2>1. faults' # 0
    BY <1>0, <1>21, MaxFaultsAssumption DEF Die, Fault
  <2> QED
    BY <2>1 DEF RowsMatch
<1>22. ASSUME UNCHANGED vars PROVE RowsMatch'
  <2> SUFFICES ASSUME ~crossed', faults' = 0, ~HalfDone'
               PROVE  Matched'
    BY DEF RowsMatch
  <2>1. ~crossed /\ faults = 0 /\ ~HalfDone /\ rows' = rows
    BY <1>22 DEF vars, HalfDone, Active
  <2>2. \A y \in Actors : Announced(y) => Announced(y)'
    BY <1>22 DEF vars, Announced
  <2> QED
    BY <2>1, <2>2, NowMatched, MatchedStays
<1> HIDE DEF TypeOK, StepsFit, ApprovalHolds, CreationIsOnTrack,
            DeletionIsOnTrack, ApprovalIsOnTrack
<1> QED
  BY <1>1, <1>2, <1>3, <1>4, <1>5, <1>6, <1>7, <1>8, <1>9, <1>10, <1>11,
     <1>12, <1>13, <1>14, <1>15, <1>16, <1>17, <1>18, <1>19, <1>20,
     <1>21, <1>22
  DEF Next

-----------------------------------------------------------------------------
(* The theorems.                                                           *)

LEMMA InitHolds == Init => IInv
<1> SUFFICES ASSUME Init
             PROVE  IInv
  OBVIOUS
<1>1. TypeOK
  <2>1. faults \in 0..MaxFaults
    BY MaxFaultsAssumption DEF Init
  <2> QED
    BY <2>1 DEF Init, TypeOK, Kinds, Answers
<1>2. StepsFit /\ AreAlone
  BY DEF Init, StepsFit, AreAlone, Active
<1>3. SecretsAreKnown /\ CreationHolds /\ PeerIsUndecided /\ ApprovalHolds
  BY DEF Init, SecretsAreKnown, CreationHolds, PeerIsUndecided, ApprovalHolds
<1>4. CreationIsOnTrack /\ DeletionIsOnTrack /\ ApprovalIsOnTrack
  BY DEF Init, CreationIsOnTrack, DeletionIsOnTrack, ApprovalIsOnTrack, Active
<1>5. ApprovalIsMutual
  BY PeerIsOther DEF Init, ApprovalIsMutual, Linked
<1>6. RowsMatch
  BY DEF Init, RowsMatch, Matched
<1> QED
  BY <1>1, <1>2, <1>3, <1>4, <1>5, <1>6 DEF IInv

\* On the backend that updates columns, every step keeps the invariant.
THEOREM Invariance ==
    ASSUME ~WholeRow
    PROVE  Spec => []IInv
<1>1. Init => IInv
  BY InitHolds
<1>2. IInv /\ [Next]_vars => IInv'
  BY TypeStep, FitStep, AloneStep, KnownStep, CreationStep, UndecidedStep,
     ApprovalStep, MutualStep, OnTrackStep, PeerFirstStep, AnnouncedStep,
     MatchStep
  DEF IInv
<1> QED
  BY <1>1, <1>2, PTL DEF Spec

\* What an actor knows of the other's approval is true at any time, whatever
\* is lost, unless a creation or deletion overlapped with another change.
THEOREM ApprovalsAreMutual ==
    ASSUME ~WholeRow
    PROVE  Spec => []ApprovalIsMutual
<1>1. IInv => ApprovalIsMutual
  BY DEF IInv
<1> QED
  BY <1>1, Invariance, PTL

\* When all is quiet and nothing was lost or crossed, both actors have a row
\* or none, and the rows agree.
LEMMA QuietRowsAgree ==
    ASSUME IInv
    PROVE  RowsAgree
<1> SUFFICES ASSUME Quiet, ~crossed, faults = 0, ~\A x \in Actors : rows[x] = NoRow
             PROVE  /\ Linked
                    /\ \A x \in Actors :
                         /\ rows[x].peer_approved = rows[Peer(x)].approved
                         /\ rows[x].verified
  BY DEF RowsAgree
<1>1. ~HalfDone
  BY DEF HalfDone, Quiet
<1>2. /\ Linked
      /\ \A x \in Actors :
           /\ rows[x].verified
           /\ rows[Peer(x)].approved => rows[x].peer_approved \/ Announced(Peer(x))
  BY <1>1, NowMatched DEF Matched
<1>3. ASSUME NEW x \in Actors
      PROVE  rows[x].peer_approved = rows[Peer(x)].approved
  <2>1. ~Announced(Peer(x))
    BY DEF Announced, Quiet, Active
  <2>2. rows[x].peer_approved <=> rows[Peer(x)].approved
    BY <1>2, <2>1 DEF IInv, ApprovalIsMutual
  <2>3. rows[x] \in Rows /\ rows[Peer(x)] \in Rows
    BY <1>2, PeerIsOther, RowsAreRecords DEF Linked
  <2>4. rows[x].peer_approved \in BOOLEAN /\ rows[Peer(x)].approved \in BOOLEAN
    BY <2>3 DEF Rows
  <2> QED
    BY <2>2, <2>4
<1> QED
  BY <1>2, <1>3

THEOREM TheRowsAgree ==
    ASSUME ~WholeRow
    PROVE  Spec => []RowsAgree
<1>1. IInv => RowsAgree
  BY QuietRowsAgree
<1> QED
  BY <1>1, Invariance, PTL
=============================================================================
