------------------------- MODULE TrustRelationship -------------------------
(***************************************************************************)
(* A reciprocal trust between two actors: Actor.create_reciprocal_trust,   *)
(* create_verified_trust, modify_trust_and_notify, delete_reciprocal_trust *)
(* (actingweb/actor.py), the handlers of the peer they call                *)
(* (actingweb/handlers/trust.py), and the use of the shared secret         *)
(* (actingweb/auth.py).                                                    *)
(*                                                                         *)
(* Each actor keeps one row for the other.  An operation is a caller at    *)
(* one actor and a handler at the other: a request in flight.  A caller    *)
(* that times out leaves its handler running, or its request under way.    *)
(* A step is one access to a database or one message.                      *)
(*                                                                         *)
(* DynamoDB saves the whole row a handle was loaded with, and brings it    *)
(* back when it was deleted meanwhile; PostgreSQL updates the named        *)
(* columns of the row that is there.                                       *)
(***************************************************************************)
EXTENDS Integers, FiniteSets

CONSTANTS
    Actors,         \* Two actors.
    Operations,     \* What users and peers ask for, each once.
    WholeRow,       \* modify saves the whole row.
    MaxFaults,      \* Bound on timeouts, lost messages and crashes.
    NoRow, Nobody

ASSUME ActorsAssumption == IsFiniteSet(Actors) /\ Cardinality(Actors) = 2
ASSUME OperationsAssumption == IsFiniteSet(Operations)
ASSUME WholeRowAssumption == WholeRow \in BOOLEAN
ASSUME MaxFaultsAssumption == MaxFaults \in Nat
ASSUME NoRowAssumption == NoRow \notin [secret : Operations,
    approved : BOOLEAN, peer_approved : BOOLEAN, verified : BOOLEAN]

VARIABLES
    rows,           \* Of each actor, its row for the other.
    (* The caller of each operation. *)
    kind, me, pc,
    secret,         \* The one it sends: a creation makes its own.
    answer,
    (* Its handler at the peer. *)
    handler,
    copy,           \* The row a handle was last loaded with.
    verified,       \* What the handler of a creation found out.
    (* What was observed. *)
    crossed,        \* Did a creation or deletion overlap with another
                    \* change?
    faults

vars == <<rows, kind, me, pc, secret, answer, handler, copy, verified, crossed,
          faults>>

Kinds == {"create", "approve", "delete", "access"}
Rows == [secret : Operations, approved : BOOLEAN, peer_approved : BOOLEAN,
         verified : BOOLEAN]
Answers == {"none", "created", "accepted", "ok", "gone", "refused"}

TypeOK ==
    /\ rows \in [Actors -> Rows \cup {NoRow}]
    /\ kind \in [Operations -> Kinds \cup {"none"}]
    /\ me \in [Operations -> Actors \cup {Nobody}]
    /\ pc \in [Operations ->
                  {"idle", "waiting", "promote", "save", "remove", "done"}]
    /\ secret \in [Operations -> Operations \cup {Nobody}]
    /\ answer \in [Operations -> Answers]
    /\ handler \in [Operations -> {"none", "sent", "usage", "act", "write"}]
    /\ copy \in [Operations -> Rows \cup {NoRow}]
    /\ verified \in [Operations -> BOOLEAN]
    /\ crossed \in BOOLEAN
    /\ faults \in 0..MaxFaults

Init ==
    /\ rows = [x \in Actors |-> NoRow]
    /\ kind = [o \in Operations |-> "none"]
    /\ me = [o \in Operations |-> Nobody]
    /\ pc = [o \in Operations |-> "idle"]
    /\ secret = [o \in Operations |-> Nobody]
    /\ answer = [o \in Operations |-> "none"]
    /\ handler = [o \in Operations |-> "none"]
    /\ copy = [o \in Operations |-> NoRow]
    /\ verified = [o \in Operations |-> FALSE]
    /\ crossed = FALSE
    /\ faults = 0

-----------------------------------------------------------------------------
(* Helpers.                                                                *)

Peer(x) == CHOOSE y \in Actors : y # x

Active(o) == pc[o] \notin {"idle", "done"} \/ handler[o] # "none"
Quiet == \A o \in Operations : ~Active(o)

At(o, k, step) == kind[o] = k /\ pc[o] = step
Handles(o, k, step) == kind[o] = k /\ handler[o] = step
Goto(o, step) == pc' = [pc EXCEPT ![o] = step]
Step(o, step) == handler' = [handler EXCEPT ![o] = step]
Answer(o, a) == answer' = [answer EXCEPT ![o] = a]
Load(o, x) == copy' = [copy EXCEPT ![o] = rows[x]]
Put(x, row) == rows' = [rows EXCEPT ![x] = row]

\* Trust.modify of a row loaded as old, setting what to true.
Modify(x, old, what) ==
    Put(x, IF WholeRow THEN [old EXCEPT ![what] = TRUE]
           ELSE IF rows[x] = NoRow THEN NoRow
           ELSE [rows[x] EXCEPT ![what] = TRUE])

Fault == faults < MaxFaults /\ faults' = faults + 1

\* A creation or deletion and any other change of the relationship.
Clash(k, l) == {k, l} \cap {"create", "delete"} # {} /\ "access" \notin {k, l}

\* A user of x asks for an operation.
Begin(o, k, x) ==
    /\ pc[o] = "idle"
    /\ kind' = [kind EXCEPT ![o] = k]
    /\ me' = [me EXCEPT ![o] = x]
    /\ crossed' = (crossed \/ \E p \in Operations : Active(p) /\ Clash(k, kind[p]))

\* The caller returns; its locals are of no further use.
Return(o) ==
    /\ Goto(o, "done")
    /\ answer' = [answer EXCEPT ![o] = "none"]

-----------------------------------------------------------------------------
(* create_reciprocal_trust.                                                *)

\* The row is written, over any that is there, and the peer is asked.
Create(o, x) ==
    /\ Begin(o, "create", x)
    /\ Put(x, [secret |-> o, approved |-> TRUE, peer_approved |-> FALSE,
               verified |-> TRUE])
    /\ secret' = [secret EXCEPT ![o] = o]
    /\ Goto(o, "waiting")
    /\ Step(o, "sent")
    /\ UNCHANGED <<answer, copy, verified, faults>>

\* 201: the row is loaded again, to note the approval; 202: it is not needed.
CreateAnswered(o) ==
    /\ At(o, "create", "waiting")
    /\ answer[o] \in {"created", "accepted"}
    /\ IF answer[o] = "created" /\ rows[me[o]] # NoRow
       THEN Load(o, me[o]) /\ Goto(o, "promote") /\ UNCHANGED answer
       ELSE Return(o) /\ UNCHANGED copy
    /\ UNCHANGED <<rows, kind, me, secret, handler, verified, crossed, faults>>

Promote(o) ==
    /\ At(o, "create", "promote")
    /\ Modify(me[o], copy[o], "peer_approved")
    /\ Return(o)
    /\ UNCHANGED <<kind, me, secret, handler, copy, verified, crossed, faults>>

\* The request is refused or cannot be answered in time: whatever row is
\* there now is deleted.
CreateFailed(o) ==
    /\ At(o, "create", "waiting")
    /\ IF answer[o] = "refused" THEN UNCHANGED faults ELSE Fault
    /\ Put(me[o], NoRow)
    /\ Return(o)
    /\ UNCHANGED <<kind, me, secret, handler, copy, verified, crossed>>

\* The peer has verified the request or not, and writes its row.  The
\* relationship is the default one, and accepted at once, or it is not.
Accept(o) ==
    /\ Handles(o, "create", "act")
    /\ \/ \E auto \in BOOLEAN :
            /\ Put(Peer(me[o]), [secret |-> secret[o], approved |-> auto,
                                 peer_approved |-> TRUE,
                                 verified |-> verified[o]])
            /\ Answer(o, IF pc[o] # "waiting" THEN "none"
                         ELSE IF auto THEN "created" ELSE "accepted")
            /\ UNCHANGED faults
       \/ Fault /\ UNCHANGED rows
            /\ Answer(o, IF pc[o] = "waiting" THEN "refused" ELSE "none")
    /\ Step(o, "none")
    /\ UNCHANGED <<kind, me, pc, secret, copy, verified, crossed>>

-----------------------------------------------------------------------------
(* A request with the secret as its bearer token: the check of a creation  *)
(* (a GET of the peer at the caller), a notification, a deletion, or any   *)
(* other use.                                                              *)

Server(o) == IF kind[o] = "create" THEN me[o] ELSE Peer(me[o])
Knows(o) == rows[Server(o)] # NoRow /\ rows[Server(o)].secret = secret[o]

\* check_token_auth finds the row by its secret.
Authenticate(o) ==
    /\ handler[o] = "sent"
    /\ Knows(o)
    /\ Load(o, Server(o))
    /\ Step(o, "usage")
    /\ UNCHANGED <<rows, kind, me, pc, secret, answer, verified, crossed, faults>>

\* _record_trust_usage saves the time in the row.  It is no column of ours.
RecordTrustUsage(o) ==
    /\ handler[o] = "usage"
    /\ Put(Server(o), IF WholeRow THEN copy[o] ELSE rows[Server(o)])
    /\ copy' = [copy EXCEPT ![o] = NoRow]
    /\ verified' = [verified EXCEPT ![o] = kind[o] = "create"]
    /\ Step(o, IF kind[o] = "access" THEN "none" ELSE "act")
    /\ UNCHANGED <<kind, me, pc, secret, answer, crossed, faults>>

\* There is no row with this secret: a creation stays unverified, a deletion
\* is told whether there is a row at all.
NotAuthenticated(o) ==
    /\ handler[o] = "sent"
    /\ ~Knows(o)
    /\ Step(o, IF kind[o] = "create" THEN "act" ELSE "none")
    /\ Answer(o, IF kind[o] # "delete" \/ pc[o] # "waiting" THEN "none"
                 ELSE IF rows[Server(o)] = NoRow THEN "gone" ELSE "refused")
    /\ UNCHANGED <<rows, kind, me, pc, secret, copy, verified, crossed, faults>>

\* The secret is used for something else.
Access(o, x) ==
    /\ rows[x] # NoRow
    /\ Begin(o, "access", x)
    /\ secret' = [secret EXCEPT ![o] = rows[x].secret]
    /\ Goto(o, "done")
    /\ Step(o, "sent")
    /\ UNCHANGED <<rows, answer, copy, verified, faults>>

-----------------------------------------------------------------------------
(* modify_trust_and_notify.                                                *)

\* A user of x approves the relationship.
Approve(o, x) ==
    /\ rows[x] # NoRow
    /\ Begin(o, "approve", x)
    /\ secret' = [secret EXCEPT ![o] = rows[x].secret]
    /\ Load(o, x)
    /\ Goto(o, "save")
    /\ UNCHANGED <<rows, answer, handler, verified, faults>>

\* Mutant: the peer is notified although nothing was saved.
SaveApprovalNot(o) ==
    /\ At(o, "approve", "save")
    /\ UNCHANGED rows
    /\ Step(o, IF copy[o].approved THEN "none" ELSE "sent")
    /\ copy' = [copy EXCEPT ![o] = NoRow]
    /\ Return(o)
    /\ UNCHANGED <<kind, me, secret, verified, crossed, faults>>

\* The approval is saved before the peer is notified, which is done once and
\* only if it was not approved before.  The answer is not used.
SaveApproval(o) ==
    /\ At(o, "approve", "save")
    /\ Modify(me[o], copy[o], "approved")
    /\ Step(o, IF copy[o].approved THEN "none" ELSE "sent")
    /\ copy' = [copy EXCEPT ![o] = NoRow]
    /\ Return(o)
    /\ UNCHANGED <<kind, me, secret, verified, crossed, faults>>

\* The POST handler of the peer loads the row ...
Notified(o) ==
    /\ Handles(o, "approve", "act")
    /\ Load(o, Peer(me[o]))
    /\ Step(o, IF rows[Peer(me[o])] = NoRow THEN "none" ELSE "write")
    /\ UNCHANGED <<rows, kind, me, pc, secret, answer, verified, crossed, faults>>

\* ... and notes the approval in it.
NoteApproval(o) ==
    /\ Handles(o, "approve", "write")
    /\ Modify(Peer(me[o]), copy[o], "peer_approved")
    /\ copy' = [copy EXCEPT ![o] = NoRow]
    /\ Step(o, "none")
    /\ UNCHANGED <<kind, me, pc, secret, answer, verified, crossed, faults>>

-----------------------------------------------------------------------------
(* delete_reciprocal_trust.                                                *)

\* A user of x asks for the deletion: the peer's row goes first.
Delete(o, x) ==
    /\ rows[x] # NoRow
    /\ Begin(o, "delete", x)
    /\ secret' = [secret EXCEPT ![o] = rows[x].secret]
    /\ Goto(o, "waiting")
    /\ Step(o, "sent")
    /\ UNCHANGED <<rows, answer, copy, verified, faults>>

\* The DELETE handler of the peer checks that the row is there ...
DeleteRequested(o) ==
    /\ Handles(o, "delete", "act")
    /\ IF rows[Peer(me[o])] = NoRow
       THEN Step(o, "none") /\ Answer(o, IF pc[o] = "waiting" THEN "gone" ELSE "none")
       ELSE Step(o, "write") /\ UNCHANGED answer
    /\ UNCHANGED <<rows, kind, me, pc, secret, copy, verified, crossed, faults>>

\* Mutant: the peer answers without having deleted its row.
PeerRemovesNot(o) ==
    /\ Handles(o, "delete", "write")
    /\ UNCHANGED rows
    /\ Answer(o, IF pc[o] = "waiting" THEN "ok" ELSE "none")
    /\ Step(o, "none")
    /\ UNCHANGED <<kind, me, pc, secret, copy, verified, crossed, faults>>

\* ... and deletes it, after what belongs to it, without a request back.
PeerRemoves(o) ==
    /\ Handles(o, "delete", "write")
    /\ Put(Peer(me[o]), NoRow)
    /\ Answer(o, IF pc[o] = "waiting" THEN "ok" ELSE "none")
    /\ Step(o, "none")
    /\ UNCHANGED <<kind, me, pc, secret, copy, verified, crossed, faults>>

\* The peer has no row now: what belongs to ours is deleted, then the row.
DeleteAnswered(o) ==
    /\ At(o, "delete", "waiting")
    /\ answer[o] \in {"ok", "gone"}
    /\ Goto(o, "remove")
    /\ UNCHANGED <<rows, kind, me, secret, answer, handler, copy, verified,
                   crossed, faults>>

\* Any other answer, or none in time: the row is kept, to try again.
DeleteFailed(o) ==
    /\ At(o, "delete", "waiting")
    /\ \/ answer[o] = "refused" /\ UNCHANGED faults
       \/ Fault
    /\ Return(o)
    /\ UNCHANGED <<rows, kind, me, secret, handler, copy, verified, crossed>>

Remove(o) ==
    /\ At(o, "delete", "remove")
    /\ Put(me[o], NoRow)
    /\ Return(o)
    /\ UNCHANGED <<kind, me, secret, handler, copy, verified, crossed, faults>>

-----------------------------------------------------------------------------
(* The network and the processes.                                          *)

\* A request is lost, or the process that handles it dies.
Lose(o) ==
    /\ handler[o] # "none"
    /\ Fault
    /\ Step(o, "none")
    /\ copy' = [copy EXCEPT ![o] = NoRow]
    /\ UNCHANGED <<rows, kind, me, pc, secret, answer, verified, crossed>>

\* The process of the caller dies.
Die(o) ==
    /\ pc[o] \in {"waiting", "promote", "save", "remove"}
    /\ Fault
    /\ Return(o)
    /\ UNCHANGED <<rows, kind, me, secret, handler, copy, verified, crossed>>

Next ==
    \E o \in Operations :
        \/ \E x \in Actors :
            Create(o, x) \/ Approve(o, x) \/ Delete(o, x) \/ Access(o, x)
        \/ CreateAnswered(o) \/ Promote(o) \/ CreateFailed(o) \/ Accept(o)
        \/ Authenticate(o) \/ RecordTrustUsage(o) \/ NotAuthenticated(o)
        \/ SaveApproval(o) \/ Notified(o) \/ NoteApproval(o)
        \/ DeleteRequested(o) \/ PeerRemoves(o)
        \/ DeleteAnswered(o) \/ DeleteFailed(o) \/ Remove(o)
        \/ Lose(o) \/ Die(o)

Spec == Init /\ [][Next]_vars
-----------------------------------------------------------------------------

Linked == \A x \in Actors :
    rows[x] # NoRow /\ rows[Peer(x)] # NoRow
        /\ rows[x].secret = rows[Peer(x)].secret

\* When nothing is under way, nothing was lost and no two creations or
\* deletions overlapped, both actors have a row or none has.  The rows share
\* the secret, and what each knows of the other's approval is true, however
\* approvals and other uses of the trust overlapped with them.
RowsAgree ==
    Quiet /\ ~crossed /\ faults = 0 =>
        \/ \A x \in Actors : rows[x] = NoRow
        \/ /\ Linked
           /\ \A x \in Actors :
                /\ rows[x].peer_approved = rows[Peer(x)].approved
                /\ rows[x].verified

\* An actor that knows of the other's approval is right, at any time and
\* whatever is lost: the approval was saved before it was announced and no
\* later write takes it back.
ApprovalIsMutual ==
    ~crossed /\ Linked =>
        \A x \in Actors : rows[x].peer_approved => rows[Peer(x)].approved

-----------------------------------------------------------------------------
(* The inductive invariant, for the backend that updates columns.          *)

\* Which operation takes each step.
StepsFit ==
    \A o \in Operations :
        /\ kind[o] = "none" <=> pc[o] = "idle"
        /\ kind[o] # "none" => me[o] \in Actors /\ secret[o] \in Operations
        /\ pc[o] = "idle" => handler[o] = "none" /\ answer[o] = "none"
        /\ pc[o] = "waiting" => kind[o] \in {"create", "delete"}
        /\ pc[o] = "promote" => kind[o] = "create" /\ handler[o] = "none"
        /\ pc[o] = "save" => kind[o] = "approve" /\ handler[o] = "none"
        /\ pc[o] = "remove" => kind[o] = "delete" /\ handler[o] = "none"
        /\ handler[o] = "act" => kind[o] # "access"
        /\ handler[o] = "write" => kind[o] \in {"approve", "delete"}
        /\ answer[o] \in {"created", "accepted"} =>
              kind[o] = "create" /\ handler[o] = "none"
        /\ answer[o] \in {"ok", "gone"} => kind[o] = "delete" /\ handler[o] = "none"

\* As long as nothing crossed, a creation or deletion has no other change
\* beside it.
AreAlone ==
    ~crossed => \A o, p \in Operations :
        o # p /\ Active(o) /\ Active(p) => ~Clash(kind[o], kind[p])

\* A secret is that of the creation that made it, which approves at its own
\* side; the other side has it from its handler.
SecretsAreKnown ==
    /\ \A o \in Operations : kind[o] = "create" => secret[o] = o
    /\ \A x \in Actors : rows[x] # NoRow =>
          /\ kind[rows[x].secret] = "create"
          /\ me[rows[x].secret] = x => rows[x].approved
    /\ \A o \in Operations :
          kind[o] = "create" /\ handler[o] # "none" /\ rows[Peer(me[o])] # NoRow =>
              rows[Peer(me[o])].secret # o

\* A creation whose caller waits has its row, and is told the truth.
CreationHolds ==
    ~crossed => \A o \in Operations :
        kind[o] = "create" /\ pc[o] \in {"waiting", "promote"} =>
            /\ rows[me[o]] # NoRow /\ rows[me[o]].secret = o
            /\ answer[o] = "created" \/ pc[o] = "promote" =>
                  /\ rows[Peer(me[o])] # NoRow
                  /\ rows[Peer(me[o])].secret = o
                  /\ rows[Peer(me[o])].approved

\* While a creation is handled its row knows of no approval yet.
PeerIsUndecided ==
    ~crossed => \A o \in Operations :
        kind[o] = "create" /\ handler[o] # "none"
            /\ rows[me[o]] # NoRow /\ rows[me[o]].secret = o
        => ~rows[me[o]].peer_approved

\* An approval is saved before it is announced.
ApprovalHolds ==
    ~crossed => \A o \in Operations : kind[o] = "approve" =>
        /\ pc[o] = "save" =>
              /\ rows[me[o]] # NoRow /\ copy[o] # NoRow
              /\ copy[o].approved => rows[me[o]].approved
        /\ handler[o] # "none" => rows[me[o]] # NoRow /\ rows[me[o]].approved

\* A creation that nothing went wrong with: what is written so far.
CreationIsOnTrack ==
    ~crossed /\ faults = 0 => \A o \in Operations :
        kind[o] = "create" /\ Active(o) =>
            /\ pc[o] \in {"waiting", "promote"}
            /\ rows[me[o]] = [secret |-> o, approved |-> TRUE,
                              peer_approved |-> FALSE, verified |-> TRUE]
            /\ handler[o] = "act" => verified[o]
            /\ IF handler[o] # "none" THEN answer[o] = "none"
               ELSE /\ answer[o] \in {"created", "accepted"}
                    /\ rows[Peer(me[o])] =
                         [secret |-> o, approved |-> answer[o] = "created",
                          peer_approved |-> TRUE, verified |-> TRUE]

\* A deletion that nothing went wrong with: the peer's row goes first.
DeletionIsOnTrack ==
    ~crossed /\ faults = 0 => \A o \in Operations :
        kind[o] = "delete" /\ Active(o) =>
            /\ pc[o] \in {"waiting", "remove"}
            /\ IF handler[o] # "none"
               THEN /\ answer[o] = "none"
                    /\ rows[me[o]] # NoRow /\ secret[o] = rows[me[o]].secret
               ELSE /\ rows[Peer(me[o])] = NoRow
                    /\ pc[o] = "waiting" => answer[o] = "ok"

\* An approval is announced with the secret of the row.
ApprovalIsOnTrack ==
    ~crossed => \A o \in Operations : kind[o] = "approve" /\ Active(o) =>
        rows[me[o]] # NoRow /\ secret[o] = rows[me[o]].secret

\* Is a creation, or a deletion that has removed one row, under way?
HalfDone == \E o \in Operations :
    /\ Active(o)
    /\ kind[o] = "create" \/ (kind[o] = "delete" /\ handler[o] = "none")

\* Is the approval of x being announced?
Announced(x) == \E o \in Operations :
    kind[o] = "approve" /\ me[o] = x /\ handler[o] # "none"

\* The rows agree, but for approvals that are being announced.
Matched ==
    \/ \A x \in Actors : rows[x] = NoRow
    \/ /\ Linked
       /\ \A x \in Actors :
            /\ rows[x].verified
            /\ rows[Peer(x)].approved => rows[x].peer_approved \/ Announced(Peer(x))

\* Between creations and deletions the rows agree.
RowsMatch == ~crossed /\ faults = 0 /\ ~HalfDone => Matched

IInv ==
    /\ TypeOK
    /\ StepsFit
    /\ AreAlone
    /\ SecretsAreKnown
    /\ CreationHolds
    /\ PeerIsUndecided
    /\ ApprovalHolds
    /\ ApprovalIsMutual
    /\ CreationIsOnTrack
    /\ DeletionIsOnTrack
    /\ ApprovalIsOnTrack
    /\ RowsMatch
=============================================================================
