--------------------------- MODULE ActorLifecycle ---------------------------
(***************************************************************************)
(* Creation and deletion of actors (actingweb/actor.py, handlers/root.py)  *)
(* and the deletion tombstones (actingweb/deletion.py) that let a webhook  *)
(* of the application, called back by a provider while the actor is being  *)
(* wiped, find out that it must not write.                                 *)
(*                                                                         *)
(* A step is one access to a database.  A creation may name its id, and    *)
(* with delete=True it first deletes the actors of its creator.  What the  *)
(* actor_created hook and the webhook write is left open: rows.  An id is  *)
(* inserted once, as the primary key of PostgreSQL has it; DynamoDB reads  *)
(* and then writes.                                                        *)
(***************************************************************************)
EXTENDS Integers, FiniteSets

CONSTANTS
    Ids,            \* Actor ids.
    Creators,
    Operations,     \* Creations, deletions and webhooks, each once.
    MaxFaults,      \* Bound on deaths and failed accesses to the database.
    Nobody          \* No actor row; no id.

ASSUME IdsAssumption == IsFiniteSet(Ids) /\ Nobody \notin Ids
ASSUME CreatorsAssumption == Nobody \notin Creators
ASSUME MaxFaultsAssumption == MaxFaults \in Nat

VARIABLES
    row,            \* The creator of each actor in the database.
    data,           \* Of each id, the stores with rows of it.
    tombstone,      \* The ids with a tombstone.
    (* Each operation. *)
    kind, pc,
    id,             \* The actor it creates, deletes or writes to.
    creator,        \* Of a creation.
    doomed,         \* Of a creation: actors it has yet to delete.
    created,        \* Of a creation: was its row persisted?
    caused,         \* Of a webhook: is it the answer to a cancellation?
    (* What was observed. *)
    cancelled,      \* Ids whose actor_deleted hook has run.
    cleared,        \* Ids whose tombstone a creation has taken away.
    unmarked,       \* Ids whose tombstone could not be written.
    stray,          \* Ids with rows written in spite of the tombstone, or
                    \* by a creation without a row.
    entangled,      \* Ids created while one deletion of them went on, or
                    \* deleted while a creation had its tombstone to clear.
    faults

vars == <<row, data, tombstone, kind, pc, id, creator, doomed, created, caused,
          cancelled, cleared, unmarked, stray, entangled, faults>>
observed == <<cancelled, cleared, unmarked, stray, entangled>>

Stores == {"properties", "subscriptions", "trusts", "buckets"}
Wipe == Stores \cup {"row"}
Steps == Wipe \cup {"idle", "premark", "hook", "load", "mark", "insert", "clear",
                    "created", "status", "write", "done"}

TypeOK ==
    /\ row \in [Ids -> Creators \cup {Nobody}]
    /\ data \in [Ids -> SUBSET Stores]
    /\ tombstone \in SUBSET Ids
    /\ kind \in [Operations -> {"none", "create", "delete", "webhook"}]
    /\ pc \in [Operations -> Steps]
    /\ id \in [Operations -> Ids \cup {Nobody}]
    /\ creator \in [Operations -> Creators \cup {Nobody}]
    /\ doomed \in [Operations -> SUBSET Ids]
    /\ created \in [Operations -> BOOLEAN]
    /\ caused \in [Operations -> BOOLEAN]
    /\ cancelled \in SUBSET Ids /\ cleared \in SUBSET Ids
    /\ unmarked \in SUBSET Ids
    /\ stray \in SUBSET Ids /\ entangled \in SUBSET Ids
    /\ faults \in 0..MaxFaults

Init ==
    /\ row = [i \in Ids |-> Nobody]
    /\ data = [i \in Ids |-> {}]
    /\ tombstone = {}
    /\ kind = [o \in Operations |-> "none"]
    /\ pc = [o \in Operations |-> "idle"]
    /\ id = [o \in Operations |-> Nobody]
    /\ creator = [o \in Operations |-> Nobody]
    /\ doomed = [o \in Operations |-> {}]
    /\ created = [o \in Operations |-> FALSE]
    /\ caused = [o \in Operations |-> FALSE]
    /\ cancelled = {} /\ cleared = {} /\ unmarked = {} /\ stray = {}
    /\ entangled = {}
    /\ faults = 0

-----------------------------------------------------------------------------
(* Helpers.                                                                *)

Active(o) == pc[o] \notin {"idle", "done"}
Quiet == \A o \in Operations : ~Active(o)

\* The actor an operation is about to wipe: a creation has one at a time.
Victim(o) == IF kind[o] = "create"
             THEN IF doomed[o] = {} THEN Nobody ELSE CHOOSE i \in doomed[o] : TRUE
             ELSE IF kind[o] = "delete" THEN id[o] ELSE Nobody
Wipes(o, i) == pc[o] \in Wipe \cup {"premark", "hook", "mark"} /\ Victim(o) = i

Goto(o, step) == pc' = [pc EXCEPT ![o] = step]
Fault == faults < MaxFaults /\ faults' = faults + 1

\* A deletion of i begins.
Entangle(i) == entangled' =
    IF \E p \in Operations : pc[p] = "clear" /\ id[p] = i THEN entangled \cup {i}
    ELSE entangled

\* The wipe of Actor.delete, in its order.
After(step) == CASE step = "properties"    -> "subscriptions"
                 [] step = "subscriptions" -> "trusts"
                 [] step = "trusts"        -> "buckets"
                 [] step = "buckets"       -> "row"

Begin(o, k, i) ==
    /\ pc[o] = "idle"
    /\ kind' = [kind EXCEPT ![o] = k]
    /\ id' = [id EXCEPT ![o] = i]

-----------------------------------------------------------------------------
(* deletion.py.                                                            *)

MarkActorDeleted(i) ==
    \/ tombstone' = tombstone \cup {i} /\ UNCHANGED <<unmarked, faults>>
    \/ /\ Fault
       /\ unmarked' = unmarked \cup {i}
       /\ UNCHANGED tombstone

\* Failing is logged, and no more.
ClearActorTombstone(i) ==
    \/ /\ tombstone' = tombstone \ {i}
       /\ cleared' = IF i \in tombstone THEN cleared \cup {i} ELSE cleared
       /\ UNCHANGED faults
    \/ Fault /\ UNCHANGED <<tombstone, cleared>>

\* The rows written for i: in spite of a tombstone, or rightly.
WriteRows(i, stores, saved) ==
    /\ data' = [data EXCEPT ![i] = @ \cup stores]
    /\ stray' = IF i \in tombstone \/ ~saved THEN stray \cup {i} ELSE stray

-----------------------------------------------------------------------------
(* Actor.create.                                                           *)

\* The actors of this creator are looked up.  If there are any they are
\* deleted first, or the creation ends: with one of them, or refused.
Create(o, i, c, delete) ==
    /\ Begin(o, "create", i)
    /\ creator' = [creator EXCEPT ![o] = c]
    /\ LET exists == {j \in Ids : row[j] = c}
       IN  /\ doomed' = [doomed EXCEPT ![o] = IF delete THEN exists ELSE {}]
           /\ Goto(o, IF exists = {} THEN "insert"
                      ELSE IF delete THEN "load" ELSE "done")
    /\ UNCHANGED <<row, data, tombstone, created, caused, cancelled, cleared,
                   unmarked, stray, entangled, faults>>

\* The next actor to delete is loaded; one that is gone has nothing to wipe.
LoadDoomed(o) ==
    /\ pc[o] = "load"
    /\ IF doomed[o] = {}
       THEN Goto(o, "insert") /\ UNCHANGED <<doomed, entangled>>
       ELSE IF row[Victim(o)] = Nobody
       THEN /\ doomed' = [doomed EXCEPT ![o] = @ \ {Victim(o)}]
            /\ UNCHANGED <<pc, entangled>>
       ELSE Goto(o, "mark") /\ Entangle(Victim(o)) /\ UNCHANGED doomed
    /\ UNCHANGED <<row, data, tombstone, kind, id, creator, created, caused,
                   cancelled, cleared, unmarked, stray, faults>>

\* Mutant: the tombstone is cleared whether the row was written or not.
InsertOrNot(o) ==
    /\ pc[o] = "insert"
    /\ row' = IF row[id[o]] = Nobody THEN [row EXCEPT ![id[o]] = creator[o]] ELSE row
    /\ created' = [created EXCEPT ![o] = row[id[o]] = Nobody]
    /\ entangled' = IF row[id[o]] = Nobody /\ \E p \in Operations : Wipes(p, id[o])
                    THEN entangled \cup {id[o]} ELSE entangled
    /\ Goto(o, "clear")
    /\ UNCHANGED <<data, tombstone, kind, id, creator, doomed, caused, cancelled,
                   cleared, unmarked, stray, faults>>

\* The row is written if the id is free: it is not while the actor is wiped.
Insert(o) ==
    /\ pc[o] = "insert"
    /\ \/ /\ row[id[o]] = Nobody
          /\ row' = [row EXCEPT ![id[o]] = creator[o]]
          /\ created' = [created EXCEPT ![o] = TRUE]
          /\ entangled' = IF \E p \in Operations : Wipes(p, id[o])
                          THEN entangled \cup {id[o]} ELSE entangled
          /\ Goto(o, "clear")
          /\ UNCHANGED faults
       \/ /\ IF row[id[o]] = Nobody THEN Fault ELSE UNCHANGED faults
          /\ Goto(o, "created")
          /\ UNCHANGED <<row, created, entangled>>
    /\ UNCHANGED <<data, tombstone, kind, id, creator, doomed, caused, cancelled,
                   cleared, unmarked, stray>>

\* Mutant: a new actor keeps the tombstone of the one that had its id.
ClearNot(o) ==
    /\ pc[o] = "clear"
    /\ Goto(o, "created")
    /\ UNCHANGED <<row, data, tombstone, kind, id, creator, doomed, created,
                   caused, observed, faults>>

Clear(o) ==
    /\ pc[o] = "clear"
    /\ ClearActorTombstone(id[o])
    /\ Goto(o, "created")
    /\ UNCHANGED <<row, data, kind, id, creator, doomed, created, caused,
                   cancelled, unmarked, stray, entangled>>

\* trustee_root and what the actor_created hook writes, with a row or without.
Created(o) ==
    /\ pc[o] = "created"
    /\ WriteRows(id[o], Stores, created[o])
    /\ Goto(o, "done")
    /\ UNCHANGED <<row, tombstone, kind, id, creator, doomed, created, caused,
                   cancelled, cleared, unmarked, entangled, faults>>

-----------------------------------------------------------------------------
(* RootHandler.delete and Actor.delete.                                    *)

\* The actor is found.  A program calls Actor.delete, a request the handler.
Delete(o, i) ==
    /\ row[i] # Nobody
    /\ Begin(o, "delete", i)
    /\ Entangle(i)
    /\ \E step \in {"premark", "mark"} : Goto(o, step)
    /\ UNCHANGED <<row, data, tombstone, creator, doomed, created, caused,
                   cancelled, cleared, unmarked, stray, faults>>

\* Mutant: the handler leaves the tombstone to Actor.delete.
PremarkNot(o) ==
    /\ pc[o] = "premark"
    /\ Goto(o, "hook")
    /\ UNCHANGED <<row, data, tombstone, kind, id, creator, doomed, created,
                   caused, cancelled, cleared, unmarked, stray, entangled,
                   faults>>

\* The handler marks the actor before the hook ...
Premark(o) ==
    /\ pc[o] = "premark"
    /\ MarkActorDeleted(id[o])
    /\ Goto(o, "hook")
    /\ UNCHANGED <<row, data, kind, id, creator, doomed, created, caused,
                   cancelled, cleared, stray, entangled>>

\* ... in which the application cancels the actor's subscription elsewhere.
ActorDeletedHook(o) ==
    /\ pc[o] = "hook"
    /\ cancelled' = cancelled \cup {id[o]}
    /\ Goto(o, "mark")
    /\ UNCHANGED <<row, data, tombstone, kind, id, creator, doomed, created,
                   caused, cleared, unmarked, stray, entangled, faults>>

Mark(o) ==
    /\ pc[o] = "mark"
    /\ MarkActorDeleted(Victim(o))
    /\ Goto(o, "properties")
    /\ UNCHANGED <<row, data, kind, id, creator, doomed, created, caused,
                   cancelled, cleared, stray, entangled>>

\* Mutant: the row is deleted before the attribute buckets.
WipeRowEarly(o) ==
    /\ pc[o] \in Stores
    /\ data' = [data EXCEPT ![Victim(o)] = @ \ {pc[o]}]
    /\ row' = IF pc[o] = "trusts" THEN [row EXCEPT ![Victim(o)] = Nobody] ELSE row
    /\ Goto(o, After(pc[o]))
    /\ UNCHANGED <<tombstone, kind, id, creator, doomed, created, caused,
                   observed, faults>>

WipeStore(o) ==
    /\ pc[o] \in Stores
    /\ data' = [data EXCEPT ![Victim(o)] = @ \ {pc[o]}]
    /\ Goto(o, After(pc[o]))
    /\ UNCHANGED <<row, tombstone, kind, id, creator, doomed, created, caused,
                   observed, faults>>

\* The row goes last.  PostgreSQL logs a failure and goes on.
WipeRow(o) ==
    /\ pc[o] = "row"
    /\ \/ row' = [row EXCEPT ![Victim(o)] = Nobody] /\ UNCHANGED faults
       \/ Fault /\ UNCHANGED row
    /\ doomed' = [doomed EXCEPT ![o] = @ \ {Victim(o)}]
    /\ Goto(o, IF kind[o] = "create" THEN "load" ELSE "done")
    /\ UNCHANGED <<data, tombstone, kind, id, creator, created, caused, observed>>

-----------------------------------------------------------------------------
(* A webhook of the application, written as deletion.py asks.              *)

\* A provider calls: for a live actor, or because it was cancelled.
Webhook(o, i, why) ==
    /\ IF why THEN i \in cancelled ELSE row[i] # Nobody
    /\ Begin(o, "webhook", i)
    /\ caused' = [caused EXCEPT ![o] = why]
    /\ Goto(o, "status")
    /\ UNCHANGED <<row, data, tombstone, creator, doomed, created, observed, faults>>

\* DELETED: nothing is written.  NOT_DELETED and UNKNOWN: proceed.
GetDeletionStatus(o) ==
    /\ pc[o] = "status"
    /\ \/ Goto(o, IF id[o] \in tombstone THEN "done" ELSE "write")
          /\ UNCHANGED faults
       \/ Goto(o, "write") /\ Fault
    /\ UNCHANGED <<row, data, tombstone, kind, id, creator, doomed, created,
                   caused, observed>>

Write(o) ==
    /\ pc[o] = "write"
    /\ WriteRows(id[o], {"properties"}, TRUE)
    /\ Goto(o, "done")
    /\ UNCHANGED <<row, tombstone, kind, id, creator, doomed, created, caused,
                   cancelled, cleared, unmarked, entangled, faults>>

\* The process dies, or the database raises an error.
Die(o) ==
    /\ Active(o)
    /\ Fault
    /\ Goto(o, "done")
    /\ doomed' = [doomed EXCEPT ![o] = {}]
    /\ UNCHANGED <<row, data, tombstone, kind, id, creator, created, caused, observed>>

Next ==
    \E o \in Operations :
        \/ \E i \in Ids :
            \/ \E c \in Creators, delete \in BOOLEAN : Create(o, i, c, delete)
            \/ Delete(o, i)
            \/ \E why \in BOOLEAN : Webhook(o, i, why)
        \/ LoadDoomed(o) \/ Insert(o) \/ Clear(o) \/ Created(o)
        \/ Premark(o) \/ ActorDeletedHook(o) \/ Mark(o)
        \/ WipeStore(o) \/ WipeRow(o)
        \/ GetDeletionStatus(o) \/ Write(o)
        \/ Die(o)

Spec == Init /\ [][Next]_vars
-----------------------------------------------------------------------------

\* An actor is marked as long as it is being wiped, although it still
\* resolves and creations of its id come and go; unless the mark could not
\* be written, or two of its lives overlap.
WipeIsMarked ==
    \A o \in Operations : pc[o] \in Wipe =>
        Victim(o) \in tombstone \cup unmarked \cup entangled

\* A live actor is not reported as deleted, whatever happened to its id
\* before.
LiveIsNotDeleted ==
    Quiet /\ faults = 0 =>
        \A i \in Ids \ entangled : row[i] # Nobody => i \notin tombstone

\* What a deletion leaves behind can be deleted again: rows without an actor
\* were written in spite of the tombstone, or without one.
NoOrphans ==
    Quiet => \A i \in Ids \ (stray \cup unmarked \cup entangled) :
                row[i] = Nobody => data[i] = {}

\* The webhook that a cancellation brings about writes nothing, however late
\* or early it comes: the actor was marked before the hook.
CancelledIsSuppressed ==
    [][\A o \in Operations :
        pc[o] = "write" /\ pc'[o] = "done" /\ caused[o] =>
            faults' > 0 \/ id[o] \in cleared]_vars

-----------------------------------------------------------------------------
(* The inductive invariant.                                                *)

\* Which operation takes each step, and on what.
StepsFit ==
    \A o \in Operations :
        /\ pc[o] \in {"premark", "hook"} => kind[o] = "delete"
        /\ pc[o] \in {"load", "insert", "clear", "created"} => kind[o] = "create"
        /\ pc[o] \in {"mark"} \cup Wipe =>
              kind[o] = "delete" \/ (kind[o] = "create" /\ doomed[o] # {})
        /\ pc[o] \in {"status", "write"} => kind[o] = "webhook"
        /\ Active(o) => id[o] \in Ids /\ (kind[o] = "create" => creator[o] \in Creators)
        /\ pc[o] = "clear" => created[o]
        /\ created[o] => pc[o] \in {"clear", "created", "done"}

\* Where somebody wipes what somebody else has just created, two lives overlap.
OverlapIsSeen ==
    \A o, p \in Operations : \A i \in Ids :
        Wipes(o, i) /\ pc[p] = "clear" /\ id[p] = i => i \in entangled

\* Whoever has marked an actor finds it marked, or knows why not.
MarkIsKept ==
    \A o \in Operations : \A i \in Ids :
        Wipes(o, i) /\ pc[o] \in {"hook"} \cup Wipe =>
            i \in tombstone \cup unmarked \cup entangled

\* A live actor with a tombstone is being deleted, or has just been created.
MarkedIsWorkedOn ==
    faults = 0 =>
        \A i \in Ids \ entangled : row[i] # Nobody /\ i \in tombstone =>
            \E o \in Operations : Wipes(o, i) \/ (pc[o] = "clear" /\ id[o] = i)

\* A creation that has yet to clear the tombstone has its row.
NewHasRow ==
    \A o \in Operations :
        pc[o] = "clear" => row[id[o]] # Nobody \/ id[o] \in entangled

\* An actor without a row has a tombstone, or nobody has to do with it.
GoneIsMarked ==
    \A i \in Ids \ (tombstone \cup stray \cup unmarked \cup entangled) :
        row[i] = Nobody =>
            /\ i \notin cancelled
            /\ \A o \in Operations : id[o] = i =>
                  /\ pc[o] \notin {"status", "write", "clear"}
                  /\ pc[o] = "created" => ~created[o]

\* What has been wiped before each step.
WipedBefore == [step \in Wipe |->
    CASE step = "properties"    -> {}
      [] step = "subscriptions" -> {"properties"}
      [] step = "trusts"        -> {"properties", "subscriptions"}
      [] step = "buckets"       -> {"properties", "subscriptions", "trusts"}
      [] step = "row"           -> Stores]

\* What was wiped stays empty, and so does an actor without a row.
WipedIsEmpty ==
    \A i \in Ids \ (stray \cup unmarked \cup entangled) :
        /\ \A o \in Operations :
              pc[o] \in Wipe /\ Victim(o) = i => data[i] \cap WipedBefore[pc[o]] = {}
        /\ row[i] = Nobody => data[i] = {}

\* A cancelled actor was marked, and the webhook that it brings about writes
\* only where the mark has been taken away.
CancelledIsMarked ==
    /\ cancelled \subseteq tombstone \cup unmarked \cup cleared
    /\ \A o \in Operations : pc[o] = "hook" => id[o] \in tombstone \cup unmarked \cup cleared
    /\ unmarked # {} => faults > 0
    /\ \A o \in Operations : caused[o] =>
          /\ kind[o] = "webhook" /\ pc[o] # "idle" /\ id[o] \in cancelled
          /\ pc[o] = "write" => faults > 0 \/ id[o] \in cleared

IInv ==
    /\ TypeOK
    /\ StepsFit
    /\ OverlapIsSeen
    /\ MarkIsKept
    /\ MarkedIsWorkedOn
    /\ NewHasRow
    /\ GoneIsMarked
    /\ WipedIsEmpty
    /\ CancelledIsMarked
=============================================================================
