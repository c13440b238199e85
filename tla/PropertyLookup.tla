--------------------------- MODULE PropertyLookup ---------------------------
(***************************************************************************)
(* Reverse lookup of an actor by the value of an indexed property: the     *)
(* rows of the properties table and the rows of the lookup table, as the   *)
(* two backends write them (db/dynamodb/property.py and property_lookup.py,*)
(* db/postgresql/property.py and property_lookup.py, in lookup mode).      *)
(*                                                                         *)
(* A write reads the old value, stores the new one, removes the lookup row *)
(* of the old value if it is the actor's own, and makes one for the new    *)
(* value if nobody has it.  On DynamoDB each of these is an access of its  *)
(* own; on PostgreSQL all but the first are one transaction.  The deletion *)
(* of the property and the wipe of all of an actor's properties are writes *)
(* of no value.                                                            *)
(*                                                                         *)
(* Rows of different property names never meet: the module has one name.   *)
(* Whether the result of the search is the right actor matters: "the       *)
(* property's value de-facto becomes a security token" (actor.py).         *)
(***************************************************************************)
CONSTANTS
    Actors, Values,
    Requests,       \* Requests at the same time.
    Backend,        \* "dynamodb" or "postgresql".
    Overlap,        \* May the writes of one actor overlap?
    Faulty          \* May accesses fail, and processes die?

CONSTANTS NoActor, NoValue

VARIABLES
    prop,           \* The property of each actor,
    lookup,         \* and the actor that the lookup table has for a value.
    gone,           \* Actors whose own row is deleted.
    pc, actor,      \* Of each request: its step, the actor it works on,
    old, value,     \* the value it has read, and that it writes or looks for.
    (* What was observed. *)
    held,           \* The values that an actor has had,
    legacy,         \* the actors that have a value from before the table,
    answers         \* and the answers <<value, actor>> of searches.

rows == <<prop, lookup, gone>>
request == <<pc, actor, old, value>>
vars == <<rows, request, held, legacy, answers>>

NoActorOr == Actors \cup {NoActor}
NoValueOr == Values \cup {NoValue}
WriteSteps == {"save", "get_old", "delete_old", "create"}
Steps == {"idle", "scan", "load"} \cup WriteSteps

TypeOK ==
    /\ prop \in [Actors -> NoValueOr]
    /\ lookup \in [Values -> NoActorOr]
    /\ gone \in SUBSET Actors
    /\ pc \in [Requests -> Steps]
    /\ actor \in [Requests -> NoActorOr]
    /\ old \in [Requests -> NoValueOr]
    /\ value \in [Requests -> NoValueOr]
    /\ held \in [Actors -> SUBSET Values]
    /\ legacy \in SUBSET Actors
    /\ answers \in SUBSET (Values \X Actors)

\* The table starts empty, and an upgraded store may hold values already.
Init ==
    /\ prop \in [Actors -> NoValueOr]
    /\ lookup = [v \in Values |-> NoActor]
    /\ gone = {}
    /\ pc = [r \in Requests |-> "idle"]
    /\ actor = [r \in Requests |-> NoActor]
    /\ old = [r \in Requests |-> NoValue]
    /\ value = [r \in Requests |-> NoValue]
    /\ held = [a \in Actors |-> {prop[a]} \ {NoValue}]
    /\ legacy = {a \in Actors : prop[a] # NoValue}
    /\ answers = {}

Writers(a) == {r \in Requests : pc[r] \in WriteSteps /\ actor[r] = a}

Finish(r) ==
    /\ pc' = [pc EXCEPT ![r] = "idle"]
    /\ actor' = [actor EXCEPT ![r] = NoActor]
    /\ old' = [old EXCEPT ![r] = NoValue]
    /\ value' = [value EXCEPT ![r] = NoValue]

GoOn(r, step) ==
    pc' = [pc EXCEPT ![r] = step] /\ UNCHANGED <<actor, old, value>>

-----------------------------------------------------------------------------
(* Writing: DbProperty.set and delete, DbPropertyList.delete.              *)

\* Every write reads the actor's value first.
ReadOld(r, a, v) ==
    /\ pc[r] = "idle"
    /\ a \notin gone
    /\ Overlap \/ Writers(a) = {}
    /\ pc' = [pc EXCEPT ![r] = "save"]
    /\ actor' = [actor EXCEPT ![r] = a]
    /\ old' = [old EXCEPT ![r] = prop[a]]
    /\ value' = [value EXCEPT ![r] = v]
    /\ UNCHANGED <<rows, held, legacy, answers>>

Set(r, a, v) == v \in Values /\ ReadOld(r, a, v)

\* To set no value deletes what there is.
Delete(r, a) == prop[a] # NoValue /\ ReadOld(r, a, NoValue)

\* The wipe of all properties: on DynamoDB of those that it has read, on
\* PostgreSQL of whatever is there by then.
Wipe(r, a) ==
    /\ prop[a] # NoValue \/ Backend = "postgresql"
    /\ ReadOld(r, a, NoValue)

Record(a, v) ==
    /\ held' = [held EXCEPT ![a] = @ \cup ({v} \ {NoValue})]
    /\ legacy' = IF v = prop[a] THEN legacy ELSE legacy \ {a}

\* DynamoDB: the row is put or deleted, then the lookup table follows.
Save(r) ==
    /\ Backend = "dynamodb"
    /\ pc[r] = "save"
    /\ prop' = [prop EXCEPT ![actor[r]] = value[r]]
    /\ Record(actor[r], value[r])
    /\ \/ old[r] = value[r] /\ Finish(r)
       \/ old[r] # value[r] /\ old[r] = NoValue /\ GoOn(r, "create")
       \/ old[r] # value[r] /\ old[r] # NoValue /\ GoOn(r, "get_old")
    /\ UNCHANGED <<lookup, gone, answers>>

AfterOld(r) ==
    \/ value[r] = NoValue /\ Finish(r)
    \/ value[r] # NoValue /\ GoOn(r, "create")

\* A read that fails counts as no row.
GetOld(r) ==
    /\ pc[r] = "get_old"
    /\ \/ lookup[old[r]] = actor[r] /\ GoOn(r, "delete_old")
       \/ lookup[old[r]] # actor[r] /\ AfterOld(r)
       \/ Faulty /\ AfterOld(r)
    /\ UNCHANGED <<rows, held, legacy, answers>>

\* The row is deleted by its key, whosever it is by now.
DeleteOld(r) ==
    /\ pc[r] = "delete_old"
    /\ \/ lookup' = [lookup EXCEPT ![old[r]] = NoActor]
       \/ Faulty /\ UNCHANGED lookup
    /\ AfterOld(r)
    /\ UNCHANGED <<prop, gone, held, legacy, answers>>

\* The table with a row for the value, if no actor has one.
Claimed(table, a, v) ==
    [table EXCEPT ![v] = IF @ = NoActor THEN a ELSE @]

Create(r) ==
    /\ pc[r] = "create"
    /\ \/ lookup' = Claimed(lookup, actor[r], value[r])
       \/ Faulty /\ UNCHANGED lookup
    /\ Finish(r)
    /\ UNCHANGED <<prop, gone, held, legacy, answers>>

\* The table without the actor's row for the value.
Released(table, a, v) ==
    [w \in Values |-> IF w = v /\ table[w] = a THEN NoActor ELSE table[w]]

\* What the statements of one transaction make of the lookup table.
Synced(a, before, after) ==
    LET released == Released(lookup, a, before) IN
    IF before = after THEN lookup
    ELSE IF after = NoValue THEN released
    ELSE Claimed(released, a, after)

\* PostgreSQL: one transaction.  A lookup row needs the actor's own row (a
\* foreign key, looked at by the commit).
Commit(r) ==
    LET a == actor[r] table == Synced(a, old[r], value[r]) IN
    /\ Backend = "postgresql"
    /\ pc[r] = "save"
    /\ \A v \in Values : table[v] = a /\ lookup[v] # a => a \notin gone
    /\ prop' = [prop EXCEPT ![a] = value[r]]
    /\ lookup' = table
    /\ Record(a, value[r])
    /\ Finish(r)
    /\ UNCHANGED <<gone, answers>>

\* The transaction is rolled back, the put fails, or the process dies.  A
\* commit that the foreign key refuses ends the same way.
Fail(r) ==
    LET table == Synced(actor[r], old[r], value[r]) IN
    /\ pc[r] # "idle"
    /\ \/ Faulty
       \/ /\ Backend = "postgresql" /\ pc[r] = "save" /\ actor[r] \in gone
          /\ \E v \in Values :
                table[v] = actor[r] /\ lookup[v] # actor[r]
    /\ Finish(r)
    /\ UNCHANGED <<rows, held, legacy, answers>>

\* The actor's row goes, after its properties; PostgreSQL takes what is left
\* in the lookup table with it.
EndActor(a) ==
    /\ a \notin gone
    /\ Overlap \/ (prop[a] = NoValue /\ Writers(a) = {})
    /\ gone' = gone \cup {a}
    /\ lookup' = IF Backend = "dynamodb" THEN lookup
                 ELSE [v \in Values |->
                            IF lookup[v] = a THEN NoActor ELSE lookup[v]]
    /\ UNCHANGED <<prop, request, held, legacy, answers>>

-----------------------------------------------------------------------------
(* Searching: get_actor_id_from_property.                                  *)

\* Without a row, DynamoDB has nothing else to look at in a table that was
\* made without the old index; PostgreSQL scans the properties.
LookUp(r, v) ==
    /\ pc[r] = "idle"
    /\ \/ /\ lookup[v] # NoActor
          /\ actor' = [actor EXCEPT ![r] = lookup[v]]
          /\ pc' = [pc EXCEPT ![r] = "load"]
       \/ /\ lookup[v] = NoActor \/ Faulty
          /\ Backend = "postgresql"
          /\ pc' = [pc EXCEPT ![r] = "scan"]
          /\ UNCHANGED actor
    /\ value' = [value EXCEPT ![r] = v]
    /\ UNCHANGED <<rows, old, held, legacy, answers>>

Scan(r) ==
    /\ pc[r] = "scan"
    /\ \/ \E a \in Actors :
            /\ prop[a] = value[r]
            /\ actor' = [actor EXCEPT ![r] = a]
            /\ pc' = [pc EXCEPT ![r] = "load"]
            /\ UNCHANGED <<old, value>>
       \/ (\A a \in Actors : prop[a] # value[r]) /\ Finish(r)
    /\ UNCHANGED <<rows, held, legacy, answers>>

\* The property of the actor that was found is loaded.  It must be there;
\* its value is not looked at.
Load(r) ==
    /\ pc[r] = "load"
    /\ answers' = IF prop[actor[r]] = NoValue THEN answers
                  ELSE answers \cup {<<value[r], actor[r]>>}
    /\ Finish(r)
    /\ UNCHANGED <<rows, held, legacy>>

Next ==
    \/ \E r \in Requests :
        \/ \E a \in Actors :
            (\E v \in Values : Set(r, a, v)) \/ Delete(r, a) \/ Wipe(r, a)
        \/ Save(r) \/ GetOld(r) \/ DeleteOld(r) \/ Create(r)
        \/ Commit(r) \/ Fail(r)
        \/ \E v \in Values : LookUp(r, v)
        \/ Scan(r) \/ Load(r)
    \/ \E a \in Actors : EndActor(a)

Spec == Init /\ [][Next]_vars

-----------------------------------------------------------------------------
(* Properties.                                                             *)

\* A search never ends at an actor that never had the value, whatever
\* overlaps and fails (get_actor_id_from_property).
AnswersWereTrue == \A v \in Values : \A a \in Actors :
    <<v, a>> \in answers => v \in held[a]

\* What a write deletes of the lookup table is its own actor's row: the race
\* named in _update_lookup_entry ("if another actor creates the same value
\* between get() and delete()") needs two writes of one actor.
OnlyOwnRows == \A r \in Requests :
    pc[r] = "delete_old" => lookup[old[r]] = actor[r]

\* A value resolves to an actor only as long as the actor has that value, or
\* a write of the actor is about to delete the row.
RowsAreTrue == \A v \in Values : \A a \in Actors :
    lookup[v] = a =>
        \/ prop[a] = v
        \/ \E r \in Writers(a) :
            pc[r] \in {"get_old", "delete_old"} /\ old[r] = v

\* A value that only one actor has ever had resolves to it, once the write is
\* over and unless the value is older than the lookup table.
SoleHolderIsFound == \A a \in Actors :
    /\ prop[a] # NoValue
    /\ a \notin legacy \cup gone
    /\ Writers(a) = {}
    /\ \A b \in Actors \ {a} : prop[a] \notin held[b]
    => lookup[prop[a]] = a
=============================================================================
