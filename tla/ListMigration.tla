--------------------------- MODULE ListMigration ---------------------------
(***************************************************************************)
(* Changing the storage format of a list property: migrate_to_v2           *)
(* (actingweb/property_list.py) and the emergency downgrade_to_v1          *)
(* (actingweb/maintenance/migrate_property_lists.py).  Both copy the items *)
(* to rows of the other format, flip the metadata row and delete the old   *)
(* rows, one database access at a time, may die at any point and are then  *)
(* run again.                                                              *)
(*                                                                         *)
(* Format 1 keeps item i in row i and the length in the metadata.  Format  *)
(* 2 keeps the items in the order of their rank keys; the keys that a copy *)
(* and an append generate are successive, here 0, 1, ...                   *)
(*                                                                         *)
(* The guides tell operators to run a rewrite while nobody writes, so      *)
(* append and clear only run between rewrites, and, for the append that    *)
(* creates a list anew, while a migration undoes its rows.  A delete may   *)
(* come at any time.                                                       *)
(***************************************************************************)
EXTENDS Integers, Sequences, FiniteSets

CONSTANTS
    MaxInitial,     \* Up to how many items the format 1 list starts with.
    MaxAppends,     \* How many appends are called, all in all,
    MaxClears,      \* how many clears,
    Clearable,      \* (of lists of which formats,)
    MaxDowngrades,  \* how many downgrades,
    MaxCrashes      \* and how many processes die.

ASSUME BoundsAssumption ==
    /\ MaxInitial \in Nat /\ MaxAppends \in Nat /\ MaxClears \in Nat
    /\ MaxDowngrades \in Nat /\ MaxCrashes \in Nat
    /\ Clearable \subseteq {1, 2}

MaxItems == MaxInitial + MaxAppends
Items == 1..MaxItems
NoItem == 0
Rows == 0..(MaxItems - 1)
\* The item rows, named by their format and key.
Names == {1, 2} \X Rows

VARIABLES
    v1, v2,         \* The item rows of the two formats.
    meta,           \* The metadata row.
    job,            \* The rewrite that is running.
    contents,       \* The items the list holds, by what its callers did.
    lapsed,         \* Was one of the windows open that the code leaves?
    appends, clears, downgrades, crashes

database == <<v1, v2, meta>>
counters == <<appends, clears, downgrades, crashes>>
rewriteVars == <<v1, v2, meta, job, contents, lapsed,
                 appends, clears, downgrades, crashes>>

\* "changed" is format_ever_changed: lists of older releases do not have it.
Metas == [format : {1, 2}, length : 0..MaxItems, changed : {"unknown", "no", "yes"}]
NoMeta == [format |-> 0, length |-> 0, changed |-> "unknown"]
NewMeta(format) == [format |-> format, length |-> 0, changed |-> "no"]

Downgrading == {"down_check", "down_read", "down_copy", "down_flip", "down_names"}
RewriteSteps ==
    {"idle", "check", "verify", "read", "recheck", "leftover", "clear", "copy",
     "meta", "flip", "rollback", "cleanup", "sweep"} \cup Downgrading
\* allowed: the operator's allow_damaged; length, orphans, values: what was
\* read; next: the row to copy; names: the rows still to delete.
NoJob == [step |-> "idle", allowed |-> FALSE, length |-> 0, orphans |-> {},
          values |-> <<>>, next |-> 0, names |-> {}]

RewriteTypeOK ==
    /\ v1 \in [Rows -> Items \cup {NoItem}]
    /\ v2 \in [Rows -> Items \cup {NoItem}]
    /\ meta \in Metas \cup {NoMeta}
    /\ job \in [step : RewriteSteps, allowed : BOOLEAN, length : 0..MaxItems,
                orphans : SUBSET Rows, values : Seq(Items), next : 0..MaxItems,
                names : SUBSET Names]
    /\ contents \in Seq(Items)
    /\ lapsed \in BOOLEAN
    /\ appends \in 0..MaxAppends /\ clears \in 0..MaxClears
    /\ downgrades \in 0..MaxDowngrades /\ crashes \in 0..MaxCrashes

RewriteInit ==
    \E n \in 0..MaxInitial :
        /\ v1 = [r \in Rows |-> IF r < n THEN r + 1 ELSE NoItem]
        /\ v2 = [r \in Rows |-> NoItem]
        /\ meta = [format |-> 1, length |-> n, changed |-> "unknown"]
        /\ job = NoJob
        /\ contents = [i \in 1..n |-> i]
        /\ lapsed = FALSE
        /\ appends = 0 /\ clears = 0 /\ downgrades = 0 /\ crashes = 0

-----------------------------------------------------------------------------
(* What the rows hold.                                                     *)

Held(rows) == {r \in Rows : rows[r] # NoItem}

\* The items of the given rows, in order.
InOrder(rows, names) ==
    LET present == Held(rows) \cap names
        Nth(i)  == CHOOSE r \in present : Cardinality({s \in present : s < r}) = i - 1
    IN  [i \in 1..Cardinality(present) |-> rows[Nth(i)]]

First(n) == {r \in Rows : r < n}
Orphans(length) == Held(v1) \ First(length)
Holes(length) == First(length) \ Held(v1)

\* What a reader of the list sees.
View ==
    CASE meta = NoMeta -> <<>>
      [] meta.format = 1 -> InOrder(v1, First(meta.length))
      [] meta.format = 2 -> InOrder(v2, Rows)

\* _is_v2: a list without a metadata row counts as format 2.
Format == IF meta = NoMeta THEN 2 ELSE meta.format

\* The names of the rows there are.
Stored(formats) == {n \in Names : n[1] \in formats
                                  /\ n[2] \in (IF n[1] = 1 THEN Held(v1) ELSE Held(v2))}
Dense(length) == {1} \X First(length)

Remove(names) ==
    /\ v1' = [r \in Rows |-> IF <<1, r>> \in names THEN NoItem ELSE v1[r]]
    /\ v2' = [r \in Rows |-> IF <<2, r>> \in names THEN NoItem ELSE v2[r]]

\* The formats whose rows sweep_foreign_format_rows removes.
Foreign ==
    CASE meta = NoMeta -> {1, 2}
      [] meta # NoMeta /\ meta.changed = "no" -> {}
      [] OTHER -> {1, 2} \ {meta.format}

-----------------------------------------------------------------------------
(* The callers of the list.                                                *)

AtRest == job.step = "idle"

\* append: to the row after the last, in the list's format; on a list that
\* does not exist it creates the list.
Append1(item) ==
    /\ meta.length \in Rows
    /\ v1' = [v1 EXCEPT ![meta.length] = item]
    /\ meta' = [meta EXCEPT !.length = @ + 1]
    /\ UNCHANGED v2

Append2(item) ==
    LET next == IF Held(v2) = {} THEN 0
                ELSE 1 + CHOOSE r \in Held(v2) : \A s \in Held(v2) : s <= r
    IN  /\ next \in Rows
        /\ v2' = [v2 EXCEPT ![next] = item]
        /\ meta' = IF meta = NoMeta THEN NewMeta(2) ELSE meta
        /\ UNCHANGED v1

AppendItem ==
    /\ AtRest \/ job.step = "rollback"
    /\ appends < MaxAppends
    /\ appends' = appends + 1
    /\ IF Format = 1 THEN Append1(MaxInitial + appends') ELSE Append2(MaxInitial + appends')
    /\ contents' = Append(contents, MaxInitial + appends')
    /\ UNCHANGED <<job, lapsed, clears, downgrades, crashes>>

\* An append to a format 1 list dies between the row and the length.
AppendDies ==
    /\ AtRest
    /\ appends < MaxAppends /\ crashes < MaxCrashes
    /\ Format = 1
    /\ meta.length \in Rows
    /\ appends' = appends + 1
    /\ crashes' = crashes + 1
    /\ v1' = [v1 EXCEPT ![meta.length] = MaxInitial + appends']
    /\ UNCHANGED <<v2, meta, job, contents, lapsed, clears, downgrades>>

\* Mutant: without the sweep.
SweptOwnOnly == IF Format = 1 THEN Dense(meta.length) ELSE Stored({2})

\* What clear and delete remove: a sweep, then the rows of the list's format.
Swept ==
    Stored(Foreign) \cup (IF Format = 1 THEN Dense(meta.length) ELSE Stored({2}))

\* clear: sweep, delete the rows, a new metadata row of the same format.
ClearList ==
    /\ AtRest
    /\ meta.format \in Clearable
    /\ clears < MaxClears
    /\ clears' = clears + 1
    /\ Remove(Swept)
    /\ meta' = NewMeta(meta.format)
    /\ contents' = <<>>
    /\ UNCHANGED <<job, lapsed, appends, downgrades, crashes>>

\* delete: sweep, delete the rows, delete the metadata row.  Between the read
\* and the write of step 5, and while a downgrade runs, nothing prevents
\* that the metadata row is then written again.
DeleteList ==
    /\ meta # NoMeta
    /\ Remove(Swept)
    /\ meta' = NoMeta
    /\ contents' = <<>>
    /\ lapsed' = (lapsed \/ job.step \in {"flip"} \cup Downgrading)
    /\ UNCHANGED <<job, counters>>

-----------------------------------------------------------------------------
(* migrate_to_v2.                                                          *)

RewriteGoto(step) == job' = [job EXCEPT !.step = step]
With(step, names) == job' = [job EXCEPT !.step = step, !.names = names]
Done == job' = NoJob

Migrate ==
    /\ AtRest
    /\ \E allowed \in BOOLEAN :
           job' = [NoJob EXCEPT !.step = "check", !.allowed = allowed]
    /\ UNCHANGED <<database, contents, lapsed, counters>>

\* Mutant: a list of format 2 needs nothing more.
CheckOnly ==
    /\ job.step = "check"
    /\ IF Format = 2 THEN Done
       ELSE job' = [job EXCEPT !.step = "verify", !.length = meta.length]
    /\ UNCHANGED <<database, contents, lapsed, counters>>

\* The format and the length come from this read of the metadata.
Check ==
    /\ job.step = "check"
    /\ IF Format = 2 THEN RewriteGoto("sweep")
       ELSE job' = [job EXCEPT !.step = "verify", !.length = meta.length]
    /\ UNCHANGED <<database, contents, lapsed, counters>>

\* verify: a list with holes or orphans is refused, unless allowed.
Verify ==
    /\ job.step = "verify"
    /\ IF Orphans(job.length) \cup Holes(job.length) # {} /\ ~job.allowed THEN Done
       ELSE job' = [job EXCEPT !.step = "read", !.orphans = Orphans(job.length)]
    /\ UNCHANGED <<database, contents, lapsed, counters>>

ReadItems ==
    /\ job.step = "read"
    /\ job' = [job EXCEPT !.step = "recheck", !.values = InOrder(v1, First(job.length))]
    /\ UNCHANGED <<database, contents, lapsed, counters>>

\* The format again, before the first write; then the scratch rows that an
\* earlier attempt left are listed.
Recheck ==
    /\ job.step = "recheck"
    /\ RewriteGoto(IF meta.format = 2 THEN "sweep" ELSE "leftover")
    /\ UNCHANGED <<database, contents, lapsed, counters>>

ListLeftover ==
    /\ job.step = "leftover"
    /\ With("clear", Stored({2}))
    /\ UNCHANGED <<database, contents, lapsed, counters>>

\* Step 3.
ClearLeftover ==
    /\ job.step = "clear"
    /\ IF job.names = {} THEN RewriteGoto("copy") /\ UNCHANGED <<v1, v2>>
       ELSE \E n \in job.names : Remove({n}) /\ With("clear", job.names \ {n})
    /\ UNCHANGED <<meta, contents, lapsed, counters>>

\* Step 4: row after row, or back to the first row when all are written.
Loop(step, then) ==
    job' = IF job.next + 1 < Len(job.values)
           THEN [job EXCEPT !.step = step, !.next = @ + 1]
           ELSE [job EXCEPT !.step = then, !.next = 0]

CopyRow ==
    /\ job.step = "copy"
    /\ v2' = IF job.values = <<>> THEN v2
             ELSE [v2 EXCEPT ![job.next] = job.values[job.next + 1]]
    /\ Loop("copy", "meta")
    /\ UNCHANGED <<v1, meta, contents, lapsed, counters>>

\* Step 5, first half: if the list is gone, undo step 4.
ReadMeta ==
    /\ job.step = "meta"
    /\ RewriteGoto(IF meta = NoMeta THEN "rollback" ELSE "flip")
    /\ UNCHANGED <<database, contents, lapsed, counters>>

\* Step 5, second half: an unconditional write.
Flip ==
    /\ job.step = "flip"
    /\ meta' = [format |-> 2, length |-> 0, changed |-> "yes"]
    /\ With("cleanup", {1} \X (First(job.length) \cup job.orphans))
    /\ UNCHANGED <<v1, v2, contents, lapsed, counters>>

\* Mutant: the rows are deleted by name.
RollbackByName ==
    /\ job.step = "rollback"
    /\ IF job.values # <<>> THEN Remove({<<2, job.next>>}) ELSE UNCHANGED <<v1, v2>>
    /\ Loop("rollback", "idle")
    /\ UNCHANGED <<meta, contents, lapsed, counters>>

\* Only a row that still holds what this attempt wrote is deleted.
Rollback ==
    /\ job.step = "rollback"
    /\ IF job.values # <<>> /\ v2[job.next] = job.values[job.next + 1]
       THEN Remove({<<2, job.next>>}) ELSE UNCHANGED <<v1, v2>>
    /\ Loop("rollback", "idle")
    /\ UNCHANGED <<meta, contents, lapsed, counters>>

\* Step 6, and the last step of a downgrade and of a sweep.
Cleanup ==
    /\ job.step = "cleanup"
    /\ IF job.names = {} THEN Done /\ UNCHANGED <<v1, v2>>
       ELSE \E n \in job.names : Remove({n}) /\ With("cleanup", job.names \ {n})
    /\ UNCHANGED <<meta, contents, lapsed, counters>>

\* sweep_foreign_format_rows: finish what an earlier attempt left.
Sweep ==
    /\ job.step = "sweep"
    /\ With("cleanup", Stored(Foreign))
    /\ UNCHANGED <<database, contents, lapsed, counters>>

-----------------------------------------------------------------------------
(* downgrade_to_v1.                                                        *)

Downgrade ==
    /\ AtRest
    /\ downgrades < MaxDowngrades
    /\ downgrades' = downgrades + 1
    /\ job' = [NoJob EXCEPT !.step = "down_check"]
    /\ UNCHANGED <<database, contents, lapsed, appends, clears, crashes>>

DownCheck ==
    /\ job.step = "down_check"
    /\ RewriteGoto(IF Format = 2 THEN "down_read" ELSE "sweep")
    /\ UNCHANGED <<database, contents, lapsed, counters>>

DownRead ==
    /\ job.step = "down_read"
    /\ job' = [job EXCEPT !.step = "down_copy", !.values = InOrder(v2, Rows)]
    /\ UNCHANGED <<database, contents, lapsed, counters>>

DownCopyRow ==
    /\ job.step = "down_copy"
    /\ v1' = IF job.values = <<>> THEN v1
             ELSE [v1 EXCEPT ![job.next] = job.values[job.next + 1]]
    /\ Loop("down_copy", "down_flip")
    /\ UNCHANGED <<v2, meta, contents, lapsed, counters>>

\* Mutant: the last index for the length.
DownFlipLastIndex ==
    /\ job.step = "down_flip"
    /\ meta' = [format |-> 1, length |-> Len(job.values) - 1, changed |-> "yes"]
    /\ RewriteGoto("down_names")
    /\ UNCHANGED <<v1, v2, contents, lapsed, counters>>

\* (An absent metadata row counts as an empty one: the list comes back.)
DownFlip ==
    /\ job.step = "down_flip"
    /\ meta' = [format |-> 1, length |-> Len(job.values), changed |-> "yes"]
    /\ RewriteGoto("down_names")
    /\ UNCHANGED <<v1, v2, contents, lapsed, counters>>

DownNames ==
    /\ job.step = "down_names"
    /\ With("cleanup", Stored({2}))
    /\ UNCHANGED <<database, contents, lapsed, counters>>

-----------------------------------------------------------------------------

\* A rewrite dies.  If its list was deleted, nothing will remove its rows
\* before the next list of that name is there.
Crash ==
    /\ ~AtRest
    /\ crashes < MaxCrashes
    /\ crashes' = crashes + 1
    /\ job' = NoJob
    /\ lapsed' = (lapsed \/ meta = NoMeta \/ job.step = "rollback")
    /\ UNCHANGED <<database, contents, appends, clears, downgrades>>

Run ==
    \/ Check \/ Verify \/ ReadItems \/ Recheck \/ ListLeftover \/ ClearLeftover
    \/ CopyRow \/ ReadMeta \/ Flip \/ Rollback \/ Cleanup \/ Sweep
    \/ DownCheck \/ DownRead \/ DownCopyRow \/ DownFlip \/ DownNames

RewriteNext ==
    \/ AppendItem \/ AppendDies \/ ClearList \/ DeleteList
    \/ Migrate \/ Downgrade \/ Run \/ Crash

RewriteSpec == RewriteInit /\ [][RewriteNext]_rewriteVars

\* A rewrite keeps running, and the operator runs the migration again.
Fairness == WF_rewriteVars(Run) /\ WF_rewriteVars(Migrate)
RewriteFairSpec == RewriteSpec /\ Fairness

-----------------------------------------------------------------------------
(* Properties.                                                             *)

\* "A crash before step 5 leaves v1 fully authoritative", a "crash after step
\* 5 leaves v2 authoritative" (migrate_to_v2): readers see, at every moment,
\* exactly the items its callers put into the list, in their order.  Except
\* in two windows that the code leaves open (lapsed): the list is deleted
\* where the rewrite will write its metadata row regardless, or the rewrite
\* of a deleted list dies; and while a migration undoes its rows.
ContentsAreKept == lapsed \/ job.step = "rollback" \/ View = contents

\* Whatever the rewrites, their deaths and the deletes do, in the windows
\* above too, readers may see too much but never miss an item: a rollback
\* does not destroy "the successor's item" (migrate_to_v2).
NothingIsLost ==
    \A i \in 1..Len(contents) : \E k \in 1..Len(View) : View[k] = contents[i]

\* "A re-run finishes the cleanup": with the operator running it again, the
\* list ends in format 2 without rows of format 1, unless it is deleted, is
\* refused as damaged, or was created in format 2 (its residue, if any, is
\* of a downgrade).
Damaged == Format = 1 /\ Orphans(meta.length) \cup Holes(meta.length) # {}
MigrationFinishes ==
    <>[](\/ meta = NoMeta \/ Damaged \/ meta.changed = "no"
         \/ Format = 2 /\ (job.step = "idle" => Held(v1) = {}))
=============================================================================
