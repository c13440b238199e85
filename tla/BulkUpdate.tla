----------------------------- MODULE BulkUpdate -----------------------------
(***************************************************************************)
(* A request that updates and deletes several items of a list by index     *)
(* (PropertiesHandler.post in actingweb/handlers/properties.py).           *)
(*                                                                         *)
(* All indexes mean the list as it was before.  A list of format 2 is read *)
(* once, and then addressed by the handles that were read: the rank of a   *)
(* row and its bytes.  Other writers may come in between, one row at a     *)
(* time.  A list of format 1 is addressed by position, which the request   *)
(* can only do alone.                                                      *)
(***************************************************************************)
EXTENDS SequencesExt, Integers

CONSTANTS
    Contents,       \* Of items.
    Formats,        \* Of lists: a subset of {1, 2}.
    MaxBefore,      \* How many items the list has before,
    MaxEntries,     \* how many the request names,
    MaxOthers       \* and how many changes others make meanwhile.

VARIABLES
    format,
    before,     \* The list when the request read it.
    items,      \* The list: rows in their order.
    entries,    \* What the request asks for.
    todo,       \* Its writes that are left.
    phase,
    theirs,     \* What others left at each rank they wrote to.
    others      \* How often they did.

bulkVars == <<format, before, items, entries, todo, phase, theirs, others>>

Nothing == "nothing"
Row(rank, content) == [rank |-> rank, content |-> content]
Entries == [index : 0..MaxBefore + MaxEntries, content : Contents \cup {Nothing}]

BulkTypeOK ==
    /\ format \in Formats
    /\ entries \in UNION {[1..n -> Entries] : n \in 1..MaxEntries}
    /\ phase \in {"start", "running", "refused", "done"}
    /\ others \in 0..MaxOthers
    /\ \A i \in DOMAIN items :
         items[i].rank \in Nat /\ items[i].content \in Contents

BulkInit ==
    /\ format \in Formats
    /\ items \in UNION {{[i \in 1..n |-> Row(i, f[i])] : f \in [1..n -> Contents]} :
                        n \in 0..MaxBefore}
    /\ entries \in UNION {[1..n -> Entries] : n \in 1..MaxEntries}
    /\ before = <<>> /\ todo = <<>> /\ theirs = <<>>
    /\ phase = "start"
    /\ others = 0

-----------------------------------------------------------------------------
(* What the entries ask for.  An entry without content is a deletion.      *)

Updates(es) == SelectSeq(es, LAMBDA e : e.content # Nothing)
Deletions(es) == SelectSeq(es, LAMBDA e : e.content = Nothing)

\* The length that the list will have, or -1 when an update is beyond it.
ProjectedLength(es, length) ==
    FoldLeft(LAMBDA n, e : IF e.index > n THEN -1 ELSE Max({n, e.index + 1}),
             length, Updates(es))

\* A later update of an index supersedes an earlier one.
FinalValues(es) ==
    [i \in {e.index : e \in ToSet(Updates(es))} |->
        Last(SelectSeq(Updates(es), LAMBDA e : e.index = i)).content]

\* Made and deleted by one request: never written.
SkipNewIndices(es, length) ==
    {e.index : e \in ToSet(Deletions(es))} \cap
        {i \in DOMAIN FinalValues(es) : i >= length}

\* Format 2, ascending: a row that was read is addressed by its handle.
HandlePlan(es, rows) ==
    LET final == FinalValues(es)
        Write(i) == IF i < Len(rows)
                    THEN [do |-> "update", row |-> rows[i + 1], content |-> final[i]]
                    ELSE [do |-> "append", content |-> final[i]]
        indexes == SetToSortSeq(DOMAIN final \ SkipNewIndices(es, Len(rows)), <)
    IN  [k \in DOMAIN indexes |-> Write(indexes[k])]

\* Mutant: the deletions are made in the order they are given.
AsGiven(es) == Deletions(es)

\* Highest index first: what is left to delete stays where it was.
Descending(es) == SortSeq(Deletions(es), LAMBDA d, e : d.index > e.index)

HandleDeletions(es, rows) ==
    LET known == SelectSeq(Descending(es), LAMBDA e : e.index < Len(rows))
    IN  [k \in DOMAIN known |->
            [do |-> "delete", row |-> rows[known[k].index + 1]]]

\* Format 1: the updates as they were given, the deletions descending.
PositionPlan(es) ==
    [k \in DOMAIN Updates(es) |->
        [do |-> "set", index |-> Updates(es)[k].index,
         content |-> Updates(es)[k].content]]

PositionDeletions(es) ==
    [k \in DOMAIN Descending(es) |->
        [do |-> "remove", index |-> Descending(es)[k].index]]

-----------------------------------------------------------------------------
(* The request.                                                            *)

\* The list is read, and the entries are all examined before any is written.
Begin ==
    /\ phase = "start"
    /\ before' = items
    /\ \/ /\ ProjectedLength(entries, Len(items)) = -1
          /\ phase' = "refused"
          /\ UNCHANGED todo
       \/ /\ ProjectedLength(entries, Len(items)) # -1
          /\ phase' = "running"
          /\ todo' = IF format = 2
                     THEN HandlePlan(entries, items) \o HandleDeletions(entries, items)
                     ELSE PositionPlan(entries) \o PositionDeletions(entries)
    /\ UNCHANGED <<format, items, entries, theirs, others>>

NewRank(rows) == IF rows = <<>> THEN 1 ELSE Last(rows).rank + 1

Appended(rows, content) == Append(rows, Row(NewRank(rows), content))

\* update_by_handle, delete_by_handle: nothing, if the row is not as it was read.
UpdateByHandle(rows, row, content) ==
    [i \in DOMAIN rows |->
        IF rows[i] = row THEN Row(row.rank, content) ELSE rows[i]]

DeleteByHandle(rows, row) == SelectSeq(rows, LAMBDA r : r # row)

\* An update at the length appends.
SetAt(rows, index, content) ==
    IF index < Len(rows)
    THEN [rows EXCEPT ![index + 1] = Row(@.rank, content)]
    ELSE Appended(rows, content)

\* A deletion beyond the end is only logged.
RemoveIndex(rows, index) ==
    IF index < Len(rows) THEN RemoveAt(rows, index + 1) ELSE rows

Written(rows, w) ==
    CASE w.do = "update" -> UpdateByHandle(rows, w.row, w.content)
      [] w.do = "append" -> Appended(rows, w.content)
      [] w.do = "delete" -> DeleteByHandle(rows, w.row)
      [] w.do = "set" -> SetAt(rows, w.index, w.content)
      [] w.do = "remove" -> RemoveIndex(rows, w.index)

WriteNext ==
    /\ phase = "running" /\ todo # <<>>
    /\ items' = Written(items, Head(todo))
    /\ todo' = Tail(todo)
    /\ UNCHANGED <<format, before, entries, phase, theirs, others>>

\* _finish_bulk_list_update: a hook may refuse, which reverts nothing.
Finish ==
    /\ phase = "running" /\ todo = <<>>
    /\ phase' = "done"
    /\ UNCHANGED <<format, before, items, entries, todo, theirs, others>>

-----------------------------------------------------------------------------
(* The others.                                                             *)

Meddle(rows, rank, content) ==
    /\ format = 2 /\ phase = "running"
    /\ others < MaxOthers
    /\ others' = others + 1
    /\ items' = rows
    /\ theirs' = (rank :> content) @@ theirs
    /\ UNCHANGED <<format, before, entries, todo, phase>>

OtherSets(i, c) ==
    Meddle([items EXCEPT ![i] = Row(@.rank, c)], items[i].rank, c)

OtherDeletes(i) == Meddle(RemoveAt(items, i), items[i].rank, Nothing)

OtherAppends(c) == Meddle(Appended(items, c), NewRank(items), c)

BulkNext ==
    \/ Begin
    \/ WriteNext
    \/ Finish
    \/ \E i \in DOMAIN items : OtherDeletes(i) \/ \E c \in Contents : OtherSets(i, c)
    \/ \E c \in Contents : OtherAppends(c)

BulkSpec == BulkInit /\ [][BulkNext]_bulkVars

-----------------------------------------------------------------------------
ContentAt(rank) ==
    LET held == {i \in DOMAIN items : items[i].rank = rank}
    IN  IF held = {} THEN Nothing ELSE items[CHOOSE i \in held : TRUE].content

IsDeleted(index) == index \in {e.index : e \in ToSet(Deletions(entries))}

\* What an item that was there should be.  An item that is both updated and
\* deleted is deleted in format 1, and in format 2 once the update has changed
\* nothing.
Outcome(index) ==
    LET final == FinalValues(entries)
        was == before[index + 1].content
        updated == index \in DOMAIN final
    IN  CASE IsDeleted(index) /\ (format = 1 \/ ~updated \/ final[index] = was) ->
               Nothing
          [] OTHER -> IF updated THEN final[index] ELSE was

Kept ==
    SelectSeq([i \in DOMAIN before |-> Outcome(i - 1)], LAMBDA c : c # Nothing)

Made ==
    LET indexes == SetToSortSeq({i \in DOMAIN FinalValues(entries) :
                                   i >= Len(before) /\ ~IsDeleted(i)}, <)
    IN  [k \in DOMAIN indexes |-> FinalValues(entries)[indexes[k]]]

RepeatsDeletion ==
    \E j, k \in DOMAIN entries :
        j # k /\ entries[j].content = Nothing /\ entries[j] = entries[k]

\* A batch treats every index as of the list before it (the comment of
\* PropertiesHandler.post), and spares what others write to while it runs.
\* Format 1 deletes a second item for a repeated deletion, and in format 2 a
\* row that reads as it was read counts as untouched.
BatchIsAsOfBefore ==
    phase = "done" =>
        /\ theirs = <<>> /\ ~(format = 1 /\ RepeatsDeletion) =>
             [i \in DOMAIN items |-> items[i].content] = Kept \o Made
        /\ \A i \in DOMAIN before :
             format = 2 /\ before[i].rank \notin DOMAIN theirs =>
                 ContentAt(before[i].rank) = Outcome(i - 1)
        /\ \A r \in DOMAIN theirs :
             theirs[r] # Nothing /\ Row(r, theirs[r]) \notin ToSet(before) =>
                 ContentAt(r) = theirs[r]
=============================================================================
