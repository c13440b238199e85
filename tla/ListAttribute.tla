--------------------------- MODULE ListAttribute ---------------------------
(***************************************************************************)
(* A list kept in a bucket of attributes (ListAttribute in                 *)
(* actingweb/attribute_list.py): a row with the length and a row per item, *)
(* list:<name>:<index>.                                                    *)
(*                                                                         *)
(* An operation is the sequence of its writes.  None of its reads sees one *)
(* of its own writes, so the writes follow from the stored list as it was  *)
(* at the start.  Nothing makes them atomic: a crash leaves a prefix.      *)
(***************************************************************************)
EXTENDS SequencesExt, Integers

CONSTANTS
    Items,  \* What a list may hold.
    Blank   \* An item that is false to Python: 0, "", {}, ...

NoList == [length |-> -1, rows |-> <<>>]

\* rows is a function from the indexes that have a row.
Rows(stored) == DOMAIN stored.rows

\* len(): a list without metadata is an empty one.
Length(stored) == IF stored.length = -1 THEN 0 ELSE stored.length

\* to_list(): an IndexError unless every row is there.
IsReadable(stored) == 0..Length(stored) - 1 \subseteq Rows(stored)

ToList(stored) == [i \in 1..Length(stored) |-> stored.rows[i - 1]]

-----------------------------------------------------------------------------
(* One write: of a row, of no row, of the length, of no metadata.          *)

Put(i, item) == [row |-> i, item |-> item]
Drop(i) == Put(i, Blank)
SetLength(n) == [length |-> n]

\* set_attr with empty data deletes the row, and deleting is that.
Write(stored, w) ==
    IF "length" \in DOMAIN w THEN [stored EXCEPT !.length = w.length]
    ELSE IF w.item = Blank
    THEN [stored EXCEPT !.rows = [i \in Rows(stored) \ {w.row} |-> @[i]]]
    ELSE [stored EXCEPT !.rows = (w.row :> w.item) @@ @]

WriteAll(stored, writes) == FoldLeft(Write, stored, writes)

-----------------------------------------------------------------------------
(* The operations, as their writes.                                        *)

AppendWrites(stored, item) ==
    <<Put(Length(stored), item), SetLength(Length(stored) + 1)>>

\* Every append reads the length that the one before it wrote.
ExtendWrites(stored, items) ==
    FlattenSeq([k \in DOMAIN items |->
        <<Put(Length(stored) + k - 1, items[k]), SetLength(Length(stored) + k)>>])

\* Index in range; the metadata only gets a new timestamp.
SetItemWrites(stored, i, item) == <<Put(i, item), SetLength(Length(stored))>>

\* Mutant: a row is deleted before it is written where it belongs.
UpDropFirst(stored, i) ==
    [k \in 1..(Length(stored) - i) |->
        LET from == Length(stored) - k
        IN  IF from \in Rows(stored)
            THEN <<Drop(from), Put(from + 1, stored.rows[from])>> ELSE <<>>]

\* The rows move up, the last one first, and the source row stays.
Up(stored, i) ==
    [k \in 1..(Length(stored) - i) |->
        LET from == Length(stored) - k
        IN  IF from \in Rows(stored)
            THEN <<Put(from + 1, stored.rows[from])>> ELSE <<>>]

\* A negative index counts from the end, and a large one is the length.
InsertIndex(stored, index) ==
    IF index < 0 THEN Max({0, Length(stored) + index})
    ELSE Min({index, Length(stored)})

InsertWrites(stored, index, item) ==
    LET i == InsertIndex(stored, index)
    IN  FlattenSeq(Up(stored, i))
            \o <<Put(i, item), SetLength(Length(stored) + 1)>>

\* The rows above move down, each deleted where it was.
Down(stored, i) ==
    [k \in 1..(Length(stored) - 1 - i) |->
        LET from == i + k
        IN  IF from \in Rows(stored)
            THEN <<Put(from - 1, stored.rows[from]), Drop(from)>> ELSE <<>>]

DelItemWrites(stored, i) ==
    <<Drop(i)>> \o FlattenSeq(Down(stored, i))
        \o <<SetLength(Length(stored) - 1)>>

DropAll(stored) == [k \in 1..Length(stored) |-> Drop(k - 1)]

ClearWrites(stored) == DropAll(stored) \o <<SetLength(0)>>

DeleteWrites(stored) == DropAll(stored) \o <<SetLength(-1)>>
=============================================================================
