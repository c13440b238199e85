--------------------------- MODULE AttributeStore ---------------------------
(***************************************************************************)
(* What the attribute store promises to all that is built on it: single    *)
(* use codes and tickets, compare-and-swap of token rows, tombstones.      *)
(* Every call takes effect at one moment between its start and its answer. *)
(* This is what db/postgresql/attribute.py does, where each call is one    *)
(* statement; DynamoAttributes is shown to implement it.                   *)
(*                                                                         *)
(* Attributes of different names never meet, so a key stands for actor,    *)
(* bucket and name (KeysAreApart in DataAccess_proofs says when).          *)
(***************************************************************************)
EXTENDS Naturals

CONSTANTS
    Keys, Data,
    Requests,       \* Requests at the same time.
    Faulty          \* May the database fail?

CONSTANTS NoRow, NoCall

VARIABLES
    rows,           \* The rows of the attributes table.
    pc, call,       \* Of each request: its step, its call,
    answer,         \* and what it was answered.
    (* What was observed. *)
    made,           \* How often a row came to be where there was none,
    consumed        \* and how often one was consumed.

vars == <<rows, pc, call, answer, made, consumed>>

\* ttl: whether the row has a time to live.
Row == [data : Data, ttl : BOOLEAN]
Call ==
    [op : {"set"}, key : Keys, new : Data, ttl : BOOLEAN]
    \cup [op : {"update"}, key : Keys, old : Data, new : Data]
    \cup [op : {"delete", "consume", "get", "get_strict"}, key : Keys]

\* An answer: success, or what a read found.
Answers == [ok : BOOLEAN, row : Row \cup {NoRow}]
Says(b) == [ok |-> b, row |-> NoRow]
Finds(row) == [ok |-> TRUE, row |-> row]

TypeOK ==
    /\ rows \in [Keys -> Row \cup {NoRow}]
    /\ pc \in [Requests -> {"idle", "called", "done"}]
    /\ call \in [Requests -> Call \cup {NoCall}]
    /\ \A r \in Requests : pc[r] # "idle" => call[r] \in Call
    /\ answer \in [Requests -> Answers]
    /\ made \in [Keys -> Nat]
    /\ consumed \in [Keys -> Nat]

Init ==
    /\ rows = [k \in Keys |-> NoRow]
    /\ pc = [r \in Requests |-> "idle"]
    /\ call = [r \in Requests |-> NoCall]
    /\ answer = [r \in Requests |-> Says(FALSE)]
    /\ made = [k \in Keys |-> 0]
    /\ consumed = [k \in Keys |-> 0]

-----------------------------------------------------------------------------
\* Can the time of this row run out?
Mortal(row) == row # NoRow /\ row.ttl

\* Does a conditional update find what it expects?
Matches(c, row) == row # NoRow /\ row.data = c.old

(* The row that a call leaves where it finds the given one, and its answer. *)
SetAttr(c) == [data |-> c.new, ttl |-> c.ttl]

ConditionalUpdate(c, row) ==
    IF Matches(c, row) THEN [row EXCEPT !.data = c.new] ELSE row

After(c, row) ==
    CASE c.op = "set" -> SetAttr(c)
      [] c.op = "delete" -> NoRow
      [] c.op = "consume" -> NoRow
      [] c.op = "update" -> ConditionalUpdate(c, row)
      [] OTHER -> row

\* A strict read takes a row whose time is over for absent; others may still
\* see it.
AnswersTo(c, row) ==
    CASE c.op \in {"set", "delete"} -> {Says(TRUE)}
      [] c.op = "consume" -> {Says(row # NoRow)}
      [] c.op = "update" -> {Says(Matches(c, row))}
      [] c.op = "get" -> {Finds(row)}
      [] c.op = "get_strict" ->
            {Finds(x) : x \in {row, IF Mortal(row) THEN NoRow ELSE row}}

\* What a call answers that failed.  Plain reads and failed writes cannot be
\* told from absence and refusal.  A delete that fails may say that it
\* succeeded (DynamoDB).
FailedAnswers(c) ==
    CASE c.op = "delete" -> {Says(TRUE), Says(FALSE)}
      [] c.op \in {"set", "consume", "update", "get_strict"} -> {Says(FALSE)}
      [] c.op = "get" -> {Finds(NoRow)}

Write(k, row) ==
    /\ rows' = [rows EXCEPT ![k] = row]
    /\ made' = [made EXCEPT ![k] =
                    IF rows[k] = NoRow /\ row # NoRow THEN @ + 1 ELSE @]

Start(r, c) ==
    /\ pc[r] = "idle"
    /\ pc' = [pc EXCEPT ![r] = "called"]
    /\ call' = [call EXCEPT ![r] = c]
    /\ UNCHANGED <<rows, answer, made, consumed>>

Perform(r) ==
    LET c == call[r] row == rows[c.key] IN
    /\ pc[r] = "called"
    /\ Write(c.key, After(c, row))
    /\ \E a \in AnswersTo(c, row) : answer' = [answer EXCEPT ![r] = a]
    /\ consumed' = [consumed EXCEPT ![c.key] =
                        IF c.op = "consume" /\ row # NoRow THEN @ + 1 ELSE @]
    /\ pc' = [pc EXCEPT ![r] = "done"]
    /\ UNCHANGED call

\* The database reports an error, and has done its work or has not.
PerformBadly(r) ==
    LET c == call[r] row == rows[c.key] IN
    /\ Faulty
    /\ pc[r] = "called"
    /\ Write(c.key, row) \/ Write(c.key, After(c, row))
    /\ \E a \in FailedAnswers(c) : answer' = [answer EXCEPT ![r] = a]
    /\ pc' = [pc EXCEPT ![r] = "done"]
    /\ UNCHANGED <<call, consumed>>

Return(r) ==
    /\ pc[r] = "done"
    /\ pc' = [pc EXCEPT ![r] = "idle"]
    /\ call' = [call EXCEPT ![r] = NoCall]
    /\ answer' = [answer EXCEPT ![r] = Says(FALSE)]
    /\ UNCHANGED <<rows, made, consumed>>

\* delete_expired, or the time to live of the DynamoDB table.
Expire(k) ==
    /\ Mortal(rows[k])
    /\ Write(k, NoRow)
    /\ UNCHANGED <<pc, call, answer, consumed>>

Next ==
    \/ \E r \in Requests :
        \/ \E c \in Call : Start(r, c)
        \/ Perform(r) \/ PerformBadly(r) \/ Return(r)
    \/ \E k \in Keys : Expire(k)

Spec == Init /\ [][Next]_vars

-----------------------------------------------------------------------------
\* What was put once is consumed at most once, by however many requests
\* (delete_attr_conditional: "exactly one caller sees True").
ConsumedOnce == \A k \in Keys : consumed[k] <= made[k]
=============================================================================
