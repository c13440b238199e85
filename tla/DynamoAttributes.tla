-------------------------- MODULE DynamoAttributes --------------------------
(***************************************************************************)
(* The attribute store on DynamoDB (db/dynamodb/attribute.py): deletions   *)
(* and conditional updates read the item first and write it in a second    *)
(* access, whose condition is evaluated by the database.  Other requests   *)
(* run between the two.                                                    *)
(***************************************************************************)
EXTENDS Naturals

CONSTANTS Keys, Data, Requests, Faulty, NoRow, NoCall

VARIABLES
    rows, pc, call, answer, made, consumed,     \* As in AttributeStore,
    item            \* and the item that a request has read.

vars == <<rows, pc, call, answer, made, consumed, item>>

\* A call that has read its item has had no effect yet.
Store == INSTANCE AttributeStore WITH
    pc <- [r \in Requests |-> IF pc[r] = "read" THEN "called" ELSE pc[r]]

TwoSteps == {"delete", "consume", "update"}

TypeOK ==
    /\ Store!TypeOK
    /\ pc \in [Requests -> {"idle", "called", "read", "done"}]
    /\ item \in [Requests -> Store!Row \cup {NoRow}]

Init ==
    /\ pc = [r \in Requests |-> "idle"]
    /\ item = [r \in Requests |-> NoRow]
    /\ Store!Init

Answer(r, a) ==
    /\ answer' = [answer EXCEPT ![r] = a]
    /\ pc' = [pc EXCEPT ![r] = "done"]
    /\ item' = [item EXCEPT ![r] = NoRow]

Start(r, c) ==
    /\ pc[r] = "idle"
    /\ pc' = [pc EXCEPT ![r] = "called"]
    /\ call' = [call EXCEPT ![r] = c]
    /\ UNCHANGED <<rows, answer, made, consumed, item>>

\* A put, or a read that is answered.
OneAccess(r) ==
    LET c == call[r] row == rows[c.key] IN
    /\ pc[r] = "called" /\ c.op \notin TwoSteps
    /\ \/ /\ \E a \in Store!AnswersTo(c, row) : Answer(r, a)
          /\ Store!Write(c.key, Store!After(c, row))
       \/ /\ Faulty
          /\ \E a \in Store!FailedAnswers(c) : Answer(r, a)
          /\ \/ Store!Write(c.key, row)
             \/ Store!Write(c.key, Store!After(c, row))
    /\ UNCHANGED <<call, consumed>>

\* An error while reading is taken for absence.  To delete what is not there
\* is a success.
Read(r) ==
    LET c == call[r] row == rows[c.key] IN
    /\ pc[r] = "called" /\ c.op \in TwoSteps
    /\ \/ /\ \/ row = NoRow
             \/ c.op = "update" /\ ~Store!Matches(c, row)
             \/ Faulty
          /\ Answer(r, Store!Says(c.op = "delete"))
       \/ /\ row # NoRow
          /\ c.op = "update" => Store!Matches(c, row)
          /\ item' = [item EXCEPT ![r] = row]
          /\ pc' = [pc EXCEPT ![r] = "read"]
          /\ UNCHANGED answer
    /\ UNCHANGED <<rows, call, made, consumed>>

DeleteItem(r) ==
    LET c == call[r] IN
    /\ pc[r] = "read" /\ c.op = "delete"
    /\ \/ Store!Write(c.key, NoRow)
       \/ Faulty /\ UNCHANGED <<rows, made>>
    /\ Answer(r, Store!Says(TRUE))
    /\ UNCHANGED <<call, consumed>>

\* Condition: there is an item.
ConsumeItem(r) ==
    LET c == call[r] row == rows[c.key] IN
    /\ pc[r] = "read" /\ c.op = "consume"
    /\ \/ /\ row # NoRow
          /\ Store!Write(c.key, NoRow)
          /\ \/ /\ Answer(r, Store!Says(TRUE))
                /\ consumed' = [consumed EXCEPT ![c.key] = @ + 1]
             \/ Faulty /\ Answer(r, Store!Says(FALSE)) /\ UNCHANGED consumed
       \/ /\ row = NoRow \/ Faulty
          /\ Answer(r, Store!Says(FALSE))
          /\ UNCHANGED <<rows, made, consumed>>
    /\ UNCHANGED call

\* Condition: the data are those that were read.
UpdateItem(r) ==
    LET c == call[r]
        row == rows[c.key]
        same == row # NoRow /\ row.data = item[r].data IN
    /\ pc[r] = "read" /\ c.op = "update"
    /\ \/ /\ same
          /\ Store!Write(c.key, [row EXCEPT !.data = c.new])
          /\ Answer(r, Store!Says(TRUE)) \/ (Faulty /\ Answer(r, Store!Says(FALSE)))
       \/ /\ ~same \/ Faulty
          /\ Answer(r, Store!Says(FALSE))
          /\ UNCHANGED <<rows, made>>
    /\ UNCHANGED <<call, consumed>>

Return(r) ==
    /\ pc[r] = "done"
    /\ pc' = [pc EXCEPT ![r] = "idle"]
    /\ call' = [call EXCEPT ![r] = NoCall]
    /\ answer' = [answer EXCEPT ![r] = Store!Says(FALSE)]
    /\ UNCHANGED <<rows, made, consumed, item>>

Expire(k) ==
    /\ Store!Mortal(rows[k])
    /\ Store!Write(k, NoRow)
    /\ UNCHANGED <<pc, call, answer, consumed, item>>

Next ==
    \/ \E r \in Requests :
        \/ \E c \in Store!Call : Start(r, c)
        \/ OneAccess(r) \/ Read(r)
        \/ DeleteItem(r) \/ ConsumeItem(r) \/ UpdateItem(r) \/ Return(r)
    \/ \E k \in Keys : Expire(k)

Spec == Init /\ [][Next]_vars

-----------------------------------------------------------------------------
\* Although DynamoDB takes two accesses for what PostgreSQL does in one
\* statement, callers cannot tell (conditional_update_attr and
\* delete_attr_conditional: "atomic").
ImplementsAttributeStore == Store!Spec

\* The data an update will compare with are those its caller expects.
ReadIsExpected == \A r \in Requests :
    pc[r] = "read" =>
        /\ call[r].op \in TwoSteps
        /\ call[r].op = "update" =>
            item[r] # NoRow /\ item[r].data = call[r].old
=============================================================================
