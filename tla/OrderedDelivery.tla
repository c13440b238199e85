-------------------------- MODULE OrderedDelivery --------------------------
(***************************************************************************)
(* What the receiving end of a subscription promises, without requests,    *)
(* queues or versions: changes are given to the application one after the  *)
(* other without leaving one out, a baseline stands for all changes up to  *)
(* its number, and the number kept in the database covers only what has    *)
(* been given.                                                             *)
(***************************************************************************)
EXTENDS Naturals

CONSTANT Numbers        \* The sequence numbers of the publisher.

VARIABLES
    given,              \* Numbers whose change the application has.
    recorded            \* The number kept in the subscription record.

vars == <<given, recorded>>

Init == given = {} /\ recorded = 0

\* The next change, or one that has been given before.
Deliver(n) ==
    /\ 1..n - 1 \subseteq given
    /\ given' = given \cup {n}
    /\ UNCHANGED recorded

\* A baseline with number n.
Rebase(n) ==
    /\ given' = given \cup 1..n
    /\ UNCHANGED recorded

\* The record may move to any number that is covered, 0 included.
Record(n) ==
    /\ 1..n \subseteq given
    /\ recorded' = n
    /\ UNCHANGED given

Next ==
    \/ \E n \in Numbers : Deliver(n) \/ Rebase(n)
    \/ \E n \in Numbers \cup {0} : Record(n)

Spec == Init /\ [][Next]_vars
=============================================================================
