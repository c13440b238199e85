------------------------ MODULE SubscriptionLifecycle ------------------------
(***************************************************************************)
(* The subscriptions of one actor to another, from the first request to    *)
(* the end of the trust they rest on: Actor.create_remote_subscription,    *)
(* delete_remote_subscription, delete_subscription and                     *)
(* delete_reciprocal_trust (actingweb/actor.py), the SubscriptionManager's *)
(* subscribe_to_peer, unsubscribe, revoke_peer_subscription and sync_peer, *)
(* and the handlers of the peer they call (actingweb/handlers).            *)
(*                                                                         *)
(* The subscriber "s" has an outbound row of a subscription and a copy of  *)
(* the publisher's data, the publisher "p" an inbound row.  An operation   *)
(* is a caller at one of them and a handler at the other; a caller that    *)
(* times out leaves its handler running.  A step is one access to a        *)
(* database or one message.  TrustRelationship models how a trust begins.  *)
(***************************************************************************)
EXTENDS Integers, FiniteSets

CONSTANTS
    Operations,     \* What users and changes ask for, each once.
    Existing,       \* The subscriptions there are to begin with.
    MaxMishaps      \* Bound on timeouts, lost messages and deaths.

ASSUME SubscriptionsAssumption ==
    IsFiniteSet(Operations \cup Existing) /\ Operations \cap Existing = {}
ASSUME MaxMishapsAssumption == MaxMishaps \in Nat

VARIABLES
    rows,           \* Of each actor, its rows of subscriptions.
    trust,          \* The actors with a row of the trust.
    data,           \* The subscriptions whose data the subscriber has.
    gone,           \* Has the publisher been deleted?
    (* Each operation. *)
    kind, side, sub,
    at,             \* Of its caller and its handler.
    answer,
    force,          \* Of a removal: does it ignore the peer's answer?
    last,           \* Of a removal: was it the last subscription?
    list,           \* The rows it has yet to delete, or to synchronise.
    missing,        \* Of a sync: has every answer been a 404?
    (* What was observed. *)
    alone,          \* No other operation was under way with this one.
    crossed,        \* Did a removal overlap with any other operation?
    mishaps

lifeVars == <<rows, trust, data, gone, kind, side, sub, at, answer, force, last,
              list, missing, alone, crossed, mishaps>>
observed == <<alone, crossed>>

Sides == {"s", "p"}
Roles == {"caller", "handler"}
Subscriptions == Operations \cup Existing
Kinds == {"none", "subscribe", "callback", "remove", "drop", "leave", "sync"}
LifeSteps == {"idle", "none", "sent", "waiting", "baseline", "store", "read", "delete",
          "wipe", "list", "rows", "data", "trust", "sync", "check", "apply",
          "done"}

LifeTypeOK ==
    /\ rows \in [Sides -> SUBSET Subscriptions]
    /\ trust \in SUBSET Sides
    /\ data \in SUBSET Subscriptions
    /\ gone \in BOOLEAN
    /\ kind \in [Operations -> Kinds]
    /\ side \in [Operations -> Sides]
    /\ sub \in [Operations -> Subscriptions]
    /\ at \in [Operations -> [Roles -> LifeSteps]]
    /\ answer \in [Operations -> {"none", "ok", "gone", "refused"}]
    /\ force \in [Operations -> BOOLEAN]
    /\ last \in [Operations -> BOOLEAN]
    /\ list \in [Operations -> SUBSET Subscriptions]
    /\ missing \in [Operations -> BOOLEAN]
    /\ alone \in [Operations -> BOOLEAN]
    /\ crossed \in BOOLEAN
    /\ mishaps \in 0..MaxMishaps

LifeInit ==
    /\ rows = [x \in Sides |-> Existing]
    /\ trust = Sides
    /\ data = Existing
    /\ gone = FALSE
    /\ kind = [o \in Operations |-> "none"]
    /\ side = [o \in Operations |-> "s"]
    /\ sub = [o \in Operations |-> o]
    /\ at = [o \in Operations |-> [r \in Roles |->
                IF r = "caller" THEN "idle" ELSE "none"]]
    /\ answer = [o \in Operations |-> "none"]
    /\ force = [o \in Operations |-> FALSE]
    /\ last = [o \in Operations |-> FALSE]
    /\ list = [o \in Operations |-> {}]
    /\ missing = [o \in Operations |-> TRUE]
    /\ alone = [o \in Operations |-> FALSE]
    /\ crossed = FALSE
    /\ mishaps = 0

-----------------------------------------------------------------------------
(* Helpers.                                                                *)

Other(x) == IF x = "s" THEN "p" ELSE "s"
Where(o, r) == IF r = "caller" THEN side[o] ELSE Other(side[o])

Active(o) == at[o]["caller"] \notin {"idle", "done"} \/ at[o]["handler"] # "none"
Quiet == \A o \in Operations : ~Active(o)

LifeAt(o, k, step) == kind[o] = k /\ at[o]["caller"] = step
Handles(o, k, step) == kind[o] = k /\ at[o]["handler"] = step
LifeGoto(o, r, step) == at' = [at EXCEPT ![o][r] = step]

\* What an actor answers, if anybody still waits.
Reply(o, a) == answer' = [answer EXCEPT ![o] =
    IF at[o]["caller"] = "waiting" THEN a ELSE "none"]

\* The handler of o is done with a.
Done(o, a) == LifeGoto(o, "handler", "none") /\ Reply(o, a)

\* The caller or the handler of o has come to its end.
Finish(o, r) ==
    IF r = "caller" THEN LifeGoto(o, r, "done") /\ UNCHANGED answer ELSE Done(o, "ok")

Put(x, subs) == rows' = [rows EXCEPT ![x] = subs]
LifeFault == mishaps < MaxMishaps /\ mishaps' = mishaps + 1

\* The caller of o has had no answer in time: a fault, or what one led to.
TimesOut(o) == IF answer[o] = "none" /\ at[o]["handler"] = "none"
               THEN UNCHANGED mishaps ELSE LifeFault

Removals == {"remove", "drop", "leave"}
LifeBegin(o, k, x, b) ==
    /\ at[o]["caller"] = "idle"
    /\ kind' = [kind EXCEPT ![o] = k]
    /\ side' = [side EXCEPT ![o] = x]
    /\ sub' = [sub EXCEPT ![o] = b]
    /\ LET others == {q \in Operations : Active(q)}
       IN  /\ alone' = [q \in Operations |-> IF q = o THEN others = {}
                                             ELSE alone[q] /\ q \notin others]
           /\ crossed' = (crossed \/ \E q \in others : {k, kind[q]} \cap Removals # {})
Call(o) == at' = [at EXCEPT ![o] = [r \in Roles |->
                IF r = "caller" THEN "waiting" ELSE "sent"]]

-----------------------------------------------------------------------------
(* subscribe_to_peer.                                                      *)

Subscribe(o) ==
    /\ "s" \in trust
    /\ LifeBegin(o, "subscribe", "s", o)
    /\ Call(o)
    /\ UNCHANGED <<rows, trust, data, gone, answer, force, last, list, missing,
                   mishaps>>

\* The publisher writes its row and answers 201.
AcceptSubscription(o) ==
    /\ Handles(o, "subscribe", "sent")
    /\ "p" \in trust
    /\ Put("p", rows["p"] \cup {o})
    /\ Done(o, "ok")
    /\ UNCHANGED <<trust, data, gone, kind, side, sub, force, last, list, missing,
                   observed, mishaps>>

\* The subscriber writes its own, or gives up.
SubscriptionCreated(o) ==
    /\ LifeAt(o, "subscribe", "waiting")
    /\ answer[o] = "ok"
    /\ Put("s", rows["s"] \cup {o})
    /\ LifeGoto(o, "caller", "baseline")
    /\ UNCHANGED <<trust, data, gone, kind, side, sub, answer, force, last, list,
                   missing, observed, mishaps>>

SubscriptionFailed(o) ==
    /\ LifeAt(o, "subscribe", "waiting")
    /\ IF answer[o] \in {"refused", "gone"} THEN UNCHANGED mishaps ELSE TimesOut(o)
    /\ LifeGoto(o, "caller", "done")
    /\ UNCHANGED <<rows, trust, data, gone, kind, side, sub, answer, force, last,
                   list, missing, observed>>

\* The baseline is read from the publisher and stored: trust and rows are
\* not looked at again.
FetchBaseline(o) ==
    /\ LifeAt(o, "subscribe", "baseline")
    /\ IF "p" \in trust
       THEN \/ LifeGoto(o, "caller", "store") /\ UNCHANGED mishaps
            \/ LifeGoto(o, "caller", "done") /\ LifeFault
       ELSE LifeGoto(o, "caller", "done") /\ UNCHANGED mishaps
    /\ UNCHANGED <<rows, trust, data, gone, kind, side, sub, answer, force, last,
                   list, missing, observed>>

StoreBaseline(o) ==
    /\ LifeAt(o, "subscribe", "store")
    /\ data' = data \cup {sub[o]}
    /\ LifeGoto(o, "caller", "done")
    /\ UNCHANGED <<rows, trust, gone, kind, side, sub, answer, force, last, list,
                   missing, observed, mishaps>>

-----------------------------------------------------------------------------
(* A callback to the subscriber, whose row must be there.                  *)

Callback(o, b) ==
    /\ b \in rows["p"] /\ "p" \in trust
    /\ LifeBegin(o, "callback", "p", b)
    /\ Call(o)
    /\ UNCHANGED <<rows, trust, data, gone, answer, force, last, list, missing,
                   mishaps>>

AcceptCallback(o) ==
    /\ Handles(o, "callback", "sent")
    /\ "s" \in trust
    /\ IF sub[o] \in rows["s"]
       THEN LifeGoto(o, "handler", "apply") /\ UNCHANGED answer
       ELSE Done(o, "gone")
    /\ UNCHANGED <<rows, trust, data, gone, kind, side, sub, force, last, list,
                   missing, observed, mishaps>>

ApplyCallback(o) ==
    /\ Handles(o, "callback", "apply")
    /\ data' = data \cup {sub[o]}
    /\ Done(o, "ok")
    /\ UNCHANGED <<rows, trust, gone, kind, side, sub, force, last, list, missing,
                   observed, mishaps>>

CallbackAnswered(o) ==
    /\ LifeAt(o, "callback", "waiting")
    /\ IF answer[o] # "none" THEN UNCHANGED mishaps ELSE TimesOut(o)
    /\ LifeGoto(o, "caller", "done")
    /\ UNCHANGED <<rows, trust, data, gone, kind, side, sub, answer, force, last,
                   list, missing, observed>>

-----------------------------------------------------------------------------
(* unsubscribe at the subscriber, revoke_peer_subscription at the          *)
(* publisher.  The peer's row goes first; a DELETE by the owner ignores    *)
(* what the peer answers.                                                  *)

Remove(o, x, b, owner) ==
    /\ x \in trust /\ b \in rows[x]
    /\ LifeBegin(o, "remove", x, b)
    /\ force' = [force EXCEPT ![o] = owner]
    /\ Call(o)
    /\ UNCHANGED <<rows, trust, data, gone, answer, last, list, missing, mishaps>>

\* delete_subscription looks for others only at the subscriber.
FirstStep(x) == IF x = "s" THEN "read" ELSE "delete"

\* Without a row there is nothing to delete, and 204 all the same.
AcceptRemoval(o) ==
    /\ Handles(o, "remove", "sent")
    /\ Where(o, "handler") \in trust
    /\ IF sub[o] \in rows[Where(o, "handler")]
       THEN LifeGoto(o, "handler", FirstStep(Where(o, "handler"))) /\ UNCHANGED answer
       ELSE Done(o, "ok")
    /\ UNCHANGED <<rows, trust, data, gone, kind, side, sub, force, last, list,
                   missing, observed, mishaps>>

RemovalAnswered(o) ==
    /\ LifeAt(o, "remove", "waiting")
    /\ answer[o] = "ok" \/ (force[o] /\ answer[o] # "none")
    /\ LifeGoto(o, "caller", FirstStep(side[o]))
    /\ UNCHANGED <<rows, trust, data, gone, kind, side, sub, answer, force, last,
                   list, missing, observed, mishaps>>

RemovalFailed(o) ==
    /\ LifeAt(o, "remove", "waiting")
    /\ IF answer[o] \in {"refused", "gone"} THEN ~force[o] /\ UNCHANGED mishaps
                                            ELSE TimesOut(o)
    /\ LifeGoto(o, "caller", IF force[o] THEN FirstStep(side[o]) ELSE "done")
    /\ UNCHANGED <<rows, trust, data, gone, kind, side, sub, answer, force, last,
                   list, missing, observed>>

\* delete_subscription: are there others to this peer?
ReadRemaining(o, r) ==
    /\ kind[o] = "remove" /\ at[o][r] = "read"
    /\ last' = [last EXCEPT ![o] = rows["s"] \ {sub[o]} = {}]
    /\ LifeGoto(o, r, "delete")
    /\ UNCHANGED <<rows, trust, data, gone, kind, side, sub, answer, force, list,
                   missing, observed, mishaps>>

DeleteRow(o, r) ==
    /\ kind[o] = "remove" /\ at[o][r] = "delete"
    /\ Put(Where(o, r), rows[Where(o, r)] \ {sub[o]})
    /\ IF Where(o, r) = "s" /\ last[o]
       THEN LifeGoto(o, r, "wipe") /\ UNCHANGED answer
       ELSE Finish(o, r)
    /\ UNCHANGED <<trust, data, gone, kind, side, sub, force, last, list, missing,
                   observed, mishaps>>

\* Mutant: the data is left, as if Subscription.delete had taken care of it.
WipeDataNot(o, r) ==
    /\ kind[o] = "remove" /\ at[o][r] = "wipe"
    /\ Finish(o, r)
    /\ UNCHANGED <<rows, trust, data, gone, kind, side, sub, force, last, list,
                   missing, observed, mishaps>>

WipeData(o, r) ==
    /\ kind[o] = "remove" /\ at[o][r] = "wipe"
    /\ data' = {}
    /\ Finish(o, r)
    /\ UNCHANGED <<rows, trust, gone, kind, side, sub, force, last, list, missing,
                   observed, mishaps>>

-----------------------------------------------------------------------------
(* delete_reciprocal_trust at either actor, and what it deletes there.     *)

Drop(o, x) ==
    /\ x \in trust
    /\ LifeBegin(o, "drop", x, sub[o])
    /\ Call(o)
    /\ UNCHANGED <<rows, trust, data, gone, answer, force, last, list, missing,
                   mishaps>>

AcceptDrop(o) ==
    /\ kind[o] \in {"drop", "leave"} /\ at[o]["handler"] = "sent"
    /\ Where(o, "handler") \in trust
    /\ LifeGoto(o, "handler", "list")
    /\ UNCHANGED <<rows, trust, data, gone, kind, side, sub, answer, force, last,
                   list, missing, observed, mishaps>>

DropAnswered(o) ==
    /\ LifeAt(o, "drop", "waiting")
    /\ answer[o] \in {"ok", "gone"}
    /\ LifeGoto(o, "caller", "list")
    /\ UNCHANGED <<rows, trust, data, gone, kind, side, sub, answer, force, last,
                   list, missing, observed, mishaps>>

DropFailed(o) ==
    /\ LifeAt(o, "drop", "waiting")
    /\ IF answer[o] = "refused" THEN UNCHANGED mishaps ELSE TimesOut(o)
    /\ LifeGoto(o, "caller", "done")
    /\ UNCHANGED <<rows, trust, data, gone, kind, side, sub, answer, force, last,
                   list, missing, observed>>

\* The rows of the peer are listed once ...
ListRows(o, r) ==
    /\ at[o][r] = "list"
    /\ list' = [list EXCEPT ![o] = rows[Where(o, r)]]
    /\ LifeGoto(o, r, "rows")
    /\ UNCHANGED <<rows, trust, data, gone, kind, side, sub, answer, force, last,
                   missing, observed, mishaps>>

\* ... and deleted, then the copy of its data, and the trust at the end.
DeleteRows(o, r) ==
    /\ at[o][r] = "rows"
    /\ Put(Where(o, r), rows[Where(o, r)] \ list[o])
    /\ list' = [list EXCEPT ![o] = {}]
    /\ LifeGoto(o, r, "data")
    /\ UNCHANGED <<trust, data, gone, kind, side, sub, answer, force, last, missing,
                   observed, mishaps>>

DeleteData(o, r) ==
    /\ at[o][r] = "data"
    /\ data' = IF Where(o, r) = "s" THEN {} ELSE data
    /\ LifeGoto(o, r, "trust")
    /\ UNCHANGED <<rows, trust, gone, kind, side, sub, answer, force, last, list,
                   missing, observed, mishaps>>

DeleteTrust(o, r) ==
    /\ at[o][r] = "trust"
    /\ trust' = trust \ {Where(o, r)}
    /\ Finish(o, r)
    /\ UNCHANGED <<rows, data, gone, kind, side, sub, force, last, list, missing,
                   observed, mishaps>>

-----------------------------------------------------------------------------
(* Actor.delete of the publisher: its subscriptions go before the trusts.  *)

Leave(o) ==
    /\ "p" \in trust
    /\ LifeBegin(o, "leave", "p", sub[o])
    /\ Put("p", {})
    /\ Call(o)
    /\ UNCHANGED <<trust, data, gone, answer, force, last, list, missing, mishaps>>

\* Whatever the subscriber answers, all trusts are deleted, and the actor.
Left(o) ==
    /\ LifeAt(o, "leave", "waiting")
    /\ IF answer[o] # "none" THEN UNCHANGED mishaps ELSE TimesOut(o)
    /\ trust' = trust \ {"p"}
    /\ rows' = [rows EXCEPT !["p"] = {}]
    /\ gone' = TRUE
    /\ LifeGoto(o, "caller", "done")
    /\ UNCHANGED <<data, kind, side, sub, answer, force, last, list, missing,
                   observed>>

-----------------------------------------------------------------------------
(* sync_peer.                                                              *)

Sync(o) ==
    /\ rows["s"] # {}
    /\ LifeBegin(o, "sync", "s", sub[o])
    /\ list' = [list EXCEPT ![o] = rows["s"]]
    /\ LifeGoto(o, "caller", "sync")
    /\ UNCHANGED <<rows, trust, data, gone, answer, force, last, missing, mishaps>>

\* A 404: for a row that is missing here or there, without a trust here, or
\* from an actor that is gone.  Without a trust there, it is a 401 or 403.
NotFound(b) ==
    \/ b \notin rows["s"] \/ "s" \notin trust
    \/ gone
    \/ "p" \in trust /\ b \notin rows["p"]
Found(b) == ~NotFound(b) /\ "p" \in trust

SyncOne(o) ==
    /\ LifeAt(o, "sync", "sync")
    /\ \E b \in list[o] :
        /\ list' = [list EXCEPT ![o] = @ \ {b}]
        /\ sub' = [sub EXCEPT ![o] = b]
        /\ \/ Found(b) /\ LifeGoto(o, "caller", "store") /\ UNCHANGED mishaps
              /\ missing' = [missing EXCEPT ![o] = FALSE]
           \/ NotFound(b) /\ UNCHANGED <<at, missing, mishaps>>
           \/ /\ IF Found(b) \/ NotFound(b) THEN LifeFault ELSE UNCHANGED mishaps
              /\ missing' = [missing EXCEPT ![o] = FALSE]
              /\ UNCHANGED at
    /\ UNCHANGED <<rows, trust, data, gone, kind, side, answer, force, last,
                   observed>>

StoreSync(o) ==
    /\ LifeAt(o, "sync", "store")
    /\ data' = data \cup {sub[o]}
    /\ LifeGoto(o, "caller", "sync")
    /\ UNCHANGED <<rows, trust, gone, kind, side, sub, answer, force, last, list,
                   missing, observed, mishaps>>

\* All 404: the peer is asked for the trust.
SyncEnds(o) ==
    /\ LifeAt(o, "sync", "sync")
    /\ list[o] = {}
    /\ LifeGoto(o, "caller", IF missing[o] THEN "check" ELSE "done")
    /\ UNCHANGED <<rows, trust, data, gone, kind, side, sub, answer, force, last,
                   list, missing, observed, mishaps>>

\* Mutant: a trust that cannot be confirmed is kept.
CheckTrustKeeps(o) ==
    /\ LifeAt(o, "sync", "check")
    /\ LifeGoto(o, "caller", "done")
    /\ UNCHANGED <<rows, trust, data, gone, kind, side, sub, answer, force, last,
                   list, missing, observed, mishaps>>

\* It answers GET /trust/<id> with 404, whatever trusts it has: the path is
\* that of a relationship, and TrustRelationshipHandler.get has nothing to
\* show.  No answer counts as much.  The trust is deleted here.
CheckTrust(o) ==
    /\ LifeAt(o, "sync", "check")
    /\ LifeGoto(o, "caller", IF "s" \in trust THEN "list" ELSE "done")
    /\ UNCHANGED <<rows, trust, data, gone, kind, side, sub, answer, force, last,
                   list, missing, observed, mishaps>>

-----------------------------------------------------------------------------
(* The network and the processes.                                          *)

\* The handler's actor has no trust, or is gone.
Refuse(o) ==
    /\ at[o]["handler"] = "sent"
    /\ Where(o, "handler") \notin trust
    /\ Done(o, IF kind[o] \in {"drop", "leave"} \/ (gone /\ side[o] = "s")
               THEN "gone" ELSE "refused")
    /\ UNCHANGED <<rows, trust, data, gone, kind, side, sub, force, last, list,
                   missing, observed, mishaps>>

\* A request is lost, or the process that handles it dies.
Lose(o) ==
    /\ at[o]["handler"] # "none"
    /\ LifeFault
    /\ LifeGoto(o, "handler", "none")
    /\ UNCHANGED <<rows, trust, data, gone, kind, side, sub, answer, force, last,
                   list, missing, observed>>

Die(o) ==
    /\ at[o]["caller"] \notin {"idle", "done"}
    /\ LifeFault
    /\ LifeGoto(o, "caller", "done")
    /\ UNCHANGED <<rows, trust, data, gone, kind, side, sub, answer, force, last,
                   list, missing, observed>>

Step(o) ==
    \/ Subscribe(o) \/ Leave(o) \/ Sync(o)
    \/ \E b \in Subscriptions : Callback(o, b)
    \/ \E x \in Sides, b \in Subscriptions, owner \in BOOLEAN :
        Remove(o, x, b, owner)
    \/ \E x \in Sides : Drop(o, x)
    \/ AcceptSubscription(o) \/ SubscriptionCreated(o) \/ SubscriptionFailed(o)
    \/ FetchBaseline(o) \/ StoreBaseline(o)
    \/ AcceptCallback(o) \/ ApplyCallback(o) \/ CallbackAnswered(o)
    \/ AcceptRemoval(o) \/ RemovalAnswered(o) \/ RemovalFailed(o)
    \/ AcceptDrop(o) \/ DropAnswered(o) \/ DropFailed(o) \/ Left(o)
    \/ \E r \in Roles :
        \/ ReadRemaining(o, r) \/ DeleteRow(o, r) \/ WipeData(o, r)
        \/ ListRows(o, r) \/ DeleteRows(o, r) \/ DeleteData(o, r)
        \/ DeleteTrust(o, r)
    \/ SyncOne(o) \/ StoreSync(o) \/ SyncEnds(o) \/ CheckTrust(o)
    \/ Refuse(o) \/ Lose(o) \/ Die(o)

LifeNext == \E o \in Operations : Step(o)

LifeSpec == LifeInit /\ [][LifeNext]_lifeVars
-----------------------------------------------------------------------------

\* When nothing is under way, nothing was lost, no removal overlapped with
\* another operation and the owner forced none, the two actors agree on the
\* trust and on the subscriptions, and the subscriber has data of those it
\* has and none without any.
ActorsAgree ==
    Quiet /\ mishaps = 0 /\ ~crossed /\ (\A o \in Operations : ~force[o]) =>
        /\ rows["s"] = rows["p"]
        /\ "s" \in trust <=> "p" \in trust
        /\ trust = {} => rows["s"] = {}
        /\ rows["s"] \subseteq data
        /\ rows["s"] = {} => data = {}

\* A sync that is alone with a publisher that was deleted, and has its
\* answers, leaves nothing of it at the subscriber; unless the trust is gone
\* already, and the subscriptions without it are overlooked.
GonePeerIsForgotten ==
    [][\A o \in Operations :
        kind[o] = "sync" /\ gone /\ missing[o] /\ alone[o] /\ mishaps' = mishaps
            /\ at[o]["caller"] # "done" /\ at'[o]["caller"] = "done"
            /\ (at[o]["caller"] = "check" => "s" \in trust)
        => rows'["s"] = {} /\ data' = {} /\ "s" \notin trust']_lifeVars

-----------------------------------------------------------------------------
(* The inductive invariants.                                               *)

\* Which steps each operation takes.
Fits(o) ==
    LET caller == at[o]["caller"]
        handler == at[o]["handler"] IN
    /\ kind[o] = "none" <=> caller = "idle"
    /\ caller = "idle" =>
          handler = "none" /\ answer[o] = "none" /\ ~force[o] /\ missing[o]
    /\ kind[o] = "subscribe" =>
          /\ caller \in {"waiting", "baseline", "store", "done"}
          /\ handler \in {"none", "sent"}
          /\ side[o] = "s" /\ sub[o] = o
    /\ kind[o] = "callback" =>
          /\ caller \in {"waiting", "done"}
          /\ handler \in {"none", "sent", "apply"}
          /\ side[o] = "p"
    /\ kind[o] = "remove" =>
          /\ caller \in {"waiting", "read", "delete", "wipe", "done"}
          /\ handler \in {"none", "sent", "read", "delete", "wipe"}
    /\ kind[o] = "drop" =>
          /\ caller \in {"waiting", "list", "rows", "data", "trust", "done"}
          /\ handler \in {"none", "sent", "list", "rows", "data", "trust"}
    /\ kind[o] = "leave" =>
          /\ caller \in {"waiting", "done"}
          /\ handler \in {"none", "sent", "list", "rows", "data", "trust"}
          /\ side[o] = "p"
    /\ kind[o] = "sync" =>
          /\ caller \in {"sync", "store", "check", "list", "rows", "data",
                         "trust", "done"}
          /\ handler = "none"
          /\ side[o] = "s"

StepsFit == \A o \in Operations : Fits(o)

\* Who is alone at its start is so until another begins.
AloneIsAlone ==
    \A o, q \in Operations : alone[o] /\ Active(o) /\ o # q => ~Active(q)

\* How far an actor's side of a deletion has come.
Clears(o, r) ==
    /\ at[o][r] = "rows" => list[o] = rows[Where(o, r)]
    /\ at[o][r] \in {"data", "trust"} => rows[Where(o, r)] = {}
    /\ at[o][r] = "trust" /\ Where(o, r) = "s" => data = {}

\* What a sync that is alone clears stays cleared.
SyncClears == \A o \in Operations :
    kind[o] = "sync" /\ alone[o] => Clears(o, "caller")

SyncInv == LifeTypeOK /\ StepsFit /\ AloneIsAlone /\ SyncClears

\* Nothing was lost, crossed or forced.
Clean == ~crossed /\ mishaps = 0 /\ \A o \in Operations : ~force[o]

Removing == \E o \in Operations : Active(o) /\ kind[o] \in Removals

\* Where nothing crossed, a removal has nothing beside it.
RemovalIsAlone ==
    ~crossed => \A o, q \in Operations :
        o # q /\ Active(o) /\ Active(q) => kind[o] \notin Removals

\* The subscriber may lack a row that its request has just been granted.
Granted(b) ==
    b \in Operations /\ kind[b] = "subscribe" /\ at[b]["caller"] = "waiting"
        /\ at[b]["handler"] = "none"

\* A subscription whose baseline is under way.
Expected(b) ==
    b \in Operations /\ kind[b] = "subscribe"
        /\ at[b]["caller"] \in {"baseline", "store"}

\* The rows of the two agree, but for what is under way.
RowsCorrespond ==
    /\ rows["s"] \subseteq rows["p"]
    /\ \A b \in rows["p"] : b \notin rows["s"] => Granted(b)
    /\ \A b \in rows["s"] : b \notin data => Expected(b)
    /\ rows["s"] = {} => data = {}

BetweenRemovals ==
    Clean /\ ~Removing =>
        /\ RowsCorrespond
        /\ trust = Sides \/ (trust = {} /\ rows["s"] = {})

\* Of the others, each finds the trust and the row it needs.
OnTrack(o) ==
    /\ Active(o) /\ kind[o] \in {"subscribe", "callback", "sync"} =>
          trust = Sides /\ ~gone
    /\ kind[o] = "subscribe" /\ at[o]["caller"] = "waiting" =>
          answer[o] = IF at[o]["handler"] = "sent" THEN "none" ELSE "ok"
    /\ Granted(o) => o \in rows["p"]
    /\ kind[o] = "subscribe" /\ at[o]["caller"] # "waiting" =>
          at[o]["handler"] = "none"
    /\ kind[o] = "subscribe" /\ at[o]["caller"] \in {"baseline", "store"} =>
          o \in rows["s"]
    /\ kind[o] = "callback" /\ at[o]["handler"] = "apply" =>
          sub[o] \in rows["s"]
    /\ kind[o] = "sync" =>
          /\ at[o]["caller"] \in {"sync", "store", "done"}
          /\ at[o]["caller"] = "sync" =>
                list[o] \subseteq rows["s"] /\ (missing[o] => list[o] # {})
          /\ at[o]["caller"] = "store" =>
                /\ list[o] \subseteq rows["s"] /\ ~missing[o]
                /\ sub[o] \in rows["s"]

OthersAreOnTrack == Clean => \A o \in Operations : OnTrack(o)

\* The two agree, and there is data of what is subscribed to.
InAgreement ==
    /\ rows["s"] = rows["p"]
    /\ rows["s"] \subseteq data
    /\ rows["s"] = {} => data = {}

\* A removal deletes the row of the peer, then its own.
Removes(o) ==
    LET x == side[o]
        y == Other(side[o])
        caller == at[o]["caller"]
        handler == at[o]["handler"] IN
    /\ trust = Sides
    /\ handler # "none" => caller = "waiting" /\ answer[o] = "none"
    /\ handler \in {"sent", "read", "delete"} =>
          InAgreement /\ sub[o] \in rows[x]
    /\ handler = "delete" /\ y = "s" =>
          (last[o] <=> rows["s"] \ {sub[o]} = {})
    /\ handler = "wipe" => y = "s" /\ rows["s"] = {} /\ rows["p"] = {sub[o]}
    /\ handler = "none" =>
          /\ caller = "waiting" => answer[o] = "ok"
          /\ caller \in {"waiting", "read", "delete"} =>
                /\ sub[o] \in rows[x] /\ rows[y] = rows[x] \ {sub[o]}
                /\ rows["s"] \subseteq data
                /\ rows["s"] = {} => data = {}
          /\ caller = "delete" /\ x = "s" =>
                (last[o] <=> rows["s"] \ {sub[o]} = {})
          /\ caller = "wipe" => x = "s" /\ rows["s"] = {} /\ rows["p"] = {}

RemovalIsOnTrack == Clean => \A o \in Operations :
    kind[o] = "remove" /\ Active(o) => Removes(o)

Cleared(x) == x \notin trust /\ rows[x] = {} /\ (x = "s" => data = {})

\* The end of a trust clears the peer's side, then its own.
Drops(o) ==
    /\ side[o] \in trust
    /\ IF at[o]["handler"] # "none"
       THEN /\ at[o]["caller"] = "waiting" /\ answer[o] = "none"
            /\ Where(o, "handler") \in trust
            /\ Clears(o, "handler")
       ELSE /\ Cleared(Where(o, "handler"))
            /\ at[o]["caller"] = "waiting" => answer[o] = "ok"
            /\ Clears(o, "caller")

DropIsOnTrack == Clean => \A o \in Operations :
    kind[o] \in {"drop", "leave"} /\ Active(o) => Drops(o)

\* An actor that was deleted has no trust any more.
GoneHasLeft == gone => "p" \notin trust

LifeIInv ==
    /\ LifeTypeOK
    /\ StepsFit
    /\ RemovalIsAlone
    /\ GoneHasLeft
    /\ BetweenRemovals
    /\ OthersAreOnTrack
    /\ RemovalIsOnTrack
    /\ DropIsOnTrack
=============================================================================
