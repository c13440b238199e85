------------------------------- MODULE Login -------------------------------
(***************************************************************************)
(* How one person logs in: the callback of the web and of single-page      *)
(* applications (handlers/oauth2_callback.py), the grants of native        *)
(* applications (handlers/oauth2_spa.py), the form for a missing e-mail    *)
(* address and the link that confirms it (handlers/oauth_email.py), and    *)
(* the stores they share: nonces, tickets, id_token replays and pending    *)
(* sessions (oauth_state_store.py, oauth2_replay.py, oauth_session.py).    *)
(*                                                                         *)
(* Each request is a process of the web server.  An action is one access   *)
(* to the database, or one exchange with the provider, whose answer is     *)
(* any that it may give.  The things a request presents are opaque, and    *)
(* have one row each.  The tokens handed out at the end are TokenRotation's*)
(* business; trusts, and what the application's hooks do, are left out.    *)
(***************************************************************************)
EXTENDS Integers, FiniteSets

CONSTANTS
    Requests,       \* The requests (bounds the run).
    Nonces,         \* State nonces (StateNonceStore),
    Tickets,        \* tickets of native apps (MobileTicketStore),
    IdTokens,       \* id_tokens a provider issued (IdTokenReplayCache),
    Sessions,       \* pending sessions (OAuth2SessionManager) ...
    WithEmails,     \* ... and those with e-mail addresses to choose from.
    MaxActors,      \* How many actors may be created.
    UniqueCreator,  \* config.unique_creator
    MaxFaults,      \* Crashes in a behaviour.
    NoLink          \* No link: an actor that waits for none.

Things == Nonces \cup Tickets \cup IdTokens \cup Sessions
Ids == 1..MaxActors

\* A row is of one kind of thing, and a link is none of them.
ThingsAreDistinct ==
    /\ \A x \in Things : x \notin Requests \cup {NoLink}
    /\ \A x \in IdTokens : x \notin Nonces \cup Tickets \cup Sessions
    /\ NoLink \notin Requests
    /\ MaxActors \in Nat /\ MaxFaults \in Nat
ASSUME ThingsAssumption == ThingsAreDistinct

Steps == {"idle", "read", "burn", "apple", "hand_over", "exchange", "check",
          "park", "reread", "find", "unique", "create", "finish", "unverify",
          "set_token", "set_index", "compare", "mark", "clear", "unindex", "done"}
Flows == {"web", "spa", "native", "jwt", "ticket", "apple", "email", "visit"}

VARIABLES
    (* The database. *)
    row,            \* The row of each thing: none yet, live, or deleted.
    stale,          \* Things and links past the end of their life.
    actors,         \* The actors whose creator is the person.
    verified,       \* Property email_verified of each actor ...
    token,          \* ... and email_verification_token: the link it is in.
    index,          \* Links that EMAIL_VERIFY_TOKEN_INDEX_BUCKET knows.
    (* The local variables of each request. *)
    flow, pc, thing, actor, result,
    (* What was observed. *)
    spent,          \* Things that some request has used up.
    late,           \* Requests whose thing was used up before they began.
    crossed,        \* Two requests were creating an actor at one time.
    spoiled,        \* Links that a newer one, or a visit, has overwritten.
    confirmed,      \* Links that have confirmed the address.
    faults

dbVars == <<row, stale, actors, verified, token, index>>
mailVars == <<verified, token, index>>
obsVars == <<spent, late, crossed, spoiled, confirmed>>
vars == <<dbVars, flow, pc, thing, actor, result, obsVars, faults>>

TypeOK ==
    /\ row \in [Things -> {"none", "live", "deleted"}]
    /\ stale \subseteq Things \cup Requests
    /\ actors \subseteq Ids
    /\ verified \in [Ids -> BOOLEAN]
    /\ token \in [Ids -> Requests \cup {NoLink}]
    /\ index \subseteq Requests
    /\ flow \in [Requests -> Flows] /\ pc \in [Requests -> Steps]
    /\ thing \in [Requests -> Things \cup Requests \cup {NoLink}]
    /\ actor \in [Requests -> Ids \cup {0}]
    /\ result \in [Requests -> {"none", "in", "handed", "parked", "refused",
                                "rejected", "verified", "already", "expired"}]
    /\ spent \subseteq Things
    /\ late \subseteq Requests
    /\ crossed \in BOOLEAN
    /\ spoiled \subseteq Requests /\ confirmed \subseteq Requests
    /\ faults \in 0..MaxFaults

\* Nonces, tickets and sessions may have been made before.
Init ==
    /\ row \in {f \in [Things -> {"none", "live"}] :
                  \A x \in IdTokens : f[x] = "none"}
    /\ stale = {} /\ actors = {}
    /\ verified = [a \in Ids |-> FALSE] /\ token = [a \in Ids |-> NoLink]
    /\ index = {}
    /\ flow = [r \in Requests |-> "web"]
    /\ pc = [r \in Requests |-> "idle"]
    /\ thing = [r \in Requests |-> NoLink]
    /\ actor = [r \in Requests |-> 0]
    /\ result = [r \in Requests |-> "none"]
    /\ spent = {} /\ late = {} /\ crossed = FALSE
    /\ spoiled = {} /\ confirmed = {}
    /\ faults = 0

-----------------------------------------------------------------------------
(* Helpers.                                                                *)

InFlight == {r \in Requests : pc[r] \notin {"idle", "done"}}
Links == {r \in Requests : flow[r] = "email" /\ r \in index \cup spoiled \cup confirmed}

At(r, flows, step) == flow[r] \in flows /\ pc[r] = step
Goto(r, step) == pc' = [pc EXCEPT ![r] = step] /\ UNCHANGED result
Answer(r, a) ==
    /\ pc' = [pc EXCEPT ![r] = "done"]
    /\ result' = [result EXCEPT ![r] = a]

\* The request goes on, or is refused.
GotoOrRefuse(r, steps) ==
    \/ \E s \in steps : Goto(r, s)
    \/ Answer(r, "refused")

Live(x) == row[x] = "live"
Spend(x) == spent' = spent \cup {x}

\* Actor.get_from_creator: the smallest id, however many there are.
FromCreator == CHOOSE a \in actors : \A b \in actors : a <= b

-----------------------------------------------------------------------------
(* A request arrives.                                                      *)

Begin(r, f, x, step) ==
    /\ pc[r] = "idle"
    /\ flow' = [flow EXCEPT ![r] = f]
    /\ thing' = [thing EXCEPT ![r] = x]
    /\ late' = IF x \in spent THEN late \cup {r} ELSE late
    /\ Goto(r, step)
    /\ UNCHANGED <<dbVars, actor, spent, crossed, spoiled, confirmed, faults>>

\* GET /oauth/callback: with a code for a page, a single-page application,
\* or ...
Callback(r) == \E f \in {"web", "spa"} : Begin(r, f, NoLink, "exchange")

\* ... POST /oauth/spa/token with the code, the id_token or the ticket of a
\* native application.  An id_token that has expired is not valid.
Token(r) ==
    \/ Begin(r, "native", NoLink, "exchange")
    \/ \E x \in IdTokens \ stale : Begin(r, "jwt", x, "read")
    \/ \E x \in Tickets : row[x] # "none" /\ Begin(r, "ticket", x, "read")

\* POST /oauth/callback/apple.
ApplePost(r) == \E x \in Nonces : row[x] # "none" /\ Begin(r, "apple", x, "read")

\* POST /oauth/email.
EmailPost(r) == \E x \in Sessions : row[x] # "none" /\ Begin(r, "email", x, "read")

\* GET /oauth/email?verify=...
EmailGet(r) == \E l \in Links : Begin(r, "visit", l, "read")

-----------------------------------------------------------------------------
(* Things that are used once.                                              *)

\* POST /oauth/spa/authorize: Apple is sent a nonce.
Authorize(x) ==
    /\ x \in Nonces /\ row[x] = "none"
    /\ row' = [row EXCEPT ![x] = "live"]
    /\ UNCHANGED <<stale, actors, mailVars, flow, pc, thing, actor, result,
                   obsVars, faults>>

\* StateNonceStore.consume: the row is read ...
NonceRead(r) ==
    /\ At(r, {"apple"}, "read")
    /\ IF Live(thing[r]) THEN Goto(r, "burn") ELSE Answer(r, "refused")
    /\ UNCHANGED <<dbVars, flow, thing, actor, obsVars, faults>>

\* ... and deleted, by every request that has read it.
NonceDelete(r) ==
    /\ At(r, {"apple"}, "burn")
    /\ row' = [row EXCEPT ![thing[r]] = "deleted"]
    /\ Spend(thing[r])
    /\ Goto(r, "apple")
    /\ UNCHANGED <<stale, actors, mailVars, flow, thing, actor, late, crossed,
                   spoiled, confirmed, faults>>

\* OAuth2AppleCallbackHandler.post: the provider reports an error, or the
\* code goes to a native application, or it goes on as a callback.
AppleContinue(r) ==
    /\ At(r, {"apple"}, "apple")
    /\ \/ GotoOrRefuse(r, {"hand_over"}) /\ UNCHANGED flow
       \/ /\ \E f \in {"web", "spa"} : flow' = [flow EXCEPT ![r] = f]
          /\ Goto(r, "exchange")
    /\ UNCHANGED <<dbVars, thing, actor, obsVars, faults>>

\* _redirect_with_mobile_ticket: a new ticket carries the code.
HandOver(r) ==
    /\ At(r, {"apple"}, "hand_over") \/ At(r, {"web"}, "exchange")
    /\ \E x \in Tickets :
          /\ row[x] = "none"
          /\ row' = [row EXCEPT ![x] = "live"]
    /\ Answer(r, "handed")
    /\ UNCHANGED <<stale, actors, mailVars, flow, thing, actor, obsVars, faults>>

\* MobileTicketStore.consume: a ticket that is too old is not accepted,
\* however long its row lives.
TicketRead(r) ==
    /\ At(r, {"ticket"}, "read")
    /\ IF Live(thing[r]) THEN Goto(r, "burn") ELSE Answer(r, "refused")
    /\ UNCHANGED <<dbVars, flow, thing, actor, obsVars, faults>>

\* Mutant: the row is deleted, whether or not it is still there.
TicketDeleteAlways(r) ==
    /\ At(r, {"ticket"}, "burn")
    /\ row' = [row EXCEPT ![thing[r]] = "deleted"]
    /\ Spend(thing[r])
    /\ GotoOrRefuse(r, IF thing[r] \in stale THEN {} ELSE {"exchange"})
    /\ UNCHANGED <<stale, actors, mailVars, flow, thing, actor, late, crossed,
                   spoiled, confirmed, faults>>

\* Only the request whose delete finds the row may go on.
TicketDelete(r) ==
    /\ At(r, {"ticket"}, "burn")
    /\ row' = [row EXCEPT ![thing[r]] = "deleted"]
    /\ Spend(thing[r])
    /\ IF Live(thing[r]) /\ thing[r] \notin stale
       THEN Goto(r, "exchange") ELSE Answer(r, "refused")
    /\ UNCHANGED <<stale, actors, mailVars, flow, thing, actor, late, crossed,
                   spoiled, confirmed, faults>>

\* IdTokenReplayCache.check_and_record: a token that is on record, and not
\* past its end, is a replay ...
ReplayRead(r) ==
    /\ At(r, {"jwt"}, "read")
    /\ IF Live(thing[r]) THEN Answer(r, "refused") ELSE Goto(r, "burn")
    /\ UNCHANGED <<dbVars, flow, thing, actor, obsVars, faults>>

\* ... and any other is recorded.  The identifier may be missing.
ReplayRecord(r) ==
    /\ At(r, {"jwt"}, "burn")
    /\ row' = [row EXCEPT ![thing[r]] = "live"]
    /\ Spend(thing[r])
    /\ GotoOrRefuse(r, {"check"})
    /\ UNCHANGED <<stale, actors, mailVars, flow, thing, actor, late, crossed,
                   spoiled, confirmed, faults>>

\* store_session: the person has to give an address first.
StoreSession(r) ==
    /\ pc[r] = "park"
    /\ \E x \in Sessions :
          /\ row[x] = "none"
          /\ row' = [row EXCEPT ![x] = "live"]
    /\ Answer(r, "parked")
    /\ UNCHANGED <<stale, actors, mailVars, flow, thing, actor, obsVars, faults>>

\* get_session, by the form's handler and again by complete_session: an
\* expired one is deleted.
GetSession(r) ==
    /\ pc[r] \in {"read", "reread"} /\ flow[r] = "email"
    /\ IF Live(thing[r]) /\ thing[r] \notin stale
       THEN /\ IF pc[r] = "read" THEN GotoOrRefuse(r, {"reread"})
                                 ELSE Goto(r, "find")
            /\ UNCHANGED row
       ELSE /\ Answer(r, "refused")
            /\ row' = [row EXCEPT ![thing[r]] = "deleted"]
    /\ UNCHANGED <<stale, actors, mailVars, flow, thing, actor, obsVars, faults>>

\* The end of complete_session, for an actor that was found or made.
DeleteSession(r) ==
    /\ At(r, {"email"}, "finish")
    /\ row' = [row EXCEPT ![thing[r]] = "deleted"]
    /\ Spend(thing[r])
    /\ IF thing[r] \in WithEmails THEN Answer(r, "in") ELSE Goto(r, "unverify")
    /\ UNCHANGED <<stale, actors, mailVars, flow, thing, actor, late, crossed,
                   spoiled, confirmed, faults>>

-----------------------------------------------------------------------------
(* The exchange with the provider: it may refuse the code, and it may not  *)
(* give an address where one is required.                                  *)

WebExchange(r) ==
    /\ At(r, {"web"}, "exchange")
    /\ GotoOrRefuse(r, {"check", "park"})
    /\ UNCHANGED <<dbVars, flow, thing, actor, obsVars, faults>>

SpaExchange(r) ==
    /\ At(r, {"spa"}, "exchange")
    /\ GotoOrRefuse(r, {"find", "park"})
    /\ UNCHANGED <<dbVars, flow, thing, actor, obsVars, faults>>

CodeExchange(r) ==
    /\ At(r, {"native"}, "exchange")
    /\ GotoOrRefuse(r, {"check"})
    /\ UNCHANGED <<dbVars, flow, thing, actor, obsVars, faults>>

TicketExchange(r) ==
    /\ At(r, {"ticket"}, "exchange")
    /\ GotoOrRefuse(r, {"check"})
    /\ UNCHANGED <<dbVars, flow, thing, actor, obsVars, faults>>

-----------------------------------------------------------------------------
(* The actor of the person.                                                *)

LandsOn(r, a) == actor' = [actor EXCEPT ![r] = a] /\ Goto(r, "finish")

\* The state of the callback may name an actor, which is the person's.
ActorFromState(r) ==
    /\ At(r, {"web"}, "check")
    /\ \E a \in actors : LandsOn(r, a)
    /\ UNCHANGED <<dbVars, flow, thing, obsVars, faults>>

\* The callback looks whether the actor is new, for the hook only.
WebCheck(r) ==
    /\ At(r, {"web"}, "check")
    /\ Goto(r, "find")
    /\ UNCHANGED <<dbVars, flow, thing, actor, obsVars, faults>>

\* The native grants use the actor that this lookup finds.
NativeCheck(r) ==
    /\ At(r, {"native", "jwt", "ticket"}, "check")
    /\ IF actors # {} THEN LandsOn(r, FromCreator)
                      ELSE Goto(r, "find") /\ UNCHANGED actor
    /\ UNCHANGED <<dbVars, flow, thing, obsVars, faults>>

Creating == {r \in Requests : pc[r] \in {"unique", "create"}}

\* Mutant: the actor that the first lookup did not find is created.
FindNot(r) ==
    /\ pc[r] = "find"
    /\ Goto(r, "create")
    /\ crossed' = (crossed \/ Creating # {})
    /\ UNCHANGED <<dbVars, flow, thing, actor, spent, late, spoiled, confirmed, faults>>

\* lookup_or_create_actor_by_identifier: an actor of the person, or ...
Find(r) ==
    /\ pc[r] = "find"
    /\ IF actors # {}
       THEN LandsOn(r, FromCreator) /\ UNCHANGED crossed
       ELSE /\ Goto(r, IF UniqueCreator THEN "unique" ELSE "create")
            /\ crossed' = (crossed \/ Creating # {})
            /\ UNCHANGED actor
    /\ UNCHANGED <<dbVars, flow, thing, spent, late, spoiled, confirmed, faults>>

\* ... a new one.  With unique_creator, Actor.create looks once more and
\* refuses, since the new passphrase is not that of an actor it finds.
CheckUnique(r) ==
    /\ pc[r] = "unique"
    /\ IF actors # {} THEN Answer(r, "refused") ELSE Goto(r, "create")
    /\ UNCHANGED <<dbVars, flow, thing, actor, obsVars, faults>>

CreateActor(r) ==
    /\ pc[r] = "create"
    /\ \E a \in Ids \ actors :
          /\ actors' = actors \cup {a}
          /\ LandsOn(r, a)
    /\ UNCHANGED <<row, stale, mailVars, flow, thing, obsVars, faults>>

\* The application's oauth_success hook may reject the login; otherwise the
\* tokens are stored and handed out.  The callback of a page, ...
WebFinish(r) ==
    /\ At(r, {"web"}, "finish")
    /\ Answer(r, "in") \/ Answer(r, "rejected")
    /\ UNCHANGED <<dbVars, flow, thing, actor, obsVars, faults>>

\* ... of a single-page application, which fetches them from a session, ...
SpaFinish(r) ==
    /\ At(r, {"spa"}, "finish")
    /\ Answer(r, "in") \/ Answer(r, "rejected")
    /\ UNCHANGED <<dbVars, flow, thing, actor, obsVars, faults>>

\* ... and the native grants.
NativeFinish(r) ==
    /\ At(r, {"native", "jwt", "ticket"}, "finish")
    /\ Answer(r, "in") \/ Answer(r, "rejected")
    /\ UNCHANGED <<dbVars, flow, thing, actor, obsVars, faults>>

-----------------------------------------------------------------------------
(* The link that confirms an address: it carries the token that the        *)
(* request r made.                                                         *)

Unverify(r) ==
    /\ pc[r] = "unverify"
    /\ verified' = [verified EXCEPT ![actor[r]] = FALSE]
    /\ Goto(r, "set_token")
    /\ UNCHANGED <<row, stale, actors, token, index, flow, thing, actor,
                   obsVars, faults>>

\* A visit that has accepted the token of actor a and not cleared it yet.
Confirming(a) ==
    {v \in Requests : flow[v] = "visit" /\ actor[v] = a
                        /\ pc[v] \in {"mark", "clear"}}

SetToken(r) ==
    /\ pc[r] = "set_token"
    /\ token' = [token EXCEPT ![actor[r]] = r]
    /\ spoiled' = spoiled \cup ({token[actor[r]]} \ {NoLink})
                    \cup {l \in {r} : Confirming(actor[r]) # {}}
    /\ Goto(r, "set_index")
    /\ UNCHANGED <<row, stale, actors, verified, index, flow, thing, actor,
                   spent, late, crossed, confirmed, faults>>

\* The index row makes the link usable, and the application mails it.
SetIndex(r) ==
    /\ pc[r] = "set_index"
    /\ index' = index \cup {r}
    /\ Answer(r, "in")
    /\ UNCHANGED <<row, stale, actors, verified, token, flow, thing, actor,
                   obsVars, faults>>

\* _handle_email_verification: the index leads to the actor, ...
VisitIndex(r) ==
    /\ At(r, {"visit"}, "read")
    /\ IF thing[r] \in index
       THEN /\ actor' = [actor EXCEPT ![r] = actor[thing[r]]]
            /\ Goto(r, "compare")
       ELSE Answer(r, "refused") /\ UNCHANGED actor
    /\ UNCHANGED <<dbVars, flow, thing, obsVars, faults>>

\* ... whose token must be the link's, and not too old.
VisitCompare(r) ==
    /\ pc[r] = "compare"
    /\ CASE verified[actor[r]] -> Answer(r, "already")
         [] ~verified[actor[r]] /\ token[actor[r]] # thing[r] ->
              Answer(r, "refused")
         [] OTHER -> IF thing[r] \in stale THEN Answer(r, "expired")
                                           ELSE Goto(r, "mark")
    /\ UNCHANGED <<dbVars, flow, thing, actor, obsVars, faults>>

\* Mutant: the token is used up before the address is confirmed.
MarkLast(r) ==
    /\ pc[r] = "mark"
    /\ token' = [token EXCEPT ![actor[r]] = NoLink]
    /\ Goto(r, "clear")
    /\ UNCHANGED <<row, stale, actors, verified, index, flow, thing, actor,
                   obsVars, faults>>

Mark(r) ==
    /\ pc[r] = "mark"
    /\ verified' = [verified EXCEPT ![actor[r]] = TRUE]
    /\ confirmed' = confirmed \cup {thing[r]}
    /\ Goto(r, "clear")
    /\ UNCHANGED <<row, stale, actors, token, index, flow, thing, actor,
                   spent, late, crossed, spoiled, faults>>

ClearToken(r) ==
    /\ pc[r] = "clear"
    /\ token' = [token EXCEPT ![actor[r]] = NoLink]
    /\ Goto(r, "unindex")
    /\ UNCHANGED <<row, stale, actors, verified, index, flow, thing, actor,
                   obsVars, faults>>

DropIndex(r) ==
    /\ pc[r] = "unindex"
    /\ index' = index \ {thing[r]}
    /\ Answer(r, "verified")
    /\ UNCHANGED <<row, stale, actors, verified, token, flow, thing, actor,
                   obsVars, faults>>

-----------------------------------------------------------------------------
(* Time and faults.                                                        *)

\* The end of the life of a thing or link.
Expire(x) ==
    /\ x \notin stale
    /\ x \in index \/ (x \in Things /\ Live(x))
    /\ stale' = stale \cup {x}
    /\ UNCHANGED <<row, actors, mailVars, flow, pc, thing, actor, result,
                   obsVars, faults>>

\* The database purges what is past its time to live, and
\* clear_expired_sessions deletes sessions.  The record of an id_token
\* outlives it by a minute; no request takes that long to look it up.
Purge(x) ==
    /\ x \in Things \cap stale /\ Live(x)
    /\ \A r \in Requests : ~(At(r, {"jwt"}, "read") /\ thing[r] = x)
    /\ row' = [row EXCEPT ![x] = "deleted"]
    /\ UNCHANGED <<stale, actors, mailVars, flow, pc, thing, actor, result,
                   obsVars, faults>>

\* The worker dies.
Crash(r) ==
    /\ r \in InFlight
    /\ faults < MaxFaults
    /\ faults' = faults + 1
    /\ pc' = [pc EXCEPT ![r] = "done"]
    /\ UNCHANGED <<dbVars, flow, thing, actor, result, obsVars>>

-----------------------------------------------------------------------------

Arrive(r) ==
    Callback(r) \/ Token(r) \/ ApplePost(r) \/ EmailPost(r) \/ EmailGet(r)

UseOnce(r) ==
    \/ NonceRead(r) \/ NonceDelete(r) \/ AppleContinue(r) \/ HandOver(r)
    \/ TicketRead(r) \/ TicketDelete(r) \/ ReplayRead(r) \/ ReplayRecord(r)
    \/ StoreSession(r) \/ GetSession(r) \/ DeleteSession(r)

Exchange(r) ==
    WebExchange(r) \/ SpaExchange(r) \/ CodeExchange(r) \/ TicketExchange(r)

Land(r) ==
    \/ ActorFromState(r) \/ WebCheck(r) \/ NativeCheck(r) \/ Find(r)
    \/ CheckUnique(r) \/ CreateActor(r)
    \/ WebFinish(r) \/ SpaFinish(r) \/ NativeFinish(r)

Confirm(r) ==
    \/ Unverify(r) \/ SetToken(r) \/ SetIndex(r) \/ VisitIndex(r)
    \/ VisitCompare(r) \/ Mark(r) \/ ClearToken(r) \/ DropIndex(r)

Next ==
    \/ \E r \in Requests :
          Arrive(r) \/ UseOnce(r) \/ Exchange(r) \/ Land(r) \/ Confirm(r) \/ Crash(r)
    \/ \E x \in Things : Authorize(x) \/ Purge(x)
    \/ \E x \in Things \cup Requests : Expire(x)

Spec == Init /\ [][Next]_vars
-----------------------------------------------------------------------------
(* Properties.                                                             *)

\* What was used up is not accepted from a request that comes later, in
\* whatever form it is replayed; and a ticket logs in once, however its
\* redemptions overlap (oauth_state_store.py:172-175).
SingleUse ==
    /\ \A r \in late : result[r] \notin {"in", "handed", "parked"}
    /\ \A r, q \in Requests :
          At(r, {"ticket"}, "done") /\ At(q, {"ticket"}, "done")
              /\ thing[r] = thing[q] /\ result[r] = "in" /\ result[q] = "in"
          => r = q

\* A person gets a second actor only if two requests were creating one at
\* the same time: what a lookup before them found is not relied on.
OneActorPerPerson == ~crossed => \A a, b \in actors : a = b

\* A link that was mailed is refused only if it has done its work, or if a
\* newer one took its place or met the visit of an older one; a crash during
\* its own visit does not cost the person the link.
LinkStillWorks ==
    \A r \in Requests :
        flow[r] = "visit" /\ result[r] = "refused" =>
            thing[r] \in spoiled \cup confirmed
-----------------------------------------------------------------------------
(* The inductive invariant.                                                *)

\* Which request takes each step, and what it has in hand.
StepsFit == \A r \in Requests :
    /\ pc[r] \in {"burn"} => flow[r] \in {"apple", "ticket", "jwt"}
    /\ pc[r] \in {"apple", "hand_over"} => flow[r] = "apple"
    /\ pc[r] = "exchange" => flow[r] \in {"web", "spa", "native", "ticket"}
    /\ pc[r] = "check" => flow[r] \in {"web", "native", "jwt", "ticket"}
    /\ pc[r] = "park" => flow[r] \in {"web", "spa"}
    /\ pc[r] \in {"reread", "unverify", "set_token", "set_index"} => flow[r] = "email"
    /\ pc[r] \in {"find", "unique", "create", "finish"} => flow[r] # "visit"
    /\ pc[r] \in {"compare", "mark", "clear", "unindex"} => flow[r] = "visit"
    /\ pc[r] # "done" => result[r] = "none"
    /\ pc[r] # "idle" =>
        /\ flow[r] = "ticket" => thing[r] \in Tickets
        /\ flow[r] = "jwt" => thing[r] \in IdTokens
        /\ flow[r] = "apple" => thing[r] \in Nonces
        /\ flow[r] = "email" => thing[r] \in Sessions
        /\ flow[r] = "visit" => thing[r] \in Requests
    /\ pc[r] \in {"finish", "unverify", "set_token", "set_index"} => actor[r] \in Ids

\* What was used up is deleted, but for the record of an id_token.
SpentIsGone == \A x \in spent :
    IF x \in IdTokens THEN Live(x) \/ x \in stale ELSE row[x] = "deleted"

\* Who comes late gets no further than the look at the row.
LateIsRefused == \A r \in late :
    /\ thing[r] \in spent /\ flow[r] \in {"apple", "ticket", "jwt", "email"}
    /\ \/ pc[r] = "read" /\ (flow[r] = "jwt" => Live(thing[r]))
       \/ pc[r] = "done" /\ result[r] \in {"none", "refused"}

\* Has the request redeemed its ticket?
Redeemed(r) ==
    /\ flow[r] = "ticket"
    /\ \/ pc[r] \in {"exchange", "check", "find", "unique", "create", "finish"}
       \/ pc[r] = "done" /\ result[r] = "in"

RedeemedOnce ==
    /\ \A r \in Requests : Redeemed(r) => thing[r] \in spent
    /\ \A r, q \in Requests :
          Redeemed(r) /\ Redeemed(q) /\ thing[r] = thing[q] => r = q

\* One request creates an actor, as there is none.
OneCreator == ~crossed =>
    /\ \A r, q \in Creating : r = q
    /\ \A r \in Creating : actors = {}
    /\ \A a, b \in actors : a = b

\* A link is a request of the form that has stored its token.
IsLink(l) ==
    flow[l] = "email" /\ pc[l] \in {"set_index", "done"} /\ actor[l] \in Ids

LinksFit ==
    /\ \A l \in index \cup spoiled \cup confirmed : IsLink(l)
    /\ \A a \in Ids : token[a] # NoLink => IsLink(token[a])
    /\ \A v \in Requests : flow[v] = "visit" /\ pc[v] # "idle" =>
        /\ IsLink(thing[v])
        /\ pc[v] \in {"compare", "mark", "clear"} => actor[v] = actor[thing[v]]
        /\ pc[v] \in {"clear", "unindex"} => thing[v] \in confirmed

\* The token of a link is with its actor until the link has done its work or
\* is spoiled.
LinkIsKept == \A l \in Requests : l \in index \/ pc[l] = "set_index" =>
    l \in spoiled \cup confirmed \/ token[actor[l]] = l

\* A visit that was let in takes away no token of another link.
VisitsAreTrue == \A v \in Requests : flow[v] = "visit" /\ pc[v] # "idle" =>
    /\ thing[v] \in index \cup spoiled \cup confirmed
    /\ pc[v] \in {"mark", "clear"} =>
          token[actor[v]] \in {NoLink, thing[v]} \cup spoiled \cup confirmed
    /\ result[v] = "refused" => thing[v] \in spoiled \cup confirmed

IInv ==
    /\ TypeOK
    /\ StepsFit
    /\ SpentIsGone
    /\ LateIsRefused
    /\ RedeemedOnce
    /\ OneCreator
    /\ LinksFit
    /\ LinkIsKept
    /\ VisitsAreTrue
=============================================================================
