------------------------------ MODULE McpCache ------------------------------
(***************************************************************************)
(* The caches of the MCP endpoint in one process: validated tokens, the    *)
(* actor's wrapper and the trusts of its clients, kept in module globals   *)
(* (actingweb/handlers/mcp.py), filled by requests and emptied by whatever *)
(* revokes a credential in this process (actingweb/mcp/invalidation.py).   *)
(*                                                                         *)
(* Requests and revocations are threads.  A thread may lose its turn at a  *)
(* call, so a step is one access to a shared dictionary together with the  *)
(* test next to it, or one access to the database.  All tokens are of one  *)
(* actor; evictions for another actor only count the generation.  A sweep  *)
(* over a dictionary is one step, at the copy it works on: what it misses  *)
(* is what came in later, what it drops late was as good as dropped then.  *)
(* Wrappers are only followed as far as their time: what is stored in one, *)
(* and the actor a request makes when none is there, are left out.         *)
(***************************************************************************)
EXTENDS Integers, FiniteSets

CONSTANTS
    Tokens,         \* The access tokens issued for the actor,
    Clients,        \* the clients they were issued to,
    ClientOf,       \* and which to which.
    Requests,       \* Threads that serve MCP requests, one after the other.
    Revocations,    \* Requests of this process that revoke something.
    Ttl,            \* _cache_ttl.
    NegativeTtl,    \* _TRUST_CACHE_NEGATIVE_TTL.
    NoEntry,        \* Not in the cache.
    MaxClock,       \* Bound of the time,
    MaxOthers       \* and of the evictions for other actors.

ASSUME TokensAssumption == ClientOf \in [Tokens -> Clients]
ASSUME PeriodsAssumption ==
    /\ Ttl \in Nat \ {0} /\ NegativeTtl \in Nat
    /\ MaxClock \in Nat /\ MaxOthers \in Nat

Entry == [trust : BOOLEAN, at : Nat]

ASSUME NoEntryAssumption == NoEntry \notin Nat /\ NoEntry \notin Entry

VARIABLES
    (* The database. *)
    valid,          \* The tokens that have their row.
    trusted,        \* The clients that have a trust.
    (* The process. *)
    token_cache,    \* When the request began that validated the token.
    actor_cache,    \* When the wrapper was last used.
    trust_cache,    \* What a client's trust was resolved to, and when.
    generation,     \* _cache_generation.
    (* Each request. *)
    pc, token, start, generation_at_read, found,
    (* Each revocation. *)
    step, covers,
    (* The time, and what was observed. *)
    clock,
    removed,        \* When a token was revoked,
    gone,           \* and the tokens whose revocation has returned.
    late,           \* Did the request begin after that?
    missed,         \* Tokens that went into the cache during an eviction.
    others          \* Evictions for other actors.

store == <<valid, trusted>>
caches == <<token_cache, actor_cache, trust_cache, generation>>
request == <<pc, token, start, generation_at_read, found>>
revocation == <<step, covers>>
observed == <<removed, gone, late, missed, others>>
vars == <<store, caches, request, revocation, clock, observed>>

Idle == {"idle", "served", "refused"}
Steps == Idle \cup {"token", "actor", "trust", "look_up", "put", "snapshot",
    "validate", "fill_token", "fill_actor", "look_up_trust", "fill_trust",
    "put_trust"}
EvictionSteps == {"idle", "tokens", "clear", "drop", "evict_tokens",
    "evict_actor", "evict_trusts", "bump", "done"}

TypeOK ==
    /\ valid \subseteq Tokens /\ trusted \subseteq Clients
    /\ token_cache \in [Tokens -> Nat \cup {NoEntry}]
    /\ actor_cache \in Nat \cup {NoEntry}
    /\ trust_cache \in [Clients -> Entry \cup {NoEntry}]
    /\ generation \in Nat
    /\ pc \in [Requests -> Steps]
    /\ token \in [Requests -> Tokens]
    /\ start \in [Requests -> Nat]
    /\ generation_at_read \in [Requests -> Nat]
    /\ found \in [Requests -> BOOLEAN]
    /\ step \in [Revocations -> EvictionSteps]
    /\ covers \in [Revocations -> SUBSET Tokens]
    /\ clock \in Nat
    /\ removed \in [Tokens -> Nat]
    /\ gone \subseteq Tokens /\ missed \subseteq Tokens
    /\ late \in [Requests -> BOOLEAN]
    /\ others \in Nat

\* A client whose trust could not be created is registered all the same.
Init ==
    /\ valid = Tokens
    /\ trusted \in SUBSET Clients
    /\ token_cache = [t \in Tokens |-> NoEntry]
    /\ actor_cache = NoEntry
    /\ trust_cache = [c \in Clients |-> NoEntry]
    /\ generation = 0
    /\ pc = [r \in Requests |-> "idle"]
    /\ token \in [Requests -> Tokens]
    /\ start = [r \in Requests |-> 0]
    /\ generation_at_read = [r \in Requests |-> 0]
    /\ found = [r \in Requests |-> FALSE]
    /\ step = [v \in Revocations |-> "idle"]
    /\ covers = [v \in Revocations |-> {}]
    /\ clock = 0
    /\ removed = [t \in Tokens |-> 0]
    /\ gone = {} /\ missed = {}
    /\ late = [r \in Requests |-> FALSE]
    /\ others = 0

-----------------------------------------------------------------------------
(* Helpers.                                                                *)

Goto(r, s) == pc' = [pc EXCEPT ![r] = s]
Continue(v, s) == step' = [step EXCEPT ![v] = s]
Client(r) == ClientOf[token[r]]

\* Is an entry of that time fresh for a request that began at now?
IsFresh(time, now) == time # NoEntry /\ now - time < Ttl

\* A trust that was found has no limit of its own, one that was not has.
TrustIsCached(c) ==
    /\ trust_cache[c] # NoEntry
    /\ trust_cache[c].trust \/ clock - trust_cache[c].at <= NegativeTtl

\* Has no eviction ended since the request took its snapshot?
FillIsValid(r) == generation_at_read[r] = generation

\* The local variables of a request end with it.
Forget(r) ==
    /\ generation_at_read' = [generation_at_read EXCEPT ![r] = 0]
    /\ found' = [found EXCEPT ![r] = FALSE]

\* An eviction that has emptied the token cache and is not counted yet.
Evicting == \E v \in Revocations : step[v] \in {"evict_actor", "evict_trusts", "bump"}

-----------------------------------------------------------------------------
(* authenticate_and_get_actor_cached: the caches first.                    *)

\* _cleanup_expired_cache_entries: a wrapper that expires takes the trusts
\* with it.
Expired(time) == time # NoEntry /\ clock - time > Ttl

CleanUp ==
    /\ token_cache' = [t \in Tokens |->
            IF Expired(token_cache[t]) THEN NoEntry ELSE token_cache[t]]
    /\ actor_cache' = IF Expired(actor_cache) THEN NoEntry ELSE actor_cache
    /\ trust_cache' = IF Expired(actor_cache)
                      THEN [c \in Clients |-> NoEntry] ELSE trust_cache
    /\ UNCHANGED generation

\* The clean-up runs in the requests that find it due.
Begin(r, t) ==
    /\ pc[r] \in Idle
    /\ token' = [token EXCEPT ![r] = t]
    /\ start' = [start EXCEPT ![r] = clock]
    /\ late' = [late EXCEPT ![r] = t \in gone]
    /\ Goto(r, "token")
    /\ CleanUp \/ UNCHANGED caches
    /\ UNCHANGED <<store, generation_at_read, found, revocation, clock,
                   removed, gone, missed, others>>

\* Mutant: the entry of a token is renewed whenever it is used.
SlideToken(r) ==
    /\ pc[r] = "token"
    /\ IF IsFresh(token_cache[token[r]], start[r])
       THEN /\ token_cache' = [token_cache EXCEPT ![token[r]] = start[r]]
            /\ Goto(r, "actor")
       ELSE UNCHANGED token_cache /\ Goto(r, "snapshot")
    /\ UNCHANGED <<store, actor_cache, trust_cache, generation, token, start,
                   generation_at_read, found, revocation, clock, observed>>

FindToken(r) ==
    /\ pc[r] = "token"
    /\ Goto(r, IF IsFresh(token_cache[token[r]], start[r])
               THEN "actor" ELSE "snapshot")
    /\ UNCHANGED <<store, caches, token, start, generation_at_read, found,
                   revocation, clock, observed>>

\* A wrapper that is used stays, however old.
FindActor(r) ==
    /\ pc[r] = "actor"
    /\ IsFresh(actor_cache, start[r])
    /\ actor_cache' = start[r]
    /\ Goto(r, "trust")
    /\ UNCHANGED <<store, token_cache, trust_cache, generation, token, start,
                   generation_at_read, found, revocation, clock, observed>>

MissActor(r) ==
    /\ pc[r] = "actor"
    /\ ~IsFresh(actor_cache, start[r])
    /\ Goto(r, "snapshot")
    /\ UNCHANGED <<store, caches, token, start, generation_at_read, found,
                   revocation, clock, observed>>

\* Authenticated, with the trust in the cache or, if it is negative, none.
FindTrust(r) ==
    /\ pc[r] = "trust"
    /\ TrustIsCached(Client(r))
    /\ Goto(r, "served")
    /\ UNCHANGED <<store, caches, token, start, generation_at_read, found,
                   revocation, clock, observed>>

MissTrust(r) ==
    /\ pc[r] = "trust"
    /\ ~TrustIsCached(Client(r))
    /\ trust_cache' = [trust_cache EXCEPT ![Client(r)] = NoEntry]
    /\ Goto(r, "look_up")
    /\ UNCHANGED <<store, token_cache, actor_cache, generation, token, start,
                   generation_at_read, found, revocation, clock, observed>>

\* _lookup_mcp_trust_relationship.
LookUp(r, next) ==
    /\ found' = [found EXCEPT ![r] = Client(r) \in trusted]
    /\ Goto(r, next)
    /\ UNCHANGED <<store, caches, token, start, generation_at_read, revocation,
                   clock, observed>>

LookUpMissed(r) == pc[r] = "look_up" /\ LookUp(r, "put")

PutTrust(r) ==
    /\ trust_cache' = [trust_cache EXCEPT
                           ![Client(r)] = [trust |-> found[r], at |-> clock]]
    /\ Forget(r)
    /\ Goto(r, "served")
    /\ UNCHANGED <<store, token_cache, actor_cache, generation, token, start,
                   revocation, clock, observed>>

\* This path keeps what it found without asking for the generation.
PutMissed(r) == pc[r] = "put" /\ PutTrust(r)

-----------------------------------------------------------------------------
(* ... and then the database.                                              *)

Snapshot(r) ==
    /\ pc[r] = "snapshot"
    /\ generation_at_read' = [generation_at_read EXCEPT ![r] = generation]
    /\ Goto(r, "validate")
    /\ UNCHANGED <<store, caches, token, start, found, revocation, clock,
                   observed>>

\* validate_mcp_token.
Validate(r) ==
    /\ pc[r] = "validate"
    /\ IF token[r] \in valid
       THEN Goto(r, "fill_token") /\ UNCHANGED <<generation_at_read, found>>
       ELSE Goto(r, "refused") /\ Forget(r)
    /\ UNCHANGED <<store, caches, token, start, revocation, clock, observed>>

\* Mutant: a fill is not given up when an eviction came between.
FillTokenAlways(r) ==
    /\ pc[r] = "fill_token"
    /\ token_cache' = [token_cache EXCEPT ![token[r]] = start[r]]
    /\ missed' = IF Evicting THEN missed \cup {token[r]} ELSE missed
    /\ Goto(r, "fill_actor")
    /\ UNCHANGED <<store, actor_cache, trust_cache, generation, token, start,
                   generation_at_read, found, revocation, clock, removed, gone,
                   late, others>>

FillToken(r) ==
    /\ pc[r] = "fill_token"
    /\ IF FillIsValid(r)
       THEN /\ token_cache' = [token_cache EXCEPT ![token[r]] = start[r]]
            /\ missed' = IF Evicting THEN missed \cup {token[r]} ELSE missed
       ELSE UNCHANGED <<token_cache, missed>>
    /\ Goto(r, "fill_actor")
    /\ UNCHANGED <<store, actor_cache, trust_cache, generation, token, start,
                   generation_at_read, found, revocation, clock, removed, gone,
                   late, others>>

\* _get_or_create_actor_cached.
FillActor(r) ==
    /\ pc[r] = "fill_actor"
    /\ actor_cache' = IF IsFresh(actor_cache, start[r]) \/ FillIsValid(r)
                      THEN start[r] ELSE actor_cache
    /\ Goto(r, "look_up_trust")
    /\ UNCHANGED <<store, token_cache, trust_cache, generation, token, start,
                   generation_at_read, found, revocation, clock, observed>>

LookUpTrust(r) == pc[r] = "look_up_trust" /\ LookUp(r, "fill_trust")

\* Here calls lie between the test and the assignment.
FillTrust(r) ==
    /\ pc[r] = "fill_trust"
    /\ IF FillIsValid(r)
       THEN Goto(r, "put_trust") /\ UNCHANGED <<generation_at_read, found>>
       ELSE Goto(r, "served") /\ Forget(r)
    /\ UNCHANGED <<store, caches, token, start, revocation, clock, observed>>

PutFilled(r) == pc[r] = "put_trust" /\ PutTrust(r)

-----------------------------------------------------------------------------
(* What revokes.                                                           *)

\* A token loses its row; a new one has another name.
Remove(tokens) ==
    /\ valid' = valid \ tokens
    /\ removed' = [t \in Tokens |->
                       IF t \in tokens \cap valid THEN clock ELSE removed[t]]

\* revoke_token of an access token.
RevokeToken(v, t) ==
    /\ step[v] = "idle"
    /\ t \in valid
    /\ Remove({t})
    /\ covers' = [covers EXCEPT ![v] = {t}]
    /\ Continue(v, "clear")
    /\ UNCHANGED <<trusted, caches, request, clock, gone, late, missed, others>>

\* Trust.delete of a client's trust: the trust first, ...
DeleteTrust(v, c) ==
    /\ step[v] = "idle"
    /\ c \in trusted
    /\ trusted' = trusted \ {c}
    /\ covers' = [covers EXCEPT ![v] = {t \in Tokens : ClientOf[t] = c}]
    /\ Continue(v, "tokens")
    /\ UNCHANGED <<valid, caches, request, clock, observed>>

\* ... then revoke_client_tokens, ...
RevokeClientTokens(v) ==
    /\ step[v] = "tokens"
    /\ Remove(covers[v])
    /\ Continue(v, "evict_tokens")
    /\ UNCHANGED <<trusted, caches, request, covers, clock, gone, late, missed,
                   others>>

\* ... which may fail without anybody noticing.
RevokeClientTokensFails(v) ==
    /\ step[v] = "tokens"
    /\ covers' = [covers EXCEPT ![v] = {}]
    /\ Continue(v, "evict_tokens")
    /\ UNCHANGED <<store, caches, request, clock, observed>>

\* A refresh token, an SPA session or a permission of the actor.
RevokeOther(v) ==
    /\ step[v] = "idle"
    /\ Continue(v, "evict_tokens")
    /\ UNCHANGED <<store, caches, request, covers, clock, observed>>

\* In another process, by the token's age, or with a client that has no
\* trust any more: nothing is evicted here.
RevokeElsewhere(t) ==
    /\ t \in valid
    /\ Remove({t})
    /\ UNCHANGED <<trusted, caches, request, revocation, clock, gone, late,
                   missed, others>>

-----------------------------------------------------------------------------
(* clear_token_from_cache and evict_mcp_caches_for_actor.                  *)

\* A token that is not cached only counts the generation.
Clear(v) ==
    /\ step[v] = "clear"
    /\ Continue(v, IF \A t \in covers[v] : token_cache[t] = NoEntry
                   THEN "bump" ELSE "drop")
    /\ UNCHANGED <<store, caches, request, covers, clock, observed>>

Drop(v) ==
    /\ step[v] = "drop"
    /\ \A t \in covers[v] : token_cache[t] # NoEntry
    /\ token_cache' = [t \in Tokens |->
                           IF t \in covers[v] THEN NoEntry ELSE token_cache[t]]
    /\ Continue(v, "evict_tokens")
    /\ UNCHANGED <<store, actor_cache, trust_cache, generation, request, covers,
                   clock, observed>>

\* Somebody else has dropped it meanwhile: a KeyError, which
\* evict_caches_for_token swallows.
DropFails(v) ==
    /\ step[v] = "drop"
    /\ \E t \in covers[v] : token_cache[t] = NoEntry
    /\ missed' = missed \cup covers[v]
    /\ gone' = gone \cup covers[v]
    /\ Continue(v, "done")
    /\ UNCHANGED <<store, caches, request, covers, clock, removed, late, others>>

EvictTokens(v) ==
    /\ step[v] = "evict_tokens"
    /\ token_cache' = [t \in Tokens |-> NoEntry]
    /\ Continue(v, "evict_actor")
    /\ UNCHANGED <<store, actor_cache, trust_cache, generation, request, covers,
                   clock, observed>>

EvictActor(v) ==
    /\ step[v] = "evict_actor"
    /\ actor_cache' = NoEntry
    /\ Continue(v, "evict_trusts")
    /\ UNCHANGED <<store, token_cache, trust_cache, generation, request, covers,
                   clock, observed>>

EvictTrusts(v) ==
    /\ step[v] = "evict_trusts"
    /\ trust_cache' = [c \in Clients |-> NoEntry]
    /\ Continue(v, "bump")
    /\ UNCHANGED <<store, token_cache, actor_cache, generation, request, covers,
                   clock, observed>>

\* The eviction is counted when it is over.
Bump(v) ==
    /\ step[v] = "bump"
    /\ generation' = generation + 1
    /\ gone' = gone \cup covers[v]
    /\ Continue(v, "done")
    /\ UNCHANGED <<store, token_cache, actor_cache, trust_cache, request,
                   covers, clock, removed, late, missed, others>>

BumpForOther ==
    /\ others < MaxOthers
    /\ others' = others + 1
    /\ generation' = generation + 1
    /\ UNCHANGED <<store, token_cache, actor_cache, trust_cache, request,
                   revocation, clock, removed, gone, late, missed>>

Tick ==
    /\ clock < MaxClock
    /\ clock' = clock + 1
    /\ UNCHANGED <<store, caches, request, revocation, observed>>

-----------------------------------------------------------------------------

Authenticate(r) ==
    \/ \E t \in Tokens : Begin(r, t)
    \/ FindToken(r) \/ FindActor(r) \/ MissActor(r)
    \/ FindTrust(r) \/ MissTrust(r) \/ LookUpMissed(r) \/ PutMissed(r)
    \/ Snapshot(r) \/ Validate(r) \/ FillToken(r) \/ FillActor(r)
    \/ LookUpTrust(r) \/ FillTrust(r) \/ PutFilled(r)

Revoke(v) ==
    \/ \E t \in Tokens : RevokeToken(v, t)
    \/ \E c \in Clients : DeleteTrust(v, c)
    \/ RevokeClientTokens(v) \/ RevokeClientTokensFails(v) \/ RevokeOther(v)
    \/ Clear(v) \/ Drop(v) \/ DropFails(v)
    \/ EvictTokens(v) \/ EvictActor(v) \/ EvictTrusts(v) \/ Bump(v)

Next ==
    \/ \E r \in Requests : Authenticate(r)
    \/ \E v \in Revocations : Revoke(v)
    \/ \E t \in Tokens : RevokeElsewhere(t)
    \/ BumpForOther
    \/ Tick

Spec == Init /\ [][Next]_vars

-----------------------------------------------------------------------------
(* What the caches keep.                                                   *)

\* A revoked token is honoured for less than the time to live, wherever it
\* was revoked and whatever the requests in flight do: an entry is as old as
\* the request that validated the token, and using it does not renew it.
RevokedWithinTtl ==
    \A r \in Requests :
        pc[r] = "served" /\ token[r] \notin valid
            => start[r] < removed[token[r]] + Ttl

\* A request that read a token before it was revoked does not put it into
\* the cache when the revocation is over: the generation has moved.
NoLateRefill ==
    \A t \in gone : token_cache[t] # NoEntry => t \in missed

\* What the counter is said to achieve ("declines to populate them if it has
\* moved by the time it would insert"): once a revocation has returned, this
\* process serves nobody with the token.
RevokedIsRefused ==
    \A r \in Requests : pc[r] = "served" => ~late[r]

=============================================================================
