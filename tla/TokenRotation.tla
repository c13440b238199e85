---------------------------- MODULE TokenRotation ----------------------------
(***************************************************************************)
(* Rotation of the SPA's refresh tokens: /oauth/spa/token                  *)
(* (handlers/oauth2_spa.py) over the token rows of OAuth2SessionManager    *)
(* (oauth_session.py).                                                     *)
(*                                                                         *)
(* Several requests present refresh tokens at the same time.  A request    *)
(* reads the row, marks it used by compare-and-swap, writes the row once   *)
(* more to shorten its time to live, and stores a new access token and a   *)
(* new refresh token; each of these is a step of its own, and the process  *)
(* may die between any two.  A token presented again is answered by its    *)
(* age: soon after the first use with new tokens, later by revoking the    *)
(* family, and later still as expired.                                     *)
(*                                                                         *)
(* The tokens a client gets for one login, and all that are rotated out of *)
(* them, are a family.  They are numbered in the order they are made; the  *)
(* access token and the refresh token of one response share a number.      *)
(***************************************************************************)
EXTENDS Integers, FiniteSets

CONSTANTS
    Requests,       \* Requests of /oauth/spa/token.
    Grace,          \* GRACE_PERIOD_EXTENDED,
    Window,         \* SPA_REFRESH_TOKEN_REUSE_WINDOW and
    Lifetime,       \* SPA_REFRESH_TOKEN_TTL, in ticks of the clock.
    MaxTokens,      \* Bounds on the tokens made,
    MaxClock,       \* on the clock,
    MaxFaults       \* and on crashes and failed writes.

CONSTANTS NoRow, NoChain

ASSUME PeriodsAssumption ==
    /\ Grace \in Nat /\ Window \in Nat /\ Lifetime \in Nat
    /\ Grace < Window /\ Window < Lifetime
ASSUME BoundsAssumption ==
    MaxTokens \in Nat \ {0} /\ MaxClock \in Nat /\ MaxFaults \in Nat
Tokens == 1..MaxTokens
Chains == Tokens \cup {NoChain}
Times == 0..MaxClock

VARIABLES
    rows,           \* The refresh token rows.
    access,         \* The access token rows that are tied to a family.
    made,           \* Tokens made so far.
    clock,
    pc, token,      \* Of each request: its step, the token it presents,
    seen,           \* the row as it read it,
    new,            \* and the number of the tokens it is making.
    (* What was observed. *)
    family,         \* The login a token descends from.
    wins,           \* Requests that have marked the token used.
    misreported,    \* Tokens that were marked by an update that was reported
                    \* as failed.
    shown, first,   \* Requests that presented the token (more than two count
                    \* as two), and when the first did.
    revoked,        \* Families that have been revoked.
    late,           \* Tokens that were being made when their family was
                    \* revoked, and what is rotated out of them,
    running,        \* and the requests that were or will be making them.
    faults

stores == <<rows, access, made>>
request == <<pc, token, seen, new>>
observed == <<family, wins, misreported, shown, first, revoked, late, running>>
vars == <<stores, clock, request, observed, faults>>

Row == [chain : Chains, used : BOOLEAN, used_at : Times, expires_at : Nat]
ASSUME NoValuesAssumption == NoChain \notin Tokens /\ NoRow \notin Row

AccessRow == [token : Tokens, chain : Tokens]
Steps == {"idle", "unused", "reused", "restamp", "mint", "mint_refresh",
          "revoke", "revoke_access"}

TypeOK ==
    /\ rows \in [Tokens -> Row \cup {NoRow}]
    /\ access \in SUBSET AccessRow
    /\ made \in 0..MaxTokens
    /\ clock \in Times
    /\ pc \in [Requests -> Steps]
    /\ token \in [Requests -> Tokens]
    /\ seen \in [Requests -> Row \cup {NoRow}]
    /\ new \in [Requests -> Tokens]
    /\ family \in [Tokens -> Chains]
    /\ wins \in [Tokens -> Nat]
    /\ misreported \in SUBSET Tokens
    /\ shown \in [Tokens -> 0..2]
    /\ first \in [Tokens -> Times]
    /\ revoked \in SUBSET Tokens
    /\ late \in SUBSET Tokens
    /\ running \in SUBSET Requests
    /\ faults \in 0..MaxFaults

NewRow(chain) == [chain |-> chain, used |-> FALSE, used_at |-> 0,
                  expires_at |-> clock + Lifetime]

\* A store may hold a token from before families were introduced.
Init ==
    /\ clock = 0
    /\ \E legacy \in 0..1 :
        /\ made = legacy
        /\ rows = [n \in Tokens |->
                        IF n <= legacy THEN NewRow(NoChain) ELSE NoRow]
    /\ access = {}
    /\ pc = [r \in Requests |-> "idle"]
    /\ token = [r \in Requests |-> 1]
    /\ seen = [r \in Requests |-> NoRow]
    /\ new = [r \in Requests |-> 1]
    /\ family = [n \in Tokens |-> NoChain]
    /\ wins = [n \in Tokens |-> 0]
    /\ misreported = {}
    /\ shown = [n \in Tokens |-> 0]
    /\ first = [n \in Tokens |-> 0]
    /\ revoked = {}
    /\ late = {}
    /\ running = {}
    /\ faults = 0

-----------------------------------------------------------------------------
(* Presenting a token: try_mark_refresh_token_used.                        *)

Finish(r) ==
    /\ pc' = [pc EXCEPT ![r] = "idle"]
    /\ token' = [token EXCEPT ![r] = 1]
    /\ seen' = [seen EXCEPT ![r] = NoRow]
    /\ new' = [new EXCEPT ![r] = 1]
    /\ running' = running \ {r}

GoOn(r, step) == pc' = [pc EXCEPT ![r] = step] /\ UNCHANGED <<token, new>>

Fault == faults < MaxFaults /\ faults' = faults + 1

\* The contents a token row is to have once it is used, and had before.
Marked(row) == [row EXCEPT !.used = TRUE, !.used_at = clock]
Unmarked(row) == [row EXCEPT !.used = FALSE, !.used_at = 0]

\* A token without a row is answered 401 and nothing changes.
Present(r, n) ==
    /\ pc[r] = "idle"
    /\ rows[n] # NoRow
    /\ shown' = [shown EXCEPT ![n] = IF @ = 2 THEN @ ELSE @ + 1]
    /\ first' = [first EXCEPT ![n] = IF shown[n] = 0 THEN clock ELSE @]
    /\ \/ /\ ~rows[n].used /\ clock > rows[n].expires_at
          /\ rows' = [rows EXCEPT ![n] = NoRow]
          /\ UNCHANGED request
       \/ /\ rows[n].used \/ clock <= rows[n].expires_at
          /\ pc' = [pc EXCEPT ![r] =
                        IF rows[n].used THEN "reused" ELSE "unused"]
          /\ seen' = [seen EXCEPT ![r] =
                        IF rows[n].used THEN rows[n] ELSE Marked(rows[n])]
          /\ token' = [token EXCEPT ![r] = n]
          /\ UNCHANGED <<rows, new>>
    /\ UNCHANGED <<access, made, clock, family, wins, misreported, revoked,
                   late, running, faults>>

\* The compare-and-swap did not happen or is not known to have: the row is
\* read again.
ReadAgain(r, row) ==
    \/ row = NoRow /\ Finish(r)
    \/ /\ row # NoRow
       /\ seen' = [seen EXCEPT ![r] = row]
       /\ GoOn(r, "reused")
       /\ UNCHANGED running

\* Mutant: the row is written whatever it holds by now.
MarkAnyway(r) ==
    /\ pc[r] = "unused"
    /\ rows' = [rows EXCEPT ![token[r]] = seen[r]]
    /\ wins' = [wins EXCEPT ![token[r]] = @ + 1]
    /\ GoOn(r, "restamp")
    /\ UNCHANGED <<access, made, clock, seen, family, misreported, shown,
                   first, revoked, late, running, faults>>

Mark(r) ==
    LET n == token[r] IN
    /\ pc[r] = "unused"
    /\ \/ /\ rows[n] = Unmarked(seen[r])
          /\ rows' = [rows EXCEPT ![n] = seen[r]]
          /\ wins' = [wins EXCEPT ![n] = @ + 1]
          /\ GoOn(r, "restamp")
          /\ UNCHANGED <<seen, running>>
       \/ /\ rows[n] # Unmarked(seen[r])
          /\ ReadAgain(r, rows[n])
          /\ UNCHANGED <<rows, wins>>
    /\ UNCHANGED <<access, made, clock, family, misreported, shown, first,
                   revoked, late, faults>>

\* The database reports an error, of an update it has made or has not made.
MarkFails(r) ==
    LET n == token[r]
        match == rows[n] = Unmarked(seen[r]) IN
    /\ pc[r] = "unused"
    /\ Fault
    /\ \/ ReadAgain(r, rows[n]) /\ UNCHANGED <<rows, misreported>>
       \/ /\ match
          /\ rows' = [rows EXCEPT ![n] = seen[r]]
          /\ misreported' = misreported \cup {n}
          /\ ReadAgain(r, seen[r])
    /\ UNCHANGED <<access, made, clock, family, wins, shown, first, revoked,
                   late>>

\* The winner shortens the life of the row it has marked.  It writes the
\* whole row, also when the row has been deleted meanwhile.  (Lives are not
\* part of the model: Purge may take a used row once the window is over.)
Restamp(r) ==
    /\ pc[r] = "restamp"
    /\ \/ /\ rows' = [rows EXCEPT ![token[r]] = seen[r]]
          /\ late' = IF rows[token[r]] # NoRow THEN late
                     ELSE late \cup {token[r]}
          /\ UNCHANGED faults
       \/ Fault /\ UNCHANGED <<rows, late>>
    /\ GoOn(r, "mint")
    /\ UNCHANGED <<access, made, clock, seen, family, wins, misreported,
                   shown, first, revoked, running>>

-----------------------------------------------------------------------------
(* Answering: _handle_refresh_token.                                       *)

\* A row that was never marked has no used_at: its age is that of the epoch.
Age(row) == IF row.used THEN clock - row.used_at ELSE Window + 1

\* Mutant: the grace period ends a tick early.
JudgeEarly(r) ==
    LET age == Age(seen[r]) IN
    /\ pc[r] = "reused"
    /\ \/ /\ age < Grace
          /\ GoOn(r, "mint")
          /\ UNCHANGED <<rows, seen, running>>
       \/ age > Window /\ Finish(r) /\ UNCHANGED rows
       \/ /\ age >= Grace /\ age <= Window /\ seen[r].chain # NoChain
          /\ GoOn(r, "revoke")
          /\ UNCHANGED <<rows, seen, running>>
       \/ /\ age >= Grace /\ age <= Window /\ seen[r].chain = NoChain
          /\ rows' = [rows EXCEPT ![token[r]] = NoRow]
          /\ Finish(r)
    /\ UNCHANGED <<access, made, clock, family, wins, misreported, shown,
                   first, revoked, late, faults>>

Judge(r) ==
    LET age == Age(seen[r]) IN
    /\ pc[r] = "reused"
    /\ \/ /\ age <= Grace
          /\ GoOn(r, "mint")
          /\ UNCHANGED <<rows, seen, running>>
       \/ age > Window /\ Finish(r) /\ UNCHANGED rows
       \/ /\ age > Grace /\ age <= Window /\ seen[r].chain # NoChain
          /\ GoOn(r, "revoke")
          /\ UNCHANGED <<rows, seen, running>>
       \/ /\ age > Grace /\ age <= Window /\ seen[r].chain = NoChain
          /\ rows' = [rows EXCEPT ![token[r]] = NoRow]
          /\ Finish(r)
    /\ UNCHANGED <<access, made, clock, family, wins, misreported, shown,
                   first, revoked, late, faults>>

MadeLate(r, n) == {m \in {n} : r \in running \/ token[r] \in late}

\* The access token is made first; a failure to store it is only logged.
MintAccess(r) ==
    LET n == made + 1 IN
    /\ pc[r] = "mint"
    /\ made < MaxTokens
    /\ made' = n
    /\ new' = [new EXCEPT ![r] = n]
    /\ \/ /\ access' = access \cup {[token |-> n, chain |-> c] :
                                        c \in {seen[r].chain} \ {NoChain}}
          /\ UNCHANGED faults
       \/ Fault /\ UNCHANGED access
    /\ family' = [family EXCEPT ![n] =
                    IF family[token[r]] = NoChain THEN n ELSE family[token[r]]]
    /\ late' = late \cup MadeLate(r, n)
    /\ pc' = [pc EXCEPT ![r] = "mint_refresh"]
    /\ UNCHANGED <<rows, clock, token, seen, wins, misreported, shown, first,
                   revoked, running>>

\* Mutant: the new refresh token starts a family of its own.
MintRefreshAlone(r) ==
    /\ pc[r] = "mint_refresh"
    /\ rows' = [rows EXCEPT ![new[r]] = NewRow(new[r])]
    /\ late' = late \cup MadeLate(r, new[r])
    /\ Finish(r)
    /\ UNCHANGED <<access, made, clock, family, wins, misreported, shown,
                   first, revoked, faults>>

\* create_refresh_token: without a family to continue it starts one.
MintRefresh(r) ==
    LET chain == seen[r].chain IN
    /\ pc[r] = "mint_refresh"
    /\ rows' = [rows EXCEPT ![new[r]] =
                    NewRow(IF chain = NoChain THEN new[r] ELSE chain)]
    /\ late' = late \cup MadeLate(r, new[r])
    /\ Finish(r)
    /\ UNCHANGED <<access, made, clock, family, wins, misreported, shown,
                   first, revoked, faults>>

\* Requests past the point where the family's rows matter to them.
InFlight(chain) ==
    {r \in Requests :
        /\ pc[r] \in {"reused", "restamp", "mint", "mint_refresh"}
        /\ seen[r].chain = chain}

\* revoke_token_chain: delete_by_chain takes the refresh tokens first, the
\* access tokens second.
RevokeChain(r) ==
    LET chain == seen[r].chain IN
    /\ pc[r] = "revoke"
    /\ rows' = [n \in Tokens |-> IF rows[n] # NoRow /\ rows[n].chain = chain
                                 THEN NoRow ELSE rows[n]]
    /\ GoOn(r, "revoke_access")
    /\ running' = running \cup InFlight(chain)
    /\ UNCHANGED <<access, made, clock, seen, family, wins, misreported,
                   shown, first, revoked, late, faults>>

RevokeChainAccess(r) ==
    LET chain == seen[r].chain IN
    /\ pc[r] = "revoke_access"
    /\ access' = {a \in access : a.chain # chain}
    /\ revoked' = revoked \cup {chain}
    /\ Finish(r)
    /\ UNCHANGED <<rows, made, clock, family, wins, misreported, shown, first,
                   late, faults>>

-----------------------------------------------------------------------------
(* Logins, revocations, expiry, crashes.                                   *)

\* The access token of a login is not tied to the family.
Login ==
    LET n == made + 1 IN
    /\ made < MaxTokens
    /\ made' = n
    /\ rows' = [rows EXCEPT ![n] = NewRow(n)]
    /\ family' = [family EXCEPT ![n] = n]
    /\ UNCHANGED <<access, clock, request, wins, misreported, shown, first,
                   revoked, late, running, faults>>

\* revoke_refresh_token, by /oauth/spa/revoke or /oauth/spa/logout.
RevokeRefreshToken(n) ==
    /\ rows[n] # NoRow
    /\ rows' = [rows EXCEPT ![n] = NoRow]
    /\ UNCHANGED <<access, made, clock, request, observed, faults>>

\* An access token is revoked, or it expires.
EndAccessToken(a) ==
    /\ access' = access \ {a}
    /\ UNCHANGED <<rows, made, clock, request, observed, faults>>

\* purge_expired_tokens, cleanup_expired_tokens, or the time to live of the
\* DynamoDB table: at any time after the end of the row's life.
Purge(n) ==
    /\ rows[n] # NoRow
    /\ \/ clock > rows[n].expires_at
       \/ rows[n].used /\ clock > rows[n].used_at + Window
    /\ rows' = [rows EXCEPT ![n] = NoRow]
    /\ UNCHANGED <<access, made, clock, request, observed, faults>>

Die(r) ==
    /\ pc[r] # "idle"
    /\ Fault
    /\ Finish(r)
    /\ UNCHANGED <<stores, clock, family, wins, misreported, shown, first,
                   revoked, late>>

Tick ==
    /\ clock < MaxClock
    /\ clock' = clock + 1
    /\ UNCHANGED <<stores, request, observed, faults>>

Next ==
    \/ \E r \in Requests :
        \/ \E n \in Tokens : Present(r, n)
        \/ Mark(r) \/ MarkFails(r) \/ Restamp(r) \/ Judge(r)
        \/ MintAccess(r) \/ MintRefresh(r)
        \/ RevokeChain(r) \/ RevokeChainAccess(r)
        \/ Die(r)
    \/ Login \/ Tick
    \/ \E n \in Tokens : RevokeRefreshToken(n) \/ Purge(n)
    \/ \E a \in access : EndAccessToken(a)

Spec == Init /\ [][Next]_vars

-----------------------------------------------------------------------------
(* Properties.                                                             *)

\* Of all the requests that present a refresh token, at the same time or one
\* after another, at most one is told that it used the token: it rotates
\* without asking for the token's age (try_mark_refresh_token_used).
OneWinner == \A n \in Tokens : wins[n] <= 1

\* Can the token still be used by the first to present it?
Usable(n) == rows[n] # NoRow /\ ~rows[n].used /\ clock <= rows[n].expires_at

\* When a family has been revoked, every token that descends from its login
\* by rotation is gone and none comes back, but for those that requests past
\* their read of the family's rows were making when it was revoked, and those
\* rotated out of them (revoke_token_chain).
RevokedStaysRevoked ==
    \A n \in Tokens :
        /\ family[n] \in revoked
        /\ \/ Usable(n)
           \/ \E a \in access : a.token = n
        => n \in late

\* A family is revoked only if the grace period of one of its tokens was over
\* while a request for it was still being answered, and that token was
\* presented twice or the database misreported its first use: crashes, lost
\* answers, failed updates and concurrent requests alone never do it
\* (_handle_refresh_token).
LockoutIsEarned ==
    \A c \in revoked : \E n \in Tokens :
        /\ family[n] = c
        /\ shown[n] >= 2 \/ n \in misreported
        /\ clock > first[n] + Grace
=============================================================================
