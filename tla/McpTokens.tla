----------------------------- MODULE McpTokens ------------------------------
(***************************************************************************)
(* The tokens of MCP clients: authorization codes, access tokens and       *)
(* refresh tokens (actingweb/oauth2_server/token_manager.py), for clients  *)
(* of the registry (client_registry.py) that ask the token endpoint        *)
(* (oauth2_server.py).                                                     *)
(*                                                                         *)
(* What is issued has two rows: its data in a bucket of its actor, and the *)
(* actor's id in an index.  It is found through the index, made data       *)
(* first, and removed data first.  Requests only meet in the database:     *)
(* each action is one access to it.  A request that dies is one that takes *)
(* no further step.                                                        *)
(***************************************************************************)
EXTENDS Integers, FiniteSets

CONSTANTS
    CodeIds,        \* Names the server may give to what it issues to a client:
    AccessIds,      \* they are random and none is given twice.
    RefreshIds,
    Clients,
    Requests,
    MaxFaults       \* How many accesses may fail.

Codes == [kind : {"code"}, client : Clients, id : CodeIds]
AccessTokens == [kind : {"access"}, client : Clients, id : AccessIds]
RefreshTokens == [kind : {"refresh"}, client : Clients, id : RefreshIds]
Tokens == AccessTokens \cup RefreshTokens
Items == Codes \cup Tokens

ClientOf(i) == i.client

VARIABLES
    (* The database. *)
    row,            \* The data of each item; a code's says if it was used.
    index,          \* The items that can be found.
    provider,       \* Codes that have the provider's tokens with them.
    registered,     \* The clients.
    made,           \* Names that have been given,
    expired,        \* and those whose time is up.
    (* Each request. *)
    pc, op, client, item, access, refresh,
    todo,           \* What is left of a list that is worked through,
    listed,         \* and what the list is of.
    then,           \* Where a removal leads to.
    (* What was observed. *)
    handed,         \* What the clients have been given.
    spent,          \* Codes whose exchange has been answered with tokens.
    late,           \* Did the exchange begin after that?
    revoked,        \* Tokens whose revocation is over, with no refresh that
                    \* had found them.
    touched,        \* What somebody has begun to revoke.
    faults

database == <<row, index, provider, registered>>
locals == <<op, client, item, access, refresh, todo, listed, then>>
observed == <<handed, spent, late, revoked, touched, faults>>
vars == <<database, made, expired, pc, locals, observed>>

Idle == {"idle", "granted", "refused", "done"}
Finding == {"read_index", "read_row", "drop_stale"}
Storing == {"store_provider", "store_code", "index_code", "mark", "mark_index",
    "store_access", "index_access", "store_refresh", "index_refresh",
    "restore", "restore_index"}
Removing == {"find", "drop_row", "drop_index"}
Steps == Idle \cup Finding \cup Storing \cup Removing \cup
    {"read_provider", "drop_provider", "list", "next", "drop_client"}
Operations == {"authorize", "exchange", "validate", "refresh", "revoke",
    "credentials", "delete_client", "clean_up"}

TypeOK ==
    /\ row \in [Items -> {"none", "fresh", "used"}]
    /\ index \subseteq Items /\ made \subseteq Items /\ expired \subseteq Items
    /\ provider \subseteq Codes
    /\ registered \subseteq Clients
    /\ pc \in [Requests -> Steps]
    /\ op \in [Requests -> Operations]
    /\ client \in [Requests -> Clients]
    /\ item \in [Requests -> Items]
    /\ access \in [Requests -> AccessTokens]
    /\ refresh \in [Requests -> RefreshTokens]
    /\ todo \in [Requests -> SUBSET Items]
    /\ listed \in [Requests -> {"access", "refresh", "codes"}]
    /\ then \in [Requests -> {"granted", "refused", "done", "next"}]
    /\ handed \subseteq Items /\ spent \subseteq Items
    /\ late \in [Requests -> BOOLEAN]
    /\ revoked \subseteq Items /\ touched \subseteq Items
    /\ faults \in Nat

Init ==
    /\ row = [i \in Items |-> "none"]
    /\ index = {} /\ provider = {} /\ made = {} /\ expired = {}
    /\ registered = Clients
    /\ pc = [r \in Requests |-> "idle"]
    /\ op = [r \in Requests |-> "validate"]
    /\ client \in [Requests -> Clients]
    /\ item \in [Requests -> Items]
    /\ access \in [Requests -> AccessTokens]
    /\ refresh \in [Requests -> RefreshTokens]
    /\ todo = [r \in Requests |-> {}]
    /\ listed = [r \in Requests |-> "access"]
    /\ then = [r \in Requests |-> "refused"]
    /\ handed = {} /\ spent = {}
    /\ late = [r \in Requests |-> FALSE]
    /\ revoked = {} /\ touched = {}
    /\ faults = 0

-----------------------------------------------------------------------------
(* Helpers.                                                                *)

At(r, step) == pc[r] = step
Goto(r, step) == pc' = [pc EXCEPT ![r] = step]

\* The names for a client that have not been given.
New(names, c) == {i \in names \ made : ClientOf(i) = c}

\* Has a refresh found the token, which it is going to store again?
Renewing(i) == \E r \in Requests :
    /\ op[r] = "refresh" /\ item[r] = i
    /\ pc[r] \in {"read_row", "store_access", "index_access", "restore",
                   "restore_index"}

\* The item is answered as if it did not exist; the clean-up removes its
\* index entry.
Absent(r) == Goto(r, IF op[r] = "clean_up" THEN "drop_index" ELSE "refused")

\* _remove_access_token, _remove_refresh_token or _remove_auth_code.
Remove(r, next) == then' = [then EXCEPT ![r] = next] /\ Goto(r, "find")

\* The answer of a removal: an exchange that succeeded ends with one.
Finish(r) ==
    /\ Goto(r, then[r])
    /\ IF then[r] = "granted"
       THEN /\ handed' = handed \cup {access[r], refresh[r]}
            /\ spent' = spent \cup {item[r]}
       ELSE UNCHANGED <<handed, spent>>

-----------------------------------------------------------------------------
(* The requests.                                                           *)

Begin(r, what, c, i, step) ==
    /\ pc[r] \in Idle
    /\ op' = [op EXCEPT ![r] = what]
    /\ client' = [client EXCEPT ![r] = c]
    /\ item' = [item EXCEPT ![r] = i]
    /\ late' = [late EXCEPT ![r] = i \in spent]
    /\ Goto(r, step)
    /\ UNCHANGED <<database, made, expired, access, refresh, todo, listed,
                   then, handed, spent, revoked, faults>>

\* create_authorization_code, when the provider has sent the user back.
Authorize(r, c) ==
    /\ c \in registered
    /\ Begin(r, "authorize", c, item[r], "store_provider")
    /\ UNCHANGED touched

\* The token endpoint: the client is validated first.
Exchange(r, i) ==
    /\ i \in Codes \cap handed
    /\ ClientOf(i) \in registered
    /\ Begin(r, "exchange", ClientOf(i), i, "read_index")
    /\ UNCHANGED touched

Refresh(r, i) ==
    /\ i \in RefreshTokens \cap handed
    /\ ClientOf(i) \in registered
    /\ Begin(r, "refresh", ClientOf(i), i, "read_index")
    /\ UNCHANGED touched

Credentials(r, c) ==
    /\ c \in registered
    /\ Begin(r, "credentials", c, item[r], "store_access")
    /\ UNCHANGED touched

\* validate_access_token, of the MCP endpoint.
Validate(r, i) ==
    /\ i \in AccessTokens \cap handed
    /\ Begin(r, "validate", ClientOf(i), i, "read_index")
    /\ UNCHANGED touched

\* revoke_token: what it does to "associated" tokens is not implemented.
Revoke(r, i) ==
    /\ i \in Tokens \cap handed
    /\ Begin(r, "revoke", ClientOf(i), i, "read_index")
    /\ touched' = touched \cup {i}

\* delete_client, which begins with revoke_client_tokens, and
\* cleanup_expired_tokens: lists that are worked through.
WorkThrough(r, what, c) ==
    /\ pc[r] \in Idle
    /\ op' = [op EXCEPT ![r] = what]
    /\ client' = [client EXCEPT ![r] = c]
    /\ listed' = [listed EXCEPT ![r] = "access"]
    /\ then' = [then EXCEPT ![r] = "next"]
    /\ Goto(r, "list")
    /\ UNCHANGED <<database, made, expired, item, access, refresh, todo, handed,
                   spent, late, revoked, touched, faults>>

DeleteClient(r, c) == c \in registered /\ WorkThrough(r, "delete_client", c)
CleanUp(r) == WorkThrough(r, "clean_up", client[r])

-----------------------------------------------------------------------------
(* Finding: _search_..._in_actors.                                         *)

ReadIndex(r) ==
    /\ At(r, "read_index")
    /\ IF item[r] \in index THEN Goto(r, "read_row") ELSE Absent(r)
    /\ UNCHANGED <<database, made, expired, locals, observed>>

\* An index entry without data is removed.
RowIsMissing(r) ==
    /\ At(r, "read_row")
    /\ row[item[r]] = "none"
    /\ Goto(r, "drop_stale")
    /\ UNCHANGED <<database, made, expired, locals, observed>>

DropStale(r) ==
    /\ At(r, "drop_stale")
    /\ index' = index \ {item[r]}
    /\ Absent(r)
    /\ UNCHANGED <<row, provider, registered, made, expired, locals, observed>>

\* What is done with an item that was found.
Found(r, what) ==
    /\ At(r, "read_row")
    /\ row[item[r]] # "none"
    /\ op[r] = what
    /\ UNCHANGED <<database, made, expired, op, client, item, access, refresh,
                   todo, listed, observed>>

\* Another client's item, or a wrong code_verifier.
Mismatch(r) ==
    /\ \E what \in {"exchange", "refresh"} : Found(r, what)
    /\ item[r] \notin expired /\ row[item[r]] = "fresh"
    /\ Goto(r, "refused") /\ UNCHANGED then

ExchangeFound(r) ==
    /\ Found(r, "exchange")
    /\ IF item[r] \in expired \/ row[item[r]] = "used"
       THEN then' = [then EXCEPT ![r] = "refused"] /\ Goto(r, "drop_provider")
       ELSE UNCHANGED then /\ Goto(r, "mark")

RefreshFound(r) ==
    /\ Found(r, "refresh")
    /\ IF item[r] \in expired
       THEN Remove(r, "refused") ELSE UNCHANGED then /\ Goto(r, "store_access")

ValidateFound(r) ==
    /\ Found(r, "validate")
    /\ IF item[r] \in expired
       THEN Remove(r, "refused") ELSE UNCHANGED then /\ Goto(r, "granted")

RevokeFound(r) == Found(r, "revoke") /\ Remove(r, "done")

CleanUpFound(r) ==
    /\ Found(r, "clean_up")
    /\ IF item[r] \in expired
       THEN Remove(r, "next") ELSE UNCHANGED then /\ Goto(r, "next")

-----------------------------------------------------------------------------
(* Storing.                                                                *)

\* _store_auth_code, _store_access_token, _store_refresh_token.
StoreRow(i, data) == row' = [row EXCEPT ![i] = data]
StoreIndex(i) == index' = index \cup {i}

StoreProvider(r, i) ==
    /\ At(r, "store_provider")
    /\ i \in New(Codes, client[r])
    /\ made' = made \cup {i}
    /\ provider' = provider \cup {i}
    /\ item' = [item EXCEPT ![r] = i]
    /\ Goto(r, "store_code")
    /\ UNCHANGED <<row, index, registered, expired, op, client, access, refresh,
                   todo, listed, then, observed>>

StoreCode(r) ==
    /\ At(r, "store_code")
    /\ StoreRow(item[r], "fresh")
    /\ Goto(r, "index_code")
    /\ UNCHANGED <<index, provider, registered, made, expired, locals, observed>>

IndexCode(r) ==
    /\ At(r, "index_code")
    /\ StoreIndex(item[r])
    /\ handed' = handed \cup {item[r]}
    /\ Goto(r, "granted")
    /\ UNCHANGED <<row, provider, registered, made, expired, locals, spent,
                   late, revoked, touched, faults>>

\* The code is marked as used ...
Mark(r) ==
    /\ At(r, "mark")
    /\ StoreRow(item[r], "used")
    /\ Goto(r, "mark_index")
    /\ UNCHANGED <<index, provider, registered, made, expired, locals, observed>>

MarkIndex(r) ==
    /\ At(r, "mark_index")
    /\ StoreIndex(item[r])
    /\ Goto(r, "read_provider")
    /\ UNCHANGED <<row, provider, registered, made, expired, locals, observed>>

\* ... and removed again if another exchange has taken what belongs to it.
ReadProvider(r) ==
    /\ At(r, "read_provider")
    /\ IF item[r] \in provider
       THEN Goto(r, "store_access") /\ UNCHANGED then
       ELSE Remove(r, "refused")
    /\ UNCHANGED <<database, made, expired, op, client, item, access, refresh,
                   todo, listed, observed>>

\* _create_access_token, _create_access_token_from_refresh and
\* create_access_token.
StoreAccess(r, i) ==
    /\ At(r, "store_access")
    /\ i \in New(AccessTokens, client[r])
    /\ made' = made \cup {i}
    /\ StoreRow(i, "fresh")
    /\ access' = [access EXCEPT ![r] = i]
    /\ Goto(r, "index_access")
    /\ UNCHANGED <<index, provider, registered, expired, op, client, item,
                   refresh, todo, listed, then, observed>>

IndexAccess(r) ==
    /\ At(r, "index_access")
    /\ StoreIndex(access[r])
    /\ Goto(r, CASE op[r] = "exchange" -> "store_refresh"
                 [] op[r] = "refresh" -> "restore"
                 [] OTHER -> "granted")
    /\ handed' = IF op[r] = "credentials" THEN handed \cup {access[r]} ELSE handed
    /\ UNCHANGED <<row, provider, registered, made, expired, locals, spent,
                   late, revoked, touched, faults>>

\* _create_refresh_token.
StoreRefresh(r, i) ==
    /\ At(r, "store_refresh")
    /\ i \in New(RefreshTokens, client[r])
    /\ made' = made \cup {i}
    /\ StoreRow(i, "fresh")
    /\ refresh' = [refresh EXCEPT ![r] = i]
    /\ Goto(r, "index_refresh")
    /\ UNCHANGED <<index, provider, registered, expired, op, client, item,
                   access, todo, listed, then, observed>>

IndexRefresh(r) ==
    /\ At(r, "index_refresh")
    /\ StoreIndex(refresh[r])
    /\ then' = [then EXCEPT ![r] = "granted"]
    /\ Goto(r, "drop_provider")
    /\ UNCHANGED <<row, provider, registered, made, expired, op, client, item,
                   access, refresh, todo, listed, observed>>

\* A refresh stores the refresh token with its new access token, whether or
\* not it is still there.
Restore(r) ==
    /\ At(r, "restore")
    /\ StoreRow(item[r], "fresh")
    /\ Goto(r, "restore_index")
    /\ UNCHANGED <<index, provider, registered, made, expired, locals, observed>>

RestoreIndex(r) ==
    /\ At(r, "restore_index")
    /\ StoreIndex(item[r])
    /\ handed' = handed \cup {access[r]}
    /\ Goto(r, "granted")
    /\ UNCHANGED <<row, provider, registered, made, expired, locals, spent,
                   late, revoked, touched, faults>>

-----------------------------------------------------------------------------
(* Removing.                                                               *)

\* _remove_google_token_data, then _remove_auth_code.
DropProvider(r) ==
    /\ At(r, "drop_provider")
    /\ provider' = provider \ {item[r]}
    /\ Goto(r, "find")
    /\ UNCHANGED <<row, index, registered, made, expired, locals, observed>>

\* Data that cannot be found is left alone.
Find(r) ==
    /\ At(r, "find")
    /\ Goto(r, IF item[r] \in index THEN "drop_row" ELSE "drop_index")
    /\ UNCHANGED <<database, made, expired, locals, observed>>

DropRow(r) ==
    /\ At(r, "drop_row")
    /\ StoreRow(item[r], "none")
    /\ Goto(r, "drop_index")
    /\ UNCHANGED <<index, provider, registered, made, expired, locals, observed>>

DropIndex(r) ==
    /\ At(r, "drop_index")
    /\ index' = index \ {item[r]}
    /\ Finish(r)
    /\ revoked' = IF /\ op[r] \in {"revoke", "delete_client"}
                     /\ item[r] \in handed /\ ~Renewing(item[r])
                  THEN revoked \cup {item[r]} ELSE revoked
    /\ UNCHANGED <<row, provider, registered, made, expired, locals, late,
                   touched, faults>>

-----------------------------------------------------------------------------
(* Lists.                                                                  *)

Kind(what) == CASE what = "access" -> AccessTokens
                [] what = "refresh" -> RefreshTokens
                [] OTHER -> Codes

\* Of a client's data, or of the index.
List(r) ==
    /\ At(r, "list")
    /\ todo' = [todo EXCEPT ![r] = {i \in Kind(listed[r]) :
                    IF op[r] = "clean_up" THEN i \in index
                    ELSE row[i] # "none" /\ ClientOf(i) = client[r]}]
    /\ touched' = IF op[r] = "clean_up" THEN touched
                  ELSE touched \cup todo'[r]
    /\ Goto(r, "next")
    /\ UNCHANGED <<database, made, expired, op, client, item, access, refresh,
                   listed, then, handed, spent, late, revoked, faults>>

NextItem(r, i) ==
    /\ At(r, "next")
    /\ i \in todo[r]
    /\ todo' = [todo EXCEPT ![r] = @ \ {i}]
    /\ item' = [item EXCEPT ![r] = i]
    /\ then' = [then EXCEPT ![r] = "next"]
    /\ Goto(r, IF op[r] = "clean_up" THEN "read_index" ELSE "find")
    /\ UNCHANGED <<database, made, expired, op, client, access, refresh, listed,
                   observed>>

NextList(r) ==
    /\ At(r, "next")
    /\ todo[r] = {}
    /\ \/ listed[r] = "access" /\ listed' = [listed EXCEPT ![r] = "refresh"]
       \/ /\ listed[r] = "refresh" /\ op[r] = "clean_up"
          /\ listed' = [listed EXCEPT ![r] = "codes"]
    /\ Goto(r, "list")
    /\ UNCHANGED <<database, made, expired, op, client, item, access, refresh,
                   todo, then, observed>>

LastList(r) ==
    /\ At(r, "next")
    /\ todo[r] = {}
    /\ \/ listed[r] = "refresh" /\ op[r] = "delete_client" /\ Goto(r, "drop_client")
       \/ listed[r] = "codes" /\ Goto(r, "done")
    /\ UNCHANGED <<database, made, expired, locals, observed>>

\* The client's own rows are removed last.
DropClient(r) ==
    /\ At(r, "drop_client")
    /\ registered' = registered \ {client[r]}
    /\ Goto(r, "done")
    /\ UNCHANGED <<row, index, provider, made, expired, locals, observed>>

-----------------------------------------------------------------------------
(* Failures, and time.                                                     *)

Fault == faults < MaxFaults /\ faults' = faults + 1

\* Not to be read is not to be there.
ReadFails(r) ==
    /\ Fault
    /\ \/ pc[r] \in Finding /\ Absent(r) /\ UNCHANGED then
       \/ At(r, "read_provider") /\ Remove(r, "refused")
    /\ UNCHANGED <<database, made, expired, op, client, item, access, refresh,
                   todo, listed, handed, spent, late, revoked, touched>>

\* What cannot be stored is an error, ...
StoreFails(r) ==
    /\ Fault
    /\ pc[r] \in Storing
    /\ Goto(r, "refused")
    /\ UNCHANGED <<database, made, expired, locals, handed, spent, late,
                   revoked, touched>>

\* ... and what cannot be removed is taken for removed.
RemoveFails(r) ==
    /\ Fault
    /\ \/ pc[r] \in Removing /\ Finish(r)
       \/ At(r, "drop_provider") /\ Goto(r, "find") /\ UNCHANGED <<handed, spent>>
    /\ UNCHANGED <<database, made, expired, locals, late, revoked, touched>>

\* A list that fails ends the revocation of the client's tokens, not the
\* deletion of the client.
ListFails(r) ==
    /\ Fault
    /\ At(r, "list")
    /\ op[r] = "delete_client"
    /\ Goto(r, "drop_client")
    /\ UNCHANGED <<database, made, expired, locals, handed, spent, late,
                   revoked, touched>>

Expire(i) ==
    /\ i \in made \ expired
    /\ expired' = expired \cup {i}
    /\ UNCHANGED <<database, made, pc, locals, observed>>

\* The database removes a row some time after its time to live.
Purge(i) ==
    /\ i \in expired
    /\ \/ StoreRow(i, "none") /\ UNCHANGED index
       \/ index' = index \ {i} /\ UNCHANGED row
    /\ UNCHANGED <<provider, registered, made, expired, pc, locals, observed>>

-----------------------------------------------------------------------------

Ask(r) ==
    \/ \E i \in Items : Exchange(r, i) \/ Refresh(r, i) \/ Validate(r, i)
                        \/ Revoke(r, i)
    \/ \E c \in Clients : Authorize(r, c) \/ Credentials(r, c)
                          \/ DeleteClient(r, c)
    \/ CleanUp(r)

Look(r) ==
    \/ ReadIndex(r) \/ RowIsMissing(r) \/ DropStale(r) \/ Mismatch(r)
    \/ ExchangeFound(r) \/ RefreshFound(r) \/ ValidateFound(r)
    \/ RevokeFound(r) \/ CleanUpFound(r)

Store(r) ==
    \/ \E i \in Codes : StoreProvider(r, i)
    \/ StoreCode(r) \/ IndexCode(r)
    \/ Mark(r) \/ MarkIndex(r) \/ ReadProvider(r)
    \/ \E i \in AccessTokens : StoreAccess(r, i)
    \/ IndexAccess(r)
    \/ \E i \in RefreshTokens : StoreRefresh(r, i)
    \/ IndexRefresh(r) \/ Restore(r) \/ RestoreIndex(r)

Drop(r) ==
    \/ DropProvider(r) \/ Find(r) \/ DropRow(r) \/ DropIndex(r)
    \/ List(r) \/ \E i \in Items : NextItem(r, i)
    \/ NextList(r) \/ LastList(r) \/ DropClient(r)

Fail(r) == ReadFails(r) \/ StoreFails(r) \/ RemoveFails(r) \/ ListFails(r)

Next ==
    \/ \E r \in Requests : Ask(r) \/ Look(r) \/ Store(r) \/ Drop(r) \/ Fail(r)
    \/ \E i \in Items : Expire(i) \/ Purge(i)

Spec == Init /\ [][Next]_vars

-----------------------------------------------------------------------------
(* What clients can rely on.                                               *)

\* A code buys tokens once: an exchange that begins when another has been
\* answered with tokens is refused, even if the code could not be removed.
\* Two exchanges that overlap can both succeed: the mark is written without
\* a condition.
CodeIsSpent ==
    \A r \in Requests : op[r] = "exchange" /\ late[r] => pc[r] # "granted"

\* A token whose revocation is over is not found again, unless a refresh
\* had found it before: that one stores it anew.
RevokedIsGone == revoked \cap index = {}

\* A token that a client was given can be used until it expires or somebody
\* revokes it, whatever others find, store and clean up.
HandedOutIsUsable ==
    faults = 0 => \A i \in (handed \cap Tokens) \ (expired \cup touched) :
        row[i] = "fresh" /\ i \in index

\* What revoke_client_tokens says of a client that is deleted: "all its
\* tokens are immediately invalidated".
DeletedIsLockedOut ==
    \A i \in Tokens : ClientOf(i) \notin registered /\ i \in handed
        => row[i] = "none" \/ i \notin index
=============================================================================
