------------------------ MODULE TokenRotation_proofs ------------------------
(***************************************************************************)
(* The properties of TokenRotation hold for any number of requests and     *)
(* tokens, any periods, and any number of crashes and failed accesses.     *)
(***************************************************************************)
EXTENDS TokenRotation, TLAPS

-----------------------------------------------------------------------------
(* The inductive invariant.                                                *)

\* What a request has read is a row, and what it is about to write or has
\* written is a used one.
SeenRows == \A r \in Requests : pc[r] # "idle" =>
    /\ seen[r] \in Row
    /\ pc[r] \in {"unused", "restamp", "revoke", "revoke_access"} =>
            seen[r].used

\* Nobody has met the token yet.
Fresh(n) ==
    /\ rows[n] = NoRow
    /\ wins[n] = 0 /\ shown[n] = 0 /\ n \notin misreported
    /\ \A r \in Requests : pc[r] # "idle" => token[r] # n

UnmadeIsFresh == \A n \in Tokens : n > made => Fresh(n) /\ family[n] = NoChain

\* Nor the refresh token that is about to be stored; its number is one
\* request's alone.
Minted == \A r \in Requests :
    pc[r] = "mint_refresh" => new[r] <= made /\ Fresh(new[r])

Alone == \A r \in Requests : \A q \in Requests :
    pc[r] = "mint_refresh" /\ pc[q] = "mint_refresh" /\ new[q] = new[r]
        => q = r

\* A token is used by one request, and from then on its row says so.
Won == \A n \in Tokens :
    /\ wins[n] <= 1
    /\ wins[n] = 1 /\ rows[n] # NoRow => rows[n].used

\* The family a row names is the login it descends from.
RowsChained == \A n \in Tokens : rows[n] # NoRow => rows[n].chain = family[n]

SeenChained == \A r \in Requests :
    pc[r] # "idle" => seen[r].chain = family[token[r]]

\* The family of the refresh token that r is about to store.
FamilyOfNew(r) == IF seen[r].chain = NoChain THEN new[r] ELSE seen[r].chain

NewChained == \A r \in Requests :
    pc[r] = "mint_refresh" => family[new[r]] = FamilyOfNew(r)

AccessChained == \A a \in access :
    a.chain = family[a.token] /\ a.token <= made

Chained == RowsChained /\ SeenChained /\ NewChained /\ AccessChained

\* A family is older than all that descends from it, and nothing descends
\* from a token that nobody has met.
FamiliesAreOld ==
    /\ \A n \in Tokens : family[n] # NoChain => family[n] <= made
    /\ \A c \in revoked : c <= made

NewIsUnknown == \A r \in Requests : pc[r] = "mint_refresh" =>
    /\ \A m \in Tokens : family[m] = new[r] => m = new[r]
    /\ new[r] \notin revoked

Descent == FamiliesAreOld /\ NewIsUnknown

\* What is known of a token that is used: when it was first presented, and
\* that one request won it or the database misreported its use.
Used(n) == wins[n] >= 1 \/ n \in misreported

TokensPresented == \A n \in Tokens :
    /\ Used(n) => shown[n] >= 1
    /\ shown[n] >= 1 => first[n] <= clock

RowsPresented == \A n \in Tokens : rows[n] # NoRow /\ rows[n].used =>
    Used(n) /\ first[n] <= rows[n].used_at

SeenPresented == \A r \in Requests : pc[r] # "idle" =>
    /\ shown[token[r]] >= 1
    /\ seen[r].used => /\ first[token[r]] <= seen[r].used_at
                       /\ pc[r] # "unused" => Used(token[r])

Presented == TokensPresented /\ RowsPresented /\ SeenPresented

\* Requests that have not won their token.
Judged == {"unused", "reused", "revoke", "revoke_access"}

\* A request that meets another one, or another one's use, is not the first.
Twice ==
    /\ \A r \in Requests :
        pc[r] \in Judged /\ wins[token[r]] >= 1 => shown[token[r]] >= 2
    /\ \A r \in Requests : \A q \in Requests :
        /\ pc[r] \in Judged /\ pc[q] \in Judged
        /\ token[q] = token[r] /\ q # r
        => shown[token[r]] >= 2

\* A request revokes a family, not a single token, and only after the grace
\* period.
Condemned == \A r \in Requests : pc[r] \in {"revoke", "revoke_access"} =>
    /\ seen[r].chain # NoChain
    /\ clock > first[token[r]] + Grace

\* The refresh tokens of the family have been deleted.
Ending(c) ==
    \/ c \in revoked
    \/ \E r \in Requests : pc[r] = "revoke_access" /\ seen[r].chain = c

\* What there is of such a family comes from the requests that were running.
RowsEnded == \A n \in Tokens :
    rows[n] # NoRow /\ Ending(family[n]) => n \in late

RequestsEnded == \A r \in Requests :
    /\ pc[r] \in {"reused", "restamp", "mint", "mint_refresh"}
    /\ Ending(seen[r].chain)
    => r \in running \/ token[r] \in late

AccessEnded == \A a \in access : family[a.token] \in revoked => a.token \in late

Ended == RowsEnded /\ RequestsEnded /\ AccessEnded

IInv ==
    /\ TypeOK /\ SeenRows /\ UnmadeIsFresh /\ Minted /\ Alone
    /\ Won /\ Chained /\ Descent /\ Presented /\ Twice /\ Condemned /\ Ended

-----------------------------------------------------------------------------
(* Each part is kept by every step.                                        *)

LEMMA Numbers ==
    /\ Grace \in Nat /\ Window \in Nat /\ Lifetime \in Nat
    /\ MaxTokens \in Nat /\ MaxClock \in Nat /\ MaxFaults \in Nat
    /\ 1 \in Tokens /\ Tokens \subseteq Nat /\ NoChain \notin Tokens
    /\ 0 \in Times /\ Times \subseteq Nat /\ NoRow \notin Row
    /\ \A n \in Tokens : n \in Nat
    /\ \A n \in 0..MaxTokens : n \in Nat
<1>1. MaxTokens \in Nat /\ MaxTokens >= 1 /\ MaxClock \in Nat
  BY BoundsAssumption
<1>2. /\ 1 \in Tokens /\ Tokens \subseteq Nat
      /\ 0 \in Times /\ Times \subseteq Nat
  BY <1>1 DEF Tokens, Times
<1> QED BY <1>1, <1>2, PeriodsAssumption, BoundsAssumption,
           NoValuesAssumption

\* The rows that the steps write.
LEMMA WrittenRows ==
    ASSUME clock \in Times
    PROVE  /\ \A row \in Row : Marked(row) \in Row
           /\ \A row \in Row : Unmarked(row) \in Row
           /\ \A c \in Chains : NewRow(c) \in Row
<1>1. clock + Lifetime \in Nat
  BY Numbers
<1>2. \A row \in Row : Marked(row) \in Row /\ Unmarked(row) \in Row
  BY Numbers DEF Marked, Unmarked, Row
<1>3. \A c \in Chains : NewRow(c) \in Row
  BY <1>1, Numbers DEF NewRow, Row
<1> QED BY <1>2, <1>3

LEMMA NextToken ==
    ASSUME made \in 0..MaxTokens, made < MaxTokens
    PROVE  /\ made + 1 \in Tokens /\ made + 1 \in Chains
           /\ made + 1 \in 0..MaxTokens
BY Numbers DEF Tokens, Chains

RowTypes ==
    /\ rows \in [Tokens -> Row \cup {NoRow}]
    /\ seen \in [Requests -> Row \cup {NoRow}]
RequestTypes ==
    /\ pc \in [Requests -> Steps]
    /\ token \in [Requests -> Tokens]
    /\ new \in [Requests -> Tokens]
    /\ running \in SUBSET Requests
StoreTypes ==
    /\ access \in SUBSET AccessRow
    /\ made \in 0..MaxTokens
    /\ clock \in Times
    /\ family \in [Tokens -> Chains]
    /\ faults \in 0..MaxFaults
ObservedTypes ==
    /\ wins \in [Tokens -> Nat]
    /\ misreported \in SUBSET Tokens
    /\ shown \in [Tokens -> 0..2]
    /\ first \in [Tokens -> Times]
    /\ revoked \in SUBSET Tokens
    /\ late \in SUBSET Tokens

LEMMA RowTypesAreKept ==
    ASSUME RowTypes, RequestTypes, StoreTypes, ObservedTypes, SeenRows,
           [Next]_vars
    PROVE  RowTypes'
<1> USE Numbers, WrittenRows DEF stores, request, observed, RowTypes, RequestTypes, StoreTypes, ObservedTypes, SeenRows, Chains
<1>1. ASSUME NEW r \in Requests, NEW n \in Tokens, Present(r, n) PROVE RowTypes'
  BY <1>1 DEF Present
<1>2. ASSUME NEW r \in Requests, Mark(r) PROVE RowTypes'
  BY <1>2 DEF Mark, ReadAgain, Finish, GoOn, Marked, Unmarked
<1>3. ASSUME NEW r \in Requests, MarkFails(r) PROVE RowTypes'
  BY <1>3 DEF MarkFails, ReadAgain, Finish, GoOn, Unmarked, Fault
<1>4. ASSUME NEW r \in Requests, Restamp(r) PROVE RowTypes'
  BY <1>4 DEF Restamp, GoOn, Fault
<1>5. ASSUME NEW r \in Requests, Judge(r) PROVE RowTypes'
  BY <1>5 DEF Judge, Age, Finish, GoOn
<1>6. ASSUME NEW r \in Requests, MintAccess(r) PROVE RowTypes'
  BY <1>6 DEF MintAccess, MadeLate, Fault
<1>7. ASSUME NEW r \in Requests, MintRefresh(r) PROVE RowTypes'
  <2>1. seen[r] \in Row /\ seen[r].chain \in Chains
    BY <1>7 DEF MintRefresh, Row
  <2> QED BY <1>7, <2>1 DEF MintRefresh, Finish
<1>8. ASSUME NEW r \in Requests, RevokeChain(r) PROVE RowTypes'
  BY <1>8 DEF RevokeChain, InFlight, GoOn
<1>9. ASSUME NEW r \in Requests, RevokeChainAccess(r) PROVE RowTypes'
  BY <1>9 DEF RevokeChainAccess, Finish
<1>10. ASSUME NEW r \in Requests, Die(r) PROVE RowTypes'
  BY <1>10 DEF Die, Fault, Finish
<1>11. ASSUME Login PROVE RowTypes'
  <2>1. made + 1 \in Tokens /\ made + 1 \in Chains
    BY <1>11, NextToken DEF Login
  <2> QED BY <1>11, <2>1 DEF Login
<1>12. ASSUME Tick PROVE RowTypes'
  BY <1>12 DEF Tick
<1>13. ASSUME NEW n \in Tokens, RevokeRefreshToken(n) PROVE RowTypes'
  BY <1>13 DEF RevokeRefreshToken
<1>14. ASSUME NEW n \in Tokens, Purge(n) PROVE RowTypes'
  BY <1>14 DEF Purge
<1>15. ASSUME NEW a \in access, EndAccessToken(a) PROVE RowTypes'
  BY <1>15 DEF EndAccessToken
<1>16. ASSUME UNCHANGED vars PROVE RowTypes'
  BY <1>16 DEF vars
<1> QED BY <1>1, <1>2, <1>3, <1>4, <1>5, <1>6, <1>7, <1>8, <1>9, <1>10,
   <1>11, <1>12, <1>13, <1>14, <1>15, <1>16 DEF Next

LEMMA RequestTypesAreKept ==
    ASSUME RowTypes, RequestTypes, StoreTypes, ObservedTypes, SeenRows,
           [Next]_vars
    PROVE  RequestTypes'
<1> USE Numbers DEF stores, request, observed, RowTypes, RequestTypes, StoreTypes, ObservedTypes, Steps
<1>1. ASSUME NEW r \in Requests, NEW n \in Tokens, Present(r, n) PROVE RequestTypes'
  BY <1>1 DEF Present, Finish, GoOn, Marked
<1>2. ASSUME NEW r \in Requests, Mark(r) PROVE RequestTypes'
  BY <1>2 DEF Mark, ReadAgain, Finish, GoOn, Marked, Unmarked
<1>3. ASSUME NEW r \in Requests, MarkFails(r) PROVE RequestTypes'
  BY <1>3 DEF MarkFails, ReadAgain, Finish, GoOn, Unmarked, Fault
<1>4. ASSUME NEW r \in Requests, Restamp(r) PROVE RequestTypes'
  BY <1>4 DEF Restamp, GoOn, Fault
<1>5. ASSUME NEW r \in Requests, Judge(r) PROVE RequestTypes'
  BY <1>5 DEF Judge, Age, Finish, GoOn
<1>6. ASSUME NEW r \in Requests, MintAccess(r) PROVE RequestTypes'
  <2>1. made + 1 \in Tokens
    BY <1>6, NextToken DEF MintAccess
  <2> QED BY <1>6, <2>1 DEF MintAccess
<1>7. ASSUME NEW r \in Requests, MintRefresh(r) PROVE RequestTypes'
  BY <1>7 DEF MintRefresh, NewRow, MadeLate, Finish
<1>8. ASSUME NEW r \in Requests, RevokeChain(r) PROVE RequestTypes'
  BY <1>8 DEF RevokeChain, InFlight, GoOn
<1>9. ASSUME NEW r \in Requests, RevokeChainAccess(r) PROVE RequestTypes'
  BY <1>9 DEF RevokeChainAccess, Finish
<1>10. ASSUME NEW r \in Requests, Die(r) PROVE RequestTypes'
  BY <1>10 DEF Die, Fault, Finish
<1>11. ASSUME Login PROVE RequestTypes'
  BY <1>11 DEF Login, NewRow
<1>12. ASSUME Tick PROVE RequestTypes'
  BY <1>12 DEF Tick
<1>13. ASSUME NEW n \in Tokens, RevokeRefreshToken(n) PROVE RequestTypes'
  BY <1>13 DEF RevokeRefreshToken
<1>14. ASSUME NEW n \in Tokens, Purge(n) PROVE RequestTypes'
  BY <1>14 DEF Purge
<1>15. ASSUME NEW a \in access, EndAccessToken(a) PROVE RequestTypes'
  BY <1>15 DEF EndAccessToken
<1>16. ASSUME UNCHANGED vars PROVE RequestTypes'
  BY <1>16 DEF vars
<1> QED BY <1>1, <1>2, <1>3, <1>4, <1>5, <1>6, <1>7, <1>8, <1>9, <1>10,
   <1>11, <1>12, <1>13, <1>14, <1>15, <1>16 DEF Next

LEMMA StoreTypesAreKept ==
    ASSUME RowTypes, RequestTypes, StoreTypes, ObservedTypes, SeenRows,
           [Next]_vars
    PROVE  StoreTypes'
<1> USE Numbers DEF stores, request, observed, RowTypes, RequestTypes, StoreTypes, ObservedTypes, SeenRows, Chains, AccessRow
<1>1. ASSUME NEW r \in Requests, NEW n \in Tokens, Present(r, n) PROVE StoreTypes'
  BY <1>1 DEF Present, Finish, GoOn, Marked
<1>2. ASSUME NEW r \in Requests, Mark(r) PROVE StoreTypes'
  BY <1>2 DEF Mark, ReadAgain, Finish, GoOn, Marked, Unmarked
<1>3. ASSUME NEW r \in Requests, MarkFails(r) PROVE StoreTypes'
  BY <1>3 DEF MarkFails, ReadAgain, Finish, GoOn, Unmarked, Fault
<1>4. ASSUME NEW r \in Requests, Restamp(r) PROVE StoreTypes'
  BY <1>4 DEF Restamp, GoOn, Fault
<1>5. ASSUME NEW r \in Requests, Judge(r) PROVE StoreTypes'
  BY <1>5 DEF Judge, Age, Finish, GoOn
<1>6. ASSUME NEW r \in Requests, MintAccess(r) PROVE StoreTypes'
  <2>1. made + 1 \in Tokens /\ made + 1 \in 0..MaxTokens
    BY <1>6, NextToken DEF MintAccess
  <2>2. seen[r].chain \in Chains
    BY <1>6 DEF MintAccess, Row
  <2>3. access' \in SUBSET AccessRow
    BY <1>6, <2>1, <2>2 DEF MintAccess, Fault
  <2>4. faults' \in 0..MaxFaults
    BY <1>6 DEF MintAccess, Fault
  <2>5. family' \in [Tokens -> Chains]
    BY <1>6, <2>1 DEF MintAccess
  <2> QED BY <1>6, <2>1, <2>3, <2>4, <2>5 DEF MintAccess
<1>7. ASSUME NEW r \in Requests, MintRefresh(r) PROVE StoreTypes'
  BY <1>7 DEF MintRefresh, NewRow, MadeLate, Finish
<1>8. ASSUME NEW r \in Requests, RevokeChain(r) PROVE StoreTypes'
  BY <1>8 DEF RevokeChain, InFlight, GoOn
<1>9. ASSUME NEW r \in Requests, RevokeChainAccess(r) PROVE StoreTypes'
  BY <1>9 DEF RevokeChainAccess, Finish
<1>10. ASSUME NEW r \in Requests, Die(r) PROVE StoreTypes'
  BY <1>10 DEF Die, Fault, Finish
<1>11. ASSUME Login PROVE StoreTypes'
  <2>1. made + 1 \in Tokens /\ made + 1 \in 0..MaxTokens
    BY <1>11, NextToken DEF Login
  <2> QED BY <1>11, <2>1 DEF Login
<1>12. ASSUME Tick PROVE StoreTypes'
  BY <1>12 DEF Tick, Times
<1>13. ASSUME NEW n \in Tokens, RevokeRefreshToken(n) PROVE StoreTypes'
  BY <1>13 DEF RevokeRefreshToken
<1>14. ASSUME NEW n \in Tokens, Purge(n) PROVE StoreTypes'
  BY <1>14 DEF Purge
<1>15. ASSUME NEW a \in access, EndAccessToken(a) PROVE StoreTypes'
  BY <1>15 DEF EndAccessToken
<1>16. ASSUME UNCHANGED vars PROVE StoreTypes'
  BY <1>16 DEF vars
<1> QED BY <1>1, <1>2, <1>3, <1>4, <1>5, <1>6, <1>7, <1>8, <1>9, <1>10,
   <1>11, <1>12, <1>13, <1>14, <1>15, <1>16 DEF Next

LEMMA ObservedTypesAreKept ==
    ASSUME RowTypes, RequestTypes, StoreTypes, ObservedTypes, SeenRows, Condemned,
           [Next]_vars
    PROVE  ObservedTypes'
<1> USE Numbers DEF stores, request, observed, RowTypes, RequestTypes, StoreTypes, ObservedTypes, SeenRows, Condemned
<1>1. ASSUME NEW r \in Requests, NEW n \in Tokens, Present(r, n) PROVE ObservedTypes'
  BY <1>1 DEF Present, Finish, GoOn, Marked
<1>2. ASSUME NEW r \in Requests, Mark(r) PROVE ObservedTypes'
  BY <1>2 DEF Mark, ReadAgain, Finish, GoOn, Marked, Unmarked
<1>3. ASSUME NEW r \in Requests, MarkFails(r) PROVE ObservedTypes'
  BY <1>3 DEF MarkFails, ReadAgain, Finish, GoOn, Unmarked, Fault
<1>4. ASSUME NEW r \in Requests, Restamp(r) PROVE ObservedTypes'
  <2>1. token[r] \in Tokens
    OBVIOUS
  <2>2. late' = late \/ late' = late \cup {token[r]}
    BY <1>4 DEF Restamp
  <2>3. late' \in SUBSET Tokens
    BY <2>1, <2>2
  <2> QED BY <1>4, <2>3 DEF Restamp
<1>5. ASSUME NEW r \in Requests, Judge(r) PROVE ObservedTypes'
  BY <1>5 DEF Judge, Age, Finish, GoOn
<1>6. ASSUME NEW r \in Requests, MintAccess(r) PROVE ObservedTypes'
  <2>1. made + 1 \in Tokens
    BY <1>6, NextToken DEF MintAccess
  <2> QED BY <1>6, <2>1 DEF MintAccess, MadeLate
<1>7. ASSUME NEW r \in Requests, MintRefresh(r) PROVE ObservedTypes'
  BY <1>7 DEF MintRefresh, NewRow, MadeLate, Finish
<1>8. ASSUME NEW r \in Requests, RevokeChain(r) PROVE ObservedTypes'
  BY <1>8 DEF RevokeChain, InFlight, GoOn
<1>9. ASSUME NEW r \in Requests, RevokeChainAccess(r) PROVE ObservedTypes'
  <2>1. seen[r].chain \in Tokens
    BY <1>9 DEF RevokeChainAccess, Row, Chains
  <2> QED BY <1>9, <2>1 DEF RevokeChainAccess, Finish
<1>10. ASSUME NEW r \in Requests, Die(r) PROVE ObservedTypes'
  BY <1>10 DEF Die, Fault, Finish
<1>11. ASSUME Login PROVE ObservedTypes'
  BY <1>11 DEF Login, NewRow
<1>12. ASSUME Tick PROVE ObservedTypes'
  BY <1>12 DEF Tick
<1>13. ASSUME NEW n \in Tokens, RevokeRefreshToken(n) PROVE ObservedTypes'
  BY <1>13 DEF RevokeRefreshToken
<1>14. ASSUME NEW n \in Tokens, Purge(n) PROVE ObservedTypes'
  BY <1>14 DEF Purge
<1>15. ASSUME NEW a \in access, EndAccessToken(a) PROVE ObservedTypes'
  BY <1>15 DEF EndAccessToken
<1>16. ASSUME UNCHANGED vars PROVE ObservedTypes'
  BY <1>16 DEF vars
<1> QED BY <1>1, <1>2, <1>3, <1>4, <1>5, <1>6, <1>7, <1>8, <1>9, <1>10,
   <1>11, <1>12, <1>13, <1>14, <1>15, <1>16 DEF Next

Types == RowTypes /\ RequestTypes /\ StoreTypes /\ ObservedTypes

LEMMA TypesAgree == TypeOK <=> Types
BY DEF TypeOK, Types, RowTypes, RequestTypes, StoreTypes, ObservedTypes

\* What Present reads.
LEMMA PresentReads ==
    ASSUME Types, NEW r \in Requests, NEW n \in Tokens, Present(r, n)
    PROVE  \/ /\ UNCHANGED <<pc, token, seen>>
              /\ rows' = [rows EXCEPT ![n] = NoRow]
           \/ /\ rows[n] \in Row
              /\ pc' = [pc EXCEPT ![r] =
                            IF rows[n].used THEN "reused" ELSE "unused"]
              /\ token' = [token EXCEPT ![r] = n]
              /\ seen' = [seen EXCEPT ![r] =
                            IF rows[n].used THEN rows[n] ELSE Marked(rows[n])]
              /\ Marked(rows[n]) \in Row
              /\ Marked(rows[n]).used
              /\ Marked(rows[n]).used_at = clock
              /\ Marked(rows[n]).chain = rows[n].chain
              /\ UNCHANGED rows
<1> USE DEF Types
<1>1. rows[n] \in Row
  BY DEF Present, RowTypes
<1>2. /\ Marked(rows[n]).used
      /\ Marked(rows[n]).used_at = clock
      /\ Marked(rows[n]).chain = rows[n].chain
  BY <1>1 DEF Marked, Row
<1> QED BY <1>1, <1>2, WrittenRows DEF Present, request, RowTypes, StoreTypes

\* A row that is as a request has seen it before marking it is unused.
LEMMA MatchedRow ==
    ASSUME Types, SeenRows, NEW r \in Requests, pc[r] = "unused",
           rows[token[r]] = Unmarked(seen[r])
    PROVE  /\ token[r] \in Tokens
           /\ rows[token[r]] \in Row /\ ~rows[token[r]].used
           /\ rows[token[r]].chain = seen[r].chain
<1>1. seen[r] \in Row
  BY DEF SeenRows
<1>2. Unmarked(seen[r]) \in Row
  BY <1>1, WrittenRows DEF Types, StoreTypes
<1> QED BY <1>1, <1>2 DEF Types, RequestTypes, Unmarked, Row

LEMMA SeenRowsAreKept ==
    ASSUME Types, SeenRows, Condemned,
           [Next]_vars
    PROVE  SeenRows'
<1> USE Numbers, WrittenRows DEF Types, stores, request, observed, RowTypes, RequestTypes, StoreTypes, ObservedTypes, Steps, Chains, SeenRows
<1>1. ASSUME NEW r \in Requests, NEW n \in Tokens, Present(r, n) PROVE SeenRows'
  BY <1>1, PresentReads
<1>2. ASSUME NEW r \in Requests, Mark(r) PROVE SeenRows'
  BY <1>2 DEF Mark, ReadAgain, Finish, GoOn
<1>3. ASSUME NEW r \in Requests, MarkFails(r) PROVE SeenRows'
  BY <1>3 DEF MarkFails, ReadAgain, Finish, GoOn
<1>4. ASSUME NEW r \in Requests, Restamp(r) PROVE SeenRows'
  BY <1>4 DEF Restamp, GoOn, Fault
<1>5. ASSUME NEW r \in Requests, Judge(r) PROVE SeenRows'
  BY <1>5 DEF Judge, Age, Finish, GoOn
<1>6. ASSUME NEW r \in Requests, MintAccess(r) PROVE SeenRows'
  BY <1>6 DEF MintAccess, MadeLate, Fault
<1>7. ASSUME NEW r \in Requests, MintRefresh(r) PROVE SeenRows'
  BY <1>7 DEF MintRefresh, NewRow, MadeLate, Finish
<1>8. ASSUME NEW r \in Requests, RevokeChain(r) PROVE SeenRows'
  BY <1>8 DEF RevokeChain, InFlight, GoOn
<1>9. ASSUME NEW r \in Requests, RevokeChainAccess(r) PROVE SeenRows'
  BY <1>9 DEF RevokeChainAccess, Finish
<1>10. ASSUME NEW r \in Requests, Die(r) PROVE SeenRows'
  BY <1>10 DEF Die, Fault, Finish
<1>11. ASSUME Login PROVE SeenRows'
  BY <1>11 DEF Login, NewRow
<1>12. ASSUME Tick PROVE SeenRows'
  BY <1>12 DEF Tick
<1>13. ASSUME NEW n \in Tokens, RevokeRefreshToken(n) PROVE SeenRows'
  BY <1>13 DEF RevokeRefreshToken
<1>14. ASSUME NEW n \in Tokens, Purge(n) PROVE SeenRows'
  BY <1>14 DEF Purge
<1>15. ASSUME NEW a \in access, EndAccessToken(a) PROVE SeenRows'
  BY <1>15 DEF EndAccessToken
<1>16. ASSUME UNCHANGED vars PROVE SeenRows'
  BY <1>16 DEF vars
<1> QED BY <1>1, <1>2, <1>3, <1>4, <1>5, <1>6, <1>7, <1>8, <1>9, <1>10,
   <1>11, <1>12, <1>13, <1>14, <1>15, <1>16 DEF Next

\* A token stays fresh until its row is stored.
LEMMA FreshIsKept ==
    ASSUME Types, SeenRows,
           NEW m \in Tokens, Fresh(m),
           \A r \in Requests : MintRefresh(r) => new[r] # m,
           Login => m # made + 1,
           [Next]_vars
    PROVE  Fresh(m)'
<1> USE Numbers DEF Types, stores, request, observed, RowTypes, RequestTypes, StoreTypes, ObservedTypes, Steps, Chains, Fresh
<1>1. ASSUME NEW r \in Requests, NEW n \in Tokens, Present(r, n) PROVE Fresh(m)'
  BY <1>1 DEF Present, Finish, GoOn, Marked
<1>2. ASSUME NEW r \in Requests, Mark(r) PROVE Fresh(m)'
  <2>1. token[r] \in Tokens /\ token[r] # m
    BY <1>2 DEF Mark
  <2> QED BY <1>2, <2>1 DEF Mark, ReadAgain, Finish, GoOn
<1>3. ASSUME NEW r \in Requests, MarkFails(r) PROVE Fresh(m)'
  <2>1. token[r] \in Tokens /\ token[r] # m
    BY <1>3 DEF MarkFails
  <2> QED BY <1>3, <2>1 DEF MarkFails, ReadAgain, Finish, GoOn
<1>4. ASSUME NEW r \in Requests, Restamp(r) PROVE Fresh(m)'
  BY <1>4 DEF Restamp, GoOn, Fault
<1>5. ASSUME NEW r \in Requests, Judge(r) PROVE Fresh(m)'
  BY <1>5 DEF Judge, Age, Finish, GoOn
<1>6. ASSUME NEW r \in Requests, MintAccess(r) PROVE Fresh(m)'
  BY <1>6 DEF MintAccess, MadeLate, Fault
<1>7. ASSUME NEW r \in Requests, MintRefresh(r) PROVE Fresh(m)'
  <2>1. new[r] # m
    BY <1>7
  <2> QED BY <1>7, <2>1 DEF MintRefresh, Finish
<1>8. ASSUME NEW r \in Requests, RevokeChain(r) PROVE Fresh(m)'
  BY <1>8 DEF RevokeChain, InFlight, GoOn
<1>9. ASSUME NEW r \in Requests, RevokeChainAccess(r) PROVE Fresh(m)'
  BY <1>9 DEF RevokeChainAccess, Finish
<1>10. ASSUME NEW r \in Requests, Die(r) PROVE Fresh(m)'
  BY <1>10 DEF Die, Fault, Finish
<1>11. ASSUME Login PROVE Fresh(m)'
  BY <1>11 DEF Login, NewRow
<1>12. ASSUME Tick PROVE Fresh(m)'
  BY <1>12 DEF Tick
<1>13. ASSUME NEW n \in Tokens, RevokeRefreshToken(n) PROVE Fresh(m)'
  BY <1>13 DEF RevokeRefreshToken
<1>14. ASSUME NEW n \in Tokens, Purge(n) PROVE Fresh(m)'
  BY <1>14 DEF Purge
<1>15. ASSUME NEW a \in access, EndAccessToken(a) PROVE Fresh(m)'
  BY <1>15 DEF EndAccessToken
<1>16. ASSUME UNCHANGED vars PROVE Fresh(m)'
  BY <1>16 DEF vars
<1> QED BY <1>1, <1>2, <1>3, <1>4, <1>5, <1>6, <1>7, <1>8, <1>9, <1>10,
   <1>11, <1>12, <1>13, <1>14, <1>15, <1>16 DEF Next

\* Tokens are made one at a time.
LEMMA MakingOne ==
    ASSUME Types, [Next]_vars
    PROVE  /\ made' \in Nat
           /\ \/ made' = made
              \/ made' = made + 1 /\ made + 1 \in Tokens
           /\ Login => made' = made + 1
           /\ \A n \in Tokens : n # made' \/ made' = made =>
                                    family'[n] = family[n]
<1> DEFINE Made ==
        /\ made' = made \/ (made' = made + 1 /\ made + 1 \in Tokens)
        /\ \A n \in Tokens : n # made' \/ made' = made => family'[n] = family[n]
<1> USE Numbers DEF Types, stores, request, observed, RowTypes, RequestTypes, StoreTypes, ObservedTypes, Steps, Chains
<1>1. ASSUME NEW r \in Requests, NEW n \in Tokens, Present(r, n) PROVE Made
  BY <1>1 DEF Present, Finish, GoOn, Marked
<1>2. ASSUME NEW r \in Requests, Mark(r) PROVE Made
  BY <1>2 DEF Mark, ReadAgain, Finish, GoOn, Marked, Unmarked
<1>3. ASSUME NEW r \in Requests, MarkFails(r) PROVE Made
  BY <1>3 DEF MarkFails, ReadAgain, Finish, GoOn, Unmarked, Fault
<1>4. ASSUME NEW r \in Requests, Restamp(r) PROVE Made
  BY <1>4 DEF Restamp, GoOn, Fault
<1>5. ASSUME NEW r \in Requests, Judge(r) PROVE Made
  BY <1>5 DEF Judge, Age, Finish, GoOn
<1>6. ASSUME NEW r \in Requests, MintAccess(r) PROVE Made
  <2>1. made + 1 \in Tokens
    BY <1>6, NextToken DEF MintAccess
  <2> QED BY <1>6, <2>1 DEF MintAccess
<1>7. ASSUME NEW r \in Requests, MintRefresh(r) PROVE Made
  BY <1>7 DEF MintRefresh, NewRow, MadeLate, Finish
<1>8. ASSUME NEW r \in Requests, RevokeChain(r) PROVE Made
  BY <1>8 DEF RevokeChain, InFlight, GoOn
<1>9. ASSUME NEW r \in Requests, RevokeChainAccess(r) PROVE Made
  BY <1>9 DEF RevokeChainAccess, Finish
<1>10. ASSUME NEW r \in Requests, Die(r) PROVE Made
  BY <1>10 DEF Die, Fault, Finish
<1>11. ASSUME Login PROVE Made
  <2>1. made + 1 \in Tokens
    BY <1>11, NextToken DEF Login
  <2> QED BY <1>11, <2>1 DEF Login
<1>12. ASSUME Tick PROVE Made
  BY <1>12 DEF Tick
<1>13. ASSUME NEW n \in Tokens, RevokeRefreshToken(n) PROVE Made
  BY <1>13 DEF RevokeRefreshToken
<1>14. ASSUME NEW n \in Tokens, Purge(n) PROVE Made
  BY <1>14 DEF Purge
<1>15. ASSUME NEW a \in access, EndAccessToken(a) PROVE Made
  BY <1>15 DEF EndAccessToken
<1>16. ASSUME UNCHANGED vars PROVE Made
  BY <1>16 DEF vars
<1>17. Made
  BY <1>1, <1>2, <1>3, <1>4, <1>5, <1>6, <1>7, <1>8, <1>9, <1>10, <1>11,
     <1>12, <1>13, <1>14, <1>15, <1>16 DEF Next
<1> QED BY <1>17 DEF Login

\* Who is about to store a refresh token was so before, or has just made it.
Minting(r) ==
    pc'[r] = "mint_refresh" =>
        \/ /\ pc[r] = "mint_refresh"
           /\ new'[r] = new[r] /\ seen'[r] = seen[r] /\ token'[r] = token[r]
        \/ /\ pc[r] # "mint_refresh" /\ MintAccess(r)
           /\ new'[r] = made + 1 /\ made' = made + 1
           /\ seen'[r] = seen[r] /\ token'[r] = token[r]

LEMMA MintingOne ==
    ASSUME Types, SeenRows, NEW q \in Requests,
           [Next]_vars
    PROVE  Minting(q)
<1> USE Numbers DEF Types, stores, request, observed, RowTypes, RequestTypes, StoreTypes, ObservedTypes, Steps, Chains, Minting
<1>1. ASSUME NEW r \in Requests, NEW n \in Tokens, Present(r, n) PROVE Minting(q)
  BY <1>1, PresentReads DEF Present
<1>2. ASSUME NEW r \in Requests, Mark(r) PROVE Minting(q)
  BY <1>2 DEF Mark, ReadAgain, Finish, GoOn, Marked, Unmarked
<1>3. ASSUME NEW r \in Requests, MarkFails(r) PROVE Minting(q)
  BY <1>3 DEF MarkFails, ReadAgain, Finish, GoOn, Unmarked, Fault
<1>4. ASSUME NEW r \in Requests, Restamp(r) PROVE Minting(q)
  BY <1>4 DEF Restamp, GoOn, Fault
<1>5. ASSUME NEW r \in Requests, Judge(r) PROVE Minting(q)
  BY <1>5 DEF Judge, Age, Finish, GoOn
<1>6. ASSUME NEW r \in Requests, MintAccess(r) PROVE Minting(q)
  BY <1>6 DEF MintAccess, MadeLate, Fault
<1>7. ASSUME NEW r \in Requests, MintRefresh(r) PROVE Minting(q)
  BY <1>7 DEF MintRefresh, Finish
<1>8. ASSUME NEW r \in Requests, RevokeChain(r) PROVE Minting(q)
  BY <1>8 DEF RevokeChain, InFlight, GoOn
<1>9. ASSUME NEW r \in Requests, RevokeChainAccess(r) PROVE Minting(q)
  BY <1>9 DEF RevokeChainAccess, Finish
<1>10. ASSUME NEW r \in Requests, Die(r) PROVE Minting(q)
  BY <1>10 DEF Die, Fault, Finish
<1>11. ASSUME Login PROVE Minting(q)
  BY <1>11 DEF Login, NewRow
<1>12. ASSUME Tick PROVE Minting(q)
  BY <1>12 DEF Tick
<1>13. ASSUME NEW n \in Tokens, RevokeRefreshToken(n) PROVE Minting(q)
  BY <1>13 DEF RevokeRefreshToken
<1>14. ASSUME NEW n \in Tokens, Purge(n) PROVE Minting(q)
  BY <1>14 DEF Purge
<1>15. ASSUME NEW a \in access, EndAccessToken(a) PROVE Minting(q)
  BY <1>15 DEF EndAccessToken
<1>16. ASSUME UNCHANGED vars PROVE Minting(q)
  BY <1>16 DEF vars
<1> QED BY <1>1, <1>2, <1>3, <1>4, <1>5, <1>6, <1>7, <1>8, <1>9, <1>10,
   <1>11, <1>12, <1>13, <1>14, <1>15, <1>16 DEF Next

LEMMA UnmadeIsFreshIsKept ==
    ASSUME Types, SeenRows, UnmadeIsFresh, Minted, [Next]_vars
    PROVE  UnmadeIsFresh'
<1>1. SUFFICES ASSUME NEW n \in Tokens, n > made'
               PROVE  Fresh(n)' /\ family'[n] = NoChain
  BY DEF UnmadeIsFresh
<1>2. n \in Nat /\ made \in Nat
  BY Numbers DEF Types, StoreTypes
<1>3. n > made /\ n # made' /\ (Login => n # made + 1)
  BY <1>1, <1>2, MakingOne
<1>4. Fresh(n) /\ family[n] = NoChain
  BY <1>3 DEF UnmadeIsFresh
<1>5. \A r \in Requests : MintRefresh(r) => new[r] # n
  BY <1>2, <1>3, Numbers DEF Minted, MintRefresh, Types, RequestTypes
<1>6. Fresh(n)'
  BY <1>3, <1>4, <1>5, FreshIsKept
<1>7. family'[n] = NoChain
  BY <1>3, <1>4, MakingOne
<1> QED BY <1>6, <1>7

LEMMA MintedIsKept ==
    ASSUME Types, SeenRows, UnmadeIsFresh, Minted, Alone, [Next]_vars
    PROVE  Minted'
<1>1. SUFFICES ASSUME NEW q \in Requests, pc'[q] = "mint_refresh"
               PROVE  (new[q] <= made /\ Fresh(new[q]))'
  BY DEF Minted
<1>2. made \in Nat /\ new[q] \in Tokens /\ new[q] \in Nat
  BY Numbers DEF Types, StoreTypes, RequestTypes
<1>3. Minting(q)
  BY MintingOne
<1>4. CASE pc[q] = "mint_refresh" /\ new'[q] = new[q]
  <2>1. PICK m \in Tokens : m = new[q]
    BY <1>2
  <2>2. m <= made /\ Fresh(m)
    BY <1>4, <2>1 DEF Minted
  <2>3. ~(Login /\ m = made + 1)
    BY <1>2, <2>1, <2>2
  <2>4. \A r \in Requests : MintRefresh(r) => new[r] # m
    <3>1. SUFFICES ASSUME NEW r \in Requests, MintRefresh(r), new[r] = m
                   PROVE  FALSE
      OBVIOUS
    <3>2. r = q
      BY <1>4, <2>1, <3>1 DEF Alone, MintRefresh
    <3>3. pc'[r] = "idle"
      BY <3>1 DEF MintRefresh, Finish, Types, RequestTypes
    <3> QED BY <1>1, <3>2, <3>3
  <2>5. Fresh(m)'
    BY <2>2, <2>3, <2>4, FreshIsKept
  <2>6. m <= made'
    BY <1>2, <2>1, <2>2, MakingOne
  <2> QED BY <1>4, <2>1, <2>5, <2>6 DEF Fresh
<1>5. CASE /\ MintAccess(q)
           /\ new'[q] = made + 1 /\ made' = made + 1
  <2>1. PICK m \in Tokens : m = made + 1
    BY <1>5, NextToken DEF MintAccess, Types, StoreTypes
  <2>2. Fresh(m)
    BY <1>2, <2>1 DEF UnmadeIsFresh
  <2>3. Fresh(m)'
    BY <1>5, <2>1, <2>2 DEF MintAccess, Fresh, Types, RequestTypes
  <2> QED BY <1>2, <1>5, <2>1, <2>3 DEF Fresh
<1> QED BY <1>1, <1>3, <1>4, <1>5 DEF Minting

LEMMA AloneIsKept ==
    ASSUME Types, SeenRows, Minted, Alone, [Next]_vars
    PROVE  Alone'
<1>1. SUFFICES ASSUME NEW r \in Requests, NEW q \in Requests,
                      pc'[r] = "mint_refresh", pc'[q] = "mint_refresh",
                      new'[q] = new'[r], q # r
               PROVE  FALSE
  BY DEF Alone
<1>2. Minting(r) /\ Minting(q)
  BY MintingOne
<1>3. made \in Nat /\ new[r] \in Nat /\ new[q] \in Nat
  BY Numbers DEF Types, StoreTypes, RequestTypes
<1>4. ~(MintAccess(r) /\ MintAccess(q))
  BY <1>1 DEF MintAccess, Types, RequestTypes
<1>5. \A p \in Requests : pc[p] = "mint_refresh" => new[p] <= made
  BY DEF Minted
<1> QED BY <1>1, <1>2, <1>3, <1>4, <1>5 DEF Minting, Alone

LEMMA WonIsKept ==
    ASSUME Types, SeenRows, UnmadeIsFresh, Minted, Won,
           [Next]_vars
    PROVE  Won'
<1> USE Numbers, WrittenRows DEF Types, stores, request, observed, RowTypes, RequestTypes, StoreTypes, ObservedTypes, Steps, Chains, SeenRows, Won
<1>1. ASSUME NEW r \in Requests, NEW n \in Tokens, Present(r, n) PROVE Won'
  BY <1>1, PresentReads DEF Present
<1>2. ASSUME NEW r \in Requests, Mark(r) PROVE Won'
  <2>1. CASE rows[token[r]] = Unmarked(seen[r])
    <3>0. pc[r] = "unused" /\ seen[r].used
      BY <1>2 DEF Mark
    <3>1. /\ seen[r].used /\ token[r] \in Tokens
          /\ rows[token[r]] # NoRow /\ ~rows[token[r]].used
      BY <2>1, <3>0, MatchedRow
    <3>2. wins[token[r]] = 0
      <4>1. wins[token[r]] \in Nat /\ wins[token[r]] <= 1
        BY <3>1
      <4>2. wins[token[r]] # 1
        BY <3>1
      <4> QED BY <4>1, <4>2
    <3>3. /\ wins' = [wins EXCEPT ![token[r]] = 1]
          /\ rows' = [rows EXCEPT ![token[r]] = seen[r]]
      BY <1>2, <2>1, <3>2 DEF Mark
    <3> QED BY <3>1, <3>3
  <2>2. CASE rows[token[r]] # Unmarked(seen[r])
    BY <1>2, <2>2 DEF Mark
  <2> QED BY <2>1, <2>2
<1>3. ASSUME NEW r \in Requests, MarkFails(r) PROVE Won'
  <2>1. UNCHANGED wins /\ seen[r].used /\ token[r] \in Tokens
    BY <1>3 DEF MarkFails
  <2>2. UNCHANGED rows \/ rows' = [rows EXCEPT ![token[r]] = seen[r]]
    BY <1>3 DEF MarkFails
  <2> QED BY <2>1, <2>2
<1>4. ASSUME NEW r \in Requests, Restamp(r) PROVE Won'
  BY <1>4 DEF Restamp, GoOn, Fault
<1>5. ASSUME NEW r \in Requests, Judge(r) PROVE Won'
  BY <1>5 DEF Judge, Age, Finish, GoOn
<1>6. ASSUME NEW r \in Requests, MintAccess(r) PROVE Won'
  BY <1>6 DEF MintAccess, MadeLate, Fault
<1>7. ASSUME NEW r \in Requests, MintRefresh(r) PROVE Won'
  <2>1. wins[new[r]] = 0 /\ UNCHANGED wins /\ new[r] \in Tokens
    BY <1>7 DEF MintRefresh, Minted, Fresh
  <2>2. \A n \in Tokens : n # new[r] => rows'[n] = rows[n]
    BY <1>7 DEF MintRefresh
  <2> QED BY <2>1, <2>2
<1>8. ASSUME NEW r \in Requests, RevokeChain(r) PROVE Won'
  BY <1>8 DEF RevokeChain, InFlight, GoOn
<1>9. ASSUME NEW r \in Requests, RevokeChainAccess(r) PROVE Won'
  BY <1>9 DEF RevokeChainAccess, Finish
<1>10. ASSUME NEW r \in Requests, Die(r) PROVE Won'
  BY <1>10 DEF Die, Fault, Finish
<1>11. ASSUME Login PROVE Won'
  <2>1. made + 1 \in Tokens
    BY <1>11, NextToken DEF Login
  <2>2. wins[made + 1] = 0 /\ UNCHANGED wins
    BY <1>11, <2>1 DEF Login, UnmadeIsFresh, Fresh
  <2>3. \A n \in Tokens : n # made + 1 => rows'[n] = rows[n]
    BY <1>11 DEF Login
  <2> QED BY <2>2, <2>3
<1>12. ASSUME Tick PROVE Won'
  BY <1>12 DEF Tick
<1>13. ASSUME NEW n \in Tokens, RevokeRefreshToken(n) PROVE Won'
  BY <1>13 DEF RevokeRefreshToken
<1>14. ASSUME NEW n \in Tokens, Purge(n) PROVE Won'
  BY <1>14 DEF Purge
<1>15. ASSUME NEW a \in access, EndAccessToken(a) PROVE Won'
  BY <1>15 DEF EndAccessToken
<1>16. ASSUME UNCHANGED vars PROVE Won'
  BY <1>16 DEF vars
<1> QED BY <1>1, <1>2, <1>3, <1>4, <1>5, <1>6, <1>7, <1>8, <1>9, <1>10,
   <1>11, <1>12, <1>13, <1>14, <1>15, <1>16 DEF Next

LEMMA RowsChainedIsKept ==
    ASSUME Types, SeenRows, UnmadeIsFresh, Minted, Chained,
           [Next]_vars
    PROVE  RowsChained'
<1> USE Numbers, MakingOne DEF Types, stores, request, observed, RowTypes, RequestTypes, StoreTypes, ObservedTypes, Steps, Chains, SeenRows, Chained, SeenChained, NewChained, FamilyOfNew, RowsChained
<1>1. ASSUME NEW r \in Requests, NEW n \in Tokens, Present(r, n) PROVE RowsChained'
  BY <1>1, PresentReads DEF Present
<1>2. ASSUME NEW r \in Requests, Mark(r) PROVE RowsChained'
  BY <1>2 DEF Mark
<1>3. ASSUME NEW r \in Requests, MarkFails(r) PROVE RowsChained'
  BY <1>3 DEF MarkFails
<1>4. ASSUME NEW r \in Requests, Restamp(r) PROVE RowsChained'
  BY <1>4 DEF Restamp
<1>5. ASSUME NEW r \in Requests, Judge(r) PROVE RowsChained'
  BY <1>5 DEF Judge, Age, Finish, GoOn
<1>6. ASSUME NEW r \in Requests, MintAccess(r) PROVE RowsChained'
  <2>1. made + 1 \in Tokens /\ rows[made + 1] = NoRow
    BY <1>6, NextToken DEF MintAccess, UnmadeIsFresh, Fresh
  <2> QED BY <1>6, <2>1 DEF MintAccess
<1>7. ASSUME NEW r \in Requests, MintRefresh(r) PROVE RowsChained'
  <2>1. NewRow(FamilyOfNew(r)).chain = FamilyOfNew(r)
    BY DEF NewRow
  <2>2. /\ rows' = [rows EXCEPT ![new[r]] = NewRow(FamilyOfNew(r))]
        /\ family[new[r]] = FamilyOfNew(r)
    BY <1>7 DEF MintRefresh
  <2> QED BY <1>7, <2>1, <2>2 DEF MintRefresh
<1>8. ASSUME NEW r \in Requests, RevokeChain(r) PROVE RowsChained'
  BY <1>8 DEF RevokeChain, InFlight, GoOn
<1>9. ASSUME NEW r \in Requests, RevokeChainAccess(r) PROVE RowsChained'
  BY <1>9 DEF RevokeChainAccess, Finish
<1>10. ASSUME NEW r \in Requests, Die(r) PROVE RowsChained'
  BY <1>10 DEF Die, Fault, Finish
<1>11. ASSUME Login PROVE RowsChained'
  <2>1. made + 1 \in Tokens
    BY <1>11, NextToken DEF Login
  <2>2. NewRow(made + 1).chain = made + 1
    BY DEF NewRow
  <2> QED BY <1>11, <2>1, <2>2 DEF Login
<1>12. ASSUME Tick PROVE RowsChained'
  BY <1>12 DEF Tick
<1>13. ASSUME NEW n \in Tokens, RevokeRefreshToken(n) PROVE RowsChained'
  BY <1>13 DEF RevokeRefreshToken
<1>14. ASSUME NEW n \in Tokens, Purge(n) PROVE RowsChained'
  BY <1>14 DEF Purge
<1>15. ASSUME NEW a \in access, EndAccessToken(a) PROVE RowsChained'
  BY <1>15 DEF EndAccessToken
<1>16. ASSUME UNCHANGED vars PROVE RowsChained'
  BY <1>16 DEF vars
<1> QED BY <1>1, <1>2, <1>3, <1>4, <1>5, <1>6, <1>7, <1>8, <1>9, <1>10,
   <1>11, <1>12, <1>13, <1>14, <1>15, <1>16 DEF Next

LEMMA SeenChainedIsKept ==
    ASSUME Types, SeenRows, UnmadeIsFresh, Minted, Chained,
           [Next]_vars
    PROVE  SeenChained'
<1> USE Numbers DEF Types, stores, request, observed, RowTypes, RequestTypes, StoreTypes, ObservedTypes, Steps, Chains, SeenRows, Chained, SeenChained, RowsChained
<1>1. ASSUME NEW r \in Requests, NEW n \in Tokens, Present(r, n) PROVE SeenChained'
  <2>1. UNCHANGED family
    BY <1>1 DEF Present
  <2> QED BY <1>1, <2>1, PresentReads
<1>2. ASSUME NEW r \in Requests, Mark(r) PROVE SeenChained'
  BY <1>2 DEF Mark, ReadAgain, Finish, GoOn
<1>3. ASSUME NEW r \in Requests, MarkFails(r) PROVE SeenChained'
  <2>1. pc[r] # "idle" /\ token[r] \in Tokens /\ UNCHANGED family
    BY <1>3 DEF MarkFails
  <2>2. CASE pc' = [pc EXCEPT ![r] = "idle"]
    BY <1>3, <2>1, <2>2 DEF MarkFails, ReadAgain, Finish, GoOn
  <2>3. CASE /\ UNCHANGED token
             /\ seen' = [seen EXCEPT ![r] = rows[token[r]]]
             /\ rows[token[r]] # NoRow
             /\ pc' = [pc EXCEPT ![r] = "reused"]
    BY <2>1, <2>3
  <2>4. CASE /\ UNCHANGED token
             /\ seen' = [seen EXCEPT ![r] = seen[r]]
             /\ pc' = [pc EXCEPT ![r] = "reused"]
    BY <2>1, <2>4
  <2> QED BY <1>3, <2>2, <2>3, <2>4 DEF MarkFails, ReadAgain, Finish, GoOn
<1>4. ASSUME NEW r \in Requests, Restamp(r) PROVE SeenChained'
  BY <1>4 DEF Restamp, GoOn, Fault
<1>5. ASSUME NEW r \in Requests, Judge(r) PROVE SeenChained'
  BY <1>5 DEF Judge, Age, Finish, GoOn
<1>6. ASSUME NEW r \in Requests, MintAccess(r) PROVE SeenChained'
  <2>1. made + 1 \in Tokens
    BY <1>6, NextToken DEF MintAccess
  <2>2. \A q \in Requests : pc[q] # "idle" => token[q] # made + 1
    BY <2>1 DEF UnmadeIsFresh, Fresh
  <2> QED BY <1>6, <2>1, <2>2 DEF MintAccess
<1>7. ASSUME NEW r \in Requests, MintRefresh(r) PROVE SeenChained'
  BY <1>7 DEF MintRefresh, NewRow, MadeLate, Finish
<1>8. ASSUME NEW r \in Requests, RevokeChain(r) PROVE SeenChained'
  BY <1>8 DEF RevokeChain, InFlight, GoOn
<1>9. ASSUME NEW r \in Requests, RevokeChainAccess(r) PROVE SeenChained'
  BY <1>9 DEF RevokeChainAccess, Finish
<1>10. ASSUME NEW r \in Requests, Die(r) PROVE SeenChained'
  BY <1>10 DEF Die, Fault, Finish
<1>11. ASSUME Login PROVE SeenChained'
  <2>1. made + 1 \in Tokens
    BY <1>11, NextToken DEF Login
  <2>2. \A q \in Requests : pc[q] # "idle" => token[q] # made + 1
    BY <2>1 DEF UnmadeIsFresh, Fresh
  <2> QED BY <1>11, <2>1, <2>2 DEF Login
<1>12. ASSUME Tick PROVE SeenChained'
  BY <1>12 DEF Tick
<1>13. ASSUME NEW n \in Tokens, RevokeRefreshToken(n) PROVE SeenChained'
  BY <1>13 DEF RevokeRefreshToken
<1>14. ASSUME NEW n \in Tokens, Purge(n) PROVE SeenChained'
  BY <1>14 DEF Purge
<1>15. ASSUME NEW a \in access, EndAccessToken(a) PROVE SeenChained'
  BY <1>15 DEF EndAccessToken
<1>16. ASSUME UNCHANGED vars PROVE SeenChained'
  BY <1>16 DEF vars
<1> QED BY <1>1, <1>2, <1>3, <1>4, <1>5, <1>6, <1>7, <1>8, <1>9, <1>10,
   <1>11, <1>12, <1>13, <1>14, <1>15, <1>16 DEF Next

LEMMA NewChainedIsKept ==
    ASSUME Types, SeenRows, UnmadeIsFresh, Minted, Chained, [Next]_vars
    PROVE  NewChained'
<1>1. SUFFICES ASSUME NEW q \in Requests, pc'[q] = "mint_refresh"
               PROVE  family'[new'[q]] = FamilyOfNew(q)'
  BY DEF NewChained
<1>2. /\ made \in Nat /\ new[q] \in Tokens /\ new[q] \in Nat
      /\ token[q] \in Tokens
  BY Numbers DEF Types, StoreTypes, RequestTypes
<1>3. CASE /\ pc[q] = "mint_refresh"
           /\ new'[q] = new[q] /\ seen'[q] = seen[q]
  <2>1. new[q] <= made /\ family[new[q]] = FamilyOfNew(q)
    BY <1>3 DEF Minted, Chained, NewChained
  <2>2. family'[new[q]] = family[new[q]]
    BY <1>2, <2>1, MakingOne
  <2> QED BY <1>3, <2>1, <2>2 DEF FamilyOfNew
<1>4. CASE /\ MintAccess(q)
           /\ new'[q] = made + 1 /\ seen'[q] = seen[q]
  <2>1. made + 1 \in Tokens
    BY <1>4, NextToken DEF MintAccess, Types, StoreTypes
  <2>2. family[token[q]] = seen[q].chain
    BY <1>4 DEF MintAccess, Chained, SeenChained
  <2>3. family'[made + 1] =
            IF seen[q].chain = NoChain THEN made + 1 ELSE seen[q].chain
    BY <1>4, <2>1, <2>2 DEF MintAccess, Types, StoreTypes
  <2> QED BY <1>4, <2>3 DEF FamilyOfNew
<1> QED BY <1>1, <1>3, <1>4, MintingOne DEF Minting

LEMMA AccessChainedIsKept ==
    ASSUME Types, SeenRows, Chained, [Next]_vars
    PROVE  AccessChained'
<1>1. SUFFICES ASSUME NEW a \in access'
               PROVE  a.chain = family'[a.token] /\ a.token <= made'
  BY DEF AccessChained
<1>2. CASE a \in access
  <2>1. /\ a.token \in Tokens /\ a.token \in Nat /\ made \in Nat
        /\ a.chain = family[a.token] /\ a.token <= made
    BY <1>2, Numbers
       DEF Types, StoreTypes, AccessRow, Chained, AccessChained
  <2> QED BY <2>1, MakingOne
<1>3. CASE a \notin access
  <2>1. PICK r \in Requests : MintAccess(r)
    BY <1>1, <1>3 DEF Next, vars, stores, Present, Mark, MarkFails, Restamp,
       Judge, MintRefresh, RevokeChain, RevokeChainAccess, Die, Login, Tick,
       RevokeRefreshToken, Purge, EndAccessToken
  <2>2. /\ a = [token |-> made + 1, chain |-> seen[r].chain]
        /\ seen[r].chain # NoChain /\ made' = made + 1
    BY <1>1, <1>3, <2>1 DEF MintAccess
  <2>3. made + 1 \in Tokens
    BY <2>1, NextToken DEF MintAccess, Types, StoreTypes
  <2>4. family[token[r]] = seen[r].chain
    BY <2>1 DEF MintAccess, Chained, SeenChained
  <2>5. family'[made + 1] = seen[r].chain
    BY <2>1, <2>2, <2>3, <2>4 DEF MintAccess, Types, StoreTypes
  <2>6. made' \in Nat
    BY MakingOne
  <2> QED BY <2>2, <2>5, <2>6
<1> QED BY <1>2, <1>3

\* What a step adds to the families: one token of the family of the token it
\* is made for, or of its own.
LEMMA FamilyGrows ==
    ASSUME Types, SeenRows, [Next]_vars, NEW n \in Tokens,
           family'[n] # family[n]
    PROVE  /\ n = made + 1 /\ made' = made + 1
           /\ \/ family'[n] = n
              \/ \E r \in Requests : /\ pc[r] # "idle"
                                     /\ family'[n] = family[token[r]]
<1>1. n = made' /\ made' # made /\ made' = made + 1
  BY MakingOne
<1>2. Login \/ \E r \in Requests : MintAccess(r)
  BY <1>1 DEF Next, vars, stores, Present, Mark, MarkFails, Restamp, Judge,
     MintRefresh, RevokeChain, RevokeChainAccess, Die, Tick,
     RevokeRefreshToken, Purge, EndAccessToken
<1> QED BY <1>1, <1>2 DEF MintAccess, Login, Types, StoreTypes

LEMMA RevokedGrows ==
    ASSUME Types, SeenRows, Chained, Condemned, [Next]_vars,
           NEW c \in revoked', c \notin revoked
    PROVE  \E r \in Requests :
                /\ RevokeChainAccess(r) /\ pc[r] = "revoke_access"
                /\ c = seen[r].chain /\ c = family[token[r]] /\ c # NoChain
<1>1. PICK r \in Requests : RevokeChainAccess(r)
  BY DEF Next, vars, observed, Present, Mark, MarkFails, Restamp, Judge,
     MintAccess, MintRefresh, RevokeChain, Die, Login, Tick,
     RevokeRefreshToken, Purge, EndAccessToken
<1> QED BY <1>1 DEF RevokeChainAccess, Chained, SeenChained, Condemned

LEMMA FamiliesAreOldIsKept ==
    ASSUME Types, SeenRows, Chained, Condemned, FamiliesAreOld, [Next]_vars
    PROVE  FamiliesAreOld'
<1>1. made \in Nat /\ (made' = made \/ made' = made + 1)
  BY Numbers, MakingOne DEF Types, StoreTypes
<1>2. \A r \in Requests : token[r] \in Tokens
  BY DEF Types, RequestTypes
<1>3. \A n \in Tokens : family[n] # NoChain => family[n] \in Nat
  BY Numbers DEF Types, StoreTypes, Chains
<1>4. ASSUME NEW n \in Tokens, family'[n] # NoChain
      PROVE  family'[n] <= made'
  <2>1. CASE family'[n] = family[n]
    BY <1>1, <1>3, <1>4, <2>1 DEF FamiliesAreOld
  <2>2. CASE family'[n] # family[n]
    BY <1>1, <1>2, <1>3, <1>4, <2>2, FamilyGrows DEF FamiliesAreOld
  <2> QED BY <2>1, <2>2
<1>5. ASSUME NEW c \in revoked' PROVE c <= made'
  <2>1. CASE c \in revoked
    BY <1>1, <2>1, Numbers DEF FamiliesAreOld, Types, ObservedTypes
  <2>2. CASE c \notin revoked
    BY <1>1, <1>2, <1>3, <1>5, <2>2, RevokedGrows DEF FamiliesAreOld
  <2> QED BY <2>1, <2>2
<1> QED BY <1>4, <1>5 DEF FamiliesAreOld

LEMMA NewIsUnknownIsKept ==
    ASSUME Types, SeenRows, Minted, Chained, Condemned, Descent,
           [Next]_vars
    PROVE  NewIsUnknown'
<1>1. SUFFICES ASSUME NEW q \in Requests, pc'[q] = "mint_refresh"
               PROVE  /\ \A m \in Tokens : family'[m] = new'[q] => m = new'[q]
                      /\ new'[q] \notin revoked'
  BY DEF NewIsUnknown
<1>2. /\ made \in Nat /\ new[q] \in Tokens /\ new[q] \in Nat
      /\ \A r \in Requests : token[r] \in Tokens
      /\ \A c \in revoked : c <= made
      /\ \A m \in Tokens : family[m] # NoChain => family[m] <= made
  BY Numbers DEF Types, StoreTypes, RequestTypes, Descent, FamiliesAreOld
<1>3. CASE pc[q] = "mint_refresh" /\ new'[q] = new[q]
  <2>1. /\ new[q] <= made /\ new[q] \notin revoked
        /\ \A m \in Tokens : family[m] = new[q] => m = new[q]
        /\ \A r \in Requests : pc[r] # "idle" => token[r] # new[q]
    BY <1>3 DEF Minted, Fresh, Descent, NewIsUnknown
  <2>2. \A r \in Requests : pc[r] # "idle" => family[token[r]] # new[q]
    BY <1>2, <2>1
  <2>3. ASSUME NEW m \in Tokens, family'[m] = new[q] PROVE m = new[q]
    BY <1>2, <2>1, <2>2, <2>3, FamilyGrows
  <2>4. new[q] \notin revoked'
    BY <2>1, <2>2, RevokedGrows
  <2> QED BY <1>3, <2>3, <2>4
<1>4. CASE /\ MintAccess(q)
           /\ new'[q] = made + 1 /\ made' = made + 1
  <2>1. made + 1 \in Tokens /\ made + 1 # NoChain
    BY <1>4, NextToken, Numbers DEF MintAccess, Types, StoreTypes
  <2>2. revoked' = revoked
    BY <1>4 DEF MintAccess
  <2>3. ASSUME NEW m \in Tokens, family'[m] = made + 1 PROVE m = made + 1
    BY <1>2, <2>1, <2>3, FamilyGrows
  <2> QED BY <1>2, <1>4, <2>2, <2>3
<1> QED BY <1>1, <1>3, <1>4, MintingOne DEF Minting

\* What was observed of a token stays true.
LEMMA ObservedGrows ==
    ASSUME Types, SeenRows,
           [Next]_vars
    PROVE  /\ \A n \in Tokens :
                /\ shown'[n] >= shown[n] /\ shown'[n] \in Nat
                /\ shown[n] >= 1 => first'[n] = first[n]
                /\ Used(n) => Used(n)'
           /\ clock' >= clock
<1> DEFINE Grown ==
        /\ \A n \in Tokens :
            /\ shown'[n] >= shown[n] /\ shown'[n] \in Nat
            /\ shown[n] >= 1 => first'[n] = first[n]
            /\ Used(n) => Used(n)'
        /\ clock' >= clock
<1> USE Numbers DEF Types, stores, request, observed, RowTypes, RequestTypes, StoreTypes, ObservedTypes, Steps, Chains, Used, Times
<1>1. ASSUME NEW r \in Requests, NEW n \in Tokens, Present(r, n) PROVE Grown
  BY <1>1 DEF Present
<1>2. ASSUME NEW r \in Requests, Mark(r) PROVE Grown
  BY <1>2 DEF Mark
<1>3. ASSUME NEW r \in Requests, MarkFails(r) PROVE Grown
  BY <1>3 DEF MarkFails
<1>4. ASSUME NEW r \in Requests, Restamp(r) PROVE Grown
  BY <1>4 DEF Restamp, GoOn, Fault
<1>5. ASSUME NEW r \in Requests, Judge(r) PROVE Grown
  BY <1>5 DEF Judge, Age, Finish, GoOn
<1>6. ASSUME NEW r \in Requests, MintAccess(r) PROVE Grown
  BY <1>6 DEF MintAccess, MadeLate, Fault
<1>7. ASSUME NEW r \in Requests, MintRefresh(r) PROVE Grown
  BY <1>7 DEF MintRefresh, NewRow, MadeLate, Finish
<1>8. ASSUME NEW r \in Requests, RevokeChain(r) PROVE Grown
  BY <1>8 DEF RevokeChain, InFlight, GoOn
<1>9. ASSUME NEW r \in Requests, RevokeChainAccess(r) PROVE Grown
  BY <1>9 DEF RevokeChainAccess, Finish
<1>10. ASSUME NEW r \in Requests, Die(r) PROVE Grown
  BY <1>10 DEF Die, Fault, Finish
<1>11. ASSUME Login PROVE Grown
  BY <1>11 DEF Login, NewRow
<1>12. ASSUME Tick PROVE Grown
  BY <1>12 DEF Tick
<1>13. ASSUME NEW n \in Tokens, RevokeRefreshToken(n) PROVE Grown
  BY <1>13 DEF RevokeRefreshToken
<1>14. ASSUME NEW n \in Tokens, Purge(n) PROVE Grown
  BY <1>14 DEF Purge
<1>15. ASSUME NEW a \in access, EndAccessToken(a) PROVE Grown
  BY <1>15 DEF EndAccessToken
<1>16. ASSUME UNCHANGED vars PROVE Grown
  BY <1>16 DEF vars
<1> QED BY <1>1, <1>2, <1>3, <1>4, <1>5, <1>6, <1>7, <1>8, <1>9, <1>10,
   <1>11, <1>12, <1>13, <1>14, <1>15, <1>16 DEF Next

LEMMA TokensPresentedIsKept ==
    ASSUME Types, SeenRows, UnmadeIsFresh, Minted, Presented,
           [Next]_vars
    PROVE  TokensPresented'
<1> USE Numbers DEF Types, stores, request, observed, RowTypes, RequestTypes, StoreTypes, ObservedTypes, Steps, Chains, Presented, TokensPresented, SeenPresented, Used, Times
<1>1. ASSUME NEW r \in Requests, NEW n \in Tokens, Present(r, n) PROVE TokensPresented'
  BY <1>1 DEF Present
<1>2. ASSUME NEW r \in Requests, Mark(r) PROVE TokensPresented'
  <2>1. /\ pc[r] # "idle" /\ token[r] \in Tokens
        /\ UNCHANGED <<shown, first, clock, misreported>>
    BY <1>2 DEF Mark
  <2>2. \A n \in Tokens : n # token[r] => wins'[n] = wins[n]
    BY <1>2 DEF Mark
  <2> QED BY <2>1, <2>2
<1>3. ASSUME NEW r \in Requests, MarkFails(r) PROVE TokensPresented'
  <2>1. /\ pc[r] # "idle" /\ token[r] \in Tokens
        /\ UNCHANGED <<shown, first, clock, wins>>
        /\ misreported' \subseteq misreported \cup {token[r]}
    BY <1>3 DEF MarkFails
  <2> QED BY <2>1
<1>4. ASSUME NEW r \in Requests, Restamp(r) PROVE TokensPresented'
  BY <1>4 DEF Restamp, GoOn, Fault
<1>5. ASSUME NEW r \in Requests, Judge(r) PROVE TokensPresented'
  BY <1>5 DEF Judge, Age, Finish, GoOn
<1>6. ASSUME NEW r \in Requests, MintAccess(r) PROVE TokensPresented'
  BY <1>6 DEF MintAccess, MadeLate, Fault
<1>7. ASSUME NEW r \in Requests, MintRefresh(r) PROVE TokensPresented'
  BY <1>7 DEF MintRefresh, NewRow, MadeLate, Finish
<1>8. ASSUME NEW r \in Requests, RevokeChain(r) PROVE TokensPresented'
  BY <1>8 DEF RevokeChain, InFlight, GoOn
<1>9. ASSUME NEW r \in Requests, RevokeChainAccess(r) PROVE TokensPresented'
  BY <1>9 DEF RevokeChainAccess, Finish
<1>10. ASSUME NEW r \in Requests, Die(r) PROVE TokensPresented'
  BY <1>10 DEF Die, Fault, Finish
<1>11. ASSUME Login PROVE TokensPresented'
  BY <1>11 DEF Login, NewRow
<1>12. ASSUME Tick PROVE TokensPresented'
  BY <1>12 DEF Tick
<1>13. ASSUME NEW n \in Tokens, RevokeRefreshToken(n) PROVE TokensPresented'
  BY <1>13 DEF RevokeRefreshToken
<1>14. ASSUME NEW n \in Tokens, Purge(n) PROVE TokensPresented'
  BY <1>14 DEF Purge
<1>15. ASSUME NEW a \in access, EndAccessToken(a) PROVE TokensPresented'
  BY <1>15 DEF EndAccessToken
<1>16. ASSUME UNCHANGED vars PROVE TokensPresented'
  BY <1>16 DEF vars
<1> QED BY <1>1, <1>2, <1>3, <1>4, <1>5, <1>6, <1>7, <1>8, <1>9, <1>10,
   <1>11, <1>12, <1>13, <1>14, <1>15, <1>16 DEF Next

LEMMA RowsPresentedIsKept ==
    ASSUME Types, SeenRows, UnmadeIsFresh, Minted, Presented,
           [Next]_vars
    PROVE  RowsPresented'
<1> USE Numbers DEF Types, stores, request, observed, RowTypes, RequestTypes, StoreTypes, ObservedTypes, Steps, Chains, SeenRows, Presented, TokensPresented, RowsPresented, SeenPresented, Used
<1>1. ASSUME NEW r \in Requests, NEW n \in Tokens, Present(r, n) PROVE RowsPresented'
  BY <1>1, PresentReads DEF Present
<1>2. ASSUME NEW r \in Requests, Mark(r) PROVE RowsPresented'
  <2>1. /\ pc[r] = "unused" /\ token[r] \in Tokens /\ seen[r].used
        /\ UNCHANGED <<first, misreported>>
    BY <1>2 DEF Mark
  <2>2. UNCHANGED <<rows, wins>> \/
            /\ rows' = [rows EXCEPT ![token[r]] = seen[r]]
            /\ wins' = [wins EXCEPT ![token[r]] = @ + 1]
    BY <1>2 DEF Mark
  <2> QED BY <2>1, <2>2
<1>3. ASSUME NEW r \in Requests, MarkFails(r) PROVE RowsPresented'
  <2>1. /\ pc[r] = "unused" /\ token[r] \in Tokens /\ seen[r].used
        /\ UNCHANGED <<first, wins>>
    BY <1>3 DEF MarkFails
  <2>2. UNCHANGED <<rows, misreported>> \/
            /\ rows' = [rows EXCEPT ![token[r]] = seen[r]]
            /\ misreported' = misreported \cup {token[r]}
    BY <1>3 DEF MarkFails
  <2> QED BY <2>1, <2>2
<1>4. ASSUME NEW r \in Requests, Restamp(r) PROVE RowsPresented'
  BY <1>4 DEF Restamp, GoOn, Fault
<1>5. ASSUME NEW r \in Requests, Judge(r) PROVE RowsPresented'
  BY <1>5 DEF Judge, Age, Finish, GoOn
<1>6. ASSUME NEW r \in Requests, MintAccess(r) PROVE RowsPresented'
  BY <1>6 DEF MintAccess, MadeLate, Fault
<1>7. ASSUME NEW r \in Requests, MintRefresh(r) PROVE RowsPresented'
  <2>1. /\ \A c : NewRow(c).used = FALSE
        /\ UNCHANGED <<first, wins, misreported>>
    BY <1>7 DEF MintRefresh, NewRow
  <2> QED BY <1>7, <2>1 DEF MintRefresh
<1>8. ASSUME NEW r \in Requests, RevokeChain(r) PROVE RowsPresented'
  BY <1>8 DEF RevokeChain, InFlight, GoOn
<1>9. ASSUME NEW r \in Requests, RevokeChainAccess(r) PROVE RowsPresented'
  BY <1>9 DEF RevokeChainAccess, Finish
<1>10. ASSUME NEW r \in Requests, Die(r) PROVE RowsPresented'
  BY <1>10 DEF Die, Fault, Finish
<1>11. ASSUME Login PROVE RowsPresented'
  <2>1. /\ \A c : NewRow(c).used = FALSE
        /\ UNCHANGED <<first, wins, misreported>>
    BY <1>11 DEF Login, NewRow
  <2> QED BY <1>11, <2>1 DEF Login
<1>12. ASSUME Tick PROVE RowsPresented'
  BY <1>12 DEF Tick
<1>13. ASSUME NEW n \in Tokens, RevokeRefreshToken(n) PROVE RowsPresented'
  BY <1>13 DEF RevokeRefreshToken
<1>14. ASSUME NEW n \in Tokens, Purge(n) PROVE RowsPresented'
  BY <1>14 DEF Purge
<1>15. ASSUME NEW a \in access, EndAccessToken(a) PROVE RowsPresented'
  BY <1>15 DEF EndAccessToken
<1>16. ASSUME UNCHANGED vars PROVE RowsPresented'
  BY <1>16 DEF vars
<1> QED BY <1>1, <1>2, <1>3, <1>4, <1>5, <1>6, <1>7, <1>8, <1>9, <1>10,
   <1>11, <1>12, <1>13, <1>14, <1>15, <1>16 DEF Next

LEMMA SeenPresentedIsKept ==
    ASSUME Types, SeenRows, UnmadeIsFresh, Minted, Presented,
           [Next]_vars
    PROVE  SeenPresented'
<1> USE Numbers DEF Types, stores, request, observed, RowTypes, RequestTypes, StoreTypes, ObservedTypes, Steps, Chains, SeenRows, Presented, TokensPresented, RowsPresented, SeenPresented, Used
<1>1. ASSUME NEW r \in Requests, NEW n \in Tokens, Present(r, n) PROVE SeenPresented'
  <2>1. UNCHANGED <<wins, misreported, clock>>
    BY <1>1 DEF Present
  <2>2. /\ first' = [first EXCEPT ![n] = IF shown[n] = 0 THEN clock ELSE @]
        /\ shown' = [shown EXCEPT ![n] = IF @ = 2 THEN @ ELSE @ + 1]
    BY <1>1 DEF Present
  <2>3. first'[n] <= clock /\ shown'[n] >= 1
    BY <2>2
  <2>4. rows[n] # NoRow /\ rows[n].used =>
            Used(n) /\ first[n] <= rows[n].used_at /\ shown[n] >= 1
    OBVIOUS
  <2>5. rows[n] # NoRow
    BY <1>1 DEF Present
  <2> QED BY <1>1, <2>1, <2>2, <2>3, <2>4, <2>5, PresentReads,
             ObservedGrows
<1>2. ASSUME NEW r \in Requests, Mark(r) PROVE SeenPresented'
  BY <1>2 DEF Mark, ReadAgain, Finish, GoOn, Marked, Unmarked
<1>3. ASSUME NEW r \in Requests, MarkFails(r) PROVE SeenPresented'
  BY <1>3 DEF MarkFails, ReadAgain, Finish, GoOn, Unmarked, Fault
<1>4. ASSUME NEW r \in Requests, Restamp(r) PROVE SeenPresented'
  BY <1>4 DEF Restamp, GoOn, Fault
<1>5. ASSUME NEW r \in Requests, Judge(r) PROVE SeenPresented'
  BY <1>5 DEF Judge, Age, Finish, GoOn
<1>6. ASSUME NEW r \in Requests, MintAccess(r) PROVE SeenPresented'
  BY <1>6 DEF MintAccess, MadeLate, Fault
<1>7. ASSUME NEW r \in Requests, MintRefresh(r) PROVE SeenPresented'
  BY <1>7 DEF MintRefresh, NewRow, MadeLate, Finish
<1>8. ASSUME NEW r \in Requests, RevokeChain(r) PROVE SeenPresented'
  BY <1>8 DEF RevokeChain, InFlight, GoOn
<1>9. ASSUME NEW r \in Requests, RevokeChainAccess(r) PROVE SeenPresented'
  BY <1>9 DEF RevokeChainAccess, Finish
<1>10. ASSUME NEW r \in Requests, Die(r) PROVE SeenPresented'
  BY <1>10 DEF Die, Fault, Finish
<1>11. ASSUME Login PROVE SeenPresented'
  BY <1>11 DEF Login, NewRow
<1>12. ASSUME Tick PROVE SeenPresented'
  BY <1>12 DEF Tick
<1>13. ASSUME NEW n \in Tokens, RevokeRefreshToken(n) PROVE SeenPresented'
  BY <1>13 DEF RevokeRefreshToken
<1>14. ASSUME NEW n \in Tokens, Purge(n) PROVE SeenPresented'
  BY <1>14 DEF Purge
<1>15. ASSUME NEW a \in access, EndAccessToken(a) PROVE SeenPresented'
  BY <1>15 DEF EndAccessToken
<1>16. ASSUME UNCHANGED vars PROVE SeenPresented'
  BY <1>16 DEF vars
<1> QED BY <1>1, <1>2, <1>3, <1>4, <1>5, <1>6, <1>7, <1>8, <1>9, <1>10,
   <1>11, <1>12, <1>13, <1>14, <1>15, <1>16 DEF Next

LEMMA TwiceIsKept ==
    ASSUME Types, SeenRows, UnmadeIsFresh, Minted, Presented, Twice,
           [Next]_vars
    PROVE  Twice'
<1> USE Numbers DEF Types, stores, request, observed, RowTypes, RequestTypes, StoreTypes, ObservedTypes, Steps, Chains, SeenRows, Presented, TokensPresented, SeenPresented, RowsPresented, Used, Judged, Twice
<1>1. ASSUME NEW r \in Requests, NEW n \in Tokens, Present(r, n) PROVE Twice'
  BY <1>1 DEF Present, Finish, GoOn, Marked
<1>2. ASSUME NEW r \in Requests, Mark(r) PROVE Twice'
  BY <1>2 DEF Mark, ReadAgain, Finish, GoOn, Marked, Unmarked
<1>3. ASSUME NEW r \in Requests, MarkFails(r) PROVE Twice'
  BY <1>3 DEF MarkFails, ReadAgain, Finish, GoOn, Unmarked, Fault
<1>4. ASSUME NEW r \in Requests, Restamp(r) PROVE Twice'
  BY <1>4 DEF Restamp, GoOn, Fault
<1>5. ASSUME NEW r \in Requests, Judge(r) PROVE Twice'
  BY <1>5 DEF Judge, Age, Finish, GoOn
<1>6. ASSUME NEW r \in Requests, MintAccess(r) PROVE Twice'
  BY <1>6 DEF MintAccess, MadeLate, Fault
<1>7. ASSUME NEW r \in Requests, MintRefresh(r) PROVE Twice'
  BY <1>7 DEF MintRefresh, NewRow, MadeLate, Finish
<1>8. ASSUME NEW r \in Requests, RevokeChain(r) PROVE Twice'
  BY <1>8 DEF RevokeChain, InFlight, GoOn
<1>9. ASSUME NEW r \in Requests, RevokeChainAccess(r) PROVE Twice'
  BY <1>9 DEF RevokeChainAccess, Finish
<1>10. ASSUME NEW r \in Requests, Die(r) PROVE Twice'
  BY <1>10 DEF Die, Fault, Finish
<1>11. ASSUME Login PROVE Twice'
  BY <1>11 DEF Login, NewRow
<1>12. ASSUME Tick PROVE Twice'
  BY <1>12 DEF Tick
<1>13. ASSUME NEW n \in Tokens, RevokeRefreshToken(n) PROVE Twice'
  BY <1>13 DEF RevokeRefreshToken
<1>14. ASSUME NEW n \in Tokens, Purge(n) PROVE Twice'
  BY <1>14 DEF Purge
<1>15. ASSUME NEW a \in access, EndAccessToken(a) PROVE Twice'
  BY <1>15 DEF EndAccessToken
<1>16. ASSUME UNCHANGED vars PROVE Twice'
  BY <1>16 DEF vars
<1> QED BY <1>1, <1>2, <1>3, <1>4, <1>5, <1>6, <1>7, <1>8, <1>9, <1>10,
   <1>11, <1>12, <1>13, <1>14, <1>15, <1>16 DEF Next

LEMMA CondemnedIsKept ==
    ASSUME Types, SeenRows, Presented, Condemned,
           [Next]_vars
    PROVE  Condemned'
<1> USE Numbers DEF Types, stores, request, observed, RowTypes, RequestTypes, StoreTypes, ObservedTypes, Steps, Chains, SeenRows, Presented, SeenPresented, Condemned
<1>1. ASSUME NEW r \in Requests, NEW n \in Tokens, Present(r, n) PROVE Condemned'
  BY <1>1, PresentReads, ObservedGrows DEF Present
<1>2. ASSUME NEW r \in Requests, Mark(r) PROVE Condemned'
  BY <1>2 DEF Mark, ReadAgain, Finish, GoOn, Marked, Unmarked
<1>3. ASSUME NEW r \in Requests, MarkFails(r) PROVE Condemned'
  BY <1>3 DEF MarkFails, ReadAgain, Finish, GoOn, Unmarked, Fault
<1>4. ASSUME NEW r \in Requests, Restamp(r) PROVE Condemned'
  BY <1>4 DEF Restamp, GoOn, Fault
<1>5. ASSUME NEW r \in Requests, Judge(r) PROVE Condemned'
  <2>1. /\ seen[r] \in Row /\ seen[r].used_at \in Nat
        /\ first[token[r]] \in Nat /\ clock \in Nat
    BY <1>5 DEF Judge, Row
  <2>2. pc'[r] = "revoke" => seen[r].used /\ clock - seen[r].used_at > Grace
    BY <1>5 DEF Judge, Age, Finish, GoOn
  <2>3. seen[r].used => first[token[r]] <= seen[r].used_at
    BY <1>5 DEF Judge
  <2>4. pc'[r] = "revoke" => clock > first[token[r]] + Grace
    BY <2>1, <2>2, <2>3
  <2> QED BY <1>5, <2>4 DEF Judge, Finish, GoOn
<1>6. ASSUME NEW r \in Requests, MintAccess(r) PROVE Condemned'
  BY <1>6 DEF MintAccess, MadeLate, Fault
<1>7. ASSUME NEW r \in Requests, MintRefresh(r) PROVE Condemned'
  BY <1>7 DEF MintRefresh, NewRow, MadeLate, Finish
<1>8. ASSUME NEW r \in Requests, RevokeChain(r) PROVE Condemned'
  BY <1>8 DEF RevokeChain, InFlight, GoOn
<1>9. ASSUME NEW r \in Requests, RevokeChainAccess(r) PROVE Condemned'
  BY <1>9 DEF RevokeChainAccess, Finish
<1>10. ASSUME NEW r \in Requests, Die(r) PROVE Condemned'
  BY <1>10 DEF Die, Fault, Finish
<1>11. ASSUME Login PROVE Condemned'
  BY <1>11 DEF Login, NewRow
<1>12. ASSUME Tick PROVE Condemned'
  <2>1. /\ clock \in Nat /\ clock' = clock + 1
        /\ \A q \in Requests : first[token[q]] \in Nat
        /\ UNCHANGED <<pc, seen, first, token>>
    BY <1>12 DEF Tick
  <2>2. \A q \in Requests : clock > first[token[q]] + Grace
                            => clock' > first[token[q]] + Grace
    BY <2>1
  <2> QED BY <2>1, <2>2
<1>13. ASSUME NEW n \in Tokens, RevokeRefreshToken(n) PROVE Condemned'
  BY <1>13 DEF RevokeRefreshToken
<1>14. ASSUME NEW n \in Tokens, Purge(n) PROVE Condemned'
  BY <1>14 DEF Purge
<1>15. ASSUME NEW a \in access, EndAccessToken(a) PROVE Condemned'
  BY <1>15 DEF EndAccessToken
<1>16. ASSUME UNCHANGED vars PROVE Condemned'
  BY <1>16 DEF vars
<1> QED BY <1>1, <1>2, <1>3, <1>4, <1>5, <1>6, <1>7, <1>8, <1>9, <1>10,
   <1>11, <1>12, <1>13, <1>14, <1>15, <1>16 DEF Next

\* No family has begun to end but those whose tokens are being revoked.
LEMMA EndingGrows ==
    ASSUME Types, SeenRows, Chained, Condemned, [Next]_vars,
           NEW c, Ending(c)', ~Ending(c)
    PROVE  \E r \in Requests : RevokeChain(r) /\ c = seen[r].chain
<1> USE DEF Types, RequestTypes, RowTypes
<1>1. c \notin revoked
  BY DEF Ending
<1>2. CASE c \in revoked'
  <2>1. PICK r \in Requests : pc[r] = "revoke_access" /\ c = seen[r].chain
    BY <1>1, <1>2, RevokedGrows
  <2> QED BY <2>1 DEF Ending
<1>3. CASE \E r \in Requests : pc'[r] = "revoke_access" /\ seen'[r].chain = c
  <2>1. PICK r \in Requests : pc'[r] = "revoke_access" /\ seen'[r].chain = c
    BY <1>3
  <2>2. ~(pc[r] = "revoke_access" /\ seen[r].chain = c)
    BY DEF Ending
  <2>3. RevokeChain(r)
    BY <2>1, <2>2 DEF Next, vars, request, Present, Mark, MarkFails, Restamp,
       Judge, MintAccess, MintRefresh, RevokeChain, RevokeChainAccess, Die,
       Login, Tick, RevokeRefreshToken, Purge, EndAccessToken, Finish, GoOn,
       ReadAgain
  <2> QED BY <2>1, <2>3 DEF RevokeChain
<1> QED BY <1>2, <1>3 DEF Ending

LEMMA LateGrows ==
    ASSUME Types, [Next]_vars
    PROVE  late \subseteq late'
BY DEF Next, vars, observed, Present, Mark, MarkFails, Restamp, Judge,
   MintAccess, MintRefresh, RevokeChain, RevokeChainAccess, Die, Login, Tick,
   RevokeRefreshToken, Purge, EndAccessToken

\* Where rows come from.
LEMMA RowAppears ==
    ASSUME Types, SeenRows, [Next]_vars, NEW n \in Tokens,
           rows[n] = NoRow, rows'[n] # NoRow
    PROVE  \/ n \in late'
           \/ \E r \in Requests : MintRefresh(r) /\ new[r] = n
           \/ Login /\ n = made + 1
<1> USE DEF Types, RequestTypes, RowTypes
<1>1. ASSUME NEW r \in Requests, pc[r] = "unused",
             rows[token[r]] = Unmarked(seen[r])
      PROVE  rows[token[r]] # NoRow
  <2>1. rows[token[r]] \in Row
    BY <1>1, MatchedRow
  <2> QED BY <2>1, Numbers
<1>2. ASSUME NEW r \in Requests, Mark(r) \/ MarkFails(r) PROVE FALSE
  <2>1. pc[r] = "unused" /\ token[r] \in Tokens
    BY <1>2 DEF Mark, MarkFails
  <2>2. CASE rows[token[r]] = Unmarked(seen[r])
    BY <1>1, <1>2, <2>1, <2>2 DEF Mark, MarkFails
  <2>3. CASE rows[token[r]] # Unmarked(seen[r])
    BY <1>2, <2>3 DEF Mark, MarkFails
  <2> QED BY <2>2, <2>3
<1>3. ASSUME NEW r \in Requests, Restamp(r) PROVE n \in late'
  BY <1>3 DEF Restamp
<1>4. ASSUME NEW r \in Requests, MintRefresh(r) PROVE new[r] = n
  BY <1>4 DEF MintRefresh
<1>5. ASSUME Login PROVE n = made + 1
  BY <1>5 DEF Login
<1> QED BY <1>2, <1>3, <1>4, <1>5 DEF Next, vars, stores, Present, Judge,
        MintAccess, RevokeChain, RevokeChainAccess, Die, Tick,
        RevokeRefreshToken, Purge, EndAccessToken

\* A token that is made without a family starts one that has not ended.
LEMMA FreshIsNotEnding ==
    ASSUME Types, SeenRows, Chained, NEW n \in Tokens, n \notin revoked,
           \A r \in Requests : pc[r] # "idle" => token[r] # n,
           \A m \in Tokens : family[m] = n => m = n
    PROVE  ~Ending(n)
BY DEF Ending, Types, RequestTypes, Chained, SeenChained

LEMMA RowsEndedIsKept ==
    ASSUME Types, SeenRows, UnmadeIsFresh, Minted, Chained, Descent, Condemned,
           Ended, [Next]_vars
    PROVE  RowsEnded'
<1> USE DEF Types, RequestTypes, RowTypes, StoreTypes
<1>1. SUFFICES ASSUME NEW n \in Tokens, rows'[n] # NoRow,
                      Ending(family[n])', n \notin late'
               PROVE  FALSE
  BY DEF RowsEnded
<1>2. PICK c \in Chains : c = family'[n]
  BY StoreTypesAreKept DEF Types, StoreTypes
<1>3. Ending(c)'
  BY <1>1, <1>2 DEF Ending
<1>4. n \notin late
  BY <1>1, LateGrows
<1>5. CASE rows[n] # NoRow
  <2>1. family[n] = c
    <3>1. n <= made /\ n \in Nat /\ made \in Nat
      BY <1>5, Numbers DEF UnmadeIsFresh, Fresh
    <3> QED BY <1>2, <3>1, MakingOne
  <2>2. ~Ending(c)
    BY <1>4, <1>5, <2>1 DEF Ended, RowsEnded
  <2>3. PICK r \in Requests : RevokeChain(r) /\ c = seen[r].chain
    BY <1>3, <2>2, EndingGrows
  <2>4. rows[n].chain = c
    BY <1>5, <2>1 DEF Chained, RowsChained
  <2> QED BY <1>1, <1>5, <2>3, <2>4 DEF RevokeChain
<1>6. CASE rows[n] = NoRow
  <2>1. ASSUME NEW r \in Requests, MintRefresh(r), new[r] = n PROVE FALSE
    <3>1. /\ pc[r] = "mint_refresh" /\ family' = family
          /\ r \notin running /\ token[r] \notin late
      BY <1>1, <2>1 DEF MintRefresh, MadeLate
    <3>2. c = IF seen[r].chain = NoChain THEN n ELSE seen[r].chain
      BY <1>2, <2>1, <3>1 DEF Chained, NewChained, FamilyOfNew
    <3>3. ~Ending(seen[r].chain)
      BY <3>1 DEF Ended, RequestsEnded
    <3>4. ~Ending(n)
      BY <2>1, <3>1, FreshIsNotEnding
         DEF Minted, Fresh, Descent, NewIsUnknown
    <3>5. ~Ending(c)
      BY <3>2, <3>3, <3>4
    <3>6. PICK q \in Requests : RevokeChain(q)
      BY <1>3, <3>5, EndingGrows
    <3> QED BY <2>1, <3>6 DEF RevokeChain, MintRefresh, GoOn, Finish
  <2>2. ASSUME Login, n = made + 1 PROVE FALSE
    <3>1. /\ made \in Nat /\ c = n /\ n \in Nat
          /\ UNCHANGED <<pc, seen, revoked>>
      BY <1>2, <2>2, Numbers DEF Login, request, observed
    <3>2. ~Ending(n)
      <4>1. n \notin revoked
        BY <2>2, <3>1, Numbers DEF Descent, FamiliesAreOld, ObservedTypes
      <4>2. \A m \in Tokens : family[m] # n
        BY <2>2, <3>1, Numbers DEF Descent, FamiliesAreOld
      <4>3. \A r \in Requests : pc[r] # "idle" => token[r] # n
        BY <2>2, <3>1 DEF UnmadeIsFresh, Fresh
      <4> QED BY <4>1, <4>2, <4>3, FreshIsNotEnding
    <3> QED BY <1>3, <3>1, <3>2 DEF Ending
  <2> QED BY <1>1, <1>6, <2>1, <2>2, RowAppears
<1> QED BY <1>5, <1>6

Answering == {"reused", "restamp", "mint", "mint_refresh"}

\* A request that is answering was so before, about the same token, or it has
\* just found the token's row.
AnswersOf(q) ==
    \/ /\ pc[q] \in Answering
       /\ token'[q] = token[q] /\ seen'[q].chain = seen[q].chain
       /\ q \in running => q \in running'
    \/ /\ rows[token'[q]] # NoRow
       /\ seen'[q].chain = family[token'[q]]

LEMMA FoundAgain ==
    ASSUME Types, SeenRows, Chained, NEW q \in Requests, NEW r \in Requests,
           ReadAgain(r, rows[token[r]]), pc'[q] \in Answering
    PROVE  AnswersOf(q)
<1> USE DEF Types, RowTypes, RequestTypes, Answering, AnswersOf
<1>1. CASE q = r
  <2>1. /\ rows[token[r]] # NoRow
        /\ seen' = [seen EXCEPT ![r] = rows[token[r]]]
        /\ token' = token
    BY <1>1 DEF ReadAgain, Finish, GoOn
  <2>2. rows[token[r]].chain = family[token[r]]
    BY <2>1 DEF Chained, RowsChained
  <2> QED BY <1>1, <2>1, <2>2
<1>2. CASE q # r
  BY <1>2 DEF ReadAgain, Finish, GoOn
<1> QED BY <1>1, <1>2

LEMMA AnsweringGoesOn ==
    ASSUME Types, SeenRows, Chained, NEW q \in Requests,
           pc'[q] \in Answering,
           [Next]_vars
    PROVE  AnswersOf(q)
<1> USE Numbers DEF Types, stores, request, observed, RowTypes, RequestTypes, StoreTypes, ObservedTypes, Steps, Chains, SeenRows, Chained, RowsChained, SeenChained, Answering, AnswersOf
<1>1. ASSUME NEW r \in Requests, NEW n \in Tokens, Present(r, n) PROVE AnswersOf(q)
  BY <1>1, PresentReads DEF Present
<1>2. ASSUME NEW r \in Requests, Mark(r) PROVE AnswersOf(q)
  <2>1. CASE rows[token[r]] = Unmarked(seen[r])
    <3>1. rows[token[r]] # NoRow /\ seen[r].chain = family[token[r]]
      BY <1>2, <2>1, MatchedRow DEF Mark
    <3> QED BY <1>2, <2>1, <3>1 DEF Mark, GoOn
  <2>2. CASE rows[token[r]] # Unmarked(seen[r])
    <3>1. ReadAgain(r, rows[token[r]]) /\ token[r] \in Tokens
      BY <1>2, <2>2 DEF Mark
    <3> QED BY <1>2, <2>2, <3>1, FoundAgain
  <2> QED BY <2>1, <2>2
<1>3. ASSUME NEW r \in Requests, MarkFails(r) PROVE AnswersOf(q)
  <2>1. CASE ReadAgain(r, rows[token[r]])
    BY <2>1, FoundAgain
  <2>2. CASE /\ rows[token[r]] = Unmarked(seen[r])
             /\ ReadAgain(r, seen[r])
    <3>1. rows[token[r]] # NoRow /\ seen[r].chain = family[token[r]]
      BY <1>3, <2>2, MatchedRow DEF MarkFails
    <3> QED BY <1>3, <2>2, <3>1 DEF MarkFails, ReadAgain, Finish, GoOn
  <2> QED BY <1>3, <2>1, <2>2 DEF MarkFails
<1>4. ASSUME NEW r \in Requests, Restamp(r) PROVE AnswersOf(q)
  BY <1>4 DEF Restamp, GoOn, Fault
<1>5. ASSUME NEW r \in Requests, Judge(r) PROVE AnswersOf(q)
  BY <1>5 DEF Judge, Age, Finish, GoOn
<1>6. ASSUME NEW r \in Requests, MintAccess(r) PROVE AnswersOf(q)
  BY <1>6 DEF MintAccess, MadeLate, Fault
<1>7. ASSUME NEW r \in Requests, MintRefresh(r) PROVE AnswersOf(q)
  BY <1>7 DEF MintRefresh, NewRow, MadeLate, Finish
<1>8. ASSUME NEW r \in Requests, RevokeChain(r) PROVE AnswersOf(q)
  BY <1>8 DEF RevokeChain, InFlight, GoOn
<1>9. ASSUME NEW r \in Requests, RevokeChainAccess(r) PROVE AnswersOf(q)
  BY <1>9 DEF RevokeChainAccess, Finish
<1>10. ASSUME NEW r \in Requests, Die(r) PROVE AnswersOf(q)
  BY <1>10 DEF Die, Fault, Finish
<1>11. ASSUME Login PROVE AnswersOf(q)
  BY <1>11 DEF Login, NewRow
<1>12. ASSUME Tick PROVE AnswersOf(q)
  BY <1>12 DEF Tick
<1>13. ASSUME NEW n \in Tokens, RevokeRefreshToken(n) PROVE AnswersOf(q)
  BY <1>13 DEF RevokeRefreshToken
<1>14. ASSUME NEW n \in Tokens, Purge(n) PROVE AnswersOf(q)
  BY <1>14 DEF Purge
<1>15. ASSUME NEW a \in access, EndAccessToken(a) PROVE AnswersOf(q)
  BY <1>15 DEF EndAccessToken
<1>16. ASSUME UNCHANGED vars PROVE AnswersOf(q)
  BY <1>16 DEF vars
<1> QED BY <1>1, <1>2, <1>3, <1>4, <1>5, <1>6, <1>7, <1>8, <1>9, <1>10,
   <1>11, <1>12, <1>13, <1>14, <1>15, <1>16 DEF Next

LEMMA RequestsEndedIsKept ==
    ASSUME Types, SeenRows, UnmadeIsFresh, Chained, Condemned, Ended,
           [Next]_vars
    PROVE  RequestsEnded'
<1> USE DEF Types, RequestTypes, RowTypes, StoreTypes
<1>1. SUFFICES ASSUME NEW q \in Requests, pc'[q] \in Answering,
                      Ending(seen[q].chain)',
                      q \notin running', token'[q] \notin late'
               PROVE  FALSE
  BY DEF RequestsEnded, Answering
<1>2. PICK c : c = seen'[q].chain
  OBVIOUS
<1>3. Ending(c)'
  BY <1>1, <1>2 DEF Ending
<1>4. ASSUME Ending(c) PROVE FALSE
  <2>1. CASE /\ pc[q] \in Answering
             /\ token'[q] = token[q] /\ c = seen[q].chain
             /\ q \in running => q \in running'
    <3>1. q \in running \/ token[q] \in late
      BY <1>4, <2>1 DEF Ended, RequestsEnded, Answering
    <3> QED BY <1>1, <2>1, <3>1, LateGrows
  <2>2. CASE rows[token'[q]] # NoRow /\ c = family[token'[q]]
    <3>1. token'[q] \in Tokens
      BY RequestTypesAreKept
    <3>2. token'[q] \in late
      BY <1>4, <2>2, <3>1 DEF Ended, RowsEnded
    <3> QED BY <1>1, <3>2, LateGrows
  <2> QED BY <1>1, <1>2, <2>1, <2>2, AnsweringGoesOn DEF AnswersOf
<1>5. ASSUME ~Ending(c) PROVE FALSE
  <2>1. PICK r \in Requests : RevokeChain(r) /\ c = seen[r].chain
    BY <1>3, <1>5, EndingGrows
  <2>2. q # r /\ pc[q] \in Answering /\ seen[q].chain = c
    BY <1>1, <1>2, <2>1 DEF RevokeChain, GoOn, Answering
  <2>3. q \in InFlight(c)
    BY <2>2 DEF InFlight, Answering
  <2> QED BY <1>1, <2>1, <2>3 DEF RevokeChain
<1> QED BY <1>4, <1>5

LEMMA AccessEndedIsKept ==
    ASSUME Types, SeenRows, Chained, Condemned, Ended, [Next]_vars
    PROVE  AccessEnded'
<1> USE DEF Types, RequestTypes, RowTypes, StoreTypes
<1>1. SUFFICES ASSUME NEW a \in access', family'[a.token] \in revoked',
                      a.token \notin late'
               PROVE  FALSE
  BY DEF AccessEnded
<1>2. a.token \notin late
  BY <1>1, LateGrows
<1>3. CASE a \in access
  <2>1. /\ a.token \in Tokens /\ a.token \in Nat /\ made \in Nat
        /\ a.chain = family[a.token] /\ a.token <= made
    BY <1>3, Numbers DEF AccessRow, Chained, AccessChained
  <2>2. family'[a.token] = family[a.token]
    BY <2>1, MakingOne
  <2>3. family[a.token] \notin revoked
    BY <1>2, <1>3 DEF Ended, AccessEnded
  <2>4. PICK r \in Requests : RevokeChainAccess(r) /\ a.chain = seen[r].chain
    BY <1>1, <2>1, <2>2, <2>3, RevokedGrows
  <2> QED BY <1>1, <2>4 DEF RevokeChainAccess
<1>4. CASE a \notin access
  <2>1. PICK r \in Requests : MintAccess(r)
    BY <1>1, <1>4 DEF Next, vars, stores, Present, Mark, MarkFails, Restamp,
       Judge, MintRefresh, RevokeChain, RevokeChainAccess, Die, Login, Tick,
       RevokeRefreshToken, Purge, EndAccessToken
  <2>2. /\ a = [token |-> made + 1, chain |-> seen[r].chain]
        /\ pc[r] = "mint" /\ revoked' = revoked
        /\ late' = late \cup MadeLate(r, made + 1)
    BY <1>1, <1>4, <2>1 DEF MintAccess
  <2>3. family'[a.token] = seen[r].chain
    BY <1>1, <2>2, AccessChainedIsKept DEF AccessChained
  <2>4. r \in running \/ token[r] \in late
    BY <1>1, <2>2, <2>3 DEF Ended, RequestsEnded, Ending
  <2> QED BY <1>1, <2>2, <2>4 DEF MadeLate
<1> QED BY <1>3, <1>4

-----------------------------------------------------------------------------
(* The theorems.                                                           *)

LEMMA InitIsGood == Init => IInv
<1>1. SUFFICES ASSUME Init PROVE IInv
  OBVIOUS
<1> USE Numbers, WrittenRows DEF Init
<1>2. clock \in Times /\ NoChain \in Chains
  <2>1. clock = 0
    BY <1>1
  <2> QED BY <2>1, Numbers DEF Chains
<1>3. PICK legacy \in 0..1 :
        /\ made = legacy
        /\ rows = [n \in Tokens |->
                        IF n <= legacy THEN NewRow(NoChain) ELSE NoRow]
  BY <1>1
<1>4. /\ NewRow(NoChain) \in Row /\ NewRow(NoChain).chain = NoChain
      /\ ~NewRow(NoChain).used
  BY <1>1, <1>2 DEF NewRow
<1>5. made \in 0..MaxTokens
  BY <1>3, BoundsAssumption
<1>6. Types
  BY <1>1, <1>2, <1>3, <1>4, <1>5
     DEF Types, RowTypes, RequestTypes, StoreTypes, ObservedTypes, Steps
<1>7. \A r \in Requests : pc[r] = "idle"
  BY <1>1
<1>8. SeenRows /\ Minted /\ Alone /\ SeenChained /\ NewChained
      /\ NewIsUnknown /\ SeenPresented /\ Twice /\ Condemned
  BY <1>7 DEF SeenRows, Minted, Alone, SeenChained, NewChained, NewIsUnknown,
     SeenPresented, Twice, Judged, Condemned
<1>9. UnmadeIsFresh
  <2>1. ASSUME NEW n \in Tokens, n > made PROVE rows[n] = NoRow
    BY <1>3, <2>1
  <2> QED BY <1>1, <1>7, <2>1 DEF UnmadeIsFresh, Fresh
<1>10. ASSUME NEW n \in Tokens, rows[n] # NoRow
       PROVE  rows[n].chain = NoChain /\ ~rows[n].used
  BY <1>3, <1>4, <1>10
<1>11. Won /\ RowsChained /\ TokensPresented /\ RowsPresented
  BY <1>1, <1>10 DEF Won, RowsChained, TokensPresented, RowsPresented, Used
<1>12. AccessChained /\ FamiliesAreOld
  BY <1>1 DEF AccessChained, FamiliesAreOld
<1>13. \A c : ~Ending(c)
  BY <1>1, <1>7 DEF Ending
<1>14. Ended
  BY <1>1, <1>13 DEF Ended, RowsEnded, RequestsEnded, AccessEnded
<1> QED BY <1>6, <1>8, <1>9, <1>11, <1>12, <1>14, TypesAgree
        DEF IInv, Chained, Descent, Presented

LEMMA InvariantIsKept ==
    ASSUME IInv, [Next]_vars
    PROVE  IInv'
<1>1. /\ Types /\ SeenRows /\ UnmadeIsFresh /\ Minted /\ Alone /\ Won
      /\ Chained /\ Descent /\ Presented /\ Twice /\ Condemned /\ Ended
  BY TypesAgree DEF IInv
<1>2. RowTypes /\ RequestTypes /\ StoreTypes /\ ObservedTypes
  BY <1>1 DEF Types
<1>3. RowTypes' /\ RequestTypes' /\ StoreTypes' /\ ObservedTypes'
  BY <1>1, <1>2, RowTypesAreKept, RequestTypesAreKept, StoreTypesAreKept,
     ObservedTypesAreKept
<1>4. TypeOK'
  BY <1>3 DEF TypeOK, RowTypes, RequestTypes, StoreTypes, ObservedTypes
<1>5. SeenRows' /\ UnmadeIsFresh' /\ Minted' /\ Alone' /\ Won'
  BY <1>1, SeenRowsAreKept, UnmadeIsFreshIsKept, MintedIsKept, AloneIsKept,
     WonIsKept
<1>6. Chained'
  BY <1>1, RowsChainedIsKept, SeenChainedIsKept, NewChainedIsKept,
     AccessChainedIsKept DEF Chained
<1>7. Descent'
  BY <1>1, FamiliesAreOldIsKept, NewIsUnknownIsKept DEF Descent
<1>8. Presented' /\ Twice' /\ Condemned'
  BY <1>1, TokensPresentedIsKept, RowsPresentedIsKept, SeenPresentedIsKept,
     TwiceIsKept, CondemnedIsKept DEF Presented
<1>9. Ended'
  BY <1>1, RowsEndedIsKept, RequestsEndedIsKept, AccessEndedIsKept DEF Ended
<1> QED BY <1>4, <1>5, <1>6, <1>7, <1>8, <1>9 DEF IInv

\* The variables keep their types.
THEOREM TypeCorrect == Spec => []TypeOK
BY InitIsGood, InvariantIsKept, PTL DEF Spec, IInv

\* A refresh token is used by one request, however many present it at the
\* same time and whatever fails (try_mark_refresh_token_used).
THEOREM OneRequestWins == Spec => []OneWinner
<1>1. IInv => OneWinner
  BY DEF IInv, Won, OneWinner
<1> QED BY <1>1, InitIsGood, InvariantIsKept, PTL DEF Spec

\* Nothing that descends from a revoked login can be used any more, except
\* what was being made when it was revoked (revoke_token_chain).
THEOREM RevocationIsFinal == Spec => []RevokedStaysRevoked
<1>1. IInv => RevokedStaysRevoked
  BY DEF IInv, Ended, RowsEnded, AccessEnded, Ending, RevokedStaysRevoked,
         Usable
<1> QED BY <1>1, InitIsGood, InvariantIsKept, PTL DEF Spec

\* The evidence for a revocation.
LEMMA EvidenceStays ==
    ASSUME IInv, LockoutIsEarned, [Next]_vars
    PROVE  LockoutIsEarned'
<1>1. /\ Types /\ SeenRows /\ Chained /\ Descent /\ Presented /\ Twice
      /\ Condemned
  BY TypesAgree DEF IInv
<1> USE <1>1 DEF Types, RequestTypes, ObservedTypes, StoreTypes
<1>2. SUFFICES ASSUME NEW c \in revoked'
      PROVE  \E n \in Tokens :
                /\ family'[n] = c
                /\ shown'[n] >= 2 \/ n \in misreported'
                /\ clock' > first'[n] + Grace
  BY DEF LockoutIsEarned
<1>3. ASSUME NEW n \in Tokens, family[n] = c, c # NoChain,
             shown[n] >= 2 \/ n \in misreported,
             clock > first[n] + Grace
      PROVE  /\ family'[n] = c
             /\ shown'[n] >= 2 \/ n \in misreported'
             /\ clock' > first'[n] + Grace
  <2>1. family'[n] = c
    <3>1. n \in Nat /\ made \in Nat
      BY Numbers
    <3>2. n <= made
      BY <1>3, <3>1 DEF IInv, UnmadeIsFresh
    <3> QED BY <1>3, <3>1, <3>2, MakingOne
  <2>2. shown[n] >= 1 /\ shown[n] \in Nat
    BY <1>3 DEF Presented, TokensPresented, Used
  <2>3. first'[n] = first[n] /\ shown'[n] >= shown[n] /\ clock' >= clock
        /\ shown'[n] \in Nat
    BY <2>2, ObservedGrows
  <2>4. n \in misreported => n \in misreported'
    BY DEF Next, vars, observed, Present, Mark, MarkFails, Restamp, Judge,
       MintAccess, MintRefresh, RevokeChain, RevokeChainAccess, Die, Login,
       Tick, RevokeRefreshToken, Purge, EndAccessToken
  <2>5. first[n] \in Nat /\ clock \in Nat /\ clock' \in Nat /\ Grace \in Nat
    BY Numbers, StoreTypesAreKept
  <2> QED BY <1>3, <2>1, <2>2, <2>3, <2>4, <2>5
<1>4. CASE c \in revoked
  <2>1. c # NoChain
    BY <1>4, Numbers
  <2> QED BY <1>3, <1>4, <2>1 DEF LockoutIsEarned
<1>5. CASE c \notin revoked
  <2>1. PICK r \in Requests :
            /\ pc[r] = "revoke_access" /\ c = family[token[r]] /\ c # NoChain
    BY <1>5, RevokedGrows
  <2>2. clock > first[token[r]] + Grace
    BY <2>1 DEF Condemned
  <2>3. Used(token[r])
    BY <2>1 DEF SeenRows, Presented, SeenPresented
  <2>4. shown[token[r]] >= 2 \/ token[r] \in misreported
    BY <2>1, <2>3 DEF Used, Twice, Judged
  <2> QED BY <1>3, <2>1, <2>2, <2>4
<1> QED BY <1>4, <1>5

\* Crashes, lost answers, failed updates and concurrent requests alone never
\* revoke a family (_handle_refresh_token).
THEOREM RevocationIsEarned == Spec => []LockoutIsEarned
<1>1. Init => LockoutIsEarned
  BY DEF Init, LockoutIsEarned
<1> QED BY <1>1, InitIsGood, InvariantIsKept, EvidenceStays, PTL DEF Spec
=============================================================================
