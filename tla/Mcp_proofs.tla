----------------------------- MODULE Mcp_proofs -----------------------------
(***************************************************************************)
(* Proofs about the MCP server: what its caches in memory remember of the  *)
(* tokens (McpCache), and what the database has of them (McpTokens).       *)
(* Whatever the number of tokens, clients, requests and revocations, a     *)
(* revoked token is honoured for less than the time to live, and only a    *)
(* request that meets an eviction half way can put it back into the cache; *)
(* a code buys tokens once, a revoked token is not found again, and a      *)
(* token that was handed out can be used until it is revoked.              *)
(***************************************************************************)
EXTENDS McpCache, TLAPS

-----------------------------------------------------------------------------
(* The inductive invariant.                                                *)

\* Where a request has been let in, by the cache or by the database.
Admitted == {"actor", "trust", "look_up", "put", "fill_token", "fill_actor",
    "look_up_trust", "fill_trust", "put_trust", "served"}

\* Nothing is of the future.
Dated ==
    /\ \A r \in Requests : start[r] <= clock
    /\ \A t \in Tokens : removed[t] <= clock
    /\ \A t \in Tokens : token_cache[t] # NoEntry => token_cache[t] <= clock

\* An entry, and a request about to make one, began before the token was
\* revoked; a request that was let in, less than the time to live after.
Aged ==
    /\ \A t \in Tokens \ valid :
          token_cache[t] # NoEntry => token_cache[t] <= removed[t]
    /\ \A r \in Requests :
          pc[r] = "fill_token" /\ token[r] \notin valid
              => start[r] <= removed[token[r]]
    /\ \A r \in Requests :
          pc[r] \in Admitted /\ token[r] \notin valid
              => start[r] < removed[token[r]] + Ttl

\* A revocation evicts what has been removed.
Removed ==
    /\ \A v \in Revocations : step[v] = "idle" => covers[v] = {}
    /\ \A v \in Revocations :
          step[v] \notin {"idle", "tokens", "done"} => covers[v] \cap valid = {}
    /\ gone \cap valid = {}

\* Once the token cache has been emptied, what it holds of the tokens came
\* in after; once the eviction is counted, no request still makes an entry.
Kept ==
    /\ \A r \in Requests : generation_at_read[r] <= generation
    /\ \A v \in Revocations : \A t \in covers[v] :
          step[v] \in {"evict_actor", "evict_trusts", "bump"}
              => token_cache[t] = NoEntry \/ t \in missed
    /\ \A r \in Requests :
          pc[r] = "fill_token" /\ token[r] \in gone
              => generation_at_read[r] < generation \/ token[r] \in missed
    /\ NoLateRefill

IInv == TypeOK /\ Dated /\ Aged /\ Removed /\ Kept

-----------------------------------------------------------------------------
\* Every step keeps the types.
LEMMA TypeStep == IInv /\ [Next]_vars => TypeOK'
<1> SUFFICES ASSUME IInv, [Next]_vars PROVE TypeOK'
    OBVIOUS
<1> USE PeriodsAssumption, TokensAssumption, NoEntryAssumption
    DEF IInv, TypeOK, Entry, Idle, Steps, EvictionSteps
<1>1. ASSUME NEW r \in Requests, NEW t \in Tokens, Begin(r, t) PROVE TypeOK'
    BY <1>1 DEF Begin, CleanUp, Expired, caches, store, caches, request,
          revocation, observed, Goto
<1>2. ASSUME NEW r \in Requests, FindToken(r) PROVE TypeOK'
    BY <1>2 DEF FindToken, IsFresh, store, caches, request, revocation,
          observed, Goto
<1>3. ASSUME NEW r \in Requests, FindActor(r) PROVE TypeOK'
    BY <1>3 DEF FindActor, IsFresh, store, caches, request, revocation,
          observed, Goto
<1>4. ASSUME NEW r \in Requests, MissActor(r) PROVE TypeOK'
    BY <1>4 DEF MissActor, store, caches, request, revocation, observed, Goto
<1>5. ASSUME NEW r \in Requests, FindTrust(r) PROVE TypeOK'
    BY <1>5 DEF FindTrust, store, caches, request, revocation, observed, Goto
<1>6. ASSUME NEW r \in Requests, MissTrust(r) PROVE TypeOK'
    BY <1>6 DEF MissTrust, TrustIsCached, Client, store, caches, request,
          revocation, observed, Goto
<1>7. ASSUME NEW r \in Requests, LookUpMissed(r) PROVE TypeOK'
    BY <1>7 DEF LookUpMissed, LookUp, store, caches, request, revocation,
          observed, Goto
<1>8. ASSUME NEW r \in Requests, PutMissed(r) PROVE TypeOK'
    BY <1>8 DEF PutMissed, PutTrust, Forget, Client, store, caches, request,
          revocation, observed, Goto
<1>9. ASSUME NEW r \in Requests, Snapshot(r) PROVE TypeOK'
    BY <1>9 DEF Snapshot, store, caches, request, revocation, observed, Goto
<1>10. ASSUME NEW r \in Requests, Validate(r) PROVE TypeOK'
  <2>1. CASE token[r] \in valid
    BY <1>10, <2>1 DEF Validate, store, caches, revocation, observed, Goto
  <2>2. CASE token[r] \notin valid
    <3>1. Goto(r, "refused") /\ Forget(r)
      BY <1>10, <2>2 DEF Validate
    <3> QED
      BY <1>10, <3>1 DEF Validate, Forget, store, caches, revocation, observed,
            Goto
  <2> QED
    BY <2>1, <2>2
<1>11. ASSUME NEW r \in Requests, FillToken(r) PROVE TypeOK'
    BY <1>11 DEF FillToken, FillIsValid, store, caches, request, revocation,
          observed, Goto
<1>12. ASSUME NEW r \in Requests, FillActor(r) PROVE TypeOK'
    BY <1>12 DEF FillActor, IsFresh, FillIsValid, store, caches, request,
          revocation, observed, Goto
<1>13. ASSUME NEW r \in Requests, LookUpTrust(r) PROVE TypeOK'
    BY <1>13 DEF LookUpTrust, LookUp, store, caches, request, revocation,
          observed, Goto
<1>14. ASSUME NEW r \in Requests, FillTrust(r) PROVE TypeOK'
  <2>1. CASE FillIsValid(r)
    BY <1>14, <2>1 DEF FillTrust, store, caches, revocation, observed, Goto
  <2>2. CASE ~FillIsValid(r)
    <3>1. Goto(r, "served") /\ Forget(r)
      BY <1>14, <2>2 DEF FillTrust
    <3> QED
      BY <1>14, <3>1 DEF FillTrust, Forget, store, caches, revocation,
            observed, Goto
  <2> QED
    BY <2>1, <2>2
<1>15. ASSUME NEW r \in Requests, PutFilled(r) PROVE TypeOK'
    BY <1>15 DEF PutFilled, PutTrust, Forget, Client, store, caches, request,
          revocation, observed, Goto
<1>16. ASSUME NEW v \in Revocations, NEW t \in Tokens, RevokeToken(v, t)
         PROVE TypeOK'
    BY <1>16 DEF RevokeToken, Remove, store, caches, request, revocation,
          observed, Continue
<1>17. ASSUME NEW v \in Revocations, NEW c \in Clients, DeleteTrust(v, c)
         PROVE TypeOK'
    BY <1>17 DEF DeleteTrust, store, caches, request, revocation, observed,
          Continue
<1>18. ASSUME NEW v \in Revocations, RevokeClientTokens(v) PROVE TypeOK'
    BY <1>18 DEF RevokeClientTokens, Remove, store, caches, request,
          revocation, observed, Continue
<1>19. ASSUME NEW v \in Revocations, RevokeClientTokensFails(v) PROVE TypeOK'
    BY <1>19 DEF RevokeClientTokensFails, store, caches, request, revocation,
          observed, Continue
<1>20. ASSUME NEW v \in Revocations, RevokeOther(v) PROVE TypeOK'
    BY <1>20 DEF RevokeOther, store, caches, request, revocation, observed,
          Continue
<1>21. ASSUME NEW v \in Revocations, Clear(v) PROVE TypeOK'
    BY <1>21 DEF Clear, store, caches, request, revocation, observed, Continue
<1>22. ASSUME NEW v \in Revocations, Drop(v) PROVE TypeOK'
    BY <1>22 DEF Drop, store, caches, request, revocation, observed, Continue
<1>23. ASSUME NEW v \in Revocations, DropFails(v) PROVE TypeOK'
    BY <1>23 DEF DropFails, store, caches, request, revocation, observed,
          Continue
<1>24. ASSUME NEW v \in Revocations, EvictTokens(v) PROVE TypeOK'
    BY <1>24 DEF EvictTokens, store, caches, request, revocation, observed,
          Continue
<1>25. ASSUME NEW v \in Revocations, EvictActor(v) PROVE TypeOK'
    BY <1>25 DEF EvictActor, store, caches, request, revocation, observed,
          Continue
<1>26. ASSUME NEW v \in Revocations, EvictTrusts(v) PROVE TypeOK'
    BY <1>26 DEF EvictTrusts, store, caches, request, revocation, observed,
          Continue
<1>27. ASSUME NEW v \in Revocations, Bump(v) PROVE TypeOK'
    BY <1>27 DEF Bump, store, caches, request, revocation, observed, Continue
<1>28. ASSUME NEW t \in Tokens, RevokeElsewhere(t) PROVE TypeOK'
    BY <1>28 DEF RevokeElsewhere, Remove, store, caches, request, revocation,
          observed
<1>29. ASSUME BumpForOther PROVE TypeOK'
    BY <1>29 DEF BumpForOther, store, caches, request, revocation, observed
<1>30. ASSUME Tick PROVE TypeOK'
    BY <1>30 DEF Tick, store, caches, request, revocation, observed
<1>31. ASSUME UNCHANGED vars PROVE TypeOK'
    BY <1>31 DEF vars, store, caches, request, revocation, observed
<1> QED
    BY <1>1, <1>2, <1>3, <1>4, <1>5, <1>6, <1>7, <1>8, <1>9, <1>10, <1>11,
          <1>12, <1>13, <1>14, <1>15, <1>16, <1>17, <1>18, <1>19, <1>20, <1>21,
          <1>22, <1>23, <1>24, <1>25, <1>26, <1>27, <1>28, <1>29, <1>30, <1>31
          DEF Next, Authenticate, Revoke

\* Every time that is kept is the clock's or an earlier one.
LEMMA DatedStep == IInv /\ [Next]_vars => Dated'
<1> SUFFICES ASSUME IInv, [Next]_vars PROVE Dated'
    OBVIOUS
<1> USE PeriodsAssumption, TokensAssumption, NoEntryAssumption
    DEF IInv, TypeOK, Dated
<1>1. ASSUME NEW r \in Requests, NEW t \in Tokens, Begin(r, t) PROVE Dated'
    BY <1>1 DEF Begin, CleanUp, Expired, caches, store, caches, request,
          revocation, observed, Goto
<1>2. ASSUME NEW r \in Requests, FindToken(r) PROVE Dated'
    BY <1>2 DEF FindToken, IsFresh, store, caches, request, revocation,
          observed, Goto
<1>3. ASSUME NEW r \in Requests, FindActor(r) PROVE Dated'
    BY <1>3 DEF FindActor, IsFresh, store, caches, request, revocation,
          observed, Goto
<1>4. ASSUME NEW r \in Requests, MissActor(r) PROVE Dated'
    BY <1>4 DEF MissActor, store, caches, request, revocation, observed, Goto
<1>5. ASSUME NEW r \in Requests, FindTrust(r) PROVE Dated'
    BY <1>5 DEF FindTrust, store, caches, request, revocation, observed, Goto
<1>6. ASSUME NEW r \in Requests, MissTrust(r) PROVE Dated'
    BY <1>6 DEF MissTrust, TrustIsCached, Client, store, caches, request,
          revocation, observed, Goto
<1>7. ASSUME NEW r \in Requests, LookUpMissed(r) PROVE Dated'
    BY <1>7 DEF LookUpMissed, LookUp, store, caches, request, revocation,
          observed, Goto
<1>8. ASSUME NEW r \in Requests, PutMissed(r) PROVE Dated'
    BY <1>8 DEF PutMissed, PutTrust, Forget, Client, store, caches, request,
          revocation, observed, Goto
<1>9. ASSUME NEW r \in Requests, Snapshot(r) PROVE Dated'
    BY <1>9 DEF Snapshot, store, caches, request, revocation, observed, Goto
<1>10. ASSUME NEW r \in Requests, Validate(r) PROVE Dated'
    BY <1>10 DEF Validate, Forget, store, caches, request, revocation,
          observed, Goto
<1>11. ASSUME NEW r \in Requests, FillToken(r) PROVE Dated'
    BY <1>11 DEF FillToken, FillIsValid, store, caches, request, revocation,
          observed, Goto
<1>12. ASSUME NEW r \in Requests, FillActor(r) PROVE Dated'
    BY <1>12 DEF FillActor, IsFresh, FillIsValid, store, caches, request,
          revocation, observed, Goto
<1>13. ASSUME NEW r \in Requests, LookUpTrust(r) PROVE Dated'
    BY <1>13 DEF LookUpTrust, LookUp, store, caches, request, revocation,
          observed, Goto
<1>14. ASSUME NEW r \in Requests, FillTrust(r) PROVE Dated'
    BY <1>14 DEF FillTrust, FillIsValid, Forget, store, caches, request,
          revocation, observed, Goto
<1>15. ASSUME NEW r \in Requests, PutFilled(r) PROVE Dated'
    BY <1>15 DEF PutFilled, PutTrust, Forget, Client, store, caches, request,
          revocation, observed, Goto
<1>16. ASSUME NEW v \in Revocations, NEW t \in Tokens, RevokeToken(v, t)
         PROVE Dated'
    BY <1>16 DEF RevokeToken, Remove, store, caches, request, revocation,
          observed, Continue
<1>17. ASSUME NEW v \in Revocations, NEW c \in Clients, DeleteTrust(v, c)
         PROVE Dated'
    BY <1>17 DEF DeleteTrust, store, caches, request, revocation, observed,
          Continue
<1>18. ASSUME NEW v \in Revocations, RevokeClientTokens(v) PROVE Dated'
    BY <1>18 DEF RevokeClientTokens, Remove, store, caches, request,
          revocation, observed, Continue
<1>19. ASSUME NEW v \in Revocations, RevokeClientTokensFails(v) PROVE Dated'
    BY <1>19 DEF RevokeClientTokensFails, store, caches, request, revocation,
          observed, Continue
<1>20. ASSUME NEW v \in Revocations, RevokeOther(v) PROVE Dated'
    BY <1>20 DEF RevokeOther, store, caches, request, revocation, observed,
          Continue
<1>21. ASSUME NEW v \in Revocations, Clear(v) PROVE Dated'
    BY <1>21 DEF Clear, store, caches, request, revocation, observed, Continue
<1>22. ASSUME NEW v \in Revocations, Drop(v) PROVE Dated'
    BY <1>22 DEF Drop, store, caches, request, revocation, observed, Continue
<1>23. ASSUME NEW v \in Revocations, DropFails(v) PROVE Dated'
    BY <1>23 DEF DropFails, store, caches, request, revocation, observed,
          Continue
<1>24. ASSUME NEW v \in Revocations, EvictTokens(v) PROVE Dated'
    BY <1>24 DEF EvictTokens, store, caches, request, revocation, observed,
          Continue
<1>25. ASSUME NEW v \in Revocations, EvictActor(v) PROVE Dated'
    BY <1>25 DEF EvictActor, store, caches, request, revocation, observed,
          Continue
<1>26. ASSUME NEW v \in Revocations, EvictTrusts(v) PROVE Dated'
    BY <1>26 DEF EvictTrusts, store, caches, request, revocation, observed,
          Continue
<1>27. ASSUME NEW v \in Revocations, Bump(v) PROVE Dated'
    BY <1>27 DEF Bump, store, caches, request, revocation, observed, Continue
<1>28. ASSUME NEW t \in Tokens, RevokeElsewhere(t) PROVE Dated'
    BY <1>28 DEF RevokeElsewhere, Remove, store, caches, request, revocation,
          observed
<1>29. ASSUME BumpForOther PROVE Dated'
    BY <1>29 DEF BumpForOther, store, caches, request, revocation, observed
<1>30. ASSUME Tick PROVE Dated'
    BY <1>30 DEF Tick, store, caches, request, revocation, observed
<1>31. ASSUME UNCHANGED vars PROVE Dated'
    BY <1>31 DEF vars, store, caches, request, revocation, observed
<1> QED
    BY <1>1, <1>2, <1>3, <1>4, <1>5, <1>6, <1>7, <1>8, <1>9, <1>10, <1>11,
          <1>12, <1>13, <1>14, <1>15, <1>16, <1>17, <1>18, <1>19, <1>20, <1>21,
          <1>22, <1>23, <1>24, <1>25, <1>26, <1>27, <1>28, <1>29, <1>30, <1>31
          DEF Next, Authenticate, Revoke

\* The time to live is counted from the validation.
LEMMA AgedStep == IInv /\ [Next]_vars => Aged'
<1> SUFFICES ASSUME IInv, [Next]_vars PROVE Aged'
    OBVIOUS
<1> USE PeriodsAssumption, TokensAssumption, NoEntryAssumption
    DEF IInv, TypeOK, Dated, Aged, Admitted
<1>1. ASSUME NEW r \in Requests, NEW t \in Tokens, Begin(r, t) PROVE Aged'
    BY <1>1 DEF Begin, CleanUp, Expired, caches, store, caches, request,
          revocation, observed, Goto
<1>2. ASSUME NEW r \in Requests, FindToken(r) PROVE Aged'
    BY <1>2 DEF FindToken, IsFresh, store, caches, request, revocation,
          observed, Goto
<1>3. ASSUME NEW r \in Requests, FindActor(r) PROVE Aged'
    BY <1>3 DEF FindActor, IsFresh, store, caches, request, revocation,
          observed, Goto
<1>4. ASSUME NEW r \in Requests, MissActor(r) PROVE Aged'
    BY <1>4 DEF MissActor, store, caches, request, revocation, observed, Goto
<1>5. ASSUME NEW r \in Requests, FindTrust(r) PROVE Aged'
    BY <1>5 DEF FindTrust, store, caches, request, revocation, observed, Goto
<1>6. ASSUME NEW r \in Requests, MissTrust(r) PROVE Aged'
    BY <1>6 DEF MissTrust, TrustIsCached, Client, store, caches, request,
          revocation, observed, Goto
<1>7. ASSUME NEW r \in Requests, LookUpMissed(r) PROVE Aged'
    BY <1>7 DEF LookUpMissed, LookUp, store, caches, request, revocation,
          observed, Goto
<1>8. ASSUME NEW r \in Requests, PutMissed(r) PROVE Aged'
    BY <1>8 DEF PutMissed, PutTrust, Forget, Client, store, caches, request,
          revocation, observed, Goto
<1>9. ASSUME NEW r \in Requests, Snapshot(r) PROVE Aged'
    BY <1>9 DEF Snapshot, store, caches, request, revocation, observed, Goto
<1>10. ASSUME NEW r \in Requests, Validate(r) PROVE Aged'
    BY <1>10 DEF Validate, Forget, store, caches, request, revocation,
          observed, Goto
<1>11. ASSUME NEW r \in Requests, FillToken(r) PROVE Aged'
    BY <1>11 DEF FillToken, FillIsValid, store, caches, request, revocation,
          observed, Goto
<1>12. ASSUME NEW r \in Requests, FillActor(r) PROVE Aged'
    BY <1>12 DEF FillActor, IsFresh, FillIsValid, store, caches, request,
          revocation, observed, Goto
<1>13. ASSUME NEW r \in Requests, LookUpTrust(r) PROVE Aged'
    BY <1>13 DEF LookUpTrust, LookUp, store, caches, request, revocation,
          observed, Goto
<1>14. ASSUME NEW r \in Requests, FillTrust(r) PROVE Aged'
    BY <1>14 DEF FillTrust, FillIsValid, Forget, store, caches, request,
          revocation, observed, Goto
<1>15. ASSUME NEW r \in Requests, PutFilled(r) PROVE Aged'
    BY <1>15 DEF PutFilled, PutTrust, Forget, Client, store, caches, request,
          revocation, observed, Goto
<1>16. ASSUME NEW v \in Revocations, NEW t \in Tokens, RevokeToken(v, t)
         PROVE Aged'
    BY <1>16 DEF RevokeToken, Remove, store, caches, request, revocation,
          observed, Continue
<1>17. ASSUME NEW v \in Revocations, NEW c \in Clients, DeleteTrust(v, c)
         PROVE Aged'
    BY <1>17 DEF DeleteTrust, store, caches, request, revocation, observed,
          Continue
<1>18. ASSUME NEW v \in Revocations, RevokeClientTokens(v) PROVE Aged'
    BY <1>18 DEF RevokeClientTokens, Remove, store, caches, request,
          revocation, observed, Continue
<1>19. ASSUME NEW v \in Revocations, RevokeClientTokensFails(v) PROVE Aged'
    BY <1>19 DEF RevokeClientTokensFails, store, caches, request, revocation,
          observed, Continue
<1>20. ASSUME NEW v \in Revocations, RevokeOther(v) PROVE Aged'
    BY <1>20 DEF RevokeOther, store, caches, request, revocation, observed,
          Continue
<1>21. ASSUME NEW v \in Revocations, Clear(v) PROVE Aged'
    BY <1>21 DEF Clear, store, caches, request, revocation, observed, Continue
<1>22. ASSUME NEW v \in Revocations, Drop(v) PROVE Aged'
    BY <1>22 DEF Drop, store, caches, request, revocation, observed, Continue
<1>23. ASSUME NEW v \in Revocations, DropFails(v) PROVE Aged'
    BY <1>23 DEF DropFails, store, caches, request, revocation, observed,
          Continue
<1>24. ASSUME NEW v \in Revocations, EvictTokens(v) PROVE Aged'
    BY <1>24 DEF EvictTokens, store, caches, request, revocation, observed,
          Continue
<1>25. ASSUME NEW v \in Revocations, EvictActor(v) PROVE Aged'
    BY <1>25 DEF EvictActor, store, caches, request, revocation, observed,
          Continue
<1>26. ASSUME NEW v \in Revocations, EvictTrusts(v) PROVE Aged'
    BY <1>26 DEF EvictTrusts, store, caches, request, revocation, observed,
          Continue
<1>27. ASSUME NEW v \in Revocations, Bump(v) PROVE Aged'
    BY <1>27 DEF Bump, store, caches, request, revocation, observed, Continue
<1>28. ASSUME NEW t \in Tokens, RevokeElsewhere(t) PROVE Aged'
    BY <1>28 DEF RevokeElsewhere, Remove, store, caches, request, revocation,
          observed
<1>29. ASSUME BumpForOther PROVE Aged'
    BY <1>29 DEF BumpForOther, store, caches, request, revocation, observed
<1>30. ASSUME Tick PROVE Aged'
    BY <1>30 DEF Tick, store, caches, request, revocation, observed
<1>31. ASSUME UNCHANGED vars PROVE Aged'
    BY <1>31 DEF vars, store, caches, request, revocation, observed
<1> QED
    BY <1>1, <1>2, <1>3, <1>4, <1>5, <1>6, <1>7, <1>8, <1>9, <1>10, <1>11,
          <1>12, <1>13, <1>14, <1>15, <1>16, <1>17, <1>18, <1>19, <1>20, <1>21,
          <1>22, <1>23, <1>24, <1>25, <1>26, <1>27, <1>28, <1>29, <1>30, <1>31
          DEF Next, Authenticate, Revoke

\* Rows of tokens are never made again.
LEMMA RemovedStep == IInv /\ [Next]_vars => Removed'
<1> SUFFICES ASSUME IInv, [Next]_vars PROVE Removed'
    OBVIOUS
<1> USE PeriodsAssumption, TokensAssumption, NoEntryAssumption
    DEF IInv, TypeOK, Removed
<1>1. ASSUME NEW r \in Requests, NEW t \in Tokens, Begin(r, t) PROVE Removed'
    BY <1>1 DEF Begin, CleanUp, Expired, caches, store, caches, request,
          revocation, observed, Goto
<1>2. ASSUME NEW r \in Requests, FindToken(r) PROVE Removed'
    BY <1>2 DEF FindToken, IsFresh, store, caches, request, revocation,
          observed, Goto
<1>3. ASSUME NEW r \in Requests, FindActor(r) PROVE Removed'
    BY <1>3 DEF FindActor, IsFresh, store, caches, request, revocation,
          observed, Goto
<1>4. ASSUME NEW r \in Requests, MissActor(r) PROVE Removed'
    BY <1>4 DEF MissActor, store, caches, request, revocation, observed, Goto
<1>5. ASSUME NEW r \in Requests, FindTrust(r) PROVE Removed'
    BY <1>5 DEF FindTrust, store, caches, request, revocation, observed, Goto
<1>6. ASSUME NEW r \in Requests, MissTrust(r) PROVE Removed'
    BY <1>6 DEF MissTrust, TrustIsCached, Client, store, caches, request,
          revocation, observed, Goto
<1>7. ASSUME NEW r \in Requests, LookUpMissed(r) PROVE Removed'
    BY <1>7 DEF LookUpMissed, LookUp, store, caches, request, revocation,
          observed, Goto
<1>8. ASSUME NEW r \in Requests, PutMissed(r) PROVE Removed'
    BY <1>8 DEF PutMissed, PutTrust, Forget, Client, store, caches, request,
          revocation, observed, Goto
<1>9. ASSUME NEW r \in Requests, Snapshot(r) PROVE Removed'
    BY <1>9 DEF Snapshot, store, caches, request, revocation, observed, Goto
<1>10. ASSUME NEW r \in Requests, Validate(r) PROVE Removed'
    BY <1>10 DEF Validate, Forget, store, caches, request, revocation,
          observed, Goto
<1>11. ASSUME NEW r \in Requests, FillToken(r) PROVE Removed'
    BY <1>11 DEF FillToken, FillIsValid, store, caches, request, revocation,
          observed, Goto
<1>12. ASSUME NEW r \in Requests, FillActor(r) PROVE Removed'
    BY <1>12 DEF FillActor, IsFresh, FillIsValid, store, caches, request,
          revocation, observed, Goto
<1>13. ASSUME NEW r \in Requests, LookUpTrust(r) PROVE Removed'
    BY <1>13 DEF LookUpTrust, LookUp, store, caches, request, revocation,
          observed, Goto
<1>14. ASSUME NEW r \in Requests, FillTrust(r) PROVE Removed'
    BY <1>14 DEF FillTrust, FillIsValid, Forget, store, caches, request,
          revocation, observed, Goto
<1>15. ASSUME NEW r \in Requests, PutFilled(r) PROVE Removed'
    BY <1>15 DEF PutFilled, PutTrust, Forget, Client, store, caches, request,
          revocation, observed, Goto
<1>16. ASSUME NEW v \in Revocations, NEW t \in Tokens, RevokeToken(v, t)
         PROVE Removed'
    BY <1>16 DEF RevokeToken, Remove, store, caches, request, revocation,
          observed, Continue
<1>17. ASSUME NEW v \in Revocations, NEW c \in Clients, DeleteTrust(v, c)
         PROVE Removed'
    BY <1>17 DEF DeleteTrust, store, caches, request, revocation, observed,
          Continue
<1>18. ASSUME NEW v \in Revocations, RevokeClientTokens(v) PROVE Removed'
    BY <1>18 DEF RevokeClientTokens, Remove, store, caches, request,
          revocation, observed, Continue
<1>19. ASSUME NEW v \in Revocations, RevokeClientTokensFails(v) PROVE Removed'
    BY <1>19 DEF RevokeClientTokensFails, store, caches, request, revocation,
          observed, Continue
<1>20. ASSUME NEW v \in Revocations, RevokeOther(v) PROVE Removed'
    BY <1>20 DEF RevokeOther, store, caches, request, revocation, observed,
          Continue
<1>21. ASSUME NEW v \in Revocations, Clear(v) PROVE Removed'
    BY <1>21 DEF Clear, store, caches, request, revocation, observed, Continue
<1>22. ASSUME NEW v \in Revocations, Drop(v) PROVE Removed'
    BY <1>22 DEF Drop, store, caches, request, revocation, observed, Continue
<1>23. ASSUME NEW v \in Revocations, DropFails(v) PROVE Removed'
    BY <1>23 DEF DropFails, store, caches, request, revocation, observed,
          Continue
<1>24. ASSUME NEW v \in Revocations, EvictTokens(v) PROVE Removed'
    BY <1>24 DEF EvictTokens, store, caches, request, revocation, observed,
          Continue
<1>25. ASSUME NEW v \in Revocations, EvictActor(v) PROVE Removed'
    BY <1>25 DEF EvictActor, store, caches, request, revocation, observed,
          Continue
<1>26. ASSUME NEW v \in Revocations, EvictTrusts(v) PROVE Removed'
    BY <1>26 DEF EvictTrusts, store, caches, request, revocation, observed,
          Continue
<1>27. ASSUME NEW v \in Revocations, Bump(v) PROVE Removed'
    BY <1>27 DEF Bump, store, caches, request, revocation, observed, Continue
<1>28. ASSUME NEW t \in Tokens, RevokeElsewhere(t) PROVE Removed'
    BY <1>28 DEF RevokeElsewhere, Remove, store, caches, request, revocation,
          observed
<1>29. ASSUME BumpForOther PROVE Removed'
    BY <1>29 DEF BumpForOther, store, caches, request, revocation, observed
<1>30. ASSUME Tick PROVE Removed'
    BY <1>30 DEF Tick, store, caches, request, revocation, observed
<1>31. ASSUME UNCHANGED vars PROVE Removed'
    BY <1>31 DEF vars, store, caches, request, revocation, observed
<1> QED
    BY <1>1, <1>2, <1>3, <1>4, <1>5, <1>6, <1>7, <1>8, <1>9, <1>10, <1>11,
          <1>12, <1>13, <1>14, <1>15, <1>16, <1>17, <1>18, <1>19, <1>20, <1>21,
          <1>22, <1>23, <1>24, <1>25, <1>26, <1>27, <1>28, <1>29, <1>30, <1>31
          DEF Next, Authenticate, Revoke

\* The generation moves when an eviction ends.
LEMMA KeptStep == IInv /\ [Next]_vars => Kept'
<1> SUFFICES ASSUME IInv, [Next]_vars PROVE Kept'
    OBVIOUS
<1> USE PeriodsAssumption, TokensAssumption, NoEntryAssumption
    DEF IInv, TypeOK, Removed, Kept, NoLateRefill, Evicting
<1>1. ASSUME NEW r \in Requests, NEW t \in Tokens, Begin(r, t) PROVE Kept'
    BY <1>1 DEF Begin, CleanUp, Expired, caches, store, caches, request,
          revocation, observed, Goto
<1>2. ASSUME NEW r \in Requests, FindToken(r) PROVE Kept'
    BY <1>2 DEF FindToken, IsFresh, store, caches, request, revocation,
          observed, Goto
<1>3. ASSUME NEW r \in Requests, FindActor(r) PROVE Kept'
    BY <1>3 DEF FindActor, IsFresh, store, caches, request, revocation,
          observed, Goto
<1>4. ASSUME NEW r \in Requests, MissActor(r) PROVE Kept'
    BY <1>4 DEF MissActor, store, caches, request, revocation, observed, Goto
<1>5. ASSUME NEW r \in Requests, FindTrust(r) PROVE Kept'
    BY <1>5 DEF FindTrust, store, caches, request, revocation, observed, Goto
<1>6. ASSUME NEW r \in Requests, MissTrust(r) PROVE Kept'
    BY <1>6 DEF MissTrust, TrustIsCached, Client, store, caches, request,
          revocation, observed, Goto
<1>7. ASSUME NEW r \in Requests, LookUpMissed(r) PROVE Kept'
    BY <1>7 DEF LookUpMissed, LookUp, store, caches, request, revocation,
          observed, Goto
<1>8. ASSUME NEW r \in Requests, PutMissed(r) PROVE Kept'
    BY <1>8 DEF PutMissed, PutTrust, Forget, Client, store, caches, request,
          revocation, observed, Goto
<1>9. ASSUME NEW r \in Requests, Snapshot(r) PROVE Kept'
    BY <1>9 DEF Snapshot, store, caches, request, revocation, observed, Goto
<1>10. ASSUME NEW r \in Requests, Validate(r) PROVE Kept'
    BY <1>10 DEF Validate, Forget, store, caches, request, revocation,
          observed, Goto
<1>11. ASSUME NEW r \in Requests, FillToken(r) PROVE Kept'
    BY <1>11 DEF FillToken, FillIsValid, store, caches, request, revocation,
          observed, Goto
<1>12. ASSUME NEW r \in Requests, FillActor(r) PROVE Kept'
    BY <1>12 DEF FillActor, IsFresh, FillIsValid, store, caches, request,
          revocation, observed, Goto
<1>13. ASSUME NEW r \in Requests, LookUpTrust(r) PROVE Kept'
    BY <1>13 DEF LookUpTrust, LookUp, store, caches, request, revocation,
          observed, Goto
<1>14. ASSUME NEW r \in Requests, FillTrust(r) PROVE Kept'
    BY <1>14 DEF FillTrust, FillIsValid, Forget, store, caches, request,
          revocation, observed, Goto
<1>15. ASSUME NEW r \in Requests, PutFilled(r) PROVE Kept'
    BY <1>15 DEF PutFilled, PutTrust, Forget, Client, store, caches, request,
          revocation, observed, Goto
<1>16. ASSUME NEW v \in Revocations, NEW t \in Tokens, RevokeToken(v, t)
         PROVE Kept'
    BY <1>16 DEF RevokeToken, Remove, store, caches, request, revocation,
          observed, Continue
<1>17. ASSUME NEW v \in Revocations, NEW c \in Clients, DeleteTrust(v, c)
         PROVE Kept'
    BY <1>17 DEF DeleteTrust, store, caches, request, revocation, observed,
          Continue
<1>18. ASSUME NEW v \in Revocations, RevokeClientTokens(v) PROVE Kept'
    BY <1>18 DEF RevokeClientTokens, Remove, store, caches, request,
          revocation, observed, Continue
<1>19. ASSUME NEW v \in Revocations, RevokeClientTokensFails(v) PROVE Kept'
    BY <1>19 DEF RevokeClientTokensFails, store, caches, request, revocation,
          observed, Continue
<1>20. ASSUME NEW v \in Revocations, RevokeOther(v) PROVE Kept'
    BY <1>20 DEF RevokeOther, store, caches, request, revocation, observed,
          Continue
<1>21. ASSUME NEW v \in Revocations, Clear(v) PROVE Kept'
    BY <1>21 DEF Clear, store, caches, request, revocation, observed, Continue
<1>22. ASSUME NEW v \in Revocations, Drop(v) PROVE Kept'
    BY <1>22 DEF Drop, store, caches, request, revocation, observed, Continue
<1>23. ASSUME NEW v \in Revocations, DropFails(v) PROVE Kept'
    BY <1>23 DEF DropFails, store, caches, request, revocation, observed,
          Continue
<1>24. ASSUME NEW v \in Revocations, EvictTokens(v) PROVE Kept'
    BY <1>24 DEF EvictTokens, store, caches, request, revocation, observed,
          Continue
<1>25. ASSUME NEW v \in Revocations, EvictActor(v) PROVE Kept'
    BY <1>25 DEF EvictActor, store, caches, request, revocation, observed,
          Continue
<1>26. ASSUME NEW v \in Revocations, EvictTrusts(v) PROVE Kept'
    BY <1>26 DEF EvictTrusts, store, caches, request, revocation, observed,
          Continue
<1>27. ASSUME NEW v \in Revocations, Bump(v) PROVE Kept'
    BY <1>27 DEF Bump, store, caches, request, revocation, observed, Continue
<1>28. ASSUME NEW t \in Tokens, RevokeElsewhere(t) PROVE Kept'
    BY <1>28 DEF RevokeElsewhere, Remove, store, caches, request, revocation,
          observed
<1>29. ASSUME BumpForOther PROVE Kept'
    BY <1>29 DEF BumpForOther, store, caches, request, revocation, observed
<1>30. ASSUME Tick PROVE Kept'
    BY <1>30 DEF Tick, store, caches, request, revocation, observed
<1>31. ASSUME UNCHANGED vars PROVE Kept'
    BY <1>31 DEF vars, store, caches, request, revocation, observed
<1> QED
    BY <1>1, <1>2, <1>3, <1>4, <1>5, <1>6, <1>7, <1>8, <1>9, <1>10, <1>11,
          <1>12, <1>13, <1>14, <1>15, <1>16, <1>17, <1>18, <1>19, <1>20, <1>21,
          <1>22, <1>23, <1>24, <1>25, <1>26, <1>27, <1>28, <1>29, <1>30, <1>31
          DEF Next, Authenticate, Revoke

LEMMA InitIInv == Init => IInv
<1> SUFFICES ASSUME Init PROVE IInv
    OBVIOUS
<1> USE PeriodsAssumption, TokensAssumption, NoEntryAssumption DEF Init
<1>1. TypeOK
    BY DEF TypeOK, Entry, Idle, Steps, EvictionSteps
<1>2. Dated /\ Aged
    BY DEF Dated, Aged, Admitted
<1>3. Removed /\ Kept
    BY DEF Removed, Kept, NoLateRefill
<1> QED
    BY <1>1, <1>2, <1>3 DEF IInv

\* The invariant holds in every behaviour.
THEOREM Invariance == Spec => []IInv
<1>1. Init => IInv
    BY InitIInv
<1>2. IInv /\ [Next]_vars => IInv'
    BY TypeStep, DatedStep, AgedStep, RemovedStep, KeptStep DEF IInv
<1> QED
    BY <1>1, <1>2, PTL DEF Spec

\* The variables have their types.
THEOREM TypeCorrect == Spec => []TypeOK
<1>1. IInv => TypeOK
    BY DEF IInv
<1> QED
    BY <1>1, Invariance, PTL

\* A revoked token is honoured for less than the time to live
\* (authenticate_and_get_actor_cached, cached_at).
THEOREM StaleForLessThanTtl == Spec => []RevokedWithinTtl
<1>1. IInv => RevokedWithinTtl
    BY DEF IInv, Aged, Admitted, RevokedWithinTtl
<1> QED
    BY <1>1, Invariance, PTL

\* A token that was evicted is only in the cache again if it was put there
\* during an eviction (_cache_fill_still_valid).
THEOREM EvictionHolds == Spec => []NoLateRefill
<1>1. IInv => NoLateRefill
    BY DEF IInv, Kept
<1> QED
    BY <1>1, Invariance, PTL

-----------------------------------------------------------------------------
(* McpTokens.                                                              *)

CONSTANTS CodeIds, AccessIds, RefreshIds, MaxFaults
VARIABLES
    row, index, provider, registered, made, expired, op, client, item, access,
    refresh, todo, listed, then, handed, spent, revoked, touched, faults

Issued == INSTANCE McpTokens

-----------------------------------------------------------------------------
(* The inductive invariant.                                                *)

\* Which operation takes a request to which step.
OpOfStep ==
    \A r \in Requests :
        /\ pc[r] \in {"store_provider", "store_code", "index_code"}
               => op[r] = "authorize"
        /\ pc[r] \in {"mark", "mark_index", "read_provider", "store_refresh",
                      "index_refresh", "drop_provider"} => op[r] = "exchange"
        /\ pc[r] \in {"restore", "restore_index"} => op[r] = "refresh"
        /\ pc[r] \in {"store_access", "index_access"}
               => op[r] \in {"exchange", "refresh", "credentials"}
        /\ pc[r] \in {"list", "next", "drop_client"}
               => op[r] \in {"delete_client", "clean_up"}
        /\ pc[r] \in Issued!Finding
               => op[r] \in {"exchange", "refresh", "validate", "revoke",
                            "clean_up"}
        /\ pc[r] \in Issued!Removing \cup {"drop_provider"} /\ then[r] = "granted"
               => op[r] = "exchange"
        /\ pc[r] \in Issued!Removing \cup {"drop_provider"} /\ then[r] = "next"
               => op[r] \in {"delete_client", "clean_up"}
        /\ pc[r] \in Issued!Finding /\ op[r] = "clean_up" => then[r] = "next"

\* What an operation works on was given to a client.
ItemOfOp ==
    \A r \in Requests : pc[r] \notin Issued!Idle =>
        /\ op[r] = "exchange" => item[r] \in Issued!Codes \cap handed
        /\ op[r] = "refresh" => item[r] \in Issued!RefreshTokens \cap handed
        /\ op[r] = "validate" => item[r] \in Issued!AccessTokens \cap handed
        /\ op[r] = "revoke" => item[r] \in Issued!Tokens \cap handed \cap touched
        /\ pc[r] \in {"store_code", "index_code"}
               => item[r] \in (Issued!Codes \cap made) \ handed
        /\ pc[r] \in Issued!Finding \cup Issued!Removing => item[r] \in made
        /\ pc[r] = "next" => todo[r] \subseteq made
        /\ pc[r] = "next" /\ op[r] = "delete_client"
               => todo[r] \subseteq touched
        /\ pc[r] \in Issued!Removing /\ op[r] = "delete_client" =>
              item[r] \in touched /\ todo[r] \subseteq touched \cap made
        /\ pc[r] \in Issued!Finding \cup Issued!Removing /\ op[r] = "clean_up" =>
              todo[r] \subseteq made

\* A client that is deleted takes its tokens with it, not its codes.
OfClient == \A r \in Requests : op[r] = "delete_client" =>
    /\ pc[r] \in {"list", "next"} \cup Issued!Removing => listed[r] # "codes"
    /\ pc[r] \in {"next"} \cup Issued!Removing => todo[r] \subseteq Issued!Tokens
    /\ pc[r] \in Issued!Removing => item[r] \in Issued!Tokens

\* Only names that were given are known.
Known ==
    /\ handed \subseteq made /\ index \subseteq made
    /\ \A i \in Issued!Items : row[i] # "none" => i \in made
    /\ spent \subseteq Issued!Codes \cap handed

\* Where the name in a request's local variable is its own.
HasAccess(r) ==
    \/ pc[r] \in {"index_access", "store_refresh", "index_refresh", "restore",
                  "restore_index"}
    \/ pc[r] \in Issued!Removing \cup {"drop_provider"} /\ then[r] = "granted"

HasRefresh(r) ==
    \/ pc[r] = "index_refresh"
    \/ pc[r] \in Issued!Removing \cup {"drop_provider"} /\ then[r] = "granted"

\* No name is given twice: a request's names were given to it, ...
Owned ==
    /\ \A r \in Requests : HasAccess(r) => access[r] \in made
    /\ \A r \in Requests : HasRefresh(r) => refresh[r] \in made

\* ... to no other, ...
AccessApart == \A r, s \in Requests :
    pc[r] = "index_access" /\ HasAccess(s) /\ r # s => access[r] # access[s]

RefreshApart == \A r, s \in Requests :
    pc[r] = "index_refresh" /\ HasRefresh(s) /\ r # s => refresh[r] # refresh[s]

CodeApart == \A r, s \in Requests :
    pc[r] \in {"store_code", "index_code"} /\ pc[s] \in {"store_code", "index_code"}
        /\ r # s => item[r] # item[s]

\* ... and are nowhere else until they are in the index.
Hidden ==
    \A r \in Requests :
        /\ pc[r] = "index_access" => access[r] \notin handed \cup index
        /\ pc[r] = "index_refresh" => refresh[r] \notin handed \cup index

\* The data of a code that was exchanged says so, or is gone.
Marked ==
    /\ \A i \in spent : row[i] # "fresh"
    /\ \A r \in Requests :
          /\ op[r] = "exchange"
          /\ \/ pc[r] \in {"mark_index", "read_provider", "store_access",
                           "index_access", "store_refresh", "index_refresh"}
             \/ pc[r] \in Issued!Removing \cup {"drop_provider"} /\ then[r] = "granted"
          => row[item[r]] # "fresh"

\* An exchange that begins after that is on its way to be refused.
Refused == \A r \in Requests : op[r] = "exchange" /\ late[r] =>
    /\ pc[r] \notin Issued!Idle => item[r] \in spent
    /\ \/ pc[r] \in Issued!Finding \cup {"refused"}
       \/ pc[r] \in Issued!Removing \cup {"drop_provider"} /\ then[r] = "refused"

Burned == Marked /\ Refused

\* A revoked token is not in the index, and nobody puts it there.
Gone == \A i \in revoked :
    i \in Issued!Tokens \cap handed /\ i \notin index /\ ~Issued!Renewing(i)

\* Is the index entry of a new token still to be written?
Indexing(r, i) ==
    \/ pc[r] = "index_access" /\ access[r] = i
    \/ pc[r] = "index_refresh" /\ refresh[r] = i

\* Tokens have both their rows, but for one whose entry is still to be
\* written, ...
Complete == faults = 0 =>
    \A i \in (made \cap Issued!Tokens) \ (expired \cup touched) :
        /\ row[i] = "fresh"
        /\ i \in index \/ \E r \in Requests : Indexing(r, i)

\* ... nobody removes one that nobody revokes, ...
Removable == faults = 0 =>
    \A r \in Requests : pc[r] \in Issued!Removing \cup {"drop_stale"} =>
        item[r] \in Issued!Codes \cup expired \cup touched

\* ... and the clean-up does not know of those that are being made.
Settled == \A r, s \in Requests : op[r] = "clean_up" =>
    /\ pc[r] \in Issued!Finding => ~Indexing(s, item[r])
    /\ pc[r] \in Issued!Finding \cup Issued!Removing \cup {"next"} =>
          \A i \in todo[r] : ~Indexing(s, i)

TokensInv ==
    /\ Issued!TypeOK /\ OpOfStep /\ ItemOfOp /\ OfClient /\ Known
    /\ Owned /\ AccessApart /\ RefreshApart /\ CodeApart /\ Hidden
    /\ Burned /\ Gone
    /\ Complete /\ Removable /\ Settled

-----------------------------------------------------------------------------
\* Names of different kinds are different, ...
LEMMA Kinds ==
    Issued!Codes \cap Issued!Tokens = {} /\ Issued!AccessTokens \cap Issued!RefreshTokens = {}
BY DEF Issued!Codes, Issued!AccessTokens, Issued!RefreshTokens, Issued!Tokens

\* ... and belong to a client.
LEMMA Owners == \A i \in Issued!Items : Issued!ClientOf(i) \in Clients
BY DEF Issued!Codes, Issued!AccessTokens, Issued!RefreshTokens,
   Issued!Tokens, Issued!Items, Issued!ClientOf

\* The end of a removal: a name is out of the index, an exchange has its
\* answer, a revocation is over.
LEMMA RemovalEnds ==
    ASSUME NEW r \in Requests, Issued!DropIndex(r)
    PROVE  /\ pc[r] = "drop_index" /\ pc' = [pc EXCEPT ![r] = then[r]]
           /\ index' = index \ {item[r]}
           /\ UNCHANGED <<row, provider, registered, made, expired, op, client,
                          item, access, refresh, todo, listed, then, late,
                          touched, faults>>
           /\ \/ UNCHANGED <<handed, spent>>
              \/ /\ then[r] = "granted"
                 /\ handed' = handed \cup {access[r], refresh[r]}
                 /\ spent' = spent \cup {item[r]}
           /\ \/ revoked' = revoked
              \/ /\ op[r] \in {"revoke", "delete_client"} /\ item[r] \in handed
                 /\ revoked' = revoked \cup {item[r]}
BY DEF Issued!DropIndex, Issued!Finish, Issued!Goto, Issued!At, Issued!locals

\* So does a removal that failed, with nothing removed.
LEMMA RemovalFails ==
    ASSUME NEW r \in Requests, Issued!RemoveFails(r)
    PROVE  /\ UNCHANGED <<row, index, provider, registered, made, expired, op,
                          client, item, access, refresh, todo, listed, then,
                          late, revoked, touched>>
           /\ faults' = faults + 1
           /\ \/ /\ pc[r] \in Issued!Removing
                 /\ pc' = [pc EXCEPT ![r] = then[r]]
                 /\ \/ UNCHANGED <<handed, spent>>
                    \/ /\ then[r] = "granted"
                       /\ handed' = handed \cup {access[r], refresh[r]}
                       /\ spent' = spent \cup {item[r]}
              \/ /\ pc[r] = "drop_provider" /\ pc' = [pc EXCEPT ![r] = "find"]
                 /\ UNCHANGED <<handed, spent>>
BY DEF Issued!RemoveFails, Issued!Fault, Issued!Finish, Issued!Goto,
   Issued!At, Issued!locals, Issued!database

\* Every step keeps the types.
LEMMA TokensTypeStep ==
    TokensInv /\ [Issued!Next]_(Issued!vars) => Issued!TypeOK'
<1> SUFFICES ASSUME TokensInv, [Issued!Next]_(Issued!vars) PROVE Issued!TypeOK'
    OBVIOUS
<1> USE Kinds, Owners
    DEF TokensInv, Issued!TypeOK, Issued!Items, Issued!Tokens, Issued!Steps,
       Issued!Operations,
        Issued!Idle, Issued!Finding, Issued!Storing, Issued!Removing
<1>1. ASSUME NEW r \in Requests, NEW c \in Clients,
             Issued!Authorize(r, c)
      PROVE  Issued!TypeOK'
    BY <1>1 DEF Issued!Authorize, Issued!Begin, Issued!At, Issued!Goto,
       Issued!database, Issued!locals, Issued!observed
<1>2. ASSUME NEW r \in Requests, NEW c \in Clients,
             Issued!Credentials(r, c)
      PROVE  Issued!TypeOK'
    BY <1>2 DEF Issued!Credentials, Issued!Begin, Issued!At, Issued!Goto,
       Issued!database, Issued!locals, Issued!observed
<1>3. ASSUME NEW r \in Requests, NEW c \in Clients,
             Issued!DeleteClient(r, c)
      PROVE  Issued!TypeOK'
    BY <1>3 DEF Issued!DeleteClient, Issued!WorkThrough, Issued!At,
       Issued!Goto, Issued!database, Issued!locals, Issued!observed
<1>4. ASSUME NEW r \in Requests, NEW i \in Issued!Items, Issued!Exchange(r, i)
      PROVE  Issued!TypeOK'
    BY <1>4 DEF Issued!Exchange, Issued!Begin, Issued!At, Issued!Goto,
       Issued!database, Issued!locals, Issued!observed
<1>5. ASSUME NEW r \in Requests, NEW i \in Issued!Items, Issued!Refresh(r, i)
      PROVE  Issued!TypeOK'
    BY <1>5 DEF Issued!Refresh, Issued!Begin, Issued!At, Issued!Goto,
       Issued!database, Issued!locals, Issued!observed
<1>6. ASSUME NEW r \in Requests, NEW i \in Issued!Items, Issued!Validate(r, i)
      PROVE  Issued!TypeOK'
    BY <1>6 DEF Issued!Validate, Issued!Begin, Issued!At, Issued!Goto,
       Issued!database, Issued!locals, Issued!observed
<1>7. ASSUME NEW r \in Requests, NEW i \in Issued!Items, Issued!Revoke(r, i)
      PROVE  Issued!TypeOK'
    BY <1>7 DEF Issued!Revoke, Issued!Begin, Issued!At, Issued!Goto,
       Issued!database, Issued!locals, Issued!observed
<1>8. ASSUME NEW r \in Requests,
             Issued!CleanUp(r) \/ Issued!ReadIndex(r) \/
                Issued!RowIsMissing(r) \/ Issued!DropStale(r)
      PROVE  Issued!TypeOK'
    BY <1>8 DEF Issued!CleanUp, Issued!WorkThrough, Issued!ReadIndex,
       Issued!Absent, Issued!RowIsMissing,
          Issued!DropStale, Issued!At, Issued!Goto, Issued!database,
             Issued!locals, Issued!observed
<1>9. ASSUME NEW r \in Requests,
             Issued!Mismatch(r) \/ Issued!ExchangeFound(r) \/
                Issued!RefreshFound(r)
      PROVE  Issued!TypeOK'
    BY <1>9 DEF Issued!Mismatch, Issued!Found, Issued!ExchangeFound,
       Issued!RefreshFound, Issued!Remove, Issued!At, Issued!Goto,
          Issued!database, Issued!locals, Issued!observed
<1>10. ASSUME NEW r \in Requests,
              Issued!ValidateFound(r) \/ Issued!RevokeFound(r) \/
                 Issued!CleanUpFound(r)
       PROVE  Issued!TypeOK'
    BY <1>10 DEF Issued!ValidateFound, Issued!Found, Issued!Remove,
       Issued!RevokeFound, Issued!CleanUpFound, Issued!At,
          Issued!Goto, Issued!database, Issued!locals, Issued!observed
<1>11. ASSUME NEW r \in Requests, NEW i \in Issued!Codes,
              Issued!StoreProvider(r, i)
       PROVE  Issued!TypeOK'
    BY <1>11 DEF Issued!StoreProvider, Issued!New, Issued!At, Issued!Goto,
       Issued!database, Issued!locals, Issued!observed
<1>12. ASSUME NEW r \in Requests,
              Issued!StoreCode(r) \/ Issued!IndexCode(r) \/ Issued!Mark(r)
                 \/ Issued!MarkIndex(r)
       PROVE  Issued!TypeOK'
    BY <1>12 DEF Issued!StoreCode, Issued!StoreRow, Issued!IndexCode,
       Issued!StoreIndex, Issued!Mark, Issued!MarkIndex,
          Issued!At, Issued!Goto, Issued!database, Issued!locals,
             Issued!observed
<1>13. ASSUME NEW r \in Requests,
              Issued!ReadProvider(r) \/ Issued!IndexAccess(r) \/
                 Issued!IndexRefresh(r)
       PROVE  Issued!TypeOK'
    BY <1>13 DEF Issued!ReadProvider, Issued!Remove, Issued!IndexAccess,
       Issued!StoreIndex, Issued!IndexRefresh,
          Issued!At, Issued!Goto, Issued!database, Issued!locals,
             Issued!observed
<1>14. ASSUME NEW r \in Requests, NEW i \in Issued!AccessTokens,
              Issued!StoreAccess(r, i)
       PROVE  Issued!TypeOK'
    BY <1>14 DEF Issued!StoreAccess, Issued!StoreRow, Issued!New, Issued!At,
       Issued!Goto, Issued!database, Issued!locals,
          Issued!observed
<1>15. ASSUME NEW r \in Requests, NEW i \in Issued!RefreshTokens,
              Issued!StoreRefresh(r, i)
       PROVE  Issued!TypeOK'
    BY <1>15 DEF Issued!StoreRefresh, Issued!StoreRow, Issued!New,
       Issued!At, Issued!Goto, Issued!database, Issued!locals,
          Issued!observed
<1>16. ASSUME NEW r \in Requests, Issued!Restore(r) \/ Issued!RestoreIndex(r)
       PROVE  Issued!TypeOK'
    BY <1>16 DEF Issued!Restore, Issued!StoreRow, Issued!RestoreIndex,
       Issued!StoreIndex, Issued!At, Issued!Goto,
          Issued!database, Issued!locals, Issued!observed
<1>17. ASSUME NEW r \in Requests, Issued!DropIndex(r) PROVE Issued!TypeOK'
    BY <1>17, RemovalEnds
<1>18. ASSUME NEW r \in Requests,
              Issued!DropProvider(r) \/ Issued!Find(r) \/ Issued!DropRow(r)
       PROVE  Issued!TypeOK'
    BY <1>18 DEF Issued!DropProvider, Issued!Find, Issued!DropRow,
       Issued!StoreRow, Issued!At, Issued!Goto, Issued!database,
          Issued!locals, Issued!observed
<1>19. ASSUME NEW r \in Requests,
              Issued!List(r) \/ Issued!NextList(r) \/ Issued!LastList(r) \/
                 Issued!DropClient(r)
       PROVE  Issued!TypeOK'
    BY <1>19 DEF Issued!List, Issued!Kind, Issued!NextList, Issued!LastList,
       Issued!DropClient, Issued!At, Issued!Goto,
          Issued!database, Issued!locals, Issued!observed
<1>20. ASSUME NEW r \in Requests, NEW i \in Issued!Items, Issued!NextItem(r, i)
       PROVE  Issued!TypeOK'
    BY <1>20 DEF Issued!NextItem, Issued!At, Issued!Goto, Issued!database,
       Issued!locals, Issued!observed
<1>21. ASSUME NEW r \in Requests, Issued!RemoveFails(r) PROVE Issued!TypeOK'
    BY <1>21, RemovalFails
<1>22. ASSUME NEW r \in Requests,
              Issued!ReadFails(r) \/ Issued!StoreFails(r) \/
                 Issued!ListFails(r)
       PROVE  Issued!TypeOK'
    BY <1>22 DEF Issued!ReadFails, Issued!Fault, Issued!Absent,
       Issued!Remove, Issued!StoreFails, Issued!ListFails, Issued!At,
          Issued!Goto, Issued!database, Issued!locals, Issued!observed
<1>23. ASSUME NEW i \in Issued!Items, Issued!Expire(i) \/ Issued!Purge(i)
       PROVE  Issued!TypeOK'
    BY <1>23 DEF Issued!Expire, Issued!Purge, Issued!StoreRow, Issued!At,
       Issued!Goto, Issued!database, Issued!locals, Issued!observed
<1>24. ASSUME UNCHANGED Issued!vars PROVE Issued!TypeOK'
    BY <1>24 DEF Issued!vars, Issued!database, Issued!locals, Issued!observed
<1> QED
    BY <1>1, <1>2, <1>3, <1>4, <1>5, <1>6, <1>7, <1>8, <1>9, <1>10, <1>11,
       <1>12, <1>13, <1>14, <1>15, <1>16, <1>17, <1>18, <1>19, <1>20, <1>21,
       <1>22, <1>23, <1>24 DEF Issued!Next, Issued!Ask, Issued!Look,
          Issued!Store, Issued!Drop, Issued!Fail

\* Operations keep to their steps.
LEMMA OpStep == TokensInv /\ [Issued!Next]_(Issued!vars) => OpOfStep'
<1> SUFFICES ASSUME TokensInv, [Issued!Next]_(Issued!vars) PROVE OpOfStep'
    OBVIOUS
<1> USE DEF TokensInv, Issued!TypeOK, OpOfStep, Issued!Idle, Issued!Finding,
   Issued!Storing, Issued!Removing
<1>1. ASSUME NEW r \in Requests, NEW c \in Clients,
             Issued!Authorize(r, c) \/ Issued!Credentials(r, c) \/
                Issued!DeleteClient(r, c)
      PROVE  OpOfStep'
    BY <1>1 DEF Issued!Authorize, Issued!Begin, Issued!Credentials,
       Issued!DeleteClient, Issued!WorkThrough, Issued!At,
          Issued!Goto, Issued!database, Issued!locals, Issued!observed
<1>2. ASSUME NEW r \in Requests, NEW i \in Issued!Items,
             Issued!Exchange(r, i) \/ Issued!Refresh(r, i) \/
                Issued!Validate(r, i) \/ Issued!Revoke(r, i)
      PROVE  OpOfStep'
    BY <1>2 DEF Issued!Exchange, Issued!Begin, Issued!Refresh,
       Issued!Validate, Issued!Revoke, Issued!At, Issued!Goto, Issued!database,
          Issued!locals, Issued!observed
<1>3. ASSUME NEW r \in Requests,
             Issued!CleanUp(r) \/ Issued!ReadIndex(r) \/
                Issued!RowIsMissing(r) \/ Issued!DropStale(r)
      PROVE  OpOfStep'
    BY <1>3 DEF Issued!CleanUp, Issued!WorkThrough, Issued!ReadIndex,
       Issued!Absent, Issued!RowIsMissing,
          Issued!DropStale, Issued!At, Issued!Goto, Issued!database,
             Issued!locals, Issued!observed
<1>4. ASSUME NEW r \in Requests,
             Issued!Mismatch(r) \/ Issued!ExchangeFound(r) \/
                Issued!RefreshFound(r)
      PROVE  OpOfStep'
    BY <1>4 DEF Issued!Mismatch, Issued!Found, Issued!ExchangeFound,
       Issued!RefreshFound, Issued!Remove, Issued!At, Issued!Goto,
          Issued!database, Issued!locals, Issued!observed
<1>5. ASSUME NEW r \in Requests,
             Issued!ValidateFound(r) \/ Issued!RevokeFound(r) \/
                Issued!CleanUpFound(r)
      PROVE  OpOfStep'
    BY <1>5 DEF Issued!ValidateFound, Issued!Found, Issued!Remove,
       Issued!RevokeFound, Issued!CleanUpFound, Issued!At,
          Issued!Goto, Issued!database, Issued!locals, Issued!observed
<1>6. ASSUME NEW r \in Requests, NEW i \in Issued!Codes,
             Issued!StoreProvider(r, i)
      PROVE  OpOfStep'
    BY <1>6 DEF Issued!StoreProvider, Issued!New, Issued!At, Issued!Goto,
       Issued!database, Issued!locals, Issued!observed
<1>7. ASSUME NEW r \in Requests,
             Issued!StoreCode(r) \/ Issued!IndexCode(r) \/ Issued!Mark(r) \/
                Issued!MarkIndex(r)
      PROVE  OpOfStep'
    BY <1>7 DEF Issued!StoreCode, Issued!StoreRow, Issued!IndexCode,
       Issued!StoreIndex, Issued!Mark, Issued!MarkIndex,
          Issued!At, Issued!Goto, Issued!database, Issued!locals,
             Issued!observed
<1>8. ASSUME NEW r \in Requests,
             Issued!ReadProvider(r) \/ Issued!IndexAccess(r) \/
                Issued!IndexRefresh(r)
      PROVE  OpOfStep'
    BY <1>8 DEF Issued!ReadProvider, Issued!Remove, Issued!IndexAccess,
       Issued!StoreIndex, Issued!IndexRefresh,
          Issued!At, Issued!Goto, Issued!database, Issued!locals,
             Issued!observed
<1>9. ASSUME NEW r \in Requests, NEW i \in Issued!AccessTokens,
             Issued!StoreAccess(r, i)
      PROVE  OpOfStep'
    BY <1>9 DEF Issued!StoreAccess, Issued!StoreRow, Issued!New, Issued!At,
       Issued!Goto, Issued!database, Issued!locals,
          Issued!observed
<1>10. ASSUME NEW r \in Requests, NEW i \in Issued!RefreshTokens,
              Issued!StoreRefresh(r, i)
       PROVE  OpOfStep'
    BY <1>10 DEF Issued!StoreRefresh, Issued!StoreRow, Issued!New,
       Issued!At, Issued!Goto, Issued!database, Issued!locals,
          Issued!observed
<1>11. ASSUME NEW r \in Requests, Issued!Restore(r) \/ Issued!RestoreIndex(r)
       PROVE  OpOfStep'
    BY <1>11 DEF Issued!Restore, Issued!StoreRow, Issued!RestoreIndex,
       Issued!StoreIndex, Issued!At, Issued!Goto,
          Issued!database, Issued!locals, Issued!observed
<1>12. ASSUME NEW r \in Requests, Issued!DropIndex(r) PROVE OpOfStep'
    BY <1>12, RemovalEnds
<1>13. ASSUME NEW r \in Requests,
              Issued!DropProvider(r) \/ Issued!Find(r) \/ Issued!DropRow(r)
       PROVE  OpOfStep'
    BY <1>13 DEF Issued!DropProvider, Issued!Find, Issued!DropRow,
       Issued!StoreRow, Issued!At, Issued!Goto, Issued!database,
          Issued!locals, Issued!observed
<1>14. ASSUME NEW r \in Requests,
              Issued!List(r) \/ Issued!NextList(r) \/ Issued!LastList(r) \/
                 Issued!DropClient(r)
       PROVE  OpOfStep'
    BY <1>14 DEF Issued!List, Issued!Kind, Issued!NextList, Issued!LastList,
       Issued!DropClient, Issued!At, Issued!Goto,
          Issued!database, Issued!locals, Issued!observed
<1>15. ASSUME NEW r \in Requests, NEW i \in Issued!Items,
              Issued!NextItem(r, i)
       PROVE  OpOfStep'
    BY <1>15 DEF Issued!NextItem, Issued!At, Issued!Goto, Issued!database,
       Issued!locals, Issued!observed
<1>16. ASSUME NEW r \in Requests, Issued!RemoveFails(r) PROVE OpOfStep'
    BY <1>16, RemovalFails
<1>17. ASSUME NEW r \in Requests,
              Issued!ReadFails(r) \/ Issued!StoreFails(r) \/
                 Issued!ListFails(r)
       PROVE  OpOfStep'
    BY <1>17 DEF Issued!ReadFails, Issued!Fault, Issued!Absent,
       Issued!Remove, Issued!StoreFails, Issued!ListFails, Issued!At,
          Issued!Goto, Issued!database, Issued!locals, Issued!observed
<1>18. ASSUME NEW i \in Issued!Items, Issued!Expire(i) \/ Issued!Purge(i)
       PROVE  OpOfStep'
    BY <1>18 DEF Issued!Expire, Issued!Purge, Issued!StoreRow, Issued!At,
       Issued!Goto, Issued!database, Issued!locals, Issued!observed
<1>19. ASSUME UNCHANGED Issued!vars PROVE OpOfStep'
    BY <1>19 DEF Issued!vars, Issued!database, Issued!locals, Issued!observed
<1> QED
    BY <1>1, <1>2, <1>3, <1>4, <1>5, <1>6, <1>7, <1>8, <1>9, <1>10, <1>11,
       <1>12, <1>13, <1>14, <1>15, <1>16, <1>17, <1>18, <1>19 DEF
          Issued!Next, Issued!Ask,
       Issued!Look, Issued!Store, Issued!Drop, Issued!Fail

\* Items come from clients, from lists of data or from the index.
LEMMA ItemStep == TokensInv /\ [Issued!Next]_(Issued!vars) => ItemOfOp'
<1> SUFFICES ASSUME TokensInv, [Issued!Next]_(Issued!vars) PROVE ItemOfOp'
    OBVIOUS
<1> USE Kinds, Owners
    DEF TokensInv, Issued!TypeOK, OpOfStep, ItemOfOp, Known, Issued!Items,
       Issued!Tokens,
        Issued!Idle, Issued!Finding, Issued!Storing, Issued!Removing
<1>1. ASSUME NEW r \in Requests, NEW c \in Clients,
             Issued!Authorize(r, c) \/ Issued!Credentials(r, c) \/
                Issued!DeleteClient(r, c)
      PROVE  ItemOfOp'
    BY <1>1 DEF Issued!Authorize, Issued!Begin, Issued!Credentials,
       Issued!DeleteClient, Issued!WorkThrough, Issued!At,
          Issued!Goto, Issued!database, Issued!locals, Issued!observed
<1>2. ASSUME NEW r \in Requests, NEW i \in Issued!Items,
             Issued!Exchange(r, i) \/ Issued!Refresh(r, i) \/
                Issued!Validate(r, i) \/ Issued!Revoke(r, i)
      PROVE  ItemOfOp'
    BY <1>2 DEF Issued!Exchange, Issued!Begin, Issued!Refresh,
       Issued!Validate, Issued!Revoke, Issued!At, Issued!Goto, Issued!database,
          Issued!locals, Issued!observed
<1>3. ASSUME NEW r \in Requests,
             Issued!CleanUp(r) \/ Issued!ReadIndex(r) \/
                Issued!RowIsMissing(r) \/ Issued!DropStale(r)
      PROVE  ItemOfOp'
    BY <1>3 DEF Issued!CleanUp, Issued!WorkThrough, Issued!ReadIndex,
       Issued!Absent, Issued!RowIsMissing,
          Issued!DropStale, Issued!At, Issued!Goto, Issued!database,
             Issued!locals, Issued!observed
<1>4. ASSUME NEW r \in Requests,
             Issued!Mismatch(r) \/ Issued!ExchangeFound(r) \/
                Issued!RefreshFound(r)
      PROVE  ItemOfOp'
    BY <1>4 DEF Issued!Mismatch, Issued!Found, Issued!ExchangeFound,
       Issued!RefreshFound, Issued!Remove, Issued!At, Issued!Goto,
          Issued!database, Issued!locals, Issued!observed
<1>5. ASSUME NEW r \in Requests,
             Issued!ValidateFound(r) \/ Issued!RevokeFound(r) \/
                Issued!CleanUpFound(r)
      PROVE  ItemOfOp'
    BY <1>5 DEF Issued!ValidateFound, Issued!Found, Issued!Remove,
       Issued!RevokeFound, Issued!CleanUpFound, Issued!At,
          Issued!Goto, Issued!database, Issued!locals, Issued!observed
<1>6. ASSUME NEW r \in Requests, NEW i \in Issued!Codes,
             Issued!StoreProvider(r, i)
      PROVE  ItemOfOp'
    BY <1>6 DEF Issued!StoreProvider, Issued!New, Issued!At, Issued!Goto,
       Issued!database, Issued!locals, Issued!observed
<1>7. ASSUME NEW r \in Requests, Issued!IndexCode(r) PROVE ItemOfOp'
    <2>1. \A s \in Requests : s # r /\ pc[s] \in {"store_code", "index_code"}
              => item[s] # item[r]
        BY <1>7 DEF Issued!IndexCode, Issued!At, CodeApart
    <2> QED
        BY <1>7, <2>1 DEF Issued!IndexCode, Issued!StoreIndex, Issued!At,
           Issued!Goto, Issued!database, Issued!locals
<1>8. ASSUME NEW r \in Requests,
             Issued!StoreCode(r) \/ Issued!Mark(r) \/ Issued!MarkIndex(r)
      PROVE  ItemOfOp'
    BY <1>8 DEF Issued!StoreCode, Issued!StoreRow, Issued!Mark,
       Issued!MarkIndex, Issued!StoreIndex, Issued!At, Issued!Goto,
          Issued!database, Issued!locals, Issued!observed
<1>9. ASSUME NEW r \in Requests,
             Issued!ReadProvider(r) \/ Issued!IndexAccess(r) \/
                Issued!IndexRefresh(r)
      PROVE  ItemOfOp'
    BY <1>9 DEF Issued!ReadProvider, Issued!Remove, Issued!IndexAccess,
       Issued!StoreIndex, Issued!IndexRefresh,
          Issued!At, Issued!Goto, Issued!database, Issued!locals,
             Issued!observed
<1>10. ASSUME NEW r \in Requests, NEW i \in Issued!AccessTokens,
              Issued!StoreAccess(r, i)
       PROVE  ItemOfOp'
    BY <1>10 DEF Issued!StoreAccess, Issued!StoreRow, Issued!New, Issued!At,
       Issued!Goto, Issued!database, Issued!locals,
          Issued!observed
<1>11. ASSUME NEW r \in Requests, NEW i \in Issued!RefreshTokens,
              Issued!StoreRefresh(r, i)
       PROVE  ItemOfOp'
    BY <1>11 DEF Issued!StoreRefresh, Issued!StoreRow, Issued!New,
       Issued!At, Issued!Goto, Issued!database, Issued!locals,
          Issued!observed
<1>12. ASSUME NEW r \in Requests, Issued!Restore(r) \/ Issued!RestoreIndex(r)
       PROVE  ItemOfOp'
    BY <1>12 DEF Issued!Restore, Issued!StoreRow, Issued!RestoreIndex,
       Issued!StoreIndex, Issued!At, Issued!Goto,
          Issued!database, Issued!locals, Issued!observed
<1>13. ASSUME NEW r \in Requests, Issued!DropIndex(r) PROVE ItemOfOp'
    BY <1>13, RemovalEnds
<1>14. ASSUME NEW r \in Requests,
              Issued!DropProvider(r) \/ Issued!Find(r) \/ Issued!DropRow(r)
       PROVE  ItemOfOp'
    BY <1>14 DEF Issued!DropProvider, Issued!Find, Issued!DropRow,
       Issued!StoreRow, Issued!At, Issued!Goto, Issued!database,
          Issued!locals, Issued!observed
<1>15. ASSUME NEW r \in Requests,
              Issued!List(r) \/ Issued!NextList(r) \/ Issued!LastList(r) \/
                 Issued!DropClient(r)
       PROVE  ItemOfOp'
    BY <1>15 DEF Issued!List, Issued!Kind, Issued!NextList, Issued!LastList,
       Issued!DropClient, Issued!At, Issued!Goto,
          Issued!database, Issued!locals, Issued!observed
<1>16. ASSUME NEW r \in Requests, NEW i \in Issued!Items,
              Issued!NextItem(r, i)
       PROVE  ItemOfOp'
    BY <1>16 DEF Issued!NextItem, Issued!At, Issued!Goto, Issued!database,
       Issued!locals, Issued!observed
<1>17. ASSUME NEW r \in Requests, Issued!RemoveFails(r) PROVE ItemOfOp'
    BY <1>17, RemovalFails
<1>18. ASSUME NEW r \in Requests,
              Issued!ReadFails(r) \/ Issued!StoreFails(r) \/
                 Issued!ListFails(r)
       PROVE  ItemOfOp'
    BY <1>18 DEF Issued!ReadFails, Issued!Fault, Issued!Absent,
       Issued!Remove, Issued!StoreFails, Issued!ListFails, Issued!At,
          Issued!Goto, Issued!database, Issued!locals, Issued!observed
<1>19. ASSUME NEW i \in Issued!Items, Issued!Expire(i) \/ Issued!Purge(i)
       PROVE  ItemOfOp'
    BY <1>19 DEF Issued!Expire, Issued!Purge, Issued!StoreRow, Issued!At,
       Issued!Goto, Issued!database, Issued!locals, Issued!observed
<1>20. ASSUME UNCHANGED Issued!vars PROVE ItemOfOp'
    BY <1>20 DEF Issued!vars, Issued!database, Issued!locals, Issued!observed
<1> QED
    BY <1>1, <1>2, <1>3, <1>4, <1>5, <1>6, <1>7, <1>8, <1>9, <1>10, <1>11,
       <1>12, <1>13, <1>14, <1>15, <1>16, <1>17, <1>18, <1>19, <1>20 DEF
          Issued!Next,
       Issued!Ask, Issued!Look, Issued!Store, Issued!Drop, Issued!Fail

\* What is removed with a client are its tokens.
LEMMA ClientStep == TokensInv /\ [Issued!Next]_(Issued!vars) => OfClient'
<1> SUFFICES ASSUME TokensInv, [Issued!Next]_(Issued!vars) PROVE OfClient'
    OBVIOUS
<1> USE Kinds, Owners
    DEF TokensInv, Issued!TypeOK, OpOfStep, OfClient,
        Issued!Items, Issued!Tokens, Issued!Idle, Issued!Finding,
           Issued!Storing, Issued!Removing
<1>1. ASSUME NEW r \in Requests, NEW c \in Clients,
             Issued!Authorize(r, c) \/ Issued!Credentials(r, c) \/
                Issued!DeleteClient(r, c)
      PROVE  OfClient'
    BY <1>1 DEF Issued!Authorize, Issued!Begin, Issued!Credentials,
       Issued!DeleteClient, Issued!WorkThrough, Issued!At,
          Issued!Goto, Issued!database, Issued!locals, Issued!observed
<1>2. ASSUME NEW r \in Requests, NEW i \in Issued!Items,
             Issued!Exchange(r, i) \/ Issued!Refresh(r, i) \/
                Issued!Validate(r, i) \/ Issued!Revoke(r, i)
      PROVE  OfClient'
    BY <1>2 DEF Issued!Exchange, Issued!Begin, Issued!Refresh,
       Issued!Validate, Issued!Revoke, Issued!At, Issued!Goto, Issued!database,
          Issued!locals, Issued!observed
<1>3. ASSUME NEW r \in Requests,
             Issued!CleanUp(r) \/ Issued!ReadIndex(r) \/
                Issued!RowIsMissing(r) \/ Issued!DropStale(r)
      PROVE  OfClient'
    BY <1>3 DEF Issued!CleanUp, Issued!WorkThrough, Issued!ReadIndex,
       Issued!Absent, Issued!RowIsMissing,
          Issued!DropStale, Issued!At, Issued!Goto, Issued!database,
             Issued!locals, Issued!observed
<1>4. ASSUME NEW r \in Requests,
             Issued!Mismatch(r) \/ Issued!ExchangeFound(r) \/
                Issued!RefreshFound(r)
      PROVE  OfClient'
    BY <1>4 DEF Issued!Mismatch, Issued!Found, Issued!ExchangeFound,
       Issued!RefreshFound, Issued!Remove, Issued!At, Issued!Goto,
          Issued!database, Issued!locals, Issued!observed
<1>5. ASSUME NEW r \in Requests,
             Issued!ValidateFound(r) \/ Issued!RevokeFound(r) \/
                Issued!CleanUpFound(r)
      PROVE  OfClient'
    BY <1>5 DEF Issued!ValidateFound, Issued!Found, Issued!Remove,
       Issued!RevokeFound, Issued!CleanUpFound, Issued!At,
          Issued!Goto, Issued!database, Issued!locals, Issued!observed
<1>6. ASSUME NEW r \in Requests, NEW i \in Issued!Codes,
             Issued!StoreProvider(r, i)
      PROVE  OfClient'
    BY <1>6 DEF Issued!StoreProvider, Issued!New, Issued!At, Issued!Goto,
       Issued!database, Issued!locals, Issued!observed
<1>7. ASSUME NEW r \in Requests,
             Issued!StoreCode(r) \/ Issued!IndexCode(r) \/ Issued!Mark(r) \/
                Issued!MarkIndex(r)
      PROVE  OfClient'
    BY <1>7 DEF Issued!StoreCode, Issued!StoreRow, Issued!IndexCode,
       Issued!StoreIndex, Issued!Mark, Issued!MarkIndex,
          Issued!At, Issued!Goto, Issued!database, Issued!locals,
             Issued!observed
<1>8. ASSUME NEW r \in Requests,
             Issued!ReadProvider(r) \/ Issued!IndexAccess(r) \/
                Issued!IndexRefresh(r)
      PROVE  OfClient'
    BY <1>8 DEF Issued!ReadProvider, Issued!Remove, Issued!IndexAccess,
       Issued!StoreIndex, Issued!IndexRefresh,
          Issued!At, Issued!Goto, Issued!database, Issued!locals,
             Issued!observed
<1>9. ASSUME NEW r \in Requests, NEW i \in Issued!AccessTokens,
             Issued!StoreAccess(r, i)
      PROVE  OfClient'
    BY <1>9 DEF Issued!StoreAccess, Issued!StoreRow, Issued!New, Issued!At,
       Issued!Goto, Issued!database, Issued!locals,
          Issued!observed
<1>10. ASSUME NEW r \in Requests, NEW i \in Issued!RefreshTokens,
              Issued!StoreRefresh(r, i)
       PROVE  OfClient'
    BY <1>10 DEF Issued!StoreRefresh, Issued!StoreRow, Issued!New,
       Issued!At, Issued!Goto, Issued!database, Issued!locals,
          Issued!observed
<1>11. ASSUME NEW r \in Requests, Issued!Restore(r) \/ Issued!RestoreIndex(r)
       PROVE  OfClient'
    BY <1>11 DEF Issued!Restore, Issued!StoreRow, Issued!RestoreIndex,
       Issued!StoreIndex, Issued!At, Issued!Goto,
          Issued!database, Issued!locals, Issued!observed
<1>12. ASSUME NEW r \in Requests,
              Issued!DropProvider(r) \/ Issued!Find(r) \/ Issued!DropRow(r)
                 \/ Issued!DropIndex(r)
       PROVE  OfClient'
    BY <1>12 DEF Issued!DropProvider, Issued!Find, Issued!DropRow,
       Issued!StoreRow, Issued!DropIndex, Issued!Finish,
          Issued!Renewing, Issued!At, Issued!Goto, Issued!database,
             Issued!locals, Issued!observed
<1>13. ASSUME NEW r \in Requests,
              Issued!List(r) \/ Issued!NextList(r) \/ Issued!LastList(r) \/
                 Issued!DropClient(r)
       PROVE  OfClient'
    BY <1>13 DEF Issued!List, Issued!Kind, Issued!NextList, Issued!LastList,
       Issued!DropClient, Issued!At, Issued!Goto,
          Issued!database, Issued!locals, Issued!observed
<1>14. ASSUME NEW r \in Requests, NEW i \in Issued!Items,
              Issued!NextItem(r, i)
       PROVE  OfClient'
    BY <1>14 DEF Issued!NextItem, Issued!At, Issued!Goto, Issued!database,
       Issued!locals, Issued!observed
<1>15. ASSUME NEW r \in Requests,
              Issued!ReadFails(r) \/ Issued!StoreFails(r) \/
                 Issued!RemoveFails(r) \/ Issued!ListFails(r)
       PROVE  OfClient'
    BY <1>15 DEF Issued!ReadFails, Issued!Fault, Issued!Absent,
       Issued!Remove, Issued!StoreFails, Issued!RemoveFails,
          Issued!Finish, Issued!ListFails, Issued!At, Issued!Goto,
             Issued!database, Issued!locals, Issued!observed
<1>16. ASSUME NEW i \in Issued!Items, Issued!Expire(i) \/ Issued!Purge(i)
       PROVE  OfClient'
    BY <1>16 DEF Issued!Expire, Issued!Purge, Issued!StoreRow, Issued!At,
       Issued!Goto, Issued!database, Issued!locals, Issued!observed
<1>17. ASSUME UNCHANGED Issued!vars PROVE OfClient'
    BY <1>17 DEF Issued!vars, Issued!database, Issued!locals, Issued!observed
<1> QED
    BY <1>1, <1>2, <1>3, <1>4, <1>5, <1>6, <1>7, <1>8, <1>9, <1>10, <1>11,
       <1>12, <1>13, <1>14, <1>15, <1>16, <1>17 DEF Issued!Next, Issued!Ask,
          Issued!Look, Issued!Store,
       Issued!Drop, Issued!Fail

\* Only names that were given are stored.
LEMMA KnownStep == TokensInv /\ [Issued!Next]_(Issued!vars) => Known'
<1> SUFFICES ASSUME TokensInv, [Issued!Next]_(Issued!vars) PROVE Known'
    OBVIOUS
<1> USE Kinds, Owners
    DEF TokensInv, Issued!TypeOK, OpOfStep, ItemOfOp, Known, Owned,
       HasAccess, HasRefresh,
        Issued!Items, Issued!Tokens, Issued!Idle, Issued!Finding,
           Issued!Storing, Issued!Removing
<1>1. ASSUME NEW r \in Requests, NEW c \in Clients,
             Issued!Authorize(r, c) \/ Issued!Credentials(r, c) \/
                Issued!DeleteClient(r, c)
      PROVE  Known'
    BY <1>1 DEF Issued!Authorize, Issued!Begin, Issued!Credentials,
       Issued!DeleteClient, Issued!WorkThrough, Issued!At,
          Issued!Goto, Issued!database, Issued!locals, Issued!observed
<1>2. ASSUME NEW r \in Requests, NEW i \in Issued!Items,
             Issued!Exchange(r, i) \/ Issued!Refresh(r, i) \/
                Issued!Validate(r, i) \/ Issued!Revoke(r, i)
      PROVE  Known'
    BY <1>2 DEF Issued!Exchange, Issued!Begin, Issued!Refresh,
       Issued!Validate, Issued!Revoke, Issued!At, Issued!Goto, Issued!database,
          Issued!locals, Issued!observed
<1>3. ASSUME NEW r \in Requests,
             Issued!CleanUp(r) \/ Issued!ReadIndex(r) \/
                Issued!RowIsMissing(r) \/ Issued!DropStale(r)
      PROVE  Known'
    BY <1>3 DEF Issued!CleanUp, Issued!WorkThrough, Issued!ReadIndex,
       Issued!Absent, Issued!RowIsMissing,
          Issued!DropStale, Issued!At, Issued!Goto, Issued!database,
             Issued!locals, Issued!observed
<1>4. ASSUME NEW r \in Requests,
             Issued!Mismatch(r) \/ Issued!ExchangeFound(r) \/
                Issued!RefreshFound(r)
      PROVE  Known'
    BY <1>4 DEF Issued!Mismatch, Issued!Found, Issued!ExchangeFound,
       Issued!RefreshFound, Issued!Remove, Issued!At, Issued!Goto,
          Issued!database, Issued!locals, Issued!observed
<1>5. ASSUME NEW r \in Requests,
             Issued!ValidateFound(r) \/ Issued!RevokeFound(r) \/
                Issued!CleanUpFound(r)
      PROVE  Known'
    BY <1>5 DEF Issued!ValidateFound, Issued!Found, Issued!Remove,
       Issued!RevokeFound, Issued!CleanUpFound, Issued!At,
          Issued!Goto, Issued!database, Issued!locals, Issued!observed
<1>6. ASSUME NEW r \in Requests, NEW i \in Issued!Codes,
             Issued!StoreProvider(r, i)
      PROVE  Known'
    BY <1>6 DEF Issued!StoreProvider, Issued!New, Issued!At, Issued!Goto,
       Issued!database, Issued!locals, Issued!observed
<1>7. ASSUME NEW r \in Requests,
             Issued!StoreCode(r) \/ Issued!IndexCode(r) \/ Issued!Mark(r) \/
                Issued!MarkIndex(r)
      PROVE  Known'
    BY <1>7 DEF Issued!StoreCode, Issued!StoreRow, Issued!IndexCode,
       Issued!StoreIndex, Issued!Mark, Issued!MarkIndex,
          Issued!At, Issued!Goto, Issued!database, Issued!locals,
             Issued!observed
<1>8. ASSUME NEW r \in Requests,
             Issued!ReadProvider(r) \/ Issued!IndexAccess(r) \/
                Issued!IndexRefresh(r)
      PROVE  Known'
    BY <1>8 DEF Issued!ReadProvider, Issued!Remove, Issued!IndexAccess,
       Issued!StoreIndex, Issued!IndexRefresh,
          Issued!At, Issued!Goto, Issued!database, Issued!locals,
             Issued!observed
<1>9. ASSUME NEW r \in Requests, NEW i \in Issued!AccessTokens,
             Issued!StoreAccess(r, i)
      PROVE  Known'
    BY <1>9 DEF Issued!StoreAccess, Issued!StoreRow, Issued!New, Issued!At,
       Issued!Goto, Issued!database, Issued!locals,
          Issued!observed
<1>10. ASSUME NEW r \in Requests, NEW i \in Issued!RefreshTokens,
              Issued!StoreRefresh(r, i)
       PROVE  Known'
    BY <1>10 DEF Issued!StoreRefresh, Issued!StoreRow, Issued!New,
       Issued!At, Issued!Goto, Issued!database, Issued!locals,
          Issued!observed
<1>11. ASSUME NEW r \in Requests, Issued!Restore(r) \/ Issued!RestoreIndex(r)
       PROVE  Known'
    BY <1>11 DEF Issued!Restore, Issued!StoreRow, Issued!RestoreIndex,
       Issued!StoreIndex, Issued!At, Issued!Goto,
          Issued!database, Issued!locals, Issued!observed
<1>12. ASSUME NEW r \in Requests,
              Issued!DropProvider(r) \/ Issued!Find(r) \/ Issued!DropRow(r)
                 \/ Issued!DropIndex(r)
       PROVE  Known'
    BY <1>12 DEF Issued!DropProvider, Issued!Find, Issued!DropRow,
       Issued!StoreRow, Issued!DropIndex, Issued!Finish,
          Issued!Renewing, Issued!At, Issued!Goto, Issued!database,
             Issued!locals, Issued!observed
<1>13. ASSUME NEW r \in Requests,
              Issued!List(r) \/ Issued!NextList(r) \/ Issued!LastList(r) \/
                 Issued!DropClient(r)
       PROVE  Known'
    BY <1>13 DEF Issued!List, Issued!Kind, Issued!NextList, Issued!LastList,
       Issued!DropClient, Issued!At, Issued!Goto,
          Issued!database, Issued!locals, Issued!observed
<1>14. ASSUME NEW r \in Requests, NEW i \in Issued!Items, Issued!NextItem(r, i)
       PROVE  Known'
    BY <1>14 DEF Issued!NextItem, Issued!At, Issued!Goto, Issued!database,
       Issued!locals, Issued!observed
<1>15. ASSUME NEW r \in Requests,
              Issued!ReadFails(r) \/ Issued!StoreFails(r) \/
                 Issued!RemoveFails(r) \/ Issued!ListFails(r)
       PROVE  Known'
    BY <1>15 DEF Issued!ReadFails, Issued!Fault, Issued!Absent,
       Issued!Remove, Issued!StoreFails, Issued!RemoveFails,
          Issued!Finish, Issued!ListFails, Issued!At, Issued!Goto,
             Issued!database, Issued!locals, Issued!observed
<1>16. ASSUME NEW i \in Issued!Items, Issued!Expire(i) \/ Issued!Purge(i)
       PROVE  Known'
    BY <1>16 DEF Issued!Expire, Issued!Purge, Issued!StoreRow, Issued!At,
       Issued!Goto, Issued!database, Issued!locals, Issued!observed
<1>17. ASSUME UNCHANGED Issued!vars PROVE Known'
    BY <1>17 DEF Issued!vars, Issued!database, Issued!locals, Issued!observed
<1> QED
    BY <1>1, <1>2, <1>3, <1>4, <1>5, <1>6, <1>7, <1>8, <1>9, <1>10, <1>11,
       <1>12, <1>13, <1>14, <1>15, <1>16, <1>17 DEF Issued!Next, Issued!Ask,
          Issued!Look, Issued!Store,
       Issued!Drop, Issued!Fail

\* A request has been given the names it uses.
LEMMA OwnedStep == TokensInv /\ [Issued!Next]_(Issued!vars) => Owned'
<1> SUFFICES ASSUME TokensInv, [Issued!Next]_(Issued!vars) PROVE Owned'
    OBVIOUS
<1> USE Kinds, Owners
    DEF TokensInv, Issued!TypeOK, OpOfStep, Owned, HasAccess, HasRefresh,
        Issued!Items, Issued!Tokens, Issued!Idle, Issued!Finding,
           Issued!Storing, Issued!Removing
<1>1. ASSUME NEW r \in Requests, NEW c \in Clients,
             Issued!Authorize(r, c) \/ Issued!Credentials(r, c) \/
                Issued!DeleteClient(r, c)
      PROVE  Owned'
    BY <1>1 DEF Issued!Authorize, Issued!Begin, Issued!Credentials,
       Issued!DeleteClient, Issued!WorkThrough, Issued!At,
          Issued!Goto, Issued!database, Issued!locals, Issued!observed
<1>2. ASSUME NEW r \in Requests, NEW i \in Issued!Items,
             Issued!Exchange(r, i) \/ Issued!Refresh(r, i) \/
                Issued!Validate(r, i) \/ Issued!Revoke(r, i)
      PROVE  Owned'
    BY <1>2 DEF Issued!Exchange, Issued!Begin, Issued!Refresh,
       Issued!Validate, Issued!Revoke, Issued!At, Issued!Goto, Issued!database,
          Issued!locals, Issued!observed
<1>3. ASSUME NEW r \in Requests,
             Issued!CleanUp(r) \/ Issued!ReadIndex(r) \/
                Issued!RowIsMissing(r) \/ Issued!DropStale(r)
      PROVE  Owned'
    BY <1>3 DEF Issued!CleanUp, Issued!WorkThrough, Issued!ReadIndex,
       Issued!Absent, Issued!RowIsMissing,
          Issued!DropStale, Issued!At, Issued!Goto, Issued!database,
             Issued!locals, Issued!observed
<1>4. ASSUME NEW r \in Requests,
             Issued!Mismatch(r) \/ Issued!ExchangeFound(r) \/
                Issued!RefreshFound(r)
      PROVE  Owned'
    BY <1>4 DEF Issued!Mismatch, Issued!Found, Issued!ExchangeFound,
       Issued!RefreshFound, Issued!Remove, Issued!At, Issued!Goto,
          Issued!database, Issued!locals, Issued!observed
<1>5. ASSUME NEW r \in Requests,
             Issued!ValidateFound(r) \/ Issued!RevokeFound(r) \/
                Issued!CleanUpFound(r)
      PROVE  Owned'
    BY <1>5 DEF Issued!ValidateFound, Issued!Found, Issued!Remove,
       Issued!RevokeFound, Issued!CleanUpFound, Issued!At,
          Issued!Goto, Issued!database, Issued!locals, Issued!observed
<1>6. ASSUME NEW r \in Requests, NEW i \in Issued!Codes,
             Issued!StoreProvider(r, i)
      PROVE  Owned'
    BY <1>6 DEF Issued!StoreProvider, Issued!New, Issued!At, Issued!Goto,
       Issued!database, Issued!locals, Issued!observed
<1>7. ASSUME NEW r \in Requests,
             Issued!StoreCode(r) \/ Issued!IndexCode(r) \/ Issued!Mark(r) \/
                Issued!MarkIndex(r)
      PROVE  Owned'
    BY <1>7 DEF Issued!StoreCode, Issued!StoreRow, Issued!IndexCode,
       Issued!StoreIndex, Issued!Mark, Issued!MarkIndex,
          Issued!At, Issued!Goto, Issued!database, Issued!locals,
             Issued!observed
<1>8. ASSUME NEW r \in Requests,
             Issued!ReadProvider(r) \/ Issued!IndexAccess(r) \/
                Issued!IndexRefresh(r)
      PROVE  Owned'
    BY <1>8 DEF Issued!ReadProvider, Issued!Remove, Issued!IndexAccess,
       Issued!StoreIndex, Issued!IndexRefresh,
          Issued!At, Issued!Goto, Issued!database, Issued!locals,
             Issued!observed
<1>9. ASSUME NEW r \in Requests, NEW i \in Issued!AccessTokens,
             Issued!StoreAccess(r, i)
      PROVE  Owned'
    BY <1>9 DEF Issued!StoreAccess, Issued!StoreRow, Issued!New, Issued!At,
       Issued!Goto, Issued!database, Issued!locals,
          Issued!observed
<1>10. ASSUME NEW r \in Requests, NEW i \in Issued!RefreshTokens,
              Issued!StoreRefresh(r, i)
       PROVE  Owned'
    BY <1>10 DEF Issued!StoreRefresh, Issued!StoreRow, Issued!New,
       Issued!At, Issued!Goto, Issued!database, Issued!locals,
          Issued!observed
<1>11. ASSUME NEW r \in Requests, Issued!Restore(r) \/ Issued!RestoreIndex(r)
       PROVE  Owned'
    BY <1>11 DEF Issued!Restore, Issued!StoreRow, Issued!RestoreIndex,
       Issued!StoreIndex, Issued!At, Issued!Goto,
          Issued!database, Issued!locals, Issued!observed
<1>12. ASSUME NEW r \in Requests,
              Issued!DropProvider(r) \/ Issued!Find(r) \/ Issued!DropRow(r)
                 \/ Issued!DropIndex(r)
       PROVE  Owned'
    BY <1>12 DEF Issued!DropProvider, Issued!Find, Issued!DropRow,
       Issued!StoreRow, Issued!DropIndex, Issued!Finish,
          Issued!Renewing, Issued!At, Issued!Goto, Issued!database,
             Issued!locals, Issued!observed
<1>13. ASSUME NEW r \in Requests,
              Issued!List(r) \/ Issued!NextList(r) \/ Issued!LastList(r) \/
                 Issued!DropClient(r)
       PROVE  Owned'
    BY <1>13 DEF Issued!List, Issued!Kind, Issued!NextList, Issued!LastList,
       Issued!DropClient, Issued!At, Issued!Goto,
          Issued!database, Issued!locals, Issued!observed
<1>14. ASSUME NEW r \in Requests, NEW i \in Issued!Items, Issued!NextItem(r, i)
       PROVE  Owned'
    BY <1>14 DEF Issued!NextItem, Issued!At, Issued!Goto, Issued!database,
       Issued!locals, Issued!observed
<1>15. ASSUME NEW r \in Requests,
              Issued!ReadFails(r) \/ Issued!StoreFails(r) \/
                 Issued!RemoveFails(r) \/ Issued!ListFails(r)
       PROVE  Owned'
    BY <1>15 DEF Issued!ReadFails, Issued!Fault, Issued!Absent,
       Issued!Remove, Issued!StoreFails, Issued!RemoveFails,
          Issued!Finish, Issued!ListFails, Issued!At, Issued!Goto,
             Issued!database, Issued!locals, Issued!observed
<1>16. ASSUME NEW i \in Issued!Items, Issued!Expire(i) \/ Issued!Purge(i)
       PROVE  Owned'
    BY <1>16 DEF Issued!Expire, Issued!Purge, Issued!StoreRow, Issued!At,
       Issued!Goto, Issued!database, Issued!locals, Issued!observed
<1>17. ASSUME UNCHANGED Issued!vars PROVE Owned'
    BY <1>17 DEF Issued!vars, Issued!database, Issued!locals, Issued!observed
<1> QED
    BY <1>1, <1>2, <1>3, <1>4, <1>5, <1>6, <1>7, <1>8, <1>9, <1>10, <1>11,
       <1>12, <1>13, <1>14, <1>15, <1>16, <1>17 DEF Issued!Next, Issued!Ask,
          Issued!Look, Issued!Store,
       Issued!Drop, Issued!Fail

\* A name of an access token that is given is new, ...
LEMMA AccessStep == TokensInv /\ [Issued!Next]_(Issued!vars) => AccessApart'
<1> SUFFICES ASSUME TokensInv, [Issued!Next]_(Issued!vars) PROVE AccessApart'
    OBVIOUS
<1> USE Kinds, Owners
    DEF TokensInv, Issued!TypeOK, OpOfStep, Owned, AccessApart, HasAccess,
        Issued!Items, Issued!Tokens, Issued!Idle, Issued!Finding,
           Issued!Storing, Issued!Removing
<1>1. ASSUME NEW r \in Requests, NEW c \in Clients,
             Issued!Authorize(r, c) \/ Issued!Credentials(r, c) \/
                Issued!DeleteClient(r, c)
      PROVE  AccessApart'
    BY <1>1 DEF Issued!Authorize, Issued!Begin, Issued!Credentials,
       Issued!DeleteClient, Issued!WorkThrough, Issued!At,
          Issued!Goto, Issued!database, Issued!locals, Issued!observed
<1>2. ASSUME NEW r \in Requests, NEW i \in Issued!Items,
             Issued!Exchange(r, i) \/ Issued!Refresh(r, i) \/
                Issued!Validate(r, i) \/ Issued!Revoke(r, i)
      PROVE  AccessApart'
    BY <1>2 DEF Issued!Exchange, Issued!Begin, Issued!Refresh,
       Issued!Validate, Issued!Revoke, Issued!At, Issued!Goto, Issued!database,
          Issued!locals, Issued!observed
<1>3. ASSUME NEW r \in Requests,
             Issued!CleanUp(r) \/ Issued!ReadIndex(r) \/
                Issued!RowIsMissing(r) \/ Issued!DropStale(r)
      PROVE  AccessApart'
    BY <1>3 DEF Issued!CleanUp, Issued!WorkThrough, Issued!ReadIndex,
       Issued!Absent, Issued!RowIsMissing,
          Issued!DropStale, Issued!At, Issued!Goto, Issued!database,
             Issued!locals, Issued!observed
<1>4. ASSUME NEW r \in Requests,
             Issued!Mismatch(r) \/ Issued!ExchangeFound(r) \/
                Issued!RefreshFound(r)
      PROVE  AccessApart'
    BY <1>4 DEF Issued!Mismatch, Issued!Found, Issued!ExchangeFound,
       Issued!RefreshFound, Issued!Remove, Issued!At, Issued!Goto,
          Issued!database, Issued!locals, Issued!observed
<1>5. ASSUME NEW r \in Requests,
             Issued!ValidateFound(r) \/ Issued!RevokeFound(r) \/
                Issued!CleanUpFound(r)
      PROVE  AccessApart'
    BY <1>5 DEF Issued!ValidateFound, Issued!Found, Issued!Remove,
       Issued!RevokeFound, Issued!CleanUpFound, Issued!At,
          Issued!Goto, Issued!database, Issued!locals, Issued!observed
<1>6. ASSUME NEW r \in Requests, NEW i \in Issued!Codes,
             Issued!StoreProvider(r, i)
      PROVE  AccessApart'
    BY <1>6 DEF Issued!StoreProvider, Issued!New, Issued!At, Issued!Goto,
       Issued!database, Issued!locals, Issued!observed
<1>7. ASSUME NEW r \in Requests,
             Issued!StoreCode(r) \/ Issued!IndexCode(r) \/ Issued!Mark(r) \/
                Issued!MarkIndex(r)
      PROVE  AccessApart'
    BY <1>7 DEF Issued!StoreCode, Issued!StoreRow, Issued!IndexCode,
       Issued!StoreIndex, Issued!Mark, Issued!MarkIndex,
          Issued!At, Issued!Goto, Issued!database, Issued!locals,
             Issued!observed
<1>8. ASSUME NEW r \in Requests,
             Issued!ReadProvider(r) \/ Issued!IndexAccess(r) \/
                Issued!IndexRefresh(r)
      PROVE  AccessApart'
    BY <1>8 DEF Issued!ReadProvider, Issued!Remove, Issued!IndexAccess,
       Issued!StoreIndex, Issued!IndexRefresh,
          Issued!At, Issued!Goto, Issued!database, Issued!locals,
             Issued!observed
<1>9. ASSUME NEW r \in Requests, NEW i \in Issued!AccessTokens,
             Issued!StoreAccess(r, i)
      PROVE  AccessApart'
    BY <1>9 DEF Issued!StoreAccess, Issued!StoreRow, Issued!New, Issued!At,
       Issued!Goto, Issued!database, Issued!locals,
          Issued!observed
<1>10. ASSUME NEW r \in Requests, NEW i \in Issued!RefreshTokens,
              Issued!StoreRefresh(r, i)
       PROVE  AccessApart'
    BY <1>10 DEF Issued!StoreRefresh, Issued!StoreRow, Issued!New,
       Issued!At, Issued!Goto, Issued!database, Issued!locals,
          Issued!observed
<1>11. ASSUME NEW r \in Requests,
              Issued!Restore(r) \/ Issued!RestoreIndex(r)
       PROVE  AccessApart'
    BY <1>11 DEF Issued!Restore, Issued!StoreRow, Issued!RestoreIndex,
       Issued!StoreIndex, Issued!At, Issued!Goto,
          Issued!database, Issued!locals, Issued!observed
<1>12. ASSUME NEW r \in Requests,
              Issued!DropProvider(r) \/ Issued!Find(r) \/ Issued!DropRow(r)
                 \/ Issued!DropIndex(r)
       PROVE  AccessApart'
    BY <1>12 DEF Issued!DropProvider, Issued!Find, Issued!DropRow,
       Issued!StoreRow, Issued!DropIndex, Issued!Finish,
          Issued!Renewing, Issued!At, Issued!Goto, Issued!database,
             Issued!locals, Issued!observed
<1>13. ASSUME NEW r \in Requests,
              Issued!List(r) \/ Issued!NextList(r) \/ Issued!LastList(r) \/
                 Issued!DropClient(r)
       PROVE  AccessApart'
    BY <1>13 DEF Issued!List, Issued!Kind, Issued!NextList, Issued!LastList,
       Issued!DropClient, Issued!At, Issued!Goto,
          Issued!database, Issued!locals, Issued!observed
<1>14. ASSUME NEW r \in Requests, NEW i \in Issued!Items,
              Issued!NextItem(r, i)
       PROVE  AccessApart'
    BY <1>14 DEF Issued!NextItem, Issued!At, Issued!Goto, Issued!database,
       Issued!locals, Issued!observed
<1>15. ASSUME NEW r \in Requests,
              Issued!ReadFails(r) \/ Issued!StoreFails(r) \/
                 Issued!RemoveFails(r) \/ Issued!ListFails(r)
       PROVE  AccessApart'
    BY <1>15 DEF Issued!ReadFails, Issued!Fault, Issued!Absent,
       Issued!Remove, Issued!StoreFails, Issued!RemoveFails,
          Issued!Finish, Issued!ListFails, Issued!At, Issued!Goto,
             Issued!database, Issued!locals, Issued!observed
<1>16. ASSUME NEW i \in Issued!Items, Issued!Expire(i) \/ Issued!Purge(i)
       PROVE  AccessApart'
    BY <1>16 DEF Issued!Expire, Issued!Purge, Issued!StoreRow, Issued!At,
       Issued!Goto, Issued!database, Issued!locals, Issued!observed
<1>17. ASSUME UNCHANGED Issued!vars PROVE AccessApart'
    BY <1>17 DEF Issued!vars, Issued!database, Issued!locals, Issued!observed
<1> QED
    BY <1>1, <1>2, <1>3, <1>4, <1>5, <1>6, <1>7, <1>8, <1>9, <1>10, <1>11,
       <1>12, <1>13, <1>14, <1>15, <1>16, <1>17 DEF Issued!Next, Issued!Ask,
          Issued!Look, Issued!Store,
       Issued!Drop, Issued!Fail

\* ... so is one of a refresh token, ...
LEMMA RefreshStep == TokensInv /\ [Issued!Next]_(Issued!vars) => RefreshApart'
<1> SUFFICES ASSUME TokensInv, [Issued!Next]_(Issued!vars) PROVE RefreshApart'
    OBVIOUS
<1> USE Kinds, Owners
    DEF TokensInv, Issued!TypeOK, OpOfStep, Owned, RefreshApart, HasRefresh,
        Issued!Items, Issued!Tokens, Issued!Idle, Issued!Finding,
           Issued!Storing, Issued!Removing
<1>1. ASSUME NEW r \in Requests, NEW c \in Clients,
             Issued!Authorize(r, c) \/ Issued!Credentials(r, c) \/
                Issued!DeleteClient(r, c)
      PROVE  RefreshApart'
    BY <1>1 DEF Issued!Authorize, Issued!Begin, Issued!Credentials,
       Issued!DeleteClient, Issued!WorkThrough, Issued!At,
          Issued!Goto, Issued!database, Issued!locals, Issued!observed
<1>2. ASSUME NEW r \in Requests, NEW i \in Issued!Items,
             Issued!Exchange(r, i) \/ Issued!Refresh(r, i) \/
                Issued!Validate(r, i) \/ Issued!Revoke(r, i)
      PROVE  RefreshApart'
    BY <1>2 DEF Issued!Exchange, Issued!Begin, Issued!Refresh,
       Issued!Validate, Issued!Revoke, Issued!At, Issued!Goto, Issued!database,
          Issued!locals, Issued!observed
<1>3. ASSUME NEW r \in Requests,
             Issued!CleanUp(r) \/ Issued!ReadIndex(r) \/
                Issued!RowIsMissing(r) \/ Issued!DropStale(r)
      PROVE  RefreshApart'
    BY <1>3 DEF Issued!CleanUp, Issued!WorkThrough, Issued!ReadIndex,
       Issued!Absent, Issued!RowIsMissing,
          Issued!DropStale, Issued!At, Issued!Goto, Issued!database,
             Issued!locals, Issued!observed
<1>4. ASSUME NEW r \in Requests,
             Issued!Mismatch(r) \/ Issued!ExchangeFound(r) \/
                Issued!RefreshFound(r)
      PROVE  RefreshApart'
    BY <1>4 DEF Issued!Mismatch, Issued!Found, Issued!ExchangeFound,
       Issued!RefreshFound, Issued!Remove, Issued!At, Issued!Goto,
          Issued!database, Issued!locals, Issued!observed
<1>5. ASSUME NEW r \in Requests,
             Issued!ValidateFound(r) \/ Issued!RevokeFound(r) \/
                Issued!CleanUpFound(r)
      PROVE  RefreshApart'
    BY <1>5 DEF Issued!ValidateFound, Issued!Found, Issued!Remove,
       Issued!RevokeFound, Issued!CleanUpFound, Issued!At,
          Issued!Goto, Issued!database, Issued!locals, Issued!observed
<1>6. ASSUME NEW r \in Requests, NEW i \in Issued!Codes,
             Issued!StoreProvider(r, i)
      PROVE  RefreshApart'
    BY <1>6 DEF Issued!StoreProvider, Issued!New, Issued!At, Issued!Goto,
       Issued!database, Issued!locals, Issued!observed
<1>7. ASSUME NEW r \in Requests,
             Issued!StoreCode(r) \/ Issued!IndexCode(r) \/ Issued!Mark(r) \/
                Issued!MarkIndex(r)
      PROVE  RefreshApart'
    BY <1>7 DEF Issued!StoreCode, Issued!StoreRow, Issued!IndexCode,
       Issued!StoreIndex, Issued!Mark, Issued!MarkIndex,
          Issued!At, Issued!Goto, Issued!database, Issued!locals,
             Issued!observed
<1>8. ASSUME NEW r \in Requests,
             Issued!ReadProvider(r) \/ Issued!IndexAccess(r) \/
                Issued!IndexRefresh(r)
      PROVE  RefreshApart'
    BY <1>8 DEF Issued!ReadProvider, Issued!Remove, Issued!IndexAccess,
       Issued!StoreIndex, Issued!IndexRefresh,
          Issued!At, Issued!Goto, Issued!database, Issued!locals,
             Issued!observed
<1>9. ASSUME NEW r \in Requests, NEW i \in Issued!AccessTokens,
             Issued!StoreAccess(r, i)
      PROVE  RefreshApart'
    BY <1>9 DEF Issued!StoreAccess, Issued!StoreRow, Issued!New, Issued!At,
       Issued!Goto, Issued!database, Issued!locals,
          Issued!observed
<1>10. ASSUME NEW r \in Requests, NEW i \in Issued!RefreshTokens,
              Issued!StoreRefresh(r, i)
       PROVE  RefreshApart'
    BY <1>10 DEF Issued!StoreRefresh, Issued!StoreRow, Issued!New,
       Issued!At, Issued!Goto, Issued!database, Issued!locals,
          Issued!observed
<1>11. ASSUME NEW r \in Requests,
              Issued!Restore(r) \/ Issued!RestoreIndex(r)
       PROVE  RefreshApart'
    BY <1>11 DEF Issued!Restore, Issued!StoreRow, Issued!RestoreIndex,
       Issued!StoreIndex, Issued!At, Issued!Goto,
          Issued!database, Issued!locals, Issued!observed
<1>12. ASSUME NEW r \in Requests,
              Issued!DropProvider(r) \/ Issued!Find(r) \/ Issued!DropRow(r)
                 \/ Issued!DropIndex(r)
       PROVE  RefreshApart'
    BY <1>12 DEF Issued!DropProvider, Issued!Find, Issued!DropRow,
       Issued!StoreRow, Issued!DropIndex, Issued!Finish,
          Issued!Renewing, Issued!At, Issued!Goto, Issued!database,
             Issued!locals, Issued!observed
<1>13. ASSUME NEW r \in Requests,
              Issued!List(r) \/ Issued!NextList(r) \/ Issued!LastList(r) \/
                 Issued!DropClient(r)
       PROVE  RefreshApart'
    BY <1>13 DEF Issued!List, Issued!Kind, Issued!NextList, Issued!LastList,
       Issued!DropClient, Issued!At, Issued!Goto,
          Issued!database, Issued!locals, Issued!observed
<1>14. ASSUME NEW r \in Requests, NEW i \in Issued!Items,
              Issued!NextItem(r, i)
       PROVE  RefreshApart'
    BY <1>14 DEF Issued!NextItem, Issued!At, Issued!Goto, Issued!database,
       Issued!locals, Issued!observed
<1>15. ASSUME NEW r \in Requests,
              Issued!ReadFails(r) \/ Issued!StoreFails(r) \/
                 Issued!RemoveFails(r) \/ Issued!ListFails(r)
       PROVE  RefreshApart'
    BY <1>15 DEF Issued!ReadFails, Issued!Fault, Issued!Absent,
       Issued!Remove, Issued!StoreFails, Issued!RemoveFails,
          Issued!Finish, Issued!ListFails, Issued!At, Issued!Goto,
             Issued!database, Issued!locals, Issued!observed
<1>16. ASSUME NEW i \in Issued!Items, Issued!Expire(i) \/ Issued!Purge(i)
       PROVE  RefreshApart'
    BY <1>16 DEF Issued!Expire, Issued!Purge, Issued!StoreRow, Issued!At,
       Issued!Goto, Issued!database, Issued!locals, Issued!observed
<1>17. ASSUME UNCHANGED Issued!vars PROVE RefreshApart'
    BY <1>17 DEF Issued!vars, Issued!database, Issued!locals, Issued!observed
<1> QED
    BY <1>1, <1>2, <1>3, <1>4, <1>5, <1>6, <1>7, <1>8, <1>9, <1>10, <1>11,
       <1>12, <1>13, <1>14, <1>15, <1>16, <1>17 DEF Issued!Next, Issued!Ask,
          Issued!Look, Issued!Store,
       Issued!Drop, Issued!Fail

\* ... and of a code.
LEMMA CodeStep == TokensInv /\ [Issued!Next]_(Issued!vars) => CodeApart'
<1> SUFFICES ASSUME TokensInv, [Issued!Next]_(Issued!vars) PROVE CodeApart'
    OBVIOUS
<1> USE Kinds, Owners
    DEF TokensInv, Issued!TypeOK, ItemOfOp, CodeApart,
        Issued!Items, Issued!Tokens, Issued!Idle, Issued!Finding,
           Issued!Storing, Issued!Removing
<1>1. ASSUME NEW r \in Requests, NEW c \in Clients,
             Issued!Authorize(r, c) \/ Issued!Credentials(r, c) \/
                Issued!DeleteClient(r, c)
      PROVE  CodeApart'
    BY <1>1 DEF Issued!Authorize, Issued!Begin, Issued!Credentials,
       Issued!DeleteClient, Issued!WorkThrough, Issued!At,
          Issued!Goto, Issued!database, Issued!locals, Issued!observed
<1>2. ASSUME NEW r \in Requests, NEW i \in Issued!Items,
             Issued!Exchange(r, i) \/ Issued!Refresh(r, i) \/
                Issued!Validate(r, i) \/ Issued!Revoke(r, i)
      PROVE  CodeApart'
    BY <1>2 DEF Issued!Exchange, Issued!Begin, Issued!Refresh,
       Issued!Validate, Issued!Revoke, Issued!At, Issued!Goto, Issued!database,
          Issued!locals, Issued!observed
<1>3. ASSUME NEW r \in Requests,
             Issued!CleanUp(r) \/ Issued!ReadIndex(r) \/
                Issued!RowIsMissing(r) \/ Issued!DropStale(r)
      PROVE  CodeApart'
    BY <1>3 DEF Issued!CleanUp, Issued!WorkThrough, Issued!ReadIndex,
       Issued!Absent, Issued!RowIsMissing,
          Issued!DropStale, Issued!At, Issued!Goto, Issued!database,
             Issued!locals, Issued!observed
<1>4. ASSUME NEW r \in Requests,
             Issued!Mismatch(r) \/ Issued!ExchangeFound(r) \/
                Issued!RefreshFound(r)
      PROVE  CodeApart'
    BY <1>4 DEF Issued!Mismatch, Issued!Found, Issued!ExchangeFound,
       Issued!RefreshFound, Issued!Remove, Issued!At, Issued!Goto,
          Issued!database, Issued!locals, Issued!observed
<1>5. ASSUME NEW r \in Requests,
             Issued!ValidateFound(r) \/ Issued!RevokeFound(r) \/
                Issued!CleanUpFound(r)
      PROVE  CodeApart'
    BY <1>5 DEF Issued!ValidateFound, Issued!Found, Issued!Remove,
       Issued!RevokeFound, Issued!CleanUpFound, Issued!At,
          Issued!Goto, Issued!database, Issued!locals, Issued!observed
<1>6. ASSUME NEW r \in Requests, NEW i \in Issued!Codes,
             Issued!StoreProvider(r, i)
      PROVE  CodeApart'
    BY <1>6 DEF Issued!StoreProvider, Issued!New, Issued!At, Issued!Goto,
       Issued!database, Issued!locals, Issued!observed
<1>7. ASSUME NEW r \in Requests,
             Issued!StoreCode(r) \/ Issued!IndexCode(r) \/ Issued!Mark(r) \/
                Issued!MarkIndex(r)
      PROVE  CodeApart'
    BY <1>7 DEF Issued!StoreCode, Issued!StoreRow, Issued!IndexCode,
       Issued!StoreIndex, Issued!Mark, Issued!MarkIndex,
          Issued!At, Issued!Goto, Issued!database, Issued!locals,
             Issued!observed
<1>8. ASSUME NEW r \in Requests,
             Issued!ReadProvider(r) \/ Issued!IndexAccess(r) \/
                Issued!IndexRefresh(r)
      PROVE  CodeApart'
    BY <1>8 DEF Issued!ReadProvider, Issued!Remove, Issued!IndexAccess,
       Issued!StoreIndex, Issued!IndexRefresh,
          Issued!At, Issued!Goto, Issued!database, Issued!locals,
             Issued!observed
<1>9. ASSUME NEW r \in Requests, NEW i \in Issued!AccessTokens,
             Issued!StoreAccess(r, i)
      PROVE  CodeApart'
    BY <1>9 DEF Issued!StoreAccess, Issued!StoreRow, Issued!New, Issued!At,
       Issued!Goto, Issued!database, Issued!locals,
          Issued!observed
<1>10. ASSUME NEW r \in Requests, NEW i \in Issued!RefreshTokens,
              Issued!StoreRefresh(r, i)
       PROVE  CodeApart'
    BY <1>10 DEF Issued!StoreRefresh, Issued!StoreRow, Issued!New,
       Issued!At, Issued!Goto, Issued!database, Issued!locals,
          Issued!observed
<1>11. ASSUME NEW r \in Requests,
              Issued!Restore(r) \/ Issued!RestoreIndex(r)
       PROVE  CodeApart'
    BY <1>11 DEF Issued!Restore, Issued!StoreRow, Issued!RestoreIndex,
       Issued!StoreIndex, Issued!At, Issued!Goto,
          Issued!database, Issued!locals, Issued!observed
<1>12. ASSUME NEW r \in Requests,
              Issued!DropProvider(r) \/ Issued!Find(r) \/ Issued!DropRow(r)
                 \/ Issued!DropIndex(r)
       PROVE  CodeApart'
    BY <1>12 DEF Issued!DropProvider, Issued!Find, Issued!DropRow,
       Issued!StoreRow, Issued!DropIndex, Issued!Finish,
          Issued!Renewing, Issued!At, Issued!Goto, Issued!database,
             Issued!locals, Issued!observed
<1>13. ASSUME NEW r \in Requests,
              Issued!List(r) \/ Issued!NextList(r) \/ Issued!LastList(r) \/
                 Issued!DropClient(r)
       PROVE  CodeApart'
    BY <1>13 DEF Issued!List, Issued!Kind, Issued!NextList, Issued!LastList,
       Issued!DropClient, Issued!At, Issued!Goto,
          Issued!database, Issued!locals, Issued!observed
<1>14. ASSUME NEW r \in Requests, NEW i \in Issued!Items,
              Issued!NextItem(r, i)
       PROVE  CodeApart'
    BY <1>14 DEF Issued!NextItem, Issued!At, Issued!Goto, Issued!database,
       Issued!locals, Issued!observed
<1>15. ASSUME NEW r \in Requests,
              Issued!ReadFails(r) \/ Issued!StoreFails(r) \/
                 Issued!RemoveFails(r) \/ Issued!ListFails(r)
       PROVE  CodeApart'
    BY <1>15 DEF Issued!ReadFails, Issued!Fault, Issued!Absent,
       Issued!Remove, Issued!StoreFails, Issued!RemoveFails,
          Issued!Finish, Issued!ListFails, Issued!At, Issued!Goto,
             Issued!database, Issued!locals, Issued!observed
<1>16. ASSUME NEW i \in Issued!Items, Issued!Expire(i) \/ Issued!Purge(i)
       PROVE  CodeApart'
    BY <1>16 DEF Issued!Expire, Issued!Purge, Issued!StoreRow, Issued!At,
       Issued!Goto, Issued!database, Issued!locals, Issued!observed
<1>17. ASSUME UNCHANGED Issued!vars PROVE CodeApart'
    BY <1>17 DEF Issued!vars, Issued!database, Issued!locals, Issued!observed
<1> QED
    BY <1>1, <1>2, <1>3, <1>4, <1>5, <1>6, <1>7, <1>8, <1>9, <1>10, <1>11,
       <1>12, <1>13, <1>14, <1>15, <1>16, <1>17 DEF Issued!Next, Issued!Ask,
          Issued!Look, Issued!Store,
       Issued!Drop, Issued!Fail

\* Nobody else makes a new name known.
LEMMA HiddenStep == TokensInv /\ [Issued!Next]_(Issued!vars) => Hidden'
<1> SUFFICES ASSUME TokensInv, [Issued!Next]_(Issued!vars) PROVE Hidden'
    OBVIOUS
<1> USE Kinds, Owners
    DEF TokensInv, Issued!TypeOK, OpOfStep, ItemOfOp, Known, AccessApart,
       RefreshApart, Hidden,
        HasAccess, HasRefresh,
        Issued!Items, Issued!Tokens, Issued!Idle, Issued!Finding,
           Issued!Storing, Issued!Removing
<1>1. ASSUME NEW r \in Requests, NEW c \in Clients,
             Issued!Authorize(r, c) \/ Issued!Credentials(r, c) \/
                Issued!DeleteClient(r, c)
      PROVE  Hidden'
    BY <1>1 DEF Issued!Authorize, Issued!Begin, Issued!Credentials,
       Issued!DeleteClient, Issued!WorkThrough, Issued!At,
          Issued!Goto, Issued!database, Issued!locals, Issued!observed
<1>2. ASSUME NEW r \in Requests, NEW i \in Issued!Items,
             Issued!Exchange(r, i) \/ Issued!Refresh(r, i) \/
                Issued!Validate(r, i) \/ Issued!Revoke(r, i)
      PROVE  Hidden'
    BY <1>2 DEF Issued!Exchange, Issued!Begin, Issued!Refresh,
       Issued!Validate, Issued!Revoke, Issued!At, Issued!Goto, Issued!database,
          Issued!locals, Issued!observed
<1>3. ASSUME NEW r \in Requests,
             Issued!CleanUp(r) \/ Issued!ReadIndex(r) \/
                Issued!RowIsMissing(r) \/ Issued!DropStale(r)
      PROVE  Hidden'
    BY <1>3 DEF Issued!CleanUp, Issued!WorkThrough, Issued!ReadIndex,
       Issued!Absent, Issued!RowIsMissing,
          Issued!DropStale, Issued!At, Issued!Goto, Issued!database,
             Issued!locals, Issued!observed
<1>4. ASSUME NEW r \in Requests,
             Issued!Mismatch(r) \/ Issued!ExchangeFound(r) \/
                Issued!RefreshFound(r)
      PROVE  Hidden'
    BY <1>4 DEF Issued!Mismatch, Issued!Found, Issued!ExchangeFound,
       Issued!RefreshFound, Issued!Remove, Issued!At, Issued!Goto,
          Issued!database, Issued!locals, Issued!observed
<1>5. ASSUME NEW r \in Requests,
             Issued!ValidateFound(r) \/ Issued!RevokeFound(r) \/
                Issued!CleanUpFound(r)
      PROVE  Hidden'
    BY <1>5 DEF Issued!ValidateFound, Issued!Found, Issued!Remove,
       Issued!RevokeFound, Issued!CleanUpFound, Issued!At,
          Issued!Goto, Issued!database, Issued!locals, Issued!observed
<1>6. ASSUME NEW r \in Requests, NEW i \in Issued!Codes,
             Issued!StoreProvider(r, i)
      PROVE  Hidden'
    BY <1>6 DEF Issued!StoreProvider, Issued!New, Issued!At, Issued!Goto,
       Issued!database, Issued!locals, Issued!observed
<1>7. ASSUME NEW r \in Requests,
             Issued!StoreCode(r) \/ Issued!IndexCode(r) \/ Issued!Mark(r) \/
                Issued!MarkIndex(r)
      PROVE  Hidden'
    BY <1>7 DEF Issued!StoreCode, Issued!StoreRow, Issued!IndexCode,
       Issued!StoreIndex, Issued!Mark, Issued!MarkIndex,
          Issued!At, Issued!Goto, Issued!database, Issued!locals,
             Issued!observed
<1>8. ASSUME NEW r \in Requests,
             Issued!ReadProvider(r) \/ Issued!IndexAccess(r) \/
                Issued!IndexRefresh(r)
      PROVE  Hidden'
    BY <1>8 DEF Issued!ReadProvider, Issued!Remove, Issued!IndexAccess,
       Issued!StoreIndex, Issued!IndexRefresh,
          Issued!At, Issued!Goto, Issued!database, Issued!locals,
             Issued!observed
<1>9. ASSUME NEW r \in Requests, NEW i \in Issued!AccessTokens,
             Issued!StoreAccess(r, i)
      PROVE  Hidden'
    BY <1>9 DEF Issued!StoreAccess, Issued!StoreRow, Issued!New, Issued!At,
       Issued!Goto, Issued!database, Issued!locals,
          Issued!observed
<1>10. ASSUME NEW r \in Requests, NEW i \in Issued!RefreshTokens,
              Issued!StoreRefresh(r, i)
       PROVE  Hidden'
    BY <1>10 DEF Issued!StoreRefresh, Issued!StoreRow, Issued!New,
       Issued!At, Issued!Goto, Issued!database, Issued!locals,
          Issued!observed
<1>11. ASSUME NEW r \in Requests, Issued!Restore(r) \/ Issued!RestoreIndex(r)
       PROVE  Hidden'
    BY SMTT(20), <1>11 DEF Issued!Restore, Issued!StoreRow,
       Issued!RestoreIndex, Issued!StoreIndex, Issued!At,
          Issued!Goto, Issued!database, Issued!locals, Issued!observed
<1>12. ASSUME NEW r \in Requests,
              Issued!DropProvider(r) \/ Issued!Find(r) \/ Issued!DropRow(r)
                 \/ Issued!DropIndex(r)
       PROVE  Hidden'
    BY <1>12 DEF Issued!DropProvider, Issued!Find, Issued!DropRow,
       Issued!StoreRow, Issued!DropIndex, Issued!Finish,
          Issued!Renewing, Issued!At, Issued!Goto, Issued!database,
             Issued!locals, Issued!observed
<1>13. ASSUME NEW r \in Requests,
              Issued!List(r) \/ Issued!NextList(r) \/ Issued!LastList(r) \/
                 Issued!DropClient(r)
       PROVE  Hidden'
    BY <1>13 DEF Issued!List, Issued!Kind, Issued!NextList, Issued!LastList,
       Issued!DropClient, Issued!At, Issued!Goto,
          Issued!database, Issued!locals, Issued!observed
<1>14. ASSUME NEW r \in Requests, NEW i \in Issued!Items, Issued!NextItem(r, i)
       PROVE  Hidden'
    BY <1>14 DEF Issued!NextItem, Issued!At, Issued!Goto, Issued!database,
       Issued!locals, Issued!observed
<1>15. ASSUME NEW r \in Requests,
              Issued!ReadFails(r) \/ Issued!StoreFails(r) \/
                 Issued!RemoveFails(r) \/ Issued!ListFails(r)
       PROVE  Hidden'
    BY <1>15 DEF Issued!ReadFails, Issued!Fault, Issued!Absent,
       Issued!Remove, Issued!StoreFails, Issued!RemoveFails,
          Issued!Finish, Issued!ListFails, Issued!At, Issued!Goto,
             Issued!database, Issued!locals, Issued!observed
<1>16. ASSUME NEW i \in Issued!Items, Issued!Expire(i) \/ Issued!Purge(i)
       PROVE  Hidden'
    BY <1>16 DEF Issued!Expire, Issued!Purge, Issued!StoreRow, Issued!At,
       Issued!Goto, Issued!database, Issued!locals, Issued!observed
<1>17. ASSUME UNCHANGED Issued!vars PROVE Hidden'
    BY <1>17 DEF Issued!vars, Issued!database, Issued!locals, Issued!observed
<1> QED
    BY <1>1, <1>2, <1>3, <1>4, <1>5, <1>6, <1>7, <1>8, <1>9, <1>10, <1>11,
       <1>12, <1>13, <1>14, <1>15, <1>16, <1>17 DEF Issued!Next, Issued!Ask,
          Issued!Look, Issued!Store,
       Issued!Drop, Issued!Fail

\* A code's data is never made good again.
LEMMA BurnedStep == TokensInv /\ [Issued!Next]_(Issued!vars) => Burned'
<1> SUFFICES ASSUME TokensInv, [Issued!Next]_(Issued!vars) PROVE Burned'
    OBVIOUS
<1> USE Kinds, Owners
    DEF TokensInv, Issued!TypeOK, OpOfStep, ItemOfOp, Known, Burned, Marked,
       Refused,
        Issued!Items, Issued!Tokens, Issued!Idle, Issued!Finding,
           Issued!Storing, Issued!Removing
<1>1. ASSUME NEW r \in Requests, NEW c \in Clients,
             Issued!Authorize(r, c) \/ Issued!Credentials(r, c) \/
                Issued!DeleteClient(r, c)
      PROVE  Burned'
    BY <1>1 DEF Issued!Authorize, Issued!Begin, Issued!Credentials,
       Issued!DeleteClient, Issued!WorkThrough, Issued!At,
          Issued!Goto, Issued!database, Issued!locals, Issued!observed
<1>2. ASSUME NEW r \in Requests, NEW i \in Issued!Items, Issued!Exchange(r, i)
      PROVE  Burned'
    <2>1. /\ pc[r] \in Issued!Idle /\ pc' = [pc EXCEPT ![r] = "read_index"]
          /\ op' = [op EXCEPT ![r] = "exchange"] /\ item' = [item EXCEPT ![r] = i]
          /\ late' = [late EXCEPT ![r] = i \in spent]
          /\ UNCHANGED <<row, spent, then>>
        BY <1>2 DEF Issued!Exchange, Issued!Begin, Issued!Goto, Issued!database
    <2>2. op'[r] = "exchange" /\ item'[r] = i /\ late'[r] = (i \in spent)
          /\ pc'[r] = "read_index"
        BY <2>1
    <2>3. \A s \in Requests \ {r} : /\ op'[s] = op[s] /\ item'[s] = item[s]
                                    /\ late'[s] = late[s] /\ pc'[s] = pc[s]
        BY <2>1
    <2>4. Marked'
        BY <2>1, <2>2, <2>3
    <2>5. ASSUME NEW s \in Requests, op'[s] = "exchange", late'[s]
          PROVE /\ pc'[s] \notin Issued!Idle => item'[s] \in spent'
                /\ \/ pc'[s] \in Issued!Finding \cup {"refused"}
                   \/ pc'[s] \in Issued!Removing \cup {"drop_provider"} /\ then'[s] = "refused"
        <3>1. CASE s = r
            BY <3>1, <2>5, <2>2, <2>1
        <3>2. CASE s # r
            BY <3>2, <2>5, <2>3, <2>1
        <3> QED
            BY <3>1, <3>2
    <2> QED
        BY <2>4, <2>5 DEF Burned, Refused
<1>3. ASSUME NEW r \in Requests, NEW i \in Issued!Items,
             Issued!Refresh(r, i) \/ Issued!Validate(r, i) \/
                Issued!Revoke(r, i)
      PROVE  Burned'
    BY <1>3 DEF Issued!Refresh, Issued!Begin, Issued!Validate,
       Issued!Revoke, Issued!At, Issued!Goto, Issued!database, Issued!locals,
          Issued!observed
<1>4. ASSUME NEW r \in Requests,
             Issued!CleanUp(r) \/ Issued!ReadIndex(r) \/
                Issued!RowIsMissing(r) \/ Issued!DropStale(r)
      PROVE  Burned'
    BY <1>4 DEF Issued!CleanUp, Issued!WorkThrough, Issued!ReadIndex,
       Issued!Absent, Issued!RowIsMissing,
          Issued!DropStale, Issued!At, Issued!Goto, Issued!database,
             Issued!locals, Issued!observed
<1>5. ASSUME NEW r \in Requests,
             Issued!Mismatch(r) \/ Issued!ExchangeFound(r) \/
                Issued!RefreshFound(r)
      PROVE  Burned'
    BY <1>5 DEF Issued!Mismatch, Issued!Found, Issued!ExchangeFound,
       Issued!RefreshFound, Issued!Remove, Issued!At, Issued!Goto,
          Issued!database, Issued!locals, Issued!observed
<1>6. ASSUME NEW r \in Requests,
             Issued!ValidateFound(r) \/ Issued!RevokeFound(r) \/
                Issued!CleanUpFound(r)
      PROVE  Burned'
    BY <1>6 DEF Issued!ValidateFound, Issued!Found, Issued!Remove,
       Issued!RevokeFound, Issued!CleanUpFound, Issued!At,
          Issued!Goto, Issued!database, Issued!locals, Issued!observed
<1>7. ASSUME NEW r \in Requests, NEW i \in Issued!Codes,
             Issued!StoreProvider(r, i)
      PROVE  Burned'
    BY <1>7 DEF Issued!StoreProvider, Issued!New, Issued!At, Issued!Goto,
       Issued!database, Issued!locals, Issued!observed
<1>8. ASSUME NEW r \in Requests,
             Issued!StoreCode(r) \/ Issued!IndexCode(r) \/ Issued!Mark(r) \/
                Issued!MarkIndex(r)
      PROVE  Burned'
    BY <1>8 DEF Issued!StoreCode, Issued!StoreRow, Issued!IndexCode,
       Issued!StoreIndex, Issued!Mark, Issued!MarkIndex,
          Issued!At, Issued!Goto, Issued!database, Issued!locals,
             Issued!observed
<1>9. ASSUME NEW r \in Requests,
             Issued!ReadProvider(r) \/ Issued!IndexAccess(r) \/
                Issued!IndexRefresh(r)
      PROVE  Burned'
    BY <1>9 DEF Issued!ReadProvider, Issued!Remove, Issued!IndexAccess,
       Issued!StoreIndex, Issued!IndexRefresh,
          Issued!At, Issued!Goto, Issued!database, Issued!locals,
             Issued!observed
<1>10. ASSUME NEW r \in Requests, NEW i \in Issued!AccessTokens,
              Issued!StoreAccess(r, i)
       PROVE  Burned'
    BY <1>10 DEF Issued!StoreAccess, Issued!StoreRow, Issued!New, Issued!At,
       Issued!Goto, Issued!database, Issued!locals,
          Issued!observed
<1>11. ASSUME NEW r \in Requests, NEW i \in Issued!RefreshTokens,
              Issued!StoreRefresh(r, i)
       PROVE  Burned'
    BY <1>11 DEF Issued!StoreRefresh, Issued!StoreRow, Issued!New,
       Issued!At, Issued!Goto, Issued!database, Issued!locals,
          Issued!observed
<1>12. ASSUME NEW r \in Requests, Issued!Restore(r) \/ Issued!RestoreIndex(r)
       PROVE  Burned'
    BY <1>12 DEF Issued!Restore, Issued!StoreRow, Issued!RestoreIndex,
       Issued!StoreIndex, Issued!At, Issued!Goto,
          Issued!database, Issued!locals, Issued!observed
<1>13. ASSUME NEW r \in Requests,
              Issued!DropProvider(r) \/ Issued!Find(r) \/ Issued!DropRow(r)
                 \/ Issued!DropIndex(r)
       PROVE  Burned'
    BY <1>13 DEF Issued!DropProvider, Issued!Find, Issued!DropRow,
       Issued!StoreRow, Issued!DropIndex, Issued!Finish,
          Issued!Renewing, Issued!At, Issued!Goto, Issued!database,
             Issued!locals, Issued!observed
<1>14. ASSUME NEW r \in Requests,
              Issued!List(r) \/ Issued!NextList(r) \/ Issued!LastList(r) \/
                 Issued!DropClient(r)
       PROVE  Burned'
    BY <1>14 DEF Issued!List, Issued!Kind, Issued!NextList, Issued!LastList,
       Issued!DropClient, Issued!At, Issued!Goto,
          Issued!database, Issued!locals, Issued!observed
<1>15. ASSUME NEW r \in Requests, NEW i \in Issued!Items, Issued!NextItem(r, i)
       PROVE  Burned'
    BY <1>15 DEF Issued!NextItem, Issued!At, Issued!Goto, Issued!database,
       Issued!locals, Issued!observed
<1>16. ASSUME NEW r \in Requests,
              Issued!ReadFails(r) \/ Issued!StoreFails(r) \/
                 Issued!RemoveFails(r) \/ Issued!ListFails(r)
       PROVE  Burned'
    BY <1>16 DEF Issued!ReadFails, Issued!Fault, Issued!Absent,
       Issued!Remove, Issued!StoreFails, Issued!RemoveFails,
          Issued!Finish, Issued!ListFails, Issued!At, Issued!Goto,
             Issued!database, Issued!locals, Issued!observed
<1>17. ASSUME NEW i \in Issued!Items, Issued!Expire(i) \/ Issued!Purge(i)
       PROVE  Burned'
    BY <1>17 DEF Issued!Expire, Issued!Purge, Issued!StoreRow, Issued!At,
       Issued!Goto, Issued!database, Issued!locals, Issued!observed
<1>18. ASSUME UNCHANGED Issued!vars PROVE Burned'
    BY <1>18 DEF Issued!vars, Issued!database, Issued!locals, Issued!observed
<1> QED
    BY <1>1, <1>2, <1>3, <1>4, <1>5, <1>6, <1>7, <1>8, <1>9, <1>10, <1>11,
       <1>12, <1>13, <1>14, <1>15, <1>16, <1>17, <1>18 DEF Issued!Next,
          Issued!Ask, Issued!Look,
       Issued!Store, Issued!Drop, Issued!Fail

\* Index entries are made for new names, codes and refreshes only.
LEMMA GoneStep == TokensInv /\ [Issued!Next]_(Issued!vars) => Gone'
<1> SUFFICES ASSUME TokensInv, [Issued!Next]_(Issued!vars) PROVE Gone'
    OBVIOUS
<1> USE Kinds, Owners
    DEF TokensInv, Issued!TypeOK, OpOfStep, ItemOfOp, OfClient, Hidden,
       Gone, Issued!Renewing,
        Issued!Items, Issued!Tokens, Issued!Idle, Issued!Finding,
           Issued!Storing, Issued!Removing
<1>1. ASSUME NEW r \in Requests, NEW c \in Clients,
             Issued!Authorize(r, c) \/ Issued!Credentials(r, c) \/
                Issued!DeleteClient(r, c)
      PROVE  Gone'
    BY <1>1 DEF Issued!Authorize, Issued!Begin, Issued!Credentials,
       Issued!DeleteClient, Issued!WorkThrough, Issued!At,
          Issued!Goto, Issued!database, Issued!locals, Issued!observed
<1>2. ASSUME NEW r \in Requests, NEW i \in Issued!Items,
             Issued!Exchange(r, i) \/ Issued!Refresh(r, i) \/
                Issued!Validate(r, i) \/ Issued!Revoke(r, i)
      PROVE  Gone'
    BY <1>2 DEF Issued!Exchange, Issued!Begin, Issued!Refresh,
       Issued!Validate, Issued!Revoke, Issued!At, Issued!Goto, Issued!database,
          Issued!locals, Issued!observed
<1>3. ASSUME NEW r \in Requests,
             Issued!CleanUp(r) \/ Issued!ReadIndex(r) \/
                Issued!RowIsMissing(r) \/ Issued!DropStale(r)
      PROVE  Gone'
    BY <1>3 DEF Issued!CleanUp, Issued!WorkThrough, Issued!ReadIndex,
       Issued!Absent, Issued!RowIsMissing,
          Issued!DropStale, Issued!At, Issued!Goto, Issued!database,
             Issued!locals, Issued!observed
<1>4. ASSUME NEW r \in Requests,
             Issued!Mismatch(r) \/ Issued!ExchangeFound(r) \/
                Issued!RefreshFound(r)
      PROVE  Gone'
    BY <1>4 DEF Issued!Mismatch, Issued!Found, Issued!ExchangeFound,
       Issued!RefreshFound, Issued!Remove, Issued!At, Issued!Goto,
          Issued!database, Issued!locals, Issued!observed
<1>5. ASSUME NEW r \in Requests,
             Issued!ValidateFound(r) \/ Issued!RevokeFound(r) \/
                Issued!CleanUpFound(r)
      PROVE  Gone'
    BY <1>5 DEF Issued!ValidateFound, Issued!Found, Issued!Remove,
       Issued!RevokeFound, Issued!CleanUpFound, Issued!At,
          Issued!Goto, Issued!database, Issued!locals, Issued!observed
<1>6. ASSUME NEW r \in Requests, NEW i \in Issued!Codes,
             Issued!StoreProvider(r, i)
      PROVE  Gone'
    BY <1>6 DEF Issued!StoreProvider, Issued!New, Issued!At, Issued!Goto,
       Issued!database, Issued!locals, Issued!observed
<1>7. ASSUME NEW r \in Requests,
             Issued!StoreCode(r) \/ Issued!IndexCode(r) \/ Issued!Mark(r) \/
                Issued!MarkIndex(r)
      PROVE  Gone'
    BY <1>7 DEF Issued!StoreCode, Issued!StoreRow, Issued!IndexCode,
       Issued!StoreIndex, Issued!Mark, Issued!MarkIndex,
          Issued!At, Issued!Goto, Issued!database, Issued!locals,
             Issued!observed
<1>8. ASSUME NEW r \in Requests,
             Issued!ReadProvider(r) \/ Issued!IndexAccess(r) \/
                Issued!IndexRefresh(r)
      PROVE  Gone'
    BY <1>8 DEF Issued!ReadProvider, Issued!Remove, Issued!IndexAccess,
       Issued!StoreIndex, Issued!IndexRefresh,
          Issued!At, Issued!Goto, Issued!database, Issued!locals,
             Issued!observed
<1>9. ASSUME NEW r \in Requests, NEW i \in Issued!AccessTokens,
             Issued!StoreAccess(r, i)
      PROVE  Gone'
    BY <1>9 DEF Issued!StoreAccess, Issued!StoreRow, Issued!New, Issued!At,
       Issued!Goto, Issued!database, Issued!locals,
          Issued!observed
<1>10. ASSUME NEW r \in Requests, NEW i \in Issued!RefreshTokens,
              Issued!StoreRefresh(r, i)
       PROVE  Gone'
    BY <1>10 DEF Issued!StoreRefresh, Issued!StoreRow, Issued!New,
       Issued!At, Issued!Goto, Issued!database, Issued!locals,
          Issued!observed
<1>11. ASSUME NEW r \in Requests, Issued!Restore(r) \/ Issued!RestoreIndex(r)
       PROVE  Gone'
    BY <1>11 DEF Issued!Restore, Issued!StoreRow, Issued!RestoreIndex,
       Issued!StoreIndex, Issued!At, Issued!Goto,
          Issued!database, Issued!locals, Issued!observed
<1>12. ASSUME NEW r \in Requests,
              Issued!DropProvider(r) \/ Issued!Find(r) \/ Issued!DropRow(r)
                 \/ Issued!DropIndex(r)
       PROVE  Gone'
    BY <1>12 DEF Issued!DropProvider, Issued!Find, Issued!DropRow,
       Issued!StoreRow, Issued!DropIndex, Issued!Finish,
          Issued!Renewing, Issued!At, Issued!Goto, Issued!database,
             Issued!locals, Issued!observed
<1>13. ASSUME NEW r \in Requests,
              Issued!List(r) \/ Issued!NextList(r) \/ Issued!LastList(r) \/
                 Issued!DropClient(r)
       PROVE  Gone'
    BY <1>13 DEF Issued!List, Issued!Kind, Issued!NextList, Issued!LastList,
       Issued!DropClient, Issued!At, Issued!Goto,
          Issued!database, Issued!locals, Issued!observed
<1>14. ASSUME NEW r \in Requests, NEW i \in Issued!Items, Issued!NextItem(r, i)
       PROVE  Gone'
    BY <1>14 DEF Issued!NextItem, Issued!At, Issued!Goto, Issued!database,
       Issued!locals, Issued!observed
<1>15. ASSUME NEW r \in Requests,
              Issued!ReadFails(r) \/ Issued!StoreFails(r) \/
                 Issued!RemoveFails(r) \/ Issued!ListFails(r)
       PROVE  Gone'
    BY <1>15 DEF Issued!ReadFails, Issued!Fault, Issued!Absent,
       Issued!Remove, Issued!StoreFails, Issued!RemoveFails,
          Issued!Finish, Issued!ListFails, Issued!At, Issued!Goto,
             Issued!database, Issued!locals, Issued!observed
<1>16. ASSUME NEW i \in Issued!Items, Issued!Expire(i) \/ Issued!Purge(i)
       PROVE  Gone'
    BY <1>16 DEF Issued!Expire, Issued!Purge, Issued!StoreRow, Issued!At,
       Issued!Goto, Issued!database, Issued!locals, Issued!observed
<1>17. ASSUME UNCHANGED Issued!vars PROVE Gone'
    BY <1>17 DEF Issued!vars, Issued!database, Issued!locals, Issued!observed
<1> QED
    BY <1>1, <1>2, <1>3, <1>4, <1>5, <1>6, <1>7, <1>8, <1>9, <1>10, <1>11,
       <1>12, <1>13, <1>14, <1>15, <1>16, <1>17 DEF Issued!Next, Issued!Ask,
          Issued!Look, Issued!Store,
       Issued!Drop, Issued!Fail

\* A token is stored whole, and what is removed has expired or is revoked.
LEMMA CompleteStep == TokensInv /\ [Issued!Next]_(Issued!vars) => Complete'
<1> SUFFICES ASSUME TokensInv, [Issued!Next]_(Issued!vars) PROVE Complete'
    OBVIOUS
<1> USE Kinds, Owners
    DEF TokensInv, Issued!TypeOK, OpOfStep, ItemOfOp, Known, Complete,
       Removable, Indexing,
        Issued!Items, Issued!Tokens, Issued!Idle, Issued!Finding,
           Issued!Storing, Issued!Removing
<1>1. ASSUME NEW r \in Requests, NEW c \in Clients,
             Issued!Authorize(r, c) \/ Issued!Credentials(r, c) \/
                Issued!DeleteClient(r, c)
      PROVE  Complete'
    BY <1>1 DEF Issued!Authorize, Issued!Begin, Issued!Credentials,
       Issued!DeleteClient, Issued!WorkThrough, Issued!At,
          Issued!Goto, Issued!database, Issued!locals, Issued!observed
<1>2. ASSUME NEW r \in Requests, NEW i \in Issued!Items,
             Issued!Exchange(r, i) \/ Issued!Refresh(r, i) \/
                Issued!Validate(r, i) \/ Issued!Revoke(r, i)
      PROVE  Complete'
    BY <1>2 DEF Issued!Exchange, Issued!Begin, Issued!Refresh,
       Issued!Validate, Issued!Revoke, Issued!At, Issued!Goto, Issued!database,
          Issued!locals, Issued!observed
<1>3. ASSUME NEW r \in Requests,
             Issued!CleanUp(r) \/ Issued!ReadIndex(r) \/
                Issued!RowIsMissing(r) \/ Issued!DropStale(r)
      PROVE  Complete'
    BY <1>3 DEF Issued!CleanUp, Issued!WorkThrough, Issued!ReadIndex,
       Issued!Absent, Issued!RowIsMissing,
          Issued!DropStale, Issued!At, Issued!Goto, Issued!database,
             Issued!locals, Issued!observed
<1>4. ASSUME NEW r \in Requests,
             Issued!Mismatch(r) \/ Issued!ExchangeFound(r) \/
                Issued!RefreshFound(r)
      PROVE  Complete'
    BY <1>4 DEF Issued!Mismatch, Issued!Found, Issued!ExchangeFound,
       Issued!RefreshFound, Issued!Remove, Issued!At, Issued!Goto,
          Issued!database, Issued!locals, Issued!observed
<1>5. ASSUME NEW r \in Requests,
             Issued!ValidateFound(r) \/ Issued!RevokeFound(r) \/
                Issued!CleanUpFound(r)
      PROVE  Complete'
    BY <1>5 DEF Issued!ValidateFound, Issued!Found, Issued!Remove,
       Issued!RevokeFound, Issued!CleanUpFound, Issued!At,
          Issued!Goto, Issued!database, Issued!locals, Issued!observed
<1>6. ASSUME NEW r \in Requests, NEW i \in Issued!Codes,
             Issued!StoreProvider(r, i)
      PROVE  Complete'
    BY <1>6 DEF Issued!StoreProvider, Issued!New, Issued!At, Issued!Goto,
       Issued!database, Issued!locals, Issued!observed
<1>7. ASSUME NEW r \in Requests,
             Issued!StoreCode(r) \/ Issued!IndexCode(r) \/ Issued!Mark(r) \/
                Issued!MarkIndex(r)
      PROVE  Complete'
    BY <1>7 DEF Issued!StoreCode, Issued!StoreRow, Issued!IndexCode,
       Issued!StoreIndex, Issued!Mark, Issued!MarkIndex,
          Issued!At, Issued!Goto, Issued!database, Issued!locals,
             Issued!observed
<1>8. ASSUME NEW r \in Requests,
             Issued!ReadProvider(r) \/ Issued!IndexAccess(r) \/
                Issued!IndexRefresh(r)
      PROVE  Complete'
    BY <1>8 DEF Issued!ReadProvider, Issued!Remove, Issued!IndexAccess,
       Issued!StoreIndex, Issued!IndexRefresh,
          Issued!At, Issued!Goto, Issued!database, Issued!locals,
             Issued!observed
<1>9. ASSUME NEW r \in Requests, NEW i \in Issued!AccessTokens,
             Issued!StoreAccess(r, i)
      PROVE  Complete'
    BY <1>9 DEF Issued!StoreAccess, Issued!StoreRow, Issued!New, Issued!At,
       Issued!Goto, Issued!database, Issued!locals,
          Issued!observed
<1>10. ASSUME NEW r \in Requests, NEW i \in Issued!RefreshTokens,
              Issued!StoreRefresh(r, i)
       PROVE  Complete'
    BY <1>10 DEF Issued!StoreRefresh, Issued!StoreRow, Issued!New,
       Issued!At, Issued!Goto, Issued!database, Issued!locals,
          Issued!observed
<1>11. ASSUME NEW r \in Requests, Issued!Restore(r) \/ Issued!RestoreIndex(r)
       PROVE  Complete'
    BY <1>11 DEF Issued!Restore, Issued!StoreRow, Issued!RestoreIndex,
       Issued!StoreIndex, Issued!At, Issued!Goto,
          Issued!database, Issued!locals, Issued!observed
<1>12. ASSUME NEW r \in Requests,
              Issued!DropProvider(r) \/ Issued!Find(r) \/ Issued!DropRow(r)
                 \/ Issued!DropIndex(r)
       PROVE  Complete'
    BY <1>12 DEF Issued!DropProvider, Issued!Find, Issued!DropRow,
       Issued!StoreRow, Issued!DropIndex, Issued!Finish,
          Issued!Renewing, Issued!At, Issued!Goto, Issued!database,
             Issued!locals, Issued!observed
<1>13. ASSUME NEW r \in Requests,
              Issued!List(r) \/ Issued!NextList(r) \/ Issued!LastList(r) \/
                 Issued!DropClient(r)
       PROVE  Complete'
    BY <1>13 DEF Issued!List, Issued!Kind, Issued!NextList, Issued!LastList,
       Issued!DropClient, Issued!At, Issued!Goto,
          Issued!database, Issued!locals, Issued!observed
<1>14. ASSUME NEW r \in Requests, NEW i \in Issued!Items,
              Issued!NextItem(r, i)
       PROVE  Complete'
    BY <1>14 DEF Issued!NextItem, Issued!At, Issued!Goto, Issued!database,
       Issued!locals, Issued!observed
<1>15. ASSUME NEW r \in Requests,
              Issued!ReadFails(r) \/ Issued!StoreFails(r) \/
                 Issued!RemoveFails(r) \/ Issued!ListFails(r)
       PROVE  Complete'
    BY <1>15 DEF Issued!ReadFails, Issued!Fault, Issued!Absent,
       Issued!Remove, Issued!StoreFails, Issued!RemoveFails,
          Issued!Finish, Issued!ListFails, Issued!At, Issued!Goto,
             Issued!database, Issued!locals, Issued!observed
<1>16. ASSUME NEW i \in Issued!Items, Issued!Expire(i) \/ Issued!Purge(i)
       PROVE  Complete'
    BY <1>16 DEF Issued!Expire, Issued!Purge, Issued!StoreRow, Issued!At,
       Issued!Goto, Issued!database, Issued!locals, Issued!observed
<1>17. ASSUME UNCHANGED Issued!vars PROVE Complete'
    BY <1>17 DEF Issued!vars, Issued!database, Issued!locals, Issued!observed
<1> QED
    BY <1>1, <1>2, <1>3, <1>4, <1>5, <1>6, <1>7, <1>8, <1>9, <1>10, <1>11,
       <1>12, <1>13, <1>14, <1>15, <1>16, <1>17 DEF Issued!Next, Issued!Ask,
          Issued!Look, Issued!Store,
       Issued!Drop, Issued!Fail

\* A removal begins with what has expired or is revoked.
LEMMA RemovableStep == TokensInv /\ [Issued!Next]_(Issued!vars) => Removable'
<1> SUFFICES ASSUME TokensInv, [Issued!Next]_(Issued!vars) PROVE Removable'
    OBVIOUS
<1> USE Kinds, Owners
    DEF TokensInv, Issued!TypeOK, OpOfStep, ItemOfOp, Complete, Removable,
       Settled,
        Issued!Items, Issued!Tokens, Issued!Idle, Issued!Finding,
           Issued!Storing, Issued!Removing
<1>1. ASSUME NEW r \in Requests, NEW c \in Clients,
             Issued!Authorize(r, c) \/ Issued!Credentials(r, c) \/
                Issued!DeleteClient(r, c)
      PROVE  Removable'
    BY <1>1 DEF Issued!Authorize, Issued!Begin, Issued!Credentials,
       Issued!DeleteClient, Issued!WorkThrough, Issued!At,
          Issued!Goto, Issued!database, Issued!locals, Issued!observed
<1>2. ASSUME NEW r \in Requests, NEW i \in Issued!Items,
             Issued!Exchange(r, i) \/ Issued!Refresh(r, i) \/
                Issued!Validate(r, i) \/ Issued!Revoke(r, i)
      PROVE  Removable'
    BY <1>2 DEF Issued!Exchange, Issued!Begin, Issued!Refresh,
       Issued!Validate, Issued!Revoke, Issued!At, Issued!Goto, Issued!database,
          Issued!locals, Issued!observed
<1>3. ASSUME NEW r \in Requests,
             Issued!CleanUp(r) \/ Issued!ReadIndex(r) \/
                Issued!RowIsMissing(r) \/ Issued!DropStale(r)
      PROVE  Removable'
    BY <1>3 DEF Issued!CleanUp, Issued!WorkThrough, Issued!ReadIndex,
       Issued!Absent, Issued!RowIsMissing,
          Issued!DropStale, Issued!At, Issued!Goto, Issued!database,
             Issued!locals, Issued!observed
<1>4. ASSUME NEW r \in Requests,
             Issued!Mismatch(r) \/ Issued!ExchangeFound(r) \/
                Issued!RefreshFound(r)
      PROVE  Removable'
    BY <1>4 DEF Issued!Mismatch, Issued!Found, Issued!ExchangeFound,
       Issued!RefreshFound, Issued!Remove, Issued!At, Issued!Goto,
          Issued!database, Issued!locals, Issued!observed
<1>5. ASSUME NEW r \in Requests,
             Issued!ValidateFound(r) \/ Issued!RevokeFound(r) \/
                Issued!CleanUpFound(r)
      PROVE  Removable'
    BY <1>5 DEF Issued!ValidateFound, Issued!Found, Issued!Remove,
       Issued!RevokeFound, Issued!CleanUpFound, Issued!At,
          Issued!Goto, Issued!database, Issued!locals, Issued!observed
<1>6. ASSUME NEW r \in Requests, NEW i \in Issued!Codes,
             Issued!StoreProvider(r, i)
      PROVE  Removable'
    BY <1>6 DEF Issued!StoreProvider, Issued!New, Issued!At, Issued!Goto,
       Issued!database, Issued!locals, Issued!observed
<1>7. ASSUME NEW r \in Requests,
             Issued!StoreCode(r) \/ Issued!IndexCode(r) \/ Issued!Mark(r) \/
                Issued!MarkIndex(r)
      PROVE  Removable'
    BY <1>7 DEF Issued!StoreCode, Issued!StoreRow, Issued!IndexCode,
       Issued!StoreIndex, Issued!Mark, Issued!MarkIndex,
          Issued!At, Issued!Goto, Issued!database, Issued!locals,
             Issued!observed
<1>8. ASSUME NEW r \in Requests,
             Issued!ReadProvider(r) \/ Issued!IndexAccess(r) \/
                Issued!IndexRefresh(r)
      PROVE  Removable'
    BY <1>8 DEF Issued!ReadProvider, Issued!Remove, Issued!IndexAccess,
       Issued!StoreIndex, Issued!IndexRefresh,
          Issued!At, Issued!Goto, Issued!database, Issued!locals,
             Issued!observed
<1>9. ASSUME NEW r \in Requests, NEW i \in Issued!AccessTokens,
             Issued!StoreAccess(r, i)
      PROVE  Removable'
    BY <1>9 DEF Issued!StoreAccess, Issued!StoreRow, Issued!New, Issued!At,
       Issued!Goto, Issued!database, Issued!locals,
          Issued!observed
<1>10. ASSUME NEW r \in Requests, NEW i \in Issued!RefreshTokens,
              Issued!StoreRefresh(r, i)
       PROVE  Removable'
    BY <1>10 DEF Issued!StoreRefresh, Issued!StoreRow, Issued!New,
       Issued!At, Issued!Goto, Issued!database, Issued!locals,
          Issued!observed
<1>11. ASSUME NEW r \in Requests,
              Issued!Restore(r) \/ Issued!RestoreIndex(r)
       PROVE  Removable'
    BY <1>11 DEF Issued!Restore, Issued!StoreRow, Issued!RestoreIndex,
       Issued!StoreIndex, Issued!At, Issued!Goto,
          Issued!database, Issued!locals, Issued!observed
<1>12. ASSUME NEW r \in Requests,
              Issued!DropProvider(r) \/ Issued!Find(r) \/ Issued!DropRow(r)
                 \/ Issued!DropIndex(r)
       PROVE  Removable'
    BY <1>12 DEF Issued!DropProvider, Issued!Find, Issued!DropRow,
       Issued!StoreRow, Issued!DropIndex, Issued!Finish,
          Issued!Renewing, Issued!At, Issued!Goto, Issued!database,
             Issued!locals, Issued!observed
<1>13. ASSUME NEW r \in Requests,
              Issued!List(r) \/ Issued!NextList(r) \/ Issued!LastList(r) \/
                 Issued!DropClient(r)
       PROVE  Removable'
    BY <1>13 DEF Issued!List, Issued!Kind, Issued!NextList, Issued!LastList,
       Issued!DropClient, Issued!At, Issued!Goto,
          Issued!database, Issued!locals, Issued!observed
<1>14. ASSUME NEW r \in Requests, NEW i \in Issued!Items,
              Issued!NextItem(r, i)
       PROVE  Removable'
    BY <1>14 DEF Issued!NextItem, Issued!At, Issued!Goto, Issued!database,
       Issued!locals, Issued!observed
<1>15. ASSUME NEW r \in Requests,
              Issued!ReadFails(r) \/ Issued!StoreFails(r) \/
                 Issued!RemoveFails(r) \/ Issued!ListFails(r)
       PROVE  Removable'
    BY <1>15 DEF Issued!ReadFails, Issued!Fault, Issued!Absent,
       Issued!Remove, Issued!StoreFails, Issued!RemoveFails,
          Issued!Finish, Issued!ListFails, Issued!At, Issued!Goto,
             Issued!database, Issued!locals, Issued!observed
<1>16. ASSUME NEW i \in Issued!Items, Issued!Expire(i) \/ Issued!Purge(i)
       PROVE  Removable'
    BY <1>16 DEF Issued!Expire, Issued!Purge, Issued!StoreRow, Issued!At,
       Issued!Goto, Issued!database, Issued!locals, Issued!observed
<1>17. ASSUME UNCHANGED Issued!vars PROVE Removable'
    BY <1>17 DEF Issued!vars, Issued!database, Issued!locals, Issued!observed
<1> QED
    BY <1>1, <1>2, <1>3, <1>4, <1>5, <1>6, <1>7, <1>8, <1>9, <1>10, <1>11,
       <1>12, <1>13, <1>14, <1>15, <1>16, <1>17 DEF Issued!Next, Issued!Ask,
          Issued!Look, Issued!Store,
       Issued!Drop, Issued!Fail

\* The clean-up begins with a list of the index.
LEMMA SettledStep == TokensInv /\ [Issued!Next]_(Issued!vars) => Settled'
<1> SUFFICES ASSUME TokensInv, [Issued!Next]_(Issued!vars) PROVE Settled'
    OBVIOUS
<1> USE Kinds, Owners
    DEF TokensInv, Issued!TypeOK, OpOfStep, ItemOfOp, Known, Hidden,
       Settled, Indexing,
        Issued!Items, Issued!Tokens, Issued!Idle, Issued!Finding,
           Issued!Storing, Issued!Removing
<1>1. ASSUME NEW r \in Requests, NEW c \in Clients,
             Issued!Authorize(r, c) \/ Issued!Credentials(r, c) \/
                Issued!DeleteClient(r, c)
      PROVE  Settled'
    BY <1>1 DEF Issued!Authorize, Issued!Begin, Issued!Credentials,
       Issued!DeleteClient, Issued!WorkThrough, Issued!At,
          Issued!Goto, Issued!database, Issued!locals, Issued!observed
<1>2. ASSUME NEW r \in Requests, NEW i \in Issued!Items,
             Issued!Exchange(r, i) \/ Issued!Refresh(r, i) \/
                Issued!Validate(r, i) \/ Issued!Revoke(r, i)
      PROVE  Settled'
    BY <1>2 DEF Issued!Exchange, Issued!Begin, Issued!Refresh,
       Issued!Validate, Issued!Revoke, Issued!At, Issued!Goto, Issued!database,
          Issued!locals, Issued!observed
<1>3. ASSUME NEW r \in Requests,
             Issued!CleanUp(r) \/ Issued!ReadIndex(r) \/
                Issued!RowIsMissing(r) \/ Issued!DropStale(r)
      PROVE  Settled'
    BY <1>3 DEF Issued!CleanUp, Issued!WorkThrough, Issued!ReadIndex,
       Issued!Absent, Issued!RowIsMissing,
          Issued!DropStale, Issued!At, Issued!Goto, Issued!database,
             Issued!locals, Issued!observed
<1>4. ASSUME NEW r \in Requests,
             Issued!Mismatch(r) \/ Issued!ExchangeFound(r) \/
                Issued!RefreshFound(r)
      PROVE  Settled'
    BY <1>4 DEF Issued!Mismatch, Issued!Found, Issued!ExchangeFound,
       Issued!RefreshFound, Issued!Remove, Issued!At, Issued!Goto,
          Issued!database, Issued!locals, Issued!observed
<1>5. ASSUME NEW r \in Requests,
             Issued!ValidateFound(r) \/ Issued!RevokeFound(r) \/
                Issued!CleanUpFound(r)
      PROVE  Settled'
    BY <1>5 DEF Issued!ValidateFound, Issued!Found, Issued!Remove,
       Issued!RevokeFound, Issued!CleanUpFound, Issued!At,
          Issued!Goto, Issued!database, Issued!locals, Issued!observed
<1>6. ASSUME NEW r \in Requests, NEW i \in Issued!Codes,
             Issued!StoreProvider(r, i)
      PROVE  Settled'
    BY <1>6 DEF Issued!StoreProvider, Issued!New, Issued!At, Issued!Goto,
       Issued!database, Issued!locals, Issued!observed
<1>7. ASSUME NEW r \in Requests,
             Issued!StoreCode(r) \/ Issued!IndexCode(r) \/ Issued!Mark(r) \/
                Issued!MarkIndex(r)
      PROVE  Settled'
    BY <1>7 DEF Issued!StoreCode, Issued!StoreRow, Issued!IndexCode,
       Issued!StoreIndex, Issued!Mark, Issued!MarkIndex,
          Issued!At, Issued!Goto, Issued!database, Issued!locals,
             Issued!observed
<1>8. ASSUME NEW r \in Requests,
             Issued!ReadProvider(r) \/ Issued!IndexAccess(r) \/
                Issued!IndexRefresh(r)
      PROVE  Settled'
    BY <1>8 DEF Issued!ReadProvider, Issued!Remove, Issued!IndexAccess,
       Issued!StoreIndex, Issued!IndexRefresh,
          Issued!At, Issued!Goto, Issued!database, Issued!locals,
             Issued!observed
<1>9. ASSUME NEW r \in Requests, NEW i \in Issued!AccessTokens,
             Issued!StoreAccess(r, i)
      PROVE  Settled'
    BY SMTT(20), <1>9 DEF Issued!StoreAccess, Issued!StoreRow, Issued!New,
       Issued!At, Issued!Goto, Issued!database,
          Issued!locals, Issued!observed
<1>10. ASSUME NEW r \in Requests, NEW i \in Issued!RefreshTokens,
              Issued!StoreRefresh(r, i)
       PROVE  Settled'
    BY <1>10 DEF Issued!StoreRefresh, Issued!StoreRow, Issued!New,
       Issued!At, Issued!Goto, Issued!database, Issued!locals,
          Issued!observed
<1>11. ASSUME NEW r \in Requests, Issued!Restore(r) \/ Issued!RestoreIndex(r)
       PROVE  Settled'
    BY <1>11 DEF Issued!Restore, Issued!StoreRow, Issued!RestoreIndex,
       Issued!StoreIndex, Issued!At, Issued!Goto,
          Issued!database, Issued!locals, Issued!observed
<1>12. ASSUME NEW r \in Requests,
              Issued!DropProvider(r) \/ Issued!Find(r) \/ Issued!DropRow(r)
                 \/ Issued!DropIndex(r)
       PROVE  Settled'
    BY <1>12 DEF Issued!DropProvider, Issued!Find, Issued!DropRow,
       Issued!StoreRow, Issued!DropIndex, Issued!Finish,
          Issued!Renewing, Issued!At, Issued!Goto, Issued!database,
             Issued!locals, Issued!observed
<1>13. ASSUME NEW r \in Requests,
              Issued!List(r) \/ Issued!NextList(r) \/ Issued!LastList(r) \/
                 Issued!DropClient(r)
       PROVE  Settled'
    BY <1>13 DEF Issued!List, Issued!Kind, Issued!NextList, Issued!LastList,
       Issued!DropClient, Issued!At, Issued!Goto,
          Issued!database, Issued!locals, Issued!observed
<1>14. ASSUME NEW r \in Requests, NEW i \in Issued!Items,
              Issued!NextItem(r, i)
       PROVE  Settled'
    BY <1>14 DEF Issued!NextItem, Issued!At, Issued!Goto, Issued!database,
       Issued!locals, Issued!observed
<1>15. ASSUME NEW r \in Requests,
              Issued!ReadFails(r) \/ Issued!StoreFails(r) \/
                 Issued!RemoveFails(r) \/ Issued!ListFails(r)
       PROVE  Settled'
    BY <1>15 DEF Issued!ReadFails, Issued!Fault, Issued!Absent,
       Issued!Remove, Issued!StoreFails, Issued!RemoveFails,
          Issued!Finish, Issued!ListFails, Issued!At, Issued!Goto,
             Issued!database, Issued!locals, Issued!observed
<1>16. ASSUME NEW i \in Issued!Items, Issued!Expire(i) \/ Issued!Purge(i)
       PROVE  Settled'
    BY <1>16 DEF Issued!Expire, Issued!Purge, Issued!StoreRow, Issued!At,
       Issued!Goto, Issued!database, Issued!locals, Issued!observed
<1>17. ASSUME UNCHANGED Issued!vars PROVE Settled'
    BY <1>17 DEF Issued!vars, Issued!database, Issued!locals, Issued!observed
<1> QED
    BY <1>1, <1>2, <1>3, <1>4, <1>5, <1>6, <1>7, <1>8, <1>9, <1>10, <1>11,
       <1>12, <1>13, <1>14, <1>15, <1>16, <1>17 DEF Issued!Next, Issued!Ask,
          Issued!Look, Issued!Store,
       Issued!Drop, Issued!Fail

\* The invariant holds at the beginning.
LEMMA TokensInit == Issued!Init => TokensInv
<1> SUFFICES ASSUME Issued!Init PROVE TokensInv
    OBVIOUS
<1> USE Kinds, Owners DEF Issued!Init, Issued!Idle, Issued!Finding,
   Issued!Storing, Issued!Removing
<1>1. Issued!TypeOK
    BY DEF Issued!TypeOK, Issued!Steps, Issued!Operations
<1>2. OpOfStep /\ ItemOfOp /\ OfClient /\ Known
    BY DEF OpOfStep, ItemOfOp, OfClient, Known
<1>3. \A r \in Requests : pc[r] = "idle"
    OBVIOUS
<1>4. \A r \in Requests : ~HasAccess(r) /\ ~HasRefresh(r)
    BY <1>3 DEF HasAccess, HasRefresh
<1>5. Owned /\ AccessApart /\ RefreshApart
    BY <1>3, <1>4 DEF Owned, AccessApart, RefreshApart
<1>6. CodeApart /\ Hidden
    BY <1>3 DEF CodeApart, Hidden
<1>7. Burned /\ Gone
    BY DEF Burned, Marked, Refused, Gone
<1>8. Complete /\ Removable /\ Settled
    BY <1>3 DEF Complete, Removable, Settled
<1> QED
    BY <1>1, <1>2, <1>5, <1>6, <1>7, <1>8 DEF TokensInv

\* The invariant holds in every behaviour.
THEOREM TokensInvariance == Issued!Spec => []TokensInv
<1>1. Issued!Init => TokensInv
    BY TokensInit
<1>2. TokensInv /\ [Issued!Next]_(Issued!vars) => TokensInv'
    BY TokensTypeStep, OpStep, ItemStep, ClientStep, KnownStep, OwnedStep,
          AccessStep,
       RefreshStep, CodeStep, HiddenStep, BurnedStep, GoneStep, CompleteStep,
       RemovableStep, SettledStep DEF TokensInv
<1> QED
    BY <1>1, <1>2, PTL DEF Issued!Spec

\* The variables have their types.
THEOREM TokensTypeCorrect == Issued!Spec => []Issued!TypeOK
<1>1. TokensInv => Issued!TypeOK
    BY DEF TokensInv
<1> QED
    BY <1>1, TokensInvariance, PTL

\* A code that has bought tokens buys no more (exchange_authorization_code,
\* the "used" mark).
THEOREM CodesAreSpent == Issued!Spec => []Issued!CodeIsSpent
<1>1. TokensInv => Issued!CodeIsSpent
    BY DEF TokensInv, Burned, Refused, Issued!CodeIsSpent, Issued!Finding,
       Issued!Removing
<1> QED
    BY <1>1, TokensInvariance, PTL

\* A token whose revocation is over is not found again, unless a refresh had
\* found it before (revoke_token, refresh_access_token).
THEOREM RevocationHolds == Issued!Spec => []Issued!RevokedIsGone
<1>1. TokensInv => Issued!RevokedIsGone
    BY DEF TokensInv, Gone, Issued!RevokedIsGone
<1> QED
    BY <1>1, TokensInvariance, PTL

\* Without failed accesses a token can be used until it expires or somebody
\* revokes it (_search_token_in_actors, cleanup_expired_tokens).
THEOREM TokensCanBeUsed == Issued!Spec => []Issued!HandedOutIsUsable
<1>1. TokensInv => Issued!HandedOutIsUsable
    BY DEF TokensInv, Known, Hidden, Complete, Indexing,
       Issued!HandedOutIsUsable
<1> QED
    BY <1>1, TokensInvariance, PTL

=============================================================================
