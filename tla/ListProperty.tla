---------------------------- MODULE ListProperty ----------------------------
(***************************************************************************)
(* A list property in storage format 2 (actingweb/property_list.py): each  *)
(* item is a row named by a rank key, and a metadata row carries           *)
(* count_hint, an advisory item count.  Requests of several processes      *)
(* mutate the list at the same time and meet only in the database, so each *)
(* action is one database access and what follows it locally.              *)
(*                                                                         *)
(* An item is named by the operation that wrote it: no two operations      *)
(* write the same bytes.  A rank key is a number; the keys of a list that  *)
(* was only appended to are even, and an insertion between two neighbours  *)
(* takes the odd number between them.  The real keys are strings with room *)
(* for more, so a step that would need a key outside of Ranks is left out. *)
(* A metadata row is told from another by its token, as the bytes of the   *)
(* code's rows are told apart by their updated_at.                         *)
(***************************************************************************)
EXTENDS Integers, FiniteSets

CONSTANTS
    Writers,            \* Requests (or processes) that hold an instance.
    Kinds,              \* The operations they call.
    MaxRank,            \* Rank keys are 0..MaxRank (a bound of the model).
    MaxInitial,         \* Up to how many items there are at the start.
    MaxOps,             \* How many operations are called, all in all.
    MaxRankRetries,     \* _V2_MAX_RANK_RETRIES.
    MaxTouches,         \* _METADATA_CAS_ADVISORY_MAX_ATTEMPTS.
    MaxCrashes          \* How many operations die half way.

Adding == {"append", "insert"}
Positional == {"pop", "setitem", "delitem"}
ByHandle == {"delete_by_handle", "update_by_handle"}
Emptying == {"clear", "delete"}
\* These write the number of ranks they know, the others add to the hint.
Counting == Positional \cup {"remove"}

ASSUME WritersAssumption == IsFiniteSet(Writers)
ASSUME KindsAssumption == Kinds \subseteq Adding \cup Counting \cup ByHandle \cup Emptying
ASSUME BoundsAssumption ==
    /\ MaxRank \in Nat /\ MaxInitial \in Nat /\ MaxOps \in Nat
    /\ MaxRankRetries \in Nat \ {0} /\ MaxTouches \in Nat \ {0}
    /\ MaxCrashes \in Nat

Ranks == 0..MaxRank
NoRank == -1
Items == 1..(MaxInitial + MaxOps)
NoItem == 0

VARIABLES
    (* The database. *)
    rows,           \* The item at each rank key.
    meta,           \* The metadata row.
    tokens,         \* How many metadata rows were written.
    (* Each writer: its operation, and the rank cache of its instance. *)
    op, cache,
    (* What was observed. *)
    ops,            \* Operations called.
    committed,      \* Items that were written to the list.
    reported,       \* The item an operation said it took out or replaced.
    destroyed,      \* Items taken out without being reported.
    failed,         \* Touches that failed since the last counted one.
    raced,          \* Did one of the hint's race windows ever open?
    crashes

database == <<rows, meta, tokens>>
observed == <<ops, committed, reported, destroyed, failed, crashes>>
listVars == <<rows, meta, tokens, op, cache, ops, committed, reported,
              destroyed, failed, raced, crashes>>

NoMeta == [token |-> 0, hint |-> 0]
Metas == [token : Nat, hint : Nat]
Unrecorded == {"touch", "reread", "put"}
ListSteps == {"idle", "last", "create", "ranks", "dispatch", "get", "write",
          "sweep", "wipe", "drop"} \cup Unrecorded
NoOp == [step |-> "idle", kind |-> "none", item |-> NoItem, at |-> NoRank,
         seen |-> NoItem, stash |-> NoMeta, tries |-> 0]
Cold == [warm |-> FALSE, ranks |-> {}]

ListTypeOK ==
    /\ rows \in [Ranks -> Items \cup {NoItem}]
    /\ meta \in Metas /\ tokens \in Nat /\ meta.token <= tokens
    /\ op \in [Writers -> [step : ListSteps, kind : Kinds \cup {"none"},
                           item : Items \cup {NoItem}, at : Ranks \cup {NoRank},
                           seen : Items \cup {NoItem}, stash : Metas,
                           tries : 0..(MaxRankRetries + MaxTouches)]]
    /\ cache \in [Writers -> [warm : BOOLEAN, ranks : SUBSET Ranks]]
    /\ ops \in 0..MaxOps
    /\ committed \in SUBSET Items /\ destroyed \in SUBSET Items
    /\ reported \in [Items -> Items \cup {NoItem}]
    /\ failed \in Nat /\ raced \in BOOLEAN /\ crashes \in 0..MaxCrashes

-----------------------------------------------------------------------------
(* Rank keys.                                                              *)

Held == {r \in Ranks : rows[r] # NoItem}
Above(known, r) == {s \in known : s > r}
Least(S) == CHOOSE r \in S : \A s \in S : r <= s
Greatest(S) == CHOOSE r \in S : \A s \in S : s <= r
LastRank == IF Held = {} THEN NoRank ELSE Greatest(Held)

\* The first key there is, and the next and previous whole key.
FirstRank == 2 * (MaxRank \div 4)
NextRank(r) == 2 * (r \div 2) + 2
PreviousRank(r) == 2 * ((r + 1) \div 2) - 2

\* generate_key_between(lower, upper): a whole key where one fits.
RankBetween(lower, upper) ==
    IF lower = NoRank
    THEN IF upper = NoRank THEN FirstRank
         ELSE IF upper % 2 = 1 THEN upper - 1 ELSE PreviousRank(upper)
    ELSE IF upper = NoRank \/ NextRank(lower) < upper THEN NextRank(lower)
         ELSE lower + 1

\* The ranks of a new list of n items.
Spread(n) == {FirstRank + 2 * (i - 1) : i \in 1..n}

\* There is a key for each of them.
ASSUME RoomAssumption == Spread(MaxInitial) \subseteq Ranks

ListInit ==
    /\ \E n \in 0..MaxInitial :
           /\ rows = [r \in Ranks |-> IF r \in Spread(n)
                                      THEN (r - FirstRank) \div 2 + 1 ELSE NoItem]
           /\ committed = 1..n
           /\ \/ meta = [token |-> 1, hint |-> n]
              \/ n = 0 /\ meta = NoMeta
    /\ tokens = 1
    /\ op = [w \in Writers |-> NoOp]
    /\ cache = [w \in Writers |-> Cold]
    /\ ops = 0
    /\ reported = [i \in Items |-> NoItem]
    /\ destroyed = {}
    /\ failed = 0
    /\ raced = FALSE
    /\ crashes = 0

-----------------------------------------------------------------------------
(***************************************************************************)
(* The windows in which the hint goes wrong for good: an operation holds   *)
(* ranks it is going to count, or is about to create the row without a     *)
(* condition, or subtracts from a hint of 0 (which stays 0), or the list   *)
(* is being emptied, while another operation has changed an item and not   *)
(* recorded it.                                                            *)
(***************************************************************************)
Pending(w) == op[w].step \in Unrecorded
Emptied(w) == op[w].step \in {"wipe", "drop"}
HoldsCount(w) ==
    op[w].kind \in Counting /\ op[w].step \in {"get", "write"} \cup Unrecorded
Clamps(w) == op[w].kind = "delete_by_handle" /\ Pending(w) /\ meta.hint = 0

Racing ==
    \E u, w \in Writers :
        /\ u # w
        /\ HoldsCount(u) \/ op[u].step = "put" \/ Clamps(u) \/ Emptied(u)
        /\ Pending(w) \/ Emptied(w)

\* The last conjunct of every action.
Watch == raced' = (raced \/ Racing')

-----------------------------------------------------------------------------
(* Steps of an operation.                                                  *)

ListAt(w, step, kinds) == op[w].step = step /\ op[w].kind \in kinds
ListGoto(w, step) == op' = [op EXCEPT ![w].step = step]
Finish(w) == op' = [op EXCEPT ![w] = NoOp]
Know(w, ranks) == cache' = [cache EXCEPT ![w] = [warm |-> TRUE, ranks |-> ranks]]
Drop(w, rank) == cache' = [cache EXCEPT ![w].ranks = @ \ {rank}]

\* The item rows changed: what is left is to record it in the metadata.
ToTouch(w) == op' = [op EXCEPT ![w].step = "touch", ![w].tries = 0]

\* Another attempt from the given step on, or a RuntimeError.
Again(w, step) ==
    IF op[w].tries + 1 < MaxRankRetries
    THEN op' = [op EXCEPT ![w].step = step, ![w].tries = @ + 1]
    ELSE Finish(w)

FirstStep(kind) ==
    CASE kind = "append" -> "last"
      [] kind \in Emptying -> "sweep"
      [] OTHER -> "ranks"

\* _dispatch_and_stash reads the metadata row before anything else.
ListBegin(w, kind) ==
    /\ op[w].step = "idle"
    /\ ops < MaxOps
    /\ ops' = ops + 1
    /\ op' = [op EXCEPT ![w] = [NoOp EXCEPT !.step = FirstStep(kind), !.kind = kind,
                                            !.item = MaxInitial + ops + 1,
                                            !.stash = meta]]
    /\ UNCHANGED <<database, cache, committed, reported, destroyed, failed, crashes>>
    /\ Watch

\* append: one read of the greatest rank.
ReadLast(w) ==
    /\ ListAt(w, "last", {"append"})
    /\ RankBetween(LastRank, NoRank) \in Ranks
    /\ op' = [op EXCEPT ![w].step = "create", ![w].at = RankBetween(LastRank, NoRank)]
    /\ UNCHANGED <<database, cache, observed>>
    /\ Watch

\* insert: the first attempt trusts the cache, if there is one.
Known(w) == IF cache[w].warm /\ op[w].tries = 0 THEN cache[w].ranks ELSE Held

FindNeighbours(w) ==
    /\ ListAt(w, "ranks", {"insert"})
    /\ \E lower \in Known(w) \cup {NoRank} :
           LET over  == Above(Known(w), lower)
               upper == IF over = {} THEN NoRank ELSE Least(over)
               rank  == RankBetween(lower, upper)
           IN /\ rank \in Ranks \ {upper}
              /\ op' = [op EXCEPT ![w].step = "create", ![w].at = rank]
    /\ Know(w, Known(w))
    /\ UNCHANGED <<database, observed>>
    /\ Watch

\* create_if_not_exists.
Create(w) ==
    /\ ListAt(w, "create", Adding)
    /\ rows[op[w].at] = NoItem
    /\ rows' = [rows EXCEPT ![op[w].at] = op[w].item]
    /\ committed' = committed \cup {op[w].item}
    /\ cache' = IF cache[w].warm
                THEN [cache EXCEPT ![w].ranks = @ \cup {op[w].at}] ELSE cache
    /\ ToTouch(w)
    /\ UNCHANGED <<meta, tokens, ops, reported, destroyed, failed, crashes>>
    /\ Watch

\* Somebody took the rank: read again.
Collide(w) ==
    /\ ListAt(w, "create", Adding)
    /\ rows[op[w].at] # NoItem
    /\ Again(w, FirstStep(op[w].kind))
    /\ UNCHANGED <<database, cache, observed>>
    /\ Watch

\* A forced read of all ranks; the position the caller gave names one.
ReadRanks(w) ==
    /\ ListAt(w, "ranks", Positional)
    /\ \E r \in Held :
           op' = [op EXCEPT ![w].step = IF op[w].kind = "pop" THEN "get" ELSE "write",
                            ![w].at = r]
    /\ Know(w, Held)
    /\ UNCHANGED <<database, observed>>
    /\ Watch

\* remove and the *_where operations read the items with their ranks.
ReadItems(w) ==
    /\ ListAt(w, "ranks", ByHandle \cup {"remove"})
    /\ \E r \in Held :
           op' = [op EXCEPT ![w].step = IF op[w].kind = "remove" THEN "write" ELSE "dispatch",
                            ![w].at = r, ![w].seen = rows[r]]
    /\ Know(w, Held)
    /\ UNCHANGED <<database, observed>>
    /\ Watch

\* No such position (IndexError), or no item that matches.
FindNothing(w) ==
    /\ ListAt(w, "ranks", Counting \cup ByHandle)
    /\ Held = {} \/ op[w].kind \notin Positional
    /\ Know(w, Held)
    /\ Finish(w)
    /\ UNCHANGED <<database, observed>>
    /\ Watch

\* The handle operations dispatch after the items were read.
Dispatch(w) ==
    /\ ListAt(w, "dispatch", ByHandle)
    /\ op' = [op EXCEPT ![w].step = "write", ![w].stash = meta]
    /\ UNCHANGED <<database, cache, observed>>
    /\ Watch

\* pop reads the item; it may be gone since the ranks were read.
GetItem(w) ==
    /\ ListAt(w, "get", {"pop"})
    /\ IF rows[op[w].at] = NoItem
       THEN Again(w, "ranks")
       ELSE op' = [op EXCEPT ![w].step = "write", ![w].seen = rows[op[w].at]]
    /\ UNCHANGED <<database, cache, observed>>
    /\ Watch

\* Mutant: the delete has no condition.
TakeOutAnything(w) ==
    /\ ListAt(w, "write", {"pop", "remove", "delete_by_handle"})
    /\ rows' = [rows EXCEPT ![op[w].at] = NoItem]
    /\ reported' = [reported EXCEPT ![op[w].item] = op[w].seen]
    /\ Drop(w, op[w].at)
    /\ ToTouch(w)
    /\ UNCHANGED <<meta, tokens, ops, committed, destroyed, failed, crashes>>
    /\ Watch

\* delete_if_value_equals.
TakeOut(w) ==
    /\ ListAt(w, "write", {"pop", "remove", "delete_by_handle"})
    /\ rows[op[w].at] = op[w].seen
    /\ rows' = [rows EXCEPT ![op[w].at] = NoItem]
    /\ reported' = [reported EXCEPT ![op[w].item] = op[w].seen]
    /\ Drop(w, op[w].at)
    /\ ToTouch(w)
    /\ UNCHANGED <<meta, tokens, ops, committed, destroyed, failed, crashes>>
    /\ Watch

\* update_by_handle: set_if_value_equals.
Replace(w) ==
    /\ ListAt(w, "write", {"update_by_handle"})
    /\ rows[op[w].at] = op[w].seen
    /\ rows' = [rows EXCEPT ![op[w].at] = op[w].item]
    /\ committed' = committed \cup {op[w].item}
    /\ reported' = [reported EXCEPT ![op[w].item] = op[w].seen]
    /\ ToTouch(w)
    /\ UNCHANGED <<meta, tokens, cache, ops, destroyed, failed, crashes>>
    /\ Watch

\* The condition failed: try again, or answer False.
Changed(w) ==
    /\ ListAt(w, "write", {"pop", "remove"} \cup ByHandle)
    /\ rows[op[w].at] # op[w].seen
    /\ IF op[w].kind \in ByHandle THEN Finish(w) ELSE Again(w, "ranks")
    /\ UNCHANGED <<database, cache, observed>>
    /\ Watch

\* list[i] = item writes without a condition.
SetItem(w) ==
    /\ ListAt(w, "write", {"setitem"})
    /\ rows' = [rows EXCEPT ![op[w].at] = op[w].item]
    /\ committed' = committed \cup {op[w].item}
    /\ destroyed' = destroyed \cup ({rows[op[w].at]} \ {NoItem})
    /\ ToTouch(w)
    /\ UNCHANGED <<meta, tokens, cache, ops, reported, failed, crashes>>
    /\ Watch

\* So does del list[i].
DelItem(w) ==
    /\ ListAt(w, "write", {"delitem"})
    /\ rows' = [rows EXCEPT ![op[w].at] = NoItem]
    /\ destroyed' = destroyed \cup ({rows[op[w].at]} \ {NoItem})
    /\ Drop(w, op[w].at)
    /\ ToTouch(w)
    /\ UNCHANGED <<meta, tokens, ops, committed, reported, failed, crashes>>
    /\ Watch

-----------------------------------------------------------------------------
(* _v2_touch_metadata.                                                     *)

Delta(kind) ==
    CASE kind \in Adding -> 1
      [] kind = "delete_by_handle" -> -1
      [] OTHER -> 0

\* Mutant: the sum is not clamped.
NewHintUnclamped(w, stored) ==
    IF op[w].kind \in Counting THEN Cardinality(cache[w].ranks)
    ELSE stored.hint + Delta(op[w].kind)

\* The count_hint to write over a row that was read as stored.
NewHint(w, stored) ==
    IF op[w].kind \in Counting THEN Cardinality(cache[w].ranks)
    ELSE IF stored.hint + Delta(op[w].kind) < 0 THEN 0
    ELSE stored.hint + Delta(op[w].kind)

WriteHint(hint) ==
    /\ meta' = [token |-> tokens + 1, hint |-> hint]
    /\ tokens' = tokens + 1

\* A counted hint makes good for the touches that failed before.
Recorded(w) == failed' = IF op[w].kind \in Counting THEN 0 ELSE failed

\* Mutant: the merged row is written whatever the row is by now.
TouchBlindly(w) ==
    /\ ListAt(w, "touch", Kinds)
    /\ op[w].stash # NoMeta
    /\ WriteHint(NewHint(w, op[w].stash))
    /\ Recorded(w)
    /\ Finish(w)
    /\ UNCHANGED <<rows, cache, ops, committed, reported, destroyed, crashes>>
    /\ Watch

\* The compare-and-swap.  Its first attempt uses the row dispatch read.
Touch(w) ==
    /\ ListAt(w, "touch", Kinds)
    /\ op[w].stash # NoMeta
    /\ meta = op[w].stash
    /\ WriteHint(NewHint(w, op[w].stash))
    /\ Recorded(w)
    /\ Finish(w)
    /\ UNCHANGED <<rows, cache, ops, committed, reported, destroyed, crashes>>
    /\ Watch

\* Somebody else wrote the row; after the last attempt that is only logged.
TouchLoses(w) ==
    /\ ListAt(w, "touch", Kinds)
    /\ op[w].stash # NoMeta
    /\ meta # op[w].stash
    /\ IF op[w].tries + 1 < MaxTouches
       THEN /\ op' = [op EXCEPT ![w].step = "reread", ![w].tries = @ + 1]
            /\ failed' = failed
       ELSE /\ Finish(w)
            /\ failed' = failed + 1
    /\ UNCHANGED <<database, cache, ops, committed, reported, destroyed, crashes>>
    /\ Watch

Reread(w) ==
    /\ ListAt(w, "reread", Kinds)
    /\ op' = [op EXCEPT ![w].step = "touch", ![w].stash = meta]
    /\ UNCHANGED <<database, cache, observed>>
    /\ Watch

\* Mutant: an absent row is not created, as format 1 would have it.
TouchAbsentSkips(w) ==
    /\ ListAt(w, "touch", Kinds)
    /\ op[w].stash = NoMeta
    /\ Finish(w)
    /\ cache' = [cache EXCEPT ![w] = Cold]
    /\ UNCHANGED <<database, observed>>
    /\ Watch

\* There was no row: the caches are dropped and the row is loaded again.
TouchAbsent(w) ==
    /\ ListAt(w, "touch", Kinds)
    /\ op[w].stash = NoMeta
    /\ op' = [op EXCEPT ![w].step = "put", ![w].stash = meta]
    /\ cache' = [cache EXCEPT ![w].warm = FALSE]
    /\ UNCHANGED <<database, observed>>
    /\ Watch

\* The row is created, or overwritten, without a condition.
Put(w) ==
    /\ ListAt(w, "put", Kinds)
    /\ WriteHint(NewHint(w, op[w].stash))
    /\ Recorded(w)
    /\ Finish(w)
    /\ UNCHANGED <<rows, cache, ops, committed, reported, destroyed, crashes>>
    /\ Watch

-----------------------------------------------------------------------------
(* clear and delete.                                                       *)

ReadRange(w) ==
    /\ ListAt(w, "sweep", Emptying)
    /\ Know(w, Held)
    /\ ListGoto(w, "wipe")
    /\ UNCHANGED <<database, observed>>
    /\ Watch

\* batch_delete takes the rows one by one, in any order.
WipeRow(w) ==
    /\ ListAt(w, "wipe", Emptying)
    /\ \E r \in cache[w].ranks :
           /\ rows' = [rows EXCEPT ![r] = NoItem]
           /\ destroyed' = destroyed \cup ({rows[r]} \ {NoItem})
           /\ Drop(w, r)
    /\ UNCHANGED <<meta, tokens, op, ops, committed, reported, failed, crashes>>
    /\ Watch

Wiped(w) ==
    /\ ListAt(w, "wipe", Emptying)
    /\ cache[w].ranks = {}
    /\ ListGoto(w, "drop")
    /\ UNCHANGED <<database, cache, observed>>
    /\ Watch

ResetMeta(w) ==
    /\ ListAt(w, "drop", {"clear"})
    /\ WriteHint(0)
    /\ Finish(w)
    /\ UNCHANGED <<rows, cache, observed>>
    /\ Watch

DropMeta(w) ==
    /\ ListAt(w, "drop", {"delete"})
    /\ meta' = NoMeta
    /\ cache' = [cache EXCEPT ![w] = Cold]
    /\ Finish(w)
    /\ UNCHANGED <<rows, tokens, observed>>
    /\ Watch

-----------------------------------------------------------------------------

\* The process dies, or a database fault ends the operation.
ListCrash(w) ==
    /\ op[w].step # "idle"
    /\ op[w].kind \notin Emptying
    /\ crashes < MaxCrashes
    /\ crashes' = crashes + 1
    /\ failed' = IF op[w].step \in Unrecorded THEN failed + 1 ELSE failed
    /\ cache' = [cache EXCEPT ![w] = Cold]
    /\ Finish(w)
    /\ UNCHANGED <<database, ops, committed, reported, destroyed>>
    /\ Watch

Step(w) ==
    \/ ReadLast(w) \/ FindNeighbours(w) \/ Create(w) \/ Collide(w)
    \/ ReadRanks(w) \/ ReadItems(w) \/ FindNothing(w) \/ Dispatch(w)
    \/ GetItem(w) \/ TakeOut(w) \/ Replace(w) \/ Changed(w)
    \/ SetItem(w) \/ DelItem(w)
    \/ Touch(w) \/ TouchLoses(w) \/ Reread(w) \/ TouchAbsent(w) \/ Put(w)
    \/ ReadRange(w) \/ WipeRow(w) \/ Wiped(w) \/ ResetMeta(w) \/ DropMeta(w)

ListNext ==
    \E w \in Writers :
        \/ \E kind \in Kinds : ListBegin(w, kind)
        \/ Step(w)
        \/ ListCrash(w)

ListSpec == ListInit /\ [][ListNext]_listVars

-----------------------------------------------------------------------------
(* Properties.                                                             *)

Reported == {reported[i] : i \in Items} \ {NoItem}
Listed == {rows[r] : r \in Ranks} \ {NoItem}

\* "What pop() returns is always what it removed" (_v2_pop): every item that
\* was written is in the list once, was reported removed or replaced by one
\* operation, or was destroyed by an operation that does not report what
\* it overwrites (setitem, delitem, clear, delete), and only one of these.
ItemsAreConserved ==
    /\ committed = Listed \cup Reported \cup destroyed
    /\ \A r, s \in Ranks : rows[r] = rows[s] => r = s \/ rows[r] = NoItem
    /\ \A i, j \in Items : reported[i] = reported[j] => i = j \/ reported[i] = NoItem
    /\ Listed \cap Reported = {}
    /\ Listed \cap destroyed = {}
    /\ Reported \cap destroyed = {}

Gap == IF meta.hint > Cardinality(Held) THEN meta.hint - Cardinality(Held)
       ELSE Cardinality(Held) - meta.hint
ListInFlight == {w \in Writers : Pending(w)}

\* The drift bound of count_hint (docstring of ListProperty), for as long as
\* none of the windows of Racing was ever open: the operations that changed
\* an item and did not record it yet, plus the touches that failed since a
\* counted one.
DriftIsBounded ==
    \/ raced
    \/ \E w \in Writers : Emptied(w)
    \/ Gap <= Cardinality(ListInFlight) + failed

\* Items no exists() and no list_all() can see (_v2_touch_metadata): a list
\* with items has a metadata row, one is about to be written, or the
\* operation that would have written it failed.  An append that runs inside
\* a delete is the exception.
ItemsAreVisible ==
    Held # {} => meta # NoMeta \/ ListInFlight # {} \/ failed > 0 \/ raced

\* "A quiesced list whose mutations all landed cleanly reports an exact hint"
\* (docs/guides/property-lists.rst:168).
QuietHintIsExact ==
    (\A w \in Writers : op[w].step = "idle") /\ failed = 0
        => meta.hint = Cardinality(Held)
=============================================================================
