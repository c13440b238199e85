------------------------- MODULE CallbackProcessor -------------------------
(***************************************************************************)
(* The receiving end of an ActingWeb subscription: CallbackProcessor in    *)
(* actingweb/callback_processor.py, for one (peer, subscription) pair.     *)
(*                                                                         *)
(* Every incoming callback is handled by a request of its own.  Requests   *)
(* of one subscription are not serialised by anything: they run in the     *)
(* threads, tasks and processes of the web server and meet only in the     *)
(* database.  Each action below is therefore one access to the database    *)
(* (one read, or one unconditional write) or one call of the application's *)
(* handler, and requests interleave between any two of them.               *)
(*                                                                         *)
(* A request is a member of Deliveries.  The pending list is kept sorted   *)
(* by sequence number and is only searched by sequence number, so it is    *)
(* the set of the requests that queued their callback.                     *)
(***************************************************************************)
EXTENDS Integers, FiniteSets

CONSTANTS
    Deliveries,     \* The requests that carry a callback (bounds the run).
    MaxSeq,         \* The highest sequence number the publisher reaches.
    MaxPending,     \* max_pending: entries the pending list may hold.
    MaxRetries,     \* max_retries: attempts at the version check.
    MaxInFlight,    \* How many requests may overlap.
    MaxFaults       \* Crashes and failed sequence writes in a behaviour.

ASSUME DeliveriesAssumption == IsFiniteSet(Deliveries)
ASSUME MaxSeqAssumption == MaxSeq \in Nat
ASSUME MaxPendingAssumption == MaxPending \in Nat
ASSUME MaxRetriesAssumption == MaxRetries \in Nat \ {0}
ASSUME MaxInFlightAssumption == MaxInFlight \in Nat
ASSUME MaxFaultsAssumption == MaxFaults \in Nat

VARIABLES
    (* The database. *)
    state,          \* Attribute state:<peer>:<sub>.
    pending,        \* Attribute pending:<peer>:<sub>.
    lastSeq,        \* Subscription.sequence, the last processed number.
    (* The local variables of each request. *)
    pc, seq, attempt, readVersion, readPending, upto, next, result,
    (* What the publisher sent, and what was observed. *)
    kind,           \* Was sequence number n used for a diff or a resync?
    delivered,      \* Numbers whose change the handler has been given.
    calls,          \* Handler calls per diff since the last new baseline.
    dropped,        \* Requests whose queued callback a new baseline voided.
    faults,         \* Faults so far.
    orderly         \* Did the callbacks so far come one after the other, and
                    \* did nothing fail?

dbVars == <<state, pending, lastSeq>>
localVars == <<seq, attempt, readVersion, readPending, upto, next>>
obsVars == <<delivered, calls, dropped>>
vars == <<dbVars, pc, localVars, result, kind, obsVars, faults, orderly>>

Seqno == 1..MaxSeq
Idle == {"idle", "done", "crashed"}
Results == {"none", "PROCESSED", "DUPLICATE", "PENDING",
            "RESYNC_TRIGGERED", "REJECTED"}
Steps == {"get_state", "get_seq", "gap", "timeout_check", "timeout_state",
          "timeout_seq", "timeout_clear", "add_read", "add_write", "collect",
          "remove_read", "remove_write", "check", "set_state", "handle",
          "update_seq", "resync_clear", "resync_state", "resync_handle",
          "resync_seq"}

TypeOK ==
    /\ state \in [version : Nat, resync_pending : BOOLEAN]
    /\ pending \in SUBSET Deliveries
    /\ lastSeq \in 0..MaxSeq
    /\ pc \in [Deliveries -> Idle \cup Steps]
    /\ seq \in [Deliveries -> 0..MaxSeq]
    /\ attempt \in [Deliveries -> 1..MaxRetries]
    /\ readVersion \in [Deliveries -> Nat]
    /\ readPending \in [Deliveries -> SUBSET Deliveries]
    /\ upto \in [Deliveries -> 0..MaxSeq]
    /\ next \in [Deliveries -> 0..MaxSeq + 1]
    /\ result \in [Deliveries -> Results]
    /\ kind \in [Seqno -> {"diff", "resync"}]
    /\ delivered \in SUBSET Seqno
    /\ calls \in [Seqno -> Nat]
    /\ dropped \in SUBSET Deliveries
    /\ faults \in 0..MaxFaults
    /\ orderly \in BOOLEAN

Init ==
    /\ state = [version |-> 0, resync_pending |-> FALSE]
    /\ pending = {}
    /\ lastSeq = 0
    /\ pc = [d \in Deliveries |-> "idle"]
    /\ seq = [d \in Deliveries |-> 0]
    /\ attempt = [d \in Deliveries |-> 1]
    /\ readVersion = [d \in Deliveries |-> 0]
    /\ readPending = [d \in Deliveries |-> {}]
    /\ upto = [d \in Deliveries |-> 0]
    /\ next = [d \in Deliveries |-> 0]
    /\ result = [d \in Deliveries |-> "none"]
    /\ kind \in [Seqno -> {"diff", "resync"}]
    /\ delivered = {}
    /\ calls = [n \in Seqno |-> 0]
    /\ dropped = {}
    /\ faults = 0
    /\ orderly = TRUE

-----------------------------------------------------------------------------
(* Helpers.                                                                *)

InFlight == {d \in Deliveries : pc[d] \notin Idle}

At(d, step) == pc[d] = step
Goto(d, step) == pc' = [pc EXCEPT ![d] = step]

\* process_callback returns r.
Return(d, r) ==
    /\ Goto(d, "done")
    /\ result' = [result EXCEPT ![d] = r]

\* Queued entries that carry number n.
Carrying(entries, n) == {e \in entries : seq[e] = n}

\* The whole queue is thrown away: what was in it will not be processed.
ClearPending ==
    /\ pending' = {}
    /\ dropped' = dropped \cup pending

-----------------------------------------------------------------------------
(* A callback arrives.  The peer may send any number it has reached, more  *)
(* than once (a callback and a poll of the diffs carry the same numbers)   *)
(* and in any order.                                                       *)

Receive(d, n) ==
    /\ At(d, "idle")
    /\ Cardinality(InFlight) < MaxInFlight
    /\ orderly' = (orderly /\ InFlight = {})
    /\ seq' = [seq EXCEPT ![d] = n]
    /\ Goto(d, IF kind[n] = "resync" THEN "resync_clear" ELSE "get_state")
    /\ UNCHANGED <<dbVars, attempt, readVersion, readPending, upto, next,
                   result, kind, obsVars, faults>>

\* state = self._get_state(...): the version the attempt starts from.
GetState(d) ==
    /\ At(d, "get_state")
    /\ readVersion' = [readVersion EXCEPT ![d] = state.version]
    /\ Goto(d, "get_seq")
    /\ UNCHANGED <<dbVars, seq, attempt, readPending, upto, next, result, kind,
                   obsVars, faults, orderly>>

\* Mutant: <= last_seq + 1, an off-by-one in the duplicate check.
DuplicateOffByOne(d) ==
    /\ At(d, "get_seq")
    /\ seq[d] <= lastSeq + 1
    /\ Return(d, "DUPLICATE")
    /\ UNCHANGED <<dbVars, localVars, kind, obsVars, faults, orderly>>

\* last_seq = self._get_last_seq(...), and sequence <= last_seq.
Duplicate(d) ==
    /\ At(d, "get_seq")
    /\ seq[d] <= lastSeq
    /\ Return(d, "DUPLICATE")
    /\ UNCHANGED <<dbVars, localVars, kind, obsVars, faults, orderly>>

\* ... and sequence > last_seq + 1.
DetectGap(d) ==
    /\ At(d, "get_seq")
    /\ seq[d] > lastSeq + 1
    /\ Goto(d, "gap")
    /\ UNCHANGED <<dbVars, localVars, result, kind, obsVars, faults, orderly>>

\* Mutant: no gap check.
AcceptAnyNew(d) ==
    /\ At(d, "get_seq")
    /\ seq[d] > lastSeq
    /\ upto' = [upto EXCEPT ![d] = seq[d]]
    /\ Goto(d, "collect")
    /\ UNCHANGED <<dbVars, seq, attempt, readVersion, readPending, next,
                   result, kind, obsVars, faults, orderly>>

\* ... and sequence = last_seq + 1.
AcceptInOrder(d) ==
    /\ At(d, "get_seq")
    /\ seq[d] = lastSeq + 1
    /\ upto' = [upto EXCEPT ![d] = seq[d]]
    /\ Goto(d, "collect")
    /\ UNCHANGED <<dbVars, seq, attempt, readVersion, readPending, next,
                   result, kind, obsVars, faults, orderly>>

-----------------------------------------------------------------------------
(* Gap: queue the callback, or give up on the gap.                         *)

\* _check_gap_timeout: the oldest entry may or may not be too old by now.
GapTimedOut(d) ==
    /\ At(d, "gap")
    /\ pending # {}
    /\ Goto(d, "timeout_check")
    /\ UNCHANGED <<dbVars, localVars, result, kind, obsVars, faults, orderly>>

\* Mutant: the callback is queued only behind others.
GapStillOpenBehind(d) ==
    /\ At(d, "gap")
    /\ pending # {}
    /\ Goto(d, "add_read")
    /\ UNCHANGED <<dbVars, localVars, result, kind, obsVars, faults, orderly>>

GapStillOpen(d) ==
    /\ At(d, "gap")
    /\ Goto(d, "add_read")
    /\ UNCHANGED <<dbVars, localVars, result, kind, obsVars, faults, orderly>>

\* _set_state(..., version): a conflict is ignored by the caller.
TimeoutCheckVersion(d) ==
    /\ At(d, "timeout_check")
    /\ Goto(d, IF state.version = readVersion[d]
               THEN "timeout_state" ELSE "timeout_seq")
    /\ UNCHANGED <<dbVars, localVars, result, kind, obsVars, faults, orderly>>

TimeoutSetState(d) ==
    /\ At(d, "timeout_state")
    /\ state' = [version |-> readVersion[d] + 1, resync_pending |-> TRUE]
    /\ Goto(d, "timeout_seq")
    /\ UNCHANGED <<pending, lastSeq, localVars, result, kind, obsVars, faults,
                   orderly>>

\* _update_last_seq(..., 0): accept any number after the resync.
TimeoutResetSeq(d) ==
    /\ At(d, "timeout_seq")
    /\ lastSeq' = 0
    /\ calls' = [n \in Seqno |-> 0]
    /\ Goto(d, "timeout_clear")
    /\ UNCHANGED <<state, pending, localVars, result, kind, delivered, dropped,
                   faults, orderly>>

TimeoutClear(d) ==
    /\ At(d, "timeout_clear")
    /\ ClearPending
    /\ Return(d, "RESYNC_TRIGGERED")
    /\ UNCHANGED <<state, lastSeq, localVars, kind, delivered, calls, faults,
                   orderly>>

\* _add_pending reads the list again ...
QueueFull(d) ==
    /\ At(d, "add_read")
    /\ Cardinality(pending) >= MaxPending
    /\ Return(d, "REJECTED")
    /\ UNCHANGED <<dbVars, localVars, kind, obsVars, faults, orderly>>

\* Mutant: an off-by-one in the back-pressure limit.
AddReadOffByOne(d) ==
    /\ At(d, "add_read")
    /\ Cardinality(pending) <= MaxPending
    /\ readPending' = [readPending EXCEPT ![d] = pending]
    /\ Goto(d, "add_write")
    /\ UNCHANGED <<dbVars, seq, attempt, readVersion, upto, next, result, kind,
                   obsVars, faults, orderly>>

AddRead(d) ==
    /\ At(d, "add_read")
    /\ Cardinality(pending) < MaxPending
    /\ readPending' = [readPending EXCEPT ![d] = pending]
    /\ Goto(d, "add_write")
    /\ UNCHANGED <<dbVars, seq, attempt, readVersion, upto, next, result, kind,
                   obsVars, faults, orderly>>

\* Mutant: the list is replaced instead of extended.
AddWriteAlone(d) ==
    /\ At(d, "add_write")
    /\ pending' = {d}
    /\ Return(d, "PENDING")
    /\ UNCHANGED <<state, lastSeq, localVars, kind, obsVars, faults, orderly>>

\* ... and writes back what it read and this callback.
AddWrite(d) ==
    /\ At(d, "add_write")
    /\ pending' = readPending[d] \cup {d}
    /\ Return(d, "PENDING")
    /\ UNCHANGED <<state, lastSeq, localVars, kind, obsVars, faults, orderly>>

-----------------------------------------------------------------------------
(* In order: take what the arrival makes consecutive out of the queue,     *)
(* then check the version, call the handler, and record the number.        *)

CollectNext(d) ==
    /\ At(d, "collect")
    /\ Carrying(pending, upto[d] + 1) # {}
    /\ upto' = [upto EXCEPT ![d] = @ + 1]
    /\ Goto(d, "remove_read")
    /\ UNCHANGED <<dbVars, seq, attempt, readVersion, readPending, next,
                   result, kind, obsVars, faults, orderly>>

CollectEnd(d) ==
    /\ At(d, "collect")
    /\ Carrying(pending, upto[d] + 1) = {}
    /\ Goto(d, "check")
    /\ UNCHANGED <<dbVars, localVars, result, kind, obsVars, faults, orderly>>

\* _remove_pending(next_seq): read the list, write back the rest of it.
RemoveRead(d) ==
    /\ At(d, "remove_read")
    /\ readPending' =
         [readPending EXCEPT ![d] = pending \ Carrying(pending, upto[d])]
    /\ Goto(d, "remove_write")
    /\ UNCHANGED <<dbVars, seq, attempt, readVersion, upto, next, result, kind,
                   obsVars, faults, orderly>>

RemoveWrite(d) ==
    /\ At(d, "remove_write")
    /\ pending' = readPending[d]
    /\ Goto(d, "collect")
    /\ UNCHANGED <<state, lastSeq, localVars, result, kind, obsVars, faults,
                   orderly>>

\* _set_state(..., version) compares, and only then writes.
CheckVersion(d) ==
    /\ At(d, "check")
    /\ state.version = readVersion[d]
    /\ Goto(d, "set_state")
    /\ UNCHANGED <<dbVars, localVars, result, kind, obsVars, faults, orderly>>

\* Mutant: no limit on the attempts.
RetryForever(d) ==
    /\ At(d, "check")
    /\ state.version # readVersion[d]
    /\ attempt' = [attempt EXCEPT ![d] = @ + 1]
    /\ Goto(d, "get_state")
    /\ UNCHANGED <<dbVars, seq, readVersion, readPending, upto, next, result,
                   kind, obsVars, faults, orderly>>

\* Conflict: the next attempt starts over, without what it took from the
\* queue.
Retry(d) ==
    /\ At(d, "check")
    /\ state.version # readVersion[d]
    /\ attempt[d] < MaxRetries
    /\ attempt' = [attempt EXCEPT ![d] = @ + 1]
    /\ Goto(d, "get_state")
    /\ UNCHANGED <<dbVars, seq, readVersion, readPending, upto, next, result,
                   kind, obsVars, faults, orderly>>

GiveUp(d) ==
    /\ At(d, "check")
    /\ state.version # readVersion[d]
    /\ attempt[d] = MaxRetries
    /\ Return(d, "REJECTED")
    /\ UNCHANGED <<dbVars, localVars, kind, obsVars, faults, orderly>>

SetState(d) ==
    /\ At(d, "set_state")
    /\ state' = [version |-> readVersion[d] + 1, resync_pending |-> FALSE]
    /\ next' = [next EXCEPT ![d] = seq[d]]
    /\ Goto(d, "handle")
    /\ UNCHANGED <<pending, lastSeq, seq, attempt, readVersion, readPending,
                   upto, result, kind, obsVars, faults, orderly>>

\* handler(cb) for each collected callback in order; an exception it raises
\* is logged and swallowed, so the call counts whatever the handler does.
CallHandler(d) ==
    /\ At(d, "handle")
    /\ delivered' = delivered \cup {next[d]}
    /\ calls' = [calls EXCEPT ![next[d]] = @ + 1]
    /\ next' = [next EXCEPT ![d] = @ + 1]
    /\ Goto(d, IF next[d] = upto[d] THEN "update_seq" ELSE "handle")
    /\ UNCHANGED <<dbVars, seq, attempt, readVersion, readPending, upto,
                   result, kind, dropped, faults, orderly>>

UpdateSeq(d) ==
    /\ At(d, "update_seq")
    /\ lastSeq' = upto[d]
    /\ Return(d, "PROCESSED")
    /\ UNCHANGED <<state, pending, localVars, kind, obsVars, faults, orderly>>

-----------------------------------------------------------------------------
(* _handle_resync.                                                         *)

ResyncClear(d) ==
    /\ At(d, "resync_clear")
    /\ ClearPending
    /\ Goto(d, "resync_state")
    /\ UNCHANGED <<state, lastSeq, localVars, result, kind, delivered, calls,
                   faults, orderly>>

\* A fresh state object, version 0, which the write makes 1.
ResyncState(d) ==
    /\ At(d, "resync_state")
    /\ state' = [version |-> 1, resync_pending |-> FALSE]
    /\ Goto(d, "resync_handle")
    /\ UNCHANGED <<pending, lastSeq, localVars, result, kind, obsVars, faults,
                   orderly>>

\* The full state carries every change up to its number.
ResyncHandle(d) ==
    /\ At(d, "resync_handle")
    /\ delivered' = delivered \cup 1..seq[d]
    /\ calls' = [n \in Seqno |-> 0]
    /\ Goto(d, "resync_seq")
    /\ UNCHANGED <<dbVars, localVars, result, kind, dropped, faults, orderly>>

ResyncSeq(d) ==
    /\ At(d, "resync_seq")
    /\ lastSeq' = seq[d]
    /\ Return(d, "PROCESSED")
    /\ UNCHANGED <<state, pending, localVars, kind, obsVars, faults, orderly>>

-----------------------------------------------------------------------------
(* Faults.                                                                 *)

\* _update_last_seq fails: it is logged, the caller still answers PROCESSED.
UpdateSeqFails(d) ==
    /\ pc[d] \in {"update_seq", "resync_seq"}
    /\ faults < MaxFaults
    /\ faults' = faults + 1
    /\ orderly' = FALSE
    /\ Return(d, "PROCESSED")
    /\ UNCHANGED <<dbVars, localVars, kind, obsVars>>

\* The worker dies; what it wrote to the database stays.
Crash(d) ==
    /\ d \in InFlight
    /\ faults < MaxFaults
    /\ faults' = faults + 1
    /\ orderly' = FALSE
    /\ Goto(d, "crashed")
    /\ UNCHANGED <<dbVars, localVars, result, kind, obsVars>>

-----------------------------------------------------------------------------

ProcessDiff(d) ==
    \/ GetState(d) \/ Duplicate(d) \/ DetectGap(d) \/ AcceptInOrder(d)
    \/ GapTimedOut(d) \/ GapStillOpen(d) \/ TimeoutCheckVersion(d)
    \/ TimeoutSetState(d) \/ TimeoutResetSeq(d) \/ TimeoutClear(d)
    \/ QueueFull(d) \/ AddRead(d) \/ AddWrite(d)
    \/ CollectNext(d) \/ CollectEnd(d) \/ RemoveRead(d) \/ RemoveWrite(d)
    \/ CheckVersion(d) \/ Retry(d) \/ GiveUp(d) \/ SetState(d)
    \/ CallHandler(d) \/ UpdateSeq(d)

ProcessResync(d) ==
    ResyncClear(d) \/ ResyncState(d) \/ ResyncHandle(d) \/ ResyncSeq(d)

Process(d) == ProcessDiff(d) \/ ProcessResync(d)

Fault(d) == UpdateSeqFails(d) \/ Crash(d)

Next ==
    \E d \in Deliveries :
        \/ \E n \in Seqno : Receive(d, n)
        \/ Process(d)
        \/ Fault(d)

Spec == Init /\ [][Next]_vars

\* A request that has started keeps running until it returns or dies.
FairSpec == Spec /\ \A d \in Deliveries : WF_vars(Process(d))
-----------------------------------------------------------------------------
(* What holds however the requests overlap and wherever they die.          *)

\* The recorded number never runs ahead of the handler: every change up to
\* Subscription.sequence has been given to it.  _update_last_seq comes after
\* the handler calls, so a crash in between repeats work and never skips it.
SeqNeverAhead == \A n \in 1..lastSeq : n \in delivered

\* No change is given to the handler before the one in front of it: what has
\* been delivered is a prefix of what the publisher sent.
NoSkip == \A n \in delivered : 1..n \subseteq delivered

\* An answer that tells the publisher not to worry (PROCESSED, DUPLICATE) is
\* only given for a change the handler has been given.
AnswerIsTrue ==
    \A d \in Deliveries :
        result[d] \in {"PROCESSED", "DUPLICATE"} => seq[d] \in delivered

\* Back-pressure: the stored list never exceeds max_pending, even though
\* the limit is checked on a copy that may be stale when it is written back.
PendingBounded == Cardinality(pending) <= MaxPending

\* The requests together implement the ordered delivery of OrderedDelivery.
Abstract == INSTANCE OrderedDelivery WITH
    Numbers <- Seqno, given <- delivered, recorded <- lastSeq

ImplementsOrderedDelivery == Abstract!Spec

\* Every request is answered: conflicts cannot keep the retry loop going and
\* no check leaves a request without a way on.
EveryRequestAnswered ==
    \A d \in Deliveries : (pc[d] \in Steps) ~> (pc[d] \in {"done", "crashed"})

-----------------------------------------------------------------------------
(* What the protocol promises, and the code keeps as long as the callbacks *)
(* of a subscription do not overlap.                                       *)

\* The handler sees each diff at most once per baseline.
AtMostOnce == \A n \in Seqno : calls[n] <= 1

\* Processing that has put e's callback in its batch, or will pick it up.
Carries(d, e) ==
    /\ pc[d] \in {"remove_read", "remove_write", "collect", "check",
                  "set_state", "handle", "update_seq"}
    /\ seq[e] \in seq[d]..upto[d]

\* A callback answered PENDING is in the queue, on its way to the handler or
\* delivered, unless a new baseline voided it.
QueuedNotForgotten ==
    \A e \in Deliveries :
        result[e] = "PENDING" =>
            \/ e \in pending \cup dropped
            \/ seq[e] \in delivered
            \/ \E d \in Deliveries : Carries(d, e)

\* Once no request is running, no queued callback is left that is next in
\* line: filling a gap processes what waited behind it.
GapFilledIsProcessed ==
    InFlight = {} => Carrying(pending, lastSeq + 1) = {}

\* As long as nothing overlaps or fails, the handler sees each diff at most
\* once per baseline (process_callback), no callback that was answered PENDING
\* is forgotten, and filling a gap processes everything that waited behind it
\* (_add_pending, the collecting loop of process_callback).
OrderlyIsExactlyOnce ==
    orderly => AtMostOnce /\ QueuedNotForgotten /\ GapFilledIsProcessed

-----------------------------------------------------------------------------
(* The inductive invariant behind the first group.                         *)

\* From the moment a request has found its number to be next in line until
\* it has recorded the last number of its batch.
InBatch(d) == pc[d] \in {"collect", "remove_read", "remove_write", "check",
                         "set_state", "handle", "update_seq"}

\* What a request knows about the database from what it read: everything in
\* front of its batch has been delivered, and the copy of the queue it will
\* write back leaves room for what it adds.
Local(d) ==
    /\ pc[d] # "done" => result[d] = "none"
    /\ pc[d] \in Steps => seq[d] \in Seqno
    /\ InBatch(d) => /\ upto[d] \in seq[d]..MaxSeq
                     /\ \A n \in 1..seq[d] - 1 : n \in delivered
    /\ At(d, "handle") => /\ next[d] \in seq[d]..upto[d]
                          /\ \A n \in 1..next[d] - 1 : n \in delivered
    /\ At(d, "update_seq") => \A n \in 1..upto[d] : n \in delivered
    /\ At(d, "resync_seq") => \A n \in 1..seq[d] : n \in delivered
    /\ At(d, "add_write") => Cardinality(readPending[d]) < MaxPending
    /\ At(d, "remove_write") => Cardinality(readPending[d]) <= MaxPending

LocalInv == \A d \in Deliveries : Local(d)

IInv ==
    /\ TypeOK
    /\ LocalInv
    /\ SeqNeverAhead
    /\ NoSkip
    /\ AnswerIsTrue
    /\ PendingBounded

-----------------------------------------------------------------------------
(* ... and behind the second.                                              *)

Alone == \A d, e \in InFlight : d = e

\* What the one request read still holds when it acts on it, so that it never
\* meets a conflict.
ReadsAreFresh(d) ==
    /\ pc[d] \in {"get_seq", "gap", "timeout_check", "timeout_state",
                  "add_read", "add_write", "collect", "remove_read",
                  "remove_write", "check", "set_state"}
         => readVersion[d] = state.version
    /\ At(d, "gap") \/ At(d, "add_read") => seq[d] > lastSeq + 1
    /\ At(d, "add_write") => seq[d] > lastSeq + 1 /\ readPending[d] = pending
    /\ At(d, "remove_write")
         => readPending[d] = pending \ Carrying(pending, upto[d])
    /\ InBatch(d) => seq[d] = lastSeq + 1

\* The handler has been called for numbers that are recorded, or will be when
\* the batch ends.
CallsAreRecorded ==
    \A n \in Seqno : calls[n] > 0 =>
        \/ n <= lastSeq
        \/ \E d \in Deliveries :
              \/ At(d, "handle") /\ n < next[d]
              \/ At(d, "update_seq") /\ n <= upto[d]

\* A new baseline starts without calls.
BaselineIsNew ==
    \A d \in Deliveries :
        At(d, "resync_seq") => \A n \in Seqno : calls[n] = 0

\* What is queued was answered.
QueuedIsDone == \A e \in pending : pc[e] = "done"

\* The next number in line does not wait in the queue, unless a batch is being
\* collected or a baseline being set.
NextIsNotQueued ==
    \/ Carrying(pending, lastSeq + 1) = {}
    \/ \E d \in Deliveries : InBatch(d) \/ At(d, "timeout_clear")

\* What a collected batch leaves in the queue is not the next in line after
\* it, and a resync leaves nothing.
LeavesInQueue(d) ==
    /\ pc[d] \in {"check", "set_state", "handle", "update_seq"}
         => Carrying(pending, upto[d] + 1) = {}
    /\ pc[d] \in {"resync_state", "resync_handle", "resync_seq"}
         => pending = {}

Orderly ==
    /\ Alone
    /\ \A d \in Deliveries : ReadsAreFresh(d) /\ LeavesInQueue(d)
    /\ QueuedIsDone
    /\ NextIsNotQueued
    /\ CallsAreRecorded
    /\ BaselineIsNew
    /\ AtMostOnce
    /\ QueuedNotForgotten

OrderlyInv == orderly => Orderly
=============================================================================
