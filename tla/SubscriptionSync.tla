-------------------------- MODULE SubscriptionSync --------------------------
(***************************************************************************)
(* Both ends of a subscription and the network between them: a publisher   *)
(* that numbers its changes and sends callbacks, callbacks that are lost   *)
(* or arrive in any order, and a subscriber that processes callbacks and   *)
(* pulls what it missed with SubscriptionManager.sync_subscription         *)
(* (actingweb/interface/subscription_manager.py).                          *)
(*                                                                         *)
(* The publisher writes one change after the other (overlapping changes    *)
(* are the subject of SubscriptionPublisher) and one callback is processed *)
(* in one step (overlapping callbacks are the subject of                   *)
(* CallbackProcessor).  Each request between the two actors and each write *)
(* of sync_subscription is a step of its own.                              *)
(*                                                                         *)
(* Change number n is announced under sequence number n: by a diff, or,    *)
(* when it was made while the subscription was suspended, by the resync    *)
(* callback of the resume.                                                 *)
(***************************************************************************)
EXTENDS Integers, FiniteSets

CONSTANTS
    MaxSeq,         \* How many changes the publisher makes.
    MaxResyncs,     \* How many of them under suspension.
    MaxPending,     \* max_pending of the subscriber.
    Granularities,  \* Those the subscription may have been made with.
    Syncs,          \* Requests of the subscriber that sync.
    Failures,       \* The requests that may fail, of the kinds below,
    MaxFaults,      \* and how often one does.
    GapTimesOut     \* Does a gap get too old?

ASSUME NumbersAssumption ==
    {MaxSeq, MaxResyncs, MaxPending, MaxFaults} \subseteq Nat
ASSUME GranularityAssumption == Granularities \subseteq {"low", "high"}
ASSUME SyncsAssumption == IsFiniteSet(Syncs)
ASSUME FailuresAssumption ==
    Failures \subseteq {"fetch", "baseline", "get", "clear"}
ASSUME TimeoutAssumption == GapTimesOut \in BOOLEAN

VARIABLES
    (* The publisher. *)
    kind, granularity, written, sequence, diffs, step,
    (* The network. *)
    callbacks,      \* Sequence numbers of the callbacks under way.
    acks,           \* PUTs of single callbacks under way.
    (* The subscriber's database. *)
    lastSeq, pending, known,
    (* The local variables of sync_subscription. *)
    syncStep, finalSeq, todo, processed, maxSequence,
    (* What was observed. *)
    faults,         \* Failed requests so far.
    passedOver      \* Did a baseline request fail?

subscriptionVars == <<kind, granularity>>
publisherVars == <<subscriptionVars, written, sequence, diffs, step>>
receiverVars == <<lastSeq, pending, known>>
syncVars == <<syncStep, finalSeq, todo, processed, maxSequence>>
obsVars == <<faults, passedOver>>
network == <<callbacks, acks>>
allVars == <<publisherVars, network, receiverVars, syncVars, obsVars>>

Seqno == 1..MaxSeq
Entries == [seq : Seqno, data : BOOLEAN, copy : 1..MaxPending]
SyncSteps == {"get_sequence", "get_diffs", "baseline", "set_seq", "process",
              "dup_baseline", "dup_seq", "dup_clear", "clear", "modify"}

SyncTypeOK ==
    /\ kind \in [Seqno -> {"diff", "resync"}]
    /\ granularity \in Granularities
    /\ written \in 0..MaxSeq
    /\ sequence \in 0..written
    /\ diffs \in SUBSET Seqno
    /\ step \in {"idle", "increase", "create", "send"}
    /\ callbacks \in SUBSET Seqno
    /\ acks \in SUBSET Seqno
    /\ lastSeq \in 0..sequence
    /\ pending \in SUBSET Entries /\ Cardinality(pending) <= MaxPending
    /\ known \in SUBSET (1..written)
    /\ syncStep \in [Syncs -> {"idle"} \cup SyncSteps]
    /\ finalSeq \in [Syncs -> 0..MaxSeq]
    /\ todo \in [Syncs -> SUBSET Seqno]
    /\ processed \in [Syncs -> BOOLEAN]
    /\ maxSequence \in [Syncs -> 0..MaxSeq]
    /\ faults \in 0..MaxFaults
    /\ passedOver \in BOOLEAN

SyncInit ==
    /\ kind \in {k \in [Seqno -> {"diff", "resync"}] :
                   Cardinality({n \in Seqno : k[n] = "resync"}) <= MaxResyncs}
    /\ granularity \in Granularities
    /\ written = 0
    /\ sequence = 0
    /\ diffs = {}
    /\ step = "idle"
    /\ callbacks = {}
    /\ acks = {}
    /\ lastSeq = 0
    /\ pending = {}
    /\ known = {}
    /\ syncStep = [s \in Syncs |-> "idle"]
    /\ finalSeq = [s \in Syncs |-> 0]
    /\ todo = [s \in Syncs |-> {}]
    /\ processed = [s \in Syncs |-> FALSE]
    /\ maxSequence = [s \in Syncs |-> 0]
    /\ faults = 0
    /\ passedOver = FALSE

\* A request fails.
Fault(what) ==
    /\ what \in Failures /\ faults < MaxFaults
    /\ faults' = faults + 1
    /\ UNCHANGED passedOver

-----------------------------------------------------------------------------
(* The publisher: write, increase_seq, create the diff, send the callback. *)

WriteChange ==
    /\ step = "idle"
    /\ written < MaxSeq
    /\ written' = written + 1
    /\ step' = "increase"
    /\ UNCHANGED <<subscriptionVars, sequence, diffs, network, receiverVars,
                   syncVars, obsVars>>

IncreaseSeq ==
    /\ step = "increase"
    /\ sequence' = sequence + 1
    /\ step' = IF kind[sequence'] = "diff" THEN "create" ELSE "send"
    /\ UNCHANGED <<subscriptionVars, written, diffs, network, receiverVars,
                   syncVars, obsVars>>

CreateDiff ==
    /\ step = "create"
    /\ diffs' = diffs \cup {sequence}
    /\ step' = "send"
    /\ UNCHANGED <<subscriptionVars, written, sequence, network, receiverVars,
                   syncVars, obsVars>>

SendCallback ==
    /\ step = "send"
    /\ callbacks' = callbacks \cup {sequence}
    /\ step' = "idle"
    /\ UNCHANGED <<subscriptionVars, written, sequence, diffs, acks,
                   receiverVars, syncVars, obsVars>>

Publish == WriteChange \/ IncreaseSeq \/ CreateDiff \/ SendCallback

\* PUT of a sequence number: clear_diffs, unless the request fails, which is
\* only logged.
PutSequence(n) ==
    \/ diffs' = {d \in diffs : d > n} /\ UNCHANGED obsVars
    \/ Fault("clear") /\ UNCHANGED diffs

-----------------------------------------------------------------------------
(* CallbackProcessor.process_callback of a diff, in one step.              *)

Queued == {e.seq : e \in pending}

\* The numbers an in-order callback makes consecutive.
Batch(n) == {m \in n..MaxSeq : n + 1..m \subseteq Queued}

\* The first entry of a number is the one that is handled.
WithData(n) ==
    {e.seq : e \in {f \in pending : f.data /\ f.copy = 1 /\ f.seq \in Batch(n)}}

\* A number may be queued more than once, and each entry counts.
Entry(n, hasData) ==
    [seq |-> n, data |-> hasData,
     copy |-> 1 + Cardinality({e \in pending : e.seq = n})]

Duplicate(n) ==
    /\ n <= lastSeq
    /\ UNCHANGED receiverVars

\* Mutant: the limit of the queue is not checked.
QueueAlways(n, hasData) ==
    /\ n > lastSeq + 1
    /\ pending' = pending \cup {Entry(n, hasData)}
    /\ UNCHANGED <<lastSeq, known>>

Queue(n, hasData) ==
    /\ n > lastSeq + 1
    /\ Cardinality(pending) < MaxPending
    /\ pending' = pending \cup {Entry(n, hasData)}
    /\ UNCHANGED <<lastSeq, known>>

Reject(n) ==
    /\ n > lastSeq + 1
    /\ Cardinality(pending) >= MaxPending
    /\ UNCHANGED receiverVars

ProcessInOrder(n, hasData) ==
    /\ n = lastSeq + 1
    /\ known' = known \cup (IF hasData THEN {n} ELSE {}) \cup WithData(n)
    /\ lastSeq' = CHOOSE m \in Batch(n) : \A k \in Batch(n) : k <= m
    /\ pending' = {e \in pending : e.seq \notin Batch(n)}

GapTimeout(n) ==
    /\ GapTimesOut
    /\ n > lastSeq + 1
    /\ pending # {}
    /\ lastSeq' = 0
    /\ pending' = {}
    /\ UNCHANGED known

\* _fetch_and_transform_baseline and apply_resync_data: everything written,
\* or nothing, when the request failed.
BaselineArrives == known' = 1..written /\ UNCHANGED obsVars

BaselineFails ==
    /\ "baseline" \in Failures /\ faults < MaxFaults
    /\ faults' = faults + 1
    /\ passedOver' = TRUE
    /\ UNCHANGED known

FetchBaseline == BaselineArrives \/ BaselineFails

-----------------------------------------------------------------------------
(* The network and the subscriber's callback handler.                      *)

LoseCallback(n) ==
    /\ n \in callbacks
    /\ callbacks' = callbacks \ {n}
    /\ UNCHANGED <<publisherVars, acks, receiverVars, syncVars, obsVars>>

\* The callback handler starts a sync when the gap has timed out.
StartSync(s) ==
    /\ syncStep[s] = "idle"
    /\ syncStep' = [syncStep EXCEPT ![s] = "get_sequence"]
    /\ processed' = [processed EXCEPT ![s] = FALSE]
    /\ UNCHANGED <<finalSeq, todo, maxSequence>>

\* Callbacks carry a URL instead of the data.
Low == granularity = "low"

\* GET of one diff, which clears it at the publisher.  The request, or its
\* answer, may be lost.
FetchDiff(n, arrives) ==
    \/ ~Low /\ arrives /\ UNCHANGED <<diffs, obsVars>>
    \/ Low /\ arrives = (n \in diffs) /\ diffs' = diffs \ {n} /\ UNCHANGED obsVars
    \/ Low /\ ~arrives /\ diffs' \in {diffs, diffs \ {n}} /\ Fault("fetch")

\* A diff callback, which goes on without data when there is none to fetch.
\* A processed one is acknowledged with a PUT.
ReceiveDiff(n) ==
    /\ n \in callbacks /\ kind[n] = "diff"
    /\ callbacks' = callbacks \ {n}
    /\ \E hasData \in BOOLEAN :
         /\ FetchDiff(n, hasData)
         /\ \/ /\ Duplicate(n) \/ Queue(n, hasData) \/ Reject(n)
               /\ UNCHANGED <<acks, syncVars>>
            \/ /\ ProcessInOrder(n, hasData)
               /\ acks' = IF Low THEN acks \cup {n} ELSE acks
               /\ UNCHANGED syncVars
            \/ /\ GapTimeout(n)
               /\ \E s \in Syncs : StartSync(s)
               /\ UNCHANGED acks
    /\ UNCHANGED <<subscriptionVars, written, sequence, step>>

\* A resync callback: fetch the baseline, and whether that failed or not
\* empty the queue, apply what there is, and move to its number.
ReceiveResync(n) ==
    /\ n \in callbacks /\ kind[n] = "resync"
    /\ callbacks' = callbacks \ {n}
    /\ pending' = {}
    /\ FetchBaseline
    /\ lastSeq' = n
    /\ UNCHANGED <<publisherVars, acks, syncVars>>

\* The PUT of a single callback reaches the publisher, or not.
DeliverAck(n) ==
    /\ n \in acks
    /\ acks' = acks \ {n}
    /\ PutSequence(n)
    /\ UNCHANGED <<subscriptionVars, written, sequence, step, callbacks,
                   receiverVars, syncVars>>

-----------------------------------------------------------------------------
(* sync_subscription.                                                      *)

SyncAt(s, label) == syncStep[s] = label
SyncGoto(s, label) == syncStep' = [syncStep EXCEPT ![s] = label]

Sync(s) ==
    /\ StartSync(s)
    /\ UNCHANGED <<publisherVars, network, receiverVars, obsVars>>

\* The publisher's GET handler reads the sequence first ...
GetSequence(s) ==
    /\ SyncAt(s, "get_sequence")
    /\ finalSeq' = [finalSeq EXCEPT ![s] = sequence]
    /\ SyncGoto(s, "get_diffs")
    /\ UNCHANGED <<publisherVars, network, receiverVars, todo, processed,
                   maxSequence, obsVars>>

\* ... and then the diffs.
GetDiffs(s) ==
    /\ SyncAt(s, "get_diffs")
    /\ todo' = [todo EXCEPT ![s] = diffs]
    /\ maxSequence' = [maxSequence EXCEPT ![s] =
         IF diffs = {} THEN 0 ELSE CHOOSE m \in diffs : \A d \in diffs : d <= m]
    /\ SyncGoto(s, IF diffs = {} THEN "baseline" ELSE "process")
    /\ UNCHANGED <<publisherVars, network, receiverVars, finalSeq, processed,
                   obsVars>>

\* The request fails: the sync ends with an error.
GetFails(s) ==
    /\ SyncAt(s, "get_diffs")
    /\ Fault("get")
    /\ SyncGoto(s, "idle")
    /\ UNCHANGED <<publisherVars, network, receiverVars, finalSeq, todo,
                   processed, maxSequence>>

\* Mutant: only when the answer is ahead of the own number.
BaselineIfBehind(s) ==
    /\ SyncAt(s, "baseline")
    /\ known' = IF finalSeq[s] > lastSeq THEN 1..written ELSE known
    /\ SyncGoto(s, "set_seq")
    /\ UNCHANGED <<publisherVars, network, lastSeq, pending, finalSeq, todo,
                   processed, maxSequence, obsVars>>

\* No diffs: fetch and store everything.  A failure is passed over.
Baseline(s) ==
    /\ SyncAt(s, "baseline")
    /\ FetchBaseline
    /\ SyncGoto(s, "set_seq")
    /\ UNCHANGED <<publisherVars, network, lastSeq, pending, finalSeq, todo,
                   processed, maxSequence>>

\* Mutant: the sequence as it is now, not the one of the answer.
SetCurrentSeq(s) ==
    /\ SyncAt(s, "set_seq")
    /\ lastSeq' = sequence
    /\ SyncGoto(s, "idle")
    /\ UNCHANGED <<publisherVars, network, pending, known, finalSeq, todo,
                   processed, maxSequence, obsVars>>

\* handle.modify(seqnr=final_seq).
SetSeq(s) ==
    /\ SyncAt(s, "set_seq")
    /\ lastSeq' = IF finalSeq[s] > 0 THEN finalSeq[s] ELSE lastSeq
    /\ SyncGoto(s, "idle")
    /\ UNCHANGED <<publisherVars, network, pending, known, finalSeq, todo,
                   processed, maxSequence, obsVars>>

\* The fetched diffs go through the callback processor in order.
ProcessDiff(s) ==
    /\ SyncAt(s, "process")
    /\ LET n == CHOOSE m \in todo[s] : \A d \in todo[s] : m <= d
           rest == todo[s] \ {n}
           Remember(done) ==
             /\ processed' = [processed EXCEPT ![s] = @ \/ done]
             /\ todo' = [todo EXCEPT ![s] = rest]
             /\ SyncGoto(s, IF rest # {} THEN "process"
                            ELSE IF processed'[s] THEN "clear"
                            ELSE "dup_baseline")
       IN  \/ (Duplicate(n) \/ Queue(n, TRUE) \/ Reject(n) \/ GapTimeout(n))
                /\ Remember(FALSE)
           \/ ProcessInOrder(n, TRUE) /\ Remember(TRUE)
    /\ UNCHANGED <<publisherVars, network, finalSeq, maxSequence, obsVars>>

\* None was processed: fetch the baseline.  A failure ends the shortcut and
\* the sync goes on as if the diffs had been processed.
DupBaseline(s) ==
    /\ SyncAt(s, "dup_baseline")
    /\ \/ BaselineArrives /\ SyncGoto(s, "dup_seq")
       \/ BaselineFails /\ SyncGoto(s, "clear")
    /\ UNCHANGED <<publisherVars, network, lastSeq, pending, finalSeq, todo,
                   processed, maxSequence>>

DupSeq(s) ==
    /\ SyncAt(s, "dup_seq")
    /\ lastSeq' = IF finalSeq[s] > 0 THEN finalSeq[s] ELSE lastSeq
    /\ SyncGoto(s, IF finalSeq[s] > 0 THEN "dup_clear" ELSE "idle")
    /\ UNCHANGED <<publisherVars, network, pending, known, finalSeq, todo,
                   processed, maxSequence, obsVars>>

DupClear(s) ==
    /\ SyncAt(s, "dup_clear")
    /\ PutSequence(finalSeq[s])
    /\ SyncGoto(s, "idle")
    /\ UNCHANGED <<subscriptionVars, written, sequence, step, network,
                   receiverVars, finalSeq, todo, processed, maxSequence>>

\* Mutant: a PUT without a number clears everything.
ClearAll(s) ==
    /\ SyncAt(s, "clear")
    /\ diffs' = {}
    /\ SyncGoto(s, "modify")
    /\ UNCHANGED <<subscriptionVars, written, sequence, step, network,
                   receiverVars, finalSeq, todo, processed, maxSequence,
                   obsVars>>

\* PUT with the highest number fetched, processed or not.
Clear(s) ==
    /\ SyncAt(s, "clear")
    /\ PutSequence(maxSequence[s])
    /\ SyncGoto(s, "modify")
    /\ UNCHANGED <<subscriptionVars, written, sequence, step, network,
                   receiverVars, finalSeq, todo, processed, maxSequence>>

\* handle.modify(seqnr=max_sequence), whatever the processor recorded.
Modify(s) ==
    /\ SyncAt(s, "modify")
    /\ lastSeq' = maxSequence[s]
    /\ SyncGoto(s, "idle")
    /\ UNCHANGED <<publisherVars, network, pending, known, finalSeq, todo,
                   processed, maxSequence, obsVars>>

RunSync(s) ==
    \/ GetSequence(s) \/ GetDiffs(s) \/ GetFails(s) \/ Baseline(s) \/ SetSeq(s)
    \/ ProcessDiff(s) \/ DupBaseline(s) \/ DupSeq(s) \/ DupClear(s)
    \/ Clear(s) \/ Modify(s)

-----------------------------------------------------------------------------

SyncNext ==
    \/ Publish
    \/ \E n \in Seqno :
         LoseCallback(n) \/ ReceiveDiff(n) \/ ReceiveResync(n) \/ DeliverAck(n)
    \/ \E s \in Syncs : Sync(s) \/ RunSync(s)

SyncSpec == SyncInit /\ [][SyncNext]_allVars

\* The publisher finishes what it does, and the subscriber polls again and
\* again, each time to the end.
SyncFairSpec ==
    /\ SyncSpec
    /\ WF_allVars(Publish)
    /\ \A s \in Syncs : WF_allVars(Sync(s) \/ RunSync(s))
-----------------------------------------------------------------------------

\* The subscription gets by with diffs that carry the data: it was never
\* suspended, and no baseline was passed over because its request failed.
DiffsSuffice ==
    /\ \A n \in 1..sequence : kind[n] = "diff"
    /\ granularity = "high"
    /\ ~passedOver

\* The subscriber's number covers what it has: every change up to
\* Subscription.sequence has been applied.
SequenceIsCovered == DiffsSuffice => 1..lastSeq \subseteq known

\* A diff is only cleared at the publisher once the subscriber has its
\* change: what is gone from the list is known.
ClearedIsKnown ==
    \A n \in 1..sequence :
        kind[n] = "diff" /\ n \notin diffs \cup known =>
            n = sequence /\ step = "create"

\* The same of diffs that suffice.
NoDiffIsLost == DiffsSuffice => ClearedIsKnown

\* The subscriber catches up, whatever callbacks were lost or reordered.
CatchesUp == <>(known = Seqno)
=============================================================================
