----------------------- MODULE SubscriptionPublisher -----------------------
(***************************************************************************)
(* The publishing end of an ActingWeb subscription: Actor.register_diffs,  *)
(* suspend/resume and Subscription.add_diff for one subscription of one    *)
(* peer (actingweb/actor.py, actingweb/subscription.py), and the handlers  *)
(* the subscriber polls it with (actingweb/handlers/subscription.py).      *)
(*                                                                         *)
(* A change is a property write by a request of its own.  An import is a   *)
(* request that suspends diff registration, does bulk work and resumes.    *)
(* Requests only meet in the database: each action is one database access, *)
(* one callback sent, or one request of the subscriber.                    *)
(*                                                                         *)
(* What a diff or a callback carries is the set of changes the subscriber  *)
(* learns from it.  A resync makes the subscriber read everything, so it   *)
(* carries (at least) everything written when it is sent.                  *)
(***************************************************************************)
EXTENDS Integers, FiniteSets

CONSTANTS
    Changes,        \* Requests that write a property.
    Imports,        \* Requests that suspend and resume.
    Upsert,         \* Saving a diff replaces one of the same number
                    \* (DynamoDB); otherwise it is an error (PostgreSQL).
    ResyncOption,   \* The peer supports resync callbacks.
    Granularity,    \* Of the subscription.  With "none" the subscriber only
                    \* polls, with "low" it is told when to.
    MaxOverlap,     \* How many requests may overlap.
    Faults,         \* What may go wrong, of the kinds below,
    MaxFaults       \* and how often in a behaviour.

ASSUME RequestsAssumption ==
    /\ IsFiniteSet(Changes) /\ IsFiniteSet(Imports)
    /\ Changes \cap Imports = {}
ASSUME FlagsAssumption == Upsert \in BOOLEAN /\ ResyncOption \in BOOLEAN
ASSUME GranularityAssumption == Granularity \in {"none", "low", "high"}
ASSUME FaultsAssumption ==
    Faults \subseteq {"check", "increase", "create", "resync", "crash"}
ASSUME BoundsAssumption == MaxOverlap \in Nat /\ MaxFaults \in Nat

VARIABLES
    (* The database. *)
    written,        \* The changes made to the property.
    suspended,      \* Is there a suspension row for the target?
    sequence,       \* Subscription.sequence.
    diffs,          \* The stored diffs.
    (* The local variables of each request. *)
    pc, cached,
    (* The subscriber's poll, and what was observed. *)
    polled,         \* The diffs of the last answer not yet acknowledged.
    told,           \* What the subscriber was sent or has retrieved.
    skipped,        \* Changes not registered because of a suspension.
    failed,         \* Changes whose registration failed and was logged.
    faults,         \* Faults so far.
    orderly         \* Did the requests so far come one after the other, and
                    \* was each resync announced under a number of its own?

vars == <<written, suspended, sequence, diffs, pc, cached, polled, told,
          skipped, failed, faults, orderly>>

Requests == Changes \cup Imports
Messages == [seq : Nat \ {0}, carries : SUBSET Changes]
Idle == {"idle", "done", "crashed"}
Resuming == {"resync_load", "resync_increase", "resync_store", "resync_send"}
Steps == {"check", "load", "increase", "create", "rollback", "send",
          "importing"} \cup Resuming

TypeOK ==
    /\ written \in SUBSET Changes
    /\ suspended \in BOOLEAN
    /\ sequence \in Nat
    /\ diffs \in SUBSET Messages
    /\ pc \in [Requests -> Idle \cup Steps]
    /\ cached \in [Requests -> Nat]
    /\ polled \in SUBSET Messages
    /\ told \in SUBSET Messages
    /\ skipped \in SUBSET Changes
    /\ failed \in SUBSET Changes
    /\ faults \in 0..MaxFaults
    /\ orderly \in BOOLEAN

Init ==
    /\ written = {}
    /\ suspended = FALSE
    /\ sequence = 0
    /\ diffs = {}
    /\ pc = [r \in Requests |-> "idle"]
    /\ cached = [r \in Requests |-> 0]
    /\ polled = {}
    /\ told = {}
    /\ skipped = {}
    /\ failed = {}
    /\ faults = 0
    /\ orderly = TRUE

-----------------------------------------------------------------------------
(* Helpers.                                                                *)

InFlight == {r \in DOMAIN pc : pc[r] \notin Idle}

\* A request starts, alone or not.
Begin(r) ==
    /\ pc[r] = "idle"
    /\ Cardinality(InFlight) < MaxOverlap
    /\ orderly' = (orderly /\ InFlight = {})

At(r, step) == pc[r] = step
Goto(r, step) == pc' = [pc EXCEPT ![r] = step]

Message(n, carried) == [seq |-> n, carries |-> carried]
Numbered(messages, n) == {m \in messages : m.seq = n}
Carried(messages) == UNION {m.carries : m \in messages}

\* Saving replaces the diff of the same number, if there is one.
Save(m) == diffs' = (diffs \ Numbered(diffs, m.seq)) \cup {m}

\* A database access fails or a request dies.
Fault(what) == what \in Faults /\ faults < MaxFaults /\ faults' = faults + 1

-----------------------------------------------------------------------------
(* A property write, then register_diffs.                                  *)

Write(c) ==
    /\ Begin(c)
    /\ written' = written \cup {c}
    /\ Goto(c, "check")
    /\ UNCHANGED <<suspended, sequence, diffs, cached, polled, told, skipped,
                   failed, faults>>

\* is_subscription_suspended: nothing is registered.
FindSuspended(c) ==
    /\ At(c, "check")
    /\ suspended
    /\ skipped' = skipped \cup {c}
    /\ Goto(c, "done")
    /\ UNCHANGED <<written, suspended, sequence, diffs, cached, polled, told,
                   failed, faults, orderly>>

FindNotSuspended(c) ==
    /\ At(c, "check")
    /\ ~suspended
    /\ Goto(c, "load")
    /\ UNCHANGED <<written, suspended, sequence, diffs, cached, polled, told,
                   skipped, failed, faults, orderly>>

\* An error of the check counts as not suspended.
SuspensionCheckFails(c) ==
    /\ At(c, "check")
    /\ Fault("check")
    /\ Goto(c, "load")
    /\ UNCHANGED <<written, suspended, sequence, diffs, cached, polled, told,
                   skipped, failed, orderly>>

\* get_subscription_obj: the record is read once and then cached.
LoadSubscription(c) ==
    /\ At(c, "load")
    /\ cached' = [cached EXCEPT ![c] = sequence]
    /\ Goto(c, "increase")
    /\ UNCHANGED <<written, suspended, sequence, diffs, polled, told, skipped,
                   failed, faults, orderly>>

\* add_diff: increase_seq writes the cached number plus one.
IncreaseSeq(c) ==
    /\ At(c, "increase")
    /\ cached' = [cached EXCEPT ![c] = @ + 1]
    /\ sequence' = cached[c] + 1
    /\ Goto(c, "create")
    /\ UNCHANGED <<written, suspended, diffs, polled, told, skipped, failed,
                   faults, orderly>>

IncreaseSeqFails(c) ==
    /\ At(c, "increase")
    /\ Fault("increase")
    /\ failed' = failed \cup {c}
    /\ Goto(c, "done")
    /\ UNCHANGED <<written, suspended, sequence, diffs, cached, polled, told,
                   skipped, orderly>>

\* ... then the diff is created under the new number ...
CreateDiff(c) ==
    /\ At(c, "create")
    /\ Upsert \/ Numbered(diffs, cached[c]) = {}
    /\ Save(Message(cached[c], {c}))
    /\ Goto(c, "send")
    /\ UNCHANGED <<written, suspended, sequence, cached, polled, told, skipped,
                   failed, faults, orderly>>

CreateConflicts(c) ==
    /\ At(c, "create")
    /\ ~Upsert /\ Numbered(diffs, cached[c]) # {}
    /\ Goto(c, "rollback")
    /\ UNCHANGED <<written, suspended, sequence, diffs, cached, polled, told,
                   skipped, failed, faults, orderly>>

CreateFails(c) ==
    /\ At(c, "create")
    /\ Fault("create")
    /\ Goto(c, "rollback")
    /\ UNCHANGED <<written, suspended, sequence, diffs, cached, polled, told,
                   skipped, failed, orderly>>

\* Mutant: the number is not given back.
KeepSeq(c) ==
    /\ At(c, "rollback")
    /\ failed' = failed \cup {c}
    /\ Goto(c, "done")
    /\ UNCHANGED <<written, suspended, sequence, diffs, cached, polled, told,
                   skipped, faults, orderly>>

\* ... and when that fails decrease_seq gives the number back.
DecreaseSeq(c) ==
    /\ At(c, "rollback")
    /\ cached' = [cached EXCEPT ![c] = @ - 1]
    /\ sequence' = cached[c] - 1
    /\ failed' = failed \cup {c}
    /\ Goto(c, "done")
    /\ UNCHANGED <<written, suspended, diffs, polled, told, skipped, faults,
                   orderly>>

\* Mutant: the diff is cleared once its callback was answered with 204.
SendCallbackAndClear(c) ==
    /\ At(c, "send")
    /\ diffs' = diffs \ Numbered(diffs, cached[c])
    /\ Goto(c, "done")
    /\ UNCHANGED <<written, suspended, sequence, cached, polled, told, skipped,
                   failed, faults, orderly>>

\* callback_subscription: sent once; whatever the answer, the diff stays.
\* Only a callback of high granularity carries the data.
SendCallback(c) ==
    /\ At(c, "send")
    /\ told' = IF Granularity = "high" THEN told \cup {Message(cached[c], {c})}
               ELSE told
    /\ Goto(c, "done")
    /\ UNCHANGED <<written, suspended, sequence, diffs, cached, polled,
                   skipped, failed, faults, orderly>>

-----------------------------------------------------------------------------
(* suspend_subscriptions ... resume_subscriptions.                         *)

Suspend(r) ==
    /\ Begin(r)
    /\ suspended' = TRUE
    /\ Goto(r, "importing")
    /\ UNCHANGED <<written, sequence, diffs, cached, polled, told, skipped,
                   failed, faults>>

\* Another import has resumed the target already: no resync is sent.
ResumeNothing(r) ==
    /\ At(r, "importing")
    /\ ~suspended
    /\ Goto(r, "done")
    /\ UNCHANGED <<written, suspended, sequence, diffs, cached, polled, told,
                   skipped, failed, faults, orderly>>

\* Mutant: the suspension is lifted but no resync callback follows.
ResumeSilently(r) ==
    /\ At(r, "importing")
    /\ suspended
    /\ suspended' = FALSE
    /\ Goto(r, "done")
    /\ UNCHANGED <<written, sequence, diffs, cached, polled, told, skipped,
                   failed, faults, orderly>>

\* The row is deleted first, and then the resync callback is prepared.
Resume(r) ==
    /\ At(r, "importing")
    /\ suspended
    /\ suspended' = FALSE
    /\ Goto(r, "resync_load")
    /\ UNCHANGED <<written, sequence, diffs, cached, polled, told, skipped,
                   failed, faults, orderly>>

\* _increment_subscription_sequence loads a subscription object of its own.
ResyncLoad(r) ==
    /\ At(r, "resync_load")
    /\ cached' = [cached EXCEPT ![r] = sequence]
    /\ Goto(r, "resync_increase")
    /\ UNCHANGED <<written, suspended, sequence, diffs, polled, told, skipped,
                   failed, faults, orderly>>

ResyncIncrease(r) ==
    /\ At(r, "resync_increase")
    /\ cached' = [cached EXCEPT ![r] = @ + 1]
    /\ sequence' = cached[r] + 1
    /\ Goto(r, IF ResyncOption THEN "resync_send" ELSE "resync_store")
    /\ UNCHANGED <<written, suspended, diffs, polled, told, skipped, failed,
                   faults, orderly>>

\* An increase that failed is announced as number 1.
ResyncIncreaseFails(r) ==
    /\ At(r, "resync_increase")
    /\ Fault("resync")
    /\ orderly' = FALSE
    /\ cached' = [cached EXCEPT ![r] = 1]
    /\ Goto(r, IF ResyncOption THEN "resync_send" ELSE "resync_store")
    /\ UNCHANGED <<written, suspended, sequence, diffs, polled, told, skipped,
                   failed>>

\* Without the resync option the full state is stored as a diff; whether
\* that worked only matters to the log.
ResyncStore(r) ==
    /\ At(r, "resync_store")
    /\ IF Upsert \/ Numbered(diffs, cached[r]) = {}
       THEN Save(Message(cached[r], written))
       ELSE UNCHANGED diffs
    /\ Goto(r, "resync_send")
    /\ UNCHANGED <<written, suspended, sequence, cached, polled, told, skipped,
                   failed, faults, orderly>>

\* The fallback is a callback of low granularity that names the diff.
ResyncSend(r) ==
    /\ At(r, "resync_send")
    /\ told' = IF ResyncOption THEN told \cup {Message(cached[r], written)}
               ELSE told
    /\ Goto(r, "done")
    /\ UNCHANGED <<written, suspended, sequence, diffs, cached, polled,
                   skipped, failed, faults, orderly>>

-----------------------------------------------------------------------------
(* The subscriber.                                                         *)

\* GET on the subscription: all the diffs there are.
Poll ==
    /\ diffs # {}
    /\ polled' = diffs
    /\ told' = told \cup diffs
    /\ UNCHANGED <<written, suspended, sequence, diffs, pc, cached, skipped,
                   failed, faults, orderly>>

\* PUT with the last sequence number retrieved: clear_diffs.
ClearDiffs ==
    /\ polled # {}
    /\ diffs' = {d \in diffs : \A m \in polled : d.seq > m.seq}
    /\ polled' = {}
    /\ UNCHANGED <<written, suspended, sequence, pc, cached, told, skipped,
                   failed, faults, orderly>>

\* GET on one diff: SubscriptionDiffHandler returns it and clears it.
GetDiff(d) ==
    /\ d \in diffs
    /\ told' = told \cup {d}
    /\ diffs' = diffs \ {d}
    /\ UNCHANGED <<written, suspended, sequence, pc, cached, polled, skipped,
                   failed, faults, orderly>>

-----------------------------------------------------------------------------

\* The request dies.
Crash(r) ==
    /\ r \in InFlight
    /\ Fault("crash")
    /\ Goto(r, "crashed")
    /\ UNCHANGED <<written, suspended, sequence, diffs, cached, polled, told,
                   skipped, failed, orderly>>

RegisterDiffs(c) ==
    \/ Write(c) \/ FindSuspended(c) \/ FindNotSuspended(c)
    \/ SuspensionCheckFails(c) \/ LoadSubscription(c)
    \/ IncreaseSeq(c) \/ IncreaseSeqFails(c)
    \/ CreateDiff(c) \/ CreateConflicts(c) \/ CreateFails(c) \/ DecreaseSeq(c)
    \/ SendCallback(c)

Import(r) ==
    \/ Suspend(r) \/ ResumeNothing(r) \/ Resume(r)
    \/ ResyncLoad(r) \/ ResyncIncrease(r) \/ ResyncIncreaseFails(r)
    \/ ResyncStore(r) \/ ResyncSend(r)

Subscriber == Poll \/ ClearDiffs \/ (\E d \in diffs : GetDiff(d))

Next ==
    \/ \E c \in Changes : RegisterDiffs(c)
    \/ \E r \in Imports : Import(r)
    \/ \E r \in Requests : Crash(r)
    \/ Subscriber

Spec == Init /\ [][Next]_vars
-----------------------------------------------------------------------------
(* What holds however the requests overlap.                                *)

Died == \E r \in DOMAIN pc : pc[r] = "crashed"

\* A change that found the subscription suspended is made good by a resync:
\* the suspension still stands, an import is on its way to send the resync
\* (or died on it), or the subscriber was sent something that carries it, or
\* can poll it.
\* The suspension row is deleted before the state is read for the resync,
\* and the property is written before the row is looked at.
SkippedIsResynced ==
    \A c \in skipped :
        \/ suspended
        \/ \E r \in Imports : pc[r] \in Resuming \cup {"crashed"}
        \/ c \in Carried(told \cup diffs)

-----------------------------------------------------------------------------
(* What the protocol promises, and the code keeps as long as the requests  *)
(* of an actor do not overlap.                                             *)

\* A change whose request ended is announced: it was sent, it can still be
\* polled, it waits for the resync of a suspension, or its failure was
\* logged.  No diff is cleared that the subscriber has not been given, unless
\* requests overlap and the subscriber depends on polling: then a late diff
\* may have a lower number than those it acknowledges (clear_diffs).
ChangeIsAnnounced ==
    orderly \/ Granularity = "high" =>
        \A c \in written :
            pc[c] = "done"
                => c \in Carried(told \cup diffs) \cup skipped \cup failed

\* A number stands for one diff: what was sent or stored under a number is
\* the same everywhere.
NumbersAreUnique ==
    \A m, o \in told \cup diffs : m.seq = o.seq => m = o

\* Numbers are used without a gap: between requests, each number up to the
\* record's was sent or stored, unless a request died on it; a number whose
\* diff could not be created was given back.
NumbersAreUsed ==
    InFlight = {} /\ ~Died =>
        \A n \in 1..sequence : Numbered(told \cup diffs, n) # {}

\* What register_diffs promises of the numbers (Subscription.increase_seq,
\* decrease_seq, add_diff).
NumbersAreSound == orderly => NumbersAreUnique /\ NumbersAreUsed

-----------------------------------------------------------------------------
(* The inductive invariant.                                                *)

\* A request that has taken a number uses one a diff can have.
NumberTaken ==
    \A r \in Requests :
        pc[r] \in {"create", "rollback", "send", "resync_store", "resync_send"}
            => cached[r] > 0

\* A change is only skipped after it was written, so whatever reads the
\* properties later sees it.
WrittenFirst ==
    \A c \in Changes : pc[c] # "idle" \/ c \in skipped => c \in written

\* SkippedIsResynced, with what lasts: what was sent is never taken back,
\* while a diff may be cleared.
SkippedIsTold ==
    \A c \in skipped :
        \/ suspended
        \/ \E r \in Imports : pc[r] \in Resuming \cup {"crashed"}
        \/ c \in Carried(told)

\* ChangeIsAnnounced at a subscription of high granularity, with what lasts.
SentInFull ==
    \A c \in Changes :
        pc[c] = "done" => c \in Carried(told) \cup skipped \cup failed

Alone == \A r, s \in InFlight : r = s

\* What was sent or can be polled, and the numbers that have been used.
Known == told \cup diffs

\* A request that has taken a number nothing is known by yet.
TookNumber(r) ==
    \/ pc[r] \in {"create", "rollback", "resync_store"}
    \/ pc[r] = "resync_send" /\ ResyncOption

\* The full state is only stored for a peer that knows no resync.
StoredInsteadOfSent ==
    \A r \in Requests : pc[r] = "resync_store" => ~ResyncOption

\* The record of a request in flight is that of the database.
RecordIsFresh ==
    \A r \in Requests :
        pc[r] \in {"increase", "create", "rollback", "send",
                   "resync_increase", "resync_store", "resync_send"}
            => cached[r] = sequence

NumbersAreTaken == \A m \in Known : m.seq <= sequence

NumbersAreNew ==
    \A r \in Requests : TookNumber(r) => Numbered(Known, sequence) = {}

NoGap ==
    \A n \in 1..sequence :
        \/ Numbered(Known, n) # {}
        \/ Died
        \/ n = sequence /\ \E r \in Requests : TookNumber(r)

\* The diff a callback is about to be sent for is there, or was retrieved.
WaitsToBeSent ==
    \A c \in Changes : pc[c] = "send" => Message(cached[c], {c}) \in Known

\* What an acknowledgement clears was polled, or is newer.
ClearedWasTold ==
    /\ polled \subseteq told
    /\ \A d \in diffs, m \in polled : d.seq <= m.seq => d \in told

Orderly ==
    /\ Alone
    /\ StoredInsteadOfSent
    /\ RecordIsFresh
    /\ NumbersAreTaken
    /\ NumbersAreNew
    /\ NumbersAreUnique
    /\ NoGap
    /\ WaitsToBeSent
    /\ ClearedWasTold
    /\ ChangeIsAnnounced

IInv ==
    /\ TypeOK
    /\ NumberTaken
    /\ WrittenFirst
    /\ ResyncOption => SkippedIsTold
    /\ Granularity = "high" => SentInFull
    /\ orderly => Orderly
=============================================================================
