--------------------------- MODULE MCListProperty ---------------------------
(* Model values for ListProperty, for PeerCopy and for BulkUpdate.  A      *)
(* behaviour is of one of three forms: operations on one list that meet in *)
(* the database; a list and a value next to the copies a subscriber keeps; *)
(* or one request for many items of a list.                                *)
EXTENDS ListProperty, TLC

CONSTANTS
    (* PeerCopy. *)
    CopiedItems, Blank, Names, Fields, Routes,
    MaxLen, MaxChanges, MaxBaselines, MaxCopyCrashes,
    (* BulkUpdate. *)
    Contents, Formats, MaxBefore, MaxEntries, MaxOthers

VARIABLES
    form,
    (* PeerCopy. *)
    original, messages, values, lists, baseline, overlapped, lossy,
    changes, baselines, copyCrashes,
    (* BulkUpdate. *)
    format, before, listed, entries, todo, phase, theirs, others

Copy == INSTANCE PeerCopy WITH
    Items <- CopiedItems, MaxCrashes <- MaxCopyCrashes, crashes <- copyCrashes

Bulk == INSTANCE BulkUpdate WITH items <- listed

copied == <<original, messages, values, lists, baseline, overlapped, lossy,
            changes, baselines, copyCrashes>>
bulk == <<format, before, listed, entries, todo, phase, theirs, others>>

\* What a form leaves alone stands still at one of its initial states.
EitherInit ==
    /\ form \in {"list", "copy", "bulk"}
    /\ ListInit
    /\ form # "list" => Held = {} /\ meta = NoMeta
    /\ Copy!CopyInit
    /\ Bulk!BulkInit
    /\ form # "bulk" =>
        format = 1 /\ listed = <<>> /\ entries = <<[index |-> 0, content |-> Bulk!Nothing]>>

EitherNext ==
    /\ UNCHANGED form
    /\ \/ form = "list" /\ ListNext /\ UNCHANGED <<copied, bulk>>
       \/ form = "copy" /\ Copy!CopyNext /\ UNCHANGED <<listVars, bulk>>
       \/ form = "bulk" /\ Bulk!BulkNext /\ UNCHANGED <<listVars, copied>>

EitherSpec == EitherInit /\ [][EitherNext]_<<listVars, form, copied, bulk>>

\* At rest, a subscriber reads what the publisher has (RemotePeerStore), but
\* where the code is known to lose track (see PeerCopy).
CopyIsExact == Copy!CopyIsExact

\* A crash in the middle of an append, insert or extend of a copied list
\* loses none of its items (ListAttribute).
CrashKeepsItems == Copy!CrashKeepsItems

\* A batch of updates and deletions by index is as of the list before it, and
\* spares what others write meanwhile (PropertiesHandler.post).
BatchIsAsOfBefore == Bulk!BatchIsAsOfBefore

\* CopiedItems and Contents are one set of values.
Symmetry ==
    Permutations(Writers) \cup Permutations(CopiedItems)
=============================================================================
