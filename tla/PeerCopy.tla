------------------------------ MODULE PeerCopy ------------------------------
(***************************************************************************)
(* The copy that a subscriber keeps of a peer's properties                 *)
(* (RemotePeerStore in actingweb/remote_storage.py), next to the original: *)
(* the operations on the original, made by the application                 *)
(* (interface/property_store.py) or by a request                           *)
(* (handlers/properties.py), what each of them announces, and what         *)
(* applying that, or a baseline, makes of the copy.                        *)
(*                                                                         *)
(* The subscription is of all properties.  Messages are applied in the     *)
(* order they were announced, each of them at least once, which is what    *)
(* CallbackProcessor is about.  A value is a function from the fields it   *)
(* has.                                                                    *)
(***************************************************************************)
EXTENDS ListAttribute

CONSTANTS
    Names,          \* Of properties.
    Fields,         \* Of a value.
    Routes,         \* Who changes: "application" or "request".
    MaxLen,         \* Of a list.
    MaxChanges, MaxBaselines, MaxCrashes

VARIABLES
    original,   \* The properties of the publisher.
    messages,   \* Announced and not applied yet, oldest first.
    values,     \* The copied values ...
    lists,      \* ... and the copied lists, as they are stored.
    baseline,   \* What a baseline has read, by name; no name when none runs.
    overlapped,    \* Names with a message under way since its first read.
    lossy,      \* Names of which the copy may be wrong (see CopyIsExact).
    changes, baselines, crashes

copyVars == <<original, messages, values, lists, baseline, overlapped, lossy,
              changes, baselines, crashes>>

Absent == [kind |-> "none"]
Value(fields) == [kind |-> "value", fields |-> fields]
List(items) == [kind |-> "list", items |-> items]

\* A field that was deleted, and the value that a message about a list leaves
\* when it is no list operation.
Gone == "gone"
Foreign == [kind |-> "foreign"]

FieldValues == UNION {[F -> Items] : F \in SUBSET Fields \ {{}}}
ItemLists == UNION {[1..n -> Items] : n \in 0..MaxLen}

CopyTypeOK ==
    /\ DOMAIN original = Names
    /\ \A n \in Names :
         \/ original[n] = Absent
         \/ original[n].kind = "value" /\ original[n].fields \in FieldValues
         \/ original[n].kind = "list" /\ original[n].items \in ItemLists
    /\ lossy \cup overlapped \cup DOMAIN baseline \subseteq Names
    /\ changes \in 0..MaxChanges
    /\ baselines \in 0..MaxBaselines
    /\ crashes \in 0..MaxCrashes

CopyInit ==
    /\ original = [n \in Names |-> Absent]
    /\ messages = <<>>
    /\ values = [n \in Names |-> Absent]
    /\ lists = [n \in Names |-> NoList]
    /\ baseline = <<>>
    /\ lossy = {} /\ overlapped = {}
    /\ changes = 0 /\ baselines = 0 /\ crashes = 0

-----------------------------------------------------------------------------
(* A change of the original and the messages it announces.                 *)

Announce(n, new, payloads) ==
    /\ changes < MaxChanges
    /\ changes' = changes + 1
    /\ original' = [original EXCEPT ![n] = new]
    /\ messages' = messages \o [k \in DOMAIN payloads |->
                                  [name |-> n, payload |-> payloads[k]]]
    /\ overlapped' = overlapped \cup {n}
    /\ UNCHANGED <<values, lists, baseline, baselines, crashes>>

\* The message names what was done as the receiver understands it.
Faithful(n, new, payloads) == Announce(n, new, payloads) /\ UNCHANGED lossy

\* It does not, or may not.
Doubtful(n, new, payloads) ==
    Announce(n, new, payloads) /\ lossy' = lossy \cup {n}

Operation(op) == [op |-> op]
Positional(op, i) == [op |-> op, index |-> i]
Itemised(op, item) == [op |-> op, item |-> item]
Placed(op, i, item) == [op |-> op, index |-> i, item |-> item]
Replaced(old, item) == [op |-> "update", old_item |-> old, item |-> item]
Stored(fields) == [op |-> "store", fields |-> fields]

HasList(n) == original[n].kind = "list"
ItemsOf(n) == IF HasList(n) THEN original[n].items ELSE <<>>
IndexesOf(n) == 0..Len(ItemsOf(n)) - 1
Occurs(item, items) == Cardinality({i \in DOMAIN items : items[i] = item})

-----------------------------------------------------------------------------
(* NotifyingListProperty.                                                  *)

Grow(n, by) == original[n].kind # "value" /\ Len(ItemsOf(n)) + by <= MaxLen

AppendItem(n) ==
    \E x \in Items :
        /\ Grow(n, 1)
        /\ Faithful(n, List(Append(ItemsOf(n), x)), <<Itemised("append", x)>>)

ExtendList(n) ==
    \E xs \in [1..2 -> Items] :
        /\ Grow(n, 2)
        /\ Faithful(n, List(ItemsOf(n) \o xs),
                    <<[op |-> "extend", items |-> xs]>>)

InsertItem(n) ==
    \E x \in Items, i \in 0..Len(ItemsOf(n)) :
        /\ Grow(n, 1)
        /\ Faithful(n, List(InsertAt(ItemsOf(n), i + 1, x)),
                    <<Placed("insert", i, x)>>)

SetItemAt(n) ==
    \E x \in Items, i \in IndexesOf(n) :
        Faithful(n, List(ReplaceAt(ItemsOf(n), i + 1, x)),
                 <<Placed("update", i, x)>>)

DelItemAt(n) ==
    \E i \in IndexesOf(n) :
        Faithful(n, List(RemoveAt(ItemsOf(n), i + 1)),
                 <<Positional("delete", i)>>)

\* pop(): the message calls the last item -1.
PopItem(n) ==
    \E i \in IndexesOf(n) \cup {-1} :
        LET at == IF i = -1 THEN Len(ItemsOf(n)) ELSE i + 1
        IN  /\ IndexesOf(n) # {}
            /\ Faithful(n, List(RemoveAt(ItemsOf(n), at)), <<Positional("pop", i)>>)

\* remove() takes the first, as the receiver does.
RemoveItem(n) ==
    \E x \in ToSet(ItemsOf(n)) :
        Faithful(n, List(RemoveFirst(ItemsOf(n), x)), <<Itemised("remove", x)>>)

\* The handle names one of the items, the message only what it holds.
DeleteByHandle(n) ==
    \E i \in IndexesOf(n) :
        LET x == ItemsOf(n)[i + 1]
            new == List(RemoveAt(ItemsOf(n), i + 1))
        IN  IF Occurs(x, ItemsOf(n)) = 1
            THEN Faithful(n, new, <<Itemised("remove", x)>>)
            ELSE Doubtful(n, new, <<Itemised("remove", x)>>)

UpdateByHandle(n) ==
    \E i \in IndexesOf(n), x \in Items :
        LET old == ItemsOf(n)[i + 1]
            new == List(ReplaceAt(ItemsOf(n), i + 1, x))
        IN  IF Occurs(old, ItemsOf(n)) = 1
            THEN Faithful(n, new, <<Replaced(old, x)>>)
            ELSE Doubtful(n, new, <<Replaced(old, x)>>)

\* remove_where: a message for each of the items.
RemoveWhere(n) ==
    \E x \in ToSet(ItemsOf(n)) :
        Faithful(n, List(SelectSeq(ItemsOf(n), LAMBDA y : y # x)),
                 [k \in 1..Occurs(x, ItemsOf(n)) |-> Itemised("remove", x)])

UpdateWhere(n) ==
    \E old \in ToSet(ItemsOf(n)), x \in Items :
        LET new == List(ReplaceAll(ItemsOf(n), old, x))
            count == Occurs(old, ItemsOf(n))
            payloads == [k \in 1..count |-> Replaced(old, x)]
        IN  IF count = 1 THEN Faithful(n, new, payloads)
            ELSE Doubtful(n, new, payloads)

EmptyList(n) == HasList(n) /\ Faithful(n, List(<<>>), <<Operation("clear")>>)

DropList(n) == HasList(n) /\ Faithful(n, Absent, <<Operation("delete_all")>>)

\* Descriptions, compact() and migrate_to_v2() of a sound list.
TouchMetadata(n) ==
    HasList(n) /\ Faithful(n, original[n], <<Operation("metadata")>>)

-----------------------------------------------------------------------------
(* PropertyStore and the requests for values.  A name in use for a list is *)
(* refused.                                                                *)

PutValue(n) ==
    \E fields \in FieldValues :
        /\ ~HasList(n)
        /\ Faithful(n, Value(fields), <<Stored(fields)>>)

DeleteValue(n) ==
    /\ original[n].kind = "value"
    /\ Faithful(n, Absent, <<Operation("gone")>>)

\* PUT of a field: merged into the original, and sent without the others.
PutField(n) ==
    \E f \in Fields, x \in Items :
        LET old == IF original[n].kind = "value" THEN original[n].fields ELSE <<>>
            new == Value((f :> x) @@ old)
            sent == <<Stored(f :> x)>>
        IN  /\ ~HasList(n)
            /\ IF DOMAIN old \subseteq {f} THEN Faithful(n, new, sent)
               ELSE Doubtful(n, new, sent)

\* DELETE of a field, of a value that has another.
DeleteField(n) ==
    \E f \in Fields :
        /\ original[n].kind = "value"
        /\ {f} # DOMAIN original[n].fields /\ f \in DOMAIN original[n].fields
        /\ Doubtful(n, Value([g \in DOMAIN original[n].fields \ {f} |->
                                 original[n].fields[g]]),
                    <<Stored(f :> Gone)>>)

-----------------------------------------------------------------------------
(* Requests for lists.  They work on the list itself, without the wrapper  *)
(* that announces, and announce in forms of their own.                     *)

OnList(n, items) ==
    /\ HasList(n) /\ Len(items) <= MaxLen
    /\ Doubtful(n, List(items), <<Operation("note")>>)

\* PUT with an index: an update, or an append at the length.
PutItem(n) ==
    \E x \in Items, i \in 0..Len(ItemsOf(n)) :
        OnList(n, IF i < Len(ItemsOf(n)) THEN ReplaceAt(ItemsOf(n), i + 1, x)
                  ELSE Append(ItemsOf(n), x))

\* POST of an action to the items of a list.
PostItems(n) ==
    \/ \E x \in Items :
         \/ OnList(n, Append(ItemsOf(n), x))
         \/ \E i \in IndexesOf(n) : OnList(n, ReplaceAt(ItemsOf(n), i + 1, x))
    \/ \E i \in IndexesOf(n) : OnList(n, RemoveAt(ItemsOf(n), i + 1))

\* POST of a batch (see BulkUpdate).
PostBatch(n) == \E items \in ItemLists : OnList(n, items)

\* DELETE of a list: the message of a value.
RequestListDelete(n) ==
    /\ HasList(n)
    /\ Doubtful(n, Absent, <<Operation("gone")>>)

ByApplication(n) ==
    \/ AppendItem(n) \/ ExtendList(n) \/ InsertItem(n) \/ SetItemAt(n)
    \/ DelItemAt(n) \/ PopItem(n) \/ RemoveItem(n) \/ DeleteByHandle(n)
    \/ UpdateByHandle(n) \/ RemoveWhere(n) \/ UpdateWhere(n) \/ EmptyList(n)
    \/ DropList(n) \/ TouchMetadata(n) \/ PutValue(n) \/ DeleteValue(n)

ByRequest(n) ==
    \/ PutField(n) \/ DeleteField(n) \/ PutItem(n) \/ PostItems(n) \/ PostBatch(n)
    \/ RequestListDelete(n) \/ PutValue(n) \/ DeleteValue(n)

Change == \E n \in Names, r \in Routes :
    IF r = "application" THEN ByApplication(n) ELSE ByRequest(n)

-----------------------------------------------------------------------------
(* apply_callback_data: the writes that a message makes to the copied list *)
(* and what it leaves of the copied value.                                 *)

Positions(stored, item) ==
    {i \in 0..Length(stored) - 1 : stored.rows[i] = item}

\* Looking for an item reads all rows, and one that is missing raises.
Found(stored, item) ==
    IF IsReadable(stored) THEN Positions(stored, item) ELSE {}

InRange(stored, i) == 0 <= i /\ i < Length(stored)

UpdateWrites(stored, p) ==
    CASE "old_item" \in DOMAIN p ->
           LET at == Found(stored, p.old_item)
           IN  IF Cardinality(at) = 1
               THEN SetItemWrites(stored, Min(at), p.item) ELSE <<>>
      [] InRange(stored, p.index) -> SetItemWrites(stored, p.index, p.item)
      [] OTHER -> <<>>

RemoveAtWrites(stored, i) ==
    IF InRange(stored, i) THEN DelItemWrites(stored, i) ELSE <<>>

RemoveWrites(stored, item) ==
    LET at == Found(stored, item)
    IN  IF at = {} THEN <<>> ELSE DelItemWrites(stored, Min(at))

ListWrites(stored, p) ==
    CASE p.op = "append" -> AppendWrites(stored, p.item)
      [] p.op = "extend" -> ExtendWrites(stored, p.items)
      [] p.op = "insert" -> InsertWrites(stored, p.index, p.item)
      [] p.op = "update" -> UpdateWrites(stored, p)
      [] p.op = "delete" -> RemoveAtWrites(stored, p.index)
      [] p.op = "pop" -> RemoveAtWrites(stored, IF p.index = -1 THEN Length(stored) - 1 ELSE p.index)
      [] p.op = "remove" -> RemoveWrites(stored, p.item)
      [] p.op = "clear" -> ClearWrites(stored)
      [] p.op = "delete_all" -> DeleteWrites(stored)
      [] OTHER -> <<>>

\* A value is replaced as a whole, and nothing looks at a list of the name.
CopiedValue(value, p) ==
    CASE p.op = "store" -> Value(p.fields)
      [] p.op = "note" -> Foreign
      [] p.op = "gone" -> Absent
      [] OTHER -> value

\* The first k writes of a message.
Apply(m, writes, k) ==
    /\ lists' = [lists EXCEPT ![m.name] = WriteAll(@, SubSeq(writes, 1, k))]
    /\ values' = [values EXCEPT ![m.name] = CopiedValue(@, m.payload)]
    /\ overlapped' = overlapped \cup {m.name}
    /\ UNCHANGED <<original, baseline, changes, baselines>>

Deliver ==
    /\ messages # <<>>
    /\ LET m == Head(messages)
           writes == ListWrites(lists[m.name], m.payload)
       IN  Apply(m, writes, Len(writes))
    /\ messages' = Tail(messages)
    /\ UNCHANGED <<lossy, crashes>>

\* The subscriber dies before it counts the message as applied: the message
\* will be applied again.  That is harmless for a value.
CrashWhileApplying ==
    /\ messages # <<>> /\ crashes < MaxCrashes
    /\ crashes' = crashes + 1
    /\ LET m == Head(messages)
           writes == ListWrites(lists[m.name], m.payload)
       IN  \E k \in 0..Len(writes) :
             /\ Apply(m, writes, k)
             /\ lossy' = IF k = 0 THEN lossy ELSE lossy \cup {m.name}
    /\ UNCHANGED messages

-----------------------------------------------------------------------------
(* A baseline: the properties are read, then the items of each list, then  *)
(* what was read is stored, name by name (apply_resync_data).              *)

Listed == [kind |-> "listed"]   \* A list of which only the count was read.
Skipped == [kind |-> "skipped"] \* Its items could not be read.

InFlight == {messages[i].name : i \in DOMAIN messages}

\* A publisher without properties has no baseline to store.
ReadProperties ==
    /\ baseline = <<>> /\ baselines < MaxBaselines
    /\ baselines' = baselines + 1
    /\ baseline' = [n \in {m \in Names : original[m] # Absent} |->
                      IF HasList(n) THEN Listed ELSE original[n]]
    /\ overlapped' = InFlight
    /\ UNCHANGED <<original, messages, values, lists, lossy, changes, crashes>>

\* A list that is gone, a value by now, or a request that fails: no items.
ReadItems(n) ==
    /\ n \in DOMAIN baseline
    /\ baseline[n] = Listed
    /\ \/ HasList(n) /\ baseline' = [baseline EXCEPT ![n] = original[n]]
       \/ baseline' = [baseline EXCEPT ![n] = Skipped]
    /\ UNCHANGED <<original, messages, values, lists, overlapped, lossy,
                   changes, baselines, crashes>>

\* Mutant: the list is not cleared first.
SetListByExtending(stored, items) == ExtendWrites(stored, items)

\* set_list(): clear, then extend.
SetListWrites(stored, items) ==
    ClearWrites(stored)
        \o ExtendWrites(WriteAll(stored, ClearWrites(stored)), items)

\* set_list() or set_value(); the name's other form stays as it is.
StoreName(n) ==
    /\ n \in DOMAIN baseline
    /\ \A m \in DOMAIN baseline : baseline[m] # Listed
    /\ baseline' = [m \in DOMAIN baseline \ {n} |-> baseline[m]]
    /\ LET read == baseline[n]
       IN  \/ /\ read.kind = "value"
              /\ values' = [values EXCEPT ![n] = read]
              /\ UNCHANGED lists
           \/ /\ read.kind = "list"
              /\ lists' = [lists EXCEPT ![n] =
                              WriteAll(@, SetListWrites(@, read.items))]
              /\ UNCHANGED values
           \/ read = Skipped /\ UNCHANGED <<values, lists>>
    /\ lossy' = CASE baseline[n] # Skipped /\ n \in overlapped -> lossy \cup {n}
                  [] baseline[n] # Skipped /\ n \notin overlapped
                       /\ (values'[n] = Absent \/ lists'[n] = NoList) ->
                       lossy \ {n}
                  [] OTHER -> lossy
    /\ UNCHANGED <<original, messages, overlapped, changes, baselines, crashes>>

CopyNext ==
    \/ Change
    \/ Deliver
    \/ CrashWhileApplying
    \/ ReadProperties
    \/ \E n \in Names : ReadItems(n) \/ StoreName(n)

CopySpec == CopyInit /\ [][CopyNext]_copyVars

-----------------------------------------------------------------------------
\* get_all_properties(): the value, when a name has both.
CopyOf(n) ==
    CASE values[n] # Absent -> values[n]
      [] values[n] = Absent /\ lists[n].length # -1 /\ IsReadable(lists[n]) ->
           List(ToList(lists[n]))
      [] OTHER -> Absent

\* At rest, a subscriber reads what the publisher has (RemotePeerStore), under
\* every name but those whose copy a message that is no list operation, a
\* duplicate item, a crash or a baseline that overlapped a message may have
\* spoiled since the last baseline that overlapped none.
CopyIsExact ==
    messages = <<>> /\ baseline = <<>> =>
        \A n \in Names \ lossy : CopyOf(n) = original[n]

Copies(stored, item) == Cardinality({i \in Rows(stored) : stored.rows[i] = item})

\* A crash in the middle of an append, insert or extend leaves every copied
\* item in some row (ListAttribute: "duplicate items, not data loss").
CrashKeepsItems ==
    [][crashes' # crashes
         /\ Head(messages).payload.op \in {"append", "insert", "extend"} =>
       \A n \in Names, x \in Items :
           Copies(lists'[n], x) >= Copies(lists[n], x)]_copyVars
=============================================================================
