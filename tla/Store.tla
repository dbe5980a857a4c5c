-------------------------------- MODULE Store --------------------------------
(***************************************************************************)
(* What store/store.go promises of a message store used by several clients *)
(* at once, whatever the backend:                                          *)
(*                                                                         *)
(*   - a mutator of one message that reports success made its change in    *)
(*     one step, on a message that met its condition at that moment (so    *)
(*     that MoveToFolder with FromFolder is a compare-and-swap); one that  *)
(*     reports an error changed nothing;                                   *)
(*   - a bulk update or removal changes only messages it applies to, each  *)
(*     in one step, and reports those it changed: every removed message is *)
(*     reported by exactly one call;                                       *)
(*   - a batch is created whole or, when it fails, not at all (its rows    *)
(*     need not become visible together);                                  *)
(*   - an idempotent create makes a message only when there is none with   *)
(*     its owner and key, and otherwise returns that one;                  *)
(*   - ids are not used twice, so that what is removed stays removed (a    *)
(*     draft may be saved again).                                          *)
(***************************************************************************)
EXTENDS StoreData

CONSTANTS
    Client,
    StoreCalls,     \* the calls clients make: records with field op
    Cutoff,         \* of the maintenance calls
    Seed            \* the table at the start

VARIABLES
    table,          \* [id -> message]
    used,           \* the ids assigned so far
    call,           \* [Client -> its call]
    phase,          \* [Client -> "idle", "open" or "done"]
    acted,          \* [Client -> the ids its call has created, changed or removed]
    answer          \* [Client -> the reply of its last call]

vars == <<table, used, call, phase, acted, answer>>

----------------------------------------------------------------------------
\* The messages a call applies to.
Holds(m, f) ==
    CASE f.op = "eq" -> Field(m, f.key) = f.val
      [] f.op = "ne" -> Field(m, f.key) # f.val
      [] f.op = "contains" -> f.val \in Field(m, f.key)

Selected(m, k) ==
    /\ m.owner = k.owner /\ ~m.draft
    /\ m.available = NoTime \/ m.available <= Now
    /\ \A n \in DOMAIN k.filters : Holds(m, k.filters[n])

Applies(i, m, k) ==
    CASE k.op \in {"MarkRead", "AddTag", "RemoveTag", "Delete", "HardDelete"} -> i = k.id /\ ~m.draft
      [] k.op = "MoveToFolder" -> i = k.id /\ ~m.draft /\ (k.from # "" => m.folder = k.from)
      [] k.op = "Restore" -> i = k.id /\ ~m.draft /\ m.folder = FolderTrash
      [] k.op = "MarkAllRead" -> m.owner = k.owner /\ ~m.draft /\ ~m.read /\ m.folder = k.arg
      [] k.op \in Bulk \ {"MarkAllRead"} -> Selected(m, k)
      [] k.op = "DeleteMessagesByIDs" -> i \in k.ids
      [] k.op = "DeleteExpiredTrash" -> ~m.draft /\ m.folder = FolderTrash /\ m.updated < Cutoff
      [] k.op = "DeleteExpiredMessages" -> ~m.draft /\ m.created < Cutoff
      [] k.op = "DeleteTTLExpiredMessages" -> ~m.draft /\ m.expires # NoTime /\ m.expires < Now
      [] k.op = "DeleteDraft" -> i = k.id /\ m.draft
      [] OTHER -> FALSE

Targets(t, k) == {i \in DOMAIN t : Applies(i, t[i], k)}

\* What a call may make of a message it applies to.  A tag call that has nothing to do may leave
\* updated_at alone.
Changed(m, k) ==
    LET touched == [m EXCEPT !.updated = Now]
    IN  CASE k.op \in {"MarkRead", "MarkReadByFilter"} -> {[touched EXCEPT !.read = k.flag]}
          [] k.op = "MarkAllRead" -> {[touched EXCEPT !.read = TRUE]}
          [] k.op \in {"MoveToFolder", "MoveByFilter"} -> {[touched EXCEPT !.folder = k.arg]}
          [] k.op \in {"Delete", "DeleteByFilter"} -> {[touched EXCEPT !.folder = FolderTrash]}
          [] k.op = "Restore" ->
                {[touched EXCEPT !.folder = IF m.owner = m.sender THEN FolderSent ELSE FolderInbox]}
          [] k.op \in {"AddTag", "AddTagByFilter"} ->
                {[touched EXCEPT !.tags = @ \union {k.arg}]} \union (IF k.arg \in m.tags THEN {m} ELSE {})
          [] k.op \in {"RemoveTag", "RemoveTagByFilter"} ->
                {[touched EXCEPT !.tags = @ \ {k.arg}]} \union (IF k.arg \in m.tags THEN {} ELSE {m})

\* A message made from the data of a call.
Made(data, id) ==
    [owner |-> data.owner, sender |-> data.sender, folder |-> data.folder, read |-> FALSE,
     tags |-> data.tags, draft |-> FALSE, key |-> data.key, thread |-> data.thread,
     text |-> data.text, created |-> Now + id, updated |-> Now,
     expires |-> data.expires, available |-> data.available]

Holders(t, data) == {i \in DOMAIN t : t[i].owner = data.owner /\ t[i].key = data.key}

----------------------------------------------------------------------------
Init ==
    /\ table = Seed
    /\ used = DOMAIN Seed
    /\ call = [c \in Client |-> NoCall]
    /\ phase = [c \in Client |-> "idle"]
    /\ acted = [c \in Client |-> {}]
    /\ answer = [c \in Client |-> NoAnswer]

Invoke(c) ==
    /\ phase[c] # "open"
    /\ \E k \in StoreCalls : call' = [call EXCEPT ![c] = k]
    /\ phase' = [phase EXCEPT ![c] = "open"]
    /\ acted' = [acted EXCEPT ![c] = {}]
    /\ answer' = [answer EXCEPT ![c] = NoAnswer]
    /\ UNCHANGED <<table, used>>

Reply(c, err, n) ==
    /\ phase' = [phase EXCEPT ![c] = "done"]
    /\ answer' = [answer EXCEPT ![c] = [err |-> err, n |-> n]]

\* The call goes on.
GoOn(c) == UNCHANGED <<phase, answer>>

Acts(c, ids) == acted' = [acted EXCEPT ![c] = @ \union ids]

\* A mutator of one message.
Mutate(c) ==
    LET k == call[c] IN
    /\ phase[c] = "open" /\ k.op \in Mutators
    /\ k.id \in Targets(table, k)
    /\ IF k.op = "HardDelete" THEN table' = Without(table, {k.id})
       ELSE \E m \in Changed(table[k.id], k) : table' = [table EXCEPT ![k.id] = m]
    /\ Acts(c, {k.id})
    /\ Reply(c, "nil", {k.id})
    /\ UNCHANGED <<used, call>>

\* A bulk update changes some of the messages it applies to; it ends with the ones it changed.
Update(c) ==
    LET k == call[c] IN
    /\ phase[c] = "open" /\ k.op \in Bulk
    /\ \E ids \in SUBSET Targets(table, k) :
          /\ DOMAIN table' = DOMAIN table
          /\ \A i \in DOMAIN table : IF i \in ids THEN table'[i] \in Changed(table[i], k)
                                     ELSE table'[i] = table[i]
          /\ Acts(c, ids)
          /\ GoOn(c) \/ Reply(c, "nil", acted'[c])
    /\ UNCHANGED <<used, call>>

\* A removal, likewise; DeleteMessagesByIDs may fail half way and still says what it removed.
RemoveMany(c) ==
    LET k == call[c] IN
    /\ phase[c] = "open" /\ k.op \in Removals
    /\ \E ids \in SUBSET Targets(table, k) :
          /\ table' = Without(table, ids)
          /\ Acts(c, ids)
          /\ \/ GoOn(c)
             \/ Reply(c, "nil", acted'[c])
             \/ k.op = "DeleteMessagesByIDs" /\ Reply(c, "error", acted'[c])
    /\ UNCHANGED <<used, call>>

\* One or more messages of a batch; the call succeeds when all are there.
Create(c) ==
    LET k == call[c] IN
    /\ phase[c] = "open" /\ k.op \in {"CreateMessage", "CreateMessages"}
    /\ \E ids \in SUBSET (DOMAIN table' \ used) :
          /\ ids # {}
          /\ \E at \in [ids -> DOMAIN k.data] :
                table' = [i \in DOMAIN table \union ids |->
                            IF i \in ids THEN Made(k.data[at[i]], i) ELSE table[i]]
          /\ used' = used \union ids
          /\ Acts(c, ids)
    /\ IF Cardinality(acted'[c]) = Len(k.data) THEN Reply(c, "nil", acted'[c]) ELSE GoOn(c)
    /\ UNCHANGED call

CreateIdempotent(c) ==
    LET k == call[c]
        data == k.data[1]
    IN
    /\ phase[c] = "open" /\ k.op = "CreateMessageIdempotent"
    /\ \/ \E id \in DOMAIN table' \ used :
            /\ Holders(table, data) = {}
            /\ table' = With(table, id, Made(data, id))
            /\ used' = used \union {id}
            /\ Acts(c, {id})
            /\ Reply(c, "nil", {id})
       \/ \E id \in Holders(table, data) :
            /\ Reply(c, "existing", {id})
            /\ UNCHANGED <<table, used, acted>>
    /\ UNCHANGED call

\* Saving a draft never touches a message.
SaveDraft(c) ==
    LET k == call[c] IN
    /\ phase[c] = "open" /\ k.op = "SaveDraft"
    /\ \E id \in DOMAIN table' :
          /\ IF k.id = NoId THEN id \notin used ELSE id = k.id
          /\ id \in DOMAIN table => table[id].draft
          /\ table'[id].draft /\ table'[id].text = k.flag
          /\ table' = With(table, id, table'[id])
          /\ used' = used \union {id}
          /\ Acts(c, {id})
          /\ Reply(c, "nil", {id})
    /\ UNCHANGED call

\* Removing a draft somebody else has just removed may succeed as well.
DeleteDraft(c) ==
    LET k == call[c] IN
    /\ phase[c] = "open" /\ k.op = "DeleteDraft"
    /\ k.id \in DOMAIN table => table[k.id].draft
    /\ table' = Without(table, {k.id})
    /\ Acts(c, {k.id})
    /\ Reply(c, "nil", {k.id})
    /\ UNCHANGED <<used, call>>

\* A call that reports an error has done nothing.
Refused(c) ==
    /\ phase[c] = "open" /\ acted[c] = {}
    /\ \E e \in {"ErrInvalidID", "ErrNotFound", "ErrFolderMismatch", "ErrInvalidFolderID", "error"} : Reply(c, e, {})
    /\ UNCHANGED <<table, used, call, acted>>

Next == \E c \in Client :
    Invoke(c) \/ Mutate(c) \/ Update(c) \/ RemoveMany(c) \/ Create(c) \/ CreateIdempotent(c)
    \/ SaveDraft(c) \/ DeleteDraft(c) \/ Refused(c)

Spec == Init /\ [][Next]_vars
=============================================================================
