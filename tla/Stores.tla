------------------------------- MODULE Stores --------------------------------
(***************************************************************************)
(* The three message stores at work: clients (goroutines of any number of  *)
(* service instances) call the backend chosen at the start, and an         *)
(* iterator of iterator.go pages through the mailbox of one user.          *)
(*                                                                         *)
(* A step of a call is one access of the backend: a Load or Store of the   *)
(* sync.Map of store/memory, a SQL statement or a commit of                *)
(* store/postgres, a command (for UpdateMany and DeleteMany: one document) *)
(* of store/mongo.  The first step of a call includes its argument checks. *)
(***************************************************************************)
EXTENDS StoreData

CONSTANTS
    Client, StoreCalls, Cutoff, Seed,   \* see Store
    Backends,       \* the backends to choose from
    CallsOf,        \* [Client -> SUBSET StoreCalls]
    MaxCalls,       \* [BOOLEAN -> [Client -> Nat]]: how many calls it makes, without and with an iterator
    Reading,        \* SUBSET BOOLEAN: whether an iterator runs
    BatchSize,      \* of the iterator
    Reader,         \* the user whose mailbox the iterator reads
    DefaultQueryLimit, MaxQueryLimit    \* of the service

Memory == INSTANCE MemoryStore
Postgres == INSTANCE PostgresStore
Mongo == INSTANCE MongoStore
Query == INSTANCE Queries

VARIABLES
    backend,
    table,          \* [id -> message]
    next,           \* the next id to be generated
    idx,            \* memory: idempotencyIdx, [<<owner, key>> -> id]
    lock,           \* memory: the ids whose message lock is held
    call,           \* [Client -> its call]
    pc,             \* [Client -> where the call is]
    loc,            \* [Client -> its locals]
    answer,         \* [Client -> the reply of the last call]
    left,           \* [Client -> calls it may still make]
    it,             \* the iterator
    acted,          \* history: [Client -> the ids its call has created, changed or removed]
    ever,           \* history: the ids that have been in the table
    solo,           \* history: [Client -> the table its call found, while no other call takes a step]
    stay            \* history: the messages the iterator has had to list from its first page on

vars == <<backend, table, next, idx, lock, call, pc, loc, answer, left, it, acted, ever, solo, stay>>

idxKey(data) == <<data.owner, data.key>>
NewLoc == [todo |-> {}, seen |-> NoMessage, attempt |-> 0, id |-> NoId, new |-> NoId]
NoTable == [i \in {} |-> NoMessage]
StreamFilters == <<OwnerIs(Reader), NotDeleted>>

\* The calls store/memory does not isolate: it removes messages without taking their lock, and
\* reserves an idempotency key before it stores the message (the known race of
\* storetest/concurrency.go).  In store/memory they are modelled one call at a time.
RacyInMemory == {"CreateMessageIdempotent", "SaveDraft", "DeleteDraft"} \union Removals

Init ==
    /\ backend \in Backends
    /\ table = Seed
    /\ next = Max(DOMAIN Seed) + 1
    /\ idx = LET keyed == {i \in DOMAIN Seed : Seed[i].key # ""}
             IN  [k \in {idxKey(Seed[i]) : i \in keyed} |-> CHOOSE i \in keyed : idxKey(Seed[i]) = k]
    /\ lock = {}
    /\ call = [c \in Client |-> NoCall]
    /\ pc = [c \in Client |-> "idle"]
    /\ loc = [c \in Client |-> NewLoc]
    /\ answer = [c \in Client |-> NoAnswer]
    /\ \E on \in Reading : left = MaxCalls[on] /\ it = [on |-> on, cursor |-> NoId, batch |-> <<>>, i |-> 0,
                                 got |-> <<>>, fetched |-> FALSE, done |-> FALSE, err |-> "nil", lost |-> FALSE]
    /\ acted = [c \in Client |-> {}]
    /\ ever = DOMAIN Seed
    /\ solo = [c \in Client |-> NoTable]
    /\ stay = {}

----------------------------------------------------------------------------
(* The shape of a step. *)

Open(c) == pc[c] \notin {"idle", "done"}

Enter(c, b, where, ops) == backend = b /\ pc[c] = where /\ call[c].op \in ops

\* The call ends with this reply, having acted on ids.
Return(c, t, err, n, ids) ==
    /\ table' = t
    /\ pc' = [pc EXCEPT ![c] = "done"]
    /\ answer' = [answer EXCEPT ![c] = [err |-> err, n |-> n]]
    /\ loc' = [loc EXCEPT ![c] = NewLoc]
    /\ acted' = [acted EXCEPT ![c] = @ \union ids]

Refuse(c, err) == Return(c, table, err, {}, {})

\* The call goes on at where, having acted on ids.
Continue(c, t, where, locals, ids) ==
    /\ table' = t
    /\ pc' = [pc EXCEPT ![c] = where]
    /\ loc' = [loc EXCEPT ![c] = locals]
    /\ acted' = [acted EXCEPT ![c] = @ \union ids]
    /\ UNCHANGED answer

\* A loop over todo: it goes on with the rest, or ends with what it acted on.
Loop(c, t, where, rest, ids) ==
    IF rest = {} THEN Return(c, t, "nil", acted[c] \union ids, ids)
    ELSE Continue(c, t, where, [NewLoc EXCEPT !.todo = rest], ids)

Begin(c) ==
    /\ ~Open(c) /\ left[c] > 0
    /\ \E k \in CallsOf[c] :
          /\ call' = [call EXCEPT ![c] = k]
          /\ backend = "memory" =>
                \A d \in Client : Open(d) => {k.op, call[d].op} \intersect RacyInMemory = {}
    /\ left' = [left EXCEPT ![c] = @ - 1]
    /\ pc' = [pc EXCEPT ![c] = "start"]
    /\ acted' = [acted EXCEPT ![c] = {}]
    /\ answer' = [answer EXCEPT ![c] = NoAnswer]
    /\ solo' = [solo EXCEPT ![c] = table]
    /\ UNCHANGED <<backend, table, next, idx, lock, loc, it, ever, stay>>

----------------------------------------------------------------------------
(* store/memory *)

Load(t, id) == IF id \in DOMAIN t THEN t[id] ELSE NoMessage

MemoryMutated(k, orig) ==
    CASE k.op = "MarkRead"     -> Memory!MarkRead(orig, k.flag)
      [] k.op = "MoveToFolder" -> Memory!MoveToFolder(orig, k.arg, k.from)
      [] k.op = "AddTag"       -> Memory!AddTag(orig, k.arg)
      [] k.op = "RemoveTag"    -> Memory!RemoveTag(orig, k.arg)
      [] k.op = "Delete"       -> Memory!Delete(orig)
      [] k.op = "HardDelete"   -> Memory!HardDelete(orig)
      [] k.op = "Restore"      -> Memory!Restore(orig)

\* The lock is taken and the message loaded.
MemoryLoad(c) ==
    LET k == call[c]
        orig == Load(table, k.id)
        r == MemoryMutated(k, orig)
    IN
    /\ Enter(c, "memory", "start", Mutators)
    /\ k.id \notin lock
    /\ CASE k.id = NoId -> Refuse(c, "ErrInvalidID") /\ UNCHANGED lock
         [] k.id # NoId /\ r.err # "nil" -> Refuse(c, r.err) /\ UNCHANGED lock
         [] k.id # NoId /\ r.err = "nil" /\ k.op \in {"AddTag", "RemoveTag"} /\ r.msg = orig ->
                Return(c, table, "nil", {k.id}, {k.id}) /\ UNCHANGED lock
         [] OTHER -> /\ Continue(c, table, "loaded", [NewLoc EXCEPT !.seen = orig], {})
                     /\ lock' = lock \union {k.id}
    /\ UNCHANGED <<next, idx>>

\* The clone is stored and the lock released.
MemoryStoreBack(c) ==
    LET k == call[c]
        r == MemoryMutated(k, loc[c].seen)
        t == IF k.op = "HardDelete" THEN Without(table, {k.id}) ELSE With(table, k.id, r.msg)
    IN
    /\ Enter(c, "memory", "loaded", Mutators)
    /\ Return(c, t, "nil", {k.id}, {k.id})
    /\ lock' = lock \ {k.id}
    /\ UNCHANGED <<next, idx>>

MemoryVisited(k, orig) ==
    CASE k.op = "MarkAllRead"       -> Memory!MarkAllRead(orig, k.owner, k.arg)
      [] k.op = "MarkReadByFilter"  -> Memory!MarkReadByFilter(orig, k.owner, k.filters, k.flag)
      [] k.op = "MoveByFilter"      -> Memory!MoveByFilter(orig, k.owner, k.filters, k.arg)
      [] k.op = "DeleteByFilter"    -> Memory!DeleteByFilter(orig, k.owner, k.filters)
      [] k.op = "AddTagByFilter"    -> Memory!AddTagByFilter(orig, k.owner, k.filters, k.arg)
      [] k.op = "RemoveTagByFilter" -> Memory!RemoveTagByFilter(orig, k.owner, k.filters, k.arg)

MemoryRange(c) ==
    LET mine == {i \in DOMAIN table : ~table[i].draft /\ table[i].owner = call[c].owner} IN
    /\ Enter(c, "memory", "start", Bulk)
    /\ Loop(c, table, "range", mine, {})
    /\ UNCHANGED <<next, idx, lock>>

MemoryVisit(c) ==
    /\ Enter(c, "memory", "range", Bulk)
    /\ \E i \in loc[c].todo \ lock :
          LET r == MemoryVisited(call[c], Load(table, i)) IN
          IF r.err = "nil" THEN Loop(c, With(table, i, r.msg), "range", loc[c].todo \ {i}, {i})
          ELSE Loop(c, table, "range", loc[c].todo \ {i}, {})
    /\ UNCHANGED <<next, idx, lock>>

MemoryCollect(c) ==
    LET k == call[c]
        ids == CASE k.op = "DeleteMessagesByIDs"      -> k.ids
                 [] k.op = "DeleteExpiredTrash"       -> Memory!DeleteExpiredTrash(table, Cutoff)
                 [] k.op = "DeleteExpiredMessages"    -> Memory!DeleteExpiredMessages(table, Cutoff)
                 [] k.op = "DeleteTTLExpiredMessages" -> Memory!DeleteTTLExpiredMessages(table, Now)
    IN
    /\ Enter(c, "memory", "start", Removals)
    /\ Loop(c, table, "collected", ids, {})
    /\ UNCHANGED <<next, idx, lock>>

MemoryRemove(c) ==
    /\ Enter(c, "memory", "collected", Removals)
    /\ \E i \in loc[c].todo :
          LET r == Memory!LoadAndDelete(table, i)
          IN  Loop(c, r.table, "collected", loc[c].todo \ {i}, IF r.loaded THEN {i} ELSE {})
    /\ UNCHANGED <<next, idx, lock>>

\* CreateMessage; CreateMessages is a loop of it.
MemoryCreate(c) ==
    LET k == call[c]
        n == Cardinality(acted[c]) + 1
        t == Memory!CreateMessage(table, k.data[n], next)
    IN
    /\ Enter(c, "memory", "start", {"CreateMessage", "CreateMessages"})
    /\ IF n = Len(k.data) THEN Return(c, t, "nil", acted[c] \union {next}, {next})
       ELSE Continue(c, t, "start", NewLoc, {next})
    /\ next' = next + 1
    /\ UNCHANGED <<idx, lock>>

\* CreateMessageIdempotent: at most two rounds of LoadOrStore, Load, Delete of a stale index entry.
MemoryReserve(c) ==
    LET r == Memory!LoadOrStore(idx, idxKey(call[c].data[1]), next) IN
    /\ Enter(c, "memory", "start", {"CreateMessageIdempotent"})
    /\ idx' = r.idx
    /\ Continue(c, table, IF r.loaded THEN "lookup" ELSE "reserved",
                [loc[c] EXCEPT !.id = r.id, !.new = next], {})
    /\ next' = next + 1
    /\ UNCHANGED lock

MemoryLookup(c) ==
    LET id == loc[c].id IN
    /\ Enter(c, "memory", "lookup", {"CreateMessageIdempotent"})
    /\ IF id \in DOMAIN table THEN Return(c, table, "existing", {id}, {})
       ELSE Continue(c, table, "stale", loc[c], {})
    /\ UNCHANGED <<next, idx, lock>>

MemoryDropStale(c) ==
    /\ Enter(c, "memory", "stale", {"CreateMessageIdempotent"})
    /\ idx' = Without(idx, {idxKey(call[c].data[1])})
    /\ Continue(c, table, IF loc[c].attempt < 1 THEN "start" ELSE "reserved",
                [loc[c] EXCEPT !.attempt = @ + 1], {})
    /\ UNCHANGED <<next, lock>>

MemoryCreateReserved(c) ==
    LET id == loc[c].new IN
    /\ Enter(c, "memory", "reserved", {"CreateMessageIdempotent"})
    /\ Return(c, Memory!CreateMessage(table, call[c].data[1], id), "nil", {id}, {id})
    /\ UNCHANGED <<next, idx, lock>>

MemorySaveDraft(c) ==
    LET k == call[c]
        id == IF k.id = NoId THEN next ELSE k.id
    IN
    /\ Enter(c, "memory", "start", {"SaveDraft"})
    /\ Return(c, Memory!SaveDraft(table, [Memory!NewDraft(k.owner) EXCEPT !.text = k.flag], id), "nil", {id}, {id})
    /\ next' = IF k.id = NoId THEN next + 1 ELSE next
    /\ UNCHANGED <<idx, lock>>

MemoryLoadDraft(c) ==
    LET r == Memory!GetDraft(table, call[c].id) IN
    /\ Enter(c, "memory", "start", {"DeleteDraft"})
    /\ IF r.err # "nil" THEN Refuse(c, r.err) ELSE Continue(c, table, "loaded", NewLoc, {})
    /\ UNCHANGED <<next, idx, lock>>

MemoryDeleteDraft(c) ==
    LET id == call[c].id IN
    /\ Enter(c, "memory", "loaded", {"DeleteDraft"})
    /\ Return(c, Without(table, {id}), "nil", {id}, {id})
    /\ UNCHANGED <<next, idx, lock>>

MemoryStep(c) ==
    \/ MemoryLoad(c) \/ MemoryStoreBack(c) \/ MemoryRange(c) \/ MemoryVisit(c)
    \/ MemoryCollect(c) \/ MemoryRemove(c) \/ MemoryCreate(c)
    \/ MemoryReserve(c) \/ MemoryLookup(c) \/ MemoryDropStale(c) \/ MemoryCreateReserved(c)
    \/ MemorySaveDraft(c) \/ MemoryLoadDraft(c) \/ MemoryDeleteDraft(c)

----------------------------------------------------------------------------
(* store/postgres *)

OneStatement == (Mutators \ {"Restore"}) \union Bulk \union Removals \union {"DeleteDraft"}

PostgresResult(k) ==
    CASE k.op = "MarkRead"     -> Postgres!MarkRead(table, k.id, k.flag)
      [] k.op = "MoveToFolder" -> Postgres!MoveToFolder(table, k.id, k.arg, k.from)
      [] k.op = "AddTag"       -> Postgres!AddTag(table, k.id, k.arg)
      [] k.op = "RemoveTag"    -> Postgres!RemoveTag(table, k.id, k.arg)
      [] k.op = "Delete"       -> Postgres!Delete(table, k.id)
      [] k.op = "HardDelete"   -> Postgres!HardDelete(table, k.id)
      [] k.op = "MarkAllRead"  -> Postgres!MarkAllRead(table, k.owner, k.arg)
      [] k.op = "MarkReadByFilter"  -> Postgres!MarkReadByFilter(table, k.owner, k.filters, k.flag)
      [] k.op = "MoveByFilter"      -> Postgres!MoveByFilter(table, k.owner, k.filters, k.arg)
      [] k.op = "DeleteByFilter"    -> Postgres!DeleteByFilter(table, k.owner, k.filters)
      [] k.op = "AddTagByFilter"    -> Postgres!AddTagByFilter(table, k.owner, k.filters, k.arg)
      [] k.op = "RemoveTagByFilter" -> Postgres!RemoveTagByFilter(table, k.owner, k.filters, k.arg)
      [] k.op = "DeleteMessagesByIDs"      -> Postgres!DeleteMessagesByIDs(table, k.ids)
      [] k.op = "DeleteExpiredTrash"       -> Postgres!DeleteExpiredTrash(table, Cutoff)
      [] k.op = "DeleteExpiredMessages"    -> Postgres!DeleteExpiredMessages(table, Cutoff)
      [] k.op = "DeleteTTLExpiredMessages" -> Postgres!DeleteTTLExpiredMessages(table, Now)
      [] k.op = "DeleteDraft"  -> Postgres!DeleteDraft(table, k.id)

\* A conditional move that affected no row asks why.
Probes(k, err) == k.op = "MoveToFolder" /\ k.from # "" /\ err = "ErrNotFound"

PostgresStatement(c) ==
    LET k == call[c]
        r == PostgresResult(k)
    IN
    /\ Enter(c, "postgres", "start", OneStatement)
    /\ IF Probes(k, r.err) THEN Continue(c, table, "probe", NewLoc, {})
       ELSE Return(c, r.table, r.err, r.n, r.n)
    /\ UNCHANGED <<next, idx, lock>>

PostgresProbe(c) ==
    /\ Enter(c, "postgres", "probe", {"MoveToFolder"})
    /\ Refuse(c, Postgres!moveProbe(table, call[c].id))
    /\ UNCHANGED <<next, idx, lock>>

PostgresRestoreSelect(c) ==
    LET k == call[c] IN
    /\ Enter(c, "postgres", "start", {"Restore"})
    /\ CASE ~Postgres!validateID(k.id) -> Refuse(c, "ErrInvalidID")
         [] Postgres!validateID(k.id) /\ Postgres!RestoreSelect(table, k.id) = {} -> Refuse(c, "ErrNotFound")
         [] OTHER -> Continue(c, table, "selected", [NewLoc EXCEPT !.seen = table[k.id]], {})
    /\ UNCHANGED <<next, idx, lock>>

PostgresRestoreUpdate(c) ==
    LET r == Postgres!RestoreUpdate(table, call[c].id, loc[c].seen) IN
    /\ Enter(c, "postgres", "selected", {"Restore"})
    /\ Return(c, r.table, r.err, r.n, r.n)
    /\ UNCHANGED <<next, idx, lock>>

\* Mutant: two rows get the same id.
MutPostgresCreate(c) ==
    /\ Enter(c, "postgres", "start", {"CreateMessage"})
    /\ Return(c, Postgres!CreateMessage(table, call[c].data[1], next), "nil", {next}, {next})
    /\ UNCHANGED <<next, idx, lock>>

PostgresCreate(c) ==
    /\ Enter(c, "postgres", "start", {"CreateMessage"})
    /\ Return(c, Postgres!CreateMessage(table, call[c].data[1], next), "nil", {next}, {next})
    /\ next' = next + 1
    /\ UNCHANGED <<idx, lock>>

\* The transaction commits, or a statement fails and it is rolled back.
PostgresCreateBatch(c) ==
    LET data == call[c].data
        ids == next .. next + Len(data) - 1
    IN
    /\ Enter(c, "postgres", "start", {"CreateMessages"})
    /\ \/ Return(c, Postgres!CreateMessages(table, data, next), "nil", ids, ids)
       \/ Refuse(c, "error")
    /\ next' = next + Len(data)
    /\ UNCHANGED <<idx, lock>>

PostgresInsert(c) ==
    LET r == Postgres!IdempotentInsert(table, call[c].data[1], next) IN
    /\ Enter(c, "postgres", "start", {"CreateMessageIdempotent"})
    /\ IF r.err = "ErrNoRows" THEN Continue(c, table, "conflict", NewLoc, {})
       ELSE Return(c, r.table, "nil", r.n, r.n)
    /\ next' = next + 1
    /\ UNCHANGED <<idx, lock>>

PostgresFetch(c) ==
    LET rows == Postgres!IdempotentSelect(table, call[c].data[1]) IN
    /\ Enter(c, "postgres", "conflict", {"CreateMessageIdempotent"})
    /\ IF rows = {} THEN Refuse(c, "error") ELSE Return(c, table, "existing", rows, {})
    /\ UNCHANGED <<next, idx, lock>>

PostgresSaveDraft(c) ==
    LET k == call[c]
        draft == [Postgres!NewDraft(k.owner) EXCEPT !.text = k.flag]
        r == Postgres!SaveDraft(table, draft, IF k.id = NoId THEN next ELSE k.id, k.id = NoId)
    IN
    /\ Enter(c, "postgres", "start", {"SaveDraft"})
    /\ Return(c, r.table, r.err, r.n, r.n)
    /\ next' = IF k.id = NoId THEN next + 1 ELSE next
    /\ UNCHANGED <<idx, lock>>

PostgresStep(c) ==
    \/ PostgresStatement(c) \/ PostgresProbe(c) \/ PostgresRestoreSelect(c) \/ PostgresRestoreUpdate(c)
    \/ PostgresCreate(c) \/ PostgresCreateBatch(c) \/ PostgresInsert(c) \/ PostgresFetch(c)
    \/ PostgresSaveDraft(c)

----------------------------------------------------------------------------
(* store/mongo *)

OneDocument == (Mutators \ {"Restore"}) \union {"DeleteDraft"}

MongoResult(k) ==
    CASE k.op = "MarkRead"     -> Mongo!MarkRead(table, k.id, k.flag)
      [] k.op = "MoveToFolder" -> Mongo!MoveToFolder(table, k.id, k.arg, k.from)
      [] k.op = "AddTag"       -> Mongo!AddTag(table, k.id, k.arg)
      [] k.op = "RemoveTag"    -> Mongo!RemoveTag(table, k.id, k.arg)
      [] k.op = "Delete"       -> Mongo!Delete(table, k.id)
      [] k.op = "HardDelete"   -> Mongo!HardDelete(table, k.id)
      [] k.op = "DeleteDraft"  -> Mongo!DeleteDraft(table, k.id)

MongoCommand(c) ==
    LET k == call[c]
        r == MongoResult(k)
    IN
    /\ Enter(c, "mongo", "start", OneDocument)
    /\ IF Probes(k, r.err) THEN Continue(c, table, "probe", NewLoc, {})
       ELSE Return(c, r.table, r.err, r.n, r.n)
    /\ UNCHANGED <<next, idx, lock>>

MongoProbe(c) ==
    /\ Enter(c, "mongo", "probe", {"MoveToFolder"})
    /\ Refuse(c, Mongo!moveProbe(table, call[c].id))
    /\ UNCHANGED <<next, idx, lock>>

MongoRestoreFind(c) ==
    LET k == call[c] IN
    /\ Enter(c, "mongo", "start", {"Restore"})
    /\ CASE ~Mongo!parseID(k.id) -> Refuse(c, "ErrInvalidID")
         [] Mongo!parseID(k.id) /\ Mongo!RestoreFind(table, k.id) = {} -> Refuse(c, "ErrNotFound")
         [] OTHER -> Continue(c, table, "found", [NewLoc EXCEPT !.seen = table[k.id]], {})
    /\ UNCHANGED <<next, idx, lock>>

MongoRestoreUpdate(c) ==
    LET r == Mongo!RestoreUpdate(table, call[c].id, loc[c].seen) IN
    /\ Enter(c, "mongo", "found", {"Restore"})
    /\ Return(c, r.table, r.err, r.n, r.n)
    /\ UNCHANGED <<next, idx, lock>>

\* UpdateMany and DeleteMany: the documents found, each matched again when it is written.
MongoUpdated(k, m) ==
    CASE k.op = "MarkAllRead"       -> Mongo!MarkAllRead(m, k.owner, k.arg)
      [] k.op = "MarkReadByFilter"  -> Mongo!MarkReadByFilter(m, k.owner, k.filters, k.flag)
      [] k.op = "MoveByFilter"      -> Mongo!MoveByFilter(m, k.owner, k.filters, k.arg)
      [] k.op = "DeleteByFilter"    -> Mongo!DeleteByFilter(m, k.owner, k.filters)
      [] k.op = "AddTagByFilter"    -> Mongo!AddTagByFilter(m, k.owner, k.filters, k.arg)
      [] k.op = "RemoveTagByFilter" -> Mongo!RemoveTagByFilter(m, k.owner, k.filters, k.arg)

MongoExpired(k, m) ==
    CASE k.op = "DeleteExpiredTrash"       -> Mongo!DeleteExpiredTrash(m, Cutoff)
      [] k.op = "DeleteExpiredMessages"    -> Mongo!DeleteExpiredMessages(m, Cutoff)
      [] k.op = "DeleteTTLExpiredMessages" -> Mongo!DeleteTTLExpiredMessages(m, Now)
      [] k.op = "DeleteMessagesByIDs"      -> TRUE

MongoScan(c) ==
    LET k == call[c]
        found == CASE k.op \in Bulk -> {i \in DOMAIN table : MongoUpdated(k, table[i]).match}
                   [] k.op = "DeleteMessagesByIDs" -> k.ids
                   [] OTHER -> {i \in DOMAIN table : MongoExpired(k, table[i])}
    IN
    /\ Enter(c, "mongo", "start", Bulk \union Removals)
    /\ Loop(c, table, "scan", found, {})
    /\ UNCHANGED <<next, idx, lock>>

MongoUpdateOne(c) ==
    /\ Enter(c, "mongo", "scan", Bulk)
    /\ \E i \in loc[c].todo :
          IF i \in DOMAIN table /\ MongoUpdated(call[c], table[i]).match
          THEN Loop(c, [table EXCEPT ![i] = MongoUpdated(call[c], @).doc], "scan", loc[c].todo \ {i}, {i})
          ELSE Loop(c, table, "scan", loc[c].todo \ {i}, {})
    /\ UNCHANGED <<next, idx, lock>>

MongoDeleteOne(c) ==
    /\ Enter(c, "mongo", "scan", Removals)
    /\ \E i \in loc[c].todo :
          LET r == Mongo!DeleteMessagesByIDs(table, i) IN
          IF r.count = 1 /\ MongoExpired(call[c], table[i])
          THEN Loop(c, r.table, "scan", loc[c].todo \ {i}, {i})
          ELSE Loop(c, table, "scan", loc[c].todo \ {i}, {})
    /\ UNCHANGED <<next, idx, lock>>

\* A DeleteOne fails: the ids removed so far are returned with the error.
MongoDeleteFails(c) ==
    /\ Enter(c, "mongo", "scan", {"DeleteMessagesByIDs"})
    /\ Return(c, table, "error", acted[c], {})
    /\ UNCHANGED <<next, idx, lock>>

MongoCreate(c) ==
    /\ Enter(c, "mongo", "start", {"CreateMessage"})
    /\ Return(c, Mongo!CreateMessage(table, call[c].data[1], next), "nil", {next}, {next})
    /\ next' = next + 1
    /\ UNCHANGED <<idx, lock>>

\* The transaction commits or aborts (a deployment with transactions).
MongoCreateBatch(c) ==
    LET data == call[c].data
        ids == next .. next + Len(data) - 1
    IN
    /\ Enter(c, "mongo", "start", {"CreateMessages"})
    /\ \/ Return(c, Mongo!CreateMessages(table, data, next), "nil", ids, ids)
       \/ Refuse(c, "error")
    /\ next' = next + Len(data)
    /\ UNCHANGED <<idx, lock>>

MongoUpsert(c) ==
    LET r == Mongo!CreateMessageIdempotent(table, call[c].data[1], next) IN
    /\ Enter(c, "mongo", "start", {"CreateMessageIdempotent"})
    /\ IF r.created THEN Return(c, r.table, "nil", {r.id}, {r.id})
       ELSE Return(c, r.table, "existing", {r.id}, {})
    /\ next' = next + 1
    /\ UNCHANGED <<idx, lock>>

MongoSaveDraft(c) ==
    LET k == call[c]
        draft == [Mongo!NewDraft(k.owner) EXCEPT !.text = k.flag]
        r == Mongo!SaveDraft(table, draft, IF k.id = NoId THEN next ELSE k.id, k.id = NoId, TRUE)
    IN
    /\ Enter(c, "mongo", "start", {"SaveDraft"})
    /\ Return(c, r.table, r.err, r.n, r.n)
    /\ next' = IF k.id = NoId THEN next + 1 ELSE next
    /\ UNCHANGED <<idx, lock>>

MongoStep(c) ==
    \/ MongoCommand(c) \/ MongoProbe(c) \/ MongoRestoreFind(c) \/ MongoRestoreUpdate(c)
    \/ MongoScan(c) \/ MongoUpdateOne(c) \/ MongoDeleteOne(c) \/ MongoDeleteFails(c)
    \/ MongoCreate(c) \/ MongoCreateBatch(c) \/ MongoUpsert(c) \/ MongoSaveDraft(c)

----------------------------------------------------------------------------
(* The iterator. *)

\* The page boundary is unknown: store/memory needs the cursor among the matches.
CursorLost ==
    /\ it.cursor # NoId
    /\ IF backend = "memory" THEN it.cursor \notin Memory!Listed(table, StreamFilters)
       ELSE it.cursor \notin DOMAIN table

\* Mutant: a full batch is taken for the last one.
MutExhausted == it.fetched /\ Len(it.batch) <= BatchSize

\* The last batch was shorter than asked for.
Exhausted == it.fetched /\ Len(it.batch) < BatchSize

IteratorNext ==
    LET r == Query!FindIn(backend, table, StreamFilters, it.cursor, BatchSize)
        b == r.page.ids
    IN
    /\ it.on /\ ~it.done
    /\ it' = IF it.i < Len(it.batch)
             THEN [it EXCEPT !.i = @ + 1, !.got = Append(@, it.batch[it.i + 1])]
             ELSE IF Exhausted THEN [it EXCEPT !.done = TRUE]
             ELSE IF r.err # "nil" THEN [it EXCEPT !.done = TRUE, !.err = r.err]
             ELSE IF b = <<>> THEN [it EXCEPT !.done = TRUE, !.fetched = TRUE, !.lost = @ \/ CursorLost]
             ELSE [it EXCEPT !.batch = b, !.i = 1, !.fetched = TRUE, !.cursor = Last(b),
                             !.got = Append(@, b[1]), !.lost = @ \/ CursorLost]
    /\ stay' = IF it.fetched THEN stay ELSE Memory!Listed(table, StreamFilters)
    /\ UNCHANGED <<backend, table, next, idx, lock, call, pc, loc, answer, left, acted, ever, solo>>

----------------------------------------------------------------------------
Step(c) ==
    /\ MemoryStep(c) \/ PostgresStep(c) \/ MongoStep(c)
    /\ ever' = ever \union DOMAIN table'
    /\ solo' = [d \in Client |-> IF d = c THEN solo[d] ELSE NoTable]
    /\ stay' = stay \intersect Memory!Listed(table', StreamFilters)
    /\ UNCHANGED <<backend, call, left, it>>

Next == IteratorNext \/ \E c \in Client : Begin(c) \/ Step(c)

Spec == Init /\ [][Next]_vars

----------------------------------------------------------------------------
(* Correctness. *)

\* The contract of store/store.go, seen through the program counters of the calls.
Contract == INSTANCE Store WITH
    phase <- [c \in Client |-> IF pc[c] \in {"idle", "done"} THEN pc[c] ELSE "open"],
    used <- ever

\* TypeOK: the rows and the answers have the shape the store types of store/message.go give them, every id in the
\* table was handed out by the store, and an answer names only messages that have existed.
TypeOK ==
    /\ backend \in Backends
    /\ \A i \in DOMAIN table : /\ table[i].folder \in STRING /\ table[i].read \in BOOLEAN
                               /\ table[i].updated \in Nat /\ i < next
    /\ \A c \in Client : answer[c].n \subseteq ever /\ left[c] \in 0 .. MaxCalls[it.on][c]
    /\ lock \subseteq ever
    /\ ever \subseteq 1 .. next - 1

\* Every backend, whatever the interleaving of its calls, does what store/store.go promises of a
\* store: compare-and-swap moves, bulk updates that touch only what they select, batches that are
\* created whole or not at all, one message per idempotency key, removals reported once.
ImplementsContract == Contract!Spec

\* The error a mutator of one message owes its caller.
ErrorOf(t, k) ==
    CASE k.id = NoId -> "ErrInvalidID"
      [] k.id # NoId /\ (k.id \notin DOMAIN t \/ (k.id \in DOMAIN t /\ t[k.id].draft)) -> "ErrNotFound"
      [] OTHER -> IF k.op = "MoveToFolder" THEN "ErrFolderMismatch" ELSE "ErrNotFound"

\* What a call does to table t when nothing interferes: the contract allows a call to stop short
\* (it may have lost a race); alone it must do all of its work and say exactly what it did.
Accomplished(t, k, a) ==
    LET hit == Contract!Targets(t, k) IN
    CASE k.op \in Mutators ->
            \/ hit # {} /\ a.err = "nil"
            \/ hit = {} /\ a.err = ErrorOf(t, k) /\ table = t
            \* trashing what is in the trash: store/memory agrees, the databases find no such row
            \/ k.op = "Delete" /\ hit # {} /\ t[k.id].folder = FolderTrash /\ a.err = "ErrNotFound" /\ table = t
      [] k.op \in Bulk -> /\ a.err = "nil"
                          /\ \A i \in DOMAIN t : IF i \in hit THEN table[i] \in Contract!Changed(t[i], k)
                                                 ELSE table[i] = t[i]
      [] k.op \in Removals -> a.err = "nil" => a.n = hit /\ table = Without(t, hit)
      [] k.op \in {"CreateMessage", "CreateMessages"} ->
            IF a.err = "nil" THEN Cardinality(DOMAIN table \ DOMAIN t) = Len(k.data) ELSE table = t
      [] k.op = "CreateMessageIdempotent" ->
            IF Contract!Holders(t, k.data[1]) = {} THEN a.err = "nil"
            ELSE a.err = "existing" /\ table = t
      [] k.op = "SaveDraft" -> (k.id = NoId \/ k.id \in DOMAIN t) => a.err = "nil"
      [] k.op = "DeleteDraft" -> IF hit = {} THEN a.err # "nil" /\ table = t ELSE a.err = "nil"

\* A call no other call ran against has accomplished its work, in every backend.
SoloCallsAccomplish ==
    \A c \in Client : pc[c] = "done" /\ solo[c] # NoTable => Accomplished(solo[c], call[c], answer[c])

\* An iterator shows no message twice and in order, and, unless it lost its cursor, shows every
\* message that was listed all the time from its first page on.
StreamComplete ==
    /\ \A m, n \in DOMAIN it.got : m < n => it.got[m] > it.got[n]
    /\ it.done /\ it.err = "nil" /\ ~it.lost => stay \subseteq ToSet(it.got)

\* iterator.go: keyset pagination avoids the issues of data changing between fetches.  An iterator
\* that ends without an error has shown every message that was listed all the time.
StreamUnaffectedByChanges == it.done /\ it.err = "nil" => stay \subseteq ToSet(it.got)

Quiet == ~it.on /\ \A c \in Client : ~Open(c)
Users == {Seed[i].owner : i \in DOMAIN Seed}
Folders == {table[i].folder : i \in DOMAIN table} \union {FolderInbox, FolderTrash}
Threads == {table[i].thread : i \in DOMAIN table} \ {""}
AllBackends == {"memory", "postgres", "mongo"}

AnyQuery == [owner |-> "", filters |-> <<>>, tags |-> {}, term |-> FALSE, cursor |-> NoId, limit |-> 0]
UserQueries == {AnyQuery, [AnyQuery EXCEPT !.term = TRUE], [AnyQuery EXCEPT !.limit = 1],
                [AnyQuery EXCEPT !.filters = <<IsReadFilter(FALSE)>>]}
               \union {[AnyQuery EXCEPT !.tags = table[i].tags] : i \in DOMAIN table}

\* The pages of a folder, one after the other.
Walk(b, u, f) ==
    LET from[cursor \in DOMAIN table \union {NoId}] ==
            LET l == Query!Folder(b, table, u, f, cursor, 1)
            IN  IF l.hasMore THEN l.ids \o from[l.nextCursor] ELSE l.ids
    IN  from[NoId]

\* The reads of a mailbox give the same answers whatever the backend, and following the cursors of
\* a folder's pages shows the folder once.
QueriesAgree ==
    Quiet => \A u \in Users :
        /\ \A id \in {NoId, next} \union DOMAIN table : \A b \in AllBackends :
              /\ Query!Get(b, table, u, id) = Query!Get("memory", table, u, id)
              /\ Query!GetDraft(b, table, u, id) = Query!GetDraft("memory", table, u, id)
        /\ \A b \in AllBackends : Query!Drafts(b, table, u, 0, 5) = Query!Drafts("memory", table, u, 0, 5)
        /\ \A q \in UserQueries : \A b \in AllBackends :
              Query!Search(b, table, u, q) = Query!Search("memory", table, u, q)
        /\ \A f \in Folders : \A b \in AllBackends :
              Walk(b, u, f) = Query!Folder("memory", table, u, f, NoId, 0).ids
        /\ \A th \in Threads : \A b \in AllBackends :
              Query!GetThread(b, table, u, th) = Query!GetThread("memory", table, u, th)

\* The counts agree with each other and with the lists they are shown next to: the folders' counts
\* with the folders' pages, the statistics with the sum of the folders, on every backend.
CountsAgree ==
    Quiet => \A b \in AllBackends :
        /\ \A u \in Users :
              LET counts == Query!ListFolders(b, table, u)
                  stats == Query!MailboxStatsIn(b, table, u)
              IN  /\ \A f \in DOMAIN counts : counts[f].total = Query!Folder(b, table, u, f, NoId, 1).total
                  /\ stats.total = FoldSet(LAMBDA f, n : n + counts[f].total, 0, DOMAIN counts)
                  /\ stats.unread = FoldSet(LAMBDA f, n : n + counts[f].unread, 0, DOMAIN counts)
                  /\ \A f \in DOMAIN stats.folders : stats.folders[f] = counts[f]
                  /\ stats.drafts = Len(Query!Drafts(b, table, u, 0, 5).ids)
        /\ \A th \in Threads :
              Query!ThreadParticipants(b, table, th) = Query!ThreadParticipants("memory", table, th)
=============================================================================
