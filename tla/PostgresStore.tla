---------------------------- MODULE PostgresStore ----------------------------
(***************************************************************************)
(* store/postgres: every operator is one SQL statement on the messages     *)
(* table, which the database executes atomically: the table, the error and *)
(* the rows affected.  A call of several statements (a conditional move,   *)
(* Restore, an idempotent create) has one operator per statement.          *)
(* A comparison with a NULL column is not true.                            *)
(***************************************************************************)
EXTENDS StoreData

validateID(id) == id # NoId

Available(m) == m.available = NoTime \/ m.available <= Now

\* UPDATE ... WHERE: no row affected is ErrNotFound.
OneRow(table, rows, f(_)) ==
    IF rows = {} THEN Fail(table, "ErrNotFound") ELSE Ok(Rewrite(table, rows, f), rows)

Rows(table, id) == {i \in DOMAIN table : i = id /\ ~table[i].draft}

----------------------------------------------------------------------------
(* Filters: one SQL condition each, joined by AND. *)

filterToCondition(m, f) ==
    LET v == Field(m, f.key)
        null == f.key \in NullableKeys /\ v = NoTime
    IN  CASE f.key \notin MessageFieldKey -> TRUE
          [] f.op = "contains"       -> f.val \in v
          [] f.op = "exists" /\ f.key = "tags" -> f.val = Bool(v # {})
          [] f.op = "exists"         -> f.val = Bool(v # "")
          [] f.op = "eq"             -> ~null /\ v = f.val
          [] f.op = "ne"             -> ~null /\ v # f.val
          [] f.op = "gt"             -> ~null /\ v > f.val
          [] f.op = "gte"            -> ~null /\ v >= f.val
          [] f.op = "lt"             -> ~null /\ v < f.val
          [] f.op = "lte"            -> ~null /\ v <= f.val
          [] f.op = "in"             -> ~null /\ v \in f.val
          [] f.op = "nin"            -> ~null /\ v \notin f.val
          [] OTHER                   -> TRUE

buildWhereClause(table, filters) ==
    {i \in DOMAIN table : \A n \in DOMAIN filters : filterToCondition(table[i], filters[n])}

----------------------------------------------------------------------------
(* Mutators. *)

MarkRead(table, id, read) ==
    IF ~validateID(id) THEN Fail(table, "ErrInvalidID")
    ELSE OneRow(table, Rows(table, id), LAMBDA m : [m EXCEPT !.read = read, !.updated = Now])

\* Mutant: the UPDATE forgets the source folder.
MutMoveToFolder(table, id, to, from) ==
    IF ~validateID(id) THEN Fail(table, "ErrInvalidID")
    ELSE OneRow(table, Rows(table, id), LAMBDA m : [m EXCEPT !.folder = to, !.updated = Now])

\* The UPDATE; with a source folder and no row affected, moveProbe follows.
MoveToFolder(table, id, to, from) ==
    IF ~validateID(id) THEN Fail(table, "ErrInvalidID")
    ELSE CASE ~IsValidFolderID(to) \/ (from # "" /\ ~IsValidFolderID(from)) -> Fail(table, "ErrInvalidFolderID")
      [] OTHER -> OneRow(table, {i \in Rows(table, id) : from # "" => table[i].folder = from},
                         LAMBDA m : [m EXCEPT !.folder = to, !.updated = Now])

moveProbe(table, id) == IF Rows(table, id) = {} THEN "ErrNotFound" ELSE "ErrFolderMismatch"

AddTag(table, id, tag) ==
    IF ~validateID(id) THEN Fail(table, "ErrInvalidID")
    ELSE OneRow(table, Rows(table, id), LAMBDA m : [m EXCEPT !.tags = @ \union {tag}, !.updated = Now])

RemoveTag(table, id, tag) ==
    IF ~validateID(id) THEN Fail(table, "ErrInvalidID")
    ELSE OneRow(table, Rows(table, id), LAMBDA m : [m EXCEPT !.tags = @ \ {tag}, !.updated = Now])

Delete(table, id) ==
    IF ~validateID(id) THEN Fail(table, "ErrInvalidID")
    ELSE OneRow(table, {i \in Rows(table, id) : table[i].folder # FolderTrash},
                LAMBDA m : [m EXCEPT !.folder = FolderTrash, !.updated = Now])

HardDelete(table, id) ==
    CASE ~validateID(id) -> Fail(table, "ErrInvalidID")
      [] Rows(table, id) = {} -> Fail(table, "ErrNotFound")
      [] OTHER -> Ok(Without(table, {id}), {id})

\* Restore reads owner and sender of a trashed message, then moves it if it is still there.
RestoreSelect(table, id) == {i \in Rows(table, id) : table[i].folder = FolderTrash}

RestoreUpdate(table, id, seen) ==
    OneRow(table, {i \in DOMAIN table : i = id /\ table[i].folder = FolderTrash},
           LAMBDA m : [m EXCEPT !.folder = IF IsSentByOwner(seen) THEN FolderSent ELSE FolderInbox,
                                !.updated = Now])

----------------------------------------------------------------------------
(* Bulk updates: one UPDATE. *)

\* Mutant: a bulk update reaches scheduled messages.
MutbulkWhere(table, owner, filters) ==
    {i \in buildWhereClause(table, filters) : table[i].owner = owner /\ ~table[i].draft}

bulkWhere(table, owner, filters) ==
    {i \in buildWhereClause(table, filters) :
        table[i].owner = owner /\ ~table[i].draft /\ Available(table[i])}

MarkAllRead(table, owner, folder) ==
    LET rows == {i \in DOMAIN table : /\ table[i].owner = owner /\ table[i].folder = folder
                                      /\ ~table[i].read /\ ~table[i].draft}
    IN  Ok(Rewrite(table, rows, LAMBDA m : [m EXCEPT !.read = TRUE, !.updated = Now]), rows)

MarkReadByFilter(table, owner, filters, read) ==
    LET rows == bulkWhere(table, owner, filters)
    IN  Ok(Rewrite(table, rows, LAMBDA m : [m EXCEPT !.read = read, !.updated = Now]), rows)

MoveByFilter(table, owner, filters, folder) ==
    LET rows == bulkWhere(table, owner, filters)
    IN  Ok(Rewrite(table, rows, LAMBDA m : [m EXCEPT !.folder = folder, !.updated = Now]), rows)

DeleteByFilter(table, owner, filters) == MoveByFilter(table, owner, filters, FolderTrash)

AddTagByFilter(table, owner, filters, tag) ==
    LET rows == {i \in bulkWhere(table, owner, filters) : tag \notin table[i].tags}
    IN  Ok(Rewrite(table, rows, LAMBDA m : [m EXCEPT !.tags = @ \union {tag}, !.updated = Now]), rows)

RemoveTagByFilter(table, owner, filters, tag) ==
    LET rows == bulkWhere(table, owner, filters)
    IN  Ok(Rewrite(table, rows, LAMBDA m : [m EXCEPT !.tags = @ \ {tag}, !.updated = Now]), rows)

----------------------------------------------------------------------------
(* Creation and removal. *)

Row(data, id) ==
    [owner |-> data.owner, sender |-> data.sender, folder |-> data.folder, read |-> FALSE,
     tags |-> data.tags, draft |-> FALSE, key |-> data.key, thread |-> data.thread,
     text |-> data.text, created |-> Now + id, updated |-> Now,
     expires |-> data.expires, available |-> data.available]

CreateMessage(table, data, id) == With(table, id, Row(data, id))

\* The commit of the transaction that inserted one row per datum, with ids id, id + 1, ...
CreateMessages(table, data, id) ==
    [i \in DOMAIN table \union {id + n - 1 : n \in DOMAIN data} |->
        IF i \in DOMAIN table THEN table[i] ELSE Row(data[i - id + 1], i)]

\* INSERT ... ON CONFLICT DO NOTHING RETURNING: no row when the partial unique index has the key.
Conflicts(table, owner, key) == {i \in DOMAIN table : table[i].owner = owner /\ table[i].key = key}

IdempotentInsert(table, data, id) ==
    IF Conflicts(table, data.owner, data.key) # {} THEN Fail(table, "ErrNoRows")
    ELSE Ok(With(table, id, Row(data, id)), {id})

\* The SELECT of the row that was in the way.
IdempotentSelect(table, data) == Conflicts(table, data.owner, data.key)

DeleteExpiredTrash(table, cutoff) ==
    LET rows == {i \in DOMAIN table : table[i].folder = FolderTrash /\ table[i].updated < cutoff}
    IN  Ok(Without(table, rows), rows)

DeleteExpiredMessages(table, cutoff) ==
    LET rows == {i \in DOMAIN table : ~table[i].draft /\ table[i].created < cutoff}
    IN  Ok(Without(table, rows), rows)

DeleteTTLExpiredMessages(table, now) ==
    LET rows == {i \in DOMAIN table : /\ ~table[i].draft
                                      /\ table[i].expires # NoTime /\ table[i].expires < now}
    IN  Ok(Without(table, rows), rows)

DeleteMessagesByIDs(table, ids) ==
    LET rows == {i \in ids : validateID(i)} \intersect DOMAIN table
    IN  Ok(Without(table, rows), rows)

NewDraft(owner) ==
    [owner |-> owner, sender |-> owner, folder |-> FolderDrafts, read |-> FALSE, tags |-> {},
     draft |-> TRUE, key |-> "", thread |-> "", text |-> FALSE, created |-> Now,
     updated |-> Now, expires |-> NoTime, available |-> NoTime]

\* An INSERT for a new draft, an UPDATE of the content for a known one.
SaveDraft(table, draft, id, isNew) ==
    LET rows == {i \in DOMAIN table : i = id /\ table[i].draft}
    IN  IF isNew THEN Ok(With(table, id, [draft EXCEPT !.updated = Now]), {id})
        ELSE OneRow(table, rows, LAMBDA m : [m EXCEPT !.text = draft.text, !.thread = draft.thread,
                                                      !.expires = draft.expires,
                                                      !.available = draft.available, !.updated = Now])

DeleteDraft(table, id) ==
    LET rows == {i \in DOMAIN table : i = id /\ table[i].draft}
    IN  CASE ~validateID(id) -> Fail(table, "ErrInvalidID")
          [] rows = {} -> Fail(table, "ErrNotFound")
          [] OTHER -> Ok(Without(table, rows), rows)

----------------------------------------------------------------------------
(* Reads. *)

Get(table, id) ==
    CASE ~validateID(id) -> [err |-> "ErrInvalidID", msg |-> NoMessage]
      [] Rows(table, id) = {} -> [err |-> "ErrNotFound", msg |-> NoMessage]
      [] OTHER -> [err |-> "nil", msg |-> table[id]]

Listed(table, filters) ==
    {i \in buildWhereClause(table, filters) : ~table[i].draft /\ Available(table[i])}

\* Keyset: (created_at, id) < the cursor's; no row when the cursor's row is gone.
Before(table, rows, cursor) ==
    IF cursor = NoId THEN rows
    ELSE {i \in rows : cursor \in DOMAIN table /\ table[i].created < table[cursor].created}

DefaultLimit(limit) == IF limit <= 0 THEN 20 ELSE limit

Find(table, filters, cursor, limit) ==
    LET rows == Listed(table, filters)
    IN  [err |-> "nil", total |-> Cardinality(rows),
         page |-> Page(NewestFirst(table, Before(table, rows, cursor)), DefaultLimit(limit))]

Count(table, filters) == Cardinality(Listed(table, filters))

Search(table, query) ==
    LET rows == {i \in Listed(table, query.filters) :
                    /\ query.owner # "" => table[i].owner = query.owner
                    /\ query.tags \subseteq table[i].tags
                    /\ query.term => table[i].text}
    IN  [err |-> "nil", total |-> Cardinality(rows),
         page |-> Page(NewestFirst(table, Before(table, rows, query.cursor)), DefaultLimit(query.limit))]

ThreadParticipants(table, thread) ==
    {table[i].owner : i \in {j \in DOMAIN table : /\ table[j].thread = thread /\ ~table[j].draft
                                                 /\ table[j].folder \notin {FolderTrash, FolderDrafts}}}

\* GROUP BY folder_id
GroupByFolder(table, rows) ==
    [f \in {table[i].folder : i \in rows} |->
        [total  |-> Cardinality({i \in rows : table[i].folder = f}),
         unread |-> Cardinality({i \in rows : table[i].folder = f /\ ~table[i].read})]]

CountByFolders(table, owner, folders) ==
    GroupByFolder(table, {i \in DOMAIN table : /\ table[i].owner = owner /\ ~table[i].draft
                                               /\ table[i].folder \in folders /\ Available(table[i])})

ListDistinctFolders(table, owner) ==
    {table[i].folder : i \in {j \in DOMAIN table : /\ table[j].owner = owner /\ ~table[j].draft
                                                  /\ Available(table[j])}}

\* Mutant: the totals count scheduled messages.
MutMailboxStats(table, owner) ==
    LET msgs == {i \in DOMAIN table : table[i].owner = owner}
        sent == {i \in msgs : ~table[i].draft}
    IN  [total   |-> Cardinality(sent),
         unread  |-> Cardinality({i \in sent : ~table[i].read}),
         drafts  |-> Cardinality({i \in msgs : table[i].draft}),
         folders |-> GroupByFolder(table, {i \in sent : Available(table[i])})]

\* The totals row, then one row per folder, over one snapshot.
MailboxStats(table, owner) ==
    LET msgs == {i \in DOMAIN table : table[i].owner = owner /\ (Available(table[i]) \/ table[i].draft)}
        sent == {i \in msgs : ~table[i].draft}
    IN  [total   |-> Cardinality(sent),
         unread  |-> Cardinality({i \in sent : ~table[i].read}),
         drafts  |-> Cardinality({i \in msgs : table[i].draft}),
         folders |-> GroupByFolder(table, sent)]

FindWithCount(table, filters, cursor, limit) ==
    [list |-> Find(table, filters, cursor, limit), total |-> Count(table, filters)]

ListDrafts(table, owner, offset, limit) ==
    LET drafts == NewestFirst(table, {i \in DOMAIN table : table[i].owner = owner /\ table[i].draft})
    IN  Page(SubSeq(drafts, offset + 1, Len(drafts)), DefaultLimit(limit))

GetDraft(table, id) ==
    LET rows == {i \in DOMAIN table : i = id /\ table[i].draft}
    IN  CASE ~validateID(id) -> [err |-> "ErrInvalidID", msg |-> NoMessage]
          [] rows = {} -> [err |-> "ErrNotFound", msg |-> NoMessage]
          [] OTHER -> [err |-> "nil", msg |-> table[id]]
=============================================================================
