----------------------------- MODULE MemoryStore -----------------------------
(***************************************************************************)
(* store/memory: the operations of the in-memory store, between two        *)
(* accesses of its sync.Map.  A per-message mutator loads the message      *)
(* under the message's lock, and stores a modified clone before it         *)
(* releases the lock: it is given here as a function of what was loaded.   *)
(* A draft, or nothing (NoMessage), is not found.                          *)
(***************************************************************************)
EXTENDS StoreData

Keep(m) == [err |-> "nil", msg |-> m]
Refuse(err) == [err |-> err, msg |-> NoMessage]

isAvailableNow(m) == m.available = NoTime \/ m.available <= Now

----------------------------------------------------------------------------
(* Filters: every filter of the list must hold. *)

matchesSliceFilter(slice, op, val) ==
    CASE op = "contains" -> val \in slice
      [] op = "exists"   -> val = Bool(slice # {})
      [] op = "eq"       -> slice = val
      [] OTHER           -> TRUE

compareHolds(v, op, val) ==
    CASE op = "eq"  -> v = val
      [] op = "ne"  -> v # val
      [] op = "lt"  -> v < val
      [] op = "lte" -> v <= val
      [] op = "gt"  -> v > val
      [] op = "gte" -> v >= val
      [] op = "in"  -> v \in val
      [] op = "nin" -> v \notin val
      [] op = "exists" -> val = Bool(v # "")
      [] OTHER      -> TRUE

matchesFilter(m, f) ==
    CASE f.key = "tags"             -> matchesSliceFilter(m.tags, f.op, f.val)
      [] f.key \notin MessageFieldKey -> TRUE
      [] f.key \in NullableKeys /\ Field(m, f.key) = NoTime
                                    -> f.op = "exists" /\ f.val = "false"
      [] OTHER                      -> compareHolds(Field(m, f.key), f.op, f.val)

matchesFilters(m, filters) == \A n \in DOMAIN filters : matchesFilter(m, filters[n])

----------------------------------------------------------------------------
(* Per-message mutators. *)

MarkRead(orig, read) ==
    IF orig.draft THEN Refuse("ErrNotFound")
    ELSE Keep([orig EXCEPT !.read = read, !.updated = Now])

MoveToFolder(orig, to, from) ==
    CASE from # "" /\ ~IsValidFolderID(from)   -> Refuse("ErrInvalidFolderID")
      [] orig.draft                            -> Refuse("ErrNotFound")
      [] from # "" /\ orig.folder # from       -> Refuse("ErrFolderMismatch")
      [] OTHER -> Keep([orig EXCEPT !.folder = to, !.updated = Now])

AddTag(orig, tag) ==
    CASE orig.draft      -> Refuse("ErrNotFound")
      [] tag \in orig.tags -> Keep(orig)
      [] OTHER -> Keep([orig EXCEPT !.tags = @ \union {tag}, !.updated = Now])

RemoveTag(orig, tag) ==
    CASE orig.draft         -> Refuse("ErrNotFound")
      [] tag \notin orig.tags -> Keep(orig)
      [] OTHER -> Keep([orig EXCEPT !.tags = @ \ {tag}, !.updated = Now])

Delete(orig) ==
    IF orig.draft THEN Refuse("ErrNotFound")
    ELSE Keep([orig EXCEPT !.folder = FolderTrash, !.updated = Now])

HardDelete(orig) ==
    IF orig.draft THEN Refuse("ErrNotFound") ELSE Keep(NoMessage)

Restore(orig) ==
    IF orig.draft \/ orig.folder # FolderTrash THEN Refuse("ErrNotFound")
    ELSE Keep([orig EXCEPT !.folder = IF IsSentByOwner(orig) THEN FolderSent ELSE FolderInbox,
                           !.updated = Now])

----------------------------------------------------------------------------
(* Bulk updates visit one message after the other; what a visit does to    *)
(* the message it loaded under its lock.  A refused message is skipped.    *)

MarkAllRead(orig, owner, folder) ==
    IF orig.draft \/ orig.read \/ orig.owner # owner \/ orig.folder # folder
    THEN Refuse("skip")
    ELSE Keep([orig EXCEPT !.read = TRUE, !.updated = Now])

iterateFiltered(orig, owner, filters, fn(_)) ==
    IF orig.draft THEN Refuse("skip")
    ELSE IF orig.owner # owner \/ ~isAvailableNow(orig) \/ ~matchesFilters(orig, filters)
    THEN Refuse("skip")
    ELSE Keep([fn(orig) EXCEPT !.updated = Now])

MarkReadByFilter(orig, owner, filters, read) ==
    iterateFiltered(orig, owner, filters, LAMBDA m : [m EXCEPT !.read = read])

MoveByFilter(orig, owner, filters, folder) ==
    iterateFiltered(orig, owner, filters, LAMBDA m : [m EXCEPT !.folder = folder])

DeleteByFilter(orig, owner, filters) ==
    iterateFiltered(orig, owner, filters, LAMBDA m : [m EXCEPT !.folder = FolderTrash])

AddTagByFilter(orig, owner, filters, tag) ==
    iterateFiltered(orig, owner, filters, LAMBDA m : [m EXCEPT !.tags = @ \union {tag}])

RemoveTagByFilter(orig, owner, filters, tag) ==
    iterateFiltered(orig, owner, filters, LAMBDA m : [m EXCEPT !.tags = @ \ {tag}])

----------------------------------------------------------------------------
(* Creation and removal.  The maintenance calls collect ids in a first     *)
(* pass and remove them, unseen, in a second one.                          *)

newMessageFromData(data, id) ==
    [owner |-> data.owner, sender |-> data.sender, folder |-> data.folder, read |-> FALSE,
     tags |-> data.tags, draft |-> FALSE, key |-> data.key, thread |-> data.thread,
     text |-> data.text, created |-> Now + id, updated |-> Now,
     expires |-> data.expires, available |-> data.available]

CreateMessage(table, data, id) == With(table, id, newMessageFromData(data, id))

\* LoadOrStore of the idempotency index.
LoadOrStore(idx, key, id) ==
    IF key \in DOMAIN idx THEN [loaded |-> TRUE, id |-> idx[key], idx |-> idx]
    ELSE [loaded |-> FALSE, id |-> id, idx |-> With(idx, key, id)]

DeleteExpiredTrash(table, cutoff) ==
    {i \in DOMAIN table : ~table[i].draft /\ table[i].folder = FolderTrash /\ table[i].updated < cutoff}

DeleteExpiredMessages(table, cutoff) ==
    {i \in DOMAIN table : ~table[i].draft /\ table[i].created < cutoff}

DeleteTTLExpiredMessages(table, now) ==
    {i \in DOMAIN table : ~table[i].draft /\ table[i].expires # NoTime /\ table[i].expires < now}

\* LoadAndDelete: whoever removes the entry sees loaded = true.
LoadAndDelete(table, id) == [loaded |-> id \in DOMAIN table, table |-> Without(table, {id})]

NewDraft(owner) ==
    [owner |-> owner, sender |-> owner, folder |-> "", read |-> FALSE, tags |-> {},
     draft |-> TRUE, key |-> "", thread |-> "", text |-> FALSE, created |-> Now,
     updated |-> Now, expires |-> NoTime, available |-> NoTime]

SaveDraft(table, draft, id) == With(table, id, [draft EXCEPT !.updated = Now])

----------------------------------------------------------------------------
(* Reads. *)

Get(table, id) ==
    CASE id = NoId -> Refuse("ErrInvalidID")
      [] id \notin DOMAIN table -> Refuse("ErrNotFound")
      [] table[id].draft -> Refuse("ErrNotFound")
      [] OTHER -> Keep(table[id])

Listed(table, filters) ==
    {i \in DOMAIN table : ~table[i].draft /\ isAvailableNow(table[i]) /\ matchesFilters(table[i], filters)}

\* Mutant: the message after the cursor is skipped.
MutafterCursor(sorted, cursor) ==
    IF cursor = NoId THEN sorted
    ELSE LET at == {n \in DOMAIN sorted : sorted[n] = cursor}
         IN  IF at = {} THEN <<>> ELSE SubSeq(sorted, Max(at) + 2, Len(sorted))

\* What follows the cursor in the sorted matches; nothing when it is not one of them.
afterCursor(sorted, cursor) ==
    IF cursor = NoId THEN sorted
    ELSE LET at == {n \in DOMAIN sorted : sorted[n] = cursor}
         IN  IF at = {} THEN <<>> ELSE SubSeq(sorted, Max(at) + 1, Len(sorted))

Find(table, filters, cursor, limit) ==
    LET all == NewestFirst(table, Listed(table, filters))
        rest == afterCursor(all, cursor)
    IN  [err |-> "nil", total |-> Len(all),
         page |-> Page(rest, IF limit = 0 THEN Len(rest) ELSE limit)]

Count(table, filters) == Cardinality(Listed(table, filters))

hasAllTags(m, tags) == tags \subseteq m.tags

Search(table, query) ==
    LET all == NewestFirst(table, {i \in Listed(table, query.filters) :
                                      /\ query.owner # "" => table[i].owner = query.owner
                                      /\ hasAllTags(table[i], query.tags)
                                      /\ query.term => table[i].text})
        rest == afterCursor(all, query.cursor)
    IN  [err |-> "nil", total |-> Len(all),
         page |-> Page(rest, IF query.limit = 0 THEN Len(rest) ELSE query.limit)]

ThreadParticipants(table, thread) ==
    {table[i].owner : i \in {j \in DOMAIN table : /\ ~table[j].draft
                                                 /\ table[j].thread = thread
                                                 /\ table[j].folder \notin {FolderTrash, FolderDrafts}}}

Mine(table, owner) ==
    {i \in DOMAIN table : ~table[i].draft /\ table[i].owner = owner /\ isAvailableNow(table[i])}

\* One pass over the messages: each is added to the counts of its folder.
CountByFolders(table, owner, folders) ==
    LET mine == {i \in Mine(table, owner) : table[i].folder \in folders}
        Add(i, counts) ==
            LET f == table[i].folder
                c == IF f \in DOMAIN counts THEN counts[f] ELSE [total |-> 0, unread |-> 0]
            IN  With(counts, f, [total |-> c.total + 1,
                                 unread |-> c.unread + (IF table[i].read THEN 0 ELSE 1)])
    IN  FoldSet(Add, [f \in {} |-> [total |-> 0, unread |-> 0]], mine)

ListDistinctFolders(table, owner) == {table[i].folder : i \in Mine(table, owner)}

MailboxStats(table, owner) ==
    LET mine == Mine(table, owner)
    IN  [total   |-> Cardinality(mine),
         unread  |-> Cardinality({i \in mine : ~table[i].read}),
         drafts  |-> Cardinality({i \in DOMAIN table : table[i].owner = owner /\ table[i].draft}),
         folders |-> CountByFolders(table, owner, ListDistinctFolders(table, owner))]

FindWithCount(table, filters, cursor, limit) ==
    [list |-> Find(table, filters, cursor, limit), total |-> Count(table, filters)]

ListDrafts(table, owner, offset, limit) ==
    LET drafts == NewestFirst(table, {i \in DOMAIN table : table[i].draft /\ table[i].owner = owner})
        rest == SubSeq(drafts, offset + 1, Len(drafts))
    IN  Page(rest, IF limit = 0 THEN Len(rest) ELSE limit)

GetDraft(table, id) ==
    IF id \in DOMAIN table THEN (IF table[id].draft THEN Keep(table[id]) ELSE Refuse("ErrNotFound"))
    ELSE Refuse(IF id = NoId THEN "ErrInvalidID" ELSE "ErrNotFound")
=============================================================================
