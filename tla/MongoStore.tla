----------------------------- MODULE MongoStore ------------------------------
(***************************************************************************)
(* store/mongo: every operator is one command of the database.  UpdateOne, *)
(* DeleteOne and FindOneAndUpdate are atomic; UpdateMany and DeleteMany    *)
(* are atomic per document only, and are given as the documents they match *)
(* and what they make of one of them.                                      *)
(***************************************************************************)
EXTENDS StoreData

parseID(id) == id # NoId

Matched(table, docs, f(_)) ==
    IF docs = {} THEN Fail(table, "ErrNotFound") ELSE Ok(Rewrite(table, docs, f), docs)

Docs(table, id) == {i \in DOMAIN table : i = id /\ ~table[i].draft}

----------------------------------------------------------------------------
(* Filters: a document with one condition per key, the last one given. *)

addAvailabilityFilter(m) == m.available = NoTime \/ m.available <= Now

buildFilter(filters) ==
    [key \in {filters[n].key : n \in DOMAIN filters} |->
        filters[Max({n \in DOMAIN filters : filters[n].key = key})]]

Condition(m, f) ==
    LET v == Field(m, f.key)
        missing == f.key \in NullableKeys /\ v = NoTime
    IN  CASE f.op = "contains" -> f.val \in v
          [] f.op = "eq"  -> ~missing /\ v = f.val
          [] f.op = "ne"  -> missing \/ v # f.val
          [] f.op = "gt"  -> ~missing /\ v > f.val
          [] f.op = "gte" -> ~missing /\ v >= f.val
          [] f.op = "lt"  -> ~missing /\ v < f.val
          [] f.op = "lte" -> ~missing /\ v <= f.val
          [] f.op = "in"  -> ~missing /\ v \in f.val
          [] f.op = "nin" -> missing \/ v \notin f.val

MatchesDoc(m, doc) == \A key \in DOMAIN doc : Condition(m, doc[key])

----------------------------------------------------------------------------
(* Mutators. *)

MarkRead(table, id, read) ==
    IF ~parseID(id) THEN Fail(table, "ErrInvalidID")
    ELSE Matched(table, Docs(table, id), LAMBDA m : [m EXCEPT !.read = read, !.updated = Now])

\* The UpdateOne; with a source folder and nothing matched, moveProbe follows.
MoveToFolder(table, id, to, from) ==
    CASE ~IsValidFolderID(to) \/ (from # "" /\ ~IsValidFolderID(from)) -> Fail(table, "ErrInvalidFolderID")
      [] ~parseID(id) -> Fail(table, "ErrInvalidID")
      [] OTHER -> Matched(table, {i \in Docs(table, id) : from # "" => table[i].folder = from},
                          LAMBDA m : [m EXCEPT !.folder = to, !.updated = Now])

moveProbe(table, id) == IF Docs(table, id) = {} THEN "ErrNotFound" ELSE "ErrFolderMismatch"

AddTag(table, id, tag) ==
    IF ~parseID(id) THEN Fail(table, "ErrInvalidID")
    ELSE Matched(table, Docs(table, id), LAMBDA m : [m EXCEPT !.tags = @ \union {tag}, !.updated = Now])

RemoveTag(table, id, tag) ==
    IF ~parseID(id) THEN Fail(table, "ErrInvalidID")
    ELSE Matched(table, Docs(table, id), LAMBDA m : [m EXCEPT !.tags = @ \ {tag}, !.updated = Now])

Delete(table, id) ==
    IF ~parseID(id) THEN Fail(table, "ErrInvalidID")
    ELSE Matched(table, {i \in Docs(table, id) : table[i].folder # FolderTrash},
                 LAMBDA m : [m EXCEPT !.folder = FolderTrash, !.updated = Now])

HardDelete(table, id) ==
    CASE ~parseID(id) -> Fail(table, "ErrInvalidID")
      [] Docs(table, id) = {} -> Fail(table, "ErrNotFound")
      [] OTHER -> Ok(Without(table, {id}), {id})

RestoreFind(table, id) == {i \in Docs(table, id) : table[i].folder = FolderTrash}

RestoreUpdate(table, id, seen) ==
    Matched(table, {i \in DOMAIN table : i = id /\ table[i].folder = FolderTrash},
            LAMBDA m : [m EXCEPT !.folder = IF IsSentByOwner(seen) THEN FolderSent ELSE FolderInbox,
                                 !.updated = Now])

----------------------------------------------------------------------------
(* UpdateMany: whether the document matches, and its update. *)

bulkFilter(m, owner, filters) ==
    LET doc == buildFilter(<<OwnerIs(owner)>> \o filters)
    IN  ~m.draft /\ MatchesDoc(m, doc) /\ addAvailabilityFilter(m)

MarkAllRead(m, owner, folder) ==
    [match |-> m.owner = owner /\ m.folder = folder /\ ~m.read /\ ~m.draft,
     doc   |-> [m EXCEPT !.read = TRUE, !.updated = Now]]

MarkReadByFilter(m, owner, filters, read) ==
    [match |-> bulkFilter(m, owner, filters), doc |-> [m EXCEPT !.read = read, !.updated = Now]]

MoveByFilter(m, owner, filters, folder) ==
    [match |-> bulkFilter(m, owner, filters), doc |-> [m EXCEPT !.folder = folder, !.updated = Now]]

DeleteByFilter(m, owner, filters) == MoveByFilter(m, owner, filters, FolderTrash)

AddTagByFilter(m, owner, filters, tag) ==
    [match |-> bulkFilter(m, owner, filters),
     doc   |-> [m EXCEPT !.tags = @ \union {tag}, !.updated = Now]]

RemoveTagByFilter(m, owner, filters, tag) ==
    [match |-> bulkFilter(m, owner, filters),
     doc   |-> [m EXCEPT !.tags = @ \ {tag}, !.updated = Now]]

----------------------------------------------------------------------------
(* Creation and removal. *)

newMessageDocFromData(data, id) ==
    [owner |-> data.owner, sender |-> data.sender, folder |-> data.folder, read |-> FALSE,
     tags |-> data.tags, draft |-> FALSE, key |-> data.key, thread |-> data.thread,
     text |-> data.text, created |-> Now + id, updated |-> Now,
     expires |-> data.expires, available |-> data.available]

CreateMessage(table, data, id) == With(table, id, newMessageDocFromData(data, id))

\* The transaction around InsertMany.
CreateMessages(table, data, id) ==
    [i \in DOMAIN table \union {id + n - 1 : n \in DOMAIN data} |->
        IF i \in DOMAIN table THEN table[i] ELSE newMessageDocFromData(data[i - id + 1], i)]

\* FindOneAndUpdate with upsert; the call created the document iff the stored _id is its candidate.
CreateMessageIdempotent(table, data, candidate) ==
    LET old == {i \in DOMAIN table : table[i].owner = data.owner /\ table[i].key = data.key}
        stored == IF old = {} THEN candidate ELSE Min(old)
    IN  [table |-> IF old = {} THEN With(table, candidate, newMessageDocFromData(data, candidate)) ELSE table,
         id |-> stored, created |-> stored = candidate]

\* DeleteMany: the documents that match.
DeleteExpiredTrash(m, cutoff) == m.folder = FolderTrash /\ m.updated < cutoff
DeleteExpiredMessages(m, cutoff) == ~m.draft /\ m.created < cutoff
DeleteTTLExpiredMessages(m, now) == ~m.draft /\ m.expires # NoTime /\ m.expires < now

\* One DeleteOne of the loop; DeletedCount tells who removed the document.
DeleteMessagesByIDs(table, id) == [count |-> Cardinality({id} \intersect DOMAIN table), table |-> Without(table, {id})]

NewDraft(owner) ==
    [owner |-> owner, sender |-> owner, folder |-> "", read |-> FALSE, tags |-> {},
     draft |-> TRUE, key |-> "", thread |-> "", text |-> FALSE, created |-> Now,
     updated |-> Now, expires |-> NoTime, available |-> NoTime]

\* Only the fields set since the draft was loaded are in the update; changed says whether any is.
buildDraftUpdate(m, draft) ==
    [m EXCEPT !.text = draft.text, !.thread = draft.thread, !.expires = draft.expires,
              !.available = draft.available, !.updated = Now]

SaveDraft(table, draft, id, isNew, changed) ==
    CASE isNew -> Ok(With(table, id, [draft EXCEPT !.updated = Now]), {id})
      [] ~changed -> Ok(table, {})
      [] OTHER -> Matched(table, {i \in DOMAIN table : i = id /\ table[i].draft},
                          LAMBDA m : buildDraftUpdate(m, draft))

DeleteDraft(table, id) ==
    LET docs == {i \in DOMAIN table : i = id /\ table[i].draft}
    IN  CASE ~parseID(id) -> Fail(table, "ErrInvalidID")
          [] docs = {} -> Fail(table, "ErrNotFound")
          [] OTHER -> Ok(Without(table, docs), docs)

----------------------------------------------------------------------------
(* Reads. *)

Get(table, id) ==
    CASE ~parseID(id) -> [err |-> "ErrInvalidID", msg |-> NoMessage]
      [] Docs(table, id) = {} -> [err |-> "ErrNotFound", msg |-> NoMessage]
      [] OTHER -> [err |-> "nil", msg |-> table[id]]

Listed(table, filters) ==
    {i \in DOMAIN table : /\ ~table[i].draft /\ MatchesDoc(table[i], buildFilter(filters))
                          /\ addAvailabilityFilter(table[i])}

Before(table, docs, cursor) ==
    IF cursor = NoId THEN docs ELSE {i \in docs : table[i].created < table[cursor].created}

limitOf(docs, limit) == IF limit > 0 THEN limit ELSE Cardinality(docs)

\* The cursor document is read first: ErrNotFound when it is gone.
Find(table, filters, cursor, limit) ==
    LET docs == Listed(table, filters)
    IN  IF cursor # NoId /\ cursor \notin DOMAIN table
        THEN [err |-> "ErrNotFound", total |-> 0, page |-> Page(<<>>, 0)]
        ELSE [err |-> "nil", total |-> Cardinality(docs),
              page |-> Page(NewestFirst(table, Before(table, docs, cursor)), limitOf(docs, limit))]

Count(table, filters) == Cardinality(Listed(table, filters))

\* The tags of the query replace a filter on tags, its owner one on owner_id.  The words are matched
\* by $regex; with a cursor as well, the two $or conditions replace the $and of the availability.
Search(table, query) ==
    LET own == IF query.owner = "" THEN <<>> ELSE <<OwnerIs(query.owner)>>
        other == SelectSeq(query.filters, LAMBDA f : query.tags # {} => f.key # "tags")
        docs == {i \in DOMAIN table : /\ ~table[i].draft /\ MatchesDoc(table[i], buildFilter(other \o own))
                                      /\ query.tags \subseteq table[i].tags
                                      /\ query.term => table[i].text}
        counted == {i \in docs : addAvailabilityFilter(table[i])}
        found == IF query.term /\ query.cursor # NoId THEN docs ELSE counted
    IN  IF query.cursor # NoId /\ query.cursor \notin DOMAIN table
        THEN [err |-> "ErrNotFound", total |-> 0, page |-> Page(<<>>, 0)]
        ELSE [err |-> "nil", total |-> Cardinality(counted),
              page |-> Page(NewestFirst(table, Before(table, found, query.cursor)), limitOf(docs, query.limit))]

ThreadParticipants(table, thread) ==
    {table[i].owner : i \in {j \in DOMAIN table : /\ table[j].thread = thread /\ ~table[j].draft
                                                 /\ table[j].folder \notin {FolderTrash, FolderDrafts}}}

\* $match, then $group by folder_id.
Group(table, docs) ==
    [f \in {table[i].folder : i \in docs} |->
        [total  |-> Cardinality({i \in docs : table[i].folder = f}),
         unread |-> Cardinality({i \in docs : table[i].folder = f /\ ~table[i].read})]]

CountByFolders(table, owner, folders) ==
    Group(table, {i \in DOMAIN table : /\ table[i].owner = owner /\ ~table[i].draft
                                       /\ table[i].folder \in folders
                                       /\ addAvailabilityFilter(table[i])})

ListDistinctFolders(table, owner) ==
    {table[i].folder : i \in {j \in DOMAIN table : /\ table[j].owner = owner /\ ~table[j].draft
                                                  /\ addAvailabilityFilter(table[j])}}

\* $facet: the groups of the messages, whose sums are the totals, and the count of the drafts.
MailboxStats(table, owner) ==
    LET mine == {i \in DOMAIN table : table[i].owner = owner}
        groups == Group(table, {i \in mine : ~table[i].draft /\ addAvailabilityFilter(table[i])})
    IN  [total   |-> FoldSet(LAMBDA f, n : n + groups[f].total, 0, DOMAIN groups),
         unread  |-> FoldSet(LAMBDA f, n : n + groups[f].unread, 0, DOMAIN groups),
         drafts  |-> Cardinality({i \in mine : table[i].draft}),
         folders |-> groups]

FindWithCount(table, filters, cursor, limit) ==
    [list |-> Find(table, filters, cursor, limit), total |-> Count(table, filters)]

ListDrafts(table, owner, offset, limit) ==
    LET drafts == NewestFirst(table, {i \in DOMAIN table : table[i].owner = owner /\ table[i].draft})
    IN  Page(SubSeq(drafts, offset + 1, Len(drafts)), limitOf(DOMAIN drafts, limit))

GetDraft(table, id) ==
    LET docs == {i \in DOMAIN table : i = id /\ table[i].draft}
    IN  CASE ~parseID(id) -> [err |-> "ErrInvalidID", msg |-> NoMessage]
          [] docs = {} -> [err |-> "ErrNotFound", msg |-> NoMessage]
          [] OTHER -> [err |-> "nil", msg |-> table[id]]
=============================================================================
