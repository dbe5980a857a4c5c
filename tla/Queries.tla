------------------------------- MODULE Queries -------------------------------
(***************************************************************************)
(* query.go and thread.go: what the reads of a mailbox answer, as a        *)
(* function of the table and of the backend behind the service.            *)
(*                                                                         *)
(* A list is returned as [err, ids, total, hasMore, nextCursor].  Folder   *)
(* asks for the order "CreatedAt", a name store/memory does not sort by:   *)
(* there the order of its pages is that of sync.Map.Range, and the ids     *)
(* below stand for one such order.                                         *)
(***************************************************************************)
EXTENDS StoreData

CONSTANTS DefaultQueryLimit, MaxQueryLimit

Memory == INSTANCE MemoryStore
Postgres == INSTANCE PostgresStore
Mongo == INSTANCE MongoStore

FindIn(b, table, filters, cursor, limit) ==
    CASE b = "memory"   -> Memory!Find(table, filters, cursor, limit)
      [] b = "postgres" -> Postgres!Find(table, filters, cursor, limit)
      [] b = "mongo"    -> Mongo!Find(table, filters, cursor, limit)

FindWithCountIn(b, table, filters, cursor, limit) ==
    CASE b = "memory"   -> Memory!FindWithCount(table, filters, cursor, limit)
      [] b = "postgres" -> Postgres!FindWithCount(table, filters, cursor, limit)
      [] b = "mongo"    -> Mongo!FindWithCount(table, filters, cursor, limit)

SearchIn(b, table, query) ==
    CASE b = "memory"   -> Memory!Search(table, query)
      [] b = "postgres" -> Postgres!Search(table, query)
      [] b = "mongo"    -> Mongo!Search(table, query)

GetIn(b, table, id) ==
    CASE b = "memory"   -> Memory!Get(table, id)
      [] b = "postgres" -> Postgres!Get(table, id)
      [] b = "mongo"    -> Mongo!Get(table, id)

GetDraftIn(b, table, id) ==
    CASE b = "memory"   -> Memory!GetDraft(table, id)
      [] b = "postgres" -> Postgres!GetDraft(table, id)
      [] b = "mongo"    -> Mongo!GetDraft(table, id)

ListDraftsIn(b, table, owner, offset, limit) ==
    CASE b = "memory"   -> Memory!ListDrafts(table, owner, offset, limit)
      [] b = "postgres" -> Postgres!ListDrafts(table, owner, offset, limit)
      [] b = "mongo"    -> Mongo!ListDrafts(table, owner, offset, limit)

ListDistinctFoldersIn(b, table, owner) ==
    CASE b = "memory"   -> Memory!ListDistinctFolders(table, owner)
      [] b = "postgres" -> Postgres!ListDistinctFolders(table, owner)
      [] b = "mongo"    -> Mongo!ListDistinctFolders(table, owner)

CountByFoldersIn(b, table, owner, folders) ==
    CASE b = "memory"   -> Memory!CountByFolders(table, owner, folders)
      [] b = "postgres" -> Postgres!CountByFolders(table, owner, folders)
      [] b = "mongo"    -> Mongo!CountByFolders(table, owner, folders)

ThreadParticipantsIn(b, table, thread) ==
    CASE b = "memory"   -> Memory!ThreadParticipants(table, thread)
      [] b = "postgres" -> Postgres!ThreadParticipants(table, thread)
      [] b = "mongo"    -> Mongo!ThreadParticipants(table, thread)

MailboxStatsIn(b, table, owner) ==
    CASE b = "memory"   -> Memory!MailboxStats(table, owner)
      [] b = "postgres" -> Postgres!MailboxStats(table, owner)
      [] b = "mongo"    -> Mongo!MailboxStats(table, owner)

----------------------------------------------------------------------------
canAccess(user, m) == m.owner = user

Get(b, table, user, id) ==
    LET r == GetIn(b, table, id)
    IN  CASE r.err # "nil" -> r.err
          [] r.err = "nil" /\ ~canAccess(user, r.msg) -> "ErrUnauthorized"
          [] OTHER -> "nil"

GetDraft(b, table, user, id) ==
    LET r == GetDraftIn(b, table, id)
    IN  CASE r.err # "nil" -> r.err
          [] r.err = "nil" /\ ~canAccess(user, r.msg) -> "ErrNotFound"
          [] OTHER -> "nil"

Drafts(b, table, user, offset, limit) == ListDraftsIn(b, table, user, offset, limit)

clampLimit(limit) ==
    LET l == IF limit = 0 THEN DefaultQueryLimit ELSE limit
    IN  IF l > MaxQueryLimit THEN MaxQueryLimit ELSE l

wrapMessageList(err, page, total) ==
    [err |-> err, ids |-> page.ids, total |-> total, hasMore |-> page.hasMore,
     nextCursor |-> IF page.hasMore /\ page.ids # <<>> THEN Last(page.ids) ELSE NoId]

listMessages(b, table, filters, cursor, limit) ==
    LET r == FindWithCountIn(b, table, filters, cursor, clampLimit(limit))
    IN  wrapMessageList(r.list.err, r.list.page, r.total)

Folder(b, table, user, folder, cursor, limit) ==
    listMessages(b, table, <<OwnerIs(user), InFolder(folder)>>, cursor, limit)

\* The filters of the user come first, those of the service after them.
Search(b, table, user, query) ==
    LET own == <<OwnerIs(user), NotDeleted>>
        tags == SetToSeq({HasTag(t) : t \in query.tags})
        r == SearchIn(b, table, [query EXCEPT !.owner = user, !.limit = clampLimit(@),
                                              !.filters = @ \o own \o tags])
    IN  wrapMessageList(r.err, r.page, r.total)

systemFolders == {FolderInbox, FolderSent, "__archived", FolderTrash}

ListFolders(b, table, user) ==
    LET all == systemFolders \union ListDistinctFoldersIn(b, table, user)
        counts == CountByFoldersIn(b, table, user, all)
    IN  [f \in all |-> IF f \in DOMAIN counts THEN counts[f] ELSE [total |-> 0, unread |-> 0]]

\* Oldest first, and no limit of the service.
GetThread(b, table, user, thread) ==
    LET r == FindIn(b, table, <<OwnerIs(user), NotDeleted, ThreadIs(thread)>>, NoId, 0)
    IN  IF thread = "" THEN wrapMessageList("ErrInvalidID", Page(<<>>, 0), 0)
        ELSE wrapMessageList(r.err, [r.page EXCEPT !.ids = Reverse(@)], r.total)

ThreadParticipants(b, table, thread) ==
    LET users == ThreadParticipantsIn(b, table, thread)
    IN  IF users = {} THEN [err |-> "ErrNotFound", users |-> {}] ELSE [err |-> "nil", users |-> users]
=============================================================================
