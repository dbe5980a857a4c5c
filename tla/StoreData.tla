------------------------------ MODULE StoreData ------------------------------
(***************************************************************************)
(* What the three message stores (store/memory, store/postgres,            *)
(* store/mongo) have in common: the stored message, the folders, the       *)
(* filters of store/filter.go, and the reply of a store call.              *)
(*                                                                         *)
(* A table is a function from ids to messages.  Times are naturals, NoTime *)
(* is a nil *time.Time; subject and body are reduced to `text`: whether    *)
(* the one search term of the model occurs in them.  Ids are naturals that *)
(* grow with the time of creation, so that created_at has no ties.         *)
(***************************************************************************)
EXTENDS Integers, Sequences, FiniteSets, SequencesExt, FiniteSetsExt

CONSTANT Now            \* the time read by every call of the instance

NoTime == 0
NoId == 0               \* the empty id
NoMessage == [draft |-> TRUE]   \* Load found nothing

FolderInbox == "__inbox"
FolderSent == "__sent"
FolderTrash == "__trash"
FolderDrafts == "__drafts"
SystemFolders == {FolderInbox, FolderSent, "__archived", FolderTrash, "__spam", "__outbox", FolderDrafts}
FolderPrefixed(f) == f \in SystemFolders \union {"__unknown"}
IsValidFolderID(f) == f # "" /\ (FolderPrefixed(f) => f \in SystemFolders)
IsSentByOwner(m) == m.owner = m.sender

----------------------------------------------------------------------------
(* The columns a filter can name, as the stores compare them. *)

Bool(b) == IF b THEN "true" ELSE "false"

MessageFieldKey == {"owner_id", "sender_id", "folder_id", "is_read", "thread_id", "tags",
                    "created_at", "updated_at", "expires_at", "available_at"}

Field(m, key) ==
    CASE key = "owner_id"     -> m.owner
      [] key = "sender_id"    -> m.sender
      [] key = "folder_id"    -> m.folder
      [] key = "is_read"      -> Bool(m.read)
      [] key = "thread_id"    -> m.thread
      [] key = "tags"         -> m.tags
      [] key = "created_at"   -> m.created
      [] key = "updated_at"   -> m.updated
      [] key = "expires_at"   -> m.expires
      [] key = "available_at" -> m.available

TimeKeys == {"created_at", "updated_at", "expires_at", "available_at"}
NullableKeys == {"expires_at", "available_at"}

NewFilter(key, op, val) == [key |-> key, op |-> op, val |-> val]

OwnerIs(u) == NewFilter("owner_id", "eq", u)
SenderIs(u) == NewFilter("sender_id", "eq", u)
NotDeleted == NewFilter("folder_id", "ne", FolderTrash)
IsReadFilter(b) == NewFilter("is_read", "eq", Bool(b))
InFolder(f) == NewFilter("folder_id", "eq", f)
NotInFolder(f) == NewFilter("folder_id", "ne", f)
HasTag(t) == NewFilter("tags", "contains", t)
ThreadIs(t) == NewFilter("thread_id", "eq", t)

----------------------------------------------------------------------------
(* Calls: records with field op, and the arguments of the operation. *)

Mutators == {"MarkRead", "MoveToFolder", "AddTag", "RemoveTag", "Delete", "HardDelete", "Restore"}
Bulk == {"MarkAllRead", "MarkReadByFilter", "MoveByFilter", "DeleteByFilter",
         "AddTagByFilter", "RemoveTagByFilter"}
Removals == {"DeleteMessagesByIDs", "DeleteExpiredTrash", "DeleteExpiredMessages",
             "DeleteTTLExpiredMessages"}

NoCall == [op |-> "none"]
NoAnswer == [err |-> "none", n |-> {}]

----------------------------------------------------------------------------
(* Replies.  n is the count, or the set of ids, the call returns. *)

Ok(table, n) == [table |-> table, err |-> "nil", n |-> n]
Fail(table, err) == [table |-> table, err |-> err, n |-> {}]

\* The table with f applied to the messages in ids.
Rewrite(table, ids, f(_)) ==
    [i \in DOMAIN table |-> IF i \in ids THEN f(table[i]) ELSE table[i]]

Without(table, ids) == [i \in DOMAIN table \ ids |-> table[i]]
With(table, id, m) == [i \in DOMAIN table \union {id} |-> IF i = id THEN m ELSE table[i]]

\* Newest first: the order every reader of the service asks for.
NewestFirst(table, ids) ==
    SetToSortSeq(ids, LAMBDA i, j : table[i].created > table[j].created)

\* A page of at most limit ids out of a sorted sequence.
Page(sorted, limit) ==
    [ids     |-> SubSeq(sorted, 1, IF limit < Len(sorted) THEN limit ELSE Len(sorted)),
     hasMore |-> Len(sorted) > limit]
=============================================================================
