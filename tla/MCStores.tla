------------------------------ MODULE MCStores -------------------------------
(* A mailbox of user "u" with a message of every kind, and two clients. *)
EXTENDS Stores

CONSTANTS A, B

Msg == [owner |-> "u", sender |-> "v", folder |-> FolderInbox, read |-> FALSE, tags |-> {},
        draft |-> FALSE, key |-> "", thread |-> "", text |-> FALSE, created |-> 1, updated |-> 1,
        expires |-> NoTime, available |-> NoTime]

\* 1 is an old unread message, 2 an old expired one the owner sent and trashed, 3 a draft,
\* 4 scheduled for later, 5 a message of another user with an idempotency key, 6 a tagged one.
MCSeed == <<
    [Msg EXCEPT !.thread = "th", !.text = TRUE],
    [Msg EXCEPT !.created = 2, !.updated = 2, !.sender = "u", !.folder = FolderTrash, !.tags = {"t"},
                !.expires = 4],
    [Msg EXCEPT !.created = 3, !.sender = "u", !.folder = "", !.draft = TRUE],
    [Msg EXCEPT !.created = 4, !.available = 15, !.text = TRUE],
    [Msg EXCEPT !.created = 5, !.owner = "v", !.key = "k", !.thread = "th", !.folder = FolderSent],
    [Msg EXCEPT !.created = 6, !.tags = {"t"}, !.read = TRUE, !.updated = 6]>>

MCNow == 10
MCCutoff == 3

Call(op) == [op |-> op, id |-> NoId, ids |-> {}, owner |-> "u", arg |-> "", from |-> "",
             flag |-> FALSE, filters |-> <<>>, data |-> <<>>]
Datum == [owner |-> "u", sender |-> "v", folder |-> FolderInbox, tags |-> {}, key |-> "",
          thread |-> "th", text |-> TRUE, expires |-> NoTime, available |-> NoTime]

On(op, ids) == {[Call(op) EXCEPT !.id = i] : i \in ids}
With1(calls, f) == {[k EXCEPT !.arg = f] : k \in calls}
Where(calls, fs) == {[k EXCEPT !.filters = fs] : k \in calls}
Creating(op, data) == [Call(op) EXCEPT !.data = data]

\* What the messages are contended for with.
Rivals ==
    {[Call("MarkRead") EXCEPT !.id = 1, !.flag = TRUE],
     [Call("MoveToFolder") EXCEPT !.id = 1, !.arg = "work", !.from = FolderInbox],
     [Call("AddTag") EXCEPT !.id = 2, !.arg = "x"],
     [Call("DeleteMessagesByIDs") EXCEPT !.ids = {1, 2}],
     [Call("DeleteByFilter") EXCEPT !.filters = <<HasTag("t")>>],
     Creating("CreateMessageIdempotent", <<[Datum EXCEPT !.owner = "v", !.key = "k"]>>)}
    \union On("HardDelete", {5, 6}) \union On("Delete", {1, 6}) \union On("Restore", {2})
    \union On("DeleteDraft", {3})

AllCalls ==
    Rivals
    \union {[Call("MarkRead") EXCEPT !.id = i, !.flag = b] : i \in {0, 1, 3, 4}, b \in BOOLEAN}
    \union {[Call("MoveToFolder") EXCEPT !.id = i, !.arg = "work", !.from = f] :
                i \in {0, 1, 2, 3}, f \in {"", FolderInbox}}
    \union With1(On("AddTag", {0, 1, 6}) \union On("RemoveTag", {0, 1, 6}), "t")
    \union On("Delete", {0, 2, 3}) \union On("HardDelete", {0, 1, 3}) \union On("Restore", {0, 1})
    \union With1(Where({Call("MoveByFilter"), Call("AddTagByFilter"), Call("RemoveTagByFilter"),
                        Call("DeleteByFilter")}, <<InFolder(FolderInbox)>>), "t")
    \union With1(Where({Call("MarkReadByFilter"), Call("RemoveTagByFilter")}, <<HasTag("t")>>), "t")
    \union With1({Call("MarkReadByFilter"), Call("MarkAllRead")}, FolderInbox)
    \union {[Call("DeleteMessagesByIDs") EXCEPT !.ids = {0, 1, 6, 9}]}
    \union {Call("DeleteExpiredTrash"), Call("DeleteExpiredMessages"), Call("DeleteTTLExpiredMessages")}
    \union {Creating("CreateMessage", <<Datum>>), Creating("CreateMessages", <<Datum, [Datum EXCEPT !.owner = "v"]>>),
            Creating("CreateMessageIdempotent", <<[Datum EXCEPT !.key = "k"]>>)}
    \union {[Call("SaveDraft") EXCEPT !.id = i, !.flag = TRUE] : i \in {0, 3}}
    \union On("DeleteDraft", {0, 1})

MCCallsOf == [c \in Client |-> IF c = A THEN AllCalls ELSE Rivals]
MCMaxCalls == [on \in BOOLEAN |-> [c \in Client |-> IF c = B /\ on THEN 0 ELSE 1]]
=============================================================================
