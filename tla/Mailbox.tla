------------------------------ MODULE Mailbox ------------------------------
(***************************************************************************)
(* The operations of one user's mailbox (mutate.go, bulk.go), the events   *)
(* they publish (outbox_helpers.go) and the counters that follow those     *)
(* events (stats.go, statscache/redis).  Several instances of the service  *)
(* run calls of the same user; each keeps a copy of the user's counters    *)
(* (L1), and they may share one in Redis (L2).  An event is handled by     *)
(* every instance, in any order.                                           *)
(***************************************************************************)
EXTENDS Integers, FiniteSets, Sequences, FiniteSetsExt, TLC

CONSTANTS Client, Instance, Message,
          Home,        \* the instance a client talks to
          Scenarios    \* configurations and bounds: [box, outbox, fatal, bulk, l2, up, jobs, loads, faults],
                       \* the mailbox at the start, the options of the service, the instances that
                       \* run, the call each client makes, loads of the counters, and faults

VARIABLES db,      \* the user's messages in the store
          job,     \* the call of each client
          outbox,  \* events committed with their change, not yet relayed
          queue,   \* events an instance has still to handle
          half,    \* events of which an instance has updated L1 and not L2
          l1, fresh, lock, l2,
          mode, budget,
          off,     \* the copies of the counters that are known to be off
          won      \* claims won on a message since it came to its folder

data == <<db, job, outbox, won>>
cache == <<queue, half, l1, fresh, lock, l2, off>>
vars == <<data, cache, mode, budget>>

Folders == {"inbox", "sent", "archived", "trash"}
NoStats == [total |-> -1]
NoHash == <<>>
Copies == Instance \cup {0}      \* 0 is the shared copy
L2 == 0

(***************************************************************************)
(* Counters.                                                               *)
(***************************************************************************)
\* What the store counts: available messages, by folder.
MailboxStats(d) ==
    LET In(fs, rs) == Cardinality({m \in Message : /\ d[m].here /\ d[m].due
                                                   /\ d[m].folder \in fs /\ d[m].read \in rs})
    IN  [total |-> In(Folders, BOOLEAN), unread |-> In(Folders, {FALSE}),
         folders |-> [f \in Folders |-> [total |-> In({f}, BOOLEAN), unread |-> In({f}, {FALSE})]]]

Less(n) == IF n > 0 THEN n - 1 ELSE n
Take(c, unread) == [total |-> Less(c.total), unread |-> IF unread THEN Less(c.unread) ELSE c.unread]
Put(c, unread) == [total |-> c.total + 1, unread |-> IF unread THEN c.unread + 1 ELSE c.unread]

onMessageSent(s, e) ==
    [total |-> s.total + 1, unread |-> IF e.to = "inbox" THEN s.unread + 1 ELSE s.unread,
     folders |-> [s.folders EXCEPT ![e.to] = Put(@, e.to = "inbox")]]
onMessageRead(s, e) ==
    [s EXCEPT !.unread = Less(@), !.folders[e.from].unread = Less(@)]
updateCachedStats(s, e) ==
    LET Minus(n) == IF n >= e.count THEN n - e.count ELSE 0
    IN  [s EXCEPT !.unread = Minus(@), !.folders[e.from].unread = Minus(@)]
onMessageDeleted(s, e) ==
    [total |-> Less(s.total), unread |-> IF e.unread THEN Less(s.unread) ELSE s.unread,
     folders |-> [s.folders EXCEPT ![e.from] = Take(@, e.unread)]]

\* Mutant: a move forgets the unread count of the folder it fills.
MutonMessageMoved(s, e) ==
    [s EXCEPT !.folders = [@ EXCEPT ![e.from] = Take(@, e.unread), ![e.to] = Put(@, FALSE)]]
onMessageMoved(s, e) ==
    [s EXCEPT !.folders = [@ EXCEPT ![e.from] = Take(@, e.unread), ![e.to] = Put(@, e.unread)]]

Handled(s, e) ==
    CASE e.kind = "sent"    -> onMessageSent(s, e)
      [] e.kind = "read"    -> onMessageRead(s, e)
      [] e.kind = "deleted" -> onMessageDeleted(s, e)
      [] e.kind = "moved"   -> onMessageMoved(s, e)
      [] e.kind = "all"     -> updateCachedStats(s, e)

\* The same change by HINCRBY, which knows no floor.
incrDistCache(s, e) ==
    LET u == IF e.unread THEN 1 ELSE 0
        Add(c, t, v) == [total |-> c.total + t, unread |-> c.unread + v]
    IN  CASE e.kind = "read" -> [s EXCEPT !.unread = @ - 1, !.folders[e.from].unread = @ - 1]
          [] e.kind = "sent" ->
               LET v == IF e.to = "inbox" THEN 1 ELSE 0
               IN  [s EXCEPT !.total = @ + 1, !.unread = @ + v, !.folders[e.to] = Add(@, 1, v)]
          [] e.kind = "deleted" ->
               [s EXCEPT !.total = @ - 1, !.unread = @ - u, !.folders[e.from] = Add(@, -1, -u)]
          [] e.kind = "moved" ->
               [s EXCEPT !.folders = [@ EXCEPT ![e.from] = Add(@, -1, -u), ![e.to] = Add(@, 1, u)]]
          [] e.kind = "all" ->
               [s EXCEPT !.unread = @ - e.count, !.folders[e.from].unread = @ - e.count]

\* What Redis keeps of the counters: a hash with two fields for each folder the store has counted, and
\* two of the whole mailbox.  HSET writes the fields it is given and leaves the others.
Fields(s) ==
    [k \in (Folders \cup {"all"}) \X {"total", "unread"} |->
       IF k[1] = "all" THEN s[k[2]] ELSE s.folders[k[1]][k[2]]]
encodeStats(s) ==
    LET written == {f \in Folders : s.folders[f].total > 0} \cup {"all"}
    IN  [k \in written \X {"total", "unread"} |-> Fields(s)[k]]
HSet(h, new) == new @@ h
decodeStats(h) ==
    LET Get(f, n) == IF <<f, n>> \in DOMAIN h THEN h[<<f, n>>] ELSE 0
    IN  [total |-> Get("all", "total"), unread |-> Get("all", "unread"),
         folders |-> [f \in Folders |-> [total |-> Get(f, "total"), unread |-> Get(f, "unread")]]]

\* The floors of L1 swallow a decrement that comes before its increment.
Clipped(s, e) ==
    LET t == incrDistCache(s, e)
        Swallowed(a, b) == b < a /\ b < 0
    IN  \/ Swallowed(s.total, t.total) \/ Swallowed(s.unread, t.unread)
        \/ \E f \in Folders : \/ Swallowed(s.folders[f].total, t.folders[f].total)
                              \/ Swallowed(s.folders[f].unread, t.folders[f].unread)

Whole == {"MarkAllRead", "UpdateByFilter", "MoveByFilter", "DeleteByFilter", "TagByFilter", "UntagByFilter"}
\* The calls that take several messages by their ids.
Bulk == {"UpdateFlags", "MoveToFolder", "Delete", "PermanentlyDelete", "AddTag", "RemoveTag"}

(***************************************************************************)
(* Calls.                                                                  *)
(***************************************************************************)
NoEvent == [kind |-> "none", from |-> "", to |-> "", unread |-> FALSE, count |-> 0, n |-> 0]
NewEvent(kind, from, to, unread) ==
    [kind |-> kind, from |-> from, to |-> to, unread |-> unread, count |-> 0, n |-> budget.serial]
Idle == [pc |-> "idle", call |-> [op |-> "none"], i |-> 0, todo |-> <<>>,
         event |-> NoEvent, page |-> {}, touched |-> FALSE, results |-> <<>>]

defaultFolderForMessage(s) == IF s.mine THEN "sent" ELSE "inbox"

\* A step of a call: what it asks of the store, and the event that goes with it.
Step(do, to, claim, event) == [do |-> do, to |-> to, claim |-> claim, event |-> event]

\* moveAndPublish: a message that is in the folder already is left alone.
moveAndPublish(s, to, claim) ==
    IF s.folder = to THEN <<>>
    ELSE <<Step("move", to, claim, NewEvent("moved", s.folder, to, ~s.read))>>

UpdateFlags(k, s) ==
    LET folder == IF k.archived = "yes" THEN "archived"
                  ELSE IF k.archived = "no" THEN defaultFolderForMessage(s) ELSE s.folder
    IN  moveAndPublish(s, folder, "")
        \o (CASE k.read = "yes" -> <<Step("read", "", "", NewEvent("read", folder, "", FALSE))>>
              [] k.read = "no"  -> <<Step("unread", "", "", NoEvent)>>
              [] k.read = ""    -> <<>>)
Delete(k, s) == moveAndPublish(s, "trash", "")
Restore(k, s) == moveAndPublish(s, defaultFolderForMessage(s), "")
PermanentlyDelete(k, s) == <<Step("delete", "", "", NewEvent("deleted", s.folder, "", ~s.read))>>

\* Mutant: the caller's FromFolder is not passed on to the store.
MutMoveToFolder(k, s) == moveAndPublish(s, k.to, "")
MoveToFolder(k, s) == moveAndPublish(s, k.to, k.claim)
AddTag(k, s) == <<Step("tag", "", "", NoEvent)>>
RemoveTag(k, s) == <<Step("untag", "", "", NoEvent)>>

Steps(k, s) ==
    CASE k.op = "UpdateFlags"       -> UpdateFlags(k, s)
      [] k.op = "Delete"            -> Delete(k, s)
      [] k.op = "Restore"           -> Restore(k, s)
      [] k.op = "PermanentlyDelete" -> PermanentlyDelete(k, s)
      [] k.op = "MoveToFolder"      -> MoveToFolder(k, s)
      [] k.op = "AddTag"            -> AddTag(k, s)
      [] k.op = "RemoveTag"         -> RemoveTag(k, s)

\* ErrAlreadyInTrash and ErrNotInTrash
Forbidden(k, s) == \/ k.op = "Delete" /\ s.folder = "trash"
                   \/ k.op \in {"Restore", "PermanentlyDelete"} /\ s.folder # "trash"

\* What the store does with a step, and whether it accepts it.
Accepts(m, st) == db[m].here /\ (st.claim = "" \/ db[m].folder = st.claim)
Applied(m, st) ==
    CASE st.do = "move"   -> [db[m] EXCEPT !.folder = st.to]
      [] st.do = "read"   -> [db[m] EXCEPT !.read = TRUE]
      [] st.do = "unread" -> [db[m] EXCEPT !.read = FALSE]
      [] st.do = "delete" -> [db[m] EXCEPT !.here = FALSE]
      [] st.do = "tag"    -> [db[m] EXCEPT !.tag = TRUE]
      [] st.do = "untag"  -> [db[m] EXCEPT !.tag = FALSE]

(***************************************************************************)
(* When the counters go off.  An event is exact when it says what the step *)
(* did to the message; a change without an exact event, or with one that   *)
(* is not handled exactly once, leaves every copy off until it is loaded.  *)
(***************************************************************************)
Exact(m, st) ==
    CASE st.do = "move"   -> db[m].folder = st.event.from /\ db[m].read # st.event.unread
      [] st.do = "read"   -> db[m].folder = st.event.from /\ ~db[m].read
      [] st.do = "delete" -> db[m].folder = st.event.from /\ db[m].read # st.event.unread
      [] st.do = "unread" -> ~db[m].read
      [] OTHER            -> TRUE
AllOff == [c \in Copies |-> TRUE]
OffUnless(exact) == off' = IF exact THEN off ELSE AllOff

\* Events that tell of a change in the store and have not reached the bus.
Unpublished ==
    (outbox \cup {job[c].event : c \in {d \in Client : job[d].pc = "publish"}}) \ {NoEvent}
Counting(i) == {job[c].event : c \in {d \in Client : job[d].pc \in {"page", "count"} /\ Home[d] = i}} \ {NoEvent}
Pending(c) ==
    IF c = L2 THEN Unpublished \cup UNION {queue[i] \cup half[i] : i \in mode.up}
    ELSE Unpublished \cup queue[c] \cup Counting(c)

Spend(field) == budget[field] > 0 /\ budget' = [budget EXCEPT ![field] = @ - 1]
Numbered == budget' = [budget EXCEPT !.serial = @ + 1]

(***************************************************************************)
(* The steps of a call.                                                    *)
(***************************************************************************)
Set(c, r) == job' = [job EXCEPT ![c] = r]
Item(c) == job[c].call.ids[job[c].i]

\* bulkOp: the outcome of one item, and on to the next one.
Outcome(j, ok, publish) ==
    LET rs == Append(j.results, [ok |-> ok, touched |-> j.touched, publish |-> publish])
    IN  IF Len(rs) >= Len(j.call.ids) THEN [Idle EXCEPT !.call = j.call, !.results = rs]
        ELSE [j EXCEPT !.pc = "next", !.i = @ + 1, !.todo = <<>>, !.event = NoEvent, !.touched = FALSE,
                       !.results = rs]
\* The next step of the item, or its success.
Continue(j) ==
    IF j.todo = <<>> THEN Outcome(j, TRUE, FALSE) ELSE [j EXCEPT !.pc = "op", !.event = NoEvent]
Fail(c) == Set(c, Outcome(job[c], FALSE, FALSE))

Invoke(c) ==
    /\ job[c].pc = "idle" /\ budget.jobs[c] # {}
    /\ \E k \in budget.jobs[c] :
         /\ Len(k.ids) > 1 => k.op \in Bulk
         /\ Set(c, [Idle EXCEPT !.pc = IF k.op \in Whole THEN "whole" ELSE "next", !.call = k, !.i = 1])
    /\ budget' = [budget EXCEPT !.jobs[c] = {}]
    /\ UNCHANGED <<db, outbox, won, cache, mode>>

\* The caller's context is cancelled between two items: the rest are reported as failed.
Cancel(c) ==
    LET j == job[c] IN
    /\ j.pc = "next" /\ Len(j.call.ids) > 1
    /\ Set(c, [Idle EXCEPT !.call = j.call,
                 !.results = j.results \o [n \in 1 .. Len(j.call.ids) - Len(j.results) |->
                                             [ok |-> FALSE, touched |-> FALSE, publish |-> FALSE]]])
    /\ UNCHANGED <<db, outbox, won, cache, mode, budget>>

getAndVerify(c) ==
    LET j == job[c] IN
    /\ j.pc = "next"
    /\ LET s == db[Item(c)] IN
         IF s.here /\ s.due /\ ~Forbidden(j.call, s)
         THEN Set(c, Continue([j EXCEPT !.todo = Steps(j.call, s)])) /\ Numbered
         ELSE Fail(c) /\ UNCHANGED budget
    /\ UNCHANGED <<db, outbox, won, cache, mode>>

\* The store, or the transaction around it, refuses the step: nothing is changed.
OpFails(c) ==
    /\ job[c].pc = "op" /\ job[c].todo # <<>>
    /\ \/ ~Accepts(Item(c), Head(job[c].todo)) /\ UNCHANGED budget
       \/ Spend("faults")
    /\ Fail(c)
    /\ UNCHANGED <<db, outbox, won, cache, mode>>

Apply(c, st) ==
    /\ Accepts(Item(c), st)
    /\ db' = [db EXCEPT ![Item(c)] = Applied(Item(c), st)]
    /\ won' = [won EXCEPT ![Item(c)] = IF st.do # "move" THEN @ ELSE IF job[c].call.claim # "" THEN @ + 1 ELSE 0]
    /\ OffUnless(Exact(Item(c), st))
    /\ UNCHANGED <<queue, half, l1, fresh, lock, l2, mode, budget>>

Advance(j) == [j EXCEPT !.todo = Tail(@), !.touched = TRUE]

\* Mutant: the change is committed first and the event put into the outbox in a transaction of its own.
MutTransaction(c) ==
    /\ job[c].pc = "op" /\ job[c].todo # <<>> /\ mode.outbox /\ Head(job[c].todo).event # NoEvent
    /\ Apply(c, Head(job[c].todo))
    /\ \/ Set(c, Continue(Advance(job[c]))) /\ outbox' = outbox \cup {Head(job[c].todo).event}
       \/ Set(c, Outcome(Advance(job[c]), FALSE, FALSE)) /\ UNCHANGED outbox
\* opAndPublish with an outbox: the change and its event in one transaction.
Transaction(c) ==
    /\ job[c].pc = "op" /\ job[c].todo # <<>> /\ mode.outbox /\ Head(job[c].todo).event # NoEvent
    /\ Apply(c, Head(job[c].todo))
    /\ outbox' = outbox \cup {Head(job[c].todo).event}
    /\ Set(c, Continue(Advance(job[c])))

\* opAndPublish without: the change, and then the event.
Direct(c) ==
    /\ job[c].pc = "op" /\ job[c].todo # <<>>
    /\ LET st == Head(job[c].todo) IN
         /\ st.event = NoEvent \/ ~mode.outbox
         /\ Apply(c, st)
         /\ Set(c, IF st.event = NoEvent THEN Continue(Advance(job[c]))
                   ELSE [Advance(job[c]) EXCEPT !.pc = "publish", !.event = st.event])
    /\ UNCHANGED outbox

ToAll(e) == queue' = [i \in Instance |-> IF i \in mode.up THEN queue[i] \cup {e} ELSE queue[i]]

publishTypedEvent(c) ==
    /\ job[c].pc = "publish"
    /\ \/ /\ IF job[c].event = NoEvent THEN UNCHANGED queue ELSE ToAll(job[c].event)
          /\ Set(c, Continue(job[c]))
          /\ UNCHANGED <<off, budget>>
       \/ /\ Spend("faults")
          /\ OffUnless(job[c].event = NoEvent)
          /\ IF mode.fatal THEN Set(c, Outcome(job[c], FALSE, TRUE))
             ELSE Set(c, Continue(job[c]))
          /\ UNCHANGED queue
    /\ UNCHANGED <<db, outbox, won, half, l1, fresh, lock, l2, mode>>

\* Calls on all messages a filter selects: what they do to a message, ...
UpdateByFilter(k, r) == [r EXCEPT !.read = k.read = "yes"]
MoveByFilter(k, r) == [r EXCEPT !.folder = k.to]
DeleteByFilter(k, r) == [r EXCEPT !.folder = "trash"]
TagByFilter(k, r) == [r EXCEPT !.tag = TRUE]
UntagByFilter(k, r) == [r EXCEPT !.tag = FALSE]
MarkAllRead(k, r) == [r EXCEPT !.read = TRUE]
Rewritten(k, r) ==
    CASE k.op = "MarkAllRead"    -> MarkAllRead(k, r)
      [] k.op = "UpdateByFilter" -> UpdateByFilter(k, r)
      [] k.op = "MoveByFilter"   -> MoveByFilter(k, r)
      [] k.op = "DeleteByFilter" -> DeleteByFilter(k, r)
      [] k.op = "TagByFilter"    -> TagByFilter(k, r)
      [] k.op = "UntagByFilter"  -> UntagByFilter(k, r)
Rewrite(k, ms) ==
    /\ db' = [m \in Message |-> IF m \in ms THEN Rewritten(k, db[m]) ELSE db[m]]
    /\ won' = [m \in Message |-> IF m \in ms /\ k.op \in {"MoveByFilter", "DeleteByFilter"} THEN 0 ELSE won[m]]
\* ... which messages they select, ...
scopedFilters(k) == {m \in Message : /\ db[m].here /\ db[m].folder = k.from
                                     /\ db[m].due \/ (k.op = "MarkAllRead" /\ mode.bulk)
                                     /\ k.op = "MarkAllRead" => ~db[m].read}
\* ... and what that does to the counters: MarkAllRead tells those of the instance that runs it how many
\* messages it has marked; the others tell nobody.
Counted(k, m) ==
    IF k.op = "MarkAllRead" THEN db[m].due /\ db[m].folder = k.from /\ ~db[m].read
    ELSE Rewritten(k, db[m]).read = db[m].read /\ Rewritten(k, db[m]).folder = db[m].folder
Told(c, ms) ==
    off' = [d \in Copies |-> off[d] \/ \E m \in ms : \/ ~Counted(job[c].call, m)
                                                     \/ job[c].call.op = "MarkAllRead" /\ d # Home[c]]
Marked(k, n) == IF k.op = "MarkAllRead" THEN [NewEvent("all", k.from, "", TRUE) EXCEPT !.count = n] ELSE NoEvent
Finished(j) == IF j.event.count > 0 THEN [j EXCEPT !.pc = "count"] ELSE Continue(j)

\* The fast path: one bulk operation of the store.  UpdateByFilter has one for the read flag only, and
\* without that flag marks as unread, on the slow path.
Fast(k) == mode.bulk /\ ~(k.op = "UpdateByFilter" /\ k.read = "")
BulkUpdater(c) ==
    LET k == job[c].call
        ms == scopedFilters(k)
    IN  /\ job[c].pc = "whole" /\ Fast(k)
        /\ Rewrite(k, ms) /\ Told(c, ms)
        /\ Set(c, Finished([job[c] EXCEPT !.event = Marked(k, Cardinality(ms))])) /\ Numbered
        /\ UNCHANGED <<outbox, queue, half, l1, fresh, lock, l2, mode>>
\* The slow path, for a store without bulk operations, as the one of the search plugin: find a page of
\* messages (here all of them), and then write one after the other, passing over those the store refuses.
FindPage(c) ==
    LET k == job[c].call IN
    /\ job[c].pc = "whole" /\ ~Fast(k)
    /\ Set(c, [job[c] EXCEPT !.pc = "page", !.page = scopedFilters(k), !.event = Marked(k, 0)]) /\ Numbered
    /\ UNCHANGED <<db, outbox, won, cache, mode>>
OneOfPage(c, m) ==
    LET ms == {x \in {m} : db[x].here}
        more == IF job[c].call.op = "MarkAllRead" THEN Cardinality(ms) ELSE 0
    IN  /\ job[c].pc = "page" /\ m \in job[c].page
        /\ Rewrite(job[c].call, ms) /\ Told(c, ms)
        /\ Set(c, [job[c] EXCEPT !.page = @ \ {m}, !.event.count = @ + more])
        /\ UNCHANGED <<outbox, queue, half, l1, fresh, lock, l2, mode, budget>>
OneFails(c, m) ==
    /\ job[c].pc = "page" /\ m \in job[c].page /\ Spend("faults")
    /\ Set(c, [job[c] EXCEPT !.page = @ \ {m}])
    /\ UNCHANGED <<db, outbox, won, cache, mode>>
EndPage(c) ==
    /\ job[c].pc = "page" /\ job[c].page = {}
    /\ Set(c, Finished(job[c]))
    /\ UNCHANGED <<db, outbox, won, cache, mode, budget>>

\* Only the counters of the instance that ran MarkAllRead are told.
CountAllRead(c) ==
    LET i == Home[c] IN
    /\ job[c].pc = "count" /\ ~lock[i].held
    /\ l1' = [l1 EXCEPT ![i] = IF @ = NoStats THEN @ ELSE updateCachedStats(@, job[c].event)]
    /\ off' = [off EXCEPT ![i] = @ \/ (l1[i] # NoStats /\ Clipped(l1[i], job[c].event))]
    /\ Set(c, [job[c] EXCEPT !.pc = "publish", !.event = NoEvent])
    /\ UNCHANGED <<db, outbox, won, queue, half, fresh, lock, l2, mode, budget>>

WholeFails(c) ==
    /\ job[c].pc = "whole" /\ Spend("faults") /\ Fail(c)
    /\ UNCHANGED <<db, outbox, won, cache, mode>>

(***************************************************************************)
(* The bus and the counters.                                               *)
(***************************************************************************)
Relay(e) ==
    /\ e \in outbox /\ outbox' = outbox \ {e} /\ ToAll(e)
    /\ UNCHANGED <<db, job, won, half, l1, fresh, lock, l2, off, mode, budget>>

\* A handler's update of L1; a bus that delivers at least once may call it again.
Handle(i, e) ==
    /\ e \in queue[i] /\ ~lock[i].held
    /\ l1' = [l1 EXCEPT ![i] = IF @ = NoStats THEN @ ELSE Handled(@, e)]
    /\ half' = IF mode.l2 THEN [half EXCEPT ![i] = @ \cup {e}] ELSE half
    /\ LET clip == l1[i] # NoStats /\ Clipped(l1[i], e) IN
         \/ /\ queue' = [queue EXCEPT ![i] = @ \ {e}]
            /\ off' = [off EXCEPT ![i] = @ \/ clip]
            /\ UNCHANGED budget
         \/ /\ Spend("faults") /\ UNCHANGED queue
            /\ off' = [off EXCEPT ![i] = TRUE, ![L2] = TRUE]
    /\ UNCHANGED <<data, fresh, lock, l2, mode>>

\* The bus loses an event on the way to an instance.
Lose(i, e) ==
    /\ e \in queue[i] /\ Spend("faults")
    /\ queue' = [queue EXCEPT ![i] = @ \ {e}]
    /\ off' = [off EXCEPT ![i] = TRUE, ![L2] = TRUE]
    /\ UNCHANGED <<data, half, l1, fresh, lock, l2, mode>>

\* Its update of L2: IncrBy does nothing when the key is not there.
IncrBy(i, e) ==
    /\ e \in half[i]
    /\ half' = [half EXCEPT ![i] = @ \ {e}]
    /\ LET s == decodeStats(l2)
           t == incrDistCache(s, e)
           changed == {k \in DOMAIN Fields(s) : Fields(t)[k] # Fields(s)[k]}
       IN  l2' = IF l2 = NoHash THEN l2 ELSE HSet(l2, [k \in changed |-> Fields(t)[k]])
    /\ UNCHANGED <<data, queue, l1, fresh, lock, off, mode, budget>>

Loads(i) == i \in mode.up /\ ~lock[i].held /\ (l1[i] = NoStats \/ ~fresh[i]) /\ budget.loads > 0
Loaded(i, stats, isOff) ==
    /\ l1' = [l1 EXCEPT ![i] = stats] /\ fresh' = [fresh EXCEPT ![i] = TRUE]
    /\ off' = [off EXCEPT ![i] = isOff]

\* getOrRefreshStats answers from L2 ...
LoadShared(i) ==
    /\ Loads(i) /\ Spend("loads") /\ mode.l2 /\ l2 # NoHash
    /\ Loaded(i, decodeStats(l2), off[L2] \/ Pending(i) # Pending(L2))
    /\ UNCHANGED <<data, queue, half, lock, l2, mode>>
\* ... or, when that fails, from the store, and keeps the entry locked until L2 has the answer.
LoadStore(i) ==
    /\ Loads(i) /\ Spend("loads")
    /\ Loaded(i, MailboxStats(db), Pending(i) # {})
    /\ lock' = [lock EXCEPT ![i] = [held |-> mode.l2, half |-> half[i] # {}]]
    /\ UNCHANGED <<data, queue, half, l2, mode>>
Populate(i) ==
    /\ lock[i].held
    /\ lock' = [lock EXCEPT ![i].held = FALSE]
    /\ \/ /\ l2' = HSet(l2, encodeStats(l1[i]))
          /\ off' = [off EXCEPT ![L2] = \/ off[i] \/ lock[i].half \/ Counting(i) # {} \/ Cardinality(mode.up) > 1
                                       \/ DOMAIN l2 \ DOMAIN encodeStats(l1[i]) # {}]
       \/ UNCHANGED <<l2, off>>
    /\ UNCHANGED <<data, queue, half, l1, fresh, mode, budget>>

Expire(i) ==
    /\ l1[i] # NoStats /\ fresh[i] /\ budget.loads > 0
    /\ fresh' = [fresh EXCEPT ![i] = FALSE]
    /\ UNCHANGED <<data, queue, half, l1, lock, l2, off, mode, budget>>
ExpireShared ==
    /\ l2 # NoHash /\ budget.loads > 0 /\ l2' = NoHash
    /\ UNCHANGED <<data, queue, half, l1, fresh, lock, off, mode, budget>>

(***************************************************************************)
(* What happens to the mailbox besides the owner's calls.                  *)
(***************************************************************************)
\* A delivery to the owner, now or for later, or the owner's own copy of what was sent, which is
\* stored unread; the event says the message is in the folder and counts it unread in the inbox only.
Arrive(m, mine, due) ==
    /\ db[m].new
    /\ db' = [db EXCEPT ![m] = [@ EXCEPT !.new = FALSE, !.here = TRUE, !.mine = mine, !.due = due,
                                         !.folder = IF mine THEN "sent" ELSE "inbox"]]
    /\ outbox' = outbox \cup {NewEvent("sent", "", IF mine THEN "sent" ELSE "inbox", FALSE)}
    /\ Numbered /\ OffUnless(~mine /\ due)
    /\ UNCHANGED <<job, won, queue, half, l1, fresh, lock, l2, mode>>
\* A scheduled message becomes available, and the clean-up deletes one: neither publishes an event.
BecomeDue(m) ==
    /\ db[m].here /\ ~db[m].due
    /\ db' = [db EXCEPT ![m].due = TRUE] /\ off' = AllOff
    /\ UNCHANGED <<job, outbox, won, queue, half, l1, fresh, lock, l2, mode, budget>>
CleanUp(m) ==
    /\ db[m].here /\ db[m].folder = "trash" /\ Spend("faults")
    /\ db' = [db EXCEPT ![m].here = FALSE] /\ off' = AllOff
    /\ UNCHANGED <<job, outbox, won, queue, half, l1, fresh, lock, l2, mode>>

Init ==
    /\ \E sc \in Scenarios :
         /\ db = sc.box
         /\ mode = [outbox |-> sc.outbox, fatal |-> sc.fatal, bulk |-> sc.bulk, l2 |-> sc.l2, up |-> sc.up]
         /\ budget = [serial |-> 1, jobs |-> sc.jobs, loads |-> sc.loads, faults |-> sc.faults]
    /\ job = [c \in Client |-> Idle]
    /\ outbox = {} /\ queue = [i \in Instance |-> {}] /\ half = [i \in Instance |-> {}]
    /\ l1 = [i \in Instance |-> NoStats] /\ fresh = [i \in Instance |-> FALSE] /\ l2 = NoHash
    /\ lock = [i \in Instance |-> [held |-> FALSE, half |-> FALSE]]
    /\ off = [c \in Copies |-> FALSE]
    /\ won = [m \in Message |-> 0]

CallStep(c) ==
    \/ Invoke(c) \/ Cancel(c) \/ getAndVerify(c)
    \/ OpFails(c) \/ Transaction(c) \/ Direct(c) \/ publishTypedEvent(c)
    \/ BulkUpdater(c) \/ FindPage(c) \/ (\E m \in Message : OneOfPage(c, m) \/ OneFails(c, m)) \/ EndPage(c)
    \/ CountAllRead(c) \/ WholeFails(c)
Next ==
    \/ \E c \in Client : CallStep(c)
    \/ \E e \in outbox : Relay(e)
    \/ \E i \in Instance : \/ \E e \in queue[i] : Handle(i, e) \/ Lose(i, e)
                           \/ \E e \in half[i] : IncrBy(i, e)
                           \/ LoadShared(i) \/ LoadStore(i) \/ Populate(i) \/ Expire(i)
    \/ ExpireShared
    \/ \E m \in Message : \/ \E mine, due \in BOOLEAN : Arrive(m, mine, due)
                          \/ BecomeDue(m) \/ CleanUp(m)

Spec == Init /\ [][Next]_vars

(***************************************************************************)
(* Properties.                                                             *)
(***************************************************************************)
\* CountersExplained: a copy of the counters, with the events it has still to handle added, is what
\* the store would count, unless one of the named causes has put it off: an event that does not say
\* what happened (a stale snapshot, a message read before, the owner's own unread copy, a scheduled
\* message), a change without an event (mark unread, bulk calls, clean-up), a publish that failed,
\* an event lost or handled twice, a decrement that came before its increment (stats.go's floors), a
\* load while events were in flight, MarkAllRead on another instance, a Set that left the hash with
\* fields of folders that are empty now, or several instances incrementing the shared copy.
CountersExplained ==
    \A c \in Copies :
        LET s == IF c # L2 THEN l1[c] ELSE IF l2 = NoHash THEN NoStats ELSE decodeStats(l2)
        IN  s # NoStats /\ ~off[c] =>
              FoldSet(LAMBDA e, t : incrDistCache(t, e), s, Pending(c)) = MailboxStats(db)

\* FailureLeavesMessage: a call that returns an error has not changed the message, except for an
\* EventPublishError (the change was made, its event was not) and for UpdateFlags with both flags,
\* which may have archived the message when marking it read fails (outbox_helpers.go, mutate.go).
FailureLeavesMessage ==
    \A c \in Client : \A n \in DOMAIN job[c].results :
        LET r == job[c].results[n]
            k == job[c].call
        IN  ~r.ok /\ r.touched => \/ r.publish /\ mode.fatal
                                  \/ k.op = "UpdateFlags" /\ k.archived # "" /\ k.read # ""

\* OneWinner: of all the callers that claim a message out of the same folder with FromFolder, at most
\* one moves it, whatever they saw before (mutate.go's MoveToFolder passes the condition to the store).
OneWinner == \A m \in Message : won[m] <= 1
=============================================================================
