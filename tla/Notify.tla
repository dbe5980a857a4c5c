------------------------------- MODULE Notify -------------------------------
(***************************************************************************)
(* Notifications of one user: the notifier and its streams (notify), the   *)
(* event handlers that push (notifications.go) and the handler that serves *)
(* a client (server/stream.go), over a store the streams poll              *)
(* (notify/memory) or over Redis Streams, where saving is delivering       *)
(* (notify/redis).  Streams are opened on this instance; an event is       *)
(* pushed here or on another instance, which reaches the streams through   *)
(* the router or through the store.                                        *)
(***************************************************************************)
EXTENDS Integers, FiniteSets, Sequences, SequencesExt

CONSTANTS Event, Stream,
          BufferSize,   \* of a stream's channel
          PageSize,     \* the limit of a List
          Setups        \* [kind, parallel, at, multi, close, cleanups]: the store, whether streams are open at
                        \* the same time or the client reconnects, where each event is pushed and by which
                        \* call, whether the notifier is closed, and clean-ups of the store

VARIABLES hist,      \* the events in the order the store appended them
          kept,      \* those a clean-up has not removed
          push,      \* what the push of each event does next
          entry,     \* Notifier.streams[user]: the userStreams object, 0 for none
          members,   \* userStreams.streams, by object
          st,        \* the streams
          closer,    \* the notifier's Close
          stale,     \* cleanupKey: what it has read, between its two commands
          lost,      \* streams that are in an object no longer in the table
          setup

store == <<hist, kept, stale>>
table == <<entry, members, lost>>
vars == <<store, push, table, st, closer, setup>>

None == 0
Dollar == -1         \* XREAD from "$"
NoStream == [pc |-> "none", obj |-> 0, ch |-> <<>>, cursor |-> None, wait |-> None, batch |-> <<>>,
             poll |-> "none", cancelled |-> FALSE, closed |-> FALSE, seen |-> None,
             before |-> {}, handed |-> {}, got |-> {}]
Objects == 1 .. Cardinality(Stream)
closed == closer # "no"
Redis == setup.kind = "redis"

(***************************************************************************)
(* The stores.                                                             *)
(***************************************************************************)
Page(s) == SubSeq(s, 1, IF Len(s) < PageSize THEN Len(s) ELSE PageSize)
Kept(s) == SelectSeq(s, LAMBDA e : e \in kept)
After(s, e) == IF e \in Range(s) THEN SubSeq(s, IndexFirstSubSeq(<<e>>, s) + 1, Len(s)) ELSE s

\* notify/memory: the place after the cursor, or the beginning when the cursor is not there.
ListMemory(cursor) == Page(After(Kept(hist), cursor))
\* notify/redis: XRANGE from the id on; the id need not be in the stream any more.
ListRedis(cursor) == Page(Kept(After(hist, cursor)))

\* A clean-up of the in-memory store drops the events that are old enough.
CleanupMemory ==
    /\ ~Redis /\ setup.cleanups > 0
    /\ \E e \in kept : kept' = kept \ {e}
    /\ setup' = [setup EXCEPT !.cleanups = @ - 1]
    /\ UNCHANGED <<hist, stale, push, table, st, closer>>

\* cleanupKey reads the newest entry, and then deletes the key when that entry is old, with what was
\* appended meanwhile, or trims what is old.
CleanupRead ==
    /\ Redis /\ setup.cleanups > 0 /\ stale = "no" /\ kept # {}
    /\ stale' \in {"delete", "trim"}
    /\ setup' = [setup EXCEPT !.cleanups = @ - 1]
    /\ UNCHANGED <<hist, kept, push, table, st, closer>>
cleanupKey ==
    /\ stale # "no" /\ stale' = "no"
    /\ kept' = IF stale = "delete" THEN {} ELSE Range(Tail(Kept(hist)))
    /\ UNCHANGED <<hist, push, table, st, closer, setup>>

(***************************************************************************)
(* Push.                                                                   *)
(***************************************************************************)
PushAt(e, pc) == push' = [push EXCEPT ![e] = pc]

\* A handler pushes its event, to the user alone or to all recipients of a message.  A closed notifier
\* refuses it; when the presence check says that the user is offline the event is dropped; when the
\* check fails the event is saved all the same.
Handler(e, multi) ==
    /\ push[e] = "new" /\ e \in DOMAIN setup.at /\ setup.multi[e] = multi
    /\ IF closed /\ setup.at[e] = "here" THEN PushAt(e, "done") ELSE PushAt(e, "save") \/ PushAt(e, "done")
    /\ UNCHANGED <<store, table, st, closer, setup>>

Push(e) == Handler(e, FALSE)
PushMulti(e) == Handler(e, TRUE)

\* The in-memory store takes an id before it takes the lock: events may be appended out of order.
\* PushMulti goes on after a save that failed when it could save for another recipient.
Appended(e) == hist' = Append(hist, e) /\ kept' = kept \cup {e}
Save(e) ==
    /\ push[e] = "save" /\ ~Redis
    /\ \/ Appended(e) /\ PushAt(e, "local")
       \/ PushAt(e, "done") /\ UNCHANGED <<hist, kept>>
       \/ setup.multi[e] /\ PushAt(e, "local") /\ UNCHANGED <<hist, kept>>
    /\ UNCHANGED <<stale, table, st, closer, setup>>
\* XADD of one event, and of one for each recipient in a pipeline, where an error does not say which
\* of them were appended.
SaveRedis(e) ==
    /\ push[e] = "save" /\ Redis /\ ~setup.multi[e] /\ PushAt(e, "done")
    /\ Appended(e) \/ UNCHANGED <<hist, kept>>
    /\ UNCHANGED <<stale, table, st, closer, setup>>
SaveBatch(e) ==
    /\ push[e] = "save" /\ Redis /\ setup.multi[e] /\ PushAt(e, "done")
    /\ Appended(e) \/ UNCHANGED <<hist, kept>>
    /\ UNCHANGED <<stale, table, st, closer, setup>>

\* What a live event carries as its id: PushMulti delivers a copy made before the store set one.
LiveID(e) == IF setup.multi[e] THEN None ELSE e

\* deliverLocal: every stream of the user that is not closed and has room.
Room(s) == Len(st[s].ch) < BufferSize
Offered(r, e, id) == [r EXCEPT !.ch = Append(@, [e |-> e, id |-> id]), !.handed = @ \cup {e}]
Receivers == IF entry = 0 THEN {} ELSE {s \in members[entry] : ~st[s].closed /\ Room(s)}
deliverLocal(e) ==
    st' = [s \in Stream |-> IF s \in Receivers THEN Offered(st[s], e, LiveID(e)) ELSE st[s]]

\* Pushed here: to the local streams, and there is no route to oneself.  Pushed elsewhere: nobody is
\* connected there, and the router delivers, or fails and leaves the event to the pollers.
Local(e) ==
    /\ push[e] = "local" /\ setup.at[e] = "here" /\ deliverLocal(e) /\ PushAt(e, "done")
    /\ UNCHANGED <<store, table, closer, setup>>
tryRoute(e) ==
    /\ push[e] = "local" /\ setup.at[e] = "elsewhere"
    /\ deliverLocal(e) \/ UNCHANGED st
    /\ PushAt(e, "done")
    /\ UNCHANGED <<store, table, closer, setup>>

(***************************************************************************)
(* Subscribe.                                                              *)
(***************************************************************************)
Become(s, r) == st' = [st EXCEPT ![s] = r]
\* A stream that is over; the client remembers the last event it has seen.
Over(s, pc) == [NoStream EXCEPT !.pc = pc, !.closed = TRUE, !.cancelled = TRUE,
                                !.obj = st[s].obj, !.seen = st[s].seen]
Alone(s) == setup.parallel \/ \A t \in Stream \ {s} : st[t].pc \in {"none", "closed", "failed"}
\* What a client can name as the last event it has seen.
Resume == {None} \cup {st[s].seen : s \in Stream}
Items(es) == [n \in 1 .. Len(es) |-> [e |-> es[n], id |-> es[n]]]

\* The first part, on a store that is polled: fill the channel with what was missed.
Subscribe(s, last) ==
    /\ ~Redis /\ st[s].pc = "none" /\ Alone(s)
    /\ LET es == IF last = None THEN <<>> ELSE ListMemory(last)
           in == SubSeq(es, 1, IF Len(es) < BufferSize THEN Len(es) ELSE BufferSize)
       IN  IF closed THEN Become(s, [NoStream EXCEPT !.pc = "failed"])
           ELSE Become(s, [NoStream EXCEPT !.pc = "load", !.ch = Items(in), !.seen = last,
                             !.cursor = IF in = <<>> THEN last ELSE in[Len(in)],
                             !.before = IF last \in kept THEN Range(Kept(hist)) \ Range(After(Kept(hist), last))
                                        ELSE {},
                             !.handed = Range(in)])
    /\ UNCHANGED <<store, push, table, closer, setup>>

\* addStream: LoadOrStore, and then the append under the object's lock.
LoadOrStore(s) ==
    /\ st[s].pc = "load"
    /\ LET o == IF entry # 0 THEN entry
                ELSE CHOOSE x \in Objects : \A t \in Stream : st[t].obj # x
       IN  entry' = o /\ Become(s, [st[s] EXCEPT !.pc = "append", !.obj = o])
    /\ UNCHANGED <<store, push, members, lost, closer, setup>>
addStream(s) ==
    /\ st[s].pc = "append"
    /\ members' = [members EXCEPT ![st[s].obj] = @ \cup {s}]
    /\ lost' = IF st[s].obj # entry /\ ~closed THEN lost \cup {s} ELSE lost
    /\ Become(s, [st[s] EXCEPT !.pc = "check"])
    /\ UNCHANGED <<store, push, entry, closer, setup>>

\* Mutant: closed is not checked again once the stream is in the table.
MutRecheck(s) ==
    /\ st[s].pc = "check"
    /\ Become(s, [st[s] EXCEPT !.pc = "start"])
    /\ UNCHANGED <<store, push, table, closer, setup>>
\* Close may have run meanwhile: then the stream cancels itself.
Recheck(s) ==
    /\ st[s].pc = "check"
    /\ Become(s, IF closed THEN [st[s] EXCEPT !.pc = "giveup", !.cancelled = TRUE]
                 ELSE [st[s] EXCEPT !.pc = "start"])
    /\ UNCHANGED <<store, push, table, closer, setup>>
StartPolling(s) ==
    /\ st[s].pc = "start"
    /\ Become(s, [st[s] EXCEPT !.pc = "open", !.poll = "idle"])
    /\ UNCHANGED <<store, push, table, closer, setup>>

\* removeStream takes the stream out of the object that is in the table, and the table's entry away
\* when the object is empty.  (Load and lock are one step: apart, they differ with three streams only.)
removeStream(s) ==
    /\ st[s].pc \in {"giveup", "remove"}
    /\ Become(s, Over(s, IF st[s].pc = "remove" THEN "closed" ELSE "failed"))
    /\ IF entry = 0 THEN UNCHANGED table
       ELSE LET left == members[entry] \ {s} IN
            /\ members' = [members EXCEPT ![entry] = left]
            /\ entry' = IF left = {} THEN 0 ELSE entry
            /\ UNCHANGED lost
    /\ UNCHANGED <<store, push, closer, setup>>

(***************************************************************************)
(* A stream over a store that is polled.                                   *)
(***************************************************************************)
\* Mutant: an event that came live moves the poller's cursor.
MutNextEvent(s) ==
    /\ st[s].pc = "open" /\ ~Redis /\ st[s].ch # <<>>
    /\ Become(s, [st[s] EXCEPT !.ch = Tail(@), !.seen = Head(st[s].ch).id, !.cursor = Head(st[s].ch).id,
                               !.got = @ \cup {Head(st[s].ch).e}])
    /\ UNCHANGED <<store, push, table, closer, setup>>
\* Next, called by the loop of StreamNotifications, hands the event to the client.
NextEvent(s) ==
    /\ st[s].pc = "open" /\ ~Redis /\ st[s].ch # <<>>
    /\ Become(s, [st[s] EXCEPT !.ch = Tail(@), !.seen = Head(st[s].ch).id,
                               !.got = @ \cup {Head(st[s].ch).e}])
    /\ UNCHANGED <<store, push, table, closer, setup>>

\* pollLoop: a tick lists the next page, or the loop ends.
PollList(s) ==
    /\ st[s].poll = "idle" /\ ~st[s].cancelled /\ ListMemory(st[s].cursor) # <<>>
    /\ Become(s, [st[s] EXCEPT !.poll = "send", !.batch = ListMemory(st[s].cursor)])
    /\ UNCHANGED <<store, push, table, closer, setup>>
\* Mutant: a List that fails ends the loop.
MutPollExit(s) ==
    /\ st[s].poll = "idle"
    /\ Become(s, [st[s] EXCEPT !.poll = "exited"])
    /\ UNCHANGED <<store, push, table, closer, setup>>
PollExit(s) ==
    /\ st[s].poll = "idle" /\ st[s].cancelled
    /\ Become(s, [st[s] EXCEPT !.poll = "exited"])
    /\ UNCHANGED <<store, push, table, closer, setup>>

Polled(r) == [r EXCEPT !.poll = "idle", !.batch = <<>>]
\* pollStore: events go into the channel in order, each moving the cursor; a full channel ends the
\* round with the cursor where it is, so does a cancelled stream.
pollStore(s) ==
    LET r == st[s]
        sent == [Offered(r, Head(r.batch), Head(r.batch)) EXCEPT !.cursor = Head(r.batch), !.batch = Tail(@)]
    IN  /\ r.poll = "send"
        /\ \/ Room(s) /\ Become(s, IF sent.batch = <<>> THEN Polled(sent) ELSE sent)
           \/ (~Room(s) \/ r.cancelled) /\ Become(s, Polled(r))
        /\ UNCHANGED <<store, push, table, closer, setup>>

\* stream.Close, when the client has gone, the stream has lasted too long or Next has failed.
CloseStream(s) ==
    /\ st[s].pc = "open" /\ ~Redis
    /\ Become(s, [st[s] EXCEPT !.pc = IF st[s].closed THEN "closed" ELSE "closing",
                               !.closed = TRUE, !.cancelled = TRUE, !.ch = <<>>])
    /\ UNCHANGED <<store, push, table, closer, setup>>
CloseWait(s) ==
    /\ st[s].pc = "closing" /\ st[s].poll = "exited"
    /\ Become(s, [st[s] EXCEPT !.pc = "remove"])
    /\ UNCHANGED <<store, push, table, closer, setup>>

(***************************************************************************)
(* Streams over Redis.                                                     *)
(***************************************************************************)
\* Store.Subscribe: the missed events are kept aside and XREAD goes on from the last of them; without
\* a last event it goes on from "$".
SubscribeRedis(s, last) ==
    /\ Redis /\ st[s].pc = "none" /\ Alone(s)
    /\ LET es == IF last = None THEN <<>> ELSE ListRedis(last)
       IN  IF closed THEN Become(s, [NoStream EXCEPT !.pc = "failed"])
           ELSE Become(s, [NoStream EXCEPT !.pc = "open", !.ch = Items(es), !.seen = last,
                             !.cursor = IF last = None THEN Dollar ELSE IF es = <<>> THEN last ELSE es[Len(es)],
                             !.before = Range(hist) \ Range(After(hist, last)), !.handed = Range(es)])
    /\ UNCHANGED <<store, push, table, closer, setup>>

\* Next drains what was kept aside, and then blocks in XREAD, where "$" is the end of the stream at
\* that moment; when the time is up it calls XREAD again.
NextKept(s) ==
    /\ st[s].pc = "open" /\ Redis /\ st[s].ch # <<>>
    /\ Become(s, [st[s] EXCEPT !.ch = Tail(@), !.seen = Head(st[s].ch).id, !.got = @ \cup {Head(st[s].ch).e}])
    /\ UNCHANGED <<store, push, table, closer, setup>>
XReadFrom(s) == IF st[s].cursor # Dollar THEN st[s].cursor ELSE IF hist = <<>> THEN None ELSE hist[Len(hist)]
XReadBlock(s) ==
    /\ st[s].pc = "open" /\ Redis /\ st[s].ch = <<>>
    /\ Become(s, [st[s] EXCEPT !.pc = "blocked", !.wait = XReadFrom(s)])
    /\ UNCHANGED <<store, push, table, closer, setup>>
XReadTimeout(s) ==
    /\ st[s].pc = "blocked" /\ Kept(After(hist, st[s].wait)) = <<>>
    /\ Become(s, [st[s] EXCEPT !.pc = "open", !.wait = None])
    /\ UNCHANGED <<store, push, table, closer, setup>>
XReadReturn(s) ==
    LET es == Kept(After(hist, st[s].wait))
        e == Head(es)
    IN  /\ st[s].pc = "blocked" /\ es # <<>>
        /\ Become(s, [st[s] EXCEPT !.pc = "open", !.wait = None, !.cursor = e, !.seen = e,
                        !.before = IF st[s].cursor = Dollar THEN Range(hist) \ Range(es) ELSE @,
                        !.handed = @ \cup {e}, !.got = @ \cup {e}])
        /\ UNCHANGED <<store, push, table, closer, setup>>
CloseRedis(s) ==
    /\ st[s].pc = "open" /\ Redis
    /\ Become(s, Over(s, "closed"))
    /\ UNCHANGED <<store, push, table, closer, setup>>

(***************************************************************************)
(* Notifier.Close: every stream of the table is cancelled, its entry is    *)
(* deleted, and Close waits for the pollers it has cancelled.              *)
(***************************************************************************)
CloseBegin ==
    /\ setup.close /\ closer = "no" /\ closer' = IF entry = 0 THEN "done" ELSE "range"
    /\ UNCHANGED <<store, push, table, st, setup>>
CloseRange ==
    LET found == IF entry = 0 THEN {} ELSE members[entry] IN
    /\ closer = "range" /\ closer' = "delete"
    /\ st' = [s \in Stream |-> IF s \in found THEN [st[s] EXCEPT !.cancelled = TRUE, !.closed = TRUE, !.wait = 1]
                               ELSE st[s]]
    /\ members' = IF entry = 0 THEN members ELSE [members EXCEPT ![entry] = {}]
    /\ UNCHANGED <<store, push, entry, lost, setup>>
CloseDelete ==
    /\ closer = "delete" /\ closer' = "wait" /\ entry' = 0
    /\ UNCHANGED <<store, push, members, lost, st, setup>>
Close ==
    /\ closer = "wait" /\ closer' = "done"
    /\ \A s \in Stream : st[s].wait = 1 => st[s].poll \in {"none", "exited"}
    /\ UNCHANGED <<store, push, table, st, setup>>

(***************************************************************************)
(* Specification.                                                          *)
(***************************************************************************)
Init ==
    /\ setup \in Setups
    /\ hist = <<>> /\ kept = {} /\ stale = "no"
    /\ push = [e \in Event |-> "new"]
    /\ entry = 0 /\ members = [o \in Objects |-> {}] /\ lost = {}
    /\ st = [s \in Stream |-> NoStream]
    /\ closer = "no"

PushStep(e) == Push(e) \/ PushMulti(e) \/ Save(e) \/ SaveRedis(e) \/ SaveBatch(e) \/ Local(e) \/ tryRoute(e)
Opening(s) == LoadOrStore(s) \/ addStream(s) \/ Recheck(s) \/ StartPolling(s)
Polling(s) == PollList(s) \/ PollExit(s) \/ pollStore(s)
Reading(s) == NextEvent(s) \/ NextKept(s) \/ XReadBlock(s) \/ XReadReturn(s)
Closing(s) == CloseStream(s) \/ CloseWait(s) \/ removeStream(s) \/ CloseRedis(s)
Next ==
    \/ \E e \in Event : PushStep(e)
    \/ \E s \in Stream : \/ \E last \in Resume : Subscribe(s, last) \/ SubscribeRedis(s, last)
                         \/ Opening(s) \/ Polling(s) \/ Reading(s) \/ XReadTimeout(s) \/ Closing(s)
    \/ CloseBegin \/ CloseRange \/ CloseDelete \/ Close
    \/ CleanupMemory \/ CleanupRead \/ cleanupKey

\* The ticker of a poll loop keeps ticking, and the client of an open stream keeps reading.
Fairness == \A s \in Stream : WF_vars(Polling(s)) /\ WF_vars(Reading(s))
Spec == Init /\ [][Next]_vars /\ Fairness

(***************************************************************************)
(* Properties.                                                             *)
(***************************************************************************)
\* Where the stream's cursor is in its store.
Passed(s) ==
    IF Redis THEN Range(Kept(hist)) \ Range(Kept(After(hist, st[s].cursor)))
    ELSE IF st[s].cursor \in kept THEN Range(Kept(hist)) \ Range(After(Kept(hist), st[s].cursor)) ELSE {}

\* NothingSkipped: the cursor of a stream never passes an event that was not handed to the stream,
\* whatever order events come in live, from the poller and from a backfill that did not fit
\* (notify/stream.go keeps pollCursor to the poller for this).
NothingSkipped ==
    \A s \in Stream : st[s].pc \in {"open", "blocked"} /\ st[s].cursor # Dollar
                        => Passed(s) \subseteq st[s].before \cup st[s].handed

\* CloseStopsStreams: once the notifier's Close has returned, no stream is open that was not
\* cancelled, and no poller is reading the store, except for a stream that Close could not find because
\* the last other stream of the user was removed while it was being added (notify/notifier.go).
CloseStopsStreams ==
    closer = "done" => \A s \in Stream \ lost :
        /\ st[s].pc \in {"start", "open"} /\ ~Redis => st[s].cancelled
        /\ st[s].poll # "send"

\* EventuallyDelivered: an event in the store reaches the client of every stream that is open, that
\* was not opened after it, and that stays open, unless a clean-up takes it: live delivery may drop
\* it, the router may fail, and the poller brings it (notify/notifier.go, notify/stream.go).
EventuallyDelivered ==
    \A s \in Stream, e \in Event :
        (st[s].pc \in {"open", "blocked"} /\ st[s].cursor # Dollar /\ e \in kept \ st[s].before)
            ~> (e \in st[s].got \/ e \notin kept \/ st[s].cancelled \/ st[s].pc \notin {"open", "blocked"})
=============================================================================
