----------------------------- MODULE MCService -----------------------------
(***************************************************************************)
(* The parts around the stores, each on an instance of its own: a          *)
(* behaviour picks one part at the start and is a behaviour of that part.  *)
(* The variables of the parts that are not picked keep one value; in the   *)
(* two parts with liveness properties it is an initial state of the part.  *)
(***************************************************************************)
EXTENDS Integers, FiniteSets, Sequences

CONSTANTS Client, Instance, Message, Home, Scenarios,       \* Mailbox
          Event, Stream, BufferSize, PageSize, Setups,      \* Notify
          Tracker, Registration, Trackers, MaxFaults,       \* Presence
          File, Process, Length, MaxSize, MaxCalls,         \* FileCache
          Run, Tables, MaxCache, Stricts, MaxEdits,         \* Rules
          Worker, Providers, MaxVersion, MaxPending         \* Search

VARIABLES part,
          db, job, outbox, queue, half, l1, fresh, lock, l2, mode, budget, off, won,
          hist, kept, push, entry, members, st, closer, stale, lost, setup,
          trackers, count, routing, reg, loop, tracker, lapsed, faults,
          backend, disk, old, cacheSize, proc, freed, raced, calls,
          table, cache, message, run, strict, edits,
          stored, index, provider, tasks, pending, worker, excused, failures

RegisteredAt == <<1, 2, 2>>
Calls == INSTANCE Mailbox
Streams == INSTANCE Notify
Users == INSTANCE Presence WITH Home <- RegisteredAt
Files == INSTANCE FileCache
Engine == INSTANCE Rules
Plugin == INSTANCE Search WITH db <- stored, faults <- failures

callsVars == <<db, job, outbox, queue, half, l1, fresh, lock, l2, mode, budget, off, won>>
streamsVars == <<hist, kept, push, entry, members, st, closer, stale, lost, setup>>
usersVars == <<trackers, count, routing, reg, loop, tracker, lapsed, faults>>
filesVars == <<backend, disk, old, cacheSize, proc, freed, raced, calls>>
engineVars == <<table, cache, message, run, strict, edits>>
pluginVars == <<stored, index, provider, tasks, pending, worker, excused, failures>>

Parts == {"mailbox", "notify", "presence", "filecache", "rules", "search"}
vars == <<part, callsVars, streamsVars, usersVars, filesVars, engineVars, pluginVars>>

(***************************************************************************)
(* Mailbox: the calls, the counters and the faults.                        *)
(***************************************************************************)
Call(op, m) == [op |-> op, ids |-> m, from |-> "", to |-> "", claim |-> "", archived |-> "", read |-> ""]
Flags(a, r) == [Call("UpdateFlags", <<1>>) EXCEPT !.archived = a, !.read = r]
Claim(f) == [Call("MoveToFolder", <<1>>) EXCEPT !.to = "archived", !.claim = f]
Bulk(op) == [Call(op, <<>>) EXCEPT !.from = "inbox", !.to = "trash", !.read = "yes"]
MCHome == <<1, 1, 2>>       \* clients 1 and 2 use instance 1, client 3 uses instance 2

Blank == [here |-> FALSE, new |-> FALSE, folder |-> "inbox", read |-> FALSE, mine |-> FALSE,
          due |-> TRUE, tag |-> FALSE]
Box(f, new) == [m \in Message |-> IF m = 1 THEN [Blank EXCEPT !.here = TRUE, !.folder = f, !.mine = f = "trash"]
                                  ELSE [Blank EXCEPT !.new = new]]
Scenario(box, o, f, l, up, jobs, loads, n) ==
    [box |-> box, outbox |-> o, fatal |-> f, bulk |-> TRUE, l2 |-> l, up |-> up,
     jobs |-> jobs, loads |-> loads, faults |-> n]
Singles == {Call(op, <<1>>) : op \in {"Delete", "Restore", "PermanentlyDelete", "AddTag", "RemoveTag"}}
           \cup {Flags("", "yes"), Flags("yes", "yes"), Flags("no", "no"), Claim("inbox")}
Bulks == {Bulk(op) : op \in {"MarkAllRead", "UpdateByFilter", "MoveByFilter", "DeleteByFilter", "TagByFilter", "UntagByFilter"}}
Rivals == {Claim("inbox"), Flags("", "yes"), Call("Restore", <<1>>)}
Both == [m \in Message |-> [Blank EXCEPT !.here = TRUE]]
MCScenarios ==
    \* any call against a rival on another instance
    {Scenario(Box(b, FALSE), FALSE, TRUE, FALSE, {1, 2}, <<Singles, {}, Rivals>>, 1, 0) : b \in {"inbox", "trash"}}
    \* any call, a rival and a fault on one instance
    \cup {Scenario(Box("inbox", FALSE), o, o, FALSE, {1}, <<Singles, Rivals, {}>>, 1, 1) : o \in BOOLEAN}
    \* the counters in Redis, used by one instance and by two
    \cup {Scenario(Box("inbox", FALSE), FALSE, FALSE, TRUE, {1}, <<Singles, {Bulk("MarkAllRead")}, {}>>, 2, 0),
          Scenario(Box("inbox", FALSE), TRUE, FALSE, TRUE, {1, 2}, <<{Call("Delete", <<1>>)}, {}, {}>>, 2, 0)}
    \* calls on several messages, with a fault, and while another message arrives
    \cup {Scenario(Both, FALSE, TRUE, FALSE, {1}, <<Bulks, {Call("Delete", <<1, 2>>)}, {}>>, 1, 1),
          Scenario(Box("inbox", TRUE), FALSE, TRUE, FALSE, {1},
                   <<{Bulk("MarkAllRead"), Bulk("MoveByFilter"), Call("Delete", <<1, 2>>)}, {}, {}>>, 1, 0)}
    \* the calls on all messages of a folder over a store without bulk operations, against another call
    \cup {[Scenario(Both, FALSE, TRUE, FALSE, {1}, <<Bulks \cup {[Bulk("UpdateByFilter") EXCEPT !.read = ""]}, Rivals, {}>>, 1, 1)
            EXCEPT !.bulk = FALSE]}

(***************************************************************************)
(* Notify: the stores, the streams and the pushes.                         *)
(***************************************************************************)
Setup(k, p, at, multi, close, n) ==
    [kind |-> k, parallel |-> p, at |-> at, multi |-> multi, close |-> close, cleanups |-> n]
MCSetups ==
    {Setup("memory", FALSE, <<"elsewhere", "here">>, <<FALSE, TRUE>>, FALSE, 0),
     Setup("memory", FALSE, <<"here", "here">>, <<FALSE, FALSE>>, FALSE, 1)}
    \cup {Setup("memory", TRUE, <<"here">>, <<FALSE>>, TRUE, 0)}
    \cup {Setup("redis", FALSE, <<"here", "here">>, <<FALSE, TRUE>>, FALSE, 1)}
Quiet == CHOOSE s \in Setups : TRUE

(***************************************************************************)
(* Rules: tables that compile, and one full of mistakes.                   *)
(***************************************************************************)
Rule(id, scope, cond, actions, prio, stop) ==
    [id |-> id, scope |-> scope, cond |-> cond, actions |-> actions, prio |-> prio, stop |-> stop]
Ordinary(cond, prio) ==
    {Rule(1, "receive", "true", <<"add_tag", "mark_read">>, 1, FALSE),
     Rule(2, "receive", cond, <<"hard_delete", "spam">>, prio, FALSE),
     Rule(3, "send", "true", <<"delete", "set_folder", "webhook">>, 1, FALSE)}
Faulty == {Rule(1, "receive", "broken", <<"remove_tag">>, 1, FALSE), Rule(2, "receive", "text", <<>>, 2, FALSE),
           Rule(3, "receive", "true", <<"forward", "unknown", "archive">>, 3, TRUE),
           Rule(4, "receive", "true", <<"delete", "remove_tag">>, 4, TRUE)}
MCTables == {Ordinary("tagged", 1), Ordinary("true", 2), Faulty}

(***************************************************************************)
(* The specification.                                                      *)
(***************************************************************************)
Off(x) == x = "off"
Init ==
    /\ part \in Parts
    /\ IF part = "mailbox" THEN Calls!Init
       ELSE Off(db) /\ Off(job) /\ Off(outbox) /\ Off(queue) /\ Off(half) /\ Off(l1) /\ Off(fresh)
            /\ Off(lock) /\ Off(l2) /\ Off(mode) /\ Off(budget) /\ Off(off) /\ Off(won)
    /\ Streams!Init /\ (part # "notify" => setup = Quiet)
    /\ Users!Init /\ (part # "presence" => trackers = "redis")
    /\ IF part = "filecache" THEN Files!Init
       ELSE Off(backend) /\ Off(disk) /\ Off(old) /\ Off(cacheSize) /\ Off(proc) /\ Off(freed) /\ Off(raced)
            /\ Off(calls)
    /\ IF part = "rules" THEN Engine!Init
       ELSE Off(table) /\ Off(cache) /\ Off(message) /\ Off(run) /\ Off(strict) /\ Off(edits)
    /\ IF part = "search" THEN Plugin!Init
       ELSE Off(stored) /\ Off(index) /\ Off(provider) /\ Off(tasks) /\ Off(pending)
            /\ Off(worker) /\ Off(excused) /\ Off(failures)

OnlyCalls == part = "mailbox" /\ UNCHANGED <<part, streamsVars, usersVars, filesVars, engineVars, pluginVars>>
OnlyStreams == part = "notify" /\ UNCHANGED <<part, callsVars, usersVars, filesVars, engineVars, pluginVars>>
OnlyUsers == part = "presence" /\ UNCHANGED <<part, callsVars, streamsVars, filesVars, engineVars, pluginVars>>
OnlyFiles == part = "filecache" /\ UNCHANGED <<part, callsVars, streamsVars, usersVars, engineVars, pluginVars>>
OnlyEngine == part = "rules" /\ UNCHANGED <<part, callsVars, streamsVars, usersVars, filesVars, pluginVars>>
OnlyPlugin == part = "search" /\ UNCHANGED <<part, callsVars, streamsVars, usersVars, filesVars, engineVars>>
Next ==
    \/ OnlyCalls /\ Calls!Next
    \/ OnlyStreams /\ Streams!Next
    \/ OnlyUsers /\ Users!Next
    \/ OnlyFiles /\ Files!Next
    \/ OnlyEngine /\ Engine!Next
    \/ OnlyPlugin /\ Plugin!Next

\* The fairness of the two specifications.
Spec ==
    /\ Init /\ [][Next]_vars
    /\ \A s \in Stream : /\ WF_vars(OnlyStreams /\ Streams!Polling(s))
                         /\ WF_vars(OnlyStreams /\ Streams!Reading(s))
    /\ WF_vars(OnlyUsers /\ Users!Expire)

(***************************************************************************)
(* The properties of the parts.                                            *)
(***************************************************************************)
\* CountersExplained: the cached counters account for every message and every event, up to the named causes (stats.go).
CountersExplained == part = "mailbox" => Calls!CountersExplained
\* FailureLeavesMessage: a call that fails leaves its message as it was (outbox_helpers.go, mutate.go).
FailureLeavesMessage == part = "mailbox" => Calls!FailureLeavesMessage
\* OneWinner: at most one of the rivals that claim a message out of a folder moves it (mutate.go).
OneWinner == part = "mailbox" => Calls!OneWinner
\* NothingSkipped: the cursor of a stream passes no event the stream was not handed (notify/stream.go).
NothingSkipped == Streams!NothingSkipped
\* CloseStopsStreams: the notifier's Close leaves no stream open and no poller reading (notify/notifier.go).
CloseStopsStreams == Streams!CloseStopsStreams
\* EventuallyDelivered: an event in the store reaches every stream that stays open (notify/stream.go).
EventuallyDelivered == Streams!EventuallyDelivered
\* OnlineWhileRegistered: whoever holds a registration is online (presence/redis, presence/memory).
OnlineWhileRegistered == Users!OnlineWhileRegistered
\* OfflineEventually: who holds none any more is offline in the end (presence/redis).
OfflineEventually == Users!OfflineEventually
\* SizeTracksDisk: cacheSize is what the cached files hold (store/attachment/cached).
SizeTracksDisk == part = "filecache" => Files!SizeTracksDisk
\* RulesAsWritten: a run applies what its rules call for, in order and once (rules/engine.go).
RulesAsWritten == part = "rules" => Engine!RulesAsWritten
\* IndexCatchesUp: the index holds what the store holds once the events are handled (search/plugin.go).
IndexCatchesUp == part = "search" => Plugin!IndexCatchesUp
=============================================================================
