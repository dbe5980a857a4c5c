------------------------------- MODULE Search -------------------------------
(***************************************************************************)
(* The search plugin (search/plugin.go): handlers that copy messages into  *)
(* the index of an external provider after each event, several at a time   *)
(* and in any order, and the search that reads the index.  The provider is *)
(* Elasticsearch, which has written a document when the call returns, or   *)
(* Meilisearch, which has then taken a task.                               *)
(***************************************************************************)
EXTENDS Integers, FiniteSets, Sequences

CONSTANTS Message, Worker, Providers, MaxVersion, MaxFaults,
          MaxPending     \* events, handlers and tasks in flight at a time

VARIABLES db,       \* the store: the version of each message, Gone when it is not there
          index,    \* the provider: the version it holds, Gone for none
          provider, \* which one it is
          tasks,    \* writes Meilisearch has accepted and not yet made
          pending,  \* events of which no worker has taken care
          worker,   \* the documents each worker has still to index
          excused,  \* messages whose index entry may be out of date
          faults

vars == <<db, index, provider, tasks, pending, worker, excused, faults>>

Unsent == -1         \* not yet in the store
Gone == -2
Free == {}
Doc(m, v) == [m |-> m, v |-> v]
Stored == {m \in Message : db[m] >= 0}

\* The index entry of a message is written while another handler holds an older copy of it.
Held(w, m) == \E u \in Worker \ {w} : \E d \in worker[u] : d.m = m
Excuse(ms) == excused' = excused \cup ms
Fault == faults > 0 /\ faults' = faults - 1
Room == Cardinality(pending) + Cardinality({w \in Worker : worker[w] # Free}) + Len(tasks) < MaxPending

(***************************************************************************)
(* The providers.                                                          *)
(***************************************************************************)
Written(d) == index' = [index EXCEPT ![d.m] = d.v]
\* (The refresh after which Elasticsearch's search sees a write is part of the write.)
IndexElasticsearch(d) == provider = "elasticsearch" /\ Written(d) /\ UNCHANGED tasks
DeleteElasticsearch(m) == provider = "elasticsearch" /\ Written(Doc(m, Gone)) /\ UNCHANGED tasks
IndexMeilisearch(d) == provider = "meilisearch" /\ tasks' = Append(tasks, d) /\ UNCHANGED index
DeleteMeilisearch(m) == provider = "meilisearch" /\ tasks' = Append(tasks, Doc(m, Gone)) /\ UNCHANGED index
\* Meilisearch works its tasks off in the order it took them.
WorkOff ==
    /\ tasks # <<>> /\ Written(Head(tasks)) /\ tasks' = Tail(tasks)
    /\ UNCHANGED <<db, provider, pending, worker, excused, faults>>
\* Provider.Search.
Hits == {m \in Message : index[m] >= 0}

(***************************************************************************)
(* Changes in the store, and their events.                                 *)
(***************************************************************************)
\* A message is sent; AfterSend is about to index the copy it was given.
Send(w, m) ==
    /\ db[m] = Unsent /\ worker[w] = Free
    /\ db' = [db EXCEPT ![m] = 0]
    /\ worker' = [worker EXCEPT ![w] = {Doc(m, 0)}]
    /\ UNCHANGED <<index, provider, tasks, pending, excused, faults>>
\* A recipient's copy is stored, or a message is moved or read: one event, of which the handlers use only
\* the id of the message.  From the change on the event is owed; an event whose handler failed is
\* delivered again, and one that is not is lost.
Change(m) ==
    /\ db[m] \in Unsent .. MaxVersion - 1 /\ Room
    /\ db' = [db EXCEPT ![m] = @ + 1]
    /\ pending' = pending \cup {[kind |-> "changed", m |-> m, v |-> db[m] + 1]}
    /\ UNCHANGED <<index, provider, tasks, worker, excused, faults>>
\* MarkAllRead changes the messages of a folder and publishes one event.
ChangeAll ==
    LET ms == {m \in Message : db[m] \in 0 .. MaxVersion - 1} IN
    /\ ms # {} /\ Room /\ \A m \in Message : db[m] < MaxVersion
    /\ db' = [m \in Message |-> IF m \in ms THEN db[m] + 1 ELSE db[m]]
    /\ pending' = pending \cup {[kind |-> "all", m |-> 0, v |-> 0]}
    /\ UNCHANGED <<index, provider, tasks, worker, excused, faults>>
\* Tags, bulk calls and rules change a message, and retention removes it, without an event.
ChangeQuietly(m) ==
    /\ db[m] \in 0 .. MaxVersion - 1 /\ Fault
    /\ \E v \in {db[m] + 1, Gone} : db' = [db EXCEPT ![m] = v]
    /\ Excuse({m})
    /\ UNCHANGED <<index, provider, tasks, pending, worker>>
Delete(m) ==
    /\ db[m] >= 0 /\ Room
    /\ db' = [db EXCEPT ![m] = Gone]
    /\ pending' = pending \cup {[kind |-> "deleted", m |-> m, v |-> 0]}
    /\ UNCHANGED <<index, provider, tasks, worker, excused, faults>>

(***************************************************************************)
(* The handlers.                                                           *)
(***************************************************************************)
Take(w, e) == worker[w] = Free /\ e \in pending /\ pending' = pending \ {e}

\* Mutant: the handler indexes what the event says.
MutOnMessageMoved(w, e) ==
    /\ Take(w, e) /\ e.kind = "changed"
    /\ worker' = [worker EXCEPT ![w] = {Doc(e.m, e.v)}]
    /\ UNCHANGED <<db, index, provider, tasks, excused, faults>>
\* OnMessageReceived, OnMessageMoved and OnMessageRead get the message first; one that has gone is an
\* error, and nothing is indexed.
OnMessageMoved(w, e) ==
    /\ Take(w, e) /\ e.kind = "changed"
    /\ worker' = [worker EXCEPT ![w] = IF db[e.m] >= 0 THEN {Doc(e.m, db[e.m])} ELSE Free]
    /\ UNCHANGED <<db, index, provider, tasks, excused, faults>>
\* OnMarkAllRead gets a page of messages and then indexes one after the other, whether or not a document
\* fails (the mailbox is one page of 100).
OnMarkAllRead(w, e) ==
    /\ Take(w, e) /\ e.kind = "all"
    /\ worker' = [worker EXCEPT ![w] = {Doc(m, db[m]) : m \in Stored}]
    /\ UNCHANGED <<db, index, provider, tasks, excused, faults>>
\* OnDelete takes the message out of the index.
OnDelete(w, e) ==
    /\ Take(w, e) /\ e.kind = "deleted"
    /\ \/ (DeleteElasticsearch(e.m) \/ DeleteMeilisearch(e.m)) /\ UNCHANGED faults
          /\ Excuse(IF Held(w, e.m) THEN {e.m} ELSE {})
       \/ Fault /\ Excuse({e.m}) /\ UNCHANGED <<index, tasks>>
    /\ UNCHANGED <<db, provider, worker>>
\* The provider's Index takes a document, or fails.
Index(w, d) ==
    /\ d \in worker[w] /\ worker' = [worker EXCEPT ![w] = @ \ {d}]
    /\ \/ (IndexElasticsearch(d) \/ IndexMeilisearch(d)) /\ UNCHANGED faults
          /\ Excuse(IF Held(w, d.m) THEN {d.m} ELSE {})
       \/ Fault /\ Excuse({d.m}) /\ UNCHANGED <<index, tasks>>
    /\ UNCHANGED <<db, provider, pending>>
\* The bus loses an event.
Lose(e) ==
    /\ e \in pending /\ Fault /\ pending' = pending \ {e}
    /\ Excuse(IF e.kind = "all" THEN Message ELSE {e.m})
    /\ UNCHANGED <<db, index, provider, tasks, worker>>

\* searchStore.Search: what the provider finds and the store still has; what the store itself finds
\* when the provider is down.
SearchResult(up) == IF up THEN Hits \cap Stored ELSE Stored

Init ==
    /\ db \in [Message -> {Unsent, 0}] /\ index = [m \in Message |-> IF db[m] = 0 THEN 0 ELSE Gone]
    /\ provider \in Providers /\ tasks = <<>>
    /\ pending = {} /\ worker = [w \in Worker |-> Free] /\ excused = {} /\ faults = MaxFaults
Next ==
    \/ \E m \in Message : Change(m) \/ ChangeQuietly(m) \/ Delete(m)
    \/ \E w \in Worker, m \in Message : Send(w, m)
    \/ ChangeAll
    \/ \E w \in Worker, e \in pending : OnMessageMoved(w, e) \/ OnMarkAllRead(w, e) \/ OnDelete(w, e)
    \/ \E w \in Worker : \E d \in worker[w] : Index(w, d)
    \/ \E e \in pending : Lose(e)
    \/ WorkOff
Spec == Init /\ [][Next]_vars

(***************************************************************************)
(* Properties.                                                             *)
(***************************************************************************)
\* IndexCatchesUp: once the events of a message have been handled, in whatever order, the index holds
\* the message as it is in the store, as soon as Meilisearch has worked off its tasks, and search finds
\* it exactly when it is there, unless a provider call failed, an event was lost, a change had no event,
\* or two handlers held copies of the message at the same time (search/plugin.go reads the message anew
\* in every handler).
IndexCatchesUp ==
    \A m \in Message \ excused :
        tasks = <<>> /\ (\A e \in pending : e.kind # "all" /\ e.m # m) /\ (\A w \in Worker : \A d \in worker[w] : d.m # m)
            => /\ index[m] = (IF db[m] >= 0 THEN db[m] ELSE Gone)
               /\ \A up \in BOOLEAN : m \in SearchResult(up) <=> db[m] >= 0
=============================================================================
