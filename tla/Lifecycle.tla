------------------------------ MODULE Lifecycle ------------------------------
(***************************************************************************)
(* Connect and Close of the service (mailbox.go), with what they switch on *)
(* and off: the store, the event bus, the plugins (plugin.go), the         *)
(* notifier and the background goroutines (background.go), while sends     *)
(* (send.go) hold slots of the send semaphore.                             *)
(*                                                                         *)
(* A caller c in Caller calls Connect or Close, any number of times up to  *)
(* MaxCalls between them all, and a send s in Send is one call of          *)
(* sendDraft.  Every call of another component is a step, and the calls    *)
(* that can fail may fail.                                                 *)
(***************************************************************************)
EXTENDS Integers, Sequences, SequencesExt, FiniteSetsExt

CONSTANTS
    Caller, Send, Worker,   \* Worker: the background goroutines that are enabled
    NumPlugins,
    MaxConcurrentSends,
    BusKinds,               \* subset of {"caller", "transport", "noop"}: whose bus it is
    MaxCalls

Plugin == 1 .. NumPlugins

ASSUME LifecycleAssumption ==
    /\ Caller \intersect Send = {}
    /\ NumPlugins \in Nat
    /\ MaxConcurrentSends \in Nat \ {0}
    /\ BusKinds \subseteq {"caller", "transport", "noop"}
    /\ MaxCalls \in Nat

VARIABLES
    state,          \* service.state
    store,          \* the store's connected flag
    busKind, bus,   \* service.eventBus: "none", "open" or "closed"
    opened,         \* [Plugin -> Int]: calls of Init less calls of Close
    notifierOpen,
    bg,             \* [Worker -> "off", "waiting" (in its select) or "working"]
    cancelled,      \* the background context is cancelled
    stage, at,      \* [Caller -> the next step of its call; the plugin it is at]
    calls,          \* calls of Connect and Close so far
    holders, waiters,   \* sendSem: who has its slots; the queue
    send,           \* [Send -> the next step of the send]
    lost,           \* history: sends that met a closed store or a closed plugin
    late,           \* history: sends that got their slot while the service was not connected
    overtaken       \* history: sends that had a slot when a Close stopped waiting

semVars == <<holders, waiters, late>>
sendVars == <<send, lost>>
resourceVars == <<store, busKind, bus, opened, notifierOpen>>
bgVars == <<bg, cancelled>>
callVars == <<stage, at, calls>>
vars == <<state, resourceVars, bgVars, callVars, semVars, sendVars, overtaken>>

Init ==
    /\ state = "disconnected"
    /\ store = FALSE
    /\ busKind \in BusKinds
    /\ bus = IF busKind = "caller" THEN "open" ELSE "none"
    /\ opened = [i \in Plugin |-> 0]
    /\ notifierOpen = TRUE
    /\ bg = [w \in Worker |-> "off"]
    /\ cancelled = FALSE
    /\ stage = [c \in Caller |-> "idle"]
    /\ at = [c \in Caller |-> 0]
    /\ calls = 0
    /\ holders = {}
    /\ waiters = <<>>
    /\ send = [s \in Send |-> "new"]
    /\ lost = {} /\ late = {} /\ overtaken = {}

-----------------------------------------------------------------------------
\* semaphore.Weighted: waiters are served in order, a waiter that does not fit
\* keeps the ones behind it waiting.  A send needs one slot, Close needs all.

MutNeed(p) == 1      \* Mutant: Close waits for one slot instead of all of them.
Need(p) == IF p \in Caller THEN MaxConcurrentSends ELSE 1

\* notifyWaiters, with the slots of the processes in hs given out and the queue q.
Serve(hs, q) ==
    LET free == MaxConcurrentSends - MapThenSumSet(Need, hs)
        k == Max({i \in 0 .. Len(q) :
                     MapThenSumSet(Need, {q[j] : j \in 1 .. i}) <= free})
        served == {q[i] : i \in 1 .. k}
    IN  /\ holders' = hs \union served
        /\ waiters' = SubSeq(q, k + 1, Len(q))
        /\ late' = late \union {s \in Send \intersect served : state # "connected"}

Acquire(p) == Serve(holders, Append(waiters, p))
Release(p) == Serve(holders \ {p}, waiters)
GiveUp(p) == Serve(holders, Remove(waiters, p))

Waiting(p) == Contains(waiters, p)

-----------------------------------------------------------------------------
\* Connect

Goto(c, next) == stage' = [stage EXCEPT ![c] = next]

\* The compare-and-swap of the state; a call that loses it returns at once.
ConnectBegin(c) ==
    /\ stage[c] = "idle"
    /\ calls < MaxCalls
    /\ calls' = calls + 1
    /\ IF state = "disconnected"
       THEN state' = "connecting" /\ Goto(c, "connectStore")
       ELSE UNCHANGED <<state, stage>>
    /\ UNCHANGED <<resourceVars, bgVars, at, semVars, sendVars, overtaken>>

\* Mutant: a store that is connected already accepts the call.
MutConnectStore(c) ==
    /\ stage[c] = "connectStore"
    /\ \/ store' = TRUE /\ Goto(c, "initBus")
       \/ store' = store /\ Goto(c, "undoState")
    /\ UNCHANGED <<state, busKind, bus, opened, notifierOpen, bgVars, at, calls, semVars,
                   sendVars, overtaken>>
\* store.Connect, itself a compare-and-swap.
ConnectStore(c) ==
    /\ stage[c] = "connectStore"
    /\ \/ ~store /\ store' = TRUE /\ Goto(c, "initBus")
       \/ store' = store /\ Goto(c, "undoState")
    /\ UNCHANGED <<state, busKind, bus, opened, notifierOpen, bgVars, at, calls, semVars,
                   sendVars, overtaken>>

\* A bus that is not the caller's is created here, and forgotten if its set-up fails.
InitEventBus(c) ==
    /\ stage[c] = "initBus"
    /\ \/ /\ bus' = IF busKind = "caller" THEN bus ELSE "open"
          /\ at' = [at EXCEPT ![c] = 1]
          /\ Goto(c, "initPlugins")
       \/ Goto(c, "undoStore") /\ UNCHANGED <<bus, at>>
    /\ UNCHANGED <<state, store, busKind, opened, notifierOpen, bgVars, calls, semVars,
                   sendVars, overtaken>>

\* Mutant: a plugin whose Init failed is closed with the ones before it.
MutInitFailedAt(i) == i
\* Mutant: the plugin before it is left out.
MutInitFailedSkip(i) == i - 2
\* initAll closes the plugins before the one that failed.
InitFailedAt(i) == i - 1

\* One turn of the loop of initAll, or its end.
InitPlugin(c) ==
    /\ stage[c] = "initPlugins"
    /\ \/ /\ at[c] \in Plugin
          /\ opened' = [opened EXCEPT ![at[c]] = @ + 1]
          /\ at' = [at EXCEPT ![c] = @ + 1]
          /\ UNCHANGED stage
       \/ /\ at[c] \in Plugin
          /\ at' = [at EXCEPT ![c] = InitFailedAt(@)]
          /\ Goto(c, "undoPlugins")
          /\ UNCHANGED opened
       \/ /\ at[c] \notin Plugin
          /\ at' = [at EXCEPT ![c] = 0]
          /\ Goto(c, "register")
          /\ UNCHANGED opened
    /\ UNCHANGED <<state, store, busKind, bus, notifierOpen, bgVars, calls, semVars,
                   sendVars, overtaken>>

\* Without a registrar, or when it succeeds, Connect goes on.
Register(c) ==
    /\ stage[c] = "register"
    /\ \/ Goto(c, "startTasks") /\ UNCHANGED at
       \/ Goto(c, "undoPlugins") /\ at' = [at EXCEPT ![c] = NumPlugins]
    /\ UNCHANGED <<state, resourceVars, bgVars, calls, semVars, sendVars, overtaken>>

StartBackgroundTasks(c) ==
    /\ stage[c] = "startTasks"
    /\ cancelled' = FALSE
    /\ bg' = [w \in Worker |-> "waiting"]
    /\ Goto(c, "commit")
    /\ UNCHANGED <<state, resourceVars, at, calls, semVars, sendVars, overtaken>>

\* The deferred store of the new state, on success and on failure.
ConnectEnd(c) ==
    /\ \/ stage[c] = "commit" /\ state' = "connected"
       \/ stage[c] = "undoState" /\ state' = "disconnected"
    /\ Goto(c, "idle")
    /\ UNCHANGED <<resourceVars, bgVars, at, calls, semVars, sendVars, overtaken>>

\* One turn of the loop that closes plugins in reverse order, in the roll-back of
\* Connect and in Close.
ClosePlugin(c) ==
    /\ stage[c] \in {"undoPlugins", "closePlugins"}
    /\ IF at[c] \in Plugin
       THEN /\ opened' = [opened EXCEPT ![at[c]] = @ - 1]
            /\ at' = [at EXCEPT ![c] = @ - 1]
            /\ UNCHANGED stage
       ELSE /\ Goto(c, IF stage[c] = "undoPlugins" THEN "undoBus" ELSE "closeBus")
            /\ at' = [at EXCEPT ![c] = 0]
            /\ UNCHANGED opened
    /\ UNCHANGED <<state, store, busKind, bus, notifierOpen, bgVars, calls, semVars,
                   sendVars, overtaken>>

\* The roll-back closes whatever bus the service has.
UndoBus(c) ==
    /\ stage[c] = "undoBus"
    /\ bus' = "closed"
    /\ Goto(c, "undoStore")
    /\ UNCHANGED <<state, store, busKind, opened, notifierOpen, bgVars, at, calls,
                   semVars, sendVars, overtaken>>

\* store.Close, in the roll-back of Connect and as the last step of Close.
CloseStore(c) ==
    /\ stage[c] \in {"undoStore", "closeStore"}
    /\ store' = FALSE
    /\ Goto(c, IF stage[c] = "undoStore" THEN "undoState" ELSE "idle")
    /\ UNCHANGED <<state, busKind, bus, opened, notifierOpen, bgVars, at, calls, semVars,
                   sendVars, overtaken>>

-----------------------------------------------------------------------------
\* Close

CloseBegin(c) ==
    /\ stage[c] = "idle"
    /\ calls < MaxCalls
    /\ calls' = calls + 1
    /\ IF state = "connected"
       THEN state' = "disconnected" /\ Goto(c, "cancel")
       ELSE UNCHANGED <<state, stage>>
    /\ UNCHANGED <<resourceVars, bgVars, at, semVars, sendVars, overtaken>>

CancelBackground(c) ==
    /\ stage[c] = "cancel"
    /\ cancelled' = TRUE
    /\ Goto(c, "drain")
    /\ UNCHANGED <<state, resourceVars, bg, at, calls, semVars, sendVars, overtaken>>

Drain(c) ==
    /\ stage[c] = "drain"
    /\ Acquire(c)
    /\ Goto(c, "draining")
    /\ UNCHANGED <<state, resourceVars, bgVars, at, calls, sendVars, overtaken>>

\* Mutant: the slots taken for the drain are never given back.
MutDrained(c) ==
    /\ stage[c] = "draining" /\ ~Waiting(c)
    /\ Goto(c, "wait")
    /\ UNCHANGED <<state, resourceVars, bgVars, at, calls, semVars, sendVars, overtaken>>
Drained(c) ==
    /\ stage[c] = "draining" /\ ~Waiting(c)
    /\ Release(c)
    /\ Goto(c, "wait")
    /\ UNCHANGED <<state, resourceVars, bgVars, at, calls, sendVars, overtaken>>

\* ShutdownTimeout: Close goes on without the slots.
DrainTimeout(c) ==
    /\ stage[c] = "draining" /\ Waiting(c)
    /\ GiveUp(c)
    /\ overtaken' = overtaken \union (Send \intersect holders)
    /\ Goto(c, "wait")
    /\ UNCHANGED <<state, resourceVars, bgVars, at, calls, sendVars>>

\* Mutant: Close does not wait for the background goroutines.
MutAwaitBackground(c) ==
    /\ stage[c] = "wait"
    /\ Goto(c, "closeNotifier")
    /\ UNCHANGED <<state, resourceVars, bgVars, at, calls, semVars, sendVars, overtaken>>
\* wg.Wait
AwaitBackground(c) ==
    /\ stage[c] = "wait"
    /\ \A w \in Worker : bg[w] = "off"
    /\ Goto(c, "closeNotifier")
    /\ UNCHANGED <<state, resourceVars, bgVars, at, calls, semVars, sendVars, overtaken>>

\* The notifier is never opened again.
CloseNotifier(c) ==
    /\ stage[c] = "closeNotifier"
    /\ notifierOpen' = FALSE
    /\ at' = [at EXCEPT ![c] = NumPlugins]
    /\ Goto(c, "closePlugins")
    /\ UNCHANGED <<state, store, busKind, bus, opened, bgVars, calls, semVars, sendVars,
                   overtaken>>

CloseBus(c) ==
    /\ stage[c] = "closeBus"
    /\ bus' = IF busKind = "transport" THEN "closed" ELSE bus
    /\ Goto(c, "closeStore")
    /\ UNCHANGED <<state, store, busKind, opened, notifierOpen, bgVars, at, calls,
                   semVars, sendVars, overtaken>>

-----------------------------------------------------------------------------
\* The background goroutines.  A tick may win the select after the cancellation;
\* the pass it starts checks the state first.

TickBackground(w) ==
    /\ bg[w] = "waiting"
    /\ state = "connected" \/ cancelled
    /\ bg' = [bg EXCEPT ![w] = IF state = "connected" THEN "working" ELSE "off"]
    /\ UNCHANGED <<state, resourceVars, cancelled, callVars, semVars, sendVars, overtaken>>

\* The pass returns; a pass that failed with its context cancelled ends the goroutine.
PassEnd(w) ==
    /\ bg[w] = "working"
    /\ \E next \in {"waiting"} \union (IF cancelled THEN {"off"} ELSE {}) :
          bg' = [bg EXCEPT ![w] = next]
    /\ UNCHANGED <<state, resourceVars, cancelled, callVars, semVars, sendVars, overtaken>>

StopBackground(w) ==
    /\ bg[w] = "waiting" /\ cancelled
    /\ bg' = [bg EXCEPT ![w] = "off"]
    /\ UNCHANGED <<state, resourceVars, cancelled, callVars, semVars, sendVars, overtaken>>

-----------------------------------------------------------------------------
\* Sends

Step(s, next) == send' = [send EXCEPT ![s] = next]

CheckAccess(s) ==
    /\ send[s] = "new"
    /\ Step(s, IF state = "connected" THEN "checked" ELSE "done")
    /\ UNCHANGED <<state, resourceVars, bgVars, callVars, semVars, lost, overtaken>>

\* The draft may be refused between the check of the state and the semaphore.
AcquireSlot(s) ==
    /\ send[s] = "checked"
    /\ \/ Acquire(s) /\ Step(s, "acquiring")
       \/ Step(s, "done") /\ UNCHANGED semVars
    /\ UNCHANGED <<state, resourceVars, bgVars, callVars, lost, overtaken>>

\* The context of the send ends while it waits for its slot.
AcquireCancelled(s) ==
    /\ send[s] = "acquiring" /\ Waiting(s)
    /\ GiveUp(s)
    /\ Step(s, "done")
    /\ UNCHANGED <<state, resourceVars, bgVars, callVars, lost, overtaken>>

\* The deferred release of the slot, on every way out of sendDraft.
Return(s) == Step(s, "done") /\ Release(s)

PluginsUp == \A i \in Plugin : opened[i] > 0
Meet(s, usable) == lost' = IF usable THEN lost ELSE lost \union {s}

BeforeSend(s) ==
    /\ send[s] = "acquiring" /\ ~Waiting(s)
    /\ Meet(s, PluginsUp)
    /\ \/ Step(s, "creating") /\ UNCHANGED semVars
       \/ Return(s)
    /\ UNCHANGED <<state, resourceVars, bgVars, callVars, overtaken>>

\* createSenderMessage: a closed store refuses it.
CreateSenderMessage(s) ==
    /\ send[s] = "creating"
    /\ Meet(s, store)
    /\ \/ store /\ Step(s, "delivering") /\ UNCHANGED semVars
       \/ Return(s)
    /\ UNCHANGED <<state, resourceVars, bgVars, callVars, overtaken>>

\* deliverToRecipients and finalizeDelivery; a failure of either is an early return.
DeliverToRecipients(s) ==
    /\ send[s] = "delivering"
    /\ Meet(s, store)
    /\ \/ store /\ Step(s, "hooks") /\ UNCHANGED semVars
       \/ Return(s)
    /\ UNCHANGED <<state, resourceVars, bgVars, callVars, overtaken>>

AfterSend(s) ==
    /\ send[s] = "hooks"
    /\ Meet(s, PluginsUp)
    /\ Return(s)
    /\ UNCHANGED <<state, resourceVars, bgVars, callVars, overtaken>>

-----------------------------------------------------------------------------
ConnectStep(c) ==
    \/ ConnectStore(c) \/ InitEventBus(c) \/ InitPlugin(c) \/ Register(c)
    \/ StartBackgroundTasks(c) \/ ConnectEnd(c) \/ UndoBus(c)
CloseStep(c) ==
    \/ CancelBackground(c) \/ Drain(c) \/ Drained(c) \/ DrainTimeout(c)
    \/ AwaitBackground(c) \/ CloseNotifier(c) \/ CloseBus(c)
CallStep(c) == ConnectStep(c) \/ CloseStep(c) \/ ClosePlugin(c) \/ CloseStore(c)
SendStep(s) ==
    \/ CheckAccess(s) \/ AcquireSlot(s) \/ BeforeSend(s) \/ CreateSenderMessage(s)
    \/ DeliverToRecipients(s) \/ AfterSend(s)

\* Every call has returned and no more calls are made.
Finished ==
    /\ calls = MaxCalls
    /\ \A c \in Caller : stage[c] = "idle"
    /\ \A s \in Send : send[s] = "done"
    /\ UNCHANGED vars

Next ==
    \/ \E c \in Caller : ConnectBegin(c) \/ CloseBegin(c) \/ CallStep(c)
    \/ \E w \in Worker : TickBackground(w) \/ PassEnd(w) \/ StopBackground(w)
    \/ \E s \in Send : SendStep(s) \/ AcquireCancelled(s)
    \/ Finished

\* A call that was made goes on; a pass returns, and a goroutine in its select
\* that keeps seeing the cancellation ends.  Nobody has to call Connect or Close,
\* no tick has to come and no context has to end.
Fairness ==
    /\ \A c \in Caller : WF_vars(CallStep(c))
    /\ \A w \in Worker : WF_vars(PassEnd(w)) /\ WF_vars(StopBackground(w))
    /\ \A s \in Send : WF_vars(SendStep(s))

Spec == Init /\ [][Next]_vars /\ Fairness

-----------------------------------------------------------------------------
Stages == {"idle", "connectStore", "initBus", "initPlugins", "register", "startTasks",
           "commit", "undoPlugins", "undoBus", "undoStore", "undoState", "cancel", "drain",
           "draining", "wait", "closeNotifier", "closePlugins", "closeBus", "closeStore"}

\* The types of the variables of mailbox.go's service and of its callers.
TypeOK ==
    /\ state \in {"disconnected", "connecting", "connected"}
    /\ store \in BOOLEAN
    /\ busKind \in BusKinds /\ bus \in {"none", "open", "closed"}
    /\ opened \in [Plugin -> Int]
    /\ notifierOpen \in BOOLEAN
    /\ bg \in [Worker -> {"off", "waiting", "working"}]
    /\ cancelled \in BOOLEAN
    /\ stage \in [Caller -> Stages]
    /\ at \in [Caller -> 0 .. NumPlugins + 1]
    /\ calls \in 0 .. MaxCalls
    /\ holders \subseteq Caller \union Send
    /\ waiters \in Seq(Caller \union Send)
    /\ send \in [Send -> {"new", "checked", "acquiring", "creating", "delivering", "hooks",
                          "done"}]
    /\ lost \subseteq Send /\ late \subseteq Send /\ overtaken \subseteq Send

\* While the service is connected, its store is connected, every plugin is
\* initialised and a bus of its own is open: no Close that is still under way can
\* take them from a Connect that came after it.
ConnectedMeansReady ==
    state = "connected" =>
        /\ store
        /\ \A i \in Plugin : opened[i] = 1
        /\ busKind # "caller" => bus = "open"

\* No plugin is closed that was not initialised, none is initialised twice, and
\* the ones that are up are always the first ones (initAll, closeAll).
PluginsPaired ==
    /\ \A i \in Plugin : opened[i] \in {0, 1}
    /\ \A i, j \in Plugin : i < j => opened[j] <= opened[i]

\* A background goroutine never outlives the store: Close waits for all of them,
\* even after its timeout, before it closes what they use.
BackgroundHasStore == \A w \in Worker : bg[w] # "off" => store

\* Close lets the sends that hold a slot finish: one that meets a closed store or a
\* closed plugin got its slot after the service had left the connected state, or
\* still had it when the shutdown timeout passed.
OnlyLateSendsLost == lost \subseteq late \union overtaken

\* The caller's own event bus is never closed by the service.
CallersBusLeftOpen == busKind = "caller" => bus = "open"

\* Every Connect, Close and send returns, whatever else is going on; in particular
\* no slot of the semaphore is lost when a Close drains it or times out.
CallsReturn ==
    /\ \A c \in Caller : stage[c] # "idle" ~> stage[c] = "idle"
    /\ \A s \in Send : send[s] = "acquiring" ~> send[s] = "done"

=============================================================================
