------------------------------- MODULE Delivery -------------------------------
(***************************************************************************)
(* Sending a message (send.go, sendDraft and what it calls), by several    *)
(* callers at once, while mailbox owners permanently delete their copies.  *)
(*                                                                         *)
(* A send s in Send is one call of Draft.Send, repeated by its caller when *)
(* it returns an error (attempts 1..MaxAttempts).  Each attempt makes a    *)
(* sender copy and one copy for every target; a copy is named              *)
(* <<s, attempt, owner>>, where the sender's own copy has owner SenderCopy.*)
(* Every call of the message store, of the attachment stores, of the event *)
(* bus and of a plugin is one step, and steps of different sends           *)
(* interleave.  Any such call may fail: a failure uses up one of           *)
(* MaxFaults, so that a run explores every placement of that many faults.  *)
(*                                                                         *)
(* The idempotency key of a copy is "<sender message id>:<recipient>"      *)
(* (send.go:264) and the sender message id is fresh in every attempt, so a *)
(* key is never used twice and the branch of deliverToRecipients for an    *)
(* existing copy (send.go:288-291) is never taken.                         *)
(***************************************************************************)
EXTENDS Attachments, FiniteSets

CONSTANTS
    Send,                   \* calls of Draft.Send
    User,                   \* mailbox owners that receive mail
    SenderCopy,             \* the "owner" of a sender's own copy
    Targets,                \* [Send -> SUBSET User]: DeliverTo, or all recipients
    Carries,                \* [Send -> SUBSET Attachment]: the draft's attachments
    MaxAttempts,            \* how often a caller calls Send for one draft
    MaxConcurrentSends,     \* weight of service.sendSem
    MaxMessages,            \* QuotaPolicy.MaxMessages, 0 for no limit
    EventErrorsFatal,       \* option eventErrorsFatal
    Deleters,               \* the sends and owners whose copies may be deleted
    MaxFaults               \* how many calls may fail in a behaviour

ASSUME SendAssumption ==
    /\ IsFiniteSet(Send)
    /\ SenderCopy \notin User
    /\ Deleters \subseteq Send \X (User \union {SenderCopy})
    /\ Targets \in [Send -> SUBSET User]
    /\ Carries \in [Send -> SUBSET Attachment]
    /\ \A s \in Send : IsFiniteSet(Targets[s]) /\ IsFiniteSet(Carries[s])
ASSUME BoundAssumption ==
    /\ MaxAttempts \in Nat \ {0}
    /\ MaxConcurrentSends \in Nat \ {0}
    /\ MaxMessages \in Nat
    /\ MaxFaults \in Nat
    /\ EventErrorsFatal \in BOOLEAN

Owner == User \union {SenderCopy}
Copy == Send \X (1 .. MaxAttempts) \X Owner

\* Where a copy is: "none" before it is created, "gone" after HardDelete.
Place == {"none", "outbox", "inbox", "sent", "trash", "gone"}
Stored == {"outbox", "inbox", "sent", "trash"}

VARIABLES
    folder,     \* the message store: [Copy -> Place]
    drafts,     \* the saved drafts in the store: a set of sends
    sem,        \* free slots of service.sendSem
    received,   \* MessageReceived events published: a set of copies
    sentEvent,  \* MessageSent events published: [<<s, n>> -> recipients]
    pc,         \* [Send -> label]: where each call is
    attempt,    \* [Send -> 1..MaxAttempts]
    cur,        \* [Send -> Owner]: the copy whose references are worked on
    todo,       \* [Send -> SUBSET User]: targets left in the current phase
    ready,      \* [Send -> SUBSET User]: targets that passed the current phase
    pend,       \* [Send -> SUBSET Attachment]: references left to add or release
    added,      \* [Send -> SUBSET Attachment]: "added" of addAttachmentRefs
    delivered,  \* [Send -> SUBSET User]: deliveredTo (= newlyDelivered)
    failed,     \* [Send -> SUBSET User]: keys of failedRecipients
    res,        \* [Send -> result]: what the call returned
    purging,    \* [Copy -> SUBSET Attachment]: what PermanentlyDelete still releases
    faults,     \* failures still allowed
    got,        \* history: copies that were delivered
    orphans,    \* history: copies whose roll-back delete failed (logged)
    refFailed,  \* history: some addAttachmentRefs has failed
    hasty       \* history: an owner has permanently deleted a copy while a call
                \* was working on it, or one whose roll-back delete had failed

mailVars == <<folder, drafts, sem, received, sentEvent>>
sendVars == <<pc, attempt, cur, todo, ready, pend, added, delivered, failed, res>>
histVars == <<got, orphans, refFailed, hasty>>
vars == <<attachVars, mailVars, sendVars, histVars, purging, faults>>

Label == {"idle", "acquire", "before", "create", "add", "undo", "release",
          "quota", "batch", "next", "settle", "move", "draft", "get", "publish",
          "after", "done"}
\* What Send returns: a message, an error, and in the error a partial delivery.
Result == SUBSET {"msg", "error", "partial"}

\* The copy call s is working on, and its sender copy.
CurCopy(s) == <<s, attempt[s], cur[s]>>
OwnCopy(s) == <<s, attempt[s], SenderCopy>>
CopyOf(s, r) == <<s, attempt[s], r>>

\* store.Count(OwnerIs(r)).
MessageCount(r) == Cardinality({c \in Copy : c[3] = r /\ folder[c] \in Stored})

Init ==
    /\ AttachInit(Copy)
    /\ folder = [c \in Copy |-> "none"]
    /\ drafts = Send
    /\ sem = MaxConcurrentSends
    /\ received = {}
    /\ sentEvent = [a \in Send \X (1 .. MaxAttempts) |-> {}]
    /\ pc = [s \in Send |-> "idle"]
    /\ attempt = [s \in Send |-> 1]
    /\ cur = [s \in Send |-> SenderCopy]
    /\ todo = [s \in Send |-> {}]
    /\ ready = [s \in Send |-> {}]
    /\ pend = [s \in Send |-> {}]
    /\ added = [s \in Send |-> {}]
    /\ delivered = [s \in Send |-> {}]
    /\ failed = [s \in Send |-> {}]
    /\ res = [s \in Send |-> {}]
    /\ purging = [c \in Copy |-> {}]
    /\ faults = MaxFaults
    /\ got = {} /\ orphans = {} /\ refFailed = FALSE /\ hasty = FALSE
-----------------------------------------------------------------------------
Goto(s, l) == pc' = [pc EXCEPT ![s] = l]

\* One call fails / no call fails in this step.
Fault == faults > 0 /\ faults' = faults - 1
NoFault == UNCHANGED faults

\* The deferred Release of sendDraft.
\* Mutant: the slot is not given back.
MutReleaseSlot == UNCHANGED sem
ReleaseSlot == sem' = sem + 1

\* Mutant: another error hides the partial-delivery error.
MutOutcome(s, ret) ==
    ret \union {x \in {"error", "partial"} : failed[s] # {} /\ "error" \notin ret}
\* The results of sendDraft: the partial-delivery error is joined to whatever
\* else went wrong, so it is never lost.
Outcome(s, ret) ==
    ret \union {x \in {"error", "partial"} : failed[s] # {} /\ "msg" \in ret}

\* sendDraft returns.
Return(s, ret) ==
    /\ Goto(s, "done")
    /\ ReleaseSlot
    /\ res' = [res EXCEPT ![s] = Outcome(s, ret)]

\* checkAccess, recipient de-duplication, DeliverTo check, metadata, validation.
\* None of it touches shared state; a failure returns before a slot is taken.
Validate(s) ==
    /\ pc[s] = "idle"
    /\ \/ /\ NoFault
          /\ Goto(s, "acquire")
          /\ UNCHANGED res
       \/ /\ Fault
          /\ Goto(s, "done")
          /\ res' = [res EXCEPT ![s] = Outcome(s, {"error"})]
    /\ UNCHANGED <<attachVars, mailVars, histVars, purging,
                   attempt, cur, todo, ready, pend, added, delivered, failed>>

\* sendSem.Acquire: waits for a slot.
Acquire(s) ==
    /\ pc[s] = "acquire"
    /\ sem > 0
    /\ sem' = sem - 1
    /\ Goto(s, "before")
    /\ UNCHANGED <<attachVars, folder, drafts, received, sentEvent, histVars, purging, faults,
                   attempt, cur, todo, ready, pend, added, delivered, failed, res>>

\* Mutant: the deferred Release also runs when no slot was acquired.
MutCancelAcquire(s) ==
    /\ pc[s] = "acquire"
    /\ Fault
    /\ Return(s, {"error"})
    /\ UNCHANGED <<attachVars, folder, drafts, received, sentEvent, histVars, purging,
                   attempt, cur, todo, ready, pend, added, delivered, failed>>

\* sendSem.Acquire returns the error of a cancelled context.
CancelAcquire(s) ==
    /\ pc[s] = "acquire"
    /\ Fault
    /\ Goto(s, "done")
    /\ res' = [res EXCEPT ![s] = Outcome(s, {"error"})]
    /\ UNCHANGED <<attachVars, mailVars, histVars, purging,
                   attempt, cur, todo, ready, pend, added, delivered, failed>>

\* plugins.beforeSend, resolveThreadID and computeTTLFields.
BeforeSend(s) ==
    /\ pc[s] = "before"
    /\ \/ /\ NoFault
          /\ Goto(s, "create")
          /\ UNCHANGED <<sem, res>>
       \/ /\ Fault
          /\ Return(s, {"error"})
    /\ UNCHANGED <<attachVars, folder, drafts, received, sentEvent, histVars, purging,
                   attempt, cur, todo, ready, pend, added, delivered, failed>>

\* createSenderMessage: CreateMessage in the outbox, then the references.
CreateSender(s) ==
    /\ pc[s] = "create"
    /\ \/ /\ NoFault
          /\ folder' = [folder EXCEPT ![OwnCopy(s)] = "outbox"]
          /\ cur' = [cur EXCEPT ![s] = SenderCopy]
          /\ pend' = [pend EXCEPT ![s] = Carries[s]]
          /\ added' = [added EXCEPT ![s] = {}]
          /\ Goto(s, "add")
          /\ UNCHANGED <<sem, res>>
       \/ /\ Fault
          /\ Return(s, {"error"})
          /\ UNCHANGED <<folder, cur, pend, added>>
    /\ UNCHANGED <<attachVars, drafts, received, sentEvent, histVars, purging,
                   attempt, todo, ready, delivered, failed>>

\* addAttachmentRefs: one AddRef.
AddOne(s) ==
    /\ pc[s] = "add"
    /\ \E a \in pend[s] :
          /\ AddRef(CurCopy(s), a)
          /\ pend' = [pend EXCEPT ![s] = @ \ {a}]
          /\ added' = [added EXCEPT ![s] = @ \union {a}]
    /\ UNCHANGED <<mailVars, histVars, purging, faults,
                   pc, attempt, cur, todo, ready, delivered, failed, res>>

\* addAttachmentRefs: an AddRef fails, because the row is gone or because the
\* metadata store reports an error; the references added so far are rolled back.
AddFails(s) ==
    /\ pc[s] = "add"
    /\ \E a \in pend[s] : \/ a \notin meta /\ NoFault
                          \/ a \in meta /\ Fault
    /\ pend' = [pend EXCEPT ![s] = added[s]]
    /\ refFailed' = TRUE
    /\ Goto(s, "undo")
    /\ UNCHANGED <<attachVars, mailVars, got, orphans, hasty, purging,
                   attempt, cur, todo, ready, added, delivered, failed, res>>

\* One RemoveRef on behalf of holder h; an error is logged and the loop goes on.
Unref(h, a) ==
    \/ RemoveRef(h, a) /\ NoFault
    \/ RemoveRefKeepFile(h, a) /\ Fault
    \/ a \in meta /\ Fault /\ UNCHANGED attachVars

\* A round of the roll-back loop of addAttachmentRefs ("undo") or of
\* releaseAttachmentRefs ("release").
ReleaseOne(s) ==
    /\ pc[s] \in {"undo", "release"}
    /\ \E a \in pend[s] :
          /\ Unref(CurCopy(s), a)
          /\ pend' = [pend EXCEPT ![s] = @ \ {a}]
    /\ UNCHANGED <<mailVars, histVars, purging,
                   pc, attempt, cur, todo, ready, added, delivered, failed, res>>

\* addAttachmentRefs has rolled back and returned its error; both callers then
\* call releaseAttachmentRefs for the same message.
ReleaseAfterUndo(s) ==
    /\ pc[s] = "undo"
    /\ pend[s] = {}
    /\ pend' = [pend EXCEPT ![s] = Carries[s]]
    /\ Goto(s, "release")
    /\ UNCHANGED <<attachVars, mailVars, histVars, purging, faults,
                   attempt, cur, todo, ready, added, delivered, failed, res>>

\* HardDelete of the copy that is rolled back; a failure leaves an orphan, and
\* the error for a copy its owner has deleted meanwhile changes nothing.
\* Mutant: the copy is not deleted.
MutHardDelete(s) == UNCHANGED <<folder, orphans, faults>>
HardDelete(s) ==
    \/ /\ NoFault
       /\ folder' = [folder EXCEPT ![CurCopy(s)] = "gone"]
       /\ UNCHANGED orphans
    \/ /\ folder[CurCopy(s)] # "gone"
       /\ Fault
       /\ orphans' = orphans \union {CurCopy(s)}
       /\ UNCHANGED folder

\* A roll-back ends with HardDelete.  A sender copy ends the call; a
\* recipient copy makes the recipient a failed one.
Drop(s) ==
    /\ pc[s] = "release"
    /\ pend[s] = {}
    /\ HardDelete(s)
    /\ \/ /\ cur[s] = SenderCopy
          /\ Return(s, {"error"})
          /\ UNCHANGED failed
       \/ /\ cur[s] # SenderCopy
          /\ failed' = [failed EXCEPT ![s] = @ \union {cur[s]}]
          /\ Goto(s, "next")
          /\ UNCHANGED <<sem, res>>
    /\ UNCHANGED <<attachVars, drafts, received, sentEvent, got, refFailed, hasty, purging,
                   attempt, cur, todo, ready, pend, added, delivered>>
\* The sender copy holds its references: deliverToRecipients begins.
BeginDelivery(s) ==
    /\ pc[s] = "add"
    /\ pend[s] = {}
    /\ cur[s] = SenderCopy
    /\ todo' = [todo EXCEPT ![s] = Targets[s]]
    /\ Goto(s, "quota")
    /\ UNCHANGED <<attachVars, mailVars, histVars, purging, faults,
                   attempt, cur, ready, pend, added, delivered, failed, res>>

\* checkQuotaWithPolicy without a stats cache (store.Count).
\* Mutant: the limit itself still counts as room.
MutUnderQuota(r) == MaxMessages = 0 \/ MessageCount(r) <= MaxMessages
UnderQuota(r) == MaxMessages = 0 \/ MessageCount(r) < MaxMessages

\* Phase 1, one target: GetQuota and the quota check.
CheckQuota(s) ==
    /\ pc[s] = "quota"
    /\ \E r \in todo[s] :
          /\ todo' = [todo EXCEPT ![s] = @ \ {r}]
          /\ \/ /\ UnderQuota(r) /\ NoFault
                /\ ready' = [ready EXCEPT ![s] = @ \union {r}]
                /\ UNCHANGED failed
             \/ /\ \/ ~UnderQuota(r) /\ NoFault
                   \/ UnderQuota(r) /\ Fault
                /\ failed' = [failed EXCEPT ![s] = @ \union {r}]
                /\ UNCHANGED ready
    /\ UNCHANGED <<attachVars, mailVars, histVars, purging,
                   pc, attempt, cur, pend, added, delivered, res>>

\* Phase 1 ends: with no eligible target there is nothing to create.
EndQuota(s) ==
    /\ pc[s] = "quota"
    /\ todo[s] = {}
    /\ Goto(s, IF ready[s] = {} THEN "settle" ELSE "batch")
    /\ todo' = [todo EXCEPT ![s] = ready[s]]
    /\ ready' = [ready EXCEPT ![s] = {}]
    /\ UNCHANGED <<attachVars, mailVars, histVars, purging, faults,
                   attempt, cur, pend, added, delivered, failed, res>>

\* Phase 2, one entry of CreateMessagesIdempotent: the stores create the copies
\* one by one, each atomically, and report an error per entry.
CreateOne(s) ==
    /\ pc[s] = "batch"
    /\ \E r \in todo[s] :
          /\ todo' = [todo EXCEPT ![s] = @ \ {r}]
          /\ \/ /\ NoFault
                /\ folder' = [folder EXCEPT ![CopyOf(s, r)] = "inbox"]
                /\ ready' = [ready EXCEPT ![s] = @ \union {r}]
                /\ UNCHANGED failed
             \/ /\ Fault
                /\ failed' = [failed EXCEPT ![s] = @ \union {r}]
                /\ UNCHANGED <<folder, ready>>
    /\ UNCHANGED <<attachVars, drafts, sem, received, sentEvent, histVars, purging,
                   pc, attempt, cur, pend, added, delivered, res>>

\* Phase 2 fails as a whole (the store is not connected): nothing was created.
BatchFails(s) ==
    /\ pc[s] = "batch"
    /\ ready[s] = {}
    /\ todo[s] # {}
    /\ Fault
    /\ failed' = [failed EXCEPT ![s] = @ \union todo[s]]
    /\ todo' = [todo EXCEPT ![s] = {}]
    /\ Goto(s, "settle")
    /\ UNCHANGED <<attachVars, mailVars, histVars, purging,
                   attempt, cur, ready, pend, added, delivered, res>>

\* Phase 2 ends, phase 3 goes through the copies that were created.
EndBatch(s) ==
    /\ pc[s] = "batch"
    /\ todo[s] = {}
    /\ todo' = [todo EXCEPT ![s] = ready[s]]
    /\ ready' = [ready EXCEPT ![s] = {}]
    /\ Goto(s, "next")
    /\ UNCHANGED <<attachVars, mailVars, histVars, purging, faults,
                   attempt, cur, pend, added, delivered, failed, res>>

\* Mutant: recipient copies take no references.
MutRefsToTake(s) == {}
RefsToTake(s) == Carries[s]

\* Phase 3, the next created copy: addAttachmentRefs begins.
BeginRecipient(s) ==
    /\ pc[s] = "next"
    /\ \E r \in todo[s] :
          /\ cur' = [cur EXCEPT ![s] = r]
          /\ todo' = [todo EXCEPT ![s] = @ \ {r}]
    /\ pend' = [pend EXCEPT ![s] = RefsToTake(s)]
    /\ added' = [added EXCEPT ![s] = {}]
    /\ Goto(s, "add")
    /\ UNCHANGED <<attachVars, mailVars, histVars, purging, faults,
                   attempt, ready, delivered, failed, res>>

\* Phase 3, the copy holds its references: it counts as delivered, and
\* MessageReceived is published; a publish error is ignored.
Deliver(s) ==
    /\ pc[s] = "add"
    /\ pend[s] = {}
    /\ cur[s] # SenderCopy
    /\ delivered' = [delivered EXCEPT ![s] = @ \union {cur[s]}]
    /\ got' = got \union {CurCopy(s)}
    /\ \/ received' = received \union {CurCopy(s)} /\ NoFault
       \/ UNCHANGED received /\ Fault
    /\ Goto(s, "next")
    /\ UNCHANGED <<attachVars, folder, drafts, sem, sentEvent, orphans, refFailed, hasty, purging,
                   attempt, cur, todo, ready, pend, added, failed, res>>

\* Phase 3 ends.
EndDelivery(s) ==
    /\ pc[s] = "next"
    /\ todo[s] = {}
    /\ Goto(s, "settle")
    /\ UNCHANGED <<attachVars, mailVars, histVars, purging, faults,
                   attempt, cur, todo, ready, pend, added, delivered, failed, res>>
\* Mutants: the roll-back keeps the references; a total failure goes unnoticed.
MutRollback(s) ==
    /\ delivered[s] = {}
    /\ pend' = [pend EXCEPT ![s] = {}]
    /\ Goto(s, "release")
MutUnnoticed(s) ==
    /\ delivered[s] = {}
    /\ Goto(s, "move")
    /\ UNCHANGED pend
\* rollbackSenderMessage: releaseAttachmentRefs, then HardDelete.
Rollback(s) ==
    /\ delivered[s] = {}
    /\ pend' = [pend EXCEPT ![s] = Carries[s]]
    /\ Goto(s, "release")

\* sendDraft steps 8 and 9: with no delivery at all the sender copy is rolled
\* back.
Settle(s) ==
    /\ pc[s] = "settle"
    /\ cur' = [cur EXCEPT ![s] = SenderCopy]
    /\ \/ Rollback(s)
       \/ /\ delivered[s] # {}
          /\ Goto(s, "move")
          /\ UNCHANGED pend
    /\ UNCHANGED <<attachVars, mailVars, histVars, purging, faults,
                   attempt, todo, ready, added, delivered, failed, res>>

\* finalizeDelivery: move the sender copy to the sent folder, wherever its owner
\* has moved it meanwhile; it fails when the owner has deleted it.
MoveToSent(s) ==
    /\ pc[s] = "move"
    /\ \/ /\ folder[OwnCopy(s)] # "gone" /\ NoFault
          /\ folder' = [folder EXCEPT ![OwnCopy(s)] = "sent"]
          /\ Goto(s, "draft")
          /\ UNCHANGED <<sem, res>>
       \/ /\ \/ folder[OwnCopy(s)] = "gone" /\ NoFault
             \/ folder[OwnCopy(s)] # "gone" /\ Fault
          /\ Return(s, {"msg", "error"})
          /\ UNCHANGED folder
    /\ UNCHANGED <<attachVars, drafts, received, sentEvent, histVars, purging,
                   attempt, cur, todo, ready, pend, added, delivered, failed>>

\* finalizeDelivery: delete the saved draft; a failure is only logged.
DeleteDraft(s) ==
    /\ pc[s] = "draft"
    /\ \/ drafts' = drafts \ {s} /\ NoFault
       \/ UNCHANGED drafts /\ Fault
    /\ Goto(s, "get")
    /\ UNCHANGED <<attachVars, folder, sem, received, sentEvent, histVars, purging,
                   attempt, cur, todo, ready, pend, added, delivered, failed, res>>

\* finalizeDelivery: fetch the sender copy again; its owner may have deleted it.
Refetch(s) ==
    /\ pc[s] = "get"
    /\ \/ /\ folder[OwnCopy(s)] # "gone" /\ NoFault
          /\ Goto(s, "publish")
          /\ UNCHANGED <<sem, res>>
       \/ /\ \/ folder[OwnCopy(s)] = "gone" /\ NoFault
             \/ folder[OwnCopy(s)] # "gone" /\ Fault
          /\ Return(s, {"msg", "error"})
    /\ UNCHANGED <<attachVars, folder, drafts, received, sentEvent, histVars, purging,
                   attempt, cur, todo, ready, pend, added, delivered, failed>>

\* Mutant: the event names every target.
MutSentRecipients(s) == Targets[s]
SentRecipients(s) == delivered[s]

\* finalizeDelivery: publish MessageSent for the newly delivered recipients.
\* A publish error ends the call only when event errors are fatal.
PublishSent(s) ==
    /\ pc[s] = "publish"
    /\ \/ /\ NoFault
          /\ sentEvent' = [sentEvent EXCEPT ![<<s, attempt[s]>>] = SentRecipients(s)]
          /\ Goto(s, "after")
          /\ UNCHANGED <<sem, res>>
       \/ /\ Fault /\ ~EventErrorsFatal
          /\ Goto(s, "after")
          /\ UNCHANGED <<sem, res, sentEvent>>
       \/ /\ Fault /\ EventErrorsFatal
          /\ Return(s, {"msg", "error"})
          /\ UNCHANGED sentEvent
    /\ UNCHANGED <<attachVars, folder, drafts, received, histVars, purging,
                   attempt, cur, todo, ready, pend, added, delivered, failed>>

\* plugins.afterSend, and the return of sendDraft.
AfterSend(s) ==
    /\ pc[s] = "after"
    /\ \/ Return(s, {"msg"}) /\ NoFault
       \/ Return(s, {"msg", "error"}) /\ Fault
    /\ UNCHANGED <<attachVars, folder, drafts, received, sentEvent, histVars, purging,
                   attempt, cur, todo, ready, pend, added, delivered, failed>>

\* The caller calls Send again on a draft whose last Send returned an error.
Retry(s) ==
    /\ pc[s] = "done"
    /\ "error" \in res[s]
    /\ attempt[s] < MaxAttempts
    /\ attempt' = [attempt EXCEPT ![s] = @ + 1]
    /\ Goto(s, "idle")
    /\ todo' = [todo EXCEPT ![s] = {}]
    /\ ready' = [ready EXCEPT ![s] = {}]
    /\ delivered' = [delivered EXCEPT ![s] = {}]
    /\ failed' = [failed EXCEPT ![s] = {}]
    /\ UNCHANGED <<attachVars, mailVars, histVars, purging, faults, cur, pend, added, res>>
-----------------------------------------------------------------------------
\* A call is between creating the copy and having settled its references.
Working(c) ==
    /\ c[2] = attempt[c[1]]
    /\ pc[c[1]] \in {"add", "undo", "release", "quota", "batch", "next", "settle", "move"}

\* No call works on copy c any more: a recipient copy was delivered, a sender
\* copy was left in its folder with its references.
Complete(c) == c \notin orphans /\ (c \in got \/ (c[3] = SenderCopy /\ ~Working(c)))

\* userMailbox.Delete: the owner moves a copy to the trash.  A copy is in its
\* owner's mailbox from the moment the store has created it.
Trash(c) ==
    /\ <<c[1], c[3]>> \in Deleters
    /\ folder[c] \in {"outbox", "inbox", "sent"}
    /\ folder' = [folder EXCEPT ![c] = "trash"]
    /\ UNCHANGED <<attachVars, drafts, sem, received, sentEvent, sendVars, histVars,
                   purging, faults>>

\* userMailbox.PermanentlyDelete: HardDelete and the MessageDeleted event, then
\* releaseAttachmentRefs.  A fatal publish error returns before the release.
PermanentlyDelete(c) ==
    /\ folder[c] = "trash"
    /\ folder' = [folder EXCEPT ![c] = "gone"]
    /\ hasty' = (hasty \/ ~Complete(c))
    /\ \/ /\ NoFault
          /\ purging' = [purging EXCEPT ![c] = Carries[c[1]]]
       \/ /\ Fault
          /\ purging' = [purging EXCEPT ![c] = IF EventErrorsFatal THEN {} ELSE Carries[c[1]]]
    /\ UNCHANGED <<attachVars, drafts, sem, received, sentEvent, sendVars,
                   got, orphans, refFailed>>

\* PermanentlyDelete: one round of releaseAttachmentRefs.
PurgeOne(c) ==
    /\ \E a \in purging[c] :
          /\ Unref(c, a)
          /\ purging' = [purging EXCEPT ![c] = @ \ {a}]
    /\ UNCHANGED <<mailVars, sendVars, histVars>>
-----------------------------------------------------------------------------
\* What the goroutine of call s does next, short of being cancelled.
SendStep(s) ==
    \/ Validate(s) \/ Acquire(s) \/ BeforeSend(s) \/ CreateSender(s)
    \/ AddOne(s) \/ AddFails(s) \/ ReleaseOne(s) \/ ReleaseAfterUndo(s) \/ Drop(s)
    \/ BeginDelivery(s) \/ CheckQuota(s) \/ EndQuota(s)
    \/ CreateOne(s) \/ BatchFails(s) \/ EndBatch(s)
    \/ BeginRecipient(s) \/ Deliver(s) \/ EndDelivery(s)
    \/ Settle(s) \/ MoveToSent(s) \/ DeleteDraft(s) \/ Refetch(s)
    \/ PublishSent(s) \/ AfterSend(s)

OwnerStep(c) == Trash(c) \/ PermanentlyDelete(c) \/ PurgeOne(c)

Next ==
    \/ \E s \in Send : SendStep(s) \/ CancelAcquire(s) \/ Retry(s)
    \/ \E c \in Copy : OwnerStep(c)

\* A goroutine that can go on does so: every store, bus and plugin call returns,
\* with a result or an error.
Fairness == \A s \in Send : WF_vars(SendStep(s))

Spec == Init /\ [][Next]_vars /\ Fairness
-----------------------------------------------------------------------------
(* Properties *)

\* Every variable has its type.
TypeOK ==
    /\ AttachTypeOK(Copy)
    /\ folder \in [Copy -> Place]
    /\ drafts \subseteq Send
    /\ sem \in 0 .. MaxConcurrentSends
    /\ received \subseteq Copy
    /\ sentEvent \in [Send \X (1 .. MaxAttempts) -> SUBSET User]
    /\ pc \in [Send -> Label]
    /\ attempt \in [Send -> 1 .. MaxAttempts]
    /\ cur \in [Send -> Owner]
    /\ todo \in [Send -> SUBSET User]
    /\ ready \in [Send -> SUBSET User]
    /\ pend \in [Send -> SUBSET Attachment]
    /\ added \in [Send -> SUBSET Attachment]
    /\ delivered \in [Send -> SUBSET User]
    /\ failed \in [Send -> SUBSET User]
    /\ res \in [Send -> Result]
    /\ purging \in [Copy -> SUBSET Attachment]
    /\ faults \in 0 .. MaxFaults
    /\ got \subseteq Copy
    /\ orphans \subseteq Copy
    /\ refFailed \in BOOLEAN
    /\ hasty \in BOOLEAN

\* Every attachment of every copy that its owner can work with has its metadata
\* row and its file: no interleaving of sends, roll-backs and permanent deletes
\* deletes a file that a stored message still refers to
\* (store/attachment.go:30 "safe deletion of attachment files when no messages
\* reference them").
HoldersKeepFiles ==
    \A c \in Copy : Complete(c) /\ folder[c] \in Stored
                        => Carries[c[1]] \subseteq meta \intersect files

\* HoldersKeepFiles, as long as no owner has permanently deleted a copy that a
\* call was still working on: a failed addAttachmentRefs rolls back what it added
\* (attachment.go:156) and nothing else.
FailedAddRefsHarmless == ~hasty => HoldersKeepFiles

\* HoldersKeepFiles, as long as no addAttachmentRefs call has failed and no owner
\* has permanently deleted a copy that a call was still working on.
AttachmentsSafe == ~refFailed /\ ~hasty => HoldersKeepFiles

\* When every call has returned, no call failed, no reference could not be added
\* and no owner deleted a copy too early, the count of an attachment is the
\* number of stored copies that carry it: roll-backs after a rejected quota and
\* permanent deletes give back exactly what was taken.
Quiet == /\ \A s \in Send : pc[s] \in {"idle", "done"}
         /\ \A c \in Copy : purging[c] = {}
RefsBalanced ==
    Quiet /\ faults = MaxFaults /\ ~refFailed /\ ~hasty =>
        \A a \in Attachment :
            refs[a] = Cardinality({c \in Copy : folder[c] \in Stored /\ a \in Carries[c[1]]})

\* What Send returned agrees with the mailboxes.  With a message: delivered and
\* failed recipients split the targets, somebody was delivered to, and the
\* partial-delivery error is there exactly when somebody failed, whatever else
\* went wrong after (send.go:509-511).
TruthfulResult ==
    \A s \in Send : pc[s] = "done" /\ "msg" \in res[s] =>
        /\ delivered[s] # {}
        /\ delivered[s] \union failed[s] = Targets[s]
        /\ delivered[s] \intersect failed[s] = {}
        /\ "partial" \in res[s] <=> failed[s] # {}
        /\ \A r \in delivered[s] : CopyOf(s, r) \in got

\* A call that has returned leaves no copy behind that it did not report: every
\* stored recipient copy belongs to a delivered recipient, and without a message
\* there is no sender copy, except for copies whose roll-back delete failed.
NothingLeftBehind ==
    \A s \in Send : pc[s] = "done" =>
        /\ \A r \in User : folder[CopyOf(s, r)] \in Stored
                => r \in delivered[s] \/ CopyOf(s, r) \in orphans
        /\ "msg" \notin res[s] /\ folder[OwnCopy(s)] \in Stored => OwnCopy(s) \in orphans

\* The saved draft is deleted only after some recipient has the message: no
\* failure loses both the draft and the message.
DraftNotLost == \A s \in Send : s \notin drafts => \E c \in got : c[1] = s

\* Events follow deliveries: MessageReceived is published only for a delivered
\* copy, and a MessageSent event names exactly the recipients of its attempt
\* that were delivered to (it drives the stats, send.go:503-505).
EventsMatchDelivery ==
    /\ received \subseteq got
    /\ \A s \in Send, n \in 1 .. MaxAttempts :
          sentEvent[<<s, n>>] # {} => sentEvent[<<s, n>>] = {r \in User : <<s, n, r>> \in got}

\* The quota check is made before the copies are created, so concurrent sends
\* overshoot it (quota.go:20-22 "a small overshoot"); the send semaphore bounds
\* by how much.
QuotaOvershootBounded ==
    MaxMessages > 0 =>
        \A r \in User : MessageCount(r) <= MaxMessages + MaxConcurrentSends - 1

\* A recipient has at most one copy of a draft, however often its Send is
\* retried (README.md:35 "Per-recipient deduplication with safe retry after
\* partial failure").
NoDuplicateDelivery ==
    \A c, d \in got : c[1] = d[1] /\ c[3] = d[3] => c = d

\* Every Send that waits for a slot or goes on returns, so slots are given back
\* on every path.
SendReturns == \A s \in Send : pc[s] # "idle" ~> pc[s] = "done"
=============================================================================
