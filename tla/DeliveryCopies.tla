--------------------------- MODULE DeliveryCopies ---------------------------
(* What the program counter of a call says of the copies it works on.       *)
EXTENDS DeliveryTypes

\* c is the copy o of the current attempt of its send.
Now(c, o) == c[2] = attempt[c[1]] /\ c[3] = o

\* addAttachmentRefs has not begun for c.
Fresh(c) ==
    \/ c[2] > attempt[c[1]]
    \/ /\ c[2] = attempt[c[1]]
       /\ \/ pc[c[1]] \in {"idle", "acquire", "before", "create"}
          \/ c[3] \in User /\ pc[c[1]] = "quota"
          \/ c[3] \in User /\ pc[c[1]] = "add" /\ cur[c[1]] = SenderCopy
          \/ c[3] \in todo[c[1]] \union ready[c[1]] /\ pc[c[1]] = "batch"
          \/ c[3] \in todo[c[1]] /\ pc[c[1]] \in {"add", "next"}

\* c is a sender copy that holds its references until it is moved or rolled back.
Held(c) ==
    /\ Now(c, SenderCopy)
    /\ \/ pc[c[1]] \in {"quota", "batch", "next", "settle", "move"}
       \/ pc[c[1]] = "add" /\ cur[c[1]] # SenderCopy

\* What the program counter of its send says of a copy.
CopyInv(c) ==
    /\ Fresh(c) => /\ c \notin got
                   /\ folder[c] # "gone"
                   /\ c[3] = SenderCopy => folder[c] = "none"
                   /\ owns[c] = {}
    /\ pc[c[1]] = "add" /\ Now(c, cur[c[1]]) =>
           /\ c \notin got
           /\ folder[c] # "gone"
           /\ c[3] \notin todo[c[1]]
           /\ pend[c[1]] \intersect owns[c] = {}
           /\ Carries[c[1]] \ pend[c[1]] \subseteq owns[c]
    /\ Held(c) => folder[c] # "gone" /\ Carries[c[1]] \subseteq owns[c]
    /\ pc[c[1]] # "undo"
    /\ pc[c[1]] = "release" => cur[c[1]] = SenderCopy
    /\ pc[c[1]] = "release" /\ Now(c, SenderCopy) =>
           folder[c] # "gone" /\ pend[c[1]] \subseteq owns[c]
    /\ c \in got => c[3] # SenderCopy
    /\ Complete(c) /\ folder[c] \in Stored => Carries[c[1]] \subseteq owns[c]
    /\ purging[c] \subseteq owns[c]
    /\ purging[c] # {} => folder[c] = "gone"

\* When a copy is the one a call works on.
LEMMA CopyIs ==
    ASSUME NEW c \in Copy, NEW s
    PROVE  /\ c[1] \in Send /\ c[2] \in 1 .. MaxAttempts /\ c[3] \in Owner
           /\ c = CurCopy(s) <=> c[1] = s /\ c[2] = attempt[s] /\ c[3] = cur[s]
           /\ c = OwnCopy(s) <=> c[1] = s /\ c[2] = attempt[s] /\ c[3] = SenderCopy
           /\ \A r : c = CopyOf(s, r) <=> c[1] = s /\ c[2] = attempt[s] /\ c[3] = r
BY DEF Copy, CurCopy, OwnCopy, CopyOf

\* A step keeps what the program counters say of a copy.
LEMMA CopyInvStep ==
    ASSUME TypeCore, Next, ~refFailed', ~hasty', NEW c \in Copy, CopyInv(c)
    PROVE  CopyInv(c)'
<1>a. /\ c[1] \in Send /\ c[2] \in 1 .. MaxAttempts /\ c[3] \in Owner
      /\ \A s : c = CurCopy(s) <=> c[1] = s /\ c[2] = attempt[s] /\ c[3] = cur[s]
      /\ \A s : c = OwnCopy(s) <=> c[1] = s /\ c[2] = attempt[s] /\ c[3] = SenderCopy
      /\ \A s, r : c = CopyOf(s, r) <=> c[1] = s /\ c[2] = attempt[s] /\ c[3] = r
  BY CopyIs
<1>b. /\ folder \in [Copy -> Place] /\ owns \in [Copy -> SUBSET Attachment]
      /\ pc \in [Send -> Label] /\ attempt \in [Send -> 1 .. MaxAttempts]
      /\ cur \in [Send -> Owner] /\ pend \in [Send -> SUBSET Attachment]
      /\ todo \in [Send -> SUBSET User] /\ ready \in [Send -> SUBSET User]
      /\ purging \in [Copy -> SUBSET Attachment]
      /\ SenderCopy \notin User /\ Carries \in [Send -> SUBSET Attachment]
      /\ Targets \in [Send -> SUBSET User]
  BY SendAssumption DEF TypeCore, AttachTypeOK
<1> USE <1>a, <1>b DEF CopyInv, Fresh, Held, Now, Complete, Working, Stored, Owner, Goto,
                       attachVars, mailVars, sendVars, histVars
<1>1. ASSUME NEW t \in Send, Validate(t) PROVE CopyInv(c)'
  BY <1>1 DEF Validate
<1>2. ASSUME NEW t \in Send, Acquire(t) PROVE CopyInv(c)'
  BY <1>2 DEF Acquire
<1>3. ASSUME NEW t \in Send, BeforeSend(t) PROVE CopyInv(c)'
  BY <1>3 DEF BeforeSend, Return, ReleaseSlot
<1>4. ASSUME NEW t \in Send, CreateSender(t) PROVE CopyInv(c)'
  BY <1>4 DEF CreateSender, Return, ReleaseSlot
<1>5. ASSUME NEW t \in Send, AddOne(t) PROVE CopyInv(c)'
  BY <1>5 DEF AddOne, AddRef
<1>6. ASSUME NEW t \in Send, AddFails(t) PROVE CopyInv(c)'
  BY <1>6 DEF AddFails
<1>7. ASSUME NEW t \in Send, ReleaseOne(t) PROVE CopyInv(c)'
  BY <1>7 DEF ReleaseOne, Unref, RemoveRef, RemoveRefKeepFile
<1>8. ASSUME NEW t \in Send, ReleaseAfterUndo(t) PROVE CopyInv(c)'
  BY <1>8 DEF ReleaseAfterUndo
<1>9. ASSUME NEW t \in Send, Drop(t) PROVE CopyInv(c)'
  BY <1>9 DEF Drop, HardDelete, Return, ReleaseSlot
<1>10. ASSUME NEW t \in Send, BeginDelivery(t) PROVE CopyInv(c)'
  BY <1>10 DEF BeginDelivery
<1>11. ASSUME NEW t \in Send, CheckQuota(t) PROVE CopyInv(c)'
  BY <1>11 DEF CheckQuota
<1>12. ASSUME NEW t \in Send, EndQuota(t) PROVE CopyInv(c)'
  BY <1>12 DEF EndQuota
<1>13. ASSUME NEW t \in Send, CreateOne(t) PROVE CopyInv(c)'
  BY <1>13 DEF CreateOne
<1>14. ASSUME NEW t \in Send, BatchFails(t) PROVE CopyInv(c)'
  BY <1>14 DEF BatchFails
<1>15. ASSUME NEW t \in Send, EndBatch(t) PROVE CopyInv(c)'
  BY <1>15, SMTT(20) DEF EndBatch
<1>16. ASSUME NEW t \in Send, BeginRecipient(t) PROVE CopyInv(c)'
  BY <1>16 DEF BeginRecipient, RefsToTake
<1>17. ASSUME NEW t \in Send, Deliver(t) PROVE CopyInv(c)'
  BY <1>17 DEF Deliver
<1>18. ASSUME NEW t \in Send, EndDelivery(t) PROVE CopyInv(c)'
  BY <1>18, SMTT(20) DEF EndDelivery
<1>19. ASSUME NEW t \in Send, Settle(t) PROVE CopyInv(c)'
  BY <1>19 DEF Settle, Rollback
<1>20. ASSUME NEW t \in Send, MoveToSent(t) PROVE CopyInv(c)'
  BY <1>20 DEF MoveToSent, Return, ReleaseSlot
<1>21. ASSUME NEW t \in Send, DeleteDraft(t) PROVE CopyInv(c)'
  BY <1>21, SMTT(20) DEF DeleteDraft
<1>22. ASSUME NEW t \in Send, Refetch(t) PROVE CopyInv(c)'
  BY <1>22, SMTT(20) DEF Refetch, Return, ReleaseSlot
<1>23. ASSUME NEW t \in Send, PublishSent(t) PROVE CopyInv(c)'
  BY <1>23 DEF PublishSent, Return, ReleaseSlot, SentRecipients
<1>24. ASSUME NEW t \in Send, AfterSend(t) PROVE CopyInv(c)'
  BY <1>24 DEF AfterSend, Return, ReleaseSlot
<1>25. ASSUME NEW t \in Send, CancelAcquire(t) PROVE CopyInv(c)'
  BY <1>25, SMTT(20) DEF CancelAcquire
<1>26. ASSUME NEW t \in Send, Retry(t) PROVE CopyInv(c)'
  BY <1>26, SMTT(20) DEF Retry
<1>27. ASSUME NEW d \in Copy, Trash(d) PROVE CopyInv(c)'
  BY <1>27, SMTT(20) DEF Trash
<1>28. ASSUME NEW d \in Copy, PermanentlyDelete(d) PROVE CopyInv(c)'
  <2>1. /\ folder[d] = "trash" /\ Complete(d)
        /\ folder' = [folder EXCEPT ![d] = "gone"]
        /\ purging'[d] \subseteq Carries[d[1]]
        /\ \A e \in Copy \ {d} : purging'[e] = purging[e]
    <3>1. folder[d] = "trash" /\ folder' = [folder EXCEPT ![d] = "gone"] /\ Complete(d)
      BY <1>28, Zenon DEF PermanentlyDelete
    <3>2. \/ purging' = [purging EXCEPT ![d] = Carries[d[1]]]
          \/ purging' = [purging EXCEPT ![d] = IF EventErrorsFatal THEN {} ELSE Carries[d[1]]]
      BY <1>28, Zenon DEF PermanentlyDelete
    <3>q. QED
      BY <3>1, <3>2
  <2>2. UNCHANGED <<attachVars, sendVars, got, orphans>>
    BY <1>28, Zenon DEF PermanentlyDelete
  <2>3. CASE c # d
    BY <2>1, <2>2, <2>3, SMTT(20)
  <2>4. CASE c = d
    BY <2>1, <2>2, <2>4, SMTT(20)
  <2>q. QED
    BY <2>3, <2>4, Zenon
<1>29. ASSUME NEW d \in Copy, PurgeOne(d) PROVE CopyInv(c)'
  BY <1>29 DEF PurgeOne, Unref, RemoveRef, RemoveRefKeepFile
<1>q. QED
  BY <1>1, <1>2, <1>3, <1>4, <1>5, <1>6, <1>7, <1>8, <1>9, <1>10, <1>11, <1>12, <1>13,
     <1>14, <1>15, <1>16, <1>17, <1>18, <1>19, <1>20, <1>21, <1>22, <1>23, <1>24, <1>25,
     <1>26, <1>27, <1>28, <1>29, Zenon DEF Next, SendStep, OwnerStep

-----------------------------------------------------------------------------
(* The slots of the send semaphore.                                         *)

\* The calls that hold a slot.
InFlight == {s \in Send : pc[s] \notin {"idle", "acquire", "done"}}
SlotInv == sem \in Nat /\ sem = MaxConcurrentSends - Cardinality(InFlight)

\* A step takes one slot, gives one back, or leaves the slots alone.
SlotChange ==
    \/ sem' = sem /\ InFlight' = InFlight
    \/ \E s \in Send \ InFlight : sem > 0 /\ sem' = sem - 1 /\ InFlight' = InFlight \union {s}
    \/ \E s \in InFlight : sem' = sem + 1 /\ InFlight' = InFlight \ {s}

\* What has gone wrong stays on record.
Remembers == (refFailed => refFailed') /\ (hasty => hasty')

\* Every step is one of the three, and the histories never forget.
LEMMA SlotChanges ==
    ASSUME TypeCore, Next
    PROVE  SlotChange /\ Remembers
<1>a. pc \in [Send -> Label] /\ sem \in Int /\ refFailed \in BOOLEAN /\ hasty \in BOOLEAN
  BY DEF TypeCore
<1> USE <1>a DEF SlotChange, Remembers, InFlight, Goto, attachVars, mailVars, sendVars, histVars
<1>1. ASSUME NEW t \in Send, Validate(t) PROVE SlotChange /\ Remembers
  BY <1>1 DEF Validate
<1>2. ASSUME NEW t \in Send, Acquire(t) PROVE SlotChange /\ Remembers
  BY <1>2 DEF Acquire
<1>3. ASSUME NEW t \in Send, BeforeSend(t) PROVE SlotChange /\ Remembers
  BY <1>3 DEF BeforeSend, Return, ReleaseSlot
<1>4. ASSUME NEW t \in Send, CreateSender(t) PROVE SlotChange /\ Remembers
  BY <1>4 DEF CreateSender, Return, ReleaseSlot
<1>5. ASSUME NEW t \in Send, AddOne(t) PROVE SlotChange /\ Remembers
  BY <1>5, SMTT(20) DEF AddOne
<1>6. ASSUME NEW t \in Send, AddFails(t) PROVE SlotChange /\ Remembers
  BY <1>6 DEF AddFails
<1>7. ASSUME NEW t \in Send, ReleaseOne(t) PROVE SlotChange /\ Remembers
  BY <1>7 DEF ReleaseOne
<1>8. ASSUME NEW t \in Send, ReleaseAfterUndo(t) PROVE SlotChange /\ Remembers
  BY <1>8 DEF ReleaseAfterUndo
<1>9. ASSUME NEW t \in Send, Drop(t) PROVE SlotChange /\ Remembers
  BY <1>9, SMTT(20) DEF Drop, Return, ReleaseSlot
<1>10. ASSUME NEW t \in Send, BeginDelivery(t) PROVE SlotChange /\ Remembers
  BY <1>10, Zenon DEF BeginDelivery
<1>11. ASSUME NEW t \in Send, CheckQuota(t) PROVE SlotChange /\ Remembers
  BY <1>11 DEF CheckQuota
<1>12. ASSUME NEW t \in Send, EndQuota(t) PROVE SlotChange /\ Remembers
  BY <1>12 DEF EndQuota
<1>13. ASSUME NEW t \in Send, CreateOne(t) PROVE SlotChange /\ Remembers
  BY <1>13 DEF CreateOne
<1>14. ASSUME NEW t \in Send, BatchFails(t) PROVE SlotChange /\ Remembers
  BY <1>14 DEF BatchFails
<1>15. ASSUME NEW t \in Send, EndBatch(t) PROVE SlotChange /\ Remembers
  BY <1>15 DEF EndBatch
<1>16. ASSUME NEW t \in Send, BeginRecipient(t) PROVE SlotChange /\ Remembers
  BY <1>16 DEF BeginRecipient
<1>17. ASSUME NEW t \in Send, Deliver(t) PROVE SlotChange /\ Remembers
  BY <1>17 DEF Deliver
<1>18. ASSUME NEW t \in Send, EndDelivery(t) PROVE SlotChange /\ Remembers
  BY <1>18 DEF EndDelivery
<1>19. ASSUME NEW t \in Send, Settle(t) PROVE SlotChange /\ Remembers
  BY <1>19 DEF Settle, Rollback
<1>20. ASSUME NEW t \in Send, MoveToSent(t) PROVE SlotChange /\ Remembers
  BY <1>20 DEF MoveToSent, Return, ReleaseSlot
<1>21. ASSUME NEW t \in Send, DeleteDraft(t) PROVE SlotChange /\ Remembers
  BY <1>21 DEF DeleteDraft
<1>22. ASSUME NEW t \in Send, Refetch(t) PROVE SlotChange /\ Remembers
  BY <1>22 DEF Refetch, Return, ReleaseSlot
<1>23. ASSUME NEW t \in Send, PublishSent(t) PROVE SlotChange /\ Remembers
  BY <1>23 DEF PublishSent, Return, ReleaseSlot
<1>24. ASSUME NEW t \in Send, AfterSend(t) PROVE SlotChange /\ Remembers
  BY <1>24 DEF AfterSend, Return, ReleaseSlot
<1>25. ASSUME NEW t \in Send, CancelAcquire(t) PROVE SlotChange /\ Remembers
  BY <1>25, SMTT(20) DEF CancelAcquire
<1>26. ASSUME NEW t \in Send, Retry(t) PROVE SlotChange /\ Remembers
  BY <1>26 DEF Retry
<1>27. ASSUME NEW d \in Copy, Trash(d) PROVE SlotChange /\ Remembers
  BY <1>27, Zenon DEF Trash
<1>28. ASSUME NEW d \in Copy, PermanentlyDelete(d) PROVE SlotChange /\ Remembers
  BY <1>28, Zenon DEF PermanentlyDelete
<1>29. ASSUME NEW d \in Copy, PurgeOne(d) PROVE SlotChange /\ Remembers
  BY <1>29 DEF PurgeOne
<1>q. QED
  BY <1>1, <1>2, <1>3, <1>4, <1>5, <1>6, <1>7, <1>8, <1>9, <1>10, <1>11, <1>12, <1>13,
     <1>14, <1>15, <1>16, <1>17, <1>18, <1>19, <1>20, <1>21, <1>22, <1>23, <1>24, <1>25,
     <1>26, <1>27, <1>28, <1>29, Zenon DEF Next, SendStep, OwnerStep
=============================================================================
