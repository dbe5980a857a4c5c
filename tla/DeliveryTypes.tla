--------------------------- MODULE DeliveryTypes ----------------------------
(* The types of Delivery and the slots of its semaphore, for every value of *)
(* the constants.                                                           *)
EXTENDS Delivery, TLAPS

\* TypeOK without the bound on sem, which needs the slot count below.
TypeCore ==
    /\ AttachTypeOK(Copy)
    /\ folder \in [Copy -> Place]
    /\ drafts \subseteq Send
    /\ sem \in Int
    /\ received \subseteq Copy
    /\ sentEvent \in [Send \X (1 .. MaxAttempts) -> SUBSET User]
    /\ pc \in [Send -> Label]
    /\ attempt \in [Send -> 1 .. MaxAttempts]
    /\ cur \in [Send -> Owner]
    /\ todo \in [Send -> SUBSET User]
    /\ ready \in [Send -> SUBSET User]
    /\ pend \in [Send -> SUBSET Attachment]
    /\ added \in [Send -> SUBSET Attachment]
    /\ delivered \in [Send -> SUBSET User]
    /\ failed \in [Send -> SUBSET User]
    /\ res \in [Send -> Result]
    /\ purging \in [Copy -> SUBSET Attachment]
    /\ faults \in 0 .. MaxFaults
    /\ got \subseteq Copy
    /\ orphans \subseteq Copy
    /\ refFailed \in BOOLEAN
    /\ hasty \in BOOLEAN

\* An update keeps the type of a function.
LEMMA ExceptType ==
    ASSUME NEW D, NEW R, NEW f \in [D -> R], NEW d \in D, NEW r \in R
    PROVE  [f EXCEPT ![d] = r] \in [D -> R]
OBVIOUS

\* Copies of the current attempt are copies.
LEMMA CopyType ==
    ASSUME TypeCore, NEW s \in Send
    PROVE  /\ CurCopy(s) \in Copy
           /\ OwnCopy(s) \in Copy
           /\ \A r \in User : CopyOf(s, r) \in Copy
BY DEF TypeCore, CurCopy, OwnCopy, CopyOf, Copy, Owner

\* A fault uses up one of the faults.
LEMMA FaultType ==
    ASSUME TypeCore, Fault \/ NoFault
    PROVE  faults' \in 0 .. MaxFaults
BY BoundAssumption DEF TypeCore, Fault, NoFault

\* Taking back a reference keeps the types of the attachment variables.
LEMMA UnrefType ==
    ASSUME TypeCore, NEW h \in Copy, NEW a \in Attachment, Unref(h, a)
    PROVE  AttachTypeOK(Copy)' /\ (Fault \/ NoFault)
BY DEF TypeCore, AttachTypeOK, Unref, RemoveRef, RemoveRefKeepFile, attachVars

\* A MessageSent event names users.
LEMMA SentEventType ==
    ASSUME TypeCore, NEW s \in Send, PublishSent(s)
    PROVE  sentEvent' \in [Send \X (1 .. MaxAttempts) -> SUBSET User]
<1>1. \/ sentEvent' = sentEvent
      \/ sentEvent' = [sentEvent EXCEPT ![<<s, attempt[s]>>] = SentRecipients(s)]
  BY Zenon DEF PublishSent
<1>2. SentRecipients(s) \in SUBSET User /\ attempt[s] \in 1 .. MaxAttempts
  BY DEF SentRecipients, TypeCore
<1>3. sentEvent \in [Send \X (1 .. MaxAttempts) -> SUBSET User]
  BY DEF TypeCore
<1>4. [sentEvent EXCEPT ![<<s, attempt[s]>>] = SentRecipients(s)]
          \in [Send \X (1 .. MaxAttempts) -> SUBSET User]
  BY <1>2, <1>3, ExceptType
<1>q. QED
  BY <1>1, <1>3, <1>4, Zenon

\* A return keeps the types.
LEMMA ReturnType ==
    ASSUME TypeCore, NEW s \in Send, NEW ret \in Result, Return(s, ret)
    PROVE  pc' \in [Send -> Label] /\ sem' \in Int /\ res' \in [Send -> Result]
<1>1. Outcome(s, ret) \in Result
  BY DEF Outcome, Result
<1>2. res' = [res EXCEPT ![s] = Outcome(s, ret)] /\ pc' = [pc EXCEPT ![s] = "done"]
  BY Zenon DEF Return, Goto
<1>3. sem' = sem + 1 /\ "done" \in Label
  BY DEF Return, ReleaseSlot, Label
<1>q. QED
  BY <1>1, <1>2, <1>3 DEF TypeCore

\* Every step keeps the types.
LEMMA TypeCoreStep == TypeCore /\ [Next]_vars => TypeCore'
<1> SUFFICES ASSUME TypeCore, [Next]_vars PROVE TypeCore'
  OBVIOUS
<1> USE SendAssumption DEF TypeCore, AttachTypeOK, attachVars, mailVars, sendVars, histVars,
        Owner, Place, Label, Result, Goto
<1>1. ASSUME NEW s \in Send, Validate(s) PROVE TypeCore'
  <2>1. faults' \in 0 .. MaxFaults
    BY <1>1, FaultType DEF Validate
  <2>2. res' \in [Send -> Result]
    BY <1>1 DEF Validate, Outcome
  <2>q. QED
    BY <1>1, <2>1, <2>2 DEF Validate, Outcome
<1>2. ASSUME NEW s \in Send, Acquire(s) PROVE TypeCore'
  BY <1>2 DEF Acquire
<1>3. ASSUME NEW s \in Send, BeforeSend(s) PROVE TypeCore'
  <2>1. faults' \in 0 .. MaxFaults
    BY <1>3, FaultType DEF BeforeSend
  <2>2. res' \in [Send -> Result]
    BY <1>3 DEF BeforeSend, Return, Outcome
  <2>q. QED
    BY <1>3, <2>1, <2>2 DEF BeforeSend, Return, ReleaseSlot, Outcome
<1>4. ASSUME NEW s \in Send, CreateSender(s) PROVE TypeCore'
  <2>1. CASE Return(s, {"error"}) /\ Fault
    <3>1. faults' \in 0 .. MaxFaults
      BY <2>1, FaultType
    <3>q. QED
      BY <1>4, <2>1, <3>1 DEF CreateSender, Return, ReleaseSlot, Outcome, Fault
  <2>2. CASE NoFault
    <3>1. OwnCopy(s) \in Copy
      BY CopyType
    <3>2. faults' = faults /\ faults \in Int
      BY <2>2 DEF NoFault
    <3>3. /\ folder' = [folder EXCEPT ![OwnCopy(s)] = "outbox"]
          /\ cur' = [cur EXCEPT ![s] = SenderCopy]
          /\ pend' = [pend EXCEPT ![s] = Carries[s]]
          /\ added' = [added EXCEPT ![s] = {}]
          /\ Goto(s, "add")
          /\ UNCHANGED <<sem, res>>
      BY <1>4, <3>2 DEF CreateSender, Fault
    <3>4. UNCHANGED <<attachVars, drafts, received, sentEvent, histVars, purging,
                      attempt, todo, ready, delivered, failed>>
      BY <1>4 DEF CreateSender
    <3>q. QED
      BY <3>1, <3>2, <3>3, <3>4
  <2>q. QED
    BY <1>4, <2>1, <2>2, Zenon DEF CreateSender
<1>5. ASSUME NEW s \in Send, AddOne(s) PROVE TypeCore'
  BY <1>5, CopyType DEF AddOne, AddRef
<1>6. ASSUME NEW s \in Send, AddFails(s) PROVE TypeCore'
  <2>1. faults' \in 0 .. MaxFaults
    BY <1>6, FaultType DEF AddFails
  <2>q. QED
    BY <1>6, <2>1 DEF AddFails
<1>7. ASSUME NEW s \in Send, ReleaseOne(s) PROVE TypeCore'
  <2>1. faults' \in 0 .. MaxFaults
    BY <1>7, FaultType, UnrefType, CopyType DEF ReleaseOne
  <2>2. AttachTypeOK(Copy)'
    BY <1>7, UnrefType, CopyType DEF ReleaseOne
  <2>q. QED
    BY <1>7, <2>1, <2>2 DEF ReleaseOne
<1>8. ASSUME NEW s \in Send, ReleaseAfterUndo(s) PROVE TypeCore'
  BY <1>8 DEF ReleaseAfterUndo
<1>9. ASSUME NEW s \in Send, Drop(s) PROVE TypeCore'
  <2>1. faults' \in 0 .. MaxFaults
    BY <1>9, FaultType DEF Drop, HardDelete
  <2>a. CurCopy(s) \in Copy
    BY CopyType
  <2>2. folder' \in [Copy -> Place] /\ orphans' \subseteq Copy
    BY <1>9, <2>a DEF Drop, HardDelete
  <2>b. UNCHANGED <<attachVars, drafts, received, sentEvent, got, refFailed, hasty, purging,
                    attempt, cur, todo, ready, pend, added, delivered>>
    BY <1>9 DEF Drop
  <2>3. CASE cur[s] = SenderCopy
    <3>1. Return(s, {"error"}) /\ UNCHANGED failed
      BY <1>9, <2>3 DEF Drop
    <3>q. QED
      BY <2>1, <2>2, <2>b, <3>1 DEF Return, ReleaseSlot, Outcome
  <2>4. CASE cur[s] # SenderCopy
    <3>1. cur[s] \in User
      BY <2>4
    <3>2. /\ failed' = [failed EXCEPT ![s] = @ \union {cur[s]}]
          /\ Goto(s, "next")
          /\ UNCHANGED <<sem, res>>
      BY <1>9, <2>4 DEF Drop
    <3>q. QED
      BY <2>1, <2>2, <2>b, <3>1, <3>2
  <2>q. QED
    BY <2>3, <2>4
<1>10. ASSUME NEW s \in Send, BeginDelivery(s) PROVE TypeCore'
  BY <1>10 DEF BeginDelivery
<1>11. ASSUME NEW s \in Send, CheckQuota(s) PROVE TypeCore'
  <2>1. faults' \in 0 .. MaxFaults
    BY <1>11, FaultType DEF CheckQuota
  <2>2. todo' \in [Send -> SUBSET User] /\ ready' \in [Send -> SUBSET User]
    BY <1>11, SMTT(20) DEF CheckQuota
  <2>3. failed' \in [Send -> SUBSET User]
    BY <1>11 DEF CheckQuota
  <2>4. UNCHANGED <<attachVars, mailVars, histVars, purging,
                    pc, attempt, cur, pend, added, delivered, res>>
    BY <1>11 DEF CheckQuota
  <2>q. QED
    BY <2>1, <2>2, <2>3, <2>4
<1>12. ASSUME NEW s \in Send, EndQuota(s) PROVE TypeCore'
  BY <1>12 DEF EndQuota
<1>13. ASSUME NEW s \in Send, CreateOne(s) PROVE TypeCore'
  <2>1. faults' \in 0 .. MaxFaults
    BY <1>13, FaultType DEF CreateOne
  <2>2. folder' \in [Copy -> Place]
    BY <1>13, CopyType, SMTT(20) DEF CreateOne
  <2>a. PICK r \in todo[s] :
           /\ todo' = [todo EXCEPT ![s] = @ \ {r}]
           /\ ready' = ready \/ ready' = [ready EXCEPT ![s] = @ \union {r}]
           /\ failed' = failed \/ failed' = [failed EXCEPT ![s] = @ \union {r}]
    BY <1>13, Zenon DEF CreateOne
  <2>3. todo' \in [Send -> SUBSET User] /\ ready' \in [Send -> SUBSET User]
    BY <2>a
  <2>4. failed' \in [Send -> SUBSET User]
    BY <2>a
  <2>5. UNCHANGED <<attachVars, drafts, sem, received, sentEvent, histVars, purging,
                    pc, attempt, cur, pend, added, delivered, res>>
    BY <1>13 DEF CreateOne
  <2>q. QED
    BY <2>1, <2>2, <2>3, <2>4, <2>5
<1>14. ASSUME NEW s \in Send, BatchFails(s) PROVE TypeCore'
  <2>1. faults' \in 0 .. MaxFaults
    BY <1>14, FaultType DEF BatchFails
  <2>q. QED
    BY <1>14, <2>1 DEF BatchFails
<1>15. ASSUME NEW s \in Send, EndBatch(s) PROVE TypeCore'
  BY <1>15 DEF EndBatch
<1>16. ASSUME NEW s \in Send, BeginRecipient(s) PROVE TypeCore'
  BY <1>16 DEF BeginRecipient, RefsToTake
<1>17. ASSUME NEW s \in Send, Deliver(s) PROVE TypeCore'
  <2>1. faults' \in 0 .. MaxFaults
    BY <1>17, FaultType DEF Deliver
  <2>q. QED
    BY <1>17, <2>1, CopyType DEF Deliver
<1>18. ASSUME NEW s \in Send, EndDelivery(s) PROVE TypeCore'
  BY <1>18 DEF EndDelivery
<1>19. ASSUME NEW s \in Send, Settle(s) PROVE TypeCore'
  <2>1. pend' \in [Send -> SUBSET Attachment]
    BY <1>19, SMTT(20) DEF Settle, Rollback
  <2>2. pc' \in [Send -> Label]
    BY <1>19 DEF Settle, Rollback
  <2>q. QED
    BY <1>19, <2>1, <2>2, Zenon DEF Settle
<1>20. ASSUME NEW s \in Send, MoveToSent(s) PROVE TypeCore'
  <2>1. faults' \in 0 .. MaxFaults
    BY <1>20, FaultType DEF MoveToSent
  <2>2. res' \in [Send -> Result]
    BY <1>20 DEF MoveToSent, Return, Outcome
  <2>3. folder' \in [Copy -> Place]
    BY <1>20, CopyType DEF MoveToSent
  <2>4. pc' \in [Send -> Label] /\ sem' \in Int
    BY <1>20 DEF MoveToSent, Return, ReleaseSlot
  <2>5. UNCHANGED <<attachVars, drafts, received, sentEvent, histVars, purging,
                    attempt, cur, todo, ready, pend, added, delivered, failed>>
    BY <1>20 DEF MoveToSent
  <2>q. QED
    BY <2>1, <2>2, <2>3, <2>4, <2>5
<1>21. ASSUME NEW s \in Send, DeleteDraft(s) PROVE TypeCore'
  <2>1. faults' \in 0 .. MaxFaults
    BY <1>21, FaultType DEF DeleteDraft
  <2>q. QED
    BY <1>21, <2>1 DEF DeleteDraft
<1>22. ASSUME NEW s \in Send, Refetch(s) PROVE TypeCore'
  <2>1. faults' \in 0 .. MaxFaults
    BY <1>22, FaultType DEF Refetch
  <2>2. res' \in [Send -> Result]
    BY <1>22 DEF Refetch, Return, Outcome
  <2>q. QED
    BY <1>22, <2>1, <2>2, SMTT(20) DEF Refetch, Return, ReleaseSlot, Outcome
<1>23. ASSUME NEW s \in Send, PublishSent(s) PROVE TypeCore'
  <2>1. faults' \in 0 .. MaxFaults
    BY <1>23, FaultType DEF PublishSent
  <2>2. pc' \in [Send -> Label] /\ sem' \in Int /\ res' \in [Send -> Result]
    <3>1. CASE Return(s, {"msg", "error"})
      BY <3>1, ReturnType
    <3>2. CASE Goto(s, "after") /\ UNCHANGED <<sem, res>>
      BY <3>2
    <3>q. QED
      BY <1>23, <3>1, <3>2, Zenon DEF PublishSent
  <2>3. sentEvent' \in [Send \X (1 .. MaxAttempts) -> SUBSET User]
    BY <1>23, SentEventType
  <2>4. UNCHANGED <<attachVars, folder, drafts, received, histVars, purging,
                    attempt, cur, todo, ready, pend, added, delivered, failed>>
    BY <1>23, Zenon DEF PublishSent
  <2>q. QED
    BY <2>1, <2>2, <2>3, <2>4
<1>24. ASSUME NEW s \in Send, AfterSend(s) PROVE TypeCore'
  <2>1. faults' \in 0 .. MaxFaults
    BY <1>24, FaultType DEF AfterSend
  <2>2. pc' \in [Send -> Label] /\ sem' \in Int /\ res' \in [Send -> Result]
    <3>1. CASE Return(s, {"msg"})
      BY <3>1, ReturnType
    <3>2. CASE Return(s, {"msg", "error"})
      BY <3>2, ReturnType
    <3>q. QED
      BY <1>24, <3>1, <3>2, Zenon DEF AfterSend
  <2>q. QED
    BY <1>24, <2>1, <2>2 DEF AfterSend
<1>25. ASSUME NEW s \in Send, CancelAcquire(s) PROVE TypeCore'
  <2>1. faults' \in 0 .. MaxFaults
    BY <1>25, FaultType DEF CancelAcquire
  <2>2. res' \in [Send -> Result]
    BY <1>25 DEF CancelAcquire, Outcome
  <2>q. QED
    BY <1>25, <2>1, <2>2 DEF CancelAcquire, Outcome
<1>26. ASSUME NEW s \in Send, Retry(s) PROVE TypeCore'
  BY <1>26, BoundAssumption DEF Retry
<1>27. ASSUME NEW c \in Copy, Trash(c) PROVE TypeCore'
  BY <1>27 DEF Trash
<1>28. ASSUME NEW c \in Copy, PermanentlyDelete(c) PROVE TypeCore'
  <2>1. faults' \in 0 .. MaxFaults
    BY <1>28, FaultType DEF PermanentlyDelete
  <2>q. QED
    BY <1>28, <2>1 DEF PermanentlyDelete, Copy
<1>29. ASSUME NEW c \in Copy, PurgeOne(c) PROVE TypeCore'
  <2>1. faults' \in 0 .. MaxFaults
    BY <1>29, FaultType, UnrefType, SMTT(20) DEF PurgeOne
  <2>2. AttachTypeOK(Copy)'
    BY <1>29, UnrefType DEF PurgeOne
  <2>3. purging' \in [Copy -> SUBSET Attachment]
    BY <1>29 DEF PurgeOne
  <2>4. UNCHANGED <<mailVars, sendVars, histVars>>
    BY <1>29 DEF PurgeOne
  <2>q. QED
    BY <2>1, <2>2, <2>3, <2>4, SMTT(20)
<1>30. CASE UNCHANGED vars
  BY <1>30 DEF vars
<1>q. QED
  BY <1>1, <1>2, <1>3, <1>4, <1>5, <1>6, <1>7, <1>8, <1>9, <1>10, <1>11, <1>12, <1>13,
     <1>14, <1>15, <1>16, <1>17, <1>18, <1>19, <1>20, <1>21, <1>22, <1>23, <1>24, <1>25,
     <1>26, <1>27, <1>28, <1>29, <1>30, Zenon DEF Next, SendStep, OwnerStep

=============================================================================
