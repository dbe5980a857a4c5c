--------------------------- MODULE DeliveryProofs ---------------------------
(* Theorems about Delivery, for every value of its constants.               *)
EXTENDS DeliveryCopies, FiniteSetTheorems

\* The slots are counted.
LEMMA SlotStep ==
    ASSUME TypeCore, SlotInv, [Next]_vars
    PROVE  SlotInv'
<1>1. CASE UNCHANGED vars
  BY <1>1 DEF SlotInv, InFlight, vars, mailVars, sendVars
<1>2. CASE Next
  <2>1. SlotChange /\ IsFiniteSet(InFlight)
    BY <1>2, SlotChanges, SendAssumption, FS_Subset DEF InFlight
  <2>2. CASE sem' = sem /\ InFlight' = InFlight
    BY <2>2 DEF SlotInv
  <2>3. CASE \E s \in Send \ InFlight : sem > 0 /\ sem' = sem - 1 /\ InFlight' = InFlight \union {s}
    <3>1. PICK s \in Send \ InFlight :
             sem > 0 /\ sem' = sem - 1 /\ InFlight' = InFlight \union {s}
      BY <2>3
    <3>2. Cardinality(InFlight') = Cardinality(InFlight) + 1
      BY <2>1, <3>1, FS_AddElement
    <3>q. QED
      BY <2>1, <3>1, <3>2, FS_CardinalityType, BoundAssumption DEF SlotInv
  <2>4. CASE \E s \in InFlight : sem' = sem + 1 /\ InFlight' = InFlight \ {s}
    <3>1. PICK s \in InFlight : sem' = sem + 1 /\ InFlight' = InFlight \ {s}
      BY <2>4
    <3>2. Cardinality(InFlight') = Cardinality(InFlight) - 1
      BY <2>1, <3>1, FS_RemoveElement
    <3>q. QED
      BY <2>1, <3>1, <3>2, FS_CardinalityType, BoundAssumption DEF SlotInv
  <2>q. QED
    BY <2>1, <2>2, <2>3, <2>4 DEF SlotChange
<1>q. QED
  BY <1>1, <1>2

\* The invariant holds at the start.
LEMMA InitTypes == Init => TypeCore /\ SlotInv
<1> SUFFICES ASSUME Init PROVE TypeCore /\ SlotInv
  OBVIOUS
<1>1. TypeCore
  <2>1. AttachTypeOK(Copy)
    BY DEF Init, AttachInit, AttachTypeOK
  <2>2. 1 \in 1 .. MaxAttempts /\ sem \in Int /\ faults \in 0 .. MaxFaults
    BY BoundAssumption DEF Init
  <2>3. /\ folder \in [Copy -> Place] /\ purging \in [Copy -> SUBSET Attachment]
        /\ sentEvent \in [Send \X (1 .. MaxAttempts) -> SUBSET User]
    BY DEF Init, Place
  <2>q. QED
    BY <2>1, <2>2, <2>3, Zenon DEF Init, TypeCore, Owner, Label, Result
<1>2. SlotInv
  <2>1. InFlight = {}
    BY DEF InFlight, Init
  <2>q. QED
    BY <2>1, FS_EmptySet, BoundAssumption DEF SlotInv, Init
<1>q. QED
  BY <1>1, <1>2

\* TypeOK is an invariant: in particular the send semaphore never has more free
\* slots than its weight and never hands out a slot it does not have, on any
\* path through sendDraft.
THEOREM TypeCorrect == Spec => []TypeOK
<1>1. TypeCore /\ SlotInv /\ [Next]_vars => (TypeCore /\ SlotInv)'
  BY TypeCoreStep, SlotStep
<1>2. TypeCore /\ SlotInv => TypeOK
  <2> SUFFICES ASSUME TypeCore, SlotInv PROVE TypeOK
    OBVIOUS
  <2>1. Cardinality(InFlight) \in Nat
    BY SendAssumption, FS_Subset, FS_CardinalityType DEF InFlight
  <2>q. QED
    BY <2>1, BoundAssumption DEF TypeCore, SlotInv, TypeOK
<1>q. QED
  BY <1>1, <1>2, InitTypes, PTL DEF Spec

-----------------------------------------------------------------------------
(* The references: an inductive invariant for AttachmentsSafe.             *)
(*                                                                         *)
(* AttachmentsSafe is not inductive: that a stored copy's attachments      *)
(* exist follows from the counts only if every copy in the middle of a     *)
(* send or of a permanent delete owns exactly the references its program   *)
(* counter says.  RefInv says that, for behaviours in which no             *)
(* addAttachmentRefs has failed.                                           *)

Holders(a) == {h \in Copy : a \in owns[h]}

\* The count in the row is the number of references taken and not returned.
CountInv == \A a \in Attachment :
    IsFiniteSet(Holders(a)) /\ refs[a] = Cardinality(Holders(a))

\* A row that is gone counts nothing, and a row has its file.
RowInv == RowHasFile /\ \A a \in Attachment : a \notin meta => refs[a] = 0

RefInv == ~refFailed /\ ~hasty => CountInv /\ RowInv /\ \A c \in Copy : CopyInv(c)

\* Taking a reference that is not owned keeps the counts.
LEMMA AddCount ==
    ASSUME AttachTypeOK(Copy), CountInv, RowInv,
           NEW h \in Copy, NEW a \in Attachment, a \notin owns[h], AddRef(h, a)
    PROVE  CountInv' /\ RowInv'
<1>1. /\ Holders(a)' = Holders(a) \union {h} /\ h \notin Holders(a)
      /\ \A b \in Attachment \ {a} : Holders(b)' = Holders(b)
  BY DEF Holders, AddRef, AttachTypeOK
<1>2. /\ IsFiniteSet(Holders(a)')
      /\ Cardinality(Holders(a)') = Cardinality(Holders(a)) + 1
  BY <1>1, FS_AddElement DEF CountInv
<1>3. CountInv'
  BY <1>1, <1>2, Zenon DEF CountInv, AddRef, AttachTypeOK
<1>4. RowInv'
  BY DEF RowInv, RowHasFile, AddRef, AttachTypeOK
<1>q. QED
  BY <1>3, <1>4

\* Returning a reference that is owned keeps the counts, whatever fails.
LEMMA UnrefCount ==
    ASSUME AttachTypeOK(Copy), CountInv, RowInv,
           NEW h \in Copy, NEW a \in Attachment, a \in owns[h], Unref(h, a)
    PROVE  CountInv' /\ RowInv'
<1>1. CASE UNCHANGED attachVars
  BY <1>1 DEF CountInv, RowInv, RowHasFile, Holders, attachVars
<1>2. CASE RemoveRef(h, a) \/ RemoveRefKeepFile(h, a)
  <2>1. /\ Holders(a)' = Holders(a) \ {h} /\ h \in Holders(a)
        /\ \A b \in Attachment \ {a} : Holders(b)' = Holders(b)
    BY <1>2 DEF Holders, RemoveRef, RemoveRefKeepFile, AttachTypeOK
  <2>2. /\ IsFiniteSet(Holders(a)')
        /\ Cardinality(Holders(a)') = Cardinality(Holders(a)) - 1
        /\ Cardinality(Holders(a)) \in Nat /\ Cardinality(Holders(a)') \in Nat
    BY <2>1, FS_RemoveElement, FS_CardinalityType DEF CountInv
  <2>3. refs[a] = Cardinality(Holders(a)) /\ refs[a] > 0 /\ a \in meta
    BY <2>2 DEF CountInv, RowInv
  <2>4. refs' = [refs EXCEPT ![a] = refs[a] - 1]
    BY <1>2, <2>3 DEF RemoveRef, RemoveRefKeepFile, AttachTypeOK
  <2>5. CountInv'
    BY <2>1, <2>2, <2>3, <2>4, Zenon DEF CountInv, AttachTypeOK
  <2>6. RowInv'
    BY <1>2, <2>3 DEF RowInv, RowHasFile, RemoveRef, RemoveRefKeepFile, AttachTypeOK
  <2>q. QED
    BY <2>5, <2>6
<1>q. QED
  BY <1>1, <1>2 DEF Unref

\* A step keeps the counts.
LEMMA CountStep ==
    ASSUME TypeCore, Next, ~refFailed', CountInv, RowInv, \A c \in Copy : CopyInv(c)
    PROVE  CountInv' /\ RowInv'
<1>a. AttachTypeOK(Copy) /\ SenderCopy \notin User /\ Carries \in [Send -> SUBSET Attachment]
      /\ pend \in [Send -> SUBSET Attachment] /\ purging \in [Copy -> SUBSET Attachment]
  BY SendAssumption DEF TypeCore
<1>1. ASSUME NEW t \in Send, AddOne(t) PROVE CountInv' /\ RowInv'
  <2>1. PICK a \in pend[t] : AddRef(CurCopy(t), a)
    BY <1>1 DEF AddOne
  <2>2. CurCopy(t) \in Copy /\ CurCopy(t)[1] = t /\ Now(CurCopy(t), cur[t])
    BY CopyType, CopyIs DEF Now
  <2>3. CopyInv(CurCopy(t)) /\ pc[t] = "add"
    BY <1>1, <2>2 DEF AddOne
  <2>4. a \notin owns[CurCopy(t)] /\ a \in Attachment
    BY <1>a, <2>2, <2>3 DEF CopyInv
  <2>q. QED
    BY <1>a, <2>1, <2>2, <2>4, AddCount
<1>2. ASSUME NEW t \in Send, ReleaseOne(t) PROVE CountInv' /\ RowInv'
  <2>1. PICK a \in pend[t] : Unref(CurCopy(t), a)
    BY <1>2 DEF ReleaseOne
  <2>2. CurCopy(t) \in Copy /\ CurCopy(t)[1] = t /\ Now(CurCopy(t), cur[t])
    BY CopyType, CopyIs DEF Now
  <2>3. CopyInv(CurCopy(t)) /\ pc[t] \in {"undo", "release"}
    BY <1>2, <2>2, SMTT(20) DEF ReleaseOne
  <2>4. a \in owns[CurCopy(t)] /\ a \in Attachment
    BY <1>a, <2>2, <2>3 DEF CopyInv
  <2>q. QED
    BY <1>a, <2>1, <2>2, <2>4, UnrefCount
<1>3. ASSUME NEW d \in Copy, PurgeOne(d) PROVE CountInv' /\ RowInv'
  <2>1. PICK a \in purging[d] : Unref(d, a)
    BY <1>3, SMTT(20) DEF PurgeOne
  <2>2. a \in owns[d] /\ a \in Attachment
    BY <1>a DEF CopyInv
  <2>q. QED
    BY <1>a, <2>1, <2>2, UnrefCount
<1>4. CASE UNCHANGED attachVars
  BY <1>4, SMTT(20) DEF CountInv, RowInv, RowHasFile, Holders, attachVars
<1>5. ASSUME NEW t \in Send, SendStep(t) \/ CancelAcquire(t) \/ Retry(t), ~AddOne(t), ~ReleaseOne(t)
      PROVE  UNCHANGED attachVars
  BY <1>5, Zenon DEF SendStep, Validate, Acquire, BeforeSend, CreateSender, AddFails,
           ReleaseAfterUndo, Drop, BeginDelivery, CheckQuota, EndQuota, CreateOne,
           BatchFails, EndBatch, BeginRecipient, Deliver, EndDelivery, Settle, MoveToSent,
           DeleteDraft, Refetch, PublishSent, AfterSend, CancelAcquire, Retry
<1>6. ASSUME NEW d \in Copy, OwnerStep(d), ~PurgeOne(d)
      PROVE  UNCHANGED attachVars
  BY <1>6 DEF OwnerStep, Trash, PermanentlyDelete
<1>q. QED
  BY <1>1, <1>2, <1>3, <1>4, <1>5, <1>6 DEF Next

\* The invariant holds at the start.
LEMMA InitRefs == Init => RefInv
<1> SUFFICES ASSUME Init PROVE RefInv
  OBVIOUS
<1>1. CountInv /\ RowInv
  <2>1. \A a \in Attachment : Holders(a) = {}
    BY Zenon DEF Init, AttachInit, Holders
  <2>q. QED
    BY <2>1, FS_EmptySet, Zenon DEF CountInv, RowInv, RowHasFile, Init, AttachInit
<1>2. \A c \in Copy : CopyInv(c)
  <2> SUFFICES ASSUME NEW c \in Copy PROVE CopyInv(c)
    OBVIOUS
  <2>1. c[1] \in Send
    BY CopyIs
  <2>q. QED
    BY <2>1 DEF CopyInv, Fresh, Now, Held, Complete, Working, Stored, Init, AttachInit
<1>q. QED
  BY <1>1, <1>2 DEF RefInv

\* RefInv is inductive.
LEMMA RefStep == TypeCore /\ RefInv /\ [Next]_vars => RefInv'
<1> SUFFICES ASSUME TypeCore, RefInv, [Next]_vars, ~refFailed', ~hasty'
             PROVE  CountInv' /\ RowInv' /\ (\A c \in Copy : CopyInv(c))'
  BY DEF RefInv
<1>1. CASE UNCHANGED vars
  <2>1. CountInv /\ RowInv /\ (\A c \in Copy : CopyInv(c))
    BY <1>1 DEF RefInv, vars, histVars
  <2>2. CountInv' /\ RowInv'
    BY <1>1, <2>1, SMTT(20) DEF vars, attachVars, CountInv, RowInv, RowHasFile, Holders
  <2>3. ASSUME NEW c \in Copy PROVE CopyInv(c)'
    BY <1>1, <2>1 DEF vars, attachVars, mailVars, sendVars, histVars,
                      CopyInv, Fresh, Held, Now, Complete, Working
  <2>q. QED
    BY <2>2, <2>3
<1>2. CASE Next
  <2>1. CountInv /\ RowInv /\ (\A c \in Copy : CopyInv(c))
    BY <1>2, SlotChanges DEF RefInv, Remembers
  <2>2. CountInv' /\ RowInv'
    BY <1>2, <2>1, CountStep
  <2>3. ASSUME NEW c \in Copy PROVE CopyInv(c)'
    BY <1>2, <2>1, CopyInvStep
  <2>q. QED
    BY <2>2, <2>3
<1>q. QED
  BY <1>1, <1>2

\* As long as no addAttachmentRefs has failed and no owner permanently deletes a
\* copy that a call is still working on, no interleaving of sends,
\* roll-backs, retries and permanent deletes, and no failure of any other call,
\* makes a stored copy lose the row or the file of one of its attachments.
THEOREM AttachmentsAreSafe == Spec => []AttachmentsSafe
<1>1. TypeCore /\ RefInv /\ [Next]_vars => (TypeCore /\ RefInv)'
  BY TypeCoreStep, RefStep
<1>2. TypeCore /\ RefInv => AttachmentsSafe
  <2> SUFFICES ASSUME TypeCore, CountInv, RowInv, \A d \in Copy : CopyInv(d),
                      NEW c \in Copy, Complete(c), folder[c] \in Stored,
                      NEW a \in Carries[c[1]]
               PROVE  a \in meta /\ a \in files
    BY SMTT(20) DEF RefInv, AttachmentsSafe, HoldersKeepFiles
  <2>1. a \in Attachment /\ c \in Holders(a)
    BY CopyIs, SendAssumption, SMTT(20) DEF CopyInv, Holders
  <2>2. Cardinality(Holders(a)) # 0
    BY <2>1, FS_EmptySet DEF CountInv
  <2>q. QED
    BY <2>1, <2>2 DEF CountInv, RowInv, RowHasFile
<1>q. QED
  BY <1>1, <1>2, InitTypes, InitRefs, PTL DEF Spec

\* A step leaves the attachments alone, takes one reference or returns one.
LEMMA AttachStep ==
    ASSUME Next
    PROVE  UNCHANGED attachVars \/ \E h, a : AddRef(h, a) \/ Unref(h, a)
<1>1. ASSUME NEW t \in Send, SendStep(t) \/ CancelAcquire(t) \/ Retry(t), ~AddOne(t), ~ReleaseOne(t)
      PROVE  UNCHANGED attachVars
  BY <1>1, Zenon DEF SendStep, Validate, Acquire, BeforeSend, CreateSender, AddFails,
           ReleaseAfterUndo, Drop, BeginDelivery, CheckQuota, EndQuota, CreateOne,
           BatchFails, EndBatch, BeginRecipient, Deliver, EndDelivery, Settle, MoveToSent,
           DeleteDraft, Refetch, PublishSent, AfterSend, CancelAcquire, Retry
<1>2. ASSUME NEW d \in Copy, OwnerStep(d), ~PurgeOne(d)
      PROVE  UNCHANGED attachVars
  BY <1>2 DEF OwnerStep, Trash, PermanentlyDelete
<1>3. ASSUME NEW t \in Send, AddOne(t) \/ ReleaseOne(t)
      PROVE  \E h, a : AddRef(h, a) \/ Unref(h, a)
  BY <1>3, Zenon DEF AddOne, ReleaseOne
<1>4. ASSUME NEW d \in Copy, PurgeOne(d) PROVE \E h, a : Unref(h, a)
  BY <1>4, Zenon DEF PurgeOne
<1>q. QED
  BY <1>1, <1>2, <1>3, <1>4, Zenon DEF Next, SendStep, OwnerStep

\* Every metadata row has its file, whatever fails: RemoveRef deletes the row
\* before the file.
THEOREM RowsHaveFiles == Spec => []RowHasFile
<1>1. Init => RowHasFile
  BY DEF Init, AttachInit, RowHasFile
<1>2. RowHasFile /\ [Next]_vars => RowHasFile'
  <2> SUFFICES ASSUME RowHasFile, [Next]_vars PROVE RowHasFile'
    OBVIOUS
  <2>1. CASE UNCHANGED attachVars
    BY <2>1 DEF RowHasFile, attachVars
  <2>2. ASSUME NEW h, NEW a, AddRef(h, a) \/ Unref(h, a) PROVE RowHasFile'
    BY <2>2 DEF RowHasFile, AddRef, Unref, RemoveRef, RemoveRefKeepFile, attachVars
  <2>q. QED
    BY <2>1, <2>2, AttachStep DEF vars
<1>q. QED
  BY <1>1, <1>2, PTL DEF Spec

=============================================================================
