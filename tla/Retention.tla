------------------------------ MODULE Retention ------------------------------
(***************************************************************************)
(* What removes messages for good: the clean-up jobs (cleanup.go), quota   *)
(* enforcement (quota_enforce.go) and the owners' own calls (mutate.go),   *)
(* on one message store shared by several service instances.               *)
(*                                                                         *)
(* A job j in Job is a background goroutine of some instance, or a manual  *)
(* call; it runs one pass after another, each of any kind.  A call c in    *)
(* Call is one call of Delete, Restore or PermanentlyDelete by an owner.   *)
(* Every call of the message store or of the attachment manager is a step. *)
(* Messages are numbered in the order of their creation.  Time is a        *)
(* counter that stops at MaxTime.                                          *)
(***************************************************************************)
EXTENDS Attachments, FiniteSets, FiniteSetsExt

CONSTANTS
    N,                  \* number of messages
    OwnerOf,            \* [Message -> user]
    Carries,            \* [Message -> SUBSET Attachment]
    CreatedAt,          \* [Message -> Int], increasing
    ExpiresAt,          \* [Message -> Int], Never when the message has no TTL
    Never,
    Job, Call,
    Kinds,              \* [Job -> SUBSET {"trash", "expired", "quota"}]: its passes
    TrashRetention, MessageRetention, DeleteOlderThan,
    MaxMessages,        \* QuotaPolicy.MaxMessages, with QuotaActionDeleteOldest
    PageSize,           \* scanBatchSize, quotaDeleteBatchSize
    EventErrorsFatal,   \* option eventErrorsFatal
    MaxTime, MaxFaults

Message == 1 .. N
User == {OwnerOf[m] : m \in Message}

ASSUME RetentionAssumption ==
    /\ N \in Nat
    /\ DOMAIN OwnerOf = Message
    /\ Carries \in [Message -> SUBSET Attachment]
    /\ CreatedAt \in [Message -> Int]
    /\ \A m, n \in Message : m < n => CreatedAt[m] < CreatedAt[n]
    /\ ExpiresAt \in [Message -> Int \union {Never}]
    /\ Job \intersect Call = {}
    /\ Kinds \in [Job -> SUBSET {"trash", "expired", "quota"}]
    /\ TrashRetention \in Nat /\ MessageRetention \in Nat /\ DeleteOlderThan \in Nat \ {0}
    /\ MaxMessages \in Nat \ {0}
    /\ PageSize \in Nat \ {0}
    /\ EventErrorsFatal \in BOOLEAN
    /\ MaxTime \in Nat /\ MaxFaults \in Nat

VARIABLES
    folder,     \* [Message -> "inbox" (any folder but the trash), "trash" or "gone"]
    updatedAt,  \* [Message -> Int]
    now,
    job,        \* [Job -> the locals of its pass]
    call,       \* [Call -> the locals of the call]
    owed,       \* [Job \union Call -> SUBSET (Message \X Attachment)]: the references
                \* it is about to release
    faults,     \* failures still allowed
    binned,     \* history: messages that have been in the trash
    touched,    \* history: messages whose references a quota pass began to release
    clash       \* history: such a message was released by somebody else as well, or
                \* is still there because its delete failed

storeVars == <<folder, updatedAt, binned>>
quotaHist == <<touched, clash>>
vars == <<attachVars, storeVars, now, job, call, owed, faults, quotaHist>>

Stored == {m \in Message : folder[m] # "gone"}
Count(u) == Cardinality({m \in Stored : OwnerOf[m] = u})

\* The locals of a pass: "phase" is what it deletes and "batch" holds scannedIDs,
\* or the page of enforceUserQuota; the rest belongs to enforceUserQuota.
NoPass == [at |-> "idle", phase |-> "none", cutoff |-> 0, cursor |-> 0, batch |-> {},
           user |-> Never, excess |-> 0, deleted |-> 0, progress |-> 0, msg |-> 0]

\* Every message holds its references, in the trash or in another folder.
Init ==
    /\ folder \in [Message -> {"inbox", "trash"}]
    /\ binned = {m \in Message : folder[m] = "trash"}
    /\ updatedAt = CreatedAt
    /\ now = 0
    /\ meta = Attachment
    /\ files = Attachment
    /\ owns = Carries
    /\ refs = [a \in Attachment |-> Cardinality({m \in Message : a \in Carries[m]})]
    /\ job = [j \in Job |-> NoPass]
    /\ call = [c \in Call |-> [at |-> "idle", op |-> "none", msg |-> 0]]
    /\ owed = [x \in Job \union Call |-> {}]
    /\ faults = MaxFaults
    /\ touched = {} /\ clash = FALSE
-----------------------------------------------------------------------------
Fault == faults > 0 /\ faults' = faults - 1
NoFault == UNCHANGED faults

Tick ==
    /\ now < MaxTime
    /\ now' = now + 1
    /\ UNCHANGED <<attachVars, storeVars, job, call, owed, faults, quotaHist>>

\* The references of message m, as collected from its attachments.
RefsOf(m) == {m} \X Carries[m]

\* attachments.RemoveRef in a release loop; an error is logged and the loop goes on.
Unref(x) ==
    \E r \in owed[x] :
        /\ \A q \in owed[x] : q[1] <= r[1]
        /\ owed' = [owed EXCEPT ![x] = @ \ {r}]
        /\ \/ RemoveRef(r[1], r[2]) /\ NoFault
           \/ RemoveRefKeepFile(r[1], r[2]) /\ Fault
           \/ r[2] \in meta /\ Fault /\ UNCHANGED attachVars

\* The message store loses message m to somebody.
Remove(m) ==
    /\ folder' = [folder EXCEPT ![m] = "gone"]
    /\ UNCHANGED <<updatedAt, binned>>
-----------------------------------------------------------------------------
(* cleanup.go *)

\* Mutant: the retention is subtracted twice.
MutCutoff(p) ==
    CASE p = "trash" -> now - 2 * TrashRetention
      [] p = "retention" -> now - MessageRetention
      [] p = "ttl" -> now
Cutoff(p) ==
    CASE p = "trash" -> now - TrashRetention
      [] p = "retention" -> now - MessageRetention
      [] p = "ttl" -> now

ScanFor(j, p) ==
    job' = [job EXCEPT ![j] = [NoPass EXCEPT !.at = "scan", !.phase = p, !.cutoff = Cutoff(p)]]

\* CleanupTrash begins.
CleanupTrash(j) ==
    /\ job[j].at = "idle" /\ "trash" \in Kinds[j]
    /\ ScanFor(j, "trash")
    /\ UNCHANGED <<attachVars, storeVars, now, call, owed, faults, quotaHist>>

\* CleanupExpiredMessages begins: retention, when it is configured, then TTL.
CleanupExpiredMessages(j) ==
    /\ job[j].at = "idle" /\ "expired" \in Kinds[j]
    /\ ScanFor(j, IF MessageRetention > 0 THEN "retention" ELSE "ttl")
    /\ UNCHANGED <<attachVars, storeVars, now, call, owed, faults, quotaHist>>

\* The filters of the scan.
\* Mutant: messages without a TTL pass the TTL filter.
MutMatches(j, m) ==
    /\ m \in Stored
    /\ CASE job[j].phase = "trash" -> folder[m] = "trash" /\ updatedAt[m] < job[j].cutoff
         [] job[j].phase = "retention" -> CreatedAt[m] < job[j].cutoff
         [] job[j].phase = "ttl" -> ExpiresAt[m] = Never \/ ExpiresAt[m] < job[j].cutoff
Matches(j, m) ==
    /\ m \in Stored
    /\ CASE job[j].phase = "trash" -> folder[m] = "trash" /\ updatedAt[m] < job[j].cutoff
         [] job[j].phase = "retention" -> CreatedAt[m] < job[j].cutoff
         [] job[j].phase = "ttl" -> ExpiresAt[m] # Never /\ ExpiresAt[m] < job[j].cutoff

\* scanExpiredMessages, one Find: the newest PageSize matches after the cursor.
\* When the message at the cursor is gone, or no longer matches, a store may
\* return an empty page (memory, postgres) or, when it is gone, an error (mongo).
ScanPage(j) ==
    LET cur == job[j].cursor
        rest == {m \in Message : Matches(j, m) /\ (cur = 0 \/ m < cur)}
        page == {m \in rest : Cardinality({n \in rest : n > m}) < PageSize}
    IN  /\ job[j].at = "scan"
        /\ \/ /\ cur = 0 \/ cur \in Stored
              /\ page # rest
              /\ job' = [job EXCEPT ![j].batch = @ \union page, ![j].cursor = Min(page)]
           \/ /\ cur = 0 \/ cur \in Stored
              /\ page = rest
              /\ job' = [job EXCEPT ![j].batch = @ \union page, ![j].at = "delete",
                                  ![j].cursor = 0]
           \/ /\ cur # 0 /\ ~Matches(j, cur)
              /\ job' = [job EXCEPT ![j].at = "delete", ![j].cursor = 0]
           \/ /\ cur # 0 /\ cur \notin Stored
              /\ job' = [job EXCEPT ![j] = NoPass]
        /\ UNCHANGED <<attachVars, storeVars, now, call, owed, faults, quotaHist>>

\* Mutants: the references of every scanned message are released, whoever
\* deleted it; those of a message with an attachment map entry are forgotten.
MutWon(m) == RefsOf(m)
MutWonNothing(m) == {}
\* What DeleteMessagesByIDs reports for m: only a message this call deleted.
Won(m) == IF m \in Stored THEN RefsOf(m) ELSE {}

\* DeleteMessagesByIDs, the next id in the order of the scan: the stores delete the
\* ids one by one, or all at once, each atomically.
DeleteOne(j) ==
    /\ job[j].at = "delete"
    /\ job[j].batch # {}
    /\ LET m == Max(job[j].batch)
       IN /\ job' = [job EXCEPT ![j].batch = @ \ {m}]
          /\ owed' = [owed EXCEPT ![j] = @ \union Won(m)]
          /\ Remove(m)
          /\ clash' = (clash \/ (m \in Stored /\ m \in touched))
    /\ UNCHANGED <<attachVars, now, call, faults, touched>>

\* DeleteMessagesByIDs has returned: releaseAttachmentRefs.
EndDelete(j) ==
    /\ job[j].at = "delete" /\ job[j].batch = {}
    /\ job' = [job EXCEPT ![j].at = "release"]
    /\ UNCHANGED <<attachVars, storeVars, now, call, owed, faults, quotaHist>>

ReleaseOne(j) ==
    /\ job[j].at \in {"release", "unref"}
    /\ Unref(j)
    /\ UNCHANGED <<storeVars, now, job, call, quotaHist>>

\* The pass ends; retention is followed by TTL.
EndRelease(j) ==
    /\ job[j].at = "release" /\ owed[j] = {}
    /\ \/ job[j].phase = "retention" /\ ScanFor(j, "ttl")
       \/ job[j].phase # "retention" /\ job' = [job EXCEPT ![j] = NoPass]
    /\ UNCHANGED <<attachVars, storeVars, now, call, owed, faults, quotaHist>>

\* A pass ends early: a failed Find or DeleteMessagesByIDs, a cancelled context,
\* or a crash of the instance.  What it has yet to release stays unreleased.
Abort(j) ==
    /\ job[j].at # "idle"
    /\ Fault
    /\ job' = [job EXCEPT ![j] = NoPass]
    /\ owed' = [owed EXCEPT ![j] = {}]
    /\ clash' = (clash \/ job[j].at = "unref")
    /\ UNCHANGED <<attachVars, storeVars, now, call, touched>>
-----------------------------------------------------------------------------
(* quota_enforce.go *)

\* enforceUserQuota begins for a user over quota: Count and the excess.
EnforceQuota(j) ==
    /\ job[j].at = "idle" /\ "quota" \in Kinds[j]
    /\ \E u \in User :
          /\ Count(u) > MaxMessages
          /\ job' = [job EXCEPT ![j] = [NoPass EXCEPT
                        !.at = "find", !.phase = "quota", !.user = u,
                        !.cutoff = now - DeleteOlderThan, !.excess = Count(u) - MaxMessages]]
    /\ UNCHANGED <<attachVars, storeVars, now, call, owed, faults, quotaHist>>

\* Mutant: newest first.
MutOldest(S, k) == {m \in S : Cardinality({n \in S : n > m}) < k}
\* Find with SortAsc and a limit.
Oldest(S, k) == {m \in S : Cardinality({n \in S : n < m}) < k}

\* Mutant: a full page every time.
MutLimit(j) == PageSize
Limit(j) == Min({PageSize, job[j].excess - job[j].deleted})

\* The next page of old messages; the pass ends when the user is within quota or
\* nothing is old enough.
FindOld(j) ==
    LET page == Oldest({m \in Stored : OwnerOf[m] = job[j].user /\ CreatedAt[m] < job[j].cutoff},
                       Limit(j))
    IN  /\ job[j].at = "find"
        /\ \/ /\ job[j].deleted >= job[j].excess \/ page = {}
              /\ job' = [job EXCEPT ![j] = NoPass]
           \/ /\ job[j].deleted < job[j].excess /\ page # {}
              /\ job' = [job EXCEPT ![j].at = "each", ![j].batch = page, ![j].progress = 0]
        /\ UNCHANGED <<attachVars, storeVars, now, call, owed, faults, quotaHist>>

\* The next message of the page: its references are released first.
NextOld(j) ==
    /\ job[j].at = "each" /\ job[j].batch # {}
    /\ LET m == Min(job[j].batch)
       IN  /\ job' = [job EXCEPT ![j].at = "unref", ![j].msg = m, ![j].batch = @ \ {m}]
           /\ owed' = [owed EXCEPT ![j] = RefsOf(m)]
           /\ touched' = touched \union {m}
           /\ clash' = (clash \/ m \in touched \/ m \notin Stored)
    /\ UNCHANGED <<attachVars, storeVars, now, call, faults>>

\* Then HardDelete; an error is logged and the message does not count.
HardDeleteOld(j) ==
    /\ job[j].at = "unref" /\ owed[j] = {}
    /\ \/ /\ job[j].msg \in Stored /\ NoFault
          /\ Remove(job[j].msg)
          /\ job' = [job EXCEPT ![j].at = "each", ![j].deleted = @ + 1, ![j].progress = @ + 1]
          /\ UNCHANGED clash
       \/ /\ \/ job[j].msg \in Stored /\ Fault
             \/ job[j].msg \notin Stored /\ NoFault
          /\ job' = [job EXCEPT ![j].at = "each"]
          /\ clash' = TRUE
          /\ UNCHANGED storeVars
    /\ UNCHANGED <<attachVars, now, call, owed, touched>>

\* The page is done; without progress the pass ends.
EndPage(j) ==
    /\ job[j].at = "each" /\ job[j].batch = {}
    /\ job' = [job EXCEPT ![j] = IF job[j].progress = 0 THEN NoPass
                                 ELSE [@ EXCEPT !.at = "find"]]
    /\ UNCHANGED <<attachVars, storeVars, now, call, owed, faults, quotaHist>>
-----------------------------------------------------------------------------
(* mutate.go *)

\* Delete, Restore or PermanentlyDelete reads the message and checks its folder.
Get(c) ==
    /\ call[c].at = "idle"
    /\ \E m \in Stored, op \in {"Delete", "Restore", "PermanentlyDelete"} :
          /\ (op = "Delete") <=> (folder[m] # "trash")
          /\ call' = [call EXCEPT ![c] = [at |-> "apply", op |-> op, msg |-> m]]
    /\ UNCHANGED <<attachVars, storeVars, now, job, owed, faults, quotaHist>>

\* The store call finds the message gone: the call returns its error.
NotFound(c) ==
    /\ call[c].at = "apply" /\ call[c].msg \notin Stored
    /\ call' = [call EXCEPT ![c].at = "done"]
    /\ UNCHANGED <<attachVars, storeVars, now, job, owed, faults, quotaHist>>

\* Delete and Restore: MoveToFolder, wherever the message is by now.
Move(c) ==
    /\ call[c].at = "apply" /\ call[c].op # "PermanentlyDelete" /\ call[c].msg \in Stored
    /\ folder' = [folder EXCEPT ![call[c].msg] = IF call[c].op = "Delete" THEN "trash" ELSE "inbox"]
    /\ updatedAt' = [updatedAt EXCEPT ![call[c].msg] = now]
    /\ binned' = binned \union {m \in {call[c].msg} : call[c].op = "Delete"}
    /\ call' = [call EXCEPT ![c].at = "done"]
    /\ UNCHANGED <<attachVars, now, job, owed, faults, quotaHist>>

\* What PermanentlyDelete releases after a failed publish: a fatal error returns
\* before the release.
PurgeRefs(m) == IF EventErrorsFatal THEN {} ELSE RefsOf(m)

\* PermanentlyDelete: HardDelete and the event, wherever the message is by now.
Purge(c) ==
    /\ call[c].at = "apply" /\ call[c].op = "PermanentlyDelete" /\ call[c].msg \in Stored
    /\ Remove(call[c].msg)
    /\ clash' = (clash \/ call[c].msg \in touched)
    /\ call' = [call EXCEPT ![c].at = "release"]
    /\ \/ NoFault /\ owed' = [owed EXCEPT ![c] = RefsOf(call[c].msg)]
       \/ Fault /\ owed' = [owed EXCEPT ![c] = PurgeRefs(call[c].msg)]
    /\ UNCHANGED <<attachVars, now, job, touched>>

\* PermanentlyDelete: releaseAttachmentRefs after the delete.
ReleasePurged(c) ==
    /\ call[c].at = "release"
    /\ Unref(c)
    /\ UNCHANGED <<storeVars, now, job, call, quotaHist>>

PurgeDone(c) ==
    /\ call[c].at = "release" /\ owed[c] = {}
    /\ call' = [call EXCEPT ![c].at = "done"]
    /\ UNCHANGED <<attachVars, storeVars, now, job, owed, faults, quotaHist>>
-----------------------------------------------------------------------------
JobStep(j) ==
    \/ CleanupTrash(j) \/ CleanupExpiredMessages(j)
    \/ ScanPage(j) \/ DeleteOne(j) \/ EndDelete(j) \/ ReleaseOne(j) \/ EndRelease(j)
    \/ EnforceQuota(j) \/ FindOld(j) \/ NextOld(j) \/ HardDeleteOld(j) \/ EndPage(j)

CallStep(c) ==
    Get(c) \/ NotFound(c) \/ Move(c) \/ Purge(c) \/ ReleasePurged(c) \/ PurgeDone(c)

Next ==
    \/ Tick
    \/ \E j \in Job : JobStep(j) \/ Abort(j)
    \/ \E c \in Call : CallStep(c)

\* The ticker of a job goes on firing, and a pass that can go on does so.
Fairness == \A j \in Job : WF_vars(JobStep(j))

Spec == Init /\ [][Next]_vars /\ Fairness
-----------------------------------------------------------------------------
(* Properties *)

\* Every variable has its type; in particular no reference count is negative.
TypeOK ==
    /\ AttachTypeOK(Message)
    /\ folder \in [Message -> {"inbox", "trash", "gone"}]
    /\ updatedAt \in [Message -> Int]
    /\ now \in 0 .. MaxTime
    /\ job \in [Job -> [at : {"idle", "scan", "delete", "release", "find", "each", "unref"},
                        phase : {"none", "trash", "retention", "ttl", "quota"},
                        cutoff : Int, cursor : 0 .. N, batch : SUBSET Message,
                        user : User \union {Never}, excess : Nat, deleted : Nat,
                        progress : Nat, msg : 0 .. N]]
    /\ call \in [Call -> [at : {"idle", "apply", "release", "done"},
                          op : {"none", "Delete", "Restore", "PermanentlyDelete"},
                          msg : 0 .. N]]
    /\ owed \in [Job \union Call -> SUBSET (Message \X Attachment)]
    /\ faults \in 0 .. MaxFaults
    /\ binned \subseteq Message /\ touched \subseteq Message
    /\ clash \in BOOLEAN

\* Every stored message has the rows and the files of its attachments, but for a
\* message that a quota pass is deleting (it releases before it deletes).
HoldersKeepFiles ==
    \A m \in Stored \ touched : Carries[m] \subseteq meta \intersect files

\* Clean-up passes of several instances, owners' calls and a quota pass may delete
\* the same messages, and may fail or crash anywhere: as long as no quota pass
\* releases a message that it does not delete itself, no file is deleted that a
\* stored message refers to.  Only the call that deleted a message releases it
\* (cleanup.go:60-62).
AttachmentsSafe == ~clash => HoldersKeepFiles

\* When every pass and call has ended without a failure, the count of an
\* attachment is the number of stored messages that carry it: whoever deletes a
\* message releases its references, exactly once.
RefsBalanced ==
    /\ \A j \in Job : job[j].at = "idle"
    /\ \A c \in Call : call[c].at # "release"
    /\ faults = MaxFaults /\ ~clash
    => \A a \in Attachment : refs[a] = Cardinality({m \in Stored : a \in Carries[m]})

\* A message is only ever deleted because it was in the trash at some time, has
\* expired, or is older than the retention or the quota policy's age: no pass
\* deletes fresh mail.
DeletedForAReason ==
    \A m \in Message \ Stored :
        \/ m \in binned
        \/ MessageRetention > 0 /\ CreatedAt[m] < now - MessageRetention
        \/ CreatedAt[m] < now - DeleteOlderThan
        \/ ExpiresAt[m] # Never /\ ExpiresAt[m] < now

\* A quota pass deletes no more than the excess it has counted, page by page
\* (quota_enforce.go:140-152).
AtMostExcess == \A j \in Job : job[j].deleted <= job[j].excess

\* As long as no delete has failed, a quota pass deletes no message while it
\* leaves an older one of the same user behind (quota_enforce.go:154-155).
TrimsOldest ==
    [][\A j \in Job : HardDeleteOld(j) /\ ~clash' =>
          \A m \in Stored : OwnerOf[m] = job[j].user => m >= job[j].msg]_vars

\* A message that stays in the trash longer than the retention is deleted by the
\* background passes in the end, whatever happens between two pages of a scan and
\* however often a pass fails short of always.
TrashEmptied ==
    \A m \in Message :
        (folder[m] = "trash" /\ updatedAt[m] < now - TrashRetention)
            ~> (folder[m] # "trash" \/ ~(updatedAt[m] < now - TrashRetention))

\* Enforcement deletes a user's messages only up to the amount needed to bring the
\* user back within the quota (quota_enforce.go:44-46): no pass deletes a message
\* of a user who is within it.
EnforcementKeepsQuota ==
    [][\A j \in Job : HardDeleteOld(j) /\ folder' # folder =>
          Count(job[j].user) > MaxMessages]_vars
=============================================================================
