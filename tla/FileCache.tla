----------------------------- MODULE FileCache -----------------------------
(***************************************************************************)
(* The disk cache in front of an attachment file store                     *)
(* (store/attachment/cached): readers that fill it, deletions, the         *)
(* clean-up of expired files and ClearCache, and the count of bytes that   *)
(* decides whether a file may be kept.                                     *)
(***************************************************************************)
EXTENDS Integers, FiniteSets, FiniteSetsExt

CONSTANTS File, Process,
          Length,      \* of every file
          MaxSize,     \* of the cache
          MaxCalls     \* of all processes

VARIABLES backend,   \* the store behind the cache, of which the local one is modelled: "new", "there" or "gone"
          disk,      \* the length of the cached file, None when there is none
          old,       \* cached files that have outlived their time
          cacheSize, \* Store.cacheSize
          proc,      \* what each process does
          freed,     \* bytes the clean-up has removed and not yet subtracted, None when it is not running
          raced,     \* calls have overlapped in a way that puts cacheSize off
          calls

files == <<backend, disk, old>>
vars == <<files, cacheSize, proc, freed, raced, calls>>

None == -1
Idle == [pc |-> "idle", f |-> 0, n |-> 0, tmp |-> FALSE, owed |-> 0, then |-> "idle"]
Proc(p, r) == proc' = [proc EXCEPT ![p] = r]
To(p, pc) == [proc[p] EXCEPT !.pc = pc]

hasSpace(n) == cacheSize + n <= MaxSize
\* updateCacheSize never goes below zero: a subtraction that comes before its addition is lost.
updateCacheSize(d) ==
    /\ cacheSize' = IF cacheSize + d < 0 THEN 0 ELSE cacheSize + d
    /\ raced' = (raced \/ cacheSize + d < 0)
OnDisk == MapThenSumSet(LAMBDA f : IF disk[f] = None THEN 0 ELSE disk[f], File)

\* A process that has added or removed a file goes on to add its bytes to cacheSize, or subtract them.
Owes(p, n, then) == Proc(p, [proc[p] EXCEPT !.pc = "count", !.owed = n, !.then = then])
Owed == MapThenSumSet(LAMBDA p : proc[p].owed, Process)
Count(p) ==
    /\ proc[p].pc = "count" /\ updateCacheSize(proc[p].owed)
    /\ Proc(p, IF proc[p].then = "idle" THEN Idle ELSE [To(p, proc[p].then) EXCEPT !.owed = 0])
    /\ UNCHANGED <<files, freed, calls>>
\* A file is removed by somebody who has seen it with n bytes: right when it is still that file.
Removed(p, then) ==
    LET f == proc[p].f IN
    /\ disk' = [disk EXCEPT ![f] = None] /\ old' = old \ {f}
    /\ Owes(p, -proc[p].n, then)
    /\ raced' = (raced \/ disk[f] # proc[p].n)

(***************************************************************************)
(* Upload and Load.                                                        *)
(***************************************************************************)
\* Every upload makes a file of its own name; the cache does not see it.
Upload(f) ==
    /\ backend[f] = "new" /\ calls > 0 /\ backend' = [backend EXCEPT ![f] = "there"]
    /\ UNCHANGED <<disk, old, cacheSize, proc, freed, raced, calls>>
Stat(p, f) ==
    /\ proc[p] = Idle /\ backend[f] # "new" /\ calls > 0 /\ calls' = calls - 1
    /\ Proc(p, [Idle EXCEPT !.f = f, !.n = disk[f],
                  !.pc = IF disk[f] = None THEN "miss" ELSE IF f \in old THEN "expired" ELSE "open"])
    /\ UNCHANGED <<files, cacheSize, freed, raced>>
\* A hit makes the file young again; when it has gone since, the file is loaded from the backend.
Open(p) ==
    /\ proc[p].pc = "open"
    /\ IF disk[proc[p].f] = None THEN Proc(p, To(p, "miss")) /\ UNCHANGED old
       ELSE Proc(p, Idle) /\ old' = old \ {proc[p].f}
    /\ UNCHANGED <<backend, disk, cacheSize, freed, raced, calls>>
RemoveExpired(p) ==
    /\ proc[p].pc = "expired" /\ Removed(p, "miss")
    /\ UNCHANGED <<backend, cacheSize, freed, calls>>
\* cacheAndRead: a reader that copies into a temporary file, or the plain one when there can be none.
cacheAndRead(p) == {[To(p, "reading") EXCEPT !.n = 0, !.tmp = TRUE], Idle}
\* The backend's reader, or its error.
LoadBackend(p) ==
    /\ proc[p].pc = "miss"
    /\ \E r \in IF backend[proc[p].f] = "there" THEN cacheAndRead(p) ELSE {Idle} : Proc(p, r)
    /\ UNCHANGED <<files, cacheSize, freed, raced, calls>>

\* cachingReader.
Read(p) ==
    /\ proc[p].pc = "reading" /\ proc[p].n < Length
    /\ Proc(p, [proc[p] EXCEPT !.n = @ + 1])
    /\ UNCHANGED <<files, cacheSize, freed, raced, calls>>
\* Close, at any time: what has been read is kept when there is space for it and the temporary file
\* can be closed.
CloseReader(p) ==
    /\ proc[p].pc = "reading"
    /\ Proc(p, IF hasSpace(proc[p].n) THEN To(p, "rename") ELSE Idle) \/ Proc(p, Idle)
    /\ UNCHANGED <<files, cacheSize, freed, raced, calls>>
Rename(p) ==
    LET f == proc[p].f IN
    /\ proc[p].pc = "rename"
    /\ IF proc[p].tmp
       THEN /\ disk' = [disk EXCEPT ![f] = proc[p].n] /\ old' = old \ {f}
            /\ Owes(p, proc[p].n, "idle")
            /\ raced' = (raced \/ disk[f] # None)
       ELSE Proc(p, Idle) /\ UNCHANGED <<disk, old, raced>>
    /\ UNCHANGED <<backend, cacheSize, freed, calls>>

(***************************************************************************)
(* Delete, ClearCache and the clean-up.                                    *)
(***************************************************************************)
DeleteStat(p, f) ==
    /\ proc[p] = Idle /\ backend[f] # "new" /\ calls > 0 /\ calls' = calls - 1
    /\ Proc(p, [Idle EXCEPT !.f = f, !.n = disk[f], !.pc = IF disk[f] = None THEN "delete" ELSE "remove"])
    /\ UNCHANGED <<files, cacheSize, freed, raced>>
\* Mutant: the bytes of a deleted file stay counted.
MutDeleteCached(p) ==
    /\ proc[p].pc = "remove" /\ Proc(p, To(p, "delete"))
    /\ disk' = [disk EXCEPT ![proc[p].f] = None] /\ old' = old \ {proc[p].f}
    /\ raced' = (raced \/ disk[proc[p].f] # proc[p].n)
    /\ UNCHANGED <<backend, cacheSize, freed, calls>>
DeleteCached(p) ==
    /\ proc[p].pc = "remove" /\ Removed(p, "delete")
    /\ UNCHANGED <<backend, cacheSize, freed, calls>>
DeleteBackend(p) ==
    /\ proc[p].pc = "delete" /\ Proc(p, Idle)
    /\ backend' \in {[backend EXCEPT ![proc[p].f] = "gone"], backend}
    /\ UNCHANGED <<disk, old, cacheSize, freed, raced, calls>>

\* ClearCache takes the temporary files of the readers, too.
ClearCache ==
    /\ calls > 0 /\ calls' = calls - 1
    /\ disk' = [f \in File |-> None] /\ old' = {} /\ cacheSize' = 0
    /\ proc' = [p \in Process |-> [proc[p] EXCEPT !.tmp = FALSE]]
    /\ raced' = (raced \/ freed > 0 \/ \E p \in Process : proc[p].owed # 0)
    /\ UNCHANGED <<backend, freed>>

\* cleanupExpired removes the files that are old, one after the other, and then subtracts their bytes;
\* among them may be the temporary file of a slow reader, whose bytes were never added.
CleanBegin ==
    /\ freed = None /\ old # {} /\ freed' = 0
    /\ UNCHANGED <<files, cacheSize, proc, raced, calls>>
CleanFile(f) ==
    /\ freed # None /\ f \in old
    /\ freed' = freed + disk[f]
    /\ disk' = [disk EXCEPT ![f] = None] /\ old' = old \ {f}
    /\ UNCHANGED <<backend, cacheSize, proc, raced, calls>>
CleanTemporary(p) ==
    /\ freed # None /\ proc[p].pc = "reading" /\ proc[p].tmp
    /\ freed' = freed + proc[p].n
    /\ Proc(p, [proc[p] EXCEPT !.tmp = FALSE])
    /\ raced' = (raced \/ proc[p].n > 0)
    /\ UNCHANGED <<files, cacheSize, calls>>
cleanupExpired ==
    /\ freed # None /\ freed' = None
    /\ updateCacheSize(-freed)
    /\ UNCHANGED <<files, proc, calls>>

Age(f) ==
    /\ disk[f] # None /\ f \notin old /\ calls > 0 /\ old' = old \cup {f}
    /\ UNCHANGED <<backend, disk, cacheSize, proc, freed, raced, calls>>

\* New counts what it finds in the directory.
Init ==
    /\ backend \in [File -> {"new", "there"}]
    /\ disk \in [File -> {None, Length}] /\ OnDisk <= MaxSize /\ \A f \in File : disk[f] # None => backend[f] = "there"
    /\ old = {} /\ cacheSize = OnDisk
    /\ proc = [p \in Process |-> Idle] /\ freed = None /\ raced = FALSE /\ calls = MaxCalls
Next ==
    \/ \E p \in Process : \/ \E f \in File : Stat(p, f) \/ DeleteStat(p, f)
                          \/ Open(p) \/ RemoveExpired(p) \/ LoadBackend(p)
                          \/ Read(p) \/ CloseReader(p) \/ Rename(p) \/ Count(p)
                          \/ DeleteCached(p) \/ DeleteBackend(p) \/ CleanTemporary(p)
    \/ \E f \in File : Upload(f) \/ CleanFile(f) \/ Age(f)
    \/ ClearCache \/ CleanBegin \/ cleanupExpired
Spec == Init /\ [][Next]_vars

(***************************************************************************)
(* Properties.                                                             *)
(***************************************************************************)
\* SizeTracksDisk: cacheSize is what the cached files hold, but for the bytes that the clean-up and the
\* calls have still to add or subtract, unless calls have overlapped in one of the ways the code does
\* not guard against: two readers caching the same file, two callers removing it, a file replaced
\* between being looked at and being removed, a removal counted before the addition it undoes, a
\* ClearCache in between, or a clean-up that takes a reader's temporary file (store/attachment/cached).
SizeTracksDisk == ~raced => cacheSize + Owed = OnDisk + (IF freed = None THEN 0 ELSE freed)
=============================================================================
