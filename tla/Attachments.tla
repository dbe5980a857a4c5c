----------------------------- MODULE Attachments -----------------------------
(***************************************************************************)
(* Reference-counted attachments (attachment.go, store/attachment.go).     *)
(*                                                                         *)
(* An attachment has a metadata row with a reference count and a file.     *)
(* Every stored message copy that carries the attachment is meant to hold  *)
(* one reference; the row and then the file are deleted when the count     *)
(* reaches zero.  The metadata store and the file store are interfaces     *)
(* whose implementations are not part of the repository; they are modelled *)
(* from their contract in store/attachment.go, one atomic step a call.     *)
(*                                                                         *)
(* "owns" is a history variable: for each holder, the attachments for      *)
(* which an AddRef was made and not taken back.  No action reads it.       *)
(***************************************************************************)
EXTENDS Integers

CONSTANT Attachment     \* attachment ids, all of them uploaded beforehand

VARIABLES
    meta,       \* ids that have a metadata row
    refs,       \* the reference count in the row (0 once the row is gone)
    files,      \* ids whose file is in the file store
    owns        \* history: [holder -> the attachments it took a reference to and
                \* has not returned it]

attachVars == <<meta, refs, files, owns>>

AttachTypeOK(Holder) ==
    /\ meta \subseteq Attachment
    /\ refs \in [Attachment -> Nat]
    /\ files \subseteq Attachment
    /\ owns \in [Holder -> SUBSET Attachment]

\* attachmentManager.Upload has stored the file and created the row with
\* reference count 0; no message refers to it yet.
AttachInit(Holder) ==
    /\ meta = Attachment
    /\ refs = [a \in Attachment |-> 0]
    /\ files = Attachment
    /\ owns = [h \in Holder |-> {}]

\* attachmentManager.AddRef when the row exists.
AddRef(h, a) ==
    /\ a \in meta
    /\ refs' = [refs EXCEPT ![a] = @ + 1]
    /\ owns' = [owns EXCEPT ![h] = @ \union {a}]
    /\ UNCHANGED <<meta, files>>

\* Mutant: the count is decremented without a look at its value.
MutRemoveRef(h, a) ==
    /\ refs' = [refs EXCEPT ![a] = @ - 1]
    /\ UNCHANGED <<meta, files, owns>>

\* attachmentManager.RemoveRef: the row is decremented, and deleted when the
\* count was 1 (or 0: the count never goes negative); then the file is deleted.
\* A missing row is an error that changes nothing.
RemoveRef(h, a) ==
    /\ owns' = [owns EXCEPT ![h] = @ \ {a}]
    /\ \/ /\ a \in meta /\ refs[a] > 1
          /\ refs' = [refs EXCEPT ![a] = @ - 1]
          /\ UNCHANGED <<meta, files>>
       \/ /\ a \in meta /\ refs[a] <= 1
          /\ refs' = [refs EXCEPT ![a] = 0]
          /\ meta' = meta \ {a}
          /\ files' = files \ {a}
       \/ /\ a \notin meta
          /\ UNCHANGED <<meta, refs, files>>

\* Mutant: the file is deleted before the row, and deleting the row fails.
MutRemoveRefKeepFile(h, a) ==
    /\ a \in meta /\ refs[a] <= 1
    /\ files' = files \ {a}
    /\ UNCHANGED <<meta, refs, owns>>

\* RemoveRef when files.Delete fails: the row is gone, the file is orphaned.
RemoveRefKeepFile(h, a) ==
    /\ a \in meta /\ refs[a] <= 1
    /\ owns' = [owns EXCEPT ![h] = @ \ {a}]
    /\ refs' = [refs EXCEPT ![a] = 0]
    /\ meta' = meta \ {a}
    /\ UNCHANGED files

\* Every row has its file: RemoveRef deletes the row first, so a failure in
\* between leaves an orphaned file and never a row that points at nothing
\* (attachment.go:143-146).
RowHasFile == meta \subseteq files
=============================================================================
